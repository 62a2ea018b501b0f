---------------------------- MODULE PersonTables ----------------------------
(***************************************************************************)
(* The three-table inheritance of hw3 (hw3_ddl.sql, hw3_procedures.sql):   *)
(* Person is the base table, Student and Faculty are derived tables that   *)
(* share its key.  Clients use six procedures; each is several statements, *)
(* and every statement commits on its own.                                 *)
(*                                                                         *)
(* A uni is a prefix made of the initials and a number.  Names, schools    *)
(* and titles are not kept; "by" records which call wrote a row last.      *)
(***************************************************************************)
EXTENDS Naturals, FiniteSets

CONSTANTS
    Sessions,  \* client connections
    Prefixes,  \* prefixes generate_uni makes from last and first name
    Matches,   \* per prefix, the prefixes of the unis that LIKE prefix% matches
    Sections,  \* call numbers of table sections
    Attrs,     \* years and pay grades clients pass
    Ops,       \* subset of {"insert", "update", "delete", "direct", "enrol"}
    Overlap,   \* may calls of different sessions overlap?
    Careful,   \* do clients pass valid arguments to the procedures?
    MaxCalls,  \* bound: number of calls
    Idle

VARIABLES
    person,              \* table Person: uni -> [type, by]
    derived,             \* tables Student and Faculty: kind -> uni -> by
    course_participant,  \* table course_participant: <<uni, section>> pairs
    call,                \* per session: the procedure it is in, or Idle
    calls                \* number of calls so far; the current one's ticket

tables == <<person, derived, course_participant>>

vars == <<person, derived, course_participant, call, calls>>

Kinds == {"Student", "Faculty"}

\* Person.type is free text; anything but the two kinds is "Other".
Types == Kinds \union {"Other"}

Uni == Prefixes \X (Nat \ {0})

Call ==
    [pc: {"trigger_person", "apply_person", "apply_direct", "insert_derived",
          "update_person", "update_derived", "delete_derived", "delete_person"},
     type: Types,  \* Person.type, and the derived table the procedure is about
     uni: Uni,     \* Newuni, or the uni the caller names
     new: Uni,     \* New.uni, which trigger_insert_person computes again
     attr: Nat, by: Nat]

ASSUME PersonAssumption ==
    /\ Matches \in [Prefixes -> SUBSET Prefixes]
    /\ \A p \in Prefixes: p \in Matches[p]
    /\ Attrs \subseteq Nat
    /\ Overlap \in BOOLEAN
    /\ Careful \in BOOLEAN
    /\ MaxCalls \in Nat
    /\ Idle \notin Call

TypeOK ==
    /\ DOMAIN person \subseteq Uni
    /\ person \in [DOMAIN person -> [type: Types, by: Nat]]
    /\ derived = [k \in Kinds |-> derived[k]]
    /\ \A k \in Kinds: /\ DOMAIN derived[k] \subseteq Uni
                       /\ derived[k] \in [DOMAIN derived[k] -> Nat]
    /\ course_participant \subseteq Uni \X Sections
    /\ call \in [Sessions -> Call \union {Idle}]
    /\ calls \in Nat

Empty == [u \in {} |-> 0]

Init ==
    /\ person = Empty
    /\ derived = [k \in Kinds |-> Empty]
    /\ course_participant = {}
    /\ call = [s \in Sessions |-> Idle]
    /\ calls = 0

-----------------------------------------------------------------------------
(* Tables: keys, foreign keys, triggers                                    *)

\* f with f[u] = v, whether or not u was in its domain.
Put(f, u, v) == [w \in DOMAIN f \union {u} |-> IF w = u THEN v ELSE f[w]]

Without(f, u) == [w \in DOMAIN f \ {u} |-> f[w]]

\* The count of the unis LIKE prefix%, plus one.
generate_uni(p) == <<p, Cardinality({u \in DOMAIN person : u[1] \in Matches[p]}) + 1>>

\* trigger_insert_student and trigger_update_student check the year,
\* trigger_insert_faculty and trigger_update_faculty the pay grade.
Valid(kind, attr) ==
    IF kind = "Student" THEN ~(attr > 2020 \/ attr < 2000) ELSE attr \in {1, 2, 3, 4, 5}

\* A row of Person that Student, Faculty or course_participant refers to.
Referenced(u) ==
    \/ \E k \in Kinds: u \in DOMAIN derived[k]
    \/ \E p \in course_participant: p[1] = u

\* INSERT INTO Student / Faculty passes its trigger and its keys.
Insertable(kind, u, attr) ==
    /\ u \in DOMAIN person
    /\ Valid(kind, attr)
    /\ u \notin DOMAIN derived[kind]

-----------------------------------------------------------------------------
(* Control                                                                 *)

Ready(s) ==
    /\ call[s] = Idle
    /\ Overlap \/ \A t \in Sessions: call[t] = Idle

MayStart(s) == Ready(s) /\ calls < MaxCalls

At(s, label) == call[s] # Idle /\ call[s].pc = label

Goto(s, label) == call' = [call EXCEPT ![s].pc = label]

Return(s) == call' = [call EXCEPT ![s] = Idle]

\* A call begins: its arguments are bound and it gets the next ticket.
Begin(s, label, type, u, attr) ==
    /\ MayStart(s)
    /\ calls' = calls + 1
    /\ call' = [call EXCEPT ![s] = [pc |-> label, type |-> type, uni |-> u,
                                    new |-> u, attr |-> attr, by |-> calls + 1]]
    /\ UNCHANGED tables

-----------------------------------------------------------------------------
(* insert_student, insert_faculty                                          *)

\* SET Newuni = generate_uni(last_name, first_name)
StartInsert(s, kind, p, attr) ==
    /\ "insert" \in Ops
    /\ Careful => Valid(kind, attr)
    /\ Begin(s, "trigger_person", kind, generate_uni(p), attr)

insert_student(s, p, year) == StartInsert(s, "Student", p, year)

insert_faculty(s, p, pay_grade) == StartInsert(s, "Faculty", p, pay_grade)

\* INSERT INTO Person typed by a user: its trigger sets the uni, any type is taken.
DirectPerson(s, type, p) ==
    /\ "direct" \in Ops
    /\ Begin(s, "apply_direct", type, generate_uni(p), 0)

\* INSERT INTO Person, the trigger: New.uni replaces the Newuni in the VALUES.
trigger_insert_person(s) ==
    /\ At(s, "trigger_person")
    /\ call' = [call EXCEPT ![s].new = generate_uni(call[s].uni[1]),
                            ![s].pc = "apply_person"]
    /\ UNCHANGED <<tables, calls>>

\* INSERT INTO Person, the row: a uni in use is a duplicate key and ends the call.
InsertPerson(s) ==
    LET c == call[s] IN
    /\ At(s, "apply_person") \/ At(s, "apply_direct")
    /\ IF c.new \in DOMAIN person
       THEN UNCHANGED person /\ Return(s)
       ELSE /\ person' = Put(person, c.new, [type |-> c.type, by |-> c.by])
            /\ IF c.pc = "apply_direct" THEN Return(s) ELSE Goto(s, "insert_derived")
    /\ UNCHANGED <<derived, course_participant, calls>>

\* INSERT INTO Student / Faculty with the Newuni of the first statement.
InsertDerived(s) ==
    LET c == call[s] IN
    /\ At(s, "insert_derived")
    /\ derived' = IF Insertable(c.type, c.uni, c.attr)
                  THEN [derived EXCEPT ![c.type] = Put(@, c.uni, c.by)]
                  ELSE derived
    /\ Return(s)
    /\ UNCHANGED <<person, course_participant, calls>>

\* INSERT INTO Student / Faculty typed by a user.
DirectDerived(s, kind, u, attr) ==
    /\ "direct" \in Ops
    /\ MayStart(s)
    /\ Insertable(kind, u, attr)
    /\ calls' = calls + 1
    /\ derived' = [derived EXCEPT ![kind] = Put(@, u, calls + 1)]
    /\ UNCHANGED <<person, course_participant, call>>

-----------------------------------------------------------------------------
(* update_student, update_faculty, delete_student, delete_faculty          *)

\* The check that the uni exists in Person; nothing checks its type.
StartUpdate(s, kind, u, attr) ==
    /\ "update" \in Ops
    /\ u \in DOMAIN person
    /\ Careful => person[u].type = kind /\ Valid(kind, attr)
    /\ Begin(s, "update_person", kind, u, attr)

update_student(s, u, year) == StartUpdate(s, "Student", u, year)

update_faculty(s, u, pay_grade) == StartUpdate(s, "Faculty", u, pay_grade)

UpdatePerson(s) ==
    LET u == call[s].uni IN
    /\ At(s, "update_person")
    /\ person' = IF u \in DOMAIN person
                 THEN [person EXCEPT ![u].by = call[s].by] ELSE person
    /\ Goto(s, "update_derived")
    /\ UNCHANGED <<derived, course_participant, calls>>

UpdateDerived_BaseOnly(s) ==
    /\ At(s, "update_derived")
    /\ Return(s)
    /\ UNCHANGED <<person, derived, course_participant, calls>>

\* The trigger refuses an invalid year or pay grade.
UpdateDerived(s) ==
    LET c == call[s] IN
    /\ At(s, "update_derived")
    /\ derived' = IF c.uni \in DOMAIN derived[c.type] /\ Valid(c.type, c.attr)
                  THEN [derived EXCEPT ![c.type][c.uni] = c.by] ELSE derived
    /\ Return(s)
    /\ UNCHANGED <<person, course_participant, calls>>

StartDelete(s, kind, u) ==
    /\ "delete" \in Ops
    /\ u \in DOMAIN person
    /\ Careful => /\ person[u].type = kind
                  /\ \A p \in course_participant: p[1] # u
    /\ Begin(s, "delete_derived", kind, u, 0)

delete_student(s, u) == StartDelete(s, "Student", u)

delete_faculty(s, u) == StartDelete(s, "Faculty", u)

DeleteDerived(s) ==
    LET c == call[s] IN
    /\ At(s, "delete_derived")
    /\ derived' = [derived EXCEPT ![c.type] = Without(@, c.uni)]
    /\ Goto(s, "delete_person")
    /\ UNCHANGED <<person, course_participant, calls>>

\* Refused while a foreign key points at the row.
DeletePerson(s) ==
    LET u == call[s].uni IN
    /\ At(s, "delete_person")
    /\ person' = IF Referenced(u) THEN person ELSE Without(person, u)
    /\ Return(s)
    /\ UNCHANGED <<derived, course_participant, calls>>

-----------------------------------------------------------------------------

\* INSERT INTO course_participant with nothing but its keys.
Enrol(s, u, sec) ==
    /\ "enrol" \in Ops
    /\ Ready(s)
    /\ u \in DOMAIN person
    /\ <<u, sec>> \notin course_participant
    /\ course_participant' = course_participant \union {<<u, sec>>}
    /\ UNCHANGED <<person, derived, call, calls>>

PersonStep(s) ==
    \/ \E p \in Prefixes, a \in Attrs: insert_student(s, p, a) \/ insert_faculty(s, p, a)
    \/ \E type \in Types, p \in Prefixes: DirectPerson(s, type, p)
    \/ trigger_insert_person(s)
    \/ InsertPerson(s)
    \/ InsertDerived(s)
    \/ \E kind \in Kinds, u \in DOMAIN person, a \in Attrs: DirectDerived(s, kind, u, a)
    \/ \E u \in DOMAIN person, a \in Attrs: update_student(s, u, a) \/ update_faculty(s, u, a)
    \/ UpdatePerson(s)
    \/ UpdateDerived(s)
    \/ \E u \in DOMAIN person: delete_student(s, u) \/ delete_faculty(s, u)
    \/ DeleteDerived(s)
    \/ DeletePerson(s)

Next ==
    \E s \in Sessions:
        \/ PersonStep(s)
        \/ \E u \in DOMAIN person, sec \in Sections: Enrol(s, u, sec)

Spec == Init /\ [][Next]_vars

-----------------------------------------------------------------------------
(* Properties *)

Quiet == \A s \in Sessions: call[s] = Idle

\* Between calls every person has one derived row, in the table their type
\* names, written by the call that wrote the Person row ("Each procedure would
\* affect both the derived entity and base entity", hw3 document).
WholePersons ==
    Quiet => /\ \A u \in DOMAIN person: u \in DOMAIN derived[person[u].type]
             /\ \A kind \in Kinds: \A u \in DOMAIN derived[kind]:
                   /\ person[u].type = kind
                   /\ person[u].by = derived[kind][u]
=============================================================================
