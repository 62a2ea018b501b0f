------------------------- MODULE PersonTablesProofs -------------------------
(***************************************************************************)
(* Theorems about PersonTables for every set of sessions, prefixes and     *)
(* sections.                                                               *)
(***************************************************************************)
EXTENDS PersonTables, FiniteSetTheorems, TLAPS

\* The types, and what generate_uni needs to count: finitely many persons.
FiniteTypeOK ==
    /\ TypeOK
    /\ IsFiniteSet(DOMAIN person)

\* generate_uni returns a uni.
LEMMA GeneratedUni ==
    ASSUME NEW p \in Prefixes, IsFiniteSet(DOMAIN person)
    PROVE  generate_uni(p) \in Uni
<1> DEFINE S == {u \in DOMAIN person : u[1] \in Matches[p]}
<1>1. IsFiniteSet(S)
  BY FS_Subset
<1>2. Cardinality(S) \in Nat
  BY <1>1, FS_CardinalityType
<1>3. Cardinality(S) + 1 \in Nat \ {0}
  BY <1>2
<1>4. generate_uni(p) = <<p, Cardinality(S) + 1>>
  BY DEF generate_uni
<1> QED
  BY <1>3, <1>4 DEF Uni

\* A call that begins is well typed.
LEMMA BeginTyped ==
    ASSUME FiniteTypeOK, NEW s \in Sessions,
           NEW label \in {"trigger_person", "apply_direct", "update_person", "delete_derived"},
           NEW type \in Types, NEW u \in Uni, NEW attr \in Nat,
           Begin(s, label, type, u, attr)
    PROVE  FiniteTypeOK'
<1>1. [pc |-> label, type |-> type, uni |-> u, new |-> u, attr |-> attr, by |-> calls + 1] \in Call
  BY DEF Call, FiniteTypeOK, TypeOK
<1> QED
  BY <1>1 DEF Begin, tables, FiniteTypeOK, TypeOK

\* So is one that moves on.
LEMMA GotoTyped ==
    ASSUME TypeOK, NEW s \in Sessions, call[s] # Idle,
           NEW label \in {"insert_derived", "update_derived", "delete_person"},
           Goto(s, label) \/ Return(s)
    PROVE  call' \in [Sessions -> Call \union {Idle}]
<1>1. [call[s] EXCEPT !.pc = label] \in Call
  BY DEF TypeOK, Call
<1>2. \/ call' = [call EXCEPT ![s] = [call[s] EXCEPT !.pc = label]]
      \/ call' = [call EXCEPT ![s] = Idle]
  BY DEF Goto, Return
<1> QED
  BY <1>1, <1>2 DEF TypeOK

\* Writing and removing a row of a table keeps it a table.
LEMMA PutTyped ==
    ASSUME NEW R, NEW f, DOMAIN f \subseteq Uni, f \in [DOMAIN f -> R],
           NEW u \in Uni, NEW v \in R
    PROVE  /\ DOMAIN Put(f, u, v) = DOMAIN f \union {u}
           /\ DOMAIN Put(f, u, v) \subseteq Uni
           /\ Put(f, u, v) \in [DOMAIN Put(f, u, v) -> R]
BY DEF Put

LEMMA WithoutTyped ==
    ASSUME NEW R, NEW f, DOMAIN f \subseteq Uni, f \in [DOMAIN f -> R], NEW u
    PROVE  /\ DOMAIN Without(f, u) = DOMAIN f \ {u}
           /\ DOMAIN Without(f, u) \subseteq Uni
           /\ Without(f, u) \in [DOMAIN Without(f, u) -> R]
BY DEF Without

DerivedTyped(d) ==
    /\ d = [k \in Kinds |-> d[k]]
    /\ \A k \in Kinds: /\ DOMAIN d[k] \subseteq Uni
                       /\ d[k] \in [DOMAIN d[k] -> Nat]

LEMMA WriteDerived ==
    ASSUME NEW d, DerivedTyped(d), NEW kind, NEW u \in Uni, NEW v \in Nat
    PROVE  DerivedTyped([d EXCEPT ![kind] = Put(d[kind], u, v)])
<1> DEFINE e == [d EXCEPT ![kind] = Put(d[kind], u, v)]
<1>1. CASE kind \notin Kinds
  <2>1. e = d
    BY <1>1 DEF DerivedTyped
  <2> QED
    BY <2>1
<1>2. CASE kind \in Kinds
  <2>1. /\ DOMAIN Put(d[kind], u, v) \subseteq Uni
        /\ Put(d[kind], u, v) \in [DOMAIN Put(d[kind], u, v) -> Nat]
    BY ZenonT(60), <1>2, PutTyped DEF DerivedTyped
  <2> QED
    BY ZenonT(60), <2>1 DEF DerivedTyped
<1> QED
  BY <1>1, <1>2

LEMMA ChangeDerived ==
    ASSUME NEW d, DerivedTyped(d), NEW kind, NEW u, NEW v \in Nat
    PROVE  DerivedTyped([d EXCEPT ![kind] = [d[kind] EXCEPT ![u] = v]])
<1> DEFINE e == [d EXCEPT ![kind] = [d[kind] EXCEPT ![u] = v]]
<1>1. CASE kind \notin Kinds
  <2>1. e = d
    BY <1>1 DEF DerivedTyped
  <2> QED
    BY <2>1
<1>2. CASE kind \in Kinds
  BY ZenonT(60), <1>2 DEF DerivedTyped
<1> QED
  BY <1>1, <1>2

LEMMA RemoveDerived ==
    ASSUME NEW d, DerivedTyped(d), NEW kind, NEW u
    PROVE  DerivedTyped([d EXCEPT ![kind] = Without(d[kind], u)])
<1> DEFINE e == [d EXCEPT ![kind] = Without(d[kind], u)]
<1>1. CASE kind \notin Kinds
  <2>1. e = d
    BY <1>1 DEF DerivedTyped
  <2> QED
    BY <2>1
<1>2. CASE kind \in Kinds
  <2>1. /\ DOMAIN Without(d[kind], u) \subseteq Uni
        /\ Without(d[kind], u) \in [DOMAIN Without(d[kind], u) -> Nat]
    BY ZenonT(60), <1>2, WithoutTyped DEF DerivedTyped
  <2> QED
    BY ZenonT(60), <2>1 DEF DerivedTyped
<1> QED
  BY <1>1, <1>2

\* Every step keeps the types, and finitely many persons.
LEMMA FiniteTypeStep ==
    ASSUME FiniteTypeOK, [Next]_vars
    PROVE  FiniteTypeOK'
<1> USE PersonAssumption
<1>0. TypeOK /\ IsFiniteSet(DOMAIN person)
  BY DEF FiniteTypeOK
<1>d. DerivedTyped(derived)
  BY <1>0 DEF TypeOK, DerivedTyped
<1>1. ASSUME NEW s \in Sessions, NEW kind \in Kinds, NEW p \in Prefixes, NEW a \in Attrs,
             StartInsert(s, kind, p, a)
      PROVE  FiniteTypeOK'
  <2>1. generate_uni(p) \in Uni /\ kind \in Types /\ a \in Nat
    BY <1>0, GeneratedUni DEF Types
  <2> QED
    BY <1>1, <2>1, BeginTyped DEF StartInsert
<1>2. ASSUME NEW s \in Sessions, NEW type \in Types, NEW p \in Prefixes,
             DirectPerson(s, type, p)
      PROVE  FiniteTypeOK'
  <2>1. generate_uni(p) \in Uni /\ 0 \in Nat
    BY <1>0, GeneratedUni
  <2> QED
    BY <1>2, <2>1, BeginTyped DEF DirectPerson
<1>3. ASSUME NEW s \in Sessions, trigger_insert_person(s)
      PROVE  FiniteTypeOK'
  <2>1. call[s] \in Call /\ call[s].uni[1] \in Prefixes
    BY <1>0, <1>3 DEF TypeOK, trigger_insert_person, At, Call, Uni
  <2> DEFINE c == [call[s] EXCEPT !.new = generate_uni(call[s].uni[1]), !.pc = "apply_person"]
  <2>2. generate_uni(call[s].uni[1]) \in Uni
    BY <1>0, <2>1, GeneratedUni
  <2>3. c \in Call
    BY ZenonT(60), <2>1, <2>2 DEF Call
  <2>4. call' = [call EXCEPT ![s] = c]
    BY ZenonT(60), <1>3 DEF trigger_insert_person
  <2> HIDE DEF c
  <2> QED
    BY ZenonT(60), <1>0, <1>3, <2>3, <2>4 DEF trigger_insert_person, tables, FiniteTypeOK, TypeOK
<1>4. ASSUME NEW s \in Sessions, InsertPerson(s)
      PROVE  FiniteTypeOK'
  <2> DEFINE c == call[s]
  <2>1. c # Idle /\ c \in Call
    BY <1>0, <1>4 DEF TypeOK, InsertPerson, At
  <2>2. c.new \in Uni /\ [type |-> c.type, by |-> c.by] \in [type: Types, by: Nat]
    BY <2>1 DEF Call
  <2>3. call' \in [Sessions -> Call \union {Idle}]
    BY <1>0, <1>4, <2>1, GotoTyped DEF InsertPerson
  <2>4. /\ DOMAIN person' \subseteq Uni
        /\ person' \in [DOMAIN person' -> [type: Types, by: Nat]]
        /\ IsFiniteSet(DOMAIN person')
    <3>1. CASE c.new \in DOMAIN person
      BY <1>0, <1>4, <3>1 DEF InsertPerson, TypeOK
    <3>2. CASE c.new \notin DOMAIN person
      <4> DEFINE v == [type |-> c.type, by |-> c.by]
      <4>1. person' = Put(person, c.new, v)
        BY <1>4, <3>2 DEF InsertPerson
      <4>2. v \in [type: Types, by: Nat]
        BY <2>2
      <4> HIDE DEF v
      <4>3. /\ DOMAIN person' = DOMAIN person \union {c.new}
            /\ DOMAIN person' \subseteq Uni
            /\ person' \in [DOMAIN person' -> [type: Types, by: Nat]]
        <5>1. /\ DOMAIN person \subseteq Uni
              /\ person \in [DOMAIN person -> [type: Types, by: Nat]]
          BY <1>0 DEF TypeOK
        <5> HIDE DEF c
        <5> QED
          BY <2>2, <4>1, <4>2, <5>1 DEF Put
      <4> QED
        BY SMTT(60), <1>0, <4>3, FS_AddElement
    <3> QED
      BY <3>1, <3>2
  <2> QED
    BY <1>0, <1>4, <2>3, <2>4 DEF InsertPerson, FiniteTypeOK, TypeOK
<1>5. ASSUME NEW s \in Sessions, InsertDerived(s)
      PROVE  FiniteTypeOK'
  <2> DEFINE c == call[s]
  <2>1. c \in Call
    BY <1>0, <1>5 DEF TypeOK, InsertDerived, At
  <2>2. c.uni \in Uni /\ c.by \in Nat
    BY <2>1 DEF Call
  <2>3. call' \in [Sessions -> Call \union {Idle}]
    BY <1>0, <1>5 DEF InsertDerived, Return, TypeOK
  <2>4. \/ derived' = derived
        \/ derived' = [derived EXCEPT ![c.type] = Put(derived[c.type], c.uni, c.by)]
    BY <1>5 DEF InsertDerived
  <2> HIDE DEF c
  <2>5. DerivedTyped(derived')
    <3>1. DerivedTyped([derived EXCEPT ![c.type] = Put(derived[c.type], c.uni, c.by)])
      BY ZenonT(60), <1>d, <2>2, WriteDerived
    <3> QED
      BY <1>d, <2>4, <3>1
  <2> QED
    BY ZenonT(60), <1>0, <1>5, <2>3, <2>5 DEF InsertDerived, FiniteTypeOK, TypeOK, DerivedTyped
<1>6. ASSUME NEW s \in Sessions, NEW kind \in Kinds, NEW u \in DOMAIN person, NEW a \in Attrs,
             DirectDerived(s, kind, u, a)
      PROVE  FiniteTypeOK'
  <2>1. u \in Uni /\ calls + 1 \in Nat
    BY <1>0 DEF TypeOK
  <2>2. derived' = [derived EXCEPT ![kind] = Put(derived[kind], u, calls + 1)]
    BY <1>6 DEF DirectDerived
  <2>3. DerivedTyped(derived')
    BY ZenonT(60), <1>d, <2>1, <2>2, WriteDerived
  <2> QED
    BY <1>0, <1>6, <2>1, <2>3 DEF DirectDerived, FiniteTypeOK, TypeOK, DerivedTyped
<1>7. ASSUME NEW s \in Sessions, NEW kind \in Kinds, NEW u \in DOMAIN person, NEW a \in Attrs,
             StartUpdate(s, kind, u, a)
      PROVE  FiniteTypeOK'
  <2>1. u \in Uni /\ kind \in Types /\ a \in Nat
    BY <1>0 DEF TypeOK, Types
  <2> QED
    BY <1>7, <2>1, BeginTyped DEF StartUpdate
<1>8. ASSUME NEW s \in Sessions, UpdatePerson(s)
      PROVE  FiniteTypeOK'
  <2>1. call[s] \in Call /\ call[s] # Idle
    BY <1>0, <1>8 DEF TypeOK, UpdatePerson, At
  <2>2. call' \in [Sessions -> Call \union {Idle}]
    BY <1>0, <1>8, <2>1, GotoTyped DEF UpdatePerson
  <2>3. call[s].by \in Nat
    BY <2>1 DEF Call
  <2>4. DOMAIN person' = DOMAIN person /\ person' \in [DOMAIN person -> [type: Types, by: Nat]]
    BY <1>0, <1>8, <2>3 DEF UpdatePerson, TypeOK
  <2> QED
    BY <1>0, <1>8, <2>2, <2>4 DEF UpdatePerson, FiniteTypeOK, TypeOK
<1>9. ASSUME NEW s \in Sessions, UpdateDerived(s)
      PROVE  FiniteTypeOK'
  <2> DEFINE c == call[s]
  <2>1. c \in Call
    BY <1>0, <1>9 DEF TypeOK, UpdateDerived, At
  <2>2. c.by \in Nat
    BY <2>1 DEF Call
  <2>3. call' \in [Sessions -> Call \union {Idle}]
    BY <1>0, <1>9 DEF UpdateDerived, Return, TypeOK
  <2>4. \/ derived' = derived
        \/ derived' = [derived EXCEPT ![c.type] = [derived[c.type] EXCEPT ![c.uni] = c.by]]
    BY <1>9 DEF UpdateDerived
  <2> HIDE DEF c
  <2>5. DerivedTyped(derived')
    <3>1. DerivedTyped([derived EXCEPT ![c.type] = [derived[c.type] EXCEPT ![c.uni] = c.by]])
      BY ZenonT(60), <1>d, <2>2, ChangeDerived
    <3> QED
      BY <1>d, <2>4, <3>1
  <2> QED
    BY ZenonT(60), <1>0, <1>9, <2>3, <2>5 DEF UpdateDerived, FiniteTypeOK, TypeOK, DerivedTyped
<1>10. ASSUME NEW s \in Sessions, NEW kind \in Kinds, NEW u \in DOMAIN person,
              StartDelete(s, kind, u)
       PROVE  FiniteTypeOK'
  <2>1. u \in Uni /\ kind \in Types /\ 0 \in Nat
    BY <1>0 DEF TypeOK, Types
  <2> QED
    BY <1>10, <2>1, BeginTyped DEF StartDelete
<1>11. ASSUME NEW s \in Sessions, DeleteDerived(s)
       PROVE  FiniteTypeOK'
  <2> DEFINE c == call[s]
  <2>1. c \in Call /\ c # Idle
    BY <1>0, <1>11 DEF TypeOK, DeleteDerived, At
  <2>2. call' \in [Sessions -> Call \union {Idle}]
    BY <1>0, <1>11, <2>1, GotoTyped DEF DeleteDerived
  <2>3. derived' = [derived EXCEPT ![c.type] = Without(derived[c.type], c.uni)]
    BY <1>11 DEF DeleteDerived
  <2> HIDE DEF c
  <2>4. DerivedTyped(derived')
    BY ZenonT(60), <1>d, <2>3, RemoveDerived
  <2> QED
    BY ZenonT(60), <1>0, <1>11, <2>2, <2>4 DEF DeleteDerived, FiniteTypeOK, TypeOK, DerivedTyped
<1>12. ASSUME NEW s \in Sessions, DeletePerson(s)
       PROVE  FiniteTypeOK'
  <2> DEFINE u == call[s].uni
  <2>1. call' \in [Sessions -> Call \union {Idle}]
    BY <1>0, <1>12 DEF DeletePerson, Return, TypeOK
  <2>2. person' = person \/ person' = Without(person, u)
    BY <1>12 DEF DeletePerson
  <2> HIDE DEF u
  <2>3. /\ DOMAIN person \subseteq Uni
        /\ person \in [DOMAIN person -> [type: Types, by: Nat]]
    BY <1>0 DEF TypeOK
  <2>4. /\ DOMAIN person' \subseteq DOMAIN person
        /\ person' \in [DOMAIN person' -> [type: Types, by: Nat]]
    BY <2>2, <2>3 DEF Without
  <2>5. IsFiniteSet(DOMAIN person')
    BY <1>0, <2>4, FS_Subset
  <2> QED
    BY <1>0, <1>12, <2>1, <2>4, <2>5 DEF DeletePerson, FiniteTypeOK, TypeOK
<1>13. ASSUME NEW s \in Sessions, NEW u \in DOMAIN person, NEW sec \in Sections, Enrol(s, u, sec)
       PROVE  FiniteTypeOK'
  BY <1>0, <1>13 DEF Enrol, FiniteTypeOK, TypeOK
<1>14. CASE UNCHANGED vars
  BY <1>0, <1>14 DEF vars, FiniteTypeOK, TypeOK
<1> QED
  BY <1>1, <1>2, <1>3, <1>4, <1>5, <1>6, <1>7, <1>8, <1>9, <1>10, <1>11, <1>12, <1>13, <1>14
  DEF Next, PersonStep, insert_student, insert_faculty, update_student, update_faculty,
      delete_student, delete_faculty, Kinds

LEMMA FiniteTypeInit == Init => FiniteTypeOK
BY FS_EmptySet DEF Init, FiniteTypeOK, TypeOK, Empty

\* Every variable keeps its type under every procedure and trigger.
THEOREM TypeCorrect == Spec => []TypeOK
<1>1. FiniteTypeOK /\ [Next]_vars => FiniteTypeOK'
  BY FiniteTypeStep
<1>2. FiniteTypeOK => TypeOK
  BY DEF FiniteTypeOK
<1> QED
  BY <1>1, <1>2, FiniteTypeInit, PTL DEF Spec

\* What the foreign keys keep: the views, which join Student and Faculty with
\* Person, lose no row, and a participant has its Person.
ViewsComplete ==
    /\ \A kind \in Kinds: DOMAIN derived[kind] \subseteq DOMAIN person
    /\ \A p \in course_participant: p[1] \in DOMAIN person

\* They keep it however calls overlap or fail.
LEMMA ViewsAreComplete == Spec => []ViewsComplete
<1>1. Init => ViewsComplete
  BY DEF Init, ViewsComplete, Empty
<1>2. TypeOK /\ ViewsComplete /\ [Next]_vars => ViewsComplete'
  <2> SUFFICES ASSUME TypeOK, ViewsComplete, [Next]_vars PROVE ViewsComplete'
    OBVIOUS
  <2> USE DEF ViewsComplete
  <2>1. CASE UNCHANGED tables
    BY <2>1 DEF tables
  <2>2. ASSUME NEW s \in Sessions, InsertPerson(s)
        PROVE  ViewsComplete'
    <3>1. DOMAIN person \subseteq DOMAIN person'
      BY <2>2 DEF InsertPerson, Put
    <3> QED
      BY <2>2, <3>1 DEF InsertPerson
  <2>3. ASSUME NEW kind, NEW u \in DOMAIN person, NEW v,
               derived' = [derived EXCEPT ![kind] = Put(derived[kind], u, v)],
               UNCHANGED <<person, course_participant>>
        PROVE  ViewsComplete'
    <3>1. \A k \in Kinds: DOMAIN derived'[k] \subseteq DOMAIN derived[k] \union {u}
      BY <2>3 DEF Put, TypeOK
    <3> QED
      BY <2>3, <3>1
  <2>4. ASSUME NEW s \in Sessions, InsertDerived(s)
        PROVE  ViewsComplete'
    <3>1. CASE derived' = derived
      BY <2>4, <3>1 DEF InsertDerived
    <3>2. CASE derived' # derived
      BY ZenonT(60), <2>3, <2>4, <3>2 DEF InsertDerived, Insertable
    <3> QED
      BY <3>1, <3>2
  <2>5. ASSUME NEW s \in Sessions, NEW kind \in Kinds, NEW u \in DOMAIN person, NEW a \in Attrs,
               DirectDerived(s, kind, u, a)
        PROVE  ViewsComplete'
    BY ZenonT(60), <2>3, <2>5 DEF DirectDerived
  <2>6. ASSUME NEW s \in Sessions, UpdatePerson(s)
        PROVE  ViewsComplete'
    <3>1. DOMAIN person' = DOMAIN person
      BY <2>6 DEF UpdatePerson, TypeOK
    <3> QED
      BY <2>6, <3>1 DEF UpdatePerson
  <2>7. ASSUME NEW s \in Sessions, UpdateDerived(s) \/ DeleteDerived(s)
        PROVE  ViewsComplete'
    <3>1. \A k \in Kinds: DOMAIN derived'[k] \subseteq DOMAIN derived[k]
      <4>1. CASE UpdateDerived(s)
        BY <4>1 DEF UpdateDerived, TypeOK
      <4>2. CASE DeleteDerived(s)
        BY <4>2 DEF DeleteDerived, Without, TypeOK
      <4> QED
        BY <2>7, <4>1, <4>2
    <3>2. UNCHANGED <<person, course_participant>>
      BY <2>7 DEF UpdateDerived, DeleteDerived
    <3> QED
      BY <3>1, <3>2
  <2>8. ASSUME NEW s \in Sessions, DeletePerson(s)
        PROVE  ViewsComplete'
    <3>1. CASE Referenced(call[s].uni)
      BY <2>8, <3>1 DEF DeletePerson
    <3>2. CASE ~Referenced(call[s].uni)
      <4>1. DOMAIN person' = DOMAIN person \ {call[s].uni}
        BY <2>8, <3>2 DEF DeletePerson, Without
      <4> QED
        BY <2>8, <3>2, <4>1 DEF DeletePerson, Referenced
    <3> QED
      BY <3>1, <3>2
  <2>9. ASSUME NEW s \in Sessions, NEW u \in DOMAIN person, NEW sec \in Sections, Enrol(s, u, sec)
        PROVE  ViewsComplete'
    BY <2>9 DEF Enrol
  <2> QED
    BY ZenonT(60), <2>1, <2>2, <2>4, <2>5, <2>6, <2>7, <2>8, <2>9
    DEF Next, PersonStep, insert_student, insert_faculty, StartInsert, DirectPerson, Begin,
        trigger_insert_person, update_student, update_faculty, StartUpdate, delete_student,
        delete_faculty, StartDelete, vars, tables
<1> QED
  BY <1>1, <1>2, TypeCorrect, PTL DEF Spec

-----------------------------------------------------------------------------
(* WholePersons, for careful clients whose calls do not overlap.           *)

\* Person u has one derived row, in the right table and of the same call, or u
\* is in no table at all.
Consistent(u) ==
    (u \in DOMAIN person \/ \E k \in Kinds: u \in DOMAIN derived[k]) =>
        /\ u \in DOMAIN person
        /\ person[u].type \in Kinds
        /\ \A k \in Kinds: /\ u \in DOMAIN derived[k] <=> k = person[u].type
                           /\ u \in DOMAIN derived[k] => derived[k][u] = person[u].by

\* A call is between its statement on Person and the one on the derived table.
Half(u) ==
    \E s \in Sessions:
        /\ call[s] # Idle
        /\ call[s].uni = u
        /\ call[s].pc \in {"insert_derived", "update_derived", "delete_person"}

\* What a call that is under way knows about its person.
Midway(s) ==
    LET c == call[s]
        u == c.uni
    IN /\ c.type \in Kinds
       /\ c.pc # "apply_direct"
       /\ c.pc = "trigger_person" => u = generate_uni(u[1])
       /\ c.pc = "apply_person" => c.new = u
       /\ c.pc \notin {"delete_derived", "delete_person"} => Valid(c.type, c.attr)
       /\ c.pc \notin {"trigger_person", "apply_person"} =>
             u \in DOMAIN person /\ person[u].type = c.type
       /\ c.pc \in {"insert_derived", "update_derived"} => person[u].by = c.by
       /\ c.pc \in {"insert_derived", "delete_person"} =>
             \A k \in Kinds: u \notin DOMAIN derived[k]
       /\ c.pc = "update_derived" => \A k \in Kinds: u \in DOMAIN derived[k] <=> k = c.type
       /\ c.pc \in {"delete_derived", "delete_person"} =>
             \A p \in course_participant: p[1] # u

WholeInv ==
    /\ \A s, t \in Sessions: call[s] # Idle /\ call[t] # Idle => s = t
    /\ \A s \in Sessions: call[s] # Idle => Midway(s)
    /\ \A u \in Uni: Half(u) \/ Consistent(u)

HalfWay == {"insert_derived", "update_derived", "delete_person"}

\* With one call at a time it is enough to look at the session that steps.
LEMMA OneSession ==
    ASSUME NEW s \in Sessions,
           \A t \in Sessions \ {s}: call'[t] = Idle,
           call'[s] # Idle => Midway(s)',
           \A u \in Uni:
              \/ call'[s] # Idle /\ call'[s].uni = u /\ call'[s].pc \in HalfWay
              \/ Consistent(u)'
    PROVE  WholeInv'
<1>1. (\A r, t \in Sessions: call[r] # Idle /\ call[t] # Idle => r = t)'
  OBVIOUS
<1>2. (\A r \in Sessions: call[r] # Idle => Midway(r))'
  OBVIOUS
<1>3. (\A u \in Uni: Half(u) \/ Consistent(u))'
  BY DEF Half, HalfWay
<1> QED
  BY <1>1, <1>2, <1>3 DEF WholeInv

\* A call that begins while every session is idle.
LEMMA BeginWhole ==
    ASSUME ~Overlap, TypeOK, WholeInv, NEW s \in Sessions,
           NEW label \in {"trigger_person", "update_person", "delete_derived"},
           NEW type, NEW u, NEW attr, Begin(s, label, type, u, attr), Midway(s)'
    PROVE  WholeInv'
<1>1. \A t \in Sessions: call[t] = Idle
  BY DEF Begin, MayStart, Ready
<1>2. \A w \in Uni: Consistent(w)
  BY <1>1 DEF WholeInv, Half
<1>3. \A w \in Uni: Consistent(w)'
  BY <1>2 DEF Begin, tables, Consistent
<1>4. \A t \in Sessions \ {s}: call'[t] = Idle
  BY <1>1 DEF Begin, TypeOK
<1> QED
  BY <1>3, <1>4, OneSession

LEMMA WholeStep ==
    ASSUME ~Overlap, Careful, "direct" \notin Ops, TypeOK, ViewsComplete, WholeInv, [Next]_vars
    PROVE  WholeInv'
<1> USE PersonAssumption
<1>a. ASSUME NEW s \in Sessions, call[s] # Idle
      PROVE  /\ \A t \in Sessions \ {s}: call[t] = Idle
             /\ call[s] \in Call
             /\ Midway(s)
             /\ \A u \in Uni: \/ u = call[s].uni /\ call[s].pc \in HalfWay
                              \/ Consistent(u)
  BY <1>a DEF WholeInv, TypeOK, Half, HalfWay
<1>1. ASSUME NEW s \in Sessions, NEW kind \in Kinds, NEW p \in Prefixes, NEW a \in Attrs,
             StartInsert(s, kind, p, a)
      PROVE  WholeInv'
  <2> DEFINE u == generate_uni(p)
  <2>1. Begin(s, "trigger_person", kind, u, a) /\ Valid(kind, a)
    BY <1>1 DEF StartInsert
  <2>2. u[1] = p /\ generate_uni(p)' = u
    BY <2>1 DEF Begin, tables, generate_uni
  <2> HIDE DEF u
  <2>3. call'[s] = [pc |-> "trigger_person", type |-> kind, uni |-> u, new |-> u,
                    attr |-> a, by |-> calls + 1]
    BY <2>1 DEF Begin, TypeOK
  <2>4. Midway(s)'
    BY <2>1, <2>2, <2>3 DEF Midway, Valid
  <2> QED
    BY <2>1, <2>4, BeginWhole
<1>2. ASSUME NEW s \in Sessions, NEW kind \in Kinds, NEW u \in DOMAIN person, NEW a \in Attrs,
             StartUpdate(s, kind, u, a)
      PROVE  WholeInv'
  <2>1. Begin(s, "update_person", kind, u, a) /\ Valid(kind, a) /\ person[u].type = kind
    BY <1>2 DEF StartUpdate
  <2>2. call'[s] = [pc |-> "update_person", type |-> kind, uni |-> u, new |-> u,
                    attr |-> a, by |-> calls + 1]
    BY <2>1 DEF Begin, TypeOK
  <2>3. Midway(s)'
    BY SMTT(60), <2>1, <2>2 DEF Midway, Valid, Begin, tables
  <2> QED
    BY <2>1, <2>3, BeginWhole
<1>3. ASSUME NEW s \in Sessions, NEW kind \in Kinds, NEW u \in DOMAIN person,
             StartDelete(s, kind, u)
      PROVE  WholeInv'
  <2>1. /\ Begin(s, "delete_derived", kind, u, 0)
        /\ person[u].type = kind
        /\ \A q \in course_participant: q[1] # u
    BY <1>3 DEF StartDelete
  <2>2. call'[s] = [pc |-> "delete_derived", type |-> kind, uni |-> u, new |-> u,
                    attr |-> 0, by |-> calls + 1]
    BY <2>1 DEF Begin, TypeOK
  <2>3. Midway(s)'
    BY <2>1, <2>2 DEF Midway, Begin, tables
  <2> QED
    BY <2>1, <2>3, BeginWhole
<1>4. ASSUME NEW s \in Sessions, trigger_insert_person(s)
      PROVE  WholeInv'
  <2>1. call[s] # Idle /\ call[s].pc = "trigger_person"
    BY <1>4 DEF trigger_insert_person, At
  <2>2. /\ call'[s] = [call[s] EXCEPT !.new = generate_uni(call[s].uni[1]), !.pc = "apply_person"]
        /\ \A t \in Sessions \ {s}: call'[t] = call[t]
    BY <1>4 DEF trigger_insert_person, TypeOK
  <2>3. call[s] \in Call /\ Midway(s)
    BY <1>a, <2>1
  <2>4. /\ call'[s].pc = "apply_person"
        /\ call'[s].new = generate_uni(call[s].uni[1])
        /\ call'[s].uni = call[s].uni
        /\ call'[s].type = call[s].type
        /\ call'[s].attr = call[s].attr
    BY <2>2, <2>3 DEF Call
  <2>5. Midway(s)'
    BY <2>1, <2>3, <2>4 DEF Midway, Valid
  <2>6. \A u \in Uni: Consistent(u)'
    BY <1>4, <1>a, <2>1 DEF trigger_insert_person, tables, Consistent, HalfWay
  <2> QED
    BY <1>a, <2>1, <2>2, <2>5, <2>6, OneSession
<1>5. ASSUME NEW s \in Sessions, InsertPerson(s)
      PROVE  WholeInv'
  <2> DEFINE c == call[s]
  <2>1. c # Idle /\ c \in Call /\ Midway(s)
    BY <1>5, <1>a DEF InsertPerson, At
  <2>2. c.pc = "apply_person" /\ c.new = c.uni /\ c.type \in Kinds /\ Valid(c.type, c.attr)
    BY <1>5, <2>1 DEF InsertPerson, At, Midway
  <2>3. \A u \in Uni: Consistent(u)
    BY <1>a, <2>1, <2>2 DEF HalfWay
  <2>4. CASE c.uni \in DOMAIN person
    <3>1. call' = [call EXCEPT ![s] = Idle] /\ UNCHANGED <<person, derived>>
      BY <1>5, <2>2, <2>4 DEF InsertPerson, Return
    <3>2. \A u \in Uni: Consistent(u)'
      BY <2>3, <3>1 DEF Consistent
    <3>3. call'[s] = Idle /\ \A t \in Sessions \ {s}: call'[t] = Idle
      BY <1>a, <2>1, <3>1 DEF TypeOK
    <3> QED
      BY <3>2, <3>3, OneSession
  <2>5. CASE c.uni \notin DOMAIN person
    <3>1. /\ person' = Put(person, c.uni, [type |-> c.type, by |-> c.by])
          /\ call' = [call EXCEPT ![s].pc = "insert_derived"]
          /\ UNCHANGED <<derived, course_participant>>
      BY <1>5, <2>2, <2>5 DEF InsertPerson, Goto
    <3>2. /\ call'[s] = [c EXCEPT !.pc = "insert_derived"]
          /\ \A t \in Sessions \ {s}: call'[t] = Idle
      BY <1>a, <2>1, <3>1 DEF TypeOK
    <3>3. /\ call'[s].pc = "insert_derived"
          /\ call'[s].uni = c.uni
          /\ call'[s].type = c.type
          /\ call'[s].attr = c.attr
          /\ call'[s].by = c.by
      BY <2>1, <3>2 DEF Call
    <3>4. c.uni \in Uni
      BY <2>1 DEF Call
    <3>5. \A k \in Kinds: c.uni \notin DOMAIN derived[k]
      BY <2>3, <2>5, <3>4 DEF Consistent
    <3> HIDE DEF c
    <3>6. c.uni \in DOMAIN person' /\ person'[c.uni] = [type |-> c.type, by |-> c.by]
      BY <3>1 DEF Put
    <3>7. Midway(s)'
      BY <2>2, <3>1, <3>3, <3>5, <3>6 DEF Midway, Valid
    <3>8. ASSUME NEW u \in Uni, u # c.uni
          PROVE  Consistent(u)'
      <4>1. /\ u \in DOMAIN person' <=> u \in DOMAIN person
            /\ u \in DOMAIN person => person'[u] = person[u]
        BY <3>1, <3>8 DEF Put
      <4>2. Consistent(u)
        BY <2>3
      <4> QED
        BY <3>1, <4>1, <4>2 DEF Consistent
    <3>9. call'[s] # Idle
      <4>1. [c EXCEPT !.pc = "insert_derived"] \in Call
        BY <2>1 DEF Call
      <4> QED
        BY <3>2, <4>1
    <3> QED
      BY ZenonT(60), <3>2, <3>3, <3>7, <3>8, <3>9, OneSession DEF HalfWay
  <2> QED
    BY <2>4, <2>5
<1>6. ASSUME NEW s \in Sessions, InsertDerived(s)
      PROVE  WholeInv'
  <2> DEFINE c == call[s]
  <2>1. c # Idle /\ c \in Call /\ Midway(s) /\ c.pc = "insert_derived"
    BY <1>6, <1>a DEF InsertDerived, At
  <2>2. /\ c.type \in Kinds
        /\ Valid(c.type, c.attr)
        /\ c.uni \in DOMAIN person
        /\ person[c.uni].type = c.type
        /\ person[c.uni].by = c.by
        /\ \A k \in Kinds: c.uni \notin DOMAIN derived[k]
    BY <2>1 DEF Midway
  <2>3. /\ derived' = [derived EXCEPT ![c.type] = Put(derived[c.type], c.uni, c.by)]
        /\ person' = person
        /\ call' = [call EXCEPT ![s] = Idle]
    BY <1>6, <2>2 DEF InsertDerived, Insertable, Return
  <2>4. \A u \in Uni: u = c.uni \/ Consistent(u)
    BY <1>a, <2>1
  <2>5. call'[s] = Idle /\ \A t \in Sessions \ {s}: call'[t] = Idle
    BY <1>a, <2>1, <2>3 DEF TypeOK
  <2> HIDE DEF c
  <2>6. /\ derived'[c.type] = Put(derived[c.type], c.uni, c.by)
        /\ \A k \in Kinds \ {c.type}: derived'[k] = derived[k]
    BY <2>2, <2>3 DEF TypeOK
  <2>7. ASSUME NEW u \in Uni
        PROVE  Consistent(u)'
    <3>1. CASE u = c.uni
      <4>1. u \in DOMAIN derived'[c.type] /\ derived'[c.type][u] = c.by
        BY <2>6, <3>1 DEF Put
      <4> QED
        BY <2>2, <2>3, <2>6, <3>1, <4>1 DEF Consistent
    <3>2. CASE u # c.uni
      <4>1. \A k \in Kinds: /\ u \in DOMAIN derived'[k] <=> u \in DOMAIN derived[k]
                            /\ u \in DOMAIN derived[k] => derived'[k][u] = derived[k][u]
        BY <2>6, <3>2 DEF Put
      <4>2. Consistent(u)
        BY <2>4, <3>2
      <4> QED
        BY <2>3, <4>1, <4>2 DEF Consistent
    <3> QED
      BY <3>1, <3>2
  <2> QED
    BY <2>5, <2>7, OneSession
<1>7. ASSUME NEW s \in Sessions, UpdatePerson(s)
      PROVE  WholeInv'
  <2> DEFINE c == call[s]
  <2>1. c # Idle /\ c \in Call /\ Midway(s) /\ c.pc = "update_person"
    BY <1>7, <1>a DEF UpdatePerson, At
  <2>2. /\ c.type \in Kinds
        /\ Valid(c.type, c.attr)
        /\ c.uni \in DOMAIN person
        /\ person[c.uni].type = c.type
    BY <2>1 DEF Midway
  <2>3. /\ person' = [person EXCEPT ![c.uni].by = c.by]
        /\ call' = [call EXCEPT ![s].pc = "update_derived"]
        /\ UNCHANGED <<derived, course_participant>>
    BY <1>7, <2>2 DEF UpdatePerson, Goto
  <2>4. \A u \in Uni: Consistent(u)
    BY <1>a, <2>1 DEF HalfWay
  <2>5. /\ call'[s] = [c EXCEPT !.pc = "update_derived"]
        /\ \A t \in Sessions \ {s}: call'[t] = Idle
    BY <1>a, <2>1, <2>3 DEF TypeOK
  <2>6. /\ call'[s].pc = "update_derived"
        /\ call'[s].uni = c.uni
        /\ call'[s].type = c.type
        /\ call'[s].attr = c.attr
        /\ call'[s].by = c.by
        /\ call'[s] \in Call
    BY <2>1, <2>5 DEF Call
  <2>7. c.uni \in Uni
    BY <2>1 DEF Call
  <2> HIDE DEF c
  <2>8. /\ DOMAIN person' = DOMAIN person
        /\ person'[c.uni].type = c.type
        /\ person'[c.uni].by = c.by
        /\ \A u \in DOMAIN person \ {c.uni}: person'[u] = person[u]
    BY <2>2, <2>3 DEF TypeOK
  <2>9. \A k \in Kinds: c.uni \in DOMAIN derived[k] <=> k = c.type
    BY <2>2, <2>4, <2>7 DEF Consistent
  <2>10. Midway(s)'
    BY <2>2, <2>3, <2>6, <2>8, <2>9 DEF Midway, Valid
  <2>11. ASSUME NEW u \in Uni, u # c.uni
         PROVE  Consistent(u)'
    BY <2>3, <2>4, <2>8, <2>11 DEF Consistent
  <2> QED
    BY ZenonT(60), <2>5, <2>6, <2>10, <2>11, OneSession DEF HalfWay
<1>8. ASSUME NEW s \in Sessions, UpdateDerived(s)
      PROVE  WholeInv'
  <2> DEFINE c == call[s]
  <2>1. c # Idle /\ c \in Call /\ Midway(s) /\ c.pc = "update_derived"
    BY <1>8, <1>a DEF UpdateDerived, At
  <2>2. /\ c.type \in Kinds
        /\ Valid(c.type, c.attr)
        /\ c.uni \in DOMAIN person
        /\ person[c.uni].type = c.type
        /\ person[c.uni].by = c.by
        /\ \A k \in Kinds: c.uni \in DOMAIN derived[k] <=> k = c.type
    BY <2>1 DEF Midway
  <2>3. /\ derived' = [derived EXCEPT ![c.type] = [derived[c.type] EXCEPT ![c.uni] = c.by]]
        /\ person' = person
        /\ call' = [call EXCEPT ![s] = Idle]
    BY <1>8, <2>2 DEF UpdateDerived, Return
  <2>4. \A u \in Uni: u = c.uni \/ Consistent(u)
    BY <1>a, <2>1
  <2>5. call'[s] = Idle /\ \A t \in Sessions \ {s}: call'[t] = Idle
    BY <1>a, <2>1, <2>3 DEF TypeOK
  <2> HIDE DEF c
  <2>6. /\ DOMAIN derived'[c.type] = DOMAIN derived[c.type]
        /\ derived'[c.type][c.uni] = c.by
        /\ \A u \in DOMAIN derived[c.type] \ {c.uni}: derived'[c.type][u] = derived[c.type][u]
        /\ \A k \in Kinds \ {c.type}: derived'[k] = derived[k]
    BY <2>2, <2>3 DEF TypeOK
  <2>7. ASSUME NEW u \in Uni
        PROVE  Consistent(u)'
    <3>1. CASE u = c.uni
      BY <2>2, <2>3, <2>6, <3>1 DEF Consistent
    <3>2. CASE u # c.uni
      <4>1. \A k \in Kinds: /\ u \in DOMAIN derived'[k] <=> u \in DOMAIN derived[k]
                            /\ u \in DOMAIN derived[k] => derived'[k][u] = derived[k][u]
        BY <2>6, <3>2
      <4>2. Consistent(u)
        BY <2>4, <3>2
      <4> QED
        BY <2>3, <4>1, <4>2 DEF Consistent
    <3> QED
      BY <3>1, <3>2
  <2> QED
    BY <2>5, <2>7, OneSession
<1>9. ASSUME NEW s \in Sessions, DeleteDerived(s)
      PROVE  WholeInv'
  <2> DEFINE c == call[s]
  <2>1. c # Idle /\ c \in Call /\ Midway(s) /\ c.pc = "delete_derived"
    BY <1>9, <1>a DEF DeleteDerived, At
  <2>2. /\ c.type \in Kinds
        /\ c.uni \in DOMAIN person
        /\ person[c.uni].type = c.type
        /\ \A p \in course_participant: p[1] # c.uni
    BY <2>1 DEF Midway
  <2>3. /\ derived' = [derived EXCEPT ![c.type] = Without(derived[c.type], c.uni)]
        /\ call' = [call EXCEPT ![s].pc = "delete_person"]
        /\ UNCHANGED <<person, course_participant>>
    BY <1>9 DEF DeleteDerived, Goto
  <2>4. \A u \in Uni: Consistent(u)
    BY <1>a, <2>1 DEF HalfWay
  <2>5. /\ call'[s] = [c EXCEPT !.pc = "delete_person"]
        /\ \A t \in Sessions \ {s}: call'[t] = Idle
    BY <1>a, <2>1, <2>3 DEF TypeOK
  <2>6. /\ call'[s].pc = "delete_person"
        /\ call'[s].uni = c.uni
        /\ call'[s].type = c.type
        /\ call'[s] \in Call
    BY <2>1, <2>5 DEF Call
  <2>7. c.uni \in Uni
    BY <2>1 DEF Call
  <2> HIDE DEF c
  <2>8. /\ derived'[c.type] = Without(derived[c.type], c.uni)
        /\ \A k \in Kinds \ {c.type}: derived'[k] = derived[k]
    BY <2>2, <2>3 DEF TypeOK
  <2>9. \A k \in Kinds \ {c.type}: c.uni \notin DOMAIN derived[k]
    BY <2>2, <2>4, <2>7 DEF Consistent
  <2>10. \A k \in Kinds: c.uni \notin DOMAIN derived'[k]
    BY <2>8, <2>9 DEF Without
  <2>11. Midway(s)'
    BY <2>2, <2>3, <2>6, <2>10 DEF Midway
  <2>12. ASSUME NEW u \in Uni, u # c.uni
         PROVE  Consistent(u)'
    <3>1. \A k \in Kinds: /\ u \in DOMAIN derived'[k] <=> u \in DOMAIN derived[k]
                          /\ u \in DOMAIN derived[k] => derived'[k][u] = derived[k][u]
      BY <2>8, <2>12 DEF Without
    <3>2. Consistent(u)
      BY <2>4
    <3> QED
      BY <2>3, <3>1, <3>2 DEF Consistent
  <2> QED
    BY ZenonT(60), <2>5, <2>6, <2>11, <2>12, OneSession DEF HalfWay
<1>10. ASSUME NEW s \in Sessions, DeletePerson(s)
       PROVE  WholeInv'
  <2> DEFINE c == call[s]
  <2>1. c # Idle /\ c \in Call /\ Midway(s) /\ c.pc = "delete_person"
    BY <1>10, <1>a DEF DeletePerson, At
  <2>2. /\ \A p \in course_participant: p[1] # c.uni
        /\ \A k \in Kinds: c.uni \notin DOMAIN derived[k]
    BY <2>1 DEF Midway
  <2>3. /\ person' = Without(person, c.uni)
        /\ call' = [call EXCEPT ![s] = Idle]
        /\ derived' = derived
    BY <1>10, <2>2 DEF DeletePerson, Referenced, Return
  <2>4. \A u \in Uni: u = c.uni \/ Consistent(u)
    BY <1>a, <2>1
  <2>5. call'[s] = Idle /\ \A t \in Sessions \ {s}: call'[t] = Idle
    BY <1>a, <2>1, <2>3 DEF TypeOK
  <2> HIDE DEF c
  <2>6. ASSUME NEW u \in Uni
        PROVE  Consistent(u)'
    <3>1. CASE u = c.uni
      BY <2>2, <2>3, <3>1 DEF Consistent, Without
    <3>2. CASE u # c.uni
      <4>1. /\ u \in DOMAIN person' <=> u \in DOMAIN person
            /\ u \in DOMAIN person => person'[u] = person[u]
        BY <2>3, <3>2 DEF Without
      <4>2. Consistent(u)
        BY <2>4, <3>2
      <4> QED
        BY <2>3, <4>1, <4>2 DEF Consistent
    <3> QED
      BY <3>1, <3>2
  <2> QED
    BY <2>5, <2>6, OneSession
<1>11. ASSUME NEW s \in Sessions, NEW u \in DOMAIN person, NEW sec \in Sections, Enrol(s, u, sec)
       PROVE  WholeInv'
  <2>1. \A t \in Sessions: call[t] = Idle
    BY <1>11 DEF Enrol, Ready
  <2>2. UNCHANGED <<person, derived, call>>
    BY <1>11 DEF Enrol
  <2>3. \A w \in Uni: Consistent(w)'
    BY <2>1, <2>2 DEF WholeInv, Half, Consistent
  <2> QED
    BY <2>1, <2>2, <2>3, OneSession
<1>12. CASE UNCHANGED vars
  <2>1. \A s \in Sessions: Midway(s) => Midway(s)'
    BY SMTT(60), <1>12 DEF vars, Midway, generate_uni, Valid
  <2>2. \A u \in Uni: Half(u) \/ Consistent(u) => Half(u)' \/ Consistent(u)'
    BY <1>12 DEF vars, Half, Consistent
  <2> QED
    BY SMTT(60), <1>12, <2>1, <2>2 DEF vars, WholeInv
<1> QED
  BY <1>1, <1>2, <1>3, <1>4, <1>5, <1>6, <1>7, <1>8, <1>9, <1>10, <1>11, <1>12
  DEF Next, PersonStep, insert_student, insert_faculty, update_student, update_faculty,
      delete_student, delete_faculty, DirectPerson, DirectDerived, Kinds

\* Between the calls of careful clients that do not overlap, every person is
\* whole: insert, update and delete reach both tables ("Each procedure would
\* affect both the derived entity and base entity").
THEOREM PersonsAreWhole ==
    ASSUME ~Overlap, Careful, "direct" \notin Ops
    PROVE  Spec => []WholePersons
<1>1. Init => WholeInv
  BY DEF Init, Empty, WholeInv, Half, Consistent
<1>2. TypeOK /\ ViewsComplete /\ WholeInv /\ [Next]_vars => WholeInv'
  BY WholeStep
<1>3. TypeOK /\ ViewsComplete /\ WholeInv => WholePersons
  <2> SUFFICES ASSUME TypeOK, ViewsComplete, WholeInv, Quiet
               PROVE  /\ \A u \in DOMAIN person: u \in DOMAIN derived[person[u].type]
                      /\ \A kind \in Kinds: \A u \in DOMAIN derived[kind]:
                            /\ person[u].type = kind
                            /\ person[u].by = derived[kind][u]
    BY DEF WholePersons
  <2>1. \A u \in Uni: Consistent(u)
    BY DEF WholeInv, Half, Quiet
  <2>2. DOMAIN person \subseteq Uni /\ \A kind \in Kinds: DOMAIN derived[kind] \subseteq Uni
    BY DEF TypeOK
  <2> QED
    BY <2>1, <2>2 DEF Consistent
<1> QED
  BY <1>1, <1>2, <1>3, TypeCorrect, ViewsAreComplete, PTL DEF Spec
=============================================================================
