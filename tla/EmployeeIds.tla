---------------------------- MODULE EmployeeIds ----------------------------
(***************************************************************************)
(* The employee tables of ec1 (ec1/ec1_ddl.sql): user ids of the form      *)
(* first.last.N handed out by a BEFORE INSERT trigger from a per-prefix    *)
(* counter table.                                                          *)
(*                                                                         *)
(* Every SQL statement is its own transaction (MySQL autocommit).  The     *)
(* trigger's SELECTs are non-locking snapshot reads, so an INSERT is two   *)
(* steps: the trigger reads the counter (InsertTrigger), then the counter  *)
(* and the row are written and the keys checked (InsertApply).  The writes *)
(* commit or roll back together.  A refused statement changes nothing.     *)
(* The column created, which the triggers set and keep, decides nothing    *)
(* and is left out.                                                        *)
(***************************************************************************)
EXTENDS Naturals, FiniteSets

CONSTANTS
    Sessions,  \* client connections
    Names,     \* values of CONCAT(first_name, '.', last_name)
    Emails,    \* e-mail addresses
    MaxSeq,    \* bound: largest sequence number the model lets a trigger draw
    Overlap,         \* may statements of different sessions overlap?
    DeletesOverlap,  \* may a DELETE run between the two halves of an INSERT?
    NoRow      \* a session that is not inside an INSERT

VARIABLES
    employee,           \* the rows of table Employee
    user_prefix_count,  \* max_value per prefix, NoTuple when the prefix has no tuple
    row,                \* per session: the row its trigger has prepared, or NoRow
    issued              \* history: every user_id ever committed

vars == <<employee, user_prefix_count, row, issued>>

NoTuple == 0

\* A user_id is prefix '.' count; the count has no dot, so the pair is what
\* the string stands for.
UserId == Names \X Nat

Employee == [user_id: UserId, name: Names, email: Emails]

\* existed is the trigger's local variable, a 0/1 integer as in the code.
Prepared == [name: Names, email: Emails, existed: {0, 1}, count: Nat]

ASSUME EmployeeAssumption ==
    /\ MaxSeq \in Nat
    /\ Overlap \in BOOLEAN
    /\ DeletesOverlap \in BOOLEAN
    /\ NoRow \notin Prepared

TypeOK ==
    /\ employee \in SUBSET Employee
    /\ user_prefix_count \in [Names -> Nat]
    /\ row \in [Sessions -> Prepared \union {NoRow}]
    /\ issued \in SUBSET UserId

Ids == {r.user_id : r \in employee}

EmailsInUse == {r.email : r \in employee}

Init ==
    /\ employee = {}
    /\ user_prefix_count = [n \in Names |-> NoTuple]
    /\ row = [s \in Sessions |-> NoRow]
    /\ issued = {}

-----------------------------------------------------------------------------

MayStart(s) ==
    /\ row[s] = NoRow
    /\ Overlap \/ \A t \in Sessions: row[t] = NoRow

\* SET existed = (select exists (...));  count is max_value + 1, or 1.
ReadCounter(n) ==
    LET found == user_prefix_count[n] # NoTuple IN
    [existed |-> IF found THEN 1 ELSE 0,
     count |-> IF found THEN user_prefix_count[n] + 1 ELSE 1]

\* INSERT INTO employee, first half: the trigger's reads.
InsertTrigger(s, n, e) ==
    LET c == ReadCounter(n) IN
    /\ MayStart(s)
    /\ c.count <= MaxSeq
    /\ row' = [row EXCEPT ![s] = [name |-> n, email |-> e, existed |-> c.existed,
                                  count |-> c.count]]
    /\ UNCHANGED <<employee, user_prefix_count, issued>>

NewId(s) == <<row[s].name, row[s].count>>

KeysFree_NoPrimaryKey(s) ==
    /\ row[s].existed = 0 => user_prefix_count[row[s].name] = NoTuple
    /\ row[s].email \notin EmailsInUse

\* The statement's writes violate no key: the prefix row is not there when the
\* trigger inserts it, the user_id and the e-mail are unused.
KeysFree(s) ==
    /\ row[s].existed = 0 => user_prefix_count[row[s].name] = NoTuple
    /\ NewId(s) \notin Ids
    /\ row[s].email \notin EmailsInUse

InsertCommit(s) ==
    /\ KeysFree(s)
    /\ user_prefix_count' = [user_prefix_count EXCEPT ![row[s].name] = row[s].count]
    /\ employee' = employee \union {[user_id |-> NewId(s), name |-> row[s].name,
                                     email |-> row[s].email]}
    /\ issued' = issued \union {NewId(s)}

\* The duplicate-key error rolls the whole statement back, counter included.
InsertRollback(s) ==
    /\ ~KeysFree(s)
    /\ UNCHANGED <<employee, user_prefix_count, issued>>

\* INSERT INTO employee, second half: the writes, then commit or roll back.
InsertApply(s) ==
    /\ row[s] # NoRow
    /\ InsertCommit(s) \/ InsertRollback(s)
    /\ row' = [row EXCEPT ![s] = NoRow]

\* BEFORE UPDATE: a changed user_id is refused.
UpdateTrigger(old, new) == new.user_id = old.user_id

\* UPDATE employee SET ... WHERE user_id = ...
UpdateEmployee(s, old, new) ==
    /\ MayStart(s)
    /\ UpdateTrigger(old, new)
    /\ \A other \in employee \ {old}: other.email # new.email
    /\ employee' = (employee \ {old}) \union {new}
    /\ UNCHANGED <<user_prefix_count, row, issued>>

\* DELETE FROM employee WHERE ...
DeleteEmployee_Recounts(s, r) ==
    /\ MayStart(s)
    /\ DeletesOverlap \/ \A t \in Sessions: row[t] = NoRow
    /\ employee' = employee \ {r}
    /\ user_prefix_count' = [user_prefix_count EXCEPT ![r.user_id[1]] = @ - 1]
    /\ UNCHANGED <<row, issued>>

DeleteEmployee(s, r) ==
    /\ MayStart(s)
    /\ DeletesOverlap \/ \A t \in Sessions: row[t] = NoRow
    /\ employee' = employee \ {r}
    /\ UNCHANGED <<user_prefix_count, row, issued>>

Next ==
    \E s \in Sessions:
      \/ \E n \in Names, e \in Emails: InsertTrigger(s, n, e)
      \/ InsertApply(s)
      \/ \E old \in employee: \E id \in Names \X (1..MaxSeq), n \in Names, e \in Emails:
            UpdateEmployee(s, old, [user_id |-> id, name |-> n, email |-> e])
      \/ \E r \in employee: DeleteEmployee(s, r)

Spec == Init /\ [][Next]_vars

-----------------------------------------------------------------------------
(* Properties *)

\* The counter of a prefix is exactly the number of ids ever handed out for it:
\* they are numbered 1..max_value without a gap.  A refused INSERT must not
\* have moved the counter, and an INSERT that read the counter before another
\* one moved it must be refused, not move it back (trigger_insert_employee with
\* its UPDATE of user_prefix_count; the key of employee stops it).  A DELETE
\* between the read and the write is left out (DeletesOverlap): it frees the
\* key, and the late INSERT moves the counter back and gives the id again.
CounterExact ==
    \A n \in Names, k \in 1..MaxSeq:
        <<n, k>> \in issued <=> k <= user_prefix_count[n]

\* When statements do not overlap, the id a trigger has drawn is never in use,
\* deletes notwithstanding: an INSERT can only be refused for its e-mail.
NoIdClash ==
    \A s \in Sessions: row[s] # NoRow => NewId(s) \notin Ids

\* The user_id of a new row was never the user_id of an earlier one, deleted
\* rows included (test 5 of ec1_test.sql deletes js2 and js4 and then expects
\* the counter to have moved on to 6), however INSERTs overlap; a DELETE inside
\* an INSERT is left out as in CounterExact.
IdsNeverReused ==
    [][\A id \in Ids': id \in Ids \/ id \notin issued]_vars

=============================================================================
