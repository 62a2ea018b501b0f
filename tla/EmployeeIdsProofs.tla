-------------------------- MODULE EmployeeIdsProofs --------------------------
(***************************************************************************)
(* Theorems about EmployeeIds for every set of sessions, names and e-mails.*)
(* The ids are safe however INSERTs and UPDATEs overlap, as long as no     *)
(* DELETE runs between the two halves of an INSERT; with one, an id may be *)
(* handed out twice.                                                       *)
(***************************************************************************)
EXTENDS EmployeeIds, TLAPS

\* The type invariant: rows, counters and prepared rows keep their shape.
THEOREM TypeCorrect == Spec => []TypeOK
<1>1. Init => TypeOK
  BY EmployeeAssumption DEF Init, TypeOK, NoTuple
<1>2. TypeOK /\ [Next]_vars => TypeOK'
  <2> SUFFICES ASSUME TypeOK, [Next]_vars PROVE TypeOK'
    OBVIOUS
  <2>1. ASSUME NEW s \in Sessions, NEW n \in Names, NEW e \in Emails,
               InsertTrigger(s, n, e)
        PROVE  TypeOK'
    BY <2>1 DEF InsertTrigger, ReadCounter, TypeOK, Prepared
  <2>2. ASSUME NEW s \in Sessions, InsertApply(s)
        PROVE  TypeOK'
    <3>1. /\ row[s] \in Prepared
          /\ row' \in [Sessions -> Prepared \union {NoRow}]
      BY <2>2 DEF InsertApply, TypeOK
    <3>2. CASE InsertCommit(s)
      BY <3>1, <3>2 DEF InsertCommit, NewId, TypeOK, Prepared, Employee, UserId
    <3>3. CASE InsertRollback(s)
      BY <3>1, <3>3 DEF InsertRollback, TypeOK
    <3> QED
      BY <2>2, <3>2, <3>3 DEF InsertApply
  <2>3. ASSUME NEW s \in Sessions, NEW old \in employee,
               NEW id \in Names \X (1..MaxSeq), NEW n \in Names,
               NEW e \in Emails,
               UpdateEmployee(s, old, [user_id |-> id, name |-> n, email |-> e])
        PROVE  TypeOK'
    BY <2>3, EmployeeAssumption
       DEF UpdateEmployee, UpdateTrigger, TypeOK, Employee, UserId
  <2>4. ASSUME NEW s \in Sessions, NEW r \in employee, DeleteEmployee(s, r)
        PROVE  TypeOK'
    BY <2>4 DEF DeleteEmployee, TypeOK
  <2>5. CASE UNCHANGED vars
    BY <2>5 DEF vars, TypeOK
  <2> QED
    BY ZenonT(60), <2>1, <2>2, <2>3, <2>4, <2>5 DEF Next
<1> QED
  BY <1>1, <1>2, PTL DEF Spec

-----------------------------------------------------------------------------
(* The inductive invariant behind the id properties.                       *)

\* The ids ever issued for a prefix are 1..max_value.
IssuedDense ==
    \A n \in Names, k \in Nat:
        <<n, k>> \in issued <=> 1 <= k /\ k <= user_prefix_count[n]

\* A prepared row drew a number that was free or, if another session was
\* faster, one that has been issued since.
PreparedBehind ==
    \A s \in Sessions: row[s] # NoRow =>
        /\ 1 <= row[s].count
        /\ row[s].count <= user_prefix_count[row[s].name] + 1

\* If another session was faster and no DELETE came between, its row is still
\* there to cause the key error.
IssuedLive ==
    ~DeletesOverlap => \A s \in Sessions:
        row[s] # NoRow /\ NewId(s) \in issued => NewId(s) \in Ids

\* Without overlap, there is at most one prepared row and it is up to date.
PreparedCurrent ==
    ~Overlap => \A s \in Sessions: row[s] # NoRow =>
        /\ row[s].count = user_prefix_count[row[s].name] + 1
        /\ \A t \in Sessions: row[t] # NoRow => t = s

IdInv ==
    /\ TypeOK
    /\ IssuedDense
    /\ Ids \subseteq issued
    /\ PreparedBehind
    /\ IssuedLive
    /\ PreparedCurrent

USE EmployeeAssumption

\* A row the keys let in carries the next number of its prefix.
LEMMA CommitIsNext ==
    ASSUME IdInv, ~Overlap \/ ~DeletesOverlap, NEW s \in Sessions, row[s] # NoRow,
           KeysFree(s)
    PROVE  row[s].count = user_prefix_count[row[s].name] + 1
<1>1. row[s] \in Prepared
  BY DEF IdInv, TypeOK
<1>2. CASE ~Overlap
  BY <1>2 DEF IdInv, PreparedCurrent
<1>3. CASE ~DeletesOverlap
  <2>1. <<row[s].name, row[s].count>> \notin issued
    BY <1>3 DEF IdInv, IssuedLive, KeysFree, NewId
  <2>2. ~(row[s].count <= user_prefix_count[row[s].name])
    BY <1>1, <2>1 DEF IdInv, IssuedDense, PreparedBehind, Prepared
  <2> QED
    BY <1>1, <2>2 DEF IdInv, PreparedBehind, TypeOK, Prepared
<1> QED
  BY <1>2, <1>3

\* A committed INSERT adds its id to the ids in the table.
LEMMA CommitIds ==
    ASSUME NEW s \in Sessions, InsertCommit(s)
    PROVE  Ids' = Ids \union {NewId(s)}
<1> DEFINE r == [user_id |-> NewId(s), name |-> row[s].name,
                 email |-> row[s].email]
<1>1. employee' = employee \union {r}
  BY DEF InsertCommit
<1>2. r.user_id = NewId(s)
  OBVIOUS
<1> HIDE DEF r
<1>3. ASSUME NEW id PROVE id \in Ids' <=> id \in Ids \union {NewId(s)}
  <2>1. id \in Ids' <=> \E q \in employee': id = q.user_id
    BY DEF Ids
  <2>2. id \in Ids <=> \E q \in employee: id = q.user_id
    BY DEF Ids
  <2> QED
    BY <1>1, <1>2, <2>1, <2>2
<1> QED
  BY <1>3

\* The empty tables satisfy the invariant.
LEMMA IdInvInitial == Init => IdInv
BY DEF Init, IdInv, TypeOK, IssuedDense, PreparedBehind, IssuedLive,
       PreparedCurrent, Ids, NoTuple

\* Every step preserves the invariant unless a DELETE runs inside an INSERT.
LEMMA IdInvStep ==
    ASSUME IdInv, [Next]_vars, TypeOK', ~Overlap \/ ~DeletesOverlap
    PROVE  IdInv'
<1> USE DEF IdInv
<1>1. ASSUME NEW s \in Sessions, NEW n \in Names, NEW e \in Emails,
             InsertTrigger(s, n, e)
      PROVE  IdInv'
  <2>1. /\ UNCHANGED <<employee, user_prefix_count, issued>>
        /\ Ids' = Ids
    BY <1>1 DEF InsertTrigger, Ids
  <2>2. /\ row'[s].name = n
        /\ row'[s].count = user_prefix_count[n] + 1
        /\ \A t \in Sessions: t # s => row'[t] = row[t]
    BY <1>1 DEF InsertTrigger, ReadCounter, TypeOK, NoTuple
  <2>3. IssuedDense' /\ (Ids \subseteq issued)'
    BY <2>1 DEF IssuedDense
  <2>6. IssuedLive'
    <3> SUFFICES ASSUME ~DeletesOverlap, NEW t \in Sessions, row'[t] # NoRow,
                        NewId(t)' \in issued
                 PROVE  NewId(t)' \in Ids
      BY <2>1 DEF IssuedLive
    <3>1. CASE t = s
      <4>1. NewId(t)' = <<n, user_prefix_count[n] + 1>>
        BY <2>2, <3>1 DEF NewId
      <4> QED
        BY <4>1 DEF IssuedDense, TypeOK
    <3>2. CASE t # s
      BY <2>2, <3>2 DEF IssuedLive, NewId
    <3> QED
      BY <3>1, <3>2
  <2>4. PreparedBehind'
    BY <2>1, <2>2 DEF PreparedBehind, TypeOK
  <2>5. PreparedCurrent'
    BY <1>1, <2>1, <2>2 DEF PreparedCurrent, InsertTrigger, MayStart, TypeOK
  <2> QED
    BY <2>3, <2>4, <2>5, <2>6
<1>2. ASSUME NEW s \in Sessions, InsertApply(s)
      PROVE  IdInv'
  <2>1. /\ row[s] \in Prepared
        /\ row[s] # NoRow
        /\ row'[s] = NoRow
        /\ \A t \in Sessions: t # s => row'[t] = row[t]
    BY <1>2 DEF InsertApply, TypeOK
  <2>2. CASE InsertCommit(s)
    <3> DEFINE n == row[s].name
               k == row[s].count
    <3>1. /\ n \in Names
          /\ k \in Nat
          /\ k = user_prefix_count[n] + 1
      BY <2>1, <2>2, CommitIsNext DEF InsertCommit, Prepared
    <3>2. /\ issued' = issued \union {<<n, k>>}
          /\ Ids' = Ids \union {<<n, k>>}
          /\ user_prefix_count' = [user_prefix_count EXCEPT ![n] = k]
      BY ZenonT(60), <2>2, CommitIds DEF InsertCommit, NewId
    <3>3. \A m \in Names: user_prefix_count[m] \in Nat
      BY DEF TypeOK
    <3>4. IssuedDense'
      <4> SUFFICES ASSUME NEW m \in Names, NEW j \in Nat
                   PROVE  <<m, j>> \in issued' <=>
                              1 <= j /\ j <= user_prefix_count'[m]
        BY ZenonT(60) DEF IssuedDense
      <4>1. CASE m = n
        BY <3>1, <3>2, <3>3, <4>1 DEF IssuedDense, TypeOK
      <4>2. CASE m # n
        BY <3>1, <3>2, <3>3, <4>2 DEF IssuedDense, TypeOK
      <4> QED
        BY <4>1, <4>2
    <3>5. (Ids \subseteq issued)' /\ IssuedLive'
      BY <2>1, <3>2 DEF IssuedLive, NewId
    <3>6. PreparedBehind'
      <4> SUFFICES ASSUME NEW t \in Sessions, row'[t] # NoRow
                   PROVE  /\ 1 <= row'[t].count
                          /\ row'[t].count <= user_prefix_count'[row'[t].name] + 1
        BY DEF PreparedBehind
      <4>1. t # s /\ row'[t] = row[t] /\ row[t] \in Prepared
        BY <2>1 DEF TypeOK
      <4>2. /\ 1 <= row[t].count
            /\ row[t].count <= user_prefix_count[row[t].name] + 1
            /\ row[t].name \in Names
            /\ row[t].count \in Nat
        BY <4>1 DEF PreparedBehind, Prepared
      <4>3. user_prefix_count[row[t].name] <= user_prefix_count'[row[t].name]
        BY <3>1, <3>2, <3>3, <4>2 DEF TypeOK
      <4> QED
        BY <3>3, <4>1, <4>2, <4>3 DEF TypeOK
    <3>7. PreparedCurrent'
      BY <2>1 DEF PreparedCurrent
    <3> QED
      BY <3>4, <3>5, <3>6, <3>7
  <2>3. CASE InsertRollback(s)
    <3>1. /\ UNCHANGED <<user_prefix_count, issued>>
          /\ Ids' = Ids
      BY <2>3 DEF InsertRollback, Ids
    <3>2. IssuedDense' /\ (Ids \subseteq issued)' /\ IssuedLive'
      BY <2>1, <3>1 DEF IssuedDense, IssuedLive, NewId
    <3>3. PreparedBehind' /\ PreparedCurrent'
      BY <2>1, <3>1 DEF PreparedBehind, PreparedCurrent
    <3> QED
      BY <3>2, <3>3
  <2> QED
    BY <1>2, <2>2, <2>3 DEF InsertApply
<1>3. ASSUME UNCHANGED <<user_prefix_count, row, issued>>,
             Ids' \subseteq Ids,
             ~DeletesOverlap => Ids' = Ids \/ \A s \in Sessions: row[s] = NoRow
      PROVE  IdInv'
  BY <1>3 DEF IssuedDense, PreparedBehind, IssuedLive, PreparedCurrent, NewId
<1>4. ASSUME NEW s \in Sessions, NEW old \in employee,
             NEW id \in Names \X (1..MaxSeq), NEW n \in Names,
             NEW e \in Emails,
             UpdateEmployee(s, old, [user_id |-> id, name |-> n, email |-> e])
      PROVE  IdInv'
  <2>1. PICK r : r.user_id = old.user_id
                 /\ employee' = (employee \ {old}) \union {r}
    BY <1>4 DEF UpdateEmployee, UpdateTrigger
  <2>2. Ids' = Ids
    BY <2>1 DEF Ids
  <2> QED
    BY <1>3, <1>4, <2>2 DEF UpdateEmployee
<1>5. ASSUME NEW s \in Sessions, NEW r \in employee, DeleteEmployee(s, r)
      PROVE  IdInv'
  BY <1>3, <1>5 DEF DeleteEmployee, Ids
<1>6. CASE UNCHANGED vars
  BY <1>3, <1>6 DEF vars, Ids
<1> QED
  BY ZenonT(60), <1>1, <1>2, <1>4, <1>5, <1>6 DEF Next

\* The invariant holds for ever.
THEOREM IdInvariant ==
    ASSUME ~Overlap \/ ~DeletesOverlap
    PROVE  Spec => []IdInv
<1>1. IdInv /\ [Next]_vars /\ TypeOK' => IdInv'
  BY IdInvStep
<1> QED
  BY IdInvInitial, TypeCorrect, <1>1, PTL DEF Spec

\* The counter of a prefix is the number of ids issued for it, which are
\* 1..max_value: for any number of overlapping INSERTs, with any deletes that
\* do not run between the two halves of one.
THEOREM CounterIsExact ==
    ASSUME ~Overlap \/ ~DeletesOverlap
    PROVE  Spec => []CounterExact
<1>1. IdInv => CounterExact
  <2> SUFFICES ASSUME IdInv, NEW n \in Names, NEW k \in 1..MaxSeq
               PROVE  <<n, k>> \in issued <=> k <= user_prefix_count[n]
    BY ZenonT(60) DEF CounterExact
  <2>1. k \in Nat /\ 1 <= k
    OBVIOUS
  <2> QED
    BY <2>1 DEF IdInv, IssuedDense
<1> QED
  BY IdInvariant, <1>1, PTL

\* Without overlapping statements an INSERT is never refused because of its
\* user_id, whatever has been deleted.
THEOREM NoClash ==
    ASSUME ~Overlap
    PROVE  Spec => []NoIdClash
<1>1. IdInv => NoIdClash
  <2> SUFFICES ASSUME IdInv, NEW s \in Sessions, row[s] # NoRow
               PROVE  NewId(s) \notin Ids
    BY DEF NoIdClash
  <2>1. row[s] \in Prepared
    BY DEF IdInv, TypeOK
  <2>2. row[s].count = user_prefix_count[row[s].name] + 1
    BY DEF IdInv, PreparedCurrent
  <2>3. NewId(s) \notin issued
    BY <2>1, <2>2 DEF IdInv, IssuedDense, TypeOK, Prepared, NewId
  <2> QED
    BY <2>3 DEF IdInv
<1> QED
  BY IdInvariant, <1>1, PTL

\* No user_id is handed out twice, deleted ones included, unless a DELETE runs
\* between the two halves of an INSERT.
THEOREM NoReuse ==
    ASSUME ~Overlap \/ ~DeletesOverlap
    PROVE  Spec => IdsNeverReused
<1> DEFINE Fresh == \A id \in Ids': id \in Ids \/ id \notin issued
<1>1. ASSUME IdInv, [Next]_vars PROVE [Fresh]_vars
  <2> SUFFICES ASSUME Next PROVE Fresh
    BY <1>1
  <2>1. ASSUME NEW s \in Sessions, InsertApply(s) PROVE Fresh
    <3>1. CASE InsertCommit(s)
      <4>1. row[s] \in Prepared /\ row[s] # NoRow
        BY <1>1, <2>1 DEF InsertApply, IdInv, TypeOK
      <4>2. row[s].count = user_prefix_count[row[s].name] + 1
        BY <1>1, <3>1, <4>1, CommitIsNext DEF InsertCommit
      <4>3. NewId(s) \notin issued
        BY <1>1, <4>1, <4>2 DEF IdInv, IssuedDense, TypeOK, Prepared, NewId
      <4>4. Ids' = Ids \union {NewId(s)}
        BY <3>1, CommitIds
      <4> QED
        BY <4>3, <4>4
    <3>2. CASE InsertRollback(s)
      BY <3>2 DEF InsertRollback, Ids
    <3> QED
      BY <2>1, <3>1, <3>2 DEF InsertApply
  <2>2. ASSUME NEW s \in Sessions, NEW old \in employee,
               NEW id \in Names \X (1..MaxSeq), NEW n \in Names,
               NEW e \in Emails,
               UpdateEmployee(s, old, [user_id |-> id, name |-> n, email |-> e])
        PROVE  Fresh
    <3>1. PICK r : r.user_id = old.user_id
                   /\ employee' = (employee \ {old}) \union {r}
      BY <2>2 DEF UpdateEmployee, UpdateTrigger
    <3> QED
      BY <3>1 DEF Ids
  <2>3. ASSUME NEW s \in Sessions, NEW r \in employee, DeleteEmployee(s, r)
        PROVE  Fresh
    BY <2>3 DEF DeleteEmployee, Ids
  <2>4. ASSUME employee' = employee PROVE Fresh
    BY <2>4 DEF Ids
  <2> QED
    BY ZenonT(60), <2>1, <2>2, <2>3, <2>4 DEF Next, InsertTrigger
<1>2. IdInv /\ [Next]_vars => [Fresh]_vars
  BY <1>1
<1> QED
  BY IdInvariant, <1>2, PTL DEF Spec, IdsNeverReused

=============================================================================
