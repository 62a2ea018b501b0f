----------------------------- MODULE BankProofs -----------------------------
(***************************************************************************)
(* Theorems about Bank for every set of sessions, accounts and amounts.    *)
(***************************************************************************)
EXTENDS BankRefinement, TLAPS

USE DEF Kinds, Keys

LEMMA FirstIdNat == FirstId \in [Kinds -> Nat]
BY DEF FirstId

\* The loaded tables have their types.
LEMMA TypeInit == Init => TypeOK
<1> USE BankAssumption, FirstIdNat
<1> SUFFICES ASSUME Init PROVE TypeOK
  OBVIOUS
<1>1. ASSUME NEW k \in LoadedKeys
      PROVE  k \in Keys /\ LoadedRow(k) \in Row
  <2>0. PICK kind \in Kinds :
            k \in {<<kind, FirstId[kind] + i - 1>> : i \in DOMAIN Loaded[kind]}
    BY DEF LoadedKeys
  <2>1. PICK i \in DOMAIN Loaded[kind] : k = <<kind, FirstId[kind] + i - 1>>
    BY <2>0
  <2>2. i \in Nat \ {0} /\ Loaded[kind][i] \in Int \X Int /\ FirstId[kind] \in Nat
    BY SMTT(60)
  <2>3. k[1] = kind /\ k[2] - FirstId[k[1]] + 1 = i /\ k \in Keys
    BY SMTT(60), <2>1, <2>2
  <2> QED
    BY SMTT(60), <2>2, <2>3 DEF LoadedRow, Row, AccountId
<1>2. /\ DOMAIN accounts \subseteq Keys
      /\ accounts \in [DOMAIN accounts -> Row]
  BY <1>1 DEF Init
<1>3. next_id \in [Kinds -> Nat]
  BY DEF Init
<1> QED
  BY <1>2, <1>3 DEF Init, TypeOK

\* The type invariant.
THEOREM TypeCorrect == Spec => []TypeOK
<1> USE BankAssumption, FirstIdNat
<1>1. Init => TypeOK
  BY TypeInit
<1>2. TypeOK /\ [Next]_vars => TypeOK'
  <2> SUFFICES ASSUME TypeOK, [Next]_vars PROVE TypeOK'
    OBVIOUS
  <2> USE DEF TypeOK
  <2>1. ASSUME NEW s \in Sessions, NEW kind \in Kinds, NEW opening \in Openings,
               OpenTrigger(s, kind, opening)
        PROVE  TypeOK'
    <3>1. PICK number \in NewNumber(kind) :
              call' = [call EXCEPT ![s] =
                         [pc |-> "open", kind |-> kind, account_id |-> <<kind, number>>,
                          balance |-> opening[1], limit |-> opening[2]]]
      BY ZenonT(60), <2>1 DEF OpenTrigger
    <3>2. number \in Nat
      BY SMTT(60) DEF NewNumber, MaxIdCount, Table
    <3>3. [pc |-> "open", kind |-> kind, account_id |-> <<kind, number>>,
           balance |-> opening[1], limit |-> opening[2]] \in OpenCall
      BY SMTT(60), <3>2 DEF OpenCall, AccountId
    <3> QED
      BY ZenonT(60), <2>1, <3>1, <3>3 DEF OpenTrigger
  <2>2. ASSUME NEW s \in Sessions, OpenApply(s)
        PROVE  TypeOK'
    <3>1. call[s] \in OpenCall
      BY ZenonT(60), <2>2 DEF OpenApply, TransferCall
    <3> DEFINE new == <<call[s].kind, next_id[call[s].kind]>>
    <3>2. /\ new \in Keys
          /\ [account_id |-> call[s].account_id, balance |-> call[s].balance,
              limit |-> call[s].limit] \in Row
      BY <3>1 DEF OpenCall, Row
    <3>3. /\ DOMAIN accounts' \subseteq Keys
          /\ accounts' \in [DOMAIN accounts' -> Row]
      BY <2>2, <3>2 DEF OpenApply
    <3>4. next_id' \in [Kinds -> Nat] /\ funding' \in Int
      BY SMTT(60), <2>2, <3>1 DEF OpenApply, OpenCall
    <3> QED
      BY SMTT(60), <2>2, <3>3, <3>4 DEF OpenApply
  <2>3. ASSUME NEW s \in Sessions, NEW k \in DOMAIN accounts, CloseAccount(s, k)
        PROVE  TypeOK'
    <3>1. accounts[k].balance \in Int
      BY DEF Row
    <3> QED
      BY SMTT(60), <2>3, <3>1 DEF CloseAccount
  <2>4. ASSUME NEW s \in Sessions, NEW source \in SourceIds,
               NEW target \in TargetIds, NEW amount \in Amounts,
               Check(s, source, target, amount)
        PROVE  TypeOK'
    <3>1. \A ok \in BOOLEAN :
            [pc |-> IF ok THEN "read_source" ELSE "log",
             source |-> source, target |-> target, amount |-> amount,
             temp_balance |-> NULL, rc |-> IF ok THEN 1 ELSE -1] \in TransferCall
      BY DEF TransferCall
    <3> QED
      BY ZenonT(60), <2>4, <3>1 DEF Check
  <2>5. ASSUME NEW s \in Sessions, ReadSource(s) \/ ReadTarget(s)
        PROVE  TypeOK'
    <3>1. call[s] \in TransferCall
      BY <2>5 DEF ReadSource, ReadTarget, At, OpenCall
    <3>2. ASSUME NEW id \in AccountId, NEW next \in {"debit", "credit"},
                 ReadBalance(s, id, next)
          PROVE  TypeOK'
      <4>1. IF Rows(id) = {} THEN TRUE
            ELSE accounts[CHOOSE k \in Rows(id) : TRUE].balance \in Int
        BY SMTT(60) DEF Rows, Table, Row
      <4>2. CASE Ambiguous(id)
        BY ZenonT(60), <3>2, <4>2 DEF ReadBalance, Fail
      <4>3. CASE ~Ambiguous(id)
        <5> DEFINE temp == IF Rows(id) = {} THEN NULL
                           ELSE accounts[CHOOSE k \in Rows(id) : TRUE].balance
                   c == [call[s] EXCEPT !.temp_balance = temp, !.pc = next]
        <5>1. temp \in Int \union {NULL}
          BY <4>1
        <5> HIDE DEF temp
        <5>2. c \in TransferCall
          BY ZenonT(60), <3>1, <5>1 DEF TransferCall
        <5>3. call' = [call EXCEPT ![s] = c]
          BY ZenonT(60), <3>2, <4>3 DEF ReadBalance, temp
        <5> HIDE DEF c
        <5> QED
          BY <3>2, <5>2, <5>3 DEF ReadBalance
      <4> QED
        BY SMTT(60), <4>2, <4>3
    <3> QED
      BY SMTT(60), <2>5, <3>1, <3>2 DEF ReadSource, ReadTarget, TransferCall
  <2>6. ASSUME NEW s \in Sessions, Debit(s) \/ Credit(s)
        PROVE  TypeOK'
    <3>1. call[s] \in TransferCall
      BY <2>6 DEF Debit, Credit, At, OpenCall
    <3>2. ASSUME NEW id \in AccountId, NEW delta \in Int,
                 NEW next \in {"read_target", "log"}, WriteBalance(s, id, delta, next)
          PROVE  TypeOK'
      <4>1. call' \in [Sessions -> OpenCall \union TransferCall \union {Idle}]
        <5>1. [call[s] EXCEPT !.pc = next] \in TransferCall
          BY ZenonT(60), <3>1 DEF TransferCall
        <5>2. \/ call' = [call EXCEPT ![s] = Idle]
              \/ call' = [call EXCEPT ![s] = [call[s] EXCEPT !.pc = next]]
          BY <3>2 DEF WriteBalance, Fail, Goto
        <5> QED
          BY ZenonT(60), <5>1, <5>2
      <4>2. CASE Rows(id) # {} /\ call[s].temp_balance = NULL
        BY <3>2, <4>1, <4>2 DEF WriteBalance
      <4>3. CASE ~(Rows(id) # {} /\ call[s].temp_balance = NULL)
        <5>1. ASSUME NEW k \in Rows(id)
              PROVE  [accounts[k] EXCEPT !.balance = call[s].temp_balance + delta] \in Row
          <6>1. call[s].temp_balance + delta \in Int
            BY <3>1, <4>3 DEF TransferCall
          <6>2. accounts[k] \in Row
            BY DEF Rows, Table
          <6> QED
            BY ZenonT(60), <6>1, <6>2 DEF Row
        <5> DEFINE written(k) == [accounts[k] EXCEPT !.balance =
                                    call[s].temp_balance + delta]
        <5>2. accounts' = [k \in DOMAIN accounts |->
                             IF k \in Rows(id) THEN written(k) ELSE accounts[k]]
          BY SMTT(60), <3>2, <4>3 DEF WriteBalance
        <5> HIDE DEF written
        <5>3. accounts' \in [DOMAIN accounts -> Row]
          BY <5>1, <5>2 DEF written
        <5> QED
          BY <3>2, <4>1, <5>3 DEF WriteBalance
      <4> QED
        BY SMTT(60), <4>2, <4>3
    <3> QED
      <4>1. /\ call[s].source \in AccountId /\ call[s].target \in AccountId
            /\ call[s].amount \in Int /\ -call[s].amount \in Int
        BY <3>1 DEF TransferCall
      <4>2. AfterDebit(s) \in {"read_target", "log"}
        BY DEF AfterDebit
      <4>3. \/ WriteBalance(s, call[s].source, -call[s].amount, AfterDebit(s))
            \/ WriteBalance(s, call[s].target, call[s].amount, "log")
        BY <2>6 DEF Debit, Credit
      <4>4. CASE WriteBalance(s, call[s].source, -call[s].amount, AfterDebit(s))
        <5>1. CASE AfterDebit(s) = "read_target"
          <6>1. WriteBalance(s, call[s].source, -call[s].amount, "read_target")
            BY <4>4, <5>1
          <6> QED
            BY <3>2, <4>1, <6>1, Zenon
        <5>2. CASE AfterDebit(s) = "log"
          <6>1. WriteBalance(s, call[s].source, -call[s].amount, "log")
            BY <4>4, <5>2
          <6> QED
            BY <3>2, <4>1, <6>1, Zenon
        <5> QED
          BY SMTT(60), <4>2, <5>1, <5>2
      <4>5. CASE WriteBalance(s, call[s].target, call[s].amount, "log")
        BY <3>2, <4>1, <4>5, Zenon
      <4> QED
        BY SMTT(60), <4>3, <4>4, <4>5
  <2>7. ASSUME NEW s \in Sessions, WriteLog(s)
        PROVE  TypeOK'
    <3>1. call[s] \in TransferCall
      BY <2>7 DEF WriteLog, At, OpenCall
    <3>2. [source |-> call[s].source, target |-> call[s].target,
           amount |-> call[s].amount, result_code |-> call[s].rc] \in LogRecord
      BY <3>1 DEF TransferCall, LogRecord
    <3> QED
      BY <2>7, <3>2 DEF WriteLog
  <2>8. ASSUME NEW s \in Sessions, Kill(s)
        PROVE  TypeOK'
    BY <2>8 DEF Kill
  <2>9. CASE UNCHANGED vars
    BY <2>9 DEF vars
  <2> QED
    BY ZenonT(60), <2>1, <2>2, <2>3, <2>4, <2>5, <2>6, <2>7, <2>8, <2>9 DEF Next
<1> QED
  BY <1>1, <1>2, PTL DEF Spec

-----------------------------------------------------------------------------
(* Account ids.  A trigger numbers an account from the rows it sees, while *)
(* the row is keyed by AUTO_INCREMENT: the number lies above the keys of   *)
(* the older rows and not above its own key.                               *)

OpenPending(s) == call[s] # Idle /\ call[s].pc = "open"

OneCall == \A s, t \in Sessions: call[s] # Idle /\ call[t] # Idle => s = t

NumberInv ==
    /\ \A kind \in Kinds: FirstId[kind] <= next_id[kind]
    /\ \A k \in DOMAIN accounts:
          /\ accounts[k].account_id[1] = k[1]
          /\ accounts[k].account_id[2] <= k[2]
          /\ k[2] < next_id[k[1]]
    /\ \A j, k \in DOMAIN accounts:
          j[1] = k[1] /\ j[2] < k[2] => j[2] < accounts[k].account_id[2]
    /\ \A s \in Sessions: OpenPending(s) =>
          /\ call[s].account_id[1] = call[s].kind
          /\ call[s].account_id[2] <= next_id[call[s].kind]
          /\ \A k \in DOMAIN accounts:
                k[1] = call[s].kind => k[2] < call[s].account_id[2]

\* A step that keeps the account ids and adds no pending INSERT is harmless.
LEMMA NumbersKept ==
    ASSUME TypeOK, NumberInv, next_id' = next_id,
           DOMAIN accounts' \subseteq DOMAIN accounts,
           \A k \in DOMAIN accounts': accounts'[k].account_id = accounts[k].account_id,
           \A s \in Sessions: OpenPending(s)' => OpenPending(s) /\ call'[s] = call[s]
    PROVE  NumberInv'
BY DEF NumberInv

\* Without overlap at most one session is inside a call.
LEMMA OneCallStep ==
    ASSUME ~Overlap, TypeOK, OneCall, [Next]_vars
    PROVE  OneCall'
<1>1. ASSUME NEW s \in Sessions,
             \A t \in Sessions: call[t] # Idle => t = s,
             \A t \in Sessions: t # s => call'[t] = call[t]
      PROVE  OneCall'
  BY <1>1 DEF OneCall
<1>2. ASSUME NEW s \in Sessions, MayStart(s),
             \A t \in Sessions: t # s => call'[t] = call[t]
      PROVE  OneCall'
  BY <1>1, <1>2 DEF MayStart
<1>3. ASSUME NEW s \in Sessions, call[s] # Idle,
             \A t \in Sessions: t # s => call'[t] = call[t]
      PROVE  OneCall'
  BY <1>1, <1>3 DEF OneCall
<1> USE DEF TypeOK
<1>4. ASSUME NEW s \in Sessions, NEW kind \in Kinds, NEW opening \in Openings,
             OpenTrigger(s, kind, opening)
      PROVE  OneCall'
  BY <1>2, <1>4 DEF OpenTrigger
<1>5. ASSUME NEW s \in Sessions, NEW source \in SourceIds,
             NEW target \in TargetIds, NEW amount \in Amounts,
             Check(s, source, target, amount)
      PROVE  OneCall'
  BY <1>2, <1>5 DEF Check
<1>6. ASSUME NEW s \in Sessions,
             \/ OpenApply(s) \/ ReadSource(s) \/ Debit(s) \/ ReadTarget(s)
             \/ Credit(s) \/ WriteLog(s) \/ Kill(s)
      PROVE  OneCall'
  <2>1. call[s] # Idle
    BY ZenonT(60), <1>6 DEF OpenApply, ReadSource, Debit, ReadTarget, Credit, WriteLog, Kill, At
  <2>2. \A t \in Sessions: t # s => call'[t] = call[t]
    BY <1>6 DEF OpenApply, ReadSource, Debit, ReadTarget, Credit, WriteLog, Kill,
                ReadBalance, WriteBalance, Fail, Goto
  <2> QED
    BY <1>3, <2>1, <2>2
<1>7. ASSUME UNCHANGED call PROVE OneCall'
  BY <1>7 DEF OneCall
<1> QED
  BY ZenonT(60), <1>4, <1>5, <1>6, <1>7 DEF Next, CloseAccount, vars

\* The numbering invariant is inductive while calls do not overlap.
LEMMA NumberStep ==
    ASSUME ~Overlap, TypeOK, OneCall, NumberInv, [Next]_vars
    PROVE  NumberInv'
<1> USE DEF TypeOK
<1>1. ASSUME NEW s \in Sessions, NEW kind \in Kinds, NEW opening \in Openings,
             OpenTrigger(s, kind, opening)
      PROVE  NumberInv'
  <2>1. PICK number \in NewNumber(kind) :
            call' = [call EXCEPT ![s] =
                       [pc |-> "open", kind |-> kind, account_id |-> <<kind, number>>,
                        balance |-> opening[1], limit |-> opening[2]]]
    BY ZenonT(60), <1>1 DEF OpenTrigger
  <2>2. number <= next_id[kind] /\ number \in Nat
    BY FirstIdNat DEF NewNumber, MaxIdCount, Table, NumberInv
  <2>3. \A k \in DOMAIN accounts: k[1] = kind => k[2] < number
    BY DEF NewNumber, MaxIdCount, Table
  <2>4. UNCHANGED <<accounts, next_id>>
    BY <1>1 DEF OpenTrigger
  <2>5. \A t \in Sessions: t # s => call'[t] = call[t]
    BY <2>1
  <2>6. /\ call'[s].kind = kind
        /\ call'[s].account_id = <<kind, number>>
    BY <2>1
  <2> QED
    BY <2>2, <2>3, <2>4, <2>5, <2>6 DEF NumberInv, OpenPending
<1>2. ASSUME NEW s \in Sessions, OpenApply(s)
      PROVE  NumberInv'
  <2> DEFINE kind == call[s].kind
             new == <<kind, next_id[kind]>>
  <2>1. call[s] \in OpenCall /\ OpenPending(s)
    BY ZenonT(60), <1>2 DEF OpenApply, TransferCall, OpenPending
  <2>2. kind \in Kinds /\ next_id[kind] \in Nat
    BY <2>1 DEF OpenCall
  <2>3. /\ DOMAIN accounts' = DOMAIN accounts \union {new}
        /\ accounts'[new].account_id = call[s].account_id
        /\ \A k \in DOMAIN accounts: k # new => accounts'[k] = accounts[k]
    BY <1>2 DEF OpenApply
  <2>4. /\ next_id'[kind] = next_id[kind] + 1
        /\ \A other \in Kinds: other # kind => next_id'[other] = next_id[other]
    BY <1>2, <2>2 DEF OpenApply
  <2>5. new \notin DOMAIN accounts
    BY <2>2 DEF NumberInv
  <2>6. \A t \in Sessions: ~OpenPending(t)'
    BY <1>2, <2>1 DEF OpenApply, OneCall, OpenPending
  <2>7. \A other \in Kinds: FirstId[other] <= next_id'[other]
    BY <2>2, <2>4, FirstIdNat DEF NumberInv
  <2>8. ASSUME NEW k \in DOMAIN accounts'
        PROVE  /\ accounts'[k].account_id[1] = k[1]
               /\ accounts'[k].account_id[2] <= k[2]
               /\ k[2] < next_id'[k[1]]
    <3>1. CASE k = new
      BY <2>1, <2>2, <2>3, <2>4, <3>1 DEF NumberInv
    <3>2. CASE k # new
      BY SMTT(60), <2>2, <2>3, <2>4, <3>2 DEF NumberInv
    <3> QED
      BY <3>1, <3>2
  <2>9. ASSUME NEW j \in DOMAIN accounts', NEW k \in DOMAIN accounts',
               j[1] = k[1], j[2] < k[2]
        PROVE  j[2] < accounts'[k].account_id[2]
    <3>1. CASE k = new
      <4>1. j # new /\ j \in DOMAIN accounts /\ j[1] = kind
        BY <2>2, <2>3, <2>9, <3>1
      <4> QED
        BY <2>1, <2>3, <3>1, <4>1 DEF NumberInv
    <3>2. CASE k # new /\ j = new
      <4>1. k \in DOMAIN accounts /\ k[1] = kind /\ k[2] < next_id[kind]
        BY ZenonT(60), <2>3, <2>9, <3>2 DEF NumberInv
      <4> QED
        BY <2>2, <2>9, <3>2, <4>1
    <3>3. CASE k # new /\ j # new
      BY <2>3, <2>9, <3>3 DEF NumberInv
    <3> QED
      BY <3>1, <3>2, <3>3
  <2> HIDE DEF new
  <2> QED
    BY <2>6, <2>7, <2>8, <2>9 DEF NumberInv
<1>3. ASSUME NEW s \in Sessions, NEW k \in DOMAIN accounts, CloseAccount(s, k)
      PROVE  NumberInv'
  BY <1>3, NumbersKept DEF CloseAccount, OpenPending
<1>4. ASSUME UNCHANGED <<accounts, next_id>>,
             NEW s \in Sessions, ~OpenPending(s)',
             \A t \in Sessions: t # s => call'[t] = call[t]
      PROVE  NumberInv'
  BY <1>4, NumbersKept DEF OpenPending
<1>5. ASSUME NEW s \in Sessions, NEW source \in SourceIds,
             NEW target \in TargetIds, NEW amount \in Amounts,
             Check(s, source, target, amount)
      PROVE  NumberInv'
  BY <1>4, <1>5 DEF Check, OpenPending
<1>6. ASSUME NEW s \in Sessions,
             ReadSource(s) \/ ReadTarget(s) \/ WriteLog(s) \/ Kill(s)
      PROVE  NumberInv'
  <2>1. ASSUME NEW id, NEW next \in {"debit", "credit"},
               call[s] \in TransferCall, ReadBalance(s, id, next)
        PROVE  ~OpenPending(s)' /\ \A t \in Sessions: t # s => call'[t] = call[t]
    <3>1. CASE Ambiguous(id)
      BY <2>1, <3>1 DEF ReadBalance, Fail, OpenPending
    <3>2. CASE ~Ambiguous(id)
      <4>1. PICK temp : call' = [call EXCEPT ![s] = [call[s] EXCEPT !.temp_balance = temp,
                                                                   !.pc = next]]
        BY ZenonT(60), <2>1, <3>2 DEF ReadBalance
      <4>2. [call[s] EXCEPT !.temp_balance = temp, !.pc = next].pc = next
        BY <2>1 DEF TransferCall
      <4> QED
        BY <4>1, <4>2 DEF OpenPending
    <3> QED
      BY <3>1, <3>2
  <2>2. ~OpenPending(s)' /\ \A t \in Sessions: t # s => call'[t] = call[t]
    <3>1. CASE ReadSource(s) \/ ReadTarget(s)
      <4>1. call[s] \in TransferCall
        BY <3>1 DEF ReadSource, ReadTarget, At, OpenCall
      <4> QED
        BY <2>1, <3>1, <4>1 DEF ReadSource, ReadTarget
    <3>2. CASE WriteLog(s) \/ Kill(s)
      BY <3>2 DEF WriteLog, Kill, OpenPending
    <3> QED
      BY <1>6, <3>1, <3>2
  <2> QED
    BY <1>4, <1>6, <2>2 DEF ReadSource, ReadTarget, WriteLog, Kill, ReadBalance
<1>7. ASSUME NEW s \in Sessions, NEW id, NEW delta, NEW next \in {"read_target", "log"},
             call[s] \in TransferCall, WriteBalance(s, id, delta, next)
      PROVE  NumberInv'
  <2>1. /\ DOMAIN accounts' = DOMAIN accounts
        /\ \A k \in DOMAIN accounts: accounts'[k].account_id = accounts[k].account_id
    BY SMTT(60), <1>7 DEF WriteBalance, Row
  <2>2. ~OpenPending(s)' /\ \A t \in Sessions: t # s => call'[t] = call[t]
    <3>1. \/ call' = [call EXCEPT ![s] = Idle]
          \/ call' = [call EXCEPT ![s] = [call[s] EXCEPT !.pc = next]]
      BY <1>7 DEF WriteBalance, Fail, Goto
    <3>2. [call[s] EXCEPT !.pc = next].pc = next
      BY <1>7 DEF TransferCall
    <3> QED
      BY ZenonT(60), <3>1, <3>2 DEF OpenPending
  <2> QED
    BY <1>7, <2>1, <2>2, NumbersKept DEF WriteBalance, OpenPending
<1>8. ASSUME NEW s \in Sessions, Debit(s) \/ Credit(s)
      PROVE  NumberInv'
  <2>1. call[s] \in TransferCall
    BY <1>8 DEF Debit, Credit, At, OpenCall
  <2> QED
    BY <1>7, <1>8, <2>1 DEF Debit, Credit, AfterDebit
<1>9. CASE UNCHANGED vars
  BY <1>9, NumbersKept DEF vars, OpenPending
<1> QED
  BY <1>1, <1>2, <1>3, <1>5, <1>6, <1>8, <1>9 DEF Next

\* The calls and the numbering of the loaded accounts.
LEMMA NumberInit == Init => OneCall /\ NumberInv
<1> SUFFICES ASSUME Init PROVE OneCall /\ NumberInv
  OBVIOUS
<1> USE BankAssumption, FirstIdNat
<1>1. OneCall /\ \A s \in Sessions: ~OpenPending(s)
  BY DEF Init, OneCall, OpenPending
<1>2. \A kind \in Kinds: FirstId[kind] <= next_id[kind]
  BY DEF Init
<1>3. ASSUME NEW k \in DOMAIN accounts
      PROVE  accounts[k].account_id = k /\ k \in Keys /\ k[2] < next_id[k[1]]
  <2>1. PICK kind \in Kinds :
            k \in {<<kind, FirstId[kind] + i - 1>> : i \in DOMAIN Loaded[kind]}
    BY DEF Init, LoadedKeys
  <2>2. PICK i \in DOMAIN Loaded[kind] : k = <<kind, FirstId[kind] + i - 1>>
    BY <2>1
  <2>3. i \in Nat \ {0} /\ i <= Len(Loaded[kind]) /\ Len(Loaded[kind]) \in Nat
    BY SMTT(60)
  <2>4. accounts[k].account_id = k
    BY DEF Init, LoadedRow
  <2>5. FirstId[kind] \in Nat /\ next_id[kind] = FirstId[kind] + Len(Loaded[kind])
    BY DEF Init
  <2>6. k \in Keys /\ k[1] = kind /\ k[2] = FirstId[kind] + i - 1
    BY SMTT(60), <2>2, <2>3, <2>5
  <2> QED
    BY <2>3, <2>4, <2>5, <2>6
<1> QED
  BY <1>1, <1>2, <1>3 DEF NumberInv

\* Numbers that lie between the keys of the neighbours differ.
LEMMA NumbersDiffer == TypeOK /\ NumberInv => AccountIdsUnique
<1> SUFFICES ASSUME TypeOK, NumberInv, NEW j \in DOMAIN accounts,
                    NEW k \in DOMAIN accounts,
                    accounts[j].account_id = accounts[k].account_id
             PROVE  j = k
  BY DEF AccountIdsUnique
<1>1. /\ j \in Keys /\ k \in Keys
      /\ accounts[j].account_id \in AccountId /\ accounts[k].account_id \in AccountId
  BY DEF TypeOK, Row
<1>2. j[1] = k[1] /\ ~(j[2] < k[2]) /\ ~(k[2] < j[2])
  BY <1>1 DEF NumberInv, AccountId
<1> QED
  BY <1>1, <1>2

\* Every account_id names one account as long as calls do not overlap, however
\* many accounts have been deleted and whenever sessions are killed.
THEOREM IdsUnique ==
    ASSUME ~Overlap
    PROVE  Spec => []AccountIdsUnique
<1>1. TypeOK /\ OneCall /\ NumberInv /\ [Next]_vars => OneCall' /\ NumberInv'
  BY OneCallStep, NumberStep
<1> QED
  BY <1>1, NumberInit, NumbersDiffer, TypeCorrect, PTL DEF Spec

-----------------------------------------------------------------------------
(* Transfers.  Between the read of a balance and the UPDATE nothing else   *)
(* runs, so temp_balance is the balance and the check still holds.         *)

TransferInv ==
    \A s \in Sessions:
        /\ At(s, "read_source") \/ At(s, "debit") =>
              \A k \in Rows(call[s].source): accounts[k].balance - call[s].amount > Floor(k)
        /\ At(s, "debit") =>
              \A k \in Rows(call[s].source): call[s].temp_balance = accounts[k].balance
        /\ At(s, "credit") =>
              \A k \in Rows(call[s].target): call[s].temp_balance = accounts[k].balance
        /\ call[s] # Idle /\ call[s].pc # "open" => call[s].amount \in Amounts

\* A session at a label of transfer_commit has the locals of transfer_commit.
LEMMA InTransfer ==
    ASSUME TypeOK, NEW s \in Sessions, call[s] # Idle, call[s].pc # "open"
    PROVE  call[s] \in TransferCall
BY DEF TypeOK, OpenCall

\* What the two UPDATEs of a transfer write.
LEMMA Written ==
    ASSUME TypeOK, NEW s \in Sessions, NEW id, NEW delta, NEW next,
           WriteBalance(s, id, delta, next),
           call[s] \in TransferCall,
           \A k \in Rows(id): call[s].temp_balance = accounts[k].balance
    PROVE  /\ DOMAIN accounts' = DOMAIN accounts
           /\ \A k \in DOMAIN accounts:
                 /\ accounts'[k].account_id = accounts[k].account_id
                 /\ accounts'[k].limit = accounts[k].limit
                 /\ accounts'[k].balance = IF k \in Rows(id) THEN accounts[k].balance + delta
                                          ELSE accounts[k].balance
           /\ call' = [call EXCEPT ![s].pc = next]
<1>1. ~(Rows(id) # {} /\ call[s].temp_balance = NULL)
  BY BankAssumption DEF TypeOK, Row, Rows, Table
<1>2. accounts' = [k \in DOMAIN accounts |->
                     IF k \in Rows(id)
                     THEN [accounts[k] EXCEPT !.balance = call[s].temp_balance + delta]
                     ELSE accounts[k]]
  BY <1>1 DEF WriteBalance
<1>3. call' = [call EXCEPT ![s].pc = next]
  BY <1>1 DEF WriteBalance, Goto
<1>4. \A k \in DOMAIN accounts: accounts[k] \in Row
  BY DEF TypeOK
<1> QED
  BY <1>2, <1>3, <1>4 DEF Row

\* Without overlap, the session that moves is the only one inside a call.
LEMMA OthersIdle ==
    ASSUME ~Overlap, OneCall, NEW s \in Sessions, call[s] # Idle \/ MayStart(s)
    PROVE  \A t \in Sessions: t # s => call[t] = Idle
BY DEF OneCall, MayStart

\* The transfer invariant is inductive while calls do not overlap.
LEMMA TransferStep ==
    ASSUME ~Overlap, TypeOK, OneCall, AccountIdsUnique, TransferInv, [Next]_vars
    PROVE  TransferInv'
<1> USE DEF TypeOK
<1>0. ASSUME NEW s \in Sessions, \A t \in Sessions: t # s => call'[t] = Idle,
             call'[s] = Idle \/ call'[s].pc = "open"
      PROVE  TransferInv'
  BY <1>0 DEF TransferInv, At
<1>1. ASSUME NEW s \in Sessions, NEW kind \in Kinds, NEW opening \in Openings,
             OpenTrigger(s, kind, opening)
      PROVE  TransferInv'
  <2>1. PICK number : call' = [call EXCEPT ![s] =
                         [pc |-> "open", kind |-> kind, account_id |-> <<kind, number>>,
                          balance |-> opening[1], limit |-> opening[2]]]
    BY ZenonT(60), <1>1 DEF OpenTrigger
  <2> QED
    BY <1>0, <1>1, <2>1, OthersIdle DEF OpenTrigger
<1>2. ASSUME NEW s \in Sessions, OpenApply(s) \/ WriteLog(s) \/ Kill(s)
      PROVE  TransferInv'
  <2>1. call[s] # Idle /\ call' = [call EXCEPT ![s] = Idle]
    BY <1>2 DEF OpenApply, WriteLog, Kill, At
  <2> QED
    BY <1>0, <2>1, OthersIdle
<1>3. ASSUME NEW s \in Sessions, NEW k \in DOMAIN accounts, CloseAccount(s, k)
      PROVE  TransferInv'
  BY <1>0, <1>3, OthersIdle DEF CloseAccount, MayStart
<1>4. ASSUME NEW s \in Sessions, NEW source \in SourceIds,
             NEW target \in TargetIds, NEW amount \in Amounts,
             Check(s, source, target, amount)
      PROVE  TransferInv'
  <2>1. \A t \in Sessions: t # s => call'[t] = Idle
    BY <1>4, OthersIdle DEF Check
  <2>2. /\ call'[s].source = source /\ call'[s].amount = amount
        /\ call'[s].pc = IF Covered(source, amount) THEN "read_source" ELSE "log"
        /\ UNCHANGED accounts
    BY <1>4 DEF Check
  <2>3. Covered(source, amount) =>
            \A k \in Rows(source): accounts[k].balance - amount > Floor(k)
    BY <1>4 DEF Check, Covered, Ambiguous
  <2>4. Rows(source)' = Rows(source) /\ \A k: Floor(k)' = Floor(k)
    BY <2>2 DEF Rows, Table, Floor
  <2> QED
    BY <2>1, <2>2, <2>3, <2>4 DEF TransferInv, At
<1>5. ASSUME NEW s \in Sessions, NEW id \in AccountId, NEW next \in {"debit", "credit"},
             call[s] \in TransferCall, ReadBalance(s, id, next),
             next = "debit" => At(s, "read_source") /\ id = call[s].source,
             next = "credit" => id = call[s].target
      PROVE  TransferInv'
  <2>1. ~Ambiguous(id)
    BY DEF Ambiguous, Rows, Table, AccountIdsUnique
  <2> DEFINE temp == IF Rows(id) = {} THEN NULL
                     ELSE accounts[CHOOSE k \in Rows(id) : TRUE].balance
  <2>2. /\ call' = [call EXCEPT ![s].temp_balance = temp, ![s].pc = next]
        /\ \A k \in Rows(id): temp = accounts[k].balance
    BY ZenonT(60), <1>5, <2>1 DEF ReadBalance, Ambiguous
  <2> HIDE DEF temp
  <2>3. /\ call'[s].pc = next /\ call'[s].temp_balance = temp
        /\ call'[s].source = call[s].source /\ call'[s].target = call[s].target
        /\ call'[s].amount = call[s].amount
    BY <1>5, <2>2 DEF TransferCall
  <2>4. call[s] # Idle /\ call[s].pc # "open"
    BY <1>5, BankAssumption DEF TransferCall
  <2>5. \A t \in Sessions: t # s => call'[t] = Idle
    BY <2>2, <2>4, OthersIdle
  <2>6. UNCHANGED accounts
    BY <1>5 DEF ReadBalance
  <2>7. (\A i: Rows(i)' = Rows(i)) /\ \A k: Floor(k)' = Floor(k)
    BY <2>6 DEF Rows, Table, Floor
  <2> QED
    BY SMTT(60), <1>5, <2>2, <2>3, <2>4, <2>5, <2>6, <2>7 DEF TransferInv, At
<1>6. ASSUME NEW s \in Sessions, ReadSource(s) \/ ReadTarget(s)
      PROVE  TransferInv'
  <2>1. call[s] \in TransferCall
    BY <1>6, InTransfer DEF ReadSource, ReadTarget, At
  <2>2. call[s].source \in AccountId /\ call[s].target \in AccountId
    BY <2>1 DEF TransferCall
  <2> QED
    BY <1>5, <1>6, <2>1, <2>2 DEF ReadSource, ReadTarget
<1>7. ASSUME NEW s \in Sessions, Debit(s) \/ Credit(s)
      PROVE  TransferInv'
  <2>1. call[s] \in TransferCall /\ call[s] # Idle /\ call[s].pc # "open"
    BY <1>7, InTransfer DEF Debit, Credit, At
  <2>2. PICK next \in {"read_target", "log"} : call' = [call EXCEPT ![s].pc = next]
    BY <1>7, <2>1, Written DEF Debit, Credit, AfterDebit, TransferInv
  <2>3. call'[s].pc = next /\ call'[s].amount = call[s].amount
    BY <2>1, <2>2 DEF TransferCall
  <2>4. \A t \in Sessions: t # s => call'[t] = Idle
    BY <2>1, <2>2, OthersIdle
  <2> QED
    BY <2>1, <2>3, <2>4 DEF TransferInv, At
<1>8. CASE UNCHANGED vars
  BY <1>8 DEF vars, TransferInv, At, Rows, Table, Floor
<1> QED
  BY <1>1, <1>2, <1>3, <1>4, <1>6, <1>7, <1>8 DEF Next

SerialInv == OneCall /\ NumberInv /\ TransferInv

\* What one call at a time keeps.
LEMMA SerialInvariant ==
    ASSUME ~Overlap
    PROVE  Spec => []SerialInv
<1>1. Init => SerialInv
  BY NumberInit DEF Init, SerialInv, TransferInv, At
<1>2. TypeOK /\ SerialInv /\ [Next]_vars => SerialInv'
  BY OneCallStep, NumberStep, NumbersDiffer, TransferStep DEF SerialInv
<1> QED
  BY <1>1, <1>2, TypeCorrect, PTL DEF Spec

\* While calls do not overlap, the UPDATEs of transfer_commit change the two
\* balances by exactly the amount: the read-then-write of temp_balance is as good
\* as an increment, and a transfer to the source itself changes nothing.
THEOREM TransfersAreExact ==
    ASSUME ~Overlap
    PROVE  Spec => ChangedByAmount
<1>1. ASSUME TypeOK, SerialInv, [Next]_vars, NEW s \in Sessions
      PROVE  /\ Debit(s) => \A k \in Rows(call[s].source):
                    accounts'[k].balance = accounts[k].balance - call[s].amount
             /\ Credit(s) => \A k \in Rows(call[s].target):
                    accounts'[k].balance = accounts[k].balance + call[s].amount
  <2>1. \A id: Rows(id) \subseteq DOMAIN accounts
    BY DEF Rows, Table
  <2>2. ASSUME Debit(s)
        PROVE  \A k \in Rows(call[s].source):
                    accounts'[k].balance = accounts[k].balance - call[s].amount
    <3>1. call[s] \in TransferCall /\ call[s].amount \in Int
      BY <1>1, <2>2, InTransfer DEF Debit, At, TransferCall
    <3>2. \A k \in Rows(call[s].source): accounts[k].balance \in Int
      BY <1>1, <2>1 DEF TypeOK, Row
    <3> QED
      BY <1>1, <2>1, <2>2, <3>1, <3>2, Written DEF Debit, SerialInv, TransferInv
  <2>3. ASSUME Credit(s)
        PROVE  \A k \in Rows(call[s].target):
                    accounts'[k].balance = accounts[k].balance + call[s].amount
    <3>1. call[s] \in TransferCall
      BY <1>1, <2>3, InTransfer DEF Credit, At
    <3> QED
      BY <1>1, <2>1, <2>3, <3>1, Written DEF Credit, SerialInv, TransferInv
  <2> QED
    BY <2>2, <2>3
<1>2. TypeOK /\ SerialInv /\ [Next]_vars =>
        [\A s \in Sessions:
          /\ Debit(s) => \A k \in Rows(call[s].source):
                accounts'[k].balance = accounts[k].balance - call[s].amount
          /\ Credit(s) => \A k \in Rows(call[s].target):
                accounts'[k].balance = accounts[k].balance + call[s].amount]_vars
  BY <1>1
<1> QED
  BY <1>2, TypeCorrect, SerialInvariant, PTL DEF Spec, ChangedByAmount

\* While calls do not overlap and amounts are not negative, no transfer takes an
\* account to its limit or beyond, whatever accounts are opened and closed and
\* wherever sessions are killed.  (A negative amount is a debit of the target,
\* which transfer_commit does not compare with a limit.)
THEOREM FloorsAreRespected ==
    ASSUME ~Overlap, Amounts \subseteq Nat
    PROVE  Spec => FloorRespected
<1>1. ASSUME TypeOK, SerialInv, [Next]_vars,
             NEW k \in DOMAIN accounts \intersect DOMAIN accounts',
             accounts'[k].balance < accounts[k].balance
      PROVE  accounts'[k].balance > Floor(k)
  <2> USE <1>1
  <2>0. accounts[k].balance \in Int
    BY DEF TypeOK, Row
  <2>1. accounts'[k] # accounts[k]
    BY <2>0
  <2>2. ASSUME NEW s \in Sessions, OpenApply(s) PROVE FALSE
    <3>1. call[s] \in OpenCall
      BY SMTT(60), <2>2 DEF OpenApply, TransferCall, TypeOK
    <3>2. <<call[s].kind, next_id[call[s].kind]>> \notin DOMAIN accounts
      BY <3>1 DEF SerialInv, NumberInv, TypeOK, OpenCall
    <3> QED
      BY <2>1, <2>2, <3>2 DEF OpenApply
  <2>3. ASSUME NEW s \in Sessions, NEW j \in DOMAIN accounts, CloseAccount(s, j)
        PROVE  FALSE
    BY <2>1, <2>3 DEF CloseAccount
  <2>4. ASSUME NEW s \in Sessions, Debit(s)
        PROVE  accounts'[k].balance > Floor(k)
    <3>1. call[s] \in TransferCall /\ call[s].amount \in Int
      BY <2>4, InTransfer DEF Debit, At, TransferCall
    <3>2. accounts'[k].balance = IF k \in Rows(call[s].source)
                                 THEN accounts[k].balance + -call[s].amount
                                 ELSE accounts[k].balance
      BY <2>4, <3>1, Written DEF Debit, SerialInv, TransferInv
    <3> QED
      BY <2>0, <2>4, <3>1, <3>2 DEF Debit, SerialInv, TransferInv
  <2>5. ASSUME NEW s \in Sessions, Credit(s)
        PROVE  FALSE
    <3>1. call[s] \in TransferCall /\ call[s].amount \in Nat
      BY ZenonT(60), <2>5, InTransfer DEF Credit, At, SerialInv, TransferInv
    <3>2. accounts'[k].balance = IF k \in Rows(call[s].target)
                                 THEN accounts[k].balance + call[s].amount
                                 ELSE accounts[k].balance
      BY <2>5, <3>1, Written DEF Credit, SerialInv, TransferInv
    <3> QED
      BY <2>0, <3>1, <3>2
  <2>6. CASE UNCHANGED accounts
    BY <2>1, <2>6
  <2> QED
    BY ZenonT(60), <2>2, <2>3, <2>4, <2>5, <2>6
    DEF Next, OpenTrigger, Check, ReadSource, ReadTarget, ReadBalance, WriteLog, Kill, vars
<1>2. TypeOK /\ SerialInv /\ [Next]_vars =>
        [\A k \in DOMAIN accounts \intersect DOMAIN accounts':
            accounts'[k].balance < accounts[k].balance =>
                accounts'[k].balance > Floor(k)]_vars
  BY <1>1
<1> QED
  BY <1>2, TypeCorrect, SerialInvariant, PTL DEF Spec, FloorRespected
-----------------------------------------------------------------------------
(* The ledger.  The mapping takes back what the running transfer has done, *)
(* so the book changes only at the log record; until then it stays one in  *)
(* which the transfer is allowed exactly if it was found covered.          *)

BookShape ==
    /\ DOMAIN Book = {accounts[k].account_id : k \in DOMAIN accounts}
    /\ \A k \in DOMAIN accounts:
          Book[accounts[k].account_id] =
              [balance |-> accounts[k].balance - Pending[accounts[k].account_id],
               limit |-> accounts[k].limit]

\* What the mapping makes of an account.
LEMMA BookAt == TypeOK /\ AccountIdsUnique => BookShape
<1> SUFFICES ASSUME TypeOK, AccountIdsUnique, NEW k \in DOMAIN accounts
             PROVE  Book[accounts[k].account_id] =
                        [balance |-> accounts[k].balance - Pending[accounts[k].account_id],
                         limit |-> accounts[k].limit]
  BY DEF Book, BookShape
<1>1. k = CHOOSE j \in DOMAIN accounts : accounts[j].account_id = accounts[k].account_id
  BY DEF AccountIdsUnique
<1> QED
  BY ZenonT(60), <1>1 DEF Book

\* A step that changes a balance by what it adds to the pending effect keeps the book.
LEMMA BookKept ==
    ASSUME BookShape, BookShape', DOMAIN accounts' = DOMAIN accounts,
           \A k \in DOMAIN accounts:
              /\ accounts'[k].account_id = accounts[k].account_id
              /\ accounts'[k].limit = accounts[k].limit
              /\ accounts'[k].balance - Pending'[accounts[k].account_id] =
                     accounts[k].balance - Pending[accounts[k].account_id]
    PROVE  Book' = Book
<1>1. DOMAIN Book' = DOMAIN Book
  BY DEF BookShape
<1>2. ASSUME NEW id \in DOMAIN Book PROVE Book'[id] = Book[id]
  <2>1. PICK k \in DOMAIN accounts : id = accounts[k].account_id
    BY DEF BookShape
  <2>2. Book[id] = [balance |-> accounts[k].balance - Pending[id], limit |-> accounts[k].limit]
    BY <2>1 DEF BookShape
  <2>3. Book'[id] = [balance |-> accounts'[k].balance - Pending'[id],
                     limit |-> accounts'[k].limit]
    BY <2>1 DEF BookShape
  <2> QED
    BY <2>1, <2>2, <2>3
<1> QED
  BY ZenonT(60), <1>1, <1>2 DEF Book

NoEffect(s) ==
    \/ call[s] = Idle
    \/ call[s].pc \notin {"read_target", "credit", "log"}
    \/ call[s].rc # 1

PendingShape ==
    \A s \in Sessions: (\A t \in Sessions: t # s => call[t] = Idle) =>
        \A id \in AccountId:
            /\ NoEffect(s) => Pending[id] = 0
            /\ ~NoEffect(s) =>
                  Pending[id] = (IF call[s].pc = "log" /\ call[s].target = id
                                 THEN call[s].amount ELSE 0)
                                - (IF call[s].source = id THEN call[s].amount ELSE 0)

\* Without overlap the pending effect is that of the session that moves.
LEMMA PendingAt == PendingShape
<1> SUFFICES ASSUME NEW s \in Sessions, \A t \in Sessions: t # s => call[t] = Idle,
                    NEW id \in AccountId
             PROVE  /\ NoEffect(s) => Pending[id] = 0
                    /\ ~NoEffect(s) =>
                          Pending[id] = (IF call[s].pc = "log" /\ call[s].target = id
                                         THEN call[s].amount ELSE 0)
                                        - (IF call[s].source = id THEN call[s].amount ELSE 0)
  BY DEF PendingShape
<1>1. ASSUME call[s] # Idle PROVE s = CHOOSE t \in Sessions : call[t] # Idle
  BY <1>1
<1>2. Pending[id] = IF call[s] = Idle THEN 0 ELSE Made(s, id)
  BY <1>1 DEF Pending, Quiet
<1>3. ASSUME call[s] # Idle, NoEffect(s) PROVE Made(s, id) = 0
  BY <1>3 DEF Made, NoEffect
<1>4. ASSUME ~NoEffect(s)
      PROVE  Made(s, id) = (IF call[s].pc = "log" /\ call[s].target = id
                            THEN call[s].amount ELSE 0)
                           - (IF call[s].source = id THEN call[s].amount ELSE 0)
  BY <1>4 DEF Made, NoEffect
<1> QED
  BY <1>2, <1>3, <1>4 DEF NoEffect

KeysInv ==
    /\ \A k \in LoadedKeys: k \in DOMAIN accounts /\ accounts[k].account_id = k
    /\ \A k \in DOMAIN accounts: FirstId[k[1]] <= k[2]

Transferring(s) == call[s] # Idle /\ call[s].pc # "open"

CallsInv ==
    \A s \in Sessions:
        /\ OpenPending(s) => /\ call[s].account_id \in NewAccountIds
                             /\ <<call[s].balance, call[s].limit>> \in Openings
        /\ Transferring(s) =>
              /\ call[s].source \in SourceIds /\ call[s].target \in TargetIds
              /\ call[s].amount \in Amounts
              /\ call[s].rc = 1 <=> Abstract!Allowed(call[s].source, call[s].target,
                                                      call[s].amount)
              /\ call[s].pc # "log" => call[s].rc = 1

LedgerInv == KeysInv /\ CallsInv

\* The loaded accounts stay, under their ids, when no account is deleted.
LEMMA KeysStep ==
    ASSUME "close" \notin Ops, TypeOK, SerialInv, KeysInv, [Next]_vars
    PROVE  KeysInv'
<1> USE FirstIdNat DEF TypeOK
<1>1. ASSUME NEW s \in Sessions, OpenApply(s) PROVE KeysInv'
  <2>1. call[s] \in OpenCall
    BY SMTT(60), <1>1 DEF OpenApply, TransferCall
  <2>2. /\ call[s].kind \in Kinds /\ next_id[call[s].kind] \in Nat
        /\ FirstId[call[s].kind] <= next_id[call[s].kind]
        /\ <<call[s].kind, next_id[call[s].kind]>> \notin DOMAIN accounts
    BY <2>1 DEF SerialInv, NumberInv, OpenCall
  <2> DEFINE new == <<call[s].kind, next_id[call[s].kind]>>
  <2>3. /\ DOMAIN accounts' = DOMAIN accounts \union {new}
        /\ \A k \in DOMAIN accounts: accounts'[k] = accounts[k]
    BY ZenonT(60), <1>1, <2>2 DEF OpenApply
  <2>4. new[1] = call[s].kind /\ new[2] = next_id[call[s].kind]
    OBVIOUS
  <2> HIDE DEF new
  <2> QED
    BY <2>2, <2>3, <2>4 DEF KeysInv
<1>2. ASSUME DOMAIN accounts' = DOMAIN accounts,
             \A k \in DOMAIN accounts: accounts'[k].account_id = accounts[k].account_id
      PROVE  KeysInv'
  BY <1>2 DEF KeysInv
<1>3. ASSUME NEW s \in Sessions, Debit(s) \/ Credit(s) PROVE KeysInv'
  <2>1. call[s] \in TransferCall
    BY <1>3, InTransfer DEF Debit, Credit, At
  <2> QED
    BY <1>2, <1>3, <2>1, Written DEF Debit, Credit, SerialInv, TransferInv
<1> QED
  BY ZenonT(60), <1>1, <1>2, <1>3
  DEF Next, OpenTrigger, CloseAccount, Check, ReadSource, ReadTarget, ReadBalance, WriteLog,
      Kill, vars

\* A check of transfer_commit decides what the ledger allows.
LEMMA CoveredIsAllowed ==
    ASSUME TypeOK, NumberInv, BookShape, KeysInv, \A id \in AccountId: Pending[id] = 0,
           TargetIds \subseteq LoadedKeys,
           NEW source \in SourceIds, NEW target \in TargetIds, NEW amount \in Amounts
    PROVE  Covered(source, amount) <=> Abstract!Allowed(source, target, amount)
<1> USE BankAssumption DEF TypeOK
<1>1. target \in DOMAIN Book
  <2>1. target \in DOMAIN accounts /\ accounts[target].account_id = target
    BY DEF KeysInv
  <2> QED
    BY <2>1 DEF BookShape
<1>2. ASSUME NEW k \in DOMAIN accounts
      PROVE  /\ accounts[k].account_id \in AccountId
             /\ accounts[k].balance \in Int /\ accounts[k].limit \in Int
             /\ Book[accounts[k].account_id].balance = accounts[k].balance
             /\ Book[accounts[k].account_id].limit = accounts[k].limit
             /\ accounts[k].account_id[1] = k[1]
  <2>1. /\ accounts[k].account_id \in AccountId
        /\ accounts[k].balance \in Int /\ accounts[k].limit \in Int
    BY DEF Row
  <2>2. Book[accounts[k].account_id] =
            [balance |-> accounts[k].balance - 0, limit |-> accounts[k].limit]
    BY ZenonT(60), <2>1 DEF BookShape
  <2>3. accounts[k].account_id[1] = k[1]
    BY DEF NumberInv
  <2> QED
    BY <2>1, <2>2, <2>3
<1>3. Rows(source) = {k \in DOMAIN accounts : accounts[k].account_id = source}
  BY <1>2 DEF Rows, Table
<1>4. source \in DOMAIN Book <=> Rows(source) # {}
  BY <1>3 DEF BookShape
<1>5. ASSUME NEW k \in Rows(source)
      PROVE  accounts[k].balance - amount > Floor(k) <=>
                 Book[source].balance - amount > Abstract!Lowest(source)
  BY ZenonT(60), <1>2, <1>3 DEF Floor, Abstract!Lowest
<1> QED
  BY <1>1, <1>4, <1>5 DEF Covered, Abstract!Allowed

\* A step that keeps the book and leaves one call as it was, except for its
\* position and temp_balance, keeps what the ledger says of the calls.
LEMMA CallsKept ==
    ASSUME CallsInv, Book' = Book, NEW s \in Sessions,
           \A t \in Sessions: t # s => call'[t] = Idle,
           Transferring(s), Transferring(s)',
           call'[s].source = call[s].source, call'[s].target = call[s].target,
           call'[s].amount = call[s].amount, call'[s].rc = call[s].rc, call[s].rc = 1
    PROVE  CallsInv'
<1>1. Abstract!Allowed(call[s].source, call[s].target, call[s].amount)' <=>
          Abstract!Allowed(call[s].source, call[s].target, call[s].amount)
  BY DEF Abstract!Allowed, Abstract!Lowest
<1> QED
  BY ZenonT(60), <1>1 DEF CallsInv, Transferring, OpenPending

\* Every step of the bank is one of the ledger, or none.
LEMMA LedgerStep ==
    ASSUME ~Overlap, ~Killable, "close" \notin Ops, TargetIds \subseteq LoadedKeys,
           TypeOK, SerialInv, BookShape, PendingShape, LedgerInv, [Next]_vars,
           TypeOK', SerialInv', BookShape', PendingShape', KeysInv'
    PROVE  CallsInv' /\ [Abstract!Next]_<<Book, log>>
<1> USE BankAssumption
<1> DEFINE Step == CallsInv' /\ [Abstract!Next]_<<Book, log>>
<1>0. \A k \in DOMAIN accounts: /\ accounts[k].account_id \in AccountId
                                /\ accounts[k].balance \in Int
  BY SMTT(60) DEF TypeOK, Row
<1>1. ASSUME NEW s \in Sessions, NEW kind \in Kinds, NEW opening \in Openings,
             OpenTrigger(s, kind, opening)
      PROVE  Step
  <2>1. PICK number \in NewNumber(kind) :
            call' = [call EXCEPT ![s] =
                       [pc |-> "open", kind |-> kind, account_id |-> <<kind, number>>,
                        balance |-> opening[1], limit |-> opening[2]]]
    BY ZenonT(60), <1>1 DEF OpenTrigger
  <2>2. /\ call'[s].pc = "open" /\ call'[s].account_id = <<kind, number>>
        /\ call'[s].balance = opening[1] /\ call'[s].limit = opening[2]
    BY <2>1 DEF TypeOK
  <2>3. \A t \in Sessions: t # s => call[t] = Idle /\ call'[t] = Idle
    BY <1>1, <2>1, OthersIdle DEF OpenTrigger, SerialInv, TypeOK
  <2>4. call[s] = Idle /\ UNCHANGED <<accounts, log>> /\ next_id[kind] < FirstId[kind] + MaxOpened
    BY <1>1 DEF OpenTrigger, MayStart
  <2>5. \A id \in AccountId: Pending[id] = 0 /\ Pending'[id] = 0
    <3>1. NoEffect(s) /\ NoEffect(s)'
      BY <2>2, <2>4 DEF NoEffect
    <3> QED
      BY ZenonT(60), <2>3, <3>1 DEF PendingShape
  <2>6. Book' = Book
    BY SMTT(60), <1>0, <2>4, <2>5, BookKept
  <2>7. number \in Nat /\ FirstId[kind] <= number /\ number <= next_id[kind]
    BY SMTT(60), FirstIdNat DEF NewNumber, MaxIdCount, Table, SerialInv, NumberInv, LedgerInv, KeysInv, TypeOK
  <2>8. <<kind, number>> \in NewAccountIds
    <3>1. FirstId[kind] \in Nat /\ next_id[kind] \in Nat
      BY SMTT(60), FirstIdNat DEF TypeOK
    <3>2. number - FirstId[kind] \in 0..MaxOpened /\ number = FirstId[kind] + (number - FirstId[kind])
      BY SMTT(60), <2>4, <2>7, <3>1
    <3> QED
      BY <3>2 DEF NewAccountIds
  <2>9. <<opening[1], opening[2]>> \in Openings
    <3>1. opening \in Int \X Int
      OBVIOUS
    <3> QED
      BY <3>1
  <2>10. CallsInv'
    BY ZenonT(60), <2>2, <2>3, <2>8, <2>9 DEF CallsInv, OpenPending, Transferring
  <2> QED
    BY <2>4, <2>6, <2>10
<1>2. ASSUME NEW s \in Sessions, OpenApply(s)
      PROVE  Step
  <2> DEFINE new == <<call[s].kind, next_id[call[s].kind]>>
             id == call[s].account_id
  <2>1. call[s] \in OpenCall /\ OpenPending(s)
    BY ZenonT(60), <1>2 DEF OpenApply, TransferCall, OpenPending, TypeOK
  <2>2. /\ DOMAIN accounts' = DOMAIN accounts \union {new}
        /\ accounts'[new] = [account_id |-> id, balance |-> call[s].balance,
                             limit |-> call[s].limit]
        /\ \A k \in DOMAIN accounts: k # new => accounts'[k] = accounts[k]
        /\ call' = [call EXCEPT ![s] = Idle] /\ log' = log
    BY ZenonT(60), <1>2 DEF OpenApply
  <2>3. new \notin DOMAIN accounts /\ new \in Keys
    BY SMTT(60), <2>1 DEF SerialInv, NumberInv, OpenCall, TypeOK
  <2>4. \A k \in DOMAIN accounts: accounts[k].account_id # id
    <3>1. SUFFICES ASSUME NEW k \in DOMAIN accounts, accounts[k].account_id = id PROVE FALSE
      OBVIOUS
    <3>2. k \in Keys /\ id \in AccountId
      BY <2>1 DEF OpenCall, TypeOK
    <3>3. accounts[k].account_id[2] <= k[2] /\ k[1] = call[s].kind
      <4>1. accounts[k].account_id[1] = k[1] /\ accounts[k].account_id[2] <= k[2]
        BY ZenonT(60) DEF SerialInv, NumberInv
      <4>2. call[s].account_id[1] = call[s].kind
        BY ZenonT(60), <2>1 DEF SerialInv, NumberInv
      <4> QED
        BY ZenonT(60), <3>1, <4>1, <4>2
    <3>4. k[2] < id[2]
      BY ZenonT(60), <2>1, <3>3 DEF SerialInv, NumberInv
    <3> QED
      BY SMTT(60), <3>1, <3>2, <3>3, <3>4 DEF AccountId
  <2>5. /\ \A t \in Sessions: call'[t] = Idle
        /\ \A t \in Sessions: t # s => call[t] = Idle
    BY <2>1, <2>2, OthersIdle DEF SerialInv, TypeOK, OpenPending
  <2>6. \A i \in AccountId: Pending[i] = 0 /\ Pending'[i] = 0
    BY ZenonT(60), <2>1, <2>5 DEF PendingShape, NoEffect, OpenPending
  <2> DEFINE row == [balance |-> call[s].balance, limit |-> call[s].limit]
  <2>7. Book' = [i \in DOMAIN Book \union {id} |-> IF i = id THEN row ELSE Book[i]]
    <3>1. DOMAIN Book' = DOMAIN Book \union {id}
      <4>1. DOMAIN Book' = {accounts'[k].account_id : k \in DOMAIN accounts'}
        BY DEF BookShape
      <4>2. DOMAIN Book = {accounts[k].account_id : k \in DOMAIN accounts}
        BY ZenonT(60) DEF BookShape
      <4>3. accounts'[new].account_id = id
        BY SMTT(60), <2>2
      <4> HIDE DEF new, id
      <4> QED
        BY <2>2, <2>3, <4>1, <4>2, <4>3
    <3>2. Book'[id] = row
      <4>1. Book'[id] = [balance |-> call[s].balance - Pending'[id], limit |-> call[s].limit]
        <5> HIDE DEF new, id
        <5> QED
          BY SMTT(60), <2>2 DEF BookShape
      <4>2. id \in AccountId /\ call[s].balance \in Int
        BY ZenonT(60), <2>1 DEF OpenCall
      <4> QED
        BY SMTT(60), <2>6, <4>1, <4>2
    <3>3. ASSUME NEW i \in DOMAIN Book PROVE i # id /\ Book'[i] = Book[i]
      <4>1. PICK k \in DOMAIN accounts : i = accounts[k].account_id
        BY DEF BookShape
      <4>2. accounts'[k] = accounts[k] /\ k \in DOMAIN accounts'
        BY ZenonT(60), <2>2, <2>3
      <4>3. Book[i] = [balance |-> accounts[k].balance - Pending[i], limit |-> accounts[k].limit]
        BY <4>1 DEF BookShape
      <4>4. Book'[i] = [balance |-> accounts[k].balance - Pending'[i], limit |-> accounts[k].limit]
        BY ZenonT(60), <4>1, <4>2 DEF BookShape
      <4> QED
        BY ZenonT(60), <1>0, <2>4, <2>6, <4>1, <4>3, <4>4
    <3>4. Book' = [i \in DOMAIN Book' |-> Book'[i]]
      BY ZenonT(60) DEF Book
    <3> HIDE DEF id, row
    <3> QED
      BY <3>1, <3>2, <3>3, <3>4
  <2>8. id \in NewAccountIds /\ <<call[s].balance, call[s].limit>> \in Openings /\ id \notin DOMAIN Book
    BY ZenonT(60), <2>1, <2>4 DEF LedgerInv, CallsInv, BookShape
  <2>9. Abstract!Open(id, <<call[s].balance, call[s].limit>>)
    BY <2>2, <2>7, <2>8 DEF Abstract!Open
  <2>10. Abstract!Next
    BY <2>8, <2>9 DEF Abstract!Next
  <2>11. CallsInv'
    BY <2>5 DEF CallsInv, OpenPending, Transferring
  <2> QED
    BY <2>10, <2>11
<1>3. ASSUME NEW s \in Sessions, NEW source \in SourceIds,
             NEW target \in TargetIds, NEW amount \in Amounts,
             Check(s, source, target, amount)
      PROVE  Step
  <2>1. /\ call'[s].source = source /\ call'[s].target = target
        /\ call'[s].amount = amount
        /\ call'[s].pc = IF Covered(source, amount) THEN "read_source" ELSE "log"
        /\ call'[s].rc = IF Covered(source, amount) THEN 1 ELSE -1
        /\ UNCHANGED <<accounts, log>>
    BY <1>3 DEF Check, TypeOK
  <2>2. \A t \in Sessions: t # s => call[t] = Idle /\ call'[t] = Idle
    BY <1>3, OthersIdle DEF Check, SerialInv, TypeOK
  <2>3. call[s] = Idle
    BY <1>3 DEF Check, MayStart
  <2>4. \A id \in AccountId: Pending[id] = 0 /\ Pending'[id] = 0
    <3>1. NoEffect(s) /\ NoEffect(s)'
      BY SMTT(60), <2>1, <2>3 DEF NoEffect
    <3> QED
      BY ZenonT(60), <2>2, <3>1 DEF PendingShape
  <2>5. Book' = Book
    BY <1>0, <2>1, <2>4, BookKept
  <2>6. Covered(source, amount) <=> Abstract!Allowed(source, target, amount)
    BY ZenonT(60), <2>4, CoveredIsAllowed DEF SerialInv, LedgerInv
  <2>7. Abstract!Allowed(source, target, amount)' <=> Abstract!Allowed(source, target, amount)
    BY ZenonT(60), <2>5 DEF Abstract!Allowed, Abstract!Lowest
  <2>8. CallsInv'
    BY <2>1, <2>2, <2>6, <2>7 DEF CallsInv, OpenPending, Transferring
  <2> QED
    BY <2>1, <2>5, <2>8
<1>4. ASSUME NEW s \in Sessions, ReadSource(s) \/ Debit(s) \/ ReadTarget(s) \/ Credit(s)
      PROVE  Step
  <2>1. call[s] \in TransferCall /\ Transferring(s) /\ call[s].pc # "log"
    BY <1>4, InTransfer DEF ReadSource, Debit, ReadTarget, Credit, At, Transferring
  <2>2. /\ call[s].source \in SourceIds /\ call[s].target \in LoadedKeys
        /\ call[s].amount \in Int /\ call[s].rc = 1
        /\ call[s].source \in AccountId /\ call[s].target \in AccountId
    BY ZenonT(60), <2>1 DEF LedgerInv, CallsInv, TransferCall
  <2>3. \A t \in Sessions: t # s => call[t] = Idle
    BY <2>1, OthersIdle DEF SerialInv, Transferring
  <2>4. call[s].target[1] \in Kinds
    BY SMTT(60), <2>2 DEF LedgerInv, KeysInv, TypeOK
  <2>5. \A id: ~Ambiguous(id)
    BY ZenonT(60), NumbersDiffer DEF SerialInv, Ambiguous, Rows, Table, AccountIdsUnique
  <2> DEFINE Moved(next) ==
               /\ \A t \in Sessions: t # s => call'[t] = Idle
               /\ call'[s] # Idle /\ call'[s].pc = next
               /\ call'[s].source = call[s].source /\ call'[s].target = call[s].target
               /\ call'[s].amount = call[s].amount /\ call'[s].rc = call[s].rc
               /\ log' = log
  <2>6. ASSUME NEW next \in {"debit", "read_target", "credit", "log"}, Moved(next), Book' = Book
        PROVE  Step
    <3>1. Transferring(s)'
      BY <2>6 DEF Transferring
    <3> QED
      BY ZenonT(60), <2>1, <2>2, <2>6, <3>1, CallsKept DEF LedgerInv
  <2>7. ASSUME NEW id, NEW next \in {"debit", "credit"}, ReadBalance(s, id, next)
        PROVE  Moved(next) /\ UNCHANGED accounts
    <3> DEFINE temp == IF Rows(id) = {} THEN NULL
                       ELSE accounts[CHOOSE k \in Rows(id) : TRUE].balance
    <3>1. temp \in Int \union {NULL}
      BY <1>0 DEF Rows, Table
    <3>2. /\ call' = [call EXCEPT ![s].temp_balance = temp, ![s].pc = next]
          /\ UNCHANGED <<accounts, log>>
      BY ZenonT(60), <2>5, <2>7 DEF ReadBalance
    <3> HIDE DEF temp
    <3> DEFINE c == [call[s] EXCEPT !.temp_balance = temp, !.pc = next]
    <3>3. /\ c \in TransferCall /\ c.pc = next
          /\ c.source = call[s].source /\ c.target = call[s].target
          /\ c.amount = call[s].amount /\ c.rc = call[s].rc
      BY ZenonT(60), <2>1, <3>1 DEF TransferCall
    <3>4. call' = [call EXCEPT ![s] = c]
      BY ZenonT(60), <3>2
    <3> HIDE DEF c
    <3> QED
      BY ZenonT(60), <2>3, <3>2, <3>3, <3>4 DEF TypeOK
  <2>8. ASSUME NEW id, NEW delta, NEW next \in {"read_target", "log"},
               WriteBalance(s, id, delta, next),
               call' = [call EXCEPT ![s].pc = next]
        PROVE  Moved(next)
    <3> DEFINE c == [call[s] EXCEPT !.pc = next]
    <3>1. /\ c \in TransferCall /\ c.pc = next
          /\ c.source = call[s].source /\ c.target = call[s].target
          /\ c.amount = call[s].amount /\ c.rc = call[s].rc
      BY ZenonT(60), <2>1 DEF TransferCall
    <3>2. call' = [call EXCEPT ![s] = c] /\ log' = log
      BY ZenonT(60), <2>8 DEF WriteBalance
    <3> HIDE DEF c
    <3> QED
      BY <2>3, <3>1, <3>2 DEF TypeOK
  <2>9. \A k \in DOMAIN accounts: \A id: k \in Rows(id) <=> accounts[k].account_id = id
    BY SMTT(60) DEF Rows, Table, SerialInv, NumberInv
  <2> HIDE DEF Step
  <2>10. CASE ReadSource(s)
    <3>1. Moved("debit") /\ UNCHANGED accounts /\ call[s].pc = "read_source"
      BY <2>7, <2>10 DEF ReadSource, At
    <3>2. \A id \in AccountId: Pending[id] = 0 /\ Pending'[id] = 0
      <4>1. NoEffect(s) /\ NoEffect(s)'
        BY ZenonT(60), <3>1 DEF NoEffect
      <4> QED
        BY ZenonT(60), <2>3, <3>1, <4>1 DEF PendingShape
    <3>3. Book' = Book
      BY <1>0, <3>1, <3>2, BookKept
    <3> QED
      BY ZenonT(60), <2>6, <3>1, <3>3
  <2>11. CASE ReadTarget(s)
    <3>1. Moved("credit") /\ UNCHANGED accounts /\ call[s].pc = "read_target" /\ call[s] # Idle
      BY <2>7, <2>11 DEF ReadTarget, At
    <3>2. ~NoEffect(s) /\ ~NoEffect(s)'
      BY ZenonT(60), <2>2, <3>1 DEF NoEffect
    <3>3. ASSUME NEW id \in AccountId PROVE Pending'[id] = Pending[id]
      <4>1. Pending[id] = 0 - (IF call[s].source = id THEN call[s].amount ELSE 0)
        BY ZenonT(60), <2>3, <3>1, <3>2 DEF PendingShape
      <4>2. Pending'[id] = 0 - (IF call'[s].source = id THEN call'[s].amount ELSE 0)
        BY ZenonT(60), <3>1, <3>2 DEF PendingShape
      <4> QED
        BY <3>1, <4>1, <4>2
    <3>4. Book' = Book
      BY ZenonT(60), <1>0, <3>1, <3>3, BookKept
    <3> QED
      BY ZenonT(60), <2>6, <3>1, <3>4
  <2>12. CASE Debit(s)
    <3>1. /\ WriteBalance(s, call[s].source, -call[s].amount, "read_target")
          /\ call[s].pc = "debit" /\ call[s] # Idle
      BY <2>4, <2>12 DEF Debit, At, AfterDebit
    <3>2. \A k \in Rows(call[s].source): call[s].temp_balance = accounts[k].balance
      BY ZenonT(60), <2>12 DEF Debit, SerialInv, TransferInv
    <3>3. /\ DOMAIN accounts' = DOMAIN accounts
          /\ \A k \in DOMAIN accounts:
                /\ accounts'[k].account_id = accounts[k].account_id
                /\ accounts'[k].limit = accounts[k].limit
                /\ accounts'[k].balance = IF k \in Rows(call[s].source)
                                          THEN accounts[k].balance + -call[s].amount
                                          ELSE accounts[k].balance
          /\ call' = [call EXCEPT ![s].pc = "read_target"]
      BY <2>1, <3>1, <3>2, Written
    <3>4. Moved("read_target")
      BY ZenonT(60), <2>8, <3>1, <3>3
    <3>5. NoEffect(s) /\ ~NoEffect(s)'
      BY ZenonT(60), <2>2, <3>1, <3>4 DEF NoEffect
    <3>6. ASSUME NEW id \in AccountId
          PROVE  /\ Pending[id] = 0
                 /\ Pending'[id] = 0 - (IF call[s].source = id THEN call[s].amount ELSE 0)
      <4>1. Pending[id] = 0
        BY ZenonT(60), <2>3, <3>5 DEF PendingShape
      <4>2. Pending'[id] = 0 - (IF call'[s].source = id THEN call'[s].amount ELSE 0)
        BY ZenonT(60), <3>4, <3>5 DEF PendingShape
      <4> QED
        BY <3>4, <4>1, <4>2
    <3>7. ASSUME NEW k \in DOMAIN accounts
          PROVE  accounts'[k].balance - Pending'[accounts[k].account_id] =
                     accounts[k].balance - Pending[accounts[k].account_id]
      BY SMTT(60), <1>0, <2>2, <2>9, <3>3, <3>6
    <3>8. Book' = Book
      BY <3>3, <3>7, BookKept
    <3> QED
      BY <2>6, <3>4, <3>8
  <2>13. CASE Credit(s)
    <3>1. /\ WriteBalance(s, call[s].target, call[s].amount, "log")
          /\ call[s].pc = "credit" /\ call[s] # Idle
      BY <2>13 DEF Credit, At
    <3>2. \A k \in Rows(call[s].target): call[s].temp_balance = accounts[k].balance
      BY ZenonT(60), <2>13 DEF Credit, SerialInv, TransferInv
    <3>3. /\ DOMAIN accounts' = DOMAIN accounts
          /\ \A k \in DOMAIN accounts:
                /\ accounts'[k].account_id = accounts[k].account_id
                /\ accounts'[k].limit = accounts[k].limit
                /\ accounts'[k].balance = IF k \in Rows(call[s].target)
                                          THEN accounts[k].balance + call[s].amount
                                          ELSE accounts[k].balance
          /\ call' = [call EXCEPT ![s].pc = "log"]
      BY <2>1, <3>1, <3>2, Written
    <3>4. Moved("log")
      BY ZenonT(60), <2>8, <3>1, <3>3
    <3>5. ~NoEffect(s) /\ ~NoEffect(s)'
      BY <2>2, <3>1, <3>4 DEF NoEffect
    <3>6. ASSUME NEW id \in AccountId
          PROVE  /\ Pending[id] = 0 - (IF call[s].source = id THEN call[s].amount ELSE 0)
                 /\ Pending'[id] = (IF call[s].target = id THEN call[s].amount ELSE 0)
                                   - (IF call[s].source = id THEN call[s].amount ELSE 0)
      <4>1. Pending[id] = 0 - (IF call[s].source = id THEN call[s].amount ELSE 0)
        BY ZenonT(60), <2>3, <3>1, <3>5 DEF PendingShape
      <4>2. Pending'[id] = (IF call'[s].target = id THEN call'[s].amount ELSE 0)
                           - (IF call'[s].source = id THEN call'[s].amount ELSE 0)
        BY ZenonT(60), <3>4, <3>5 DEF PendingShape
      <4> QED
        BY ZenonT(60), <3>4, <4>1, <4>2
    <3>7. ASSUME NEW k \in DOMAIN accounts
          PROVE  accounts'[k].balance - Pending'[accounts[k].account_id] =
                     accounts[k].balance - Pending[accounts[k].account_id]
      BY SMTT(60), <1>0, <2>2, <2>9, <3>3, <3>6
    <3>8. Book' = Book
      BY ZenonT(60), <3>3, <3>7, BookKept
    <3> QED
      BY <2>6, <3>4, <3>8
  <2> QED
    BY ZenonT(60), <1>4, <2>10, <2>11, <2>12, <2>13
<1>5. ASSUME NEW s \in Sessions, WriteLog(s)
      PROVE  Step
  <2>1. call[s] \in TransferCall /\ Transferring(s) /\ call[s].pc = "log"
    BY <1>5, InTransfer DEF WriteLog, At, Transferring
  <2>2. /\ call[s].source \in SourceIds /\ call[s].target \in TargetIds
        /\ call[s].amount \in Amounts /\ call[s].amount \in Int /\ call[s].rc \in {1, -1}
        /\ call[s].source \in AccountId /\ call[s].target \in AccountId
    BY ZenonT(60), <2>1 DEF LedgerInv, CallsInv, TransferCall
  <2>3. /\ \A t \in Sessions: call'[t] = Idle
        /\ \A t \in Sessions: t # s => call[t] = Idle
        /\ accounts' = accounts
    BY ZenonT(60), <1>5, <2>1, OthersIdle DEF WriteLog, SerialInv, Transferring, TypeOK
  <2>4. CallsInv'
    BY <2>3 DEF CallsInv, OpenPending, Transferring
  <2>5. \A id \in AccountId: Pending'[id] = 0
    <3>1. NoEffect(s)'
      BY ZenonT(60), <2>3 DEF NoEffect
    <3> QED
      BY ZenonT(60), <2>3, <3>1 DEF PendingShape
  <2> DEFINE source == call[s].source
             target == call[s].target
             amount == call[s].amount
  <2>6. call[s].rc = 1 <=> Abstract!Allowed(source, target, amount)
    BY ZenonT(60), <2>1 DEF LedgerInv, CallsInv
  <2>7. log' = Append(log, [source |-> source, target |-> target, amount |-> amount,
                            result_code |-> call[s].rc])
    BY <1>5 DEF WriteLog
  <2>8. CASE call[s].rc = 1
    <3>1. ~NoEffect(s)
      BY <2>1, <2>8 DEF NoEffect, Transferring
    <3>2. \A id \in AccountId: Pending[id] = (IF target = id THEN amount ELSE 0)
                                             - (IF source = id THEN amount ELSE 0)
      BY ZenonT(60), <2>1, <2>3, <3>1 DEF PendingShape
    <3>3. DOMAIN Book' = DOMAIN Book
      BY <2>3 DEF BookShape
    <3>4. ASSUME NEW id \in DOMAIN Book
          PROVE  Book'[id] = [Book[id] EXCEPT !.balance =
                                @ - (IF id = source THEN amount ELSE 0)
                                  + (IF id = target THEN amount ELSE 0)]
      <4>1. PICK k \in DOMAIN accounts : id = accounts[k].account_id
        BY DEF BookShape
      <4>2. id \in AccountId /\ accounts[k].balance \in Int
        BY <1>0, <4>1
      <4>3. Book[id] = [balance |-> accounts[k].balance - Pending[id], limit |-> accounts[k].limit]
        BY <4>1 DEF BookShape
      <4>4. Book'[id] = [balance |-> accounts[k].balance - Pending'[id],
                         limit |-> accounts[k].limit]
        BY ZenonT(60), <2>3, <4>1 DEF BookShape
      <4>5. accounts[k].balance - Pending'[id] =
              accounts[k].balance - Pending[id] - (IF id = source THEN amount ELSE 0)
                + (IF id = target THEN amount ELSE 0)
        BY SMTT(60), <2>2, <2>5, <3>2, <4>2
      <4> HIDE DEF source, target, amount
      <4> QED
        BY SMTT(60), <4>3, <4>4, <4>5
    <3>5. Book' = [id \in DOMAIN Book |->
                     [Book[id] EXCEPT !.balance =
                        @ - (IF id = source THEN amount ELSE 0)
                          + (IF id = target THEN amount ELSE 0)]]
      <4>1. Book' = [id \in DOMAIN Book' |-> Book'[id]]
        BY DEF Book
      <4> HIDE DEF source, target, amount
      <4> QED
        BY <3>3, <3>4, <4>1
    <3>6. Abstract!Transfer(source, target, amount)
      BY ZenonT(60), <2>7, <2>8, <3>5 DEF Abstract!Transfer
    <3>7. Abstract!Next
      BY ZenonT(60), <2>2, <2>6, <2>8, <3>6 DEF Abstract!Next
    <3> QED
      BY <2>4, <3>7
  <2>9. CASE call[s].rc = -1
    <3>1. NoEffect(s)
      BY <2>9 DEF NoEffect
    <3>2. \A id \in AccountId: Pending[id] = 0
      BY ZenonT(60), <2>3, <3>1 DEF PendingShape
    <3>3. Book' = Book
      BY SMTT(60), <1>0, <2>3, <2>5, <3>2, BookKept
    <3>4. Abstract!Refuse(source, target, amount)
      BY ZenonT(60), <2>7, <2>9, <3>3 DEF Abstract!Refuse
    <3>5. Abstract!Next
      BY SMTT(60), <2>2, <2>6, <2>9, <3>4 DEF Abstract!Next
    <3> QED
      BY <2>4, <3>5
  <2> QED
    BY ZenonT(60), <2>2, <2>8, <2>9
<1>6. CASE UNCHANGED vars
  <2>1. Book' = Book /\ log' = log
    <3>1. accounts' = accounts /\ call' = call /\ log' = log
      BY ZenonT(60), <1>6 DEF vars
    <3>2. Pending' = Pending
      BY SMTT(60), <3>1 DEF Pending, Made, Quiet
    <3> QED
      BY SMTT(60), <3>1, <3>2 DEF Book
  <2>2. CallsInv'
    BY <1>6, <2>1 DEF vars, LedgerInv, CallsInv, OpenPending, Transferring, Abstract!Allowed,
                      Abstract!Lowest
  <2> QED
    BY ZenonT(60), <2>1, <2>2
<1> QED
  BY ZenonT(60), <1>1, <1>2, <1>3, <1>4, <1>5, <1>6 DEF Next, CloseAccount, Kill

\* While calls do not overlap and are not killed, no account is closed and every
\* target is a loaded account, transfer_commit with its six statements, and the
\* INSERTs with their triggers, implement the ledger, in which a transfer is one
\* step that moves the money and writes the log, or refuses and writes the log.
THEOREM Refinement ==
    ASSUME ~Overlap, ~Killable, "close" \notin Ops, TargetIds \subseteq LoadedKeys
    PROVE  Spec => ImplementsLedger
<1>1. Init => LedgerInv /\ Abstract!Init
  <2> SUFFICES ASSUME Init PROVE LedgerInv /\ Abstract!Init
    BY ZenonT(60)
  <2>1. ASSUME NEW k \in LoadedKeys
        PROVE  k \in DOMAIN accounts /\ accounts[k] = LoadedRow(k) /\ LoadedRow(k).account_id = k
    BY DEF Init, LoadedRow
  <2>2. KeysInv
    <3>1. ASSUME NEW k \in LoadedKeys PROVE FirstId[k[1]] <= k[2]
      <4>1. PICK kind \in Kinds :
                k \in {<<kind, FirstId[kind] + i - 1>> : i \in DOMAIN Loaded[kind]}
        BY DEF LoadedKeys
      <4>2. PICK i \in DOMAIN Loaded[kind] : k = <<kind, FirstId[kind] + i - 1>>
        BY <4>1
      <4>3. i \in Nat \ {0} /\ FirstId[kind] \in Nat
        BY SMTT(60), BankAssumption, FirstIdNat
      <4> QED
        BY <4>2, <4>3
    <3> QED
      BY <2>1, <3>1 DEF KeysInv, Init
  <2>3. CallsInv
    BY DEF Init, CallsInv, OpenPending, Transferring
  <2>4. \A id \in AccountId: Pending[id] = 0
    BY DEF Init, Pending, Quiet
  <2>5. TypeOK /\ BookShape
    BY TypeInit, NumberInit, NumbersDiffer, BookAt
  <2>6. Book = LoadedBook
    <3>1. DOMAIN Book = LoadedKeys
      BY <2>1, <2>5 DEF BookShape, Init
    <3>2. ASSUME NEW k \in LoadedKeys
          PROVE  Book[k] = [balance |-> LoadedRow(k).balance, limit |-> LoadedRow(k).limit]
      <4>1. Book[k] = [balance |-> accounts[k].balance - Pending[k], limit |-> accounts[k].limit]
        BY <2>1, <2>5 DEF BookShape
      <4>2. accounts[k].balance \in Int /\ k \in AccountId
        BY <2>1, <2>5 DEF TypeOK, Row
      <4> QED
        BY <2>1, <2>4, <4>1, <4>2
    <3>3. Book = [id \in DOMAIN Book |-> Book[id]]
      BY DEF Book
    <3> QED
      BY <3>1, <3>2, <3>3 DEF LoadedBook
  <2> QED
    BY <2>2, <2>3, <2>6 DEF LedgerInv, Abstract!Init, Init
<1>2. TypeOK /\ SerialInv => BookShape /\ PendingShape
  BY BookAt, PendingAt, NumbersDiffer DEF SerialInv
<1>3. /\ TypeOK /\ SerialInv /\ BookShape /\ PendingShape /\ LedgerInv /\ [Next]_vars
      /\ TypeOK' /\ SerialInv' /\ BookShape' /\ PendingShape'
      => LedgerInv' /\ [Abstract!Next]_<<Book, log>>
  BY KeysStep, LedgerStep DEF LedgerInv
<1> QED
  BY <1>1, <1>2, <1>3, TypeCorrect, SerialInvariant, PTL
  DEF Spec, ImplementsLedger, Abstract!Spec, Abstract!ledger
=============================================================================
