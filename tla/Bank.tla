-------------------------------- MODULE Bank --------------------------------
(***************************************************************************)
(* The bank of ec3 (ec3/ec3.sql): checking and savings accounts, the       *)
(* triggers that number them, and the procedure transfer_commit.           *)
(*                                                                         *)
(* Every statement commits on its own, so a transfer is a chain of steps   *)
(* (check, read, debit, read, credit, log) and other sessions may run in   *)
(* between.  The account triggers only read: an INSERT is two steps.       *)
(* Amounts are whole numbers; FLOAT rounding is not modelled.              *)
(***************************************************************************)
EXTENDS Integers, Sequences, FiniteSetsExt

CONSTANTS
    Sessions,   \* client connections
    Loaded,     \* per kind, the accounts loaded before the model starts
    Openings,   \* <<balance, limit>> pairs for new accounts
    Amounts,    \* amounts clients transfer
    SourceIds,  \* account ids clients name as the source
    TargetIds,  \* account ids clients name as the target
    Ops,        \* statements clients issue: subset of {"open", "close", "transfer"}
    Overlap,    \* may calls of different sessions overlap?
    Killable,   \* may a session be killed inside a call?
    MaxOpened,  \* bound: accounts opened per kind, loaded ones included
    MaxLog,     \* bound: log records after which no transfer starts
    NULL, Idle

VARIABLES
    accounts,  \* both tables: <<kind, id_count>> -> row
    next_id,   \* AUTO_INCREMENT of each table
    log,       \* table ec3_log
    call,      \* per session: the local variables of its call, or Idle
    funding    \* history: balances of opened less those of closed accounts

vars == <<accounts, next_id, log, call, funding>>

Kinds == {"CH", "SV"}

\* AUTO_INCREMENT=14 and AUTO_INCREMENT=1; the triggers repeat the numbers.
FirstId == [CH |-> 14, SV |-> 1]

Keys == Kinds \X Nat

\* An account_id is a prefix, '-' and a number.  "V-15" (a test of ec3.sql) has
\* a prefix that is neither CH nor SV.
AccountId == (Kinds \union {"V"}) \X Nat

Row == [account_id: AccountId, balance: Int, limit: Int]

OpenCall == [pc: {"open"}, kind: Kinds, account_id: AccountId, balance: Int, limit: Int]

TransferCall ==
    [pc: {"read_source", "debit", "read_target", "credit", "log"},
     source: AccountId, target: AccountId, amount: Int,
     temp_balance: Int \union {NULL}, rc: {1, -1}]

ASSUME BankAssumption ==
    /\ Loaded \in [Kinds -> Seq(Int \X Int)]
    /\ Openings \subseteq Int \X Int
    /\ Amounts \subseteq Int
    /\ SourceIds \subseteq AccountId
    /\ TargetIds \subseteq AccountId
    /\ Overlap \in BOOLEAN
    /\ Killable \in BOOLEAN
    /\ MaxOpened \in Nat
    /\ MaxLog \in Nat
    /\ NULL \notin Int
    /\ Idle \notin OpenCall \union TransferCall

LogRecord == [source: AccountId, target: AccountId, amount: Int, result_code: {1, -1}]

TypeOK ==
    /\ DOMAIN accounts \subseteq Keys
    /\ accounts \in [DOMAIN accounts -> Row]
    /\ next_id \in [Kinds -> Nat]
    /\ log \in Seq(LogRecord)
    /\ call \in [Sessions -> OpenCall \union TransferCall \union {Idle}]
    /\ funding \in Int

LoadedKeys == UNION {{<<kind, FirstId[kind] + i - 1>> : i \in DOMAIN Loaded[kind]} : kind \in Kinds}

LoadedRow(k) ==
    LET opening == Loaded[k[1]][k[2] - FirstId[k[1]] + 1] IN
    [account_id |-> k, balance |-> opening[1], limit |-> opening[2]]

Total(accts) == MapThenSumSet(LAMBDA k: accts[k].balance, DOMAIN accts)

\* The tables right after the initial INSERTs of ec3.sql, one after the other.
Init ==
    /\ accounts = [k \in LoadedKeys |-> LoadedRow(k)]
    /\ next_id = [kind \in Kinds |-> FirstId[kind] + Len(Loaded[kind])]
    /\ log = <<>>
    /\ call = [s \in Sessions |-> Idle]
    /\ funding = 0

-----------------------------------------------------------------------------

MayStart(s) ==
    /\ call[s] = Idle
    /\ Overlap \/ \A t \in Sessions: call[t] = Idle

Table(kind) == {k \in DOMAIN accounts : k[1] = kind}

\* The rows of "where account_id = id", in the table the prefix selects.
Rows(id) == {k \in Table(id[1]) : accounts[k].account_id = id}

\* A scalar subquery over more than one row is an error.
Ambiguous(id) == \E a, b \in Rows(id): a # b

\* max(id_count), as the set of its one value; none when the table is empty.
MaxIdCount(kind) == {k[2] : k \in {j \in Table(kind) : \A i \in Table(kind): i[2] <= j[2]}}

\* The account number a trigger gives: max(id_count) + 1, or the first one.
NewNumber_Max(kind) ==
    IF Table(kind) = {} THEN {FirstId[kind]} ELSE MaxIdCount(kind)

NewNumber(kind) ==
    IF Table(kind) = {} THEN {FirstId[kind]} ELSE {m + 1 : m \in MaxIdCount(kind)}

\* INSERT INTO ec3_checking / ec3_savings: the trigger's reads.
OpenTrigger(s, kind, opening) ==
    /\ "open" \in Ops
    /\ MayStart(s)
    /\ next_id[kind] < FirstId[kind] + MaxOpened
    /\ \E number \in NewNumber(kind):
          call' = [call EXCEPT ![s] =
                     [pc |-> "open", kind |-> kind, account_id |-> <<kind, number>>,
                      balance |-> opening[1], limit |-> opening[2]]]
    /\ UNCHANGED <<accounts, next_id, log, funding>>

\* INSERT INTO ec3_checking / ec3_savings: the row, with the next id_count.
OpenApply(s) ==
    /\ call[s] # Idle
    /\ call[s].pc = "open"
    /\ LET c == call[s]
           new == <<c.kind, next_id[c.kind]>>
       IN /\ accounts' = [k \in DOMAIN accounts \union {new} |->
                            IF k = new
                            THEN [account_id |-> c.account_id, balance |-> c.balance,
                                  limit |-> c.limit]
                            ELSE accounts[k]]
          /\ next_id' = [next_id EXCEPT ![c.kind] = @ + 1]
          /\ funding' = funding + c.balance
    /\ call' = [call EXCEPT ![s] = Idle]
    /\ UNCHANGED log

\* DELETE FROM ec3_checking / ec3_savings where id_count = ...
CloseAccount(s, k) ==
    /\ "close" \in Ops
    /\ MayStart(s)
    /\ accounts' = [j \in DOMAIN accounts \ {k} |-> accounts[j]]
    /\ funding' = funding - accounts[k].balance
    /\ UNCHANGED <<next_id, log, call>>

-----------------------------------------------------------------------------
(* transfer_commit(source_id, target_id, amount, OUT rc)                   *)

\* A checking account may go down to -overdraft_limit, a savings account to
\* minimum_balance; the code compares with > in both.
Floor(k) == IF k[1] = "CH" THEN -accounts[k].limit ELSE accounts[k].limit

\* False when there is no such account: a comparison with NULL is not true.
Covered_NoAmount(id, amount) ==
    \E k \in Rows(id): accounts[k].balance > Floor(k)

Covered(id, amount) ==
    \E k \in Rows(id): accounts[k].balance - amount > Floor(k)

\* The IF over source_id and the balance.  A source_id with neither prefix ends
\* the call with rc NULL, an ambiguous one with an error; neither changes anything.
Check(s, source, target, amount) ==
    /\ "transfer" \in Ops
    /\ MayStart(s)
    /\ Len(log) < MaxLog
    /\ source[1] \in Kinds
    /\ ~Ambiguous(source)
    /\ LET ok == Covered(source, amount) IN
       call' = [call EXCEPT ![s] =
                  [pc |-> IF ok THEN "read_source" ELSE "log",
                   source |-> source, target |-> target, amount |-> amount,
                   temp_balance |-> NULL, rc |-> IF ok THEN 1 ELSE -1]]
    /\ UNCHANGED <<accounts, next_id, log, funding>>

At(s, label) == call[s] # Idle /\ call[s].pc = label

Goto(s, label) == call' = [call EXCEPT ![s].pc = label]

Fail(s) == call' = [call EXCEPT ![s] = Idle]

\* SET temp_balance = (select balance ... where account_id = id)
ReadBalance(s, id, next) ==
    /\ IF Ambiguous(id) THEN Fail(s)
       ELSE call' = [call EXCEPT
                       ![s].temp_balance = IF Rows(id) = {} THEN NULL
                                           ELSE accounts[CHOOSE k \in Rows(id) : TRUE].balance,
                       ![s].pc = next]
    /\ UNCHANGED <<accounts, next_id, log, funding>>

\* UPDATE ... SET balance = temp_balance +/- amount WHERE account_id = id.
\* balance is NOT NULL: writing NULL into a row is an error.
WriteBalance(s, id, delta, next) ==
    /\ IF Rows(id) # {} /\ call[s].temp_balance = NULL
       THEN Fail(s) /\ UNCHANGED accounts
       ELSE /\ accounts' = [k \in DOMAIN accounts |->
                              IF k \in Rows(id)
                              THEN [accounts[k] EXCEPT !.balance = call[s].temp_balance + delta]
                              ELSE accounts[k]]
            /\ Goto(s, next)
    /\ UNCHANGED <<next_id, log, funding>>

ReadSource(s) ==
    /\ At(s, "read_source")
    /\ ReadBalance(s, call[s].source, "debit")

\* A target with neither prefix is not credited, but the log is still written.
AfterDebit(s) == IF call[s].target[1] \in Kinds THEN "read_target" ELSE "log"

Debit(s) ==
    /\ At(s, "debit")
    /\ WriteBalance(s, call[s].source, -call[s].amount, AfterDebit(s))

\* The balance is read again, so a transfer to the source itself is a no-op.
ReadTarget_KeepsTemp(s) ==
    /\ At(s, "read_target")
    /\ Goto(s, "credit")
    /\ UNCHANGED <<accounts, next_id, log, funding>>

ReadTarget(s) ==
    /\ At(s, "read_target")
    /\ ReadBalance(s, call[s].target, "credit")

Credit(s) ==
    /\ At(s, "credit")
    /\ WriteBalance(s, call[s].target, call[s].amount, "log")

\* INSERT INTO ec3_log; SET rc.
WriteLog(s) ==
    /\ At(s, "log")
    /\ log' = Append(log, [source |-> call[s].source, target |-> call[s].target,
                           amount |-> call[s].amount, result_code |-> call[s].rc])
    /\ call' = [call EXCEPT ![s] = Idle]
    /\ UNCHANGED <<accounts, next_id, funding>>

\* The session is killed or loses its connection between two statements.
Kill(s) ==
    /\ Killable
    /\ call[s] # Idle
    /\ call' = [call EXCEPT ![s] = Idle]
    /\ UNCHANGED <<accounts, next_id, log, funding>>

Next ==
    \E s \in Sessions:
        \/ \E kind \in Kinds, opening \in Openings: OpenTrigger(s, kind, opening)
        \/ OpenApply(s)
        \/ \E k \in DOMAIN accounts: CloseAccount(s, k)
        \/ \E source \in SourceIds, target \in TargetIds, amount \in Amounts:
              Check(s, source, target, amount)
        \/ ReadSource(s)
        \/ Debit(s)
        \/ ReadTarget(s)
        \/ Credit(s)
        \/ WriteLog(s)
        \/ Kill(s)

Spec == Init /\ [][Next]_vars

-----------------------------------------------------------------------------
(* Properties *)

Quiet == \A s \in Sessions: call[s] = Idle

\* Every account_id names one account, although nothing but the triggers keeps
\* it unique: the number comes from max(id_count) and the key from
\* AUTO_INCREMENT, and the two part ways after a DELETE.
AccountIdsUnique ==
    \A j, k \in DOMAIN accounts: accounts[j].account_id = accounts[k].account_id => j = k

LoadedTotal == Total([k \in LoadedKeys |-> LoadedRow(k)])

\* What sessions have taken from a source and not yet given to a target.
InFlight ==
    LET carrying == {s \in Sessions : At(s, "read_target") \/ At(s, "credit")} IN
    MapThenSumSet(LAMBDA s: call[s].amount, carrying)

\* Money may be lost (a transfer to an unknown target, a session killed between
\* debit and credit) but never appears: transfer_commit debits first.
NoMoneyCreated == Total(accounts) + InFlight <= LoadedTotal + funding

\* The change the log record e makes to the account with this id.
Effect(e, id) ==
    IF e.result_code # 1 THEN 0
    ELSE (IF e.target = id THEN e.amount ELSE 0) - (IF e.source = id THEN e.amount ELSE 0)

\* Between calls the log explains every balance: replaying it over the loaded
\* accounts gives the tables, transfers to oneself and refused ones included.
Reconciled ==
    Quiet => \A k \in DOMAIN accounts:
        accounts[k].balance =
            LoadedRow(k).balance
            + MapThenSumSet(LAMBDA i: Effect(log[i], accounts[k].account_id), DOMAIN log)

\* No transfer takes an account to its overdraft limit or minimum balance or
\* beyond: the balance checked is the balance debited.
FloorRespected ==
    [][\A k \in DOMAIN accounts \intersect DOMAIN accounts':
          accounts'[k].balance < accounts[k].balance =>
              accounts'[k].balance > Floor(k)]_vars

\* A transfer changes the two balances by its amount ("Debit the balance in the
\* source account", ec3.sql:77, "Increase the balance in the target account",
\* ec3.sql:81).
ChangedByAmount ==
    [][\A s \in Sessions:
          /\ Debit(s) => \A k \in Rows(call[s].source):
                accounts'[k].balance = accounts[k].balance - call[s].amount
          /\ Credit(s) => \A k \in Rows(call[s].target):
                accounts'[k].balance = accounts[k].balance + call[s].amount]_vars
=============================================================================
