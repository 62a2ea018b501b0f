------------------------------- MODULE Ledger -------------------------------
(***************************************************************************)
(* What the bank of ec3 promises: named accounts, and transfers that       *)
(* happen at once or are refused, each leaving one log record.             *)
(***************************************************************************)
EXTENDS Integers, Sequences

CONSTANTS
    OpeningBook,  \* the accounts there are at the start
    Openings,     \* <<balance, limit>> pairs for new accounts
    Amounts,      \* amounts clients transfer
    SourceIds,    \* account ids clients name as the source
    TargetIds,    \* account ids clients name as the target
    NewIds        \* account ids the bank may give to a new account

VARIABLES
    book,  \* account id -> [balance, limit]
    log    \* the transfers, in order

ledger == <<book, log>>

Init ==
    /\ book = OpeningBook
    /\ log = <<>>

Lowest(id) == IF id[1] = "CH" THEN -book[id].limit ELSE book[id].limit

Open(id, opening) ==
    /\ id \notin DOMAIN book
    /\ book' = [i \in DOMAIN book \union {id} |->
                  IF i = id THEN [balance |-> opening[1], limit |-> opening[2]] ELSE book[i]]
    /\ UNCHANGED log

Close(id) ==
    /\ book' = [i \in DOMAIN book \ {id} |-> book[i]]
    /\ UNCHANGED log

Allowed(source, target, amount) ==
    /\ {source, target} \subseteq DOMAIN book
    /\ book[source].balance - amount > Lowest(source)

Transfer(source, target, amount) ==
    /\ book' = [i \in DOMAIN book |->
                  [book[i] EXCEPT !.balance =
                     @ - (IF i = source THEN amount ELSE 0)
                       + (IF i = target THEN amount ELSE 0)]]
    /\ log' = Append(log, [source |-> source, target |-> target, amount |-> amount,
                           result_code |-> 1])

Refuse(source, target, amount) ==
    /\ log' = Append(log, [source |-> source, target |-> target, amount |-> amount,
                           result_code |-> -1])
    /\ UNCHANGED book

Next ==
    \/ \E id \in NewIds, opening \in Openings: Open(id, opening)
    \/ \E id \in DOMAIN book: Close(id)
    \/ \E source \in SourceIds, target \in TargetIds, amount \in Amounts:
          IF Allowed(source, target, amount)
          THEN Transfer(source, target, amount)
          ELSE Refuse(source, target, amount)

Spec == Init /\ [][Next]_ledger
=============================================================================
