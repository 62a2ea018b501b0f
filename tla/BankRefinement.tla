--------------------------- MODULE BankRefinement ---------------------------
(***************************************************************************)
(* The bank implements the ledger while calls do not overlap and are not   *)
(* killed: a transfer happens at its last step, the log record, and until  *)
(* then its debit and credit are taken back in the mapping.                *)
(***************************************************************************)
EXTENDS Bank

\* The effect on account id of the debit and the credit session s has made.
Made(s, id) ==
    LET c == call[s]
        debited == c.pc \in {"read_target", "credit", "log"} /\ c.rc = 1
        credited == c.pc = "log" /\ c.rc = 1
    IN (IF credited /\ c.target = id THEN c.amount ELSE 0)
         - (IF debited /\ c.source = id THEN c.amount ELSE 0)

\* The effect of the one call that may be running.
Pending ==
    [id \in AccountId |->
        IF Quiet THEN 0 ELSE Made(CHOOSE s \in Sessions : call[s] # Idle, id)]

\* The accounts as they stood before the call that is still running.
Book ==
    [id \in {accounts[k].account_id : k \in DOMAIN accounts} |->
        LET k == CHOOSE j \in DOMAIN accounts : accounts[j].account_id = id IN
        [balance |-> accounts[k].balance - Pending[id], limit |-> accounts[k].limit]]

LoadedBook ==
    [k \in LoadedKeys |-> [balance |-> LoadedRow(k).balance, limit |-> LoadedRow(k).limit]]

NewAccountIds == {<<kind, FirstId[kind] + i>> : kind \in Kinds, i \in 0..MaxOpened}

Abstract == INSTANCE Ledger WITH
    OpeningBook <- LoadedBook,
    NewIds <- NewAccountIds,
    book <- Book

\* transfer_commit, the triggers and DELETE together behave like the ledger.
ImplementsLedger == Abstract!Spec
=============================================================================
