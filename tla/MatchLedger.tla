---------------------------- MODULE MatchLedger ----------------------------
(***************************************************************************)
(* What reconciliation promises about bank transactions: each one is       *)
(* resolved at most once and for ever, either as unmatched or as the       *)
(* payment of one accounting outcome, and an outcome pays for at most one  *)
(* transaction.  Reconciliation implements this.                           *)
(***************************************************************************)
CONSTANTS
    Txn,          \* bank transactions
    Outcome       \* approved accounting outcomes

VARIABLE resolution   \* of each transaction: "open", "unmatched" or its outcome

Open == [t \in Txn |-> "open"]

\* An outcome that no transaction has been matched with.
Free(o) == \A t \in Txn : resolution[t] # o

Match(t, o) ==
    /\ resolution[t] = "open"
    /\ Free(o)
    /\ resolution' = [resolution EXCEPT ![t] = o]

WriteOff(t) ==
    /\ resolution[t] = "open"
    /\ resolution' = [resolution EXCEPT ![t] = "unmatched"]

Resolve == \E t \in Txn : WriteOff(t) \/ \E o \in Outcome : Match(t, o)

Ledger == resolution = Open /\ [][Resolve]_resolution
=============================================================================
