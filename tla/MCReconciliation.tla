-------------------------- MODULE MCReconciliation --------------------------
(* Small instances of Reconciliation for TLC. *)
EXTENDS Reconciliation, TLC

\* Every outcome is a candidate of every transaction: the most contention.
AllEligible == [t \in Txn |-> Outcome]

Interchangeable ==
    Permutations(Session) \cup Permutations(Txn) \cup Permutations(Outcome)
=============================================================================
