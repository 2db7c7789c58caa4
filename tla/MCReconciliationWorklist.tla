---------------------- MODULE MCReconciliationWorklist ----------------------
(* A small instance of ReconciliationWorklist for TLC. *)
EXTENDS ReconciliationWorklist, TLC

AllEligible == [t \in Txn |-> Outcome]

Interchangeable == Permutations(Session) \cup Permutations(Outcome)
=============================================================================
