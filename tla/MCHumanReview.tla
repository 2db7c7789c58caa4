--------------------------- MODULE MCHumanReview ---------------------------
(* Small instances of HumanReview for TLC. *)
EXTENDS HumanReview, TLC

\* A verdict of each risk class, blocked by a finding or for want of a journal.
Clean == [error |-> FALSE, escalating |-> FALSE, journal |-> "balanced"]
Risky == [error |-> FALSE, escalating |-> TRUE, journal |-> "balanced"]
Failing == [error |-> TRUE, escalating |-> TRUE, journal |-> "balanced"]
NoJournal == [error |-> FALSE, escalating |-> TRUE, journal |-> "none"]

EvidenceVerdicts == {Clean}
TaskVerdicts == {Clean, Risky, Failing, NoJournal}

InterchangeableDecisions == Permutations(Session) \cup Permutations(Decision)
=============================================================================
