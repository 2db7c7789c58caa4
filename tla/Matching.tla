------------------------------ MODULE Matching ------------------------------
(***************************************************************************)
(* Which approved outcomes a bank transaction may have paid, and in which  *)
(* order they are offered: the projection of an approved outcome to a      *)
(* reconciliation target and the deterministic matcher.                    *)
(***************************************************************************)
EXTENDS AccountingEngine, SequencesExt

\* Mutant: a near date scores less.
PolicyOfWeakDates ==
    [window |-> 7, minimum |-> 60, sameDate |-> 20, nearDate |-> 4,
     exactReference |-> 15, containsReference |-> 8, counterparty |-> 10, base |-> 55]

\* ReconciliationMatchingPolicy, in hundredths.
Policy ==
    [window |-> 7, minimum |-> 60, sameDate |-> 20, nearDate |-> 8,
     exactReference |-> 15, containsReference |-> 8, counterparty |-> 10, base |-> 55]

NoTarget == [day |-> None, direction |-> "debit", amount |-> 0, currency |-> None,
             reference |-> None, counterparty |-> None]

\* project_approved_reconciliation_target, for an approved outcome.
Target(journal, e) ==
    IF /\ journal # NoJournal /\ Balanced(journal) /\ journal.debits > 0
       /\ e.type = "purchase_invoice"
       /\ e.date # None /\ Lexicon[e.date].day # None
       /\ e.total # None /\ Lexicon[e.total].decimal = journal.debits
       /\ e.currency # None /\ Lexicon[e.currency].currency = journal.currency
      THEN [day |-> Lexicon[e.date].day, direction |-> "debit",
            amount |-> Lexicon[e.total].decimal, currency |-> journal.currency,
            reference |-> e.number, counterparty |-> e.supplier]
      ELSE NoTarget

Transaction == [day : Int, direction : {"debit", "credit"}, amount : Nat \ {0},
                currency : STRING, reference : Text \cup {None},
                counterparty : Text \cup {None}]

\* _normalized_text: letters and digits in upper case.
Key(text) == IF text = None THEN <<>> ELSE Lexicon[text].key

Within(short, long) ==
    \E i \in 0 .. Len(long) - Len(short) : short = SubSeq(long, i + 1, i + Len(short))

\* Mutant: a reference that is contained counts for more than an equal one.
ReferenceScoreOfContained(left, right) ==
    CASE left = <<>> \/ right = <<>> -> 0
      [] left # <<>> /\ left = right -> Policy.containsReference
      [] left # right /\ left # <<>> /\ right # <<>>
         /\ (Within(left, right) \/ Within(right, left)) -> Policy.exactReference
      [] OTHER -> 0

\* _reference_score.
ReferenceScore(left, right) ==
    CASE left = <<>> \/ right = <<>> -> 0
      [] left # <<>> /\ left = right -> Policy.exactReference
      [] left # right /\ left # <<>> /\ right # <<>>
         /\ (Within(left, right) \/ Within(right, left)) -> Policy.containsReference
      [] OTHER -> 0

Distance(a, b) == IF a < b THEN b - a ELSE a - b

\* _score_candidate, before the comparison with the minimum.
Score(txn, target) ==
    LET date == IF txn.day = target.day THEN Policy.sameDate ELSE Policy.nearDate
        reference == ReferenceScore(Key(txn.reference), Key(target.reference))
        named == Key(txn.counterparty) # <<>> /\ Key(txn.counterparty) = Key(target.counterparty)
        sum == Policy.base + date + reference + (IF named THEN Policy.counterparty ELSE 0)
    IN  IF sum > 100 THEN 100 ELSE sum

\* The conditions under which _score_candidate returns a candidate.
IsCandidate(txn, target) ==
    /\ target # NoTarget
    /\ txn.amount = target.amount
    /\ txn.currency = target.currency
    /\ txn.direction = target.direction
    /\ Distance(txn.day, target.day) <= Policy.window
    /\ Score(txn, target) >= Policy.minimum

\* The candidates among pairs of an outcome's identifier and its target.
Candidates(txn, targets) ==
    {[id |-> targets[i].id, score |-> Score(txn, targets[i].target)] :
        i \in {j \in DOMAIN targets : IsCandidate(txn, targets[j].target)}}

\* The sort key: the higher score, then the lower identifier.
Before(a, b) == a.score > b.score \/ (a.score = b.score /\ a.id < b.id)

\* A sorted set: each member has as many before it as its place says.
Ranked(S) ==
    [k \in 1 .. Cardinality(S) |-> CHOOSE c \in S : Cardinality({b \in S : Before(b, c)}) = k - 1]

\* DeterministicReconciliationMatcher.match.
Match(txn, targets) == Ranked(Candidates(txn, targets))
=============================================================================
