----------------------- MODULE PaymentPipelineProofs -----------------------
(***************************************************************************)
(* Proofs about PaymentPipeline for every number of documents, extraction  *)
(* runs, decisions, corrections, approvals and match runs, whatever was    *)
(* extracted, whatever the conversions make of a text, and whatever the    *)
(* supplier directory and the bank say.                                    *)
(***************************************************************************)
EXTENDS PaymentPipeline, FiniteSetTheorems, TLAPS

(***************************************************************************)
(* The inductive invariant.  Stamps identify decisions and order them with *)
(* corrections: a decision whose extraction run has no later correction    *)
(* was made from the values of now, and an approval keeps it so.           *)
(***************************************************************************)

Stamps == {x.at : x \in runs}

\* A decision under way has seen committed decisions, and reads some of them yet.
IsOpen(r) ==
    /\ r = [extraction |-> r.extraction, at |-> r.at, texts |-> r.texts,
            listed |-> r.listed, saw |-> r.saw, todo |-> r.todo, twin |-> r.twin]
    /\ r.extraction \in ExtractionRun /\ r.at \in 1 .. clock /\ r.at \notin Stamps
    /\ r.saw \subseteq Stamps /\ r.todo \subseteq r.saw /\ r.twin \in BOOLEAN

\* A decision is what the engine makes of its texts.
IsRun(r) ==
    /\ r = [extraction |-> r.extraction, at |-> r.at, texts |-> r.texts, saw |-> r.saw,
            findings |-> r.findings, journal |-> r.journal]
    /\ r.extraction \in ExtractionRun /\ r.at \in 1 .. clock /\ r.saw \subseteq Stamps
    /\ r.journal = ProposedJournal(r.texts)
    /\ \E twin \in BOOLEAN : r.findings = Findings(r.texts, Extracted[r.extraction].low, twin)

RunsAreDecisions ==
    /\ clock \in Nat
    /\ \A r \in open : IsOpen(r)
    /\ \A r \in runs : IsRun(r)
    /\ \A r, q \in open : r.at = q.at => r = q
    /\ \A r, q \in runs : r.at = q.at => r = q

\* No correction of the extraction run followed the decision.
Current(r) == \A i \in DOMAIN corrections[r.extraction] :
                 corrections[r.extraction][i].at <= r.at

Correction == [path : Path, value : Value, at : Nat]

CurrentTexts ==
    /\ corrections \in [ExtractionRun -> Seq(Correction)]
    /\ \A r \in runs \cup open : Current(r) => r.texts = Texts(r.extraction)

Outcome == [id : 1 .. MaxApprovals, run : runs]

ApprovalsAreCurrent ==
    /\ approved \in Seq(Outcome)
    /\ \A i \in DOMAIN approved :
          /\ Current(approved[i].run)
          /\ ClassifyReviewRisk(VerdictOf(approved[i].run.findings, approved[i].run.journal))
               # "blocked"
    /\ \A i, j \in DOMAIN approved : approved[i].id = approved[j].id => i = j

\* The pairs the matcher reads for outcomes, by the texts that were approved.
TargetsOf(outcomes) ==
    [i \in DOMAIN outcomes |->
        [id |-> outcomes[i].id,
         target |-> Target(outcomes[i].run.journal, outcomes[i].run.texts)]]

Candidate == [id : 1 .. MaxApprovals, score : 0 .. 100]

IsPrefixOf(s, t) == Len(s) <= Len(t) /\ \A i \in DOMAIN s : s[i] = t[i]

MatchRun == [txn : Txn, ranked : Seq(Candidate), among : Seq(Outcome)]

MatchesAreRanked ==
    /\ matches \in Seq(MatchRun)
    /\ \A i \in DOMAIN matches :
          /\ IsPrefixOf(matches[i].among, approved)
          /\ matches[i].ranked = Match(Bank[matches[i].txn], TargetsOf(matches[i].among))
    /\ \A i, j \in DOMAIN matches : i < j => IsPrefixOf(matches[i].among, matches[j].among)

\* When q listed the prior runs, r was among the latest of them.
Visible(q, r) ==
    r.at \in q.saw /\ Cardinality({a \in q.saw : a > r.at}) < PriorLimit

\* q finds r a twin, by values of r that still stand.
Twin(q, r) ==
    LET d == DocumentOf[q.extraction]
        p == DocumentOf[r.extraction]
    IN  d # p /\ Current(r) /\ Duplicate(Hash[d], q.texts, Hash[p], r.texts)

\* A decision has found each twin it listed, or has yet to read it.
Seen(q, r) == Visible(q, r) /\ Twin(q, r) => r.at \in q.todo \/ q.twin

\* A decision is flagged for the twins it listed.
FlaggedFor(q, r) == Visible(q, r) /\ Twin(q, r) /\ Supported(q.texts) => Flagged(q)

TwinsWereSeen ==
    \A r \in runs : /\ \A q \in open : Seen(q, r)
                    /\ \A q \in runs : FlaggedFor(q, r)

Inv ==
    /\ RunsAreDecisions
    /\ CurrentTexts
    /\ ApprovalsAreCurrent
    /\ MatchesAreRanked
    /\ TwinsWereSeen

-----------------------------------------------------------------------------
(* The order of candidates. *)

\* Candidates with an identifier and a score, no two with one identifier.
Rankable(S) ==
    /\ IsFiniteSet(S)
    /\ \A c \in S : c.id \in Nat /\ c.score \in Nat
    /\ \A a, b \in S : a.id = b.id => a = b

LEMMA BeforeIsTotal ==
    ASSUME NEW S, Rankable(S)
    PROVE  /\ \A a \in S : ~Before(a, a)
           /\ \A a, b \in S : a # b => Before(a, b) \/ Before(b, a)
           /\ \A a, b, c \in S : Before(a, b) /\ Before(b, c) => Before(a, c)
<1>1. \A a \in S : ~Before(a, a)
  BY DEF Rankable, Before
<1>2. \A a, b \in S : a # b => Before(a, b) \/ Before(b, a)
  <2> SUFFICES ASSUME NEW a \in S, NEW b \in S, a # b PROVE Before(a, b) \/ Before(b, a)
    OBVIOUS
  <2>1. a.id # b.id /\ a.id \in Nat /\ b.id \in Nat /\ a.score \in Nat /\ b.score \in Nat
    BY DEF Rankable
  <2> QED
    BY <2>1 DEF Before
<1>3. \A a, b, c \in S : Before(a, b) /\ Before(b, c) => Before(a, c)
  <2> SUFFICES ASSUME NEW a \in S, NEW b \in S, NEW c \in S, Before(a, b), Before(b, c)
               PROVE  Before(a, c)
    OBVIOUS
  <2>1. /\ a.id \in Nat /\ b.id \in Nat /\ c.id \in Nat
        /\ a.score \in Nat /\ b.score \in Nat /\ c.score \in Nat
    BY DEF Rankable
  <2> QED
    BY <2>1 DEF Before
<1> QED
  BY <1>1, <1>2, <1>3

\* How many come before c.
Above(S, c) == Cardinality({b \in S : Before(b, c)})

LEMMA AboveGrows ==
    ASSUME NEW S, Rankable(S)
    PROVE  /\ \A c \in S : Above(S, c) \in 0 .. Cardinality(S) - 1
           /\ \A a, b \in S : Before(a, b) => Above(S, a) < Above(S, b)
<1>0. IsFiniteSet(S) /\ Cardinality(S) \in Nat
  BY FS_CardinalityType DEF Rankable
<1>1. ASSUME NEW T \in SUBSET S, NEW U \in SUBSET T, NEW x \in T, x \notin U
      PROVE  Cardinality(U) \in Nat /\ Cardinality(T) \in Nat /\ Cardinality(U) < Cardinality(T)
  <2>1. IsFiniteSet(T)
    BY <1>0, FS_Subset
  <2>2. IsFiniteSet(U) /\ Cardinality(U) <= Cardinality(T)
        /\ (Cardinality(T) = Cardinality(U) => T = U)
    BY <2>1, FS_Subset
  <2>3. Cardinality(U) \in Nat /\ Cardinality(T) \in Nat
    BY <2>1, <2>2, FS_CardinalityType
  <2>4. T # U
    BY <1>1
  <2> QED
    BY <2>2, <2>3, <2>4
<1>2. ASSUME NEW c \in S PROVE Above(S, c) \in 0 .. Cardinality(S) - 1
  <2> DEFINE U == {b \in S : Before(b, c)}
  <2>1. U \in SUBSET S /\ c \notin U
    BY BeforeIsTotal
  <2> HIDE DEF U
  <2>2. Cardinality(U) \in Nat /\ Cardinality(U) < Cardinality(S)
    BY <1>1, <2>1
  <2>3. Above(S, c) = Cardinality(U)
    BY DEF Above, U
  <2> QED
    BY <2>2, <2>3, <1>0
<1>3. ASSUME NEW a \in S, NEW b \in S, Before(a, b) PROVE Above(S, a) < Above(S, b)
  <2> DEFINE U == {x \in S : Before(x, a)}
             T == {x \in S : Before(x, b)}
  <2>1. T \in SUBSET S /\ U \in SUBSET T /\ a \in T /\ a \notin U
    BY <1>3, BeforeIsTotal
  <2> HIDE DEF U, T
  <2>2. Cardinality(U) < Cardinality(T)
    BY <1>1, <2>1
  <2> QED
    BY <2>2 DEF Above, U, T
<1> QED
  BY <1>2, <1>3

\* Ranked lists each candidate once, and those that come before it first.
LEMMA RankedIsSorted ==
    ASSUME NEW S, Rankable(S)
    PROVE  /\ Ranked(S) \in [1 .. Cardinality(S) -> S]
           /\ \A c \in S : \E k \in 1 .. Cardinality(S) : Ranked(S)[k] = c
           /\ \A k, l \in 1 .. Cardinality(S) : k < l => Before(Ranked(S)[k], Ranked(S)[l])
           /\ \A k, l \in 1 .. Cardinality(S) : Before(Ranked(S)[k], Ranked(S)[l]) => k < l
<1> DEFINE n == Cardinality(S)
           f == [c \in S |-> Above(S, c) + 1]
<1>0. n \in Nat /\ IsFiniteSet(S)
  BY FS_CardinalityType DEF Rankable
<1>1. \A c \in S : Above(S, c) \in Int /\ Above(S, c) + 1 \in 1 .. n
  BY AboveGrows, <1>0
<1>2. ASSUME NEW a \in S, NEW b \in S, Above(S, a) = Above(S, b) PROVE a = b
  <2>1. ~(Above(S, a) < Above(S, b)) /\ ~(Above(S, b) < Above(S, a))
    BY <1>1, <1>2
  <2>2. ~Before(a, b) /\ ~Before(b, a)
    BY <2>1, AboveGrows
  <2> QED
    BY <2>2, BeforeIsTotal
<1>3. f \in Injection(S, 1 .. n)
  <2>1. f \in [S -> 1 .. n]
    BY <1>1
  <2>2. \A a, b \in S : f[a] = f[b] => a = b
    <3> SUFFICES ASSUME NEW a \in S, NEW b \in S, f[a] = f[b] PROVE a = b
      OBVIOUS
    <3>1. Above(S, a) + 1 = Above(S, b) + 1
      OBVIOUS
    <3>2. Above(S, a) = Above(S, b)
      BY <3>1, <1>1
    <3> QED
      BY <3>2, <1>2
  <2> HIDE DEF f
  <2> QED
    BY <2>1, <2>2 DEF Injection, IsInjective
<1>4. f \in Surjection(S, 1 .. n)
  <2> HIDE DEF f
  <2>1. IsFiniteSet(1 .. n) /\ Cardinality(1 .. n) = n
    <3>1. Cardinality(1 .. n) = IF 1 > n THEN 0 ELSE n - 1 + 1
      BY FS_Interval, <1>0
    <3> HIDE DEF n
    <3>2. (IF 1 > n THEN 0 ELSE n - 1 + 1) = n
      BY <1>0
    <3> QED
      BY <3>1, <3>2, <1>0, FS_Interval
  <2> QED
    BY <1>3, <2>1, FS_Injection
<1>5. ASSUME NEW k \in 1 .. n PROVE \E c \in S : Above(S, c) = k - 1
  <2>1. PICK c \in S : f[c] = k
    <3> HIDE DEF f
    <3> QED
      BY <1>4, <1>5 DEF Surjection
  <2>2. Above(S, c) + 1 = k
    BY <2>1
  <2>3. Above(S, c) \in Int /\ k \in Int
    BY <1>1, <1>0
  <2> QED
    BY <2>2, <2>3
<1>6. ASSUME NEW k \in 1 .. n PROVE Ranked(S)[k] \in S /\ Above(S, Ranked(S)[k]) = k - 1
  <2>1. Ranked(S)[k] = CHOOSE c \in S : Above(S, c) = k - 1
    BY DEF Ranked, Above
  <2> QED
    BY <2>1, <1>5
<1>7. DOMAIN Ranked(S) = 1 .. n /\ Ranked(S) \in [1 .. n -> S]
  <2> DEFINE Place(k) == CHOOSE c \in S : Above(S, c) = k - 1
  <2>1. Ranked(S) = [k \in 1 .. n |-> Place(k)]
    BY DEF Ranked, Above
  <2>2. \A k \in 1 .. n : Place(k) \in S
    BY <1>5
  <2> HIDE DEF Place
  <2> QED
    BY <2>1, <2>2
<1>8. ASSUME NEW c \in S PROVE \E k \in 1 .. n : Ranked(S)[k] = c
  <2>1. Above(S, c) + 1 \in 1 .. n /\ Above(S, c) \in Int
    BY <1>1
  <2>2. Ranked(S)[Above(S, c) + 1] \in S /\ Above(S, Ranked(S)[Above(S, c) + 1]) = Above(S, c) + 1 - 1
    BY <1>6, <2>1
  <2>3. Above(S, c) + 1 - 1 = Above(S, c)
    BY <2>1
  <2>4. Ranked(S)[Above(S, c) + 1] = c
    BY <1>2, <2>2, <2>3
  <2> QED
    BY <2>1, <2>4
<1>9. ASSUME NEW k \in 1 .. n, NEW l \in 1 .. n
      PROVE  /\ k < l => Before(Ranked(S)[k], Ranked(S)[l])
             /\ Before(Ranked(S)[k], Ranked(S)[l]) => k < l
  <2> DEFINE a == Ranked(S)[k]
             b == Ranked(S)[l]
  <2>1. a \in S /\ b \in S /\ Above(S, a) = k - 1 /\ Above(S, b) = l - 1
    BY <1>6
  <2> HIDE DEF a, b, n
  <2>2. Before(a, b) => k < l
    <3>1. Before(a, b) => k - 1 < l - 1
      BY <2>1, AboveGrows
    <3> QED
      BY <3>1, <1>0
  <2>3. k < l => Before(a, b)
    <3> SUFFICES ASSUME k < l PROVE Before(a, b)
      OBVIOUS
    <3>1. ~(l - 1 < k - 1) /\ k - 1 # l - 1
      BY <1>0
    <3>2. a # b /\ ~Before(b, a)
      BY <3>1, <2>1, AboveGrows
    <3> QED
      BY <3>2, <2>1, BeforeIsTotal
  <2> QED
    BY <2>2, <2>3 DEF a, b
<1> QED
  BY <1>7, <1>8, <1>9

-----------------------------------------------------------------------------
(* Scores. *)

LEMMA ReferenceScoreValue ==
    ASSUME NEW left, NEW right
    PROVE  /\ left # <<>> /\ left = right => ReferenceScore(left, right) = 15
           /\ ~(left # <<>> /\ left = right) => ReferenceScore(left, right) \in {0, 8}
<1>1. CASE left = <<>> \/ right = <<>>
  <2>1. ReferenceScore(left, right) = 0
    BY <1>1 DEF ReferenceScore
  <2> QED
    BY <1>1, <2>1
<1>2. CASE left # <<>> /\ left = right
  <2>1. ReferenceScore(left, right) = 15
    BY <1>2 DEF ReferenceScore, Policy
  <2> QED
    BY <1>2, <2>1
<1>3. CASE left # right /\ left # <<>> /\ right # <<>>
  <2>1. CASE Within(left, right) \/ Within(right, left)
    BY <1>3, <2>1 DEF ReferenceScore, Policy
  <2>2. CASE ~(Within(left, right) \/ Within(right, left))
    BY <1>3, <2>2 DEF ReferenceScore, Policy
  <2> QED
    BY <1>3, <2>1, <2>2
<1> QED
  BY <1>1, <1>2, <1>3

\* The parts of a score add up to at most 100 and to no less than the minimum.
LEMMA ScoreIsSum ==
    ASSUME NEW t, NEW g
    PROVE  \E reference \in {0, 8, 15} :
             /\ Score(t, g) = 55 + (IF t.day = g.day THEN 20 ELSE 8) + reference
                  + (IF Key(t.counterparty) # <<>> /\ Key(t.counterparty) = Key(g.counterparty)
                     THEN 10 ELSE 0)
             /\ Score(t, g) \in 60 .. 100
             /\ reference = 15
                  <=> Key(t.reference) # <<>> /\ Key(t.reference) = Key(g.reference)
<1> DEFINE reference == ReferenceScore(Key(t.reference), Key(g.reference))
           date == IF t.day = g.day THEN 20 ELSE 8
           name == IF Key(t.counterparty) # <<>> /\ Key(t.counterparty) = Key(g.counterparty)
                     THEN 10 ELSE 0
           sum == 55 + date + reference + name
<1>1. /\ reference \in {0, 8, 15}
      /\ reference = 15 <=> Key(t.reference) # <<>> /\ Key(t.reference) = Key(g.reference)
  BY ReferenceScoreValue
<1>2. date \in {8, 20} /\ name \in {0, 10}
  OBVIOUS
<1>3. Score(t, g) = IF sum > 100 THEN 100 ELSE sum
  BY DEF Score, Policy
<1> HIDE DEF reference, date, name
<1>4. sum \in 60 .. 100
  BY <1>1, <1>2
<1>5. Score(t, g) = sum
  BY <1>3, <1>4
<1> QED
  BY <1>1, <1>4, <1>5 DEF date, name

-----------------------------------------------------------------------------
(* What the engine promises of a decision. *)

\* A proposed journal moves the total of a supported document, which is valid.
LEMMA JournalOfTexts ==
    ASSUME NEW e, ProposedJournal(e) # NoJournal
    PROVE  /\ Supported(e) /\ e.total # None /\ e.currency # None
           /\ Lexicon[e.total].decimal \in 1 .. MaxMoney
           /\ ProposedJournal(e).currency = Lexicon[e.currency].currency
           /\ ProposedJournal(e).debits = Lexicon[e.total].decimal
<1>1. /\ Supported(e) /\ MoneyFindings(e) = {} /\ e.total # None /\ e.currency # None
      /\ ProposedJournal(e) = [currency |-> Lexicon[e.currency].currency,
                               debits |-> Lexicon[e.total].decimal,
                               credits |-> Lexicon[e.total].decimal + Adjustment]
  BY DEF ProposedJournal
<1>2. ValidMoney("total", e.total)
  <2>1. "total" \in MoneyPath /\ e["total"] = e.total
    BY DEF MoneyPath
  <2> QED
    BY <1>1, <2>1 DEF MoneyFindings
<1>3. Lexicon[e.total].decimal \in 1 .. MaxMoney
  BY <1>2 DEF ValidMoney
<1> QED
  BY <1>1, <1>3

LEMMA FindingsAreCodes ==
    ASSUME NEW e, NEW low, NEW twin
    PROVE  Findings(e, low, twin) \subseteq Code
<1>1. Findings(e, low, twin) \subseteq
        {"missing_required_field", "unsupported_document_type",
         "low_extraction_confidence", "invalid_monetary_value", "invalid_currency",
         "arithmetic_mismatch", "new_supplier", "possible_duplicate",
         "unknown_account_mapping", "tax_review_required", "unbalanced_journal"}
  BY DEF Findings
<1> QED
  BY <1>1 DEF Code, ErrorCodes, SeniorCodes

LEMMA TwinIsFinding ==
    ASSUME NEW e, NEW low, NEW twin, Supported(e), twin
    PROVE  "possible_duplicate" \in Findings(e, low, twin)
BY DEF Findings

LEMMA MissingIsFinding ==
    ASSUME NEW e, NEW low, NEW twin, "missing_required_field" \notin Findings(e, low, twin)
    PROVE  \A p \in RequiredFields(e.type) : e[p] # None
BY DEF Findings

\* What is not blocked has a balanced journal and all the fields it needs.
LEMMA NotBlocked ==
    ASSUME NEW e, NEW low, NEW twin,
           ClassifyReviewRisk(VerdictOf(Findings(e, low, twin), ProposedJournal(e))) # "blocked"
    PROVE  Balanced(ProposedJournal(e)) /\ e.date # None
<1> DEFINE findings == Findings(e, low, twin)
           journal == ProposedJournal(e)
           v == VerdictOf(findings, journal)
<1> HIDE DEF findings, journal
<1>1. v.journal = "balanced" /\ ~v.error
  <2> HIDE DEF v
  <2> QED
    BY DEF ClassifyReviewRisk, v, findings, journal
<1>2. Balanced(journal)
  <2>1. v.journal = CASE journal = NoJournal -> "none"
                      [] Balanced(journal) -> "balanced"
                      [] OTHER -> "unbalanced"
    BY DEF VerdictOf
  <2> HIDE DEF v
  <2>2. CASE journal = NoJournal
    <3>1. ~Balanced(journal)
      BY <2>2 DEF Balanced
    <3>2. v.journal = "none"
      BY <2>1, <2>2, <3>1
    <3> QED
      BY <3>2, <1>1
  <2>3. CASE journal # NoJournal /\ ~Balanced(journal)
    <3>1. v.journal = "unbalanced"
      BY <2>1, <2>3
    <3> QED
      BY <3>1, <1>1
  <2> QED
    BY <2>2, <2>3
<1>3. "missing_required_field" \notin findings
  BY <1>1 DEF VerdictOf, ErrorCodes
<1>4. Supported(e)
  BY <1>2, JournalOfTexts DEF Balanced, journal
<1>5. "date" \in RequiredFields(e.type) /\ e["date"] = e.date
  BY <1>4 DEF Supported, RequiredFields
<1> QED
  BY <1>2, <1>3, <1>5, MissingIsFinding DEF journal, findings

-----------------------------------------------------------------------------
(* Approved outcomes as targets. *)

\* A decision that can be approved.
Eligible(r) ==
    r.journal = ProposedJournal(r.texts) /\ Balanced(r.journal) /\ r.texts.date # None

LEMMA TargetOfApproved ==
    ASSUME NEW r, Eligible(r)
    PROVE  /\ Lexicon[r.texts.date].day = None => Target(r.journal, r.texts) = NoTarget
           /\ Lexicon[r.texts.date].day # None =>
                Target(r.journal, r.texts) =
                  [day |-> Lexicon[r.texts.date].day, direction |-> "debit",
                   amount |-> r.journal.debits, currency |-> r.journal.currency,
                   reference |-> r.texts.number, counterparty |-> r.texts.supplier]
<1> DEFINE j == r.journal
           e == r.texts
<1>1. j # NoJournal /\ Balanced(j) /\ e.date # None
  BY DEF Eligible, Balanced
<1>2. /\ Supported(e) /\ e.total # None /\ e.currency # None
      /\ Lexicon[e.total].decimal \in 1 .. MaxMoney
      /\ j.currency = Lexicon[e.currency].currency
      /\ j.debits = Lexicon[e.total].decimal
  BY <1>1, JournalOfTexts DEF Eligible
<1> HIDE DEF j, e
<1>3. j.debits > 0 /\ e.type = "purchase_invoice"
  BY <1>2, MoneyAssumption DEF Supported
<1>4. CASE Lexicon[e.date].day = None
  <2>1. Target(j, e) = NoTarget
    BY <1>4 DEF Target
  <2> QED
    BY <1>4, <2>1 DEF j, e
<1>5. CASE Lexicon[e.date].day # None
  <2>1. Target(j, e) = [day |-> Lexicon[e.date].day, direction |-> "debit",
                        amount |-> j.debits, currency |-> j.currency,
                        reference |-> e.number, counterparty |-> e.supplier]
    BY <1>1, <1>2, <1>3, <1>5 DEF Target
  <2> QED
    BY <1>5, <2>1 DEF j, e
<1> QED
  BY <1>4, <1>5 DEF e

\* The conditions and the minimum score select what the transaction pays.
LEMMA CandidatePays ==
    ASSUME NEW t, NEW o, Eligible(o.run)
    PROVE  IsCandidate(t, Target(o.run.journal, o.run.texts)) <=> Pays(t, o)
<1> DEFINE g == Target(o.run.journal, o.run.texts)
           day == Lexicon[o.run.texts.date].day
<1>1. CASE day = None
  BY <1>1, TargetOfApproved DEF IsCandidate, Pays
<1>2. CASE day # None
  <2>0. g = [day |-> day, direction |-> "debit",
             amount |-> o.run.journal.debits, currency |-> o.run.journal.currency,
             reference |-> o.run.texts.number, counterparty |-> o.run.texts.supplier]
    BY <1>2, TargetOfApproved
  <2>1. /\ g.day = day /\ g.direction = "debit" /\ g.amount = o.run.journal.debits
        /\ g.currency = o.run.journal.currency
    <3> HIDE DEF g, day
    <3> QED
      BY <2>0
  <2>2. NoTarget.day = None
    BY DEF NoTarget
  <2>3. Score(t, g) \in 60 .. 100
    BY ScoreIsSum
  <2> HIDE DEF g, day
  <2>4. Score(t, g) >= Policy.minimum /\ Policy.window = 7
    BY <2>3 DEF Policy
  <2>5. IsCandidate(t, g) <=> Pays(t, o)
    BY <1>2, <2>1, <2>2, <2>4 DEF IsCandidate, Pays, day
  <2> QED
    BY <2>5 DEF g
<1> QED
  BY <1>1, <1>2

\* What a transaction pays is scored by its evidence.
LEMMA ScoreOfApproved ==
    ASSUME NEW t, NEW o, Eligible(o.run), Pays(t, o)
    PROVE  \E reference \in {0, 8, 15} :
             /\ Score(t, Target(o.run.journal, o.run.texts)) =
                  55 + (IF SameDay(t, o) THEN 20 ELSE 8) + reference
                     + (IF SameName(t, o) THEN 10 ELSE 0)
             /\ reference = 15 <=> SameReference(t, o)
<1> DEFINE g == Target(o.run.journal, o.run.texts)
<1>0. g = [day |-> Lexicon[o.run.texts.date].day, direction |-> "debit",
           amount |-> o.run.journal.debits, currency |-> o.run.journal.currency,
           reference |-> o.run.texts.number, counterparty |-> o.run.texts.supplier]
  BY TargetOfApproved DEF Pays
<1> HIDE DEF g
<1>1. /\ g.day = Lexicon[o.run.texts.date].day /\ g.reference = o.run.texts.number
      /\ g.counterparty = o.run.texts.supplier
  BY <1>0
<1>2. /\ (t.day = g.day) <=> SameDay(t, o)
      /\ (Key(t.reference) # <<>> /\ Key(t.reference) = Key(g.reference)) <=> SameReference(t, o)
      /\ (Key(t.counterparty) # <<>> /\ Key(t.counterparty) = Key(g.counterparty))
           <=> SameName(t, o)
  BY <1>1 DEF SameDay, SameReference, SameName
<1>3. PICK reference \in {0, 8, 15} :
         /\ Score(t, g) = 55 + (IF t.day = g.day THEN 20 ELSE 8) + reference
              + (IF Key(t.counterparty) # <<>> /\ Key(t.counterparty) = Key(g.counterparty)
                 THEN 10 ELSE 0)
         /\ reference = 15
              <=> Key(t.reference) # <<>> /\ Key(t.reference) = Key(g.reference)
  BY ScoreIsSum
<1>4. (IF t.day = g.day THEN 20 ELSE 8) = (IF SameDay(t, o) THEN 20 ELSE 8)
  BY <1>2
<1>5. (IF Key(t.counterparty) # <<>> /\ Key(t.counterparty) = Key(g.counterparty)
         THEN 10 ELSE 0) = (IF SameName(t, o) THEN 10 ELSE 0)
  BY <1>2
<1> QED
  BY <1>2, <1>3, <1>4, <1>5 DEF g

\* Outcomes that can be matched: decisions that can be approved, under
\* identifiers of their own.
Matchable(outcomes) ==
    /\ \E n \in Nat : DOMAIN outcomes = 1 .. n
    /\ \A i \in DOMAIN outcomes : outcomes[i].id \in Nat /\ Eligible(outcomes[i].run)
    /\ \A i, j \in DOMAIN outcomes : outcomes[i].id = outcomes[j].id => i = j

\* The candidate that an outcome becomes.
Scored(t, o) == [id |-> o.id, score |-> Score(t, Target(o.run.journal, o.run.texts))]

LEMMA CandidatesOfOutcomes ==
    ASSUME NEW t, NEW outcomes, Matchable(outcomes)
    PROVE  LET C == Candidates(t, TargetsOf(outcomes))
           IN  /\ \A i \in DOMAIN outcomes : Pays(t, outcomes[i]) => Scored(t, outcomes[i]) \in C
               /\ \A c \in C : \E i \in DOMAIN outcomes :
                    Pays(t, outcomes[i]) /\ c = Scored(t, outcomes[i])
               /\ \A c \in C : c.score \in 60 .. 100
               /\ Rankable(C)
<1> DEFINE C == Candidates(t, TargetsOf(outcomes))
           I == {i \in DOMAIN outcomes : Pays(t, outcomes[i])}
           f == [i \in I |-> Scored(t, outcomes[i])]
<1>1. C = {Scored(t, outcomes[i]) : i \in I}
  <2> DEFINE targets == TargetsOf(outcomes)
  <2>1. DOMAIN targets = DOMAIN outcomes
    BY DEF TargetsOf
  <2>2. ASSUME NEW i \in DOMAIN outcomes
        PROVE  /\ targets[i].id = outcomes[i].id
               /\ targets[i].target = Target(outcomes[i].run.journal, outcomes[i].run.texts)
               /\ IsCandidate(t, targets[i].target) <=> Pays(t, outcomes[i])
    <3>1. targets[i] = [id |-> outcomes[i].id,
                        target |-> Target(outcomes[i].run.journal, outcomes[i].run.texts)]
      BY DEF TargetsOf
    <3> HIDE DEF targets
    <3>2. /\ targets[i].id = outcomes[i].id
          /\ targets[i].target = Target(outcomes[i].run.journal, outcomes[i].run.texts)
      BY <3>1
    <3> QED
      BY <3>2, CandidatePays DEF Matchable
  <2> HIDE DEF targets
  <2>3. C = {[id |-> targets[i].id, score |-> Score(t, targets[i].target)] :
              i \in {j \in DOMAIN targets : IsCandidate(t, targets[j].target)}}
    BY DEF Candidates, targets
  <2>4. {j \in DOMAIN targets : IsCandidate(t, targets[j].target)} = I
    BY <2>1, <2>2
  <2>5. \A i \in I : [id |-> targets[i].id, score |-> Score(t, targets[i].target)]
                       = Scored(t, outcomes[i])
    BY <2>2 DEF Scored
  <2> HIDE DEF C, I
  <2> QED
    BY <2>3, <2>4, <2>5
<1>2. \A i \in DOMAIN outcomes : /\ Scored(t, outcomes[i]).id = outcomes[i].id
                                 /\ Scored(t, outcomes[i]).score \in 60 .. 100
  BY ScoreIsSum DEF Scored
<1>3. IsFiniteSet(C)
  <2>1. PICK n \in Nat : DOMAIN outcomes = 1 .. n
    BY DEF Matchable
  <2>2. IsFiniteSet(1 .. n) /\ I \in SUBSET (1 .. n)
    BY <2>1, FS_Interval
  <2>3. IsFiniteSet(I)
    BY <2>2, FS_Subset
  <2>4. f \in Surjection(I, C)
    <3>1. f \in [I -> C] /\ \A c \in C : \E i \in I : f[i] = c
      <4> HIDE DEF C, I
      <4> QED
        BY <1>1
    <3> HIDE DEF f, C, I
    <3> QED
      BY <3>1 DEF Surjection
  <2> HIDE DEF f, C, I
  <2> QED
    BY <2>3, <2>4, FS_Surjection
<1>4. \A c \in C : c.id \in Nat /\ c.score \in 60 .. 100
  <2>1. \A i \in I : outcomes[i].id \in Nat
    BY DEF Matchable
  <2> HIDE DEF C
  <2> QED
    BY <1>1, <1>2, <2>1
<1>5. \A a, b \in C : a.id = b.id => a = b
  <2> SUFFICES ASSUME NEW a \in C, NEW b \in C, a.id = b.id PROVE a = b
    OBVIOUS
  <2>1. PICK i \in I : a = Scored(t, outcomes[i])
    BY <1>1
  <2>2. PICK j \in I : b = Scored(t, outcomes[j])
    BY <1>1
  <2>3. outcomes[i].id = outcomes[j].id
    BY <2>1, <2>2, <1>2
  <2>4. i = j
    BY <2>3 DEF Matchable
  <2> QED
    BY <2>1, <2>2, <2>4
<1>6. \A c \in C : \E i \in DOMAIN outcomes :
                    Pays(t, outcomes[i]) /\ c = Scored(t, outcomes[i])
  BY <1>1
<1>7. \A i \in DOMAIN outcomes : Pays(t, outcomes[i]) => Scored(t, outcomes[i]) \in C
  BY <1>1
<1>8. Rankable(C)
  <2> HIDE DEF C
  <2> QED
    BY <1>3, <1>4, <1>5 DEF Rankable
<1> HIDE DEF C
<1>9. /\ \A i \in DOMAIN outcomes : Pays(t, outcomes[i]) => Scored(t, outcomes[i]) \in C
      /\ \A c \in C : \E i \in DOMAIN outcomes :
           Pays(t, outcomes[i]) /\ c = Scored(t, outcomes[i])
      /\ \A c \in C : c.score \in 60 .. 100
      /\ Rankable(C)
  BY <1>4, <1>6, <1>7, <1>8
<1> QED
  BY <1>9 DEF C

-----------------------------------------------------------------------------
(* Decisions. *)

LEMMA IsRunStays ==
    ASSUME clock \in Nat, clock' \in Nat, clock <= clock', runs \subseteq runs', NEW r, IsRun(r)
    PROVE  IsRun(r)'
<1>1. r.at \in 1 .. clock'
  BY DEF IsRun
<1>2. Stamps \subseteq Stamps'
  BY DEF Stamps
<1>3. r.saw \subseteq Stamps'
  BY <1>2 DEF IsRun
<1> QED
  BY <1>1, <1>3 DEF IsRun

LEMMA IsOpenStays ==
    ASSUME clock \in Nat, clock' \in Nat, clock <= clock', runs \subseteq runs', NEW r, IsOpen(r),
           r.at \notin Stamps'
    PROVE  IsOpen(r)'
<1>1. r.at \in 1 .. clock'
  BY DEF IsOpen
<1>2. Stamps \subseteq Stamps'
  BY DEF Stamps
<1>3. r.saw \subseteq Stamps'
  BY <1>2 DEF IsOpen
<1> QED
  BY <1>1, <1>3 DEF IsOpen

\* The decision that StartDecision opens.
Started(e) ==
    [extraction |-> e, at |-> clock + 1, texts |-> Texts(e), listed |-> FALSE,
     saw |-> {}, todo |-> {}, twin |-> FALSE]

LEMMA StartedFields ==
    ASSUME NEW e
    PROVE  LET s == Started(e)
           IN  /\ s = [extraction |-> s.extraction, at |-> s.at, texts |-> s.texts,
                       listed |-> s.listed, saw |-> s.saw, todo |-> s.todo, twin |-> s.twin]
               /\ s.extraction = e /\ s.at = clock + 1 /\ s.texts = Texts(e)
               /\ s.saw = {} /\ s.todo = {} /\ s.twin = FALSE
BY DEF Started

LEMMA DecisionStarts ==
    ASSUME NEW e, StartDecision(e)
    PROVE  /\ clock' = clock + 1 /\ open' = open \cup {Started(e)}
           /\ UNCHANGED <<corrections, runs, approved, matches>>
BY DEF StartDecision, Started

\* What a step of a decision under way leaves alone.
SameDecision(r, s) ==
    /\ s = [extraction |-> s.extraction, at |-> s.at, texts |-> s.texts,
            listed |-> s.listed, saw |-> s.saw, todo |-> s.todo, twin |-> s.twin]
    /\ s.extraction = r.extraction /\ s.at = r.at /\ s.texts = r.texts

\* A decision that has listed the prior runs.
LEMMA Lists ==
    ASSUME NEW r, IsOpen(r), ListPriorRuns(r)
    PROVE  \E s : /\ Continue(r, s) /\ SameDecision(r, s)
                  /\ s.saw = Stamps /\ s.todo = {x.at : x \in PriorRuns} /\ s.twin = r.twin
<1> DEFINE listed == TRUE
           saw == Stamps
           todo == {x.at : x \in PriorRuns}
           s == [r EXCEPT !.listed = listed, !.saw = saw, !.todo = todo]
<1>1. Continue(r, s)
  BY DEF ListPriorRuns, Stamps
<1> HIDE DEF listed, saw, todo
<1>2. r = [extraction |-> r.extraction, at |-> r.at, texts |-> r.texts,
           listed |-> r.listed, saw |-> r.saw, todo |-> r.todo, twin |-> r.twin]
  BY DEF IsOpen
<1>3. s = [extraction |-> r.extraction, at |-> r.at, texts |-> r.texts,
           listed |-> listed, saw |-> saw, todo |-> todo, twin |-> r.twin]
  <2> DEFINE f == [r EXCEPT !.listed = listed]
             g == [f EXCEPT !.saw = saw]
  <2>1. f = [extraction |-> r.extraction, at |-> r.at, texts |-> r.texts,
             listed |-> listed, saw |-> r.saw, todo |-> r.todo, twin |-> r.twin]
    BY <1>2
  <2>2. s = [g EXCEPT !.todo = todo]
    OBVIOUS
  <2> HIDE DEF s, f
  <2>3. g = [extraction |-> r.extraction, at |-> r.at, texts |-> r.texts,
             listed |-> listed, saw |-> saw, todo |-> r.todo, twin |-> r.twin]
    BY <2>1
  <2> HIDE DEF g
  <2> QED
    BY <2>2, <2>3
<1> HIDE DEF s
<1>4. SameDecision(r, s) /\ s.saw = saw /\ s.todo = todo /\ s.twin = r.twin
  BY <1>3 DEF SameDecision
<1> QED
  BY <1>1, <1>4 DEF saw, todo

\* A decision that has read the values of a prior run.
LEMMA Reads ==
    ASSUME NEW r, NEW x, IsOpen(r), ReadPriorRun(r, x)
    PROVE  \E s : /\ Continue(r, s) /\ SameDecision(r, s)
                  /\ s.saw = r.saw /\ s.todo = r.todo \ {x.at}
                  /\ s.twin = (r.twin \/ LooksLike(r, x))
<1> DEFINE todo == r.todo \ {x.at}
           twin == (r.twin \/ LooksLike(r, x))
           s == [r EXCEPT !.todo = todo, !.twin = twin]
<1>1. Continue(r, s)
  BY DEF ReadPriorRun
<1> HIDE DEF todo, twin
<1>2. r = [extraction |-> r.extraction, at |-> r.at, texts |-> r.texts,
           listed |-> r.listed, saw |-> r.saw, todo |-> r.todo, twin |-> r.twin]
  BY DEF IsOpen
<1>3. s = [extraction |-> r.extraction, at |-> r.at, texts |-> r.texts,
           listed |-> r.listed, saw |-> r.saw, todo |-> todo, twin |-> twin]
  <2> DEFINE f == [r EXCEPT !.todo = todo]
  <2>1. f = [extraction |-> r.extraction, at |-> r.at, texts |-> r.texts,
             listed |-> r.listed, saw |-> r.saw, todo |-> todo, twin |-> r.twin]
    BY <1>2
  <2>2. s = [f EXCEPT !.twin = twin]
    OBVIOUS
  <2> HIDE DEF s, f
  <2> QED
    BY <2>1, <2>2
<1> HIDE DEF s
<1>4. SameDecision(r, s) /\ s.saw = r.saw /\ s.todo = todo /\ s.twin = twin
  BY <1>3 DEF SameDecision
<1> QED
  BY <1>1, <1>4 DEF todo, twin

\* What committing makes of a decision.
LEMMA DecidedFields ==
    ASSUME NEW r
    PROVE  LET c == Decided(r)
           IN  /\ c = [extraction |-> c.extraction, at |-> c.at, texts |-> c.texts,
                       saw |-> c.saw, findings |-> c.findings, journal |-> c.journal]
               /\ c.extraction = r.extraction /\ c.at = r.at /\ c.texts = r.texts
               /\ c.saw = r.saw /\ c.journal = ProposedJournal(r.texts)
               /\ c.findings = Findings(r.texts, Extracted[r.extraction].low, r.twin)
BY DEF Decided

\* A step of a decision under way is one that Continue takes.
LEMMA Continues ==
    ASSUME RunsAreDecisions, NEW r \in open,
           ListPriorRuns(r) \/ \E x \in runs : ReadPriorRun(r, x)
    PROVE  \E s : Continue(r, s) /\ SameDecision(r, s) /\ IsOpen(s)
<1>1. IsOpen(r)
  BY DEF RunsAreDecisions
<1>2. ASSUME NEW s, SameDecision(r, s), s.saw \subseteq Stamps, s.todo \subseteq s.saw,
             s.twin \in BOOLEAN
      PROVE  IsOpen(s)
  BY <1>1, <1>2 DEF IsOpen, SameDecision
<1>3. ASSUME ListPriorRuns(r) PROVE \E s : Continue(r, s) /\ SameDecision(r, s) /\ IsOpen(s)
  <2>1. PICK s : /\ Continue(r, s) /\ SameDecision(r, s)
                 /\ s.saw = Stamps /\ s.todo = {x.at : x \in PriorRuns} /\ s.twin = r.twin
    BY <1>1, <1>3, Lists
  <2>2. s.todo \subseteq s.saw
    BY <2>1 DEF Stamps, PriorRuns
  <2>3. s.twin \in BOOLEAN
    BY <2>1, <1>1 DEF IsOpen
  <2> QED
    BY <1>2, <2>1, <2>2, <2>3
<1>4. ASSUME NEW x \in runs, ReadPriorRun(r, x)
      PROVE  \E s : Continue(r, s) /\ SameDecision(r, s) /\ IsOpen(s)
  <2>1. PICK s : /\ Continue(r, s) /\ SameDecision(r, s)
                 /\ s.saw = r.saw /\ s.todo = r.todo \ {x.at}
                 /\ s.twin = (r.twin \/ LooksLike(r, x))
    BY <1>1, <1>4, Reads
  <2>2. s.saw \subseteq Stamps /\ s.todo \subseteq s.saw
    BY <2>1, <1>1 DEF IsOpen
  <2>3. s.twin \in BOOLEAN
    BY <2>1
  <2> QED
    BY <1>2, <2>1, <2>2, <2>3
<1> QED
  BY <1>3, <1>4

LEMMA RunsAreDecisionsNext ==
    ASSUME RunsAreDecisions, Next
    PROVE  RunsAreDecisions' /\ runs \subseteq runs' /\ clock <= clock'
<1>0. /\ clock \in Nat
      /\ \A r \in open : IsOpen(r) /\ r.at \in 1 .. clock /\ r.at \notin Stamps
      /\ \A r \in runs : IsRun(r) /\ r.at \in 1 .. clock
      /\ \A r, q \in open : r.at = q.at => r = q
      /\ \A r, q \in runs : r.at = q.at => r = q
  BY DEF RunsAreDecisions, IsOpen, IsRun
<1>1. ASSUME clock' = clock + 1 \/ clock' = clock, runs' = runs
      PROVE  /\ clock' \in Nat /\ clock <= clock' /\ Stamps' = Stamps
             /\ \A r \in runs : IsRun(r)'
             /\ \A r : IsOpen(r) => IsOpen(r)'
  <2>1. clock' \in Nat /\ clock <= clock'
    BY <1>0, <1>1
  <2>2. Stamps' = Stamps
    BY <1>1 DEF Stamps
  <2>3. \A r \in runs : IsRun(r)'
    BY <1>0, <1>1, <2>1, IsRunStays
  <2>4. ASSUME NEW r, IsOpen(r) PROVE IsOpen(r)'
    <3>1. r.at \notin Stamps'
      BY <2>2, <2>4 DEF IsOpen
    <3> QED
      BY <1>0, <1>1, <2>1, <2>4, <3>1, IsOpenStays
  <2> QED
    BY <2>1, <2>2, <2>3, <2>4
<1>2. ASSUME NEW e \in ExtractionRun, NEW c \in Corrections[e], Correct(e, c)
      PROVE  RunsAreDecisions' /\ runs \subseteq runs' /\ clock <= clock'
  <2>1. clock' = clock + 1 /\ runs' = runs /\ open' = open
    BY <1>2 DEF Correct
  <2> QED
    BY <2>1, <1>0, <1>1 DEF RunsAreDecisions
<1>3. ASSUME NEW e \in ExtractionRun, StartDecision(e)
      PROVE  RunsAreDecisions' /\ runs \subseteq runs' /\ clock <= clock'
  <2>1. PICK s : /\ clock' = clock + 1 /\ runs' = runs /\ open' = open \cup {s}
                 /\ s = Started(e)
    BY <1>3, DecisionStarts
  <2>2. /\ s = [extraction |-> s.extraction, at |-> s.at, texts |-> s.texts,
                listed |-> s.listed, saw |-> s.saw, todo |-> s.todo, twin |-> s.twin]
        /\ s.extraction = e /\ s.at = clock + 1 /\ s.saw = {} /\ s.todo = {} /\ s.twin = FALSE
    BY <2>1, StartedFields
  <2>3. s.at \in 1 .. clock' /\ \A q \in open \cup runs : s.at # q.at
    BY <1>0, <2>1, <2>2
  <2>4. s.at \notin Stamps'
    BY <1>1, <2>1, <2>3 DEF Stamps
  <2>5. IsOpen(s)'
    BY <2>2, <2>3, <2>4 DEF IsOpen
  <2>6. \A r \in open' : IsOpen(r)'
    BY <1>0, <1>1, <2>1, <2>5
  <2>7. \A r, q \in open' : r.at = q.at => r = q
    BY <1>0, <2>1, <2>3
  <2> QED
    BY <2>1, <2>6, <2>7, <1>0, <1>1 DEF RunsAreDecisions
<1>4. ASSUME NEW r \in open, ListPriorRuns(r) \/ \E x \in runs : ReadPriorRun(r, x)
      PROVE  RunsAreDecisions' /\ runs \subseteq runs' /\ clock <= clock'
  <2>1. PICK s : Continue(r, s) /\ SameDecision(r, s) /\ IsOpen(s)
    BY <1>4, Continues
  <2>2. clock' = clock /\ runs' = runs /\ open' = (open \ {r}) \cup {s} /\ s.at = r.at
    BY <2>1 DEF Continue, SameDecision
  <2>3. \A q \in open' : IsOpen(q)'
    BY <1>0, <1>1, <2>1, <2>2
  <2>4. \A p, q \in open' : p.at = q.at => p = q
    BY <1>0, <2>2
  <2> QED
    BY <2>2, <2>3, <2>4, <1>0, <1>1 DEF RunsAreDecisions
<1>5. ASSUME NEW r \in open, CommitDecision(r)
      PROVE  RunsAreDecisions' /\ runs \subseteq runs' /\ clock <= clock'
  <2> DEFINE c == Decided(r)
  <2>1. clock' = clock /\ open' = open \ {r} /\ runs' = runs \cup {c}
    BY <1>5 DEF CommitDecision
  <2>2. /\ c = [extraction |-> c.extraction, at |-> c.at, texts |-> c.texts,
                saw |-> c.saw, findings |-> c.findings, journal |-> c.journal]
        /\ c.extraction = r.extraction /\ c.at = r.at /\ c.texts = r.texts
        /\ c.saw = r.saw /\ c.journal = ProposedJournal(r.texts)
        /\ c.findings = Findings(r.texts, Extracted[r.extraction].low, r.twin)
    BY DecidedFields
  <2> HIDE DEF c
  <2>3. /\ r.extraction \in ExtractionRun /\ r.at \in 1 .. clock /\ r.at \notin Stamps
        /\ r.saw \subseteq Stamps /\ r.twin \in BOOLEAN
    BY <1>0 DEF IsOpen
  <2>4. Stamps \subseteq Stamps' /\ Stamps' = Stamps \cup {c.at}
    BY <2>1 DEF Stamps
  <2>5. IsRun(c)'
    <3>1. c.saw \subseteq Stamps'
      BY <2>2, <2>3, <2>4
    <3>2. \E twin \in BOOLEAN : c.findings = Findings(c.texts, Extracted[c.extraction].low, twin)
      BY <2>2, <2>3
    <3>3. /\ c.extraction \in ExtractionRun /\ c.at \in 1 .. clock'
          /\ c.journal = ProposedJournal(c.texts)
      BY <2>1, <2>2, <2>3
    <3> QED
      BY <2>2, <3>1, <3>2, <3>3 DEF IsRun
  <2>6. ASSUME NEW q \in runs PROVE IsRun(q)'
    BY <1>0, <2>1, IsRunStays
  <2>7. ASSUME NEW q \in open' PROVE IsOpen(q)'
    <3>1. q \in open /\ q # r
      BY <2>1
    <3>2. q.at # r.at
      BY <1>0, <3>1
    <3>3. q.at \notin Stamps'
      BY <1>0, <2>2, <2>4, <3>1, <3>2
    <3> QED
      BY <1>0, <2>1, <3>1, <3>3, IsOpenStays
  <2>8. \A p, q \in runs' : p.at = q.at => p = q
    <3>1. \A q \in runs : q.at # c.at
      BY <2>2, <2>3 DEF Stamps
    <3> QED
      BY <1>0, <2>1, <3>1
  <2>9. \A p, q \in open' : p.at = q.at => p = q
    BY <1>0, <2>1
  <2>10. \A q \in runs' : IsRun(q)'
    BY <2>1, <2>5, <2>6
  <2> QED
    BY <2>1, <2>7, <2>8, <2>9, <2>10, <1>0 DEF RunsAreDecisions
<1>6. ASSUME NEW r \in open, AbandonDecision(r)
      PROVE  RunsAreDecisions' /\ runs \subseteq runs' /\ clock <= clock'
  <2>1. clock' = clock /\ open' = open \ {r} /\ runs' = runs
    BY <1>6 DEF AbandonDecision
  <2> QED
    BY <2>1, <1>0, <1>1 DEF RunsAreDecisions
<1>7. ASSUME UNCHANGED <<clock, open, runs>>
      PROVE  RunsAreDecisions' /\ runs \subseteq runs' /\ clock <= clock'
  BY <1>7, <1>0, <1>1 DEF RunsAreDecisions
<1> QED
  BY <1>2, <1>3, <1>4, <1>5, <1>6, <1>7 DEF Next, Approve, GenerateMatchRun

-----------------------------------------------------------------------------
(* Corrections. *)

\* A correction makes the earlier decisions of its extraction run outdated.
LEMMA CorrectOutdates ==
    ASSUME clock \in Nat, corrections \in [ExtractionRun -> Seq(Correction)],
           NEW e \in ExtractionRun, NEW c \in Corrections[e], Correct(e, c)
    PROVE  /\ corrections' \in [ExtractionRun -> Seq(Correction)]
           /\ \A f \in ExtractionRun \ {e} : corrections'[f] = corrections[f]
           /\ \E i \in DOMAIN corrections'[e] : corrections'[e][i].at = clock + 1
<1> DEFINE x == [path |-> c.path, value |-> c.value, at |-> clock + 1]
<1>1. corrections' = [corrections EXCEPT ![e] = Append(corrections[e], x)]
  BY DEF Correct
<1>2. x \in Correction /\ x.at = clock + 1
  <2>1. c.path \in Path /\ c.value \in Value
    BY CorrectionsAssumption
  <2> QED
    BY <2>1 DEF Correction
<1> HIDE DEF x
<1>3. corrections[e] \in Seq(Correction)
  OBVIOUS
<1> DEFINE s == corrections[e]
           s2 == Append(s, x)
<1>4. /\ s2 \in Seq(Correction) /\ Len(s2) = Len(s) + 1 /\ s2[Len(s) + 1] = x
      /\ Len(s) + 1 \in DOMAIN s2
  <2> HIDE DEF s
  <2>1. s \in Seq(Correction)
    BY <1>3 DEF s
  <2> QED
    BY <2>1, <1>2
<1>5. corrections'[e] = s2 /\ \A f \in ExtractionRun \ {e} : corrections'[f] = corrections[f]
  BY <1>1
<1>6. corrections' \in [ExtractionRun -> Seq(Correction)]
  <2> HIDE DEF s2
  <2>1. corrections' = [corrections EXCEPT ![e] = s2]
    BY <1>1 DEF s2
  <2> QED
    BY <2>1, <1>4
<1> HIDE DEF s2
<1> QED
  BY <1>2, <1>4, <1>5, <1>6

\* What nothing has outdated after a step was not outdated before it, and its
\* values are those it had.
LEMMA CurrentWasCurrent ==
    ASSUME RunsAreDecisions, CurrentTexts, Next, NEW r, r.extraction \in ExtractionRun,
           r.at \in 1 .. clock, Current(r)'
    PROVE  Current(r) /\ Texts(r.extraction)' = Texts(r.extraction)
<1>0. clock \in Nat /\ corrections \in [ExtractionRun -> Seq(Correction)]
  BY DEF RunsAreDecisions, CurrentTexts
<1>1. CASE UNCHANGED corrections
  BY <1>1 DEF Current, Texts
<1>2. ASSUME NEW e \in ExtractionRun, NEW c \in Corrections[e], Correct(e, c)
      PROVE  Current(r) /\ Texts(r.extraction)' = Texts(r.extraction)
  <2>1. /\ \A f \in ExtractionRun \ {e} : corrections'[f] = corrections[f]
        /\ \E i \in DOMAIN corrections'[e] : corrections'[e][i].at = clock + 1
    BY <1>0, <1>2, CorrectOutdates
  <2>2. r.extraction # e
    <3> SUFFICES ASSUME r.extraction = e PROVE FALSE
      OBVIOUS
    <3>1. PICK i \in DOMAIN corrections'[e] : corrections'[e][i].at = clock + 1
      BY <2>1
    <3>2. clock + 1 <= r.at
      BY <3>1 DEF Current
    <3> QED
      BY <3>2, <1>0
  <2>3. corrections'[r.extraction] = corrections[r.extraction]
    BY <2>1, <2>2
  <2> QED
    BY <2>3 DEF Current, Texts
<1> QED
  BY <1>1, <1>2 DEF Next, StartDecision, ListPriorRuns, ReadPriorRun, Continue, CommitDecision,
     AbandonDecision, Approve, GenerateMatchRun

LEMMA CurrentTextsNext ==
    ASSUME RunsAreDecisions, CurrentTexts, Next
    PROVE  CurrentTexts'
<1>0. /\ clock \in Nat
      /\ \A r \in runs \cup open : r.extraction \in ExtractionRun /\ r.at \in 1 .. clock
  BY DEF RunsAreDecisions, IsRun, IsOpen
<1>1. /\ corrections \in [ExtractionRun -> Seq(Correction)]
      /\ \A r \in runs \cup open : Current(r) => r.texts = Texts(r.extraction)
  BY DEF CurrentTexts
<1>2. \A r \in runs \cup open : Current(r)' => r.texts = Texts(r.extraction)'
  BY <1>0, <1>1, CurrentWasCurrent
<1>3. ASSUME NEW e \in ExtractionRun, NEW c \in Corrections[e], Correct(e, c)
      PROVE  CurrentTexts'
  <2>1. runs' = runs /\ open' = open
    BY <1>3 DEF Correct
  <2>2. corrections' \in [ExtractionRun -> Seq(Correction)]
    BY <1>0, <1>1, <1>3, CorrectOutdates
  <2> QED
    BY <2>1, <2>2, <1>2 DEF CurrentTexts
<1>4. ASSUME NEW e \in ExtractionRun, StartDecision(e)
      PROVE  CurrentTexts'
  <2>1. runs' = runs /\ open' = open \cup {Started(e)} /\ corrections' = corrections
    BY <1>4, DecisionStarts
  <2>2. ASSUME NEW r, r = Started(e) PROVE r.texts = Texts(r.extraction)'
    <3>1. r.texts = Texts(e) /\ r.extraction = e
      BY <2>2, StartedFields
    <3> QED
      BY <3>1, <2>1 DEF Texts
  <2> QED
    BY <2>1, <2>2, <1>1, <1>2 DEF CurrentTexts
<1>5. ASSUME NEW r \in open, ListPriorRuns(r) \/ \E x \in runs : ReadPriorRun(r, x)
      PROVE  CurrentTexts'
  <2>1. PICK s : Continue(r, s) /\ SameDecision(r, s)
    BY <1>5, Continues
  <2>2. /\ runs' = runs /\ open' = (open \ {r}) \cup {s} /\ corrections' = corrections
        /\ s.extraction = r.extraction /\ s.at = r.at /\ s.texts = r.texts
    BY <2>1 DEF Continue, SameDecision
  <2>3. Current(s)' => s.texts = Texts(s.extraction)'
    BY <2>2, <1>2 DEF Current
  <2> QED
    BY <2>2, <2>3, <1>1, <1>2 DEF CurrentTexts
<1>6. ASSUME NEW r \in open, CommitDecision(r)
      PROVE  CurrentTexts'
  <2> DEFINE c == Decided(r)
  <2>1. open' = open \ {r} /\ runs' = runs \cup {c} /\ corrections' = corrections
    BY <1>6 DEF CommitDecision
  <2>2. c.extraction = r.extraction /\ c.at = r.at /\ c.texts = r.texts
    BY DecidedFields
  <2> HIDE DEF c
  <2>3. Current(c)' => c.texts = Texts(c.extraction)'
    BY <2>2, <1>2 DEF Current
  <2> QED
    BY <2>1, <2>3, <1>1, <1>2 DEF CurrentTexts
<1>7. ASSUME NEW r \in open, AbandonDecision(r)
      PROVE  CurrentTexts'
  <2>1. open' = open \ {r} /\ runs' = runs /\ corrections' = corrections
    BY <1>7 DEF AbandonDecision
  <2> QED
    BY <2>1, <1>1, <1>2 DEF CurrentTexts
<1>8. ASSUME UNCHANGED <<corrections, open, runs>>
      PROVE  CurrentTexts'
  BY <1>8, <1>1, <1>2 DEF CurrentTexts
<1> QED
  BY <1>3, <1>4, <1>5, <1>6, <1>7, <1>8 DEF Next, Approve, GenerateMatchRun

-----------------------------------------------------------------------------
(* Approvals. *)

LEMMA SeqOfMore ==
    ASSUME NEW S, NEW T, S \subseteq T, NEW s \in Seq(S)
    PROVE  s \in Seq(T)
OBVIOUS

LEMMA AppendOne ==
    ASSUME NEW S, NEW s \in Seq(S), NEW x \in S
    PROVE  /\ Append(s, x) \in Seq(S) /\ Len(s) \in Nat /\ DOMAIN s = 1 .. Len(s)
           /\ Len(Append(s, x)) = Len(s) + 1
           /\ DOMAIN Append(s, x) = 1 .. Len(s) + 1
           /\ \A i \in DOMAIN s : i \in DOMAIN Append(s, x) /\ Append(s, x)[i] = s[i]
           /\ Append(s, x)[Len(s) + 1] = x
           /\ \A i \in DOMAIN Append(s, x) : i \in DOMAIN s \/ i = Len(s) + 1
           /\ Len(s) + 1 \notin DOMAIN s
<1> Len(s) \in Nat /\ DOMAIN s = 1 .. Len(s)
  OBVIOUS
<1>1. DOMAIN Append(s, x) = 1 .. Len(s) + 1
  OBVIOUS
<1> QED
  BY <1>1

\* An approval is of a decision that nothing has outdated, and stays so.
LEMMA ApprovalsAreCurrentNext ==
    ASSUME RunsAreDecisions, CurrentTexts, ApprovalsAreCurrent, Next
    PROVE  ApprovalsAreCurrent'
<1>0. /\ clock \in Nat /\ \A r \in runs : r.extraction \in ExtractionRun
      /\ runs \subseteq runs' /\ corrections \in [ExtractionRun -> Seq(Correction)]
  BY RunsAreDecisionsNext DEF RunsAreDecisions, IsRun, CurrentTexts
<1>1. Outcome \subseteq Outcome'
  BY <1>0 DEF Outcome
<1>2. /\ approved \in Seq(Outcome) /\ approved \in Seq(Outcome')
      /\ \A i \in DOMAIN approved :
           /\ approved[i].run \in runs /\ Current(approved[i].run)
           /\ ClassifyReviewRisk(VerdictOf(approved[i].run.findings, approved[i].run.journal))
                # "blocked"
      /\ \A i, j \in DOMAIN approved : approved[i].id = approved[j].id => i = j
  <2>1. approved \in Seq(Outcome)
    BY DEF ApprovalsAreCurrent
  <2>2. approved \in Seq(Outcome')
    BY <2>1, <1>1, SeqOfMore
  <2>3. \A i \in DOMAIN approved : approved[i] \in Outcome
    BY <2>1
  <2>4. \A i \in DOMAIN approved : approved[i].run \in runs
    BY <2>3 DEF Outcome
  <2> QED
    BY <2>1, <2>2, <2>4 DEF ApprovalsAreCurrent
<1>3. ASSUME UNCHANGED approved, \A i \in DOMAIN approved : Current(approved[i].run)'
      PROVE  ApprovalsAreCurrent'
  <2> DEFINE T == Outcome'
  <2>1. approved' \in Seq(T)
    BY <1>2, <1>3
  <2> HIDE DEF T
  <2>2. \A i \in DOMAIN approved' :
          /\ Current(approved[i].run)'
          /\ ClassifyReviewRisk(VerdictOf(approved'[i].run.findings, approved'[i].run.journal))
               # "blocked"
    BY <1>2, <1>3 DEF Current
  <2>3. \A i, j \in DOMAIN approved' : approved'[i].id = approved'[j].id => i = j
    BY <1>2, <1>3
  <2> QED
    BY <2>1, <2>2, <2>3 DEF ApprovalsAreCurrent, T
<1>4. ASSUME UNCHANGED <<approved, corrections>> PROVE ApprovalsAreCurrent'
  <2>1. \A i \in DOMAIN approved : Current(approved[i].run)'
    BY <1>2, <1>4 DEF Current
  <2> QED
    BY <2>1, <1>3, <1>4
<1>5. ASSUME NEW e \in ExtractionRun, NEW c \in Corrections[e], Correct(e, c)
      PROVE  ApprovalsAreCurrent'
  <2>1. approved' = approved /\ e \notin ApprovedExtractions
    BY <1>5 DEF Correct
  <2>2. \A f \in ExtractionRun \ {e} : corrections'[f] = corrections[f]
    BY <1>0, <1>5, CorrectOutdates
  <2>3. ASSUME NEW i \in DOMAIN approved PROVE Current(approved[i].run)'
    <3>1. approved[i].run.extraction # e /\ approved[i].run.extraction \in ExtractionRun
      BY <2>1, <1>0, <1>2 DEF ApprovedExtractions
    <3>2. corrections'[approved[i].run.extraction] = corrections[approved[i].run.extraction]
      BY <3>1, <2>2
    <3> QED
      BY <3>2, <2>1, <1>2 DEF Current
  <2> QED
    BY <2>1, <2>3, <1>3
<1>6. ASSUME NEW r \in runs, NEW id \in 1 .. MaxApprovals, Approve(r, id)
      PROVE  ApprovalsAreCurrent'
  <2> DEFINE o == [id |-> id, run |-> r]
             n == Len(approved) + 1
  <2>1. /\ approved' = Append(approved, o) /\ runs' = runs /\ corrections' = corrections
        /\ \A i \in DOMAIN approved : approved[i].id # id
        /\ ClassifyReviewRisk(VerdictOf(r.findings, r.journal)) # "blocked"
        /\ Current(r)
    BY <1>6 DEF Approve, Current
  <2>2. o \in Outcome /\ o.id = id /\ o.run = r
    BY DEF Outcome
  <2> HIDE DEF o
  <2>3. /\ approved' \in Seq(Outcome)
        /\ \A i \in DOMAIN approved : approved'[i] = approved[i]
        /\ \A i \in DOMAIN approved' : i \in DOMAIN approved \/ i = n
        /\ approved'[n] = o
    BY <1>2, <2>1, <2>2, AppendOne
  <2> HIDE DEF n
  <2>4. Outcome' = Outcome
    BY <2>1 DEF Outcome
  <2>5. ASSUME NEW i \in DOMAIN approved'
        PROVE  /\ Current(approved'[i].run)
               /\ ClassifyReviewRisk(VerdictOf(approved'[i].run.findings, approved'[i].run.journal))
                    # "blocked"
    <3>1. CASE i \in DOMAIN approved
      BY <3>1, <1>2, <2>3
    <3>2. CASE i = n
      BY <3>2, <2>1, <2>2, <2>3
    <3> QED
      BY <3>1, <3>2, <2>3
  <2>6. ASSUME NEW i \in DOMAIN approved', NEW j \in DOMAIN approved',
               approved'[i].id = approved'[j].id
        PROVE  i = j
    <3>1. CASE i \in DOMAIN approved /\ j \in DOMAIN approved
      BY <3>1, <2>6, <2>3, <1>2
    <3>2. CASE i = n /\ j = n
      BY <3>2
    <3>3. CASE i = n /\ j \in DOMAIN approved
      BY <3>3, <2>6, <2>1, <2>2, <2>3
    <3>4. CASE j = n /\ i \in DOMAIN approved
      BY <3>4, <2>6, <2>1, <2>2, <2>3
    <3> QED
      BY <3>1, <3>2, <3>3, <3>4, <2>3
  <2>7. \A i \in DOMAIN approved' : Current(approved[i].run)'
    BY <2>5, <2>1 DEF Current
  <2> QED
    BY <2>3, <2>4, <2>5, <2>6, <2>7 DEF ApprovalsAreCurrent
<1> QED
  BY <1>4, <1>5, <1>6
     DEF Next, StartDecision, ListPriorRuns, ReadPriorRun, Continue, CommitDecision,
         AbandonDecision, GenerateMatchRun

LEMMA ApprovedAreMatchable ==
    ASSUME RunsAreDecisions, CurrentTexts, ApprovalsAreCurrent
    PROVE  /\ Matchable(approved)
           /\ \A i \in DOMAIN approved :
                approved[i].run.texts = Texts(approved[i].run.extraction)
<1>1. approved \in Seq(Outcome)
  BY DEF ApprovalsAreCurrent
<1>2. ASSUME NEW i \in DOMAIN approved
      PROVE  /\ approved[i].id \in Nat /\ Eligible(approved[i].run)
             /\ approved[i].run.texts = Texts(approved[i].run.extraction)
  <2> DEFINE r == approved[i].run
  <2>1. approved[i] \in Outcome
    BY <1>1
  <2>2. r \in runs /\ approved[i].id \in Nat
    BY <2>1 DEF Outcome
  <2>3. Current(r) /\ ClassifyReviewRisk(VerdictOf(r.findings, r.journal)) # "blocked"
    BY DEF ApprovalsAreCurrent
  <2> HIDE DEF r
  <2>4. IsRun(r) /\ r.texts = Texts(r.extraction)
    BY <2>2, <2>3 DEF RunsAreDecisions, CurrentTexts
  <2>5. PICK twin \in BOOLEAN : r.findings = Findings(r.texts, Extracted[r.extraction].low, twin)
    BY <2>4 DEF IsRun
  <2>6. r.journal = ProposedJournal(r.texts)
    BY <2>4 DEF IsRun
  <2>7. Balanced(ProposedJournal(r.texts)) /\ r.texts.date # None
    BY <2>3, <2>5, <2>6, NotBlocked
  <2> QED
    BY <2>2, <2>4, <2>6, <2>7 DEF Eligible, r
<1>3. Len(approved) \in Nat /\ DOMAIN approved = 1 .. Len(approved)
  BY <1>1
<1> QED
  BY <1>2, <1>3 DEF Matchable, ApprovalsAreCurrent

-----------------------------------------------------------------------------
(* Match runs. *)

LEMMA PrefixTransitive ==
    ASSUME NEW S, NEW T, NEW U, NEW s \in Seq(S), NEW t \in Seq(T), NEW u \in Seq(U),
           IsPrefixOf(s, t), IsPrefixOf(t, u)
    PROVE  IsPrefixOf(s, u)
<1>1. /\ Len(s) \in Nat /\ Len(t) \in Nat /\ Len(u) \in Nat
      /\ DOMAIN s = 1 .. Len(s) /\ DOMAIN t = 1 .. Len(t)
  OBVIOUS
<1>2. Len(s) <= Len(t) /\ Len(t) <= Len(u)
  BY DEF IsPrefixOf
<1>3. Len(s) <= Len(u) /\ \A i \in DOMAIN s : i \in DOMAIN t
  BY <1>1, <1>2
<1> QED
  BY <1>3 DEF IsPrefixOf

LEMMA PrefixOfItself ==
    ASSUME NEW S, NEW s \in Seq(S)
    PROVE  IsPrefixOf(s, s)
BY DEF IsPrefixOf

\* What may be matched may be matched without the last of it.
LEMMA PrefixIsMatchable ==
    ASSUME NEW S, NEW T, NEW s \in Seq(S), NEW t \in Seq(T), IsPrefixOf(s, t), Matchable(t)
    PROVE  Matchable(s)
<1>1. /\ Len(s) \in Nat /\ Len(t) \in Nat
      /\ DOMAIN s = 1 .. Len(s) /\ DOMAIN t = 1 .. Len(t)
  OBVIOUS
<1>2. \A i \in DOMAIN s : i \in DOMAIN t /\ s[i] = t[i]
  BY <1>1 DEF IsPrefixOf
<1>3. \A i \in DOMAIN s : s[i].id \in Nat /\ Eligible(s[i].run)
  BY <1>2 DEF Matchable
<1>4. \A i, j \in DOMAIN s : s[i].id = s[j].id => i = j
  BY <1>2 DEF Matchable
<1> QED
  BY <1>1, <1>3, <1>4 DEF Matchable

\* The ranking of outcomes: the payments among them, each once, in order.
LEMMA MatchOfOutcomes ==
    ASSUME NEW t, NEW outcomes, Matchable(outcomes)
    PROVE  LET s == Match(t, TargetsOf(outcomes))
           IN  /\ \E n \in Nat : DOMAIN s = 1 .. n
               /\ \A k \in DOMAIN s : \E i \in DOMAIN outcomes :
                    Pays(t, outcomes[i]) /\ s[k] = Scored(t, outcomes[i])
               /\ \A i \in DOMAIN outcomes :
                    Pays(t, outcomes[i]) => \E k \in DOMAIN s : s[k] = Scored(t, outcomes[i])
               /\ \A k \in DOMAIN s : s[k].score \in 60 .. 100
               /\ \A k, l \in DOMAIN s : k < l <=> Before(s[k], s[l])
<1> DEFINE C == Candidates(t, TargetsOf(outcomes))
           s == Match(t, TargetsOf(outcomes))
           n == Cardinality(C)
<1>1. /\ \A i \in DOMAIN outcomes : Pays(t, outcomes[i]) => Scored(t, outcomes[i]) \in C
      /\ \A c \in C : \E i \in DOMAIN outcomes :
           Pays(t, outcomes[i]) /\ c = Scored(t, outcomes[i])
      /\ \A c \in C : c.score \in 60 .. 100
      /\ Rankable(C)
  BY CandidatesOfOutcomes
<1>2. s = Ranked(C)
  BY DEF Match
<1> HIDE DEF C, s
<1>3. n \in Nat
  BY <1>1, FS_CardinalityType DEF Rankable
<1>4. /\ s \in [1 .. n -> C]
      /\ \A c \in C : \E k \in 1 .. n : s[k] = c
      /\ \A k, l \in 1 .. n : k < l => Before(s[k], s[l])
      /\ \A k, l \in 1 .. n : Before(s[k], s[l]) => k < l
  BY <1>1, <1>2, RankedIsSorted
<1> HIDE DEF n
<1>5. DOMAIN s = 1 .. n /\ \A k \in DOMAIN s : s[k] \in C
  BY <1>4
<1>6. /\ \E m \in Nat : DOMAIN s = 1 .. m
      /\ \A k \in DOMAIN s : \E i \in DOMAIN outcomes :
           Pays(t, outcomes[i]) /\ s[k] = Scored(t, outcomes[i])
      /\ \A i \in DOMAIN outcomes :
           Pays(t, outcomes[i]) => \E k \in DOMAIN s : s[k] = Scored(t, outcomes[i])
      /\ \A k \in DOMAIN s : s[k].score \in 60 .. 100
      /\ \A k, l \in DOMAIN s : k < l <=> Before(s[k], s[l])
  <2>1. \E m \in Nat : DOMAIN s = 1 .. m
    BY <1>3, <1>5
  <2>2. \A k \in DOMAIN s : /\ \E i \in DOMAIN outcomes :
                                Pays(t, outcomes[i]) /\ s[k] = Scored(t, outcomes[i])
                            /\ s[k].score \in 60 .. 100
    BY <1>1, <1>5
  <2>3. \A i \in DOMAIN outcomes :
           Pays(t, outcomes[i]) => \E k \in DOMAIN s : s[k] = Scored(t, outcomes[i])
    BY <1>1, <1>4, <1>5
  <2>4. \A k, l \in DOMAIN s : k < l <=> Before(s[k], s[l])
    BY <1>4, <1>5
  <2> QED
    BY <2>1, <2>2, <2>3, <2>4
<1> QED
  BY <1>6 DEF s

LEMMA ApprovedGrows ==
    ASSUME RunsAreDecisions, CurrentTexts, ApprovalsAreCurrent, Next
    PROVE  approved \in Seq(Outcome) /\ approved' \in Seq(Outcome') /\ IsPrefixOf(approved, approved')
<1>1. approved \in Seq(Outcome) /\ approved' \in Seq(Outcome')
  <2>1. approved \in Seq(Outcome)
    BY DEF ApprovalsAreCurrent
  <2>2. ApprovalsAreCurrent'
    BY ApprovalsAreCurrentNext
  <2>3. approved' \in Seq(Outcome')
    BY <2>2 DEF ApprovalsAreCurrent
  <2> QED
    BY <2>1, <2>3
<1>2. ASSUME approved' = approved PROVE IsPrefixOf(approved, approved')
  BY <1>1, <1>2, PrefixOfItself
<1>3. ASSUME NEW r \in runs, NEW id \in 1 .. MaxApprovals, Approve(r, id)
      PROVE  IsPrefixOf(approved, approved')
  <2> DEFINE o == [id |-> id, run |-> r]
  <2>1. approved' = Append(approved, o) /\ o \in Outcome
    BY <1>3 DEF Approve, Outcome
  <2> HIDE DEF o
  <2>2. /\ Len(approved) \in Nat /\ Len(approved') = Len(approved) + 1
        /\ \A i \in DOMAIN approved : approved'[i] = approved[i]
    BY <1>1, <2>1, AppendOne
  <2>3. Len(approved) <= Len(approved')
    BY <2>2
  <2> QED
    BY <2>2, <2>3 DEF IsPrefixOf
<1> QED
  BY <1>1, <1>2, <1>3
     DEF Next, Correct, StartDecision, ListPriorRuns, ReadPriorRun, Continue, CommitDecision,
         AbandonDecision, GenerateMatchRun

\* A match run ranks what was approved by the values that were approved.
LEMMA GeneratedRun ==
    ASSUME RunsAreDecisions, CurrentTexts, ApprovalsAreCurrent, NEW t \in Txn
    PROVE  /\ ApprovedTargets = TargetsOf(approved)
           /\ Match(Bank[t], ApprovedTargets) \in Seq(Candidate)
<1>1. ApprovedTargets = TargetsOf(approved)
  BY ApprovedAreMatchable DEF ApprovedTargets, TargetsOf
<1> DEFINE s == Match(Bank[t], TargetsOf(approved))
<1>2. /\ \E n \in Nat : DOMAIN s = 1 .. n
      /\ \A k \in DOMAIN s : \E i \in DOMAIN approved : s[k] = Scored(Bank[t], approved[i])
      /\ \A k \in DOMAIN s : s[k].score \in 60 .. 100
  BY ApprovedAreMatchable, MatchOfOutcomes
<1>3. s = [k \in DOMAIN s |-> s[k]]
  <2> DEFINE C == Candidates(Bank[t], TargetsOf(approved))
  <2>1. s = Ranked(C) /\ Rankable(C)
    BY ApprovedAreMatchable, CandidatesOfOutcomes DEF Match
  <2> HIDE DEF C, s
  <2>2. s \in [1 .. Cardinality(C) -> C]
    BY <2>1, RankedIsSorted
  <2> QED
    BY <2>2
<1>4. \A i \in DOMAIN approved : approved[i].id \in 1 .. MaxApprovals
  <2>1. \A i \in DOMAIN approved : approved[i] \in Outcome
    BY DEF ApprovalsAreCurrent
  <2> QED
    BY <2>1 DEF Outcome
<1> HIDE DEF s
<1>5. ASSUME NEW k \in DOMAIN s PROVE s[k] \in Candidate
  <2>1. PICK i \in DOMAIN approved : s[k] = Scored(Bank[t], approved[i])
    BY <1>2
  <2> DEFINE score == Score(Bank[t], Target(approved[i].run.journal, approved[i].run.texts))
  <2>2. s[k] = [id |-> approved[i].id, score |-> score]
    BY <2>1 DEF Scored
  <2> HIDE DEF score
  <2>3. s[k].score = score
    BY <2>2
  <2>4. score \in 0 .. 100
    <3>1. score \in 60 .. 100
      BY <1>2, <2>3
    <3> QED
      BY <3>1
  <2> QED
    BY <1>4, <2>2, <2>4 DEF Candidate
<1>6. PICK n \in Nat : DOMAIN s = 1 .. n
  BY <1>2
<1>7. s \in [1 .. n -> Candidate]
  BY <1>3, <1>5, <1>6
<1>8. s \in Seq(Candidate)
  BY <1>7
<1> QED
  BY <1>1, <1>8 DEF s

LEMMA MatchesAreRankedNext ==
    ASSUME RunsAreDecisions, CurrentTexts, ApprovalsAreCurrent, MatchesAreRanked, Next
    PROVE  MatchesAreRanked'
<1>0. approved \in Seq(Outcome) /\ approved' \in Seq(Outcome') /\ IsPrefixOf(approved, approved')
  BY ApprovedGrows
<1>1. MatchRun \subseteq MatchRun'
  <2>1. Outcome \subseteq Outcome'
    BY RunsAreDecisionsNext DEF Outcome
  <2>2. Seq(Outcome) \subseteq Seq(Outcome')
    BY <2>1, SeqOfMore
  <2>3. Candidate' = Candidate
    BY DEF Candidate
  <2> QED
    BY <2>2, <2>3 DEF MatchRun
<1>2. /\ matches \in Seq(MatchRun) /\ matches \in Seq(MatchRun')
      /\ \A i \in DOMAIN matches :
           /\ matches[i].among \in Seq(Outcome)
           /\ IsPrefixOf(matches[i].among, approved)
           /\ matches[i].ranked = Match(Bank[matches[i].txn], TargetsOf(matches[i].among))
      /\ \A i, j \in DOMAIN matches : i < j => IsPrefixOf(matches[i].among, matches[j].among)
  <2>1. matches \in Seq(MatchRun)
    BY DEF MatchesAreRanked
  <2>2. matches \in Seq(MatchRun')
    BY <2>1, <1>1, SeqOfMore
  <2>3. \A i \in DOMAIN matches : matches[i] \in MatchRun
    BY <2>1
  <2>4. \A i \in DOMAIN matches : matches[i].among \in Seq(Outcome)
    BY <2>3 DEF MatchRun
  <2> QED
    BY <2>1, <2>2, <2>4 DEF MatchesAreRanked
<1>3. \A i \in DOMAIN matches : IsPrefixOf(matches[i].among, approved')
  BY <1>0, <1>2, PrefixTransitive
<1>4. ASSUME matches' = matches PROVE MatchesAreRanked'
  BY <1>2, <1>3, <1>4 DEF MatchesAreRanked
<1>5. ASSUME NEW t \in Txn, GenerateMatchRun(t) PROVE MatchesAreRanked'
  <2> DEFINE m == [txn |-> t, ranked |-> Match(Bank[t], ApprovedTargets), among |-> approved]
             n == Len(matches) + 1
  <2>1. matches' = Append(matches, m) /\ approved' = approved /\ runs' = runs
    BY <1>5 DEF GenerateMatchRun
  <2>2. /\ m \in MatchRun /\ m.txn = t /\ m.among = approved
        /\ m.ranked = Match(Bank[t], TargetsOf(approved))
    BY <1>0, GeneratedRun DEF MatchRun
  <2> HIDE DEF m
  <2>3. /\ matches' \in Seq(MatchRun) /\ Len(matches) \in Nat
        /\ DOMAIN matches = 1 .. Len(matches)
        /\ \A i \in DOMAIN matches : matches'[i] = matches[i]
        /\ \A i \in DOMAIN matches' : i \in DOMAIN matches \/ i = n
        /\ matches'[n] = m
    BY <1>2, <2>1, <2>2, AppendOne
  <2>4. \A i \in DOMAIN matches : i < n
    BY <2>3
  <2> HIDE DEF n
  <2>5. MatchRun' = MatchRun
    BY <2>1 DEF MatchRun, Outcome, Candidate
  <2>6. IsPrefixOf(approved, approved)
    BY <1>0, PrefixOfItself
  <2>7. ASSUME NEW i \in DOMAIN matches'
        PROVE  /\ IsPrefixOf(matches'[i].among, approved)
               /\ matches'[i].ranked = Match(Bank[matches'[i].txn], TargetsOf(matches'[i].among))
    <3>1. CASE i \in DOMAIN matches
      BY <3>1, <1>2, <2>3
    <3>2. CASE i = n
      BY <3>2, <2>2, <2>3, <2>6
    <3> QED
      BY <3>1, <3>2, <2>3
  <2>8. ASSUME NEW i \in DOMAIN matches', NEW j \in DOMAIN matches', i < j
        PROVE  IsPrefixOf(matches'[i].among, matches'[j].among)
    <3>1. CASE i \in DOMAIN matches /\ j \in DOMAIN matches
      BY <3>1, <1>2, <2>3, <2>8
    <3>2. CASE i \in DOMAIN matches /\ j = n
      BY <3>2, <1>2, <2>2, <2>3
    <3>3. CASE i = n
      <4>1. j \in Nat /\ n \in Nat /\ j <= n
        BY <2>3, <2>4 DEF n
      <4> QED
        BY <4>1, <3>3, <2>8
    <3> QED
      BY <3>1, <3>2, <3>3, <2>3
  <2> QED
    BY <2>1, <2>3, <2>5, <2>7, <2>8 DEF MatchesAreRanked
<1> QED
  BY <1>4, <1>5
     DEF Next, Correct, StartDecision, ListPriorRuns, ReadPriorRun, Continue, CommitDecision,
         AbandonDecision, Approve

-----------------------------------------------------------------------------
(* Twins. *)

\* What a decision sees of a committed one while it lists is what the query returns.
LEMMA VisibleIsPrior ==
    ASSUME RunsAreDecisions, NEW r \in runs,
           Cardinality({a \in Stamps : a > r.at}) < PriorLimit
    PROVE  r \in PriorRuns
<1> DEFINE A == {a \in Stamps : a > r.at}
           R == {x \in runs : x.at > r.at}
           f == [a \in A |-> CHOOSE x \in runs : x.at = a]
<1>0. clock \in Nat /\ (\A x \in runs : x.at \in 1 .. clock)
      /\ \A x, y \in runs : x.at = y.at => x = y
  BY DEF RunsAreDecisions, IsRun
<1>1. IsFiniteSet(A)
  <2>1. IsFiniteSet(1 .. clock) /\ A \subseteq 1 .. clock
    BY <1>0, FS_Interval DEF Stamps
  <2> HIDE DEF A
  <2> QED
    BY <2>1, FS_Subset
<1>2. ASSUME NEW a \in A PROVE f[a] \in runs /\ f[a].at = a
  BY DEF Stamps
<1>3. f \in [A -> R]
  <2>1. \A a \in A : f[a] \in R
    BY <1>2
  <2>2. f = [a \in A |-> f[a]]
    OBVIOUS
  <2> HIDE DEF f, A, R
  <2> QED
    BY <2>1, <2>2
<1>4. ASSUME NEW x \in R PROVE \E a \in A : f[a] = x
  <2>1. x.at \in A
    BY DEF Stamps
  <2> QED
    BY <2>1, <1>0, <1>2
<1>5. f \in Surjection(A, R)
  <2> HIDE DEF f, A, R
  <2> QED
    BY <1>3, <1>4 DEF Surjection
<1> HIDE DEF f, A, R
<1>6. IsFiniteSet(R) /\ Cardinality(R) <= Cardinality(A)
  BY <1>1, <1>5, FS_Surjection
<1>7. Cardinality(R) \in Nat /\ Cardinality(A) \in Nat
  BY <1>1, <1>6, FS_CardinalityType
<1>8. Cardinality(A) < PriorLimit
  BY DEF A
<1>9. Cardinality(R) < PriorLimit
  BY <1>6, <1>7, <1>8, BoundsAssumption
<1> QED
  BY <1>9 DEF PriorRuns, R

\* Reading a prior run finds it a twin by the values it was decided from, if they stand.
LEMMA TwinLooksLike ==
    ASSUME CurrentTexts, NEW q, NEW r \in runs, Twin(q, r)
    PROVE  LooksLike(q, r)
<1>1. r.texts = Texts(r.extraction)
  BY DEF CurrentTexts, Twin
<1> QED
  BY <1>1 DEF Twin, LooksLike

LEMMA TwinsWereSeenNext ==
    ASSUME RunsAreDecisions, CurrentTexts, TwinsWereSeen, Next
    PROVE  TwinsWereSeen'
<1>0. /\ \A q \in open : IsOpen(q)
      /\ \A r \in runs : r.extraction \in ExtractionRun /\ r.at \in 1 .. clock
      /\ \A x, y \in runs : x.at = y.at => x = y
  BY DEF RunsAreDecisions, IsRun
<1>1. \A r \in runs : /\ \A q \in open : Seen(q, r)
                      /\ \A q \in runs : FlaggedFor(q, r)
  BY DEF TwinsWereSeen
<1>2. ASSUME NEW r \in runs, NEW q, Twin(q, r)' PROVE Twin(q, r)
  <2>1. Current(r)'
    BY <1>2 DEF Twin
  <2>2. Current(r)
    BY <2>1, <1>0, CurrentWasCurrent
  <2> QED
    BY <2>2, <1>2 DEF Twin
<1>3. \A q, r : Visible(q, r)' <=> Visible(q, r)
  BY DEF Visible
<1>4. ASSUME NEW r \in runs
      PROVE  /\ \A q \in open : Seen(q, r)'
             /\ \A q \in runs : FlaggedFor(q, r)'
  <2>1. \A q \in open : Seen(q, r)'
    BY <1>1, <1>2, <1>3 DEF Seen
  <2>2. \A q \in runs : FlaggedFor(q, r)'
    BY <1>1, <1>2, <1>3 DEF FlaggedFor, Flagged
  <2> QED
    BY <2>1, <2>2
<1>5. ASSUME UNCHANGED runs, open' \subseteq open PROVE TwinsWereSeen'
  BY <1>4, <1>5 DEF TwinsWereSeen
<1>6. ASSUME NEW s, UNCHANGED runs, open' \subseteq open \cup {s}, \A r \in runs : Seen(s, r)'
      PROVE  TwinsWereSeen'
  BY <1>4, <1>6 DEF TwinsWereSeen
<1>7. ASSUME NEW e \in ExtractionRun, StartDecision(e) PROVE TwinsWereSeen'
  <2>1. PICK s : runs' = runs /\ open' = open \cup {s} /\ s.saw = {}
    BY <1>7, DecisionStarts, StartedFields
  <2>2. \A r \in runs : Seen(s, r)'
    BY <2>1 DEF Seen, Visible
  <2> QED
    BY <2>1, <2>2, <1>6
<1>8. ASSUME NEW q \in open, ListPriorRuns(q) PROVE TwinsWereSeen'
  <2>1. PICK s : /\ Continue(q, s) /\ SameDecision(q, s)
                 /\ s.saw = Stamps /\ s.todo = {x.at : x \in PriorRuns} /\ s.twin = q.twin
    BY <1>0, <1>8, Lists
  <2>2. runs' = runs /\ open' \subseteq open \cup {s}
    BY <2>1 DEF Continue
  <2>3. ASSUME NEW r \in runs, Visible(s, r) PROVE r.at \in s.todo
    <3>1. Cardinality({a \in Stamps : a > r.at}) < PriorLimit
      BY <2>1, <2>3 DEF Visible
    <3>2. r \in PriorRuns
      BY <3>1, VisibleIsPrior
    <3> QED
      BY <3>2, <2>1
  <2>4. \A r \in runs : Seen(s, r)'
    BY <2>3, <1>3 DEF Seen
  <2> QED
    BY <2>2, <2>4, <1>6
<1>9. ASSUME NEW q \in open, NEW x \in runs, ReadPriorRun(q, x) PROVE TwinsWereSeen'
  <2>1. PICK s : /\ Continue(q, s) /\ SameDecision(q, s)
                 /\ s.saw = q.saw /\ s.todo = q.todo \ {x.at}
                 /\ s.twin = (q.twin \/ LooksLike(q, x))
    BY <1>0, <1>9, Reads
  <2>2. /\ runs' = runs /\ open' \subseteq open \cup {s}
        /\ s.extraction = q.extraction /\ s.texts = q.texts
    BY <2>1 DEF Continue, SameDecision
  <2>3. ASSUME NEW r \in runs, Visible(s, r), Twin(s, r) PROVE r.at \in s.todo \/ s.twin
    <3>1. Visible(q, r)
      BY <2>1, <2>3 DEF Visible
    <3>2. Twin(q, r)
      BY <2>2, <2>3 DEF Twin
    <3>3. r.at \in q.todo \/ q.twin
      BY <3>1, <3>2, <1>1 DEF Seen
    <3>4. CASE q.twin
      BY <3>4, <2>1
    <3>5. CASE r.at \in q.todo /\ r.at # x.at
      BY <3>5, <2>1
    <3>6. CASE r.at = x.at
      <4>1. r = x
        BY <3>6, <1>0
      <4>2. LooksLike(q, x)
        BY <4>1, <3>2, TwinLooksLike
      <4> QED
        BY <4>2, <2>1
    <3> QED
      BY <3>3, <3>4, <3>5, <3>6
  <2>4. \A r \in runs : Seen(s, r)'
    BY <2>3, <1>2, <1>3 DEF Seen
  <2> QED
    BY <2>2, <2>4, <1>6
<1>10. ASSUME NEW q \in open, CommitDecision(q) PROVE TwinsWereSeen'
  <2> DEFINE c == Decided(q)
  <2>1. open' = open \ {q} /\ runs' = runs \cup {c} /\ q.todo = {}
    BY <1>10 DEF CommitDecision
  <2>2. /\ c.extraction = q.extraction /\ c.at = q.at /\ c.texts = q.texts /\ c.saw = q.saw
        /\ c.findings = Findings(q.texts, Extracted[q.extraction].low, q.twin)
    BY DecidedFields
  <2> HIDE DEF c
  <2>3. ASSUME NEW r \in runs, Visible(c, r), Twin(c, r), Supported(c.texts) PROVE Flagged(c)
    <3>1. Visible(q, r)
      BY <2>2, <2>3 DEF Visible
    <3>2. Twin(q, r)
      BY <2>2, <2>3 DEF Twin
    <3>3. q.twin
      BY <3>1, <3>2, <1>1, <2>1 DEF Seen
    <3> QED
      BY <3>3, <2>2, <2>3, TwinIsFinding DEF Flagged
  <2>4. \A r \in runs : FlaggedFor(c, r)'
    BY <2>3, <1>2, <1>3 DEF FlaggedFor, Flagged
  <2>5. /\ \A p \in open \cup runs : c.at \notin p.saw
        /\ c.at \notin c.saw
    <3>1. c.at \notin Stamps /\ c.saw \subseteq Stamps
      BY <1>0, <2>2 DEF IsOpen
    <3>2. \A p \in open \cup runs : p.saw \subseteq Stamps
      BY DEF RunsAreDecisions, IsOpen, IsRun
    <3> QED
      BY <3>1, <3>2
  <2>6. /\ \A p \in open : Seen(p, c)'
        /\ \A p \in runs \cup {c} : FlaggedFor(p, c)'
    BY <2>5, <1>3 DEF Seen, FlaggedFor, Visible
  <2>7. ASSUME NEW r \in runs'
        PROVE  /\ \A p \in open' : Seen(p, r)'
               /\ \A p \in runs' : FlaggedFor(p, r)'
    <3>1. CASE r \in runs
      BY <3>1, <2>1, <2>4, <1>4
    <3>2. CASE r = c
      BY <3>2, <2>1, <2>6
    <3> QED
      BY <3>1, <3>2, <2>1
  <2> QED
    BY <2>7 DEF TwinsWereSeen
<1> QED
  BY <1>5, <1>7, <1>8, <1>9, <1>10
     DEF Next, Correct, AbandonDecision, Approve, GenerateMatchRun

-----------------------------------------------------------------------------
(* The invariant, and what follows from it. *)

LEMMA InvInit == ASSUME Init PROVE Inv
<1>1. RunsAreDecisions
  BY DEF Init, RunsAreDecisions
<1>2. CurrentTexts
  BY DEF Init, CurrentTexts
<1>3. ApprovalsAreCurrent
  BY DEF Init, ApprovalsAreCurrent
<1>4. MatchesAreRanked
  BY DEF Init, MatchesAreRanked
<1>5. TwinsWereSeen
  BY DEF Init, TwinsWereSeen
<1> QED
  BY <1>1, <1>2, <1>3, <1>4, <1>5 DEF Inv

LEMMA InvStep == ASSUME Inv, [Next]_vars PROVE Inv'
<1>1. CASE Next
  BY <1>1, RunsAreDecisionsNext, CurrentTextsNext, ApprovalsAreCurrentNext,
     MatchesAreRankedNext, TwinsWereSeenNext DEF Inv
<1>2. CASE UNCHANGED vars
  <2>1. RunsAreDecisions'
    BY <1>2 DEF Inv, vars, RunsAreDecisions, IsRun, IsOpen, Stamps
  <2>2. CurrentTexts'
    BY <1>2 DEF Inv, vars, CurrentTexts, Current, Texts
  <2>3. ApprovalsAreCurrent'
    BY <1>2 DEF Inv, vars, ApprovalsAreCurrent, Current, Outcome
  <2>4. MatchesAreRanked'
    BY <1>2 DEF Inv, vars, MatchesAreRanked, MatchRun, Outcome, Candidate
  <2>5. TwinsWereSeen'
    BY <1>2 DEF Inv, vars, TwinsWereSeen, Seen, FlaggedFor, Visible, Twin, Flagged, Current
  <2> QED
    BY <2>1, <2>2, <2>3, <2>4, <2>5 DEF Inv
<1> QED
  BY <1>1, <1>2

\* Decisions are what the engine makes of their texts, approvals and match runs
\* rest on decisions that no correction has outdated, and a decision is flagged
\* for the twins it could see.
THEOREM InvariantHolds == Spec => []Inv
<1>1. Init => Inv
  BY InvInit
<1>2. Inv /\ [Next]_vars => Inv'
  BY InvStep
<1> QED
  BY <1>1, <1>2, PTL DEF Spec

LEMMA OutcomeOfMatch ==
    ASSUME Inv, NEW i \in DOMAIN matches
    PROVE  /\ matches[i] \in MatchRun /\ matches[i].among \in Seq(Outcome)
           /\ Matchable(matches[i].among)
           /\ matches[i].ranked = Match(Bank[matches[i].txn], TargetsOf(matches[i].among))
<1>1. matches[i] \in MatchRun
  BY DEF Inv, MatchesAreRanked
<1>2. matches[i].among \in Seq(Outcome)
  BY <1>1 DEF MatchRun
<1>3. approved \in Seq(Outcome) /\ Matchable(approved)
  BY ApprovedAreMatchable DEF Inv, ApprovalsAreCurrent
<1>4. IsPrefixOf(matches[i].among, approved)
  BY DEF Inv, MatchesAreRanked
<1> QED
  BY <1>1, <1>2, <1>3, <1>4, PrefixIsMatchable DEF Inv, MatchesAreRanked

LEMMA InvTypeOK == ASSUME Inv PROVE TypeOK
<1>0. Stamps \subseteq 1 .. clock
  BY DEF Inv, RunsAreDecisions, IsRun, Stamps
<1>1. ASSUME NEW r \in runs
      PROVE  /\ r.extraction \in ExtractionRun /\ r.at \in 1 .. clock /\ r.saw \subseteq 1 .. clock
             /\ r.findings \subseteq Code
             /\ r.journal # NoJournal => r.journal.debits \in 1 .. MaxMoney
  <2>1. IsRun(r)
    BY DEF Inv, RunsAreDecisions
  <2>2. PICK twin \in BOOLEAN : r.findings = Findings(r.texts, Extracted[r.extraction].low, twin)
    BY <2>1 DEF IsRun
  <2>3. r.findings \subseteq Code
    BY <2>2, FindingsAreCodes
  <2>4. r.journal # NoJournal => r.journal.debits \in 1 .. MaxMoney
    BY <2>1, JournalOfTexts DEF IsRun
  <2> QED
    BY <1>0, <2>1, <2>3, <2>4 DEF IsRun
<1>4. ASSUME NEW r \in open
      PROVE  /\ r.extraction \in ExtractionRun /\ r.at \in 1 .. clock /\ r.saw \subseteq 1 .. clock
             /\ r.todo \subseteq r.saw
  BY <1>0 DEF Inv, RunsAreDecisions, IsOpen
<1>2. \A i \in DOMAIN approved : approved[i].run \in runs
  <2>1. \A i \in DOMAIN approved : approved[i] \in Outcome
    BY DEF Inv, ApprovalsAreCurrent
  <2> QED
    BY <2>1 DEF Outcome
<1>3. ASSUME NEW m \in ToSet(matches), NEW c \in ToSet(m.ranked) PROVE c.score \in 0 .. 100
  <2>1. PICK i \in DOMAIN matches : m = matches[i]
    BY DEF ToSet
  <2>2. m.ranked \in Seq(Candidate)
    BY <2>1, OutcomeOfMatch DEF MatchRun
  <2>3. c \in Candidate
    BY <2>2 DEF ToSet
  <2> QED
    BY <2>3 DEF Candidate
<1> QED
  BY <1>1, <1>2, <1>3, <1>4 DEF TypeOK

\* Whatever is extracted and corrected, a journal that the engine proposes moves
\* a positive amount within the column's range; scores stay between 0 and 100.
THEOREM TypeCorrect == Spec => []TypeOK
BY InvariantHolds, InvTypeOK, PTL

LEMMA InvApprovalsAgree == ASSUME Inv PROVE RepeatedApprovalsAgree
<1> SUFFICES ASSUME NEW i \in DOMAIN approved, NEW j \in DOMAIN approved,
                    approved[i].run.extraction = approved[j].run.extraction
             PROVE  /\ approved[i].run.texts = approved[j].run.texts
                    /\ approved[i].run.journal = approved[j].run.journal
  BY DEF RepeatedApprovalsAgree
<1>1. approved[i].run.texts = approved[j].run.texts
  BY ApprovedAreMatchable DEF Inv
<1>2. /\ approved[i].run.journal = ProposedJournal(approved[i].run.texts)
      /\ approved[j].run.journal = ProposedJournal(approved[j].run.texts)
  BY ApprovedAreMatchable DEF Inv, Matchable, Eligible
<1> QED
  BY <1>1, <1>2

\* However often an extraction run is decided and approved, and whenever it is corrected
\* in between, its approved decisions propose one journal from one set of values: approve
\* refuses an outdated decision and correct_field an approved run.  Of two runs of one
\* document nothing is claimed.
THEOREM ApprovalsAgree == Spec => []RepeatedApprovalsAgree
BY InvariantHolds, InvApprovalsAgree, PTL

LEMMA InvCandidates == ASSUME Inv PROVE CandidatesAreThePayments
<1> SUFFICES ASSUME NEW m \in ToSet(matches)
             PROVE  {c.id : c \in ToSet(m.ranked)}
                      = {o.id : o \in {p \in ToSet(m.among) : Pays(Bank[m.txn], p)}}
  BY DEF CandidatesAreThePayments
<1>1. PICK i \in DOMAIN matches : m = matches[i]
  BY DEF ToSet
<1> DEFINE t == Bank[m.txn]
           s == m.ranked
           a == m.among
<1>2. Matchable(a) /\ s = Match(t, TargetsOf(a))
  BY <1>1, OutcomeOfMatch
<1> HIDE DEF t, s, a
<1>3. /\ \A k \in DOMAIN s : \E n \in DOMAIN a : Pays(t, a[n]) /\ s[k] = Scored(t, a[n])
      /\ \A n \in DOMAIN a : Pays(t, a[n]) => \E k \in DOMAIN s : s[k] = Scored(t, a[n])
  BY <1>2, MatchOfOutcomes
<1>4. \A n \in DOMAIN a : Scored(t, a[n]).id = a[n].id
  BY DEF Scored
<1>5. ASSUME NEW c \in ToSet(s)
      PROVE  \E o \in {p \in ToSet(a) : Pays(t, p)} : c.id = o.id
  <2>1. PICK k \in DOMAIN s : c = s[k]
    BY DEF ToSet
  <2>2. PICK n \in DOMAIN a : Pays(t, a[n]) /\ s[k] = Scored(t, a[n])
    BY <1>3
  <2>3. a[n] \in ToSet(a)
    BY DEF ToSet
  <2> QED
    BY <2>1, <2>2, <2>3, <1>4
<1>6. ASSUME NEW o \in ToSet(a), Pays(t, o)
      PROVE  \E c \in ToSet(s) : o.id = c.id
  <2>1. PICK n \in DOMAIN a : o = a[n]
    BY DEF ToSet
  <2>2. PICK k \in DOMAIN s : s[k] = Scored(t, a[n])
    BY <1>3, <1>6, <2>1
  <2>3. s[k] \in ToSet(s)
    BY DEF ToSet
  <2> QED
    BY <2>1, <2>2, <2>3, <1>4
<1>7. {c.id : c \in ToSet(s)} = {o.id : o \in {p \in ToSet(a) : Pays(t, p)}}
  BY <1>5, <1>6
<1> QED
  BY <1>7 DEF t, s, a

\* A match run offers exactly the approvals whose journal and date the bank
\* transaction fits: the minimum score of 60 never removes one, and neither a
\* correction nor a new decision changes what an approval is matched by.
THEOREM CandidatesCorrect == Spec => []CandidatesAreThePayments
BY InvariantHolds, InvCandidates, PTL

LEMMA InvRankedByEvidence == ASSUME Inv PROVE RankedByEvidence
<1> SUFFICES ASSUME NEW m \in ToSet(matches)
             PROVE  LET t == Bank[m.txn]
                        Of(k) == CHOOSE o \in ToSet(m.among) : o.id = m.ranked[k].id
                    IN  \A k, l \in DOMAIN m.ranked :
                          (/\ SameReference(t, Of(k)) /\ ~SameReference(t, Of(l))
                           /\ SameDay(t, Of(l)) => SameDay(t, Of(k))
                           /\ SameName(t, Of(l)) => SameName(t, Of(k))) => k < l
  BY DEF RankedByEvidence
<1>1. PICK i \in DOMAIN matches : m = matches[i]
  BY DEF ToSet
<1> DEFINE t == Bank[m.txn]
           s == m.ranked
           a == m.among
           Of(k) == CHOOSE o \in ToSet(a) : o.id = s[k].id
<1>2. Matchable(a) /\ s = Match(t, TargetsOf(a))
  BY <1>1, OutcomeOfMatch
<1> HIDE DEF t, s, a
<1>3. /\ \A k \in DOMAIN s : \E n \in DOMAIN a : Pays(t, a[n]) /\ s[k] = Scored(t, a[n])
      /\ \A k, l \in DOMAIN s : k < l <=> Before(s[k], s[l])
  BY <1>2, MatchOfOutcomes
<1>4. ASSUME NEW k \in DOMAIN s
      PROVE  Eligible(Of(k).run) /\ Pays(t, Of(k)) /\ s[k] = Scored(t, Of(k))
  <2>1. PICK n \in DOMAIN a : Pays(t, a[n]) /\ s[k] = Scored(t, a[n])
    BY <1>3
  <2>2. s[k].id = a[n].id
    BY <2>1 DEF Scored
  <2>3. \A o \in ToSet(a) : o.id = a[n].id => o = a[n]
    BY <1>2 DEF ToSet, Matchable
  <2>4. a[n] \in ToSet(a)
    BY DEF ToSet
  <2>5. Of(k) \in ToSet(a) /\ Of(k).id = s[k].id
    BY <2>2, <2>4
  <2>6. Of(k) = a[n]
    <3> HIDE DEF Of
    <3> QED
      BY <2>2, <2>3, <2>5
  <2>7. Eligible(a[n].run)
    BY <1>2 DEF Matchable
  <2> HIDE DEF Of
  <2> QED
    BY <2>1, <2>6, <2>7
<1> HIDE DEF Of
<1>5. ASSUME NEW k \in DOMAIN s, NEW l \in DOMAIN s,
             SameReference(t, Of(k)), ~SameReference(t, Of(l)),
             SameDay(t, Of(l)) => SameDay(t, Of(k)),
             SameName(t, Of(l)) => SameName(t, Of(k))
      PROVE  k < l
  <2> DEFINE dk == IF SameDay(t, Of(k)) THEN 20 ELSE 8
             dl == IF SameDay(t, Of(l)) THEN 20 ELSE 8
             nk == IF SameName(t, Of(k)) THEN 10 ELSE 0
             nl == IF SameName(t, Of(l)) THEN 10 ELSE 0
             sk == Score(t, Target(Of(k).run.journal, Of(k).run.texts))
             sl == Score(t, Target(Of(l).run.journal, Of(l).run.texts))
  <2>1. PICK rk \in {0, 8, 15} : sk = 55 + dk + rk + nk /\ (rk = 15 <=> SameReference(t, Of(k)))
    BY <1>4, ScoreOfApproved
  <2>2. PICK rl \in {0, 8, 15} : sl = 55 + dl + rl + nl /\ (rl = 15 <=> SameReference(t, Of(l)))
    BY <1>4, ScoreOfApproved
  <2>3. dk \in {8, 20} /\ dl \in {8, 20} /\ dl <= dk /\ nk \in {0, 10} /\ nl \in {0, 10} /\ nl <= nk
    BY <1>5
  <2>4. rk = 15 /\ rl \in {0, 8}
    BY <1>5, <2>1, <2>2
  <2>5. s[k].score = sk /\ s[l].score = sl
    BY <1>4 DEF Scored
  <2> HIDE DEF dk, dl, nk, nl, sk, sl
  <2>6. sk > sl
    BY <2>1, <2>2, <2>3, <2>4
  <2>7. Before(s[k], s[l])
    BY <2>5, <2>6 DEF Before
  <2> QED
    BY <2>7, <1>3
<1> QED
  BY <1>5 DEF Of, t, s, a

\* An outcome whose reference is the transaction's, and that fits no worse in date
\* and name, is offered before one with another reference: the score of 100 cuts
\* nothing off, and a contained reference never outweighs an equal one.
THEOREM RankingByEvidence == Spec => []RankedByEvidence
BY InvariantHolds, InvRankedByEvidence, PTL

LEMMA InvRankingIsStable == ASSUME Inv PROVE RankingIsStable
<1> SUFFICES ASSUME NEW i \in DOMAIN matches, NEW j \in DOMAIN matches, i < j,
                    matches[i].txn = matches[j].txn
             PROVE  LET old == matches[i].ranked
                        new == matches[j].ranked
                    IN  \E place \in [DOMAIN old -> DOMAIN new] :
                           /\ \A k \in DOMAIN old : new[place[k]] = old[k]
                           /\ \A k, l \in DOMAIN old : k < l => place[k] < place[l]
                           /\ \A n \in DOMAIN new :
                                new[n] \in ToSet(old) => \E k \in DOMAIN old : n = place[k]
  BY DEF RankingIsStable
<1> DEFINE t == Bank[matches[i].txn]
           old == matches[i].ranked
           new == matches[j].ranked
           a == matches[i].among
           b == matches[j].among
<1>1. /\ a \in Seq(Outcome) /\ Matchable(a) /\ old = Match(t, TargetsOf(a))
      /\ b \in Seq(Outcome) /\ Matchable(b) /\ new = Match(t, TargetsOf(b))
  BY OutcomeOfMatch
<1>2. IsPrefixOf(a, b)
  BY DEF Inv, MatchesAreRanked
<1> HIDE DEF t, old, new, a, b
<1>3. \A n \in DOMAIN a : n \in DOMAIN b /\ b[n] = a[n]
  <2>1. /\ Len(a) \in Nat /\ Len(b) \in Nat /\ DOMAIN a = 1 .. Len(a) /\ DOMAIN b = 1 .. Len(b)
    BY <1>1
  <2> QED
    BY <2>1, <1>2 DEF IsPrefixOf
<1>4. /\ \A k \in DOMAIN old : \E n \in DOMAIN a : Pays(t, a[n]) /\ old[k] = Scored(t, a[n])
      /\ \A k, l \in DOMAIN old : k < l <=> Before(old[k], old[l])
  BY <1>1, MatchOfOutcomes
<1>5. /\ \E n \in Nat : DOMAIN new = 1 .. n
      /\ \A n \in DOMAIN b : Pays(t, b[n]) => \E k \in DOMAIN new : new[k] = Scored(t, b[n])
      /\ \A k \in DOMAIN new : \E n \in DOMAIN b : Pays(t, b[n]) /\ new[k] = Scored(t, b[n])
      /\ \A k, l \in DOMAIN new : k < l <=> Before(new[k], new[l])
  BY <1>1, MatchOfOutcomes
<1>6. ASSUME NEW k \in DOMAIN new, NEW l \in DOMAIN new, new[k] = new[l] PROVE k = l
  <2>1. k \in Int /\ l \in Int
    BY <1>5
  <2>2. ~(k < l) /\ ~(l < k)
    BY <1>5, <1>6, <2>1
  <2> QED
    BY <2>1, <2>2
<1>7. ASSUME NEW k \in DOMAIN old PROVE \E n \in DOMAIN new : new[n] = old[k]
  <2>1. PICK n \in DOMAIN a : Pays(t, a[n]) /\ old[k] = Scored(t, a[n])
    BY <1>4
  <2> QED
    BY <2>1, <1>3, <1>5
<1> DEFINE place == [k \in DOMAIN old |-> CHOOSE n \in DOMAIN new : new[n] = old[k]]
<1>8. place \in [DOMAIN old -> DOMAIN new] /\ \A k \in DOMAIN old : new[place[k]] = old[k]
  BY <1>7
<1> HIDE DEF place
<1>9. \A k, l \in DOMAIN old : k < l => place[k] < place[l]
  BY <1>4, <1>5, <1>8
<1>10. ASSUME NEW n \in DOMAIN new, new[n] \in ToSet(old)
       PROVE  \E k \in DOMAIN old : n = place[k]
  <2>1. PICK k \in DOMAIN old : new[n] = old[k]
    BY <1>10 DEF ToSet
  <2>2. place[k] \in DOMAIN new /\ new[place[k]] = new[n]
    BY <2>1, <1>8
  <2> QED
    BY <2>2, <1>6
<1>11. \E p \in [DOMAIN old -> DOMAIN new] :
           /\ \A k \in DOMAIN old : new[p[k]] = old[k]
           /\ \A k, l \in DOMAIN old : k < l => p[k] < p[l]
           /\ \A n \in DOMAIN new : new[n] \in ToSet(old) => \E k \in DOMAIN old : n = p[k]
  BY <1>8, <1>9, <1>10
<1> QED
  BY <1>11 DEF old, new

\* Matching a transaction again keeps the earlier ranking and only inserts the
\* approvals made since: no candidate is lost, rescored or moved past another.
THEOREM RankingStable == Spec => []RankingIsStable
BY InvariantHolds, InvRankingIsStable, PTL

LEMMA SignalsSymmetric ==
    ASSUME NEW e, NEW f
    PROVE  Signals(e, f) = Signals(f, e)
BY DEF Signals

\* All but one of five signals are the four that make a duplicate.
LEMMA FourSignals ==
    ASSUME NEW S, S \subseteq {"supplier", "number", "date", "currency", "total"},
           Cardinality({"supplier", "number", "date", "currency", "total"} \ S) <= 1
    PROVE  Cardinality(S) >= 4
<1> DEFINE F == {"supplier", "number", "date", "currency", "total"}
           F4 == {"supplier", "number", "date", "currency"}
           F3 == {"supplier", "number", "date"}
           F2 == {"supplier", "number"}
           F1 == {"supplier"}
<1>1. IsFiniteSet(F1) /\ Cardinality(F1) = 1
  BY FS_Singleton
<1>2. IsFiniteSet(F2) /\ Cardinality(F2) = 2
  <2>1. F2 = F1 \cup {"number"} /\ "number" \notin F1
    OBVIOUS
  <2> HIDE DEF F1, F2
  <2> QED
    BY <1>1, <2>1, FS_AddElement
<1>3. IsFiniteSet(F3) /\ Cardinality(F3) = 3
  <2>1. F3 = F2 \cup {"date"} /\ "date" \notin F2
    OBVIOUS
  <2> HIDE DEF F2, F3
  <2> QED
    BY <1>2, <2>1, FS_AddElement
<1>4. IsFiniteSet(F4) /\ Cardinality(F4) = 4
  <2>1. F4 = F3 \cup {"currency"} /\ "currency" \notin F3
    OBVIOUS
  <2> HIDE DEF F3, F4
  <2> QED
    BY <1>3, <2>1, FS_AddElement
<1>5. IsFiniteSet(F) /\ Cardinality(F) = 5
  <2>1. F = F4 \cup {"total"} /\ "total" \notin F4
    OBVIOUS
  <2> HIDE DEF F4, F
  <2> QED
    BY <1>4, <2>1, FS_AddElement
<1>6. S \subseteq F /\ Cardinality(F \ S) <= 1
  OBVIOUS
<1> HIDE DEF F
<1>7. F \cap S = S
  BY <1>6
<1>8. IsFiniteSet(S)
  BY <1>5, <1>6, FS_Subset
<1>9. Cardinality(S) \in Nat
  BY <1>8, FS_CardinalityType
<1>10. Cardinality(F \ S) = Cardinality(F) - Cardinality(S)
  BY <1>5, <1>7, FS_Difference
<1> QED
  BY <1>5, <1>6, <1>9, <1>10

\* Of two decisions that look alike, one that saw the other is flagged.
LEMMA SeenIsFlagged ==
    ASSUME Inv, NEW r \in runs, NEW q \in runs, Current(r), LookAlike(r, q), r.at \in q.saw,
           ~CrowdedOut(r, q)
    PROVE  Flagged(q)
<1>1. DocumentOf[r.extraction] # DocumentOf[q.extraction] /\ Supported(q.texts)
  BY DEF LookAlike
<1>2. Duplicate(Hash[DocumentOf[q.extraction]], q.texts, Hash[DocumentOf[r.extraction]], r.texts)
  <2>1. CASE Hash[DocumentOf[r.extraction]] = Hash[DocumentOf[q.extraction]]
    BY <2>1 DEF Duplicate
  <2>2. CASE Cardinality({"supplier", "number", "date", "currency", "total"}
                          \ Signals(r.texts, q.texts)) <= 1
    <3>1. Signals(r.texts, q.texts) \subseteq {"supplier", "number", "date", "currency", "total"}
      BY DEF Signals
    <3>2. Cardinality(Signals(r.texts, q.texts)) >= 4
      BY <2>2, <3>1, FourSignals
    <3>3. Cardinality(Signals(q.texts, r.texts)) >= 4
      BY <3>2, SignalsSymmetric
    <3> QED
      BY <3>3 DEF Duplicate
  <2> QED
    BY <2>1, <2>2 DEF LookAlike
<1>3. Visible(q, r)
  <2> DEFINE A == {a \in q.saw : a > r.at}
  <2>1. ~(Cardinality(A) >= PriorLimit)
    BY DEF CrowdedOut
  <2>2. IsFiniteSet(1 .. clock) /\ A \subseteq 1 .. clock
    <3>1. clock \in Nat /\ q.saw \subseteq 1 .. clock
      BY DEF Inv, RunsAreDecisions, IsRun, Stamps
    <3> QED
      BY <3>1, FS_Interval
  <2> HIDE DEF A
  <2>3. Cardinality(A) \in Nat
    BY <2>2, FS_Subset, FS_CardinalityType
  <2>4. Cardinality(A) < PriorLimit
    BY <2>1, <2>3, BoundsAssumption
  <2> QED
    BY <2>4 DEF Visible, A
<1>4. Twin(q, r)
  BY <1>1, <1>2 DEF Twin
<1>5. FlaggedFor(q, r)
  BY DEF Inv, TwinsWereSeen
<1> QED
  BY <1>1, <1>3, <1>4, <1>5 DEF FlaggedFor

LEMMA InvTwins == ASSUME Inv PROVE TwinsAreFlagged
<1> SUFFICES ASSUME NEW i \in DOMAIN approved, NEW j \in DOMAIN approved,
                    LookAlike(approved[i].run, approved[j].run),
                    ~Overlapped(approved[i].run, approved[j].run),
                    ~CrowdedOut(approved[i].run, approved[j].run),
                    ~CrowdedOut(approved[j].run, approved[i].run)
             PROVE  Flagged(approved[i].run) \/ Flagged(approved[j].run)
  BY DEF TwinsAreFlagged
<1> DEFINE r == approved[i].run
           q == approved[j].run
<1>1. approved[i] \in Outcome /\ approved[j] \in Outcome
  BY DEF Inv, ApprovalsAreCurrent
<1>2. r \in runs /\ q \in runs /\ Current(r) /\ Current(q)
  BY <1>1 DEF Outcome, Inv, ApprovalsAreCurrent
<1>3. /\ LookAlike(r, q) /\ ~Overlapped(r, q) /\ ~CrowdedOut(r, q) /\ ~CrowdedOut(q, r)
  OBVIOUS
<1> HIDE DEF r, q
<1>4. r.at \in q.saw \/ q.at \in r.saw
  BY <1>3 DEF Overlapped
<1>5. LookAlike(q, r)
  <2>1. Signals(r.texts, q.texts) = Signals(q.texts, r.texts)
    BY SignalsSymmetric
  <2> QED
    BY <1>3, <2>1 DEF LookAlike
<1>6. CASE r.at \in q.saw
  BY <1>2, <1>3, <1>6, SeenIsFlagged DEF q
<1>7. CASE q.at \in r.saw
  BY <1>2, <1>3, <1>5, <1>7, SeenIsFlagged DEF r
<1> QED
  BY <1>4, <1>6, <1>7 DEF r, q

\* Of two approved decisions on documents that look alike one is flagged, unless neither
\* was committed when the other listed the prior runs, or at least as many runs as the
\* limit were stamped later: the values of a prior run are read one by one after the
\* list, and those of an approval are by then what they will be when it is approved.
THEOREM TwinsCorrect == Spec => []TwinsAreFlagged
BY InvariantHolds, InvTwins, PTL

=============================================================================
