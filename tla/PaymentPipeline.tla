-------------------------- MODULE PaymentPipeline --------------------------
(***************************************************************************)
(* From extracted values to ranked bank payments, for one client: fields   *)
(* are corrected, the engine decides, decisions are approved, and bank     *)
(* transactions are matched with what was approved.                        *)
(*                                                                         *)
(* This composes AccountingEngine and Matching.  The transactions of       *)
(* corrections and approvals are single steps here (HumanReview has their  *)
(* locks).  A decision takes several, because it reads the decisions of    *)
(* other documents without a lock: it is stamped and reads its own values, *)
(* lists the prior runs, reads the values of each, and commits.            *)
(***************************************************************************)
EXTENDS Matching

CONSTANTS
    ExtractionRun,   \* succeeded extraction runs; a document may have several
    DocumentOf,      \* the document each run extracts
    Hash,            \* source_sha256 of each document's file
    Extracted,       \* what each run extracted
    Corrections,     \* the corrections users may make of each run: [path, value]
    Txn,             \* imported bank transactions
    Bank,            \* what the bank says of each transaction
    PriorLimit,      \* the limit of list_succeeded_runs_for_client
    MaxDecisions,    \* bound on decision runs
    MaxApprovals,    \* bound on approved outcomes
    MaxCorrections,  \* bound on corrections of one extraction run
    MaxClock,        \* bound on decision runs and corrections together
    MaxMatchRuns     \* bound on match runs

ASSUME DocumentAssumption ==
    /\ DOMAIN DocumentOf = ExtractionRun
    /\ \A e \in ExtractionRun : DocumentOf[e] \in DOMAIN Hash
ASSUME ExtractedAssumption ==
    \A e \in ExtractionRun : /\ Extracted[e].fields \in [Path -> Value]
                             /\ Extracted[e].low \subseteq Path
ASSUME CorrectionsAssumption == \A e \in ExtractionRun : \A c \in Corrections[e] :
                                  c.path \in Path /\ c.value \in Value
ASSUME BankAssumption == \A t \in Txn : Bank[t] \in Transaction
ASSUME BoundsAssumption ==
    {PriorLimit, MaxDecisions, MaxApprovals, MaxCorrections, MaxClock,
     MaxMatchRuns} \subseteq Nat

VARIABLES
    clock,        \* the last stamp given
    corrections,  \* corrections of each extraction run, in the order of their revisions
    open,         \* decision runs that are not committed yet
    runs,         \* succeeded decision runs
    approved,     \* approved review outcomes in the order of their creation
    matches       \* match runs, in the order of their creation

vars == <<clock, corrections, open, runs, approved, matches>>

Init ==
    /\ clock = 0
    /\ corrections = [e \in ExtractionRun |-> <<>>]
    /\ open = {}
    /\ runs = {}
    /\ approved = <<>>
    /\ matches = <<>>

ApprovedExtractions == {approved[i].run.extraction : i \in DOMAIN approved}

Texts(e) == EffectiveTexts(Extracted[e].fields, corrections[e])

-----------------------------------------------------------------------------
\* Mutant: approved evidence can still be corrected.
CorrectApproved(e, c) ==
    /\ clock < MaxClock
    /\ Len(corrections[e]) < MaxCorrections
    /\ \A r \in open : r.extraction # e
    /\ clock' = clock + 1
    /\ corrections' = [corrections EXCEPT ![e] =
                         Append(@, [path |-> c.path, value |-> c.value, at |-> clock + 1])]
    /\ UNCHANGED <<open, runs, approved, matches>>

\* ExtractionService.correct_field: waits for an open decision on the run, and is
\* refused once the run backs an approved record.
Correct(e, c) ==
    /\ clock < MaxClock
    /\ Len(corrections[e]) < MaxCorrections
    /\ \A r \in open : r.extraction # e
    /\ e \notin ApprovedExtractions
    /\ clock' = clock + 1
    /\ corrections' = [corrections EXCEPT ![e] =
                         Append(@, [path |-> c.path, value |-> c.value, at |-> clock + 1])]
    /\ UNCHANGED <<open, runs, approved, matches>>

\* start_decision_run flushes the run: it is stamped, and until it commits the values of
\* its extraction run, which it reads next, cannot change.
StartDecision(e) ==
    /\ clock < MaxClock
    /\ Cardinality(runs \cup open) < MaxDecisions
    /\ clock' = clock + 1
    /\ open' = open \cup {[extraction |-> e, at |-> clock + 1, texts |-> Texts(e),
                           listed |-> FALSE, saw |-> {}, todo |-> {}, twin |-> FALSE]}
    /\ UNCHANGED <<corrections, runs, approved, matches>>

\* list_succeeded_runs_for_client: the latest ones, up to the limit.
PriorRuns == {r \in runs : Cardinality({q \in runs : q.at > r.at}) < PriorLimit}

Continue(r, s) ==
    /\ r \in open
    /\ open' = (open \ {r}) \cup {s}
    /\ UNCHANGED <<clock, corrections, runs, approved, matches>>

\* _prior_decision_snapshots lists the prior runs, by their stamps here; saw is auxiliary:
\* all the runs there were at that moment.
ListPriorRuns(r) ==
    /\ ~r.listed
    /\ Continue(r, [r EXCEPT !.listed = TRUE, !.saw = {x.at : x \in runs},
                            !.todo = {x.at : x \in PriorRuns}])

\* A prior decision is of another document and looks like this one.
LooksLike(r, x) ==
    LET d == DocumentOf[r.extraction]
        p == DocumentOf[x.extraction]
    IN  p # d /\ Duplicate(Hash[d], r.texts, Hash[p], Texts(x.extraction))

\* _prior_decision_snapshots reads the values of the latest run left, which are those its
\* extraction run has by now; _duplicate_candidates compares them.
ReadPriorRun(r, x) ==
    /\ x \in runs /\ x.at \in r.todo /\ \A a \in r.todo : a <= x.at
    /\ Continue(r, [r EXCEPT !.todo = @ \ {x.at}, !.twin = @ \/ LooksLike(r, x)])

\* A decision that has succeeded.
Decided(r) ==
    [extraction |-> r.extraction, at |-> r.at, texts |-> r.texts, saw |-> r.saw,
     findings |-> Findings(r.texts, Extracted[r.extraction].low, r.twin),
     journal |-> ProposedJournal(r.texts)]

CommitDecision(r) ==
    /\ r \in open /\ r.listed /\ r.todo = {}
    /\ open' = open \ {r}
    /\ runs' = runs \cup {Decided(r)}
    /\ UNCHANGED <<clock, corrections, approved, matches>>

\* _fail_run, or a commit that fails: nothing that a later decision would read.
AbandonDecision(r) ==
    /\ r \in open
    /\ open' = open \ {r}
    /\ UNCHANGED <<clock, corrections, runs, approved, matches>>

\* approve, by an owner with the authority the risk asks for; the outcome's
\* identifier is random, so its order says nothing about time.
Approve(r, id) ==
    /\ r \in runs
    /\ Len(approved) < MaxApprovals
    /\ \A q \in open : q.extraction # r.extraction
    /\ \A i \in DOMAIN approved : approved[i].run # r /\ approved[i].id # id
    /\ ClassifyReviewRisk(VerdictOf(r.findings, r.journal)) # "blocked"
    /\ \A i \in DOMAIN corrections[r.extraction] : corrections[r.extraction][i].at <= r.at
    /\ approved' = Append(approved, [id |-> id, run |-> r])
    /\ UNCHANGED <<clock, corrections, open, runs, matches>>

\* _approved_targets: the journal that was approved, with the values of now.
ApprovedTargets ==
    [i \in DOMAIN approved |->
        [id |-> approved[i].id,
         target |-> Target(approved[i].run.journal, Texts(approved[i].run.extraction))]]

\* generate_match_run.
GenerateMatchRun(t) ==
    /\ Len(matches) < MaxMatchRuns
    /\ matches' = Append(matches, [txn |-> t, ranked |-> Match(Bank[t], ApprovedTargets),
                                   among |-> approved])
    /\ UNCHANGED <<clock, corrections, open, runs, approved>>

Next ==
    \/ \E e \in ExtractionRun : \E c \in Corrections[e] : Correct(e, c)
    \/ \E e \in ExtractionRun : StartDecision(e)
    \/ \E r \in open : ListPriorRuns(r) \/ CommitDecision(r) \/ AbandonDecision(r)
    \/ \E r \in open, x \in runs : ReadPriorRun(r, x)
    \/ \E r \in runs, id \in 1 .. MaxApprovals : Approve(r, id)
    \/ \E t \in Txn : GenerateMatchRun(t)

Spec == Init /\ [][Next]_vars

-----------------------------------------------------------------------------
(* Properties. *)

Code == ErrorCodes \cup SeniorCodes \cup {"unsupported_document_type", "tax_review_required"}

\* Decision runs, approvals and rankings are well formed; a journal that is
\* proposed moves a positive amount that fits the database's column.
TypeOK ==
    /\ \A r \in runs \cup open :
          r.extraction \in ExtractionRun /\ r.at \in 1 .. clock /\ r.saw \subseteq 1 .. clock
    /\ \A r \in open : r.todo \subseteq r.saw
    /\ \A r \in runs :
          /\ r.findings \subseteq Code
          /\ r.journal # NoJournal => r.journal.debits \in 1 .. MaxMoney
    /\ \A i \in DOMAIN approved : approved[i].run \in runs
    /\ \A m \in ToSet(matches) : \A c \in ToSet(m.ranked) : c.score \in 0 .. 100

\* What was approved as o: the journal of its decision, with the texts the
\* decision was made from.
Pays(t, o) ==
    /\ t.direction = "debit"
    /\ t.amount = o.run.journal.debits
    /\ t.currency = o.run.journal.currency
    /\ Lexicon[o.run.texts.date].day # None
    /\ Distance(t.day, Lexicon[o.run.texts.date].day) <= 7

\* Every match run offers exactly the approvals that existed when it ran and
\* whose approved journal and date the transaction fits: no score hides one, and
\* no later change of values adds or moves one.
CandidatesAreThePayments ==
    \A m \in ToSet(matches) :
        {c.id : c \in ToSet(m.ranked)} = {o.id : o \in {p \in ToSet(m.among) : Pays(Bank[m.txn], p)}}

\* The evidence for o, from the texts that were approved: date, reference, name.
SameDay(t, o) == t.day = Lexicon[o.run.texts.date].day
SameReference(t, o) ==
    Key(t.reference) # <<>> /\ Key(t.reference) = Key(o.run.texts.number)
SameName(t, o) ==
    Key(t.counterparty) # <<>> /\ Key(t.counterparty) = Key(o.run.texts.supplier)

\* A candidate with no less evidence of any kind, and an equal reference where
\* the other has none, is ranked first.
RankedByEvidence ==
    \A m \in ToSet(matches) :
        LET t == Bank[m.txn]
            Of(k) == CHOOSE o \in ToSet(m.among) : o.id = m.ranked[k].id
        IN  \A k, l \in DOMAIN m.ranked :
              (/\ SameReference(t, Of(k)) /\ ~SameReference(t, Of(l))
               /\ SameDay(t, Of(l)) => SameDay(t, Of(k))
               /\ SameName(t, Of(l)) => SameName(t, Of(k))) => k < l

\* A later match run of a transaction keeps the ranking of an earlier one:
\* approvals in between only insert candidates.
RankingIsStable ==
    \A i, j \in DOMAIN matches :
        LET old == matches[i].ranked
            new == matches[j].ranked
        IN  i < j /\ matches[i].txn = matches[j].txn =>
              \E place \in [DOMAIN old -> DOMAIN new] :
                 /\ \A k \in DOMAIN old : new[place[k]] = old[k]
                 /\ \A k, l \in DOMAIN old : k < l => place[k] < place[l]
                 /\ \A n \in DOMAIN new : new[n] \in ToSet(old) => \E k \in DOMAIN old : n = place[k]

\* Each decision of an extraction run can be approved, and none of them forbids the
\* others: all that are approved propose the same journal from the same values,
\* however corrections, decisions and approvals are interleaved.  This is all the code
\* promises: two extraction runs of one document may be approved with journals that
\* contradict each other, since has_approved_outcome_for_extraction asks for one run and
\* the duplicate search leaves out the decision's own document.
RepeatedApprovalsAgree ==
    \A i, j \in DOMAIN approved :
        LET r == approved[i].run
            q == approved[j].run
        IN  r.extraction = q.extraction => r.texts = q.texts /\ r.journal = q.journal

\* Purchase invoices of two documents from one file, or that differ in at most one of
\* supplier, number, date, currency and total.
LookAlike(r, q) ==
    LET d == DocumentOf[r.extraction]
        p == DocumentOf[q.extraction]
    IN  /\ d # p
        /\ Supported(r.texts) /\ Supported(q.texts)
        /\ \/ Hash[d] = Hash[p]
           \/ Cardinality({"supplier", "number", "date", "currency", "total"}
                           \ Signals(r.texts, q.texts)) <= 1

Flagged(r) == "possible_duplicate" \in r.findings

\* Neither decision was committed when the other listed the prior runs.
Overlapped(r, q) == r.at \notin q.saw /\ q.at \notin r.saw

\* When q listed the prior runs, so many were stamped after r that r was not among them.
CrowdedOut(r, q) ==
    r.at \in q.saw /\ Cardinality({a \in q.saw : a > r.at}) >= PriorLimit

\* Of two approved decisions on documents that look alike, one was flagged as a possible
\* duplicate, unless neither was there when the other listed the prior runs or the limit
\* on prior runs hid one from the other.  Corrections do not matter, although a decision
\* compares values that are read long after the other was decided, and neither do
\* decisions that are stamped or committed while it lists and reads.
TwinsAreFlagged ==
    \A i, j \in DOMAIN approved :
        LET r == approved[i].run
            q == approved[j].run
        IN  LookAlike(r, q) =>
              Flagged(r) \/ Flagged(q) \/ Overlapped(r, q) \/ CrowdedOut(r, q) \/ CrowdedOut(q, r)

\* docs/REQUIREMENTS.md, FR-011: potential duplicates are identified before approval.
DuplicatesFlaggedBeforeApproval ==
    \A i, j \in DOMAIN approved :
        LET r == approved[i].run
            q == approved[j].run
        IN  LookAlike(r, q) => Flagged(r) \/ Flagged(q)
=============================================================================
