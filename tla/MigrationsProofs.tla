-------------------------- MODULE MigrationsProofs --------------------------
(***************************************************************************)
(* Proofs about Migrations for every set of review tasks and every risk    *)
(* class their decisions may have.                                         *)
(*                                                                         *)
(* All migrations create their tables and keys in one order and drop them  *)
(* in the opposite one, so the schema is always a beginning of that order, *)
(* also between two statements.  Of the rows, those that version 0005 or   *)
(* older can hold are ones its checks allow, and an outcome belongs to a   *)
(* resolved task.                                                          *)
(***************************************************************************)
EXTENDS Migrations, TLAPS

\* The place of each table and key in the order in which they are created.
Rank ==
    [firms |-> 1, users |-> 2, firm_memberships |-> 3, client_entities |-> 4,
     client_access |-> 5, audit_events |-> 6,
     uq_firm_memberships_id_user_firm_id |-> 7, documents |-> 8, document_files |-> 9,
     uq_document_files_id_document_scope |-> 10, extraction_runs |-> 11,
     extracted_fields |-> 12, extraction_field_corrections |-> 13,
     accounting_decision_runs |-> 14, accounting_decision_findings |-> 15,
     accounting_supplier_match_candidates |-> 16, accounting_recommendations |-> 17,
     proposed_journals |-> 18, accounting_duplicate_candidates |-> 19,
     proposed_journal_lines |-> 20, review_tasks |-> 21, review_comments |-> 22,
     review_outcomes |-> 23, uq_review_outcomes_id_scope |-> 24, bank_import_batches |-> 25,
     bank_transactions |-> 26, reconciliation_match_runs |-> 27,
     reconciliation_candidates |-> 28, reconciliation_reviews |-> 29,
     reconciliation_review_actions |-> 30, reconciliation_outcomes |-> 31]

\* How many of them each version has.
Count(v) ==
    CASE v = 0 -> 0 [] v = 1 -> 6 [] v = 2 -> 9 [] v = 3 -> 13 [] v = 4 -> 20
      [] v = 5 -> 21 [] v = 6 -> 23 [] v = 7 -> 28 [] v = 8 -> 31

First(n) == {o \in DOMAIN Rank : Rank[o] <= n}

\* How many there are in the middle of a migration; 0006 alters a table first, going up,
\* and last, going down.
Reached ==
    IF ~txn.running THEN Count(version)
    ELSE IF Up THEN Count(txn.at) + (txn.step - 1) - (IF txn.at = 5 /\ txn.step > 1 THEN 1 ELSE 0)
    ELSE Count(txn.at) - (txn.step - 1) + (IF txn.at = 6 /\ txn.step > 3 THEN 1 ELSE 0)

Version == 0 .. HeadVersion

TxnOK ==
    /\ version \in Version
    /\ txn.running \in BOOLEAN
    /\ txn.running =>
          /\ DOMAIN txn = {"running", "from", "to", "at", "step", "saved"}
          /\ txn.from \in Version /\ txn.to \in Version /\ txn.from # txn.to
          /\ txn.at = version /\ txn.step \in Nat \ {0}
          /\ IF Up THEN txn.at <= txn.to ELSE txn.at >= txn.to
          /\ IF txn.at = txn.to THEN txn.step = 1 ELSE txn.step <= Len(Current) + 1

\* A row of review_tasks: the checks of the code that wrote it.
RowOK(row) ==
    /\ row \in ReviewRow
    /\ row.status = "open" => row.escalation = "none"
    /\ row.status = "escalated" => row.escalation = "senior_review"

\* The rows of a database at version v.
RowsOK(v, tasks, done, old) ==
    /\ DOMAIN tasks = Task
    /\ \A t \in Task : tasks[t] # None =>
          RowOK(tasks[t]) /\ (v <= 5 => tasks[t].status \in {"open", "escalated"})
    /\ done \subseteq Task /\ (v <= 5 => done = {})
    /\ \A t \in done : tasks[t] # None /\ tasks[t].status \in {"approved", "rejected"}
    /\ old \subseteq Task
    /\ \A t \in old :
          tasks[t] # None /\ tasks[t].status # "approved" /\ tasks[t].risk \in {"blocked", None}

\* What a rollback would restore.
SavedOK ==
    LET s == txn.saved
    IN  /\ s[1] = txn.from
        /\ s[2] = First(Count(txn.from))
        /\ RowsOK(txn.from, s[3], s[4], s[5])

\* Going down through 0006, the outcomes are dropped first, and the tasks, unchanged
\* until then, are checked last.
Narrowing == txn.running /\ ~Up /\ txn.at = 6 /\ txn.at # txn.to
Unnarrowed == txn.running /\ ~Up /\ txn.at >= 6 /\ ~(txn.at = 6 /\ txn.step > 3)

NarrowingOK ==
    /\ Narrowing /\ txn.step > 1 => outcome = {}
    /\ Narrowing /\ txn.step > 3 => \A t \in Rows : FitsVersion5(task[t])
    /\ Unnarrowed => task = txn.saved[3]
    /\ txn.running /\ outcome # txn.saved[4] => Narrowing /\ txn.step \in {2, 3}

Invariant ==
    /\ TxnOK
    /\ schema = First(Reached)
    /\ RowsOK(version, task, outcome, legacy)
    /\ txn.running => SavedOK
    /\ NarrowingOK
    /\ OnlyReviewsBlockMigration

-----------------------------------------------------------------------------
(* The statements of the migrations. *)

LEMMA NeedsValue ==
    ASSUME NEW o
    PROVE  \A x \in Needs(o) : \E needs \in References : o \in DOMAIN needs /\ x \in needs[o]
  BY DEF Needs

\* Whatever a table or key refers to comes before it.
LEMMA NeedsComeFirst ==
    ASSUME NEW o \in DOMAIN Rank, NEW x \in Needs(o)
    PROVE  x \in DOMAIN Rank /\ Rank[x] < Rank[o]
<1>1. PICK needs \in References : o \in DOMAIN needs /\ x \in needs[o]
  BY NeedsValue
<1>2. CASE needs = Needs1
  BY <1>1, <1>2 DEF Needs1, Rank
<1>3. CASE needs = Needs2
  BY <1>1, <1>3 DEF Needs2, Rank
<1>4. CASE needs = Needs3
  BY <1>1, <1>4 DEF Needs3, Rank
<1>5. CASE needs = Needs4
  BY <1>1, <1>5 DEF Needs4, Rank
<1>6. CASE needs = Needs5
  BY <1>1, <1>6 DEF Needs5, Rank
<1>7. CASE needs = Needs6
  BY <1>1, <1>7 DEF Needs6, Rank
<1>8. CASE needs = Needs7
  BY <1>1, <1>8 DEF Needs7, Rank
<1>9. CASE needs = Needs8
  BY <1>1, <1>9 DEF Needs8, Rank
<1> QED
  BY <1>1, <1>2, <1>3, <1>4, <1>5, <1>6, <1>7, <1>8, <1>9 DEF References

LEMMA RankIsOrder ==
    /\ \A o \in DOMAIN Rank : Rank[o] \in 1 .. 31
    /\ \A o, x \in DOMAIN Rank : Rank[o] = Rank[x] => o = x
  BY DEF Rank

\* s creates the table or key that comes after the first n.
Creates(s, n) == s[1] = "create" /\ s[2] \in DOMAIN Rank /\ Rank[s[2]] = n + 1

\* s drops the last of the first n.
Drops(s, n) == s[1] = "drop" /\ s[2] \in DOMAIN Rank /\ Rank[s[2]] = n

\* 0006 has one statement more than it creates tables.
Alters(v) == IF v = 6 THEN 1 ELSE 0

LEMMA CountTyped == \A v \in Version : Count(v) \in 0 .. 31
  BY DEF Version, HeadVersion, Count

LEMMA UpStatements ==
    ASSUME NEW v \in 1 .. 8
    PROVE  /\ Len(Upgrade[v]) = Count(v) - Count(v - 1) + Alters(v)
           /\ \A i \in 1 .. Len(Upgrade[v]) :
                 IF v = 6 /\ i = 1 THEN Upgrade[v][i] = <<"widen", "review_tasks">>
                                  ELSE Creates(Upgrade[v][i], Count(v - 1) + i - 1 - Alters(v))
<1>1. CASE v = 1
  BY <1>1 DEF Upgrade, Upgrade1, Create, Creates, Rank, Count, Alters
<1>2. CASE v = 2
  BY <1>2 DEF Upgrade, Upgrade2, Create, Creates, Rank, Count, Alters
<1>3. CASE v = 3
  BY <1>3 DEF Upgrade, Upgrade3, Create, Creates, Rank, Count, Alters
<1>4. CASE v = 4
  BY <1>4 DEF Upgrade, Upgrade4, Create, Creates, Rank, Count, Alters
<1>5. CASE v = 5
  BY <1>5 DEF Upgrade, Upgrade5, Create, Creates, Rank, Count, Alters
<1>6. CASE v = 6
  BY <1>6 DEF Upgrade, Upgrade6, Create, Creates, Rank, Count, Alters
<1>7. CASE v = 7
  BY <1>7 DEF Upgrade, Upgrade7, Create, Creates, Rank, Count, Alters
<1>8. CASE v = 8
  BY <1>8 DEF Upgrade, Upgrade8, Create, Creates, Rank, Count, Alters
<1>9. v = 1 \/ v = 2 \/ v = 3 \/ v = 4 \/ v = 5 \/ v = 6 \/ v = 7 \/ v = 8
  OBVIOUS
<1> QED
  BY <1>1, <1>2, <1>3, <1>4, <1>5, <1>6, <1>7, <1>8, <1>9, Zenon

LEMMA DownStatements ==
    ASSUME NEW v \in 1 .. 8
    PROVE  /\ Len(Downgrade[v]) = Count(v) - Count(v - 1) + Alters(v)
           /\ \A i \in 1 .. Len(Downgrade[v]) :
                 IF v = 6 /\ i = 3 THEN Downgrade[v][i] = <<"narrow", "review_tasks">>
                                  ELSE Drops(Downgrade[v][i], Count(v) - i + 1)
           /\ \A i \in 1 .. Len(Downgrade[v]) :
                 /\ Downgrade[v][i] = <<"drop", "review_outcomes">> <=> v = 6 /\ i = 1
                 /\ Downgrade[v][i] = <<"drop", "review_tasks">> <=> v = 5 /\ i = 1
<1>1. CASE v = 1
  BY <1>1 DEF Downgrade, Downgrade1, Drop, Drops, Rank, Count, Alters
<1>2. CASE v = 2
  BY <1>2 DEF Downgrade, Downgrade2, Drop, Drops, Rank, Count, Alters
<1>3. CASE v = 3
  BY <1>3 DEF Downgrade, Downgrade3, Drop, Drops, Rank, Count, Alters
<1>4. CASE v = 4
  BY <1>4 DEF Downgrade, Downgrade4, Drop, Drops, Rank, Count, Alters
<1>5. CASE v = 5
  BY <1>5 DEF Downgrade, Downgrade5, Drop, Drops, Rank, Count, Alters
<1>6. CASE v = 6
  BY <1>6 DEF Downgrade, Downgrade6, Drop, Drops, Rank, Count, Alters
<1>7. CASE v = 7
  BY <1>7 DEF Downgrade, Downgrade7, Drop, Drops, Rank, Count, Alters
<1>8. CASE v = 8
  BY <1>8 DEF Downgrade, Downgrade8, Drop, Drops, Rank, Count, Alters
<1>9. v = 1 \/ v = 2 \/ v = 3 \/ v = 4 \/ v = 5 \/ v = 6 \/ v = 7 \/ v = 8
  OBVIOUS
<1> QED
  BY <1>1, <1>2, <1>3, <1>4, <1>5, <1>6, <1>7, <1>8, <1>9, Zenon

LEMMA FirstGrows ==
    ASSUME NEW n \in 0 .. 31, NEW s, Creates(s, n)
    PROVE  First(n) \cup {s[2]} = First(n + 1) /\ s[2] \notin First(n)
  BY RankIsOrder DEF First, Creates

LEMMA FirstShrinks ==
    ASSUME NEW n \in 0 .. 31, NEW s, Drops(s, n)
    PROVE  First(n) \ {s[2]} = First(n - 1) /\ s[2] \in First(n)
  BY RankIsOrder DEF First, Drops

\* A table or key that comes next finds what it refers to.
LEMMA CreateAllowed ==
    ASSUME NEW n \in 0 .. 31, NEW s, Creates(s, n), schema = First(n)
    PROVE  Allowed(s)
<1>1. s[2] \notin schema
  BY FirstGrows
<1>2. \A x \in Needs(s[2]) : x \in First(n)
  BY NeedsComeFirst, RankIsOrder DEF First, Creates
<1> QED
  BY <1>1, <1>2 DEF Allowed, Creates

\* Nothing refers to the last table or key.
LEMMA DropAllowed ==
    ASSUME NEW n \in 0 .. 31, NEW s, Drops(s, n), schema = First(n)
    PROVE  Allowed(s)
<1>1. s[2] \in schema
  BY FirstShrinks
<1>2. ASSUME NEW o \in First(n), s[2] \in Needs(o)
      PROVE  FALSE
  <2>1. o \in DOMAIN Rank /\ Rank[o] <= n
    BY DEF First
  <2>2. Rank[s[2]] < Rank[o]
    BY <1>2, <2>1, NeedsComeFirst
  <2> QED
    BY <2>1, <2>2, RankIsOrder DEF Drops
<1> QED
  BY <1>1, <1>2 DEF Allowed, Drops

\* The rows of 0005 pass the checks of 0006 once they have the default risk class.
LEMMA WidenAllowed ==
    ASSUME RowsOK(version, task, outcome, legacy), version = 5
    PROVE  Allowed(<<"widen", "review_tasks">>)
<1>1. ASSUME NEW t \in Rows
      PROVE  FitsVersion6(Widened[t])
  <2>1. /\ t \in Task /\ task[t] # None /\ RowOK(task[t])
        /\ task[t].status \in {"open", "escalated"}
    BY DEF Rows, RowsOK
  <2>2. Widened[t] = [task[t] EXCEPT !.risk = "blocked"]
    BY <2>1 DEF Widened, DefaultRisk
  <2> QED
    BY <2>1, <2>2 DEF RowOK, ReviewRow, FitsVersion6, FitsVersion5, RiskClass
<1> QED
  BY <1>1 DEF Allowed

\* A row that does not pass the checks of 0005 is in a state that 0005 did not know.
LEMMA NarrowRefused ==
    ASSUME RowsOK(version, task, outcome, legacy), ~Allowed(<<"narrow", "review_tasks">>)
    PROVE  {t \in Rows : task[t].status \notin {"open", "escalated"}} # {}
<1>1. PICK t \in Rows : ~FitsVersion5(task[t])
  BY DEF Allowed, NarrowAllowed
<1>2. RowOK(task[t])
  BY DEF Rows, RowsOK
<1> QED
  BY <1>1, <1>2 DEF RowOK, FitsVersion5

LEMMA CurrentUp ==
    ASSUME TxnOK, txn.running, txn.at # txn.to, Up
    PROVE  /\ txn.at \in 0 .. 7 /\ Reached \in 0 .. 31 /\ Len(Current) \in Nat
           /\ txn.step <= Len(Current) =>
                 IF txn.at = 5 /\ txn.step = 1
                 THEN Current[txn.step] = <<"widen", "review_tasks">>
                 ELSE Creates(Current[txn.step], Reached)
           /\ txn.step > Len(Current) => Reached = Count(txn.at + 1)
<1> DEFINE at == txn.at
           step == txn.step
           c == Count(at)
           d == Count(at + 1)
           l == Len(Current)
           r == Reached
<1>1. /\ at \in 0 .. 7 /\ at + 1 \in 1 .. 8 /\ at \in Version /\ at + 1 \in Version
      /\ step \in Nat \ {0} /\ step <= l + 1
      /\ Current = Upgrade[at + 1]
      /\ at = (at + 1) - 1
  BY DEF TxnOK, Version, HeadVersion, Up, Current
<1>2. c \in 0 .. 31 /\ d \in 0 .. 31
  BY <1>1, CountTyped
<1>3. l = d - c + Alters(at + 1)
  BY <1>1, UpStatements
<1>4. r = c + (step - 1) - (IF at = 5 /\ step > 1 THEN 1 ELSE 0)
  BY DEF Reached
<1>5. at = 5 => l = 3
  BY <1>3 DEF Count, Alters
<1>6. step \in 1 .. l =>
         IF at = 5 /\ step = 1 THEN Current[step] = <<"widen", "review_tasks">>
                               ELSE Creates(Current[step], c + step - 1 - Alters(at + 1))
  <2> DEFINE v == at + 1
  <2>1. v \in 1 .. 8 /\ at = v - 1 /\ Current = Upgrade[v] /\ (v = 6 <=> at = 5)
    BY <1>1
  <2> HIDE DEF v
  <2>2. step \in 1 .. l =>
           IF v = 6 /\ step = 1 THEN Current[step] = <<"widen", "review_tasks">>
                                ELSE Creates(Current[step], Count(v - 1) + step - 1 - Alters(v))
    BY <2>1, UpStatements
  <2> QED
    BY <2>1, <2>2 DEF v
<1> HIDE DEF at, step, c, d, l, r
<1>7. /\ l \in Nat /\ r \in 0 .. 31
      /\ ~(at = 5 /\ step = 1) => r = c + step - 1 - Alters(at + 1)
      /\ step > l => r = d
  <2>1. at \in 0 .. 7 /\ step \in Nat \ {0} /\ step <= l + 1
    BY <1>1
  <2>2. CASE at = 5
    BY <2>1, <2>2, <1>2, <1>3, <1>4, <1>5 DEF Alters
  <2>3. CASE at # 5
    BY <2>1, <2>3, <1>2, <1>3, <1>4 DEF Alters
  <2> QED
    BY <2>2, <2>3
<1>8. /\ step <= l => IF at = 5 /\ step = 1 THEN Current[step] = <<"widen", "review_tasks">>
                                            ELSE Creates(Current[step], r)
      /\ step > l => r = d
  BY <1>1, <1>5, <1>6, <1>7
<1> QED
  BY <1>1, <1>7, <1>8 DEF at, step, d, l, r

LEMMA CurrentDown ==
    ASSUME TxnOK, txn.running, txn.at # txn.to, ~Up
    PROVE  /\ txn.at \in 1 .. 8 /\ Reached \in 0 .. 31 /\ Len(Current) \in Nat
           /\ txn.at = 6 => Len(Current) = 3
           /\ txn.step <= Len(Current) =>
                 /\ IF txn.at = 6 /\ txn.step = 3
                    THEN Current[txn.step] = <<"narrow", "review_tasks">>
                    ELSE Drops(Current[txn.step], Reached)
                 /\ Current[txn.step] = <<"drop", "review_outcomes">> <=>
                        txn.at = 6 /\ txn.step = 1
                 /\ Current[txn.step] = <<"drop", "review_tasks">> <=>
                        txn.at = 5 /\ txn.step = 1
           /\ txn.step > Len(Current) => Reached = Count(txn.at - 1)
<1> DEFINE at == txn.at
           step == txn.step
           c == Count(at)
           d == Count(at - 1)
           l == Len(Current)
           r == Reached
<1>1. /\ at \in 1 .. 8 /\ at \in Version /\ at - 1 \in Version
      /\ step \in Nat \ {0} /\ step <= l + 1
      /\ Current = Downgrade[at]
  BY DEF TxnOK, Version, HeadVersion, Up, Current
<1>2. c \in 0 .. 31 /\ d \in 0 .. 31
  BY <1>1, CountTyped
<1>3. l = c - d + Alters(at)
  BY <1>1, DownStatements
<1>4. r = c - (step - 1) + (IF at = 6 /\ step > 3 THEN 1 ELSE 0)
  BY DEF Reached
<1>5. at = 6 => l = 3
  BY <1>3 DEF Count, Alters
<1>6. step \in 1 .. l =>
         /\ IF at = 6 /\ step = 3 THEN Current[step] = <<"narrow", "review_tasks">>
                                  ELSE Drops(Current[step], c - step + 1)
         /\ Current[step] = <<"drop", "review_outcomes">> <=> at = 6 /\ step = 1
         /\ Current[step] = <<"drop", "review_tasks">> <=> at = 5 /\ step = 1
  <2>1. at \in 1 .. 8 /\ Current = Downgrade[at]
    BY <1>1
  <2> HIDE DEF at, step
  <2>2. \A i \in 1 .. Len(Downgrade[at]) :
           IF at = 6 /\ i = 3 THEN Downgrade[at][i] = <<"narrow", "review_tasks">>
                              ELSE Drops(Downgrade[at][i], c - i + 1)
    BY <2>1, DownStatements
  <2>3. \A i \in 1 .. Len(Downgrade[at]) :
           /\ Downgrade[at][i] = <<"drop", "review_outcomes">> <=> at = 6 /\ i = 1
           /\ Downgrade[at][i] = <<"drop", "review_tasks">> <=> at = 5 /\ i = 1
    BY <2>1, DownStatements
  <2>4. /\ step \in 1 .. l <=> step \in 1 .. Len(Downgrade[at])
        /\ Current[step] = Downgrade[at][step]
    BY <2>1
  <2> HIDE DEF c, l
  <2> QED
    BY <2>2, <2>3, <2>4
<1> HIDE DEF at, step, c, d, l, r
<1>7. /\ l \in Nat /\ r \in 0 .. 31
      /\ step <= l => r = c - step + 1
      /\ step > l => r = d
  <2>1. at \in 1 .. 8 /\ step \in Nat \ {0} /\ step <= l + 1
    BY <1>1
  <2>2. CASE at = 6
    BY <2>1, <2>2, <1>2, <1>3, <1>4, <1>5 DEF Alters
  <2>3. CASE at # 6
    BY <2>1, <2>3, <1>2, <1>3, <1>4 DEF Alters
  <2> QED
    BY <2>2, <2>3
<1>8. step <= l =>
         /\ IF at = 6 /\ step = 3 THEN Current[step] = <<"narrow", "review_tasks">>
                                  ELSE Drops(Current[step], r)
         /\ Current[step] = <<"drop", "review_outcomes">> <=> at = 6 /\ step = 1
         /\ Current[step] = <<"drop", "review_tasks">> <=> at = 5 /\ step = 1
  BY <1>1, <1>6, <1>7
<1> QED
  BY <1>1, <1>5, <1>7, <1>8 DEF at, step, d, l, r

LEMMA StatementsCounted ==
    ASSUME NEW v \in 1 .. 8
    PROVE  Len(Upgrade[v]) \in Nat /\ Len(Downgrade[v]) \in Nat
<1>1. Len(Upgrade[v]) \in Nat
  BY DEF Upgrade, Upgrade1, Upgrade2, Upgrade3, Upgrade4, Upgrade5, Upgrade6, Upgrade7, Upgrade8,
         Create
<1>2. Len(Downgrade[v]) \in Nat
  BY DEF Downgrade, Downgrade1, Downgrade2, Downgrade3, Downgrade4, Downgrade5, Downgrade6,
         Downgrade7, Downgrade8, Drop
<1> QED
  BY <1>1, <1>2

-----------------------------------------------------------------------------
(* The rows. *)

\* One row is written, and its outcome perhaps.
LEMMA RowWritten ==
    ASSUME NEW v, NEW tasks, NEW done, NEW old, RowsOK(v, tasks, done, old),
           NEW t \in Task, NEW row, RowOK(row), NEW done2, done2 \subseteq done \cup {t},
           done \subseteq done2,
           v <= 5 => row.status \in {"open", "escalated"} /\ done2 = {},
           t \in done2 => row.status \in {"approved", "rejected"},
           t \in old => row.status # "approved" /\ row.risk \in {"blocked", None}
    PROVE  RowsOK(v, [tasks EXCEPT ![t] = row], done2, old)
<1> DEFINE new == [tasks EXCEPT ![t] = row]
<1>1. DOMAIN new = Task /\ new[t] = row /\ \A x \in Task : x # t => new[x] = tasks[x]
  BY DEF RowsOK
<1>2. row # None
  BY NoneAssumption DEF RowOK
<1> HIDE DEF new
<1>3. \A x \in Task : new[x] # None =>
         RowOK(new[x]) /\ (v <= 5 => new[x].status \in {"open", "escalated"})
  BY <1>1 DEF RowsOK
<1>4. done2 \subseteq Task /\ (v <= 5 => done2 = {})
  BY DEF RowsOK
<1>5. \A x \in done2 : new[x] # None /\ new[x].status \in {"approved", "rejected"}
  BY <1>1, <1>2, <1>4 DEF RowsOK
<1>6. \A x \in old :
         new[x] # None /\ new[x].status # "approved" /\ new[x].risk \in {"blocked", None}
  BY <1>1, <1>2 DEF RowsOK
<1> QED
  BY <1>1, <1>3, <1>4, <1>5, <1>6 DEF RowsOK, new

\* A row of the code that runs at the head version.
LEMMA LiveRow ==
    ASSUME RowsOK(version, task, outcome, legacy), NEW t \in Rows
    PROVE  /\ t \in Task /\ RowOK(task[t])
           /\ t \in outcome => task[t].status \in {"approved", "rejected"}
           /\ t \in legacy => task[t].status # "approved" /\ task[t].risk \in {"blocked", None}
  BY DEF RowsOK, Rows

LEMMA RowSteps ==
    ASSUME RowsOK(version, task, outcome, legacy), NEW t \in Task,
           \/ EarlierReleaseWrites(t) \/ CreateTask(t) \/ Escalate(t)
           \/ RequestInformation(t) \/ RespondToInformation(t)
           \/ Approve(t) \/ Reject(t)
    PROVE  RowsOK(version, task', outcome', legacy) /\ outcome \subseteq outcome'
<1> DEFINE Writes(row, done) ==
             /\ task' = [task EXCEPT ![t] = row] /\ outcome' = done /\ RowOK(row)
             /\ done \subseteq outcome \cup {t} /\ outcome \subseteq done
             /\ version <= 5 => row.status \in {"open", "escalated"} /\ done = {}
             /\ t \in done => row.status \in {"approved", "rejected"}
             /\ t \in legacy => row.status # "approved" /\ row.risk \in {"blocked", None}
<1>1. ASSUME NEW row, NEW done, Writes(row, done)
      PROVE  RowsOK(version, task', outcome', legacy) /\ outcome \subseteq outcome'
  BY <1>1, RowWritten
<1>2. CASE EarlierReleaseWrites(t)
  <2>1. PICK row \in [status : {"open", "escalated"}, escalation : {"none", "senior_review"},
                      risk : {None}] :
            FitsVersion5(row) /\ task' = [task EXCEPT ![t] = row]
    BY <1>2 DEF EarlierReleaseWrites
  <2>2. RowOK(row)
    BY <2>1 DEF RowOK, ReviewRow, FitsVersion5
  <2>3. version = 5 /\ outcome' = outcome /\ outcome = {}
    BY <1>2 DEF EarlierReleaseWrites, RowsOK
  <2>4. Writes(row, outcome)
    BY <2>1, <2>2, <2>3
  <2> QED
    BY <2>4, <1>1
<1>3. CASE CreateTask(t)
  <2> DEFINE row == [status |-> "open", escalation |-> "none", risk |-> ClassOf[t]]
  <2>1. RowOK(row)
    BY ClassAssumption DEF RowOK, ReviewRow
  <2>2. t \notin outcome /\ t \notin legacy /\ version = 8
    BY <1>3 DEF CreateTask, RowsOK, Live, HeadVersion
  <2>3. Writes(row, outcome)
    BY <1>3, <2>1, <2>2 DEF CreateTask
  <2> QED
    BY <2>3, <1>1
<1>4. CASE Escalate(t)
  <2> DEFINE row == [task[t] EXCEPT !.status = "escalated", !.escalation = "senior_review"]
  <2>1. t \in Rows /\ task[t].status = "open" /\ version = 8 /\ outcome' = outcome
        /\ task' = [task EXCEPT ![t] = row]
    BY <1>4 DEF Escalate, Live, HeadVersion, RowsOK
  <2>2. RowOK(task[t]) /\ t \notin outcome
        /\ (t \in legacy => task[t].risk \in {"blocked", None})
    BY <2>1, LiveRow
  <2>3. RowOK(row) /\ row.status = "escalated" /\ row.risk = task[t].risk
    BY <2>2 DEF RowOK, ReviewRow
  <2>4. Writes(row, outcome)
    BY <2>1, <2>2, <2>3
  <2> QED
    BY <2>4, <1>1
<1>5. CASE RequestInformation(t)
  <2> DEFINE row == [task[t] EXCEPT !.status = "information_requested"]
  <2>1. t \in Rows /\ task[t].status \in {"open", "escalated"} /\ version = 8
        /\ outcome' = outcome /\ task' = [task EXCEPT ![t] = row]
    BY <1>5 DEF RequestInformation, Live, HeadVersion, RowsOK
  <2>2. RowOK(task[t]) /\ t \notin outcome
        /\ (t \in legacy => task[t].risk \in {"blocked", None})
    BY <2>1, LiveRow
  <2>3. RowOK(row) /\ row.status = "information_requested" /\ row.risk = task[t].risk
    BY <2>2 DEF RowOK, ReviewRow
  <2>4. Writes(row, outcome)
    BY <2>1, <2>2, <2>3
  <2> QED
    BY <2>4, <1>1
<1>6. CASE RespondToInformation(t)
  <2> DEFINE next == IF task[t].escalation = "senior_review" THEN "escalated" ELSE "open"
             row == [task[t] EXCEPT !.status = next]
  <2>1. t \in Rows /\ task[t].status = "information_requested" /\ version = 8
        /\ outcome' = outcome /\ task' = [task EXCEPT ![t] = row]
    BY <1>6 DEF RespondToInformation, Live, HeadVersion, RowsOK
  <2>2. RowOK(task[t]) /\ t \notin outcome
        /\ (t \in legacy => task[t].risk \in {"blocked", None})
    BY <2>1, LiveRow
  <2>3. RowOK(row) /\ row.status # "approved" /\ row.risk = task[t].risk
    BY <2>2 DEF RowOK, ReviewRow
  <2>4. Writes(row, outcome)
    BY <2>1, <2>2, <2>3
  <2> HIDE DEF row, Writes
  <2> QED
    BY <2>4, <1>1
<1>7. CASE Approve(t)
  <2> DEFINE row == [task[t] EXCEPT !.status = "approved"]
  <2>1. t \in Rows /\ version = 8 /\ outcome' = outcome \cup {t}
        /\ task[t].risk = ClassOf[t] /\ task[t].risk # "blocked"
        /\ task' = [task EXCEPT ![t] = row]
    BY <1>7 DEF Approve, Live, HeadVersion, RowsOK
  <2>2. RowOK(task[t]) /\ (t \in legacy => task[t].risk \in {"blocked", None})
    BY <2>1, LiveRow
  <2>3. t \notin legacy
    BY <2>1, <2>2, ClassAssumption, NoneAssumption
  <2>4. RowOK(row) /\ row.status = "approved"
    BY <2>2 DEF RowOK, ReviewRow
  <2>5. Writes(row, outcome \cup {t})
    BY <2>1, <2>3, <2>4
  <2> QED
    BY <2>5, <1>1
<1>8. CASE Reject(t)
  <2> DEFINE row == [task[t] EXCEPT !.status = "rejected"]
  <2>1. t \in Rows /\ version = 8 /\ outcome' = outcome \cup {t}
        /\ task' = [task EXCEPT ![t] = row]
    BY <1>8 DEF Reject, Live, HeadVersion, RowsOK
  <2>2. RowOK(task[t]) /\ (t \in legacy => task[t].risk \in {"blocked", None})
    BY <2>1, LiveRow
  <2>3. RowOK(row) /\ row.status = "rejected" /\ row.risk = task[t].risk
    BY <2>2 DEF RowOK, ReviewRow
  <2>4. Writes(row, outcome \cup {t})
    BY <2>1, <2>2, <2>3
  <2> QED
    BY <2>4, <1>1
<1> QED
  BY <1>2, <1>3, <1>4, <1>5, <1>6, <1>7, <1>8

LEMMA WidenRows ==
    ASSUME NEW v, RowsOK(v, task, outcome, legacy), v <= 5
    PROVE  RowsOK(v, Widened, outcome, Rows)
<1>1. DOMAIN Widened = Task /\ outcome = {} /\ Rows \subseteq Task
  BY DEF Widened, RowsOK, Rows
<1>2. ASSUME NEW t \in Task, Widened[t] # None
      PROVE  /\ RowOK(Widened[t]) /\ Widened[t].status \in {"open", "escalated"}
             /\ Widened[t].risk = "blocked"
  <2>1. task[t] # None /\ Widened[t] = [task[t] EXCEPT !.risk = "blocked"]
    BY <1>2 DEF Widened, DefaultRisk
  <2>2. RowOK(task[t]) /\ task[t].status \in {"open", "escalated"}
    BY <2>1 DEF RowsOK
  <2> QED
    BY <2>1, <2>2 DEF RowOK, ReviewRow, RiskClass
<1>3. ASSUME NEW t \in Rows
      PROVE  Widened[t] # None
  <2>1. RowOK(task[t]) /\ Widened[t] = [task[t] EXCEPT !.risk = "blocked"]
    BY DEF Rows, RowsOK, Widened, DefaultRisk
  <2>2. Widened[t] \in ReviewRow
    BY <2>1 DEF RowOK, ReviewRow, RiskClass
  <2> QED
    BY <2>2, NoneAssumption
<1> QED
  BY <1>1, <1>2, <1>3 DEF RowsOK

LEMMA NarrowRows ==
    ASSUME NEW v, RowsOK(v, task, outcome, legacy)
    PROVE  /\ RowsOK(v, Narrowed, outcome, legacy)
           /\ NarrowAllowed => \A t \in Task : Narrowed[t] # None => FitsVersion5(Narrowed[t])
<1>1. DOMAIN Narrowed = Task
  BY DEF Narrowed
<1>2. ASSUME NEW t \in Task, task[t] # None
      PROVE  /\ Narrowed[t] # None /\ RowOK(Narrowed[t])
             /\ Narrowed[t].status = task[t].status /\ Narrowed[t].risk = None
             /\ Narrowed[t].escalation = task[t].escalation
  <2>1. RowOK(task[t]) /\ Narrowed[t] = [task[t] EXCEPT !.risk = None]
    BY <1>2 DEF RowsOK, Narrowed
  <2>2. Narrowed[t] \in ReviewRow
    BY <2>1 DEF RowOK, ReviewRow
  <2> QED
    BY <2>1, <2>2, NoneAssumption DEF RowOK, ReviewRow
<1>3. \A t \in Task : Narrowed[t] # None => task[t] # None
  BY DEF Narrowed
<1>4. RowsOK(v, Narrowed, outcome, legacy)
  BY <1>1, <1>2, <1>3 DEF RowsOK
<1> QED
  BY <1>2, <1>3, <1>4 DEF NarrowAllowed, Rows, FitsVersion5

LEMMA DropRows ==
    ASSUME NEW v, RowsOK(v, task, outcome, legacy)
    PROVE  /\ RowsOK(v, task, {}, legacy)
           /\ v <= 5 => RowsOK(v, [t \in Task |-> None], outcome, {})
  BY DEF RowsOK

-----------------------------------------------------------------------------
(* The steps of a migration. *)

LEMMA InvariantInit == Init => Invariant
<1> SUFFICES ASSUME Init PROVE Invariant
  OBVIOUS
<1>1. TxnOK
  BY DEF Init, TxnOK, Idle, Version, HeadVersion
<1>2. First(0) = {}
  BY RankIsOrder DEF First
<1>3. schema = First(Reached)
  BY <1>2 DEF Init, Reached, Idle, Count
<1>4. RowsOK(version, task, outcome, legacy)
  BY DEF Init, RowsOK
<1>5. ~txn.running /\ refused = None
  BY DEF Init, Idle
<1> QED
  BY <1>1, <1>3, <1>4, <1>5
     DEF Invariant, NarrowingOK, Narrowing, Unnarrowed, OnlyReviewsBlockMigration

LEMMA BeginKeeps ==
    ASSUME Invariant, NEW v \in 0 .. HeadVersion, Begin(v)
    PROVE  Invariant'
<1>1. /\ txn' = [running |-> TRUE, from |-> version, to |-> v, at |-> version,
                 step |-> 1, saved |-> db]
      /\ UNCHANGED db /\ refused' = None /\ v # version
  BY DEF Begin
<1>2. version' = version /\ schema' = schema /\ task' = task /\ outcome' = outcome
      /\ legacy' = legacy
  BY <1>1 DEF db
<1>3. version \in 0 .. 8 /\ v \in 0 .. 8
  BY DEF Invariant, TxnOK, Version, HeadVersion
<1>5. Len(Current') \in Nat
  <2>1. CASE v > version
    <3>1. Current' = Upgrade[version + 1] /\ version + 1 \in 1 .. 8
      BY <2>1, <1>1, <1>3 DEF Current, Up
    <3> QED
      BY <3>1, StatementsCounted
  <2>2. CASE v < version
    <3>1. Current' = Downgrade[version] /\ version \in 1 .. 8
      BY <2>2, <1>1, <1>3 DEF Current, Up
    <3> QED
      BY <3>1, StatementsCounted
  <2> QED
    BY <1>1, <1>3, <2>1, <2>2
<1>6. TxnOK'
  BY <1>1, <1>2, <1>3, <1>5 DEF TxnOK, Up, Version, HeadVersion
<1>7. Reached' = Count(version) /\ Reached = Count(version)
  <2>1. Count(version) \in 0 .. 31
    BY CountTyped DEF Invariant, TxnOK
  <2>2. Reached = Count(version)
    BY DEF Begin, Reached
  <2>3. txn'.running /\ txn'.at = version /\ txn'.step = 1
    BY <1>1
  <2>4. Reached' = IF Up' THEN Count(version) + (1 - 1) - 0 ELSE Count(version) - (1 - 1) + 0
    BY <2>3 DEF Reached
  <2> QED
    BY <2>1, <2>2, <2>4
<1>8. SavedOK'
  <2>1. txn'.saved = <<version, schema, task, outcome, legacy>> /\ txn'.from = version
    BY <1>1 DEF db
  <2> QED
    BY <2>1, <1>7 DEF SavedOK, Invariant
<1>9. NarrowingOK'
  <2>1. txn'.saved[3] = task /\ txn'.saved[4] = outcome /\ txn'.step = 1
    BY <1>1 DEF db
  <2> QED
    BY <2>1, <1>2 DEF NarrowingOK
<1> QED
  BY <1>1, <1>2, <1>6, <1>7, <1>8, <1>9 DEF Invariant, OnlyReviewsBlockMigration

LEMMA StatementTxn ==
    ASSUME TxnOK, Statement
    PROVE  /\ txn.running /\ txn.at # txn.to /\ txn.step <= Len(Current) /\ txn.step \in Nat \ {0}
           /\ txn'.running /\ txn'.at = txn.at /\ txn'.to = txn.to /\ txn'.from = txn.from
           /\ txn'.saved = txn.saved /\ txn'.step = txn.step + 1
           /\ txn.at = version /\ version' = version /\ refused' = refused
           /\ (Up' <=> Up) /\ TxnOK'
<1>1. /\ txn.running /\ txn.at # txn.to /\ txn.step <= Len(Current)
      /\ txn' = [txn EXCEPT !.step = @ + 1] /\ version' = version /\ refused' = refused
  BY DEF Statement
<1>2. /\ DOMAIN txn = {"running", "from", "to", "at", "step", "saved"}
      /\ txn.running \in BOOLEAN /\ txn.at = version /\ txn.step \in Nat \ {0}
  BY <1>1 DEF TxnOK
<1>3. /\ txn'.running /\ txn'.at = txn.at /\ txn'.to = txn.to /\ txn'.from = txn.from
      /\ txn'.saved = txn.saved /\ txn'.step = txn.step + 1 /\ DOMAIN txn' = DOMAIN txn
      /\ txn'.running = txn.running
  BY <1>1, <1>2
<1>4. (Up' <=> Up) /\ Current' = Current
  BY <1>3 DEF Up, Current
<1>5. Len(Current) \in Nat
  BY <1>1, CurrentUp, CurrentDown
<1>6. TxnOK'
  <2>1. version' \in Version /\ txn'.running \in BOOLEAN
    BY <1>1, <1>2, <1>3 DEF TxnOK
  <2>2. /\ DOMAIN txn' = {"running", "from", "to", "at", "step", "saved"}
        /\ txn'.from \in Version /\ txn'.to \in Version /\ txn'.from # txn'.to
        /\ txn'.at = version'
    BY <1>1, <1>2, <1>3 DEF TxnOK
  <2>3. IF Up' THEN txn'.at <= txn'.to ELSE txn'.at >= txn'.to
    BY <1>1, <1>3, <1>4 DEF TxnOK
  <2>4. txn'.at # txn'.to /\ txn'.step <= Len(Current') + 1 /\ txn'.step \in Nat \ {0}
    BY <1>1, <1>2, <1>3, <1>4, <1>5
  <2> QED
    BY <2>1, <2>2, <2>3, <2>4 DEF TxnOK
<1> QED
  BY <1>1, <1>2, <1>3, <1>4, <1>6

\* What a statement does to the schema and the rows.
LEMMA Effects ==
    ASSUME NEW s, Execute(s)
    PROVE  /\ s[1] = "create" =>
                  schema' = schema \cup {s[2]} /\ UNCHANGED <<task, legacy, outcome>>
           /\ s[1] = "drop" => schema' = schema \ {s[2]}
           /\ s[1] = "drop" /\ s # <<"drop", "review_tasks">> =>
                  UNCHANGED <<task, legacy>>
           /\ s[1] = "drop" /\ s # <<"drop", "review_outcomes">> => outcome' = outcome
           /\ s = <<"drop", "review_outcomes">> => outcome' = {}
           /\ s = <<"drop", "review_tasks">> => task' = [t \in Task |-> None] /\ legacy' = {}
           /\ s = <<"widen", "review_tasks">> =>
                  schema' = schema /\ task' = Widened /\ legacy' = Rows /\ outcome' = outcome
           /\ s = <<"narrow", "review_tasks">> =>
                  schema' = schema /\ task' = Narrowed /\ legacy' = legacy /\ outcome' = outcome
  BY DEF Execute

LEMMA StatementUpKeeps ==
    ASSUME Invariant, Statement, Up
    PROVE  Invariant'
<1> DEFINE s == Current[txn.step]
<1>1. TxnOK /\ schema = First(Reached) /\ RowsOK(version, task, outcome, legacy)
      /\ SavedOK /\ NarrowingOK /\ OnlyReviewsBlockMigration
  BY DEF Invariant, Statement
<1>2. /\ txn.running /\ txn.at # txn.to /\ txn.step <= Len(Current) /\ txn.step \in Nat \ {0}
      /\ txn'.running /\ txn'.at = txn.at /\ txn'.to = txn.to /\ txn'.from = txn.from
      /\ txn'.saved = txn.saved /\ txn'.step = txn.step + 1
      /\ txn.at = version /\ version' = version /\ refused' = refused
      /\ (Up' <=> Up) /\ TxnOK'
  BY <1>1, StatementTxn
<1>3. /\ txn.at \in 0 .. 7 /\ Reached \in 0 .. 31
      /\ IF txn.at = 5 /\ txn.step = 1 THEN s = <<"widen", "review_tasks">>
                                       ELSE Creates(s, Reached)
  BY <1>1, <1>2, CurrentUp
<1>4. Execute(s)
  BY DEF Statement
<1>5. SavedOK' /\ NarrowingOK' /\ OnlyReviewsBlockMigration'
  <2>1. outcome' = outcome
    BY <1>3, <1>4, Effects DEF Creates
  <2>2. outcome = txn.saved[4]
    BY <1>1, <1>2 DEF NarrowingOK, Narrowing
  <2> QED
    BY <1>1, <1>2, <2>1, <2>2
       DEF SavedOK, NarrowingOK, Narrowing, Unnarrowed, OnlyReviewsBlockMigration
<1>6. /\ Count(txn.at) \in 0 .. 31
      /\ Reached = Count(txn.at) + (txn.step - 1) - (IF txn.at = 5 /\ txn.step > 1 THEN 1 ELSE 0)
      /\ Reached' = Count(txn.at) + ((txn.step + 1) - 1)
                        - (IF txn.at = 5 /\ txn.step + 1 > 1 THEN 1 ELSE 0)
  BY <1>2, <1>1, CountTyped DEF Reached, TxnOK
<1>7. schema' = First(Reached') /\ RowsOK(version, task', outcome', legacy')
  <2>1. CASE txn.at = 5 /\ txn.step = 1
    <3>1. s = <<"widen", "review_tasks">>
      BY <1>3, <2>1
    <3>2. schema' = schema /\ task' = Widened /\ legacy' = Rows /\ outcome' = outcome
      BY <3>1, <1>4, Effects
    <3>3. Reached' = Reached
      BY <1>6, <2>1
    <3>4. RowsOK(version, Widened, outcome, Rows)
      BY <1>1, <1>2, <2>1, WidenRows
    <3> QED
      BY <1>1, <3>2, <3>3, <3>4
  <2>2. CASE ~(txn.at = 5 /\ txn.step = 1)
    <3>1. Creates(s, Reached)
      BY <1>3, <2>2
    <3>2. schema' = schema \cup {s[2]} /\ task' = task /\ legacy' = legacy /\ outcome' = outcome
      BY <3>1, <1>4, Effects DEF Creates
    <3>3. Reached' = Reached + 1
      <4> DEFINE c == Count(txn.at)
                 at == txn.at
                 step == txn.step
                 r == Reached
                 n == Reached'
      <4>1. /\ c \in 0 .. 31 /\ step \in Nat \ {0} /\ at \in 0 .. 7 /\ ~(at = 5 /\ step = 1)
            /\ r = c + (step - 1) - (IF at = 5 /\ step > 1 THEN 1 ELSE 0)
            /\ n = c + ((step + 1) - 1) - (IF at = 5 /\ step + 1 > 1 THEN 1 ELSE 0)
        BY <1>2, <1>3, <1>6, <2>2
      <4> HIDE DEF c, at, step, r, n
      <4>2. n = r + 1
        <5>1. CASE at = 5
          BY <4>1, <5>1
        <5>2. CASE at # 5
          BY <4>1, <5>2
        <5> QED
          BY <5>1, <5>2
      <4> QED
        BY <4>2 DEF r, n
    <3>4. schema' = First(Reached + 1)
      BY <1>1, <1>3, <3>1, <3>2, FirstGrows
    <3> QED
      BY <1>1, <3>2, <3>3, <3>4
  <2> QED
    BY <2>1, <2>2
<1> QED
  BY <1>2, <1>5, <1>7 DEF Invariant

\* When the checks of 0005 pass, there were no outcomes to lose.
LEMMA NothingLost ==
    ASSUME SavedOK, task = txn.saved[3], NarrowAllowed
    PROVE  txn.saved[4] = {}
<1>1. RowsOK(txn.from, task, txn.saved[4], txn.saved[5])
  BY DEF SavedOK
<1>2. ASSUME NEW t \in txn.saved[4]
      PROVE  FALSE
  <2>1. t \in Rows /\ task[t].status \in {"approved", "rejected"}
    BY <1>1 DEF RowsOK, Rows
  <2> QED
    BY <2>1 DEF NarrowAllowed, FitsVersion5
<1> QED
  BY <1>2

LEMMA StatementDownKeeps ==
    ASSUME Invariant, Statement, ~Up
    PROVE  Invariant'
<1> DEFINE s == Current[txn.step]
<1>1. TxnOK /\ schema = First(Reached) /\ RowsOK(version, task, outcome, legacy)
      /\ SavedOK /\ NarrowingOK /\ OnlyReviewsBlockMigration
  BY DEF Invariant, Statement
<1>2. /\ txn.running /\ txn.at # txn.to /\ txn.step <= Len(Current) /\ txn.step \in Nat \ {0}
      /\ txn'.running /\ txn'.at = txn.at /\ txn'.to = txn.to /\ txn'.from = txn.from
      /\ txn'.saved = txn.saved /\ txn'.step = txn.step + 1
      /\ txn.at = version /\ version' = version /\ refused' = refused
      /\ (Up' <=> Up) /\ TxnOK'
  BY <1>1, StatementTxn
<1>3. /\ txn.at \in 1 .. 8 /\ Reached \in 0 .. 31
      /\ txn.at = 6 => txn.step <= 3
      /\ IF txn.at = 6 /\ txn.step = 3 THEN s = <<"narrow", "review_tasks">>
                                       ELSE Drops(s, Reached)
      /\ s = <<"drop", "review_outcomes">> <=> txn.at = 6 /\ txn.step = 1
      /\ s = <<"drop", "review_tasks">> <=> txn.at = 5 /\ txn.step = 1
  BY <1>1, <1>2, CurrentDown
<1>4. Execute(s) /\ Allowed(s)
  BY DEF Statement
<1>5. SavedOK' /\ OnlyReviewsBlockMigration'
  BY <1>1, <1>2 DEF SavedOK, OnlyReviewsBlockMigration
<1>6. /\ Count(txn.at) \in 0 .. 31
      /\ Reached = Count(txn.at) - (txn.step - 1) + (IF txn.at = 6 /\ txn.step > 3 THEN 1 ELSE 0)
      /\ Reached' = Count(txn.at) - ((txn.step + 1) - 1)
                        + (IF txn.at = 6 /\ txn.step + 1 > 3 THEN 1 ELSE 0)
  BY <1>2, <1>1, CountTyped DEF Reached, TxnOK
<1>7. Reached' = IF txn.at = 6 /\ txn.step = 3 THEN Reached ELSE Reached - 1
  <2> DEFINE c == Count(txn.at)
             at == txn.at
             step == txn.step
             r == Reached
             n == Reached'
  <2>1. /\ c \in 0 .. 31 /\ step \in Nat \ {0} /\ at \in 1 .. 8 /\ (at = 6 => step <= 3)
        /\ r = c - (step - 1) + (IF at = 6 /\ step > 3 THEN 1 ELSE 0)
        /\ n = c - ((step + 1) - 1) + (IF at = 6 /\ step + 1 > 3 THEN 1 ELSE 0)
    BY <1>2, <1>3, <1>6
  <2> HIDE DEF c, at, step, r, n
  <2>2. n = IF at = 6 /\ step = 3 THEN r ELSE r - 1
    <3>1. CASE at = 6
      BY <2>1, <3>1
    <3>2. CASE at # 6
      BY <2>1, <3>2
    <3> QED
      BY <3>1, <3>2
  <2> QED
    BY <2>2 DEF at, step, r, n
<1>8. CASE txn.at = 6 /\ txn.step = 3
  <2>1. s = <<"narrow", "review_tasks">> /\ NarrowAllowed
    <3>1. s = <<"narrow", "review_tasks">>
      BY <1>3, <1>8
    <3>2. Allowed(<<"narrow", "review_tasks">>)
      BY <1>4, <3>1
    <3> QED
      BY <3>1, <3>2 DEF Allowed
  <2>2. schema' = schema /\ task' = Narrowed /\ legacy' = legacy /\ outcome' = outcome
    BY <2>1, <1>4, Effects
  <2>3. schema' = First(Reached')
    BY <1>1, <1>7, <1>8, <2>2
  <2>4. RowsOK(version, task', outcome', legacy')
    BY <1>1, <2>2, NarrowRows
  <2>5. outcome = {} /\ task = txn.saved[3]
    BY <1>1, <1>2, <1>8 DEF NarrowingOK, Narrowing, Unnarrowed
  <2>6. txn.saved[4] = {}
    BY <1>1, <2>1, <2>5, NothingLost
  <2>7. \A t \in Rows' : FitsVersion5(task'[t])
    BY <1>1, <2>1, <2>2, NarrowRows DEF Rows
  <2>8. NarrowingOK'
    <3>1. txn'.step = 4 /\ txn'.at = 6
      BY <1>2, <1>8
    <3> QED
      BY <1>2, <2>2, <2>5, <2>6, <2>7, <3>1 DEF NarrowingOK, Unnarrowed
  <2> QED
    BY <1>2, <1>5, <2>3, <2>4, <2>8 DEF Invariant
<1>9. CASE ~(txn.at = 6 /\ txn.step = 3)
  <2>1. Drops(s, Reached)
    BY <1>3, <1>9
  <2>2. schema' = schema \ {s[2]}
    BY <2>1, <1>4, Effects DEF Drops
  <2>3. schema' = First(Reached')
    BY <1>1, <1>3, <1>7, <1>9, <2>1, <2>2, FirstShrinks
  <2>4. /\ txn.at = 6 /\ txn.step = 1 => outcome' = {}
        /\ ~(txn.at = 6 /\ txn.step = 1) => outcome' = outcome
        /\ txn.at = 5 /\ txn.step = 1 => task' = [t \in Task |-> None] /\ legacy' = {}
        /\ ~(txn.at = 5 /\ txn.step = 1) => task' = task /\ legacy' = legacy
    BY <2>1, <1>3, <1>4, Effects DEF Drops
  <2>5. RowsOK(version, task', outcome', legacy')
    <3>1. CASE txn.at = 5 /\ txn.step = 1
      BY <1>1, <1>2, <2>4, <3>1, DropRows, SMTT(30)
    <3>2. CASE txn.at = 6 /\ txn.step = 1
      BY <1>1, <1>2, <2>4, <3>2, DropRows
    <3>3. CASE ~(txn.at = 5 /\ txn.step = 1) /\ ~(txn.at = 6 /\ txn.step = 1)
      BY <1>1, <1>2, <2>4, <3>3
    <3> QED
      BY <3>1, <3>2, <3>3
  <2>6. NarrowingOK'
    <3>1. CASE txn.at = 6
      <4>1. txn.step \in {1, 2} /\ txn'.step \in {2, 3} /\ task' = task /\ Unnarrowed
        BY <1>2, <1>3, <1>9, <2>4, <3>1 DEF Unnarrowed
      <4>2. outcome' = {}
        BY <1>1, <1>2, <2>4, <3>1, <4>1 DEF NarrowingOK, Narrowing
      <4>3. task' = txn'.saved[3]
        BY <1>1, <1>2, <4>1 DEF NarrowingOK
      <4>4. Narrowing'
        BY <1>2, <3>1 DEF Narrowing
      <4> QED
        BY <4>1, <4>2, <4>3, <4>4 DEF NarrowingOK
    <3>2. CASE txn.at # 6
      <4>1. ~Narrowing /\ ~Narrowing'
        BY <1>2, <3>2 DEF Narrowing
      <4>2. outcome' = txn'.saved[4]
        BY <1>1, <1>2, <2>4, <3>2, <4>1 DEF NarrowingOK
      <4>3. Unnarrowed' => task' = txn'.saved[3]
        BY <1>1, <1>2, <1>3, <2>4, <3>2 DEF NarrowingOK, Unnarrowed
      <4> QED
        BY <4>1, <4>2, <4>3 DEF NarrowingOK
    <3> QED
      BY <3>1, <3>2
  <2> QED
    BY <1>2, <1>5, <2>3, <2>5, <2>6 DEF Invariant
<1> QED
  BY <1>8, <1>9

LEMMA FinishKeeps ==
    ASSUME Invariant, FinishMigration
    PROVE  Invariant'
<1> DEFINE next == IF Up THEN txn.at + 1 ELSE txn.at - 1
<1>1. /\ txn.running /\ txn.at # txn.to /\ txn.step > Len(Current)
      /\ version' = next /\ txn' = [txn EXCEPT !.at = version', !.step = 1]
      /\ UNCHANGED <<schema, task, outcome, legacy, refused>>
  BY DEF FinishMigration
<1>2. TxnOK /\ schema = First(Reached) /\ RowsOK(version, task, outcome, legacy)
      /\ SavedOK /\ NarrowingOK /\ OnlyReviewsBlockMigration
  BY <1>1 DEF Invariant
<1>3. /\ DOMAIN txn = {"running", "from", "to", "at", "step", "saved"}
      /\ txn.from \in 0 .. 8 /\ txn.to \in 0 .. 8 /\ txn.from # txn.to /\ txn.at \in 0 .. 8
      /\ txn.at = version /\ txn.running \in BOOLEAN
      /\ (Up => txn.at < txn.to) /\ (~Up => txn.at > txn.to)
  BY <1>1, <1>2 DEF TxnOK, Version, HeadVersion
<1>4. /\ txn'.running /\ txn'.at = next /\ txn'.to = txn.to /\ txn'.from = txn.from
      /\ txn'.saved = txn.saved /\ txn'.step = 1 /\ DOMAIN txn' = DOMAIN txn
      /\ txn'.running = txn.running
  BY <1>1, <1>3
<1>5. (Up' <=> Up) /\ next \in 0 .. 8 /\ (Up => next <= txn.to) /\ (~Up => next >= txn.to)
  BY <1>3, <1>4 DEF Up
<1>6. TxnOK'
  <2>1. next # txn.to => Len(Current') \in Nat
    <3>1. CASE Up
      <4>1. next + 1 \in 1 .. 8 \/ next = txn.to
        BY <1>3, <1>5, <3>1
      <4>2. Current' = Upgrade[next + 1]
        BY <1>4, <1>5, <3>1 DEF Current
      <4> QED
        BY <4>1, <4>2, StatementsCounted
    <3>2. CASE ~Up
      <4>1. next \in 1 .. 8 \/ next = txn.to
        BY <1>3, <1>5, <3>2
      <4>2. Current' = Downgrade[next]
        BY <1>4, <1>5, <3>2 DEF Current
      <4> QED
        BY <4>1, <4>2, StatementsCounted
    <3> QED
      BY <3>1, <3>2
  <2>2. version' \in Version /\ txn'.running \in BOOLEAN
    BY <1>1, <1>3, <1>4, <1>5 DEF Version, HeadVersion
  <2>3. /\ DOMAIN txn' = {"running", "from", "to", "at", "step", "saved"}
        /\ txn'.from \in Version /\ txn'.to \in Version /\ txn'.from # txn'.to
        /\ txn'.at = version'
    BY <1>1, <1>3, <1>4 DEF Version, HeadVersion
  <2>4. IF Up' THEN txn'.at <= txn'.to ELSE txn'.at >= txn'.to
    BY <1>4, <1>5
  <2>5. IF txn'.at = txn'.to THEN txn'.step = 1 ELSE txn'.step <= Len(Current') + 1
    BY <2>1, <1>4
  <2> QED
    BY <1>4, <2>2, <2>3, <2>4, <2>5 DEF TxnOK
<1>7. schema' = First(Reached')
  <2>1. Reached = Count(next)
    BY <1>1, <1>2, CurrentUp, CurrentDown
  <2>2. Count(next) \in 0 .. 31
    BY <1>5, CountTyped DEF Version, HeadVersion
  <2>3. Reached' = Count(next)
    <3> DEFINE c == Count(next)
    <3>1. Reached' = IF Up' THEN c + (1 - 1) - 0 ELSE c - (1 - 1) + 0
      <4> HIDE DEF next
      <4> QED
        BY <1>4 DEF Reached
    <3>2. c \in 0 .. 31
      BY <2>2
    <3> HIDE DEF c
    <3>3. Reached' = c
      BY <3>1, <3>2
    <3> QED
      BY <3>3 DEF c
  <2> HIDE DEF next
  <2> QED
    BY <1>1, <1>2, <2>1, <2>3
<1>8. Narrowing => txn.step > 3
  BY <1>1, <1>2, CurrentDown DEF Narrowing, TxnOK
<1>9. outcome = txn.saved[4]
  BY <1>1, <1>2, <1>8 DEF NarrowingOK
<1>10. NarrowingOK'
  <2>1. Unnarrowed' => Unnarrowed
    <3>1. Unnarrowed' => ~Up /\ next >= 6
      BY <1>4, <1>5 DEF Unnarrowed
    <3> QED
      BY <1>1, <1>3, <3>1 DEF Unnarrowed
  <2> QED
    BY <1>1, <1>2, <1>4, <1>9, <2>1 DEF NarrowingOK
<1>11. RowsOK(version', task', outcome', legacy')
  <2>1. CASE next <= 5 /\ version > 5
    <3>1. Narrowing /\ next = 5
      BY <1>1, <1>3, <1>5, <2>1 DEF Narrowing
    <3>2. outcome = {} /\ \A t \in Rows : FitsVersion5(task[t])
      BY <1>2, <1>8, <3>1 DEF NarrowingOK, TxnOK, Narrowing
    <3>3. \A t \in Task : task[t] # None => task[t].status \in {"open", "escalated"}
      BY <3>2 DEF Rows, FitsVersion5
    <3> QED
      BY <1>1, <1>2, <3>2, <3>3 DEF RowsOK
  <2>2. CASE ~(next <= 5 /\ version > 5)
    <3>1. next <= 5 => version <= 5
      BY <1>3, <2>2
    <3> QED
      BY <1>1, <1>2, <3>1 DEF RowsOK
  <2> QED
    BY <2>1, <2>2
<1> QED
  BY <1>1, <1>2, <1>4, <1>6, <1>7, <1>10, <1>11
     DEF Invariant, SavedOK, OnlyReviewsBlockMigration

LEMMA CommitKeeps ==
    ASSUME Invariant, CommitMigrations
    PROVE  Invariant' /\ outcome' = txn.saved[4]
<1>1. txn.running /\ txn.at = txn.to /\ txn' = Idle /\ UNCHANGED db /\ refused' = refused
  BY DEF CommitMigrations
<1>2. version' = version /\ schema' = schema /\ task' = task /\ outcome' = outcome
      /\ legacy' = legacy
  BY <1>1 DEF db
<1>3. txn'.running = FALSE
  BY <1>1 DEF Idle
<1>4. txn.at = version /\ txn.step = 1 /\ Count(version) \in 0 .. 31
  BY <1>1, CountTyped DEF Invariant, TxnOK
<1>5. Reached = Count(version)
  <2> DEFINE c == Count(version)
  <2>1. Reached = IF Up THEN c + (1 - 1) - 0 ELSE c - (1 - 1) + 0
    BY <1>1, <1>4 DEF Reached
  <2>2. c \in 0 .. 31
    BY <1>4
  <2> HIDE DEF c
  <2>3. Reached = c
    BY <2>1, <2>2
  <2> QED
    BY <2>3 DEF c
<1>6. Reached' = Count(version)
  BY <1>2, <1>3 DEF Reached
<1>7. TxnOK' /\ NarrowingOK' /\ OnlyReviewsBlockMigration'
  BY <1>1, <1>2, <1>3
     DEF Invariant, TxnOK, NarrowingOK, Narrowing, Unnarrowed, OnlyReviewsBlockMigration
<1>8. outcome = txn.saved[4]
  BY <1>1 DEF Invariant, NarrowingOK, Narrowing
<1> QED
  BY <1>2, <1>3, <1>5, <1>6, <1>7, <1>8 DEF Invariant

LEMMA RollbackKeeps ==
    ASSUME Invariant, txn.running, Rollback, OnlyReviewsBlockMigration'
    PROVE  Invariant' /\ outcome' = txn.saved[4]
<1>1. SavedOK /\ TxnOK
  BY DEF Invariant
<1>2. /\ version' = txn.from /\ schema' = First(Count(txn.from))
      /\ RowsOK(txn.from, task', outcome', legacy') /\ outcome' = txn.saved[4]
  BY <1>1 DEF Rollback, SavedOK
<1>3. txn'.running = FALSE
  BY DEF Rollback, Idle
<1>4. TxnOK'
  BY <1>1, <1>2, <1>3 DEF TxnOK
<1>5. Reached' = Count(txn.from)
  BY <1>2, <1>3 DEF Reached
<1>6. NarrowingOK'
  BY <1>3 DEF NarrowingOK, Narrowing, Unnarrowed
<1> QED
  BY <1>2, <1>3, <1>4, <1>5, <1>6 DEF Invariant

\* The only statement that the database may refuse is the last one of the downgrade of 0006.
LEMMA RefusalExplained ==
    ASSUME Invariant, StatementRefused
    PROVE  OnlyReviewsBlockMigration'
<1> DEFINE s == Current[txn.step]
           unknown == {t \in Rows : task[t].status \notin {"open", "escalated"}}
<1>1. /\ txn.running /\ txn.at # txn.to /\ txn.step <= Len(Current) /\ ~Allowed(s)
      /\ refused' = [up |-> Up, statement |-> s, unknown |-> unknown]
  BY DEF StatementRefused
<1>2. TxnOK /\ schema = First(Reached) /\ RowsOK(version, task, outcome, legacy)
  BY DEF Invariant
<1>3. ~Up
  <2> SUFFICES ASSUME Up PROVE FALSE
    OBVIOUS
  <2>1. /\ Reached \in 0 .. 31
        /\ IF txn.at = 5 /\ txn.step = 1 THEN s = <<"widen", "review_tasks">>
                                         ELSE Creates(s, Reached)
    BY <1>1, <1>2, CurrentUp
  <2>2. CASE txn.at = 5 /\ txn.step = 1
    <3>1. version = 5
      BY <1>1, <1>2, <2>2 DEF TxnOK
    <3> QED
      BY <1>1, <1>2, <2>1, <2>2, <3>1, WidenAllowed
  <2>3. CASE ~(txn.at = 5 /\ txn.step = 1)
    BY <1>1, <1>2, <2>1, <2>3, CreateAllowed
  <2> QED
    BY <2>2, <2>3
<1>4. /\ Reached \in 0 .. 31
      /\ IF txn.at = 6 /\ txn.step = 3 THEN s = <<"narrow", "review_tasks">>
                                       ELSE Drops(s, Reached)
  BY <1>1, <1>2, <1>3, CurrentDown
<1>5. s = <<"narrow", "review_tasks">>
  BY <1>1, <1>2, <1>4, DropAllowed
<1>6. unknown # {}
  <2>1. ~Allowed(<<"narrow", "review_tasks">>)
    BY <1>1, <1>5
  <2> QED
    BY <1>2, <2>1, NarrowRefused
<1> HIDE DEF s, unknown
<1>7. refused'.up = Up /\ refused'.statement = s /\ refused'.unknown = unknown
  BY <1>1
<1> QED
  BY <1>3, <1>5, <1>6, <1>7 DEF OnlyReviewsBlockMigration

LEMMA RowStepKeeps ==
    ASSUME Invariant, NEW t \in Task,
           \/ EarlierReleaseWrites(t) \/ CreateTask(t) \/ Escalate(t)
           \/ RequestInformation(t) \/ RespondToInformation(t)
           \/ Approve(t) \/ Reject(t)
    PROVE  Invariant' /\ ~txn.running /\ outcome \subseteq outcome'
<1>1. AtRest
  BY DEF EarlierReleaseWrites, CreateTask, Escalate, RequestInformation, RespondToInformation,
         Approve, Reject, Live
<1>2. ~txn.running /\ version' = version /\ schema' = schema /\ legacy' = legacy /\ txn' = txn
      /\ refused' = None
  BY <1>1 DEF AtRest
<1>3. RowsOK(version, task', outcome', legacy) /\ outcome \subseteq outcome'
  BY RowSteps DEF Invariant
<1>4. TxnOK' /\ NarrowingOK' /\ OnlyReviewsBlockMigration'
  BY <1>2 DEF Invariant, TxnOK, NarrowingOK, Narrowing, Unnarrowed, OnlyReviewsBlockMigration
<1>5. Reached' = Reached
  BY <1>2 DEF Reached
<1> QED
  BY <1>2, <1>3, <1>4, <1>5 DEF Invariant

LEMMA InvariantNext ==
    ASSUME Invariant, [Next]_vars
    PROVE  Invariant'
<1>1. CASE \E v \in 0 .. HeadVersion : Begin(v)
  BY <1>1, BeginKeeps
<1>2. CASE Statement
  BY <1>2, StatementUpKeeps, StatementDownKeeps
<1>3. CASE FinishMigration
  BY <1>3, FinishKeeps
<1>4. CASE CommitMigrations
  BY <1>4, CommitKeeps
<1>5. CASE StatementRefused
  BY <1>5, RefusalExplained, RollbackKeeps DEF StatementRefused
<1>6. CASE Crash
  <2>1. OnlyReviewsBlockMigration'
    BY <1>6 DEF Crash, OnlyReviewsBlockMigration
  <2> QED
    BY <1>6, <2>1, RollbackKeeps DEF Crash
<1>7. ASSUME NEW t \in Task,
             \/ EarlierReleaseWrites(t) \/ CreateTask(t) \/ Escalate(t)
             \/ RequestInformation(t) \/ RespondToInformation(t)
             \/ Approve(t) \/ Reject(t)
      PROVE  Invariant'
  BY <1>7, RowStepKeeps
<1>8. CASE UNCHANGED vars
  BY <1>8 DEF vars, db, Invariant, TxnOK, Reached, RowsOK, SavedOK, NarrowingOK, Narrowing,
              Unnarrowed, OnlyReviewsBlockMigration, Up, Current, Rows
<1> QED
  BY <1>1, <1>2, <1>3, <1>4, <1>5, <1>6, <1>7, <1>8 DEF Next

\* The invariant of every behaviour: migrations, refusals, crashes and the rows that the
\* releases at versions 0005 and 0008 write.
THEOREM InvariantHolds == Spec => []Invariant
<1>1. Init => Invariant
  BY InvariantInit
<1>2. Invariant /\ [Next]_vars => Invariant'
  BY InvariantNext
<1> QED
  BY <1>1, <1>2, PTL DEF Spec

-----------------------------------------------------------------------------
(* The properties. *)

\* What a migration creates is what its version has more than the one before; 0006 also
\* names the table that it alters.
Named(v) == {s[2] : s \in {Upgrade[v][i] : i \in DOMAIN Upgrade[v]}}

LEMMA UpgradeDomain ==
    ASSUME NEW v \in 1 .. 8
    PROVE  DOMAIN Upgrade[v] = 1 .. Len(Upgrade[v])
  BY DEF Upgrade, Upgrade1, Upgrade2, Upgrade3, Upgrade4, Upgrade5, Upgrade6, Upgrade7, Upgrade8,
         Create

LEMMA CountSteps ==
    /\ \A v \in 1 .. 8 : Count(v - 1) <= Count(v)
    /\ \A v \in 0 .. 8 : \A n \in 1 .. Count(v) :
          \E k \in 1 .. v : Count(k - 1) < n /\ n <= Count(k)
<1>1. \A v \in 1 .. 8 : Count(v - 1) <= Count(v)
  BY DEF Count
<1>2. ASSUME NEW v \in 0 .. 8, NEW n \in 1 .. Count(v)
      PROVE  \E k \in 1 .. v : Count(k - 1) < n /\ n <= Count(k)
  <2>1. /\ Count(0) = 0 /\ Count(1) = 6 /\ Count(2) = 9 /\ Count(3) = 13 /\ Count(4) = 20
        /\ Count(5) = 21 /\ Count(6) = 23 /\ Count(7) = 28 /\ Count(8) = 31
    BY DEF Count
  <2>2. ASSUME NEW k \in 1 .. 8, Count(k - 1) < n, n <= Count(k), k <= v
        PROVE  \E j \in 1 .. v : Count(j - 1) < n /\ n <= Count(j)
    <3>1. k \in 1 .. v
      BY <2>2
    <3> QED
      BY <2>2, <3>1
  <2>3. n <= 6 \/ n \in 7 .. 9 \/ n \in 10 .. 13 \/ n \in 14 .. 20 \/ n = 21 \/ n \in 22 .. 23
        \/ n \in 24 .. 28 \/ n \in 29 .. 31
    BY <2>1
  <2> QED
    BY <2>1, <2>2, <2>3
<1> QED
  BY <1>1, <1>2

LEMMA CountMonotone ==
    ASSUME NEW v \in 0 .. 8, NEW k \in 0 .. 8, k <= v
    PROVE  Count(k) <= Count(v)
  BY DEF Count

LEMMA NamesOfVersion ==
    ASSUME NEW v \in 0 .. 8
    PROVE  First(Count(v)) = UNION {Named(k) : k \in 1 .. v}
<1>1. ASSUME NEW o \in First(Count(v))
      PROVE  \E k \in 1 .. v : o \in Named(k)
  <2>1. o \in DOMAIN Rank /\ Rank[o] \in 1 .. Count(v)
    BY RankIsOrder DEF First
  <2>2. PICK k \in 1 .. v : Count(k - 1) < Rank[o] /\ Rank[o] <= Count(k)
    BY <2>1, CountSteps
  <2> DEFINE c == Count(k - 1)
             d == Count(k)
             n == Rank[o]
             a == Alters(k)
             i == n - c + a
  <2>3. k \in 1 .. 8 /\ c \in 0 .. 31 /\ d \in 0 .. 31 /\ n \in 1 .. 31 /\ a \in 0 .. 1
    BY <2>1, CountTyped, RankIsOrder DEF Version, HeadVersion, Alters
  <2>4. Len(Upgrade[k]) = d - c + a
    BY <2>3, UpStatements
  <2>5. i \in 1 .. Len(Upgrade[k]) /\ c + i - 1 - a = n - 1 /\ ~(a = 1 /\ i = 1)
    <3>1. c < n /\ n <= d
      BY <2>2
    <3> HIDE DEF c, d, n, a
    <3> QED
      BY <2>3, <2>4, <3>1
  <2>6. ~(k = 6 /\ i = 1)
    BY <2>5 DEF Alters
  <2> HIDE DEF i
  <2>7. Creates(Upgrade[k][i], c + i - 1 - a)
    BY <2>3, <2>5, <2>6, UpStatements
  <2>8. Upgrade[k][i][2] = o
    BY <2>1, <2>3, <2>5, <2>7, RankIsOrder DEF Creates
  <2>9. i \in DOMAIN Upgrade[k]
    BY <2>3, <2>5, UpgradeDomain
  <2> QED
    BY <2>8, <2>9 DEF Named
<1>2. ASSUME NEW k \in 1 .. v, NEW o \in Named(k)
      PROVE  o \in First(Count(v))
  <2>1. PICK i \in DOMAIN Upgrade[k] : o = Upgrade[k][i][2]
    BY DEF Named
  <2>2. k \in 1 .. 8 /\ i \in 1 .. Len(Upgrade[k])
    <3>1. k \in 1 .. 8
      OBVIOUS
    <3>2. DOMAIN Upgrade[k] = 1 .. Len(Upgrade[k])
      BY <3>1, UpgradeDomain
    <3> QED
      BY <3>1, <3>2
  <2>3. Count(k) \in 0 .. 31 /\ Count(k - 1) \in 0 .. 31 /\ Count(v) \in 0 .. 31
        /\ Count(k) <= Count(v)
    <3>1. k \in 0 .. 8 /\ k - 1 \in 0 .. 8 /\ k <= v
      BY <2>2
    <3>2. Count(k) \in 0 .. 31 /\ Count(k - 1) \in 0 .. 31 /\ Count(v) \in 0 .. 31
      BY <3>1, CountTyped DEF Version, HeadVersion
    <3>3. Count(k) <= Count(v)
      BY <3>1, CountMonotone
    <3> QED
      BY <3>2, <3>3
  <2>4. CASE k = 6 /\ i = 1
    <3>1. o = "review_tasks"
      BY <2>1, <2>2, <2>4, UpStatements
    <3> QED
      BY <2>3, <2>4, <3>1 DEF First, Rank, Count
  <2>5. CASE ~(k = 6 /\ i = 1)
    <3>1. Creates(Upgrade[k][i], Count(k - 1) + i - 1 - Alters(k))
      BY <2>2, <2>5, UpStatements
    <3>2. Len(Upgrade[k]) = Count(k) - Count(k - 1) + Alters(k)
      BY <2>2, UpStatements
    <3>3. o \in DOMAIN Rank /\ Rank[o] = (Count(k - 1) + i - 1 - Alters(k)) + 1
      BY <2>1, <3>1 DEF Creates
    <3>4. Rank[o] <= Count(v)
      <4> DEFINE c == Count(k - 1)
                 d == Count(k)
                 e == Count(v)
                 a == Alters(k)
                 l == Len(Upgrade[k])
                 r == Rank[o]
      <4>1. /\ a \in 0 .. 1 /\ c \in 0 .. 31 /\ d \in 0 .. 31 /\ e \in 0 .. 31 /\ d <= e
            /\ i \in 1 .. l /\ l = d - c + a /\ r = (c + i - 1 - a) + 1
        BY <2>2, <2>3, <3>2, <3>3 DEF Alters
      <4> HIDE DEF c, d, e, a, l, r
      <4>2. r <= e
        BY <4>1
      <4> QED
        BY <4>2 DEF e, r
    <3> QED
      BY <3>3, <3>4 DEF First
  <2> QED
    BY <2>4, <2>5
<1> QED
  BY <1>1, <1>2

\* SchemaMatchesVersion: whatever upgrades, downgrades, refusals and crashes came before, the
\* schema outside a migration is the one of the recorded version, with all it refers to.
THEOREM SchemaCorrect == Spec => []SchemaMatchesVersion
<1>1. ASSUME Invariant
      PROVE  SchemaMatchesVersion
  <2> SUFFICES ASSUME ~txn.running
               PROVE  /\ schema = UNION {Named(k) : k \in 1 .. version}
                      /\ \A o \in schema : Needs(o) \subseteq schema
    BY DEF SchemaMatchesVersion, Named
  <2>1. version \in 0 .. 8 /\ schema = First(Count(version))
    BY <1>1 DEF Invariant, TxnOK, Version, HeadVersion, Reached
  <2>2. ASSUME NEW o \in schema, NEW x \in Needs(o)
        PROVE  x \in schema
    <3>1. o \in DOMAIN Rank /\ Rank[o] <= Count(version) /\ Count(version) \in 0 .. 31
      BY <2>1, CountTyped DEF First, Version, HeadVersion
    <3>2. x \in DOMAIN Rank /\ Rank[x] < Rank[o]
      BY <3>1, NeedsComeFirst
    <3> QED
      BY <2>1, <3>1, <3>2, RankIsOrder DEF First
  <2> QED
    BY <2>1, <2>2, NamesOfVersion
<1> QED
  BY <1>1, InvariantHolds, PTL

\* OnlyReviewsBlockMigration: whatever the rows are, an upgrade is never refused and a
\* downgrade only by a review task in a state that 0005 did not know.
THEOREM RefusalsCorrect == Spec => []OnlyReviewsBlockMigration
<1>1. Invariant => OnlyReviewsBlockMigration
  BY DEF Invariant
<1> QED
  BY <1>1, InvariantHolds, PTL

\* LegacyTasksStayUnapproved: no task that was there before 0006 is ever approved.
THEOREM LegacyUnapproved == Spec => []LegacyTasksStayUnapproved
<1>1. Invariant => LegacyTasksStayUnapproved
  BY DEF Invariant, RowsOK, LegacyTasksStayUnapproved
<1> QED
  BY <1>1, InvariantHolds, PTL

\* ResolutionsSurvive: no migration, finished, refused or interrupted, loses the outcome of a
\* review, although the downgrade of 0006 drops the outcomes before it checks the tasks.
THEOREM ResolutionsKept == Spec => ResolutionsSurvive
<1>1. ASSUME Invariant, [Next]_vars
      PROVE  [KeepsOutcomes]_vars
  <2>1. CASE \E v \in 0 .. HeadVersion : Begin(v)
    BY <2>1 DEF Begin, KeepsOutcomes
  <2>2. CASE Statement
    BY <1>1, <2>2, StatementTxn DEF Invariant, KeepsOutcomes
  <2>3. CASE FinishMigration
    <3>1. DOMAIN txn = {"running", "from", "to", "at", "step", "saved"}
      BY <1>1, <2>3 DEF FinishMigration, Invariant, TxnOK
    <3>2. txn.running /\ txn'.running = txn.running
      BY <2>3, <3>1 DEF FinishMigration
    <3> QED
      BY <3>2 DEF KeepsOutcomes
  <2>4. CASE CommitMigrations
    BY <1>1, <2>4, CommitKeeps DEF CommitMigrations, KeepsOutcomes
  <2>5. CASE StatementRefused
    BY <1>1, <2>5, RefusalExplained, RollbackKeeps DEF StatementRefused, KeepsOutcomes
  <2>6. CASE Crash
    BY <2>6 DEF Crash, Rollback, KeepsOutcomes
  <2>7. ASSUME NEW t \in Task,
               \/ EarlierReleaseWrites(t) \/ CreateTask(t) \/ Escalate(t)
               \/ RequestInformation(t) \/ RespondToInformation(t)
               \/ Approve(t) \/ Reject(t)
        PROVE  KeepsOutcomes
    BY <1>1, <2>7, RowStepKeeps DEF KeepsOutcomes
  <2>8. CASE UNCHANGED vars
    BY <2>8
  <2> QED
    BY <1>1, <2>1, <2>2, <2>3, <2>4, <2>5, <2>6, <2>7, <2>8 DEF Next
<1> QED
  BY <1>1, InvariantHolds, PTL DEF Spec, ResolutionsSurvive
=============================================================================
