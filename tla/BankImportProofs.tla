-------------------------- MODULE BankImportProofs --------------------------
(***************************************************************************)
(* Proofs about BankImport for any number of concurrent requests and any   *)
(* batches.  The argument is the one of the database: a key that an open   *)
(* transaction has inserted keeps every other transaction from inserting   *)
(* it, so what a request has inserted is apart from what is stored and     *)
(* from what the others have inserted, and stays so until it commits.      *)
(***************************************************************************)
EXTENDS BankImport, FiniteSetTheorems, TLAPS

RequestState ==
    [state : {"new", "check", "insert_batch", "insert_rows", "done"},
     batch : Batches \cup {None}, next : Nat,
     answer : {"none", "created", "replayed", "failed", "bank_import_batch_conflict",
               "bank_transaction_already_imported", "bank_import_conflict"},
     identity : Request \cup {None}]
Entry == [batch : Batches, identity : Request]

\* No source is listed twice among the first n rows.
DistinctUpTo(b, n) ==
    \A i, j \in 1 .. n : b.rows[i].source = b.rows[j].source => i = j

\* q is the state of a request: how far it is.
Progress(q) ==
    /\ q.state = "new" => q.next = 1 /\ q.answer = "none"
    /\ q.state # "new" => q.batch \in Batches
    /\ q.state # "done" => q.answer = "none"
    /\ q.state = "check" => q.next \in 1 .. Len(q.batch.rows)
    /\ q.state = "insert_batch" => q.next = 1
    /\ q.state = "insert_rows" =>
          q.next \in 1 .. Len(q.batch.rows) + 1 /\ DistinctUpTo(q.batch, q.next - 1)

\* The sources a request has inserted and not committed.
Held(q) ==
    IF q.state = "insert_rows" THEN {q.batch.rows[i].source : i \in 1 .. q.next - 1} ELSE {}

\* What a request has inserted is not stored.
NotStored(q, S) ==
    q.state = "insert_rows" =>
        \A e \in S : e.batch.ref # q.batch.ref /\ Sources(e.batch) \cap Held(q) = {}

\* Two open transactions have inserted different keys.
ApartFrom(q, p) ==
    q.state = "insert_rows" /\ p.state = "insert_rows" =>
        q.batch.ref # p.batch.ref /\ Held(q) \cap Held(p) = {}

\* The answer q of request r has its cause in S.
Truthful(r, q, S) ==
    LET b == q.batch
        a == q.answer
    IN  /\ a \in {"created", "replayed"} =>
              /\ \E e \in S :
                    /\ e.identity = q.identity
                    /\ e.batch.ref = b.ref /\ e.batch.period = b.period
                    /\ Len(e.batch.rows) = Len(b.rows) /\ Rows(b) \subseteq Rows(e.batch)
                    /\ RepeatsSource(b) \/ SameBatch(e.batch, b)
              /\ a = "created" <=> q.identity = r
        /\ a = "bank_import_batch_conflict" =>
              \E e \in S : e.batch.ref = b.ref /\ ~SameBatch(e.batch, b)
        /\ a \in {"bank_transaction_already_imported", "bank_import_conflict"} =>
              \/ \E e \in S : e.batch.ref = b.ref \/ Sources(e.batch) \cap Sources(b) # {}
              \/ RepeatsSource(b)

\* No batch and no transaction is stored twice, and a stored batch was
\* committed by a request that is over.
StoredApart ==
    /\ \A e, f \in stored :
          e.batch.ref = f.batch.ref \/ Sources(e.batch) \cap Sources(f.batch) # {} => e = f
    /\ \A e \in stored :
          DistinctUpTo(e.batch, Len(e.batch.rows)) /\ request[e.identity].state = "done"

Invariant ==
    /\ stored \subseteq Entry
    /\ request \in [Request -> RequestState]
    /\ StoredApart
    /\ \A r \in Request :
          Progress(request[r]) /\ NotStored(request[r], stored) /\ Truthful(r, request[r], stored)
    /\ \A r, p \in Request : r # p => ApartFrom(request[r], request[p])

-----------------------------------------------------------------------------
\* A batch has as many sources as transactions exactly when it repeats none.
LEMMA SourceCount ==
    ASSUME NEW b \in Batches
    PROVE  /\ IsFiniteSet(Sources(b))
           /\ Cardinality(Sources(b)) <= Len(b.rows)
           /\ Cardinality(Sources(b)) = Len(b.rows) <=> DistinctUpTo(b, Len(b.rows))
<1> DEFINE n == Len(b.rows)
           f == [i \in 1 .. n |-> b.rows[i].source]
<1>1. n \in Nat /\ DOMAIN b.rows = 1 .. n
  BY BatchesAssumption DEF Batch
<1>2. Sources(b) = {b.rows[i].source : i \in 1 .. n}
  BY <1>1 DEF Sources, Rows
<1>3. f \in Surjection(1 .. n, Sources(b))
  BY <1>1, <1>2 DEF Surjection
<1>4. IsFiniteSet(1 .. n) /\ Cardinality(1 .. n) = n
  BY <1>1, FS_Interval
<1>5. /\ IsFiniteSet(Sources(b)) /\ Cardinality(Sources(b)) <= n
      /\ Cardinality(Sources(b)) = n <=> f \in Injection(1 .. n, Sources(b))
  BY <1>3, <1>4, FS_Surjection
<1>6. f \in Injection(1 .. n, Sources(b)) <=> DistinctUpTo(b, n)
  BY <1>3 DEF Injection, Surjection, IsInjective, DistinctUpTo
<1> QED
  BY <1>5, <1>6

\* The same of its rows: one direction is needed.
LEMMA RowCount ==
    ASSUME NEW b \in Batches
    PROVE  /\ IsFiniteSet(Rows(b))
           /\ Cardinality(Rows(b)) <= Len(b.rows)
           /\ DistinctUpTo(b, Len(b.rows)) => Cardinality(Rows(b)) = Len(b.rows)
<1> DEFINE n == Len(b.rows)
           f == [i \in 1 .. n |-> b.rows[i]]
<1>1. n \in Nat /\ DOMAIN b.rows = 1 .. n
  BY BatchesAssumption DEF Batch
<1>2. f \in Surjection(1 .. n, Rows(b))
  BY <1>1 DEF Surjection, Rows
<1>3. IsFiniteSet(1 .. n) /\ Cardinality(1 .. n) = n
  BY <1>1, FS_Interval
<1>4. /\ IsFiniteSet(Rows(b)) /\ Cardinality(Rows(b)) <= n
      /\ Cardinality(Rows(b)) = n <=> f \in Injection(1 .. n, Rows(b))
  BY <1>2, <1>3, FS_Surjection
<1>5. DistinctUpTo(b, n) => f \in Injection(1 .. n, Rows(b))
  BY <1>2 DEF Injection, Surjection, IsInjective, DistinctUpTo
<1> QED
  BY <1>4, <1>5

\* What is known of the length of a batch and of its sources.
LEMMA BatchFacts ==
    ASSUME NEW b \in Batches
    PROVE  /\ Len(b.rows) \in Nat /\ Len(b.rows) >= 1 /\ DOMAIN b.rows = 1 .. Len(b.rows)
           /\ Sources(b) = {b.rows[i].source : i \in 1 .. Len(b.rows)}
           /\ RepeatsSource(b) <=> ~DistinctUpTo(b, Len(b.rows))
<1>1. b \in Batch /\ b.rows # <<>>
  BY BatchesAssumption
<1>2. Len(b.rows) \in Nat /\ Len(b.rows) >= 1 /\ DOMAIN b.rows = 1 .. Len(b.rows)
  BY <1>1 DEF Batch
<1>3. Cardinality(Sources(b)) \in Nat
  BY SourceCount, FS_CardinalityType
<1> QED
  BY <1>2, <1>3, SourceCount DEF Sources, Rows, RepeatsSource

\* _matches_existing_batch compares with a stored batch, which repeats nothing:
\* what it passes is the same batch, unless the one sent repeats a source.
LEMMA MatchIsSame ==
    ASSUME NEW b \in Batches, NEW c \in Batches, b.ref = c.ref,
           MatchesExistingBatch(b, c), ~RepeatsSource(b)
    PROVE  SameBatch(c, b)
<1>1. Len(c.rows) = Len(b.rows) /\ c.period = b.period /\ Rows(b) \subseteq Rows(c)
  BY DEF MatchesExistingBatch
<1>2. Len(b.rows) \in Nat /\ DistinctUpTo(b, Len(b.rows))
  BY BatchFacts
<1>3. Cardinality(Rows(b)) = Len(b.rows)
  BY <1>2, RowCount
<1>4. IsFiniteSet(Rows(c)) /\ Cardinality(Rows(c)) <= Len(c.rows)
  BY RowCount
<1>5. Cardinality(Rows(b)) <= Cardinality(Rows(c)) /\ Cardinality(Rows(c)) \in Nat
  BY <1>1, <1>4, FS_Subset, FS_CardinalityType
<1>6. Cardinality(Rows(c)) = Cardinality(Rows(b))
  BY <1>1, <1>2, <1>3, <1>4, <1>5
<1>7. Rows(c) = Rows(b)
  BY <1>1, <1>4, <1>6, FS_Subset
<1> QED
  BY <1>1, <1>7 DEF SameBatch

LEMMA InitInvariant == Init => Invariant
<1> SUFFICES ASSUME Init PROVE Invariant
  OBVIOUS
<1>1. request \in [Request -> RequestState]
  BY DEF Init, RequestState
<1>2. ASSUME NEW r \in Request
      PROVE  request[r].state = "new" /\ request[r].next = 1 /\ request[r].answer = "none"
  BY DEF Init
<1>3. stored = {}
  BY DEF Init
<1>4. StoredApart
  BY <1>3 DEF StoredApart
<1>5. ASSUME NEW r \in Request
      PROVE  Progress(request[r]) /\ NotStored(request[r], stored) /\ Truthful(r, request[r], stored)
  BY <1>2 DEF Progress, NotStored, Truthful
<1>6. ASSUME NEW r \in Request, NEW p \in Request PROVE ApartFrom(request[r], request[p])
  BY <1>2 DEF ApartFrom
<1> QED
  BY <1>1, <1>3, <1>4, <1>5, <1>6 DEF Invariant

\* What the invariant says of one request.
LEMMA RequestFacts ==
    ASSUME Invariant, NEW r \in Request
    PROVE  /\ request[r] \in RequestState /\ Progress(request[r])
           /\ NotStored(request[r], stored) /\ Truthful(r, request[r], stored)
           /\ InsertedSources(r) = Held(request[r])
           /\ request[r].next \in Nat
           /\ \A p \in Request : r # p => ApartFrom(request[r], request[p])
  BY DEF Invariant, InsertedSources, Held, RequestState

\* A step of one request that stores nothing keeps the invariant if it leaves
\* that request consistent and apart from the others.
LEMMA RequestStep ==
    ASSUME Invariant, NEW r \in Request, NEW q \in RequestState,
           request[r].state # "done", stored' = stored,
           request' = [request EXCEPT ![r] = q],
           Progress(q), NotStored(q, stored), Truthful(r, q, stored),
           \A p \in Request : p # r => ApartFrom(q, request[p])
    PROVE  Invariant'
<1>1. request' \in [Request -> RequestState] /\ request'[r] = q
      /\ \A p \in Request : p # r => request'[p] = request[p]
  BY DEF Invariant
<1>2. StoredApart'
  BY <1>1 DEF Invariant, StoredApart, Entry
<1>3. ASSUME NEW p \in Request
      PROVE  (Progress(request[p]) /\ NotStored(request[p], stored) /\ Truthful(p, request[p], stored))'
  <2>1. CASE p = r
    BY <1>1, <2>1
  <2>2. CASE p # r
    BY <1>1, <2>2, RequestFacts
  <2> QED
    BY <2>1, <2>2
<1>4. ASSUME NEW p \in Request, NEW s \in Request, p # s PROVE ApartFrom(request[p], request[s])'
  <2>1. ApartFrom(request[p], request[s])
    BY <1>4 DEF Invariant
  <2>2. CASE p = r
    BY <1>1, <1>4, <2>2
  <2>3. CASE s = r
    BY <1>1, <1>4, <2>3 DEF ApartFrom
  <2> QED
    BY <1>1, <2>1, <2>2, <2>3
<1> QED
  BY <1>1, <1>2, <1>3, <1>4 DEF Invariant

\* A request that ends with nothing stored releases what it had inserted.
LEMMA RequestEnds ==
    ASSUME Invariant, NEW r \in Request, request[r].state \notin {"new", "done"},
           NEW a \in {"failed", "bank_transaction_already_imported", "bank_import_conflict"},
           a # "failed" =>
              \/ \E e \in stored : \/ e.batch.ref = request[r].batch.ref
                                   \/ Sources(e.batch) \cap Sources(request[r].batch) # {}
              \/ RepeatsSource(request[r].batch),
           End(r, a, None), stored' = stored
    PROVE  Invariant'
<1> DEFINE q == [request[r] EXCEPT !.state = "done", !.answer = a, !.identity = None]
<1>1. request[r] \in RequestState /\ Progress(request[r])
  BY RequestFacts
<1>2. request' = [request EXCEPT ![r] = q]
  BY DEF End
<1>3. q \in RequestState /\ q.state = "done" /\ q.answer = a /\ q.batch = request[r].batch
  BY <1>1 DEF RequestState
<1> HIDE DEF q
<1>4. Progress(q) /\ NotStored(q, stored) /\ \A p \in Request : ApartFrom(q, request[p])
  BY <1>1, <1>3 DEF Progress, NotStored, ApartFrom
<1>5. Truthful(r, q, stored)
  BY <1>3 DEF Truthful
<1> QED
  BY <1>2, <1>3, <1>4, <1>5, RequestStep

LEMMA LookUpStep ==
    ASSUME Invariant, NEW r \in Request, NEW b \in Batches, LookUpBatch(r, b)
    PROVE  Invariant'
<1>1. /\ request[r] \in RequestState /\ Progress(request[r]) /\ request[r].state = "new"
      /\ stored' = stored
  BY RequestFacts DEF LookUpBatch
<1>2. request[r].next = 1 /\ request[r].answer = "none" /\ request[r].identity \in Request \cup {None}
  BY <1>1 DEF Progress, RequestState
<1>3. Len(b.rows) \in Nat /\ Len(b.rows) >= 1
  BY BatchFacts
<1>4. CASE request' = [request EXCEPT ![r].state = "check", ![r].batch = b]
  <2> DEFINE q == [request[r] EXCEPT !.state = "check", !.batch = b]
  <2>1. /\ q \in RequestState /\ q.state = "check" /\ q.batch = b /\ q.next = 1
        /\ q.answer = "none"
    BY <1>1, <1>2 DEF RequestState
  <2>2. request' = [request EXCEPT ![r] = q]
    BY <1>4
  <2> HIDE DEF q
  <2>3. Progress(q) /\ NotStored(q, stored) /\ \A p \in Request : ApartFrom(q, request[p])
    BY <1>3, <2>1 DEF Progress, NotStored, ApartFrom
  <2>4. Truthful(r, q, stored)
    BY <2>1 DEF Truthful
  <2> QED
    BY <1>1, <2>1, <2>2, <2>3, <2>4, RequestStep
<1>5. ASSUME NEW e \in stored, e.batch.ref = b.ref,
             request' = [request EXCEPT ![r] =
                  IF MatchesExistingBatch(b, e.batch)
                    THEN [@ EXCEPT !.state = "done", !.batch = b,
                                   !.answer = "replayed", !.identity = e.identity]
                    ELSE [@ EXCEPT !.state = "done", !.batch = b,
                                   !.answer = "bank_import_batch_conflict"]]
      PROVE  Invariant'
  <2>1. e \in Entry /\ e.batch \in Batches /\ e.identity \in Request /\ e.identity # r
    BY <1>1, <1>5 DEF Invariant, Entry, StoredApart
  <2>2. CASE MatchesExistingBatch(b, e.batch)
    <3> DEFINE q == [request[r] EXCEPT !.state = "done", !.batch = b,
                                       !.answer = "replayed", !.identity = e.identity]
    <3>1. /\ q \in RequestState /\ q.state = "done" /\ q.batch = b
          /\ q.answer = "replayed" /\ q.identity = e.identity
      BY <1>1, <2>1 DEF RequestState
    <3>2. request' = [request EXCEPT ![r] = q]
      BY <1>5, <2>2
    <3> HIDE DEF q
    <3>3. Progress(q) /\ NotStored(q, stored) /\ \A p \in Request : ApartFrom(q, request[p])
      BY <3>1 DEF Progress, NotStored, ApartFrom
    <3>4. RepeatsSource(b) \/ SameBatch(e.batch, b)
      BY <1>5, <2>1, <2>2, MatchIsSame
    <3>5. Truthful(r, q, stored)
      BY <1>5, <2>1, <2>2, <3>1, <3>4 DEF Truthful, MatchesExistingBatch
    <3> QED
      BY <1>1, <3>1, <3>2, <3>3, <3>5, RequestStep
  <2>3. CASE ~MatchesExistingBatch(b, e.batch)
    <3> DEFINE q == [request[r] EXCEPT !.state = "done", !.batch = b,
                                       !.answer = "bank_import_batch_conflict"]
    <3>1. /\ q \in RequestState /\ q.state = "done" /\ q.batch = b
          /\ q.answer = "bank_import_batch_conflict"
      BY <1>1, <2>1 DEF RequestState
    <3>2. request' = [request EXCEPT ![r] = q]
      BY <1>5, <2>3
    <3> HIDE DEF q
    <3>3. Progress(q) /\ NotStored(q, stored) /\ \A p \in Request : ApartFrom(q, request[p])
      BY <3>1 DEF Progress, NotStored, ApartFrom
    <3>4. ~SameBatch(e.batch, b)
      BY <2>3 DEF SameBatch, MatchesExistingBatch
    <3>5. Truthful(r, q, stored)
      BY <1>5, <3>1, <3>4 DEF Truthful
    <3> QED
      BY <1>1, <3>1, <3>2, <3>3, <3>5, RequestStep
  <2> QED
    BY <2>2, <2>3
<1> QED
  BY <1>4, <1>5 DEF LookUpBatch

LEMMA CheckStep ==
    ASSUME Invariant, NEW r \in Request, CheckTransaction(r)
    PROVE  Invariant'
<1> DEFINE b == request[r].batch
           n == request[r].next
<1>1. /\ request[r] \in RequestState /\ Progress(request[r]) /\ request[r].state = "check"
      /\ stored' = stored
  BY RequestFacts DEF CheckTransaction
<1>2. b \in Batches /\ n \in 1 .. Len(b.rows) /\ request[r].answer = "none"
  BY <1>1 DEF Progress
<1>3. Len(b.rows) \in Nat /\ Sources(b) = {b.rows[i].source : i \in 1 .. Len(b.rows)}
  BY <1>2, BatchFacts
<1>4. CASE b.rows[n].source \in StoredSources /\ End(r, "bank_transaction_already_imported", None)
  <2>1. b.rows[n].source \in Sources(b)
    BY <1>2, <1>3
  <2>2. \E e \in stored : Sources(e.batch) \cap Sources(b) # {}
    BY <1>4, <2>1 DEF StoredSources
  <2> QED
    BY <1>1, <1>4, <2>2, RequestEnds
<1>5. ASSUME NEW q \in RequestState, request' = [request EXCEPT ![r] = q],
             q.batch = b, q.answer = "none",
             \/ q.state = "check" /\ q.next \in 1 .. Len(b.rows)
             \/ q.state = "insert_batch" /\ q.next = 1
      PROVE  Invariant'
  <2>1. Progress(q) /\ NotStored(q, stored) /\ \A p \in Request : ApartFrom(q, request[p])
    BY <1>2, <1>5 DEF Progress, NotStored, ApartFrom
  <2>2. Truthful(r, q, stored)
    BY <1>5 DEF Truthful
  <2> QED
    BY <1>1, <1>5, <2>1, <2>2, RequestStep
<1>6. CASE request' = [request EXCEPT ![r] =
                  IF n < Len(b.rows) THEN [@ EXCEPT !.next = n + 1]
                  ELSE [@ EXCEPT !.state = "insert_batch", !.next = 1]]
  <2>1. CASE n < Len(b.rows)
    <3> DEFINE q == [request[r] EXCEPT !.next = n + 1]
    <3>1. request' = [request EXCEPT ![r] = q]
      BY <1>6, <2>1
    <3>2. q \in RequestState /\ q.batch = b /\ q.answer = "none" /\ q.state = "check" /\ q.next = n + 1
      BY <1>1, <1>2 DEF RequestState
    <3>3. n + 1 \in 1 .. Len(b.rows)
      BY <1>2, <1>3, <2>1
    <3> HIDE DEF q
    <3> QED
      BY <1>5, <3>1, <3>2, <3>3
  <2>2. CASE ~(n < Len(b.rows))
    <3> DEFINE q == [request[r] EXCEPT !.state = "insert_batch", !.next = 1]
    <3>1. request' = [request EXCEPT ![r] = q]
      BY <1>6, <2>2
    <3>2. /\ q \in RequestState /\ q.batch = b /\ q.answer = "none" /\ q.state = "insert_batch"
          /\ q.next = 1
      BY <1>1, <1>2 DEF RequestState
    <3> HIDE DEF q
    <3> QED
      BY <1>5, <3>1, <3>2
  <2> QED
    BY <2>1, <2>2
<1> QED
  BY <1>4, <1>6 DEF CheckTransaction

LEMMA InsertBatchStep ==
    ASSUME Invariant, NEW r \in Request, InsertBatch(r)
    PROVE  Invariant'
<1> DEFINE b == request[r].batch
<1>1. /\ request[r] \in RequestState /\ Progress(request[r]) /\ request[r].state = "insert_batch"
      /\ stored' = stored /\ ~Waits(r)
  BY RequestFacts DEF InsertBatch
<1>2. b \in Batches /\ request[r].next = 1 /\ request[r].answer = "none"
  BY <1>1 DEF Progress
<1>3. CASE b.ref \in StoredRefs /\ End(r, "bank_import_conflict", None)
  <2>1. \E e \in stored : e.batch.ref = b.ref
    BY <1>3 DEF StoredRefs
  <2> QED
    BY <1>1, <1>3, <2>1, RequestEnds
<1>4. CASE b.ref \notin StoredRefs /\ request' = [request EXCEPT ![r].state = "insert_rows"]
  <2> DEFINE q == [request[r] EXCEPT !.state = "insert_rows"]
  <2>1. request' = [request EXCEPT ![r] = q]
    BY <1>4
  <2>2. q \in RequestState /\ q.batch = b /\ q.answer = "none" /\ q.state = "insert_rows" /\ q.next = 1
    BY <1>1, <1>2 DEF RequestState
  <2> HIDE DEF q
  <2>3. Held(q) = {}
    BY <2>2 DEF Held
  <2>4. Progress(q)
    <3>1. Len(b.rows) \in Nat
      BY <1>2, BatchFacts
    <3>2. 1 \in 1 .. Len(b.rows) + 1
      BY <3>1
    <3> QED
      BY <1>2, <2>2, <3>2 DEF Progress, DistinctUpTo
  <2>5. NotStored(q, stored)
    BY <1>4, <2>2, <2>3 DEF NotStored, StoredRefs
  <2>6. ASSUME NEW p \in Request, p # r PROVE ApartFrom(q, request[p])
    <3>1. ~WaitsFor(r, p)
      BY <1>1 DEF Waits
    <3>2. ~(request[p].state = "insert_rows" /\ request[p].batch.ref = b.ref)
      BY <1>1, <2>6, <3>1 DEF WaitsFor, HasInsertedRef
    <3> QED
      BY <2>2, <2>3, <3>2 DEF ApartFrom
  <2>7. Truthful(r, q, stored)
    BY <2>2 DEF Truthful
  <2> QED
    BY <1>1, <2>1, <2>2, <2>4, <2>5, <2>6, <2>7, RequestStep
<1> QED
  BY <1>3, <1>4 DEF InsertBatch

LEMMA InsertTransactionStep ==
    ASSUME Invariant, NEW r \in Request, InsertTransaction(r)
    PROVE  Invariant'
<1> DEFINE b == request[r].batch
           n == request[r].next
           s == b.rows[n].source
<1>1. /\ request[r] \in RequestState /\ Progress(request[r]) /\ request[r].state = "insert_rows"
      /\ NotStored(request[r], stored) /\ InsertedSources(r) = Held(request[r])
      /\ \A p \in Request : r # p => ApartFrom(request[r], request[p])
      /\ stored' = stored /\ ~Waits(r) /\ n <= Len(b.rows)
  BY RequestFacts DEF InsertTransaction
<1>2. /\ b \in Batches /\ n \in 1 .. Len(b.rows) + 1 /\ request[r].answer = "none"
      /\ DistinctUpTo(b, n - 1)
  BY <1>1 DEF Progress
<1>3. /\ Len(b.rows) \in Nat /\ Sources(b) = {b.rows[i].source : i \in 1 .. Len(b.rows)}
      /\ RepeatsSource(b) <=> ~DistinctUpTo(b, Len(b.rows))
  BY <1>2, BatchFacts
<1>4. n \in 1 .. Len(b.rows) /\ n \in Nat /\ s \in Sources(b)
  BY <1>1, <1>2, <1>3
<1>5. Held(request[r]) = {b.rows[i].source : i \in 1 .. n - 1}
  BY <1>1 DEF Held
<1>6. CASE s \in StoredSources \cup InsertedSources(r) /\ End(r, "bank_import_conflict", None)
  <2>1. CASE s \in StoredSources
    <3>1. \E e \in stored : Sources(e.batch) \cap Sources(b) # {}
      BY <1>4, <2>1 DEF StoredSources
    <3> QED
      BY <1>1, <1>6, <3>1, RequestEnds
  <2>2. CASE s \in InsertedSources(r)
    <3>1. PICK i \in 1 .. n - 1 : b.rows[i].source = s
      BY <1>1, <1>5, <2>2
    <3>2. i \in 1 .. Len(b.rows) /\ i # n
      BY <1>3, <1>4, <3>1
    <3>3. RepeatsSource(b)
      BY <1>3, <1>4, <3>1, <3>2 DEF DistinctUpTo
    <3> QED
      BY <1>1, <1>6, <3>3, RequestEnds
  <2> QED
    BY <1>6, <2>1, <2>2
<1>7. CASE s \notin StoredSources \cup InsertedSources(r) /\ request' = [request EXCEPT ![r].next = @ + 1]
  <2> DEFINE q == [request[r] EXCEPT !.next = n + 1]
  <2>1. request' = [request EXCEPT ![r] = q]
    BY <1>7
  <2>2. /\ q \in RequestState /\ q.batch = b /\ q.answer = "none" /\ q.state = "insert_rows"
        /\ q.next = n + 1
    BY <1>1, <1>2, <1>4 DEF RequestState
  <2> HIDE DEF q
  <2>3. Held(q) = Held(request[r]) \cup {s}
    <3>1. Held(q) = {b.rows[i].source : i \in 1 .. n}
      BY <1>4, <2>2 DEF Held
    <3>2. 1 .. n = (1 .. n - 1) \cup {n}
      BY <1>4
    <3> QED
      BY <1>5, <3>1, <3>2
  <2>4. DistinctUpTo(b, n)
    <3> SUFFICES ASSUME NEW i \in 1 .. n, NEW j \in 1 .. n, b.rows[i].source = b.rows[j].source
                 PROVE  i = j
      BY DEF DistinctUpTo
    <3>1. \A k \in 1 .. n - 1 : b.rows[k].source # s
      BY <1>1, <1>5, <1>7
    <3>2. i \in 1 .. n - 1 \/ i = n
      BY <1>4
    <3>3. j \in 1 .. n - 1 \/ j = n
      BY <1>4
    <3> QED
      BY <1>2, <3>1, <3>2, <3>3 DEF DistinctUpTo
  <2>5. Progress(q)
    <3>1. n + 1 \in 1 .. Len(b.rows) + 1 /\ (n + 1) - 1 = n
      <4> DEFINE len == Len(b.rows)
      <4>1. len \in Nat /\ n \in 1 .. len
        BY <1>3, <1>4
      <4> HIDE DEF n, len
      <4>2. n + 1 \in 1 .. len + 1 /\ (n + 1) - 1 = n
        BY <4>1
      <4> QED
        BY <4>2 DEF len
    <3> QED
      BY <1>2, <2>2, <2>4, <3>1 DEF Progress
  <2>6. NotStored(q, stored)
    <3>1. \A e \in stored : s \notin Sources(e.batch)
      BY <1>7 DEF StoredSources
    <3> QED
      BY <1>1, <2>2, <2>3, <3>1 DEF NotStored
  <2>7. ASSUME NEW p \in Request, p # r PROVE ApartFrom(q, request[p])
    <3>1. ~WaitsFor(r, p) /\ InsertedSources(p) = Held(request[p])
      BY <1>1, RequestFacts DEF Waits
    <3>2. s \notin Held(request[p])
      BY <1>1, <2>7, <3>1 DEF WaitsFor
    <3>3. ApartFrom(request[r], request[p])
      BY <1>1, <2>7
    <3> QED
      BY <1>1, <2>2, <2>3, <3>2, <3>3 DEF ApartFrom
  <2>8. Truthful(r, q, stored)
    BY <2>2 DEF Truthful
  <2> QED
    BY <1>1, <2>1, <2>2, <2>5, <2>6, <2>7, <2>8, RequestStep
<1> QED
  BY <1>6, <1>7 DEF InsertTransaction

\* An answer that has its cause in what is stored keeps it when more is stored.
LEMMA TruthLasts ==
    ASSUME NEW r, NEW q, NEW S, NEW T, S \subseteq T, Truthful(r, q, S)
    PROVE  Truthful(r, q, T)
  BY DEF Truthful

LEMMA CommitStep ==
    ASSUME Invariant, NEW r \in Request, Commit(r)
    PROVE  Invariant'
<1> DEFINE b == request[r].batch
           entry == [batch |-> b, identity |-> r]
           q == [request[r] EXCEPT !.state = "done", !.answer = "created", !.identity = r]
<1>1. /\ request[r] \in RequestState /\ Progress(request[r]) /\ request[r].state = "insert_rows"
      /\ NotStored(request[r], stored)
      /\ \A p \in Request : r # p => ApartFrom(request[r], request[p])
      /\ request[r].next > Len(b.rows)
  BY RequestFacts DEF Commit
<1>2. /\ b \in Batches /\ request[r].next \in 1 .. Len(b.rows) + 1
      /\ DistinctUpTo(b, request[r].next - 1)
  BY <1>1 DEF Progress
<1>3. Len(b.rows) \in Nat /\ Sources(b) = {b.rows[i].source : i \in 1 .. Len(b.rows)}
  BY <1>2, BatchFacts
<1>4. request[r].next - 1 = Len(b.rows)
  BY <1>1, <1>2, <1>3
<1>5. Held(request[r]) = Sources(b) /\ DistinctUpTo(b, Len(b.rows))
  BY <1>1, <1>2, <1>3, <1>4 DEF Held
<1>6. stored' = stored \cup {entry} /\ request' = [request EXCEPT ![r] = q]
  BY DEF Commit, End
<1>7. /\ q \in RequestState /\ q.state = "done" /\ q.answer = "created" /\ q.batch = b
      /\ q.identity = r
  BY <1>1 DEF RequestState
<1>8. entry \in Entry /\ entry.batch = b /\ entry.identity = r
  BY <1>2 DEF Entry
<1> HIDE DEF q, entry
<1>9. /\ request' \in [Request -> RequestState] /\ request'[r] = q
      /\ \A p \in Request : p # r => request'[p] = request[p]
  BY <1>6, <1>7 DEF Invariant
<1>10. stored' \subseteq Entry
  BY <1>6, <1>8 DEF Invariant
<1>11. \A e \in stored : e.batch.ref # b.ref /\ Sources(e.batch) \cap Sources(b) = {}
  BY <1>1, <1>5 DEF NotStored
<1>12. StoredApart'
  <2>1. ASSUME NEW e \in stored', NEW f \in stored',
               e.batch.ref = f.batch.ref \/ Sources(e.batch) \cap Sources(f.batch) # {}
        PROVE  e = f
    <3>1. CASE e \in stored /\ f \in stored
      BY <2>1, <3>1 DEF Invariant, StoredApart
    <3>2. CASE e = entry /\ f \in stored
      <4>1. f.batch.ref # b.ref /\ Sources(b) \cap Sources(f.batch) = {}
        BY <1>11, <3>2
      <4> QED
        BY <1>8, <2>1, <3>2, <4>1
    <3>3. CASE e \in stored /\ f = entry
      BY <1>8, <1>11, <2>1, <3>3
    <3> QED
      BY <1>6, <3>1, <3>2, <3>3
  <2>2. ASSUME NEW e \in stored'
        PROVE  DistinctUpTo(e.batch, Len(e.batch.rows)) /\ request'[e.identity].state = "done"
    <3>1. CASE e = entry
      BY <1>5, <1>7, <1>8, <1>9, <3>1
    <3>2. CASE e \in stored
      <4>1. /\ e.identity \in Request /\ request[e.identity].state = "done"
            /\ DistinctUpTo(e.batch, Len(e.batch.rows))
        BY <3>2 DEF Invariant, StoredApart, Entry
      <4> QED
        BY <1>1, <1>9, <4>1
    <3> QED
      BY <1>6, <3>1, <3>2
  <2> QED
    BY <2>1, <2>2 DEF StoredApart
<1>13. ASSUME NEW p \in Request
       PROVE  Progress(request'[p]) /\ NotStored(request'[p], stored') /\ Truthful(p, request'[p], stored')
  <2>1. CASE p = r
    <3>1. Progress(q) /\ NotStored(q, stored')
      BY <1>2, <1>7 DEF Progress, NotStored
    <3>2. SameBatch(entry.batch, b) /\ entry \in stored'
      BY <1>6, <1>8 DEF SameBatch
    <3>3. Truthful(r, q, stored')
      BY <1>7, <1>8, <3>2 DEF Truthful, SameBatch
    <3> QED
      BY <1>9, <2>1, <3>1, <3>3
  <2>2. CASE p # r
    <3>1. /\ Progress(request[p]) /\ NotStored(request[p], stored)
          /\ Truthful(p, request[p], stored) /\ ApartFrom(request[r], request[p])
      BY <1>1, <2>2, RequestFacts
    <3>2. Truthful(p, request[p], stored')
      BY <1>6, <3>1, TruthLasts
    <3>3. request[p].state = "insert_rows" =>
             b.ref # request[p].batch.ref /\ Sources(b) \cap Held(request[p]) = {}
      BY <1>1, <1>5, <3>1 DEF ApartFrom
    <3>4. NotStored(request[p], stored')
      BY <1>6, <1>8, <3>1, <3>3 DEF NotStored
    <3> QED
      BY <1>9, <2>2, <3>1, <3>2, <3>4
  <2> QED
    BY <2>1, <2>2
<1>14. ASSUME NEW p \in Request, NEW s \in Request, p # s PROVE ApartFrom(request'[p], request'[s])
  <2>1. ApartFrom(request[p], request[s])
    BY <1>14 DEF Invariant
  <2> QED
    BY <1>7, <1>9, <2>1 DEF ApartFrom
<1> QED
  BY <1>9, <1>10, <1>12, <1>13, <1>14 DEF Invariant

LEMMA NextStep ==
    ASSUME Invariant, [Next]_vars
    PROVE  Invariant'
<1>1. CASE UNCHANGED vars
  BY <1>1 DEF vars, Invariant, StoredApart
<1>2. ASSUME NEW r \in Request, Deadlock(r) \/ Fail(r) PROVE Invariant'
  <2>1. request[r].state \notin {"new", "done"} /\ End(r, "failed", None) /\ stored' = stored
    BY <1>2 DEF Deadlock, Fail, WaitsFor
  <2> QED
    BY <2>1, RequestEnds
<1> QED
  BY <1>1, <1>2, LookUpStep, CheckStep, InsertBatchStep, InsertTransactionStep, CommitStep
  DEF Next, Step

\* The invariant the results below rest on.
THEOREM InvariantHolds == Spec => []Invariant
  BY InitInvariant, NextStep, PTL DEF Spec

\* However many requests import overlapping batches at once, and in whatever
\* order, uq_bank_import_batches_provider_reference and
\* uq_bank_transactions_source_identity leave no batch and no transaction twice.
THEOREM ImportsOnce == Spec => []ImportedOnce
<1>1. Invariant => ImportedOnce
  <2> SUFFICES ASSUME Invariant PROVE ImportedOnce
    OBVIOUS
  <2>1. ASSUME NEW e \in stored PROVE Cardinality(Sources(e.batch)) = Len(e.batch.rows)
    <3>1. e.batch \in Batches /\ DistinctUpTo(e.batch, Len(e.batch.rows))
      BY DEF Invariant, StoredApart, Entry
    <3> QED
      BY <3>1, SourceCount
  <2> QED
    BY <2>1 DEF Invariant, StoredApart, ImportedOnce
<1> QED
  BY <1>1, InvariantHolds, PTL

\* Every answer of persist_import_batch is true when it is given and stays true.
THEOREM AnswersTruthful == Spec => []AnswersAreTruthful
<1>1. Invariant => AnswersAreTruthful
  <2> SUFFICES ASSUME Invariant PROVE AnswersAreTruthful
    OBVIOUS
  <2>1. \A r \in Request : Truthful(r, request[r], stored)
    BY DEF Invariant
  <2> QED
    BY <2>1 DEF AnswersAreTruthful, Truthful
<1> QED
  BY <1>1, InvariantHolds, PTL
=============================================================================
