----------------------------- MODULE BankImport -----------------------------
(***************************************************************************)
(* ReconciliationApiService.persist_import_batch: concurrent imports of    *)
(* provider batches for one client, provider and account.                  *)
(*                                                                         *)
(* A request first looks its batch and its transactions up, one query      *)
(* after another and without a lock.  Commit then inserts the batch and    *)
(* its transactions row by row.  An insert whose unique key another open   *)
(* transaction has inserted waits for that one to end; it fails if the key *)
(* is committed.  The rows of a request become visible all together.       *)
(***************************************************************************)
EXTENDS Naturals, Sequences, FiniteSets

CONSTANTS
    Request,      \* import requests, one database session each
    Ref,          \* provider batch references
    Source,       \* source transaction identifiers, surrounding blanks removed
    Value,        \* everything else about a transaction
    Period,       \* the provider version and period of a batch
    Batches,      \* the batches requests may carry
    None          \* no batch, no identity

\* Only the identifiers as they were sent are known to differ within a batch:
\* two that differ in blanks alone arrive here as a repeated source.
Row == [source : Source, value : Value]
Batch == [ref : Ref, period : Period, rows : Seq(Row)]

ASSUME BatchesAssumption == Batches \subseteq Batch /\ \A b \in Batches : b.rows # <<>>
ASSUME NoneAssumption == None \notin Request /\ None \notin Batch

VARIABLES
    stored,       \* committed batches with their identity, the request that created them
    request       \* the progress of each request

vars == <<stored, request>>

Init ==
    /\ stored = {}
    /\ request = [r \in Request |-> [state |-> "new", batch |-> None, next |-> 1,
                                     answer |-> "none", identity |-> None]]

-----------------------------------------------------------------------------
\* The transactions of a batch as a set.
Rows(b) == {b.rows[i] : i \in DOMAIN b.rows}
Sources(b) == {row.source : row \in Rows(b)}

\* Mutant: only the identifiers of the transactions are compared.
MatchesExistingSources(b, existing) ==
    /\ existing.period = b.period
    /\ Len(existing.rows) = Len(b.rows)
    /\ Sources(b) \subseteq Sources(existing)

\* _matches_existing_batch: the same period, as many transactions, and an equal
\* stored one for each.
MatchesExistingBatch(b, existing) ==
    /\ existing.period = b.period
    /\ Len(existing.rows) = Len(b.rows)
    /\ Rows(b) \subseteq Rows(existing)

StoredSources == UNION {Sources(e.batch) : e \in stored}
StoredRefs == {e.batch.ref : e \in stored}

End(r, answer, identity) ==
    request' = [request EXCEPT ![r].state = "done", ![r].answer = answer,
                               ![r].identity = identity]

\* get_import_batch_by_provider_reference: replay or refuse a batch that exists.
LookUpBatch(r, b) ==
    /\ request[r].state = "new"
    /\ \/ /\ b.ref \notin StoredRefs
          /\ request' = [request EXCEPT ![r].state = "check", ![r].batch = b]
       \/ \E e \in stored :
             /\ e.batch.ref = b.ref
             /\ request' = [request EXCEPT ![r] =
                  IF MatchesExistingBatch(b, e.batch)
                    THEN [@ EXCEPT !.state = "done", !.batch = b,
                                   !.answer = "replayed", !.identity = e.identity]
                    ELSE [@ EXCEPT !.state = "done", !.batch = b,
                                   !.answer = "bank_import_batch_conflict"]]
    /\ UNCHANGED stored

\* get_transaction_by_source_id, for the next transaction of the batch.
CheckTransaction(r) ==
    /\ request[r].state = "check"
    /\ LET b == request[r].batch
           n == request[r].next
       IN  IF b.rows[n].source \in StoredSources
             THEN End(r, "bank_transaction_already_imported", None)
             ELSE request' = [request EXCEPT ![r] =
                    IF n < Len(b.rows) THEN [@ EXCEPT !.next = n + 1]
                    ELSE [@ EXCEPT !.state = "insert_batch", !.next = 1]]
    /\ UNCHANGED stored

\* Mutant: a request that was refused is not rolled back and keeps its keys.
InsertedSourcesKept(r) ==
    IF request[r].state = "insert_rows" \/ request[r].answer = "bank_import_conflict"
      THEN {request[r].batch.rows[i].source : i \in 1 .. request[r].next - 1}
      ELSE {}

\* The keys an open transaction has inserted.
InsertedSources(r) ==
    IF request[r].state = "insert_rows"
      THEN {request[r].batch.rows[i].source : i \in 1 .. request[r].next - 1}
      ELSE {}
HasInsertedRef(r, ref) == request[r].state = "insert_rows" /\ request[r].batch.ref = ref

\* q holds a key that the next insert of r needs: r waits for q.
WaitsFor(r, q) ==
    /\ r # q
    /\ \/ /\ request[r].state = "insert_batch"
          /\ HasInsertedRef(q, request[r].batch.ref)
       \/ /\ request[r].state = "insert_rows"
          /\ request[r].next <= Len(request[r].batch.rows)
          /\ request[r].batch.rows[request[r].next].source \in InsertedSources(q)

Waits(r) == \E q \in Request : WaitsFor(r, q)

\* uq_bank_import_batches_provider_reference.
InsertBatch(r) ==
    /\ request[r].state = "insert_batch"
    /\ ~Waits(r)
    /\ IF request[r].batch.ref \in StoredRefs
         THEN End(r, "bank_import_conflict", None)
         ELSE request' = [request EXCEPT ![r].state = "insert_rows"]
    /\ UNCHANGED stored

\* Mutant: source identifiers are not unique in the database.
InsertTransactionAny(r) ==
    /\ request[r].state = "insert_rows"
    /\ request[r].next <= Len(request[r].batch.rows)
    /\ ~Waits(r)
    /\ request' = [request EXCEPT ![r].next = @ + 1]
    /\ UNCHANGED stored

\* uq_bank_transactions_source_identity.
InsertTransaction(r) ==
    /\ request[r].state = "insert_rows"
    /\ request[r].next <= Len(request[r].batch.rows)
    /\ ~Waits(r)
    /\ IF request[r].batch.rows[request[r].next].source \in StoredSources \cup InsertedSources(r)
         THEN End(r, "bank_import_conflict", None)
         ELSE request' = [request EXCEPT ![r].next = @ + 1]
    /\ UNCHANGED stored

\* Everything is inserted: the batch becomes visible.
Commit(r) ==
    /\ request[r].state = "insert_rows"
    /\ request[r].next > Len(request[r].batch.rows)
    /\ stored' = stored \cup {[batch |-> request[r].batch, identity |-> r]}
    /\ End(r, "created", r)

\* The database breaks a cycle of waiting requests by failing one of them, an
\* error that the service does not turn into a conflict.
Deadlock(r) ==
    /\ \E cycle \in SUBSET Request :
          /\ r \in cycle
          /\ \A q \in cycle : /\ \E p \in cycle : WaitsFor(q, p)
                             /\ \E p \in cycle : WaitsFor(p, q)
    /\ End(r, "failed", None)
    /\ UNCHANGED stored

\* Any other failure: the transaction leaves nothing behind.
Fail(r) ==
    /\ request[r].state \notin {"new", "done"}
    /\ End(r, "failed", None)
    /\ UNCHANGED stored

Step(r) == CheckTransaction(r) \/ InsertBatch(r) \/ InsertTransaction(r) \/ Commit(r) \/ Deadlock(r)

Next ==
    \E r \in Request :
        \/ \E b \in Batches : LookUpBatch(r, b)
        \/ Step(r)
        \/ Fail(r)

Spec == Init /\ [][Next]_vars

\* A request that is not waiting goes on, and the database breaks deadlocks.
FairSpec == Spec /\ \A r \in Request : WF_vars(Step(r))

-----------------------------------------------------------------------------
(* Properties. *)

\* The same batch, whatever order its transactions are listed in.
SameBatch(b, c) ==
    b.ref = c.ref /\ b.period = c.period /\ Len(b.rows) = Len(c.rows) /\ Rows(b) = Rows(c)

\* Two identifiers of the batch differ in surrounding blanks alone.
RepeatsSource(b) == Cardinality(Sources(b)) < Len(b.rows)

\* Batches that overlap in their transactions, imported concurrently, never
\* leave a provider transaction or a provider batch in the database twice.
ImportedOnce ==
    /\ \A e, f \in stored :
          e.batch.ref = f.batch.ref \/ Sources(e.batch) \cap Sources(f.batch) # {} => e = f
    /\ \A e \in stored : Cardinality(Sources(e.batch)) = Len(e.batch.rows)

\* Every answer stays true: one that reports success names a stored batch of as
\* many transactions that holds each transaction sent, which this request created
\* or did not create as it says, and one that reports a conflict has a cause that
\* is stored.  The stored batch is the one sent; only a batch that repeats a
\* source can be taken for another one, as its repetitions are counted as the
\* transactions it lacks.
AnswersAreTruthful ==
    \A r \in Request :
        LET b == request[r].batch
            a == request[r].answer
        IN  /\ a \in {"created", "replayed"} =>
                  /\ \E e \in stored :
                        /\ e.identity = request[r].identity
                        /\ e.batch.ref = b.ref /\ e.batch.period = b.period
                        /\ Len(e.batch.rows) = Len(b.rows) /\ Rows(b) \subseteq Rows(e.batch)
                        /\ RepeatsSource(b) \/ SameBatch(e.batch, b)
                  /\ a = "created" <=> request[r].identity = r
            /\ a = "bank_import_batch_conflict" =>
                  \E e \in stored : e.batch.ref = b.ref /\ ~SameBatch(e.batch, b)
            /\ a \in {"bank_transaction_already_imported", "bank_import_conflict"} =>
                  \/ \E e \in stored : e.batch.ref = b.ref \/ Sources(e.batch) \cap Sources(b) # {}
                  \/ RepeatsSource(b)

\* Requests that wait for one another's rows, in whatever order the batches
\* name them, are all answered in the end.
EveryImportAnswered ==
    \A r \in Request : request[r].state # "new" ~> request[r].state = "done"

\* The documented promise that an exact replay of a batch returns the stored
\* identities: a request is not refused for a batch equal to its own.
ExactReplayReturnsIdentities ==
    \A r \in Request :
        request[r].answer \in {"bank_transaction_already_imported", "bank_import_conflict"} =>
            \A e \in stored : ~SameBatch(e.batch, request[r].batch)
=============================================================================
