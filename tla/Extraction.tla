----------------------------- MODULE Extraction -----------------------------
(***************************************************************************)
(* ExtractionService.start_extraction on the documents that intake         *)
(* commits, while other uploads are still in progress.  Several runs may   *)
(* read one document.  A run is inserted, executed and ended in a single   *)
(* transaction, so its pending and running states are never committed.     *)
(***************************************************************************)
EXTENDS DocumentIntake, ProviderOutput

CONSTANTS
    Job,          \* extraction requests, each with its run
    Outputs,      \* sequences of observations a provider may return
    NoUpload      \* a job that has not started

ASSUME NoUploadAssumption == NoUpload \notin Upload
ASSUME OutputsAssumption == \A out \in Outputs : out \in Seq(Observation)

VARIABLES
    job,          \* the state of each request
    run           \* extraction_runs with their extracted_fields, as committed

extractionVars == <<job, run>>
allVars == <<vars, job, run>>

RunFailure == {"source_file_missing", "provider_failed", "invalid_provider_output"}
NoRun == [status |-> "absent", upload |-> NoUpload, fields |-> <<>>, failure |-> "none"]

\* read, out and lost are auxiliary: whether the provider was given the file, what it
\* returned (Nothing, if that is no list of fields), and whether something outside the
\* handler ended the request.
NewJob == [pc |-> "new", row |-> NoRun, read |-> FALSE, out |-> <<>>, lost |-> FALSE]

ExtractionInit ==
    /\ Init
    /\ job = [j \in Job |-> NewJob]
    /\ run = [j \in Job |-> NoRun]

\* The document is eligible; the run is flushed as running.  A disabled
\* provider or an ineligible document changes nothing.
StartExtraction(j, u) ==
    /\ job[j].pc = "new"
    /\ doc[u].status = "stored"
    /\ doc[u].file = "accepted"
    /\ job' = [job EXCEPT ![j] =
                 [NewJob EXCEPT !.pc = "provider",
                  !.row = [NoRun EXCEPT !.status = "running", !.upload = u]]]
    /\ UNCHANGED <<vars, run>>

\* _fail_run: the run of j has failed and will be committed so.
FailedRun(j, code) == [job[j].row EXCEPT !.status = "failed", !.failure = code]

\* Mutant: the run is given the failure code of an upload.
OpenFailsAsUpload(j) ==
    /\ job[j].pc = "provider"
    /\ job' = [job EXCEPT ![j].pc = "commit", ![j].row = FailedRun(j, "storage_failed")]
    /\ UNCHANGED <<vars, run>>

\* open_for_processing fails, because the file is not there or by a fault.
OpenFails(j) ==
    /\ job[j].pc = "provider"
    /\ job' = [job EXCEPT ![j].pc = "commit", ![j].row = FailedRun(j, "source_file_missing")]
    /\ UNCHANGED <<vars, run>>

\* The provider reads the file, and returns its observations, which validation passes
\* or refuses.
RunProvider(j, out) ==
    /\ job[j].pc = "provider"
    /\ "accepted" \in files[job[j].row.upload]
    /\ ~RaisesResult(out)
    /\ job' = [job EXCEPT ![j].pc = "commit", ![j].read = TRUE, ![j].out = out,
                  ![j].row = IF ValidResult(out)
                             THEN [@ EXCEPT !.status = "succeeded",
                                            !.fields = [i \in DOMAIN out |-> Validated(out[i])]]
                             ELSE FailedRun(j, "invalid_provider_output")]
    /\ UNCHANGED <<vars, run>>

\* The provider returns what stops validation by an error the service does not catch:
\* such fields, or something without lineage or fields.  The transaction of the request
\* is rolled back and its run with it.
ValidationRaises(j) ==
    /\ job[j].pc = "provider"
    /\ "accepted" \in files[job[j].row.upload]
    /\ \E out \in {o \in Outputs : RaisesResult(o)} \cup {Nothing} :
          job' = [job EXCEPT ![j].pc = "done", ![j].read = TRUE, ![j].out = out]
    /\ UNCHANGED <<vars, run>>

\* The provider raises, or claims the lineage of another provider.
ProviderFails(j) ==
    /\ job[j].pc = "provider"
    /\ "accepted" \in files[job[j].row.upload]
    /\ \E code \in {"provider_failed", "invalid_provider_output"} :
          job' = [job EXCEPT ![j].pc = "commit", ![j].read = TRUE, ![j].row = FailedRun(j, code)]
    /\ UNCHANGED <<vars, run>>

\* The fields are flushed and the transaction commits, if the database takes them.
CommitRun(j) ==
    /\ job[j].pc = "commit" /\ FitsTable(job[j].row.fields)
    /\ run' = [run EXCEPT ![j] = job[j].row]
    /\ job' = [job EXCEPT ![j].pc = "done"]
    /\ UNCHANGED vars

\* The database or its driver refuses a row, by _raise_persistence_error or an error that
\* escapes it, and no run is left.
CommitRefused(j) ==
    /\ job[j].pc = "commit" /\ ~FitsTable(job[j].row.fields)
    /\ job' = [job EXCEPT ![j].pc = "done"]
    /\ UNCHANGED <<vars, run>>

\* _raise_persistence_error by a fault, or the loss of the process: no run is left.
AbandonRun(j) ==
    /\ job[j].pc \in {"provider", "commit"}
    /\ job' = [job EXCEPT ![j].pc = "done", ![j].lost = TRUE]
    /\ UNCHANGED <<vars, run>>

ExtractionStep ==
    \E j \in Job :
        \/ \E u \in Upload : StartExtraction(j, u)
        \/ OpenFails(j)
        \/ \E out \in Outputs : RunProvider(j, out)
        \/ ValidationRaises(j) \/ ProviderFails(j)
        \/ CommitRun(j) \/ CommitRefused(j)
        \/ AbandonRun(j)

ExtractionNext == (Next /\ UNCHANGED extractionVars) \/ ExtractionStep

ExtractionSpec == ExtractionInit /\ [][ExtractionNext]_allVars

-----------------------------------------------------------------------------
(* Properties. *)

\* Every variable has its type; the fields of a run are the ones validation passed.
ExtractionTypeOK ==
    /\ TypeOK
    /\ \A j \in Job :
          /\ job[j].pc \in {"new", "provider", "commit", "done"}
          /\ job[j].row.status \in {"absent", "running", "succeeded", "failed"}
          /\ job[j].row.upload \in Upload \cup {NoUpload}
          /\ job[j].row.failure \in RunFailure \cup {"none"}
          /\ run[j] \in {NoRun, job[j].row}

\* No provider is ever handed an uploaded file that was not scanned and found
\* clean, and every committed run has ended: it either succeeded after reading
\* such a file, or failed for a stated reason and left no field behind.
ExtractedFromCleanSource ==
    /\ \A j \in Job :
          job[j].read =>
              LET u == job[j].row.upload
              IN  content[u] = "clean" /\ req[u].scan = "clean"
    /\ \A j \in Job :
          \/ run[j].status = "absent"
          \/ run[j].status = "succeeded" /\ job[j].read /\ run[j].failure = "none"
          \/ run[j].status = "failed" /\ run[j].fields = <<>> /\ run[j].failure # "none"

\* What no run can say: validation stops at the path or the locator, or passes a page
\* number, a text or a locator that no column holds.
Unrecordable(o) ==
    \/ o.path = "not a string" \/ o.locator = "endless"
    \/ o.page # Nothing /\ o.page > MaxInteger
    \/ ~o.storable
    \/ o.locator = "not a number"

\* What a provider returns leaves a run that says so, succeeded or failed, unless it is
\* no list of fields or one of its fields is unrecordable: whatever else validation
\* passes, the database takes (paths that repeat, confidences rounded after their check,
\* values at their limits), and whatever else it meets, it refuses by an error of its
\* own.  This needs the setting for the length of a value to be no more than the column
\* allows.
OutputIsRecorded ==
    \A j \in Job :
        job[j].pc = "done" /\ job[j].read /\ ~job[j].lost =>
            \/ run[j].status \in {"succeeded", "failed"}
            \/ job[j].out = Nothing
            \/ \E i \in DOMAIN job[j].out : Unrecordable(job[j].out[i])

\* docs/EXTRACTION.md, Validation: provider output must pass the maximum value length
\* before persistence, and malformed output fails the run.  No request that read its
\* document, was given fields and was not cut short ends without a run, at any allowed
\* setting.
MalformedOutputFailsTheRun ==
    \A j \in Job :
        job[j].pc = "done" /\ job[j].read /\ job[j].out # Nothing /\ ~job[j].lost =>
            run[j].status # "absent"
=============================================================================
