--------------------------- MODULE DocumentIntake ---------------------------
(***************************************************************************)
(* DocumentIntakeService.submit_document: an uploaded file is staged,      *)
(* validated, scanned and moved to accepted or quarantined storage, and    *)
(* one database transaction at the end records the document.  Files are    *)
(* not part of that transaction: the handler undoes what it did to them    *)
(* when something later fails, and the undoing may fail in its turn.       *)
(*                                                                         *)
(* A step is what the handler does up to the next point where it can be    *)
(* cut short: a storage operation, the scan, or the commit.                *)
(***************************************************************************)
EXTENDS Naturals, FiniteSets

CONSTANT Upload     \* upload requests; each has its document and its storage keys

VARIABLES
    content,      \* what each uploaded file is: "clean" or "infected"
    files,        \* the storage areas that hold a file of each upload
    doc,          \* documents and document_files, as committed
    req           \* the state of each handler

vars == <<content, files, doc, req>>

\* DocumentStatus; "rejected" is never reached by the code.
DocumentStatus == {"uploaded", "validating", "validation_failed", "scan_pending", "scanning",
                   "scan_failed", "quarantined", "stored", "rejected"}
Area == {"staging", "accepted", "quarantine"}
FailureCode == {"invalid", "storage_failed", "malware_detected", "malware_scan_failed"}

DocumentRow == [status : DocumentStatus \cup {"absent"},
                file : Area \cup {"none"},
                failure : FailureCode \cup {"none"}]
NoDocument == [status |-> "absent", file |-> "none", failure |-> "none"]

\* The handler's local variables: the document it is building, the keys it
\* holds (staged_key, accepted_key, quarantine_key), the scan result, the
\* failure it is handling and its answer.  faults is auxiliary: what went wrong
\* outside the handler.
Request == [pc : {"new", "stage", "validate", "scan", "move", "commit", "cleanup",
                  "fail", "fail_commit", "done"},
            status : DocumentStatus,
            keys : SUBSET Area,
            scan : {"none", "clean", "infected", "error"},
            failure : FailureCode \cup {"none"},
            answer : {"none", "stored", "refused", "error"},
            faults : SUBSET {"storage", "commit", "interrupted"}]

Init ==
    /\ content \in [Upload -> {"clean", "infected"}]
    /\ files = [u \in Upload |-> {}]
    /\ doc = [u \in Upload |-> NoDocument]
    /\ req = [u \in Upload |-> [pc |-> "new", status |-> "uploaded", keys |-> {},
                                scan |-> "none", failure |-> "none", answer |-> "none",
                                faults |-> {}]]

-----------------------------------------------------------------------------
\* _ALLOWED_TRANSITIONS of documents.states.
AllowedTransitions ==
    [s \in DocumentStatus |->
        CASE s = "uploaded" -> {"validating"}
          [] s = "validating" -> {"validation_failed", "scan_pending"}
          [] s = "scan_pending" -> {"scanning"}
          [] s = "scanning" -> {"scan_failed", "quarantined", "stored"}
          [] s \in {"validation_failed", "scan_failed", "quarantined"} -> {"rejected"}
          [] OTHER -> {}]

\* _mark_failure: the status a failure leads to; not every status allows it.
FailureStatus(s) == IF s \in {"scan_pending", "scanning"} THEN "scan_failed" ELSE "validation_failed"
Marked(r) == [r EXCEPT !.pc = "fail_commit", !.status = FailureStatus(@)]
MayMarkFailure(s) == s = FailureStatus(s) \/ FailureStatus(s) \in AllowedTransitions[s]

At(u, pc) == req[u].pc = pc

\* An answer without any trace in the database.
Ended(r, answer) == [r EXCEPT !.pc = "done", !.answer = answer]

\* The exception handlers start: nothing is committed yet.
Failing(r, code) == [r EXCEPT !.pc = "fail", !.failure = code]

\* Something outside the handler went wrong.
Faulted(r, what) == [r EXCEPT !.faults = @ \cup {what}]
StorageFault(r) == Faulted(r, "storage")

\* The handler holds more keys.
Holding(r, keys) == [r EXCEPT !.keys = @ \cup keys]

-----------------------------------------------------------------------------
\* validate_submitted_filename fails: only an audit event is committed.
RefuseFilename(u) ==
    /\ At(u, "new")
    /\ req' = [req EXCEPT ![u] = Ended(@, "refused")]
    /\ UNCHANGED <<content, files, doc>>

BeginDocument(u) ==
    /\ At(u, "new")
    /\ req' = [req EXCEPT ![u].pc = "stage", ![u].status = "validating"]
    /\ UNCHANGED <<content, files, doc>>

\* _stage_upload, when the file is not empty and not too large.
StageUpload(u) ==
    /\ At(u, "stage")
    /\ files' = [files EXCEPT ![u] = {"staging"}]
    /\ req' = [req EXCEPT ![u].pc = "validate", ![u].keys = {"staging"}]
    /\ UNCHANGED <<content, doc>>

\* _stage_upload, when it is: the staged file is deleted before the failure is
\* reported.  If the deletion fails, that failure is reported instead, and the
\* key of the file is lost.
StageRefused(u) ==
    /\ At(u, "stage")
    /\ \/ /\ req' = [req EXCEPT ![u] = Failing(@, "invalid")]
          /\ UNCHANGED files
       \/ /\ req' = [req EXCEPT ![u] = Failing(StorageFault(@), "storage_failed")]
          /\ files' = [files EXCEPT ![u] = {"staging"}]
    /\ UNCHANGED <<content, doc>>

\* _stage_upload, when the file cannot be created (a storage error), or is and
\* cannot be written (another error, which no handler of submit_document
\* catches, unless deleting the file fails too and hides it).
StageFails(u) ==
    /\ At(u, "stage")
    /\ \/ /\ req' = [req EXCEPT ![u] = Failing(StorageFault(@), "storage_failed")]
          /\ files' \in {files, [files EXCEPT ![u] = {"staging"}]}
       \/ /\ req' = [req EXCEPT ![u] = Ended(StorageFault(@), "error")]
          /\ UNCHANGED files
    /\ UNCHANGED <<content, doc>>

\* The client disconnects while its upload is read: the cancellation passes
\* every handler.
Disconnect(u) ==
    /\ At(u, "stage")
    /\ files' = [files EXCEPT ![u] = {"staging"}]
    /\ req' = [req EXCEPT ![u] = Ended(Faulted(@, "interrupted"), "error")]
    /\ UNCHANGED <<content, doc>>

\* validate_document_metadata, then the two transitions up to scanning.
ValidateMetadata(u) ==
    /\ At(u, "validate")
    /\ \/ req' = [req EXCEPT ![u].pc = "scan", ![u].status = "scanning"]
       \/ req' = [req EXCEPT ![u] = Failing(@, "invalid")]
    /\ UNCHANGED <<content, files, doc>>

\* The scanner tells what the file is, or fails.
ScannerMay(u) == {content[u], "error", "exception"}

\* Mutant: a scanner that raises has found nothing.
ScanResultOpen(r) == IF r = "exception" THEN "clean" ELSE r

\* _scan_staged_file: an exception of the scanner is a scan error.
ScanResult(r) == IF r = "exception" THEN "error" ELSE r

Scan(u) ==
    /\ At(u, "scan")
    /\ \E r \in ScannerMay(u) :
          req' = [req EXCEPT ![u].pc = "move", ![u].scan = ScanResult(r)]
    /\ UNCHANGED <<content, files, doc>>

\* Where a scanned file goes, and what its document becomes there.
Destination(scan) == IF scan = "clean" THEN "accepted" ELSE "quarantine"
StatusOf(scan) ==
    CASE scan = "clean" -> "stored" [] scan = "infected" -> "quarantined" [] OTHER -> "scan_failed"

FailureOf(scan) ==
    CASE scan = "clean" -> "none"
      [] scan = "infected" -> "malware_detected"
      [] OTHER -> "malware_scan_failed"

\* promote, or _quarantine_staged_file: one rename, done or not done.  The key
\* of accepted storage is known to the handlers before the rename.
MoveFile(u) ==
    /\ At(u, "move")
    /\ LET to == Destination(req[u].scan)
       IN  \/ /\ files' = [files EXCEPT ![u] = {to}]
              /\ req' = [req EXCEPT ![u] = [@ EXCEPT !.pc = "commit", !.keys = {to},
                                                     !.status = StatusOf(req[u].scan),
                                                     !.failure = FailureOf(req[u].scan)]]
           \/ /\ req' = [req EXCEPT ![u] =
                   Failing(Holding(StorageFault(@), {to} \cap {"accepted"}), "storage_failed")]
              /\ UNCHANGED files
    /\ UNCHANGED <<content, doc>>

\* Mutant: the file row is added before the file has been moved.
BuiltEarly(u) == [status |-> req[u].status, file |-> Destination(req[u].scan),
                  failure |-> req[u].failure]

\* The document as the handler has built it; its file row exists once moved.
Built(u) == [status |-> req[u].status,
             file |-> IF At(u, "commit") THEN Destination(req[u].scan) ELSE "none",
             failure |-> req[u].failure]

\* _commit_with_storage_cleanup and _commit_with_quarantine_cleanup.
Commit(u) ==
    /\ At(u, "commit")
    /\ doc' = [doc EXCEPT ![u] = Built(u)]
    /\ req' = [req EXCEPT ![u] = Ended(@, IF req[u].scan = "clean" THEN "stored" ELSE "refused")]
    /\ UNCHANGED <<content, files>>

\* Mutant: an error of the commit is only logged.
CommitFailsUnnoticed(u) ==
    /\ At(u, "commit")
    /\ doc' \in {doc, [doc EXCEPT ![u] = Built(u)]}
    /\ req' = [req EXCEPT ![u] = Ended(Faulted(@, "commit"),
                                       IF req[u].scan = "clean" THEN "stored" ELSE "refused")]
    /\ UNCHANGED <<content, files>>

\* Commit raises an error; the transaction may have been applied all the same
\* when only the acknowledgement was lost.
CommitFails(u) ==
    /\ At(u, "commit")
    /\ doc' \in {doc, [doc EXCEPT ![u] = Built(u)]}
    /\ req' = [req EXCEPT ![u] = [Faulted(@, "commit") EXCEPT !.pc = "cleanup"]]
    /\ UNCHANGED <<content, files>>

\* The moved file is deleted and the error reported.  A deletion that fails is
\* a storage error, which the handler for those takes up.
Cleanup(u) ==
    /\ At(u, "cleanup")
    /\ \/ /\ files' = [files EXCEPT ![u] = @ \ req[u].keys]
          /\ req' = [req EXCEPT ![u] = Ended(@, "error")]
       \/ /\ req' = [req EXCEPT ![u] = Failing(StorageFault(@), "storage_failed")]
          /\ UNCHANGED files
    /\ UNCHANGED <<content, doc>>

-----------------------------------------------------------------------------
\* Mutant: the staged file of a refused upload is not deleted.
HandleFailureKeepFile(u) ==
    /\ At(u, "fail")
    /\ req' = [req EXCEPT ![u] =
         IF MayMarkFailure(@.status) THEN Marked(@) ELSE Ended(@, "error")]
    /\ UNCHANGED <<content, files, doc>>

\* The handlers of DocumentValidationError and StorageError: delete the files
\* whose keys are still held, then mark the document.  Either may raise, and
\* the request then ends in an error with nothing committed.
HandleFailure(u) ==
    /\ At(u, "fail")
    /\ LET held == req[u].keys \cap {"staging", "accepted"}
       IN  \/ /\ files' = [files EXCEPT ![u] = @ \ held]
              /\ req' = [req EXCEPT ![u] =
                   IF MayMarkFailure(@.status) THEN Marked(@) ELSE Ended(@, "error")]
           \/ /\ held # {}
              /\ req' = [req EXCEPT ![u] = Ended(StorageFault(@), "error")]
              /\ UNCHANGED files
    /\ UNCHANGED <<content, doc>>

\* _commit_without_storage: the failed document, or an error.
CommitFailure(u) ==
    /\ At(u, "fail_commit")
    /\ \/ /\ doc' = [doc EXCEPT ![u] = Built(u)]
          /\ req' = [req EXCEPT ![u] = Ended(@, "refused")]
       \/ /\ doc' \in {doc, [doc EXCEPT ![u] = Built(u)]}
          /\ req' = [req EXCEPT ![u] = Ended(Faulted(@, "commit"), "error")]
    /\ UNCHANGED <<content, files>>

\* The process ends: the database forgets the transaction, files stay.
Crash(u) ==
    /\ req[u].pc \notin {"new", "done"}
    /\ req' = [req EXCEPT ![u] = Ended(Faulted(@, "interrupted"), "error")]
    /\ UNCHANGED <<content, files, doc>>

Next ==
    \E u \in Upload :
        \/ RefuseFilename(u) \/ BeginDocument(u)
        \/ StageUpload(u) \/ StageRefused(u) \/ StageFails(u) \/ Disconnect(u)
        \/ ValidateMetadata(u)
        \/ Scan(u)
        \/ MoveFile(u)
        \/ Commit(u) \/ CommitFails(u) \/ Cleanup(u)
        \/ HandleFailure(u) \/ CommitFailure(u)
        \/ Crash(u)

Spec == Init /\ [][Next]_vars

-----------------------------------------------------------------------------
(* Properties. *)

\* Every variable has its type.
TypeOK ==
    /\ content \in [Upload -> {"clean", "infected"}]
    /\ files \in [Upload -> SUBSET Area]
    /\ doc \in [Upload -> DocumentRow]
    /\ req \in [Upload -> Request]

\* Fail closed: nothing but a file that was scanned and found clean ever lies in
\* accepted storage, whatever the scanner, storage, database or process did.
OnlyCleanAccepted ==
    \A u \in Upload :
        "accepted" \in files[u] => content[u] = "clean" /\ req[u].scan = "clean"

\* An uploader who was told that the document is stored can rely on it: the
\* document is committed as stored and its file is in accepted storage.
StoredAnswerIsDurable ==
    \A u \in Upload :
        req[u].answer = "stored" =>
            doc[u].status = "stored" /\ doc[u].file = "accepted" /\ files[u] = {"accepted"}

\* A committed document names the only file that is left, and its status says
\* where that file is; only an error of the commit itself, which may hide that
\* it was applied, can leave a document whose file has been cleaned up.
DocumentNamesItsFile ==
    \A u \in Upload :
        LET d == doc[u]
        IN  /\ d.file # "none" => files[u] = {d.file} \/ "commit" \in req[u].faults
            /\ d.file = "accepted" <=> d.status = "stored"
            /\ d.status = "quarantined" => d.file = "quarantine"
            /\ d.failure = "invalid" => d.status = "validation_failed" /\ files[u] = {}

\* A request during which nothing outside the handler failed leaves no file
\* behind that its document does not name.
NoLeftoverFile ==
    \A u \in Upload :
        At(u, "done") /\ req[u].faults = {} =>
            files[u] = IF doc[u].file = "none" THEN {} ELSE {doc[u].file}
=============================================================================
