-------------------------- MODULE ExtractionProofs --------------------------
(***************************************************************************)
(* Proofs about DocumentIntake and Extraction for every number of uploads  *)
(* and of extraction requests, and for whatever a provider returns.        *)
(***************************************************************************)
EXTENDS Extraction, TLAPS

(***************************************************************************)
(* Intake: what is known of an upload at each point of its handler.        *)
(* c, f, d and r are its content, its files, its document and its handler. *)
(***************************************************************************)

\* The document of a file that has been scanned and moved.
MovedDocument(scan) ==
    [status |-> StatusOf(scan), file |-> Destination(scan), failure |-> FailureOf(scan)]

\* Before anything is stored.
AtStart(f, d, r) ==
    r.pc \in {"new", "stage"} =>
        /\ f = {} /\ d = NoDocument /\ r.keys = {} /\ r.scan = "none" /\ r.faults = {}
        /\ r.status = IF r.pc = "new" THEN "uploaded" ELSE "validating"

\* The file is staged, and nothing has gone wrong.
WhenStaged(f, d, r) ==
    r.pc \in {"validate", "scan", "move"} =>
        /\ f = {"staging"} /\ d = NoDocument /\ r.keys = {"staging"} /\ r.faults = {}
        /\ r.status = IF r.pc = "validate" THEN "validating" ELSE "scanning"
        /\ r.scan = "none" <=> r.pc # "move"

\* The file has been moved; only an error of the commit may have committed.
WhenMoved(f, d, r) ==
    r.pc \in {"commit", "cleanup"} =>
        /\ r.scan # "none"
        /\ f = {Destination(r.scan)} /\ r.keys = {Destination(r.scan)}
        /\ r.status = StatusOf(r.scan) /\ r.failure = FailureOf(r.scan)
        /\ r.pc = "commit" => d = NoDocument /\ r.faults = {}
        /\ r.pc = "cleanup" => d \in {NoDocument, MovedDocument(r.scan)} /\ "commit" \in r.faults

\* A failure that is not the fault of the upload has left its mark in faults; a
\* failed cleanup is the only one that may have left a document.
WhenFailing(f, d, r) ==
    /\ r.pc = "fail" =>
          \/ /\ r.failure = "invalid" /\ r.status = "validating"
             /\ d = NoDocument /\ f \subseteq r.keys /\ r.keys \subseteq {"staging"}
          \/ /\ r.failure = "storage_failed" /\ "storage" \in r.faults
             /\ r.status \in {"validating", "scanning"} /\ d = NoDocument
          \/ /\ r.failure = "storage_failed" /\ "commit" \in r.faults
             /\ r.status \in {"stored", "quarantined", "scan_failed"}
             /\ d \in {NoDocument, MovedDocument(r.scan)}
    /\ r.pc = "fail_commit" =>
          /\ d = NoDocument
          /\ \/ r.failure = "invalid" /\ r.status = "validation_failed" /\ f = {}
             \/ /\ r.failure = "storage_failed" /\ "storage" \in r.faults
                /\ r.status \in {"validation_failed", "scan_failed"}

\* What the answer, the document and the files say of one another.
Coherent(f, d, r) ==
    /\ d.file # "none" => f = {d.file} \/ "commit" \in r.faults
    /\ d.file = "accepted" <=> d.status = "stored"
    /\ d.status = "quarantined" => d.file = "quarantine"
    /\ d.failure = "invalid" => d.status = "validation_failed" /\ f = {} /\ r.pc = "done"
    /\ r.answer = "stored" => d.status = "stored" /\ d.file = "accepted" /\ f = {"accepted"}
    /\ r.pc # "done" => r.answer = "none"
    /\ r.pc = "done" /\ r.faults = {} => f = IF d.file = "none" THEN {} ELSE {d.file}

\* A clean result is the truth, and only a clean file gets to accepted storage.
ScanTold(c, f, d, r) ==
    /\ r.scan = "clean" => c = "clean"
    /\ "accepted" \in f \/ d.status = "stored" => r.scan = "clean"

UploadOK(c, f, d, r) ==
    /\ AtStart(f, d, r)
    /\ WhenStaged(f, d, r)
    /\ WhenMoved(f, d, r)
    /\ WhenFailing(f, d, r)
    /\ Coherent(f, d, r)
    /\ ScanTold(c, f, d, r)

Intake ==
    /\ TypeOK
    /\ \A u \in Upload : UploadOK(content[u], files[u], doc[u], req[u])

-----------------------------------------------------------------------------

LEMMA IntakeInit == Init => Intake
<1> SUFFICES ASSUME Init PROVE Intake
  OBVIOUS
<1>1. TypeOK
  BY DEF Init, TypeOK, NoDocument, DocumentRow, DocumentStatus, Request, FailureCode
<1>2. ASSUME NEW u \in Upload PROVE UploadOK(content[u], files[u], doc[u], req[u])
  <2>1. /\ files[u] = {} /\ doc[u] = NoDocument
        /\ req[u] = [pc |-> "new", status |-> "uploaded", keys |-> {}, scan |-> "none",
                     failure |-> "none", answer |-> "none", faults |-> {}]
    BY DEF Init
  <2> QED
    BY <2>1 DEF UploadOK, AtStart, WhenStaged, WhenMoved, WhenFailing, Coherent, ScanTold, NoDocument
<1> QED
  BY <1>1, <1>2 DEF Intake

\* A step of one upload keeps the invariant if it leaves that upload consistent.
LEMMA UploadStep ==
    ASSUME Intake, NEW u \in Upload,
           NEW f \in SUBSET Area, NEW d \in DocumentRow, NEW r \in Request,
           content' = content,
           files' = [files EXCEPT ![u] = f],
           doc' = [doc EXCEPT ![u] = d],
           req' = [req EXCEPT ![u] = r],
           UploadOK(content[u], f, d, r)
    PROVE  Intake'
<1>1. TypeOK'
  BY DEF Intake, TypeOK
<1>2. ASSUME NEW v \in Upload PROVE UploadOK(content[v], files[v], doc[v], req[v])'
  <2>1. CASE v = u
    <3>1. files'[v] = f /\ doc'[v] = d /\ req'[v] = r /\ content'[v] = content[u]
      BY <2>1 DEF Intake, TypeOK
    <3> QED
      BY <3>1
  <2>2. CASE v # u
    <3>1. files'[v] = files[v] /\ doc'[v] = doc[v] /\ req'[v] = req[v] /\ content'[v] = content[v]
      BY <2>2 DEF Intake, TypeOK
    <3> QED
      BY <3>1 DEF Intake
  <2> QED
    BY <2>1, <2>2
<1> QED
  BY <1>1, <1>2 DEF Intake

\* What the invariant says of one upload.
LEMMA UploadFacts ==
    ASSUME Intake, NEW u \in Upload
    PROVE  /\ content[u] \in {"clean", "infected"} /\ files[u] \in SUBSET Area
           /\ doc[u] \in DocumentRow /\ req[u] \in Request
           /\ UploadOK(content[u], files[u], doc[u], req[u])
           /\ files = [files EXCEPT ![u] = files[u]]
           /\ doc = [doc EXCEPT ![u] = doc[u]]
  BY DEF Intake, TypeOK

\* What the abbreviations of the handler change in its record, and what not.
LEMMA HandlerFields ==
    ASSUME NEW r \in Request
    PROVE  /\ \A answer \in {"stored", "refused", "error"} :
                 LET e == Ended(r, answer)
                 IN  /\ e \in Request /\ e.pc = "done" /\ e.answer = answer
                     /\ e.status = r.status /\ e.keys = r.keys /\ e.scan = r.scan
                     /\ e.failure = r.failure /\ e.faults = r.faults
           /\ \A code \in FailureCode :
                 LET e == Failing(r, code)
                 IN  /\ e \in Request /\ e.pc = "fail" /\ e.failure = code
                     /\ e.status = r.status /\ e.keys = r.keys /\ e.scan = r.scan
                     /\ e.answer = r.answer /\ e.faults = r.faults
<1>1. ASSUME NEW answer \in {"stored", "refused", "error"}
      PROVE  LET e == Ended(r, answer)
             IN  /\ e \in Request /\ e.pc = "done" /\ e.answer = answer
                 /\ e.status = r.status /\ e.keys = r.keys /\ e.scan = r.scan
                 /\ e.failure = r.failure /\ e.faults = r.faults
  BY DEF Ended, Request
<1>2. ASSUME NEW code \in FailureCode
      PROVE  LET e == Failing(r, code)
             IN  /\ e \in Request /\ e.pc = "fail" /\ e.failure = code
                 /\ e.status = r.status /\ e.keys = r.keys /\ e.scan = r.scan
                 /\ e.answer = r.answer /\ e.faults = r.faults
  BY DEF Failing, Request
<1> QED
  BY <1>1, <1>2

\* A fault ends the request in an error: the document and what is known of the
\* file stay as they are, and the fault is on record.
LEMMA FaultEnds ==
    ASSUME Intake, NEW u \in Upload, req[u].pc \notin {"new", "done"},
           NEW f \in SUBSET Area, f \subseteq files[u] \/ (f = {"staging"} /\ req[u].pc = "stage"),
           NEW what \in {"storage", "commit", "interrupted"},
           doc[u].file # "none" => "commit" \in req[u].faults,
           content' = content, doc' = doc,
           files' = [files EXCEPT ![u] = f],
           req' = [req EXCEPT ![u] = Ended(Faulted(req[u], what), "error")]
    PROVE  Intake'
<1> DEFINE q == Faulted(req[u], what)
           r == Ended(q, "error")
<1>1. /\ req[u] \in Request /\ doc[u] \in DocumentRow /\ doc = [doc EXCEPT ![u] = doc[u]]
      /\ UploadOK(content[u], files[u], doc[u], req[u])
  BY UploadFacts
<1>2. /\ r \in Request /\ r.pc = "done" /\ r.answer = "error" /\ r.scan = req[u].scan
      /\ r.faults = req[u].faults \cup {what}
  <2>1. q \in Request /\ q.faults = req[u].faults \cup {what} /\ q.scan = req[u].scan
    BY <1>1 DEF Request, Faulted
  <2> HIDE DEF q
  <2> QED
    BY <2>1, HandlerFields
<1> HIDE DEF r
<1>3. UploadOK(content[u], f, doc[u], r)
  BY <1>1, <1>2 DEF UploadOK, AtStart, WhenStaged, WhenMoved, WhenFailing, Coherent, ScanTold
<1> QED
  BY <1>1, <1>2, <1>3, UploadStep DEF r

\* The failure handlers start while no document is committed.
LEMMA FailureStarts ==
    ASSUME Intake, NEW u \in Upload, NEW f \in SUBSET Area, NEW r \in Request,
           doc[u] = NoDocument, req[u].answer = "none",
           r.pc = "fail", r.status \in {"validating", "scanning"}, r.answer = "none",
           r.scan = req[u].scan, "accepted" \notin f,
           \/ /\ r.failure = "invalid" /\ r.status = "validating"
              /\ f \subseteq r.keys /\ r.keys \subseteq {"staging"}
           \/ r.failure = "storage_failed" /\ "storage" \in r.faults,
           content' = content, doc' = doc,
           files' = [files EXCEPT ![u] = f],
           req' = [req EXCEPT ![u] = r]
    PROVE  Intake'
<1>1. /\ doc[u] \in DocumentRow /\ doc = [doc EXCEPT ![u] = doc[u]]
      /\ UploadOK(content[u], files[u], doc[u], req[u])
  BY UploadFacts
<1>2. UploadOK(content[u], f, doc[u], r)
  BY <1>1 DEF UploadOK, AtStart, WhenStaged, WhenMoved, WhenFailing, Coherent, ScanTold, NoDocument
<1> QED
  BY <1>1, <1>2, UploadStep

\* The name is checked, the file is staged or cannot be.
LEMMA StageStep ==
    ASSUME Intake, NEW u \in Upload,
           \/ RefuseFilename(u) \/ BeginDocument(u) \/ StageUpload(u) \/ StageRefused(u)
           \/ StageFails(u) \/ Disconnect(u)
    PROVE  Intake'
<1> DEFINE q == req[u]
           fault == StorageFault(q)
<1>1. /\ q \in Request /\ doc[u] \in DocumentRow /\ doc = [doc EXCEPT ![u] = doc[u]]
      /\ files = [files EXCEPT ![u] = files[u]]
      /\ UploadOK(content[u], files[u], doc[u], q)
  BY UploadFacts
<1>2. /\ q.pc \in {"new", "stage"} /\ files[u] = {} /\ doc[u] = NoDocument
      /\ q.keys = {} /\ q.scan = "none" /\ q.faults = {} /\ q.answer = "none"
      /\ q.status = (IF q.pc = "new" THEN "uploaded" ELSE "validating") /\ doc[u].file = "none"
  BY <1>1 DEF NoDocument, RefuseFilename, BeginDocument, StageUpload, StageRefused, StageFails, Disconnect, At,
              UploadOK, AtStart, Coherent
<1>3. /\ fault \in Request /\ "storage" \in fault.faults /\ fault.status = q.status
      /\ fault.scan = q.scan /\ fault.answer = q.answer
  BY <1>1 DEF StorageFault, Faulted, Request
<1>4. {} \in SUBSET Area /\ {"staging"} \in SUBSET Area /\ "accepted" \notin {"staging"}
      /\ "invalid" \in FailureCode /\ "storage_failed" \in FailureCode
  BY DEF Area, FailureCode
<1>5. content' = content /\ doc' = doc
  BY DEF RefuseFilename, BeginDocument, StageUpload, StageRefused, StageFails, Disconnect
<1>6. CASE RefuseFilename(u)
  <2> DEFINE r == Ended(q, "refused")
  <2>1. /\ r \in Request /\ r.pc = "done" /\ r.answer = "refused" /\ r.scan = "none"
    BY <1>1, <1>2, HandlerFields
  <2>2. files' = [files EXCEPT ![u] = files[u]] /\ req' = [req EXCEPT ![u] = r]
    BY <1>1, <1>6 DEF RefuseFilename
  <2> HIDE DEF r
  <2>3. UploadOK(content[u], files[u], doc[u], r)
    BY <1>2, <2>1 DEF UploadOK, AtStart, WhenStaged, WhenMoved, WhenFailing, Coherent, ScanTold,
                      NoDocument
  <2> QED
    BY <1>1, <1>2, <1>4, <1>5, <2>1, <2>2, <2>3, UploadStep
<1>7. CASE BeginDocument(u)
  <2> DEFINE r == [q EXCEPT !.pc = "stage", !.status = "validating"]
  <2>1. /\ r \in Request /\ r.pc = "stage" /\ r.status = "validating" /\ r.answer = "none"
        /\ r.scan = "none" /\ r.keys = {} /\ r.faults = {}
    BY <1>1, <1>2 DEF Request, DocumentStatus
  <2>2. files' = [files EXCEPT ![u] = files[u]] /\ req' = [req EXCEPT ![u] = r]
    BY <1>1, <1>7 DEF BeginDocument
  <2> HIDE DEF r
  <2>3. UploadOK(content[u], files[u], doc[u], r)
    BY <1>2, <2>1 DEF UploadOK, AtStart, WhenStaged, WhenMoved, WhenFailing, Coherent, ScanTold,
                      NoDocument
  <2> QED
    BY <1>1, <1>2, <1>4, <1>5, <2>1, <2>2, <2>3, UploadStep
<1>8. CASE StageUpload(u)
  <2> DEFINE r == [q EXCEPT !.pc = "validate", !.keys = {"staging"}]
  <2>1. /\ r \in Request /\ r.pc = "validate" /\ r.status = "validating" /\ r.answer = "none"
        /\ r.scan = "none" /\ r.keys = {"staging"} /\ r.faults = {}
    BY <1>1, <1>2, <1>8 DEF Request, StageUpload, At, Area
  <2>2. files' = [files EXCEPT ![u] = {"staging"}] /\ req' = [req EXCEPT ![u] = r]
    BY <1>1, <1>8 DEF StageUpload
  <2> HIDE DEF r
  <2>3. UploadOK(content[u], {"staging"}, doc[u], r)
    BY <1>2, <2>1 DEF UploadOK, AtStart, WhenStaged, WhenMoved, WhenFailing, Coherent, ScanTold,
                      NoDocument
  <2> QED
    BY <1>1, <1>2, <1>4, <1>5, <2>1, <2>2, <2>3, UploadStep
<1>9. ASSUME NEW f \in {{}, {"staging"}}, q.pc = "stage",
             files' = [files EXCEPT ![u] = f],
             \/ req' = [req EXCEPT ![u] = Failing(fault, "storage_failed")]
             \/ f = {} /\ req' = [req EXCEPT ![u] = Failing(q, "invalid")]
      PROVE  Intake'
  <2>0. q.status = "validating"
    BY <1>2, <1>9
  <2>1. CASE req' = [req EXCEPT ![u] = Failing(fault, "storage_failed")]
    <3> DEFINE r == Failing(fault, "storage_failed")
    <3> HIDE DEF fault
    <3>1. /\ r \in Request /\ r.pc = "fail" /\ r.failure = "storage_failed" /\ "storage" \in r.faults
          /\ r.status = "validating" /\ r.scan = q.scan /\ r.answer = "none"
      BY <1>2, <1>3, <1>4, <2>0, HandlerFields
    <3>2. f \in SUBSET Area /\ "accepted" \notin f
      BY <1>4
    <3> HIDE DEF r
    <3> QED
      BY <1>2, <1>5, <1>9, <2>1, <3>1, <3>2, FailureStarts DEF r
  <2>2. CASE f = {} /\ req' = [req EXCEPT ![u] = Failing(q, "invalid")]
    <3> DEFINE r == Failing(q, "invalid")
    <3>1. /\ r \in Request /\ r.pc = "fail" /\ r.failure = "invalid" /\ r.keys = {}
          /\ r.status = "validating" /\ r.scan = q.scan /\ r.answer = "none"
      BY <1>1, <1>2, <1>4, <2>0, HandlerFields
    <3> HIDE DEF r
    <3> QED
      BY <1>2, <1>4, <1>5, <1>9, <2>2, <3>1, FailureStarts DEF r
  <2> QED
    BY <1>9, <2>1, <2>2
<1>10. CASE StageRefused(u)
  <2>1. q.pc = "stage"
    BY <1>10 DEF StageRefused, At
  <2> QED
    BY <1>1, <1>2, <1>9, <1>10, <2>1 DEF StageRefused
<1>11. CASE StageFails(u)
  <2>1. q.pc = "stage"
    BY <1>11 DEF StageFails, At
  <2>2. CASE /\ req' = [req EXCEPT ![u] = Failing(fault, "storage_failed")]
             /\ files' \in {files, [files EXCEPT ![u] = {"staging"}]}
    BY <1>1, <1>2, <1>9, <2>1, <2>2
  <2>3. CASE req' = [req EXCEPT ![u] = Ended(fault, "error")] /\ files' = files
    <3>1. req' = [req EXCEPT ![u] = Ended(Faulted(req[u], "storage"), "error")]
      BY <2>3 DEF StorageFault
    <3>2. files' = [files EXCEPT ![u] = {}] /\ {} \subseteq files[u]
      BY <1>1, <1>2, <2>3
    <3> QED
      BY <1>2, <1>4, <1>5, <2>1, <3>1, <3>2, FaultEnds
  <2> QED
    BY <1>11, <2>2, <2>3 DEF StageFails
<1>12. CASE Disconnect(u)
  <2>1. /\ q.pc = "stage" /\ files' = [files EXCEPT ![u] = {"staging"}]
        /\ req' = [req EXCEPT ![u] = Ended(Faulted(req[u], "interrupted"), "error")]
    BY <1>12 DEF Disconnect, At
  <2> QED
    BY <1>2, <1>4, <1>5, <2>1, FaultEnds
<1> QED
  BY <1>6, <1>7, <1>8, <1>10, <1>11, <1>12

LEMMA ScanStep ==
    ASSUME Intake, NEW u \in Upload, ValidateMetadata(u) \/ Scan(u)
    PROVE  Intake'
<1> DEFINE q == req[u]
<1>1. /\ q \in Request /\ doc[u] \in DocumentRow /\ doc = [doc EXCEPT ![u] = doc[u]]
      /\ files = [files EXCEPT ![u] = files[u]] /\ content[u] \in {"clean", "infected"}
      /\ UploadOK(content[u], files[u], doc[u], q)
  BY UploadFacts
<1>2. /\ q.pc \in {"validate", "scan"} /\ files[u] = {"staging"} /\ doc[u] = NoDocument
      /\ q.keys = {"staging"} /\ q.scan = "none" /\ q.faults = {} /\ q.answer = "none"
      /\ q.status = (IF q.pc = "validate" THEN "validating" ELSE "scanning")
  BY <1>1 DEF ValidateMetadata, Scan, At, UploadOK, WhenStaged, Coherent
<1>3. content' = content /\ doc' = doc /\ files' = [files EXCEPT ![u] = files[u]]
  BY <1>1 DEF ValidateMetadata, Scan
<1>4. files[u] \in SUBSET Area /\ "accepted" \notin files[u] /\ "invalid" \in FailureCode
  BY <1>2 DEF Area, FailureCode
<1>5. ASSUME q.pc = "validate", req' = [req EXCEPT ![u] = Failing(q, "invalid")] PROVE Intake'
  <2> DEFINE r == Failing(q, "invalid")
  <2>1. q.status = "validating"
    BY <1>2, <1>5
  <2>2. /\ r \in Request /\ r.pc = "fail" /\ r.failure = "invalid" /\ r.keys = {"staging"}
        /\ r.status = "validating" /\ r.scan = q.scan /\ r.answer = "none"
    BY <1>1, <1>2, <1>4, <2>1, HandlerFields
  <2> HIDE DEF r
  <2> QED
    BY <1>2, <1>3, <1>4, <1>5, <2>2, FailureStarts DEF r
<1>6. ASSUME NEW r \in Request, req' = [req EXCEPT ![u] = r],
             r.keys = {"staging"}, r.faults = {}, r.answer = "none", r.status = "scanning",
             \/ r.pc = "scan" /\ r.scan = "none"
             \/ r.pc = "move" /\ r.scan \in {content[u], "error"}
      PROVE  Intake'
  <2>1. UploadOK(content[u], files[u], doc[u], r)
    BY <1>1, <1>2, <1>6 DEF UploadOK, AtStart, WhenStaged, WhenMoved, WhenFailing, Coherent,
                            ScanTold, NoDocument
  <2> QED
    BY <1>1, <1>3, <1>4, <1>6, <2>1, UploadStep
<1>7. CASE ValidateMetadata(u)
  <2>1. q.pc = "validate"
    BY <1>7 DEF ValidateMetadata, At
  <2>2. CASE req' = [req EXCEPT ![u].pc = "scan", ![u].status = "scanning"]
    <3> DEFINE r == [q EXCEPT !.pc = "scan", !.status = "scanning"]
    <3>1. /\ r \in Request /\ r.pc = "scan" /\ r.status = "scanning" /\ r.keys = {"staging"}
          /\ r.faults = {} /\ r.answer = "none" /\ r.scan = "none"
      BY <1>1, <1>2 DEF Request, DocumentStatus
    <3>2. req' = [req EXCEPT ![u] = r]
      BY <2>2
    <3> HIDE DEF r
    <3> QED
      BY <1>6, <3>1, <3>2
  <2> QED
    BY <1>5, <1>7, <2>1, <2>2 DEF ValidateMetadata
<1>8. CASE Scan(u)
  <2>1. q.pc = "scan"
    BY <1>8 DEF Scan, At
  <2>2. PICK scan \in {content[u], "error"} :
           req' = [req EXCEPT ![u].pc = "move", ![u].scan = scan]
    BY <1>8 DEF Scan, ScannerMay, ScanResult
  <2> DEFINE r == [q EXCEPT !.pc = "move", !.scan = scan]
  <2>3. /\ r \in Request /\ r.pc = "move" /\ r.status = "scanning" /\ r.keys = {"staging"}
        /\ r.faults = {} /\ r.answer = "none" /\ r.scan = scan
    BY <1>1, <1>2, <2>1 DEF Request
  <2>4. req' = [req EXCEPT ![u] = r]
    BY <2>2
  <2> HIDE DEF r
  <2> QED
    BY <1>6, <2>3, <2>4
<1> QED
  BY <1>7, <1>8

\* The three results of a scan.
LEMMA ScanOutcome ==
    ASSUME NEW scan \in {"clean", "infected", "error"}
    PROVE  /\ Destination(scan) \in {"accepted", "quarantine"}
           /\ Destination(scan) = "accepted" <=> scan = "clean"
           /\ StatusOf(scan) \in {"stored", "quarantined", "scan_failed"}
           /\ StatusOf(scan) = "stored" <=> scan = "clean"
           /\ FailureOf(scan) \in {"none", "malware_detected", "malware_scan_failed"}
           /\ MovedDocument(scan) \in DocumentRow
           /\ MovedDocument(scan).status = StatusOf(scan)
           /\ MovedDocument(scan).file = Destination(scan)
           /\ MovedDocument(scan).failure = FailureOf(scan)
           /\ ~MayMarkFailure(StatusOf(scan))
  BY DEF Destination, StatusOf, FailureOf, MovedDocument, DocumentRow, DocumentStatus, FailureCode,
         Area, MayMarkFailure, FailureStatus, AllowedTransitions

\* The scanned file is moved, or the move fails.
LEMMA MoveStep ==
    ASSUME Intake, NEW u \in Upload, MoveFile(u)
    PROVE  Intake'
<1> DEFINE q == req[u]
           to == Destination(q.scan)
           fault == StorageFault(q)
           held == Holding(fault, {to} \cap {"accepted"})
<1>1. /\ q \in Request /\ doc[u] \in DocumentRow /\ doc = [doc EXCEPT ![u] = doc[u]]
      /\ files = [files EXCEPT ![u] = files[u]]
      /\ UploadOK(content[u], files[u], doc[u], q)
  BY UploadFacts
<1>2. /\ q.pc = "move" /\ files[u] = {"staging"} /\ doc[u] = NoDocument
      /\ q.keys = {"staging"} /\ q.scan # "none" /\ q.faults = {} /\ q.answer = "none"
      /\ q.status = "scanning" /\ (q.scan = "clean" => content[u] = "clean")
  BY <1>1 DEF MoveFile, At, UploadOK, WhenStaged, Coherent, ScanTold
<1>3. q.scan \in {"clean", "infected", "error"}
  BY <1>1, <1>2 DEF Request
<1>4. /\ to \in {"accepted", "quarantine"} /\ (to = "accepted" <=> q.scan = "clean")
      /\ StatusOf(q.scan) \in {"stored", "quarantined", "scan_failed"}
      /\ FailureOf(q.scan) \in {"none", "malware_detected", "malware_scan_failed"}
  BY <1>3, ScanOutcome
<1>5. content' = content /\ doc' = doc
  BY DEF MoveFile
<1>6. CASE /\ files' = [files EXCEPT ![u] = {to}]
           /\ req' = [req EXCEPT ![u] = [q EXCEPT !.pc = "commit", !.keys = {to},
                                                  !.status = StatusOf(q.scan),
                                                  !.failure = FailureOf(q.scan)]]
  <2> DEFINE r == [q EXCEPT !.pc = "commit", !.keys = {to}, !.status = StatusOf(q.scan),
                            !.failure = FailureOf(q.scan)]
  <2> HIDE DEF to
  <2>1. /\ r \in Request /\ r.pc = "commit" /\ r.keys = {to} /\ r.status = StatusOf(q.scan)
        /\ r.failure = FailureOf(q.scan) /\ r.scan = q.scan /\ r.faults = {} /\ r.answer = "none"
    BY <1>1, <1>2, <1>3, <1>4 DEF Request, DocumentStatus, FailureCode, Area
  <2>2. {to} \in SUBSET Area
    BY <1>4 DEF Area
  <2>3. req' = [req EXCEPT ![u] = r] /\ files' = [files EXCEPT ![u] = {to}]
    BY <1>6
  <2> HIDE DEF r
  <2>4. UploadOK(content[u], {to}, doc[u], r)
    <3>1. to = Destination(r.scan)
      BY <2>1 DEF to
    <3> QED
      BY <1>2, <1>3, <1>4, <2>1, <3>1
      DEF UploadOK, AtStart, WhenStaged, WhenMoved, WhenFailing, Coherent, ScanTold, NoDocument
  <2> QED
    BY <1>1, <1>5, <2>1, <2>2, <2>3, <2>4, UploadStep
<1>7. CASE /\ req' = [req EXCEPT ![u] = Failing(held, "storage_failed")]
           /\ files' = files
  <2> DEFINE r == Failing(held, "storage_failed")
  <2>1. /\ fault \in Request /\ "storage" \in fault.faults /\ fault.status = "scanning"
        /\ fault.scan = q.scan /\ fault.answer = "none"
    BY <1>1, <1>2 DEF StorageFault, Faulted, Request
  <2> HIDE DEF fault, to
  <2>2. /\ held \in Request /\ "storage" \in held.faults /\ held.status = "scanning"
        /\ held.scan = q.scan /\ held.answer = "none"
    BY <2>1 DEF Holding, Request, Area
  <2> HIDE DEF held
  <2>3. /\ r \in Request /\ r.pc = "fail" /\ r.failure = "storage_failed" /\ "storage" \in r.faults
        /\ r.status = "scanning" /\ r.scan = q.scan /\ r.answer = "none"
    BY <2>2, HandlerFields DEF FailureCode
  <2>4. files[u] \in SUBSET Area /\ "accepted" \notin files[u]
    BY <1>2 DEF Area
  <2>5. files' = [files EXCEPT ![u] = files[u]]
    BY <1>1, <1>7
  <2> HIDE DEF r
  <2> QED
    BY <1>2, <1>5, <1>7, <2>3, <2>4, <2>5, FailureStarts DEF r
<1> QED
  BY <1>6, <1>7 DEF MoveFile

\* The document that the handler commits after a move is that of the moved file.
LEMMA BuiltMoved ==
    ASSUME NEW u \in Upload, req[u].pc = "commit",
           req[u].status = StatusOf(req[u].scan), req[u].failure = FailureOf(req[u].scan)
    PROVE  Built(u) = MovedDocument(req[u].scan)
  BY DEF Built, MovedDocument, At

\* The transaction of a moved file commits, or reports an error and may have.
LEMMA CommitStep ==
    ASSUME Intake, NEW u \in Upload, Commit(u) \/ CommitFails(u)
    PROVE  Intake'
<1> DEFINE q == req[u]
           d == MovedDocument(q.scan)
<1>1. /\ q \in Request /\ doc[u] \in DocumentRow /\ doc = [doc EXCEPT ![u] = doc[u]]
      /\ files = [files EXCEPT ![u] = files[u]] /\ files[u] \in SUBSET Area
      /\ UploadOK(content[u], files[u], doc[u], q)
  BY UploadFacts
<1>2. /\ q.pc = "commit" /\ q.scan # "none" /\ files[u] = {Destination(q.scan)}
      /\ q.keys = {Destination(q.scan)} /\ q.status = StatusOf(q.scan)
      /\ q.failure = FailureOf(q.scan) /\ doc[u] = NoDocument /\ q.faults = {}
      /\ q.answer = "none" /\ (q.scan = "clean" => content[u] = "clean")
  BY <1>1 DEF Commit, CommitFails, At, UploadOK, WhenMoved, Coherent, ScanTold
<1>3. q.scan \in {"clean", "infected", "error"}
  BY <1>1, <1>2 DEF Request
<1>4. Built(u) = d
  BY <1>2, BuiltMoved
<1>5. /\ d \in DocumentRow /\ d.status = StatusOf(q.scan) /\ d.file = Destination(q.scan)
      /\ d.failure = FailureOf(q.scan)
      /\ Destination(q.scan) \in {"accepted", "quarantine"}
      /\ (Destination(q.scan) = "accepted" <=> q.scan = "clean")
      /\ StatusOf(q.scan) \in {"stored", "quarantined", "scan_failed"}
      /\ (StatusOf(q.scan) = "stored" <=> q.scan = "clean")
      /\ FailureOf(q.scan) \in {"none", "malware_detected", "malware_scan_failed"}
  BY <1>3, ScanOutcome
<1>6. content' = content /\ files' = [files EXCEPT ![u] = files[u]]
  BY <1>1 DEF Commit, CommitFails
<1> HIDE DEF d
<1>7. CASE Commit(u)
  <2> DEFINE answer == IF q.scan = "clean" THEN "stored" ELSE "refused"
             r == Ended(q, answer)
  <2>1. answer \in {"stored", "refused", "error"} /\ (answer = "stored" <=> q.scan = "clean")
    OBVIOUS
  <2>2. doc' = [doc EXCEPT ![u] = d] /\ req' = [req EXCEPT ![u] = r]
    BY <1>4, <1>7 DEF Commit
  <2> HIDE DEF answer
  <2>3. /\ r \in Request /\ r.pc = "done" /\ r.answer = answer /\ r.scan = q.scan
        /\ r.faults = {}
    BY <1>1, <1>2, <2>1, HandlerFields
  <2> HIDE DEF r
  <2>4. UploadOK(content[u], files[u], d, r)
    <3>1. AtStart(files[u], d, r) /\ WhenStaged(files[u], d, r) /\ WhenMoved(files[u], d, r)
          /\ WhenFailing(files[u], d, r)
      BY <2>3 DEF AtStart, WhenStaged, WhenMoved, WhenFailing
    <3>2. Coherent(files[u], d, r)
      BY <1>2, <1>5, <2>1, <2>3 DEF Coherent
    <3>3. ScanTold(content[u], files[u], d, r)
      BY <1>2, <1>5, <2>3 DEF ScanTold
    <3> QED
      BY <3>1, <3>2, <3>3 DEF UploadOK
  <2> QED
    BY <1>1, <1>5, <1>6, <2>2, <2>3, <2>4, UploadStep
<1>8. CASE CommitFails(u)
  <2> DEFINE fault == Faulted(q, "commit")
             r == [fault EXCEPT !.pc = "cleanup"]
  <2>1. /\ fault \in Request /\ "commit" \in fault.faults /\ fault.scan = q.scan
        /\ fault.keys = q.keys /\ fault.answer = "none" /\ fault.failure = q.failure
        /\ fault.status = q.status
    BY <1>1, <1>2 DEF Faulted, Request
  <2>2. req' = [req EXCEPT ![u] = r]
    BY <1>8 DEF CommitFails
  <2> HIDE DEF fault
  <2>3. /\ r \in Request /\ r.pc = "cleanup" /\ "commit" \in r.faults /\ r.scan = q.scan
        /\ r.keys = q.keys /\ r.answer = "none" /\ r.failure = q.failure /\ r.status = q.status
    BY <2>1 DEF Request
  <2> HIDE DEF r
  <2>4. PICK e \in {NoDocument, d} : doc' = [doc EXCEPT ![u] = e]
    BY <1>1, <1>2, <1>4, <1>8 DEF CommitFails
  <2>5. e \in DocumentRow
    BY <1>1, <1>2, <1>5, <2>4
  <2>6. UploadOK(content[u], files[u], e, r)
    <3>1. AtStart(files[u], e, r) /\ WhenStaged(files[u], e, r) /\ WhenFailing(files[u], e, r)
      BY <2>3 DEF AtStart, WhenStaged, WhenFailing
    <3>2. WhenMoved(files[u], e, r)
      BY <1>2, <2>3, <2>4 DEF WhenMoved, d
    <3>3. Coherent(files[u], e, r)
      BY <1>2, <1>5, <2>3, <2>4 DEF Coherent, NoDocument
    <3>4. ScanTold(content[u], files[u], e, r)
      BY <1>2, <1>5, <2>3, <2>4 DEF ScanTold, NoDocument
    <3> QED
      BY <3>1, <3>2, <3>3, <3>4 DEF UploadOK
  <2> QED
    BY <1>1, <1>6, <2>2, <2>3, <2>4, <2>5, <2>6, UploadStep
<1> QED
  BY <1>7, <1>8

\* The moved file of a failed commit is deleted, or cannot be.
LEMMA CleanupStep ==
    ASSUME Intake, NEW u \in Upload, Cleanup(u)
    PROVE  Intake'
<1> DEFINE q == req[u]
           fault == StorageFault(q)
<1>1. /\ q \in Request /\ doc[u] \in DocumentRow /\ doc = [doc EXCEPT ![u] = doc[u]]
      /\ files = [files EXCEPT ![u] = files[u]] /\ files[u] \in SUBSET Area
      /\ UploadOK(content[u], files[u], doc[u], q)
  BY UploadFacts
<1>2. /\ q.pc = "cleanup" /\ q.scan # "none" /\ files[u] = q.keys
      /\ q.status = StatusOf(q.scan) /\ doc[u] \in {NoDocument, MovedDocument(q.scan)}
      /\ "commit" \in q.faults
      /\ Coherent(files[u], doc[u], q) /\ ScanTold(content[u], files[u], doc[u], q)
  BY <1>1 DEF Cleanup, At, UploadOK, WhenMoved
<1>3. q.scan \in {"clean", "infected", "error"}
  BY <1>1, <1>2 DEF Request
<1>4. /\ StatusOf(q.scan) \in {"stored", "quarantined", "scan_failed"}
      /\ doc[u].failure # "invalid"
  BY <1>2, <1>3, ScanOutcome DEF NoDocument
<1>5. content' = content /\ doc' = [doc EXCEPT ![u] = doc[u]]
  BY <1>1 DEF Cleanup
<1>6. CASE files' = [files EXCEPT ![u] = @ \ q.keys] /\ req' = [req EXCEPT ![u] = Ended(q, "error")]
  <2> DEFINE r == Ended(q, "error")
  <2>1. /\ r \in Request /\ r.pc = "done" /\ r.answer = "error" /\ r.scan = q.scan
        /\ r.faults = q.faults
    BY <1>1, HandlerFields
  <2>2. files' = [files EXCEPT ![u] = {}] /\ req' = [req EXCEPT ![u] = r]
    BY <1>1, <1>2, <1>6
  <2> HIDE DEF r
  <2>3. UploadOK(content[u], {}, doc[u], r)
    BY <1>2, <1>4, <2>1
    DEF UploadOK, AtStart, WhenStaged, WhenMoved, WhenFailing, Coherent, ScanTold
  <2>4. {} \in SUBSET Area
    OBVIOUS
  <2> QED
    BY <1>1, <1>5, <2>1, <2>2, <2>3, <2>4, UploadStep
<1>7. CASE req' = [req EXCEPT ![u] = Failing(fault, "storage_failed")] /\ files' = files
  <2> DEFINE r == Failing(fault, "storage_failed")
  <2>1. /\ fault \in Request /\ "commit" \in fault.faults /\ fault.scan = q.scan
        /\ fault.answer = q.answer /\ fault.status = q.status
    BY <1>1, <1>2 DEF StorageFault, Faulted, Request
  <2>2. files' = [files EXCEPT ![u] = files[u]] /\ req' = [req EXCEPT ![u] = r]
    BY <1>1, <1>7
  <2> HIDE DEF fault
  <2>3. /\ r \in Request /\ r.pc = "fail" /\ r.failure = "storage_failed"
        /\ "commit" \in r.faults /\ r.scan = q.scan /\ r.answer = q.answer /\ r.status = q.status
    BY <2>1, HandlerFields DEF FailureCode
  <2> HIDE DEF r
  <2>4. UploadOK(content[u], files[u], doc[u], r)
    BY <1>2, <1>4, <2>3
    DEF UploadOK, AtStart, WhenStaged, WhenMoved, WhenFailing, Coherent, ScanTold
  <2> QED
    BY <1>1, <1>5, <2>2, <2>3, <2>4, UploadStep
<1> QED
  BY <1>6, <1>7 DEF Cleanup

\* While a handler runs, only an error of its commit can have left a document.
LEMMA OpenDocument ==
    ASSUME Intake, NEW u \in Upload, req[u].pc \notin {"new", "done"}
    PROVE  doc[u].file # "none" => "commit" \in req[u].faults
<1>1. req[u] \in Request /\ UploadOK(content[u], files[u], doc[u], req[u])
  BY UploadFacts
<1>2. req[u].pc \in {"stage", "validate", "scan", "move", "commit", "cleanup", "fail", "fail_commit"}
  BY <1>1 DEF Request
<1> QED
  BY <1>1, <1>2 DEF UploadOK, AtStart, WhenStaged, WhenMoved, WhenFailing, NoDocument

\* The statuses in which a failure can be marked, and what it is marked as.
LEMMA FailureMarks ==
    /\ MayMarkFailure("validating") /\ FailureStatus("validating") = "validation_failed"
    /\ MayMarkFailure("scanning") /\ FailureStatus("scanning") = "scan_failed"
    /\ \A s \in {"stored", "quarantined", "scan_failed"} : ~MayMarkFailure(s)
  BY DEF MayMarkFailure, FailureStatus, AllowedTransitions, DocumentStatus

\* The failure handlers delete the files whose keys they hold and mark the document.
LEMMA HandleStep ==
    ASSUME Intake, NEW u \in Upload, HandleFailure(u)
    PROVE  Intake'
<1> DEFINE q == req[u]
           held == q.keys \cap {"staging", "accepted"}
           f == files[u] \ held
<1>1. /\ q \in Request /\ doc[u] \in DocumentRow /\ doc = [doc EXCEPT ![u] = doc[u]]
      /\ files = [files EXCEPT ![u] = files[u]] /\ files[u] \in SUBSET Area
      /\ UploadOK(content[u], files[u], doc[u], q)
  BY UploadFacts
<1>2. /\ q.pc = "fail" /\ WhenFailing(files[u], doc[u], q)
      /\ Coherent(files[u], doc[u], q) /\ ScanTold(content[u], files[u], doc[u], q)
  BY <1>1 DEF HandleFailure, At, UploadOK
<1>3. content' = content /\ doc' = doc /\ doc' = [doc EXCEPT ![u] = doc[u]]
  BY <1>1 DEF HandleFailure
<1>4. f \in SUBSET Area /\ f \subseteq files[u]
  BY <1>1
<1>5. doc[u].file # "none" => "commit" \in q.faults
  BY <1>2, OpenDocument
<1>6. doc[u].failure # "invalid"
  BY <1>2 DEF Coherent
<1>7. CASE /\ files' = [files EXCEPT ![u] = @ \ held]
           /\ req' = [req EXCEPT ![u] = IF MayMarkFailure(@.status) THEN Marked(@)
                                        ELSE Ended(@, "error")]
  <2>1. files' = [files EXCEPT ![u] = f]
    BY <1>1, <1>7
  <2>2. CASE MayMarkFailure(q.status)
    <3> DEFINE r == Marked(q)
    <3>1. q.status \in {"validating", "scanning"} /\ doc[u] = NoDocument
      BY <1>2, <2>2, FailureMarks DEF WhenFailing
    <3>2. FailureStatus(q.status) \in DocumentStatus
      BY <3>1, FailureMarks DEF DocumentStatus
    <3>3. /\ r \in Request /\ r.pc = "fail_commit" /\ r.failure = q.failure
          /\ r.faults = q.faults /\ r.scan = q.scan /\ r.answer = q.answer
          /\ r.status = FailureStatus(q.status)
      BY <1>1, <3>2 DEF Marked, Request
    <3>4. req' = [req EXCEPT ![u] = r]
      BY <1>7, <2>2
    <3>5. q.failure = "invalid" => f = {}
      BY <1>2 DEF WhenFailing
    <3> HIDE DEF r, f
    <3>6. WhenFailing(f, doc[u], r)
      BY <1>2, <3>1, <3>3, <3>5, FailureMarks DEF WhenFailing
    <3>7. Coherent(f, doc[u], r)
      BY <1>2, <3>1, <3>3 DEF Coherent, NoDocument
    <3>8. UploadOK(content[u], f, doc[u], r)
      BY <1>2, <1>4, <3>3, <3>6, <3>7 DEF UploadOK, AtStart, WhenStaged, WhenMoved, ScanTold
    <3> QED
      BY <1>1, <1>3, <1>4, <2>1, <3>3, <3>4, <3>8, UploadStep
  <2>3. CASE ~MayMarkFailure(q.status)
    <3> DEFINE r == Ended(q, "error")
    <3>1. "commit" \in q.faults
      BY <1>2, <2>3, FailureMarks DEF WhenFailing
    <3>2. /\ r \in Request /\ r.pc = "done" /\ r.answer = "error" /\ r.scan = q.scan
          /\ r.faults = q.faults
      BY <1>1, HandlerFields
    <3>3. req' = [req EXCEPT ![u] = r]
      BY <1>7, <2>3
    <3> HIDE DEF r, f
    <3>4. UploadOK(content[u], f, doc[u], r)
      BY <1>2, <1>4, <1>6, <3>1, <3>2
      DEF UploadOK, AtStart, WhenStaged, WhenMoved, WhenFailing, Coherent, ScanTold
    <3> QED
      BY <1>1, <1>3, <1>4, <2>1, <3>2, <3>3, <3>4, UploadStep
  <2> QED
    BY <2>2, <2>3
<1>8. CASE req' = [req EXCEPT ![u] = Ended(StorageFault(q), "error")] /\ files' = files
  <2>1. /\ req' = [req EXCEPT ![u] = Ended(Faulted(req[u], "storage"), "error")]
        /\ files' = [files EXCEPT ![u] = files[u]] /\ q.pc \notin {"new", "done"}
    BY <1>1, <1>2, <1>8 DEF StorageFault
  <2> QED
    BY <1>1, <1>3, <1>5, <2>1, FaultEnds
<1> QED
  BY <1>7, <1>8 DEF HandleFailure

\* The failed document is committed, or the commit reports an error and may have been.
LEMMA FailureCommitStep ==
    ASSUME Intake, NEW u \in Upload, CommitFailure(u)
    PROVE  Intake'
<1> DEFINE q == req[u]
           d == Built(u)
           fault == Faulted(q, "commit")
<1>1. /\ q \in Request /\ doc[u] \in DocumentRow /\ doc = [doc EXCEPT ![u] = doc[u]]
      /\ files = [files EXCEPT ![u] = files[u]] /\ files[u] \in SUBSET Area
      /\ UploadOK(content[u], files[u], doc[u], q)
  BY UploadFacts
<1>2. /\ q.pc = "fail_commit" /\ doc[u] = NoDocument
      /\ \/ q.failure = "invalid" /\ q.status = "validation_failed" /\ files[u] = {}
         \/ /\ q.failure = "storage_failed" /\ "storage" \in q.faults
            /\ q.status \in {"validation_failed", "scan_failed"}
      /\ ScanTold(content[u], files[u], doc[u], q)
  BY <1>1 DEF CommitFailure, At, UploadOK, WhenFailing
<1>3. content' = content /\ files' = [files EXCEPT ![u] = files[u]]
  BY <1>1 DEF CommitFailure
<1>4. d \in DocumentRow /\ d.status = q.status /\ d.file = "none" /\ d.failure = q.failure
  BY <1>1, <1>2 DEF Built, At, DocumentRow, Request
<1>5. /\ fault \in Request /\ fault.scan = q.scan /\ fault.faults = q.faults \cup {"commit"}
  BY <1>1 DEF Faulted, Request
<1> HIDE DEF d, fault
<1>6. PICK e \in {NoDocument, d}, answer \in {"refused", "error"}, p \in {q, fault} :
         /\ doc' = [doc EXCEPT ![u] = e]
         /\ req' = [req EXCEPT ![u] = Ended(p, answer)]
  <2>1. CASE doc' = [doc EXCEPT ![u] = d] /\ req' = [req EXCEPT ![u] = Ended(q, "refused")]
    BY <2>1
  <2>2. CASE /\ doc' \in {doc, [doc EXCEPT ![u] = d]}
             /\ req' = [req EXCEPT ![u] = Ended(fault, "error")]
    BY <1>1, <1>2, <2>2
  <2> QED
    BY <2>1, <2>2 DEF CommitFailure, d, fault
<1> DEFINE r == Ended(p, answer)
<1>7. /\ r \in Request /\ r.pc = "done" /\ r.answer \in {"refused", "error"} /\ r.scan = q.scan
      /\ q.faults \subseteq r.faults
  BY <1>1, <1>5, <1>6, HandlerFields
<1> HIDE DEF r
<1>8. e \in DocumentRow /\ e.file = "none" /\ e.status # "stored" /\ e.status # "quarantined"
      /\ (e.failure = "invalid" => e.status = "validation_failed" /\ files[u] = {})
  BY <1>1, <1>2, <1>4, <1>6 DEF NoDocument
<1>9. UploadOK(content[u], files[u], e, r)
  <2>1. AtStart(files[u], e, r) /\ WhenStaged(files[u], e, r) /\ WhenMoved(files[u], e, r)
        /\ WhenFailing(files[u], e, r)
    BY <1>7 DEF AtStart, WhenStaged, WhenMoved, WhenFailing
  <2>2. Coherent(files[u], e, r)
    BY <1>2, <1>7, <1>8 DEF Coherent
  <2>3. ScanTold(content[u], files[u], e, r)
    BY <1>2, <1>7, <1>8 DEF ScanTold
  <2> QED
    BY <2>1, <2>2, <2>3 DEF UploadOK
<1> QED
  BY <1>1, <1>3, <1>6, <1>7, <1>8, <1>9, UploadStep DEF r

LEMMA IntakeNext ==
    ASSUME Intake, [Next]_vars
    PROVE  Intake'
<1>1. CASE Next
  <2>1. PICK u \in Upload :
           \/ RefuseFilename(u) \/ BeginDocument(u) \/ StageUpload(u) \/ StageRefused(u)
           \/ StageFails(u) \/ Disconnect(u) \/ ValidateMetadata(u) \/ Scan(u) \/ MoveFile(u)
           \/ Commit(u) \/ CommitFails(u) \/ Cleanup(u) \/ HandleFailure(u) \/ CommitFailure(u)
           \/ Crash(u)
    BY <1>1 DEF Next
  <2>2. CASE Crash(u)
    <3>1. /\ req[u].pc \notin {"new", "done"} /\ content' = content /\ doc' = doc
          /\ req' = [req EXCEPT ![u] = Ended(Faulted(req[u], "interrupted"), "error")]
      BY <2>2 DEF Crash
    <3>2. files' = [files EXCEPT ![u] = files[u]] /\ files[u] \in SUBSET Area
      BY <2>2, UploadFacts DEF Crash
    <3> QED
      BY <3>1, <3>2, OpenDocument, FaultEnds
  <2> QED
    BY <2>1, <2>2, StageStep, ScanStep, MoveStep, CommitStep, CleanupStep, HandleStep,
       FailureCommitStep
<1>2. CASE UNCHANGED vars
  BY <1>2 DEF vars, Intake, TypeOK
<1> QED
  BY <1>1, <1>2

-----------------------------------------------------------------------------

LEMMA IntakeProperties ==
    Intake => /\ OnlyCleanAccepted
              /\ StoredAnswerIsDurable
              /\ DocumentNamesItsFile
              /\ NoLeftoverFile
<1> SUFFICES ASSUME Intake
             PROVE  /\ OnlyCleanAccepted
                    /\ StoredAnswerIsDurable
                    /\ DocumentNamesItsFile
                    /\ NoLeftoverFile
  OBVIOUS
<1>1. ASSUME NEW u \in Upload
      PROVE  Coherent(files[u], doc[u], req[u]) /\ ScanTold(content[u], files[u], doc[u], req[u])
  BY UploadFacts DEF UploadOK
<1>2. OnlyCleanAccepted
  BY <1>1 DEF OnlyCleanAccepted, ScanTold
<1>3. StoredAnswerIsDurable
  BY <1>1 DEF StoredAnswerIsDurable, Coherent
<1>4. DocumentNamesItsFile
  BY <1>1 DEF DocumentNamesItsFile, Coherent
<1>5. NoLeftoverFile
  BY <1>1 DEF NoLeftoverFile, Coherent, At
<1> QED
  BY <1>2, <1>3, <1>4, <1>5

(***************************************************************************)
(* Extraction: what is known of a request and of its run, whatever intake  *)
(* does at the same time.                                                  *)
(***************************************************************************)

RunRow == [status : {"absent", "running", "succeeded", "failed"},
           upload : Upload \cup {NoUpload}, fields : Seq(Observation),
           failure : RunFailure \cup {"none"}]

JobState == [pc : {"new", "provider", "commit", "done"}, row : RunRow,
             read : BOOLEAN, out : Seq(Observation) \cup {Nothing}, lost : BOOLEAN]

\* What the provider returned has something in it that no run can say.
Excused(out) == out = Nothing \/ \E i \in DOMAIN out : Unrecordable(out[i])

\* A run that has ended: with what was read, or for a stated reason.
EndedRun(row, read) ==
    \/ row.status = "succeeded" /\ row.failure = "none" /\ read
    \/ row.status = "failed" /\ row.failure \in RunFailure /\ row.fields = <<>>

\* J and R are a request and its committed run.
JobOK(J, R) ==
    /\ J.pc = "new" => J = NewJob
    /\ J.pc \in {"provider", "commit"} => J.row.upload \in Upload /\ ~J.lost
    /\ J.pc = "provider" => ~J.read /\ J.row.failure = "none" /\ J.row.fields = <<>>
    /\ J.pc = "commit" => EndedRun(J.row, J.read)
    /\ J.pc # "done" => R = NoRun
    /\ R = NoRun \/ (R = J.row /\ EndedRun(J.row, J.read))
    /\ J.pc = "done" /\ J.read /\ ~J.lost =>
          \/ R = J.row /\ EndedRun(J.row, J.read)
          \/ ~FitsTable(J.row.fields) \/ Excused(J.out)
    /\ J.read /\ MaxValueChars <= ColumnChars => FitsTable(J.row.fields) \/ Excused(J.out)
    /\ J.read => J.row.upload \in Upload

\* The file that was read had been scanned and found clean.
ReadClean(J) ==
    J.read => content[J.row.upload] = "clean" /\ req[J.row.upload].scan = "clean"

Jobs ==
    /\ job \in [Job -> JobState]
    /\ run \in [Job -> RunRow]
    /\ \A j \in Job : JobOK(job[j], run[j]) /\ ReadClean(job[j])

ExtractionInvariant == Intake /\ Jobs

-----------------------------------------------------------------------------
LEMMA OneScaled == One \in Int /\ OneRounded \in Int /\ One = 10 * OneRounded
  BY DEF One, OneRounded

\* A confidence between 0 and 1 stays there when it is rounded to four decimals.
LEMMA QuantizeRange ==
    ASSUME NEW c \in 0 .. One
    PROVE  Quantize(c) \in 0 .. OneRounded
<1> DEFINE q == c \div 10
           r == c % 10
<1>1. q \in Int /\ r \in 0 .. 9 /\ c = 10 * q + r
  OBVIOUS
<1>2. Quantize(c) \in {q, q + 1} /\ (r = 0 => Quantize(c) = q)
  BY <1>1 DEF Quantize
<1> HIDE DEF q, r
<1>3. One \in Int /\ OneRounded \in Int /\ One = 10 * OneRounded
  BY OneScaled
<1>4. q \in 0 .. OneRounded /\ (q = OneRounded => r = 0)
  BY <1>1, <1>3
<1> QED
  BY <1>1, <1>2, <1>3, <1>4

\* A validated observation has the fields of the one it was made of, but for the
\* confidence.
LEMMA ValidatedFields ==
    ASSUME NEW o \in Observation
    PROVE  /\ Validated(o) \in Observation
           /\ Validated(o).path = o.path /\ Validated(o).type = o.type
           /\ Validated(o).raw = o.raw /\ Validated(o).normalized = o.normalized
           /\ Validated(o).page = o.page
           /\ Validated(o).storable = o.storable /\ Validated(o).locator = o.locator
           /\ Validated(o).confidence = IF o.confidence = Nothing THEN Nothing
                                        ELSE Quantize(o.confidence)
<1>1. \A c \in Int : Quantize(c) \in Int
  BY DEF Quantize
<1> QED
  BY <1>1 DEF Validated, Observation

\* What validation passes, the table takes, but for what no run can say.
LEMMA ValidFits ==
    ASSUME NEW out \in Seq(Observation), ValidResult(out), MaxValueChars <= ColumnChars
    PROVE  LET rows == [i \in DOMAIN out |-> Validated(out[i])]
           IN  rows \in Seq(Observation) /\ (FitsTable(rows) \/ Excused(out))
<1> DEFINE rows == [i \in DOMAIN out |-> Validated(out[i])]
<1>1. /\ DOMAIN rows = DOMAIN out
      /\ \A i \in DOMAIN out : out[i] \in Observation /\ rows[i] = Validated(out[i])
  OBVIOUS
<1>2. \A i \in DOMAIN out :
         /\ rows[i] \in Observation
         /\ rows[i].path = out[i].path /\ rows[i].type = out[i].type
         /\ rows[i].raw = out[i].raw /\ rows[i].normalized = out[i].normalized
         /\ rows[i].page = out[i].page /\ rows[i].storable = out[i].storable
         /\ rows[i].locator = out[i].locator
         /\ rows[i].confidence = IF out[i].confidence = Nothing THEN Nothing
                                 ELSE Quantize(out[i].confidence)
  BY <1>1, ValidatedFields
<1>3. rows \in Seq(Observation)
  <2>1. DOMAIN out = 1 .. Len(out) /\ Len(out) \in Nat
    OBVIOUS
  <2> QED
    BY <1>2, <2>1
<1> HIDE DEF rows
<1>4. DistinctPaths(rows)
  BY <1>1, <1>2 DEF DistinctPaths, ValidResult
<1>5. ASSUME ~Excused(out), NEW i \in DOMAIN out PROVE FitsRow(rows[i])
  <2>1. ValidField(out[i]) /\ out[i] \in Observation
    BY <1>1 DEF ValidResult
  <2>0. ValidUpToLocator(out[i]) /\ ~Unrecordable(out[i])
    BY <1>1, <1>5, <2>1 DEF ValidField, Excused
  <2>2. rows[i].path # "empty" /\ rows[i].path # "too long" /\ rows[i].type \in ValueType
    BY <1>2, <2>0 DEF ValidUpToLocator, ValidPath, GoodPath, ValidType
  <2>3. MaxValueChars \in Nat /\ ColumnChars \in Nat /\ MaxInteger \in Nat
    BY LimitsAssumption
  <2>4. rows[i].raw <= ColumnChars
    BY <1>2, <2>0, <2>1, <2>3 DEF ValidUpToLocator, ValidValue, Observation
  <2>5. rows[i].normalized # Nothing => rows[i].normalized <= ColumnChars
    BY <1>2, <2>0, <2>1, <2>3 DEF ValidUpToLocator, ValidOptional, ValidValue, Observation
  <2>6. rows[i].confidence # Nothing => rows[i].confidence \in 0 .. OneRounded
    <3>1. out[i].confidence # Nothing => Quantize(out[i].confidence) \in 0 .. OneRounded
      BY <2>0, QuantizeRange DEF ValidUpToLocator, ValidConfidence
    <3>2. rows[i].confidence = IF out[i].confidence = Nothing THEN Nothing
                               ELSE Quantize(out[i].confidence)
      BY <1>2
    <3> QED
      BY <3>1, <3>2
  <2>7. rows[i].page # Nothing => rows[i].page \in 1 .. MaxInteger
    <3>1. rows[i].page # Nothing => ~(rows[i].page > MaxInteger) /\ rows[i].page \in Int
      BY <1>1, <1>2, <2>0 DEF Unrecordable, Observation
    <3>2. rows[i].page # Nothing => rows[i].page >= 1
      BY <1>2, <2>0 DEF ValidUpToLocator, ValidPage
    <3> QED
      BY <2>3, <3>1, <3>2
  <2>8. rows[i].storable /\ rows[i].locator # "not a number"
    BY <1>2, <2>0 DEF Unrecordable
  <2> QED
    BY <2>2, <2>4, <2>5, <2>6, <2>7, <2>8, Zenon DEF FitsRow
<1> QED
  BY <1>1, <1>3, <1>4, <1>5 DEF FitsTable, rows

\* Validated rows are well formed whatever the limits are.
LEMMA ValidatedRows ==
    ASSUME NEW out \in Seq(Observation)
    PROVE  [i \in DOMAIN out |-> Validated(out[i])] \in Seq(Observation)
<1>1. DOMAIN out = 1 .. Len(out) /\ Len(out) \in Nat
  OBVIOUS
<1>2. \A i \in DOMAIN out : Validated(out[i]) \in Observation
  BY ValidatedFields
<1> QED
  BY <1>1, <1>2

\* What a step of intake leaves alone: a file is scanned once.
ScanKept ==
    /\ content' = content
    /\ \A u \in Upload : req[u].scan = "clean" => req'[u].scan = "clean"

LEMMA ScannedOnce ==
    ASSUME Intake, [Next]_vars
    PROVE  ScanKept
<1>1. CASE UNCHANGED vars
  BY <1>1 DEF vars, ScanKept
<1>2. CASE Next
  <2>1. PICK u \in Upload :
           \/ RefuseFilename(u) \/ BeginDocument(u) \/ StageUpload(u) \/ StageRefused(u)
           \/ StageFails(u) \/ Disconnect(u) \/ ValidateMetadata(u) \/ Scan(u) \/ MoveFile(u)
           \/ Commit(u) \/ CommitFails(u) \/ Cleanup(u) \/ HandleFailure(u) \/ CommitFailure(u)
           \/ Crash(u)
    BY <1>2 DEF Next
  <2>2. /\ req \in [Upload -> Request] /\ req[u] \in Request
        /\ UploadOK(content[u], files[u], doc[u], req[u])
    BY UploadFacts DEF Intake, TypeOK
  <2>3. content' = content
    BY <2>1 DEF RefuseFilename, BeginDocument, StageUpload, StageRefused, StageFails, Disconnect,
                ValidateMetadata, Scan, MoveFile, Commit, CommitFails, Cleanup, HandleFailure,
                CommitFailure, Crash
  <2>4. CASE Scan(u)
    <3>1. req[u].scan = "none" /\ \A v \in Upload \ {u} : req'[v] = req[v]
      BY <2>2, <2>4 DEF Scan, At, UploadOK, WhenStaged
    <3> QED
      BY <2>3, <3>1 DEF ScanKept
  <2>5. ASSUME NEW r \in Request, r.scan = req[u].scan, req' = [req EXCEPT ![u] = r]
        PROVE  ScanKept
    BY <2>2, <2>3, <2>5 DEF ScanKept
  <2>6. \A r \in Request, what \in {"storage", "commit", "interrupted"} :
           Faulted(r, what) \in Request /\ Faulted(r, what).scan = r.scan
    BY DEF Faulted, Request
  <2>7. CASE \/ RefuseFilename(u) \/ StageRefused(u) \/ StageFails(u) \/ Disconnect(u)
             \/ Commit(u) \/ Cleanup(u) \/ CommitFailure(u) \/ Crash(u)
    <3>1. PICK r \in {req[u], Faulted(req[u], "storage"), Faulted(req[u], "commit"),
                      Faulted(req[u], "interrupted")} :
             \/ \E answer \in {"stored", "refused", "error"} :
                   req' = [req EXCEPT ![u] = Ended(r, answer)]
             \/ \E code \in FailureCode : req' = [req EXCEPT ![u] = Failing(r, code)]
      BY <2>7 DEF RefuseFilename, StageRefused, StageFails, Disconnect, Commit, Cleanup,
                  CommitFailure, Crash, StorageFault, FailureCode
    <3>2. r \in Request /\ r.scan = req[u].scan
      BY <2>2, <2>6, <3>1
    <3> QED
      BY <2>5, <3>1, <3>2, HandlerFields
  <2>8. CASE BeginDocument(u) \/ StageUpload(u)
    BY <2>2, <2>3, <2>8 DEF BeginDocument, StageUpload, ScanKept, Request
  <2>9. ASSUME NEW r \in Request, r.scan = req[u].scan,
                \/ \E answer \in {"stored", "refused", "error"} :
                      req' = [req EXCEPT ![u] = Ended(r, answer)]
                \/ \E code \in FailureCode : req' = [req EXCEPT ![u] = Failing(r, code)]
         PROVE  ScanKept
    BY <2>5, <2>9, HandlerFields
  <2>10. CASE ValidateMetadata(u)
    <3>1. CASE req' = [req EXCEPT ![u].pc = "scan", ![u].status = "scanning"]
      BY <2>2, <2>3, <3>1 DEF ScanKept, Request
    <3>2. CASE req' = [req EXCEPT ![u] = Failing(req[u], "invalid")]
      BY <2>2, <2>9, <3>2 DEF FailureCode
    <3> QED
      BY <2>10, <3>1, <3>2 DEF ValidateMetadata
  <2>11. CASE MoveFile(u)
    <3> DEFINE fault == Faulted(req[u], "storage")
               held == Holding(fault, {Destination(req[u].scan)} \cap {"accepted"})
    <3>1. CASE req' = [req EXCEPT ![u] = Failing(held, "storage_failed")]
      <4>1. fault \in Request /\ fault.scan = req[u].scan
        BY <2>2, <2>6
      <4> HIDE DEF fault
      <4>2. held \in Request /\ held.scan = req[u].scan
        BY <4>1 DEF Holding, Request, Area
      <4> HIDE DEF held
      <4> QED
        BY <2>9, <3>1, <4>2 DEF FailureCode
    <3>2. CASE req' = [req EXCEPT ![u] = [req[u] EXCEPT
                          !.pc = "commit", !.keys = {Destination(req[u].scan)},
                          !.status = StatusOf(req[u].scan), !.failure = FailureOf(req[u].scan)]]
      BY <2>2, <2>3, <3>2 DEF ScanKept, Request
    <3> QED
      BY <2>11, <3>1, <3>2 DEF MoveFile, StorageFault
  <2>12. CASE CommitFails(u)
    <3> DEFINE fault == Faulted(req[u], "commit")
    <3>1. fault \in Request /\ fault.scan = req[u].scan
      BY <2>2, <2>6
    <3>2. req' = [req EXCEPT ![u] = [fault EXCEPT !.pc = "cleanup"]]
      BY <2>12 DEF CommitFails
    <3> HIDE DEF fault
    <3> QED
      BY <2>2, <2>3, <3>1, <3>2 DEF ScanKept, Request
  <2>13. CASE HandleFailure(u)
    <3>1. \/ req' = [req EXCEPT ![u] = Marked(req[u])]
          \/ req' = [req EXCEPT ![u] = Ended(req[u], "error")]
          \/ req' = [req EXCEPT ![u] = Ended(Faulted(req[u], "storage"), "error")]
      BY <2>13 DEF HandleFailure, StorageFault
    <3>2. CASE req' = [req EXCEPT ![u] = Marked(req[u])]
      BY <2>2, <2>3, <3>2 DEF Marked, ScanKept, Request
    <3>3. Faulted(req[u], "storage") \in Request /\ Faulted(req[u], "storage").scan = req[u].scan
      BY <2>2, <2>6
    <3> QED
      BY <2>2, <2>9, <3>1, <3>2, <3>3
  <2> QED
    BY <2>1, <2>4, <2>7, <2>8, <2>10, <2>11, <2>12, <2>13
<1> QED
  BY <1>1, <1>2

-----------------------------------------------------------------------------

LEMMA NewRows ==
    NoRun \in RunRow /\ NewJob \in JobState /\ NewJob.row = NoRun /\ ~NewJob.read
  BY DEF NoRun, RunRow, NewJob, JobState

LEMMA ExtractionInitial == ExtractionInit => ExtractionInvariant
<1> SUFFICES ASSUME ExtractionInit PROVE ExtractionInvariant
  OBVIOUS
<1>1. Intake
  BY IntakeInit DEF ExtractionInit
<1>2. job \in [Job -> JobState] /\ run \in [Job -> RunRow]
  BY NewRows DEF ExtractionInit
<1>3. ASSUME NEW j \in Job PROVE JobOK(job[j], run[j]) /\ ReadClean(job[j])
  BY NewRows DEF ExtractionInit, JobOK, ReadClean, NewJob
<1> QED
  BY <1>1, <1>2, <1>3 DEF ExtractionInvariant, Jobs

\* A step of one request keeps the invariant if it leaves that request consistent.
LEMMA JobStep ==
    ASSUME ExtractionInvariant, NEW j \in Job, NEW J \in JobState, NEW R \in RunRow,
           UNCHANGED vars,
           job' = [job EXCEPT ![j] = J],
           run' = [run EXCEPT ![j] = R],
           JobOK(J, R), ReadClean(J)
    PROVE  ExtractionInvariant'
<1>1. Intake'
  BY IntakeNext DEF ExtractionInvariant
<1>2. job' \in [Job -> JobState] /\ run' \in [Job -> RunRow]
  BY DEF ExtractionInvariant, Jobs
<1>3. content' = content /\ req' = req
  BY DEF vars
<1>4. ASSUME NEW k \in Job PROVE (JobOK(job[k], run[k]) /\ ReadClean(job[k]))'
  <2>1. CASE k = j
    <3>1. job'[k] = J /\ run'[k] = R
      BY <2>1 DEF ExtractionInvariant, Jobs
    <3> QED
      BY <1>3, <3>1 DEF ReadClean
  <2>2. CASE k # j
    <3>1. job'[k] = job[k] /\ run'[k] = run[k] /\ JobOK(job[k], run[k]) /\ ReadClean(job[k])
      BY <2>2 DEF ExtractionInvariant, Jobs
    <3> QED
      BY <1>3, <3>1 DEF ReadClean
  <2> QED
    BY <2>1, <2>2
<1> QED
  BY <1>1, <1>2, <1>4 DEF ExtractionInvariant, Jobs

\* What the invariant says of one request.
LEMMA JobFacts ==
    ASSUME ExtractionInvariant, NEW j \in Job
    PROVE  /\ job[j] \in JobState /\ run[j] \in RunRow
           /\ JobOK(job[j], run[j]) /\ ReadClean(job[j])
           /\ run = [run EXCEPT ![j] = run[j]]
  BY DEF ExtractionInvariant, Jobs

\* A file in accepted storage is a clean one.
LEMMA AcceptedIsClean ==
    ASSUME ExtractionInvariant, NEW u \in Upload, "accepted" \in files[u]
    PROVE  content[u] = "clean" /\ req[u].scan = "clean"
  BY IntakeProperties DEF ExtractionInvariant, OnlyCleanAccepted

\* The provider's turn is over, and the run has ended one way or the other.
LEMMA ProviderEnds ==
    ASSUME ExtractionInvariant, NEW j \in Job, job[j].pc = "provider",
           NEW J \in JobState, J.pc = "commit", ~J.lost,
           J.row.upload = job[j].row.upload, EndedRun(J.row, J.read),
           J.read => "accepted" \in files[job[j].row.upload],
           J.read /\ MaxValueChars <= ColumnChars =>
               FitsTable(J.row.fields) \/ Excused(J.out),
           job' = [job EXCEPT ![j] = J],
           UNCHANGED <<vars, run>>
    PROVE  ExtractionInvariant'
<1>1. /\ job[j] \in JobState /\ run[j] \in RunRow /\ JobOK(job[j], run[j])
      /\ run' = [run EXCEPT ![j] = run[j]]
  BY JobFacts
<1>2. job[j].row.upload \in Upload /\ run[j] = NoRun
  BY <1>1 DEF JobOK
<1>3. JobOK(J, run[j])
  BY <1>2 DEF JobOK
<1>4. ReadClean(J)
  BY <1>2, AcceptedIsClean DEF ReadClean
<1> QED
  BY <1>1, <1>3, <1>4, JobStep

\* The run of a request that waits for its provider can be made to fail.
LEMMA RunFails ==
    ASSUME ExtractionInvariant, NEW j \in Job, job[j].pc = "provider", NEW code \in RunFailure
    PROVE  LET row == FailedRun(j, code)
           IN  /\ row \in RunRow /\ row.upload = job[j].row.upload
               /\ \A read \in BOOLEAN : EndedRun(row, read)
               /\ FitsTable(row.fields)
<1> DEFINE row == FailedRun(j, code)
<1>1. job[j].row \in RunRow /\ job[j].row.fields = <<>>
  BY JobFacts DEF JobOK, JobState
<1>2. /\ row \in RunRow /\ row.upload = job[j].row.upload /\ row.status = "failed"
      /\ row.failure = code /\ row.fields = <<>>
  BY <1>1 DEF FailedRun, RunRow
<1> HIDE DEF row
<1>3. FitsTable(row.fields) /\ \A read \in BOOLEAN : EndedRun(row, read)
  BY <1>2 DEF FitsTable, DistinctPaths, EndedRun
<1> QED
  BY <1>2, <1>3 DEF row

LEMMA ProviderStep ==
    ASSUME ExtractionInvariant, NEW j \in Job,
           \/ OpenFails(j) \/ ProviderFails(j) \/ ValidationRaises(j)
           \/ \E out \in Outputs : RunProvider(j, out)
    PROVE  ExtractionInvariant'
<1>1. /\ job[j].pc = "provider" /\ UNCHANGED <<vars, run>>
      /\ job[j] \in JobState /\ JobOK(job[j], run[j])
  BY JobFacts DEF OpenFails, ProviderFails, ValidationRaises, RunProvider
<1>2. /\ ~job[j].lost /\ ~job[j].read /\ job[j].row \in RunRow
      /\ job[j].row.failure = "none" /\ job[j].row.fields = <<>>
      /\ job[j].row.upload \in Upload
      /\ job[j].out \in Seq(Observation) \cup {Nothing}
  BY <1>1 DEF JobOK, JobState
<1>3. CASE OpenFails(j)
  <2> DEFINE row == FailedRun(j, "source_file_missing")
             J == [job[j] EXCEPT !.pc = "commit", !.row = row]
  <2>1. /\ row \in RunRow /\ row.upload = job[j].row.upload
        /\ \A read \in BOOLEAN : EndedRun(row, read)
    BY <1>1, RunFails DEF RunFailure
  <2>2. job' = [job EXCEPT ![j] = J]
    BY <1>3 DEF OpenFails
  <2> HIDE DEF row
  <2>3. J \in JobState /\ J.pc = "commit" /\ J.row = row /\ ~J.lost /\ ~J.read
    BY <1>1, <1>2, <2>1 DEF JobState
  <2> HIDE DEF J
  <2>4. EndedRun(J.row, J.read)
    BY <2>1, <2>3 DEF EndedRun
  <2> QED
    BY <1>1, <2>1, <2>2, <2>3, <2>4, ProviderEnds
<1>4. ASSUME NEW row \in RunRow, NEW out \in Seq(Observation) \cup {Nothing}, row.upload = job[j].row.upload, EndedRun(row, TRUE),
             MaxValueChars <= ColumnChars => FitsTable(row.fields) \/ Excused(out),
             "accepted" \in files[job[j].row.upload],
             job' = [job EXCEPT ![j].pc = "commit", ![j].read = TRUE, ![j].out = out,
                                ![j].row = row]
      PROVE  ExtractionInvariant'
  <2> DEFINE J == [job[j] EXCEPT !.pc = "commit", !.read = TRUE, !.out = out, !.row = row]
  <2>1. job' = [job EXCEPT ![j] = J]
    BY <1>4
  <2>2. J \in JobState /\ J.pc = "commit" /\ J.row = row /\ ~J.lost /\ J.read /\ J.out = out
    BY <1>1, <1>2 DEF JobState
  <2> HIDE DEF J
  <2>3. EndedRun(J.row, J.read)
    BY <1>4, <2>2 DEF EndedRun
  <2> QED
    BY <1>1, <1>4, <2>1, <2>2, <2>3, ProviderEnds
<1>5. CASE ProviderFails(j)
  <2>1. PICK code \in {"provider_failed", "invalid_provider_output"} :
           job' = [job EXCEPT ![j].pc = "commit", ![j].read = TRUE, ![j].row = FailedRun(j, code)]
    BY <1>5 DEF ProviderFails
  <2> DEFINE row == FailedRun(j, code)
  <2>2. /\ row \in RunRow /\ row.upload = job[j].row.upload
        /\ EndedRun(row, TRUE) /\ FitsTable(row.fields)
    BY <1>1, RunFails DEF RunFailure
  <2>3. "accepted" \in files[job[j].row.upload]
    BY <1>5 DEF ProviderFails
  <2> HIDE DEF row
  <2>4. job' = [job EXCEPT ![j] = [job[j] EXCEPT !.pc = "commit", !.read = TRUE, !.row = row]]
    BY <2>1 DEF row
  <2>5. [job[j] EXCEPT !.pc = "commit", !.read = TRUE, !.row = row]
           = [job[j] EXCEPT !.pc = "commit", !.read = TRUE, !.out = job[j].out, !.row = row]
    BY <1>1 DEF JobState
  <2> QED
    BY <1>2, <1>4, <2>2, <2>3, <2>4, <2>5
<1>6. ASSUME NEW out \in Outputs, RunProvider(j, out) PROVE ExtractionInvariant'
  <2>1. "accepted" \in files[job[j].row.upload] /\ out \in Seq(Observation)
    BY <1>6, OutputsAssumption DEF RunProvider
  <2>2. CASE ~ValidResult(out)
    <3> DEFINE row == FailedRun(j, "invalid_provider_output")
    <3>1. /\ row \in RunRow /\ row.upload = job[j].row.upload
          /\ EndedRun(row, TRUE) /\ FitsTable(row.fields)
      BY <1>1, RunFails DEF RunFailure
    <3>2. job' = [job EXCEPT ![j].pc = "commit", ![j].read = TRUE, ![j].out = out,
                             ![j].row = row]
      BY <1>6, <2>2 DEF RunProvider
    <3> HIDE DEF row
    <3> QED
      BY <1>4, <2>1, <3>1, <3>2
  <2>3. CASE ValidResult(out)
    <3> DEFINE rows == [i \in DOMAIN out |-> Validated(out[i])]
               row == [job[j].row EXCEPT !.status = "succeeded", !.fields = rows]
    <3>1. rows \in Seq(Observation)
      BY <2>1, ValidatedRows
    <3>2. MaxValueChars <= ColumnChars => FitsTable(rows) \/ Excused(out)
      BY <2>1, <2>3, ValidFits
    <3>3. job' = [job EXCEPT ![j].pc = "commit", ![j].read = TRUE, ![j].out = out,
                             ![j].row = row]
      BY <1>6, <2>3 DEF RunProvider
    <3> HIDE DEF rows
    <3>4. /\ row \in RunRow /\ row.upload = job[j].row.upload /\ row.status = "succeeded"
          /\ row.failure = "none" /\ row.fields = rows
      BY <1>2, <3>1 DEF RunRow
    <3> HIDE DEF row
    <3>5. EndedRun(row, TRUE)
      BY <3>4 DEF EndedRun
    <3> QED
      BY <1>4, <2>1, <3>2, <3>3, <3>4, <3>5
  <2> QED
    BY <2>2, <2>3
<1>7. CASE ValidationRaises(j)
  <2>1. PICK out \in {o \in Outputs : RaisesResult(o)} \cup {Nothing} :
           job' = [job EXCEPT ![j].pc = "done", ![j].read = TRUE, ![j].out = out]
    BY <1>7 DEF ValidationRaises
  <2>2. out \in Seq(Observation) \cup {Nothing} /\ Excused(out)
    BY <2>1, OutputsAssumption
       DEF RaisesResult, RaisesField, Excused, Unrecordable
  <2> DEFINE J == [job[j] EXCEPT !.pc = "done", !.read = TRUE, !.out = out]
  <2>3. job' = [job EXCEPT ![j] = J]
    BY <2>1
  <2>4. /\ J \in JobState /\ J.pc = "done" /\ J.row = job[j].row /\ ~J.lost /\ J.read
        /\ J.out = out
    BY <1>1, <1>2, <2>2 DEF JobState
  <2> HIDE DEF J
  <2>5. "accepted" \in files[job[j].row.upload] /\ run[j] = NoRun /\ run[j] \in RunRow
        /\ run' = [run EXCEPT ![j] = run[j]] /\ UNCHANGED vars
    BY <1>1, <1>7, JobFacts DEF ValidationRaises, JobOK
  <2>6. JobOK(J, run[j])
    BY <1>2, <2>2, <2>4, <2>5 DEF JobOK
  <2>7. ReadClean(J)
    BY <1>2, <2>4, <2>5, AcceptedIsClean DEF ReadClean
  <2> QED
    BY <2>3, <2>4, <2>5, <2>6, <2>7, JobStep
<1> QED
  BY <1>3, <1>5, <1>6, <1>7

LEMMA StartStep ==
    ASSUME ExtractionInvariant, NEW j \in Job, NEW u \in Upload, StartExtraction(j, u)
    PROVE  ExtractionInvariant'
<1> DEFINE row == [NoRun EXCEPT !.status = "running", !.upload = u]
           J == [NewJob EXCEPT !.pc = "provider", !.row = row]
<1>1. /\ run[j] \in RunRow /\ JobOK(job[j], run[j]) /\ run' = [run EXCEPT ![j] = run[j]]
      /\ UNCHANGED vars /\ job' = [job EXCEPT ![j] = J] /\ job[j].pc = "new"
  BY JobFacts DEF StartExtraction
<1>2. run[j] = NoRun
  BY <1>1 DEF JobOK
<1>3. row \in RunRow /\ row.upload = u /\ row.failure = "none" /\ row.fields = <<>>
  <2>1. NoRun \in RunRow /\ NoRun.failure = "none" /\ NoRun.fields = <<>>
    BY NewRows DEF NoRun
  <2> QED
    BY <2>1 DEF RunRow
<1> HIDE DEF row
<1>4. J \in JobState /\ J.pc = "provider" /\ J.row = row /\ ~J.read /\ ~J.lost
  <2>1. NewJob \in JobState /\ ~NewJob.read /\ ~NewJob.lost
    BY NewRows DEF NewJob
  <2> QED
    BY <1>3, <2>1 DEF JobState
<1> HIDE DEF J
<1>5. JobOK(J, run[j]) /\ ReadClean(J)
  BY <1>2, <1>3, <1>4 DEF JobOK, ReadClean
<1> QED
  BY <1>1, <1>4, <1>5, JobStep

\* The transaction of a run commits, is refused, or is lost.
LEMMA RunEnds ==
    ASSUME ExtractionInvariant, NEW j \in Job,
           CommitRun(j) \/ CommitRefused(j) \/ AbandonRun(j)
    PROVE  ExtractionInvariant'
<1>1. /\ job[j] \in JobState /\ run[j] \in RunRow /\ JobOK(job[j], run[j]) /\ ReadClean(job[j])
      /\ run = [run EXCEPT ![j] = run[j]] /\ UNCHANGED vars
  BY JobFacts DEF CommitRun, CommitRefused, AbandonRun
<1>2. job[j].pc \in {"provider", "commit"} /\ run[j] = NoRun /\ job[j].row \in RunRow
  BY <1>1 DEF CommitRun, CommitRefused, AbandonRun, JobOK, JobState
<1>3. CASE CommitRun(j) \/ CommitRefused(j)
  <2> DEFINE J == [job[j] EXCEPT !.pc = "done"]
  <2>1. PICK R \in {NoRun, job[j].row} :
           /\ run' = [run EXCEPT ![j] = R] /\ job' = [job EXCEPT ![j] = J]
           /\ R = job[j].row \/ ~FitsTable(job[j].row.fields)
    BY <1>1, <1>2, <1>3 DEF CommitRun, CommitRefused
  <2>2. job[j].pc = "commit"
    BY <1>3 DEF CommitRun, CommitRefused
  <2>3. /\ J \in JobState /\ J.pc = "done" /\ J.row = job[j].row /\ J.out = job[j].out
        /\ (J.read <=> job[j].read)
    BY <1>1 DEF JobState
  <2>4. EndedRun(J.row, J.read)
    BY <1>1, <2>2, <2>3 DEF JobOK, EndedRun
  <2>5. R \in RunRow
    BY <1>2, NewRows
  <2> HIDE DEF J
  <2>6. JobOK(J, R) /\ ReadClean(J)
    BY <1>1, <2>1, <2>2, <2>3, <2>4 DEF JobOK, ReadClean
  <2> QED
    BY <1>1, <2>1, <2>3, <2>5, <2>6, JobStep
<1>4. CASE AbandonRun(j)
  <2> DEFINE J == [job[j] EXCEPT !.pc = "done", !.lost = TRUE]
  <2>1. run' = [run EXCEPT ![j] = run[j]] /\ job' = [job EXCEPT ![j] = J]
    BY <1>1, <1>4 DEF AbandonRun
  <2>2. /\ J \in JobState /\ J.pc = "done" /\ J.row = job[j].row /\ J.out = job[j].out
        /\ J.lost /\ (J.read <=> job[j].read)
    BY <1>1 DEF JobState
  <2> HIDE DEF J
  <2>3. JobOK(J, run[j]) /\ ReadClean(J)
    BY <1>1, <1>2, <2>2 DEF JobOK, ReadClean, EndedRun
  <2> QED
    BY <1>1, <2>1, <2>2, <2>3, JobStep
<1> QED
  BY <1>3, <1>4

LEMMA ExtractionNextStep ==
    ASSUME ExtractionInvariant, [ExtractionNext]_allVars
    PROVE  ExtractionInvariant'
<1>1. CASE [Next]_vars /\ UNCHANGED extractionVars
  <2>1. Intake' /\ ScanKept
    BY <1>1, IntakeNext, ScannedOnce DEF ExtractionInvariant
  <2>2. job' = job /\ run' = run
    BY <1>1 DEF extractionVars
  <2>3. ASSUME NEW j \in Job PROVE (JobOK(job[j], run[j]) /\ ReadClean(job[j]))'
    <3>1. JobOK(job[j], run[j]) /\ ReadClean(job[j]) /\ (job[j].read => job[j].row.upload \in Upload)
      BY JobFacts DEF JobOK
    <3> QED
      BY <2>1, <2>2, <3>1 DEF ReadClean, ScanKept
  <2> QED
    BY <2>1, <2>2, <2>3 DEF ExtractionInvariant, Jobs
<1>2. CASE ExtractionStep
  BY <1>2, StartStep, ProviderStep, RunEnds DEF ExtractionStep
<1>3. CASE UNCHANGED allVars
  BY <1>1, <1>3 DEF allVars, extractionVars
<1> QED
  BY <1>1, <1>2, <1>3 DEF ExtractionNext

\* The invariant the results below rest on: what is known of every upload at
\* each point of submit_document, and of every request to start_extraction.
THEOREM ExtractionInvariantHolds == ExtractionSpec => []ExtractionInvariant
  BY ExtractionInitial, ExtractionNextStep, PTL DEF ExtractionSpec

\* The variables of intake and of extraction have their types: no pending or
\* running run is ever committed, and a failure code is one of a run's own.
THEOREM ExtractionTyped == ExtractionSpec => []ExtractionTypeOK
<1>1. ExtractionInvariant => ExtractionTypeOK
  <2> SUFFICES ASSUME ExtractionInvariant PROVE ExtractionTypeOK
    OBVIOUS
  <2>1. ASSUME NEW j \in Job
        PROVE  /\ job[j].pc \in {"new", "provider", "commit", "done"}
               /\ job[j].row.status \in {"absent", "running", "succeeded", "failed"}
               /\ job[j].row.upload \in Upload \cup {NoUpload}
               /\ job[j].row.failure \in RunFailure \cup {"none"}
               /\ run[j] \in {NoRun, job[j].row}
    BY JobFacts DEF JobOK, JobState, RunRow
  <2> QED
    BY <2>1 DEF ExtractionTypeOK, ExtractionInvariant, Intake
<1> QED
  BY <1>1, ExtractionInvariantHolds, PTL

\* Fail closed, for any number of uploads: whatever the scanner, the storage, the
\* database or the process do during submit_document, nothing but a file scanned
\* and found clean lies in accepted storage.
THEOREM AcceptedAreClean == ExtractionSpec => []OnlyCleanAccepted
  BY IntakeProperties, ExtractionInvariantHolds, PTL DEF ExtractionInvariant

\* The answer "stored" of submit_document can be relied on.
THEOREM StoredIsDurable == ExtractionSpec => []StoredAnswerIsDurable
  BY IntakeProperties, ExtractionInvariantHolds, PTL DEF ExtractionInvariant

\* A committed document says where its only file is, but for a commit whose
\* error hid that it was applied.
THEOREM DocumentsNameFiles == ExtractionSpec => []DocumentNamesItsFile
  BY IntakeProperties, ExtractionInvariantHolds, PTL DEF ExtractionInvariant

\* submit_document leaves no file behind unless something outside it failed.
THEOREM NothingLeftOver == ExtractionSpec => []NoLeftoverFile
  BY IntakeProperties, ExtractionInvariantHolds, PTL DEF ExtractionInvariant

\* No provider reads a file that was not found clean, and a committed run has
\* ended, with what was read or for a stated reason.
THEOREM CleanSources == ExtractionSpec => []ExtractedFromCleanSource
<1>1. ExtractionInvariant => ExtractedFromCleanSource
  <2> SUFFICES ASSUME ExtractionInvariant PROVE ExtractedFromCleanSource
    OBVIOUS
  <2>1. \A j \in Job : ReadClean(job[j])
    BY JobFacts
  <2>2. ASSUME NEW j \in Job
        PROVE  \/ run[j].status = "absent"
               \/ run[j].status = "succeeded" /\ job[j].read /\ run[j].failure = "none"
               \/ run[j].status = "failed" /\ run[j].fields = <<>> /\ run[j].failure # "none"
    BY JobFacts DEF JobOK, EndedRun, NoRun, RunFailure
  <2> QED
    BY <2>1, <2>2 DEF ExtractedFromCleanSource, ReadClean
<1> QED
  BY <1>1, ExtractionInvariantHolds, PTL

\* While the extraction_max_value_chars setting is no more than the column allows,
\* what a provider returns is recorded as a run, unless it is no list of fields or one
\* of them stops validate_provider_result (a path that is no string, a locator inside
\* itself) or passes it and fits no column (a page number, a text, a locator):
\* validation passes nothing else that the tables of 0003 refuse.
THEOREM OutputsRecorded ==
    ASSUME MaxValueChars <= ColumnChars
    PROVE  ExtractionSpec => []OutputIsRecorded
<1>1. ExtractionInvariant => OutputIsRecorded
  <2> SUFFICES ASSUME ExtractionInvariant, NEW j \in Job,
                      job[j].pc = "done", job[j].read, ~job[j].lost
               PROVE  run[j].status \in {"succeeded", "failed"} \/ Excused(job[j].out)
    BY DEF OutputIsRecorded, Excused
  <2>1. JobOK(job[j], run[j])
    BY JobFacts
  <2> QED
    BY <2>1 DEF JobOK, EndedRun
<1> QED
  BY <1>1, ExtractionInvariantHolds, PTL
=============================================================================
