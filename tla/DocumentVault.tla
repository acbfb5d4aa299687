---------------------------- MODULE DocumentVault ----------------------------
(***************************************************************************)
(* The CV vault of one candidate: src/lib/documents/vault-service.ts, the  *)
(* reconciler of reconciliation.ts and the document processor of the       *)
(* privacy erasure.  A version, its upload intent and its object in the    *)
(* store have one number, the version's sequence.  Requests, scans and the *)
(* erasure are processes; every database transaction and every call to the *)
(* object store or the scanner is a step, and what a process read before a *)
(* step it keeps in its own record.  A digest is the content it is of.     *)
(***************************************************************************)
EXTENDS Naturals, Sequences, FiniteSets

CONSTANTS
  VersionCount,  \* bound: document versions
  Content,    \* what an upload's body may be
  Harmless,   \* the contents the scanner has nothing against
  Nothing,    \* no content: no object, no digest, no expected hash
  Declared,   \* what a client may declare as the expected hash
  Crashes,    \* processes may die between two steps
  Uploader, Scanner, Reader,  \* requests and worker tasks
  Grant       \* read grants

ASSUME ContentAssumption == 
  /\ Harmless \subseteq Content /\ Nothing \notin Content
  /\ Declared \subseteq Content \cup {Nothing}
  /\ Crashes \in BOOLEAN
ASSUME VersionsAssumption == VersionCount \in Nat \ {0}

Versions == 1..VersionCount  \* by DocumentVersion.sequence

VARIABLES
  active,     \* the candidate's account is ACTIVE
  employer,   \* the employer's membership, assignment and job still allow reads
  intent,     \* intent[v]: status and expected hash of the upload intent
  late,       \* intents past expiresAt
  version,    \* version[v]: status, digest (sha256), listed (status of its metadata row)
  current,    \* Document.currentVersionId, 0 when null
  object,     \* object[v]: what the store holds under the version's key
  verdicts,   \* verdicts[v]: the scan attempts that did not fail, in order
  linked,     \* versions an application was submitted with
  grant,      \* grant[g]: version, reader and status
  stale,      \* grants past expiresAt
  served,     \* served[g]: the contents handed out for grant g
  up,         \* up[u]: the upload request u
  sc,         \* sc[s]: the scan s
  rd,         \* rd[r]: the read request r
  found,      \* uploads the running reconciler found incomplete
  erasure     \* the erasure: step, versions on its list, versions it ever set out to delete

rows == <<intent, late, version, current, verdicts, linked>>
reads == <<grant, stale, served, rd>>
vars == <<active, employer, rows, object, reads, up, sc, found, erasure>>

Digest == Content \cup {Nothing}
IntentStatus == {"NONE", "CREATED", "UPLOADING", "UPLOADED", "FINALIZED", "ABORTED", "EXPIRED", "FAILED"}
VersionStatus == {"NONE", "UPLOADING", "QUARANTINED", "SCANNING", "CLEAN", "REJECTED", "INFECTED",
                  "SCAN_FAILED", "REPLACED", "DELETE_PENDING", "HELD", "DELETED"}
Outcome == {"CLEAN", "REJECTED", "INFECTED", "SCAN_FAILED"}
Open == {"CREATED", "UPLOADING", "UPLOADED"}
Readable == {"CLEAN", "REPLACED"}

\* The trigger document_version_status_transition_guard.
Edges ==
  {"UPLOADING"} \X {"QUARANTINED", "REJECTED", "DELETE_PENDING"}
  \cup {"QUARANTINED"} \X {"SCANNING", "REJECTED", "INFECTED", "SCAN_FAILED", "DELETE_PENDING", "HELD"}
  \cup {"SCANNING"} \X {"CLEAN", "REJECTED", "INFECTED", "SCAN_FAILED", "HELD"}
  \cup {"CLEAN"} \X {"REPLACED", "DELETE_PENDING", "HELD"}
  \cup {"SCAN_FAILED"} \X {"SCANNING", "REJECTED", "DELETE_PENDING", "HELD"}
  \cup {"REPLACED"} \X {"DELETE_PENDING", "HELD"}
  \cup {"DELETE_PENDING"} \X {"HELD", "DELETED"}

Status(v) == version[v].status
Freed == [at |-> "idle", v |-> 0, content |-> Nothing]
NoScan == [at |-> "idle", v |-> 0, outcome |-> "SCAN_FAILED"]
NoRead == [at |-> "idle", g |-> Nothing, content |-> Nothing]

Init ==
  /\ active = TRUE /\ employer = TRUE
  /\ intent = [v \in Versions |-> [status |-> "NONE", expected |-> Nothing]]
  /\ late = {}
  /\ version = [v \in Versions |-> [status |-> "NONE", digest |-> Nothing, listed |-> "NONE"]]
  /\ current = 0
  /\ object = [v \in Versions |-> Nothing]
  /\ verdicts = [v \in Versions |-> <<>>]
  /\ linked = {}
  /\ grant = [g \in Grant |-> [v |-> 1, by |-> "owner", status |-> "NONE"]]  \* not issued
  /\ stale = {}
  /\ served = [g \in Grant |-> <<>>]
  /\ up = [u \in Uploader |-> Freed]
  /\ sc = [s \in Scanner |-> NoScan]
  /\ rd = [r \in Reader |-> NoRead]
  /\ found = {}
  /\ erasure = [pc |-> "off", todo |-> {}, scope |-> {}]

-----------------------------------------------------------------------------
(* Upload *)

\* Mutant: expired intents are skipped, not swept.
CreateIntentUnswept(v, expected) ==
  /\ active
  /\ Status(v) = "NONE" /\ \A w \in Versions : w < v => Status(w) # "NONE"
  /\ \A w \in Versions \ late : intent[w].status \notin Open
  /\ intent' = [intent EXCEPT ![v] = [status |-> "CREATED", expected |-> expected]]
  /\ version' = [version EXCEPT ![v].status = "UPLOADING"]
  /\ UNCHANGED <<active, employer, late, current, verdicts, linked, object, reads, up, sc, found, erasure>>

\* createDocumentUploadIntent.  The sweep of expired intents makes room for the new one.
CreateIntent(v, expected) ==
  LET swept == {w \in late : intent[w].status \in Open} IN
  /\ active
  /\ Status(v) = "NONE" /\ \A w \in Versions : w < v => Status(w) # "NONE"
  /\ \A w \in Versions \ late : intent[w].status \notin Open
  /\ intent' = [w \in Versions |->
                  IF w = v THEN [status |-> "CREATED", expected |-> expected]
                  ELSE IF w \in swept THEN [intent[w] EXCEPT !.status = "EXPIRED"]
                  ELSE intent[w]]
  /\ version' = [version EXCEPT ![v].status = "UPLOADING"]
  /\ UNCHANGED <<active, employer, late, current, verdicts, linked, object, reads, up, sc, found, erasure>>

SetIntent(v, from, to) ==
  intent' = [intent EXCEPT ![v].status = IF @ \in from THEN to ELSE @]

\* uploadDocumentIntentBody, the first transaction: an intent past its time expires, one that
\* already has its body is a duplicate (no step), else the request goes on.
UploadExpired(v) ==
  /\ active /\ v \in late /\ intent[v].status \in Open
  /\ SetIntent(v, Open, "EXPIRED")
  /\ UNCHANGED <<active, employer, late, version, current, verdicts, linked, object, reads, up, sc, found, erasure>>

UploadPrepare(u, v, content) ==
  /\ active /\ up[u] = Freed
  /\ v \notin late /\ intent[v].status \in {"CREATED", "UPLOADING"}
  /\ SetIntent(v, {"CREATED"}, "UPLOADING")
  /\ up' = [up EXCEPT ![u] = [at |-> "put", v |-> v, content |-> content]]
  /\ UNCHANGED <<active, employer, late, version, current, verdicts, linked, object, reads, sc, found, erasure>>

\* Mutant: the put overwrites.
UploadPutOverwriting(u) ==
  LET v == up[u].v IN
  /\ up[u].at = "put"
  /\ intent[v].expected \in {Nothing, up[u].content}
  /\ object' = [object EXCEPT ![v] = up[u].content]
  /\ up' = [up EXCEPT ![u].at = "complete"]
  /\ UNCHANGED <<active, employer, rows, reads, sc, found, erasure>>

\* Mutant: an existing object counts without a look at its receipt.
UploadPutOwnReceipt(u) ==
  LET v == up[u].v IN
  /\ up[u].at = "put"
  /\ intent[v].expected \in {Nothing, up[u].content}
  /\ object' = [object EXCEPT ![v] = IF @ = Nothing THEN up[u].content ELSE @]
  /\ up' = [up EXCEPT ![u].at = "complete"]
  /\ UNCHANGED <<active, employer, rows, reads, sc, found, erasure>>

\* The store creates an object once.  An existing one counts as this request's when it has the
\* expected hash, or none was declared.  The answer may get lost.
UploadPut(u) ==
  LET v == up[u].v
      stored == IF object[v] = Nothing THEN up[u].content ELSE object[v]
  IN
  /\ up[u].at = "put"
  /\ intent[v].expected \in {Nothing, stored}
  /\ object' = [object EXCEPT ![v] = stored]
  /\ \E answer \in {"complete", "fail"} :
       up' = [up EXCEPT ![u] = [at |-> answer, v |-> v, content |-> stored]]
  /\ UNCHANGED <<active, employer, rows, reads, sc, found, erasure>>

\* Wrong content length, a refused or a failed put.
UploadFail(u) ==
  /\ up[u].at \in {"put", "fail"}
  /\ SetIntent(up[u].v, {"UPLOADING"}, "FAILED")
  /\ up' = [up EXCEPT ![u] = Freed]
  /\ UNCHANGED <<active, employer, late, version, current, verdicts, linked, object, reads, sc, found, erasure>>

\* Mutant: the intent is left for finalize to move.
UploadCompleteVersionOnly(u) ==
  LET v == up[u].v IN
  /\ up[u].at = "complete"
  /\ version' = IF intent[v].status = "UPLOADING"
                  THEN [version EXCEPT ![v].status = "QUARANTINED", ![v].digest = up[u].content]
                  ELSE version
  /\ up' = [up EXCEPT ![u] = Freed]
  /\ UNCHANGED <<active, employer, intent, late, current, verdicts, linked, object, reads, sc, found, erasure>>

\* The last transaction.  A request whose intent is no longer UPLOADING writes nothing (and
\* answers QUARANTINED all the same).
UploadComplete(u) ==
  LET v == up[u].v IN
  /\ up[u].at = "complete"
  /\ IF intent[v].status = "UPLOADING"
       THEN /\ version' = [version EXCEPT ![v].status = "QUARANTINED", ![v].digest = up[u].content]
            /\ SetIntent(v, {"UPLOADING"}, "UPLOADED")
       ELSE UNCHANGED <<version, intent>>
  /\ up' = [up EXCEPT ![u] = Freed]
  /\ UNCHANGED <<active, employer, late, current, verdicts, linked, object, reads, sc, found, erasure>>

\* No provider authority, a broken connection, a crash.
UploadGone(u) ==
  /\ Crashes /\ up[u] # Freed
  /\ up' = [up EXCEPT ![u] = Freed]
  /\ UNCHANGED <<active, employer, rows, object, reads, sc, found, erasure>>

\* finalizeDocumentUploadIntent
Finalize(v) ==
  /\ active /\ v \notin late /\ intent[v].status = "UPLOADED"
  /\ SetIntent(v, {"UPLOADED"}, IF object[v] = version[v].digest THEN "FINALIZED" ELSE "FAILED")
  /\ UNCHANGED <<active, employer, late, version, current, verdicts, linked, object, reads, up, sc, found, erasure>>

\* reconcileDocumentObjects in command mode: inventory and versions are listed, then the intents
\* of incomplete uploads are aborted one by one.
ReconcileList ==
  /\ found = {}
  /\ found' = {v \in Versions : Status(v) = "UPLOADING" /\ object[v] = Nothing}
  /\ UNCHANGED <<active, employer, rows, object, reads, up, sc, erasure>>

ReconcileAbort(v) ==
  /\ v \in found
  /\ found' = found \ {v}
  /\ SetIntent(v, {"CREATED", "UPLOADING"}, "ABORTED")
  /\ UNCHANGED <<active, employer, late, version, current, verdicts, linked, object, reads, up, sc, erasure>>

Upload ==
  \/ \E v \in Versions, c \in Declared : CreateIntent(v, c)
  \/ \E v \in Versions : UploadExpired(v) \/ Finalize(v) \/ ReconcileAbort(v)
  \/ \E u \in Uploader, v \in Versions, c \in Content : UploadPrepare(u, v, c)
  \/ \E u \in Uploader : UploadPut(u) \/ UploadFail(u) \/ UploadComplete(u) \/ UploadGone(u)
  \/ ReconcileList

-----------------------------------------------------------------------------
(* Scan *)

\* scanDocumentVersion, the first transaction.
ScanClaim(s, v) ==
  /\ sc[s] = NoScan
  /\ Status(v) \in {"QUARANTINED", "SCAN_FAILED"}
  /\ version' = [version EXCEPT ![v].status = "SCANNING"]
  /\ sc' = [sc EXCEPT ![s] = [NoScan EXCEPT !.at = "scan", !.v = v]]
  /\ UNCHANGED <<active, employer, intent, late, current, verdicts, linked, object, reads, up, found, erasure>>

\* No provider authority.
ScanUnauthorized(s) ==
  /\ sc[s].at = "scan"
  /\ version' = [version EXCEPT ![sc[s].v].status = IF @ = "SCANNING" THEN "SCAN_FAILED" ELSE @]
  /\ sc' = [sc EXCEPT ![s] = NoScan]
  /\ UNCHANGED <<active, employer, intent, late, current, verdicts, linked, object, reads, up, found, erasure>>

\* Mutant: the receipt's outcome is stored as it is.
ScanOutcomesUnmapped(content) ==
  IF content = Nothing THEN {"FAILED"}
  ELSE IF content \in Harmless THEN {"CLEAN", "FAILED"}
  ELSE {"POLICY_REJECTED", "INFECTED", "FAILED"}

\* What the scanner may say of a content; scanOutcomeToStatus.
ScanOutcomes(content) ==
  IF content = Nothing THEN {"SCAN_FAILED"}
  ELSE IF content \in Harmless THEN {"CLEAN", "SCAN_FAILED"}
  ELSE {"REJECTED", "INFECTED", "SCAN_FAILED"}

ScanRead(s) ==
  /\ sc[s].at = "scan"
  /\ \E outcome \in ScanOutcomes(object[sc[s].v]) :
       sc' = [sc EXCEPT ![s].at = "record", ![s].outcome = outcome]
  /\ UNCHANGED <<active, employer, rows, object, reads, up, found, erasure>>

\* The last transaction: attempt, status and, for a clean version, the succession: the current
\* CLEAN version is REPLACED and every other metadata row removed.
ScanRecord(s) ==
  LET v == sc[s].v
      clean == sc[s].outcome = "CLEAN"
      Succeeded(w) ==
        [version[w] EXCEPT !.status = IF w = current /\ @ = "CLEAN" THEN "REPLACED" ELSE @,
                           !.listed = IF @ = "ACTIVE" THEN "REMOVED" ELSE @]
  IN
  /\ sc[s].at = "record"
  /\ IF Status(v) = "SCANNING"
       THEN /\ version' = [w \in Versions |->
                             IF w = v THEN [version[v] EXCEPT !.status = sc[s].outcome,
                                                              !.listed = IF clean THEN "ACTIVE" ELSE @]
                             ELSE IF clean THEN Succeeded(w) ELSE version[w]]
            /\ verdicts' = [verdicts EXCEPT ![v] =
                              IF sc[s].outcome = "SCAN_FAILED" THEN @ ELSE Append(@, sc[s].outcome)]
            /\ current' = IF clean THEN v ELSE current
       ELSE UNCHANGED <<version, verdicts, current>>
  /\ sc' = [sc EXCEPT ![s] = NoScan]
  /\ UNCHANGED <<active, employer, intent, late, linked, object, reads, up, found, erasure>>

\* openVerifiedRead or scan throws, or the process dies.
ScanGone(s) ==
  /\ Crashes /\ sc[s] # NoScan
  /\ sc' = [sc EXCEPT ![s] = NoScan]
  /\ UNCHANGED <<active, employer, rows, object, reads, up, found, erasure>>

Scan ==
  \E s \in Scanner :
    \/ \E v \in Versions : ScanClaim(s, v)
    \/ ScanUnauthorized(s) \/ ScanRead(s) \/ ScanRecord(s) \/ ScanGone(s)

-----------------------------------------------------------------------------
(* Use and deletion by the candidate *)

\* submitApplication: a document goes with it while its metadata is ACTIVE and its version CLEAN.
SubmitApplication(v) ==
  /\ active
  /\ version[v].listed = "ACTIVE" /\ Status(v) = "CLEAN"
  /\ linked' = linked \cup {v}
  /\ UNCHANGED <<active, employer, intent, late, version, current, verdicts, object, reads, up, sc, found, erasure>>

\* Mutant: the document keeps pointing at the version.
RequestDeletionDangling(v) ==
  /\ active
  /\ Status(v) \in Readable
  /\ version' = [version EXCEPT ![v].status = "DELETE_PENDING",
                                ![v].listed = IF @ = "ACTIVE" THEN "REMOVED" ELSE @]
  /\ UNCHANGED <<active, employer, intent, late, current, verdicts, linked, object, reads, up, sc, found, erasure>>

\* requestCandidateDocumentDeletion
RequestDeletion(v) ==
  /\ active
  /\ Status(v) \in Readable
  /\ version' = [version EXCEPT ![v].status = "DELETE_PENDING",
                                ![v].listed = IF @ = "ACTIVE" THEN "REMOVED" ELSE @]
  /\ current' = IF current = v THEN 0 ELSE current
  /\ UNCHANGED <<active, employer, intent, late, verdicts, linked, object, reads, up, sc, found, erasure>>

-----------------------------------------------------------------------------
(* Read grants *)

\* authorizeDocumentRead
Authorized(v, by) ==
  /\ Status(v) \in Readable
  /\ IF by = "owner" THEN active ELSE employer /\ v \in linked

IssueGrant(g, v, by) ==
  /\ grant[g].status = "NONE"
  /\ Authorized(v, by)
  /\ grant' = [grant EXCEPT ![g] = [v |-> v, by |-> by, status |-> "ACTIVE"]]
  /\ UNCHANGED <<active, employer, rows, object, stale, served, rd, up, sc, found, erasure>>

SetGrant(g, to) == grant' = [grant EXCEPT ![g].status = IF @ = "ACTIVE" THEN to ELSE @]

\* revokeDocumentReadGrant
RevokeGrant(g) ==
  /\ grant[g].status = "ACTIVE"
  /\ SetGrant(g, "REVOKED")
  /\ UNCHANGED <<active, employer, rows, object, stale, served, rd, up, sc, found, erasure>>

\* consumeDocumentReadGrant reads the grant ...
ReadGrant(r, g) ==
  /\ rd[r] = NoRead
  /\ grant[g].status = "ACTIVE"
  /\ IF g \in stale
       THEN SetGrant(g, "EXPIRED") /\ UNCHANGED rd
       ELSE rd' = [rd EXCEPT ![r] = [at |-> "check", g |-> g, content |-> Nothing]] /\ UNCHANGED grant
  /\ UNCHANGED <<active, employer, rows, object, stale, served, up, sc, found, erasure>>

\* ... authorizes in a transaction of its own ...
ReadCheck(r) ==
  LET g == rd[r].g IN
  /\ rd[r].at = "check"
  /\ IF Authorized(grant[g].v, grant[g].by)
       THEN rd' = [rd EXCEPT ![r].at = "open"] /\ UNCHANGED grant
       ELSE SetGrant(g, "REVOKED") /\ rd' = [rd EXCEPT ![r] = NoRead]
  /\ UNCHANGED <<active, employer, rows, object, stale, served, up, sc, found, erasure>>

\* ... opens the object, which must have the recorded digest ...
ReadOpen(r) ==
  LET v == grant[rd[r].g].v IN
  /\ rd[r].at = "open"
  /\ rd' = [rd EXCEPT ![r] = IF object[v] # Nothing /\ object[v] = version[v].digest
                               THEN [@ EXCEPT !.at = "consume", !.content = object[v]]
                               ELSE NoRead]
  /\ UNCHANGED <<active, employer, rows, object, grant, stale, served, up, sc, found, erasure>>

\* Mutant: the check made when the request began is enough.
ReadConsumeUnlocked(r) ==
  LET g == rd[r].g IN
  /\ rd[r].at = "consume"
  /\ IF Authorized(grant[g].v, grant[g].by)
       THEN SetGrant(g, "CONSUMED") /\ served' = [served EXCEPT ![g] = Append(@, rd[r].content)]
       ELSE SetGrant(g, "REVOKED") /\ UNCHANGED served
  /\ rd' = [rd EXCEPT ![r] = NoRead]
  /\ UNCHANGED <<active, employer, rows, object, stale, up, sc, found, erasure>>

\* Mutant: the preliminary authorization is enough.
ReadConsumeUnauthorized(r) ==
  LET g == rd[r].g IN
  /\ rd[r].at = "consume"
  /\ IF grant[g].status = "ACTIVE"
       THEN SetGrant(g, "CONSUMED") /\ served' = [served EXCEPT ![g] = Append(@, rd[r].content)]
       ELSE UNCHANGED <<grant, served>>
  /\ rd' = [rd EXCEPT ![r] = NoRead]
  /\ UNCHANGED <<active, employer, rows, object, stale, up, sc, found, erasure>>

\* ... and consumes the grant under its lock, authorizing again.  The expiry is compared with
\* the time at which the request began.
ReadConsume(r) ==
  LET g == rd[r].g IN
  /\ rd[r].at = "consume"
  /\ IF grant[g].status # "ACTIVE" THEN UNCHANGED <<grant, served>>
     ELSE IF Authorized(grant[g].v, grant[g].by)
       THEN SetGrant(g, "CONSUMED") /\ served' = [served EXCEPT ![g] = Append(@, rd[r].content)]
     ELSE SetGrant(g, "REVOKED") /\ UNCHANGED served
  /\ rd' = [rd EXCEPT ![r] = NoRead]
  /\ UNCHANGED <<active, employer, rows, object, stale, up, sc, found, erasure>>

ReadGone(r) ==
  /\ Crashes /\ rd[r] # NoRead
  /\ rd' = [rd EXCEPT ![r] = NoRead]
  /\ UNCHANGED <<active, employer, rows, object, grant, stale, served, up, sc, found, erasure>>

Read ==
  \/ \E g \in Grant, v \in Versions, by \in {"owner", "employer"} : IssueGrant(g, v, by)
  \/ \E g \in Grant : RevokeGrant(g)
  \/ \E r \in Reader, g \in Grant : ReadGrant(r, g)
  \/ \E r \in Reader : ReadCheck(r) \/ ReadOpen(r) \/ ReadConsume(r) \/ ReadGone(r)

-----------------------------------------------------------------------------
(* Privacy erasure *)

\* setupExecution: an approved erasure begins while the account is ACTIVE.
EraseStart ==
  /\ erasure.pc = "off" /\ active
  /\ erasure' = [erasure EXCEPT !.pc = "list"]
  /\ UNCHANGED <<active, employer, rows, object, reads, up, sc, found>>

\* executeDocumentErasure reads the versions, their status and their application links first.
EraseList ==
  LET todo == {[v |-> v, status |-> Status(v), fate |-> IF v \in linked THEN "keep" ELSE "erase"] :
                 v \in {w \in Versions : Status(w) \notin {"NONE", "DELETED"}}}
  IN
  /\ erasure.pc = "list"
  /\ erasure' = [pc |-> "next", todo |-> todo,
                 scope |-> erasure.scope \cup {item.v : item \in {i \in todo : i.fate = "erase"}}]
  /\ UNCHANGED <<active, employer, rows, object, reads, up, sc, found>>

FirstItem(item) == item \in erasure.todo /\ \A other \in erasure.todo : item.v <= other.v
Left(item) == erasure' = [erasure EXCEPT !.pc = "next", !.todo = @ \ {item}]
\* A thrown error ends the execution with RETRY_REQUIRED; the next one starts with the list.
Retried == erasure' = [erasure EXCEPT !.pc = "list", !.todo = {}]

EraseKeep(item) ==
  /\ erasure.pc = "next" /\ FirstItem(item) /\ item.fate = "keep"
  /\ version' = [version EXCEPT ![item.v].status = IF @ = "DELETE_PENDING" THEN "HELD" ELSE @]
  /\ Left(item)
  /\ UNCHANGED <<active, employer, intent, late, current, verdicts, linked, object, reads, up, sc, found>>

\* Mutant: a version that is kept is deleted after all.
EraseMarkKept(item) ==
  /\ erasure.pc = "next" /\ FirstItem(item)
  /\ <<Status(item.v), "DELETE_PENDING">> \in Edges
  /\ version' = [version EXCEPT ![item.v].status = "DELETE_PENDING"]
  /\ erasure' = [erasure EXCEPT !.pc = "delete"]
  /\ UNCHANGED <<active, employer, intent, late, current, verdicts, linked, object, reads, up, sc, found>>

\* Mutant: a refused transition is passed over.
EraseMarkSkips(item) ==
  /\ erasure.pc = "next" /\ FirstItem(item) /\ item.fate = "erase"
  /\ IF <<Status(item.v), "DELETE_PENDING">> \in Edges
       THEN /\ version' = [version EXCEPT ![item.v].status = "DELETE_PENDING"]
            /\ erasure' = [erasure EXCEPT !.pc = "delete"]
       ELSE Left(item) /\ UNCHANGED version
  /\ UNCHANGED <<active, employer, intent, late, current, verdicts, linked, object, reads, up, sc, found>>

\* Grants and status change in one transaction; a version without a digest, or one whose status
\* the trigger does not let go, throws.
EraseMark(item) ==
  /\ erasure.pc = "next" /\ FirstItem(item) /\ item.fate = "erase"
  /\ IF /\ item.status # "UPLOADING"
        /\ \/ item.status = "DELETE_PENDING"
           \/ Status(item.v) = "DELETE_PENDING"
           \/ <<Status(item.v), "DELETE_PENDING">> \in Edges
       THEN /\ grant' = [g \in Grant |->
                           IF grant[g].v = item.v /\ grant[g].status = "ACTIVE"
                             THEN [grant[g] EXCEPT !.status = "REVOKED"] ELSE grant[g]]
            /\ version' = [version EXCEPT ![item.v].status =
                             IF item.status = "DELETE_PENDING" THEN @ ELSE "DELETE_PENDING"]
            /\ erasure' = [erasure EXCEPT !.pc = "delete"]
       ELSE Retried /\ UNCHANGED <<grant, version>>
  /\ UNCHANGED <<active, employer, intent, late, current, verdicts, linked, object, stale, served, rd,
                 up, sc, found>>

\* deleteObject answers MISMATCH, and deletes nothing, when the object has another digest.
EraseObject(item) ==
  /\ erasure.pc = "delete" /\ FirstItem(item)
  /\ IF object[item.v] \in {Nothing, version[item.v].digest}
       THEN object' = [object EXCEPT ![item.v] = Nothing] /\ erasure' = [erasure EXCEPT !.pc = "mark"]
       ELSE Retried /\ UNCHANGED object
  /\ UNCHANGED <<active, employer, rows, reads, up, sc, found>>

EraseDeleted(item) ==
  /\ erasure.pc = "mark" /\ FirstItem(item)
  /\ IF <<Status(item.v), "DELETED">> \in Edges
       THEN version' = [version EXCEPT ![item.v].status = "DELETED"] /\ Left(item)
       ELSE Retried /\ UNCHANGED version
  /\ UNCHANGED <<active, employer, intent, late, current, verdicts, linked, object, reads, up, sc, found>>

EraseDone ==
  /\ erasure.pc = "next" /\ erasure.todo = {}
  /\ erasure' = [erasure EXCEPT !.pc = "account"]
  /\ UNCHANGED <<active, employer, rows, object, reads, up, sc, found>>

\* orderProcessors: postgres-primary is the last processor.  It suspends the account, and the
\* execution is COMPLETED; the document processor's outcome is on record and not asked for again.
EraseAccount ==
  /\ erasure.pc = "account"
  /\ active' = FALSE
  /\ erasure' = [erasure EXCEPT !.pc = "done"]
  /\ UNCHANGED <<employer, rows, object, reads, up, sc, found>>

\* A crash between two steps.
EraseGone ==
  /\ Crashes /\ erasure.pc \in {"next", "delete", "mark"}
  /\ Retried
  /\ UNCHANGED <<active, employer, rows, object, reads, up, sc, found>>

EraseStep ==
  \/ EraseList \/ EraseDone \/ EraseAccount
  \/ \E item \in erasure.todo : EraseKeep(item) \/ EraseMark(item) \/ EraseObject(item) \/ EraseDeleted(item)

-----------------------------------------------------------------------------
(* Time and access *)

\* Nobody asks for the time of an intent that is no longer open, or for access without a grant.
IntentLapses(v) ==
  /\ intent[v].status \in Open /\ v \notin late
  /\ late' = late \cup {v}
  /\ UNCHANGED <<active, employer, intent, version, current, verdicts, linked, object, reads, up, sc, found, erasure>>

GrantLapses(g) ==
  /\ grant[g].status = "ACTIVE" /\ g \notin stale
  /\ stale' = stale \cup {g}
  /\ UNCHANGED <<active, employer, rows, object, grant, served, rd, up, sc, found, erasure>>

EmployerLosesAccess ==
  /\ employer /\ \E g \in Grant : grant[g].by = "employer"
  /\ employer' = FALSE
  /\ UNCHANGED <<active, rows, object, reads, up, sc, found, erasure>>

Next ==
  \/ Upload \/ Scan \/ Read
  \/ \E v \in Versions : SubmitApplication(v) \/ RequestDeletion(v) \/ IntentLapses(v)
  \/ \E g \in Grant : GrantLapses(g)
  \/ EmployerLosesAccess
  \/ EraseStart \/ EraseStep \/ EraseGone

Spec == Init /\ [][Next]_vars

\* The worker goes on taking scan items and repeating an execution that asks for a retry.
FairSpec ==
  /\ Spec
  /\ \A s \in Scanner :
       WF_vars((\E v \in Versions : ScanClaim(s, v)) \/ ScanUnauthorized(s) \/ ScanRead(s) \/ ScanRecord(s))
  /\ WF_vars(EraseStep)

-----------------------------------------------------------------------------
(* Properties *)

Intents == [status : IntentStatus, expected : Digest]
Rows == [status : VersionStatus, digest : Digest, listed : {"NONE", "ACTIVE", "REMOVED"}]
Uploads == {Freed} \cup [at : {"put", "complete", "fail"}, v : Versions, content : Content]
Scans == {NoScan} \cup [at : {"scan", "record"}, v : Versions, outcome : Outcome]
Reads == {NoRead} \cup [at : {"check", "open"}, g : Grant, content : {Nothing}]
                  \cup [at : {"consume"}, g : Grant, content : Content]
Grants == [v : Versions, by : {"owner", "employer"},
           status : {"NONE", "ACTIVE", "CONSUMED", "REVOKED", "EXPIRED"}]
Items == [v : Versions, status : VersionStatus, fate : {"keep", "erase"}]

\* The variables have the values the tables and the processes may hold.
TypeOK ==
  /\ active \in BOOLEAN /\ employer \in BOOLEAN
  /\ intent \in [Versions -> Intents] /\ late \subseteq Versions
  /\ version \in [Versions -> Rows] /\ current \in {0} \cup Versions
  /\ object \in [Versions -> Digest]
  /\ verdicts \in [Versions -> Seq(Outcome)] /\ linked \subseteq Versions
  /\ grant \in [Grant -> Grants] /\ stale \subseteq Grant
  /\ served \in [Grant -> Seq(Content)]
  /\ up \in [Uploader -> Uploads] /\ sc \in [Scanner -> Scans] /\ rd \in [Reader -> Reads]
  /\ found \subseteq Versions
  /\ erasure \in [pc : {"off", "list", "next", "delete", "mark", "account", "done"},
                 todo : SUBSET Items, scope : SUBSET Versions]

\* However uploads, expiry and the reconciler interleave, a candidate has one open intent at
\* most: createDocumentUploadIntent never runs into the unique index on current intents.
OneOpenIntent ==
  \A v, w \in Versions :
    intent[v].status \in Open /\ intent[w].status \in Open => v = w

\* Scans of several versions that end in any order, deletions and the next upload leave one clean
\* version: it is the document's current one, the only one listed in the profile, and until an
\* erasure a current version is clean.
OneCleanVersion ==
  /\ \A v \in Versions : Status(v) = "CLEAN" => current = v
  /\ \A v \in Versions : version[v].listed = "ACTIVE" <=> current = v
  /\ erasure.pc = "off" /\ current # 0 => Status(current) = "CLEAN"

\* An intent that still takes a body has a version that waits for one, an intent that has its body
\* has a version with a digest, whatever expired, failed or was aborted meanwhile: no upload begins
\* for a version that a scan or a deletion already works on.
IntentFollowsVersion ==
  \A v \in Versions :
    /\ intent[v].status \in {"CREATED", "UPLOADING"} => Status(v) = "UPLOADING"
    /\ intent[v].status \in {"UPLOADED", "FINALIZED"} => version[v].digest # Nothing

\* Two requests may send different bodies for one intent, and either may record its receipt: until
\* the version is given up, the store holds what the recorded sha256 says.
DigestIsObject ==
  \A v \in Versions :
    Status(v) \notin {"NONE", "UPLOADING", "DELETE_PENDING", "HELD", "DELETED"} =>
      object[v] = version[v].digest /\ object[v] # Nothing

\* A version that may be read or replaced has exactly one verdict, a clean one, and its content is
\* harmless: no late body, second scan or repeated attempt gets between verdict and content.
ReadableIsHarmless ==
  \A v \in Versions :
    /\ Len(verdicts[v]) <= 1
    /\ Status(v) \in Readable => verdicts[v] = <<"CLEAN">> /\ version[v].digest \in Harmless

\* Requests that race with one token hand out one body at most, and a harmless one.
GrantServesOnce ==
  \A g \in Grant :
    /\ Len(served[g]) <= 1
    /\ \A i \in 1..Len(served[g]) : served[g][i] \in Harmless

\* A body is handed out only while the version is readable and the reader still has access, however
\* long ago the request checked that and opened the object.
ServedWithAccess ==
  [][\A g \in Grant : served'[g] # served[g] =>
       grant[g].status = "ACTIVE" /\ Authorized(grant[g].v, grant[g].by)]_vars

\* Whatever an erasure was interrupted by, it keeps what an application had been submitted with
\* when it last read the links: row and object.
EvidenceKept ==
  \A v \in linked \ erasure.scope : Status(v) # "DELETED" /\ object[v] = version[v].digest

\* A document processor that reports success has deleted every version it set out to delete, also
\* those of an earlier attempt, and left no grant on them.
ErasureCovers ==
  erasure.pc \in {"account", "done"} =>
    \A v \in erasure.scope \ linked :
      /\ Status(v) = "DELETED"
      /\ \A g \in Grant : grant[g].v = v => grant[g].status # "ACTIVE"

\* "Freigegebene Daten wurden gelöscht oder irreversibel anonymisiert." (note of a completed
\* erasure, src/lib/privacy/execution-v2.ts:1407): of a candidate who submitted no application no
\* document is left.
NothingLeftAfterErasure ==
  erasure.pc = "done" => \A v \in Versions \ linked : Status(v) \in {"NONE", "DELETED"}

\* "Scanner Attempts sind retrybar" and an outcome within 120 s, "sonst SCAN_FAILED"
\* (codex-plan/21-document-cv-vault.md:210, :358): a scan that began comes to an end.
ScanSettles == \A v \in Versions : Status(v) = "SCANNING" ~> Status(v) # "SCANNING"

\* "terminales Outcome" of each processor (codex-plan/22-privacy-legal-analytics.md:211):
\* once no upload or scan is under way, an erasure that is repeated finishes.
ErasureTerminates ==
  (erasure.pc = "list"
     /\ \A v \in Versions : Status(v) \notin {"UPLOADING", "QUARANTINED", "SCANNING", "SCAN_FAILED"})
  ~> erasure.pc = "done"
=============================================================================
