------------------------ MODULE DocumentVaultProofs ------------------------
(***************************************************************************)
(* Types and safety of DocumentVault, for any number of versions,          *)
(* requests, scans and grants.  The first part is about types; the second  *)
(* says what one step may do to an intent, a version, an object or a       *)
(* grant; the third derives the invariants from that, without a look at    *)
(* single actions.                                                         *)
(***************************************************************************)
EXTENDS DocumentVault, TLAPS

-----------------------------------------------------------------------------
(* Updates of one record or one variable keep its type. *)

LEMMA IntentTyped ==
  ASSUME NEW x \in Intents, NEW to \in IntentStatus, NEW d \in Digest
  PROVE  [x EXCEPT !.status = to] \in Intents /\ [status |-> to, expected |-> d] \in Intents
  BY DEF Intents

LEMMA RowTyped ==
  ASSUME NEW row \in Rows, NEW to \in VersionStatus, NEW d \in Digest, NEW l \in {"NONE", "ACTIVE", "REMOVED"}
  PROVE  /\ [row EXCEPT !.status = to] \in Rows
         /\ [row EXCEPT !.status = to, !.digest = d] \in Rows
         /\ [row EXCEPT !.status = to, !.listed = l] \in Rows
  BY DEF Rows

LEMMA RowFields ==
  ASSUME NEW row \in Rows
  PROVE  row.status \in VersionStatus /\ row.digest \in Digest /\ row.listed \in {"NONE", "ACTIVE", "REMOVED"}
  BY DEF Rows

LEMMA ProcessTyped ==
  ASSUME NEW v \in Versions
  PROVE  /\ \A at \in {"put", "complete", "fail"}, c \in Content : [at |-> at, v |-> v, content |-> c] \in Uploads
         /\ \A at \in {"scan", "record"}, o \in Outcome : [at |-> at, v |-> v, outcome |-> o] \in Scans
         /\ Freed \in Uploads /\ NoScan \in Scans
  BY DEF Uploads, Scans

LEMMA UploadFields ==
  ASSUME NEW x \in Uploads, x.at # "idle"
  PROVE  x.v \in Versions /\ x.content \in Content /\ x.at \in {"put", "complete", "fail"}
         /\ x = [at |-> x.at, v |-> x.v, content |-> x.content]
         /\ x # Freed
  BY DEF Uploads, Freed

LEMMA ScanFields ==
  ASSUME NEW x \in Scans, x.at # "idle"
  PROVE  x.v \in Versions /\ x.outcome \in Outcome /\ x.at \in {"scan", "record"}
         /\ x = [at |-> x.at, v |-> x.v, outcome |-> x.outcome]
         /\ x # NoScan
  BY DEF Scans, NoScan

LEMMA ReadFields ==
  ASSUME NEW x \in Reads, x.at # "idle"
  PROVE  /\ x.g \in Grant /\ x # NoRead
         /\ x.at = "consume" => x.content \in Content
         /\ x.at = "check" => [x EXCEPT !.at = "open"] \in Reads
         /\ x.at = "open" => \A c \in Content : [x EXCEPT !.at = "consume", !.content = c] \in Reads
<1>1. CASE x \in [at : {"check", "open"}, g : Grant, content : {Nothing}]
  <2>1. x.g \in Grant /\ x.at \in {"check", "open"} /\ x # NoRead
    BY <1>1 DEF NoRead
  <2>2. [x EXCEPT !.at = "open"] \in [at : {"check", "open"}, g : Grant, content : {Nothing}]
    BY <1>1
  <2>3. ASSUME NEW c \in Content
        PROVE  [x EXCEPT !.at = "consume", !.content = c] \in [at : {"consume"}, g : Grant, content : Content]
    BY <1>1
  <2> QED
    BY <2>1, <2>2, <2>3 DEF Reads
<1>2. CASE x \in [at : {"consume"}, g : Grant, content : Content]
  <2>1. x.g \in Grant /\ x.at = "consume" /\ x.content \in Content /\ x # NoRead
    BY <1>2 DEF NoRead
  <2> QED
    BY <2>1
<1>3. x # NoRead
  BY DEF NoRead
<1> QED
  BY <1>1, <1>2, <1>3 DEF Reads

LEMMA GrantTyped ==
  ASSUME NEW x \in Grants, NEW to \in {"NONE", "ACTIVE", "CONSUMED", "REVOKED", "EXPIRED"},
         NEW v \in Versions, NEW by \in {"owner", "employer"}
  PROVE  [x EXCEPT !.status = to] \in Grants /\ [v |-> v, by |-> by, status |-> to] \in Grants
  BY DEF Grants

LEMMA SetIntentTyped ==
  ASSUME TypeOK, NEW v \in Versions, NEW to \in IntentStatus, NEW from, SetIntent(v, from, to)
  PROVE  intent' \in [Versions -> Intents]
<1>1. intent[v] \in Intents /\ intent[v].status \in IntentStatus
  BY DEF TypeOK, Intents
<1>2. [intent[v] EXCEPT !.status = IF @ \in from THEN to ELSE @] \in Intents
  BY <1>1, IntentTyped DEF Intents
<1> QED
  BY <1>2 DEF SetIntent, TypeOK

LEMMA SetGrantTyped ==
  ASSUME TypeOK, NEW g \in Grant, NEW to \in {"CONSUMED", "REVOKED", "EXPIRED"}, SetGrant(g, to)
  PROVE  grant' \in [Grant -> Grants]
<1>1. grant[g] \in Grants
  BY DEF TypeOK
<1>2. [grant[g] EXCEPT !.status = IF @ = "ACTIVE" THEN to ELSE @] \in Grants
  BY <1>1 DEF Grants
<1> QED
  BY <1>2 DEF SetGrant, TypeOK

-----------------------------------------------------------------------------
(* Types *)

LEMMA InitTypes == Init => TypeOK
<1> SUFFICES ASSUME Init PROVE TypeOK
  OBVIOUS
<1>1. active \in BOOLEAN /\ employer \in BOOLEAN
  BY Zenon DEF Init
<1>2. /\ intent \in [Versions -> Intents] /\ version \in [Versions -> Rows]
      /\ grant \in [Grant -> Grants]
  BY VersionsAssumption DEF Init, Intents, IntentStatus, Rows, VersionStatus, Grants, Digest, Versions
<1>3. up \in [Uploader -> Uploads] /\ sc \in [Scanner -> Scans] /\ rd \in [Reader -> Reads]
  BY DEF Init, Uploads, Scans, Reads
<1>4. /\ object \in [Versions -> Digest] /\ verdicts \in [Versions -> Seq(Outcome)]
      /\ served \in [Grant -> Seq(Content)]
  BY DEF Init, Digest
<1>5. erasure \in [pc : {"off", "list", "next", "delete", "mark", "account", "done"},
                   todo : SUBSET Items, scope : SUBSET Versions]
  BY DEF Init
<1> QED
  BY <1>1, <1>2, <1>3, <1>4, <1>5 DEF Init, TypeOK

LEMMA UploadTypes == TypeOK /\ Upload => TypeOK'
<1> SUFFICES ASSUME TypeOK, Upload PROVE TypeOK'
  OBVIOUS
<1> USE DEF TypeOK, rows, reads
<1>0. \A v \in Versions : intent[v] \in Intents /\ version[v] \in Rows /\ object[v] \in Digest
  OBVIOUS
<1>1. ASSUME NEW v \in Versions, NEW c \in Declared, CreateIntent(v, c) PROVE TypeOK'
  <2>1. c \in Digest /\ "CREATED" \in IntentStatus /\ "EXPIRED" \in IntentStatus /\ "UPLOADING" \in VersionStatus
    BY ContentAssumption DEF Digest, IntentStatus, VersionStatus
  <2>2. intent' \in [Versions -> Intents]
    BY <1>0, <1>1, <2>1, IntentTyped DEF CreateIntent
  <2>3. version' \in [Versions -> Rows]
    BY <1>0, <1>1, <2>1, RowTyped DEF CreateIntent
  <2> QED
    BY <1>1, <2>2, <2>3 DEF CreateIntent
<1>2. ASSUME NEW v \in Versions, UploadExpired(v) PROVE TypeOK'
  <2>1. intent' \in [Versions -> Intents]
    BY <1>2, SetIntentTyped DEF UploadExpired, IntentStatus
  <2> QED
    BY <1>2, <2>1 DEF UploadExpired
<1>3. ASSUME NEW v \in Versions, Finalize(v) PROVE TypeOK'
  <2>1. intent' \in [Versions -> Intents]
    BY <1>3, SetIntentTyped DEF Finalize, IntentStatus
  <2> QED
    BY <1>3, <2>1 DEF Finalize
<1>4. ASSUME NEW v \in Versions, ReconcileAbort(v) PROVE TypeOK'
  <2>1. intent' \in [Versions -> Intents]
    BY <1>4, SetIntentTyped DEF ReconcileAbort, IntentStatus
  <2> QED
    BY <1>4, <2>1 DEF ReconcileAbort
<1>5. ASSUME NEW u \in Uploader, NEW v \in Versions, NEW c \in Content, UploadPrepare(u, v, c) PROVE TypeOK'
  <2>1. intent' \in [Versions -> Intents]
    BY <1>5, SetIntentTyped DEF UploadPrepare, IntentStatus
  <2>2. up' \in [Uploader -> Uploads]
    BY <1>5, ProcessTyped DEF UploadPrepare
  <2> QED
    BY <1>5, <2>1, <2>2 DEF UploadPrepare
<1>6. ASSUME NEW u \in Uploader, UploadPut(u) PROVE TypeOK'
  <2>1. up[u].v \in Versions /\ up[u].content \in Content
    BY <1>6, UploadFields DEF UploadPut
  <2>2. (IF object[up[u].v] = Nothing THEN up[u].content ELSE object[up[u].v]) \in Content
    BY <1>0, <2>1 DEF Digest
  <2>3. object' \in [Versions -> Digest]
    BY <1>6, <2>1, <2>2 DEF UploadPut, Digest
  <2>4. up' \in [Uploader -> Uploads]
    <3>1. PICK answer \in {"complete", "fail"} :
            up' = [up EXCEPT ![u] = [at |-> answer, v |-> up[u].v,
              content |-> IF object[up[u].v] = Nothing THEN up[u].content ELSE object[up[u].v]]]
      BY <1>6 DEF UploadPut
    <3>2. \A at \in {"put", "complete", "fail"}, c \in Content :
            [at |-> at, v |-> up[u].v, content |-> c] \in Uploads
      BY <2>1, ProcessTyped
    <3> QED
      BY <2>2, <3>1, <3>2
  <2> QED
    BY <1>6, <2>3, <2>4 DEF UploadPut
<1>7. ASSUME NEW u \in Uploader, UploadFail(u) PROVE TypeOK'
  <2>1. up[u].v \in Versions
    BY <1>7, UploadFields DEF UploadFail
  <2>2. intent' \in [Versions -> Intents]
    BY <1>7, <2>1, SetIntentTyped DEF UploadFail, IntentStatus
  <2>3. up' \in [Uploader -> Uploads]
    BY <1>7, <2>1, ProcessTyped DEF UploadFail
  <2> QED
    BY <1>7, <2>2, <2>3 DEF UploadFail
<1>8. ASSUME NEW u \in Uploader, UploadComplete(u) PROVE TypeOK'
  <2>1. up[u].v \in Versions /\ up[u].content \in Digest
    BY <1>8, UploadFields DEF UploadComplete, Digest
  <2>2. intent' \in [Versions -> Intents]
    BY <1>8, <2>1, SetIntentTyped DEF UploadComplete, IntentStatus
  <2>3. version' \in [Versions -> Rows]
    <3>1. "QUARANTINED" \in VersionStatus
      BY DEF VersionStatus
    <3>2. [version[up[u].v] EXCEPT !.status = "QUARANTINED", !.digest = up[u].content] \in Rows
      <4> HIDE DEF TypeOK
      <4>1. version[up[u].v] \in Rows
        BY <1>0, <2>1
      <4> QED
        BY <2>1, <3>1, <4>1 DEF Rows
    <3> QED
      BY <1>8, <2>1, <3>2 DEF UploadComplete
  <2>4. up' \in [Uploader -> Uploads]
    BY <1>8, <2>1, ProcessTyped DEF UploadComplete
  <2> QED
    BY <1>8, <2>2, <2>3, <2>4 DEF UploadComplete
<1>9. ASSUME NEW u \in Uploader, UploadGone(u) PROVE TypeOK'
  <2>1. up' \in [Uploader -> Uploads]
    BY <1>9 DEF UploadGone, Uploads
  <2> QED
    BY <1>9, <2>1 DEF UploadGone
<1>10. CASE ReconcileList
  BY <1>10 DEF ReconcileList
<1> QED
  BY <1>1, <1>2, <1>3, <1>4, <1>5, <1>6, <1>7, <1>8, <1>9, <1>10 DEF Upload

LEMMA ScanTypes == TypeOK /\ Scan => TypeOK'
<1> SUFFICES ASSUME TypeOK, NEW s \in Scanner,
                    \/ \E v \in Versions : ScanClaim(s, v)
                    \/ ScanUnauthorized(s) \/ ScanRead(s) \/ ScanRecord(s) \/ ScanGone(s)
             PROVE TypeOK'
  BY DEF Scan
<1> USE DEF TypeOK, rows, reads
<1>0. NoScan \in Scans /\ \A v \in Versions : version[v] \in Rows
  BY DEF Scans
<1>1. ASSUME NEW v \in Versions, ScanClaim(s, v) PROVE TypeOK'
  <2>1. version' \in [Versions -> Rows]
    BY <1>0, <1>1, RowTyped DEF ScanClaim, VersionStatus
  <2>2. [NoScan EXCEPT !.at = "scan", !.v = v] \in Scans
    BY DEF Scans, NoScan, Outcome
  <2> QED
    BY <1>1, <2>1, <2>2 DEF ScanClaim
<1>2. CASE ScanUnauthorized(s)
  <2>1. sc[s].v \in Versions
    BY <1>2, ScanFields DEF ScanUnauthorized
  <2>2. [version[sc[s].v] EXCEPT !.status = IF @ = "SCANNING" THEN "SCAN_FAILED" ELSE @] \in Rows
    <3>1. (IF version[sc[s].v].status = "SCANNING" THEN "SCAN_FAILED" ELSE version[sc[s].v].status)
            \in VersionStatus
      BY <1>0, <2>1, RowFields DEF VersionStatus
    <3> HIDE DEF TypeOK
    <3>2. version[sc[s].v] \in Rows
      BY <1>0, <2>1
    <3> QED
      BY <3>1, <3>2 DEF Rows
  <2>3. version' \in [Versions -> Rows]
    BY <1>2, <2>1, <2>2 DEF ScanUnauthorized
  <2> QED
    BY <1>0, <1>2, <2>3 DEF ScanUnauthorized
<1>3. CASE ScanRead(s)
  <2>1. PICK o \in ScanOutcomes(object[sc[s].v]) : sc' = [sc EXCEPT ![s].at = "record", ![s].outcome = o]
    BY <1>3 DEF ScanRead
  <2>2. o \in Outcome
    BY <2>1 DEF ScanOutcomes, Outcome
  <2>3. sc[s] \in [at : {"scan", "record"}, v : Versions, outcome : Outcome]
    <3>1. sc[s] \in Scans /\ sc[s].at = "scan"
      BY <1>3 DEF ScanRead
    <3> QED
      BY <3>1 DEF Scans, NoScan
  <2>4. [sc[s] EXCEPT !.at = "record", !.outcome = o] \in Scans
    BY <2>2, <2>3 DEF Scans
  <2>5. sc' \in [Scanner -> Scans]
    BY <2>1, <2>4
  <2> QED
    BY <1>3, <2>5 DEF ScanRead
<1>4. CASE ScanRecord(s)
  <2>1. sc[s].v \in Versions /\ sc[s].outcome \in Outcome
    BY <1>4, ScanFields DEF ScanRecord
  <2>2. /\ [version[sc[s].v] EXCEPT !.status = sc[s].outcome,
                                    !.listed = IF sc[s].outcome = "CLEAN" THEN "ACTIVE" ELSE @] \in Rows
        /\ \A w \in Versions :
             [version[w] EXCEPT !.status = IF w = current /\ @ = "CLEAN" THEN "REPLACED" ELSE @,
                                !.listed = IF @ = "ACTIVE" THEN "REMOVED" ELSE @] \in Rows
    <3>1. sc[s].outcome \in VersionStatus
      BY <2>1 DEF Outcome, VersionStatus
    <3>2. [version[sc[s].v] EXCEPT !.status = sc[s].outcome,
                                   !.listed = IF sc[s].outcome = "CLEAN" THEN "ACTIVE" ELSE @] \in Rows
      <4>1. PICK r \in Rows : r = version[sc[s].v]
        BY <1>0, <2>1
      <4>2. [r EXCEPT !.status = sc[s].outcome,
                      !.listed = IF sc[s].outcome = "CLEAN" THEN "ACTIVE" ELSE @] \in Rows
        BY <3>1, <4>1 DEF Rows
      <4> QED
        BY <4>1, <4>2
    <3>3. ASSUME NEW w \in Versions
          PROVE  [version[w] EXCEPT !.status = IF w = current /\ @ = "CLEAN" THEN "REPLACED" ELSE @,
                                    !.listed = IF @ = "ACTIVE" THEN "REMOVED" ELSE @] \in Rows
      <4>1. (IF w = current /\ version[w].status = "CLEAN" THEN "REPLACED" ELSE version[w].status)
              \in VersionStatus
        BY <1>0, RowFields DEF VersionStatus
      <4> QED
        BY <1>0, <4>1 DEF Rows
    <3> QED
      BY <3>2, <3>3
  <2>3. version' \in [Versions -> Rows]
    <3>1. CASE Status(sc[s].v) # "SCANNING"
      BY <1>4, <3>1 DEF ScanRecord
    <3>2. CASE Status(sc[s].v) = "SCANNING"
      <4> DEFINE Row(w) ==
            IF w = sc[s].v THEN [version[sc[s].v] EXCEPT !.status = sc[s].outcome,
                                   !.listed = IF sc[s].outcome = "CLEAN" THEN "ACTIVE" ELSE @]
            ELSE IF sc[s].outcome = "CLEAN"
              THEN [version[w] EXCEPT !.status = IF w = current /\ @ = "CLEAN" THEN "REPLACED" ELSE @,
                                      !.listed = IF @ = "ACTIVE" THEN "REMOVED" ELSE @]
            ELSE version[w]
      <4>1. version' = [w \in Versions |-> Row(w)]
        BY <1>4, <3>2 DEF ScanRecord
      <4>2. \A w \in Versions : Row(w) \in Rows
        BY <1>0, <2>2
      <4> HIDE DEF Row
      <4> QED
        BY <4>1, <4>2
    <3> QED
      BY <3>1, <3>2
  <2>4. verdicts' \in [Versions -> Seq(Outcome)]
    <3>1. verdicts[sc[s].v] \in Seq(Outcome)
      BY <2>1
    <3>2. (IF sc[s].outcome = "SCAN_FAILED" THEN verdicts[sc[s].v] ELSE Append(verdicts[sc[s].v], sc[s].outcome))
            \in Seq(Outcome)
      BY <2>1, <3>1
    <3>3. \/ verdicts' = verdicts
          \/ verdicts' = [verdicts EXCEPT ![sc[s].v] =
               IF sc[s].outcome = "SCAN_FAILED" THEN verdicts[sc[s].v] ELSE Append(verdicts[sc[s].v], sc[s].outcome)]
      BY <1>4 DEF ScanRecord
    <3> QED
      BY <3>2, <3>3
  <2>5. current' \in {0} \cup Versions
    BY <1>4, <2>1 DEF ScanRecord
  <2>6. sc' \in [Scanner -> Scans]
    BY <1>0, <1>4 DEF ScanRecord
  <2> QED
    BY <1>4, <2>3, <2>4, <2>5, <2>6 DEF ScanRecord
<1>5. CASE ScanGone(s)
  BY <1>0, <1>5 DEF ScanGone
<1> QED
  BY <1>1, <1>2, <1>3, <1>4, <1>5

LEMMA ReadTypes == TypeOK /\ Read => TypeOK'
<1> SUFFICES ASSUME TypeOK, Read PROVE TypeOK'
  OBVIOUS
<1> USE DEF TypeOK, rows, reads
<1>1. ASSUME NEW g \in Grant, NEW v \in Versions, NEW by \in {"owner", "employer"}, IssueGrant(g, v, by)
      PROVE  TypeOK'
  <2>1. grant' \in [Grant -> Grants]
    BY <1>1 DEF IssueGrant, Grants
  <2> QED
    BY <1>1, <2>1 DEF IssueGrant
<1>2. ASSUME NEW g \in Grant, RevokeGrant(g) PROVE TypeOK'
  <2>1. grant' \in [Grant -> Grants]
    BY <1>2, SetGrantTyped DEF RevokeGrant
  <2> QED
    BY <1>2, <2>1 DEF RevokeGrant
<1>3. ASSUME NEW r \in Reader, NEW g \in Grant, ReadGrant(r, g) PROVE TypeOK'
  <2>1. grant' \in [Grant -> Grants]
    BY <1>3, SetGrantTyped DEF ReadGrant
  <2>2. [at |-> "check", g |-> g, content |-> Nothing] \in Reads
    BY DEF Reads
  <2>3. rd' \in [Reader -> Reads]
    BY <1>3, <2>2 DEF ReadGrant
  <2> QED
    BY <1>3, <2>1, <2>3 DEF ReadGrant
<1>4. NoRead \in Reads /\ \A r \in Reader : rd[r] \in Reads
  BY DEF Reads
<1>5. ASSUME NEW r \in Reader, ReadCheck(r) PROVE TypeOK'
  <2>1. rd[r].g \in Grant /\ [rd[r] EXCEPT !.at = "open"] \in Reads
    BY <1>4, <1>5, ReadFields DEF ReadCheck
  <2>2. grant' \in [Grant -> Grants]
    BY <1>5, <2>1, SetGrantTyped DEF ReadCheck
  <2>3. rd' \in [Reader -> Reads]
    BY <1>4, <1>5, <2>1 DEF ReadCheck
  <2> QED
    BY <1>5, <2>2, <2>3 DEF ReadCheck
<1>6. ASSUME NEW r \in Reader, ReadOpen(r) PROVE TypeOK'
  <2> DEFINE o == object[grant[rd[r].g].v]
  <2>1. rd[r].g \in Grant /\ \A c \in Content : [rd[r] EXCEPT !.at = "consume", !.content = c] \in Reads
    BY <1>4, <1>6, ReadFields DEF ReadOpen
  <2>2. o \in Digest
    BY <2>1 DEF Grants
  <2>3. \/ rd' = [rd EXCEPT ![r] = NoRead]
        \/ o # Nothing /\ rd' = [rd EXCEPT ![r] = [rd[r] EXCEPT !.at = "consume", !.content = o]]
    BY <1>6 DEF ReadOpen
  <2>4. rd' \in [Reader -> Reads]
    BY <1>4, <2>1, <2>2, <2>3 DEF Digest
  <2> QED
    BY <1>6, <2>4 DEF ReadOpen
<1>7. ASSUME NEW r \in Reader, ReadConsume(r) PROVE TypeOK'
  <2>2. rd[r].g \in Grant /\ rd[r].content \in Content
    BY <1>4, <1>7, ReadFields DEF ReadConsume
  <2>3. grant' \in [Grant -> Grants]
    BY <1>7, <2>2, SetGrantTyped DEF ReadConsume
  <2>4. rd' \in [Reader -> Reads]
    BY <1>4, <1>7 DEF ReadConsume
  <2>5. served' \in [Grant -> Seq(Content)]
    <3>2. \/ served' = served
          \/ served' = [served EXCEPT ![rd[r].g] = Append(served[rd[r].g], rd[r].content)]
      BY <1>7 DEF ReadConsume
    <3>3. served[rd[r].g] \in Seq(Content)
      BY <2>2
    <3>4. Append(served[rd[r].g], rd[r].content) \in Seq(Content)
      BY <2>2, <3>3
    <3> QED
      BY <2>2, <3>2, <3>4
  <2> QED
    BY <1>7, <2>3, <2>4, <2>5 DEF ReadConsume
<1>8. ASSUME NEW r \in Reader, ReadGone(r) PROVE TypeOK'
  <2>1. rd' \in [Reader -> Reads]
    BY <1>8 DEF ReadGone, Reads
  <2> QED
    BY <1>8, <2>1 DEF ReadGone
<1> QED
  BY <1>1, <1>2, <1>3, <1>5, <1>6, <1>7, <1>8 DEF Read

LEMMA EraseTypes == TypeOK /\ (EraseStart \/ EraseStep \/ EraseGone) => TypeOK'
<1> SUFFICES ASSUME TypeOK, EraseStart \/ EraseStep \/ EraseGone PROVE TypeOK'
  OBVIOUS
<1> USE DEF TypeOK, rows, reads
<1>0. \A v \in Versions : version[v] \in Rows /\ Status(v) \in VersionStatus
  BY RowFields DEF Status
<1>1. ASSUME NEW item \in erasure.todo
      PROVE  item.v \in Versions /\ item.fate \in {"keep", "erase"} /\ item.status \in VersionStatus
  BY <1>1 DEF Items
<1>2. CASE EraseStart
  BY <1>2 DEF EraseStart
<1>3. CASE EraseList
  <2> DEFINE todo == {[v |-> v, status |-> Status(v), fate |-> IF v \in linked THEN "keep" ELSE "erase"] :
                        v \in {w \in Versions : Status(w) \notin {"NONE", "DELETED"}}}
             added == {item.v : item \in {i \in todo : i.fate = "erase"}}
  <2>1. todo \subseteq Items
    BY <1>0 DEF Items
  <2>2. added \subseteq Versions
    BY <2>1 DEF Items
  <2> HIDE DEF todo
  <2>3. erasure' = [pc |-> "next", todo |-> todo, scope |-> erasure.scope \cup added]
    BY <1>3 DEF EraseList, todo
  <2> HIDE DEF added
  <2>4. erasure' \in [pc : {"off", "list", "next", "delete", "mark", "account", "done"},
                      todo : SUBSET Items, scope : SUBSET Versions]
    BY <2>1, <2>2, <2>3
  <2> QED
    BY <1>3, <2>4 DEF EraseList
<1>4. ASSUME NEW item \in erasure.todo, EraseKeep(item) PROVE TypeOK'
  <2>1. [version[item.v] EXCEPT !.status = IF @ = "DELETE_PENDING" THEN "HELD" ELSE @] \in Rows
    <3>1. (IF version[item.v].status = "DELETE_PENDING" THEN "HELD" ELSE version[item.v].status) \in VersionStatus
      BY <1>0, <1>1 DEF VersionStatus, Status
    <3> HIDE DEF TypeOK
    <3>2. version[item.v] \in Rows
      BY <1>0, <1>1
    <3> QED
      BY <3>1, <3>2 DEF Rows
  <2>2. version' \in [Versions -> Rows]
    BY <1>4, <2>1 DEF EraseKeep
  <2> QED
    BY <1>4, <2>2 DEF EraseKeep, Left
<1>5. ASSUME NEW item \in erasure.todo, EraseMark(item) PROVE TypeOK'
  <2>1. [version[item.v] EXCEPT !.status = IF item.status = "DELETE_PENDING" THEN @ ELSE "DELETE_PENDING"] \in Rows
    <3>1. (IF item.status = "DELETE_PENDING" THEN version[item.v].status ELSE "DELETE_PENDING") \in VersionStatus
      BY <1>0, <1>1 DEF VersionStatus, Status
    <3> HIDE DEF TypeOK
    <3>2. version[item.v] \in Rows
      BY <1>0, <1>1
    <3> QED
      BY <3>1, <3>2 DEF Rows
  <2>2. version' \in [Versions -> Rows]
    BY <1>5, <2>1 DEF EraseMark
  <2>3. grant' \in [Grant -> Grants]
    <3> DEFINE Row(g) == IF grant[g].v = item.v /\ grant[g].status = "ACTIVE"
                           THEN [grant[g] EXCEPT !.status = "REVOKED"] ELSE grant[g]
    <3>1. ASSUME NEW g \in Grant PROVE Row(g) \in Grants
      <4>1. grant[g] \in Grants
        OBVIOUS
      <4> HIDE DEF TypeOK
      <4> QED
        BY <4>1 DEF Grants
    <3>2. \/ grant' = grant
          \/ grant' = [g \in Grant |-> Row(g)]
      BY <1>5 DEF EraseMark
    <3> HIDE DEF Row
    <3> QED
      BY <3>1, <3>2
  <2>4. erasure' \in [pc : {"off", "list", "next", "delete", "mark", "account", "done"},
                      todo : SUBSET Items, scope : SUBSET Versions]
    BY <1>5 DEF EraseMark, Retried
  <2> QED
    BY <1>5, <2>2, <2>3, <2>4 DEF EraseMark
<1>6. ASSUME NEW item \in erasure.todo, EraseObject(item) PROVE TypeOK'
  <2>1. object' \in [Versions -> Digest]
    <3>1. object' = object \/ object' = [object EXCEPT ![item.v] = Nothing]
      BY <1>6 DEF EraseObject
    <3> QED
      BY <1>1, <3>1 DEF Digest
  <2>2. erasure' \in [pc : {"off", "list", "next", "delete", "mark", "account", "done"},
                      todo : SUBSET Items, scope : SUBSET Versions]
    BY <1>6 DEF EraseObject, Retried
  <2> QED
    BY <1>6, <2>1, <2>2 DEF EraseObject
<1>7. ASSUME NEW item \in erasure.todo, EraseDeleted(item) PROVE TypeOK'
  <2>1. version' \in [Versions -> Rows]
    <3>1. "DELETED" \in VersionStatus
      BY DEF VersionStatus
    <3>2. [version[item.v] EXCEPT !.status = "DELETED"] \in Rows
      BY <1>0, <1>1, <3>1, RowTyped
    <3>3. version' = version \/ version' = [version EXCEPT ![item.v].status = "DELETED"]
      BY <1>7 DEF EraseDeleted
    <3>4. item.v \in Versions
      BY <1>1
    <3> HIDE DEF TypeOK
    <3>5. version \in [Versions -> Rows]
      BY DEF TypeOK
    <3> QED
      BY <3>2, <3>3, <3>4, <3>5
  <2>2. erasure' \in [pc : {"off", "list", "next", "delete", "mark", "account", "done"},
                      todo : SUBSET Items, scope : SUBSET Versions]
    <3>1. \/ erasure' = [erasure EXCEPT !.pc = "next", !.todo = erasure.todo \ {item}]
          \/ erasure' = [erasure EXCEPT !.pc = "list", !.todo = {}]
      BY <1>7 DEF EraseDeleted, Left, Retried
    <3>2. CASE erasure' = [erasure EXCEPT !.pc = "next", !.todo = erasure.todo \ {item}]
      BY <3>2
    <3>3. CASE erasure' = [erasure EXCEPT !.pc = "list", !.todo = {}]
      BY <3>3
    <3> QED
      BY <3>1, <3>2, <3>3
  <2> QED
    BY <1>7, <2>1, <2>2 DEF EraseDeleted
<1>8. CASE EraseDone
  BY <1>8 DEF EraseDone
<1>9. CASE EraseAccount
  <2>1. active' \in BOOLEAN
    BY <1>9, Zenon DEF EraseAccount
  <2> QED
    BY <1>9, <2>1 DEF EraseAccount
<1>10. CASE EraseGone
  BY <1>10 DEF EraseGone, Retried
<1> QED
  BY <1>2, <1>3, <1>4, <1>5, <1>6, <1>7, <1>8, <1>9, <1>10 DEF EraseStep

LEMMA OtherTypes ==
  ASSUME TypeOK,
         \/ \E v \in Versions : SubmitApplication(v) \/ RequestDeletion(v) \/ IntentLapses(v)
         \/ \E g \in Grant : GrantLapses(g)
         \/ EmployerLosesAccess
  PROVE  TypeOK'
<1> USE DEF TypeOK, rows, reads
<1>1. ASSUME NEW v \in Versions, SubmitApplication(v) PROVE TypeOK'
  BY <1>1 DEF SubmitApplication
<1>2. ASSUME NEW v \in Versions, RequestDeletion(v) PROVE TypeOK'
  <2>1. [version[v] EXCEPT !.status = "DELETE_PENDING",
                           !.listed = IF @ = "ACTIVE" THEN "REMOVED" ELSE @] \in Rows
    <3>1. "DELETE_PENDING" \in VersionStatus
      BY DEF VersionStatus
    <3>2. version[v] \in Rows
      OBVIOUS
    <3> HIDE DEF TypeOK
    <3> QED
      BY <3>1, <3>2 DEF Rows
  <2>2. version' \in [Versions -> Rows]
    BY <1>2, <2>1 DEF RequestDeletion
  <2>3. current' \in {0} \cup Versions
    BY <1>2 DEF RequestDeletion
  <2> QED
    BY <1>2, <2>2, <2>3 DEF RequestDeletion
<1>3. ASSUME NEW v \in Versions, IntentLapses(v) PROVE TypeOK'
  BY <1>3 DEF IntentLapses
<1>4. ASSUME NEW g \in Grant, GrantLapses(g) PROVE TypeOK'
  BY <1>4 DEF GrantLapses
<1>5. CASE EmployerLosesAccess
  <2>1. employer' \in BOOLEAN
    BY <1>5, Zenon DEF EmployerLosesAccess
  <2> QED
    BY <1>5, <2>1 DEF EmployerLosesAccess
<1> QED
  BY <1>1, <1>2, <1>3, <1>4, <1>5

LEMMA TypesKept == TypeOK /\ [Next]_vars => TypeOK'
<1>1. ASSUME TypeOK, UNCHANGED vars PROVE TypeOK'
  BY <1>1 DEF TypeOK, vars, rows, reads
<1> QED
  BY <1>1, UploadTypes, ScanTypes, ReadTypes, EraseTypes, OtherTypes DEF Next

\* Every variable keeps its type: no path of uploads, scans, reads and erasures leaves the values
\* the tables and the processes of vault-service.ts may hold.
THEOREM VaultTypes == Spec => []TypeOK
<1> QED
  BY InitTypes, TypesKept, PTL DEF Spec

-----------------------------------------------------------------------------
(* The inductive invariant *)

Sha(v) == version[v].digest
At(v) == intent[v].status
NoGrant(v) == \A g \in Grant : grant[g].v = v => grant[g].status # "ACTIVE"

\* A body on its way is for a version that exists; one that is written is the version's object for
\* as long as the version waits for it.
UploadSound ==
  \A u \in Uploader : up[u] # Freed =>
    /\ Status(up[u].v) # "NONE"
    /\ up[u].at = "complete" /\ Status(up[u].v) = "UPLOADING" => object[up[u].v] = up[u].content

\* A running scan is the only one of its version, which is SCANNING; a clean result is true.
ScanSound ==
  \A s \in Scanner : sc[s] # NoScan =>
    /\ Status(sc[s].v) = "SCANNING"
    /\ sc[s].at = "record" /\ sc[s].outcome = "CLEAN" => Sha(sc[s].v) \in Harmless
    /\ \A t \in Scanner : sc[t] # NoScan /\ sc[t].v = sc[s].v => t = s

\* What the erasure's list says stays true enough while it works through it.
ListSound ==
  \A item \in erasure.todo :
    /\ Status(item.v) # "NONE"
    /\ Status(item.v) = "UPLOADING" => item.status = "UPLOADING"
    /\ item.status = "DELETE_PENDING" /\ item.fate = "erase" => Status(item.v) = "DELETE_PENDING"
    /\ item.fate = "keep" => item.v \in linked
    /\ item.fate = "erase" => item.v \in erasure.scope
    /\ \A other \in erasure.todo : other.v = item.v => other = item

\* The version that is being deleted is one to delete, and nobody may read it.
DeletingSound ==
  erasure.pc \in {"delete", "mark"} =>
    \A item \in erasure.todo : FirstItem(item) =>
      /\ item.fate = "erase"
      /\ Status(item.v) = "DELETE_PENDING"
      /\ NoGrant(item.v)

\* Versions that were not scanned to the end have no verdict.
VerdictSound ==
  \A v \in Versions :
    Status(v) \in {"NONE", "UPLOADING", "QUARANTINED", "SCANNING", "SCAN_FAILED"} => verdicts[v] = <<>>

\* A grant was given for a version the scanner found clean.
GrantSound ==
  \A g \in Grant : grant[g].status # "NONE" =>
    Status(grant[g].v) \notin {"NONE", "UPLOADING"} /\ Sha(grant[g].v) \in Harmless

ReadSound ==
  \A r \in Reader : rd[r] # NoRead =>
    /\ grant[rd[r].g].status # "NONE"
    /\ rd[r].at = "consume" => rd[r].content \in Harmless

UnservedBefore == \A g \in Grant : grant[g].status \in {"NONE", "ACTIVE"} => served[g] = <<>>

LinkSound == \A v \in linked : Status(v) \notin {"NONE", "UPLOADING"} /\ Sha(v) # Nothing

UploadInv == OneOpenIntent /\ IntentFollowsVersion /\ UploadSound /\ DigestIsObject
ScanInv == ScanSound /\ VerdictSound /\ ReadableIsHarmless
ReadInv == GrantSound /\ ReadSound /\ UnservedBefore /\ GrantServesOnce
EraseInv == ListSound /\ DeletingSound /\ LinkSound /\ EvidenceKept
IInv == TypeOK /\ UploadInv /\ ScanInv /\ ReadInv /\ EraseInv

-----------------------------------------------------------------------------
(* Who changes what *)

LEMMA IntentMovers ==
  ASSUME [Next]_vars
  PROVE  \/ intent' = intent
         \/ \E v \in Versions, c \in Declared : CreateIntent(v, c)
         \/ \E v \in Versions : UploadExpired(v) \/ Finalize(v) \/ ReconcileAbort(v)
         \/ \E u \in Uploader, v \in Versions, c \in Content : UploadPrepare(u, v, c)
         \/ \E u \in Uploader : UploadFail(u) \/ UploadComplete(u)
<1>1. Upload => \/ intent' = intent
                \/ \E v \in Versions, c \in Declared : CreateIntent(v, c)
                \/ \E v \in Versions : UploadExpired(v) \/ Finalize(v) \/ ReconcileAbort(v)
                \/ \E u \in Uploader, v \in Versions, c \in Content : UploadPrepare(u, v, c)
                \/ \E u \in Uploader : UploadFail(u) \/ UploadComplete(u)
  BY DEF Upload, UploadPut, UploadGone, ReconcileList, rows
<1>2. Scan => intent' = intent
  BY DEF Scan, ScanClaim, ScanUnauthorized, ScanRead, ScanRecord, ScanGone, rows
<1>3. Read => intent' = intent
  BY DEF Read, IssueGrant, RevokeGrant, ReadGrant, ReadCheck, ReadOpen, ReadConsume, ReadGone, rows
<1>4. EraseStep => intent' = intent
  BY DEF EraseStep, EraseList, EraseKeep, EraseMark, EraseObject, EraseDeleted, EraseDone, EraseAccount, rows
<1>5. \/ \E v \in Versions : SubmitApplication(v) \/ RequestDeletion(v) \/ IntentLapses(v)
      \/ \E g \in Grant : GrantLapses(g)
      \/ EmployerLosesAccess \/ EraseStart \/ EraseGone
      \/ UNCHANGED vars
      => intent' = intent
  BY DEF SubmitApplication, RequestDeletion, IntentLapses, GrantLapses, EmployerLosesAccess, EraseStart, EraseGone,
         vars, rows
<1> QED
  BY <1>1, <1>2, <1>3, <1>4, <1>5 DEF Next

LEMMA VersionMovers ==
  ASSUME [Next]_vars
  PROVE  \/ UNCHANGED <<version, verdicts, current>>
         \/ \E v \in Versions, c \in Declared : CreateIntent(v, c)
         \/ \E u \in Uploader : UploadComplete(u)
         \/ \E s \in Scanner, v \in Versions : ScanClaim(s, v)
         \/ \E s \in Scanner : ScanUnauthorized(s) \/ ScanRecord(s)
         \/ \E v \in Versions : RequestDeletion(v)
         \/ \E item \in erasure.todo : EraseKeep(item) \/ EraseMark(item) \/ EraseDeleted(item)
<1>1. Upload => \/ UNCHANGED <<version, verdicts, current>>
                \/ \E v \in Versions, c \in Declared : CreateIntent(v, c)
                \/ \E u \in Uploader : UploadComplete(u)
  BY DEF Upload, UploadExpired, UploadPrepare, UploadPut, UploadFail, UploadGone, Finalize, ReconcileList,
         ReconcileAbort, rows
<1>2. Scan => \/ UNCHANGED <<version, verdicts, current>>
              \/ \E s \in Scanner, v \in Versions : ScanClaim(s, v)
              \/ \E s \in Scanner : ScanUnauthorized(s) \/ ScanRecord(s)
  BY DEF Scan, ScanRead, ScanGone, rows
<1>3. Read => UNCHANGED <<version, verdicts, current>>
  BY DEF Read, IssueGrant, RevokeGrant, ReadGrant, ReadCheck, ReadOpen, ReadConsume, ReadGone, rows
<1>4. EraseStep => \/ UNCHANGED <<version, verdicts, current>>
                   \/ \E item \in erasure.todo : EraseKeep(item) \/ EraseMark(item) \/ EraseDeleted(item)
  BY DEF EraseStep, EraseList, EraseObject, EraseDone, EraseAccount, rows
<1>5. \/ \E v \in Versions : SubmitApplication(v) \/ IntentLapses(v)
      \/ \E g \in Grant : GrantLapses(g)
      \/ EmployerLosesAccess \/ EraseStart \/ EraseGone
      \/ UNCHANGED vars
      => UNCHANGED <<version, verdicts, current>>
  BY DEF SubmitApplication, IntentLapses, GrantLapses, EmployerLosesAccess, EraseStart, EraseGone, vars, rows
<1> QED
  BY <1>1, <1>2, <1>3, <1>4, <1>5 DEF Next

-----------------------------------------------------------------------------
(* What one step does to a version *)

ScanEnds(v) == \E s \in Scanner : sc[s] # NoScan /\ sc[s].v = v /\ sc'[s] = NoScan
KeptBack(v) == \E item \in erasure.todo : item.v = v /\ item.fate = "keep"
WorkedOff(v) == \E item \in erasure.todo : item.v = v /\ erasure'.todo = erasure.todo \ {item}

VersionStep(v) ==
  \/ Status(v)' = Status(v) /\ Sha(v)' = Sha(v) /\ verdicts'[v] = verdicts[v]
  \/ /\ Status(v) = "NONE" /\ Status(v)' = "UPLOADING"
     /\ Sha(v)' = Sha(v) /\ verdicts'[v] = verdicts[v] /\ At(v)' = "CREATED"
  \/ /\ Status(v) = "UPLOADING" /\ Status(v)' = "QUARANTINED"
     /\ Sha(v)' = object[v] /\ object[v] \in Content /\ verdicts'[v] = verdicts[v] /\ At(v)' = "UPLOADED"
     /\ object' = object
  \/ /\ Status(v) \in {"QUARANTINED", "SCAN_FAILED"} /\ Status(v)' = "SCANNING"
     /\ Sha(v)' = Sha(v) /\ verdicts'[v] = verdicts[v]
  \/ /\ Status(v) = "SCANNING" /\ ScanEnds(v)
     /\ Sha(v)' = Sha(v)
     /\ \/ Status(v)' = "SCAN_FAILED" /\ verdicts'[v] = verdicts[v]
        \/ /\ Status(v)' \in {"CLEAN", "REJECTED", "INFECTED"} /\ verdicts'[v] = Append(verdicts[v], Status(v)')
           /\ Status(v)' = "CLEAN" => Sha(v) \in Harmless
  \/ /\ \/ Status(v) = "CLEAN" /\ Status(v)' = "REPLACED"
        \/ Status(v) \in {"QUARANTINED", "SCAN_FAILED", "CLEAN", "REPLACED"} /\ Status(v)' = "DELETE_PENDING"
        \/ Status(v) = "DELETE_PENDING" /\ Status(v)' = "HELD" /\ erasure.pc = "next" /\ KeptBack(v)
        \/ /\ Status(v) = "DELETE_PENDING" /\ Status(v)' = "DELETED" /\ erasure'.pc = "next" /\ WorkedOff(v)
           /\ v \in erasure.scope /\ NoGrant(v) /\ grant' = grant
     /\ Sha(v)' = Sha(v) /\ verdicts'[v] = verdicts[v]

LEMMA RowUpdates ==
  ASSUME NEW row \in Rows, NEW st, NEW x
  PROVE  /\ [row EXCEPT !.status = st, !.digest = x].status = st
         /\ [row EXCEPT !.status = st, !.digest = x].digest = x
         /\ [row EXCEPT !.status = st, !.digest = x].listed = row.listed
         /\ [row EXCEPT !.status = st, !.listed = x].status = st
         /\ [row EXCEPT !.status = st, !.listed = x].digest = row.digest
         /\ [row EXCEPT !.status = st, !.listed = x].listed = x
  BY DEF Rows

\* One version gets another status and nothing else happens to any.
LEMMA StatusSet ==
  ASSUME TypeOK, NEW v \in Versions, NEW s, version' = [version EXCEPT ![v].status = s]
  PROVE  \A w \in Versions : Status(w)' = (IF w = v THEN s ELSE Status(w)) /\ Sha(w)' = Sha(w)
<1>1. \A w \in Versions : version[w] \in Rows
  BY DEF TypeOK
<1>2. version \in [Versions -> Rows]
  BY DEF TypeOK
<1> QED
  BY <1>1, <1>2 DEF Status, Sha, Rows

LEMMA UploadVersionSteps ==
  ASSUME IInv, NEW w \in Versions
  PROVE  /\ \A v \in Versions, c \in Declared : CreateIntent(v, c) => VersionStep(w)
         /\ \A u \in Uploader : UploadComplete(u) => VersionStep(w)
<1>0. TypeOK /\ IntentFollowsVersion /\ UploadSound
  BY DEF IInv, UploadInv
<1>1. ASSUME NEW v \in Versions, NEW c \in Declared, CreateIntent(v, c) PROVE VersionStep(w)
  <2>1. version' = [version EXCEPT ![v].status = "UPLOADING"] /\ Status(v) = "NONE" /\ verdicts' = verdicts
    BY <1>1 DEF CreateIntent
  <2>2. At(v)' = "CREATED"
    BY <1>1 DEF CreateIntent, At
  <2>3. Status(w)' = (IF w = v THEN "UPLOADING" ELSE Status(w)) /\ Sha(w)' = Sha(w)
    BY <1>0, <2>1, StatusSet
  <2> QED
    BY <2>1, <2>2, <2>3 DEF VersionStep
<1>2. ASSUME NEW u \in Uploader, UploadComplete(u) PROVE VersionStep(w)
  <2>1. up[u].at = "complete" /\ verdicts' = verdicts /\ object' = object
    BY <1>2 DEF UploadComplete
  <2>2. up[u] \in Uploads /\ up[u] # Freed
    BY <1>0, <2>1 DEF TypeOK, Freed
  <2>3. PICK v \in Versions : v = up[u].v /\ up[u].content \in Content
    BY <2>1, <2>2, UploadFields
  <2>4. CASE intent[v].status # "UPLOADING"
    BY <1>2, <2>1, <2>3, <2>4 DEF UploadComplete, VersionStep, Status, Sha
  <2>5. CASE intent[v].status = "UPLOADING"
    <3>1. Status(v) = "UPLOADING" /\ object[v] = up[u].content
      BY <1>0, <2>1, <2>2, <2>3, <2>5 DEF IntentFollowsVersion, UploadSound
    <3>2. version' = [version EXCEPT ![v].status = "QUARANTINED", ![v].digest = up[u].content]
      BY <1>2, <2>3, <2>5 DEF UploadComplete
    <3>3. version \in [Versions -> Rows] /\ version[w] \in Rows /\ version[v] \in Rows
      BY <1>0, <2>3 DEF TypeOK
    <3>4. /\ version'[w].status = IF w = v THEN "QUARANTINED" ELSE version[w].status
          /\ version'[w].digest = IF w = v THEN up[u].content ELSE version[w].digest
      <4>1. version'[w] = IF w = v THEN [version[v] EXCEPT !.status = "QUARANTINED", !.digest = up[u].content]
                          ELSE version[w]
        BY <2>3, <3>2, <3>3
      <4>2. /\ [version[v] EXCEPT !.status = "QUARANTINED", !.digest = up[u].content].status = "QUARANTINED"
            /\ [version[v] EXCEPT !.status = "QUARANTINED", !.digest = up[u].content].digest = up[u].content
        BY <3>3, RowUpdates
      <4> QED
        BY <4>1, <4>2
    <3>5. At(v)' = "UPLOADED"
      <4>1. intent' = [intent EXCEPT ![v].status = "UPLOADED"]
        BY <1>2, <2>3, <2>5 DEF UploadComplete, SetIntent
      <4>2. intent \in [Versions -> Intents] /\ intent[v] \in Intents
        BY <1>0, <2>3 DEF TypeOK
      <4> QED
        BY <2>3, <4>1, <4>2 DEF At, Intents
    <3> QED
      BY <2>1, <2>3, <3>1, <3>4, <3>5 DEF VersionStep, Status, Sha
  <2> QED
    BY <2>4, <2>5
<1> QED
  BY <1>1, <1>2

LEMMA ScanVersionSteps ==
  ASSUME IInv, NEW w \in Versions, NEW s \in Scanner
  PROVE  /\ \A v \in Versions : ScanClaim(s, v) => VersionStep(w)
         /\ ScanUnauthorized(s) => VersionStep(w)
         /\ ScanRecord(s) => VersionStep(w)
<1>0. TypeOK /\ ScanSound
  BY DEF IInv, ScanInv
<1>1. ASSUME NEW v \in Versions, ScanClaim(s, v) PROVE VersionStep(w)
  <2>1. /\ version' = [version EXCEPT ![v].status = "SCANNING"] /\ verdicts' = verdicts
        /\ Status(v) \in {"QUARANTINED", "SCAN_FAILED"}
    BY <1>1 DEF ScanClaim
  <2>2. Status(w)' = (IF w = v THEN "SCANNING" ELSE Status(w)) /\ Sha(w)' = Sha(w)
    BY <1>0, <2>1, StatusSet
  <2> QED
    BY <2>1, <2>2 DEF VersionStep
<1>2. ASSUME sc[s].at # "idle"
      PROVE  \E v \in Versions :
               v = sc[s].v /\ sc[s] # NoScan /\ sc[s].outcome \in Outcome /\ Status(v) = "SCANNING"
  <2>1. sc[s] \in Scans
    BY <1>0 DEF TypeOK
  <2> QED
    BY <1>0, <1>2, <2>1, ScanFields DEF ScanSound
<1>3. CASE ScanUnauthorized(s)
  <2>1. PICK v \in Versions : v = sc[s].v /\ Status(v) = "SCANNING" /\ verdicts' = verdicts
    BY <1>2, <1>3 DEF ScanUnauthorized
  <2>2. version \in [Versions -> Rows] /\ version[w] \in Rows /\ version[v] \in Rows
    BY <1>0, <2>1 DEF TypeOK
  <2>3. version' = [version EXCEPT ![v].status = "SCAN_FAILED"]
    BY <1>3, <2>1 DEF ScanUnauthorized, Status
  <2>4. Status(w)' = (IF w = v THEN "SCAN_FAILED" ELSE Status(w)) /\ Sha(w)' = Sha(w)
    BY <1>0, <2>1, <2>3, StatusSet
  <2>5. sc[s] # NoScan /\ sc'[s] = NoScan
    BY <1>0, <1>2, <1>3 DEF ScanUnauthorized, TypeOK
  <2> QED
    BY <2>1, <2>4, <2>5 DEF VersionStep, ScanEnds
<1>4. CASE ScanRecord(s)
  <2>1. PICK v \in Versions :
          /\ v = sc[s].v /\ Status(v) = "SCANNING" /\ sc[s].outcome \in Outcome
          /\ sc[s].at = "record" /\ sc[s] # NoScan
    BY <1>2, <1>4 DEF ScanRecord
  <2>2. version[w] \in Rows /\ version[v] \in Rows /\ verdicts \in [Versions -> Seq(Outcome)]
    BY <1>0, <2>1 DEF TypeOK
  <2>3. sc[s].outcome = "CLEAN" => Sha(v) \in Harmless
    BY <1>0, <2>1 DEF ScanSound
  <2>4. version'[w] = IF w = v THEN [version[v] EXCEPT !.status = sc[s].outcome,
                                       !.listed = IF sc[s].outcome = "CLEAN" THEN "ACTIVE" ELSE @]
                      ELSE IF sc[s].outcome = "CLEAN"
                        THEN [version[w] EXCEPT !.status = IF w = current /\ @ = "CLEAN" THEN "REPLACED" ELSE @,
                                                !.listed = IF @ = "ACTIVE" THEN "REMOVED" ELSE @]
                      ELSE version[w]
    BY <1>4, <2>1 DEF ScanRecord
  <2>5. verdicts'[w] = IF w = v /\ sc[s].outcome # "SCAN_FAILED" THEN Append(verdicts[w], sc[s].outcome) ELSE verdicts[w]
    BY <1>4, <2>1, <2>2 DEF ScanRecord
  <2>6. CASE w = v
    <3>1. Status(v)' = sc[s].outcome /\ Sha(v)' = Sha(v)
      <4> DEFINE li == IF sc[s].outcome = "CLEAN" THEN "ACTIVE" ELSE version[v].listed
      <4>1. [version[v] EXCEPT !.status = sc[s].outcome, !.listed = IF sc[s].outcome = "CLEAN" THEN "ACTIVE" ELSE @]
              = [version[v] EXCEPT !.status = sc[s].outcome, !.listed = li]
        BY <2>2 DEF Rows
      <4>2. version'[v] = [version[v] EXCEPT !.status = sc[s].outcome, !.listed = li]
        BY <2>1, <2>4, <2>6, <4>1
      <4>3. /\ [version[v] EXCEPT !.status = sc[s].outcome, !.listed = li].status = sc[s].outcome
            /\ [version[v] EXCEPT !.status = sc[s].outcome, !.listed = li].digest = version[v].digest
        BY <2>1, <2>2, RowUpdates
      <4> QED
        BY <4>2, <4>3 DEF Status, Sha
    <3>2. ScanEnds(w)
      <4>1. sc'[s] = NoScan
        BY <1>0, <1>4 DEF ScanRecord, TypeOK
      <4> QED
        BY <2>1, <2>6, <4>1 DEF ScanEnds
    <3> QED
      BY <2>1, <2>3, <2>5, <2>6, <3>1, <3>2 DEF VersionStep, Outcome
  <2>7. CASE w # v
    <3> DEFINE st == IF w = current /\ version[w].status = "CLEAN" THEN "REPLACED" ELSE version[w].status
               li == IF version[w].listed = "ACTIVE" THEN "REMOVED" ELSE version[w].listed
    <3>1. version'[w] = version[w] \/ version'[w] = [version[w] EXCEPT !.status = st, !.listed = li]
      <4>1. [version[w] EXCEPT !.status = IF w = current /\ @ = "CLEAN" THEN "REPLACED" ELSE @,
                               !.listed = IF @ = "ACTIVE" THEN "REMOVED" ELSE @]
              = [version[w] EXCEPT !.status = st, !.listed = li]
        BY <2>2 DEF Rows
      <4> QED
        BY <2>4, <2>7, <4>1
    <3>2. /\ [version[w] EXCEPT !.status = st, !.listed = li].status = st
          /\ [version[w] EXCEPT !.status = st, !.listed = li].digest = version[w].digest
      BY <2>2, RowUpdates
    <3>3. Sha(w)' = Sha(w) /\ verdicts'[w] = verdicts[w] /\ Status(w)' \in {Status(w), st}
      BY <2>5, <2>7, <3>1, <3>2 DEF Sha, Status
    <3> QED
      BY <3>3 DEF VersionStep, Status
  <2> QED
    BY <2>6, <2>7
<1> QED
  BY <1>1, <1>3, <1>4

LEMMA DeletionVersionSteps ==
  ASSUME IInv, NEW w \in Versions
  PROVE  /\ \A v \in Versions : RequestDeletion(v) => VersionStep(w)
         /\ \A item \in erasure.todo : EraseKeep(item) \/ EraseMark(item) \/ EraseDeleted(item) => VersionStep(w)
<1>0. TypeOK /\ ListSound /\ DeletingSound /\ version[w] \in Rows
  BY DEF IInv, EraseInv, TypeOK
<1>1. ASSUME NEW v \in Versions, RequestDeletion(v) PROVE VersionStep(w)
  <2> DEFINE li == IF version[v].listed = "ACTIVE" THEN "REMOVED" ELSE version[v].listed
  <2>1. /\ Status(v) \in {"CLEAN", "REPLACED"} /\ verdicts' = verdicts
        /\ version' = [version EXCEPT ![v] = [version[v] EXCEPT !.status = "DELETE_PENDING", !.listed = li]]
    <3>1. /\ Status(v) \in {"CLEAN", "REPLACED"} /\ verdicts' = verdicts
          /\ version' = [version EXCEPT ![v].status = "DELETE_PENDING",
                                        ![v].listed = IF @ = "ACTIVE" THEN "REMOVED" ELSE @]
      BY <1>1 DEF RequestDeletion, Readable
    <3>2. version \in [Versions -> Rows] /\ version[v] \in Rows
      BY <1>0 DEF TypeOK
    <3> QED
      BY <3>1, <3>2 DEF Rows
  <2>2. version \in [Versions -> Rows] /\ version[v] \in Rows
    BY <1>0 DEF TypeOK
  <2>3. /\ [version[v] EXCEPT !.status = "DELETE_PENDING", !.listed = li].status = "DELETE_PENDING"
        /\ [version[v] EXCEPT !.status = "DELETE_PENDING", !.listed = li].digest = version[v].digest
    BY <2>2, RowUpdates
  <2>4. Status(w)' = (IF w = v THEN "DELETE_PENDING" ELSE Status(w)) /\ Sha(w)' = Sha(w)
    BY <2>1, <2>2, <2>3 DEF Status, Sha
  <2> QED
    BY <2>1, <2>4 DEF VersionStep
<1>2. ASSUME NEW item \in erasure.todo
      PROVE  item.v \in Versions /\ item.status \in VersionStatus
  BY <1>0, <1>2 DEF TypeOK, Items
<1>3. ASSUME NEW item \in erasure.todo, EraseKeep(item) PROVE VersionStep(w)
  <2>1. PICK v \in Versions : v = item.v
    BY <1>2
  <2> DEFINE st == IF Status(v) = "DELETE_PENDING" THEN "HELD" ELSE Status(v)
  <2>2. /\ version' = [version EXCEPT ![v].status = st] /\ verdicts' = verdicts
        /\ erasure.pc = "next" /\ item.fate = "keep"
    BY <1>3, <2>1 DEF EraseKeep, Status
  <2>3. Status(w)' = (IF w = v THEN st ELSE Status(w)) /\ Sha(w)' = Sha(w)
    BY <1>0, <2>2, StatusSet
  <2>4. KeptBack(v)
    BY <2>1, <2>2 DEF KeptBack
  <2> QED
    BY <2>2, <2>3, <2>4 DEF VersionStep
<1>4. ASSUME NEW item \in erasure.todo, EraseMark(item) PROVE VersionStep(w)
  <2>1. PICK v \in Versions : v = item.v
    BY <1>2
  <2>2. verdicts' = verdicts /\ item.fate = "erase"
    BY <1>4 DEF EraseMark
  <2>3. CASE version' = version
    BY <2>2, <2>3 DEF VersionStep, Status, Sha
  <2>4. CASE version' # version
    <3> DEFINE st == IF item.status = "DELETE_PENDING" THEN Status(v) ELSE "DELETE_PENDING"
    <3>1. /\ version' = [version EXCEPT ![v].status = st]
          /\ \/ item.status = "DELETE_PENDING"
             \/ Status(v) = "DELETE_PENDING"
             \/ <<Status(v), "DELETE_PENDING">> \in Edges
          /\ item.status # "UPLOADING"
      BY <1>4, <2>1, <2>4 DEF EraseMark, Status
    <3>2. Status(w)' = (IF w = v THEN st ELSE Status(w)) /\ Sha(w)' = Sha(w)
      BY <1>0, <3>1, StatusSet
    <3>3. Status(v) # "UPLOADING"
      BY <1>0, <2>1, <3>1 DEF ListSound
    <3>4. Status(v) = st \/ (st = "DELETE_PENDING" /\ Status(v) \in {"QUARANTINED", "SCAN_FAILED", "CLEAN", "REPLACED"})
      BY <3>1, <3>3 DEF Edges
    <3> QED
      BY <2>2, <3>2, <3>4 DEF VersionStep
  <2> QED
    BY <2>3, <2>4
<1>5. ASSUME NEW item \in erasure.todo, EraseDeleted(item) PROVE VersionStep(w)
  <2>1. PICK v \in Versions : v = item.v
    BY <1>2
  <2>2. verdicts' = verdicts /\ erasure.pc = "mark" /\ FirstItem(item)
    BY <1>5 DEF EraseDeleted
  <2>3. Status(v) = "DELETE_PENDING" /\ NoGrant(v) /\ v \in erasure.scope
    BY <1>0, <2>1, <2>2 DEF DeletingSound, ListSound
  <2>4. CASE version' = version
    BY <2>2, <2>4 DEF VersionStep, Status, Sha
  <2>5. CASE version' # version
    <3>1. /\ version' = [version EXCEPT ![v].status = "DELETED"]
          /\ Left(item) /\ grant' = grant
      BY <1>5, <2>1, <2>5 DEF EraseDeleted, reads
    <3>3. erasure'.pc = "next" /\ erasure'.todo = erasure.todo \ {item}
      BY <1>0, <3>1 DEF Left, TypeOK
    <3>4. WorkedOff(v)
      BY <2>1, <3>3 DEF WorkedOff
    <3>2. Status(w)' = (IF w = v THEN "DELETED" ELSE Status(w)) /\ Sha(w)' = Sha(w)
      BY <1>0, <3>1, StatusSet
    <3> QED
      BY <2>2, <2>3, <3>1, <3>2, <3>3, <3>4 DEF VersionStep
  <2> QED
    BY <2>4, <2>5
<1> QED
  BY <1>1, <1>3, <1>4, <1>5

LEMMA VersionSteps ==
  ASSUME IInv, [Next]_vars, NEW w \in Versions
  PROVE  VersionStep(w)
<1>1. CASE UNCHANGED <<version, verdicts, current>>
  BY <1>1 DEF VersionStep, Status, Sha
<1> QED
  BY <1>1, VersionMovers, UploadVersionSteps, ScanVersionSteps, DeletionVersionSteps

-----------------------------------------------------------------------------
(* What one step does to an intent *)

IntentStep(v) ==
  \/ At(v)' = At(v)
  \/ Status(v)' = "UPLOADING" /\ At(v)' = "CREATED" /\ \A w \in Versions \ {v} : At(w)' \notin Open
  \/ At(v) \in Open /\ At(v)' \in {"EXPIRED", "ABORTED", "FAILED"}
  \/ At(v) = "CREATED" /\ At(v)' = "UPLOADING"
  \/ At(v) = "UPLOADING" /\ At(v)' = "UPLOADED" /\ Sha(v)' # Nothing
  \/ At(v) = "UPLOADED" /\ At(v)' = "FINALIZED"

LEMMA IntentSet ==
  ASSUME TypeOK, NEW v \in Versions, NEW from, NEW to, SetIntent(v, from, to)
  PROVE  \A w \in Versions : At(w)' = (IF w = v /\ At(w) \in from THEN to ELSE At(w))
<1>1. intent \in [Versions -> Intents] /\ \A w \in Versions : intent[w] \in Intents
  BY DEF TypeOK
<1>2. intent' = [intent EXCEPT ![v] = [intent[v] EXCEPT !.status = IF At(v) \in from THEN to ELSE At(v)]]
  BY DEF SetIntent, At
<1>3. [intent[v] EXCEPT !.status = IF At(v) \in from THEN to ELSE At(v)].status = (IF At(v) \in from THEN to ELSE At(v))
  BY <1>1 DEF Intents
<1> QED
  BY <1>1, <1>2, <1>3 DEF At

LEMMA IntentSteps ==
  ASSUME IInv, [Next]_vars, NEW w \in Versions
  PROVE  IntentStep(w)
<1>0. TypeOK /\ intent \in [Versions -> Intents]
  BY DEF IInv, TypeOK
<1>1. CASE intent' = intent
  BY <1>1 DEF IntentStep, At
<1>2. ASSUME NEW v \in Versions, NEW c \in Declared, CreateIntent(v, c) PROVE IntentStep(w)
  <2> DEFINE swept == {x \in late : intent[x].status \in Open}
  <2>1. /\ version' = [version EXCEPT ![v].status = "UPLOADING"]
        /\ \A x \in Versions \ late : intent[x].status \notin Open
        /\ intent' = [x \in Versions |->
                        IF x = v THEN [status |-> "CREATED", expected |-> c]
                        ELSE IF x \in swept THEN [intent[x] EXCEPT !.status = "EXPIRED"]
                        ELSE intent[x]]
    BY <1>2 DEF CreateIntent
  <2>2. \A x \in Versions : intent[x] \in Intents
    BY <1>0
  <2>3. ASSUME NEW x \in Versions
        PROVE  At(x)' = (IF x = v THEN "CREATED" ELSE IF x \in swept THEN "EXPIRED" ELSE At(x))
    <3>1. [intent[x] EXCEPT !.status = "EXPIRED"].status = "EXPIRED"
      BY <2>2 DEF Intents
    <3> QED
      BY <2>1, <3>1 DEF At
  <2>4. \A x \in Versions \ {v} : At(x)' \notin Open /\ (At(x)' = At(x) \/ (At(x) \in Open /\ At(x)' = "EXPIRED"))
    BY <2>1, <2>3 DEF At, Open
  <2>5. Status(v)' = "UPLOADING"
    BY <1>0, <2>1, StatusSet
  <2> QED
    BY <2>3, <2>4, <2>5 DEF IntentStep
<1>3. ASSUME NEW v \in Versions, UploadExpired(v) PROVE IntentStep(w)
  BY <1>0, <1>3, IntentSet DEF UploadExpired, IntentStep
<1>4. ASSUME NEW v \in Versions, Finalize(v) PROVE IntentStep(w)
  BY <1>0, <1>4, IntentSet DEF Finalize, IntentStep, Open
<1>5. ASSUME NEW v \in Versions, ReconcileAbort(v) PROVE IntentStep(w)
  BY <1>0, <1>5, IntentSet DEF ReconcileAbort, IntentStep, Open
<1>6. ASSUME NEW u \in Uploader, NEW v \in Versions, NEW c \in Content, UploadPrepare(u, v, c) PROVE IntentStep(w)
  BY <1>0, <1>6, IntentSet DEF UploadPrepare, IntentStep
<1>7. ASSUME NEW u \in Uploader, UploadFail(u) PROVE IntentStep(w)
  <2>1. PICK v \in Versions : v = up[u].v
    BY <1>0, <1>7, UploadFields DEF UploadFail, TypeOK
  <2>2. SetIntent(v, {"UPLOADING"}, "FAILED")
    BY <1>7, <2>1 DEF UploadFail
  <2> QED
    BY <1>0, <2>2, IntentSet DEF IntentStep, Open
<1>8. ASSUME NEW u \in Uploader, UploadComplete(u) PROVE IntentStep(w)
  <2>1. PICK v \in Versions : v = up[u].v
    BY <1>0, <1>8, UploadFields DEF UploadComplete, TypeOK
  <2>2. CASE intent' = intent
    BY <2>2 DEF IntentStep, At
  <2>3. CASE intent' # intent
    <3>1. SetIntent(v, {"UPLOADING"}, "UPLOADED") /\ At(v) = "UPLOADING"
      BY <1>8, <2>1, <2>3 DEF UploadComplete, At
    <3>2. At(w)' = (IF w = v THEN "UPLOADED" ELSE At(w))
      BY <1>0, <3>1, IntentSet
    <3>3. w = v => Sha(w)' # Nothing
      <4>1. version' = [version EXCEPT ![v].status = "QUARANTINED", ![v].digest = up[u].content]
        BY <1>8, <2>1, <3>1 DEF UploadComplete, At
      <4>2. version[v] \in Rows /\ version \in [Versions -> Rows] /\ up[u].content # Nothing
        BY <1>0, <1>8, UploadFields, ContentAssumption DEF TypeOK, UploadComplete
      <4> QED
        BY <4>1, <4>2, RowUpdates DEF Sha
    <3> QED
      BY <3>1, <3>2, <3>3 DEF IntentStep
  <2> QED
    BY <2>2, <2>3
<1> QED
  BY <1>1, <1>2, <1>3, <1>4, <1>5, <1>6, <1>7, <1>8, IntentMovers

-----------------------------------------------------------------------------
(* What one step does to an object and to a grant *)

ObjectStep(v) ==
  \/ object'[v] = object[v]
  \/ object[v] = Nothing /\ object'[v] \in Content
  \/ object'[v] = Nothing /\ Status(v) = "DELETE_PENDING" /\ v \in erasure.scope

LEMMA ObjectMovers ==
  ASSUME [Next]_vars
  PROVE  \/ object' = object
         \/ \E u \in Uploader : UploadPut(u)
         \/ \E item \in erasure.todo : EraseObject(item)
<1>1. Upload => object' = object \/ \E u \in Uploader : UploadPut(u)
  BY DEF Upload, CreateIntent, UploadExpired, UploadPrepare, UploadFail, UploadComplete, UploadGone, Finalize,
         ReconcileList, ReconcileAbort
<1>2. Scan => object' = object
  BY DEF Scan, ScanClaim, ScanUnauthorized, ScanRead, ScanRecord, ScanGone
<1>3. Read => object' = object
  BY DEF Read, IssueGrant, RevokeGrant, ReadGrant, ReadCheck, ReadOpen, ReadConsume, ReadGone
<1>4. EraseStep => object' = object \/ \E item \in erasure.todo : EraseObject(item)
  BY DEF EraseStep, EraseList, EraseKeep, EraseMark, EraseDeleted, EraseDone, EraseAccount
<1>5. \/ \E v \in Versions : SubmitApplication(v) \/ RequestDeletion(v) \/ IntentLapses(v)
      \/ \E g \in Grant : GrantLapses(g)
      \/ EmployerLosesAccess \/ EraseStart \/ EraseGone
      \/ UNCHANGED vars
      => object' = object
  BY DEF SubmitApplication, RequestDeletion, IntentLapses, GrantLapses, EmployerLosesAccess, EraseStart, EraseGone, vars
<1> QED
  BY <1>1, <1>2, <1>3, <1>4, <1>5 DEF Next

LEMMA ObjectSteps ==
  ASSUME IInv, [Next]_vars, NEW w \in Versions
  PROVE  ObjectStep(w)
<1>0. TypeOK /\ ListSound /\ DeletingSound /\ object \in [Versions -> Digest]
  BY DEF IInv, EraseInv, TypeOK
<1>1. ASSUME NEW u \in Uploader, UploadPut(u) PROVE ObjectStep(w)
  <2>1. up[u].content \in Content /\ up[u].v \in Versions
    BY <1>0, <1>1, UploadFields DEF TypeOK, UploadPut
  <2>2. object' = [object EXCEPT ![up[u].v] = IF object[up[u].v] = Nothing THEN up[u].content ELSE object[up[u].v]]
    BY <1>1 DEF UploadPut
  <2> QED
    BY <1>0, <2>1, <2>2 DEF ObjectStep
<1>2. ASSUME NEW item \in erasure.todo, EraseObject(item) PROVE ObjectStep(w)
  <2>1. object' = object \/ object' = [object EXCEPT ![item.v] = Nothing]
    BY <1>2 DEF EraseObject
  <2>2. Status(item.v) = "DELETE_PENDING" /\ item.v \in erasure.scope
    BY <1>0, <1>2 DEF EraseObject, DeletingSound, ListSound
  <2> QED
    BY <1>0, <2>1, <2>2 DEF ObjectStep
<1> QED
  BY <1>1, <1>2, ObjectMovers DEF ObjectStep

GrantStep(g) ==
  \/ grant'[g] = grant[g] /\ served'[g] = served[g]
  \/ /\ grant[g].status = "NONE" /\ grant'[g].status = "ACTIVE" /\ served'[g] = served[g]
     /\ grant'[g].v \in Versions /\ Status(grant'[g].v) \in Readable /\ UNCHANGED <<version, erasure>>
  \/ /\ grant[g].status = "ACTIVE" /\ grant'[g].status \in {"CONSUMED", "REVOKED", "EXPIRED"}
     /\ grant'[g].v = grant[g].v
     /\ \/ served'[g] = served[g]
        \/ /\ Authorized(grant[g].v, grant[g].by)
           /\ \E c \in Harmless : served'[g] = Append(served[g], c)

LEMMA GrantMovers ==
  ASSUME [Next]_vars
  PROVE  \/ UNCHANGED <<grant, served>>
         \/ \E g \in Grant, v \in Versions, by \in {"owner", "employer"} : IssueGrant(g, v, by)
         \/ \E g \in Grant : RevokeGrant(g)
         \/ \E r \in Reader, g \in Grant : ReadGrant(r, g)
         \/ \E r \in Reader : ReadCheck(r) \/ ReadConsume(r)
         \/ \E item \in erasure.todo : EraseMark(item)
<1>1. Upload => UNCHANGED <<grant, served>>
  BY DEF Upload, CreateIntent, UploadExpired, UploadPrepare, UploadPut, UploadFail, UploadComplete, UploadGone, Finalize,
         ReconcileList, ReconcileAbort, reads
<1>2. Scan => UNCHANGED <<grant, served>>
  BY DEF Scan, ScanClaim, ScanUnauthorized, ScanRead, ScanRecord, ScanGone, reads
<1>3. Read => \/ UNCHANGED <<grant, served>>
              \/ \E g \in Grant, v \in Versions, by \in {"owner", "employer"} : IssueGrant(g, v, by)
              \/ \E g \in Grant : RevokeGrant(g)
              \/ \E r \in Reader, g \in Grant : ReadGrant(r, g)
              \/ \E r \in Reader : ReadCheck(r) \/ ReadConsume(r)
  BY DEF Read, ReadOpen, ReadGone
<1>4. EraseStep => UNCHANGED <<grant, served>> \/ \E item \in erasure.todo : EraseMark(item)
  BY DEF EraseStep, EraseList, EraseKeep, EraseObject, EraseDeleted, EraseDone, EraseAccount, reads
<1>5. \/ \E v \in Versions : SubmitApplication(v) \/ RequestDeletion(v) \/ IntentLapses(v)
      \/ \E g \in Grant : GrantLapses(g)
      \/ EmployerLosesAccess \/ EraseStart \/ EraseGone
      \/ UNCHANGED vars
      => UNCHANGED <<grant, served>>
  BY DEF SubmitApplication, RequestDeletion, IntentLapses, GrantLapses, EmployerLosesAccess, EraseStart, EraseGone,
         vars, reads
<1> QED
  BY <1>1, <1>2, <1>3, <1>4, <1>5 DEF Next

\* SetGrant ends one grant, if it is active.
LEMMA GrantSet ==
  ASSUME TypeOK, NEW g \in Grant, NEW to \in {"CONSUMED", "REVOKED", "EXPIRED"}, SetGrant(g, to), NEW h \in Grant
  PROVE  \/ grant'[h] = grant[h]
         \/ /\ h = g /\ grant[h].status = "ACTIVE" /\ grant'[h].status = to
            /\ grant'[h].v = grant[h].v
<1>1. grant \in [Grant -> Grants] /\ grant[g] \in Grants
  BY DEF TypeOK
<1>2. grant' = [grant EXCEPT ![g] = [grant[g] EXCEPT !.status = IF grant[g].status = "ACTIVE" THEN to ELSE grant[g].status]]
  BY DEF SetGrant
<1>3. CASE grant[g].status = "ACTIVE"
  BY <1>1, <1>2, <1>3 DEF Grants
<1>4. CASE grant[g].status # "ACTIVE"
  <2>1. [grant[g] EXCEPT !.status = grant[g].status] = grant[g]
    BY <1>1 DEF Grants
  <2> QED
    BY <1>1, <1>2, <1>4, <2>1
<1> QED
  BY <1>3, <1>4

LEMMA GrantSteps ==
  ASSUME IInv, [Next]_vars, NEW h \in Grant
  PROVE  GrantStep(h)
<1>0. TypeOK /\ ReadSound /\ grant \in [Grant -> Grants] /\ served \in [Grant -> Seq(Content)]
  BY DEF IInv, ReadInv, TypeOK
<1>1. ASSUME NEW g \in Grant, NEW v \in Versions, NEW by \in {"owner", "employer"}, IssueGrant(g, v, by)
      PROVE  GrantStep(h)
  BY <1>0, <1>1 DEF IssueGrant, GrantStep, Authorized, rows
<1>2. ASSUME NEW g \in Grant, RevokeGrant(g) PROVE GrantStep(h)
  <2>1. SetGrant(g, "REVOKED") /\ served' = served
    BY <1>2 DEF RevokeGrant
  <2> QED
    BY <1>0, <2>1, GrantSet DEF GrantStep
<1>3. ASSUME NEW r \in Reader, NEW g \in Grant, ReadGrant(r, g) PROVE GrantStep(h)
  <2>1. (SetGrant(g, "EXPIRED") \/ grant' = grant) /\ served' = served
    BY <1>3 DEF ReadGrant
  <2> QED
    BY <1>0, <2>1, GrantSet DEF GrantStep
<1>4. ASSUME NEW r \in Reader, rd[r].at # "idle" PROVE rd[r].g \in Grant /\ rd[r] # NoRead
  BY <1>0, <1>4, ReadFields DEF TypeOK
<1>5. ASSUME NEW r \in Reader, ReadCheck(r) PROVE GrantStep(h)
  <2>1. (SetGrant(rd[r].g, "REVOKED") \/ grant' = grant) /\ served' = served /\ rd[r].g \in Grant
    BY <1>4, <1>5 DEF ReadCheck
  <2> QED
    BY <1>0, <2>1, GrantSet DEF GrantStep
<1>6. ASSUME NEW r \in Reader, ReadConsume(r) PROVE GrantStep(h)
  <2>1. PICK g \in Grant : g = rd[r].g /\ rd[r].content \in Harmless
    BY <1>0, <1>4, <1>6 DEF ReadConsume, ReadSound
  <2>2. \/ UNCHANGED <<grant, served>>
        \/ SetGrant(g, "REVOKED") /\ served' = served
        \/ /\ grant[g].status = "ACTIVE" /\ Authorized(grant[g].v, grant[g].by)
           /\ SetGrant(g, "CONSUMED") /\ served' = [served EXCEPT ![g] = Append(@, rd[r].content)]
    BY <1>6, <2>1 DEF ReadConsume
  <2>3. CASE UNCHANGED <<grant, served>>
    BY <2>3 DEF GrantStep
  <2>4. CASE SetGrant(g, "REVOKED") /\ served' = served
    BY <1>0, <2>4, GrantSet DEF GrantStep
  <2>5. CASE /\ grant[g].status = "ACTIVE" /\ Authorized(grant[g].v, grant[g].by)
             /\ SetGrant(g, "CONSUMED") /\ served' = [served EXCEPT ![g] = Append(@, rd[r].content)]
    <3>1. served'[h] = IF h = g THEN Append(served[h], rd[r].content) ELSE served[h]
      BY <1>0, <2>5
    <3>2. h = g => grant'[h].status = "CONSUMED" /\ grant'[h].v = grant[h].v
      BY <1>0, <2>5 DEF SetGrant, Grants
    <3>3. h # g => grant'[h] = grant[h]
      BY <1>0, <2>5, GrantSet
    <3> QED
      BY <2>1, <2>5, <3>1, <3>2, <3>3 DEF GrantStep
  <2> QED
    BY <2>2, <2>3, <2>4, <2>5
<1>7. ASSUME NEW item \in erasure.todo, EraseMark(item) PROVE GrantStep(h)
  <2>1. served' = served
    BY <1>7 DEF EraseMark
  <2>2. CASE grant' = grant
    BY <2>1, <2>2 DEF GrantStep
  <2>3. CASE grant' # grant
    <3>1. grant' = [g \in Grant |->
                     IF grant[g].v = item.v /\ grant[g].status = "ACTIVE"
                       THEN [grant[g] EXCEPT !.status = "REVOKED"] ELSE grant[g]]
      BY <1>7, <2>3 DEF EraseMark
    <3>2. grant[h] \in Grants
      BY <1>0
    <3>3. \/ grant'[h] = grant[h]
          \/ grant[h].status = "ACTIVE" /\ grant'[h] = [grant[h] EXCEPT !.status = "REVOKED"]
      BY <3>1
    <3>4. /\ [grant[h] EXCEPT !.status = "REVOKED"].status = "REVOKED"
          /\ [grant[h] EXCEPT !.status = "REVOKED"].v = grant[h].v
      BY <3>2 DEF Grants
    <3> QED
      BY <2>1, <3>3, <3>4 DEF GrantStep
  <2> QED
    BY <2>2, <2>3
<1> QED
  BY <1>1, <1>2, <1>3, <1>5, <1>6, <1>7, GrantMovers DEF GrantStep

-----------------------------------------------------------------------------
(* What one step does to a request, a scan and a read *)

UploadStep(u) ==
  \/ up'[u] = up[u] \/ up'[u] = Freed
  \/ up'[u].at = "put" /\ up'[u].v \in Versions /\ At(up'[u].v) \in {"CREATED", "UPLOADING"} /\ version' = version
  \/ up[u] # Freed /\ up'[u].v = up[u].v /\ object'[up[u].v] = up'[u].content /\ version' = version

LEMMA UploadMovers ==
  ASSUME [Next]_vars
  PROVE  \/ up' = up
         \/ \E u \in Uploader, v \in Versions, c \in Content : UploadPrepare(u, v, c)
         \/ \E u \in Uploader : UploadPut(u) \/ UploadFail(u) \/ UploadComplete(u) \/ UploadGone(u)
<1>1. Upload => \/ up' = up
                \/ \E u \in Uploader, v \in Versions, c \in Content : UploadPrepare(u, v, c)
                \/ \E u \in Uploader : UploadPut(u) \/ UploadFail(u) \/ UploadComplete(u) \/ UploadGone(u)
  BY DEF Upload, CreateIntent, UploadExpired, Finalize, ReconcileList, ReconcileAbort
<1>2. Scan => up' = up
  BY DEF Scan, ScanClaim, ScanUnauthorized, ScanRead, ScanRecord, ScanGone
<1>3. Read => up' = up
  BY DEF Read, IssueGrant, RevokeGrant, ReadGrant, ReadCheck, ReadOpen, ReadConsume, ReadGone
<1>4. EraseStep => up' = up
  BY DEF EraseStep, EraseList, EraseKeep, EraseMark, EraseObject, EraseDeleted, EraseDone, EraseAccount
<1>5. \/ \E v \in Versions : SubmitApplication(v) \/ RequestDeletion(v) \/ IntentLapses(v)
      \/ \E g \in Grant : GrantLapses(g)
      \/ EmployerLosesAccess \/ EraseStart \/ EraseGone
      \/ UNCHANGED vars
      => up' = up
  BY DEF SubmitApplication, RequestDeletion, IntentLapses, GrantLapses, EmployerLosesAccess, EraseStart, EraseGone, vars
<1> QED
  BY <1>1, <1>2, <1>3, <1>4, <1>5 DEF Next

LEMMA UploadSteps ==
  ASSUME IInv, [Next]_vars, NEW w \in Uploader
  PROVE  UploadStep(w)
<1>0. TypeOK /\ up \in [Uploader -> Uploads] /\ object \in [Versions -> Digest]
  BY DEF IInv, TypeOK
<1>1. ASSUME NEW u \in Uploader, NEW v \in Versions, NEW c \in Content, UploadPrepare(u, v, c) PROVE UploadStep(w)
  BY <1>0, <1>1 DEF UploadPrepare, UploadStep, At
<1>2. ASSUME NEW u \in Uploader, UploadPut(u) PROVE UploadStep(w)
  <2>1. PICK v \in Versions : v = up[u].v
    BY <1>0, <1>2, UploadFields DEF UploadPut
  <2>2. up[u] # Freed /\ version' = version
    BY <1>2 DEF UploadPut, Freed, rows
  <2>3. PICK stored : /\ object' = [object EXCEPT ![v] = stored]
                      /\ \E answer \in {"complete", "fail"} :
                           up' = [up EXCEPT ![u] = [at |-> answer, v |-> v, content |-> stored]]
    BY <1>2, <2>1 DEF UploadPut
  <2> QED
    BY <1>0, <2>1, <2>2, <2>3 DEF UploadStep
<1>3. ASSUME NEW u \in Uploader, UploadFail(u) \/ UploadComplete(u) \/ UploadGone(u) PROVE UploadStep(w)
  BY <1>0, <1>3 DEF UploadFail, UploadComplete, UploadGone, UploadStep
<1> QED
  BY <1>1, <1>2, <1>3, UploadMovers DEF UploadStep

ScanStep(s) ==
  \/ sc'[s] = sc[s] \/ sc'[s] = NoScan
  \/ /\ sc'[s].at = "scan" /\ \A t \in Scanner \ {s} : sc'[t] = sc[t]
     /\ \E v \in Versions : v = sc'[s].v /\ Status(v) \in {"QUARANTINED", "SCAN_FAILED"} /\ Status(v)' = "SCANNING"
  \/ /\ sc[s] # NoScan /\ sc'[s].v = sc[s].v /\ version' = version
     /\ sc'[s].outcome = "CLEAN" => object[sc[s].v] \in Harmless

LEMMA ScanMovers ==
  ASSUME [Next]_vars
  PROVE  \/ sc' = sc
         \/ \E s \in Scanner, v \in Versions : ScanClaim(s, v)
         \/ \E s \in Scanner : ScanUnauthorized(s) \/ ScanRead(s) \/ ScanRecord(s) \/ ScanGone(s)
<1>1. Upload => sc' = sc
  BY DEF Upload, CreateIntent, UploadExpired, UploadPrepare, UploadPut, UploadFail, UploadComplete, UploadGone, Finalize,
         ReconcileList, ReconcileAbort
<1>2. Scan => \/ \E s \in Scanner, v \in Versions : ScanClaim(s, v)
              \/ \E s \in Scanner : ScanUnauthorized(s) \/ ScanRead(s) \/ ScanRecord(s) \/ ScanGone(s)
  BY DEF Scan
<1>3. Read => sc' = sc
  BY DEF Read, IssueGrant, RevokeGrant, ReadGrant, ReadCheck, ReadOpen, ReadConsume, ReadGone
<1>4. EraseStep => sc' = sc
  BY DEF EraseStep, EraseList, EraseKeep, EraseMark, EraseObject, EraseDeleted, EraseDone, EraseAccount
<1>5. \/ \E v \in Versions : SubmitApplication(v) \/ RequestDeletion(v) \/ IntentLapses(v)
      \/ \E g \in Grant : GrantLapses(g)
      \/ EmployerLosesAccess \/ EraseStart \/ EraseGone
      \/ UNCHANGED vars
      => sc' = sc
  BY DEF SubmitApplication, RequestDeletion, IntentLapses, GrantLapses, EmployerLosesAccess, EraseStart, EraseGone, vars
<1> QED
  BY <1>1, <1>2, <1>3, <1>4, <1>5 DEF Next

LEMMA ScanSteps ==
  ASSUME IInv, [Next]_vars, NEW w \in Scanner
  PROVE  ScanStep(w)
<1>0. TypeOK /\ sc \in [Scanner -> Scans]
  BY DEF IInv, TypeOK
<1>1. ASSUME NEW s \in Scanner, NEW v \in Versions, ScanClaim(s, v) PROVE ScanStep(w)
  <2>1. version' = [version EXCEPT ![v].status = "SCANNING"] /\ Status(v) \in {"QUARANTINED", "SCAN_FAILED"}
    BY <1>1 DEF ScanClaim
  <2>2. Status(v)' = "SCANNING"
    BY <1>0, <2>1, StatusSet
  <2>3. sc'[s] = [NoScan EXCEPT !.at = "scan", !.v = v] /\ \A t \in Scanner \ {s} : sc'[t] = sc[t]
    BY <1>0, <1>1 DEF ScanClaim
  <2>4. sc'[s].at = "scan" /\ sc'[s].v = v
    BY <2>3 DEF NoScan
  <2>5. ScanStep(s)
    BY <2>1, <2>2, <2>3, <2>4 DEF ScanStep
  <2>6. w # s => ScanStep(w)
    BY <2>3 DEF ScanStep
  <2> QED
    BY <2>5, <2>6
<1>2. ASSUME NEW s \in Scanner, ScanRead(s) PROVE ScanStep(w)
  <2>1. PICK v \in Versions, p \in Outcome : sc[s] = [at |-> "scan", v |-> v, outcome |-> p] /\ sc[s] # NoScan
    <3>1. sc[s] \in Scans /\ sc[s].at = "scan"
      BY <1>0, <1>2 DEF ScanRead
    <3> QED
      BY <3>1, ScanFields
  <2>2. PICK o \in ScanOutcomes(object[v]) : sc' = [sc EXCEPT ![s].at = "record", ![s].outcome = o]
    <3>1. sc[s].v = v
      BY <2>1
    <3> QED
      BY <1>2, <3>1, Zenon DEF ScanRead
  <2>3. sc'[s].v = v /\ sc'[s].outcome = o
    <3>1. sc'[s] = [sc[s] EXCEPT !.at = "record", !.outcome = o]
      BY <1>0, <2>2
    <3> QED
      BY <2>1, <3>1
  <2>4. o = "CLEAN" => object[v] \in Harmless
    BY <2>2 DEF ScanOutcomes
  <2>5. version' = version
    BY <1>2 DEF ScanRead, rows
  <2>6. w # s => sc'[w] = sc[w]
    BY <1>0, <2>2
  <2> QED
    BY <2>1, <2>3, <2>4, <2>5, <2>6 DEF ScanStep
<1>3. ASSUME NEW s \in Scanner, ScanUnauthorized(s) \/ ScanRecord(s) \/ ScanGone(s) PROVE ScanStep(w)
  BY <1>0, <1>3 DEF ScanUnauthorized, ScanRecord, ScanGone, ScanStep
<1> QED
  BY <1>1, <1>2, <1>3, ScanMovers DEF ScanStep

ReadStep(r) ==
  \/ rd'[r] = rd[r] \/ rd'[r] = NoRead
  \/ rd'[r].at = "check" /\ rd'[r].g \in Grant /\ grant[rd'[r].g].status # "NONE"
  \/ rd[r] # NoRead /\ rd'[r].g = rd[r].g /\ (rd'[r].at = "open" \/ rd'[r].content \in Harmless)

LEMMA ReadMovers ==
  ASSUME [Next]_vars
  PROVE  \/ rd' = rd
         \/ \E r \in Reader, g \in Grant : ReadGrant(r, g)
         \/ \E r \in Reader : ReadCheck(r) \/ ReadOpen(r) \/ ReadConsume(r) \/ ReadGone(r)
<1>1. Upload => rd' = rd
  BY DEF Upload, CreateIntent, UploadExpired, UploadPrepare, UploadPut, UploadFail, UploadComplete, UploadGone, Finalize,
         ReconcileList, ReconcileAbort, reads
<1>2. Scan => rd' = rd
  BY DEF Scan, ScanClaim, ScanUnauthorized, ScanRead, ScanRecord, ScanGone, reads
<1>3. Read => \/ rd' = rd
              \/ \E r \in Reader, g \in Grant : ReadGrant(r, g)
              \/ \E r \in Reader : ReadCheck(r) \/ ReadOpen(r) \/ ReadConsume(r) \/ ReadGone(r)
  BY DEF Read, IssueGrant, RevokeGrant
<1>4. EraseStep => rd' = rd
  BY DEF EraseStep, EraseList, EraseKeep, EraseMark, EraseObject, EraseDeleted, EraseDone, EraseAccount, reads
<1>5. \/ \E v \in Versions : SubmitApplication(v) \/ RequestDeletion(v) \/ IntentLapses(v)
      \/ \E g \in Grant : GrantLapses(g)
      \/ EmployerLosesAccess \/ EraseStart \/ EraseGone
      \/ UNCHANGED vars
      => rd' = rd
  BY DEF SubmitApplication, RequestDeletion, IntentLapses, GrantLapses, EmployerLosesAccess, EraseStart, EraseGone,
         vars, reads
<1> QED
  BY <1>1, <1>2, <1>3, <1>4, <1>5 DEF Next

LEMMA ReadSteps ==
  ASSUME IInv, [Next]_vars, NEW w \in Reader
  PROVE  ReadStep(w)
<1>0. /\ TypeOK /\ ReadSound /\ GrantSound
      /\ rd \in [Reader -> Reads] /\ grant \in [Grant -> Grants]
  BY DEF IInv, ReadInv, TypeOK
<1>1. ASSUME NEW r \in Reader, NEW g \in Grant, ReadGrant(r, g) PROVE ReadStep(w)
  BY <1>0, <1>1 DEF ReadGrant, ReadStep
<1>2. ASSUME NEW r \in Reader, ReadCheck(r) PROVE ReadStep(w)
  <2>1. rd[r] \in Reads /\ rd[r] # NoRead
    BY <1>0, <1>2, ReadFields DEF ReadCheck
  <2>2. rd' = [rd EXCEPT ![r].at = "open"] \/ rd' = [rd EXCEPT ![r] = NoRead]
    BY <1>2 DEF ReadCheck
  <2>3. [rd[r] EXCEPT !.at = "open"].at = "open" /\ [rd[r] EXCEPT !.at = "open"].g = rd[r].g
    BY <2>1 DEF Reads, NoRead
  <2> QED
    BY <1>0, <2>1, <2>2, <2>3 DEF ReadStep
<1>3. ASSUME NEW r \in Reader, ReadOpen(r) PROVE ReadStep(w)
  <2>1. rd[r] \in Reads /\ rd[r] # NoRead /\ rd[r].g \in Grant
    BY <1>0, <1>3, ReadFields DEF ReadOpen
  <2>2. PICK v \in Versions : v = grant[rd[r].g].v
    BY <1>0, <2>1 DEF Grants
  <2>3. Sha(v) \in Harmless
    BY <1>0, <2>1, <2>2 DEF ReadSound, GrantSound
  <2>4. \/ object[v] = Sha(v) /\ rd' = [rd EXCEPT ![r] = [rd[r] EXCEPT !.at = "consume", !.content = object[v]]]
        \/ rd' = [rd EXCEPT ![r] = NoRead]
    BY <1>0, <1>3, <2>2 DEF ReadOpen, Sha
  <2>5. /\ [rd[r] EXCEPT !.at = "consume", !.content = object[v]].content = object[v]
        /\ [rd[r] EXCEPT !.at = "consume", !.content = object[v]].g = rd[r].g
    BY <2>1 DEF Reads, NoRead
  <2> QED
    BY <1>0, <2>1, <2>3, <2>4, <2>5 DEF ReadStep
<1>4. ASSUME NEW r \in Reader, ReadConsume(r) \/ ReadGone(r) PROVE ReadStep(w)
  BY <1>0, <1>4 DEF ReadConsume, ReadGone, ReadStep
<1> QED
  BY <1>1, <1>2, <1>3, <1>4, ReadMovers DEF ReadStep

-----------------------------------------------------------------------------
(* What one step does to the erasure's list and to the links *)

ListStep ==
  \/ erasure' = erasure
  \/ /\ erasure'.pc \notin {"delete", "mark"}
     /\ erasure'.todo \subseteq erasure.todo /\ erasure'.scope = erasure.scope
  \/ EraseList
  \/ /\ erasure'.todo = erasure.todo /\ erasure'.scope = erasure.scope
     /\ erasure.pc = "delete" \/ \E item \in erasure.todo : EraseMark(item) /\ erasure'.pc = "delete"

LEMMA ListMovers ==
  ASSUME [Next]_vars
  PROVE  \/ erasure' = erasure
         \/ EraseStart \/ EraseStep \/ EraseGone
<1>1. Upload => erasure' = erasure
  BY DEF Upload, CreateIntent, UploadExpired, UploadPrepare, UploadPut, UploadFail, UploadComplete, UploadGone, Finalize,
         ReconcileList, ReconcileAbort
<1>2. Scan => erasure' = erasure
  BY DEF Scan, ScanClaim, ScanUnauthorized, ScanRead, ScanRecord, ScanGone
<1>3. Read => erasure' = erasure
  BY DEF Read, IssueGrant, RevokeGrant, ReadGrant, ReadCheck, ReadOpen, ReadConsume, ReadGone
<1>4. \/ \E v \in Versions : SubmitApplication(v) \/ RequestDeletion(v) \/ IntentLapses(v)
      \/ \E g \in Grant : GrantLapses(g)
      \/ EmployerLosesAccess
      \/ UNCHANGED vars
      => erasure' = erasure
  BY DEF SubmitApplication, RequestDeletion, IntentLapses, GrantLapses, EmployerLosesAccess, vars
<1> QED
  BY <1>1, <1>2, <1>3, <1>4 DEF Next

LEMMA ListSteps ==
  ASSUME TypeOK, [Next]_vars
  PROVE  ListStep
<1>0. erasure \in [pc : {"off", "list", "next", "delete", "mark", "account", "done"},
                   todo : SUBSET Items, scope : SUBSET Versions]
  BY DEF TypeOK
<1>1. CASE EraseStart \/ EraseDone \/ EraseAccount
  BY <1>0, <1>1 DEF EraseStart, EraseDone, EraseAccount, ListStep
<1>2. ASSUME Retried PROVE ListStep
  BY <1>0, <1>2 DEF Retried, ListStep
<1>3. ASSUME NEW item, Left(item) PROVE ListStep
  BY <1>0, <1>3 DEF Left, ListStep
<1>4. ASSUME NEW item \in erasure.todo, EraseKeep(item) \/ EraseDeleted(item) PROVE ListStep
  BY <1>2, <1>3, <1>4 DEF EraseKeep, EraseDeleted
<1>5. ASSUME NEW item \in erasure.todo, EraseMark(item) PROVE ListStep
  <2>1. CASE Retried
    BY <1>2, <2>1
  <2>2. CASE ~Retried
    <3>1. erasure' = [erasure EXCEPT !.pc = "delete"]
      BY <1>5, <2>2 DEF EraseMark
    <3> QED
      BY <1>0, <1>5, <3>1 DEF ListStep
  <2> QED
    BY <2>1, <2>2
<1>6. ASSUME NEW item \in erasure.todo, EraseObject(item) PROVE ListStep
  <2>1. CASE Retried
    BY <1>2, <2>1
  <2>2. CASE ~Retried
    <3>1. erasure' = [erasure EXCEPT !.pc = "mark"] /\ erasure.pc = "delete"
      BY <1>6, <2>2 DEF EraseObject
    <3> QED
      BY <1>0, <3>1 DEF ListStep
  <2> QED
    BY <2>1, <2>2
<1> QED
  BY <1>1, <1>2, <1>4, <1>5, <1>6, ListMovers DEF EraseStep, EraseGone, ListStep

LEMMA LinkMovers ==
  ASSUME [Next]_vars
  PROVE  linked' = linked \/ \E v \in Versions : SubmitApplication(v)
<1>1. Upload => linked' = linked
  BY DEF Upload, CreateIntent, UploadExpired, UploadPrepare, UploadPut, UploadFail, UploadComplete, UploadGone, Finalize,
         ReconcileList, ReconcileAbort, rows
<1>2. Scan => linked' = linked
  BY DEF Scan, ScanClaim, ScanUnauthorized, ScanRead, ScanRecord, ScanGone, rows
<1>3. Read => linked' = linked
  BY DEF Read, IssueGrant, RevokeGrant, ReadGrant, ReadCheck, ReadOpen, ReadConsume, ReadGone, rows
<1>4. EraseStep => linked' = linked
  BY DEF EraseStep, EraseList, EraseKeep, EraseMark, EraseObject, EraseDeleted, EraseDone, EraseAccount, rows
<1>5. \/ \E v \in Versions : RequestDeletion(v) \/ IntentLapses(v)
      \/ \E g \in Grant : GrantLapses(g)
      \/ EmployerLosesAccess \/ EraseStart \/ EraseGone
      \/ UNCHANGED vars
      => linked' = linked
  BY DEF RequestDeletion, IntentLapses, GrantLapses, EmployerLosesAccess, EraseStart, EraseGone, vars, rows
<1> QED
  BY <1>1, <1>2, <1>3, <1>4, <1>5 DEF Next

-----------------------------------------------------------------------------
(* The invariant *)

LEMMA InitInv == Init => IInv
<1> SUFFICES ASSUME Init PROVE IInv
  OBVIOUS
<1>1. TypeOK
  BY InitTypes
<1>2. /\ \A v \in Versions : Status(v) = "NONE" /\ At(v) = "NONE" /\ verdicts[v] = <<>>
      /\ \A g \in Grant : grant[g].status = "NONE" /\ served[g] = <<>>
      /\ \A u \in Uploader : up[u] = Freed
      /\ \A s \in Scanner : sc[s] = NoScan
      /\ \A r \in Reader : rd[r] = NoRead
      /\ erasure.todo = {} /\ erasure.pc = "off" /\ linked = {}
  BY DEF Init, Status, At
<1>3. UploadInv
  BY <1>2 DEF UploadInv, OneOpenIntent, IntentFollowsVersion, UploadSound, DigestIsObject, At, Open
<1>4. ScanInv
  BY <1>2 DEF ScanInv, ScanSound, VerdictSound, ReadableIsHarmless, Readable
<1>5. ReadInv
  BY <1>2 DEF ReadInv, GrantSound, ReadSound, UnservedBefore, GrantServesOnce
<1>6. EraseInv
  BY <1>2 DEF EraseInv, ListSound, DeletingSound, LinkSound, EvidenceKept
<1> QED
  BY <1>1, <1>3, <1>4, <1>5, <1>6 DEF IInv

LEMMA UploadInvKept ==
  ASSUME IInv, [Next]_vars
  PROVE  UploadInv'
<1>0. TypeOK /\ OneOpenIntent /\ IntentFollowsVersion /\ UploadSound /\ DigestIsObject
  BY DEF IInv, UploadInv
<1>1. ASSUME NEW v \in Versions PROVE VersionStep(v) /\ IntentStep(v) /\ ObjectStep(v)
  BY VersionSteps, IntentSteps, ObjectSteps
<1>2. OneOpenIntent'
  <2> SUFFICES ASSUME NEW v \in Versions, NEW w \in Versions, At(v)' \in Open, At(w)' \in Open
               PROVE  v = w
    BY DEF OneOpenIntent, At, Open
  <2>1. At(v) \in Open \/ v = w
    BY <1>1 DEF IntentStep, Open
  <2>2. At(w) \in Open \/ v = w
    BY <1>1 DEF IntentStep, Open
  <2> QED
    BY <1>0, <2>1, <2>2 DEF OneOpenIntent, At
<1>3. IntentFollowsVersion'
  <2> SUFFICES ASSUME NEW v \in Versions
               PROVE  /\ At(v)' \in {"CREATED", "UPLOADING"} => Status(v)' = "UPLOADING"
                      /\ At(v)' \in {"UPLOADED", "FINALIZED"} => Sha(v)' # Nothing
    BY DEF IntentFollowsVersion, At, Status, Sha
  <2>1. /\ At(v) \in {"CREATED", "UPLOADING"} => Status(v) = "UPLOADING"
        /\ At(v) \in {"UPLOADED", "FINALIZED"} => Sha(v) # Nothing
    BY <1>0 DEF IntentFollowsVersion, At, Sha
  <2>2. At(v)' \in {"CREATED", "UPLOADING"} => Status(v)' = "UPLOADING"
    BY <1>1, <2>1 DEF VersionStep, IntentStep
  <2>3. Sha(v) # Nothing => Sha(v)' # Nothing
    BY <1>1, ContentAssumption DEF VersionStep
  <2>4. At(v)' \in {"UPLOADED", "FINALIZED"} => Sha(v)' # Nothing
    BY <1>1, <2>1, <2>3 DEF IntentStep
  <2> QED
    BY <2>2, <2>4
<1>4. UploadSound'
  <2> SUFFICES ASSUME NEW u \in Uploader, up'[u] # Freed, NEW v \in Versions, v = up'[u].v
               PROVE  /\ Status(v)' # "NONE"
                      /\ up'[u].at = "complete" /\ Status(v)' = "UPLOADING" => object'[v] = up'[u].content
    <3>1. TypeOK'
      BY <1>0, TypesKept
    <3>2. \A u \in Uploader : up'[u] # Freed => up'[u].v \in Versions
      BY <3>1 DEF TypeOK, Uploads
    <3> QED
      BY <3>2 DEF UploadSound, Status, Freed
  <2>1. CASE up'[u] = up[u]
    <3>1. Status(v) # "NONE"
      BY <1>0, <2>1 DEF UploadSound
    <3>2. up[u].at = "complete" /\ Status(v) = "UPLOADING" => object[v] = up[u].content
      BY <1>0, <2>1 DEF UploadSound
    <3>3. up[u].at = "complete" => up[u].content # Nothing
      BY <1>0, UploadFields, ContentAssumption DEF TypeOK
    <3>4. Status(v)' # "NONE" /\ (Status(v)' = "UPLOADING" => Status(v) = "UPLOADING")
      BY <1>1, <3>1 DEF VersionStep
    <3>5. Status(v) = "UPLOADING" /\ object[v] # Nothing => object'[v] = object[v]
      BY <1>1 DEF ObjectStep
    <3> QED
      BY <2>1, <3>2, <3>3, <3>4, <3>5
  <2>2. CASE up'[u].at = "put" /\ At(v) \in {"CREATED", "UPLOADING"} /\ version' = version
    BY <1>0, <2>2 DEF IntentFollowsVersion, At, Status
  <2>3. CASE up[u] # Freed /\ up[u].v = v /\ object'[v] = up'[u].content /\ version' = version
    BY <1>0, <2>3 DEF UploadSound, Status
  <2> QED
    BY <2>1, <2>2, <2>3, UploadSteps DEF UploadStep
<1>5. DigestIsObject'
  <2> SUFFICES ASSUME NEW v \in Versions,
                      Status(v)' \notin {"NONE", "UPLOADING", "DELETE_PENDING", "HELD", "DELETED"}
               PROVE  object'[v] = Sha(v)' /\ object'[v] # Nothing
    BY DEF DigestIsObject, Status, Sha
  <2>1. CASE Status(v) = "UPLOADING"
    BY <1>1, <2>1, ContentAssumption DEF VersionStep
  <2>2. CASE Status(v) # "UPLOADING"
    <3>1. Status(v) \notin {"NONE", "UPLOADING", "DELETE_PENDING", "HELD", "DELETED"} /\ Sha(v)' = Sha(v)
      BY <1>1, <2>2 DEF VersionStep
    <3>2. object[v] = Sha(v) /\ object[v] # Nothing
      BY <1>0, <3>1 DEF DigestIsObject, Sha
    <3>3. object'[v] = object[v]
      BY <1>1, <3>1, <3>2 DEF ObjectStep
    <3> QED
      BY <3>1, <3>2, <3>3
  <2> QED
    BY <2>1, <2>2
<1> QED
  BY <1>2, <1>3, <1>4, <1>5 DEF UploadInv

LEMMA ScanInvKept ==
  ASSUME IInv, [Next]_vars
  PROVE  ScanInv'
<1>0. /\ TypeOK /\ DigestIsObject /\ ScanSound /\ VerdictSound /\ ReadableIsHarmless
      /\ verdicts \in [Versions -> Seq(Outcome)]
  BY DEF IInv, UploadInv, ScanInv, TypeOK
<1>1. ASSUME NEW v \in Versions PROVE VersionStep(v)
  BY VersionSteps
<1>2. VerdictSound'
  <2> SUFFICES ASSUME NEW v \in Versions,
                      Status(v)' \in {"NONE", "UPLOADING", "QUARANTINED", "SCANNING", "SCAN_FAILED"}
               PROVE  verdicts'[v] = <<>>
    BY DEF VerdictSound, Status
  <2>1. Status(v) \in {"NONE", "UPLOADING", "QUARANTINED", "SCANNING", "SCAN_FAILED"} /\ verdicts'[v] = verdicts[v]
    BY <1>1 DEF VersionStep
  <2> QED
    BY <1>0, <2>1 DEF VerdictSound
<1>3. ReadableIsHarmless'
  <2> SUFFICES ASSUME NEW v \in Versions
               PROVE  /\ Len(verdicts'[v]) <= 1
                      /\ Status(v)' \in Readable => verdicts'[v] = <<"CLEAN">> /\ Sha(v)' \in Harmless
    BY DEF ReadableIsHarmless, Status, Sha, Readable
  <2>1. /\ Len(verdicts[v]) <= 1
        /\ Status(v) \in Readable => verdicts[v] = <<"CLEAN">> /\ Sha(v) \in Harmless
    BY <1>0 DEF ReadableIsHarmless, Sha
  <2>2. CASE verdicts'[v] = verdicts[v]
    <3>1. Status(v)' \in Readable => Status(v) \in Readable /\ Sha(v)' = Sha(v)
      <4>1. Status(v) = "SCANNING" => verdicts[v] = <<>>
        BY <1>0 DEF VerdictSound
      <4>2. <<>> # Append(<<>>, Status(v)')
        OBVIOUS
      <4>3. ~(Status(v) = "SCANNING" /\ verdicts'[v] = Append(verdicts[v], Status(v)'))
        BY <2>2, <4>1, <4>2, Zenon
      <4> QED
        BY <1>1, <4>3 DEF VersionStep, Readable
    <3> QED
      BY <2>1, <2>2, <3>1
  <2>3. CASE verdicts'[v] # verdicts[v]
    <3>1. /\ Status(v) = "SCANNING" /\ verdicts'[v] = Append(verdicts[v], Status(v)')
          /\ Sha(v)' = Sha(v) /\ Status(v)' \in {"CLEAN", "REJECTED", "INFECTED"}
          /\ Status(v)' = "CLEAN" => Sha(v) \in Harmless
      BY <1>1, <2>3 DEF VersionStep
    <3>2. verdicts[v] = <<>>
      BY <1>0, <3>1 DEF VerdictSound
    <3>3. verdicts'[v] = <<Status(v)'>>
      BY <3>1, <3>2
    <3> QED
      BY <3>1, <3>3 DEF Readable
  <2> QED
    BY <2>2, <2>3
<1>4. ScanSound'
  <2>0. \A s \in Scanner : sc'[s] # NoScan => sc'[s].v \in Versions
    BY <1>0, TypesKept DEF TypeOK, Scans
  <2> SUFFICES ASSUME NEW s \in Scanner, sc'[s] # NoScan, NEW v \in Versions, v = sc'[s].v
               PROVE  /\ Status(v)' = "SCANNING"
                      /\ sc'[s].at = "record" /\ sc'[s].outcome = "CLEAN" => Sha(v)' \in Harmless
                      /\ \A t \in Scanner : sc'[t] # NoScan /\ sc'[t].v = v => t = s
    BY <2>0 DEF ScanSound, Status, Sha, NoScan
  <2>1. ASSUME NEW t \in Scanner, sc[t] # NoScan
        PROVE  /\ sc[t].v \in Versions => Status(sc[t].v) = "SCANNING"
               /\ \A r \in Scanner : sc[r] # NoScan /\ sc[r].v = sc[t].v => r = t
    BY <1>0, <2>1 DEF ScanSound
  <2>2. ASSUME NEW t \in Scanner, NEW w \in Versions, sc'[t] # NoScan, sc[t] # NoScan, sc[t].v = w
        PROVE  Status(w)' = "SCANNING" /\ Sha(w)' = Sha(w)
    <3>1. Status(w) = "SCANNING"
      BY <2>1, <2>2
    <3>2. ~ScanEnds(w)
      BY <2>1, <2>2 DEF ScanEnds
    <3> QED
      BY <1>1, <3>1, <3>2 DEF VersionStep
  <2>3. ASSUME NEW a \in Scanner, NEW b \in Scanner, a # b, sc'[a] # NoScan, sc'[b] # NoScan, sc'[a].v = sc'[b].v,
               sc'[a] # sc[a], sc[a] = NoScan \/ sc'[a].v # sc[a].v
        PROVE  FALSE
    <3>1. /\ sc'[b] = sc[b]
          /\ \E w \in Versions : w = sc'[a].v /\ Status(w) \in {"QUARANTINED", "SCAN_FAILED"}
      BY <2>3, ScanSteps DEF ScanStep
    <3> QED
      BY <2>1, <2>3, <3>1
  <2>4. ASSUME NEW t \in Scanner, sc'[t] # NoScan, sc'[t].v = v, t # s PROVE FALSE
    <3>1. sc[t] # NoScan /\ sc[t].v = v
      BY <2>3, <2>4
    <3>2. sc[s] # NoScan /\ sc[s].v = v
      BY <2>3, <2>4
    <3> QED
      BY <2>1, <2>4, <3>1, <3>2
  <2>5. CASE sc'[s] = sc[s]
    <3>1. Status(v)' = "SCANNING" /\ Sha(v)' = Sha(v)
      BY <2>2, <2>5
    <3>2. sc[s].at = "record" /\ sc[s].outcome = "CLEAN" => Sha(v) \in Harmless
      BY <1>0, <2>5 DEF ScanSound
    <3> QED
      BY <2>4, <2>5, <3>1, <3>2
  <2>6. CASE sc'[s].at = "scan" /\ \E w \in Versions : w = sc'[s].v /\ Status(w)' = "SCANNING"
    <3>1. PICK w \in Versions : w = sc'[s].v /\ Status(w)' = "SCANNING"
      BY <2>6
    <3>2. Status(v)' = "SCANNING"
      BY <3>1 DEF Status
    <3> QED
      BY <2>4, <2>6, <3>2
  <2>7. CASE sc[s] # NoScan /\ sc'[s].v = sc[s].v /\ (sc'[s].outcome = "CLEAN" => object[sc[s].v] \in Harmless)
    <3>1. Status(v)' = "SCANNING" /\ Sha(v)' = Sha(v) /\ Status(v) = "SCANNING"
      BY <2>1, <2>2, <2>7
    <3>2. object[v] = Sha(v)
      BY <1>0, <3>1 DEF DigestIsObject, Sha
    <3> QED
      BY <2>4, <2>7, <3>1, <3>2
  <2> QED
    BY <2>5, <2>6, <2>7, ScanSteps DEF ScanStep
<1> QED
  BY <1>2, <1>3, <1>4 DEF ScanInv

LEMMA ReadInvKept ==
  ASSUME IInv, [Next]_vars
  PROVE  ReadInv'
<1>0. /\ TypeOK /\ GrantSound /\ ReadSound /\ UnservedBefore /\ GrantServesOnce /\ ReadableIsHarmless
      /\ served \in [Grant -> Seq(Content)] /\ grant \in [Grant -> Grants]
  BY DEF IInv, ScanInv, ReadInv, TypeOK
<1>1. ASSUME NEW v \in Versions PROVE VersionStep(v)
  BY VersionSteps
<1>2. ASSUME NEW g \in Grant PROVE GrantStep(g)
  BY GrantSteps
<1>3. GrantSound'
  <2>0. \A g \in Grant : grant'[g].v \in Versions
    BY <1>0, TypesKept DEF TypeOK, Grants
  <2> SUFFICES ASSUME NEW g \in Grant, grant'[g].status # "NONE", NEW v \in Versions, v = grant'[g].v
               PROVE  Status(v)' \notin {"NONE", "UPLOADING"} /\ Sha(v)' \in Harmless
    BY <2>0 DEF GrantSound, Status, Sha
  <2>1. CASE grant[g].status # "NONE" /\ grant[g].v = v
    <3>1. Status(v) \notin {"NONE", "UPLOADING"} /\ Sha(v) \in Harmless
      BY <1>0, <2>1 DEF GrantSound
    <3> QED
      BY <1>1, <3>1 DEF VersionStep
  <2>2. CASE Status(v) \in Readable /\ version' = version
    BY <1>0, <2>2 DEF ReadableIsHarmless, Readable, Status, Sha
  <2> QED
    BY <1>2, <2>1, <2>2 DEF GrantStep
<1>4. ReadSound'
  <2>1. ASSUME NEW g \in Grant, grant[g].status # "NONE" PROVE grant'[g].status # "NONE"
    BY <1>2, <2>1 DEF GrantStep
  <2> SUFFICES ASSUME NEW r \in Reader, rd'[r] # NoRead
               PROVE  /\ grant'[rd'[r].g].status # "NONE"
                      /\ rd'[r].at = "consume" => rd'[r].content \in Harmless
    BY DEF ReadSound, NoRead
  <2>2. rd[r] # NoRead => /\ rd[r].g \in Grant /\ grant[rd[r].g].status # "NONE"
                          /\ rd[r].at = "consume" => rd[r].content \in Harmless
    BY <1>0 DEF ReadSound, TypeOK, Reads
  <2> QED
    BY <2>1, <2>2, ReadSteps DEF ReadStep
<1>5. ASSUME NEW g \in Grant
      PROVE  /\ grant'[g].status \in {"NONE", "ACTIVE"} => served'[g] = <<>>
             /\ Len(served'[g]) <= 1 /\ \A i \in 1..Len(served'[g]) : served'[g][i] \in Harmless
  <2>1. /\ grant[g].status \in {"NONE", "ACTIVE"} => served[g] = <<>>
        /\ Len(served[g]) <= 1 /\ \A i \in 1..Len(served[g]) : served[g][i] \in Harmless
    BY <1>0 DEF UnservedBefore, GrantServesOnce
  <2>2. CASE served'[g] = served[g]
    BY <1>2, <2>1, <2>2 DEF GrantStep
  <2>3. CASE served'[g] # served[g]
    <3>1. PICK c \in Harmless : served'[g] = Append(served[g], c)
      BY <1>2, <2>3 DEF GrantStep
    <3>2. grant[g].status = "ACTIVE" /\ grant'[g].status \notin {"NONE", "ACTIVE"}
      BY <1>2, <2>3 DEF GrantStep
    <3>3. served'[g] = Append(<<>>, c)
      BY <2>1, <3>1, <3>2, Zenon
    <3>4. served'[g] = <<c>>
      BY <3>3
    <3> QED
      BY <3>2, <3>4
  <2> QED
    BY <2>2, <2>3
<1> QED
  BY <1>3, <1>4, <1>5 DEF ReadInv, UnservedBefore, GrantServesOnce

LEMMA EraseInvKept ==
  ASSUME IInv, [Next]_vars
  PROVE  EraseInv'
<1>0. /\ TypeOK /\ DigestIsObject /\ ListSound /\ DeletingSound /\ LinkSound /\ EvidenceKept
      /\ linked \subseteq Versions
  BY DEF IInv, UploadInv, EraseInv, TypeOK
<1>1. ASSUME NEW v \in Versions PROVE VersionStep(v) /\ ObjectStep(v)
  BY VersionSteps, ObjectSteps
<1>2. ListStep
  BY <1>0, ListSteps
<1>3. \A item \in erasure.todo : item.v \in Versions
  BY <1>0 DEF TypeOK, Items
<1>4. \A item \in erasure'.todo : item.v \in Versions
  BY <1>0, TypesKept DEF TypeOK, Items
<1>5. linked \subseteq linked' /\ \A v \in linked' \ linked : Status(v) = "CLEAN" /\ UNCHANGED <<version, object, erasure>>
  BY LinkMovers DEF SubmitApplication
<1>6. ASSUME EraseList
      PROVE  /\ UNCHANGED <<version, linked>> /\ erasure'.pc = "next" /\ erasure.scope \subseteq erasure'.scope
             /\ erasure'.todo = {[v |-> v, status |-> Status(v), fate |-> IF v \in linked THEN "keep" ELSE "erase"] :
                                   v \in {w \in Versions : Status(w) \notin {"NONE", "DELETED"}}}
             /\ \A item \in erasure'.todo : item.fate = "erase" => item.v \in erasure'.scope
  BY <1>6 DEF EraseList, rows
<1>7. erasure.scope \subseteq erasure'.scope
  BY <1>2, <1>6 DEF ListStep
<1>8. ListSound'
  <2> SUFFICES ASSUME NEW item \in erasure'.todo, NEW v \in Versions, v = item.v
               PROVE  /\ Status(v)' # "NONE"
                      /\ Status(v)' = "UPLOADING" => item.status = "UPLOADING"
                      /\ item.status = "DELETE_PENDING" /\ item.fate = "erase" => Status(v)' = "DELETE_PENDING"
                      /\ item.fate = "keep" => v \in linked'
                      /\ item.fate = "erase" => v \in erasure'.scope
                      /\ \A other \in erasure'.todo : other.v = v => other = item
    BY <1>4 DEF ListSound, Status
  <2>1. CASE EraseList
    <3>1. PICK w \in Versions : /\ item = [v |-> w, status |-> Status(w), fate |-> IF w \in linked THEN "keep" ELSE "erase"]
                                /\ Status(w) # "NONE"
      BY <1>6, <2>1
    <3>2. w = v /\ item.status = Status(v) /\ item.fate = IF v \in linked THEN "keep" ELSE "erase"
      BY <3>1
    <3>3. Status(v)' = Status(v) /\ linked' = linked
      BY <1>6, <2>1 DEF Status
    <3>4. \A other \in erasure'.todo : other.v = v => other = item
      BY <1>6, <2>1, <3>1, <3>2
    <3>5. item.fate = "erase" => v \in erasure'.scope
      BY <1>6, <2>1
    <3> QED
      BY <3>1, <3>2, <3>3, <3>4, <3>5
  <2>2. CASE erasure'.todo \subseteq erasure.todo
    <3>1. /\ Status(v) # "NONE"
          /\ Status(v) = "UPLOADING" => item.status = "UPLOADING"
          /\ item.status = "DELETE_PENDING" /\ item.fate = "erase" => Status(v) = "DELETE_PENDING"
          /\ item.fate = "keep" => v \in linked
          /\ item.fate = "erase" => v \in erasure.scope
          /\ \A other \in erasure.todo : other.v = v => other = item
      BY <1>0, <2>2 DEF ListSound
    <3>2. item.fate = "erase" => ~KeptBack(v)
      BY <3>1 DEF KeptBack
    <3>3. ~WorkedOff(v)
      BY <3>1 DEF WorkedOff
    <3>4. /\ Status(v)' # "NONE" /\ (Status(v)' = "UPLOADING" => Status(v) = "UPLOADING")
          /\ item.fate = "erase" /\ Status(v) = "DELETE_PENDING" => Status(v)' = "DELETE_PENDING"
      BY <1>1, <3>1, <3>2, <3>3 DEF VersionStep
    <3> QED
      BY <1>5, <1>7, <2>2, <3>1, <3>4
  <2> QED
    BY <1>2, <2>1, <2>2 DEF ListStep
<1>9. DeletingSound'
  <2> SUFFICES ASSUME erasure'.pc \in {"delete", "mark"}, NEW item \in erasure'.todo, FirstItem(item)',
                      NEW v \in Versions, v = item.v
               PROVE  /\ item.fate = "erase"
                      /\ Status(v)' = "DELETE_PENDING"
                      /\ \A g \in Grant : grant'[g].v = v => grant'[g].status # "ACTIVE"
    BY <1>4 DEF DeletingSound, Status, NoGrant
  <2>1. ASSUME item \in erasure.todo, FirstItem(item), erasure.pc \in {"delete", "mark"}, erasure'.todo = erasure.todo
        PROVE  /\ item.fate = "erase"
               /\ Status(v)' = "DELETE_PENDING"
               /\ \A g \in Grant : grant'[g].v = v => grant'[g].status # "ACTIVE"
    <3>1. item.fate = "erase" /\ Status(v) = "DELETE_PENDING" /\ NoGrant(v)
      BY <1>0, <2>1 DEF DeletingSound
    <3>2. Status(v)' = "DELETE_PENDING"
      BY <1>1, <2>1, <3>1 DEF VersionStep
    <3>3. ASSUME NEW g \in Grant, grant'[g].v = v PROVE grant'[g].status # "ACTIVE"
      BY <3>1, <3>3, GrantSteps DEF GrantStep, NoGrant, Readable
    <3> QED
      BY <3>1, <3>2, <3>3
  <2>2. ASSUME NEW other \in erasure.todo, EraseMark(other), erasure'.pc = "delete", erasure'.todo = erasure.todo
        PROVE  /\ item.fate = "erase"
               /\ Status(v)' = "DELETE_PENDING"
               /\ \A g \in Grant : grant'[g].v = v => grant'[g].status # "ACTIVE"
    <3>1. other = item
      <4>1. FirstItem(other)
        BY <2>2 DEF EraseMark
      <4>2. other.v = v
        BY <1>3, <2>2, <4>1 DEF FirstItem, Versions
      <4> QED
        BY <1>0, <2>2, <4>2 DEF ListSound
    <3>2. erasure.pc = "next" /\ item.fate = "erase"
      BY <2>2, <3>1 DEF EraseMark
    <3>3. /\ grant' = [g \in Grant |-> IF grant[g].v = item.v /\ grant[g].status = "ACTIVE"
                                         THEN [grant[g] EXCEPT !.status = "REVOKED"] ELSE grant[g]]
          /\ version' = [version EXCEPT ![v].status = IF item.status = "DELETE_PENDING" THEN @ ELSE "DELETE_PENDING"]
      <4>1. ~Retried
        BY <1>0, <2>2 DEF Retried, TypeOK
      <4> QED
        BY <2>2, <3>1, <4>1 DEF EraseMark
    <3>4. version' = [version EXCEPT ![v].status = IF item.status = "DELETE_PENDING" THEN Status(v) ELSE "DELETE_PENDING"]
      BY <3>3 DEF Status
    <3>5. Status(v)' = "DELETE_PENDING"
      <4>1. item.status = "DELETE_PENDING" => Status(v) = "DELETE_PENDING"
        BY <1>0, <2>2, <3>1, <3>2 DEF ListSound
      <4>2. Status(v)' = IF item.status = "DELETE_PENDING" THEN Status(v) ELSE "DELETE_PENDING"
        BY <1>0, <3>4, StatusSet
      <4> QED
        BY <4>1, <4>2
    <3>6. ASSUME NEW g \in Grant, grant'[g].v = v PROVE grant'[g].status # "ACTIVE"
      <4>1. grant[g] \in Grants
        BY <1>0 DEF TypeOK
      <4>2. /\ [grant[g] EXCEPT !.status = "REVOKED"].status = "REVOKED"
            /\ [grant[g] EXCEPT !.status = "REVOKED"].v = grant[g].v
        BY <4>1 DEF Grants
      <4> QED
        BY <3>3, <3>6, <4>2
    <3> QED
      BY <3>2, <3>5, <3>6
  <2>3. erasure'.todo = erasure.todo => item \in erasure.todo /\ FirstItem(item)
    BY DEF FirstItem
  <2> QED
    BY <1>2, <1>6, <2>1, <2>2, <2>3 DEF ListStep
<1>10. LinkSound' /\ EvidenceKept'
  <2> SUFFICES ASSUME NEW v \in linked'
               PROVE  /\ Status(v)' \notin {"NONE", "UPLOADING"} /\ Sha(v)' # Nothing
                      /\ v \notin erasure'.scope => Status(v)' # "DELETED" /\ object'[v] = Sha(v)'
    BY DEF LinkSound, EvidenceKept, Status, Sha
  <2>1. CASE v \in linked
    <3>1. /\ Status(v) \notin {"NONE", "UPLOADING"} /\ Sha(v) # Nothing /\ v \in Versions
          /\ v \notin erasure.scope => Status(v) # "DELETED" /\ object[v] = Sha(v)
      BY <1>0, <2>1 DEF LinkSound, EvidenceKept, Sha
    <3>2. Status(v)' \notin {"NONE", "UPLOADING"} /\ Sha(v)' = Sha(v)
      BY <1>1, <3>1 DEF VersionStep
    <3>3. v \notin erasure.scope => Status(v)' # "DELETED" /\ object'[v] = object[v]
      BY <1>1, <3>1 DEF VersionStep, ObjectStep
    <3> QED
      BY <1>7, <3>1, <3>2, <3>3
  <2>2. CASE v \notin linked
    <3>1. v \in Versions /\ Status(v) = "CLEAN" /\ UNCHANGED <<version, object, erasure>>
      BY <1>0, <1>5, <2>2, TypesKept DEF TypeOK
    <3>2. object[v] = Sha(v) /\ object[v] # Nothing
      BY <1>0, <3>1 DEF DigestIsObject, Sha
    <3> QED
      BY <3>1, <3>2 DEF Status, Sha
  <2> QED
    BY <2>1, <2>2
<1> QED
  BY <1>8, <1>9, <1>10 DEF EraseInv

\* However uploads, scans, reads and the erasure interleave, what they rely on holds.
THEOREM VaultInvariant == Spec => []IInv
<1>1. IInv /\ [Next]_vars => IInv'
  <2> SUFFICES ASSUME IInv, [Next]_vars PROVE IInv'
    OBVIOUS
  <2>1. TypeOK'
    BY TypesKept DEF IInv
  <2> QED
    BY <2>1, UploadInvKept, ScanInvKept, ReadInvKept, EraseInvKept DEF IInv
<1> QED
  BY <1>1, InitInv, PTL DEF Spec

\* Uploads, expiry and the reconciler leave a candidate one open intent at most.
THEOREM OneOpenIntentHolds == Spec => []OneOpenIntent
  BY VaultInvariant, PTL DEF IInv, UploadInv

\* No upload begins for a version that a scan or a deletion works on.
THEOREM IntentFollowsVersionHolds == Spec => []IntentFollowsVersion
  BY VaultInvariant, PTL DEF IInv, UploadInv

\* Whichever of several requests wins, the recorded digest is the stored object's.
THEOREM DigestIsObjectHolds == Spec => []DigestIsObject
  BY VaultInvariant, PTL DEF IInv, UploadInv

\* Only what the scanner found clean, and what is harmless, may be read.
THEOREM ReadableIsHarmlessHolds == Spec => []ReadableIsHarmless
  BY VaultInvariant, PTL DEF IInv, ScanInv

\* A grant hands out one body at most.
THEOREM GrantServesOnceHolds == Spec => []GrantServesOnce
  BY VaultInvariant, PTL DEF IInv, ReadInv

\* The erasure keeps the documents of submitted applications.
THEOREM EvidenceKeptHolds == Spec => []EvidenceKept
  BY VaultInvariant, PTL DEF IInv, EraseInv

\* At the moment a body is handed out its reader has access.
THEOREM ServedWithAccessHolds == Spec => ServedWithAccess
<1>1. IInv /\ [Next]_vars => [\A g \in Grant : served'[g] # served[g] =>
                                grant[g].status = "ACTIVE" /\ Authorized(grant[g].v, grant[g].by)]_vars
  <2> SUFFICES ASSUME IInv, [Next]_vars, NEW g \in Grant, served'[g] # served[g]
               PROVE  grant[g].status = "ACTIVE" /\ Authorized(grant[g].v, grant[g].by)
    OBVIOUS
  <2> QED
    BY GrantSteps DEF GrantStep
<1> QED
  BY <1>1, VaultInvariant, PTL DEF Spec, ServedWithAccess

-----------------------------------------------------------------------------
(* One clean version *)

LEMMA NotBegun ==
  ASSUME TypeOK, [Next]_vars, erasure'.pc = "off"
  PROVE  erasure.pc = "off"
<1>0. erasure \in [pc : {"off", "list", "next", "delete", "mark", "account", "done"},
                   todo : SUBSET Items, scope : SUBSET Versions]
  BY DEF TypeOK
<1>1. ~EraseStart /\ ~EraseList /\ ~EraseDone /\ ~EraseAccount /\ ~Retried
  <2>1. ~EraseStart /\ ~EraseDone /\ ~EraseAccount /\ ~Retried
    BY <1>0 DEF EraseStart, EraseDone, EraseAccount, Retried
  <2>2. EraseList => erasure'.pc = "next"
    BY DEF EraseList
  <2> QED
    BY <2>1, <2>2
<1>2. ASSUME NEW item PROVE ~Left(item)
  BY <1>0 DEF Left
<1>3. ASSUME NEW item PROVE ~EraseKeep(item) /\ ~EraseMark(item) /\ ~EraseObject(item) /\ ~EraseDeleted(item)
  <2>1. \A pc \in {"delete", "mark"} : erasure' # [erasure EXCEPT !.pc = pc]
    BY <1>0
  <2> QED
    BY <1>1, <1>2, <2>1 DEF EraseKeep, EraseMark, EraseObject, EraseDeleted
<1> QED
  BY <1>1, <1>3, ListMovers DEF EraseStep, EraseGone

LEMMA StatusSetClean ==
  ASSUME TypeOK, OneCleanVersion, NEW v \in Versions, NEW s,
         version' = [version EXCEPT ![v].status = s], current' = current,
         erasure'.pc = "off" => erasure.pc = "off",
         s # "CLEAN", Status(v) # "CLEAN" \/ erasure'.pc # "off"
  PROVE  OneCleanVersion'
<1>1. \A w \in Versions : Status(w)' = (IF w = v THEN s ELSE Status(w))
  BY StatusSet
<1>2. \A w \in Versions : version'[w].listed = version[w].listed
  BY DEF TypeOK, Rows
<1>a. current \in {0} \cup Versions
  BY DEF TypeOK
<1>3. current \in {0} \cup Versions /\ 0 \notin Versions
  BY <1>a DEF Versions
<1>4. /\ \A w \in Versions : version'[w].status = "CLEAN" => current = w
      /\ erasure'.pc = "off" /\ current # 0 => version'[current].status = "CLEAN"
  BY <1>1, <1>3 DEF OneCleanVersion, Status
<1> QED
  BY <1>2, <1>4 DEF OneCleanVersion, Status

LEMMA SuccessionClean ==
  ASSUME TypeOK, ScanSound, OneCleanVersion, NEW s \in Scanner, ScanRecord(s),
         erasure'.pc = "off" => erasure.pc = "off"
  PROVE  OneCleanVersion'
<1>a. version \in [Versions -> Rows] /\ current \in {0} \cup Versions
  BY DEF TypeOK
<1>b. 0 \notin Versions
  BY DEF Versions
<1>0. /\ version \in [Versions -> Rows] /\ \A w \in Versions : version[w] \in Rows
      /\ current \in {0} \cup Versions /\ 0 \notin Versions
  BY <1>a, <1>b
<1>1. PICK v \in Versions :
        /\ v = sc[s].v /\ Status(v) = "SCANNING" /\ sc[s].outcome \in Outcome
  <2>1. sc[s] \in Scans /\ sc[s].at = "record"
    BY DEF TypeOK, ScanRecord
  <2>2. sc[s].v \in Versions /\ sc[s].outcome \in Outcome /\ sc[s] # NoScan
    BY <2>1, ScanFields
  <2> QED
    BY <2>2 DEF ScanSound
<1>2. CASE sc[s].outcome = "CLEAN"
  <2>1. /\ current' = v
        /\ version' = [w \in Versions |->
             IF w = v THEN [version[v] EXCEPT !.status = "CLEAN", !.listed = "ACTIVE"]
             ELSE [version[w] EXCEPT !.status = IF w = current /\ @ = "CLEAN" THEN "REPLACED" ELSE @,
                                     !.listed = IF @ = "ACTIVE" THEN "REMOVED" ELSE @]]
    BY <1>1, <1>2 DEF ScanRecord
  <2>2. version'[v].status = "CLEAN" /\ version'[v].listed = "ACTIVE"
    <3>1. version'[v] = [version[v] EXCEPT !.status = "CLEAN", !.listed = "ACTIVE"]
      BY <2>1
    <3> QED
      BY <1>0, <3>1, RowUpdates
  <2>3. ASSUME NEW w \in Versions, w # v PROVE version'[w].status # "CLEAN" /\ version'[w].listed # "ACTIVE"
    <3> DEFINE st == IF w = current /\ version[w].status = "CLEAN" THEN "REPLACED" ELSE version[w].status
               li == IF version[w].listed = "ACTIVE" THEN "REMOVED" ELSE version[w].listed
    <3>1. version[w] \in Rows
      BY <1>0
    <3>2. [version[w] EXCEPT !.status = IF w = current /\ @ = "CLEAN" THEN "REPLACED" ELSE @,
                             !.listed = IF @ = "ACTIVE" THEN "REMOVED" ELSE @]
            = [version[w] EXCEPT !.status = st, !.listed = li]
      BY <3>1 DEF Rows
    <3>3. version'[w] = [version[w] EXCEPT !.status = st, !.listed = li]
      BY <2>1, <2>3, <3>2
    <3>4. version'[w].status = st /\ version'[w].listed = li
      BY <3>1, <3>3, RowUpdates
    <3>5. st # "CLEAN"
      BY DEF OneCleanVersion, Status
    <3> QED
      BY <3>4, <3>5
  <2> QED
    BY <2>1, <2>2, <2>3 DEF OneCleanVersion, Status
<1>3. CASE sc[s].outcome # "CLEAN"
  <2>1. /\ current' = current
        /\ \A w \in Versions : version'[w] = IF w = v THEN [version[v] EXCEPT !.status = sc[s].outcome, !.listed = @]
                                             ELSE version[w]
    BY <1>1, <1>3 DEF ScanRecord
  <2>2. /\ [version[v] EXCEPT !.status = sc[s].outcome, !.listed = @].status = sc[s].outcome
        /\ [version[v] EXCEPT !.status = sc[s].outcome, !.listed = @].listed = version[v].listed
    BY <1>0 DEF Rows
  <2>3. \A w \in Versions : /\ version'[w].status = IF w = v THEN sc[s].outcome ELSE version[w].status
                            /\ version'[w].listed = version[w].listed
    BY <2>1, <2>2
  <2>4. erasure.pc = "off" /\ current # 0 => current # v
    BY <1>1 DEF OneCleanVersion
  <2> QED
    BY <1>0, <1>3, <2>1, <2>3, <2>4 DEF OneCleanVersion, Status
<1> QED
  BY <1>2, <1>3

LEMMA DeletionClean ==
  ASSUME TypeOK, OneCleanVersion, NEW v \in Versions, RequestDeletion(v),
         erasure'.pc = "off" => erasure.pc = "off"
  PROVE  OneCleanVersion'
<1>a. version \in [Versions -> Rows] /\ current \in {0} \cup Versions
  BY DEF TypeOK
<1>b. 0 \notin Versions
  BY DEF Versions
<1>0. /\ version \in [Versions -> Rows] /\ version[v] \in Rows
      /\ current \in {0} \cup Versions /\ 0 \notin Versions
  BY <1>a, <1>b
<1> DEFINE li == IF version[v].listed = "ACTIVE" THEN "REMOVED" ELSE version[v].listed
<1>1. /\ current' = IF current = v THEN 0 ELSE current
      /\ version' = [version EXCEPT ![v] = [version[v] EXCEPT !.status = "DELETE_PENDING", !.listed = li]]
  <2>1. /\ current' = IF current = v THEN 0 ELSE current
        /\ version' = [version EXCEPT ![v].status = "DELETE_PENDING", ![v].listed = IF @ = "ACTIVE" THEN "REMOVED" ELSE @]
    BY DEF RequestDeletion
  <2> QED
    BY <1>0, <2>1 DEF Rows
<1>2. /\ version'[v].status = "DELETE_PENDING" /\ version'[v].listed = li
      /\ \A w \in Versions \ {v} : version'[w] = version[w]
  BY <1>0, <1>1, RowUpdates
<1> QED
  BY <1>0, <1>1, <1>2 DEF OneCleanVersion, Status

LEMMA OneCleanKept ==
  ASSUME IInv, OneCleanVersion, [Next]_vars
  PROVE  OneCleanVersion'
<1>0. /\ TypeOK /\ ScanSound /\ IntentFollowsVersion
      /\ version \in [Versions -> Rows]
  BY DEF IInv, ScanInv, UploadInv, TypeOK
<1>1. erasure'.pc = "off" => erasure.pc = "off"
  BY <1>0, NotBegun
<1>2. CASE UNCHANGED <<version, verdicts, current>>
  BY <1>1, <1>2 DEF OneCleanVersion, Status
<1>3. ASSUME NEW v \in Versions, NEW c \in Declared, CreateIntent(v, c) PROVE OneCleanVersion'
  BY <1>0, <1>1, <1>3, StatusSetClean DEF CreateIntent
<1>4. ASSUME NEW u \in Uploader, UploadComplete(u) PROVE OneCleanVersion'
  <2>1. PICK v \in Versions : v = up[u].v
    BY <1>0, <1>4, UploadFields DEF UploadComplete, TypeOK
  <2>2. current' = current
    BY <1>4 DEF UploadComplete
  <2>3. CASE version' = version
    BY <1>1, <2>2, <2>3 DEF OneCleanVersion, Status
  <2>4. CASE version' # version
    <3>1. /\ version' = [version EXCEPT ![v] = [version[v] EXCEPT !.status = "QUARANTINED", !.digest = up[u].content]]
          /\ Status(v) = "UPLOADING"
      BY <1>0, <1>4, <2>1, <2>4 DEF UploadComplete, IntentFollowsVersion
    <3>2. /\ version'[v].status = "QUARANTINED" /\ version'[v].listed = version[v].listed
          /\ \A w \in Versions \ {v} : version'[w] = version[w]
      BY <1>0, <3>1, RowUpdates
    <3>3. current \in {0} \cup Versions
      BY <1>0 DEF TypeOK
    <3> QED
      BY <1>1, <2>2, <3>1, <3>2, <3>3 DEF OneCleanVersion, Status
  <2> QED
    BY <2>3, <2>4
<1>5. ASSUME NEW s \in Scanner, NEW v \in Versions, ScanClaim(s, v) PROVE OneCleanVersion'
  BY <1>0, <1>1, <1>5, StatusSetClean DEF ScanClaim
<1>6. ASSUME NEW s \in Scanner, ScanUnauthorized(s) PROVE OneCleanVersion'
  <2>1. PICK v \in Versions : v = sc[s].v /\ Status(v) = "SCANNING"
    <3>1. sc[s] \in Scans /\ sc[s].at = "scan"
      BY <1>0, <1>6 DEF TypeOK, ScanUnauthorized
    <3> QED
      BY <1>0, <3>1, ScanFields DEF ScanSound
  <2>2. version' = [version EXCEPT ![v].status = "SCAN_FAILED"] /\ current' = current
    BY <1>6, <2>1 DEF ScanUnauthorized, Status
  <2> QED
    BY <1>0, <1>1, <2>1, <2>2, StatusSetClean
<1>7. ASSUME NEW s \in Scanner, ScanRecord(s) PROVE OneCleanVersion'
  BY <1>0, <1>1, <1>7, SuccessionClean
<1>8. ASSUME NEW v \in Versions, RequestDeletion(v) PROVE OneCleanVersion'
  BY <1>0, <1>1, <1>8, DeletionClean
<1>9. ASSUME NEW item \in erasure.todo, EraseKeep(item) \/ EraseMark(item) \/ EraseDeleted(item) PROVE OneCleanVersion'
  <2>1. PICK v \in Versions : v = item.v
    BY <1>0 DEF TypeOK, Items
  <2>2. current' = current /\ erasure'.pc # "off"
    BY <1>1, <1>9 DEF EraseKeep, EraseMark, EraseDeleted
  <2>3. CASE version' = version
    BY <2>2, <2>3 DEF OneCleanVersion, Status
  <2>4. ASSUME NEW to, version' = [version EXCEPT ![v].status = to], to # "CLEAN" PROVE OneCleanVersion'
    BY <1>0, <1>1, <2>2, <2>4, StatusSetClean
  <2>5. version' = version \/ \E to : version' = [version EXCEPT ![v].status = to] /\ to # "CLEAN"
    <3>1. EraseKeep(item) => \/ version' = [version EXCEPT ![v].status = "HELD"]
                             \/ version' = [version EXCEPT ![v].status = Status(v)]
      BY <2>1 DEF EraseKeep, Status
    <3>2. EraseMark(item) => \/ version' = version
                             \/ version' = [version EXCEPT ![v].status = "DELETE_PENDING"]
                             \/ version' = [version EXCEPT ![v].status = Status(v)]
      BY <2>1 DEF EraseMark, Status
    <3>3. EraseDeleted(item) => version' = version \/ version' = [version EXCEPT ![v].status = "DELETED"]
      BY <2>1 DEF EraseDeleted
    <3>4. [version EXCEPT ![v].status = Status(v)] = version
      BY <1>0 DEF Status, Rows
    <3> QED
      BY <1>9, <3>1, <3>2, <3>3, <3>4
  <2> QED
    BY <2>3, <2>4, <2>5
<1> QED
  BY <1>2, <1>3, <1>4, <1>5, <1>6, <1>7, <1>8, <1>9, VersionMovers

\* One clean version, which is the current one and the one on the profile.
THEOREM OneCleanVersionHolds == Spec => []OneCleanVersion
<1>1. Init => OneCleanVersion
  BY DEF Init, OneCleanVersion, Status, Versions
<1> QED
  BY <1>1, VaultInvariant, OneCleanKept, PTL DEF Spec

-----------------------------------------------------------------------------
(* The erasure covers its scope *)

\* A version the erasure is to delete is deleted or still on the list; nobody reads a deleted one.
CoverSound ==
  /\ \A v \in Versions : Status(v) = "DELETED" => NoGrant(v)
  /\ \A v \in erasure.scope : Status(v) # "NONE"
  /\ erasure.pc \notin {"off", "list"} =>
       \A v \in erasure.scope \ linked :
         Status(v) = "DELETED" \/ \E item \in erasure.todo : item.v = v /\ item.fate = "erase"
  /\ erasure.pc \in {"account", "done"} => erasure.todo = {}

CoverStep ==
  \/ erasure'.pc \in {"off", "list"} /\ erasure'.scope = erasure.scope
  \/ EraseList
  \/ /\ erasure.pc \notin {"off", "list"} /\ erasure'.scope = erasure.scope /\ erasure'.todo = erasure.todo
     /\ erasure'.pc \in {"account", "done"} => erasure.pc \in {"account", "done"} \/ erasure.todo = {}
  \/ /\ erasure.pc \in {"next", "mark"} /\ erasure'.pc = "next" /\ erasure'.scope = erasure.scope
     /\ \E item \in erasure.todo :
          /\ erasure'.todo = erasure.todo \ {item}
          /\ item.v \in linked \/ version' = [version EXCEPT ![item.v].status = "DELETED"]

LEMMA CoverSteps ==
  ASSUME IInv, [Next]_vars
  PROVE  CoverStep
<1>0. /\ ListSound
      /\ erasure \in [pc : {"off", "list", "next", "delete", "mark", "account", "done"},
                      todo : SUBSET Items, scope : SUBSET Versions]
  BY DEF IInv, EraseInv, TypeOK
<1>1. CASE erasure' = erasure
  BY <1>1 DEF CoverStep
<1>2. CASE EraseStart \/ EraseDone \/ EraseAccount
  BY <1>0, <1>2 DEF EraseStart, EraseDone, EraseAccount, CoverStep
<1>3. ASSUME Retried PROVE CoverStep
  BY <1>0, <1>3 DEF Retried, CoverStep
<1>4. ASSUME NEW item \in erasure.todo, EraseKeep(item) PROVE CoverStep
  <2>1. erasure.pc = "next" /\ item.v \in linked /\ Left(item)
    BY <1>0, <1>4 DEF EraseKeep, ListSound
  <2> QED
    BY <1>0, <2>1 DEF Left, CoverStep
<1>5. ASSUME NEW item \in erasure.todo, EraseDeleted(item) PROVE CoverStep
  <2>1. CASE Retried
    BY <1>3, <2>1
  <2>2. CASE ~Retried
    <3>1. erasure.pc = "mark" /\ Left(item) /\ version' = [version EXCEPT ![item.v].status = "DELETED"]
      BY <1>5, <2>2 DEF EraseDeleted
    <3> QED
      BY <1>0, <3>1 DEF Left, CoverStep
  <2> QED
    BY <2>1, <2>2
<1>6. ASSUME NEW item \in erasure.todo, EraseMark(item) \/ EraseObject(item) PROVE CoverStep
  <2>1. CASE Retried
    BY <1>3, <2>1
  <2>2. CASE ~Retried
    <3>1. erasure.pc \in {"next", "delete"} /\ \E pc \in {"delete", "mark"} : erasure' = [erasure EXCEPT !.pc = pc]
      BY <1>6, <2>2 DEF EraseMark, EraseObject
    <3> QED
      BY <1>0, <3>1 DEF CoverStep
  <2> QED
    BY <2>1, <2>2
<1> QED
  BY <1>1, <1>2, <1>3, <1>4, <1>5, <1>6, ListMovers DEF EraseStep, EraseGone, CoverStep

LEMMA CoverKept ==
  ASSUME IInv, CoverSound, [Next]_vars
  PROVE  CoverSound'
<1>0. /\ TypeOK /\ erasure.scope \subseteq Versions /\ erasure'.scope \subseteq Versions /\ linked \subseteq linked'
      /\ \A v \in Versions : Status(v) = "DELETED" => NoGrant(v)
      /\ \A v \in erasure.scope : Status(v) # "NONE"
  BY TypesKept, LinkMovers DEF IInv, TypeOK, CoverSound, SubmitApplication
<1>1. ASSUME NEW v \in Versions PROVE VersionStep(v)
  BY VersionSteps
<1>2. CoverStep
  BY CoverSteps
<1>3. ASSUME NEW v \in Versions, Status(v)' = "DELETED", NEW g \in Grant, grant'[g].v = v
      PROVE  grant'[g].status # "ACTIVE"
  <2>1. CASE Status(v) = "DELETED"
    BY <1>0, <1>3, <2>1, GrantSteps DEF GrantStep, NoGrant, Readable
  <2>2. CASE Status(v) # "DELETED"
    BY <1>1, <1>3, <2>2 DEF VersionStep, NoGrant
  <2> QED
    BY <2>1, <2>2
<1>4. ASSUME EraseList
      PROVE  /\ version' = version /\ linked' = linked /\ erasure'.pc = "next"
             /\ erasure'.todo = {[v |-> v, status |-> Status(v), fate |-> IF v \in linked THEN "keep" ELSE "erase"] :
                                   v \in {w \in Versions : Status(w) \notin {"NONE", "DELETED"}}}
             /\ erasure'.scope = erasure.scope \cup {item.v : item \in {i \in erasure'.todo : i.fate = "erase"}}
  BY <1>4 DEF EraseList, rows
<1>5. ASSUME NEW v \in erasure'.scope PROVE Status(v)' # "NONE"
  <2>1. CASE v \in erasure.scope
    BY <1>0, <1>1, <2>1 DEF VersionStep
  <2>2. CASE EraseList /\ v \notin erasure.scope
    <3>1. PICK w \in Versions : Status(w) # "NONE" /\ v = w
      BY <1>4, <2>2
    <3> QED
      BY <1>4, <2>2, <3>1 DEF Status
  <2> QED
    BY <1>2, <2>1, <2>2 DEF CoverStep
<1>6. ASSUME erasure'.pc \notin {"off", "list"}, NEW v \in erasure'.scope \ linked'
      PROVE  Status(v)' = "DELETED" \/ \E item \in erasure'.todo : item.v = v /\ item.fate = "erase"
  <2>1. CASE EraseList
    <3>1. v \in Versions /\ v \notin linked /\ Status(v)' = Status(v) /\ Status(v) # "NONE"
      BY <1>0, <1>4, <1>5, <1>6, <2>1 DEF Status
    <3>2. Status(v) # "DELETED" => [v |-> v, status |-> Status(v), fate |-> "erase"] \in erasure'.todo
      BY <1>4, <2>1, <3>1
    <3> QED
      BY <3>1, <3>2
  <2>2. CASE erasure.pc \notin {"off", "list"} /\ erasure'.scope = erasure.scope
    <3>1. Status(v) = "DELETED" \/ \E item \in erasure.todo : item.v = v /\ item.fate = "erase"
      BY <1>0, <1>6, <2>2 DEF CoverSound
    <3>2. Status(v) = "DELETED" => Status(v)' = "DELETED"
      BY <1>0, <1>1, <1>6 DEF VersionStep
    <3>3. ASSUME NEW left \in erasure.todo, left.v = v, version' = [version EXCEPT ![left.v].status = "DELETED"]
          PROVE  Status(v)' = "DELETED"
      BY <1>0, <1>6, <3>3, StatusSet
    <3>4. v \notin linked
      BY <1>0, <1>6
    <3> QED
      BY <1>2, <1>4, <1>6, <2>1, <2>2, <3>1, <3>2, <3>3, <3>4 DEF CoverStep
  <2> QED
    BY <1>2, <1>6, <2>1, <2>2 DEF CoverStep
<1>7. erasure'.pc \in {"account", "done"} => erasure'.todo = {}
  BY <1>2, <1>4 DEF CoverStep, CoverSound
<1> QED
  BY <1>3, <1>5, <1>6, <1>7 DEF CoverSound, NoGrant, Status

\* An erasure whose document step succeeded left nothing of what it set out to delete.
THEOREM ErasureCoversHolds == Spec => []ErasureCovers
<1>1. Init => CoverSound
  BY DEF Init, CoverSound, Status
<1>2. IInv /\ CoverSound => ErasureCovers
  <2> SUFFICES ASSUME TypeOK, CoverSound, erasure.pc \in {"account", "done"}, NEW v \in erasure.scope \ linked
               PROVE  Status(v) = "DELETED" /\ \A g \in Grant : grant[g].v = v => grant[g].status # "ACTIVE"
    BY DEF IInv, ErasureCovers
  <2>1. erasure.todo = {} /\ v \in Versions
    BY DEF CoverSound, TypeOK
  <2>2. Status(v) = "DELETED"
    BY <2>1 DEF CoverSound
  <2> QED
    BY <2>1, <2>2 DEF CoverSound, NoGrant
<1> QED
  BY <1>1, <1>2, VaultInvariant, CoverKept, PTL DEF Spec
=============================================================================
