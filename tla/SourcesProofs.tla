---------------------------- MODULE SourcesProofs ----------------------------
(***************************************************************************)
(* The library composed with its GitHub sources keeps LibraryInv: downloads *)
(* that were under way while the library, the jobs or the sources changed  *)
(* do not reach the IPA of a job that runs, and the composition still      *)
(* implements IpaShelf.                                                    *)
(***************************************************************************)
EXTENDS SourcesInvariant, LibraryProofs

-----------------------------------------------------------------------------
(* Types *)

\* record_source_check keeps the rows of sources well typed.
LEMMA RecordType ==
    ASSUME StoreTypeOK, NEW s, NEW release \in Releases \cup {None},
           NEW sha \in Contents \cup {None},
           NEW status \in {"update_available", "up_to_date", "downloaded", "unchanged", "error"},
           RecordSourceCheck(s, release, sha, status)
    PROVE  /\ sources' \in [Sources -> Source]
           /\ \A t \in Sources : /\ sources'[t].known = sources[t].known
                                 /\ sources'[t].app = sources[t].app
                                 /\ sources'[t].config = sources[t].config
  <1> DEFINE Recorded(row) == [row EXCEPT !.release = release, !.sha = sha, !.status = status]
  <1>1. ASSUME NEW row \in Source
        PROVE  /\ Recorded(row) \in Source
               /\ Recorded(row).known = row.known
               /\ Recorded(row).app = row.app
               /\ Recorded(row).config = row.config
    BY DEF Source
  <1>2. sources' = [sources EXCEPT ![s] = IF sources[s].known THEN Recorded(sources[s])
                                                             ELSE sources[s]]
    BY DEF RecordSourceCheck
  <1> HIDE DEF Recorded
  <1> QED BY <1>1, <1>2 DEF StoreTypeOK

\* What GitHub answers with is a release.
LEMMA LatestType ==
    ASSUME SourcesInv, NEW k \in Configs, published[k] > 0
    PROVE  LatestRelease(k) \in Releases
  BY BoundAssumption DEF SourcesInv, SourcesTypeOK, LatestRelease, Releases

\* The asset of a release has a content.
LEMMA ContentType ==
    ASSUME SourcesInv, NEW r \in Requests, req[r].pc \in ReleasePcs
    PROVE  FetchedContent(r) \in Contents
  BY ReleaseAssumption DEF SourcesInv, FetchInv, FetchedContent

-----------------------------------------------------------------------------
(* The library's invariant under the steps of sources.rs *)

\* A step that touches nothing but the rows of sources, the lock, the removals
\* under way and a request that is not in a handler of the library.
LEMMA QuietStep ==
    ASSUME LibraryInv, NEW r \in Requests, Alone(r),
           UNCHANGED <<apps, jobs, unmanaged, refreshAfter, now, files, jobVars>>,
           faults' \in [losses : Nat, crashes : Nat, drops : Nat],
           sources' \in [Sources -> Source],
           unlinking' \in SUBSET Paths,
           req' \in [Requests -> Request],
           req'[r].pc \in {"idle"} \cup SourcePcs,
           writer' \in Requests \cup {None}, readers' \in SUBSET Requests,
           LockInv'
    PROVE  LibraryInv'
  <1> USE DEF LibraryInv, TypeOK
  <1>1. TypeOK'
    BY DEF JobsTypeOK, StoreTypeOK, jobVars
  <1>2. RowInv' /\ FileInv'
    BY DEF RowInv, FileInv
  <1>3. req'[r].pc \notin AppPcs \cup UploadPcs \cup {"delete_file", "refresh_queue"}
    BY DEF AppPcs, UploadPcs, SourcePcs
  <1>4. HandlerInv'
    BY <1>3 DEF HandlerInv, Alone, AppPcs
  <1>5. UploadInv'
    BY <1>3 DEF UploadInv, Alone, UploadPcs
  <1>6. TodoInv'
    BY <1>3 DEF TodoInv, Alone, IsLive
  <1>7. JobInv' /\ SignedIsCurrent'
    BY DEF JobInv, SignedIsCurrent, Running, IsActive, IsLive, jobVars
  <1> QED BY <1>1, <1>2, <1>4, <1>5, <1>6, <1>7

\* Moving to a state of sources.rs keeps a request well typed.
LEMMA GotoSourceType ==
    ASSUME TypeOK, NEW r \in Requests, NEW pc \in SourcePcs, Goto(r, pc)
    PROVE  req' \in [Requests -> Request]
  <1>1. [req[r] EXCEPT !.pc = pc] \in Request
    BY DEF TypeOK, JobsTypeOK, Request
  <1> QED BY <1>1 DEF Goto, TypeOK, JobsTypeOK

\* So does leaving the handler.
LEMMA FinishType ==
    ASSUME TypeOK, NEW r \in Requests, Finish(r)
    PROVE  req' \in [Requests -> Request]
  BY DEF Finish, NoRequest, Request, TypeOK, JobsTypeOK

\* A download that returns leaves the section, to the caller or to its client.
LEMMA ReturnDownloadFact ==
    ASSUME TypeOK, NEW r \in Requests, ReturnDownload(r)
    PROVE  /\ Alone(r)
           /\ req'[r].pc \in {"idle", "sync_next"}
           /\ req' \in [Requests -> Request]
           /\ ReleaseLock(r)
  <1> USE DEF TypeOK, JobsTypeOK
  <1>1. NoRequest \in Request /\ \A pc \in {"idle", "sync_next"} : [NoRequest EXCEPT !.pc = pc] \in Request
    BY DEF NoRequest, Request, SourcePcs
  <1>2. PICK pc \in {"idle", "sync_next"} : req' = [req EXCEPT ![r] = [NoRequest EXCEPT !.pc = pc]]
    BY DEF ReturnDownload
  <1>3. [NoRequest EXCEPT !.pc = pc].pc = pc
    BY DEF NoRequest
  <1> QED BY <1>1, <1>2, <1>3 DEF ReturnDownload, Alone

\* Releasing keeps the lock well typed.
LEMMA ReleaseType ==
    ASSUME TypeOK, NEW r, ReleaseLock(r)
    PROVE  writer' \in Requests \cup {None} /\ readers' \in SUBSET Requests
  BY DEF ReleaseLock, TypeOK, JobsTypeOK

\* The steps that move between the states of sources.rs with the lock as it is.
LEMMA MovesKeep ==
    ASSUME SourcesInv, NEW r \in Requests,
           UNCHANGED <<apps, jobs, unmanaged, refreshAfter, now, fileVars, lockVars, jobVars, faults>>,
           sources' \in [Sources -> Source],
           \/ Goto(r, "check_release") /\ req[r].pc = "idle"
           \/ Goto(r, "download_release") /\ req[r].pc \in {"idle", "sync_next"}
           \/ Goto(r, "sync_next") /\ req[r].pc = "idle"
           \/ Goto(r, "check_record") /\ req[r].pc = "check_release"
           \/ Goto(r, "download_asset") /\ req[r].pc = "download_release"
           \/ Goto(r, "download_wait") /\ req[r].pc = "download_asset"
           \/ Finish(r) /\ req[r].pc \in {"check_release", "check_record", "sync_next"}
           \/ UNCHANGED req /\ req[r].pc = "sync_next"
    PROVE  LibraryInv'
  <1> USE DEF SourcesInv
  <1>1. TypeOK
    BY DEF LibraryInv
  <1>2. /\ Alone(r)
        /\ req' \in [Requests -> Request]
        /\ req[r].pc \notin ReadPcs \cup WritePcs
        /\ req'[r].pc \in {"idle", "check_release", "check_record", "download_release",
                           "download_asset", "download_wait", "sync_next"}
    <2> USE DEF ReadPcs, WritePcs, SourcePcs
    <2>1. CASE UNCHANGED req /\ req[r].pc = "sync_next"
      BY <1>1, <2>1 DEF Alone, TypeOK, JobsTypeOK
    <2>2. CASE Finish(r)
      BY <1>1, <2>2, FinishFact, FinishType
    <2> QED BY <1>1, <2>1, <2>2, GotoFact, GotoSourceType
  <1>3. LockInv'
    BY <1>2, LockKept DEF LibraryInv, ReadPcs, WritePcs
  <1> QED BY <1>1, <1>2, <1>3, QuietStep
     DEF SourcePcs, fileVars, lockVars, TypeOK, JobsTypeOK, SourcesTypeOK

\* The steps that return from a download.
LEMMA ReturnsKeep ==
    ASSUME SourcesInv, NEW r \in Requests, ReturnDownload(r),
           UNCHANGED <<apps, jobs, unmanaged, refreshAfter, now, fileVars, jobVars, faults>>,
           sources' \in [Sources -> Source]
    PROVE  LibraryInv'
  <1> USE DEF SourcesInv
  <1>1. TypeOK
    BY DEF LibraryInv
  <1>2. /\ Alone(r) /\ req'[r].pc \in {"idle", "sync_next"}
        /\ req' \in [Requests -> Request] /\ ReleaseLock(r)
    BY <1>1, ReturnDownloadFact
  <1>3. LockInv'
    BY <1>2, LockRelease DEF LibraryInv, Quiet, ReadPcs, WritePcs
  <1>4. writer' \in Requests \cup {None} /\ readers' \in SUBSET Requests
    BY <1>1, <1>2, ReleaseType
  <1> QED BY <1>1, <1>2, <1>3, <1>4, QuietStep DEF SourcePcs, fileVars, TypeOK, JobsTypeOK

-----------------------------------------------------------------------------
(* The steps that exchange files *)

\* The holder of the lock for writing is alone: no deletion is about to remove a
\* file, and no refresh is queueing jobs.
LEMMA HolderAlone ==
    ASSUME LibraryInv, NEW r \in Requests, req[r].pc \in {"download_held", "download_clean"}
    PROVE  \A q \in Requests : req[q].pc \notin {"delete_file", "refresh_queue"}
  BY NoneIsNoRequest DEF LibraryInv, LockInv, ReadPcs, WritePcs

\* Removing a file never hurts LibraryInv.
LEMMA CleansKeep ==
    ASSUME SourcesInv, NEW r \in Requests, DownloadCleans(r)
    PROVE  LibraryInv'
  <1> USE DEF SourcesInv
  <1>1. TypeOK
    BY DEF LibraryInv
  <1>2. /\ Alone(r) /\ req'[r].pc \in {"idle", "sync_next"}
        /\ req' \in [Requests -> Request] /\ ReleaseLock(r)
    BY <1>1, ReturnDownloadFact DEF DownloadCleans
  <1>3. LockInv'
    BY <1>2, LockRelease DEF LibraryInv, Quiet, ReadPcs, WritePcs
  <1>4. writer' \in Requests \cup {None} /\ readers' \in SUBSET Requests
    BY <1>1, <1>2, ReleaseType
  <1>5. PICK p \in Paths : files' = [files EXCEPT ![p] = None]
    BY DEF DownloadCleans, FetchInv
  <1>6. UNCHANGED <<apps, jobs, unmanaged, sources, refreshAfter, now, unlinking, jobVars, faults>>
    BY DEF DownloadCleans, storeVars
  <1>7. TypeOK'
    BY <1>1, <1>2, <1>4, <1>5, <1>6 DEF TypeOK, JobsTypeOK, StoreTypeOK, jobVars
  <1>8. RowInv' /\ FileInv'
    <2>1. RowInv'
      BY <1>6 DEF LibraryInv, RowInv
    <2>2. FileInv'
      BY <1>1, <1>5, <1>6, RowPath DEF LibraryInv, FileInv, TypeOK, JobsTypeOK
    <2> QED BY <2>1, <2>2
  <1>9. HandlerInv' /\ TodoInv'
    BY <1>2, <1>6 DEF LibraryInv, HandlerInv, TodoInv, Alone, AppPcs, IsLive
  <1>10. UploadInv'
    <2>1. \A q \in Requests : req[q].pc \in UploadPcs =>
             files'[req[q].path] = files[req[q].path] \/ files'[req[q].path] = None
      BY <1>1, <1>5, UploadsPath DEF LibraryInv, TypeOK, JobsTypeOK
    <2> QED BY <1>2, <1>6, <2>1 DEF LibraryInv, UploadInv, Alone, UploadPcs
  <1>11. JobInv' /\ SignedIsCurrent'
    BY <1>6 DEF LibraryInv, JobInv, SignedIsCurrent, Running, IsActive, IsLive, jobVars
  <1> QED BY <1>3, <1>7, <1>8, <1>9, <1>10, <1>11 DEF LibraryInv

\* Writing the content c of a release to the path of an app a, and perhaps the
\* row: no other app's file is concerned, and no job for a runs.
LEMMA ExchangeKeeps ==
    ASSUME SourcesInv, NEW r \in Requests, req[r].pc = "download_held",
           NEW a \in Apps, NEW c \in Contents, NEW p,
           p \in {UploadPath(a), SourcePath(a, c)},
           p = UploadPath(a) => apps[a].state = "absent",
           \A q \in Requests : req[q].pc \in UploadPcs => req[q].app # a,
           ~ActiveJobExistsForApp(a),
           files' = [files EXCEPT ![p] = c],
           InsertApp(a, c, p) \/ UNCHANGED apps,
           Alone(r), req'[r].pc = "download_clean", req' \in [Requests -> Request],
           sources' \in [Sources -> Source],
           UNCHANGED <<jobs, unmanaged, refreshAfter, now, unlinking, lockVars, jobVars, faults>>
    PROVE  LibraryInv'
  <1> USE DEF SourcesInv
  <1>1. TypeOK /\ p \in Paths
    BY DEF LibraryInv, UploadPath, SourcePath, Paths
  <1>2. \A b \in Apps \ {a} : apps'[b] = apps[b]
    BY <1>1 DEF InsertApp, TypeOK, JobsTypeOK, StoreTypeOK
  <1>3. TypeOK'
    <2>1. [state |-> "live", content |-> c, path |-> p] \in App
      BY <1>1 DEF App
    <2> QED BY <1>1, <2>1 DEF InsertApp, TypeOK, JobsTypeOK, StoreTypeOK, jobVars, lockVars
  <1>4. LockInv'
    BY LockKept DEF LibraryInv, ReadPcs, WritePcs
  <1>5. apps'[a] = apps[a] \/ apps'[a] = [state |-> "live", content |-> c, path |-> p]
    BY <1>1 DEF InsertApp, TypeOK, JobsTypeOK, StoreTypeOK
  <1>6. RowInv'
    BY <1>2, <1>5 DEF LibraryInv, RowInv
  <1>7. ASSUME NEW b \in Apps, apps'[b].state # "absent"
        PROVE  files'[apps'[b].path] \in {apps'[b].content, None}
    <2>1. CASE b # a
      <3>1. apps[b].path \in Paths /\ apps[b].path # p
        BY <1>2, <1>7, <2>1 DEF LibraryInv, RowInv, Paths, UploadPath, SourcePath
      <3> QED BY <1>1, <1>2, <1>7, <2>1, <3>1 DEF LibraryInv, FileInv, TypeOK, JobsTypeOK
    <2>2. CASE b = a /\ apps'[a] = [state |-> "live", content |-> c, path |-> p]
      BY <1>1, <2>2 DEF TypeOK, JobsTypeOK
    <2>3. CASE b = a /\ apps'[a] = apps[a]
      <3>1. apps[a].path \in Paths
        BY <1>7, <2>3, RowPath DEF LibraryInv
      <3>2. CASE apps[a].path = p
        <4>1. p = SourcePath(a, c)
          BY <1>7, <2>3
        <4>2. apps[a].content = c
          BY <1>7, <2>3, <3>2, <4>1, NoneAssumption DEF LibraryInv, RowInv, UploadPath, SourcePath
        <4> QED BY <1>1, <2>3, <3>2, <4>2 DEF TypeOK, JobsTypeOK
      <3>3. CASE apps[a].path # p
        BY <1>1, <1>7, <2>3, <3>1, <3>3 DEF LibraryInv, FileInv, TypeOK, JobsTypeOK
      <3> QED BY <3>2, <3>3
    <2> QED BY <1>5, <2>1, <2>2, <2>3
  <1>8. FileInv'
    BY <1>7 DEF FileInv
  <1>9. HandlerInv' /\ TodoInv'
    <2>1. \A q \in Requests : req'[q].pc \notin {"delete_file", "refresh_queue"}
      BY HolderAlone DEF Alone
    <2>2. \A b \in Apps : apps[b].state # "absent" => apps'[b].state # "absent"
      BY <1>2, <1>5
    <2> QED BY <2>1, <2>2 DEF LibraryInv, HandlerInv, TodoInv, Alone, AppPcs
  <1>10. UploadInv'
    <2>1. ASSUME NEW q \in Requests, req[q].pc \in UploadPcs
          PROVE  /\ apps'[req[q].app].state = "absent"
                 /\ files'[req[q].path] = files[req[q].path]
      <3>1. /\ req[q].app \in Apps /\ req[q].app # a
            /\ req[q].path = UploadPath(req[q].app) /\ req[q].path \in Paths
        BY <2>1, UploadsPath DEF LibraryInv, UploadInv
      <3>2. req[q].path # p
        BY <3>1 DEF UploadPath, SourcePath
      <3> QED BY <1>1, <1>2, <2>1, <3>1, <3>2 DEF LibraryInv, UploadInv, TypeOK, JobsTypeOK
    <2>2. req'[r].pc \notin UploadPcs
      BY DEF UploadPcs
    <2> QED BY <2>1, <2>2 DEF LibraryInv, UploadInv, Alone, UploadPcs
  <1>11. ASSUME NEW j \in Jobs, Running(j)
         PROVE  jobs[j].app \in Apps /\ apps'[jobs[j].app] = apps[jobs[j].app]
    <2>1. IsActive(j) /\ jobs[j].app \in Apps
      BY <1>11 DEF LibraryInv, JobInv, IsActive, ActivePhases
    <2>2. jobs[j].app # a
      BY <2>1 DEF ActiveJobExistsForApp
    <2> QED BY <1>2, <2>1, <2>2
  <1>12. JobInv'
    <2>1. \A b \in Apps : apps[b].state # "absent" => apps'[b].state # "absent"
      BY <1>2, <1>5
    <2> QED BY <1>11, <2>1 DEF LibraryInv, JobInv, Running, IsActive, IsLive, jobVars
  <1>13. SignedIsCurrent'
    BY <1>11 DEF LibraryInv, SignedIsCurrent, Running, jobVars
  <1> QED BY <1>3, <1>4, <1>6, <1>8, <1>9, <1>10, <1>12, <1>13 DEF LibraryInv

\* DownloadReplaces exchanges the IPA of an app that no job is active for.
LEMMA ReplacesKeep ==
    ASSUME SourcesInv, NEW r \in Requests, DownloadReplaces(r)
    PROVE  LibraryInv'
  <1> USE DEF SourcesInv
  <1> DEFINE a == fetch[r].row.app
             c == FetchedContent(r)
             p == SourcePath(a, c)
  <1>1. /\ req[r].pc = "download_held" /\ a # None /\ ~ActiveJobExistsForApp(a)
        /\ files' = [files EXCEPT ![p] = c]
    BY DEF DownloadReplaces, MayReplace
  <1>2. /\ a \in Apps /\ apps[a].state # "absent"
        /\ c \in Contents /\ fetch[r].release \in Releases
    BY <1>1, ContentType DEF FetchInv, FetchPcs, ReleasePcs, Configured
  <1>3. InsertApp(a, c, p) \/ UNCHANGED apps
    BY DEF DownloadReplaces, ReplaceAppFromSource
  <1>4. sources' \in [Sources -> Source]
    <2>1. CASE RecordSourceCheck(fetch[r].src, fetch[r].release, c, "downloaded")
      BY <1>2, <2>1, RecordType DEF LibraryInv, TypeOK, JobsTypeOK
    <2>2. CASE UNCHANGED sources
      BY <2>2 DEF LibraryInv, TypeOK, JobsTypeOK, StoreTypeOK
    <2> QED BY <2>1, <2>2 DEF DownloadReplaces, ReplaceAppFromSource
  <1>5. /\ Alone(r) /\ req'[r].pc = "download_clean" /\ req' \in [Requests -> Request]
    <2>1. PICK x \in Paths :
             req' = [req EXCEPT ![r] = [[req[r] EXCEPT !.pc = "download_clean"] EXCEPT !.path = x]]
      <3>1. apps[a].path \in Paths /\ p \in Paths
        BY <1>2, RowPath DEF LibraryInv, Paths, SourcePath
      <3>2. \/ req' = [req EXCEPT ![r].pc = "download_clean", ![r].path = apps[a].path]
            \/ req' = [req EXCEPT ![r].pc = "download_clean", ![r].path = p]
        BY DEF DownloadReplaces
      <3> QED BY <3>1, <3>2
    <2>2. [req[r] EXCEPT !.pc = "download_clean"] \in Request
      BY DEF LibraryInv, TypeOK, JobsTypeOK, Request, SourcePcs
    <2>3. /\ [[req[r] EXCEPT !.pc = "download_clean"] EXCEPT !.path = x] \in Request
          /\ [[req[r] EXCEPT !.pc = "download_clean"] EXCEPT !.path = x].pc = "download_clean"
      BY <2>2, PathType DEF Request
    <2> QED BY <2>1, <2>3 DEF LibraryInv, TypeOK, JobsTypeOK, Alone
  <1>6. \A q \in Requests : req[q].pc \in UploadPcs => req[q].app # a
    BY <1>2 DEF LibraryInv, UploadInv
  <1>7. p # UploadPath(a)
    BY <1>2, NoneAssumption DEF SourcePath, UploadPath
  <1>8. UNCHANGED <<jobs, unmanaged, refreshAfter, now, unlinking, lockVars, jobVars, faults>>
    BY DEF DownloadReplaces
  <1> HIDE DEF a, c, p
  <1>9. p \in {UploadPath(a), SourcePath(a, c)}
    BY DEF p
  <1> QED BY <1>1, <1>2, <1>3, <1>4, <1>5, <1>6, <1>7, <1>8, <1>9, ExchangeKeeps

\* DownloadInserts adds an app that nobody knows yet.
LEMMA InsertsKeep ==
    ASSUME SourcesInv, NEW r \in Requests, DownloadInserts(r)
    PROVE  LibraryInv'
  <1> USE DEF SourcesInv
  <1> DEFINE c == FetchedContent(r)
  <1>1. PICK a \in Apps :
          /\ FreshApp(a)
          /\ files' = [files EXCEPT ![UploadPath(a)] = c]
          /\ req' = [req EXCEPT ![r].pc = "download_clean", ![r].app = a,
                                ![r].path = UploadPath(a)]
          /\ \/ /\ InsertApp(a, c, UploadPath(a))
                /\ sources' = [sources EXCEPT ![fetch[r].src] =
                                 [@ EXCEPT !.app = a, !.release = fetch[r].release,
                                           !.sha = c, !.status = "downloaded"]]
             \/ UNCHANGED <<apps, sources>>
    BY DEF DownloadInserts
  <1>2. /\ req[r].pc = "download_held" /\ c \in Contents /\ fetch[r].release \in Releases
    BY ContentType DEF DownloadInserts, FetchInv, ReleasePcs
  <1>3. sources' \in [Sources -> Source]
    <2> DEFINE Linked(row) == [row EXCEPT !.app = a, !.release = fetch[r].release,
                                          !.sha = c, !.status = "downloaded"]
    <2>1. \A row \in Source : Linked(row) \in Source
      BY <1>2 DEF Source
    <2>2. \/ UNCHANGED sources
          \/ sources' = [sources EXCEPT ![fetch[r].src] = Linked(sources[fetch[r].src])]
      BY <1>1
    <2> HIDE DEF Linked
    <2> QED BY <2>1, <2>2 DEF LibraryInv, TypeOK, JobsTypeOK, StoreTypeOK
  <1>4. UploadPath(a) \in Paths
    BY DEF UploadPath, Paths
  <1>5. /\ Alone(r) /\ req'[r].pc = "download_clean" /\ req' \in [Requests -> Request]
    <2>1. [req[r] EXCEPT !.pc = "download_clean"] \in Request
      BY DEF LibraryInv, TypeOK, JobsTypeOK, Request, SourcePcs
    <2>2. [[req[r] EXCEPT !.pc = "download_clean"] EXCEPT !.app = a] \in Request
      BY <2>1 DEF Request
    <2> DEFINE x == [[[req[r] EXCEPT !.pc = "download_clean"] EXCEPT !.app = a]
                       EXCEPT !.path = UploadPath(a)]
    <2>3. x \in Request /\ x.pc = "download_clean"
      BY <1>4, <2>2, PathType DEF Request
    <2>4. req' = [req EXCEPT ![r] = x]
      BY <1>1
    <2> HIDE DEF x
    <2> QED BY <2>3, <2>4 DEF LibraryInv, TypeOK, JobsTypeOK, Alone
  <1>6. apps[a].state = "absent" /\ \A q \in Requests : req[q].app # a
    BY <1>1 DEF FreshApp
  <1>7. ~ActiveJobExistsForApp(a)
    BY <1>6 DEF ActiveJobExistsForApp, IsActive, ActivePhases, LibraryInv, JobInv
  <1>8. UNCHANGED <<jobs, unmanaged, refreshAfter, now, unlinking, lockVars, jobVars, faults>>
    BY DEF DownloadInserts
  <1> QED BY <1>1, <1>2, <1>3, <1>5, <1>6, <1>7, <1>8, ExchangeKeeps

-----------------------------------------------------------------------------
(* Every step of sources.rs *)

\* A handler of sources.rs that takes a step.
LEMMA SourceStepKeeps ==
    ASSUME SourcesInv, NEW r \in Requests, SourceArrives(r) \/ SourceStep(r)
    PROVE  LibraryInv'
  <1> USE DEF SourcesInv
  <1>1. sources \in [Sources -> Source] /\ TypeOK
    BY DEF LibraryInv, TypeOK, JobsTypeOK, StoreTypeOK
  <1>2. CASE SourceArrives(r)
    BY <1>1, <1>2, MovesKeep
       DEF SourceArrives, CheckArrives, DownloadArrives, SyncArrives, storeVars
  <1>3. CASE CheckFindsRelease(r) \/ DownloadFindsRelease(r) \/ DownloadCompletes(r)
    BY <1>1, <1>3, MovesKeep
       DEF CheckFindsRelease, DownloadFindsRelease, DownloadCompletes, storeVars
  <1>4. CASE SyncDownloads(r) \/ SyncReturns(r)
    BY <1>1, <1>4, MovesKeep DEF SyncDownloads, SyncReturns, storeVars
  <1>5. CASE CheckRecords(r)
    <2>1. /\ req[r].pc = "check_record"
          /\ RecordSourceCheck(fetch[r].src, fetch[r].release, fetch[r].row.sha,
                               SourceCheckStatus(fetch[r].row, fetch[r].release))
          /\ Finish(r)
          /\ UNCHANGED <<apps, jobs, unmanaged, refreshAfter, now, fileVars, lockVars,
                         jobVars, faults>>
      BY <1>5 DEF CheckRecords
    <2>2. /\ fetch[r].release \in Releases \cup {None}
          /\ fetch[r].row.sha \in Contents \cup {None}
          /\ SourceCheckStatus(fetch[r].row, fetch[r].release)
                \in {"update_available", "up_to_date", "downloaded", "unchanged", "error"}
          /\ StoreTypeOK
      BY <1>1 DEF SourcesTypeOK, Fetch, Source, SourceCheckStatus, TypeOK, JobsTypeOK
    <2> HIDE DEF SourcesInv
    <2>3. sources' \in [Sources -> Source]
      BY <2>1, <2>2, RecordType
    <2> QED BY <2>1, <2>3, MovesKeep
  <1>6. CASE CheckFails(r)
    <2>1. sources' \in [Sources -> Source]
      BY <1>1, <1>6, RecordType DEF CheckFails, RecordSourceError, TypeOK, JobsTypeOK
    <2> QED BY <1>6, <2>1, MovesKeep DEF CheckFails
  <1>7. CASE DownloadFails(r) \/ DownloadInvalid(r)
    <2>1. fetch[r].release \in Releases \cup {None}
      BY DEF SourcesTypeOK, Fetch
    <2>2. sources' \in [Sources -> Source]
      BY <1>1, <1>7, <2>1, RecordType
         DEF DownloadFails, DownloadInvalid, RecordSourceError, TypeOK, JobsTypeOK
    <2> QED BY <1>7, <2>2, ReturnsKeep DEF DownloadFails, DownloadInvalid
  <1>8. CASE DownloadLocks(r)
    <2>1. /\ Alone(r) /\ req'[r].pc = "download_held" /\ req' \in [Requests -> Request]
      BY <1>1, <1>8, GotoFact, GotoSourceType DEF DownloadLocks, SourcePcs
    <2>2. LockInv'
      BY <1>8, <2>1, LockWrite DEF DownloadLocks, LibraryInv, WritePcs
    <2>3. writer' \in Requests \cup {None} /\ readers' \in SUBSET Requests
      BY <1>1, <1>8 DEF DownloadLocks, AcquireWrite, TypeOK, JobsTypeOK
    <2> QED BY <1>1, <1>8, <2>1, <2>2, <2>3, QuietStep
       DEF DownloadLocks, SourcePcs, storeVars, fileVars, TypeOK, JobsTypeOK
  <1>9. CASE DownloadRefused(r)
    BY <1>1, <1>9, ReturnsKeep DEF DownloadRefused, storeVars
  <1>10. CASE DownloadUnchanged(r)
    <2>1. /\ FetchedContent(r) \in Contents /\ fetch[r].release \in Releases
      BY <1>10, ContentType DEF DownloadUnchanged, FetchInv, ReleasePcs
    <2>2. sources' \in [Sources -> Source]
      BY <1>1, <1>10, <2>1, RecordType DEF DownloadUnchanged, TypeOK, JobsTypeOK
    <2> QED BY <1>10, <2>2, ReturnsKeep DEF DownloadUnchanged
  <1> QED BY <1>2, <1>3, <1>4, <1>5, <1>6, <1>7, <1>8, <1>9, <1>10,
             ReplacesKeep, InsertsKeep, CleansKeep DEF SourceStep

\* A handler of sources.rs that is dropped.
LEMMA SourceDisconnectKeeps ==
    ASSUME SourcesInv, NEW r \in Requests, SourceDisconnect(r)
    PROVE  LibraryInv'
  <1> USE DEF SourcesInv
  <1>1. TypeOK
    BY DEF LibraryInv
  <1>2. /\ Alone(r) /\ req'[r].pc = "idle"
        /\ req' \in [Requests -> Request] /\ ReleaseLock(r)
    BY <1>1, FinishFact, FinishType DEF SourceDisconnect, Return
  <1>3. LockInv'
    BY <1>2, LockRelease DEF LibraryInv, Quiet, ReadPcs, WritePcs
  <1>4. writer' \in Requests \cup {None} /\ readers' \in SUBSET Requests
    BY <1>1, <1>2, ReleaseType
  <1>5. unlinking' \in SUBSET Paths
    BY <1>1 DEF SourceDisconnect, FetchInv, TypeOK, JobsTypeOK
  <1>6. faults' \in [losses : Nat, crashes : Nat, drops : Nat]
    BY <1>1 DEF SourceDisconnect, TypeOK, JobsTypeOK
  <1> QED BY <1>1, <1>2, <1>3, <1>4, <1>5, <1>6, QuietStep
     DEF SourceDisconnect, storeVars, TypeOK, JobsTypeOK, StoreTypeOK

\* A row that is linked again is a row with that app and that configuration.
LEMMA LinkedRow ==
    ASSUME SourcesInv,
           NEW s \in Sources, NEW a \in Apps \cup {None}, NEW k \in Configs,
           UpdateSource(s, a, k)
    PROVE  \E row \in Source : /\ sources' = [sources EXCEPT ![s] = row]
                              /\ row.app = a /\ row.config = k
  <1> DEFINE row == [[[sources[s] EXCEPT !.app = a] EXCEPT !.config = k] EXCEPT !.auto = FALSE]
  <1>1. sources[s] \in Source
    BY DEF SourcesInv, LibraryInv, TypeOK, JobsTypeOK, StoreTypeOK
  <1>2. row \in Source /\ row.app = a /\ row.config = k
    BY <1>1 DEF Source
  <1>3. sources' = [sources EXCEPT ![s] = row]
    BY DEF UpdateSource
  <1> HIDE DEF row
  <1> QED BY <1>2, <1>3

\* What configuring a source changes, and that its row stays configured.
LEMMA ConfigureFacts ==
    ASSUME SourcesInv, NEW s \in Sources, ConfigureSource(s)
    PROVE  /\ sources' \in [Sources -> Source]
           /\ LinkInv'
           /\ calls' \in Nat
           /\ UNCHANGED <<apps, jobs, unmanaged, refreshAfter, now, fileVars, lockVars, req,
                          jobVars, faults, published, fetch, syncer>>
  <1> USE DEF SourcesInv, LibraryInv, TypeOK, JobsTypeOK, StoreTypeOK
  <1>1. ASSUME NEW row \in Source, sources' = [sources EXCEPT ![s] = row], UNCHANGED apps,
               row.known => Configured(row)
        PROVE  sources' \in [Sources -> Source] /\ LinkInv'
    BY <1>1 DEF LinkInv, Configured
  <1>2. /\ calls' \in Nat
        /\ UNCHANGED <<apps, jobs, unmanaged, refreshAfter, now, fileVars, lockVars, req,
                       jobVars, faults, published, fetch, syncer>>
    <2>1. Call /\ SourceUnchanged
      BY DEF ConfigureSource, CreateSource, UpdateSource, RemoveSource, SetAutomation
    <2> QED BY <2>1 DEF Call, SourceUnchanged, SourcesTypeOK
  <1>3. ASSUME NEW a \in Apps \cup {None}, NEW k \in Configs, CreateSource(s, a, k)
        PROVE  sources' \in [Sources -> Source] /\ LinkInv'
    <2> DEFINE row == [NoSource EXCEPT !.known = TRUE, !.app = a, !.config = k]
    <2>1. row \in Source /\ row.app = a /\ row.config = k
      BY DEF NoSource, Source
    <2>2. a # None => a \in Apps /\ apps[a].state # "absent"
      BY <1>3 DEF CreateSource, LinkTargets
    <2>3. sources' = [sources EXCEPT ![s] = row]
      BY <1>3 DEF CreateSource
    <2> HIDE DEF row
    <2> QED BY <1>1, <1>2, <2>1, <2>2, <2>3 DEF Configured
  <1>4. ASSUME NEW a \in Apps \cup {None}, NEW k \in Configs, UpdateSource(s, a, k)
        PROVE  sources' \in [Sources -> Source] /\ LinkInv'
    <2>1. PICK row \in Source : /\ sources' = [sources EXCEPT ![s] = row]
                                /\ row.app = a /\ row.config = k
      BY <1>4, LinkedRow
    <2>2. a # None => a \in Apps /\ apps[a].state # "absent"
      BY <1>4 DEF UpdateSource, LinkTargets
    <2> QED BY <1>1, <1>2, <2>1, <2>2 DEF Configured
  <1>5. CASE RemoveSource(s)
    <2>1. NoSource \in Source /\ ~NoSource.known
      BY DEF NoSource, Source
    <2> QED BY <1>1, <1>2, <1>5, <2>1 DEF RemoveSource
  <1>6. ASSUME NEW enabled \in BOOLEAN, SetAutomation(s, enabled)
        PROVE  sources' \in [Sources -> Source] /\ LinkInv'
    <2> DEFINE row == [sources[s] EXCEPT !.auto = enabled]
    <2>1. /\ row \in Source /\ row.app = sources[s].app /\ row.config = sources[s].config
      BY DEF Source
    <2>2. sources[s].known /\ sources' = [sources EXCEPT ![s] = row]
      BY <1>6 DEF SetAutomation
    <2> HIDE DEF row
    <2> QED BY <1>1, <1>2, <2>1, <2>2 DEF LinkInv, Configured
  <1> QED BY <1>2, <1>3, <1>4, <1>5, <1>6 DEF ConfigureSource

\* Configuring a source does not concern the library.
LEMMA ConfigureKeeps ==
    ASSUME SourcesInv, NEW s \in Sources, ConfigureSource(s)
    PROVE  LibraryInv'
  <1>1. LibraryInv /\ TypeOK
    BY DEF SourcesInv, LibraryInv
  <1>2. TypeOK'
    BY <1>1, ConfigureFacts DEF TypeOK, JobsTypeOK, StoreTypeOK, fileVars, lockVars, jobVars
  <1>3. LockInv' /\ RowInv' /\ FileInv' /\ HandlerInv' /\ UploadInv'
    BY <1>1, ConfigureFacts
       DEF LibraryInv, LockInv, RowInv, FileInv, HandlerInv, UploadInv, fileVars, lockVars
  <1>4. TodoInv' /\ JobInv' /\ SignedIsCurrent'
    BY <1>1, ConfigureFacts
       DEF LibraryInv, TodoInv, JobInv, SignedIsCurrent, Running, IsActive, IsLive, jobVars
  <1> QED BY <1>2, <1>3, <1>4 DEF LibraryInv

\* Every step of the composition keeps the library's invariant.
LEMMA LibraryKept ==
    ASSUME SourcesInv, SourcesNext
    PROVE  LibraryInv'
  <1>1. LibraryInv
    BY DEF SourcesInv
  <1>2. CASE LibraryStep \/ SourceRestart
    BY <1>1, <1>2, LibraryInvStep DEF SourceRestart, LibraryNext
  <1>3. ASSUME NEW k \in Configs, Publish(k) PROVE LibraryInv'
    BY <1>1, <1>3, LibraryInvStutter DEF Publish
  <1> QED BY <1>2, <1>3, SourceStepKeeps, SourceDisconnectKeeps, ConfigureKeeps DEF SourcesNext

-----------------------------------------------------------------------------
(* What a source handler may rely on *)

RowsStay == \A a \in Apps : apps[a].state # "absent" => apps'[a].state # "absent"

SourcesWait == \A q \in Requests : req'[q].pc \in SourcePcs => req'[q] = req[q]

\* A step of the library leaves the handlers of sources.rs where they are.
LEMMA LibraryLeavesFetches ==
    ASSUME LibraryInv, LibraryNext
    PROVE  RowsStay /\ SourcesWait
  <1>1. LibraryInv' /\ TypeOK
    BY LibraryInvStep DEF LibraryInv
  <1>2. ASSUME NEW r \in Requests, RequestArrives(r) PROVE RowsStay /\ SourcesWait
    BY <1>2, ArrivesFrame, ArrivesLeads DEF Alone, RowsStay, SourcesWait
  <1>3. ASSUME NEW r \in Requests, RequestStep(r) PROVE RowsStay /\ SourcesWait
    BY <1>3, RowsKept, RequestLeads DEF Alone, RowsStay, SourcesWait
  <1>4. ASSUME NEW r \in Requests, Disconnect(r) PROVE RowsStay /\ SourcesWait
    BY <1>1, <1>4, FinishFact DEF Disconnect, Return, Alone, RowsStay, SourcesWait, SourcePcs, storeVars
  <1>5. CASE Restart
    BY <1>5 DEF Restart, NoRequest, SourcePcs, RowsStay, SourcesWait, storeVars
  <1>6. CASE UNCHANGED <<apps, req>>
    BY <1>6 DEF RowsStay, SourcesWait
  <1> QED BY <1>2, <1>3, <1>4, <1>5, <1>6, RunnerFrame
     DEF LibraryNext, LibraryStep, ForgetInstallation, UpdateRefreshSettings, UnlinkRuns, Tick,
         LoseFile, storeVars

\* What a step has to leave alone for the facts about fetches to survive.
LEMMA FetchKept ==
    ASSUME FetchInv, NEW r \in Requests, RowsStay, Alone(r),
           \A q \in Requests \ {r} : fetch'[q] = fetch[q],
           req'[r].pc \in FetchPcs =>
               /\ fetch'[r].src \in Sources
               /\ fetch'[r].row.config \in Configs
               /\ fetch'[r].row.app # None =>
                     fetch'[r].row.app \in Apps /\ apps'[fetch'[r].row.app].state # "absent",
           req'[r].pc \in ReleasePcs => fetch'[r].release \in Releases,
           req'[r].pc = "download_clean" => req'[r].path \in Paths
    PROVE  FetchInv'
  BY DEF FetchInv, Alone, RowsStay, Configured, FetchPcs

\* No step of a handler of sources.rs removes a row of apps.
LEMMA SourceRowsStay ==
    ASSUME SourcesInv, NEW r \in Requests,
           SourceArrives(r) \/ SourceStep(r) \/ SourceDisconnect(r)
    PROVE  RowsStay
  <1>1. UNCHANGED apps \/ DownloadReplaces(r) \/ DownloadInserts(r)
    BY DEF SourceArrives, SourceStep, SourceDisconnect, CheckArrives, DownloadArrives, SyncArrives,
       CheckFindsRelease, CheckRecords, CheckFails, DownloadFindsRelease, DownloadFails,
       DownloadCompletes, DownloadInvalid, DownloadLocks, DownloadRefused, DownloadUnchanged,
       DownloadCleans, SyncDownloads, SyncReturns, storeVars
  <1>2. CASE UNCHANGED apps
    BY <1>2 DEF RowsStay
  <1>3. CASE \E a, c, p : InsertApp(a, c, p)
    BY <1>3 DEF InsertApp, RowsStay, SourcesInv, LibraryInv, TypeOK, JobsTypeOK, StoreTypeOK
  <1>4. CASE DownloadReplaces(r)
    BY <1>2, <1>3, <1>4 DEF DownloadReplaces, ReplaceAppFromSource
  <1>5. CASE DownloadInserts(r)
    BY <1>2, <1>3, <1>5 DEF DownloadInserts
  <1> QED BY <1>1, <1>2, <1>4, <1>5

\* A source handler that takes a step keeps what it carries consistent.
LEMMA FetchStep ==
    ASSUME SourcesInv, NEW r \in Requests,
           SourceArrives(r) \/ SourceStep(r) \/ SourceDisconnect(r)
    PROVE  FetchInv' /\ fetch' \in [Requests -> Fetch]
  <1> USE DEF SourcesInv, SourcesTypeOK
  <1>1. /\ TypeOK /\ RowsStay
        /\ sources \in [Sources -> Source]
    BY SourceRowsStay DEF LibraryInv, TypeOK, JobsTypeOK, StoreTypeOK
  <1>2. NoFetch \in Fetch
    BY DEF NoFetch, Fetch, NoSource, Source
  <1>3. ASSUME NEW x \in Fetch, fetch' = [fetch EXCEPT ![r] = x], Alone(r),
               req'[r].pc \in FetchPcs => x.src \in Sources /\ Configured(x.row),
               req'[r].pc \in ReleasePcs => x.release \in Releases,
               req'[r].pc = "download_clean" => req'[r].path \in Paths
        PROVE  FetchInv' /\ fetch' \in [Requests -> Fetch]
    <2>1. /\ fetch' \in [Requests -> Fetch] /\ fetch'[r] = x
          /\ \A q \in Requests \ {r} : fetch'[q] = fetch[q]
      BY <1>3
    <2> QED BY <1>1, <1>3, <2>1, FetchKept DEF Configured, RowsStay
  <1>4. \A pc : Goto(r, pc) => Alone(r) /\ req'[r].pc = pc
    BY <1>1, GotoFact
  <1>5. ASSUME NEW s \in Sources, CheckArrives(r, s) \/ DownloadArrives(r, s)
        PROVE  FetchInv' /\ fetch' \in [Requests -> Fetch]
    <2> DEFINE x == [[[fetch[r] EXCEPT !.src = s] EXCEPT !.row = sources[s]] EXCEPT !.release = None]
    <2>1. x \in Fetch /\ x.src = s /\ x.row = sources[s]
      BY <1>1 DEF Fetch
    <2>2. /\ Alone(r) /\ req'[r].pc \in {"check_release", "download_release"}
          /\ sources[s].known /\ fetch' = [fetch EXCEPT ![r] = x]
      BY <1>4, <1>5 DEF CheckArrives, DownloadArrives, Snapshot
    <2>3. Configured(sources[s])
      BY <2>2 DEF LinkInv
    <2> HIDE DEF x
    <2> QED BY <1>3, <2>1, <2>2, <2>3 DEF ReleasePcs
  <1>6. CASE CheckFindsRelease(r) \/ DownloadFindsRelease(r)
    <2> DEFINE l == LatestRelease(fetch[r].row.config)
               x == [fetch[r] EXCEPT !.release = l]
    <2>1. /\ req[r].pc \in FetchPcs /\ FindsRelease(r)
          /\ Alone(r) /\ req'[r].pc \in {"check_record", "download_asset"}
      BY <1>4, <1>6 DEF CheckFindsRelease, DownloadFindsRelease, FetchPcs
    <2>2. fetch[r].src \in Sources /\ Configured(fetch[r].row) /\ l \in Releases
      BY <2>1, LatestType DEF FetchInv, Configured, FindsRelease
    <2>3. fetch' = [fetch EXCEPT ![r] = x]
      BY <2>1 DEF FindsRelease
    <2> HIDE DEF l
    <2>4. x \in Fetch /\ x.src = fetch[r].src /\ x.row = fetch[r].row /\ x.release = l
      BY <2>2 DEF Fetch
    <2> HIDE DEF x
    <2> QED BY <1>3, <2>1, <2>2, <2>3, <2>4
  <1>7. CASE DownloadCompletes(r) \/ DownloadLocks(r)
    <2>1. /\ req[r].pc \in FetchPcs /\ req[r].pc \in ReleasePcs
          /\ Alone(r) /\ req'[r].pc \in {"download_wait", "download_held"}
          /\ UNCHANGED fetch
      BY <1>4, <1>7 DEF DownloadCompletes, DownloadLocks, FetchPcs, ReleasePcs, sourceVars
    <2>2. fetch' = [fetch EXCEPT ![r] = fetch[r]]
      BY <2>1
    <2> QED BY <1>3, <2>1, <2>2 DEF FetchInv
  <1>8. CASE DownloadReplaces(r) \/ DownloadInserts(r)
    <2>1. UNCHANGED fetch /\ fetch' = [fetch EXCEPT ![r] = fetch[r]]
      BY <1>8 DEF DownloadReplaces, DownloadInserts, sourceVars
    <2>2. req[r].pc = "download_held" /\ FetchedContent(r) \in Contents
      BY <1>8, ContentType DEF DownloadReplaces, DownloadInserts, ReleasePcs
    <2>3. PICK a \in Apps \cup {None}, p \in Paths :
             req' = [req EXCEPT ![r].pc = "download_clean", ![r].app = a, ![r].path = p]
      <3>1. CASE DownloadInserts(r)
        BY <3>1 DEF DownloadInserts, UploadPath, Paths
      <3>2. CASE DownloadReplaces(r)
        <4> DEFINE b == fetch[r].row.app
                   n == SourcePath(b, FetchedContent(r))
        <4>1. b \in Apps /\ apps[b].state # "absent"
          BY <2>2, <3>2 DEF DownloadReplaces, FetchInv, FetchPcs, Configured
        <4>2. apps[b].path \in Paths /\ n \in Paths
          BY <2>2, <4>1, RowPath DEF LibraryInv, Paths, SourcePath
        <4>3. req[r].app \in Apps \cup {None}
          BY <1>1 DEF TypeOK, JobsTypeOK, Request
        <4>4. PICK p \in Paths :
                 req' = [req EXCEPT ![r].pc = "download_clean", ![r].path = p]
          BY <3>2, <4>2 DEF DownloadReplaces
        <4>5. req' = [req EXCEPT ![r].pc = "download_clean", ![r].app = req[r].app, ![r].path = p]
          BY <1>1, <4>4 DEF TypeOK, JobsTypeOK, Request
        <4> QED BY <4>3, <4>5
      <3> QED BY <1>8, <3>1, <3>2
    <2>4. Alone(r) /\ req'[r].pc = "download_clean" /\ req'[r].path = p
      BY <1>1, <2>3 DEF Alone, TypeOK, JobsTypeOK, Request
    <2> QED BY <1>3, <2>1, <2>4 DEF FetchPcs, ReleasePcs
  <1>9. CASE ReturnDownload(r)
    <2>1. [NoFetch EXCEPT !.todo = fetch[r].todo] \in Fetch
      BY <1>2 DEF Fetch
    <2> QED BY <1>1, <1>3, <1>9, <2>1, ReturnDownloadFact DEF ReturnDownload, FetchPcs, ReleasePcs
  <1>10. CASE SyncArrives(r)
    <2> DEFINE x == [fetch[r] EXCEPT !.todo = {s \in Sources : sources[s].auto}]
    <2>1. x \in Fetch
      BY DEF Fetch
    <2>2. /\ fetch' = [fetch EXCEPT ![r] = x]
          /\ Alone(r) /\ req'[r].pc = "sync_next"
      BY <1>4, <1>10 DEF SyncArrives
    <2> HIDE DEF x
    <2> QED BY <1>3, <2>1, <2>2 DEF FetchPcs, ReleasePcs
  <1>11. CASE SyncDownloads(r)
    <2>1. PICK s \in fetch[r].todo :
            \/ /\ sources[s].known
               /\ fetch' = [fetch EXCEPT ![r] = [src |-> s, row |-> sources[s], release |-> None,
                                                 todo |-> fetch[r].todo \ {s}]]
               /\ Goto(r, "download_release")
            \/ /\ fetch' = [fetch EXCEPT ![r].todo = @ \ {s}]
               /\ UNCHANGED req
      BY <1>11 DEF SyncDownloads
    <2>2. s \in Sources /\ req[r].pc = "sync_next"
      BY <1>11 DEF Fetch, SyncDownloads
    <2>3. CASE Goto(r, "download_release") /\ sources[s].known
      <3> DEFINE x == [src |-> s, row |-> sources[s], release |-> None, todo |-> fetch[r].todo \ {s}]
      <3>1. x \in Fetch /\ x.src = s /\ x.row = sources[s]
        BY <1>1, <2>2 DEF Fetch
      <3>2. Alone(r) /\ req'[r].pc = "download_release" /\ req[r].pc # req'[r].pc
        BY <1>4, <2>2, <2>3
      <3>3. fetch' = [fetch EXCEPT ![r] = x]
        BY <2>1, <3>2
      <3>4. x.src \in Sources /\ Configured(x.row)
        BY <2>2, <2>3, <3>1 DEF LinkInv
      <3>5. req'[r].pc \notin ReleasePcs /\ req'[r].pc # "download_clean"
        BY <3>2 DEF ReleasePcs
      <3> HIDE DEF x
      <3> QED BY <1>3, <3>1, <3>2, <3>3, <3>4, <3>5
    <2>4. CASE fetch' = [fetch EXCEPT ![r].todo = @ \ {s}] /\ UNCHANGED req
      <3>1. [fetch[r] EXCEPT !.todo = @ \ {s}] \in Fetch
        BY DEF Fetch
      <3>2. Alone(r) /\ req'[r].pc = "sync_next"
        BY <2>2, <2>4 DEF Alone
      <3> QED BY <1>3, <2>4, <3>1, <3>2 DEF FetchPcs, ReleasePcs
    <2> QED BY <2>1, <2>3, <2>4
  <1>12. CASE Finish(r) /\ EndFetch(r)
    BY <1>1, <1>2, <1>3, <1>12, FinishFact DEF EndFetch, FetchPcs, ReleasePcs
  <1> QED BY <1>5, <1>6, <1>7, <1>8, <1>9, <1>10, <1>11, <1>12
     DEF SourceArrives, SourceStep, SourceDisconnect, CheckRecords, CheckFails, DownloadFails,
         DownloadInvalid, DownloadRefused, DownloadUnchanged, DownloadCleans, SyncReturns, Return

-----------------------------------------------------------------------------
(* That sources stay configured *)

LinksStay ==
    \A s \in Sources : /\ sources'[s].known = sources[s].known
                       /\ sources'[s].app = sources[s].app
                       /\ sources'[s].config = sources[s].config

\* The links of sources survive as long as the rows they name do.
LEMMA LinksKept ==
    ASSUME LinkInv, RowsStay, LinksStay
    PROVE  LinkInv'
  BY DEF LinkInv, Configured, RowsStay, LinksStay

\* A step of the library does not touch the configuration of a source.
LEMMA LibraryLeavesLinks ==
    ASSUME LibraryInv, LibraryNext
    PROVE  LinksStay
  <1>1. ASSUME NEW r \in Requests, DeleteMarks(r) PROVE LinksStay
    <2>1. \A row \in Source : /\ [row EXCEPT !.auto = FALSE].known = row.known
                              /\ [row EXCEPT !.auto = FALSE].app = row.app
                              /\ [row EXCEPT !.auto = FALSE].config = row.config
      BY DEF Source
    <2>2. sources \in [Sources -> Source]
      BY DEF LibraryInv, TypeOK, JobsTypeOK, StoreTypeOK
    <2> QED BY <1>1, <2>1, <2>2 DEF DeleteMarks, MarkAppDeleted, LinksStay
  <1>2. CASE UNCHANGED sources
    BY <1>2 DEF LinksStay
  <1>3. ASSUME NEW r \in Requests, RequestStep(r) PROVE UNCHANGED sources \/ DeleteMarks(r)
    BY <1>3 DEF RequestStep, CreateLocks, CreateQueues, CreateRefused, RefreshLocks, RefreshReady,
       RefreshRefused, RefreshReadsTargets, RefreshQueues, RefreshSkips, RefreshReturns,
       DeleteLocks, DeleteRefused, DeleteRemovesFile, DeleteUndoes, UploadRenames, UploadInserts,
       UploadNotInserted, UploadDiscards, storeVars
  <1> QED BY <1>1, <1>2, <1>3, ArrivesFrame, RunnerFrame
     DEF LibraryNext, LibraryStep, ForgetInstallation, UpdateRefreshSettings, UnlinkRuns, Tick,
         LoseFile, Disconnect, Restart, storeVars

\* What a check or a download records is not part of the configuration either.
LEMMA RecordLeavesLinks ==
    ASSUME SourcesInv, NEW r \in Requests, SourceStep(r)
    PROVE  LinksStay \/ DownloadInserts(r)
  <1> USE DEF SourcesInv
  <1>1. /\ StoreTypeOK
        /\ fetch[r].release \in Releases \cup {None}
        /\ fetch[r].row.sha \in Contents \cup {None}
    BY DEF LibraryInv, TypeOK, JobsTypeOK, SourcesTypeOK, Fetch, Source
  <1>2. ASSUME NEW s, NEW release \in Releases \cup {None}, NEW sha \in Contents \cup {None},
               NEW status \in {"update_available", "up_to_date", "downloaded", "unchanged", "error"},
               RecordSourceCheck(s, release, sha, status)
        PROVE  LinksStay
    <2> HIDE DEF SourcesInv
    <2> QED BY <1>1, <1>2, RecordType DEF LinksStay
  <1>3. CASE UNCHANGED sources
    BY <1>3 DEF LinksStay
  <1>4. CASE CheckRecords(r)
    BY <1>1, <1>2, <1>4 DEF CheckRecords, SourceCheckStatus
  <1>5. CASE CheckFails(r) \/ DownloadFails(r) \/ DownloadInvalid(r)
    BY <1>1, <1>2, <1>5 DEF CheckFails, DownloadFails, DownloadInvalid, RecordSourceError
  <1>6. CASE DownloadUnchanged(r)
    <2>1. FetchedContent(r) \in Contents
      BY <1>6, ContentType DEF DownloadUnchanged, ReleasePcs
    <2> QED BY <1>1, <1>2, <1>6, <2>1 DEF DownloadUnchanged
  <1>7. CASE DownloadReplaces(r)
    <2>1. FetchedContent(r) \in Contents
      BY <1>7, ContentType DEF DownloadReplaces, ReleasePcs
    <2> QED BY <1>1, <1>2, <1>3, <1>7, <2>1 DEF DownloadReplaces, ReplaceAppFromSource
  <1> QED BY <1>3, <1>4, <1>5, <1>6, <1>7
     DEF SourceStep, CheckFindsRelease, DownloadFindsRelease, DownloadCompletes, DownloadLocks,
         DownloadRefused, DownloadCleans, SyncDownloads, SyncReturns, storeVars

\* A download may link its source to the app that it inserts, which is live then.
LEMMA InsertLinks ==
    ASSUME SourcesInv, NEW r \in Requests, DownloadInserts(r)
    PROVE  LinkInv'
  <1> USE DEF SourcesInv
  <1>1. RowsStay /\ sources \in [Sources -> Source] /\ apps \in [Apps -> App]
    BY SourceRowsStay DEF SourceStep, LibraryInv, TypeOK, JobsTypeOK, StoreTypeOK
  <1>2. CASE UNCHANGED sources
    BY <1>1, <1>2, LinksKept DEF LinksStay
  <1>3. ASSUME NEW a \in Apps, NEW c, NEW p, NEW release, InsertApp(a, c, p),
               sources' = [sources EXCEPT ![fetch[r].src] =
                             [@ EXCEPT !.app = a, !.release = release,
                                       !.sha = c, !.status = "downloaded"]]
        PROVE  LinkInv'
    <2>1. apps'[a].state = "live"
      BY <1>1, <1>3 DEF InsertApp
    <2> DEFINE Linked(row) == [row EXCEPT !.app = a, !.release = release,
                                          !.sha = c, !.status = "downloaded"]
    <2>2. \A row \in Source : /\ Linked(row).known = row.known
                              /\ Linked(row).app = a
                              /\ Linked(row).config = row.config
      BY DEF Source
    <2>3. sources' = [sources EXCEPT ![fetch[r].src] = Linked(sources[fetch[r].src])]
      BY <1>3
    <2> HIDE DEF Linked
    <2>4. ASSUME NEW s \in Sources, sources'[s].known
          PROVE  Configured(sources[s]) /\ (s # fetch[r].src => sources'[s] = sources[s])
      BY <1>1, <2>2, <2>3, <2>4 DEF LinkInv
    <2>5. ASSUME NEW s \in Sources, sources'[s].known
          PROVE  /\ sources'[s].config \in Configs
                 /\ sources'[s].app # None =>
                       sources'[s].app \in Apps /\ apps'[sources'[s].app].state # "absent"
      BY <1>1, <2>1, <2>2, <2>3, <2>4, <2>5 DEF Configured, RowsStay
    <2> QED BY <2>5 DEF LinkInv, Configured
  <1> QED BY <1>2, <1>3 DEF DownloadInserts

\* Every step keeps the sources configured.
LEMMA LinksStep ==
    ASSUME SourcesInv, SourcesNext
    PROVE  LinkInv'
  <1> USE DEF SourcesInv
  <1>1. CASE LibraryStep \/ SourceRestart
    BY <1>1, LibraryLeavesLinks, LibraryLeavesFetches, LinksKept DEF SourceRestart, LibraryNext
  <1>2. ASSUME NEW r \in Requests, SourceStep(r) PROVE LinkInv'
    BY <1>2, RecordLeavesLinks, InsertLinks, SourceRowsStay, LinksKept
  <1>3. ASSUME NEW r \in Requests, SourceArrives(r) \/ SourceDisconnect(r) PROVE LinkInv'
    <2>1. UNCHANGED sources
      BY <1>3 DEF SourceArrives, CheckArrives, DownloadArrives, SyncArrives, SourceDisconnect,
         storeVars
    <2> QED BY <1>3, <2>1, SourceRowsStay, LinksKept DEF LinksStay
  <1>4. ASSUME NEW k \in Configs, Publish(k) PROVE LinkInv'
    BY <1>4, LinksKept DEF Publish, vars, storeVars, LinksStay, RowsStay
  <1> QED BY <1>1, <1>2, <1>3, <1>4, ConfigureFacts DEF SourcesNext

-----------------------------------------------------------------------------
(* The invariant *)

\* What a handler of sources.rs carries, and who synchronises.
LEMMA FetchesStep ==
    ASSUME SourcesInv, SourcesNext
    PROVE  FetchInv' /\ SourcesTypeOK'
  <1> USE DEF SourcesInv
  <1>1. JobsTypeOK'
    BY LibraryKept DEF LibraryInv, TypeOK
  <1> USE DEF SourcesTypeOK
  <1>2. CASE LibraryStep /\ UNCHANGED sourceVars
    <2>1. RowsStay /\ SourcesWait
      BY <1>2, LibraryLeavesFetches DEF LibraryNext
    <2>2. FetchPcs \cup ReleasePcs \cup {"download_clean"} \subseteq SourcePcs
      BY DEF FetchPcs, ReleasePcs, SourcePcs
    <2>3. FetchInv'
      BY <1>2, <2>1, <2>2 DEF FetchInv, Configured, RowsStay, SourcesWait, sourceVars
    <2> QED BY <1>1, <1>2, <2>3 DEF sourceVars
  <1>3. ASSUME NEW r \in Requests, SourceArrives(r) \/ SourceStep(r) \/ SourceDisconnect(r)
        PROVE  FetchInv' /\ SourcesTypeOK'
    <2>1. FetchInv' /\ fetch' \in [Requests -> Fetch]
      BY <1>3, FetchStep
    <2>2. published' = published /\ syncer' \in {syncer, r, None} /\ calls' \in {calls, calls + 1}
      BY <1>3 DEF SourceArrives, SourceStep, SourceDisconnect, CheckArrives, DownloadArrives,
         SyncArrives, CheckFindsRelease, CheckRecords, CheckFails, DownloadFindsRelease,
         DownloadFails, DownloadCompletes, DownloadInvalid, DownloadLocks, DownloadRefused,
         DownloadUnchanged, DownloadReplaces, DownloadInserts, DownloadCleans, SyncDownloads,
         SyncReturns, Call, sourceVars
    <2> QED BY <1>1, <2>1, <2>2
  <1>4. ASSUME NEW s \in Sources, ConfigureSource(s) PROVE FetchInv' /\ SourcesTypeOK'
    BY <1>1, <1>4, ConfigureFacts DEF FetchInv, Configured
  <1>5. ASSUME NEW k \in Configs, Publish(k) PROVE FetchInv' /\ SourcesTypeOK'
    BY <1>1, <1>5, BoundAssumption
       DEF Publish, vars, storeVars, FetchInv, Configured
  <1>6. CASE SourceRestart
    <2>1. NoFetch \in Fetch
      BY DEF NoFetch, Fetch, NoSource, Source
    <2>2. fetch' \in [Requests -> Fetch] /\ syncer' = None /\ UNCHANGED <<published, calls>>
      BY <1>6, <2>1 DEF SourceRestart
    <2>3. FetchInv'
      BY <1>6 DEF SourceRestart, Restart, FetchInv, NoRequest, FetchPcs, ReleasePcs
    <2> QED BY <1>1, <2>2, <2>3
  <1> QED BY <1>2, <1>3, <1>4, <1>5, <1>6 DEF SourcesNext

\* The invariant holds when the server starts on an empty database.
LEMMA SourcesInvInit == SourcesInit => SourcesInv
  <1> SUFFICES ASSUME SourcesInit PROVE SourcesInv
    OBVIOUS
  <1>1. LibraryInv
    BY LibraryInvInit DEF SourcesInit
  <1>2. LinkInv
    BY DEF SourcesInit, JobsInit, LinkInv, NoSource
  <1>3. FetchInv
    BY DEF SourcesInit, JobsInit, FetchInv, NoRequest, FetchPcs, ReleasePcs
  <1>4. NoFetch \in Fetch
    BY DEF NoFetch, Fetch, NoSource, Source
  <1>5. SourcesTypeOK
    BY <1>1, <1>4, BoundAssumption DEF SourcesInit, SourcesTypeOK, LibraryInv, TypeOK
  <1> QED BY <1>1, <1>2, <1>3, <1>5 DEF SourcesInv

\* Every step keeps it.
LEMMA SourcesInvStep == SourcesInv /\ [SourcesNext]_allVars => SourcesInv'
  <1> SUFFICES ASSUME SourcesInv, [SourcesNext]_allVars PROVE SourcesInv'
    OBVIOUS
  <1>1. CASE SourcesNext
    <2>1. LibraryInv' /\ LinkInv' /\ FetchInv' /\ SourcesTypeOK'
      BY <1>1, LibraryKept, LinksStep, FetchesStep
    <2> QED BY <2>1 DEF SourcesInv
  <1>2. CASE UNCHANGED allVars
    <2>1. LibraryInv'
      BY <1>2, LibraryInvStutter DEF SourcesInv, allVars
    <2>2. UNCHANGED <<apps, sources, req, fetch, published, syncer, calls>>
      BY <1>2 DEF allVars, vars, storeVars, sourceVars
    <2>3. SourcesTypeOK'
      BY <2>1, <2>2 DEF SourcesInv, SourcesTypeOK, LibraryInv, TypeOK
    <2>4. LinkInv' /\ FetchInv'
      BY <2>2 DEF SourcesInv, LinkInv, FetchInv, Configured
    <2> QED BY <2>1, <2>3, <2>4 DEF SourcesInv
  <1> QED BY <1>1, <1>2

\* With any number of sources, releases, downloads and faults, the invariant of the
\* library holds throughout, and a source handler that comes back from GitHub finds
\* what it carries still meaningful.
THEOREM SourcesInvariance == SourcesSpec => []SourcesInv
  <1> QED BY SourcesInvInit, SourcesInvStep, PTL DEF SourcesSpec

\* No download exchanges or moves the IPA of a job that runs.
THEOREM SourcesJobIpaKept == SourcesSpec => []JobIpaKept
  <1>1. SourcesInv => JobIpaKept
    BY DEF SourcesInv, LibraryInv, JobInv, FileInv, JobIpaKept, IsLive, IsActive, ActivePhases
  <1> QED BY <1>1, SourcesInvariance, PTL

\* What a job installs is the content the library records for its app, although
\* downloads exchange IPAs while jobs are queued, signed and installed.
THEOREM SourcesSignedIsCurrent == SourcesSpec => []SignedIsCurrent
  <1>1. SourcesInv => SignedIsCurrent
    BY DEF SourcesInv, LibraryInv
  <1> QED BY <1>1, SourcesInvariance, PTL

\* Type correctness of the composition.
THEOREM SourcesTypes == SourcesSpec => []SourcesTypeOK
  <1>1. SourcesInv => SourcesTypeOK
    BY DEF SourcesInv
  <1> QED BY <1>1, SourcesInvariance, PTL

-----------------------------------------------------------------------------
(* What downloads do to the rows and the files *)

\* What the steps of a source handler change of the library.
LEMMA SourceEffects ==
    ASSUME NEW r \in Requests, SourceArrives(r) \/ SourceStep(r)
    PROVE  /\ UNCHANGED <<jobs, unmanaged, unlinking, jobVars, faults>>
           /\ UNCHANGED apps \/ DownloadReplaces(r) \/ DownloadInserts(r)
           /\ \/ UNCHANGED files
              \/ DownloadReplaces(r) \/ DownloadInserts(r) \/ DownloadCleans(r)
           /\ req[r].pc \notin PathPcs \/ DownloadCleans(r)
  BY DEF SourceArrives, SourceStep, CheckArrives, DownloadArrives, SyncArrives,
     CheckFindsRelease, CheckRecords, CheckFails, DownloadFindsRelease, DownloadFails,
     DownloadCompletes, DownloadInvalid, DownloadLocks, DownloadRefused, DownloadUnchanged,
     DownloadReplaces, DownloadInserts, DownloadCleans, SyncDownloads, SyncReturns,
     storeVars, fileVars, PathPcs, UploadPcs

\* They move no other request.
LEMMA SourceAlone ==
    ASSUME SourcesInv, NEW r \in Requests, SourceArrives(r) \/ SourceStep(r)
    PROVE  Alone(r)
  <1> USE DEF SourcesInv, LibraryInv, TypeOK
  <1>1. ASSUME NEW pc, Goto(r, pc) PROVE Alone(r)
    BY <1>1 DEF Goto, Alone, JobsTypeOK
  <1>2. CASE Finish(r) \/ ReturnDownload(r) \/ UNCHANGED req
    BY <1>2, FinishFact, ReturnDownloadFact DEF Alone
  <1>3. CASE DownloadReplaces(r) \/ DownloadInserts(r)
    BY <1>3 DEF DownloadReplaces, DownloadInserts, Alone, JobsTypeOK
  <1> QED BY <1>1, <1>2, <1>3
     DEF SourceArrives, SourceStep, CheckArrives, DownloadArrives, SyncArrives,
         CheckFindsRelease, CheckRecords, CheckFails, DownloadFindsRelease, DownloadFails,
         DownloadCompletes, DownloadInvalid, DownloadLocks, DownloadRefused, DownloadUnchanged,
         DownloadCleans, SyncDownloads, SyncReturns

\* The app that a download replaces is the one whose row the handler carries, and
\* has the bundle identifier of the IPA that was downloaded.
LEMMA ReplaceFacts ==
    ASSUME SourcesInv, NEW r \in Requests, DownloadReplaces(r)
    PROVE  LET a == fetch[r].row.app
               c == FetchedContent(r)
           IN  /\ a \in Apps /\ c \in Contents /\ SourcePath(a, c) \in Paths
               /\ BundleOf[apps[a].content] = BundleOf[c]
               /\ files' = [files EXCEPT ![SourcePath(a, c)] = c]
               /\ \A b \in Apps \ {a} : apps'[b] = apps[b]
               /\ \/ /\ apps'[a] = [state |-> "live", content |-> c, path |-> SourcePath(a, c)]
                     /\ req'[r].pc = "download_clean" /\ req'[r].path = apps[a].path
                  \/ /\ UNCHANGED apps
                     /\ req'[r].pc = "download_clean" /\ req'[r].path = SourcePath(a, c)
  <1> USE DEF SourcesInv, LibraryInv, TypeOK
  <1> DEFINE a == fetch[r].row.app
             c == FetchedContent(r)
  <1>1. a \in Apps /\ c \in Contents
    BY ContentType DEF DownloadReplaces, FetchInv, FetchPcs, ReleasePcs, Configured
  <1>2. SourcePath(a, c) \in Paths
    BY <1>1 DEF SourcePath, Paths
  <1>3. /\ BundleOf[apps[a].content] = BundleOf[c]
        /\ files' = [files EXCEPT ![SourcePath(a, c)] = c]
    BY DEF DownloadReplaces, MayReplace
  <1>4. \/ /\ apps' = [apps EXCEPT ![a] = [state |-> "live", content |-> c, path |-> SourcePath(a, c)]]
           /\ req' = [req EXCEPT ![r].pc = "download_clean", ![r].path = apps[a].path]
        \/ /\ UNCHANGED apps
           /\ req' = [req EXCEPT ![r].pc = "download_clean", ![r].path = SourcePath(a, c)]
    BY DEF DownloadReplaces, ReplaceAppFromSource, InsertApp
  <1> HIDE DEF a, c
  <1>5. ASSUME NEW x, req' = [req EXCEPT ![r].pc = "download_clean", ![r].path = x]
        PROVE  req'[r].pc = "download_clean" /\ req'[r].path = x
    BY <1>5 DEF JobsTypeOK, Request
  <1>6. \/ /\ apps'[a] = [state |-> "live", content |-> c, path |-> SourcePath(a, c)]
           /\ \A b \in Apps \ {a} : apps'[b] = apps[b]
           /\ req'[r].pc = "download_clean" /\ req'[r].path = apps[a].path
        \/ /\ UNCHANGED apps
           /\ req'[r].pc = "download_clean" /\ req'[r].path = SourcePath(a, c)
    BY <1>1, <1>4, <1>5 DEF JobsTypeOK, StoreTypeOK
  <1> QED BY <1>1, <1>2, <1>3, <1>6 DEF a, c

\* The app that a download adds is one that nobody knows.
LEMMA InsertFacts ==
    ASSUME SourcesInv, NEW r \in Requests, DownloadInserts(r)
    PROVE  \E a \in Apps :
               /\ apps[a].state = "absent" /\ UploadPath(a) \in Paths
               /\ files' = [files EXCEPT ![UploadPath(a)] = FetchedContent(r)]
               /\ \A b \in Apps \ {a} : apps'[b] = apps[b]
               /\ req'[r].pc = "download_clean" /\ req'[r].path = UploadPath(a)
  <1> USE DEF SourcesInv, LibraryInv, TypeOK
  <1>1. PICK a \in Apps :
          /\ FreshApp(a)
          /\ files' = [files EXCEPT ![UploadPath(a)] = FetchedContent(r)]
          /\ req' = [req EXCEPT ![r].pc = "download_clean", ![r].app = a,
                                ![r].path = UploadPath(a)]
          /\ InsertApp(a, FetchedContent(r), UploadPath(a)) \/ UNCHANGED apps
    BY DEF DownloadInserts
  <1>2. \A b \in Apps \ {a} : apps'[b] = apps[b]
    BY <1>1 DEF InsertApp, JobsTypeOK, StoreTypeOK
  <1>3. req'[r].pc = "download_clean" /\ req'[r].path = UploadPath(a)
    BY <1>1 DEF JobsTypeOK, Request
  <1>4. apps[a].state = "absent" /\ UploadPath(a) \in Paths
    BY <1>1 DEF FreshApp, UploadPath, Paths
  <1> QED BY <1>1, <1>2, <1>3, <1>4

\* Every step keeps the bundle identifier of an app.
LEMMA BundleStep ==
    ASSUME SourcesInv, SourcesNext, NEW a \in Apps, apps[a].state # "absent"
    PROVE  BundleOf[apps'[a].content] = BundleOf[apps[a].content]
  <1> USE DEF SourcesInv
  <1>1. ASSUME NEW r \in Requests, RequestArrives(r) \/ RequestStep(r)
        PROVE  apps'[a].content = apps[a].content
    BY <1>1, RowsKept, ArrivesFrame
  <1>2. ASSUME NEW r \in Requests, SourceArrives(r) \/ SourceStep(r)
        PROVE  BundleOf[apps'[a].content] = BundleOf[apps[a].content]
    <2>1. CASE DownloadReplaces(r)
      <3>1. CASE a = fetch[r].row.app
        <4>1. \/ apps'[a] = [state |-> "live", content |-> FetchedContent(r),
                             path |-> SourcePath(a, FetchedContent(r))]
              \/ UNCHANGED apps
          BY <2>1, <3>1, ReplaceFacts
        <4>2. BundleOf[apps[a].content] = BundleOf[FetchedContent(r)]
          BY <2>1, <3>1, ReplaceFacts
        <4> QED BY <4>1, <4>2
      <3>2. CASE a # fetch[r].row.app
        <4>1. apps'[a] = apps[a]
          BY <2>1, <3>2, ReplaceFacts
        <4> QED BY <4>1
      <3> QED BY <3>1, <3>2
    <2>2. CASE DownloadInserts(r)
      BY <2>2, InsertFacts
    <2> QED BY <1>2, <2>1, <2>2, SourceEffects
  <1>3. CASE UNCHANGED apps
    BY <1>3
  <1> QED BY <1>1, <1>2, <1>3, RunnerFrame
     DEF SourcesNext, LibraryStep, ForgetInstallation, UpdateRefreshSettings, UnlinkRuns, Tick,
         LoseFile, Disconnect, SourceDisconnect, SourceRestart, Restart, ConfigureSource,
         CreateSource, UpdateSource, RemoveSource, SetAutomation, SourceUnchanged, Publish,
         vars, storeVars

\* However sources are linked anew while downloads are under way, an app keeps its
\* bundle identifier.
THEOREM SourcesBundleStable == SourcesSpec => BundleStable
  <1>1. SourcesInv /\ [SourcesNext]_allVars
        => [\A a \in Apps :
              apps[a].state # "absent" =>
                  BundleOf[apps'[a].content] = BundleOf[apps[a].content]]_allVars
    BY BundleStep
  <1> QED BY <1>1, SourcesInvariance, PTL DEF SourcesSpec, BundleStable

\* A source handler hands its file on, or removes it.
LEMMA OwnedSource ==
    ASSUME SourcesInv, NEW r \in Requests, SourceArrives(r) \/ SourceStep(r), NEW p \in Paths,
           files[p] # None => Owned(p), files'[p] # None
    PROVE  Owned(p)'
  <1> USE DEF SourcesInv, LibraryInv, TypeOK
  <1>0. Alone(r)
    BY SourceAlone
  <1>1. CASE DownloadReplaces(r)
    <2> DEFINE a == fetch[r].row.app
               q == SourcePath(a, FetchedContent(r))
    <2>1. /\ a \in Apps /\ q \in Paths
          /\ files' = [files EXCEPT ![q] = FetchedContent(r)]
          /\ \A b \in Apps \ {a} : apps'[b] = apps[b]
          /\ \/ /\ apps'[a] = [state |-> "live", content |-> FetchedContent(r), path |-> q]
                /\ req'[r].pc = "download_clean" /\ req'[r].path = apps[a].path
             \/ /\ UNCHANGED apps
                /\ req'[r].pc = "download_clean" /\ req'[r].path = q
      BY <1>1, ReplaceFacts
    <2>2. req[r].pc \notin PathPcs
      BY <1>1 DEF DownloadReplaces, PathPcs, UploadPcs
    <2> HIDE DEF a, q
    <2>3. CASE p = q
      BY <2>1, <2>3 DEF Owned, IsLive, PathPcs
    <2>4. CASE p # q /\ p = apps[a].path /\ req'[r].path = apps[a].path
      BY <2>1, <2>4 DEF Owned, PathPcs
    <2>5. CASE p # q /\ ~(p = apps[a].path /\ req'[r].path = apps[a].path)
      <3>1. files'[p] = files[p]
        BY <2>1, <2>5 DEF JobsTypeOK
      <3>2. \A b \in Apps : IsLive(b) /\ apps[b].path = p =>
               apps'[b].state = "live" /\ apps'[b].path = p
        BY <2>1, <2>5 DEF IsLive
      <3> QED BY <1>0, <2>2, <3>1, <3>2, OwnedKept
    <2> QED BY <2>3, <2>4, <2>5
  <1>2. CASE DownloadInserts(r)
    <2>1. PICK a \in Apps :
            /\ apps[a].state = "absent" /\ UploadPath(a) \in Paths
            /\ files' = [files EXCEPT ![UploadPath(a)] = FetchedContent(r)]
            /\ \A b \in Apps \ {a} : apps'[b] = apps[b]
            /\ req'[r].pc = "download_clean" /\ req'[r].path = UploadPath(a)
      BY <1>2, InsertFacts
    <2>2. req[r].pc \notin PathPcs
      BY <1>2 DEF DownloadInserts, PathPcs, UploadPcs
    <2>3. CASE p = UploadPath(a)
      BY <2>1, <2>3 DEF Owned, PathPcs
    <2>4. CASE p # UploadPath(a)
      <3>1. files'[p] = files[p]
        BY <2>1, <2>4 DEF JobsTypeOK
      <3> QED BY <1>0, <2>1, <2>2, <3>1, OwnedKept DEF IsLive
    <2> QED BY <2>3, <2>4
  <1>3. CASE DownloadCleans(r)
    <2>1. /\ req[r].path \in Paths /\ UNCHANGED apps
          /\ files' = [files EXCEPT ![req[r].path] = None]
      BY <1>3 DEF DownloadCleans, FetchInv, storeVars
    <2>2. p # req[r].path /\ files'[p] = files[p]
      BY <2>1 DEF JobsTypeOK
    <2> QED BY <1>0, <2>1, <2>2, OwnedKept DEF IsLive
  <1>4. CASE UNCHANGED <<apps, files>> /\ req[r].pc \notin PathPcs
    BY <1>0, <1>4, OwnedKept DEF IsLive
  <1> QED BY <1>1, <1>2, <1>3, <1>4, SourceEffects

\* With the sources as well a file belongs to somebody until a handler is cut short.
LEMMA SourcesOwned ==
    ASSUME SourcesInv, OwnedInv, SourcesNext
    PROVE  OwnedInv'
  <1> USE DEF SourcesInv
  <1>1. ASSUME NEW r \in Requests, SourceArrives(r) \/ SourceStep(r) PROVE OwnedInv'
    BY <1>1, OwnedSource, SourceEffects DEF OwnedInv, Uninterrupted
  <1>2. ASSUME NEW r \in Requests, SourceDisconnect(r) PROVE OwnedInv'
    BY <1>2 DEF SourceDisconnect, OwnedInv, Uninterrupted, LibraryInv, TypeOK, JobsTypeOK
  <1>3. CASE LibraryStep \/ SourceRestart
    BY <1>3, OwnedStep DEF LibraryNext, SourceRestart
  <1>4. CASE UNCHANGED <<apps, req, files, faults>>
    BY <1>4 DEF OwnedInv, Owned, IsLive, Uninterrupted
  <1> QED BY <1>1, <1>2, <1>3, <1>4
     DEF SourcesNext, ConfigureSource, CreateSource, UpdateSource, RemoveSource, SetAutomation,
         SourceUnchanged, Publish, vars, storeVars, fileVars

\* A download that exchanges an IPA, or is refused after its file has a name, leaves
\* no file that is nobody's; nor does anything else in the library.
THEOREM SourcesNoOrphanFile == SourcesSpec => []NoOrphanFile
  <1>1. SourcesInv /\ OwnedInv /\ [SourcesNext]_allVars => OwnedInv'
    <2>1. UNCHANGED allVars /\ OwnedInv => OwnedInv'
      BY DEF allVars, vars, storeVars, fileVars, OwnedInv, Owned, IsLive, Uninterrupted
    <2> QED BY <2>1, SourcesOwned
  <1>2. SourcesInit => OwnedInv
    BY OwnedInit DEF SourcesInit
  <1> QED BY <1>1, <1>2, OwnedSuffices, SourcesInvariance, PTL DEF SourcesSpec

\* The step that ends the section of a download and writes to its source.
LEMMA WritingStep ==
    ASSUME SourcesInv, SourcesNext, NEW r \in Requests, req[r].pc = "download_held",
           req'[r].pc # "download_held", sources' # sources
    PROVE  DownloadUnchanged(r) \/ DownloadReplaces(r) \/ DownloadInserts(r)
  <1> USE DEF SourcesInv
  <1>1. ASSUME NEW q \in Requests, SourceArrives(q) \/ SourceStep(q)
        PROVE  DownloadUnchanged(r) \/ DownloadReplaces(r) \/ DownloadInserts(r)
    <2>1. q = r
      BY <1>1, SourceAlone DEF Alone
    <2> QED BY <1>1, <2>1
       DEF SourceArrives, SourceStep, CheckArrives, DownloadArrives, SyncArrives,
           CheckFindsRelease, CheckRecords, CheckFails, DownloadFindsRelease, DownloadFails,
           DownloadCompletes, DownloadInvalid, DownloadLocks, DownloadRefused, DownloadCleans,
           SyncDownloads, SyncReturns, storeVars
  <1>2. ASSUME NEW q \in Requests, RequestArrives(q) \/ RequestStep(q) PROVE FALSE
    <2>1. q = r
      BY <1>2, ArrivesLeads, RequestLeads DEF Alone
    <2> QED BY <1>2, <2>1, ArrivesFrame, RequestEffects DEF DeleteMarks, DeleteUndoes, UploadInserts
  <1>3. ASSUME NEW s \in Sources, ConfigureSource(s) PROVE FALSE
    BY <1>3 DEF ConfigureSource, CreateSource, UpdateSource, RemoveSource, SetAutomation,
       SourceUnchanged
  <1> QED BY <1>1, <1>2, <1>3, RunnerFrame
     DEF SourcesNext, LibraryStep, ForgetInstallation, UpdateRefreshSettings, UnlinkRuns, Tick,
         LoseFile, Disconnect, SourceDisconnect, SourceRestart, Restart, Publish, vars, storeVars

\* What the section writes is about the source as the download found it.
LEMMA MatchStep ==
    ASSUME SourcesInv, NEW r \in Requests, NEW s \in Sources, fetch[r].src = s,
           DownloadUnchanged(r) \/ DownloadReplaces(r) \/ DownloadInserts(r),
           sources'[s] # sources[s]
    PROVE  /\ sources'[s].config = fetch[r].row.config
           /\ sources'[s].app # None
           /\ apps'[sources'[s].app].content = ReleaseContent[sources'[s].release]
  <1> USE DEF SourcesInv, LibraryInv, TypeOK
  <1> DEFINE a == fetch[r].row.app
             c == FetchedContent(r)
  <1>1. /\ sources[s].known /\ sources[s].app = a /\ sources[s].config = fetch[r].row.config
    BY DEF SourceAsFetched, DownloadUnchanged, DownloadReplaces, DownloadInserts
  <1>2. c = ReleaseContent[fetch[r].release]
    BY DEF FetchedContent
  <1>3. ASSUME NEW status, RecordSourceCheck(s, fetch[r].release, c, status)
        PROVE  /\ sources'[s].config = sources[s].config /\ sources'[s].app = sources[s].app
               /\ sources'[s].release = fetch[r].release
    BY <1>1, <1>3 DEF RecordSourceCheck, JobsTypeOK, StoreTypeOK, Source
  <1>4. CASE DownloadUnchanged(r)
    <2>1. /\ a # None /\ apps[a].content = c /\ UNCHANGED apps
          /\ RecordSourceCheck(s, fetch[r].release, c, "unchanged")
      BY <1>4 DEF DownloadUnchanged, Current
    <2> QED BY <1>1, <1>2, <1>3, <2>1
  <1>5. CASE DownloadReplaces(r)
    <2>1. /\ a # None /\ a \in Apps
          /\ RecordSourceCheck(s, fetch[r].release, c, "downloaded")
          /\ apps' = [apps EXCEPT ![a] = [state |-> "live", content |-> c,
                                          path |-> SourcePath(a, c)]]
      BY <1>5, ReplaceFacts DEF DownloadReplaces, ReplaceAppFromSource, InsertApp
    <2>2. apps'[a].content = c
      BY <2>1 DEF JobsTypeOK, StoreTypeOK
    <2> QED BY <1>1, <1>2, <1>3, <2>1, <2>2
  <1>6. CASE DownloadInserts(r)
    <2>1. PICK b \in Apps :
            /\ apps' = [apps EXCEPT ![b] = [state |-> "live", content |-> c,
                                            path |-> UploadPath(b)]]
            /\ sources' = [sources EXCEPT ![s] = [@ EXCEPT !.app = b, !.release = fetch[r].release,
                                                           !.sha = c, !.status = "downloaded"]]
      BY <1>6 DEF DownloadInserts, InsertApp
    <2>2. apps'[b].content = c
      BY <2>1 DEF JobsTypeOK, StoreTypeOK
    <2>3. /\ sources'[s].config = sources[s].config /\ sources'[s].app = b
          /\ sources'[s].release = fetch[r].release
      BY <2>1 DEF JobsTypeOK, StoreTypeOK, Source
    <2> QED BY <1>1, <1>2, <2>2, <2>3, NoneAssumption
  <1> QED BY <1>4, <1>5, <1>6

\* What a download that ends in the library records is what the source stood for and
\* still stands for, however long it waited for GitHub.
THEOREM SourcesDownloadMatches == SourcesSpec => DownloadMatchesSource
  <1>1. SourcesInv /\ [SourcesNext]_allVars
        => [\A r \in Requests, s \in Sources :
              /\ req[r].pc = "download_held" /\ req'[r].pc # "download_held"
              /\ fetch[r].src = s /\ sources'[s] # sources[s]
              => /\ sources'[s].config = fetch[r].row.config
                 /\ sources'[s].app # None
                 /\ apps'[sources'[s].app].content = ReleaseContent[sources'[s].release]]_allVars
    BY WritingStep, MatchStep
  <1> QED BY <1>1, SourcesInvariance, PTL DEF SourcesSpec, DownloadMatchesSource

\* What the rows of the jobs say stays so beside the sources, whose steps leave the
\* jobs alone.
THEOREM SourcesOutcomeExplained == SourcesSpec => []OutcomeExplained
  <1>1. SourcesInv /\ OutcomeInv /\ [SourcesNext]_allVars => OutcomeInv'
    <2> SUFFICES ASSUME SourcesInv, OutcomeInv, [SourcesNext]_allVars PROVE OutcomeInv'
      OBVIOUS
    <2>1. CASE LibraryStep \/ SourceRestart
      BY <2>1, OutcomeStep DEF SourcesInv, LibraryNext, SourceRestart
    <2>2. CASE UNCHANGED <<jobs, run, unmanaged>>
      BY <2>2 DEF OutcomeInv, OutcomeExplained, Running
    <2> QED BY <2>1, <2>2, SourceEffects
       DEF SourcesNext, SourceDisconnect, ConfigureSource, CreateSource, UpdateSource,
           RemoveSource, SetAutomation, SourceUnchanged, Publish, allVars, vars, storeVars, jobVars
  <1>2. SourcesInit => OutcomeInv
    BY OutcomeInit DEF SourcesInit
  <1>3. OutcomeInv => OutcomeExplained
    BY DEF OutcomeInv
  <1> QED BY <1>1, <1>2, <1>3, SourcesInvariance, PTL DEF SourcesSpec

-----------------------------------------------------------------------------
(* The shelf beside the sources *)

\* A download changes the row of one app, which no job is active for, and gives it
\* a content that no other row has.
LEMMA DownloadPuts ==
    ASSUME SourcesInv, NEW r \in Requests, DownloadReplaces(r) \/ DownloadInserts(r)
    PROVE  \/ UNCHANGED apps
           \/ \E a \in Apps, c \in Contents :
                  /\ apps'[a].state = "live" /\ apps'[a].content = c
                  /\ \A b \in Apps \ {a} : apps'[b] = apps[b]
                  /\ ~IsLive(a) \/ ~ActiveJobExistsForApp(a)
                  /\ \A b \in Apps \ {a} : apps[b].state # "absent" => apps[b].content # c
  <1> USE DEF SourcesInv
  <1> DEFINE c == FetchedContent(r)
  <1>1. c \in Contents
    BY ContentType DEF DownloadReplaces, DownloadInserts, FetchInv, ReleasePcs
  <1>2. ASSUME NEW a \in Apps, NEW p, InsertApp(a, c, p)
        PROVE  /\ apps'[a].state = "live" /\ apps'[a].content = c
               /\ \A b \in Apps \ {a} : apps'[b] = apps[b]
    BY <1>2 DEF InsertApp, LibraryInv, TypeOK, JobsTypeOK, StoreTypeOK
  <1>3. CASE DownloadReplaces(r)
    <2> DEFINE a == fetch[r].row.app
    <2>1. a \in Apps /\ ~ActiveJobExistsForApp(a)
      BY <1>3, ReplaceFacts DEF DownloadReplaces, MayReplace
    <2>2. \/ UNCHANGED apps
          \/ ContentFree(a, c) /\ InsertApp(a, c, SourcePath(a, c))
      BY <1>3 DEF DownloadReplaces, ReplaceAppFromSource
    <2> HIDE DEF a, c
    <2> QED BY <1>1, <1>2, <2>1, <2>2 DEF ContentFree
  <1>4. CASE DownloadInserts(r)
    <2>1. PICK a \in Apps : /\ FreshApp(a)
                            /\ \/ UNCHANGED apps
                               \/ ContentFree(a, c) /\ InsertApp(a, c, UploadPath(a))
      BY <1>4 DEF DownloadInserts
    <2>2. ~IsLive(a)
      BY <2>1 DEF FreshApp, IsLive
    <2> HIDE DEF c
    <2> QED BY <1>1, <1>2, <2>1, <2>2 DEF ContentFree
  <1> QED BY <1>3, <1>4

\* ShelfInv is kept together with SourcesInv.
LEMMA SourcesShelfInv ==
    ASSUME SourcesInv, ShelfInv, [SourcesNext]_allVars
    PROVE  ShelfInv'
  <1> USE DEF SourcesInv, ShelfInv
  <1>1. CASE LibraryStep \/ SourceRestart
    BY <1>1, CopyStep, UniqueStep DEF LibraryNext, SourceRestart
  <1>2. ASSUME NEW r \in Requests, SourceArrives(r) \/ SourceStep(r) PROVE ShelfInv'
    <2>1. CopyInv'
      BY <1>2, SourceEffects DEF CopyInv, jobVars
    <2>2. UNCHANGED apps => UniqueInv'
      BY DEF UniqueInv
    <2>3. ASSUME DownloadReplaces(r) \/ DownloadInserts(r) PROVE UniqueInv'
      <3>1. CASE UNCHANGED apps
        BY <2>2, <3>1
      <3>2. ASSUME NEW a \in Apps, NEW c \in Contents,
                   apps'[a].state = "live", apps'[a].content = c,
                   \A b \in Apps \ {a} : apps'[b] = apps[b],
                   \A b \in Apps \ {a} : apps[b].state # "absent" => apps[b].content # c
            PROVE  UniqueInv'
        BY <3>2 DEF UniqueInv
      <3> QED BY <2>3, <3>1, <3>2, DownloadPuts
    <2> QED BY <1>2, <2>1, <2>2, <2>3, SourceEffects
  <1>3. CASE UNCHANGED <<apps, jobs, jobVars>>
    BY <1>3 DEF CopyInv, UniqueInv, jobVars
  <1> QED BY <1>1, <1>2, <1>3
     DEF SourcesNext, SourceDisconnect, ConfigureSource, CreateSource, UpdateSource, RemoveSource,
         SetAutomation, SourceUnchanged, Publish, allVars, vars, storeVars

\* With downloads that add and exchange apps the library is still a shelf.
LEMMA SourcesShelfStep ==
    ASSUME SourcesInv, ShelfInv, [SourcesNext]_allVars
    PROVE  ShelfStep
  <1> USE DEF SourcesInv
  <1>1. CASE LibraryStep \/ SourceRestart
    BY <1>1, LibraryShelfStep DEF LibraryNext, SourceRestart
  <1>2. CASE UNCHANGED <<apps, jobs, jobVars>>
    BY <1>2, NothingOnTheShelf DEF SameJob, Running, jobVars
  <1>3. ASSUME NEW r \in Requests, SourceArrives(r) \/ SourceStep(r) PROVE ShelfStep
    <2>1. UNCHANGED <<jobs, jobVars>>
      BY <1>3, SourceEffects
    <2>2. CASE DownloadReplaces(r) \/ DownloadInserts(r)
      BY <1>2, <2>1, <2>2, DownloadPuts, PutOnTheShelf DEF jobVars
    <2> QED BY <1>2, <1>3, <2>1, <2>2, SourceEffects
  <1> QED BY <1>1, <1>2, <1>3
     DEF SourcesNext, SourceDisconnect, ConfigureSource, CreateSource, UpdateSource, RemoveSource,
         SetAutomation, SourceUnchanged, Publish, allVars, vars, storeVars

\* The library with its sources implements IpaShelf, for any number of them and of
\* releases: what a download replaces is not what a job is about to install.
THEOREM SourcesShelfKept == SourcesSpec => ShelfKept
  <1>1. SourcesInit => ShelfInv /\ Shelf!ShelfInit
    BY ShelfInvInit, ShelfStarts DEF SourcesInit
  <1> QED BY <1>1, SourcesShelfInv, SourcesShelfStep, SourcesInvariance, PTL
     DEF SourcesSpec, ShelfStep, ShelfKept, Shelf!ShelfSpec

\* Hence what a job of the composition reports as installed is what the library
\* shows for its app at that moment.
THEOREM SourcesDeliveries == SourcesSpec => Shelf!DeliveriesAreTrue
  BY SourcesShelfKept, ShelfDeliveries

=============================================================================
