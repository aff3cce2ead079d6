--------------------------- MODULE LibraryProofs ---------------------------
(***************************************************************************)
(* LibraryInv is an invariant of the library, and what follows from it.    *)
(*                                                                         *)
(* The proof has a section for each conjunct: for the steps of a handler   *)
(* (RequestStep), of a job (RunnerStep, SignerStep), and for the remaining *)
(* steps, which leave most of the state alone. Behind it come the other    *)
(* invariants of the library (outcomes, files and their owners) and the    *)
(* proof that it implements IpaShelf.                                      *)
(***************************************************************************)
EXTENDS LibraryInvariant, TLAPS

USE DEF TypeOK

-----------------------------------------------------------------------------
(* What the steps leave alone *)

\* A job's steps touch rows of jobs and unmanaged, and the runner's own state.
LEMMA RunnerFrame ==
    ASSUME NEW j \in Jobs, RunnerStep(j) \/ SignerStep(j)
    PROVE  /\ UNCHANGED <<apps, sources, refreshAfter, now, files, unlinking, writer, readers>>
           /\ UNCHANGED <<req, faults>>
  <1>1. CASE RunnerStep(j)
    BY <1>1 DEF RunnerStep, FileMissing, Connect, BeginSigning, ChooseRoute, EnterTunnel, Open,
       Signed, SignTimesOut, InstallFails, Installed, RecordInstalled, SetSucceeded, SetFailed,
       storeVars, fileVars, lockVars
  <1>2. CASE SignerStep(j)
    BY <1>2 DEF SignerStep, TakeSigner, LinkIpa, SignSucceeds, SignFails, LateCallback, LateEnd,
       storeVars, fileVars, lockVars
  <1> QED BY <1>1, <1>2

\* A request's steps leave the runner's signing state and the faults alone.
LEMMA RequestFrame ==
    ASSUME NEW r \in Requests, RequestArrives(r) \/ RequestStep(r)
    PROVE  UNCHANGED <<unmanaged, refreshAfter, now, unlinking, task, signed, tunnel, signer, faults>>
  <1>1. CASE RequestArrives(r)
    BY <1>1 DEF RequestArrives, CreateArrives, RefreshArrives, DeleteArrives, UploadArrives,
       storeVars, fileVars, lockVars, jobVars
  <1>2. CASE RequestStep(r)
    BY <1>2 DEF RequestStep, CreateLocks, CreateQueues, CreateRefused, RefreshLocks,
       RefreshReady, RefreshRefused, RefreshReadsTargets, RefreshQueues, RefreshSkips,
       RefreshReturns, DeleteLocks, DeleteRefused, DeleteMarks, DeleteRemovesFile, DeleteUndoes,
       UploadRenames, UploadInserts, UploadNotInserted, UploadDiscards, Spawn,
       storeVars, fileVars, lockVars, jobVars
  <1> QED BY <1>1, <1>2

-----------------------------------------------------------------------------
(* The lock *)

Alone(r) == \A q \in Requests \ {r} : req'[q] = req[q]

Quiet(pc) == pc \notin ReadPcs /\ pc \notin WritePcs

\* A step that crosses no acquisition and no release keeps the lock as it is.
LEMMA LockKept ==
    ASSUME LockInv, NEW r \in Requests, Alone(r), UNCHANGED lockVars,
           req[r].pc \in ReadPcs <=> req'[r].pc \in ReadPcs,
           req[r].pc \in WritePcs <=> req'[r].pc \in WritePcs
    PROVE  LockInv'
  BY DEF LockInv, Alone, lockVars

\* Acquiring for reading keeps the lock what a read-write lock should be.
LEMMA LockRead ==
    ASSUME LockInv, NEW r \in Requests, Alone(r), AcquireRead(r), req'[r].pc \in ReadPcs
    PROVE  LockInv'
  BY NoneIsNoRequest DEF LockInv, Alone, AcquireRead, ReadPcs, WritePcs

\* So does acquiring for writing.
LEMMA LockWrite ==
    ASSUME LockInv, NEW r \in Requests, Alone(r), AcquireWrite(r), req'[r].pc \in WritePcs
    PROVE  LockInv'
  BY NoneIsNoRequest DEF LockInv, Alone, AcquireWrite, ReadPcs, WritePcs

\* So does releasing, for a handler that leaves the section.
LEMMA LockRelease ==
    ASSUME LockInv, NEW r \in Requests, Alone(r), ReleaseLock(r), Quiet(req'[r].pc)
    PROVE  LockInv'
  BY NoneIsNoRequest DEF LockInv, Alone, ReleaseLock, Quiet

\* Goto changes the pc of one request and nothing else.
LEMMA GotoFact ==
    ASSUME TypeOK, NEW r \in Requests, NEW pc, Goto(r, pc)
    PROVE  /\ Alone(r)
           /\ req'[r].pc = pc
           /\ req'[r].app = req[r].app
           /\ req'[r].path = req[r].path
           /\ req'[r].content = req[r].content
           /\ req'[r].todo = req[r].todo
  BY DEF Goto, Alone, JobsTypeOK, Request

\* Finish empties one slot.
LEMMA FinishFact ==
    ASSUME TypeOK, NEW r \in Requests, Finish(r)
    PROVE  Alone(r) /\ req'[r] = NoRequest /\ req'[r].pc = "idle"
  BY DEF Finish, Alone, JobsTypeOK, NoRequest

\* No request arrives with the lock.
LEMMA LockArrives ==
    ASSUME LibraryInv, NEW r \in Requests, RequestArrives(r)
    PROVE  LockInv'
  <1> USE DEF LibraryInv
  <1>1. /\ Alone(r) /\ UNCHANGED lockVars
        /\ req[r].pc = "idle"
        /\ req'[r].pc \in {"create_wait", "refresh_wait", "delete_wait", "upload_rename"}
    <2>1. CASE RefreshArrives(r)
      BY <2>1, GotoFact DEF RefreshArrives
    <2>2. ASSUME NEW a \in Apps, NEW d \in Devices, CreateArrives(r, a, d) PROVE <1>1!:
      BY <2>2 DEF CreateArrives, NoRequest, Alone, JobsTypeOK
    <2>3. ASSUME NEW a \in Apps, DeleteArrives(r, a) PROVE <1>1!:
      BY <2>3 DEF DeleteArrives, NoRequest, Alone, JobsTypeOK
    <2>4. ASSUME NEW a \in Apps, NEW c \in Contents, UploadArrives(r, a, c) PROVE <1>1!:
      BY <2>4 DEF UploadArrives, NoRequest, Alone, JobsTypeOK
    <2> QED BY <2>1, <2>2, <2>3, <2>4 DEF RequestArrives
  <1> QED BY <1>1, LockKept DEF ReadPcs, WritePcs

\* Every step of a handler keeps the lock consistent.
LEMMA LockRequest ==
    ASSUME LibraryInv, NEW r \in Requests, RequestStep(r)
    PROVE  LockInv'
  <1> USE DEF LibraryInv
  <1>1. CASE CreateLocks(r) \/ RefreshLocks(r)
    BY <1>1, GotoFact, LockRead DEF CreateLocks, RefreshLocks, ReadPcs
  <1>2. CASE DeleteLocks(r)
    BY <1>2, GotoFact, LockWrite DEF DeleteLocks, WritePcs
  <1>3. CASE \/ CreateQueues(r) \/ CreateRefused(r) \/ RefreshRefused(r) \/ RefreshReturns(r)
             \/ DeleteRefused(r) \/ DeleteRemovesFile(r) \/ DeleteUndoes(r)
    BY <1>3, FinishFact, LockRelease
       DEF CreateQueues, CreateRefused, RefreshRefused, RefreshReturns, DeleteRefused,
           DeleteRemovesFile, DeleteUndoes, Return, Quiet, ReadPcs, WritePcs
  <1>4. CASE RefreshReady(r) \/ UploadRenames(r) \/ UploadNotInserted(r)
    <2>1. /\ Alone(r) /\ UNCHANGED lockVars
          /\ \/ req[r].pc = "refresh_ready" /\ req'[r].pc = "refresh_devices"
             \/ req[r].pc = "upload_rename" /\ req'[r].pc = "upload_insert"
             \/ req[r].pc = "upload_insert" /\ req'[r].pc = "upload_discard"
      BY <1>4, GotoFact DEF RefreshReady, UploadRenames, UploadNotInserted
    <2> QED BY <2>1, LockKept DEF ReadPcs, WritePcs
  <1>5. CASE UploadInserts(r) \/ UploadDiscards(r)
    BY <1>5, FinishFact, LockKept DEF UploadInserts, UploadDiscards, ReadPcs, WritePcs
  <1>6. CASE RefreshReadsTargets(r)
    <2>1. Alone(r) /\ req[r].pc = "refresh_devices" /\ req'[r].pc = "refresh_queue"
      BY <1>6 DEF RefreshReadsTargets, Alone, JobsTypeOK, Request
    <2> QED BY <1>6, <2>1, LockKept DEF RefreshReadsTargets, ReadPcs, WritePcs
  <1>7. CASE RefreshQueues(r) \/ RefreshSkips(r)
    <2>1. Alone(r) /\ req[r].pc = "refresh_queue" /\ req'[r].pc = "refresh_queue"
      BY <1>7 DEF RefreshQueues, RefreshSkips, Alone, JobsTypeOK, Request
    <2> QED BY <1>7, <2>1, LockKept DEF RefreshQueues, RefreshSkips, ReadPcs, WritePcs
  <1>8. CASE DeleteMarks(r)
    <2>1. Alone(r) /\ req[r].pc = "delete_held" /\ req'[r].pc = "delete_file"
      BY <1>8 DEF DeleteMarks, Alone, JobsTypeOK, Request
    <2> QED BY <1>8, <2>1, LockKept DEF DeleteMarks, ReadPcs, WritePcs
  <1> QED BY <1>1, <1>2, <1>3, <1>4, <1>5, <1>6, <1>7, <1>8 DEF RequestStep

\* Every step of the library keeps the lock consistent.
LEMMA LockStep ==
    ASSUME LibraryInv, LibraryNext
    PROVE  LockInv'
  <1> USE DEF LibraryInv
  <1>1. ASSUME NEW r \in Requests, RequestArrives(r) \/ RequestStep(r) PROVE LockInv'
    BY <1>1, LockArrives, LockRequest
  <1>2. ASSUME NEW j \in Jobs, RunnerStep(j) \/ SignerStep(j) PROVE LockInv'
    BY <1>2, RunnerFrame DEF LockInv
  <1>3. ASSUME NEW r \in Requests, Disconnect(r) PROVE LockInv'
    BY <1>3, FinishFact, LockRelease DEF Disconnect, Return, Quiet, ReadPcs, WritePcs
  <1>4. CASE Restart
    BY <1>4, NoneIsNoRequest DEF Restart, LockInv, NoRequest, ReadPcs, WritePcs
  <1>5. CASE UNCHANGED <<req, lockVars>>
    BY <1>5 DEF LockInv, lockVars
  <1> QED BY <1>1, <1>2, <1>3, <1>4, <1>5
     DEF LibraryNext, LibraryStep, ForgetInstallation, UpdateRefreshSettings, UnlinkRuns, Tick, LoseFile

-----------------------------------------------------------------------------
(* The type invariant, a variable at a time *)

\* Which steps of a handler change the rows, the jobs and the files.
LEMMA RequestEffects ==
    ASSUME NEW r \in Requests, RequestStep(r)
    PROVE  /\ \/ UNCHANGED <<apps, sources>>
              \/ DeleteMarks(r) \/ DeleteUndoes(r) \/ UploadInserts(r)
           /\ UNCHANGED <<jobs, run, ipa>> \/ CreateQueues(r) \/ RefreshQueues(r)
           /\ \/ UNCHANGED files
              \/ DeleteRemovesFile(r) \/ UploadRenames(r) \/ UploadDiscards(r)
  BY DEF RequestStep, CreateLocks, CreateQueues, CreateRefused, RefreshLocks, RefreshReady,
     RefreshRefused, RefreshReadsTargets, RefreshQueues, RefreshSkips, RefreshReturns,
     DeleteLocks, DeleteRefused, DeleteMarks, DeleteRemovesFile, DeleteUndoes, UploadRenames,
     UploadInserts, UploadNotInserted, UploadDiscards, storeVars, fileVars, jobVars

\* An arrival changes neither table nor file.
LEMMA ArrivesFrame ==
    ASSUME NEW r \in Requests, RequestArrives(r)
    PROVE  UNCHANGED <<apps, jobs, sources, files, run, ipa>>
  BY DEF RequestArrives, CreateArrives, RefreshArrives, DeleteArrives, UploadArrives,
     storeVars, fileVars, jobVars

\* update_job_status keeps the rows well typed.
LEMMA StatusType ==
    ASSUME StoreTypeOK, NEW j \in Jobs, NEW phase \in ActivePhases \cup TerminalPhases,
           UpdateJobStatus(j, phase)
    PROVE  jobs' \in [Jobs -> Job]
  <1>1. \A row \in Job, day \in 0..MaxDay :
           [row EXCEPT !.phase = phase,
                       !.completed = IF phase \in TerminalPhases THEN day ELSE @] \in Job
    BY DEF Job
  <1> QED BY <1>1 DEF UpdateJobStatus, UpdateJob, StoreTypeOK

\* set_job_failure does.
LEMMA FailureType ==
    ASSUME StoreTypeOK, NEW j \in Jobs, NEW code \in FailureCodes, SetJobFailure(j, code)
    PROVE  jobs' \in [Jobs -> Job]
  <1>1. \A row \in Job : [row EXCEPT !.failure = code] \in Job
    BY DEF Job
  <1> QED BY <1>1 DEF SetJobFailure, UpdateJob, StoreTypeOK

\* set_job_installed_bundle_id does.
LEMMA IdentifiedType ==
    ASSUME StoreTypeOK, NEW j \in Jobs, SetJobInstalledBundleId(j)
    PROVE  jobs' \in [Jobs -> Job]
  <1>1. \A row \in Job : [row EXCEPT !.identified = TRUE] \in Job
    BY DEF Job
  <1> QED BY <1>1 DEF SetJobInstalledBundleId, UpdateJob, StoreTypeOK

\* insert_job does.
LEMMA InsertJobType ==
    ASSUME StoreTypeOK, NEW j \in Jobs, NEW a \in Apps \cup {None}, NEW d \in Devices \cup {None},
           InsertJob(j, a, d)
    PROVE  jobs' \in [Jobs -> Job]
  <1>1. [NoJob EXCEPT !.phase = "queued", !.app = a, !.dev = d] \in Job
    <2>1. NoJob \in Job
      BY BoundAssumption DEF NoJob, Job
    <2>2. \A row \in Job : [row EXCEPT !.phase = "queued", !.app = a, !.dev = d] \in Job
      BY DEF Job, ActivePhases
    <2> QED BY <2>1, <2>2
  <1> QED BY <1>1 DEF InsertJob, StoreTypeOK

\* mark_app_deleted does.
LEMMA MarkType ==
    ASSUME StoreTypeOK, NEW a, MarkAppDeleted(a)
    PROVE  apps' \in [Apps -> App] /\ sources' \in [Sources -> Source]
  <1>1. \A row \in Source : [row EXCEPT !.auto = FALSE] \in Source
    BY DEF Source
  <1>2. \A row \in App : [row EXCEPT !.state = "deleted"] \in App
    BY DEF App
  <1> QED BY <1>1, <1>2 DEF MarkAppDeleted, StoreTypeOK

\* A row's path is a storage path.
LEMMA RowPath ==
    ASSUME RowInv, NEW a \in Apps, apps[a].state # "absent"
    PROVE  apps[a].path \in Paths
  BY DEF RowInv, Paths, UploadPath, SourcePath

\* So is the path of an upload.
LEMMA UploadsPath ==
    ASSUME UploadInv, NEW r \in Requests, req[r].pc \in UploadPcs
    PROVE  req[r].path \in Paths
  <1>1. req[r].path = UploadPath(req[r].app) /\ req[r].app \in Apps
    BY DEF UploadInv
  <1> QED BY <1>1 DEF UploadPath, Paths

\* A job's steps keep the tables well typed.
LEMMA RunnerStoreType ==
    ASSUME LibraryInv, NEW j \in Jobs, RunnerStep(j) \/ SignerStep(j)
    PROVE  jobs' \in [Jobs -> Job] /\ unmanaged' \in SUBSET (Apps \X Devices)
  <1> USE DEF LibraryInv
  <1>1. ASSUME NEW phase \in ActivePhases \cup TerminalPhases, UpdateJobStatus(j, phase)
        PROVE jobs' \in [Jobs -> Job]
    BY <1>1, StatusType DEF JobsTypeOK
  <1>2. ASSUME NEW code \in FailureCodes, SetJobFailure(j, code) PROVE jobs' \in [Jobs -> Job]
    BY <1>2, FailureType DEF JobsTypeOK
  <1>3. CASE RecordInstalled(j)
    BY <1>3, IdentifiedType DEF RecordInstalled, RestoreManagedInstallation, JobsTypeOK, StoreTypeOK
  <1>4. CASE SetSucceeded(j) \/ SetFailed(j)
    BY <1>4, <1>1 DEF SetSucceeded, SetFailed, ActivePhases, TerminalPhases, JobsTypeOK, StoreTypeOK
  <1>5. CASE Connect(j) \/ BeginSigning(j)
    BY <1>5, <1>1 DEF Connect, BeginSigning, ActivePhases, JobsTypeOK, StoreTypeOK
  <1>6. CASE SignSucceeds(j) \/ LateCallback(j)
    BY <1>6, <1>1 DEF SignSucceeds, LateCallback, ActivePhases, JobsTypeOK, StoreTypeOK
  <1>7. CASE FileMissing(j) \/ SignTimesOut(j) \/ InstallFails(j)
    BY <1>7, <1>2 DEF FileMissing, SignTimesOut, InstallFails, FailureCodes, JobsTypeOK, StoreTypeOK
  <1>8. CASE UNCHANGED <<jobs, unmanaged>>
    BY <1>8 DEF JobsTypeOK, StoreTypeOK
  <1> QED BY <1>3, <1>4, <1>5, <1>6, <1>7, <1>8
     DEF RunnerStep, SignerStep, ChooseRoute, EnterTunnel, Open, Signed, Installed,
         TakeSigner, LinkIpa, SignFails, LateEnd, storeVars

\* A job's steps keep the runner's state well typed.
LEMMA RunnerJobType ==
    ASSUME LibraryInv, NEW j \in Jobs, RunnerStep(j) \/ SignerStep(j)
    PROVE  /\ run' \in [Jobs -> {"none", "ended"} \cup RunningPcs]
           /\ ipa' \in [Jobs -> Paths \cup {None}]
           /\ task' \in [Jobs -> {"none", "waiting", "preflight", "signing", "signed", "failed",
                                 "late"}]
           /\ signed' \in [Jobs -> Contents \cup {None}]
           /\ tunnel' \in Jobs \cup {None}
           /\ signer' \in Jobs \cup {None}
  <1> USE DEF LibraryInv, JobsTypeOK
  <1>1. CASE SignerStep(j)
    <2>1. CASE LinkIpa(j)
      <3>1. Running(j) /\ files[ipa[j]] # None
        BY <2>1 DEF LinkIpa, JobInv, Running, RunningPcs
      <3>2. ipa[j] \in Paths
        BY <3>1, RowPath DEF JobInv, IsLive, IsActive, ActivePhases
      <3> QED BY <2>1, <3>1, <3>2 DEF LinkIpa
    <2>2. CASE TakeSigner(j) \/ SignSucceeds(j) \/ SignFails(j) \/ LateCallback(j) \/ LateEnd(j)
      BY <2>2 DEF TakeSigner, SignSucceeds, SignFails, LateCallback, LateEnd
    <2> QED BY <1>1, <2>1, <2>2 DEF SignerStep
  <1>2. CASE RunnerStep(j)
    BY <1>2 DEF RunnerStep, FileMissing, Connect, BeginSigning, ChooseRoute, EnterTunnel, Open,
       Signed, SignTimesOut, InstallFails, Installed, RecordInstalled, SetSucceeded, SetFailed,
       Step, LeaveTunnel, RunningPcs
  <1> QED BY <1>1, <1>2

\* A handler's steps keep the tables and the files well typed.
LEMMA RequestStoreType ==
    ASSUME LibraryInv, NEW r \in Requests, RequestStep(r)
    PROVE  /\ apps' \in [Apps -> App]
           /\ jobs' \in [Jobs -> Job]
           /\ sources' \in [Sources -> Source]
           /\ files' \in [Paths -> Contents \cup {None}]
           /\ run' \in [Jobs -> {"none", "ended"} \cup RunningPcs]
           /\ ipa' \in [Jobs -> Paths \cup {None}]
  <1> USE DEF LibraryInv, JobsTypeOK
  <1>1. apps' \in [Apps -> App] /\ sources' \in [Sources -> Source]
    <2>1. CASE DeleteMarks(r)
      BY <2>1, MarkType DEF DeleteMarks
    <2>2. CASE DeleteUndoes(r)
      <3>1. \A row \in App : [row EXCEPT !.state = "live"] \in App
        BY DEF App
      <3> QED BY <2>2, <3>1 DEF DeleteUndoes, RestoreApp, StoreTypeOK
    <2>3. CASE UploadInserts(r)
      <3>1. [state |-> "live", content |-> req[r].content, path |-> req[r].path] \in App
        BY DEF App, Request
      <3> QED BY <2>3, <3>1 DEF UploadInserts, InsertApp, StoreTypeOK
    <2>4. CASE UNCHANGED <<apps, sources>>
      BY <2>4 DEF StoreTypeOK
    <2> QED BY <2>1, <2>2, <2>3, <2>4, RequestEffects
  <1>2. /\ jobs' \in [Jobs -> Job]
        /\ run' \in [Jobs -> {"none", "ended"} \cup RunningPcs]
        /\ ipa' \in [Jobs -> Paths \cup {None}]
    <2>1. CASE CreateQueues(r)
      <3>1. PICK j \in Jobs : /\ InsertJob(j, req[r].app, req[r].dev)
                              /\ Spawn(j, apps[req[r].app].path)
        BY <2>1 DEF CreateQueues
      <3>2. req[r].app \in Apps /\ req[r].dev \in Devices \cup {None}
        BY <2>1 DEF CreateQueues, HandlerInv, AppPcs, Request
      <3>3. apps[req[r].app].path \in Paths \cup {None}
        BY <3>2 DEF StoreTypeOK, App
      <3> QED BY <3>1, <3>2, <3>3, InsertJobType DEF Spawn, RunningPcs
    <2>2. CASE RefreshQueues(r)
      <3>1. PICK t \in req[r].todo, j \in Jobs :
              InsertJob(j, jobs[t[1]].app, jobs[t[1]].dev) /\ Spawn(j, t[2])
        BY <2>2 DEF RefreshQueues
      <3>2. t \in Jobs \X (Paths \cup {None})
        BY <3>1 DEF Request
      <3>3. jobs[t[1]].app \in Apps \cup {None} /\ jobs[t[1]].dev \in Devices \cup {None}
        BY <3>2 DEF StoreTypeOK, Job
      <3> QED BY <3>1, <3>2, <3>3, InsertJobType DEF Spawn, RunningPcs
    <2>3. CASE UNCHANGED <<jobs, run, ipa>>
      BY <2>3 DEF StoreTypeOK
    <2> QED BY <2>1, <2>2, <2>3, RequestEffects
  <1>3. files' \in [Paths -> Contents \cup {None}]
    BY RequestEffects DEF DeleteRemovesFile, UploadRenames, UploadDiscards, Request
  <1> QED BY <1>1, <1>2, <1>3

\* What a refresh reads of the database is well typed.
LEMMA TodoType ==
    ASSUME NEW x \in Request, NEW todo \in SUBSET (Jobs \X (Paths \cup {None}))
    PROVE  [x EXCEPT !.todo = todo] \in Request
  BY DEF Request

\* Moving the pc keeps a request well typed.
LEMMA PcType ==
    ASSUME NEW x \in Request, NEW pc \in JobPcs \cup LibraryPcs
    PROVE  [x EXCEPT !.pc = pc] \in Request
  BY DEF Request

\* Noting a path does.
LEMMA PathType ==
    ASSUME NEW x \in Request, NEW p \in Paths \cup {None}
    PROVE  [x EXCEPT !.path = p] \in Request
  BY DEF Request

\* A request that arrives is well typed.
LEMMA RequestArrivesType ==
    ASSUME LibraryInv, NEW r \in Requests, RequestArrives(r)
    PROVE  req' \in [Requests -> Request]
  <1> USE DEF LibraryInv, JobsTypeOK
  <1>0. NoRequest \in Request
    BY DEF NoRequest, Request
  <1>1. CASE RefreshArrives(r)
    <2>1. [req[r] EXCEPT !.pc = "refresh_wait"] \in Request
      BY PcType DEF JobPcs
    <2> QED BY <1>1, <2>1 DEF RefreshArrives, Goto
  <1>2. ASSUME NEW a \in Apps, NEW d \in Devices, CreateArrives(r, a, d)
        PROVE  req' \in [Requests -> Request]
    <2>1. [NoRequest EXCEPT !.pc = "create_wait", !.app = a, !.dev = d] \in Request
      BY <1>0 DEF Request, JobPcs
    <2> QED BY <1>2, <2>1 DEF CreateArrives
  <1>3. ASSUME NEW a \in Apps, DeleteArrives(r, a)
        PROVE  req' \in [Requests -> Request]
    <2>1. [NoRequest EXCEPT !.pc = "delete_wait", !.app = a] \in Request
      BY <1>0 DEF Request, LibraryPcs
    <2> QED BY <1>3, <2>1 DEF DeleteArrives
  <1>4. ASSUME NEW a \in Apps, NEW c \in Contents, UploadArrives(r, a, c)
        PROVE  req' \in [Requests -> Request]
    <2>1. UploadPath(a) \in Paths
      BY DEF UploadPath, Paths
    <2>2. [NoRequest EXCEPT !.pc = "upload_rename", !.app = a, !.content = c,
                            !.path = UploadPath(a)] \in Request
      BY <1>0, <2>1 DEF Request, LibraryPcs
    <2> QED BY <1>4, <2>2 DEF UploadArrives
  <1> QED BY <1>1, <1>2, <1>3, <1>4 DEF RequestArrives

\* A handler's steps keep its request and the lock well typed.
LEMMA RequestStepType ==
    ASSUME LibraryInv, NEW r \in Requests, RequestStep(r)
    PROVE  req' \in [Requests -> Request]
  <1> USE DEF LibraryInv, JobsTypeOK
  <1>1. ASSUME NEW pc \in JobPcs \cup LibraryPcs, Goto(r, pc) PROVE req' \in [Requests -> Request]
    <2>1. [req[r] EXCEPT !.pc = pc] \in Request
      BY DEF Request
    <2> QED BY <1>1, <2>1 DEF Goto
  <1>2. ASSUME Finish(r) PROVE req' \in [Requests -> Request]
    BY <1>2 DEF Finish, NoRequest, Request
  <1>3. CASE CreateLocks(r) \/ RefreshLocks(r) \/ RefreshReady(r)
    BY <1>3, <1>1 DEF CreateLocks, RefreshLocks, RefreshReady, JobPcs
  <1>4. CASE DeleteLocks(r) \/ UploadRenames(r) \/ UploadNotInserted(r)
    BY <1>4, <1>1 DEF DeleteLocks, UploadRenames, UploadNotInserted, LibraryPcs
  <1>5. CASE RefreshReadsTargets(r)
    <2>1. PICK reachable \in SUBSET Devices :
            req' = [req EXCEPT ![r].pc = "refresh_queue",
                               ![r].todo = {t \in RefreshDueTargets : jobs[t[1]].dev \in reachable}]
      BY <1>5 DEF RefreshReadsTargets
    <2>2. RefreshDueTargets \in SUBSET (Jobs \X (Paths \cup {None}))
      <3>1. \A k \in Jobs : ManagedSuccess(k) => apps[jobs[k].app].path \in Paths \cup {None}
        BY RowPath DEF ManagedSuccess, LatestSuccess, JobInv, IsLive
      <3> QED BY <3>1 DEF RefreshDueTargets
    <2>3. ASSUME NEW todo \in SUBSET (Jobs \X (Paths \cup {None}))
          PROVE  [req[r] EXCEPT !.pc = "refresh_queue", !.todo = todo] \in Request
      <3>1. [req[r] EXCEPT !.pc = "refresh_queue"] \in Request
        BY PcType DEF JobPcs
      <3>2. [[req[r] EXCEPT !.pc = "refresh_queue"] EXCEPT !.todo = todo] \in Request
        BY <3>1, TodoType
      <3> QED BY <3>2
    <2>4. {t \in RefreshDueTargets : jobs[t[1]].dev \in reachable}
             \in SUBSET (Jobs \X (Paths \cup {None}))
      BY <2>2
    <2> HIDE DEF RefreshDueTargets
    <2> QED BY <2>1, <2>3, <2>4
  <1>6. CASE RefreshQueues(r) \/ RefreshSkips(r)
    <2>1. PICK t \in req[r].todo : req' = [req EXCEPT ![r].todo = @ \ {t}]
      BY <1>6 DEF RefreshQueues, RefreshSkips
    <2>2. [req[r] EXCEPT !.todo = @ \ {t}] \in Request
      BY DEF Request
    <2> QED BY <2>1, <2>2
  <1>7. CASE DeleteMarks(r)
    <2>1. apps[req[r].app].path \in Paths \cup {None}
      BY <1>7, RowPath DEF DeleteMarks, HandlerInv, AppPcs, IsLive
    <2>2. [req[r] EXCEPT !.pc = "delete_file", !.path = apps[req[r].app].path] \in Request
      <3>1. [req[r] EXCEPT !.pc = "delete_file"] \in Request
        BY PcType DEF LibraryPcs
      <3>2. [[req[r] EXCEPT !.pc = "delete_file"] EXCEPT !.path = apps[req[r].app].path] \in Request
        BY <2>1, <3>1, PathType
      <3> QED BY <3>2
    <2> QED BY <1>7, <2>2 DEF DeleteMarks
  <1>8. CASE \/ CreateQueues(r) \/ CreateRefused(r) \/ RefreshRefused(r) \/ RefreshReturns(r)
             \/ DeleteRefused(r) \/ DeleteRemovesFile(r) \/ DeleteUndoes(r)
             \/ UploadInserts(r) \/ UploadDiscards(r)
    BY <1>8, <1>2 DEF CreateQueues, CreateRefused, RefreshRefused, RefreshReturns, DeleteRefused,
       DeleteRemovesFile, DeleteUndoes, UploadInserts, UploadDiscards, Return
  <1> QED BY <1>3, <1>4, <1>5, <1>6, <1>7, <1>8 DEF RequestStep

\* Every step of the library keeps the type invariant.
LEMMA TypeStep ==
    ASSUME LibraryInv, LibraryNext
    PROVE  TypeOK'
  <1> USE DEF LibraryInv
  <1>1. ASSUME NEW r \in Requests, RequestArrives(r) \/ RequestStep(r) PROVE TypeOK'
    <2>1. writer' \in Requests \cup {None} /\ readers' \in SUBSET Requests
      BY <1>1 DEF JobsTypeOK, RequestArrives, RequestStep, CreateArrives, RefreshArrives,
         DeleteArrives, UploadArrives, CreateLocks, CreateQueues, CreateRefused, RefreshLocks,
         RefreshReady, RefreshRefused, RefreshReadsTargets, RefreshQueues, RefreshSkips,
         RefreshReturns, DeleteLocks, DeleteRefused, DeleteMarks, DeleteRemovesFile,
         DeleteUndoes, UploadRenames, UploadInserts, UploadNotInserted, UploadDiscards,
         Return, AcquireRead, AcquireWrite, ReleaseLock, lockVars
    <2>2. /\ StoreTypeOK'
          /\ files' \in [Paths -> Contents \cup {None}]
          /\ run' \in [Jobs -> {"none", "ended"} \cup RunningPcs]
          /\ ipa' \in [Jobs -> Paths \cup {None}]
      BY <1>1, RequestFrame, ArrivesFrame, RequestStoreType DEF JobsTypeOK, StoreTypeOK
    <2>3. req' \in [Requests -> Request]
      BY <1>1, RequestArrivesType, RequestStepType
    <2> QED BY <1>1, <2>1, <2>2, <2>3, RequestFrame DEF JobsTypeOK
  <1>2. ASSUME NEW j \in Jobs, RunnerStep(j) \/ SignerStep(j) PROVE TypeOK'
    BY <1>2, RunnerFrame, RunnerStoreType, RunnerJobType DEF JobsTypeOK, StoreTypeOK
  <1>3. ASSUME NEW a \in Apps, NEW d \in Devices, ForgetInstallation(a, d) PROVE TypeOK'
    BY <1>3 DEF ForgetInstallation, ForgetManagedInstallation, JobsTypeOK, StoreTypeOK,
       fileVars, lockVars, jobVars
  <1>4. ASSUME NEW n \in RefreshDays, UpdateRefreshSettings(n) PROVE TypeOK'
    BY <1>4, BoundAssumption DEF UpdateRefreshSettings, JobsTypeOK, StoreTypeOK,
       fileVars, lockVars, jobVars
  <1>5. CASE Tick
    BY <1>5, BoundAssumption DEF Tick, JobsTypeOK, StoreTypeOK, fileVars, lockVars, jobVars
  <1>6. ASSUME NEW p \in Paths, LoseFile(p) PROVE TypeOK'
    <2>1. faults' \in [losses : Nat, crashes : Nat, drops : Nat]
      BY <1>6 DEF LoseFile, JobsTypeOK
    <2> QED BY <1>6, <2>1 DEF LoseFile, JobsTypeOK, StoreTypeOK, storeVars, lockVars, jobVars
  <1>7. ASSUME NEW p \in Paths, UnlinkRuns(p) PROVE TypeOK'
    BY <1>7 DEF UnlinkRuns, JobsTypeOK, StoreTypeOK, storeVars, lockVars, jobVars
  <1>8. ASSUME NEW r \in Requests, Disconnect(r) PROVE TypeOK'
    <2>1. faults' \in [losses : Nat, crashes : Nat, drops : Nat]
      BY <1>8 DEF Disconnect, JobsTypeOK
    <2>2. req' \in [Requests -> Request]
      BY <1>8 DEF Disconnect, Return, Finish, JobsTypeOK, NoRequest, Request
    <2>3. unlinking' \in SUBSET Paths
      <3>1. CASE req[r].pc = "delete_file"
        <4>1. req[r].path \in Paths
          BY <3>1, RowPath DEF HandlerInv, AppPcs
        <4> QED BY <1>8, <3>1, <4>1 DEF Disconnect, JobsTypeOK
      <3>2. CASE req[r].pc = "upload_discard"
        <4>1. req[r].path \in Paths
          BY <3>2, UploadsPath DEF UploadPcs
        <4> QED BY <1>8, <3>2, <4>1 DEF Disconnect, JobsTypeOK
      <3> QED BY <1>8, <3>1, <3>2 DEF Disconnect, JobsTypeOK
    <2> QED BY <1>8, <2>1, <2>2, <2>3
        DEF Disconnect, Return, ReleaseLock, JobsTypeOK, StoreTypeOK, storeVars, jobVars
  <1>9. CASE Restart
    <2>1. faults' \in [losses : Nat, crashes : Nat, drops : Nat]
      BY <1>9 DEF Restart, JobsTypeOK
    <2>2. req' \in [Requests -> Request]
      BY <1>9 DEF Restart, JobsTypeOK, NoRequest, Request
    <2> QED BY <1>9, <2>1, <2>2 DEF Restart, JobsTypeOK, StoreTypeOK, storeVars
  <1> QED BY <1>1, <1>2, <1>3, <1>4, <1>5, <1>6, <1>7, <1>8, <1>9 DEF LibraryNext, LibraryStep

-----------------------------------------------------------------------------
(* Rows, files and the handlers' copies of them *)

\* Every step keeps a row's path one of its own app.
LEMMA RowStep ==
    ASSUME LibraryInv, LibraryNext
    PROVE  RowInv'
  <1> USE DEF LibraryInv
  <1>1. ASSUME NEW r \in Requests, RequestStep(r) PROVE RowInv'
    <2>1. CASE DeleteMarks(r)
      BY <2>1 DEF DeleteMarks, MarkAppDeleted, HandlerInv, AppPcs, IsLive, RowInv,
         JobsTypeOK, StoreTypeOK, App
    <2>2. CASE DeleteUndoes(r)
      BY <2>2 DEF DeleteUndoes, RestoreApp, HandlerInv, AppPcs, RowInv, JobsTypeOK, StoreTypeOK, App
    <2>3. CASE UploadInserts(r)
      BY <2>3 DEF UploadInserts, InsertApp, UploadInv, UploadPcs, RowInv, JobsTypeOK, StoreTypeOK
    <2>4. CASE UNCHANGED apps
      BY <2>4 DEF RowInv
    <2> QED BY <1>1, <2>1, <2>2, <2>3, <2>4, RequestEffects
  <1>2. CASE UNCHANGED apps
    BY <1>2 DEF RowInv
  <1> QED BY <1>1, <1>2, RunnerFrame, ArrivesFrame
     DEF LibraryNext, LibraryStep, ForgetInstallation, UpdateRefreshSettings, UnlinkRuns, Tick,
         LoseFile, Disconnect, Restart, storeVars

\* No step puts another content where a row says its file is.
LEMMA FileStep ==
    ASSUME LibraryInv, LibraryNext
    PROVE  FileInv'
  <1> USE DEF LibraryInv
  <1>0. ASSUME UNCHANGED apps, NEW p \in Paths, files' = [files EXCEPT ![p] = None]
        PROVE  FileInv'
    BY <1>0, RowPath DEF FileInv, JobsTypeOK
  <1>1. ASSUME NEW r \in Requests, RequestStep(r) PROVE FileInv'
    <2>1. CASE DeleteMarks(r)
      BY <2>1 DEF DeleteMarks, MarkAppDeleted, HandlerInv, AppPcs, IsLive, FileInv,
         JobsTypeOK, StoreTypeOK, App, fileVars
    <2>2. CASE DeleteUndoes(r)
      BY <2>2 DEF DeleteUndoes, RestoreApp, HandlerInv, AppPcs, FileInv, JobsTypeOK, StoreTypeOK,
         App, fileVars
    <2>3. CASE UploadInserts(r)
      BY <2>3 DEF UploadInserts, InsertApp, UploadInv, UploadPcs, FileInv, JobsTypeOK, StoreTypeOK,
         fileVars
    <2>4. CASE DeleteRemovesFile(r)
      BY <2>4, <1>0, RowPath DEF DeleteRemovesFile, HandlerInv, AppPcs, storeVars
    <2>5. CASE UploadDiscards(r)
      BY <2>5, <1>0 DEF UploadDiscards, UploadInv, UploadPcs, UploadPath, Paths, storeVars
    <2>6. CASE UploadRenames(r)
      <3>1. /\ UNCHANGED apps
            /\ files' = [files EXCEPT ![UploadPath(req[r].app)] = req[r].content]
            /\ req[r].app \in Apps /\ apps[req[r].app].state = "absent"
        BY <2>6 DEF UploadRenames, UploadInv, UploadPcs, storeVars
      <3>2. ASSUME NEW a \in Apps, apps[a].state # "absent"
            PROVE  apps[a].path # UploadPath(req[r].app)
        BY <3>1, <3>2 DEF RowInv, UploadPath, SourcePath
      <3> QED BY <3>1, <3>2, RowPath DEF FileInv, JobsTypeOK
    <2>7. CASE UNCHANGED <<apps, files>>
      BY <2>7 DEF FileInv
    <2> QED BY <1>1, <2>1, <2>2, <2>3, <2>4, <2>5, <2>6, <2>7, RequestEffects
  <1>2. CASE UNCHANGED <<apps, files>>
    BY <1>2 DEF FileInv
  <1>3. ASSUME NEW p \in Paths, LoseFile(p) \/ UnlinkRuns(p) PROVE FileInv'
    BY <1>0, <1>3 DEF LoseFile, UnlinkRuns, storeVars
  <1> QED BY <1>1, <1>2, <1>3, RunnerFrame, ArrivesFrame
     DEF LibraryNext, LibraryStep, ForgetInstallation, UpdateRefreshSettings, Tick,
         Disconnect, Restart, storeVars, fileVars

\* Only the holder of the lock for writing changes a row that is there, and only
\* its state.
LEMMA RowsKept ==
    ASSUME LibraryInv, NEW r \in Requests, RequestStep(r), NEW a \in Apps,
           apps[a].state # "absent"
    PROVE  /\ apps'[a].state # "absent"
           /\ apps'[a].path = apps[a].path
           /\ apps'[a].content = apps[a].content
           /\ \/ apps'[a].state = apps[a].state
              \/ DeleteMarks(r) /\ a = req[r].app /\ r = writer
              \/ DeleteUndoes(r) /\ a = req[r].app /\ r = writer /\ apps'[a].state = "live"
  <1> USE DEF LibraryInv, JobsTypeOK, StoreTypeOK, App
  <1>1. CASE DeleteMarks(r)
    BY <1>1 DEF DeleteMarks, MarkAppDeleted, LockInv, WritePcs
  <1>2. CASE DeleteUndoes(r)
    BY <1>2 DEF DeleteUndoes, RestoreApp, LockInv, WritePcs
  <1>3. CASE UploadInserts(r)
    BY <1>3 DEF UploadInserts, InsertApp, UploadInv, UploadPcs
  <1>4. CASE UNCHANGED apps
    BY <1>4
  <1> QED BY <1>1, <1>2, <1>3, <1>4, RequestEffects

\* What a step has to leave alone for the other handlers' facts to survive.
LEMMA HandlerKept ==
    ASSUME HandlerInv, NEW r \in Requests, Alone(r),
           \A a \in Apps : apps[a].state # "absent" => apps'[a].state # "absent",
           \A q \in Requests \ {r} : req[q].pc = "delete_file" =>
               /\ apps'[req[q].app].state = apps[req[q].app].state
               /\ apps'[req[q].app].path = apps[req[q].app].path,
           req'[r].pc \in AppPcs =>
               req'[r].app \in Apps /\ apps'[req'[r].app].state # "absent",
           req'[r].pc = "delete_file" =>
               /\ apps'[req'[r].app].state = "deleted"
               /\ req'[r].path = apps'[req'[r].app].path
    PROVE  HandlerInv'
  BY DEF HandlerInv, Alone, AppPcs

\* A handler's steps keep what the handlers know of their apps.
LEMMA HandlerRequest ==
    ASSUME LibraryInv, NEW r \in Requests, RequestStep(r)
    PROVE  HandlerInv'
  <1> USE DEF LibraryInv
  <1>1. \A a \in Apps : apps[a].state # "absent" => apps'[a].state # "absent"
    BY RowsKept
  <1>2. ASSUME NEW q \in Requests \ {r}, req[q].pc = "delete_file"
        PROVE  /\ apps'[req[q].app].state = apps[req[q].app].state
               /\ apps'[req[q].app].path = apps[req[q].app].path
    <2>1. req[q].app \in Apps /\ apps[req[q].app].state # "absent" /\ q = writer
      BY <1>2 DEF HandlerInv, AppPcs, LockInv, WritePcs
    <2> QED BY <2>1, RowsKept
  <1>3. CASE CreateLocks(r) \/ DeleteLocks(r)
    <2>1. /\ Alone(r) /\ req[r].pc \in AppPcs /\ req'[r].app = req[r].app
          /\ req'[r].pc \in {"create_held", "delete_held"} /\ UNCHANGED apps
      BY <1>3, GotoFact DEF CreateLocks, DeleteLocks, AppPcs, storeVars
    <2> QED BY <1>1, <1>2, <2>1, HandlerKept DEF HandlerInv
  <1>4. CASE DeleteMarks(r)
    <2>1. /\ Alone(r) /\ req[r].pc = "delete_held" /\ req'[r].pc = "delete_file"
          /\ req'[r].app = req[r].app /\ req'[r].path = apps[req[r].app].path
      BY <1>4 DEF DeleteMarks, Alone, JobsTypeOK, Request
    <2>2. req[r].app \in Apps /\ apps[req[r].app].state # "absent"
      BY <2>1 DEF HandlerInv, AppPcs
    <2>3. apps'[req[r].app].state = "deleted" /\ apps'[req[r].app].path = apps[req[r].app].path
      BY <1>4, <2>2 DEF DeleteMarks, MarkAppDeleted, JobsTypeOK, StoreTypeOK, App
    <2> QED BY <1>1, <1>2, <2>1, <2>2, <2>3, HandlerKept
  <1>5. ASSUME Alone(r), req'[r].pc \notin AppPcs PROVE HandlerInv'
    <2>1. req'[r].pc # "delete_file"
      BY <1>5 DEF AppPcs
    <2> QED BY <1>1, <1>2, <1>5, <2>1, HandlerKept
  <1>6. CASE RefreshLocks(r) \/ RefreshReady(r) \/ UploadRenames(r) \/ UploadNotInserted(r)
    BY <1>5, <1>6, GotoFact DEF RefreshLocks, RefreshReady, UploadRenames, UploadNotInserted, AppPcs
  <1>7. CASE RefreshReadsTargets(r) \/ RefreshQueues(r) \/ RefreshSkips(r)
    <2>1. Alone(r) /\ req'[r].pc = "refresh_queue"
      BY <1>7 DEF RefreshReadsTargets, RefreshQueues, RefreshSkips, Alone, JobsTypeOK, Request
    <2> QED BY <1>5, <2>1 DEF AppPcs
  <1>8. CASE \/ CreateQueues(r) \/ CreateRefused(r) \/ RefreshRefused(r) \/ RefreshReturns(r)
             \/ DeleteRefused(r) \/ DeleteRemovesFile(r) \/ DeleteUndoes(r)
             \/ UploadInserts(r) \/ UploadDiscards(r)
    <2>1. Finish(r)
      BY <1>8 DEF CreateQueues, CreateRefused, RefreshRefused, RefreshReturns, DeleteRefused,
         DeleteRemovesFile, DeleteUndoes, UploadInserts, UploadDiscards, Return
    <2> QED BY <1>5, <2>1, FinishFact DEF AppPcs
  <1> QED BY <1>3, <1>4, <1>6, <1>7, <1>8 DEF RequestStep

\* An arriving request knows that its app has a row.
LEMMA HandlerArrives ==
    ASSUME LibraryInv, NEW r \in Requests, RequestArrives(r)
    PROVE  HandlerInv'
  <1> USE DEF LibraryInv
  <1>1. UNCHANGED apps
    BY ArrivesFrame
  <1>2. /\ Alone(r)
        /\ req'[r].pc # "delete_file"
        /\ req'[r].pc \in AppPcs => req'[r].app \in Apps /\ apps[req'[r].app].state # "absent"
    <2>1. CASE RefreshArrives(r)
      <3>1. Alone(r) /\ req'[r].pc = "refresh_wait"
        BY <2>1, GotoFact DEF RefreshArrives
      <3> QED BY <3>1 DEF AppPcs
    <2>2. ASSUME NEW a \in Apps, NEW d \in Devices, CreateArrives(r, a, d) PROVE <1>2!:
      BY <2>2 DEF CreateArrives, NoRequest, Alone, JobsTypeOK, AppPcs
    <2>3. ASSUME NEW a \in Apps, DeleteArrives(r, a) PROVE <1>2!:
      BY <2>3 DEF DeleteArrives, NoRequest, Alone, JobsTypeOK, AppPcs
    <2>4. ASSUME NEW a \in Apps, NEW c \in Contents, UploadArrives(r, a, c) PROVE <1>2!:
      BY <2>4 DEF UploadArrives, NoRequest, Alone, JobsTypeOK, AppPcs
    <2> QED BY <2>1, <2>2, <2>3, <2>4 DEF RequestArrives
  <1> QED BY <1>1, <1>2, HandlerKept

\* Every step of the library keeps what the handlers know.
LEMMA HandlerStep ==
    ASSUME LibraryInv, LibraryNext
    PROVE  HandlerInv'
  <1> USE DEF LibraryInv
  <1>1. CASE UNCHANGED <<apps, req>>
    BY <1>1 DEF HandlerInv
  <1>2. ASSUME NEW r \in Requests, Disconnect(r) PROVE HandlerInv'
    BY <1>2, FinishFact, HandlerKept DEF Disconnect, Return, storeVars, AppPcs
  <1>3. CASE Restart
    BY <1>3 DEF Restart, HandlerInv, NoRequest, AppPcs
  <1> QED BY <1>1, <1>2, <1>3, HandlerArrives, HandlerRequest, RunnerFrame
     DEF LibraryNext, LibraryStep, ForgetInstallation, UpdateRefreshSettings, UnlinkRuns, Tick,
         LoseFile, storeVars

\* What a step has to leave alone for the uploads' facts to survive.
LEMMA UploadKept ==
    ASSUME UploadInv, NEW r \in Requests, Alone(r),
           \A q \in Requests \ {r} : req[q].pc \in UploadPcs =>
               /\ apps'[req[q].app].state = "absent"
               /\ req[q].pc = "upload_insert" =>
                     files'[req[q].path] = files[req[q].path] \/ files'[req[q].path] = None,
           req'[r].pc \in UploadPcs =>
               /\ req'[r].app \in Apps
               /\ req'[r].content \in Contents
               /\ req'[r].path = UploadPath(req'[r].app)
               /\ apps'[req'[r].app].state = "absent"
               /\ \A q \in Requests \ {r} :
                     req[q].pc \in UploadPcs => req[q].app # req'[r].app
               /\ req'[r].pc = "upload_insert" => files'[req'[r].path] \in {req'[r].content, None}
    PROVE  UploadInv'
  BY DEF UploadInv, Alone

\* A handler's steps keep the ids of uploads their own.
LEMMA UploadRequest ==
    ASSUME LibraryInv, NEW r \in Requests, RequestStep(r)
    PROVE  UploadInv'
  <1> USE DEF LibraryInv
  <1>1. ASSUME NEW q \in Requests \ {r}, req[q].pc \in UploadPcs
        PROVE  /\ apps'[req[q].app].state = "absent"
               /\ files'[req[q].path] = files[req[q].path] \/ files'[req[q].path] = None
    <2>1. /\ req[q].app \in Apps
          /\ apps[req[q].app].state = "absent"
          /\ req[q].path = UploadPath(req[q].app)
          /\ req[q].path \in Paths
      BY <1>1, UploadsPath DEF UploadInv
    <2>2. apps'[req[q].app].state = "absent"
      <3>1. CASE DeleteMarks(r)
        BY <2>1, <3>1 DEF DeleteMarks, MarkAppDeleted, HandlerInv, AppPcs, JobsTypeOK, StoreTypeOK
      <3>2. CASE DeleteUndoes(r)
        BY <2>1, <3>2 DEF DeleteUndoes, RestoreApp, HandlerInv, AppPcs, JobsTypeOK, StoreTypeOK
      <3>3. CASE UploadInserts(r)
        <4>1. req[q].app # req[r].app
          BY <1>1, <3>3 DEF UploadInserts, UploadInv, UploadPcs
        <4> QED BY <2>1, <3>3, <4>1 DEF UploadInserts, InsertApp, JobsTypeOK, StoreTypeOK
      <3> QED BY <2>1, <3>1, <3>2, <3>3, RequestEffects
    <2>3. files'[req[q].path] = files[req[q].path] \/ files'[req[q].path] = None
      <3>1. CASE UploadRenames(r)
        <4>1. req[q].path # req[r].path
          <5>1. req[r].pc \in UploadPcs
            BY <3>1 DEF UploadRenames, UploadPcs
          <5>2. req[q].app # req[r].app /\ req[r].path = UploadPath(req[r].app)
            BY <1>1, <5>1 DEF UploadInv
          <5> QED BY <2>1, <5>2 DEF UploadPath
        <4> QED BY <2>1, <3>1, <4>1 DEF UploadRenames, JobsTypeOK
      <3>2. CASE DeleteRemovesFile(r) \/ UploadDiscards(r)
        BY <2>1, <3>2 DEF DeleteRemovesFile, UploadDiscards, JobsTypeOK
      <3> QED BY <3>1, <3>2, RequestEffects
    <2> QED BY <2>2, <2>3
  <1>2. ASSUME Alone(r), req'[r].pc \notin UploadPcs PROVE UploadInv'
    BY <1>1, <1>2, UploadKept
  <1>3. CASE UploadRenames(r) \/ UploadNotInserted(r)
    <2>1. /\ Alone(r) /\ req[r].pc \in UploadPcs
          /\ req'[r].app = req[r].app /\ req'[r].content = req[r].content
          /\ req'[r].path = req[r].path
          /\ UNCHANGED apps
      BY <1>3, GotoFact DEF UploadRenames, UploadNotInserted, UploadPcs, storeVars
    <2>2. req'[r].pc = "upload_insert" => files'[req[r].path] = req[r].content
      <3>1. req[r].path \in Paths
        BY <2>1, UploadsPath
      <3>2. CASE UploadRenames(r)
        BY <3>1, <3>2 DEF UploadRenames, JobsTypeOK
      <3>3. CASE UploadNotInserted(r)
        BY <3>3, GotoFact DEF UploadNotInserted
      <3> QED BY <1>3, <3>2, <3>3
    <2>3. /\ req[r].app \in Apps /\ req[r].content \in Contents
          /\ req[r].path = UploadPath(req[r].app)
          /\ apps[req[r].app].state = "absent"
          /\ \A q \in Requests \ {r} : req[q].pc \in UploadPcs => req[q].app # req[r].app
      BY <2>1 DEF UploadInv
    <2> QED BY <1>1, <2>1, <2>2, <2>3, UploadKept
  <1>4. CASE CreateLocks(r) \/ DeleteLocks(r) \/ RefreshLocks(r) \/ RefreshReady(r)
    <2>1. Alone(r) /\ req'[r].pc \in {"create_held", "delete_held", "refresh_ready", "refresh_devices"}
      BY <1>4, GotoFact DEF CreateLocks, DeleteLocks, RefreshLocks, RefreshReady
    <2> QED BY <1>2, <2>1 DEF UploadPcs
  <1>5. CASE RefreshReadsTargets(r) \/ RefreshQueues(r) \/ RefreshSkips(r) \/ DeleteMarks(r)
    <2>1. Alone(r) /\ req'[r].pc \in {"refresh_queue", "delete_file"}
      BY <1>5 DEF RefreshReadsTargets, RefreshQueues, RefreshSkips, DeleteMarks, Alone,
         JobsTypeOK, Request
    <2> QED BY <1>2, <2>1 DEF UploadPcs
  <1>6. CASE \/ CreateQueues(r) \/ CreateRefused(r) \/ RefreshRefused(r) \/ RefreshReturns(r)
             \/ DeleteRefused(r) \/ DeleteRemovesFile(r) \/ DeleteUndoes(r)
             \/ UploadInserts(r) \/ UploadDiscards(r)
    <2>1. Finish(r)
      BY <1>6 DEF CreateQueues, CreateRefused, RefreshRefused, RefreshReturns, DeleteRefused,
         DeleteRemovesFile, DeleteUndoes, UploadInserts, UploadDiscards, Return
    <2> QED BY <1>2, <2>1, FinishFact DEF UploadPcs
  <1> QED BY <1>3, <1>4, <1>5, <1>6 DEF RequestStep

\* An upload arrives with an id of its own.
LEMMA UploadArrivesStep ==
    ASSUME LibraryInv, NEW r \in Requests, RequestArrives(r)
    PROVE  UploadInv'
  <1> USE DEF LibraryInv
  <1>1. UNCHANGED <<apps, files>>
    BY ArrivesFrame
  <1>2. ASSUME Alone(r), req'[r].pc \notin UploadPcs PROVE UploadInv'
    BY <1>1, <1>2, UploadKept DEF UploadInv
  <1>3. CASE RefreshArrives(r)
    <2>1. Alone(r) /\ req'[r].pc = "refresh_wait"
      BY <1>3, GotoFact DEF RefreshArrives
    <2> QED BY <1>2, <2>1 DEF UploadPcs
  <1>4. ASSUME NEW a \in Apps, NEW d \in Devices, CreateArrives(r, a, d) PROVE UploadInv'
    <2>1. Alone(r) /\ req'[r].pc = "create_wait"
      BY <1>4 DEF CreateArrives, NoRequest, Alone, JobsTypeOK
    <2> QED BY <1>2, <2>1 DEF UploadPcs
  <1>5. ASSUME NEW a \in Apps, DeleteArrives(r, a) PROVE UploadInv'
    <2>1. Alone(r) /\ req'[r].pc = "delete_wait"
      BY <1>5 DEF DeleteArrives, NoRequest, Alone, JobsTypeOK
    <2> QED BY <1>2, <2>1 DEF UploadPcs
  <1>6. ASSUME NEW a \in Apps, NEW c \in Contents, UploadArrives(r, a, c) PROVE UploadInv'
    <2>1. /\ Alone(r) /\ req'[r].pc = "upload_rename" /\ req'[r].app = a
          /\ req'[r].content = c /\ req'[r].path = UploadPath(a)
      BY <1>6 DEF UploadArrives, NoRequest, Alone, JobsTypeOK
    <2>2. apps[a].state = "absent" /\ \A q \in Requests : req[q].app # a
      BY <1>6 DEF UploadArrives, FreshApp
    <2> QED BY <1>1, <2>1, <2>2, UploadKept DEF UploadInv
  <1> QED BY <1>3, <1>4, <1>5, <1>6 DEF RequestArrives

\* Every step of the library keeps the ids of uploads their own.
LEMMA UploadStep ==
    ASSUME LibraryInv, LibraryNext
    PROVE  UploadInv'
  <1> USE DEF LibraryInv
  <1>1. CASE UNCHANGED <<apps, req, files>>
    BY <1>1 DEF UploadInv
  <1>2. ASSUME NEW p \in Paths, LoseFile(p) \/ UnlinkRuns(p) PROVE UploadInv'
    <2>1. UNCHANGED <<apps, req>> /\ files' = [files EXCEPT ![p] = None]
      BY <1>2 DEF LoseFile, UnlinkRuns, storeVars
    <2>2. ASSUME NEW r \in Requests, req[r].pc \in UploadPcs
          PROVE  files'[req[r].path] = files[req[r].path] \/ files'[req[r].path] = None
      BY <2>1, <2>2, UploadsPath DEF JobsTypeOK
    <2> QED BY <2>1, <2>2 DEF UploadInv, UploadPcs
  <1>3. ASSUME NEW r \in Requests, Disconnect(r) PROVE UploadInv'
    BY <1>3, FinishFact, UploadKept DEF Disconnect, Return, storeVars, UploadPcs, UploadInv
  <1>4. CASE Restart
    BY <1>4 DEF Restart, UploadInv, NoRequest, UploadPcs
  <1> QED BY <1>1, <1>2, <1>3, <1>4, UploadRequest, UploadArrivesStep, RunnerFrame
     DEF LibraryNext, LibraryStep, ForgetInstallation, UpdateRefreshSettings, Tick,
         storeVars, fileVars

-----------------------------------------------------------------------------
(* Jobs *)

OtherJobsKept(j) ==
    \A k \in Jobs \ {j} :
        /\ jobs'[k] = jobs[k] /\ run'[k] = run[k] /\ ipa'[k] = ipa[k]
        /\ task'[k] = task[k] /\ signed'[k] = signed[k]

\* What update_job_status changes.
LEMMA StatusFacts ==
    ASSUME StoreTypeOK, NEW j \in Jobs, NEW phase \in ActivePhases \cup TerminalPhases,
           UpdateJobStatus(j, phase)
    PROVE  /\ \A k \in Jobs \ {j} : jobs'[k] = jobs[k]
           /\ jobs'[j].app = jobs[j].app
           /\ jobs'[j].phase = IF jobs[j].phase = "absent" THEN "absent" ELSE phase
  BY DEF UpdateJobStatus, UpdateJob, StoreTypeOK, Job

\* What set_job_failure changes.
LEMMA FailureFacts ==
    ASSUME StoreTypeOK, NEW j \in Jobs, NEW code, SetJobFailure(j, code)
    PROVE  /\ \A k \in Jobs \ {j} : jobs'[k] = jobs[k]
           /\ jobs'[j].app = jobs[j].app
           /\ jobs'[j].phase = jobs[j].phase
  BY DEF SetJobFailure, UpdateJob, StoreTypeOK, Job

\* What set_job_installed_bundle_id changes.
LEMMA IdentifiedFacts ==
    ASSUME StoreTypeOK, NEW j \in Jobs, SetJobInstalledBundleId(j)
    PROVE  /\ \A k \in Jobs \ {j} : jobs'[k] = jobs[k]
           /\ jobs'[j].app = jobs[j].app
           /\ jobs'[j].phase = jobs[j].phase
  BY DEF SetJobInstalledBundleId, UpdateJob, StoreTypeOK, Job

\* What a step of job j does to its row: the row stays that of the same app, and
\* a terminal phase is only written by the step that ends the job.
LEMMA RunnerRowFacts ==
    ASSUME LibraryInv, NEW j \in Jobs, RunnerStep(j) \/ SignerStep(j)
    PROVE  /\ \A k \in Jobs \ {j} : jobs'[k] = jobs[k]
           /\ jobs'[j].app = jobs[j].app
           /\ jobs'[j].phase = "absent" <=> jobs[j].phase = "absent"
           /\ SetSucceeded(j) \/ SetFailed(j) \/ (IsActive(j) => jobs'[j].phase \in ActivePhases)
  <1> USE DEF LibraryInv, JobsTypeOK, IsActive
  <1>1. ASSUME NEW phase \in ActivePhases, UpdateJobStatus(j, phase)
        PROVE  /\ \A k \in Jobs \ {j} : jobs'[k] = jobs[k]
               /\ jobs'[j].app = jobs[j].app
               /\ jobs'[j].phase = "absent" <=> jobs[j].phase = "absent"
               /\ IsActive(j) => jobs'[j].phase \in ActivePhases
    BY <1>1, StatusFacts DEF ActivePhases
  <1>2. CASE Connect(j) \/ BeginSigning(j)
    <2>1. PICK phase \in ActivePhases : UpdateJobStatus(j, phase)
      BY <1>2 DEF Connect, BeginSigning, ActivePhases
    <2> QED BY <1>1, <2>1
  <1>3. CASE SignSucceeds(j) \/ LateCallback(j)
    <2>1. PICK phase \in ActivePhases : UpdateJobStatus(j, phase)
      BY <1>3 DEF SignSucceeds, LateCallback, ActivePhases
    <2> QED BY <1>1, <2>1
  <1>4. CASE SetSucceeded(j) \/ SetFailed(j)
    <2>1. PICK phase \in TerminalPhases : UpdateJobStatus(j, phase)
      BY <1>4 DEF SetSucceeded, SetFailed, TerminalPhases
    <2> QED BY <1>4, <2>1, StatusFacts DEF TerminalPhases
  <1>5. CASE FileMissing(j) \/ SignTimesOut(j) \/ InstallFails(j)
    <2>1. PICK code : SetJobFailure(j, code)
      BY <1>5 DEF FileMissing, SignTimesOut, InstallFails
    <2> QED BY <2>1, FailureFacts
  <1>6. CASE RecordInstalled(j)
    BY <1>6, IdentifiedFacts DEF RecordInstalled
  <1>7. CASE UNCHANGED jobs
    BY <1>7
  <1> QED BY <1>2, <1>3, <1>4, <1>5, <1>6, <1>7
     DEF RunnerStep, SignerStep, ChooseRoute, EnterTunnel, Open, Signed, Installed,
         TakeSigner, LinkIpa, SignFails, LateEnd, storeVars

SignPcs == {"rsd_sign", "direct_sign"}
SignTasks == {"waiting", "preflight", "signing", "signed", "failed"}

\* What a job's steps make of its place in run_install_job.
LEMMA RunnerRunFacts ==
    ASSUME LibraryInv, NEW j \in Jobs, RunnerStep(j) \/ SignerStep(j)
    PROVE  /\ OtherJobsKept(j)
           /\ \/ /\ SetSucceeded(j) \/ SetFailed(j)
                 /\ run'[j] = "ended" /\ ipa'[j] = None /\ signed'[j] = None
              \/ /\ ~(SetSucceeded(j) \/ SetFailed(j))
                 /\ run'[j] \in RunningPcs <=> run[j] \in RunningPcs
                 /\ ipa'[j] = ipa[j]
                 /\ signed'[j] = signed[j] \/ LinkIpa(j)
           /\ task'[j] \in SignTasks => run'[j] \in SignPcs
  <1> USE DEF LibraryInv, JobsTypeOK
  <1>1. \A k \in Jobs \ {j} : jobs'[k] = jobs[k]
    BY RunnerRowFacts
  <1>2. task[j] \in SignTasks => run[j] \in SignPcs
    BY DEF JobInv, SignTasks, SignPcs
  <1>3. CASE SignerStep(j)
    BY <1>1, <1>2, <1>3 DEF SignerStep, TakeSigner, LinkIpa, SignSucceeds, SignFails, LateCallback, LateEnd,
       OtherJobsKept, SetSucceeded, SetFailed, Step, SignTasks, SignPcs
  <1>4. CASE SetSucceeded(j) \/ SetFailed(j)
    BY <1>1, <1>2, <1>4 DEF SetSucceeded, SetFailed, Step, OtherJobsKept, SignPcs
  <1>5. CASE FileMissing(j) \/ Connect(j) \/ BeginSigning(j) \/ ChooseRoute(j) \/ EnterTunnel(j)
    BY <1>1, <1>2, <1>5 DEF FileMissing, Connect, BeginSigning, ChooseRoute, EnterTunnel, Step,
       OtherJobsKept, SetSucceeded, SetFailed, SignTasks, SignPcs, RunningPcs
  <1>6. CASE Open(j) \/ Signed(j) \/ SignTimesOut(j)
    BY <1>1, <1>2, <1>6 DEF Open, Signed, SignTimesOut, Step,
       OtherJobsKept, SetSucceeded, SetFailed, SignTasks, SignPcs, RunningPcs
  <1>7. CASE InstallFails(j) \/ Installed(j) \/ RecordInstalled(j)
    BY <1>1, <1>2, <1>7 DEF InstallFails, Installed, RecordInstalled, Step,
       OtherJobsKept, SetSucceeded, SetFailed, SignTasks, SignPcs, RunningPcs
  <1> QED BY <1>3, <1>4, <1>5, <1>6, <1>7 DEF RunnerStep

\* A job's steps keep a running job active and on its app's path.
LEMMA JobRunner ==
    ASSUME LibraryInv, NEW j \in Jobs, RunnerStep(j) \/ SignerStep(j)
    PROVE  JobInv'
  <1> USE DEF LibraryInv
  <1>1. UNCHANGED apps
    BY RunnerFrame
  <1>2. ASSUME NEW k \in Jobs
        PROVE  /\ jobs'[k].phase # "absent" =>
                     jobs'[k].app \in Apps /\ apps'[jobs'[k].app].state # "absent"
               /\ run'[k] \in RunningPcs =>
                     /\ jobs'[k].phase \in ActivePhases
                     /\ apps'[jobs'[k].app].state = "live"
                     /\ ipa'[k] = apps'[jobs'[k].app].path
               /\ run'[k] \notin RunningPcs => ipa'[k] = None /\ signed'[k] = None
               /\ task'[k] \in SignTasks => run'[k] \in SignPcs
    <2>1. CASE k # j
      BY <1>1, <2>1, RunnerRunFacts DEF OtherJobsKept, JobInv, Running, IsActive, IsLive, SignTasks, SignPcs
    <2>2. CASE k = j
      <3>1. /\ jobs'[j].app = jobs[j].app
            /\ jobs'[j].phase = "absent" <=> jobs[j].phase = "absent"
            /\ SetSucceeded(j) \/ SetFailed(j) \/ (IsActive(j) => jobs'[j].phase \in ActivePhases)
        BY RunnerRowFacts
      <3>2. CASE SetSucceeded(j) \/ SetFailed(j)
        BY <1>1, <2>2, <3>1, <3>2, RunnerRunFacts DEF JobInv, RunningPcs
      <3>3. CASE ~(SetSucceeded(j) \/ SetFailed(j))
        <4>1. LinkIpa(j) => run[j] \in RunningPcs
          BY DEF LinkIpa, JobInv, RunningPcs
        <4> QED BY <1>1, <2>2, <3>1, <3>3, <4>1, RunnerRunFacts
            DEF JobInv, Running, IsLive, IsActive
      <3> QED BY <3>2, <3>3
    <2> QED BY <2>1, <2>2
  <1> QED BY <1>2 DEF JobInv, Running, IsActive, IsLive, SignTasks, SignPcs

\* A job that is queued, and what it leaves alone.
QueuedJob(j, a, path) ==
    /\ FreshJob(j)
    /\ jobs'[j].phase = "queued" /\ jobs'[j].app = a /\ jobs'[j].failure = None
    /\ jobs'[j].identified = FALSE
    /\ run'[j] = "spawned" /\ ipa'[j] = path
    /\ UNCHANGED <<task, signed>>
    /\ \A k \in Jobs \ {j} : jobs'[k] = jobs[k] /\ run'[k] = run[k] /\ ipa'[k] = ipa[k]

\* A step that queues a job for a live app, on its path, adds what QueuedJob says.
LEMMA Queueing ==
    ASSUME LibraryInv, NEW j \in Jobs, FreshJob(j), NEW a \in Apps, NEW d, NEW path,
           IsLive(a), InsertJob(j, a, d), Spawn(j, path)
    PROVE  QueuedJob(j, a, path)
  BY DEF LibraryInv, JobsTypeOK, StoreTypeOK, InsertJob, NoJob, Spawn, QueuedJob

\* Queueing keeps JobInv.
LEMMA JobQueued ==
    ASSUME LibraryInv, UNCHANGED apps, NEW j \in Jobs, NEW a \in Apps, IsLive(a),
           QueuedJob(j, a, apps[a].path)
    PROVE  JobInv'
  <1> USE DEF LibraryInv
  <1>1. ASSUME NEW k \in Jobs
        PROVE  /\ jobs'[k].phase # "absent" =>
                     jobs'[k].app \in Apps /\ apps'[jobs'[k].app].state # "absent"
               /\ run'[k] \in RunningPcs =>
                     /\ jobs'[k].phase \in ActivePhases
                     /\ apps'[jobs'[k].app].state = "live"
                     /\ ipa'[k] = apps'[jobs'[k].app].path
               /\ run'[k] \notin RunningPcs => ipa'[k] = None /\ signed'[k] = None
               /\ task'[k] \in SignTasks => run'[k] \in SignPcs
    <2>1. CASE k # j
      BY <2>1 DEF QueuedJob, JobInv, Running, IsActive, IsLive, SignTasks, SignPcs
    <2>2. CASE k = j
      <3>1. task[j] \notin SignTasks
        BY DEF QueuedJob, FreshJob, JobInv, SignTasks, SignPcs
      <3> QED BY <2>2, <3>1 DEF QueuedJob, RunningPcs, ActivePhases, IsLive
    <2> QED BY <2>1, <2>2
  <1> QED BY <1>1 DEF JobInv, Running, IsActive, IsLive, SignTasks, SignPcs

\* The two handlers that queue jobs do it for a live app, on its path.
LEMMA RequestQueues ==
    ASSUME LibraryInv, NEW r \in Requests, CreateQueues(r) \/ RefreshQueues(r)
    PROVE  /\ UNCHANGED apps
           /\ \E j \in Jobs, a \in Apps : IsLive(a) /\ QueuedJob(j, a, apps[a].path)
  <1> USE DEF LibraryInv
  <1>1. CASE CreateQueues(r)
    <2>1. req[r].app \in Apps
      BY <1>1 DEF CreateQueues, HandlerInv, AppPcs
    <2>2. PICK j \in Jobs : /\ FreshJob(j)
                            /\ InsertJob(j, req[r].app, req[r].dev)
                            /\ Spawn(j, apps[req[r].app].path)
      BY <1>1 DEF CreateQueues
    <2>3. QueuedJob(j, req[r].app, apps[req[r].app].path)
      BY <1>1, <2>1, <2>2, Queueing DEF CreateQueues
    <2> QED BY <1>1, <2>1, <2>3 DEF CreateQueues
  <1>2. CASE RefreshQueues(r)
    <2>1. PICK t \in req[r].todo, j \in Jobs :
            /\ FreshJob(j)
            /\ InsertJob(j, jobs[t[1]].app, jobs[t[1]].dev)
            /\ Spawn(j, t[2])
      BY <1>2 DEF RefreshQueues
    <2>2. t[1] \in Jobs
      BY DEF JobsTypeOK, Request
    <2>3. /\ jobs[t[1]].phase # "absent"
          /\ IsLive(jobs[t[1]].app)
          /\ t[2] = apps[jobs[t[1]].app].path
      BY <1>2 DEF RefreshQueues, TodoInv
    <2>4. jobs[t[1]].app \in Apps
      BY <2>2, <2>3 DEF JobInv
    <2>5. QueuedJob(j, jobs[t[1]].app, t[2])
      BY <2>1, <2>3, <2>4, Queueing
    <2> QED BY <1>2, <2>3, <2>4, <2>5 DEF RefreshQueues
  <1> QED BY <1>1, <1>2

\* Every step of the library keeps a running job active, its app live.
LEMMA JobStep ==
    ASSUME LibraryInv, LibraryNext
    PROVE  JobInv'
  <1> USE DEF LibraryInv
  <1>1. ASSUME NEW r \in Requests, RequestStep(r) PROVE JobInv'
    <2>1. CASE CreateQueues(r) \/ RefreshQueues(r)
      BY <2>1, RequestQueues, JobQueued
    <2>2. CASE UNCHANGED <<jobs, run, ipa>>
      <3>1. UNCHANGED <<task, signed>>
        BY <1>1, RequestFrame
      <3>2. ASSUME NEW j \in Jobs, jobs[j].phase # "absent"
            PROVE  /\ apps'[jobs[j].app].state # "absent"
                   /\ Running(j) => /\ apps'[jobs[j].app].state = "live"
                                    /\ apps'[jobs[j].app].path = apps[jobs[j].app].path
        <4>1. jobs[j].app \in Apps /\ apps[jobs[j].app].state # "absent"
          BY <3>2 DEF JobInv
        <4>2. DeleteMarks(r) /\ jobs[j].app = req[r].app => ~Running(j)
          BY DEF DeleteMarks, ActiveJobExistsForApp, JobInv
        <4> QED BY <1>1, <4>1, <4>2, RowsKept DEF JobInv, IsLive
      <3>3. \A j \in Jobs : jobs[j].phase = "absent" => ~Running(j)
        BY DEF JobInv, IsActive, ActivePhases
      <3> QED BY <2>2, <3>1, <3>2, <3>3 DEF JobInv, Running, IsActive, IsLive
    <2> QED BY <1>1, <2>1, <2>2, RequestEffects
  <1>2. CASE UNCHANGED <<apps, jobs, run, ipa, task, signed>>
    BY <1>2 DEF JobInv, Running, IsActive, IsLive
  <1>3. CASE Restart
    BY <1>3 DEF Restart, JobInv, Running, RunningPcs, JobsTypeOK, storeVars
  <1> QED BY <1>1, <1>2, <1>3, JobRunner, RequestFrame, ArrivesFrame
     DEF LibraryNext, LibraryStep, ForgetInstallation, UpdateRefreshSettings, UnlinkRuns, Tick,
         LoseFile, Disconnect, storeVars, jobVars

\* A job that is there stays a job for its app.
JobRowsKept ==
    \A k \in Jobs :
        jobs[k].phase # "absent" => jobs'[k].phase # "absent" /\ jobs'[k].app = jobs[k].app

\* A handler's steps never remove a job's row nor give it another app.
LEMMA RequestJobRows ==
    ASSUME LibraryInv, NEW r \in Requests, RequestStep(r)
    PROVE  JobRowsKept
  <1>1. CASE CreateQueues(r) \/ RefreshQueues(r)
    BY <1>1, RequestQueues DEF QueuedJob, FreshJob, JobRowsKept
  <1> QED BY <1>1, RequestEffects DEF JobRowsKept

\* While a refresh holds its guard its targets stay what it read.
LEMMA TodoRequest ==
    ASSUME LibraryInv, NEW r \in Requests, RequestStep(r)
    PROVE  TodoInv'
  <1> USE DEF LibraryInv
  <1>1. JobRowsKept
    BY RequestJobRows
  <1>2. ASSUME NEW q \in Requests, req[q].pc = "refresh_queue", NEW t \in req[q].todo
        PROVE  /\ jobs'[t[1]].phase # "absent"
               /\ apps'[jobs'[t[1]].app].state = "live"
               /\ t[2] = apps'[jobs'[t[1]].app].path
    <2>1. t[1] \in Jobs
      BY DEF JobsTypeOK, Request
    <2>2. /\ jobs[t[1]].phase # "absent"
          /\ apps[jobs[t[1]].app].state = "live"
          /\ t[2] = apps[jobs[t[1]].app].path
      BY <1>2 DEF TodoInv, IsLive
    <2>3. jobs[t[1]].app \in Apps
      BY <2>1, <2>2 DEF JobInv
    <2>4. writer = None
      BY <1>2 DEF LockInv, ReadPcs
    <2>5. r # writer
      BY <2>4, NoneIsNoRequest
    <2> QED BY <1>1, <2>1, <2>2, <2>3, <2>5, RowsKept DEF JobRowsKept
  <1>3. ASSUME Alone(r), req'[r].pc = "refresh_queue" =>
                 req[r].pc = "refresh_queue" /\ req'[r].todo \subseteq req[r].todo
        PROVE  TodoInv'
    BY <1>2, <1>3 DEF TodoInv, Alone, IsLive
  <1>4. CASE RefreshReadsTargets(r)
    <2>1. /\ Alone(r)
          /\ req'[r].todo \subseteq RefreshDueTargets
      BY <1>4 DEF RefreshReadsTargets, Alone, JobsTypeOK, Request
    <2>2. UNCHANGED <<apps, jobs>>
      BY <1>4 DEF RefreshReadsTargets, storeVars
    <2>3. ASSUME NEW t \in RefreshDueTargets
          PROVE  /\ jobs[t[1]].phase # "absent"
                 /\ apps[jobs[t[1]].app].state = "live"
                 /\ t[2] = apps[jobs[t[1]].app].path
      <3>1. PICK k \in Jobs : t = <<k, apps[jobs[k].app].path>> /\ ManagedSuccess(k)
        BY DEF RefreshDueTargets
      <3>2. t[1] = k /\ t[2] = apps[jobs[k].app].path
        BY <3>1
      <3> QED BY <3>1, <3>2 DEF ManagedSuccess, LatestSuccess, IsLive
    <2> QED BY <1>2, <2>1, <2>2, <2>3 DEF TodoInv, Alone, IsLive
  <1>5. CASE RefreshQueues(r) \/ RefreshSkips(r)
    <2>1. /\ Alone(r) /\ req[r].pc = "refresh_queue"
          /\ req'[r].todo \subseteq req[r].todo
      BY <1>5 DEF RefreshQueues, RefreshSkips, Alone, JobsTypeOK, Request
    <2> QED BY <1>3, <2>1
  <1>6. CASE \/ CreateLocks(r) \/ DeleteLocks(r) \/ RefreshLocks(r) \/ RefreshReady(r)
             \/ UploadRenames(r) \/ UploadNotInserted(r)
    <2>1. /\ Alone(r)
          /\ req'[r].pc \in {"create_held", "delete_held", "refresh_ready", "refresh_devices",
                             "upload_insert", "upload_discard"}
      BY <1>6, GotoFact DEF CreateLocks, DeleteLocks, RefreshLocks, RefreshReady, UploadRenames,
         UploadNotInserted
    <2> QED BY <1>3, <2>1
  <1>7. CASE DeleteMarks(r)
    <2>1. Alone(r) /\ req'[r].pc = "delete_file"
      BY <1>7 DEF DeleteMarks, Alone, JobsTypeOK, Request
    <2> QED BY <1>3, <2>1
  <1>8. CASE \/ CreateQueues(r) \/ CreateRefused(r) \/ RefreshRefused(r) \/ RefreshReturns(r)
             \/ DeleteRefused(r) \/ DeleteRemovesFile(r) \/ DeleteUndoes(r)
             \/ UploadInserts(r) \/ UploadDiscards(r)
    <2>1. Finish(r)
      BY <1>8 DEF CreateQueues, CreateRefused, RefreshRefused, RefreshReturns, DeleteRefused,
         DeleteRemovesFile, DeleteUndoes, UploadInserts, UploadDiscards, Return
    <2> QED BY <1>3, <2>1, FinishFact
  <1> QED BY <1>4, <1>5, <1>6, <1>7, <1>8 DEF RequestStep

\* Every step of the library keeps the targets of a refresh what it read.
LEMMA TodoStep ==
    ASSUME LibraryInv, LibraryNext
    PROVE  TodoInv'
  <1> USE DEF LibraryInv
  <1>1. ASSUME NEW r \in Requests, RequestArrives(r) PROVE TodoInv'
    <2>1. /\ Alone(r) /\ req'[r].pc # "refresh_queue"
      <3>1. CASE RefreshArrives(r)
        BY <3>1, GotoFact DEF RefreshArrives
      <3>2. ASSUME NEW a \in Apps, NEW d \in Devices, CreateArrives(r, a, d) PROVE <2>1!:
        BY <3>2 DEF CreateArrives, NoRequest, Alone, JobsTypeOK
      <3>3. ASSUME NEW a \in Apps, DeleteArrives(r, a) PROVE <2>1!:
        BY <3>3 DEF DeleteArrives, NoRequest, Alone, JobsTypeOK
      <3>4. ASSUME NEW a \in Apps, NEW c \in Contents, UploadArrives(r, a, c) PROVE <2>1!:
        BY <3>4 DEF UploadArrives, NoRequest, Alone, JobsTypeOK
      <3> QED BY <1>1, <3>1, <3>2, <3>3, <3>4 DEF RequestArrives
    <2>2. UNCHANGED <<apps, jobs>>
      BY <1>1, ArrivesFrame
    <2> QED BY <2>1, <2>2 DEF TodoInv, Alone, IsLive
  <1>2. ASSUME NEW j \in Jobs, RunnerStep(j) \/ SignerStep(j) PROVE TodoInv'
    <2>1. JobRowsKept
      BY <1>2, RunnerRowFacts DEF JobRowsKept
    <2>2. UNCHANGED <<apps, req>>
      BY <1>2, RunnerFrame
    <2>3. \A r \in Requests : \A t \in req[r].todo : t[1] \in Jobs
      BY DEF JobsTypeOK, Request
    <2> QED BY <2>1, <2>2, <2>3 DEF TodoInv, IsLive, JobRowsKept
  <1>3. ASSUME NEW r \in Requests, Disconnect(r) PROVE TodoInv'
    BY <1>3, FinishFact DEF Disconnect, Return, storeVars, TodoInv, Alone, IsLive
  <1>4. CASE Restart
    BY <1>4 DEF Restart, TodoInv, NoRequest
  <1>5. CASE UNCHANGED <<apps, jobs, req>>
    BY <1>5 DEF TodoInv, IsLive
  <1> QED BY <1>1, <1>2, <1>3, <1>4, <1>5, TodoRequest
     DEF LibraryNext, LibraryStep, ForgetInstallation, UpdateRefreshSettings, UnlinkRuns, Tick,
         LoseFile, storeVars

\* Every step keeps what is being signed what the library records.
LEMMA SignedStep ==
    ASSUME LibraryInv, LibraryNext
    PROVE  SignedIsCurrent'
  <1> USE DEF LibraryInv
  <1>1. ASSUME NEW r \in Requests, RequestStep(r) PROVE SignedIsCurrent'
    <2>1. UNCHANGED signed
      BY <1>1, RequestFrame
    <2>2. ASSUME NEW j \in Jobs, Running(j)
          PROVE  /\ jobs'[j].app = jobs[j].app
                 /\ apps'[jobs[j].app].content = apps[jobs[j].app].content
      <3>1. jobs[j].phase # "absent" /\ jobs[j].app \in Apps /\ apps[jobs[j].app].state # "absent"
        BY <2>2 DEF JobInv, IsActive, ActivePhases
      <3> QED BY <1>1, <3>1, RequestJobRows, RowsKept DEF JobRowsKept
    <2>3. ASSUME NEW j \in Jobs, run'[j] \in RunningPcs, signed[j] # None
          PROVE  Running(j)
      BY <2>3 DEF JobInv
    <2> QED BY <2>1, <2>2, <2>3 DEF SignedIsCurrent, Running
  <1>2. ASSUME NEW j \in Jobs, RunnerStep(j) \/ SignerStep(j) PROVE SignedIsCurrent'
    <2>1. UNCHANGED apps /\ OtherJobsKept(j) /\ jobs'[j].app = jobs[j].app
      BY <1>2, RunnerFrame, RunnerRunFacts, RunnerRowFacts
    <2>2. CASE LinkIpa(j)
      <3>1. Running(j) /\ files[ipa[j]] # None
        BY <2>2 DEF LinkIpa, JobInv, Running, RunningPcs
      <3>2. /\ jobs[j].app \in Apps /\ apps[jobs[j].app].state # "absent"
            /\ ipa[j] = apps[jobs[j].app].path
        BY <3>1 DEF JobInv, IsActive, ActivePhases
      <3>3. signed'[j] = apps[jobs[j].app].content
        BY <2>2, <3>1, <3>2 DEF LinkIpa, FileInv, JobsTypeOK
      <3> QED BY <2>1, <3>3 DEF SignedIsCurrent, OtherJobsKept, Running
    <2>3. CASE ~LinkIpa(j)
      BY <1>2, <2>1, <2>3, RunnerRunFacts DEF SignedIsCurrent, OtherJobsKept, Running
    <2> QED BY <2>2, <2>3
  <1>3. CASE UNCHANGED <<apps, jobs, run, signed>>
    BY <1>3 DEF SignedIsCurrent, Running
  <1>4. CASE Restart
    BY <1>4 DEF Restart, SignedIsCurrent, Running, RunningPcs, JobsTypeOK
  <1> QED BY <1>1, <1>2, <1>3, <1>4, RequestFrame, ArrivesFrame
     DEF LibraryNext, LibraryStep, ForgetInstallation, UpdateRefreshSettings, UnlinkRuns, Tick,
         LoseFile, Disconnect, storeVars, jobVars

-----------------------------------------------------------------------------
(* The invariant *)

\* The invariant holds when the server starts with an empty database.
LEMMA LibraryInvInit == JobsInit => LibraryInv
  <1> SUFFICES ASSUME JobsInit PROVE LibraryInv
    OBVIOUS
  <1> USE DEF JobsInit, NoApp, NoJob, NoRequest
  <1>1. StoreTypeOK
    <2>1. NoApp \in App /\ NoJob \in Job
      BY BoundAssumption DEF App, Job
    <2>2. NoSource \in Source
      BY DEF NoSource, Source
    <2> QED BY <2>1, <2>2, BoundAssumption DEF StoreTypeOK
  <1>2. NoRequest \in Request
    BY DEF Request
  <1>3. TypeOK
    BY <1>1, <1>2 DEF JobsTypeOK
  <1>4. LockInv
    BY NoneIsNoRequest DEF LockInv, ReadPcs, WritePcs
  <1>5. RowInv /\ FileInv
    BY DEF RowInv, FileInv
  <1>6. HandlerInv /\ UploadInv /\ TodoInv
    BY DEF HandlerInv, UploadInv, TodoInv, AppPcs, UploadPcs
  <1>7. JobInv /\ SignedIsCurrent
    BY DEF JobInv, SignedIsCurrent, Running, RunningPcs
  <1> QED BY <1>3, <1>4, <1>5, <1>6, <1>7 DEF LibraryInv

\* A step that changes nothing keeps the invariant.
LEMMA LibraryInvStutter ==
    ASSUME LibraryInv, UNCHANGED vars
    PROVE  LibraryInv'
  <1> USE DEF vars, storeVars, fileVars, lockVars, jobVars
  <1>1. TypeOK'
    BY DEF LibraryInv, JobsTypeOK, StoreTypeOK
  <1>2. LockInv' /\ RowInv' /\ FileInv' /\ HandlerInv' /\ UploadInv'
    BY DEF LibraryInv, LockInv, RowInv, FileInv, HandlerInv, UploadInv
  <1>3. TodoInv' /\ JobInv' /\ SignedIsCurrent'
    BY DEF LibraryInv, TodoInv, JobInv, SignedIsCurrent, Running, IsActive, IsLive
  <1> QED BY <1>1, <1>2, <1>3 DEF LibraryInv

\* Every step of the library keeps the invariant.
LEMMA LibraryInvStep ==
    ASSUME LibraryInv, LibraryNext
    PROVE  LibraryInv'
  BY TypeStep, LockStep, RowStep, FileStep, HandlerStep, UploadStep, TodoStep, JobStep, SignedStep
  DEF LibraryInv

\* The inductive invariant holds of every behaviour of the library.
THEOREM LibraryInvariance == LibrarySpec => []LibraryInv
  <1>1. LibraryInv /\ [LibraryNext]_vars => LibraryInv'
    BY LibraryInvStep, LibraryInvStutter
  <1> QED BY <1>1, LibraryInvInit, PTL DEF LibrarySpec

\* Type correctness for any number of apps, devices, jobs, requests and faults.
THEOREM LibraryTypes == LibrarySpec => []TypeOK
  <1>1. LibraryInv => TypeOK
    BY DEF LibraryInv
  <1> QED BY <1>1, LibraryInvariance, PTL

\* SignedIsCurrent likewise: what run_install_job signs and installs is the content
\* that the library records for the job's app, whatever uploads, deletions, refreshes,
\* restarts and disconnections happen meanwhile.
THEOREM LibrarySignedIsCurrent == LibrarySpec => []SignedIsCurrent
  <1>1. LibraryInv => SignedIsCurrent
    BY DEF LibraryInv
  <1> QED BY <1>1, LibraryInvariance, PTL

-----------------------------------------------------------------------------
(* What a job's row says of it *)

\* What OutcomeInv says of one job.
JobOutcome(j) ==
    /\ jobs[j].phase = "failed" => jobs[j].failure # None
    /\ jobs[j].phase = "succeeded" => jobs[j].identified /\ jobs[j].failure = None
    /\ Running(j) => (run[j] = "failed" <=> jobs[j].failure # None)
    /\ run[j] = "recorded" =>
          jobs[j].identified /\ <<jobs[j].app, jobs[j].dev>> \notin unmanaged

LEMMA OutcomeOfJobs == OutcomeInv <=> \A j \in Jobs : JobOutcome(j)
  BY DEF OutcomeInv, OutcomeExplained, JobOutcome

\* update_job_status writes the phase and nothing else that OutcomeInv is about.
LEMMA StatusOutcome ==
    ASSUME LibraryInv, NEW j \in Jobs, NEW phase \in ActivePhases \cup TerminalPhases,
           UpdateJobStatus(j, phase)
    PROVE  /\ jobs'[j].app = jobs[j].app /\ jobs'[j].dev = jobs[j].dev
           /\ jobs'[j].failure = jobs[j].failure /\ jobs'[j].identified = jobs[j].identified
           /\ jobs'[j].phase = IF jobs[j].phase = "absent" THEN "absent" ELSE phase
  BY DEF LibraryInv, UpdateJobStatus, UpdateJob, JobsTypeOK, StoreTypeOK, Job

\* A job that is running has a row, for its app and its device.
LEMMA RunningRow ==
    ASSUME LibraryInv, NEW j \in Jobs, Running(j)
    PROVE  jobs[j].phase # "absent" /\ jobs[j].phase \in ActivePhases
  BY DEF LibraryInv, JobInv, IsActive, ActivePhases

\* A job's own steps keep what its row says of it.
LEMMA OwnOutcome ==
    ASSUME LibraryInv, OutcomeInv, NEW j \in Jobs, RunnerStep(j) \/ SignerStep(j)
    PROVE  JobOutcome(j)'
  <1> USE DEF LibraryInv
  <1>1. JobOutcome(j)
    BY OutcomeOfJobs
  <1>2. CASE Connect(j) \/ BeginSigning(j)
    <2>1. PICK phase \in ActivePhases : UpdateJobStatus(j, phase)
      BY <1>2 DEF Connect, BeginSigning, ActivePhases
    <2>2. Running(j) /\ run[j] # "failed" /\ run'[j] \notin {"failed", "recorded"}
      BY <1>2 DEF Connect, BeginSigning, Step, Running, RunningPcs, JobsTypeOK
    <2> QED BY <1>1, <2>1, <2>2, StatusOutcome DEF JobOutcome, ActivePhases
  <1>3. CASE SignSucceeds(j) \/ LateCallback(j)
    <2>1. PICK phase \in ActivePhases : UpdateJobStatus(j, phase)
      BY <1>3 DEF SignSucceeds, LateCallback, ActivePhases
    <2>2. UNCHANGED <<run, unmanaged>>
      BY <1>3 DEF SignSucceeds, LateCallback
    <2> QED BY <1>1, <2>1, <2>2, StatusOutcome DEF JobOutcome, ActivePhases, Running
  <1>4. CASE SetSucceeded(j)
    <2>1. UpdateJobStatus(j, "succeeded") /\ run[j] = "recorded" /\ run'[j] = "ended"
      BY <1>4 DEF SetSucceeded, Step, JobsTypeOK
    <2>2. Running(j)
      BY <2>1 DEF Running, RunningPcs
    <2> QED BY <1>1, <2>1, <2>2, StatusOutcome DEF JobOutcome, TerminalPhases, Running, RunningPcs
  <1>5. CASE SetFailed(j)
    <2>1. UpdateJobStatus(j, "failed") /\ run[j] = "failed" /\ run'[j] = "ended"
      BY <1>5 DEF SetFailed, Step, JobsTypeOK
    <2>2. Running(j)
      BY <2>1 DEF Running, RunningPcs
    <2> QED BY <1>1, <2>1, <2>2, StatusOutcome DEF JobOutcome, TerminalPhases, Running, RunningPcs
  <1>6. CASE FileMissing(j) \/ SignTimesOut(j) \/ InstallFails(j)
    <2>1. PICK code \in FailureCodes : SetJobFailure(j, code)
      BY <1>6 DEF FileMissing, SignTimesOut, InstallFails, FailureCodes
    <2>2. Running(j) /\ run'[j] = "failed"
      BY <1>6 DEF FileMissing, SignTimesOut, InstallFails, Step, Running, RunningPcs, JobsTypeOK
    <2>3. jobs'[j] = [jobs[j] EXCEPT !.failure = code]
      BY <2>1, <2>2, RunningRow DEF SetJobFailure, UpdateJob, JobsTypeOK, StoreTypeOK
    <2>4. code # None
      BY NoneIsNoCode
    <2>5. jobs'[j].failure = code /\ jobs'[j].phase = jobs[j].phase
      BY <2>3 DEF JobsTypeOK, StoreTypeOK, Job
    <2> QED BY <1>1, <2>2, <2>4, <2>5, RunningRow DEF JobOutcome, ActivePhases
  <1>7. CASE RecordInstalled(j)
    <2>1. /\ run[j] = "installed" /\ run'[j] = "recorded" /\ Running(j)
          /\ SetJobInstalledBundleId(j)
          /\ unmanaged' = unmanaged \ {<<jobs[j].app, jobs[j].dev>>}
      BY <1>7 DEF RecordInstalled, Step, Running, RunningPcs, RestoreManagedInstallation, JobsTypeOK
    <2>2. jobs'[j] = [jobs[j] EXCEPT !.identified = TRUE]
      BY <2>1, RunningRow DEF SetJobInstalledBundleId, UpdateJob, JobsTypeOK, StoreTypeOK
    <2>3. /\ jobs'[j].identified /\ jobs'[j].failure = jobs[j].failure
          /\ jobs'[j].app = jobs[j].app /\ jobs'[j].dev = jobs[j].dev
          /\ jobs'[j].phase = jobs[j].phase
      BY <2>2 DEF JobsTypeOK, StoreTypeOK, Job
    <2> QED BY <1>1, <2>1, <2>3, RunningRow DEF JobOutcome, ActivePhases
  <1>8. CASE /\ UNCHANGED <<jobs, unmanaged>>
             /\ run'[j] = run[j] \/ (Running(j) /\ run[j] # "failed"
                                        /\ run'[j] \in RunningPcs \ {"failed", "recorded"})
    BY <1>1, <1>8 DEF JobOutcome, Running
  <1>9. CASE ChooseRoute(j) \/ EnterTunnel(j) \/ Open(j) \/ Signed(j) \/ Installed(j)
    BY <1>8, <1>9 DEF ChooseRoute, EnterTunnel, Open, Signed, Installed, Step, storeVars,
       Running, RunningPcs, JobsTypeOK
  <1>10. CASE TakeSigner(j) \/ LinkIpa(j) \/ SignFails(j) \/ LateEnd(j)
    BY <1>8, <1>10 DEF TakeSigner, LinkIpa, SignFails, LateEnd, storeVars
  <1> QED BY <1>2, <1>3, <1>4, <1>5, <1>6, <1>7, <1>9, <1>10 DEF RunnerStep, SignerStep

\* They only take installations out of unmanaged, and leave the other jobs alone.
LEMMA RunnerOutcome ==
    ASSUME LibraryInv, OutcomeInv, NEW j \in Jobs, RunnerStep(j) \/ SignerStep(j)
    PROVE  OutcomeInv'
  <1>1. unmanaged' \subseteq unmanaged
    BY DEF RunnerStep, FileMissing, Connect, BeginSigning, ChooseRoute, EnterTunnel, Open,
       Signed, SignTimesOut, InstallFails, Installed, RecordInstalled, SetSucceeded, SetFailed,
       SignerStep, TakeSigner, LinkIpa, SignSucceeds, SignFails, LateCallback, LateEnd,
       RestoreManagedInstallation, storeVars
  <1>2. ASSUME NEW k \in Jobs \ {j} PROVE JobOutcome(k)'
    <2>1. JobOutcome(k) /\ jobs'[k] = jobs[k] /\ run'[k] = run[k]
      BY OutcomeOfJobs, RunnerRunFacts DEF OtherJobsKept
    <2> QED BY <1>1, <2>1 DEF JobOutcome, Running
  <1>3. \A k \in Jobs : JobOutcome(k)'
    BY <1>2, OwnOutcome
  <1> QED BY <1>3 DEF OutcomeInv, OutcomeExplained, JobOutcome

\* A job that is queued has no failure.
LEMMA QueuedOutcome ==
    ASSUME LibraryInv, OutcomeInv, NEW r \in Requests, CreateQueues(r) \/ RefreshQueues(r)
    PROVE  OutcomeInv'
  <1>1. UNCHANGED unmanaged
    BY DEF CreateQueues, RefreshQueues
  <1>2. PICK j \in Jobs : \E a \in Apps : QueuedJob(j, a, apps[a].path)
    BY RequestQueues
  <1>3. ASSUME NEW k \in Jobs PROVE JobOutcome(k)'
    <2>1. JobOutcome(k)
      BY OutcomeOfJobs
    <2>2. CASE k # j
      BY <1>1, <1>2, <2>1, <2>2 DEF QueuedJob, JobOutcome, Running
    <2>3. CASE k = j
      BY <1>2, <2>3 DEF QueuedJob, JobOutcome, Running
    <2> QED BY <2>2, <2>3
  <1> QED BY <1>3 DEF OutcomeInv, OutcomeExplained, JobOutcome

\* An installation is not removed from management while a job for it is active.
LEMMA ForgetOutcome ==
    ASSUME LibraryInv, OutcomeInv, NEW a \in Apps, NEW d \in Devices, ForgetInstallation(a, d)
    PROVE  OutcomeInv'
  <1>1. UNCHANGED <<jobs, run>> /\ unmanaged' = unmanaged \cup {<<a, d>>}
    BY DEF ForgetInstallation, ForgetManagedInstallation, jobVars
  <1>2. ASSUME NEW j \in Jobs, run[j] = "recorded"
        PROVE  <<jobs[j].app, jobs[j].dev>> # <<a, d>>
    <2>1. IsActive(j)
      BY <1>2, RunningRow DEF Running, RunningPcs, IsActive
    <2> QED BY <2>1 DEF ForgetInstallation, ActiveJobExists
  <1>3. ASSUME NEW j \in Jobs PROVE JobOutcome(j)'
    BY <1>1, <1>2, OutcomeOfJobs DEF JobOutcome, Running
  <1> QED BY <1>3 DEF OutcomeInv, OutcomeExplained, JobOutcome

\* Every step of the library keeps what the rows say.
LEMMA OutcomeStep ==
    ASSUME LibraryInv, OutcomeInv, LibraryNext
    PROVE  OutcomeInv'
  <1>1. CASE UNCHANGED <<jobs, run, unmanaged>>
    BY <1>1 DEF OutcomeInv, OutcomeExplained, Running
  <1>2. ASSUME NEW r \in Requests, RequestArrives(r) \/ RequestStep(r) PROVE OutcomeInv'
    BY <1>1, <1>2, QueuedOutcome, RequestEffects, ArrivesFrame, RequestFrame
  <1>3. CASE Restart
    <2>1. \A j \in Jobs : run'[j] \notin RunningPcs
      BY <1>3 DEF Restart, RunningPcs
    <2> QED BY <1>3, <2>1 DEF Restart, OutcomeInv, OutcomeExplained, Running, RunningPcs, storeVars
  <1> QED BY <1>1, <1>2, <1>3, RunnerOutcome, ForgetOutcome
     DEF LibraryNext, LibraryStep, UpdateRefreshSettings, UnlinkRuns, Tick, LoseFile, Disconnect,
         storeVars, jobVars

\* Without a job there is nothing to say.
LEMMA OutcomeInit == JobsInit => OutcomeInv
  BY DEF JobsInit, NoJob, OutcomeInv, OutcomeExplained, Running, RunningPcs

\* The rows of the jobs tell the outcome, with any number of them under way.
THEOREM LibraryOutcomes == LibrarySpec => []OutcomeInv
  <1>1. LibraryInv /\ OutcomeInv /\ [LibraryNext]_vars => OutcomeInv'
    <2>1. UNCHANGED vars /\ OutcomeInv => OutcomeInv'
      BY DEF vars, storeVars, jobVars, OutcomeInv, OutcomeExplained, Running
    <2> QED BY <2>1, OutcomeStep
  <1> QED BY <1>1, OutcomeInit, LibraryInvariance, PTL DEF LibrarySpec

\* A job that a client sees failed has a reason, and one that it sees succeeded has
\* none, whatever restarts, deadlines and late callbacks come between.
THEOREM LibraryOutcomeExplained == LibrarySpec => []OutcomeExplained
  <1>1. OutcomeInv => OutcomeExplained
    BY DEF OutcomeInv
  <1> QED BY <1>1, LibraryOutcomes, PTL

\* A success is written by no other step of the job.
LEMMA SuccessIsWritten ==
    ASSUME LibraryInv, NEW j \in Jobs, RunnerStep(j) \/ SignerStep(j), ~SetSucceeded(j),
           jobs[j].phase # "succeeded"
    PROVE  jobs'[j].phase # "succeeded"
  <1> USE DEF LibraryInv, JobsTypeOK
  <1>1. CASE Connect(j) \/ BeginSigning(j) \/ SignSucceeds(j) \/ LateCallback(j) \/ SetFailed(j)
    <2>1. PICK phase \in (ActivePhases \cup TerminalPhases) \ {"succeeded"} :
             UpdateJobStatus(j, phase)
      BY <1>1 DEF Connect, BeginSigning, SignSucceeds, LateCallback, SetFailed, ActivePhases,
         TerminalPhases
    <2> QED BY <2>1, StatusFacts
  <1>2. CASE FileMissing(j) \/ SignTimesOut(j) \/ InstallFails(j)
    <2>1. PICK code : SetJobFailure(j, code)
      BY <1>2 DEF FileMissing, SignTimesOut, InstallFails
    <2> QED BY <2>1, FailureFacts
  <1>3. CASE RecordInstalled(j)
    BY <1>3, IdentifiedFacts DEF RecordInstalled
  <1>4. CASE UNCHANGED jobs
    BY <1>4
  <1> QED BY <1>1, <1>2, <1>3, <1>4
     DEF RunnerStep, SignerStep, ChooseRoute, EnterTunnel, Open, Signed, Installed,
         TakeSigner, LinkIpa, SignFails, LateEnd, storeVars

\* The step that writes a success leaves the installation managed.
LEMMA SuccessStep ==
    ASSUME LibraryInv, OutcomeInv, LibraryNext, NEW j \in Jobs,
           jobs[j].phase # "succeeded", jobs'[j].phase = "succeeded"
    PROVE  <<jobs[j].app, jobs[j].dev>> \notin unmanaged'
  <1> USE DEF LibraryInv
  <1>1. ASSUME NEW k \in Jobs, RunnerStep(k) \/ SignerStep(k)
        PROVE  <<jobs[j].app, jobs[j].dev>> \notin unmanaged'
    <2>1. k = j
      BY <1>1, RunnerRowFacts
    <2>2. CASE SetSucceeded(j)
      BY <2>2, OutcomeOfJobs DEF SetSucceeded, Step, JobOutcome
    <2>3. CASE ~SetSucceeded(j)
      <3>1. jobs'[j].phase # "succeeded"
        BY <1>1, <2>1, <2>3, SuccessIsWritten
      <3> QED BY <3>1
    <2> QED BY <2>2, <2>3
  <1>2. ASSUME NEW r \in Requests, CreateQueues(r) \/ RefreshQueues(r)
        PROVE  jobs'[j].phase # "succeeded"
    BY <1>2, RequestQueues DEF QueuedJob
  <1>3. CASE UNCHANGED jobs
    BY <1>3
  <1> QED BY <1>1, <1>2, <1>3, RequestEffects, ArrivesFrame
     DEF LibraryNext, LibraryStep, ForgetInstallation, UpdateRefreshSettings, UnlinkRuns, Tick,
         LoseFile, Disconnect, Restart, storeVars, jobVars

\* A job that has succeeded is managed at that moment, also when a removal from
\* management was asked for while the job ran.
THEOREM LibrarySuccessIsManaged == LibrarySpec => SuccessIsManaged
  <1>1. /\ LibraryInv /\ OutcomeInv /\ [LibraryNext]_vars
        => [\A j \in Jobs :
              jobs[j].phase # "succeeded" /\ jobs'[j].phase = "succeeded" =>
                  <<jobs[j].app, jobs[j].dev>> \notin unmanaged']_vars
    BY SuccessStep
  <1> QED BY <1>1, LibraryInvariance, LibraryOutcomes, PTL DEF LibrarySpec, SuccessIsManaged

-----------------------------------------------------------------------------
(* The library without its sources: an app that is in the library has its   *)
(* file until the disk loses one, whatever handlers are cut short, and a job *)
(* finds the IPA it was queued for.                                         *)

HolderPcs == UploadPcs \cup {"delete_file"}

\* Where a request step leads: only a deletion that marked its row, and an upload,
\* get to a state that names a file.
LEMMA RequestLeads ==
    ASSUME LibraryInv, NEW r \in Requests, RequestStep(r)
    PROVE  /\ Alone(r)
           /\ req'[r].pc \notin SourcePcs
           /\ req'[r].pc \in HolderPcs =>
                 /\ req'[r].app = req[r].app
                 /\ DeleteMarks(r) \/ UploadRenames(r) \/ UploadNotInserted(r)
           /\ req'[r].pc = "upload_insert" =>
                 UploadRenames(r) /\ req'[r].path = req[r].path /\ req'[r].content = req[r].content
  <1> USE DEF LibraryInv, TypeOK, HolderPcs, UploadPcs, SourcePcs
  <1>1. CASE UploadRenames(r) \/ UploadNotInserted(r)
    BY <1>1, GotoFact DEF UploadRenames, UploadNotInserted
  <1>2. CASE CreateLocks(r) \/ DeleteLocks(r) \/ RefreshLocks(r) \/ RefreshReady(r)
    <2>1. Alone(r) /\ req'[r].pc \in {"create_held", "delete_held", "refresh_ready", "refresh_devices"}
      BY <1>2, GotoFact DEF CreateLocks, DeleteLocks, RefreshLocks, RefreshReady
    <2> QED BY <2>1
  <1>3. CASE RefreshReadsTargets(r) \/ RefreshQueues(r) \/ RefreshSkips(r)
    <2>1. Alone(r) /\ req'[r].pc = "refresh_queue"
      BY <1>3 DEF RefreshReadsTargets, RefreshQueues, RefreshSkips, Alone, JobsTypeOK, Request
    <2> QED BY <2>1
  <1>4. CASE DeleteMarks(r)
    <2>1. Alone(r) /\ req'[r].pc = "delete_file" /\ req'[r].app = req[r].app
      BY <1>4 DEF DeleteMarks, Alone, JobsTypeOK, Request
    <2> QED BY <1>4, <2>1
  <1>5. CASE \/ CreateQueues(r) \/ CreateRefused(r) \/ RefreshRefused(r) \/ RefreshReturns(r)
             \/ DeleteRefused(r) \/ DeleteRemovesFile(r) \/ DeleteUndoes(r)
             \/ UploadInserts(r) \/ UploadDiscards(r)
    <2>1. Finish(r)
      BY <1>5 DEF CreateQueues, CreateRefused, RefreshRefused, RefreshReturns, DeleteRefused,
         DeleteRemovesFile, DeleteUndoes, UploadInserts, UploadDiscards, Return
    <2> QED BY <2>1, FinishFact
  <1> QED BY <1>1, <1>2, <1>3, <1>4, <1>5 DEF RequestStep

\* Where a request that arrives is: an upload with an id that nobody has seen.
LEMMA ArrivesLeads ==
    ASSUME LibraryInv, NEW r \in Requests, RequestArrives(r)
    PROVE  /\ Alone(r)
           /\ req'[r].pc \notin SourcePcs
           /\ req'[r].pc \in HolderPcs =>
                 req'[r].pc = "upload_rename" /\ req'[r].app \in Apps /\ FreshApp(req'[r].app)
  <1> USE DEF LibraryInv, TypeOK, HolderPcs, UploadPcs, SourcePcs
  <1>1. CASE RefreshArrives(r)
    <2>1. Alone(r) /\ req'[r].pc = "refresh_wait"
      BY <1>1, GotoFact DEF RefreshArrives
    <2> QED BY <2>1
  <1>2. ASSUME NEW a \in Apps, NEW d \in Devices, CreateArrives(r, a, d)
        PROVE  Alone(r) /\ req'[r].pc = "create_wait"
    BY <1>2 DEF CreateArrives, NoRequest, Alone, JobsTypeOK
  <1>3. ASSUME NEW a \in Apps, DeleteArrives(r, a)
        PROVE  Alone(r) /\ req'[r].pc = "delete_wait"
    BY <1>3 DEF DeleteArrives, NoRequest, Alone, JobsTypeOK
  <1>4. ASSUME NEW a \in Apps, NEW c \in Contents, UploadArrives(r, a, c)
        PROVE  Alone(r) /\ req'[r].pc = "upload_rename" /\ req'[r].app = a /\ FreshApp(a)
    BY <1>4 DEF UploadArrives, NoRequest, Alone, JobsTypeOK
  <1> QED BY <1>1, <1>2, <1>3, <1>4 DEF RequestArrives

\* The app and the path of a request that names a file belong together, and no
\* two such requests have the same app.
LEMMA HolderFacts ==
    ASSUME LibraryInv, NEW r \in Requests, req[r].pc \in HolderPcs
    PROVE  /\ req[r].app \in Apps
           /\ req[r].path \in Paths
           /\ req[r].path[1] = req[r].app
           /\ ~IsLive(req[r].app)
           /\ \A q \in Requests \ {r} : req[q].pc \in HolderPcs => req[q].app # req[r].app
  <1> USE DEF LibraryInv, TypeOK, HolderPcs
  <1>1. CASE req[r].pc \in UploadPcs
    <2>1. /\ req[r].app \in Apps /\ apps[req[r].app].state = "absent"
          /\ req[r].path = UploadPath(req[r].app)
      BY <1>1 DEF UploadInv
    <2>2. \A q \in Requests \ {r} : req[q].pc \in HolderPcs => req[q].app # req[r].app
      BY <1>1, <2>1 DEF UploadInv, HandlerInv
    <2> QED BY <2>1, <2>2 DEF UploadPath, Paths, IsLive
  <1>2. CASE req[r].pc = "delete_file"
    <2>1. /\ req[r].app \in Apps /\ apps[req[r].app].state = "deleted"
          /\ req[r].path = apps[req[r].app].path
          /\ r = writer
      BY <1>2 DEF HandlerInv, AppPcs, LockInv, WritePcs
    <2>2. \A q \in Requests \ {r} : req[q].pc \in HolderPcs => req[q].app # req[r].app
      BY <2>1 DEF UploadInv, LockInv, WritePcs
    <2> QED BY <2>1, <2>2 DEF RowInv, Paths, UploadPath, SourcePath, IsLive
  <1> QED BY <1>1, <1>2

-----------------------------------------------------------------------------
(* Removals that outlive their handler *)

\* Every step keeps a removal that outlived its handler off the apps of the library.
LEMMA UnlinkingStep ==
    ASSUME IntactInv, LibraryNext
    PROVE  UnlinkingInv'
  <1> USE DEF IntactInv
  <1>1. ASSUME NEW r \in Requests, RequestStep(r) PROVE UnlinkingInv'
    <2>1. UNCHANGED unlinking
      BY <1>1, RequestFrame
    <2>2. ASSUME NEW p \in unlinking, NEW q \in Requests, req'[q].pc \in HolderPcs
          PROVE  req'[q].app # p[1]
      <3>1. CASE q # r
        BY <1>1, <2>2, <3>1, RequestLeads DEF Alone, UnlinkingInv, HolderPcs
      <3>2. CASE q = r /\ DeleteMarks(r)
        BY <1>1, <2>2, <3>2, RequestLeads DEF UnlinkingInv, DeleteMarks
      <3>3. CASE q = r /\ (UploadRenames(r) \/ UploadNotInserted(r))
        BY <1>1, <2>2, <3>3, RequestLeads
           DEF UnlinkingInv, UploadRenames, UploadNotInserted, UploadPcs
      <3> QED BY <1>1, <2>2, <3>1, <3>2, <3>3, RequestLeads
    <2>3. ASSUME NEW p \in unlinking PROVE ~(apps'[p[1]].state = "live")
      <3>1. p[1] \in Apps /\ apps[p[1]].state # "live"
        BY DEF UnlinkingInv, IsLive, LibraryInv, TypeOK, JobsTypeOK, Paths
      <3>2. CASE DeleteMarks(r)
        BY <3>1, <3>2 DEF DeleteMarks, MarkAppDeleted, LibraryInv, TypeOK, JobsTypeOK, StoreTypeOK, App
      <3>3. CASE DeleteUndoes(r) \/ UploadInserts(r)
        <4>1. req[r].app # p[1]
          BY <3>3 DEF DeleteUndoes, UploadInserts, UnlinkingInv, UploadPcs
        <4> QED BY <3>1, <3>3, <4>1 DEF DeleteUndoes, RestoreApp, UploadInserts, InsertApp,
               LibraryInv, TypeOK, JobsTypeOK, StoreTypeOK
      <3> QED BY <1>1, <3>1, <3>2, <3>3, RequestEffects
    <2> QED BY <2>1, <2>2, <2>3 DEF UnlinkingInv, IsLive, HolderPcs
  <1>2. ASSUME NEW r \in Requests, RequestArrives(r) PROVE UnlinkingInv'
    <2>1. UNCHANGED <<unlinking, apps>>
      BY <1>2, RequestFrame, ArrivesFrame
    <2>2. ASSUME NEW p \in unlinking, NEW q \in Requests, req'[q].pc \in HolderPcs
          PROVE  req'[q].app # p[1]
      <3>1. CASE q # r
        BY <1>2, <2>2, <3>1, ArrivesLeads DEF Alone, UnlinkingInv, HolderPcs
      <3>2. CASE q = r
        <4>1. req'[r].app \in Apps /\ FreshApp(req'[r].app)
          BY <1>2, <2>2, <3>2, ArrivesLeads
        <4>2. p = <<p[1], p[2]>> /\ p[2] \in Contents \cup {None}
          BY DEF LibraryInv, TypeOK, JobsTypeOK, Paths
        <4> QED BY <3>2, <4>1, <4>2 DEF FreshApp
      <3> QED BY <3>1, <3>2
    <2> QED BY <2>1, <2>2 DEF UnlinkingInv, IsLive, HolderPcs
  <1>3. ASSUME NEW r \in Requests, Disconnect(r) PROVE UnlinkingInv'
    <2>1. /\ UNCHANGED apps /\ Alone(r) /\ req'[r].pc = "idle"
          /\ unlinking' \subseteq unlinking
                \cup {p \in {req[r].path} : req[r].pc \in HolderPcs}
      BY <1>3, FinishFact DEF Disconnect, Return, storeVars, HolderPcs, UploadPcs, LibraryInv
    <2>2. ASSUME NEW p \in unlinking', NEW q \in Requests, req'[q].pc \in HolderPcs
          PROVE  req'[q].app # p[1]
      BY <2>1, <2>2, HolderFacts DEF Alone, UnlinkingInv, HolderPcs, UploadPcs
    <2>3. ASSUME NEW p \in unlinking' PROVE ~IsLive(p[1])
      BY <2>1, HolderFacts DEF UnlinkingInv
    <2> QED BY <2>1, <2>2, <2>3 DEF UnlinkingInv, IsLive, HolderPcs
  <1>4. ASSUME NEW p \in Paths, UnlinkRuns(p) PROVE UnlinkingInv'
    BY <1>4 DEF UnlinkRuns, UnlinkingInv, IsLive, storeVars
  <1>5. CASE Restart
    BY <1>5 DEF Restart, UnlinkingInv
  <1>6. CASE UNCHANGED <<apps, req, unlinking>>
    BY <1>6 DEF UnlinkingInv, IsLive
  <1> QED BY <1>1, <1>2, <1>3, <1>4, <1>5, <1>6, RunnerFrame
     DEF LibraryNext, LibraryStep, ForgetInstallation, UpdateRefreshSettings, Tick, LoseFile,
         storeVars, fileVars

-----------------------------------------------------------------------------
(* The files of the library *)

\* The two conjuncts of PresentInv.
LiveFiles == \A a \in Apps : IsLive(a) => files[apps[a].path] = apps[a].content
UploadedFiles ==
    \A r \in Requests : req[r].pc = "upload_insert" => files[req[r].path] = req[r].content

\* A write to a path of an app that is not in the library, and that no upload is
\* about to insert, is harmless.
LEMMA HarmlessWrite ==
    ASSUME LibraryInv, NEW p \in Paths, NEW c, ~IsLive(p[1]),
           files' = [files EXCEPT ![p] = c], UNCHANGED apps
    PROVE  /\ LiveFiles => LiveFiles'
           /\ \A q \in Requests : req[q].pc = "upload_insert" /\ req[q].app # p[1]
                 => files'[req[q].path] = files[req[q].path]
  <1> USE DEF LibraryInv, TypeOK
  <1>1. ASSUME NEW a \in Apps, IsLive(a) PROVE apps[a].path \in Paths /\ apps[a].path[1] = a
    BY <1>1, RowPath DEF IsLive, RowInv, UploadPath, SourcePath
  <1>2. LiveFiles => LiveFiles'
    BY <1>1 DEF LiveFiles, IsLive, JobsTypeOK
  <1>3. ASSUME NEW q \in Requests, req[q].pc = "upload_insert", req[q].app # p[1]
        PROVE  files'[req[q].path] = files[req[q].path]
    BY <1>3, HolderFacts DEF HolderPcs, UploadPcs, JobsTypeOK
  <1> QED BY <1>2, <1>3

\* A handler's steps keep the library's files and those about to be inserted.
LEMMA PresentRequest ==
    ASSUME IntactInv, NEW r \in Requests, RequestStep(r), LiveFiles, UploadedFiles
    PROVE  LiveFiles' /\ UploadedFiles'
  <1> USE DEF IntactInv
  <1>0. \A q \in Requests : req'[q].pc = "upload_insert" =>
           \/ q # r /\ req'[q] = req[q]
           \/ q = r /\ UploadRenames(r) /\ req'[r].path = req[r].path
                    /\ req'[r].content = req[r].content
    BY RequestLeads DEF Alone
  <1>1. CASE DeleteRemovesFile(r) \/ UploadDiscards(r) \/ UploadRenames(r)
    <2>1. req[r].pc \in HolderPcs /\ UNCHANGED apps
      BY <1>1 DEF DeleteRemovesFile, UploadDiscards, UploadRenames, HolderPcs, UploadPcs, storeVars
    <2>2. PICK c : files' = [files EXCEPT ![req[r].path] = c]
      BY <1>1 DEF DeleteRemovesFile, UploadDiscards, UploadRenames
    <2>3. /\ LiveFiles'
          /\ \A q \in Requests \ {r} : req[q].pc = "upload_insert"
                => files'[req[q].path] = files[req[q].path]
      <3>1. /\ req[r].path \in Paths /\ ~IsLive(req[r].path[1])
            /\ \A q \in Requests \ {r} : req[q].pc \in HolderPcs => req[q].app # req[r].path[1]
        BY <2>1, HolderFacts
      <3>2. /\ LiveFiles => LiveFiles'
            /\ \A q \in Requests : req[q].pc = "upload_insert" /\ req[q].app # req[r].path[1]
                  => files'[req[q].path] = files[req[q].path]
        BY <2>1, <2>2, <3>1, HarmlessWrite
      <3> QED BY <3>1, <3>2 DEF HolderPcs, UploadPcs
    <2>4. UploadRenames(r) => files'[req[r].path] = req[r].content
      <3>1. req[r].path \in Paths /\ files \in [Paths -> Contents \cup {None}]
        BY <2>1, HolderFacts DEF LibraryInv, TypeOK, JobsTypeOK
      <3> QED BY <3>1 DEF UploadRenames
    <2> QED BY <1>0, <2>3, <2>4 DEF UploadedFiles
  <1>2. CASE DeleteMarks(r)
    <2>1. UNCHANGED files
      BY <1>2 DEF DeleteMarks, fileVars
    <2>2. \A a \in Apps : apps'[a].state = "live" => apps'[a] = apps[a]
      BY <1>2 DEF DeleteMarks, MarkAppDeleted, LibraryInv, TypeOK, JobsTypeOK, StoreTypeOK, App
    <2>3. ~UploadRenames(r)
      BY <1>2 DEF DeleteMarks, UploadRenames
    <2> QED BY <1>0, <2>1, <2>2, <2>3 DEF LiveFiles, UploadedFiles, IsLive
  <1>3. CASE DeleteUndoes(r)
    <2>1. UNCHANGED files
      BY <1>3 DEF DeleteUndoes, fileVars
    <2>2. /\ req[r].app \in Apps /\ req[r].path = apps[req[r].app].path
          /\ apps[req[r].app].state # "absent" /\ files[req[r].path] # None
      BY <1>3 DEF DeleteUndoes, LibraryInv, HandlerInv, AppPcs
    <2>3. files[req[r].path] = apps[req[r].app].content
      BY <2>2 DEF LibraryInv, FileInv
    <2>4. ASSUME NEW a \in Apps, apps'[a].state = "live"
          PROVE  files'[apps'[a].path] = apps'[a].content
      BY <1>3, <2>1, <2>2, <2>3, <2>4
         DEF DeleteUndoes, RestoreApp, LiveFiles, IsLive, LibraryInv, TypeOK, JobsTypeOK,
             StoreTypeOK, App
    <2>5. ~UploadRenames(r)
      BY <1>3 DEF DeleteUndoes, UploadRenames
    <2> QED BY <1>0, <2>1, <2>4, <2>5 DEF LiveFiles, UploadedFiles, IsLive
  <1>4. CASE UploadInserts(r)
    <2>1. UNCHANGED files
      BY <1>4 DEF UploadInserts, fileVars
    <2>2. req[r].app \in Apps /\ files[req[r].path] = req[r].content
      BY <1>4 DEF UploadInserts, UploadedFiles, LibraryInv, UploadInv, UploadPcs
    <2>3. ASSUME NEW a \in Apps, apps'[a].state = "live"
          PROVE  files'[apps'[a].path] = apps'[a].content
      BY <1>4, <2>1, <2>2, <2>3
         DEF UploadInserts, InsertApp, LiveFiles, IsLive, LibraryInv, TypeOK, JobsTypeOK, StoreTypeOK
    <2>4. ~UploadRenames(r)
      BY <1>4 DEF UploadInserts, UploadRenames
    <2> QED BY <1>0, <2>1, <2>3, <2>4 DEF LiveFiles, UploadedFiles, IsLive
  <1>5. CASE UNCHANGED <<apps, files>> /\ ~UploadRenames(r)
    BY <1>0, <1>5 DEF LiveFiles, UploadedFiles, IsLive
  <1> QED BY <1>1, <1>2, <1>3, <1>4, <1>5, RequestEffects

\* Every step of the library does, until the disk loses a file.
LEMMA PresentStep ==
    ASSUME IntactInv, LibraryNext
    PROVE  PresentInv'
  <1> USE DEF IntactInv
  <1>0. PresentInv <=> (NoLoss => LiveFiles /\ UploadedFiles)
    BY DEF PresentInv, LiveFiles, UploadedFiles
  <1>1. PresentInv' <=> (NoLoss' => LiveFiles' /\ UploadedFiles')
    BY DEF PresentInv, LiveFiles, UploadedFiles
  <1>2. ASSUME NEW r \in Requests, RequestStep(r) PROVE PresentInv'
    BY <1>0, <1>1, <1>2, PresentRequest, RequestFrame DEF NoLoss
  <1>3. ASSUME NEW r \in Requests, RequestArrives(r) PROVE PresentInv'
    <2>1. UNCHANGED <<apps, files, faults>>
      BY <1>3, ArrivesFrame, RequestFrame
    <2>2. \A q \in Requests : req'[q].pc = "upload_insert" => req'[q] = req[q]
      BY <1>3, ArrivesLeads DEF Alone, HolderPcs, UploadPcs
    <2> QED BY <1>0, <1>1, <2>1, <2>2 DEF NoLoss, LiveFiles, UploadedFiles, IsLive
  <1>4. ASSUME NEW r \in Requests, Disconnect(r) PROVE PresentInv'
    <2>1. /\ UNCHANGED <<apps, files>> /\ NoLoss' = NoLoss
          /\ Alone(r) /\ req'[r].pc = "idle"
      BY <1>4, FinishFact DEF Disconnect, Return, storeVars, NoLoss, LibraryInv, TypeOK, JobsTypeOK
    <2> QED BY <1>0, <1>1, <2>1 DEF LiveFiles, UploadedFiles, IsLive, Alone
  <1>5. ASSUME NEW p \in Paths, UnlinkRuns(p) PROVE PresentInv'
    <2>1. /\ UNCHANGED <<apps, faults, req>> /\ files' = [files EXCEPT ![p] = None]
          /\ p \in unlinking
      BY <1>5 DEF UnlinkRuns, storeVars
    <2>2. /\ ~IsLive(p[1])
          /\ \A q \in Requests : req[q].pc = "upload_insert" => req[q].app # p[1]
      BY <2>1 DEF UnlinkingInv, UploadPcs
    <2>3. /\ LiveFiles => LiveFiles'
          /\ \A q \in Requests : req[q].pc = "upload_insert"
                => files'[req[q].path] = files[req[q].path]
      BY <2>1, <2>2, HarmlessWrite
    <2> QED BY <1>0, <1>1, <2>1, <2>3 DEF NoLoss, UploadedFiles
  <1>6. ASSUME NEW p \in Paths, LoseFile(p) PROVE PresentInv'
    BY <1>1, <1>6 DEF LoseFile, NoLoss, LibraryInv, TypeOK, JobsTypeOK
  <1>7. CASE Restart
    <2>1. UNCHANGED <<apps, files>> /\ NoLoss' = NoLoss
      BY <1>7 DEF Restart, storeVars, NoLoss, LibraryInv, TypeOK, JobsTypeOK
    <2>2. \A q \in Requests : req'[q].pc = "idle"
      BY <1>7 DEF Restart, NoRequest
    <2> QED BY <1>0, <1>1, <2>1, <2>2 DEF LiveFiles, UploadedFiles, IsLive
  <1>8. CASE UNCHANGED <<apps, req, files, faults>>
    BY <1>8 DEF PresentInv, IsLive, NoLoss
  <1> QED BY <1>2, <1>3, <1>4, <1>5, <1>6, <1>7, <1>8, RunnerFrame
     DEF LibraryNext, LibraryStep, ForgetInstallation, UpdateRefreshSettings, Tick, storeVars, fileVars

\* Without sources no request is in a handler of sources.rs.
LEMMA NoSourceStep ==
    ASSUME IntactInv, LibraryNext
    PROVE  \A q \in Requests : req'[q].pc \notin SourcePcs
  <1> USE DEF IntactInv
  <1>1. ASSUME NEW r \in Requests, RequestArrives(r) \/ RequestStep(r)
        PROVE  \A q \in Requests : req'[q].pc \notin SourcePcs
    BY <1>1, RequestLeads, ArrivesLeads DEF Alone
  <1>2. ASSUME NEW r \in Requests, Disconnect(r)
        PROVE  \A q \in Requests : req'[q].pc \notin SourcePcs
    BY <1>2, FinishFact DEF Disconnect, Return, Alone, SourcePcs, LibraryInv
  <1>3. CASE Restart
    BY <1>3 DEF Restart, NoRequest, SourcePcs
  <1> QED BY <1>1, <1>2, <1>3, RunnerFrame
     DEF LibraryNext, LibraryStep, ForgetInstallation, UpdateRefreshSettings, UnlinkRuns, Tick,
         LoseFile

-----------------------------------------------------------------------------

\* The invariant holds when the server starts with an empty database.
LEMMA IntactInvInit == JobsInit => IntactInv
  <1>1. JobsInit => LibraryInv
    BY LibraryInvInit
  <1> QED BY <1>1 DEF IntactInv, JobsInit, NoRequest, NoApp, SourcePcs, UnlinkingInv, PresentInv, IsLive

\* Every step of the library keeps it.
LEMMA IntactInvStep == IntactInv /\ [LibraryNext]_vars => IntactInv'
  <1> SUFFICES ASSUME IntactInv, [LibraryNext]_vars PROVE IntactInv'
    OBVIOUS
  <1>1. CASE LibraryNext
    BY <1>1, LibraryInvStep, UnlinkingStep, PresentStep, NoSourceStep DEF IntactInv
  <1>2. CASE UNCHANGED vars
    <2>1. LibraryInv'
      BY <1>2, LibraryInvStutter DEF IntactInv
    <2> QED BY <1>2, <2>1
       DEF IntactInv, UnlinkingInv, PresentInv, NoLoss, IsLive, vars, storeVars, fileVars
  <1> QED BY <1>1, <1>2

\* The invariant holds of every behaviour of the library.
THEOREM IntactInvariance == LibrarySpec => []IntactInv
  BY IntactInvInit, IntactInvStep, PTL DEF LibrarySpec

\* JobIpaIntact for any number of apps, devices, jobs, requests and faults.
THEOREM LibraryJobIpaIntact == LibrarySpec => []JobIpaIntact
  <1>1. IntactInv => JobIpaIntact
    <2> SUFFICES ASSUME IntactInv, NEW j \in Jobs, Running(j)
                 PROVE  LET a == jobs[j].app
                        IN  /\ IsLive(a)
                            /\ ipa[j] = apps[a].path
                            /\ \/ files[ipa[j]] = apps[a].content
                               \/ files[ipa[j]] = None /\ faults.losses > 0
      BY DEF JobIpaIntact
    <2>1. /\ jobs[j].app \in Apps /\ IsLive(jobs[j].app)
          /\ ipa[j] = apps[jobs[j].app].path
      BY DEF IntactInv, LibraryInv, JobInv, IsActive, ActivePhases
    <2>2. files[ipa[j]] \in {apps[jobs[j].app].content, None}
      BY <2>1 DEF IntactInv, LibraryInv, FileInv, IsLive
    <2>3. NoLoss => files[ipa[j]] = apps[jobs[j].app].content
      BY <2>1 DEF IntactInv, PresentInv
    <2>4. ~NoLoss => faults.losses > 0
      BY DEF NoLoss, IntactInv, LibraryInv, TypeOK, JobsTypeOK
    <2> QED BY <2>1, <2>2, <2>3, <2>4
  <1> QED BY <1>1, IntactInvariance, PTL

\* LiveAppHasFile likewise.
THEOREM LibraryLiveAppHasFile == LibrarySpec => []LiveAppHasFile
  <1>1. IntactInv => LiveAppHasFile
    BY DEF IntactInv, PresentInv, NoLoss, LiveAppHasFile
  <1> QED BY <1>1, IntactInvariance, PTL

-----------------------------------------------------------------------------
(* What a refresh starts *)

\* A job is only started by a handler that creates it, or by the refresh whose list
\* of targets gets shorter by it.
LEMMA RefreshStarter ==
    ASSUME LibraryInv, LibraryNext, NEW r \in Requests, NEW j \in Jobs,
           req[r].pc = "refresh_queue", req'[r].todo # req[r].todo,
           run[j] = "none", run'[j] # "none"
    PROVE  RefreshQueues(r)
  <1> USE DEF LibraryInv
  <1>1. ASSUME NEW k \in Jobs, RunnerStep(k) \/ SignerStep(k) PROVE FALSE
    BY <1>1, RunnerFrame
  <1>2. ~Restart
    BY DEF Restart, JobsTypeOK
  <1>3. PICK q \in Requests : CreateQueues(q) \/ RefreshQueues(q)
    BY <1>1, <1>2, RequestEffects, ArrivesFrame
       DEF LibraryNext, LibraryStep, ForgetInstallation, UpdateRefreshSettings, UnlinkRuns, Tick,
           LoseFile, Disconnect, storeVars, jobVars
  <1>4. Alone(q)
    BY <1>3, FinishFact DEF CreateQueues, RefreshQueues, Return, Alone, JobsTypeOK
  <1> QED BY <1>3, <1>4 DEF Alone, CreateQueues

\* TodoInv gives the row and the file, JobInv that a task's row is active.
LEMMA RefreshStart ==
    ASSUME IntactInv, LibraryNext, NEW r \in Requests, NEW j \in Jobs,
           req[r].pc = "refresh_queue", req'[r].todo # req[r].todo,
           run[j] = "none", run'[j] # "none"
    PROVE  /\ jobs'[j].phase = "queued"
           /\ files[ipa'[j]] = apps[jobs'[j].app].content \/ faults.losses > 0
           /\ ~\E k \in Jobs : /\ Running(k) /\ jobs[k].app = jobs'[j].app
                               /\ jobs[k].dev = jobs'[j].dev
  <1> USE DEF IntactInv, LibraryInv
  <1>1. RefreshQueues(r)
    BY RefreshStarter
  <1>2. PICK t \in req[r].todo, i \in Jobs :
          /\ ~ActiveJobExists(jobs[t[1]].app, jobs[t[1]].dev)
          /\ FreshJob(i) /\ InsertJob(i, jobs[t[1]].app, jobs[t[1]].dev)
          /\ Spawn(i, t[2])
    BY <1>1 DEF RefreshQueues
  <1>3. i = j
    BY <1>2 DEF Spawn, JobsTypeOK
  <1>4. /\ t[1] \in Jobs /\ jobs[t[1]].phase # "absent"
        /\ IsLive(jobs[t[1]].app) /\ t[2] = apps[jobs[t[1]].app].path
    BY <1>1 DEF TodoInv, JobsTypeOK, Request
  <1>5. /\ jobs'[j].phase = "queued" /\ ipa'[j] = t[2]
        /\ jobs'[j].app = jobs[t[1]].app /\ jobs'[j].dev = jobs[t[1]].dev
    BY <1>2, <1>3, <1>4 DEF InsertJob, NoJob, Spawn, JobsTypeOK, StoreTypeOK
  <1>6. files[ipa'[j]] = apps[jobs'[j].app].content \/ faults.losses > 0
    <2>1. jobs[t[1]].app \in Apps
      BY <1>4 DEF JobInv
    <2>2. faults.losses \in Nat
      BY DEF JobsTypeOK
    <2> QED BY <1>4, <1>5, <2>1, <2>2 DEF PresentInv, NoLoss
  <1>7. \A k \in Jobs : Running(k) => IsActive(k)
    BY DEF JobInv
  <1> QED BY <1>2, <1>5, <1>6, <1>7 DEF ActiveJobExists

\* What a refresh starts is right, however long ago it read its targets.
THEOREM LibraryRefreshStartsRight == LibrarySpec => RefreshStartsRight
  <1>1. /\ IntactInv /\ [LibraryNext]_vars
        => [\A r \in Requests, j \in Jobs :
              req[r].pc = "refresh_queue" /\ req'[r].todo # req[r].todo
              /\ run[j] = "none" /\ run'[j] # "none" =>
                  /\ jobs'[j].phase = "queued"
                  /\ files[ipa'[j]] = apps[jobs'[j].app].content \/ faults.losses > 0
                  /\ ~\E k \in Jobs : /\ Running(k) /\ jobs[k].app = jobs'[j].app
                                      /\ jobs[k].dev = jobs'[j].dev]_vars
    BY RefreshStart
  <1> QED BY <1>1, IntactInvariance, PTL DEF LibrarySpec, RefreshStartsRight

-----------------------------------------------------------------------------
(* Who a file belongs to: the steps of the library, also beside its sources *)

\* The file at p stays somebody's when its owners stay.
LEMMA OwnedKept ==
    ASSUME NEW r \in Requests, Alone(r), NEW p, Owned(p),
           \A a \in Apps : IsLive(a) /\ apps[a].path = p =>
               apps'[a].state = "live" /\ apps'[a].path = p,
           req[r].pc \in PathPcs /\ req[r].path = p => Owned(p)'
    PROVE  Owned(p)'
  BY DEF Owned, Alone, IsLive

\* A step of a handler hands its file on, or removes it.
LEMMA OwnedRequest ==
    ASSUME LibraryInv, NEW r \in Requests, RequestStep(r), NEW p \in Paths,
           files[p] # None => Owned(p), files'[p] # None
    PROVE  Owned(p)'
  <1> USE DEF LibraryInv, TypeOK
  <1>0. Alone(r)
    BY RequestLeads
  <1>1. CASE UploadRenames(r) \/ UploadNotInserted(r)
    <2>1. /\ req'[r].pc \in PathPcs /\ req'[r].path = req[r].path
          /\ UNCHANGED apps /\ (p # req[r].path => files'[p] = files[p])
      BY <1>1 DEF UploadRenames, UploadNotInserted, Goto, storeVars, fileVars, PathPcs, UploadPcs,
         JobsTypeOK, Request
    <2>2. CASE p = req[r].path
      BY <2>1, <2>2 DEF Owned
    <2>3. CASE p # req[r].path
      BY <1>0, <2>1, <2>3, OwnedKept DEF IsLive
    <2> QED BY <2>2, <2>3
  <1>2. CASE DeleteRemovesFile(r) \/ UploadDiscards(r)
    <2>1. req[r].path \in Paths
      BY <1>2, HolderFacts DEF DeleteRemovesFile, UploadDiscards, HolderPcs, UploadPcs
    <2>2. UNCHANGED apps /\ files' = [files EXCEPT ![req[r].path] = None]
      BY <1>2 DEF DeleteRemovesFile, UploadDiscards, storeVars
    <2>3. p # req[r].path /\ files'[p] = files[p]
      BY <2>1, <2>2 DEF JobsTypeOK
    <2> QED BY <1>0, <2>2, <2>3, OwnedKept DEF IsLive
  <1>3. CASE DeleteUndoes(r)
    <2>1. /\ req[r].app \in Apps /\ req[r].path = apps[req[r].app].path
          /\ UNCHANGED files
          /\ apps' = [apps EXCEPT ![req[r].app].state = "live"]
      BY <1>3 DEF DeleteUndoes, RestoreApp, HandlerInv, AppPcs, fileVars
    <2>2. /\ apps'[req[r].app].state = "live" /\ apps'[req[r].app].path = req[r].path
          /\ \A a \in Apps : IsLive(a) => apps'[a].state = "live" /\ apps'[a].path = apps[a].path
      BY <2>1 DEF IsLive, JobsTypeOK, StoreTypeOK, App
    <2>3. CASE p = req[r].path
      BY <2>1, <2>2, <2>3 DEF Owned, IsLive
    <2>4. CASE p # req[r].path
      BY <1>0, <2>1, <2>2, <2>4, OwnedKept
    <2> QED BY <2>3, <2>4
  <1>4. CASE UploadInserts(r)
    <2>1. /\ req[r].app \in Apps /\ apps[req[r].app].state = "absent" /\ UNCHANGED files
          /\ InsertApp(req[r].app, req[r].content, req[r].path)
      BY <1>4 DEF UploadInserts, UploadInv, UploadPcs, fileVars
    <2>2. /\ apps'[req[r].app].state = "live" /\ apps'[req[r].app].path = req[r].path
          /\ \A a \in Apps : IsLive(a) => apps'[a] = apps[a]
      BY <2>1 DEF InsertApp, IsLive, JobsTypeOK, StoreTypeOK
    <2>3. CASE p = req[r].path
      BY <2>1, <2>2, <2>3 DEF Owned, IsLive
    <2>4. CASE p # req[r].path
      BY <1>0, <2>1, <2>2, <2>4, OwnedKept DEF IsLive
    <2> QED BY <2>3, <2>4
  <1>5. CASE DeleteMarks(r)
    <2>1. /\ req[r].app \in Apps /\ UNCHANGED files /\ req[r].pc = "delete_held"
          /\ req'[r].pc = "delete_file" /\ req'[r].path = apps[req[r].app].path
          /\ \A a \in Apps \ {req[r].app} : apps'[a] = apps[a]
      BY <1>5 DEF DeleteMarks, MarkAppDeleted, HandlerInv, AppPcs, fileVars, JobsTypeOK,
         StoreTypeOK, Request
    <2>2. CASE p = apps[req[r].app].path
      BY <2>1, <2>2 DEF Owned, PathPcs
    <2>3. CASE p # apps[req[r].app].path
      BY <1>0, <2>1, <2>3, OwnedKept DEF IsLive, PathPcs, UploadPcs
    <2> QED BY <2>2, <2>3
  <1>6. CASE UNCHANGED <<apps, files>> /\ req[r].pc \notin PathPcs
    BY <1>0, <1>6, OwnedKept DEF IsLive
  <1>7. CASE \/ CreateLocks(r) \/ CreateQueues(r) \/ CreateRefused(r)
             \/ RefreshLocks(r) \/ RefreshReady(r) \/ RefreshRefused(r)
             \/ RefreshReadsTargets(r) \/ RefreshQueues(r) \/ RefreshSkips(r) \/ RefreshReturns(r)
             \/ DeleteLocks(r) \/ DeleteRefused(r)
    BY <1>6, <1>7 DEF CreateLocks, CreateQueues, CreateRefused, RefreshLocks, RefreshReady,
       RefreshRefused, RefreshReadsTargets, RefreshQueues, RefreshSkips, RefreshReturns,
       DeleteLocks, DeleteRefused, storeVars, fileVars, PathPcs, UploadPcs
  <1> QED BY <1>1, <1>2, <1>3, <1>4, <1>5, <1>7 DEF RequestStep

\* Every step of the library leaves no file behind that is nobody's, unless it is
\* the step that cuts a handler short.
LEMMA OwnedStep ==
    ASSUME LibraryInv, OwnedInv, LibraryNext
    PROVE  OwnedInv'
  <1> USE DEF LibraryInv, TypeOK
  <1>1. ASSUME NEW r \in Requests, RequestStep(r) PROVE OwnedInv'
    BY <1>1, OwnedRequest, RequestFrame DEF OwnedInv, Uninterrupted
  <1>2. ASSUME NEW r \in Requests, RequestArrives(r) PROVE OwnedInv'
    <2>1. UNCHANGED <<apps, files, faults>> /\ Alone(r)
      BY <1>2, ArrivesFrame, RequestFrame, ArrivesLeads
    <2>2. req[r].pc \notin PathPcs
      BY <1>2 DEF RequestArrives, CreateArrives, RefreshArrives, DeleteArrives, UploadArrives,
         PathPcs, UploadPcs
    <2> QED BY <2>1, <2>2, OwnedKept DEF OwnedInv, Uninterrupted, IsLive
  <1>3. ASSUME NEW r \in Requests, Disconnect(r) PROVE OwnedInv'
    BY <1>3 DEF Disconnect, OwnedInv, Uninterrupted, JobsTypeOK
  <1>4. CASE Restart
    BY <1>4 DEF Restart, OwnedInv, Uninterrupted, JobsTypeOK
  <1>5. ASSUME NEW p \in Paths, UnlinkRuns(p) \/ LoseFile(p) PROVE OwnedInv'
    <2>1. UNCHANGED <<apps, req>> /\ (Uninterrupted' => Uninterrupted)
      BY <1>5 DEF UnlinkRuns, LoseFile, storeVars, Uninterrupted, JobsTypeOK
    <2>2. \A q \in Paths : files'[q] # None => files[q] # None
      BY <1>5 DEF UnlinkRuns, LoseFile, JobsTypeOK
    <2> QED BY <2>1, <2>2 DEF OwnedInv, Owned, IsLive
  <1>6. CASE UNCHANGED <<apps, req, files, faults>>
    BY <1>6 DEF OwnedInv, Owned, IsLive, Uninterrupted
  <1> QED BY <1>1, <1>2, <1>3, <1>4, <1>5, <1>6, RunnerFrame
     DEF LibraryNext, LibraryStep, ForgetInstallation, UpdateRefreshSettings, Tick,
         storeVars, fileVars

\* There is no file at first.
LEMMA OwnedInit == JobsInit => OwnedInv
  BY DEF JobsInit, OwnedInv

\* What Owned says is what the property asks for.
LEMMA OwnedSuffices == OwnedInv => NoOrphanFile
  BY DEF OwnedInv, Owned, Uninterrupted, NoOrphanFile

\* The library keeps no file that is nobody's, as long as no handler was cut short.
THEOREM LibraryNoOrphanFile == LibrarySpec => []NoOrphanFile
  <1>1. LibraryInv /\ OwnedInv /\ [LibraryNext]_vars => OwnedInv'
    <2>1. UNCHANGED vars /\ OwnedInv => OwnedInv'
      BY DEF vars, storeVars, fileVars, OwnedInv, Owned, IsLive, Uninterrupted
    <2> QED BY <2>1, OwnedStep
  <1> QED BY <1>1, OwnedInit, OwnedSuffices, LibraryInvariance, PTL DEF LibrarySpec

-----------------------------------------------------------------------------
(* The library as a shelf: what a job has copied *)

\* What CopyInv says of one job.
JobCopy(j) ==
    /\ run[j] \in PreparePcs \/ task[j] \in {"waiting", "preflight"} => signed[j] = None
    /\ run[j] \in InstallPcs \/ task[j] \in {"signing", "signed"} => signed[j] # None
    /\ jobs[j].phase = "absent" => jobs[j].identified = FALSE

LEMMA CopyOfJobs == CopyInv <=> \A j \in Jobs : JobCopy(j)
  BY DEF CopyInv, JobCopy

\* Only the step that records an installation reports it, and only of a running job.
LEMMA ReportStep ==
    ASSUME LibraryInv, NEW j \in Jobs, RunnerStep(j) \/ SignerStep(j)
    PROVE  \/ jobs'[j].identified = jobs[j].identified
           \/ RecordInstalled(j) /\ jobs[j].phase # "absent" /\ jobs'[j].identified = TRUE
  <1> USE DEF LibraryInv
  <1>1. CASE \E phase \in ActivePhases \cup TerminalPhases : UpdateJobStatus(j, phase)
    BY <1>1, StatusOutcome
  <1>2. CASE \E code : SetJobFailure(j, code)
    <2>1. PICK code : SetJobFailure(j, code)
      BY <1>2
    <2> QED BY <2>1 DEF SetJobFailure, UpdateJob, JobsTypeOK, StoreTypeOK, Job
  <1>3. CASE RecordInstalled(j)
    <2>1. jobs[j].phase # "absent" /\ SetJobInstalledBundleId(j)
      BY <1>3, RunningRow DEF RecordInstalled, Step, Running, RunningPcs
    <2>2. jobs'[j] = [jobs[j] EXCEPT !.identified = TRUE]
      BY <2>1 DEF SetJobInstalledBundleId, UpdateJob, JobsTypeOK, StoreTypeOK
    <2> QED BY <1>3, <2>1, <2>2 DEF JobsTypeOK, StoreTypeOK, Job
  <1>4. CASE UNCHANGED jobs
    BY <1>4
  <1> QED BY <1>1, <1>2, <1>3, <1>4
     DEF RunnerStep, SignerStep, FileMissing, Connect, BeginSigning, ChooseRoute, EnterTunnel,
         Open, Signed, SignTimesOut, InstallFails, Installed, SetSucceeded, SetFailed, TakeSigner,
         LinkIpa, SignSucceeds, SignFails, LateCallback, LateEnd, storeVars, ActivePhases,
         TerminalPhases

\* A job copies the IPA before it goes behind the signing step, and once.
LEMMA OwnCopy ==
    ASSUME LibraryInv, CopyInv, NEW j \in Jobs, RunnerStep(j) \/ SignerStep(j)
    PROVE  JobCopy(j)'
  <1> USE DEF LibraryInv, JobsTypeOK, PreparePcs, InstallPcs
  <1>1. JobCopy(j)
    BY CopyOfJobs
  <1>2. jobs'[j].phase = "absent" => jobs'[j].identified = FALSE
    BY <1>1, ReportStep, RunnerRowFacts DEF JobCopy
  <1>3. CASE FileMissing(j) \/ Connect(j) \/ BeginSigning(j) \/ ChooseRoute(j) \/ EnterTunnel(j)
    BY <1>1, <1>2, <1>3 DEF JobCopy, FileMissing, Connect, BeginSigning, ChooseRoute, EnterTunnel, Step
  <1>4. CASE Open(j) \/ Signed(j)
    BY <1>1, <1>2, <1>4 DEF JobCopy, Open, Signed, Step
  <1>5. CASE SignTimesOut(j) \/ InstallFails(j)
    BY <1>1, <1>2, <1>5 DEF JobCopy, SignTimesOut, InstallFails, Step
  <1>6. CASE Installed(j) \/ RecordInstalled(j)
    BY <1>1, <1>2, <1>6 DEF JobCopy, Installed, RecordInstalled, Step
  <1>7. CASE SetSucceeded(j) \/ SetFailed(j)
    <2>1. run[j] \in {"recorded", "failed"} /\ run'[j] = "ended" /\ signed'[j] = None /\ task' = task
      BY <1>7 DEF SetSucceeded, SetFailed, Step
    <2>2. task[j] \notin {"waiting", "preflight", "signing", "signed"}
      BY <2>1 DEF JobInv
    <2> QED BY <1>2, <2>1, <2>2 DEF JobCopy
  <1>8. CASE TakeSigner(j) \/ SignSucceeds(j) \/ SignFails(j) \/ LateCallback(j) \/ LateEnd(j)
    BY <1>1, <1>2, <1>8 DEF JobCopy, TakeSigner, SignSucceeds, SignFails, LateCallback, LateEnd
  <1>9. CASE LinkIpa(j)
    <2>1. run[j] \in {"rsd_sign", "direct_sign"} /\ run' = run
      BY <1>9 DEF LinkIpa, JobInv
    <2>2. task'[j] = "signing" /\ signed'[j] # None
      BY <1>9 DEF LinkIpa
    <2> QED BY <1>2, <2>1, <2>2 DEF JobCopy
  <1> QED BY <1>3, <1>4, <1>5, <1>6, <1>7, <1>8, <1>9 DEF RunnerStep, SignerStep

\* Every step of the library keeps that.
LEMMA CopyStep ==
    ASSUME LibraryInv, CopyInv, LibraryNext
    PROVE  CopyInv'
  <1>1. CASE UNCHANGED <<jobs, run, task, signed>>
    BY <1>1 DEF CopyInv
  <1>2. ASSUME NEW r \in Requests, RequestArrives(r) \/ RequestStep(r) PROVE CopyInv'
    <2>1. CASE CreateQueues(r) \/ RefreshQueues(r)
      <3>1. PICK j \in Jobs, a \in Apps : QueuedJob(j, a, apps[a].path)
        BY <2>1, RequestQueues
      <3>2. signed[j] = None /\ task[j] \notin SignTasks
        BY <3>1 DEF LibraryInv, JobInv, QueuedJob, FreshJob, Running, RunningPcs, SignTasks
      <3>3. ASSUME NEW k \in Jobs PROVE JobCopy(k)'
        <4>1. JobCopy(k)
          BY CopyOfJobs
        <4>2. CASE k # j
          BY <3>1, <4>1, <4>2 DEF QueuedJob, JobCopy
        <4>3. CASE k = j
          BY <3>1, <3>2, <4>3 DEF QueuedJob, JobCopy, PreparePcs, InstallPcs, SignTasks
        <4> QED BY <4>2, <4>3
      <3> QED BY <3>3 DEF CopyInv, JobCopy
    <2>2. CASE UNCHANGED <<jobs, run>>
      BY <1>1, <1>2, <2>2, RequestFrame
    <2> QED BY <1>2, <2>1, <2>2, RequestEffects, ArrivesFrame
  <1>3. ASSUME NEW j \in Jobs, RunnerStep(j) \/ SignerStep(j) PROVE CopyInv'
    <2>1. ASSUME NEW k \in Jobs PROVE JobCopy(k)'
      <3>1. CASE k # j
        BY <1>3, <3>1, CopyOfJobs, RunnerRunFacts DEF OtherJobsKept, JobCopy
      <3>2. CASE k = j
        BY <1>3, <3>2, OwnCopy
      <3> QED BY <3>1, <3>2
    <2> QED BY <2>1 DEF CopyInv, JobCopy
  <1>4. CASE Restart
    BY <1>4 DEF Restart, CopyInv, PreparePcs, InstallPcs, storeVars
  <1> QED BY <1>1, <1>2, <1>3, <1>4
     DEF LibraryNext, LibraryStep, ForgetInstallation, UpdateRefreshSettings, UnlinkRuns, Tick,
         LoseFile, Disconnect, storeVars, jobVars

\* No row gets the content of another.
LEMMA UniqueStep ==
    ASSUME LibraryInv, UniqueInv, LibraryNext
    PROVE  UniqueInv'
  <1> USE DEF LibraryInv, JobsTypeOK, StoreTypeOK, App
  <1>1. CASE UNCHANGED apps
    BY <1>1 DEF UniqueInv
  <1>2. ASSUME NEW r \in Requests, RequestStep(r) PROVE UniqueInv'
    <2>1. CASE DeleteMarks(r)
      BY <2>1 DEF DeleteMarks, MarkAppDeleted, IsLive, UniqueInv
    <2>2. CASE DeleteUndoes(r)
      BY <2>2 DEF DeleteUndoes, RestoreApp, HandlerInv, AppPcs, UniqueInv
    <2>3. CASE UploadInserts(r)
      BY <2>3 DEF UploadInserts, InsertApp, ContentFree, UniqueInv
    <2> QED BY <1>1, <1>2, <2>1, <2>2, <2>3, RequestEffects
  <1> QED BY <1>1, <1>2, RunnerFrame, ArrivesFrame
     DEF LibraryNext, LibraryStep, ForgetInstallation, UpdateRefreshSettings, UnlinkRuns, Tick,
         LoseFile, Disconnect, Restart, storeVars

LEMMA ShelfInvInit == JobsInit => ShelfInv
  BY DEF JobsInit, NoApp, NoJob, ShelfInv, CopyInv, UniqueInv, PreparePcs, InstallPcs


-----------------------------------------------------------------------------
(* The library as a shelf: every step is one of IpaShelf, or none *)

ShelfStep == [Shelf!ShelfNext]_Shelf!shelfVars

\* A job that is where it was on the shelf's account.
SameJob(j) ==
    /\ run'[j] = "none" <=> run[j] = "none"
    /\ Running(j)' <=> Running(j)
    /\ Running(j) => jobs'[j].app = jobs[j].app
    /\ jobs'[j].identified = jobs[j].identified

LEMMA SameJobs ==
    ASSUME \A j \in Jobs : SameJob(j)
    PROVE  StageOf' = StageOf /\ LentTo' = LentTo /\ Reported' = Reported
  BY DEF SameJob, StageOf, LentTo, Reported

LEMMA SameApps ==
    ASSUME UNCHANGED apps
    PROVE  OnShelf' = OnShelf
  BY DEF OnShelf, IsLive

LEMMA NothingOnTheShelf ==
    ASSUME UNCHANGED apps, UNCHANGED signed, \A j \in Jobs : SameJob(j)
    PROVE  ShelfStep
  BY SameJobs, SameApps DEF ShelfStep, Shelf!shelfVars

\* A running job has an app, which is live.
LEMMA RunningApp ==
    ASSUME LibraryInv, NEW j \in Jobs, Running(j)
    PROVE  /\ jobs[j].app \in Apps /\ IsLive(jobs[j].app) /\ IsActive(j)
           /\ apps[jobs[j].app].content \in Contents
           /\ ipa[j] = apps[jobs[j].app].path
           /\ files[ipa[j]] \in {apps[jobs[j].app].content, None}
           /\ StageOf[j] = "running" /\ LentTo[j] = jobs[j].app
           /\ OnShelf[LentTo[j]] = apps[jobs[j].app].content
           /\ OnShelf[LentTo[j]] # None
  <1>1. /\ jobs[j].app \in Apps /\ IsLive(jobs[j].app) /\ IsActive(j)
        /\ ipa[j] = apps[jobs[j].app].path
    BY RunningRow DEF LibraryInv, JobInv
  <1>2. /\ apps[jobs[j].app].content \in Contents
        /\ files[ipa[j]] \in {apps[jobs[j].app].content, None}
    BY <1>1 DEF LibraryInv, RowInv, FileInv, IsLive
  <1>3. StageOf[j] = "running" /\ LentTo[j] = jobs[j].app
    BY DEF StageOf, LentTo, Running, RunningPcs
  <1> QED BY <1>1, <1>2, <1>3, NoneAssumption DEF OnShelf

\* What is lent is the app of an active job.
LEMMA LentIsBusy ==
    ASSUME LibraryInv, NEW a \in Apps, Shelf!Lent(a)
    PROVE  IsLive(a) /\ ActiveJobExistsForApp(a)
  <1>1. PICK j \in Jobs : LentTo[j] = a
    BY DEF Shelf!Lent
  <1>2. Running(j) /\ jobs[j].app = a
    BY <1>1, NoneAssumption DEF LentTo
  <1> QED BY <1>2, RunningApp DEF ActiveJobExistsForApp

\* A job copies, reports and ends as IpaShelf lets it.
LEMMA JobShelf ==
    ASSUME LibraryInv, ShelfInv, NEW j \in Jobs, RunnerStep(j) \/ SignerStep(j)
    PROVE  ShelfStep
  <1> USE DEF LibraryInv, JobsTypeOK
  <1>1. UNCHANGED apps /\ OnShelf' = OnShelf
    BY RunnerFrame, SameApps
  <1>2. \A k \in Jobs \ {j} : SameJob(k) /\ signed'[k] = signed[k]
    BY RunnerRunFacts DEF OtherJobsKept, SameJob, Running
  <1>3. jobs'[j].app = jobs[j].app
    BY RunnerRowFacts
  <1>4. CASE LinkIpa(j)
    <2>1. Running(j) /\ UNCHANGED <<jobs, run>>
      BY <1>4 DEF LinkIpa, JobInv, Running, RunningPcs, storeVars
    <2>2. signed[j] = None /\ signed' = [signed EXCEPT ![j] = files[ipa[j]]] /\ files[ipa[j]] # None
      BY <1>4 DEF LinkIpa, ShelfInv, CopyInv
    <2>3. files[ipa[j]] = OnShelf[LentTo[j]] /\ StageOf[j] = "running"
      BY <2>1, <2>2, RunningApp
    <2>4. StageOf' = StageOf /\ LentTo' = LentTo /\ Reported' = Reported
      BY <2>1, SameJobs DEF SameJob, Running
    <2>5. Shelf!Copy(j)
      BY <1>1, <2>2, <2>3, <2>4 DEF Shelf!Copy
    <2> QED BY <2>5 DEF ShelfStep, Shelf!ShelfNext
  <1>5. CASE RecordInstalled(j)
    <2>1. /\ run[j] = "installed" /\ run'[j] = "recorded" /\ Running(j) /\ Running(j)'
          /\ signed' = signed
      BY <1>5 DEF RecordInstalled, Step, Running, RunningPcs
    <2>2. signed[j] # None /\ StageOf[j] = "running"
      BY <2>1, RunningApp DEF ShelfInv, CopyInv, InstallPcs
    <2>3. StageOf' = StageOf /\ LentTo' = LentTo
      BY <1>2, <1>3, <2>1 DEF StageOf, LentTo, SameJob
    <2>4. jobs'[j].identified = TRUE
      <3>1. jobs[j].phase # "absent" /\ SetJobInstalledBundleId(j)
        BY <1>5, <2>1, RunningRow DEF RecordInstalled
      <3>2. jobs'[j] = [jobs[j] EXCEPT !.identified = TRUE]
        BY <3>1 DEF SetJobInstalledBundleId, UpdateJob, StoreTypeOK
      <3> QED BY <3>2 DEF StoreTypeOK, Job
    <2>5. Reported' = [Reported EXCEPT ![j] = TRUE]
      BY <1>2, <2>4 DEF Reported, SameJob
    <2>6. Shelf!Deliver(j)
      BY <1>1, <2>1, <2>2, <2>3, <2>5 DEF Shelf!Deliver
    <2> QED BY <2>6 DEF ShelfStep, Shelf!ShelfNext
  <1>6. CASE SetSucceeded(j) \/ SetFailed(j)
    <2>1. /\ Running(j) /\ run'[j] = "ended" /\ ~Running(j)'
          /\ signed' = [signed EXCEPT ![j] = None]
      BY <1>6 DEF SetSucceeded, SetFailed, Step, Running, RunningPcs
    <2>2. jobs'[j].identified = jobs[j].identified
      BY <1>6, ReportStep DEF RecordInstalled, SetSucceeded, SetFailed, Step
    <2>3. /\ StageOf' = [k \in Jobs |-> IF k \in {j} THEN "over" ELSE StageOf[k]]
          /\ LentTo' = [k \in Jobs |-> IF k \in {j} THEN None ELSE LentTo[k]]
          /\ signed' = [k \in Jobs |-> IF k \in {j} THEN None ELSE signed[k]]
          /\ Reported' = Reported
      BY <1>2, <2>1, <2>2 DEF StageOf, LentTo, Reported, SameJob
    <2>4. Shelf!End({j})
      BY <1>1, <2>1, <2>3, RunningApp DEF Shelf!End
    <2> QED BY <2>4 DEF ShelfStep, Shelf!ShelfNext
  <1>7. CASE ~(LinkIpa(j) \/ RecordInstalled(j) \/ SetSucceeded(j) \/ SetFailed(j))
    <2>1. run'[j] = run[j] \/ (run[j] \in RunningPcs /\ run'[j] \in RunningPcs)
      <3>1. CASE SignerStep(j)
        BY <3>1 DEF SignerStep, TakeSigner, LinkIpa, SignSucceeds, SignFails, LateCallback, LateEnd
      <3>2. CASE FileMissing(j) \/ Connect(j) \/ BeginSigning(j) \/ ChooseRoute(j) \/ EnterTunnel(j)
        BY <3>2 DEF FileMissing, Connect, BeginSigning, ChooseRoute, EnterTunnel, Step, RunningPcs
      <3>3. CASE Open(j) \/ Signed(j) \/ SignTimesOut(j) \/ InstallFails(j) \/ Installed(j)
        BY <3>3 DEF Open, Signed, SignTimesOut, InstallFails, Installed, Step, RunningPcs
      <3> QED BY <1>7, <3>1, <3>2, <3>3 DEF RunnerStep
    <2>2. SameJob(j)
      <3>1. jobs'[j].identified = jobs[j].identified
        BY <1>7, ReportStep
      <3> QED BY <1>3, <2>1, <3>1 DEF SameJob, Running, RunningPcs
    <2>3. UNCHANGED signed
      BY <1>7 DEF RunnerStep, FileMissing, Connect, BeginSigning, ChooseRoute, EnterTunnel, Open,
         Signed, SignTimesOut, InstallFails, Installed, SignerStep, TakeSigner, SignSucceeds,
         SignFails, LateCallback, LateEnd
    <2> QED BY <1>1, <1>2, <2>2, <2>3, NothingOnTheShelf
  <1> QED BY <1>4, <1>5, <1>6, <1>7

\* An app that is put on the shelf is nobody's, and its content is not there yet.
LEMMA PutOnTheShelf ==
    ASSUME LibraryInv, UNCHANGED <<jobs, run, signed>>, NEW a \in Apps, NEW c \in Contents,
           apps'[a].state = "live", apps'[a].content = c,
           \A b \in Apps \ {a} : apps'[b] = apps[b],
           ~IsLive(a) \/ ~ActiveJobExistsForApp(a),
           \A b \in Apps \ {a} : apps[b].state # "absent" => apps[b].content # c
    PROVE  ShelfStep
  <1>1. StageOf' = StageOf /\ LentTo' = LentTo /\ Reported' = Reported
    BY SameJobs DEF SameJob, Running
  <1>2. OnShelf' = [OnShelf EXCEPT ![a] = c]
    BY DEF OnShelf, IsLive
  <1>3. ~Shelf!Lent(a)
    BY LentIsBusy
  <1>4. Shelf!Free(a, c)
    BY NoneAssumption DEF Shelf!Free, OnShelf, IsLive
  <1>5. Shelf!Put(a, c)
    BY <1>1, <1>2, <1>3, <1>4 DEF Shelf!Put
  <1> QED BY <1>5 DEF ShelfStep, Shelf!ShelfNext

\* A handler lends an app to a job, puts one on the shelf or takes one away.
LEMMA RequestShelf ==
    ASSUME LibraryInv, ShelfInv, NEW r \in Requests, RequestArrives(r) \/ RequestStep(r)
    PROVE  ShelfStep
  <1> USE DEF LibraryInv, JobsTypeOK, StoreTypeOK, App
  <1>0. UNCHANGED signed
    BY RequestFrame
  <1>1. CASE CreateQueues(r) \/ RefreshQueues(r)
    <2>1. PICK j \in Jobs, a \in Apps : IsLive(a) /\ QueuedJob(j, a, apps[a].path)
      BY <1>1, RequestQueues
    <2>2. UNCHANGED apps /\ OnShelf' = OnShelf
      BY <1>1, RequestQueues, SameApps
    <2>3. \A k \in Jobs \ {j} : SameJob(k)
      BY <2>1 DEF QueuedJob, SameJob, Running
    <2>4. /\ run[j] = "none" /\ jobs[j].phase = "absent"
          /\ run'[j] = "spawned" /\ jobs'[j].app = a /\ jobs'[j].identified = FALSE
      BY <2>1 DEF QueuedJob, FreshJob
    <2>5. jobs[j].identified = FALSE
      BY <2>4 DEF ShelfInv, CopyInv
    <2>6. StageOf[j] = "new" /\ OnShelf[a] # None
      BY <2>1, <2>4, NoneAssumption DEF StageOf, OnShelf, RowInv, IsLive
    <2>7. /\ StageOf' = [StageOf EXCEPT ![j] = "running"]
          /\ LentTo' = [LentTo EXCEPT ![j] = a]
      <3>1. ~Running(j) /\ Running(j)'
        BY <2>4 DEF Running, RunningPcs
      <3>2. StageOf' = [StageOf EXCEPT ![j] = "running"]
        BY <2>3, <2>4, <3>1 DEF StageOf, SameJob
      <3>3. LentTo' = [LentTo EXCEPT ![j] = a]
        BY <2>3, <2>4, <3>1 DEF LentTo, SameJob
      <3> QED BY <3>2, <3>3
    <2>8. Reported' = Reported
      BY <2>3, <2>4, <2>5 DEF Reported, SameJob
    <2>9. Shelf!Lend(j, a)
      BY <1>0, <2>2, <2>6, <2>7, <2>8 DEF Shelf!Lend
    <2> QED BY <2>9 DEF ShelfStep, Shelf!ShelfNext
  <1>2. CASE UNCHANGED <<jobs, run>> /\ UNCHANGED apps
    BY <1>0, <1>2, NothingOnTheShelf DEF SameJob, Running
  <1>3. CASE UNCHANGED <<jobs, run>> /\ DeleteMarks(r)
    <2> DEFINE a == req[r].app
    <2>1. a \in Apps /\ IsLive(a) /\ ~ActiveJobExistsForApp(a)
      BY <1>3 DEF DeleteMarks, HandlerInv, AppPcs
    <2>2. apps' = [apps EXCEPT ![a].state = "deleted"]
      BY <1>3 DEF DeleteMarks, MarkAppDeleted
    <2> HIDE DEF a
    <2>3. OnShelf' = [OnShelf EXCEPT ![a] = None]
      BY <2>1, <2>2 DEF OnShelf, IsLive
    <2>4. StageOf' = StageOf /\ LentTo' = LentTo /\ Reported' = Reported
      BY <1>3, SameJobs DEF SameJob, Running
    <2>5. Shelf!TakeAway(a)
      BY <1>0, <2>1, <2>3, <2>4, LentIsBusy DEF Shelf!TakeAway
    <2> QED BY <2>1, <2>5 DEF ShelfStep, Shelf!ShelfNext
  <1>4. CASE UNCHANGED <<jobs, run>> /\ DeleteUndoes(r)
    <2> DEFINE a == req[r].app
    <2>1. a \in Apps /\ apps[a].state = "deleted"
      BY <1>4 DEF DeleteUndoes, HandlerInv, AppPcs
    <2>2. apps' = [apps EXCEPT ![a].state = "live"]
      BY <1>4 DEF DeleteUndoes, RestoreApp
    <2> HIDE DEF a
    <2>3. apps[a].content \in Contents /\ ~IsLive(a)
      BY <2>1 DEF RowInv, IsLive
    <2>4. \A b \in Apps \ {a} : apps[b].state # "absent" => apps[b].content # apps[a].content
      BY <2>1 DEF ShelfInv, UniqueInv
    <2>5. /\ apps'[a].state = "live" /\ apps'[a].content = apps[a].content
          /\ \A b \in Apps \ {a} : apps'[b] = apps[b]
      BY <2>1, <2>2
    <2> QED BY <1>0, <1>4, <2>1, <2>3, <2>4, <2>5, PutOnTheShelf
  <1>5. CASE UNCHANGED <<jobs, run>> /\ UploadInserts(r)
    <2> DEFINE a == req[r].app
               c == req[r].content
    <2>1. a \in Apps /\ c \in Contents /\ apps[a].state = "absent"
      BY <1>5 DEF UploadInserts, UploadInv, UploadPcs
    <2>2. /\ apps' = [apps EXCEPT ![a] = [state |-> "live", content |-> c, path |-> req[r].path]]
          /\ \A b \in Apps \ {a} : apps[b].state # "absent" => apps[b].content # c
      BY <1>5 DEF UploadInserts, InsertApp, ContentFree
    <2> HIDE DEF a, c
    <2>3. /\ apps'[a].state = "live" /\ apps'[a].content = c
          /\ \A b \in Apps \ {a} : apps'[b] = apps[b]
      BY <2>1, <2>2
    <2> QED BY <1>0, <1>5, <2>1, <2>2, <2>3, PutOnTheShelf DEF IsLive
  <1> QED BY <1>1, <1>2, <1>3, <1>4, <1>5, RequestEffects, ArrivesFrame

\* A restart ends all jobs at once.
LEMMA RestartShelf ==
    ASSUME LibraryInv, ShelfInv, Restart
    PROVE  ShelfStep
  <1> DEFINE ending == {j \in Jobs : Running(j)}
  <1>1. \A j \in ending : StageOf[j] = "running"
    BY DEF StageOf, Running, RunningPcs
  <1>2. OnShelf' = OnShelf /\ Reported' = Reported
    BY SameApps DEF Restart, storeVars, Reported
  <1>3. /\ StageOf' = [j \in Jobs |-> IF j \in ending THEN "over" ELSE StageOf[j]]
        /\ LentTo' = [j \in Jobs |-> IF j \in ending THEN None ELSE LentTo[j]]
    BY DEF Restart, StageOf, LentTo, Running, RunningPcs
  <1>4. signed' = [j \in Jobs |-> IF j \in ending THEN None ELSE signed[j]]
    <2>1. signed' = [j \in Jobs |-> None]
      BY DEF Restart
    <2>2. ASSUME NEW j \in Jobs, ~Running(j) PROVE signed[j] = None
      BY <2>2 DEF LibraryInv, JobInv
    <2> QED BY <2>1, <2>2
  <1>5. Shelf!End(ending)
    BY <1>1, <1>2, <1>3, <1>4 DEF Shelf!End
  <1> QED BY <1>5 DEF ShelfStep, Shelf!ShelfNext


\* So does the rest of the library.
LEMMA LibraryShelfStep ==
    ASSUME LibraryInv, ShelfInv, LibraryNext
    PROVE  ShelfStep
  <1>1. CASE UNCHANGED <<apps, jobs, run, signed>>
    BY <1>1, NothingOnTheShelf DEF SameJob, Running
  <1> QED BY <1>1, RequestShelf, JobShelf, RestartShelf
     DEF LibraryNext, LibraryStep, ForgetInstallation, UpdateRefreshSettings, UnlinkRuns, Tick, LoseFile, Disconnect,
         storeVars, jobVars

\* The empty library is an empty shelf.
LEMMA ShelfStarts == JobsInit => Shelf!ShelfInit
  BY DEF JobsInit, NoApp, NoJob, Shelf!ShelfInit, OnShelf, StageOf, LentTo, Reported, IsLive,
     Running, RunningPcs

\* ShelfInv is kept together with LibraryInv.
LEMMA ShelfInvStep == LibraryInv /\ ShelfInv /\ [LibraryNext]_vars => ShelfInv'
  <1>1. UNCHANGED vars /\ ShelfInv => ShelfInv'
    BY DEF vars, storeVars, jobVars, ShelfInv, CopyInv, UniqueInv
  <1> QED BY <1>1, CopyStep, UniqueStep DEF ShelfInv

\* The library implements its abstract specification, for any number of apps,
\* devices, jobs, requests and faults.
THEOREM LibraryShelfKept == LibrarySpec => ShelfKept
  <1>1. LibraryInv /\ ShelfInv /\ [LibraryNext]_vars => ShelfStep
    <2>1. UNCHANGED vars => ShelfStep
      BY NothingOnTheShelf DEF vars, storeVars, jobVars, SameJob, Running
    <2> QED BY <2>1, LibraryShelfStep
  <1>2. JobsInit => ShelfInv /\ Shelf!ShelfInit
    BY ShelfInvInit, ShelfStarts
  <1> QED BY <1>1, <1>2, ShelfInvStep, LibraryInvariance, PTL
     DEF LibrarySpec, ShelfStep, ShelfKept, Shelf!ShelfSpec

-----------------------------------------------------------------------------
(* What the shelf promises *)

\* Who has a copy runs, and the shelf has kept what was copied.
ShelfTrue ==
    /\ OnShelf \in [Apps -> Contents \cup {None}]
    /\ StageOf \in [Jobs -> {"new", "running", "over"}]
    /\ LentTo \in [Jobs -> Apps \cup {None}]
    /\ signed \in [Jobs -> Contents \cup {None}]
    /\ Reported \in [Jobs -> BOOLEAN]
    /\ Shelf!CopiesAreTrue

LEMMA ShelfTrueStep == ShelfTrue /\ ShelfStep => ShelfTrue'
  <1> SUFFICES ASSUME ShelfTrue, ShelfStep PROVE ShelfTrue'
    OBVIOUS
  <1> USE NoneAssumption DEF ShelfTrue, Shelf!CopiesAreTrue
  <1>1. ASSUME NEW a \in Apps, NEW c \in Contents, Shelf!Put(a, c) PROVE ShelfTrue'
    BY <1>1 DEF Shelf!Put, Shelf!Lent, Shelf!Free
  <1>2. ASSUME NEW a \in Apps, Shelf!TakeAway(a) PROVE ShelfTrue'
    BY <1>2 DEF Shelf!TakeAway, Shelf!Lent
  <1>3. ASSUME NEW j \in Jobs, NEW a \in Apps, Shelf!Lend(j, a) PROVE ShelfTrue'
    BY <1>3 DEF Shelf!Lend
  <1>4. ASSUME NEW j \in Jobs, Shelf!Copy(j) PROVE ShelfTrue'
    BY <1>4 DEF Shelf!Copy
  <1>5. ASSUME NEW j \in Jobs, Shelf!Deliver(j) PROVE ShelfTrue'
    BY <1>5 DEF Shelf!Deliver
  <1>6. ASSUME NEW ending \in SUBSET Jobs, Shelf!End(ending) PROVE ShelfTrue'
    BY <1>6 DEF Shelf!End
  <1>7. CASE UNCHANGED Shelf!shelfVars
    BY <1>7 DEF Shelf!shelfVars
  <1> QED BY <1>1, <1>2, <1>3, <1>4, <1>5, <1>6, <1>7 DEF ShelfStep, Shelf!ShelfNext

\* A job that runs has its app on the shelf, and a copy of nothing else, however
\* the shelf changes: this follows from the abstract specification alone.
THEOREM ShelfCopies == ShelfKept => []Shelf!CopiesAreTrue
  <1>1. Shelf!ShelfInit => ShelfTrue
    BY NoneAssumption DEF Shelf!ShelfInit, ShelfTrue, Shelf!CopiesAreTrue
  <1>2. ShelfTrue => Shelf!CopiesAreTrue
    BY DEF ShelfTrue
  <1> QED BY <1>1, <1>2, ShelfTrueStep, PTL DEF ShelfKept, Shelf!ShelfSpec, ShelfStep

\* So does this: what a job reports as installed is what the library shows for its
\* app at that moment.
THEOREM ShelfDeliveries == ShelfKept => Shelf!DeliveriesAreTrue
  <1>1. Shelf!ShelfInit => ShelfTrue
    BY NoneAssumption DEF Shelf!ShelfInit, ShelfTrue, Shelf!CopiesAreTrue
  <1>2. ShelfTrue /\ ShelfStep
        => [\A j \in Jobs :
              Reported'[j] # Reported[j] =>
                  /\ Reported'[j] /\ StageOf[j] = "running"
                  /\ signed[j] = OnShelf[LentTo[j]] /\ OnShelf[LentTo[j]] # None]_Shelf!shelfVars
    <2> SUFFICES ASSUME ShelfTrue, Shelf!ShelfNext, NEW j \in Jobs, Reported'[j] # Reported[j]
                 PROVE  /\ Reported'[j] /\ StageOf[j] = "running"
                        /\ signed[j] = OnShelf[LentTo[j]] /\ OnShelf[LentTo[j]] # None
      BY DEF ShelfStep
    <2>1. PICK k \in Jobs : Shelf!Deliver(k)
      BY DEF Shelf!ShelfNext, Shelf!Put, Shelf!TakeAway, Shelf!Lend, Shelf!Copy, Shelf!End
    <2>2. k = j
      BY <2>1 DEF Shelf!Deliver, ShelfTrue
    <2> QED BY <2>1, <2>2 DEF Shelf!Deliver, ShelfTrue, Shelf!CopiesAreTrue
  <1> QED BY <1>1, <1>2, ShelfTrueStep, PTL
     DEF ShelfKept, Shelf!ShelfSpec, ShelfStep, Shelf!DeliveriesAreTrue

=============================================================================
