---------------------------- MODULE AppLibrary ----------------------------
(***************************************************************************)
(* The IPA library beside the job runner: the handlers that upload and     *)
(* delete an IPA, forget a managed installation and change the refresh day *)
(* (main.rs), and the faults: a restart, a client that disconnects, a file *)
(* that disappears from the disk.  LibraryNext composes them with the jobs. *)
(***************************************************************************)
EXTENDS JobRunner

-----------------------------------------------------------------------------
(* delete_ipa *)

DeleteArrives(r, a) ==
    /\ req[r].pc = "idle"
    /\ apps[a].state # "absent"
    /\ req' = [req EXCEPT ![r] = [NoRequest EXCEPT !.pc = "delete_wait", !.app = a]]
    /\ UNCHANGED <<storeVars, fileVars, lockVars, jobVars, faults>>

DeleteLocks(r) ==
    /\ req[r].pc = "delete_wait"
    /\ AcquireWrite(r)
    /\ Goto(r, "delete_held")
    /\ UNCHANGED <<storeVars, fileVars, jobVars, faults>>

DeleteRefused(r) ==
    /\ req[r].pc = "delete_held"
    /\ ~IsLive(req[r].app) \/ ActiveJobExistsForApp(req[r].app)
    /\ Return(r)
    /\ UNCHANGED <<storeVars, fileVars, jobVars, faults>>

DeleteMarks(r) ==
    /\ req[r].pc = "delete_held"
    /\ IsLive(req[r].app)
    /\ ~ActiveJobExistsForApp(req[r].app)
    /\ MarkAppDeleted(req[r].app)
    /\ req' = [req EXCEPT ![r].pc = "delete_file", ![r].path = apps[req[r].app].path]
    /\ UNCHANGED <<jobs, unmanaged, refreshAfter, now, fileVars, lockVars, jobVars, faults>>

\* A file that is not there counts as removed.
DeleteRemovesFile(r) ==
    /\ req[r].pc = "delete_file"
    /\ files' = [files EXCEPT ![req[r].path] = None]
    /\ Return(r)
    /\ UNCHANGED <<storeVars, unlinking, jobVars, faults>>

\* The file cannot be removed: the app is restored, its automation is not.
DeleteUndoes(r) ==
    /\ req[r].pc = "delete_file"
    /\ files[req[r].path] # None
    /\ RestoreApp(req[r].app)
    /\ Return(r)
    /\ UNCHANGED <<jobs, unmanaged, sources, refreshAfter, now, fileVars, jobVars, faults>>

-----------------------------------------------------------------------------
(* upload_ipa, from the point where the temporary file is complete and was  *)
(* accepted by inspect_ipa.  It takes no part in app_mutation.              *)

\* Uuid::now_v7 never gives an id twice.
FreshApp(a) ==
    /\ apps[a].state = "absent"
    /\ \A r \in Requests : req[r].app # a
    /\ \A t \in Contents \cup {None} : files[<<a, t>>] = None /\ <<a, t>> \notin unlinking

UploadArrives(r, a, c) ==
    /\ req[r].pc = "idle"
    /\ FreshApp(a)
    /\ req' = [req EXCEPT ![r] = [NoRequest EXCEPT !.pc = "upload_rename", !.app = a,
                                                   !.content = c, !.path = UploadPath(a)]]
    /\ UNCHANGED <<storeVars, fileVars, lockVars, jobVars, faults>>

UploadRenames(r) ==
    /\ req[r].pc = "upload_rename"
    /\ files' = [files EXCEPT ![req[r].path] = req[r].content]
    /\ Goto(r, "upload_insert")
    /\ UNCHANGED <<storeVars, unlinking, lockVars, jobVars, faults>>

UploadInserts(r) ==
    /\ req[r].pc = "upload_insert"
    /\ ContentFree(req[r].app, req[r].content)
    /\ InsertApp(req[r].app, req[r].content, req[r].path)
    /\ Finish(r)
    /\ UNCHANGED <<jobs, unmanaged, sources, refreshAfter, now, fileVars, lockVars,
                   jobVars, faults>>

\* The UNIQUE column refuses the row.
UploadNotInserted(r) ==
    /\ req[r].pc = "upload_insert"
    /\ ~ContentFree(req[r].app, req[r].content)
    /\ Goto(r, "upload_discard")
    /\ UNCHANGED <<storeVars, fileVars, lockVars, jobVars, faults>>

\* Mutant: the file of a refused row stays.
UploadDiscardsNothing(r) ==
    /\ req[r].pc = "upload_discard"
    /\ Finish(r)
    /\ UNCHANGED <<storeVars, fileVars, lockVars, jobVars, faults>>

UploadDiscards(r) ==
    /\ req[r].pc = "upload_discard"
    /\ files' = [files EXCEPT ![req[r].path] = None]
    /\ Finish(r)
    /\ UNCHANGED <<storeVars, unlinking, lockVars, jobVars, faults>>

-----------------------------------------------------------------------------
(* Handlers that are one database section *)

\* Mutant: also with a job under way.
ForgetAnyInstallation(a, d) ==
    /\ apps[a].state # "absent"
    /\ ForgetManagedInstallation(a, d)
    /\ UNCHANGED <<apps, jobs, sources, refreshAfter, now, fileVars, lockVars, req,
                   jobVars, faults>>

ForgetInstallation(a, d) ==
    /\ apps[a].state # "absent"
    /\ ~ActiveJobExists(a, d)
    /\ ForgetManagedInstallation(a, d)
    /\ UNCHANGED <<apps, jobs, sources, refreshAfter, now, fileVars, lockVars, req,
                   jobVars, faults>>

UpdateRefreshSettings(n) ==
    /\ refreshAfter' = n
    /\ UNCHANGED <<apps, jobs, unmanaged, sources, now, fileVars, lockVars, req,
                   jobVars, faults>>

-----------------------------------------------------------------------------
(* Time and faults *)

Tick ==
    /\ now < MaxDay
    /\ now' = now + 1
    /\ UNCHANGED <<apps, jobs, unmanaged, sources, refreshAfter, fileVars, lockVars, req,
                   jobVars, faults>>

LoseFile(p) ==
    /\ faults.losses < MaxLosses
    /\ files[p] # None
    /\ files' = [files EXCEPT ![p] = None]
    /\ faults' = [faults EXCEPT !.losses = @ + 1]
    /\ UNCHANGED <<storeVars, unlinking, lockVars, req, jobVars>>

\* main() opens the database and serves; it changes no job and looks at no file.
Restart ==
    /\ faults.crashes < MaxCrashes
    /\ unlinking' = {}
    /\ writer' = None
    /\ readers' = {}
    /\ req' = [r \in Requests |-> NoRequest]
    /\ run' = [j \in Jobs |-> IF run[j] = "none" THEN "none" ELSE "ended"]
    /\ ipa' = [j \in Jobs |-> None]
    /\ task' = [j \in Jobs |-> "none"]
    /\ signed' = [j \in Jobs |-> None]
    /\ tunnel' = None
    /\ signer' = None
    /\ faults' = [faults EXCEPT !.crashes = @ + 1]
    /\ UNCHANGED <<storeVars, files>>

\* The connection closes and hyper drops the handler's future, which happens at
\* an await; a removal already handed to the blocking pool still takes place.
AwaitPcs == {"create_wait", "refresh_wait", "refresh_ready", "refresh_devices",
             "delete_wait", "delete_file", "upload_rename", "upload_insert",
             "upload_discard"}

Disconnect(r) ==
    /\ faults.drops < MaxDrops
    /\ req[r].pc \in AwaitPcs
    /\ unlinking' = IF req[r].pc \in {"delete_file", "upload_discard"}
                    THEN unlinking \cup {req[r].path} ELSE unlinking
    /\ Return(r)
    /\ faults' = [faults EXCEPT !.drops = @ + 1]
    /\ UNCHANGED <<storeVars, files, jobVars>>

UnlinkRuns(p) ==
    /\ p \in unlinking
    /\ unlinking' = unlinking \ {p}
    /\ files' = [files EXCEPT ![p] = None]
    /\ UNCHANGED <<storeVars, lockVars, req, jobVars, faults>>

-----------------------------------------------------------------------------

RequestStep(r) ==
    \/ CreateLocks(r) \/ CreateQueues(r) \/ CreateRefused(r)
    \/ RefreshLocks(r) \/ RefreshReady(r) \/ RefreshRefused(r)
    \/ RefreshReadsTargets(r) \/ RefreshQueues(r) \/ RefreshSkips(r) \/ RefreshReturns(r)
    \/ DeleteLocks(r) \/ DeleteRefused(r) \/ DeleteMarks(r)
    \/ DeleteRemovesFile(r) \/ DeleteUndoes(r)
    \/ UploadRenames(r) \/ UploadInserts(r) \/ UploadNotInserted(r) \/ UploadDiscards(r)

RequestArrives(r) ==
    \/ \E a \in Apps, d \in Devices : CreateArrives(r, a, d)
    \/ RefreshArrives(r)
    \/ \E a \in Apps : DeleteArrives(r, a)
    \/ \E a \in Apps, c \in Contents : UploadArrives(r, a, c)

LibraryStep ==
    \/ \E r \in Requests : RequestArrives(r) \/ RequestStep(r)
    \/ \E j \in Jobs : RunnerStep(j) \/ SignerStep(j)
    \/ \E a \in Apps, d \in Devices : ForgetInstallation(a, d)
    \/ \E n \in RefreshDays : UpdateRefreshSettings(n)
    \/ \E p \in Paths : UnlinkRuns(p)
    \/ Tick
    \/ \E p \in Paths : LoseFile(p)
    \/ \E r \in Requests : Disconnect(r)

LibraryNext == LibraryStep \/ Restart

LibrarySpec == JobsInit /\ [][LibraryNext]_vars

\* tokio's RwLock serves its waiters in the order of arrival, so a handler that can
\* go on again and again, whenever a guard is dropped, goes on in the end.  Jobs
\* need less: each takes the single flight and the sideloader mutex once, and
\* nobody takes a mutex from a job twice.  On the RSD route every wait for the
\* device or for Apple ends by a deadline; the direct route has none, so this
\* specification is for instances with Routes = {"rsd"}.  Nothing obliges clients,
\* the clock or faults to act.
LibraryFairness ==
    /\ \A r \in Requests : SF_vars(RequestStep(r))
    /\ \A j \in Jobs : WF_vars(RunnerStep(j)) /\ WF_vars(SignerStep(j))

FairLibrarySpec == LibrarySpec /\ LibraryFairness

-----------------------------------------------------------------------------
(* Properties *)

TypeOK == JobsTypeOK

\* From the moment a job is queued until run_install_job is done with it, its app
\* is in the library under the path the job was given, and the file there is the
\* content the library records (or is missing, if it disappeared on its own).
JobIpaIntact ==
    \A j \in Jobs :
        Running(j) =>
            LET a == jobs[j].app
            IN  /\ IsLive(a)
                /\ ipa[j] = apps[a].path
                /\ \/ files[ipa[j]] = apps[a].content
                   \/ files[ipa[j]] = None /\ faults.losses > 0

\* What a job signs and installs is the content the library records for its app,
\* although the file was linked long before the installation ends.
SignedIsCurrent ==
    \A j \in Jobs :
        Running(j) /\ signed[j] # None => signed[j] = apps[jobs[j].app].content

\* What the library is to those who install from it: IpaShelf, with the apps whose
\* row is live, the jobs whose run_install_job is under way, and the reports of an
\* installed bundle identifier.
OnShelf == [a \in Apps |-> IF IsLive(a) THEN apps[a].content ELSE None]
StageOf == [j \in Jobs |-> IF run[j] = "none" THEN "new" ELSE IF Running(j) THEN "running" ELSE "over"]
LentTo == [j \in Jobs |-> IF Running(j) THEN jobs[j].app ELSE None]
Reported == [j \in Jobs |-> jobs[j].identified]

Shelf == INSTANCE IpaShelf
    WITH shelf <- OnShelf, stage <- StageOf, lent <- LentTo, copy <- signed, delivered <- Reported

\* Whatever uploads, deletions, downloads and restarts come between, an app that a
\* job was queued for stays in the library with the content it has until the job
\* ends; the job signs that content and reports no other as installed.
ShelfKept == Shelf!ShelfSpec

\* Every app of the library has its file, unless one disappeared on its own.
LiveAppHasFile ==
    \A a \in Apps :
        IsLive(a) /\ faults.losses = 0 => files[apps[a].path] = apps[a].content

\* As long as no handler was cut short, a file belongs to an app of the library,
\* or to the request that is about to insert or remove that app.
NoOrphanFile ==
    faults.drops = 0 /\ faults.crashes = 0 =>
        \A p \in Paths :
            files[p] # None =>
                \/ \E a \in Apps : IsLive(a) /\ apps[a].path = p
                \/ \E r \in Requests : req[r].path = p

\* A job that a client sees failed has its reason; one that it sees succeeded has
\* the bundle identifier that was installed, and no reason.
OutcomeExplained ==
    \A j \in Jobs :
        /\ jobs[j].phase = "failed" => jobs[j].failure # None
        /\ jobs[j].phase = "succeeded" => jobs[j].identified /\ jobs[j].failure = None

\* When a job becomes successful its installation is managed: a removal from
\* management cannot slip in between the two sections that record a success.
SuccessIsManaged ==
    [][\A j \in Jobs :
          jobs[j].phase # "succeeded" /\ jobs'[j].phase = "succeeded" =>
              <<jobs[j].app, jobs[j].dev>> \notin unmanaged']_vars

\* What a refresh starts from targets that it read long before is still right: the
\* job has a row, the path that was read has the app's content, unless it disappeared,
\* and no other task installs the app on the device, whatever phase its row is in.
RefreshStartsRight ==
    [][\A r \in Requests, j \in Jobs :
          req[r].pc = "refresh_queue" /\ req'[r].todo # req[r].todo
          /\ run[j] = "none" /\ run'[j] # "none" =>
              /\ jobs'[j].phase = "queued"
              /\ files[ipa'[j]] = apps[jobs'[j].app].content \/ faults.losses > 0
              /\ ~\E k \in Jobs : /\ Running(k) /\ jobs[k].app = jobs'[j].app
                                  /\ jobs[k].dev = jobs'[j].dev]_vars

\* Every request is answered: no handler waits for a guard forever, although a
\* refresh waits for the signing step of a job with its read guard held.
RequestAnswered == \A r \in Requests : req[r].pc # "idle" ~> req[r].pc = "idle"

\* Every job that runs comes to an end: the single flight and the sideloader mutex
\* are always handed on, also by the jobs that fail or time out inside them.
JobEnds == \A j \in Jobs : Running(j) ~> ~Running(j)

\* A job that the database shows active is being run.
ActiveJobRuns == \A j \in Jobs : IsActive(j) => Running(j)

\* A job that has ended keeps its outcome.
OutcomeFinal ==
    [][\A j \in Jobs :
          jobs[j].phase \in TerminalPhases => jobs'[j].phase = jobs[j].phase]_vars

\* An IPA whose file is gone can be uploaded again.
MissingIpaCanBeUploaded ==
    [][\A r \in Requests :
          req[r].pc = "upload_insert" /\ req'[r].pc = "upload_discard" =>
              \E a \in Apps : /\ apps[a].state # "absent"
                              /\ apps[a].content = req[r].content
                              /\ files[apps[a].path] = req[r].content]_vars

=============================================================================
