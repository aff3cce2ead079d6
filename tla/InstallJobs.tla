---------------------------- MODULE InstallJobs ----------------------------
(***************************************************************************)
(* Installation jobs: the handlers that queue them (create_install_job and *)
(* trigger_refresh of main.rs).  The state of the running server is        *)
(* declared here; JobRunner, AppLibrary and GitHubSources add its other    *)
(* steps.                                                                  *)
(*                                                                         *)
(* A request that a handler is serving is a slot of Requests; req[r].pc is *)
(* the await or the database section the handler has reached.  A running   *)
(* job is run[j], with the state of its signing step in task[j].           *)
(***************************************************************************)
EXTENDS Store

CONSTANTS
    Requests,   \* requests the server handles at a time
    Routes,     \* transports of the instance, a subset of {"rsd", "direct"}
    MaxLosses,  \* IPA files that disappear from the disk on their own
    MaxCrashes, \* restarts of the process
    MaxDrops    \* clients that disconnect before they get their response

ASSUME RouteAssumption == Routes \subseteq {"rsd", "direct"}

ASSUME FaultAssumption ==
    MaxLosses \in Nat /\ MaxCrashes \in Nat /\ MaxDrops \in Nat

ASSUME NoneIsNoRequest == None \notin Requests

VARIABLES
    files,      \* [Paths -> content], None where there is no file
    unlinking,  \* paths whose removal was handed to the blocking pool and abandoned
    writer,     \* app_mutation: the request that holds it for writing
    readers,    \* app_mutation: the requests that hold it for reading
    req,        \* the requests being served
    run,        \* where run_install_job has got to
    ipa,        \* the IPA path that run_install_job was spawned with
    task,       \* the signing step of the job
    signed,     \* the content the signing step linked and signs
    tunnel,     \* spike_install_mutation: the job inside the RSD single flight
    signer,     \* the job whose signing step holds the sideloader mutex
    faults      \* faults so far, for the bounds

jobVars == <<run, ipa, task, signed, tunnel, signer>>
lockVars == <<writer, readers>>
fileVars == <<files, unlinking>>
vars == <<storeVars, fileVars, lockVars, req, jobVars, faults>>

NoRequest == [pc |-> "idle", app |-> None, dev |-> None, path |-> None,
              content |-> None, todo |-> {}]

JobPcs == {"create_wait", "create_held", "refresh_wait", "refresh_ready",
           "refresh_devices", "refresh_queue"}
LibraryPcs == {"delete_wait", "delete_held", "delete_file",
               "upload_rename", "upload_insert", "upload_discard"}
SourcePcs == {"check_release", "check_record", "sync_next", "download_release",
              "download_asset", "download_wait", "download_held", "download_clean"}

Request == [pc : {"idle"} \cup JobPcs \cup LibraryPcs \cup SourcePcs,
            app : Apps \cup {None},
            dev : Devices \cup {None},
            path : Paths \cup {None},
            content : Contents \cup {None},
            todo : SUBSET (Jobs \X (Paths \cup {None}))]

\* Where the spawned run_install_job may still use its app's IPA.
RunningPcs == {"spawned", "connecting", "routing", "tunnel_wait", "rsd_open",
               "rsd_sign", "rsd_install", "direct_open", "direct_sign",
               "direct_install", "installed", "recorded", "failed"}

JobsTypeOK ==
    /\ StoreTypeOK
    /\ files \in [Paths -> Contents \cup {None}]
    /\ unlinking \in SUBSET Paths
    /\ writer \in Requests \cup {None}
    /\ readers \in SUBSET Requests
    /\ req \in [Requests -> Request]
    /\ run \in [Jobs -> {"none", "ended"} \cup RunningPcs]
    /\ ipa \in [Jobs -> Paths \cup {None}]
    /\ task \in [Jobs -> {"none", "waiting", "preflight", "signing", "signed", "failed",
                          "late"}]
    /\ signed \in [Jobs -> Contents \cup {None}]
    /\ tunnel \in Jobs \cup {None}
    /\ signer \in Jobs \cup {None}
    /\ faults \in [losses : Nat, crashes : Nat, drops : Nat]

JobsInit ==
    /\ apps = [a \in Apps |-> NoApp]
    /\ jobs = [j \in Jobs |-> NoJob]
    /\ unmanaged = {}
    /\ sources = [s \in Sources |-> NoSource]
    /\ refreshAfter \in RefreshDays
    /\ now = 0
    /\ files = [p \in Paths |-> None]
    /\ unlinking = {}
    /\ writer = None
    /\ readers = {}
    /\ req = [r \in Requests |-> NoRequest]
    /\ run = [j \in Jobs |-> "none"]
    /\ ipa = [j \in Jobs |-> None]
    /\ task = [j \in Jobs |-> "none"]
    /\ signed = [j \in Jobs |-> None]
    /\ tunnel = None
    /\ signer = None
    /\ faults = [losses |-> 0, crashes |-> 0, drops |-> 0]

Running(j) == run[j] \in RunningPcs

-----------------------------------------------------------------------------
(* app_mutation, a read-write lock whose guards die with the handler *)

Goto(r, pc) == req' = [req EXCEPT ![r].pc = pc]

Finish(r) == req' = [req EXCEPT ![r] = NoRequest]

AcquireRead(r) ==
    /\ writer = None
    /\ readers' = readers \cup {r}
    /\ UNCHANGED writer

AcquireWrite(r) ==
    /\ writer = None
    /\ readers = {}
    /\ writer' = r
    /\ UNCHANGED readers

ReleaseLock(r) ==
    /\ readers' = readers \ {r}
    /\ writer' = IF writer = r THEN None ELSE writer

\* The handler returns: its response is sent and its guard dropped.
Return(r) == Finish(r) /\ ReleaseLock(r)

-----------------------------------------------------------------------------
(* create_install_job *)

\* tokio::spawn(run_install_job(.., path)).
Spawn(j, path) ==
    /\ run' = [run EXCEPT ![j] = "spawned"]
    /\ ipa' = [ipa EXCEPT ![j] = path]
    /\ UNCHANGED <<task, signed, tunnel, signer>>

FreshJob(j) == jobs[j].phase = "absent" /\ run[j] = "none"

\* is_ready locks the sideloader, so it waits while a job is being signed; the
\* device was found on the network.
CreateArrives(r, a, d) ==
    /\ req[r].pc = "idle"
    /\ apps[a].state # "absent"
    /\ signer = None
    /\ req' = [req EXCEPT ![r] = [NoRequest EXCEPT !.pc = "create_wait", !.app = a, !.dev = d]]
    /\ UNCHANGED <<storeVars, fileVars, lockVars, jobVars, faults>>

CreateLocks(r) ==
    /\ req[r].pc = "create_wait"
    /\ AcquireRead(r)
    /\ Goto(r, "create_held")
    /\ UNCHANGED <<storeVars, fileVars, jobVars, faults>>

CreateQueues(r) ==
    /\ req[r].pc = "create_held"
    /\ IsLive(req[r].app)
    /\ \E j \in Jobs :
          /\ FreshJob(j)
          /\ InsertJob(j, req[r].app, req[r].dev)
          /\ Spawn(j, apps[req[r].app].path)
    /\ Return(r)
    /\ UNCHANGED <<apps, unmanaged, sources, refreshAfter, now, fileVars, faults>>

\* Mutant: the refusal keeps the guard.
CreateRefusedHolding(r) ==
    /\ req[r].pc = "create_held"
    /\ Finish(r)
    /\ UNCHANGED <<storeVars, fileVars, lockVars, jobVars, faults>>

\* The app is gone (404), or its platform does not fit the device (422); also
\* the way out once every id in Jobs is used.
CreateRefused(r) ==
    /\ req[r].pc = "create_held"
    /\ Return(r)
    /\ UNCHANGED <<storeVars, fileVars, jobVars, faults>>

-----------------------------------------------------------------------------
(* trigger_refresh: the hourly timer, or the user *)

RefreshArrives(r) ==
    /\ req[r].pc = "idle"
    /\ Goto(r, "refresh_wait")
    /\ UNCHANGED <<storeVars, fileVars, lockVars, jobVars, faults>>

\* Mutant: the guard is dropped at once (let _ = app_mutation.read()).
RefreshLocksBriefly(r) ==
    /\ req[r].pc = "refresh_wait"
    /\ writer = None
    /\ Goto(r, "refresh_ready")
    /\ UNCHANGED <<storeVars, lockVars, fileVars, jobVars, faults>>

RefreshLocks(r) ==
    /\ req[r].pc = "refresh_wait"
    /\ AcquireRead(r)
    /\ Goto(r, "refresh_ready")
    /\ UNCHANGED <<storeVars, fileVars, jobVars, faults>>

\* Unlike create_install_job this handler asks is_ready, and looks for devices,
\* with the guard held.
RefreshReady(r) ==
    /\ req[r].pc = "refresh_ready"
    /\ signer = None
    /\ Goto(r, "refresh_devices")
    /\ UNCHANGED <<storeVars, fileVars, lockVars, jobVars, faults>>

\* Not signed in, discovery failed, or the targets could not be read.
RefreshRefused(r) ==
    /\ req[r].pc \in {"refresh_ready", "refresh_devices"}
    /\ req[r].pc = "refresh_ready" => signer = None
    /\ Return(r)
    /\ UNCHANGED <<storeVars, fileVars, jobVars, faults>>

\* The due targets among the devices that answered.
RefreshReadsTargets(r) ==
    /\ req[r].pc = "refresh_devices"
    /\ \E reachable \in SUBSET Devices :
          req' = [req EXCEPT
                    ![r].pc = "refresh_queue",
                    ![r].todo = {t \in RefreshDueTargets : jobs[t[1]].dev \in reachable}]
    /\ UNCHANGED <<storeVars, fileVars, lockVars, jobVars, faults>>

\* One pass of the loop: the check and the insertion share a database section.
RefreshQueues(r) ==
    /\ req[r].pc = "refresh_queue"
    /\ \E t \in req[r].todo :
          LET a == jobs[t[1]].app
              d == jobs[t[1]].dev
          IN  /\ ~ActiveJobExists(a, d)
              /\ \E j \in Jobs :
                    /\ FreshJob(j)
                    /\ InsertJob(j, a, d)
                    /\ Spawn(j, t[2])
              /\ req' = [req EXCEPT ![r].todo = @ \ {t}]
    /\ UNCHANGED <<apps, unmanaged, sources, refreshAfter, now, fileVars, lockVars, faults>>

\* An active job exists for the target (or every id in Jobs is used).
RefreshSkips(r) ==
    /\ req[r].pc = "refresh_queue"
    /\ \E t \in req[r].todo :
          /\ \/ ActiveJobExists(jobs[t[1]].app, jobs[t[1]].dev)
             \/ \A j \in Jobs : ~FreshJob(j)
          /\ req' = [req EXCEPT ![r].todo = @ \ {t}]
    /\ UNCHANGED <<storeVars, fileVars, lockVars, jobVars, faults>>

RefreshReturns(r) ==
    /\ req[r].pc = "refresh_queue"
    /\ req[r].todo = {}
    /\ Return(r)
    /\ UNCHANGED <<storeVars, fileVars, jobVars, faults>>

=============================================================================
