----------------------------- MODULE SelfUpdate -----------------------------
(***************************************************************************)
(* The self-update (update.rs, update-iphoneloadly.sh and                  *)
(* install-iphoneloadly.sh): a request of the dashboard leaves a file, a   *)
(* path unit starts the updater while the file is there, and the updater   *)
(* downloads, backs up, installs and verifies the release, or rolls back.  *)
(* The updater stops the server whose request it serves.                   *)
(*                                                                         *)
(* A version is a number, 0 the one installed first. The runtime is the    *)
(* server's binary and its units. A file of requests is the version it     *)
(* names, and whether its bytes are all there; 0 is no file.               *)
(***************************************************************************)
EXTENDS Naturals

CONSTANTS
    Requests,     \* handlers of POST /api/update
    None,
    Refused,      \* versions that the server asks for and the updater does not read
    MaxVersion,   \* bounds of the model
    MaxDrops,
    MaxReboots,
    MaxAborts

ASSUME UpdateAssumption ==
    /\ None \notin Requests /\ Refused \subseteq 1..MaxVersion
    /\ MaxVersion \in Nat /\ MaxDrops \in Nat /\ MaxReboots \in Nat /\ MaxAborts \in Nat

VARIABLES
    newest,    \* the newest release on GitHub that names a checked archive
    lock,      \* the request that holds source_sync, or None
    at,        \* where a request is
    target,    \* the version it asks for
    gone,      \* requests whose client disconnected during a file operation
    tmp,       \* update-request.json.tmp
    request,   \* update-request.json
    whole,     \* which of the two files have all their bytes
    api,       \* the server runs
    version,   \* the version of the server that runs
    job,       \* an installation: none, active, or interrupted
    binary,    \* the runtime on disk
    units,
    updater,   \* where the updater is
    goal,      \* the version it installs
    before,    \* the runtime it found, and whether the server ran: [binary, units, api]
    status,    \* update-status.json
    orphaned,  \* history: a file operation outlived its handler
    blind,     \* history: a look for the request failed and counted as none there
    drops,
    reboots,
    aborts     \* runs of the updater that ended at a failing line, past its own fail

serverVars == <<lock, at, target, gone, api, version, job>>
fileVars == <<tmp, request, whole>>
hostVars == <<binary, units, updater, goal, before, status>>
faultVars == <<orphaned, blind, drops, reboots, aborts>>
updateVars == <<newest, serverVars, fileVars, hostVars, faultVars>>

Versions == 0..MaxVersion
\* With its upgrade_started the updater rolls back when it fails.
Upgrading == {"stop", "binary", "units", "start", "verify"}
RollingBack == {"undo_stop", "undo_binary", "undo_units", "undo_start", "undo_verify"}

UpdateTypeOK ==
    /\ newest \in Versions /\ version \in Versions /\ goal \in Versions
    /\ lock \in Requests \cup {None}
    /\ at \in [Requests -> {"idle", "github", "exists", "write", "torn", "rename"}]
    /\ target \in [Requests -> Versions] /\ gone \subseteq Requests
    /\ tmp \in Versions /\ request \in Versions /\ whole \subseteq {"tmp", "request"}
    /\ api \in {"up", "down"} /\ job \in {"none", "active", "interrupted"}
    /\ binary \in Versions /\ units \in Versions
    /\ before \in [binary : Versions, units : Versions, api : {"up", "down"}]
    /\ updater \in {"idle", "read", "download", "backup", "fail", "fail_loudly", "remove"}
                     \cup Upgrading \cup RollingBack
    /\ status \in {"idle", "running", "installing", "succeeded", "failed", "unverified",
                    "unknown"}
    /\ orphaned \in {"yes", "no"} /\ blind \in {"yes", "no"}
    /\ drops \in 0..MaxDrops /\ reboots \in 0..MaxReboots /\ aborts \in 0..MaxAborts

UpdateInit ==
    /\ newest = 0 /\ lock = None
    /\ at = [h \in Requests |-> "idle"] /\ target = [h \in Requests |-> 0] /\ gone = {}
    /\ tmp = 0 /\ request = 0 /\ whole = {}
    /\ api = "up" /\ version = 0 /\ job = "none"
    /\ binary = 0 /\ units = 0 /\ updater = "idle" /\ goal = 0
    /\ before = [binary |-> 0, units |-> 0, api |-> "up"] /\ status = "idle"
    /\ orphaned = "no" /\ blind = "no" /\ drops = 0 /\ reboots = 0 /\ aborts = 0

-----------------------------------------------------------------------------
(* request: the lock is held to the end of the handler *)

RequestFrame == UNCHANGED <<newest, api, version, job, hostVars, drops, reboots, aborts>>
Moves(h, from, to) == at[h] = from /\ at' = [at EXCEPT ![h] = to]
\* A handler that ends gives up the lock, unless it was dropped before.
Leaves(h) ==
    /\ lock' = IF lock = h THEN None ELSE lock
    /\ gone' = gone \ {h} /\ target' = [target EXCEPT ![h] = 0]

\* Mutant: the guard is dropped at once (let _ = try_lock()).
AskUpdateUnlocked(h) ==
    /\ api = "up" /\ job = "none" /\ lock = None
    /\ Moves(h, "idle", "github")
    /\ UNCHANGED <<lock, target, gone, fileVars, orphaned, blind>> /\ RequestFrame

\* try_lock, then the check for active jobs. A refusal changes nothing.
AskUpdate(h) ==
    /\ api = "up" /\ job = "none" /\ lock = None
    /\ Moves(h, "idle", "github")
    /\ lock' = h
    /\ UNCHANGED <<target, gone, fileVars, orphaned, blind>> /\ RequestFrame

\* The newest verified release, if there is one beyond the server's version.
ChooseRelease(h) ==
    \/ /\ newest > version /\ Moves(h, "github", "exists")
       /\ target' = [target EXCEPT ![h] = newest]
       /\ UNCHANGED <<lock, gone, fileVars, orphaned, blind>> /\ RequestFrame
    \/ /\ Moves(h, "github", "idle") /\ Leaves(h)
       /\ UNCHANGED <<fileVars, orphaned, blind>> /\ RequestFrame

\* An update that is requested or running has its file there. A look that fails
\* (try_exists is an error) counts as none there; the directory may not be made.
FindRequest(h) ==
    /\ \/ /\ Moves(h, "exists", "write") /\ UNCHANGED <<lock, gone, target>>
          /\ blind' = IF request = 0 THEN blind ELSE "yes"
       \/ Moves(h, "exists", "idle") /\ Leaves(h) /\ UNCHANGED blind
    /\ UNCHANGED <<fileVars, orphaned>> /\ RequestFrame

\* Mutant: the request is written in place.
WriteInPlace(h) ==
    /\ Moves(h, "write", "torn")
    /\ request' = target[h] /\ whole' = whole \ {"request"}
    /\ UNCHANGED <<lock, target, gone, tmp, orphaned, blind>> /\ RequestFrame

\* The file is there, and not all of its bytes.
WriteBegins(h) ==
    /\ Moves(h, "write", "torn")
    /\ tmp' = target[h] /\ whole' = whole \ {"tmp"}
    /\ UNCHANGED <<lock, target, gone, request, orphaned, blind>> /\ RequestFrame

\* The file the bytes go to, wherever a rename has put it; two writers of one
\* file leave it torn until the last has ended.
Written(h) ==
    IF \E g \in Requests \ {h} : at[g] = "torn" THEN {}
    ELSE IF tmp # 0 THEN {"tmp"} ELSE IF request # 0 THEN {"request"} ELSE {}

\* The mode 0600, which is set next, belongs to what makes the file whole. When
\* either fails the handler, if it is there, removes the file.
WriteEnds(h) ==
    /\ \/ /\ at[h] = "torn"
          /\ at' = [at EXCEPT ![h] = IF h \in gone \/ tmp = 0 THEN "idle" ELSE "rename"]
          /\ whole' = whole \cup Written(h)
          /\ UNCHANGED tmp
       \/ /\ Moves(h, "torn", "idle")
          /\ IF h \in gone THEN UNCHANGED <<tmp, whole>>
                           ELSE tmp' = 0 /\ whole' = whole \ {"tmp"}
    /\ IF at'[h] = "idle" THEN Leaves(h) ELSE UNCHANGED <<lock, gone, target>>
    /\ UNCHANGED <<request, orphaned, blind>> /\ RequestFrame

\* rename, of whatever the temporary file is by now.
Publish(h) ==
    /\ Moves(h, "rename", "idle") /\ Leaves(h)
    /\ \/ /\ tmp # 0
          /\ request' = tmp
          /\ whole' = IF "tmp" \in whole THEN {"request"} ELSE {}
       \/ UNCHANGED <<request, whole>>
    /\ tmp' = 0
    /\ UNCHANGED <<orphaned, blind>> /\ RequestFrame

\* The client disconnects: the lock is free, and the file operation that is
\* under way goes on without its handler.
HandlerDropped(h) ==
    /\ drops < MaxDrops /\ h \notin gone /\ at[h] # "idle"
    /\ drops' = drops + 1
    /\ lock' = IF lock = h THEN None ELSE lock
    /\ IF at[h] \in {"torn", "rename"}
       THEN orphaned' = "yes" /\ gone' = gone \cup {h} /\ UNCHANGED <<at, target>>
       ELSE /\ at' = [at EXCEPT ![h] = "idle"] /\ target' = [target EXCEPT ![h] = 0]
            /\ UNCHANGED <<gone, orphaned>>
    /\ UNCHANGED <<newest, fileVars, api, version, job, hostVars, blind, reboots, aborts>>

\* An installation may begin at any time.
JobStarts ==
    /\ api = "up" /\ job = "none" /\ job' = "active"
    /\ UNCHANGED <<newest, lock, at, target, gone, api, version, fileVars, hostVars, faultVars>>

JobFinishes ==
    /\ job = "active" /\ job' = "none"
    /\ UNCHANGED <<newest, lock, at, target, gone, api, version, fileVars, hostVars, faultVars>>

ReleaseAppears ==
    /\ newest < MaxVersion /\ newest' = newest + 1
    /\ UNCHANGED <<serverVars, fileVars, hostVars, faultVars>>

-----------------------------------------------------------------------------
(* update-iphoneloadly.sh *)

HostFrame == UNCHANGED <<newest, tmp, orphaned, blind, drops, reboots>>
Updater(from, to) == updater = from /\ updater' = to /\ UNCHANGED aborts
\* set -e: a line without its own "|| fail" fails. The script ends, rolls nothing
\* back and leaves the request where it is.
Aborts(from) ==
    /\ updater = from /\ updater' = "idle"
    /\ aborts < MaxAborts /\ aborts' = aborts + 1
\* write_status opens the file, which empties it, and writes; either may fail.
StatusLost == status' \in {status, "unknown"}

\* Requests end with the server, and so does a job; its row stays active.
ApiStops ==
    /\ api' = "down" /\ UNCHANGED version
    /\ lock' = None /\ gone' = {} /\ at' = [h \in Requests |-> "idle"]
    /\ target' = [h \in Requests |-> 0]
    /\ job' = IF job = "active" THEN "interrupted" ELSE job
\* systemctl start succeeds also for a server that ends at once.
ApiStarts ==
    /\ api' \in {"up", "down"} /\ version' = binary
    /\ UNCHANGED <<lock, at, target, gone, job>>

\* The path unit starts the updater, also one that left the file behind.
Trigger ==
    /\ request # 0 /\ Updater("idle", "read")
    /\ before' = [binary |-> binary, units |-> units, api |-> api]
    /\ UNCHANGED <<serverVars, request, whole, binary, units, goal, status>> /\ HostFrame

\* A request that is not whole, or names a version that the pattern does not know
\* (one with build metadata), has no values: readarray hides that python3 failed,
\* and set -u ends the script. Its mode may be wrong, or python3 missing (fail).
\* mktemp and the first status may fail.
ReadRequest ==
    /\ \/ "request" \in whole /\ request \notin Refused /\ Updater("read", "download")
          /\ goal' = request /\ status' = "running"
       \/ ("request" \notin whole \/ request \in Refused)
          /\ Updater("read", "idle") /\ UNCHANGED <<goal, status>>
       \/ Updater("read", "fail") /\ UNCHANGED <<goal, status>>
       \/ Aborts("read") /\ StatusLost /\ UNCHANGED goal
    /\ UNCHANGED <<serverVars, request, whole, binary, units, before>> /\ HostFrame

\* Archive, checksum, digest and contents are verified before anything changes.
\* sha256sum | cut and mkdir have no fail.
Download ==
    /\ (\E to \in {"backup", "fail"} : Updater("download", to)) \/ Aborts("download")
    /\ UNCHANGED <<serverVars, request, whole, binary, units, goal, before, status>>
    /\ HostFrame

\* From the status on the updater rolls back when it fails, but for that status
\* itself.
BackUp ==
    /\ \/ Updater("backup", "stop") /\ status' = "installing"
       \/ Updater("backup", "fail") /\ UNCHANGED status
       \/ Aborts("backup") /\ StatusLost
    /\ UNCHANGED <<serverVars, request, whole, binary, units, goal, before>> /\ HostFrame

\* install-iphoneloadly.sh --upgrade, step by step under set -e.
InstallStop ==
    /\ Updater("stop", "binary") /\ ApiStops
    /\ UNCHANGED <<request, whole, binary, units, goal, before, status>> /\ HostFrame

InstallBinary ==
    /\ Updater("binary", "units") /\ binary' = goal
    /\ UNCHANGED <<serverVars, request, whole, units, goal, before, status>> /\ HostFrame

InstallUnits ==
    /\ Updater("units", "start") /\ units' = goal
    /\ UNCHANGED <<serverVars, request, whole, binary, goal, before, status>> /\ HostFrame

InstallStart ==
    /\ Updater("start", "verify") /\ ApiStarts
    /\ UNCHANGED <<request, whole, binary, units, goal, before, status>> /\ HostFrame

\* The server answers with the version that was asked for. If that cannot be
\* written down, the new runtime stays and so does the request.
InstallVerify ==
    /\ api = "up" /\ version = goal
    /\ \/ Updater("verify", "remove") /\ status' = "succeeded"
       \/ Aborts("verify") /\ StatusLost
    /\ UNCHANGED <<serverVars, request, whole, binary, units, goal, before>> /\ HostFrame

\* Mutant: a failure before the server was started is not rolled back.
InstallFailsEarly ==
    /\ updater \in Upgrading
    /\ updater' = IF updater = "verify" THEN "undo_stop" ELSE "fail"
    /\ UNCHANGED <<serverVars, request, whole, binary, units, goal, before, status>>
    /\ HostFrame /\ UNCHANGED aborts

\* A step of the installer fails, or the server does not answer in time.
InstallFails ==
    /\ updater \in Upgrading /\ updater' = "undo_stop"
    /\ UNCHANGED <<serverVars, request, whole, binary, units, goal, before, status>>
    /\ HostFrame /\ UNCHANGED aborts

\* rollback_runtime, whose steps can fail as well.
UndoStop ==
    /\ Updater("undo_stop", "undo_binary") /\ ApiStops
    /\ UNCHANGED <<request, whole, binary, units, goal, before, status>> /\ HostFrame

UndoBinary ==
    /\ Updater("undo_binary", "undo_units") /\ binary' = before.binary
    /\ UNCHANGED <<serverVars, request, whole, units, goal, before, status>> /\ HostFrame

UndoUnits ==
    /\ Updater("undo_units", "undo_start") /\ units' = before.units
    /\ UNCHANGED <<serverVars, request, whole, binary, goal, before, status>> /\ HostFrame

UndoStart ==
    /\ Updater("undo_start", "undo_verify") /\ ApiStarts
    /\ UNCHANGED <<request, whole, binary, units, goal, before, status>> /\ HostFrame

UndoVerify ==
    /\ api = "up" /\ version = before.binary /\ Updater("undo_verify", "fail")
    /\ UNCHANGED <<serverVars, request, whole, binary, units, goal, before, status>>
    /\ HostFrame

UndoFails ==
    /\ updater \in RollingBack /\ updater' = "fail_loudly"
    /\ UNCHANGED <<serverVars, request, whole, binary, units, goal, before, status>>
    /\ HostFrame /\ UNCHANGED aborts

FailureSaid == status' = IF updater = "fail" THEN "failed" ELSE "unverified"

\* Mutant: the request of a failed update stays.
FailKeepsRequest ==
    /\ updater \in {"fail", "fail_loudly"} /\ updater' = "idle" /\ FailureSaid
    /\ UNCHANGED <<serverVars, request, whole, binary, units, goal, before, aborts>>
    /\ HostFrame

\* fail: the status says whether the rollback was verified, and the request is
\* renamed. If the status cannot be written the script ends before that, and a
\* rename that fails is ignored.
Fail ==
    /\ \E f \in {"fail", "fail_loudly"} :
          \/ Updater(f, "idle") /\ FailureSaid
             /\ request' = 0 /\ whole' = whole \ {"request"}
          \/ Aborts(f) /\ (FailureSaid \/ StatusLost) /\ UNCHANGED <<request, whole>>
    /\ UNCHANGED <<serverVars, binary, units, goal, before>> /\ HostFrame

RemoveRequest ==
    /\ \/ Updater("remove", "idle") /\ request' = 0 /\ whole' = whole \ {"request"}
       \/ Aborts("remove") /\ UNCHANGED <<request, whole>>
    /\ UNCHANGED <<serverVars, binary, units, goal, before, status>> /\ HostFrame

\* /run is empty after a boot, and the server starts from what is on disk.
Reboot ==
    /\ reboots < MaxReboots /\ reboots' = reboots + 1
    /\ api' = "up" /\ version' = binary
    /\ lock' = None /\ gone' = {} /\ at' = [h \in Requests |-> "idle"]
    /\ target' = [h \in Requests |-> 0]
    /\ job' = IF job = "active" THEN "interrupted" ELSE job
    /\ tmp' = 0 /\ request' = 0 /\ whole' = {} /\ updater' = "idle"
    /\ UNCHANGED <<newest, binary, units, goal, before, status, orphaned, blind, drops, aborts>>

RequestRuns(h) ==
    ChooseRelease(h) \/ FindRequest(h) \/ WriteBegins(h) \/ WriteEnds(h) \/ Publish(h)

UpdaterRuns ==
    \/ Trigger \/ ReadRequest \/ Download \/ BackUp
    \/ InstallStop \/ InstallBinary \/ InstallUnits \/ InstallStart \/ InstallVerify
    \/ InstallFails
    \/ UndoStop \/ UndoBinary \/ UndoUnits \/ UndoStart \/ UndoVerify \/ UndoFails
    \/ Fail \/ RemoveRequest

UpdateNext ==
    \/ \E h \in Requests : AskUpdate(h) \/ RequestRuns(h) \/ HandlerDropped(h)
    \/ JobStarts \/ JobFinishes \/ ReleaseAppears
    \/ UpdaterRuns \/ Reboot

UpdateSpec == UpdateInit /\ [][UpdateNext]_updateVars

\* The updater goes on while the host runs; its download is taken to end.
UpdateFairSpec == UpdateSpec /\ WF_updateVars(UpdaterRuns)

-----------------------------------------------------------------------------
(* Properties *)

\* A handler that is still there holds source_sync, so no source is synchronized
\* and no other request is under way.
LockIsHeld ==
    \A h \in Requests : at[h] # "idle" /\ h \notin gone <=> lock = h

\* The updater never reads half a request, unless a file operation outlived its
\* handler (the request is written aside and renamed, under the lock).
RequestIsWhole == request # 0 /\ orphaned = "no" => "request" \in whole

\* An update never installs an older version than the one it found, and the same
\* one only when an earlier run was cut short and left its request behind.
NeverDowngrades ==
    updater \in Upgrading =>
        goal >= before.binary /\ (goal = before.binary => aborts > 0)

\* What holds of the requests and the updater in between.
UpdateInv == UpdateTypeOK /\ LockIsHeld /\ RequestIsWhole /\ NeverDowngrades

\* The look for the file and the rename belong together.
Undisturbed == orphaned = "no" /\ blind = "no"

\* The updater removes the request it has served and not a later one, unless a
\* file operation outlived its handler or a look failed (the look for the file and
\* the rename are under one lock).
ServedIsRequested ==
    Undisturbed /\ updater \in {"download", "backup", "remove"} \cup Upgrading
        => request = goal

\* An update that failed leaves the runtime as it found it, and the server running
\* if it was, unless the status says that this was not verified.
FailureRestores ==
    updater = "idle" /\ status = "failed" =>
        /\ binary = before.binary /\ units = before.units
        /\ before.api = "up" => api = "up" /\ version = binary

\* A runtime that is said to have been installed runs, with all of its files, until
\* the next update begins.
SuccessRuns ==
    status = "succeeded" => binary = goal /\ units = goal /\ api = "up" /\ version = goal

\* What an update claims of the runtime is so, wherever it failed and however
\* often it was started again.
OutcomeIsTrue == FailureRestores /\ SuccessRuns

\* A request that the updater can read is served and goes away, so that the next
\* one is not refused: although a run that was cut short leaves it to another one,
\* which finds what that run has left, the server stopped or the new runtime there.
\* MaxAborts runs are cut short; systemd starts a unit five times in ten seconds.
RequestSettles ==
    Undisturbed /\ request \notin Refused \cup {0} ~> request = 0 \/ ~Undisturbed

\* No update stops the server under an installation ("An installation is
\* active; wait before updating iPhoneLoadly.", update.rs).
UpdateSparesJobs == job = "interrupted" => reboots > 0
=============================================================================
