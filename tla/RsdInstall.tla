----------------------------- MODULE RsdInstall -----------------------------
(***************************************************************************)
(* One call of install_remote_pairing_app (wireless_pairing.rs): it opens  *)
(* a session to read the identity of the device, signs, opens a second     *)
(* session, uploads the signed bundle over AFC into a staging directory,   *)
(* sends one install command, looks the app up, removes the staging        *)
(* directory and closes the session. Every wait has a deadline.            *)
(*                                                                         *)
(* The clock counts units of ten seconds. It advances only while the call  *)
(* waits and never past the deadline of its wait, since timeout_at wakes   *)
(* the call there; what a deadline interrupts on the device goes on.       *)
(***************************************************************************)
EXTENDS Integers

CONSTANTS
    OverallTimeout,       \* rsd_install_timeout
    RequestTimeout,       \* RSD_AFC_REQUEST_TIMEOUT
    VerificationTimeout,  \* RSD_INSTALL_VERIFICATION_TIMEOUT
    CleanupTimeout,       \* RSD_INSTALL_CLEANUP_TIMEOUT
    CloseTimeout,         \* RSD_INSTALL_SESSION_CLEANUP_TIMEOUT
    UploadRequests,       \* number of AFC requests of the upload
    Writes                \* those that write to an open file

\* The reserves fit into the budget: 20 s and 20 s of 15 or 60 minutes.
ASSUME TimeAssumption ==
    /\ OverallTimeout \in Nat /\ RequestTimeout \in Nat /\ VerificationTimeout \in Nat
    /\ CleanupTimeout \in Nat /\ CloseTimeout \in Nat
    /\ VerificationTimeout + CleanupTimeout + CloseTimeout <= OverallTimeout

\* Query of PublicStaging, query of the root, creation of the root and of the
\* app directory come first; a file is opened, written and closed.
ASSUME UploadAssumption ==
    /\ UploadRequests \in Nat /\ UploadRequests >= 4
    /\ Writes \subseteq 6 .. (UploadRequests - 1)

VARIABLES
    policy,       \* ExistingAppPolicy
    pc,           \* the wait or step the call has reached
    clock,        \* time since the call began
    expiry,       \* deadline of the current wait
    outcome,      \* outcome of the RsdInstallReport, "undecided" until there is one
    error,        \* its error kind, by the step that failed
    stagingCleanup, sessionCleanup,  \* its cleanup and session_cleanup
    artifact,     \* who owns the signed bundle on the server's disk
    task,         \* the signing task
    tunnels,      \* sessions opened and not known to be closed
    sent, processed, read,  \* requests on the AFC connection of the upload:
                            \* sent by the call, served, their replies read
    timedOut,     \* timed_out of the TaskAfcClient
    staging,      \* the staging directory on the device
    rootCreated,  \* root_created
    app,          \* the build of the app on the device
    command,      \* what became of the install command
    answer        \* what the call made of the answer to its command

reportVars == <<outcome, error, stagingCleanup, sessionCleanup>>
artifactVars == <<artifact, task>>
uploadVars == <<sent, processed, read, timedOut, staging, rootCreated>>
deviceVars == <<app, command>>
rsdVars == <<policy, pc, clock, expiry, reportVars, artifactVars, tunnels,
             uploadVars, deviceVars, answer>>

WorkDeadline == OverallTimeout - CleanupTimeout - CloseTimeout
InstallDeadline == WorkDeadline - VerificationTimeout
RootRequest == 3

Earlier(t, u) == IF t <= u THEN t ELSE u

Cleanups == {"not_needed", "succeeded", "failed"}
Errors == {"none", "session", "identity", "session_cleanup", "signing", "precheck",
           "staging", "install", "verification", "staging_cleanup"}
Pcs == {"open1", "identity1", "close1", "sign", "open2", "identity2", "precheck",
        "plan", "afc", "upload", "request", "file_close", "file_closing", "window",
        "proxy", "command", "answer", "verify", "clean", "close2", "done"}

Outcomes == {"undecided", "not_started", "installed", "not_installed", "unknown"}

RsdTypeOK ==
    /\ policy \in {"refuse", "upgrade"}
    /\ pc \in Pcs
    /\ clock \in Nat /\ expiry \in Nat
    /\ outcome \in Outcomes /\ error \in Errors
    /\ stagingCleanup \in Cleanups /\ sessionCleanup \in Cleanups
    /\ artifact \in {"none", "call", "planner", "dropping", "gone"}
    /\ task \in {"none", "running", "late"}
    /\ tunnels \in Nat
    /\ sent \in Nat /\ processed \in Nat /\ read \in Nat /\ timedOut \in BOOLEAN
    /\ staging \in {"none", "made", "late"}
    /\ rootCreated \in BOOLEAN
    /\ app \in {"none", "old", "new"}
    /\ command \in {"idle", "sent", "lost", "installed", "rejected"}
    /\ answer \in {"none", "ok", "definitive", "possible"}

RsdInit ==
    /\ policy \in {"refuse", "upgrade"}
    /\ pc = "open1"
    /\ clock = 0 /\ expiry = WorkDeadline
    /\ outcome = "undecided" /\ error = "none"
    /\ stagingCleanup = "not_needed" /\ sessionCleanup = "not_needed"
    /\ artifact = "none" /\ task = "none"
    /\ tunnels = 0
    /\ sent = 0 /\ processed = 0 /\ read = 0 /\ timedOut = FALSE
    /\ staging = "none" /\ rootCreated = FALSE
    /\ app \in {"none", "old"} /\ command = "idle"
    /\ answer = "none"

-----------------------------------------------------------------------------
(* Waiting, deciding, returning *)

InTime == clock <= expiry
Expired == clock >= expiry

Move(from, to, until) ==
    /\ pc = from /\ pc' = to
    /\ expiry' = until
    /\ UNCHANGED <<policy, clock>>

Decide(verdict, kind) ==
    /\ outcome' = verdict /\ error' = kind
    /\ UNCHANGED <<stagingCleanup, sessionCleanup>>

\* The call returns its report; an artifact it still owns is dropped by a
\* blocking task.
Return(from) ==
    /\ Move(from, "done", clock)
    /\ artifact' = IF artifact = "call" THEN "dropping" ELSE artifact

MergeCleanup(first, second) ==
    IF "failed" \in {first, second} THEN "failed"
    ELSE IF "succeeded" \in {first, second} THEN "succeeded" ELSE "not_needed"

\* Mutant: a report without an error is left alone.
RecordSessionQuietly(c) ==
    /\ sessionCleanup' = MergeCleanup(sessionCleanup, c)
    /\ UNCHANGED <<stagingCleanup, error>>

RecordSession(c) ==
    /\ sessionCleanup' = MergeCleanup(sessionCleanup, c)
    /\ error' = IF sessionCleanup' = "failed" /\ error = "none" THEN "session_cleanup" ELSE error
    /\ UNCHANGED stagingCleanup

\* Failures before anything was written to the device end here: outcome
\* NotStarted, then the session is closed.
NotStarted(from, kind) ==
    /\ Move(from, "close2", clock + CloseTimeout)
    /\ Decide("not_started", kind)

\* Everything after the upload began ends here: the staging directory goes.
ToClean(from) == Move(from, "clean", clock + (IF rootCreated THEN CleanupTimeout ELSE 0))

-----------------------------------------------------------------------------
(* Sessions and the identity of the device *)

OpenSession ==
    /\ InTime
    /\ \/ Move("open1", "identity1", WorkDeadline)
       \/ Move("open2", "identity2", WorkDeadline)
    /\ tunnels' = tunnels + 1
    /\ UNCHANGED <<reportVars, artifactVars, uploadVars, deviceVars, answer>>

\* No pairing, no endpoint, no tunnel: nothing to close. A failed handshake
\* closes the tunnel, or tries to; a deadline during the handshake does not.
OpenFails ==
    /\ Return("open1") \/ Return("open2")
    /\ \E c \in Cleanups :
         /\ tunnels' = IF c = "failed" THEN tunnels + 1 ELSE tunnels
         /\ sessionCleanup' = MergeCleanup(sessionCleanup, c)
    /\ outcome' = "not_started" /\ error' = "session"
    /\ UNCHANGED stagingCleanup
    /\ UNCHANGED <<task, uploadVars, deviceVars, answer>>

\* The planner takes the artifact when the plan is due.
IdentityRead ==
    /\ InTime
    /\ \/ /\ Move("identity1", "close1", clock + CloseTimeout)
          /\ UNCHANGED artifact
       \/ /\ policy = "refuse"
          /\ Move("identity2", "precheck", WorkDeadline)
          /\ UNCHANGED artifact
       \/ /\ policy = "upgrade"
          /\ Move("identity2", "plan", WorkDeadline)
          /\ artifact' = "planner"
    /\ UNCHANGED <<reportVars, task, tunnels, uploadVars, deviceVars, answer>>

\* Mutant: the look-up of the identity has no deadline of its own.
IdentityFailsUntimed ==
    /\ ~Expired
    /\ \/ Move("identity1", "close1", clock + CloseTimeout) /\ Decide("not_started", "identity")
       \/ NotStarted("identity2", "identity")
    /\ UNCHANGED <<artifactVars, tunnels, uploadVars, deviceVars, answer>>

\* Not readable, not consistent, or not the device of the first session.
IdentityFails ==
    /\ \/ Move("identity1", "close1", clock + CloseTimeout) /\ Decide("not_started", "identity")
       \/ NotStarted("identity2", "identity")
    /\ UNCHANGED <<artifactVars, tunnels, uploadVars, deviceVars, answer>>

CloseSession(from, to, c) ==
    /\ c = "succeeded" => InTime
    /\ RecordSession(c) /\ UNCHANGED outcome
    /\ tunnels' = IF c = "succeeded" THEN tunnels - 1 ELSE tunnels
    /\ IF to = "done" THEN Return(from)
       ELSE Move(from, to, WorkDeadline) /\ UNCHANGED artifact
    /\ UNCHANGED <<uploadVars, deviceVars, answer>>

\* The signing task is spawned once the first session is closed.
CloseInitial ==
    \/ /\ outcome = "undecided"
       /\ CloseSession("close1", "sign", "succeeded")
       /\ task' = "running"
    \/ /\ outcome # "undecided"
       /\ \E c \in {"succeeded", "failed"} : CloseSession("close1", "done", c)
       /\ UNCHANGED task

\* Closing fails or takes too long; nothing else had failed before.
CloseInitialFails ==
    /\ outcome = "undecided"
    /\ Return("close1")
    /\ RecordSession("failed") /\ outcome' = "not_started"
    /\ UNCHANGED <<task, tunnels, uploadVars, deviceVars, answer>>

CloseFinal ==
    /\ \E c \in {"succeeded", "failed"} : CloseSession("close2", "done", c)
    /\ UNCHANGED task

-----------------------------------------------------------------------------
(* The signing task and the plan of the upload *)

Sign ==
    /\ InTime
    /\ Move("sign", "open2", WorkDeadline)
    /\ task' = "none" /\ artifact' = "call"
    /\ UNCHANGED <<reportVars, tunnels, uploadVars, deviceVars, answer>>

\* Preflight or signing failed, or the device has to be registered first.
SignFails ==
    /\ InTime
    /\ Return("sign")
    /\ Decide("not_started", "signing")
    /\ task' = "none"
    /\ UNCHANGED <<tunnels, uploadVars, deviceVars, answer>>

\* abort stops the task at its next await; one that is being polled goes on.
SignTimesOut ==
    /\ Expired
    /\ Return("sign")
    /\ Decide("not_started", "signing")
    /\ task' \in {"none", "late"}
    /\ UNCHANGED <<tunnels, uploadVars, deviceVars, answer>>

\* Mutant: what the task that was aborted too late signed is not dropped.
LateSignForgotten ==
    /\ task = "late" /\ task' = "none"
    /\ artifact' \in {artifact, "call"}
    /\ UNCHANGED <<policy, pc, clock, expiry, reportVars, tunnels, uploadVars, deviceVars, answer>>

\* The task that was aborted too late ends; what it signed is dropped.
LateSign ==
    /\ task = "late" /\ task' = "none"
    /\ artifact' \in {artifact, "dropping"}
    /\ UNCHANGED <<policy, pc, clock, expiry, reportVars, tunnels, uploadVars, deviceVars, answer>>

\* Mutant: whether the app is there is not checked.
PrecheckSkipped ==
    /\ InTime
    /\ Move("precheck", "plan", WorkDeadline)
    /\ artifact' = "planner"
    /\ UNCHANGED <<reportVars, task, tunnels, uploadVars, deviceVars, answer>>

\* Under "refuse" the app must not be on the device.
Precheck ==
    /\ InTime
    /\ Move("precheck", "plan", WorkDeadline)
    /\ app = "none"
    /\ artifact' = "planner"
    /\ UNCHANGED <<reportVars, task, tunnels, uploadVars, deviceVars, answer>>

PrecheckFails ==
    /\ NotStarted("precheck", "precheck")
    /\ UNCHANGED <<artifactVars, tunnels, uploadVars, deviceVars, answer>>

Plan ==
    /\ InTime
    /\ Move("plan", "afc", WorkDeadline)
    /\ artifact' = "call"
    /\ UNCHANGED <<reportVars, task, tunnels, uploadVars, deviceVars, answer>>

PlanFails ==
    /\ InTime
    /\ NotStarted("plan", "staging")
    /\ artifact' = "call"
    /\ UNCHANGED <<task, tunnels, uploadVars, deviceVars, answer>>

\* The blocking thread of the plan keeps the artifact.
PlanTimesOut ==
    /\ Expired
    /\ NotStarted("plan", "staging")
    /\ UNCHANGED <<artifactVars, tunnels, uploadVars, deviceVars, answer>>

\* The thread ends after the call stopped waiting for it, or a blocking task runs.
DropArtifact ==
    /\ \/ artifact = "dropping"
       \/ artifact = "planner" /\ pc # "plan"
    /\ artifact' = "gone"
    /\ UNCHANGED <<policy, pc, clock, expiry, reportVars, task, tunnels,
                   uploadVars, deviceVars, answer>>

-----------------------------------------------------------------------------
(* The upload *)

OpenAfc ==
    /\ InTime
    /\ Move("afc", "upload", clock)
    /\ UNCHANGED <<reportVars, artifactVars, tunnels, uploadVars, deviceVars, answer>>

AfcFails ==
    /\ NotStarted("afc", "staging")
    /\ UNCHANGED <<artifactVars, tunnels, uploadVars, deviceVars, answer>>

\* Mutant: the root is only known to be created once the device said so.
SendRequestUnmarked(from, to) ==
    /\ Move(from, to, Earlier(WorkDeadline, clock + RequestTimeout))
    /\ sent' = sent + 1
    /\ rootCreated' = (rootCreated \/ sent >= RootRequest)
    /\ UNCHANGED <<reportVars, artifactVars, tunnels, processed, read, timedOut, staging,
                   deviceVars, answer>>

\* root_created is set before the request that creates the root is sent.
SendRequest(from, to) ==
    /\ Move(from, to, Earlier(WorkDeadline, clock + RequestTimeout))
    /\ sent' = sent + 1
    /\ rootCreated' = (rootCreated \/ sent + 1 >= RootRequest)
    /\ UNCHANGED <<reportVars, artifactVars, tunnels, processed, read, timedOut, staging,
                   deviceVars, answer>>

NextRequest ==
    /\ sent < UploadRequests
    /\ SendRequest("upload", "request")

Uploaded ==
    /\ sent = UploadRequests
    /\ Move("upload", "window", clock)
    /\ UNCHANGED <<reportVars, artifactVars, tunnels, uploadVars, deviceVars, answer>>

\* The device serves the requests of a connection in order, also those nobody
\* waits for any more; what it creates then is "late".
AfcServes ==
    /\ processed < sent
    /\ processed' = processed + 1
    /\ \/ UNCHANGED staging
       \/ /\ processed' = RootRequest
          /\ staging' = IF pc \in {"request", "file_close", "file_closing"} THEN "made" ELSE "late"
    /\ UNCHANGED <<policy, pc, clock, expiry, reportVars, artifactVars, tunnels,
                   sent, read, timedOut, rootCreated, deviceVars, answer>>

ReadReply ==
    /\ read < processed
    /\ read' = read + 1
    /\ UNCHANGED <<sent, processed, timedOut, staging, rootCreated>>

RequestSucceeds ==
    /\ InTime
    /\ Move("request", "upload", clock)
    /\ ReadReply
    /\ sent = RootRequest => staging = "made"
    /\ UNCHANGED <<reportVars, artifactVars, tunnels, deviceVars, answer>>

\* A failed write closes its file before it gives up.
RequestEnds ==
    IF sent \in Writes
    THEN Move("request", "file_close", clock) /\ UNCHANGED reportVars
    ELSE ToClean("request") /\ Decide("not_installed", "staging")

RequestRefused ==
    /\ InTime
    /\ RequestEnds
    /\ ReadReply
    /\ UNCHANGED <<artifactVars, tunnels, deviceVars, answer>>

\* Mutant: the connection may be used again.
RequestTimesOutUnmarked ==
    /\ Expired /\ clock < WorkDeadline
    /\ RequestEnds
    /\ UNCHANGED <<artifactVars, tunnels, uploadVars, deviceVars, answer>>

\* The deadline of the request passes. The connection is not used again.
RequestTimesOut ==
    /\ Expired /\ clock < WorkDeadline
    /\ RequestEnds
    /\ timedOut' = TRUE
    /\ UNCHANGED <<artifactVars, tunnels, sent, processed, read, staging, rootCreated,
                   deviceVars, answer>>

\* A remote file is open for writing.
FileOpen == sent \in Writes \/ sent + 1 \in Writes

\* The connection breaks, or the local file is not what was planned.
UploadFails ==
    /\ InTime
    /\ \/ ToClean("request")
       \/ ToClean("upload") /\ ~FileOpen
    /\ Decide("not_installed", "staging")
    /\ UNCHANGED <<artifactVars, tunnels, uploadVars, deviceVars, answer>>

\* The local file is not what was planned; the open remote file is closed.
SourceChanged ==
    /\ FileOpen
    /\ Move("upload", "file_close", clock)
    /\ UNCHANGED <<reportVars, artifactVars, tunnels, uploadVars, deviceVars, answer>>

CloseFile ==
    /\ ~timedOut
    /\ SendRequest("file_close", "file_closing")

\* The upload has failed already: how the close of the file ends, and whether
\* it was tried, does not matter.
CloseFileEnds ==
    /\ Decide("not_installed", "staging")
    /\ \/ /\ timedOut
          /\ ToClean("file_close")
          /\ UNCHANGED uploadVars
       \/ InTime /\ ToClean("file_closing") /\ ReadReply
       \/ ToClean("file_closing") /\ UNCHANGED uploadVars
    /\ UNCHANGED <<artifactVars, tunnels, deviceVars, answer>>

\* The work deadline passes: the whole upload is dropped where it is.
UploadTimesOut ==
    /\ clock >= WorkDeadline
    /\ \E from \in {"upload", "request", "file_close", "file_closing"} : ToClean(from)
    /\ Decide("not_installed", "staging")
    /\ UNCHANGED <<artifactVars, tunnels, uploadVars, deviceVars, answer>>

-----------------------------------------------------------------------------
(* The install command and its verification *)

\* Mutant: the time for the verification is not reserved.
CheckWindowToWorkDeadline ==
    /\ \/ /\ clock < WorkDeadline
          /\ Move("window", "proxy", WorkDeadline)
          /\ UNCHANGED reportVars
       \/ /\ clock >= WorkDeadline
          /\ ToClean("window")
          /\ Decide("not_installed", "install")
    /\ UNCHANGED <<artifactVars, tunnels, uploadVars, deviceVars, answer>>

\* The command is sent only if there is time left to verify it.
CheckWindow ==
    /\ \/ /\ clock < InstallDeadline
          /\ Move("window", "proxy", InstallDeadline)
          /\ UNCHANGED reportVars
       \/ /\ clock >= InstallDeadline
          /\ ToClean("window")
          /\ Decide("not_installed", "install")
    /\ UNCHANGED <<artifactVars, tunnels, uploadVars, deviceVars, answer>>

OpenProxy ==
    /\ InTime
    /\ Move("proxy", "command", expiry)
    /\ UNCHANGED <<reportVars, artifactVars, tunnels, uploadVars, deviceVars, answer>>

ProxyFails ==
    /\ ToClean("proxy")
    /\ Decide("not_installed", "install")
    /\ UNCHANGED <<artifactVars, tunnels, uploadVars, deviceVars, answer>>

\* The first poll of the command sends it, or loses it on the way.
SendCommand ==
    /\ Move("command", "answer", expiry)
    /\ command' \in {"sent", "lost"}
    /\ UNCHANGED <<reportVars, artifactVars, tunnels, uploadVars, app, answer>>

Answer(a) ==
    /\ Move("answer", "verify", Earlier(WorkDeadline, clock + VerificationTimeout))
    /\ answer' = a
    /\ UNCHANGED <<reportVars, artifactVars, tunnels, uploadVars, deviceVars>>

\* The operation is reported complete, or as failed; everything else, a lost
\* connection and a deadline included, may have been accepted.
CommandAnswered ==
    \/ InTime /\ command = "installed" /\ Answer("ok")
    \/ InTime /\ command = "rejected" /\ Answer("definitive")

CommandUnanswered == Answer("possible")

\* Mutant: a command without an answer is taken for one that had no effect.
OutcomeOptimist(a, lookup) ==
    IF lookup = "found" THEN "installed"
    ELSE IF a # "ok" \/ lookup = "absent" THEN "not_installed"
    ELSE "unknown"

\* outcome_after_install_result
Outcome(a, lookup) ==
    IF lookup = "found" THEN "installed"
    ELSE IF a = "definitive" \/ (a = "ok" /\ lookup = "absent") THEN "not_installed"
    ELSE "unknown"

Verified(lookup) ==
    /\ ToClean("verify")
    /\ LET verdict == Outcome(answer, lookup) IN
       Decide(verdict, IF verdict = "installed" THEN "none" ELSE "verification")
    /\ UNCHANGED <<artifactVars, tunnels, uploadVars, deviceVars, answer>>

\* The bundle identifier is looked up, whatever the answer was.
LookUp ==
    /\ InTime
    /\ Verified(IF app = "none" THEN "absent" ELSE "found")

LookUpFails == Verified("error")

-----------------------------------------------------------------------------
(* Cleanup, on a connection of its own *)

ReportCleanup(c) ==
    /\ Move("clean", "close2", clock + CloseTimeout)
    /\ stagingCleanup' = c
    /\ error' = IF c = "failed" /\ error = "none" THEN "staging_cleanup" ELSE error
    /\ UNCHANGED <<outcome, sessionCleanup>>

Clean ==
    /\ \/ /\ ~rootCreated
          /\ ReportCleanup("not_needed")
          /\ UNCHANGED staging
       \/ /\ rootCreated /\ InTime
          /\ ReportCleanup("succeeded")
          /\ staging' = "none"
    /\ UNCHANGED <<artifactVars, tunnels, sent, processed, read, timedOut, rootCreated,
                   deviceVars, answer>>

CleanFails ==
    /\ rootCreated
    /\ ReportCleanup("failed")
    /\ staging' \in {staging, "none"}
    /\ UNCHANGED <<artifactVars, tunnels, sent, processed, read, timedOut, rootCreated,
                   deviceVars, answer>>

-----------------------------------------------------------------------------
(* The device and its user *)

Installs ==
    /\ command = "sent" /\ command' = "installed"
    /\ app' = "new"
    /\ UNCHANGED <<policy, pc, clock, expiry, reportVars, artifactVars, tunnels, uploadVars, answer>>

Rejects ==
    /\ command = "sent" /\ command' = "rejected"
    /\ UNCHANGED <<policy, pc, clock, expiry, reportVars, artifactVars, tunnels, uploadVars,
                   app, answer>>

UserRemoves ==
    /\ app # "none" /\ app' = "none"
    /\ UNCHANGED <<policy, pc, clock, expiry, reportVars, artifactVars, tunnels, uploadVars,
                   command, answer>>

Tick ==
    /\ pc # "done" /\ clock < expiry
    /\ clock' = clock + 1
    /\ UNCHANGED <<policy, pc, expiry, reportVars, artifactVars, tunnels, uploadVars,
                   deviceVars, answer>>

-----------------------------------------------------------------------------
(* The specification *)

\* Steps for which the call waits for nobody.
LocalStep == NextRequest \/ Uploaded \/ CloseFile \/ CheckWindow \/ SendCommand

\* What a wait ends with when its deadline passes.
TimeoutStep ==
    \/ OpenFails \/ IdentityFails \/ CloseInitial \/ CloseInitialFails \/ CloseFinal
    \/ SignTimesOut \/ PrecheckFails \/ PlanTimesOut \/ AfcFails
    \/ RequestTimesOut \/ UploadTimesOut \/ CloseFileEnds
    \/ ProxyFails \/ CommandUnanswered \/ LookUpFails \/ CleanFails

\* What the device, the network or another thread answers.
AnswerStep ==
    \/ OpenSession \/ IdentityRead \/ Sign \/ SignFails \/ Precheck \/ Plan \/ PlanFails
    \/ OpenAfc \/ RequestSucceeds \/ RequestRefused \/ UploadFails \/ SourceChanged
    \/ OpenProxy \/ CommandAnswered \/ LookUp \/ Clean

BackgroundStep == LateSign \/ DropArtifact

DeviceStep == AfcServes \/ Installs \/ Rejects \/ UserRemoves

RsdNext == LocalStep \/ TimeoutStep \/ AnswerStep \/ BackgroundStep \/ DeviceStep \/ Tick

RsdSpec == RsdInit /\ [][RsdNext]_rsdVars

\* Time passes, timers fire, tokio runs what is ready; the device may be silent.
RsdFairness ==
    /\ WF_rsdVars(Tick)
    /\ WF_rsdVars(Expired /\ (LocalStep \/ TimeoutStep \/ Clean))
    /\ WF_rsdVars(BackgroundStep)

RsdFairSpec == RsdSpec /\ RsdFairness

-----------------------------------------------------------------------------
(* Properties *)

\* The call keeps within its budget on every path, cleanup and the closing of
\* the session included, and a command is never under way so late that the
\* full time for its verification is not left (CHANGELOG: "a 60-minute total
\* budget").
EndsInTime ==
    /\ clock <= OverallTimeout
    /\ pc \in {"command", "answer"} => clock + VerificationTimeout <= WorkDeadline

\* A report without an error kind is a clean one: the command was sent, the
\* app was found, the staging directory is gone and every session is closed.
CleanReport ==
    pc = "done" /\ error = "none" =>
        /\ outcome = "installed" /\ command # "idle"
        /\ staging # "made"
        /\ tunnels = 0

\* What is left on the device is reported: a staging directory that was made
\* while the upload was waiting, and a session that was not closed.
LeftoversReported ==
    pc = "done" =>
        /\ staging = "made" => stagingCleanup = "failed"
        /\ tunnels > 0 => sessionCleanup = "failed"

\* A reply is only ever read as the reply to the request that was sent last
\* (CHANGELOG: "preventing a late response from being used as the response to
\* a subsequent command").
RepliesMatch ==
    [][read' # read => read' = sent]_rsdVars

\* The verdict of the report is true of the device and stays true: the
\* installation keeps the promise of InstallPromise.
Promise == INSTANCE InstallPromise WITH verdict <- outcome
PromiseKept == Promise!PromiseSpec

\* A job only succeeds after the install is verified on the device
\* (CHANGELOG): what the call reports as installed is what its command
\* installed.
InstalledByCommand ==
    outcome = "installed" => command = "installed"

\* The diagnostic installation, which refuses an app that is there, keeps that
\* even when the answer to its command is lost.
RefusedInstalledByCommand ==
    policy = "refuse" => InstalledByCommand

\* Every call returns, whether or not the device ever answers.
CallReturns == <>(pc = "done")

\* The signed bundle does not stay on the server's disk, also when the call
\* has stopped waiting for the thread that owns it.
ArtifactDropped == <>[](artifact \in {"none", "gone"} /\ task = "none")
=============================================================================
