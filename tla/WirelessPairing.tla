--------------------------- MODULE WirelessPairing ---------------------------
(***************************************************************************)
(* Pairing an iPhone or iPad (wireless_pairing.rs): a request starts a     *)
(* session that is advertised over mDNS and has a task that listens, runs  *)
(* the handshake, commits the pairing over a tunnel and stores it, while   *)
(* other requests poll or cancel the session. At most one session is kept, *)
(* and a session expires when somebody looks at it.                        *)
(*                                                                         *)
(* The clock counts units of ten seconds. It does not advance past the     *)
(* deadline of the task's wait, since timeout wakes the task there; a task *)
(* that runs may take its time. The device decides when it connects, asks  *)
(* for the code or answers, if ever.                                       *)
(***************************************************************************)
EXTENDS PairedDevice

CONSTANTS
    Lifetime,          \* SESSION_LIFETIME
    DiscoveryTimeout,  \* REMOTE_DISCOVERY_TIMEOUT
    ConnectTimeout,    \* REMOTE_CONNECT_TIMEOUT
    Addresses,         \* most addresses the device is found at
    Steps,             \* waits of the commitment at one address
    MaxClock, MaxCrashes, MaxDrops  \* bounds of the model

ASSUME WirelessAssumption ==
    /\ Lifetime \in Nat \ {0}
    /\ DiscoveryTimeout \in Nat \ {0} /\ ConnectTimeout \in Nat \ {0}
    /\ Addresses \in Nat \ {0} /\ Steps \in Nat \ {0}
    /\ MaxClock \in Nat /\ MaxCrashes \in Nat /\ MaxDrops \in Nat

VARIABLES
    clock,
    session,  \* the id of the SessionRuntime, or None
    phase,    \* its status.phase
    code,     \* its status.setup_code is shown
    expires,  \* expires_at of every session
    task,     \* the session whose task runs, or None
    pc,       \* where the task is
    until,    \* the deadline of its wait
    left,     \* addresses it has not given up
    step,     \* wait of the commitment, 0 for the discovery
    abort,    \* whether its AbortHandle was used
    startPc,  \* where the request that holds start_lock is
    startId,  \* the id it gave to its session
    advert,   \* sessions with an mDNS advertisement
    lost,     \* history: advertisements nobody can withdraw
    ended,    \* history: sessions a client saw, or made, end
    crashes, drops

taskVars == <<task, pc, until, left, step, abort>>
sessionVars == <<session, phase, code, ended>>
startVars == <<startPc, startId>>
advertVars == <<advert, lost>>
boundVars == <<crashes, drops>>
wirelessVars == <<pairedVars, clock, sessionVars, expires, taskVars, startVars,
                  advertVars, boundVars>>

\* PairingPhase::is_terminal. Nothing ends "verifying": the only code that
\* would is not called.
Terminal == {"failed", "cancelled", "expired"}
Phases == {"awaiting_device", "awaiting_code", "verifying"} \cup Terminal

Waits == {"accept", "handshake", "commit"}
Pcs == {"spawned", "connected", "code", "committed", "uncommitted", "cleanup",
        "finish_expired", "finish_failed", "end_expired", "end_failed"} \cup Waits

Earlier(t, u) == IF t <= u THEN t ELSE u
Later(t, u) == IF t <= u THEN u ELSE t

SessionTypeOK ==
    /\ clock \in Nat /\ expires \in [Pairings -> Nat]
    /\ session \in Pairings \cup {None} /\ phase \in Phases /\ code \in BOOLEAN

TaskTypeOK ==
    /\ task \in Pairings \cup {None} /\ pc \in Pcs
    /\ until \in Nat /\ left \in Nat /\ step \in Nat
    /\ abort \in {"none", "sent"}

StartTypeOK ==
    /\ startPc \in {"idle", "preparing", "advertising", "storing"}
    /\ startId \in Pairings \cup {None}
    /\ advert \subseteq Pairings /\ lost \subseteq Pairings /\ ended \subseteq Pairings
    /\ crashes \in Nat /\ drops \in Nat

WirelessTypeOK == PairedTypeOK /\ SessionTypeOK /\ TaskTypeOK /\ StartTypeOK

WirelessInit ==
    /\ PairedInit
    /\ clock = 0 /\ expires = [p \in Pairings |-> 0]
    /\ session = None /\ phase = "cancelled" /\ code = FALSE
    /\ task = None /\ pc = "spawned" /\ until = 0 /\ left = 0 /\ step = 0
    /\ abort = "none"
    /\ startPc = "idle" /\ startId = None
    /\ advert = {} /\ lost = {} /\ ended = {}
    /\ crashes = 0 /\ drops = 0

-----------------------------------------------------------------------------
(* Sections under the session lock *)

Active == session # None /\ phase \notin Terminal
TaskActive == session = task /\ phase \notin Terminal
SessionExpired == clock >= expires[session]

\* status and start_wireless find the session past its lifetime; cancel ends
\* it as well: the task is aborted, the advertisement withdrawn.
EndSession(verdict) ==
    /\ phase' = verdict /\ code' = FALSE
    /\ abort' = IF task = session THEN "sent" ELSE abort
    /\ advert' = advert \ {session}
    /\ ended' = ended \cup {session}
    /\ UNCHANGED session

\* GET of a session: it expires lazily, and a client learns of its end.
Status ==
    /\ session # None
    /\ \/ /\ Active /\ SessionExpired
          /\ EndSession("expired")
       \/ /\ ~Active /\ session \notin ended
          /\ ended' = ended \cup {session}
          /\ UNCHANGED <<session, phase, code, abort, advert>>
    /\ UNCHANGED <<pairedVars, clock, expires, task, pc, until, left, step,
                   startVars, lost, boundVars>>

Cancel ==
    /\ Active
    /\ EndSession("cancelled")
    /\ UNCHANGED <<pairedVars, clock, expires, task, pc, until, left, step,
                   startVars, lost, boundVars>>

-----------------------------------------------------------------------------
(* start_wireless, under start_lock *)

Fresh == {p \in Pairings : expires[p] = 0 /\ p # startId}

\* A session that is active and not expired refuses the start as Busy.
StartChecks ==
    /\ startPc = "idle" /\ Fresh # {}
    /\ \/ ~Active /\ UNCHANGED <<sessionVars, abort, advert>>
       \/ Active /\ SessionExpired /\ EndSession("expired")
    /\ startPc' = "preparing"
    /\ UNCHANGED <<pairedVars, clock, expires, task, pc, until, left, step,
                   startId, lost, boundVars>>

\* The listeners are bound, which fails while a task still owns the port, and
\* the service is registered with a new mDNS daemon.
StartAdvertises ==
    /\ startPc = "preparing" /\ task = None
    /\ \E p \in Fresh :
        /\ startId' = p
        /\ advert' = advert \cup {p}
    /\ startPc' = "advertising"
    /\ UNCHANGED <<pairedVars, clock, sessionVars, expires, taskVars, lost, boundVars>>

\* No pairing could be loaded, no address or port was free, or the daemon
\* reported an error or nothing for MDNS_ANNOUNCE_TIMEOUT: it is shut down.
StartFails ==
    /\ startPc \in {"preparing", "advertising"}
    /\ startPc' = "idle" /\ startId' = None
    /\ advert' = advert \ {startId}
    /\ UNCHANGED <<pairedVars, clock, sessionVars, expires, taskVars, lost, boundVars>>

\* The advertisement is announced: the task is spawned with the listeners.
StartSpawns ==
    /\ startPc = "advertising"
    /\ clock + Lifetime <= MaxClock
    /\ expires' = [expires EXCEPT ![startId] = clock + Lifetime]
    /\ task' = startId /\ pc' = "spawned" /\ abort' = "none"
    /\ startPc' = "storing"
    /\ UNCHANGED <<pairedVars, clock, sessionVars, until, left, step, startId,
                   advertVars, boundVars>>

\* Only now is the session stored; the runtime it replaces is dropped, and
\* with it an advertisement its task did not withdraw.
StartStores ==
    /\ startPc = "storing"
    /\ session' = startId /\ phase' = "awaiting_device" /\ code' = FALSE
    /\ startPc' = "idle" /\ startId' = None
    /\ advert' = advert \ {session}
    /\ UNCHANGED <<pairedVars, clock, ended, expires, taskVars, lost, boundVars>>

\* The client of the start disconnects and its handler is dropped: while it
\* waits for the announcement, the daemon is left running; while it waits
\* for the session lock, the task has the advertisement.
StartDropped ==
    /\ drops < MaxDrops
    /\ \/ /\ startPc = "advertising"
          /\ lost' = lost \cup {startId}
          /\ UNCHANGED advert
       \/ /\ startPc = "storing"
          /\ advert' = IF task = startId THEN advert ELSE advert \ {startId}
          /\ UNCHANGED lost
    /\ startPc' = "idle" /\ startId' = None
    /\ drops' = drops + 1
    /\ UNCHANGED <<pairedVars, clock, sessionVars, expires, taskVars, crashes>>

-----------------------------------------------------------------------------
(* run_pairing, the task *)

At(p) == task # None /\ pc = p
\* An abort takes effect where the task waits.
Waiting(p) == At(p) /\ abort = "none"

GoTo(p) == pc' = p /\ UNCHANGED <<task, until, left, step, abort>>
WaitFor(p, t) == pc' = p /\ until' = t /\ UNCHANGED <<task, left, step, abort>>

\* The task returns or is dropped, and its listeners with it. Its
\* advertisement stays with a runtime or a start that shares it.
TaskEnds ==
    /\ task' = None /\ pc' = "spawned" /\ abort' = "none"
    /\ until' = 0 /\ left' = 0 /\ step' = 0
    /\ advert' = IF task \in {session, startId} THEN advert ELSE advert \ {task}

\* The task has withdrawn its advertisement and returns.
TaskEndsQuietly ==
    /\ task' = None /\ pc' = "spawned" /\ abort' = "none"
    /\ until' = 0 /\ left' = 0 /\ step' = 0
    /\ advert' = advert \ {task}

TaskFrame == UNCHANGED <<clock, expires, startVars, lost, boundVars>>

\* The task asks for its own status first. It returns when its session is not
\* stored yet, and aborts itself when the session has expired.
TaskBegins ==
    /\ At("spawned")
    /\ IF session # task
       THEN TaskEnds /\ UNCHANGED sessionVars
       ELSE /\ pc' = "accept" /\ until' = Later(expires[task], clock)
            /\ IF Active /\ SessionExpired
               THEN EndSession("expired")
               ELSE UNCHANGED <<sessionVars, abort, advert>>
            /\ UNCHANGED <<task, left, step>>
    /\ UNCHANGED pairedVars /\ TaskFrame

DeviceConnects ==
    /\ Waiting("accept")
    /\ GoTo("connected")
    /\ UNCHANGED <<pairedVars, sessionVars, advert>> /\ TaskFrame

\* accept fails, or the lifetime is over: finish as Expired.
AcceptFails ==
    /\ Waiting("accept")
    /\ GoTo("finish_expired")
    /\ UNCHANGED <<pairedVars, sessionVars, advert>> /\ TaskFrame

AcceptTimesOut == clock >= until /\ AcceptFails

\* set_pairing_phase: whatever the phase was.
PhaseIsSet ==
    /\ At("connected")
    /\ IF session = task
       THEN /\ phase' = "awaiting_code" /\ code' = FALSE
            /\ WaitFor("handshake", Later(expires[task], clock))
            /\ UNCHANGED advert
       ELSE TaskEnds /\ UNCHANGED <<phase, code>>
    /\ UNCHANGED <<pairedVars, session, ended>> /\ TaskFrame

\* The device wants the code, and the callback of host.accept shows it.
DeviceWantsCode ==
    /\ Waiting("handshake")
    /\ GoTo("code")
    /\ UNCHANGED <<pairedVars, sessionVars, advert>> /\ TaskFrame

SetSetupCode ==
    /\ At("code")
    /\ code' = IF session = task THEN TRUE ELSE code
    /\ GoTo("handshake")
    /\ UNCHANGED <<pairedVars, session, phase, ended, advert>> /\ TaskFrame

HandshakeFails ==
    /\ Waiting("handshake")
    /\ GoTo("finish_failed")
    /\ UNCHANGED <<pairedVars, sessionVars, advert>> /\ TaskFrame

HandshakeTimesOut ==
    /\ Waiting("handshake") /\ clock >= until
    /\ GoTo("finish_expired")
    /\ UNCHANGED <<pairedVars, sessionVars, advert>> /\ TaskFrame

-----------------------------------------------------------------------------
(* commit_remote_pairing: the new pairing is used once, over a tunnel *)

\* Mutant: only the wait's own bound counts.
StepDeadlineAlone == clock + ConnectTimeout

\* Every wait of the commitment is cut short by the end of the session.
StepDeadline == Earlier(expires[task], clock + ConnectTimeout)

StepWait(s, a) ==
    /\ IF clock >= expires[task]
       THEN pc' = "uncommitted" /\ UNCHANGED <<until, left, step>>
       ELSE pc' = "commit" /\ until' = StepDeadline /\ left' = a /\ step' = s
    /\ UNCHANGED <<task, abort>>

HandshakeCompletes ==
    /\ Waiting("handshake")
    /\ pc' = "commit" /\ step' = 0
    /\ until' = Later(clock, Earlier(expires[task], clock + DiscoveryTimeout))
    /\ UNCHANGED <<task, left, abort>>
    /\ UNCHANGED <<pairedVars, sessionVars, advert>> /\ TaskFrame

\* The discovery collects addresses until its deadline, or until the daemon
\* closes its channel.
DiscoveryEnds ==
    /\ Waiting("commit") /\ step = 0
    /\ \/ \E a \in 1 .. Addresses : StepWait(1, a)
       \/ GoTo("uncommitted")
    /\ UNCHANGED <<pairedVars, sessionVars, advert>> /\ TaskFrame

\* TCP, verification, tunnel, RSD, RemoteXPC and verification again succeed
\* one after the other.
CommitStepSucceeds ==
    /\ Waiting("commit") /\ step \in 1 .. Steps
    /\ IF step < Steps THEN StepWait(step + 1, left) ELSE GoTo("committed")
    /\ UNCHANGED <<pairedVars, sessionVars, advert>> /\ TaskFrame

\* A step fails or times out: the next address is tried.
CommitStepFails ==
    /\ Waiting("commit") /\ step \in 1 .. Steps
    /\ IF left > 1 THEN StepWait(1, left - 1) ELSE GoTo("uncommitted")
    /\ UNCHANGED <<pairedVars, sessionVars, advert>> /\ TaskFrame

CommitTimesOut ==
    /\ clock >= until
    /\ CommitStepFails \/ DiscoveryEnds

-----------------------------------------------------------------------------
(* finalize_new_pairing, finish_if_active and finish *)

\* Mutant: the client's cancel is not looked at again.
StoresWhatEnded ==
    /\ At("committed") /\ session = task /\ clock < expires[task]
    /\ Save(task)
    /\ phase' = "verifying" /\ code' = FALSE
    /\ GoTo("cleanup")
    /\ UNCHANGED <<cached, lookupVars, session, ended, advert>> /\ TaskFrame

\* The pairing is saved and the phase set under one lock; the identity of an
\* earlier device stays cached.
FinalizeStores ==
    /\ At("committed") /\ TaskActive /\ clock < expires[task]
    /\ Save(task)
    /\ phase' = "verifying" /\ code' = FALSE
    /\ GoTo("cleanup")
    /\ UNCHANGED <<cached, lookupVars, session, ended, advert>> /\ TaskFrame

FinalizeCannotSave ==
    /\ At("committed") /\ TaskActive /\ clock < expires[task]
    /\ SaveBreaks
    /\ phase' = "failed" /\ code' = FALSE
    /\ GoTo("cleanup")
    /\ UNCHANGED <<cached, lookupVars, session, ended, advert>> /\ TaskFrame

\* The commitment failed, or it ended after the session's lifetime.
FinalizeFails ==
    /\ \/ At("uncommitted")
       \/ At("committed") /\ clock >= expires[task]
    /\ TaskActive
    /\ phase' = "failed" /\ code' = FALSE
    /\ GoTo("cleanup")
    /\ UNCHANGED <<pairedVars, session, ended, advert>> /\ TaskFrame

\* The session is another one, or over.
FinalizeIgnored ==
    /\ At("committed") \/ At("uncommitted")
    /\ ~TaskActive
    /\ TaskEnds
    /\ UNCHANGED <<pairedVars, sessionVars>> /\ TaskFrame

\* Mutant: the advertisement is forgotten.
CleanupForgets ==
    /\ At("cleanup")
    /\ TaskEnds
    /\ UNCHANGED <<pairedVars, sessionVars>> /\ TaskFrame

Cleanup ==
    /\ At("cleanup")
    /\ TaskEndsQuietly
    /\ UNCHANGED <<pairedVars, sessionVars>> /\ TaskFrame

\* finish withdraws the advertisement first and then sets the phase, whatever
\* it was.
FinishWithdraws ==
    /\ \/ At("finish_expired") /\ GoTo("end_expired")
       \/ At("finish_failed") /\ GoTo("end_failed")
    /\ advert' = advert \ {task}
    /\ UNCHANGED <<pairedVars, sessionVars>> /\ TaskFrame

FinishSetsPhase ==
    /\ At("end_expired") \/ At("end_failed")
    /\ IF session = task
       THEN /\ phase' = IF pc = "end_expired" THEN "expired" ELSE "failed"
            /\ code' = FALSE
       ELSE UNCHANGED <<phase, code>>
    /\ TaskEndsQuietly
    /\ UNCHANGED <<pairedVars, session, ended>> /\ TaskFrame

\* Mutant: an abort is only looked at between the waits.
TaskDroppedLater ==
    /\ task # None /\ abort = "sent" /\ pc \notin Waits
    /\ TaskEnds
    /\ UNCHANGED <<pairedVars, sessionVars>> /\ TaskFrame

\* An aborted task is dropped where it waits, for the device or for a lock.
TaskDropped ==
    /\ task # None /\ abort = "sent"
    /\ TaskEnds
    /\ UNCHANGED <<pairedVars, sessionVars>> /\ TaskFrame

-----------------------------------------------------------------------------
(* Time, requests for the identity, restarts *)

Tick ==
    /\ clock < MaxClock
    /\ task # None /\ pc \in Waits /\ abort = "none" => clock < until
    /\ clock' = clock + 1
    /\ UNCHANGED <<pairedVars, sessionVars, expires, taskVars, startVars, advertVars, boundVars>>

Lookup ==
    /\ \E c \in Callers : LookupStep(c)
    /\ UNCHANGED <<clock, sessionVars, expires, taskVars, startVars, advertVars, boundVars>>

\* A crash may interrupt the save. The mDNS daemons die with the process.
Crash ==
    /\ crashes < MaxCrashes
    /\ IF At("committed") THEN SaveBreaks ELSE UNCHANGED <<stored, key>>
    /\ ForgetMemory
    /\ session' = None /\ phase' = "cancelled" /\ code' = FALSE
    /\ task' = None /\ pc' = "spawned" /\ abort' = "none"
    /\ until' = 0 /\ left' = 0 /\ step' = 0
    /\ startPc' = "idle" /\ startId' = None
    /\ advert' = {} /\ lost' = {}
    /\ crashes' = crashes + 1
    /\ UNCHANGED <<clock, ended, expires, drops>>

-----------------------------------------------------------------------------

Requests == Status \/ Cancel \/ StartChecks \/ StartAdvertises \/ StartFails
            \/ StartSpawns \/ StartStores \/ StartDropped

\* What the task does by itself.
TaskRuns ==
    \/ TaskBegins \/ PhaseIsSet \/ SetSetupCode
    \/ FinalizeStores \/ FinalizeCannotSave \/ FinalizeFails \/ FinalizeIgnored
    \/ Cleanup \/ FinishWithdraws \/ FinishSetsPhase \/ TaskDropped

\* What it waits for.
DeviceActs ==
    \/ DeviceConnects \/ AcceptFails \/ DeviceWantsCode \/ HandshakeFails
    \/ HandshakeTimesOut \/ HandshakeCompletes \/ DiscoveryEnds
    \/ CommitStepSucceeds \/ CommitStepFails

WirelessNext == Requests \/ TaskRuns \/ DeviceActs \/ Tick \/ Lookup \/ Crash

WirelessSpec == WirelessInit /\ [][WirelessNext]_wirelessVars

\* The runtime polls a task that can run, and wakes one whose wait is over;
\* time goes on. The handshake returns to its wait each time a code is shown,
\* so its timeout must be fair in the strong sense. Nothing is assumed of the
\* device or of any client.
WirelessFairSpec ==
    /\ WirelessSpec
    /\ WF_wirelessVars(TaskRuns) /\ WF_wirelessVars(Tick)
    /\ WF_wirelessVars(AcceptTimesOut)
    /\ SF_wirelessVars(HandshakeTimesOut)
    /\ WF_wirelessVars(CommitTimesOut)

-----------------------------------------------------------------------------
(* Properties *)

\* A pairing is written for a session only while no client has seen it end:
\* a cancel that races with the end of the commitment wins or comes too late.
EndedStoresNothing == [][stored' # stored => stored' \notin ended]_wirelessVars

\* A session that claims to be paired is the one on disk, readable after a
\* crash at any point of a save.
PairedIsStored == phase = "verifying" => stored = session

PairingReadable == Readable

\* No wait of the task is meant to last past the end of its session, whatever
\* stage it is in and however many addresses it has left.
WaitsEndInTime ==
    task # None /\ pc \in Waits /\ abort = "none"
        => until <= expires[task] \/ until <= clock

\* A session that ended, and whose task is gone, is not advertised any more.
EndedIsQuiet ==
    session # None /\ phase \in Terminal /\ task # session => session \notin advert

\* Every task ends, and frees the port for the next session.
TaskTerminates == (task # None) ~> (task = None)

\* The cached identity is that of the paired device.
IdentityIsPaired == cached # None /\ stored # None => cached = stored

=============================================================================
