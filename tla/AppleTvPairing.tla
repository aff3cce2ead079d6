--------------------------- MODULE AppleTvPairing ---------------------------
(***************************************************************************)
(* Pairing an Apple TV (apple_tv.rs and pair_with_pin): a request starts a *)
(* session whose task connects to the Apple TV, waits for the PIN that a   *)
(* user reads off the screen and another request submits, stores the       *)
(* pairing and verifies it by looking the identity up. Requests poll,      *)
(* cancel and replace the session, or forget the pairing. A task can       *)
(* outlive its session; start_lock keeps two tasks from pairing at once.   *)
(*                                                                         *)
(* The task of session s asks for the identity as the caller s.            *)
(***************************************************************************)
EXTENDS PairedDevice

CONSTANT MaxCrashes  \* bound of the model

ASSUME AppleTvAssumption == Pairings \subseteq Callers /\ MaxCrashes \in Nat

VARIABLES
    session,   \* the id of the Session, or None
    phase,     \* its status.phase
    verified,  \* its status.verified: whose identity it was, or None
    pin,       \* of every session: the PIN's oneshot channel
    taken,     \* tasks that have taken the receiver
    due,       \* the session is past its expires_at
    pc,        \* where the task of every session is
    aborted,   \* tasks whose AbortHandle was used
    identity,  \* what a task's own look-up returned
    holder,    \* the task that holds start_lock, or None
    forget,    \* where the request that forgets the pairing is
    saved,     \* history: sessions whose pairing was stored
    overlap,   \* history: a look-up overlapped a change of the pairing
    crashes

sessionVars == <<session, phase, verified, pin>>
taskVars == <<pc, aborted, taken, identity, holder>>
historyVars == <<saved, overlap>>
tvVars == <<pairedVars, sessionVars, due, taskVars, forget, historyVars, crashes>>

Terminal == {"ready", "failed", "cancelled", "expired"}
Phases == {"connecting", "awaiting_pin", "verifying"} \cup Terminal

\* Waits of pair_with_pin and of the verification.
Waits == {"lock", "connect", "handshake", "pin", "lookup"}
Pcs == {"none", "asked", "failing", "saving", "saved", "stored", "verify", "report",
        "done"} \cup Waits

\* While the task is there the PIN can still reach it.
Listening == {"lock", "connect", "handshake", "asked", "pin"}

TvTypeOK ==
    /\ PairedTypeOK
    /\ session \in Pairings \cup {None} /\ phase \in Phases
    /\ verified \in Pairings \cup {None}
    /\ pin \in [Pairings -> {"open", "sent", "gone"}]
    /\ pc \in [Pairings -> Pcs]
    /\ due \in BOOLEAN
    /\ taken \subseteq Pairings /\ aborted \subseteq Pairings
    /\ saved \subseteq Pairings
    /\ identity \in [Pairings -> Pairings \cup {None}]
    /\ holder \in Pairings \cup {None}
    /\ forget \in {"idle", "waiting", "locked", "cleared"}
    /\ overlap \in {"no", "yes"} /\ crashes \in Nat

TvInit ==
    /\ PairedInit
    /\ session = None /\ phase = "cancelled" /\ verified = None
    /\ pin = [s \in Pairings |-> "gone"] /\ pc = [s \in Pairings |-> "none"]
    /\ due = FALSE /\ taken = {} /\ aborted = {} /\ saved = {}
    /\ identity = [s \in Pairings |-> None]
    /\ holder = None /\ forget = "idle"
    /\ overlap = "no" /\ crashes = 0

Active == session # None /\ phase \notin Terminal
LockFree == holder = None /\ forget \in {"idle", "waiting"}
LookingUp == \E c \in Callers : asking[c] # "idle"

-----------------------------------------------------------------------------
(* Requests *)

\* A start names a target of the last discovery, or discovers first. A session
\* that is neither over nor past its lifetime refuses it as Busy. The session is
\* stored while it is still locked, so its task finds it.
StartPairing(s) ==
    /\ pc[s] = "none"
    /\ Active => due
    /\ aborted' = IF Active THEN aborted \cup {session} ELSE aborted
    /\ session' = s /\ phase' = "connecting" /\ verified' = None
    /\ pin' = [p \in Pairings |-> IF p = s THEN "open"
                                  ELSE IF p = session THEN "gone" ELSE pin[p]]
    /\ due' = FALSE
    /\ pc' = [pc EXCEPT ![s] = "lock"]
    /\ UNCHANGED <<pairedVars, taken, identity, holder, forget, historyVars, crashes>>

\* The session is ended by a request: its task is aborted, and the sender of
\* the PIN dropped.
EndSession(verdict) ==
    /\ Active
    /\ phase' = verdict
    /\ aborted' = aborted \cup {session}
    /\ pin' = [pin EXCEPT ![session] = "gone"]
    /\ UNCHANGED <<pairedVars, session, verified, due, pc, taken, identity,
                   holder, forget, historyVars, crashes>>

\* expire_if_due, of a status or of a PIN.
Expire == due /\ EndSession("expired")
Cancel == EndSession("cancelled")

\* Mutant: the phase moves on although nobody is there to take the PIN.
SubmitPinBlindly ==
    /\ Active /\ ~due /\ phase = "awaiting_pin"
    /\ pin[session] = "open"
    /\ pin' = [pin EXCEPT ![session] = "gone"]
    /\ phase' = "verifying"
    /\ UNCHANGED <<pairedVars, session, verified, due, taskVars, forget,
                   historyVars, crashes>>

\* The sender is taken, and sends unless the task has dropped the receiver.
SubmitPin ==
    /\ Active /\ ~due /\ phase = "awaiting_pin"
    /\ pin[session] = "open"
    /\ IF pc[session] \in Listening
       THEN pin' = [pin EXCEPT ![session] = "sent"] /\ phase' = "verifying"
       ELSE pin' = [pin EXCEPT ![session] = "gone"] /\ UNCHANGED phase
    /\ UNCHANGED <<pairedVars, session, verified, due, taskVars, forget,
                   historyVars, crashes>>

\* Five minutes are over.
FallsDue ==
    /\ Active /\ ~due
    /\ due' = TRUE
    /\ UNCHANGED <<pairedVars, sessionVars, taskVars, forget, historyVars, crashes>>

-----------------------------------------------------------------------------
(* forget_pairing *)

ForgetFrame == UNCHANGED <<sessionVars, due, taskVars, saved, crashes>>

ForgetStarts ==
    /\ forget = "idle"
    /\ forget' = "waiting"
    /\ UNCHANGED <<pairedVars, overlap>> /\ ForgetFrame

ForgetLocks ==
    /\ forget = "waiting" /\ LockFree
    /\ forget' = "locked"
    /\ UNCHANGED <<pairedVars, overlap>> /\ ForgetFrame

ForgetClears ==
    /\ forget = "locked"
    /\ forget' = "cleared"
    /\ cached' = None
    /\ UNCHANGED <<stored, key, lookupVars, overlap>> /\ ForgetFrame

\* The file is removed, or the file system refuses.
ForgetRemoves ==
    /\ forget = "cleared"
    /\ forget' = "idle"
    /\ stored' \in {stored, None}
    /\ overlap' = IF LookingUp THEN "yes" ELSE overlap
    /\ UNCHANGED <<key, cached, lookupVars>> /\ ForgetFrame

\* The client disconnects while its handler waits for a lock.
ForgetDropped ==
    /\ forget \in {"waiting", "locked"}
    /\ forget' = "idle"
    /\ UNCHANGED <<pairedVars, overlap>> /\ ForgetFrame

-----------------------------------------------------------------------------
(* pair_with_pin, in the task of a session *)

TaskFrame == UNCHANGED <<due, forget, crashes>>
GoTo(s, from, to) == pc[s] = from /\ pc' = [pc EXCEPT ![s] = to]
\* An abort takes effect where the task waits.
Waiting(s, p) == pc[s] = p /\ s \notin aborted
\* The task's own state goes with it.
Ends(s) ==
    /\ pc' = [pc EXCEPT ![s] = "done"]
    /\ aborted' = aborted \ {s} /\ taken' = taken \ {s}
    /\ identity' = [identity EXCEPT ![s] = None]
Release(s) == holder' = IF holder = s THEN None ELSE holder

TakeLock(s) ==
    /\ s \notin aborted /\ LockFree
    /\ GoTo(s, "lock", "connect")
    /\ holder' = s
    /\ UNCHANGED <<pairedVars, sessionVars, aborted, taken, identity, historyVars>> /\ TaskFrame

\* The addresses are tried in turn, ten seconds each.
Connects(s) ==
    /\ s \notin aborted
    /\ GoTo(s, "connect", "handshake")
    /\ UNCHANGED <<pairedVars, sessionVars, aborted, taken, identity, holder, historyVars>>
    /\ TaskFrame

\* No address answers, the handshake fails or takes five minutes.
PairingFails(s) ==
    /\ s \notin aborted
    /\ \E p \in {"connect", "handshake"} : GoTo(s, p, "failing")
    /\ Release(s)
    /\ UNCHANGED <<pairedVars, sessionVars, aborted, taken, identity, historyVars>> /\ TaskFrame

\* Mutant: the time the user takes does not count.
HandshakeTimesOutPaused(s) ==
    /\ s \notin aborted
    /\ GoTo(s, "handshake", "failing")
    /\ Release(s)
    /\ UNCHANGED <<pairedVars, sessionVars, aborted, taken, identity, historyVars>> /\ TaskFrame

HandshakeTimesOut(s) ==
    /\ s \notin aborted
    /\ \E p \in {"handshake", "pin"} : GoTo(s, p, "failing")
    /\ Release(s)
    /\ UNCHANGED <<pairedVars, sessionVars, aborted, taken, identity, historyVars>> /\ TaskFrame

\* The Apple TV shows a PIN, and may do so again after a wrong one.
AsksForPin(s) ==
    /\ s \notin aborted
    /\ GoTo(s, "handshake", "asked")
    /\ UNCHANGED <<pairedVars, sessionVars, aborted, taken, identity, holder, historyVars>>
    /\ TaskFrame

\* Mutant: a late task writes over a verdict.
SetPhaseAlways(s, p) ==
    /\ phase' = IF session = s THEN p ELSE phase
    /\ UNCHANGED <<session, verified>>

\* set_phase, of a session that is still this one and not over.
SetPhase(s, p) ==
    /\ phase' = IF session = s /\ phase \notin Terminal THEN p ELSE phase
    /\ UNCHANGED <<session, verified>>

\* The callback: the session awaits the PIN unless it was submitted already.
\* A second call finds the receiver gone and answers with no PIN.
AwaitPin(s) ==
    /\ GoTo(s, "asked", IF s \in taken THEN "handshake" ELSE "pin")
    /\ taken' = taken \cup {s}
    /\ IF pin[s] = "open" THEN SetPhase(s, "awaiting_pin") ELSE UNCHANGED <<session, phase, verified>>
    /\ UNCHANGED <<pairedVars, pin, aborted, identity, holder, historyVars>> /\ TaskFrame

\* The PIN, or nothing when its sender is gone.
PinArrives(s) ==
    /\ s \notin aborted /\ pin[s] # "open"
    /\ GoTo(s, "pin", "handshake")
    /\ UNCHANGED <<pairedVars, sessionVars, aborted, taken, identity, holder, historyVars>>
    /\ TaskFrame

TvAccepts(s) ==
    /\ s \notin aborted
    /\ GoTo(s, "handshake", "saving")
    /\ UNCHANGED <<pairedVars, sessionVars, aborted, taken, identity, holder, historyVars>>
    /\ TaskFrame

\* Nobody looks whether the session is still wanted.
SavePairing(s) ==
    /\ GoTo(s, "saving", "saved")
    /\ Save(s)
    /\ saved' = saved \cup {s}
    /\ overlap' = IF LookingUp THEN "yes" ELSE overlap
    /\ UNCHANGED <<cached, lookupVars, sessionVars, aborted, taken, identity, holder>>
    /\ TaskFrame

SavingFails(s) ==
    /\ GoTo(s, "saving", "failing")
    /\ SaveBreaks
    /\ Release(s)
    /\ UNCHANGED <<cached, lookupVars, sessionVars, aborted, taken, identity, historyVars>>
    /\ TaskFrame

\* Mutant: the identity of the earlier pairing stays.
KeepIdentity(s) ==
    /\ GoTo(s, "saved", "stored")
    /\ Release(s)
    /\ UNCHANGED <<pairedVars, sessionVars, aborted, taken, identity, historyVars>>
    /\ TaskFrame

ClearIdentity(s) ==
    /\ GoTo(s, "saved", "stored")
    /\ cached' = None
    /\ Release(s)
    /\ UNCHANGED <<stored, key, lookupVars, sessionVars, aborted, taken, identity, historyVars>>
    /\ TaskFrame

-----------------------------------------------------------------------------
(* run_pairing after the pairing: verification and verdict *)

PhaseVerifying(s) ==
    /\ GoTo(s, "stored", "verify")
    /\ SetPhase(s, "verifying")
    /\ UNCHANGED <<pairedVars, pin, aborted, taken, identity, holder, historyVars>> /\ TaskFrame

\* A cached identity is taken as it is; without a pairing there is none.
VerifyAtOnce(s) ==
    /\ cached # None \/ ~HasStoredPairing
    /\ GoTo(s, "verify", "report")
    /\ identity' = [identity EXCEPT ![s] = cached]
    /\ UNCHANGED <<pairedVars, sessionVars, aborted, taken, holder, historyVars>> /\ TaskFrame

VerifyStarts(s) ==
    /\ GoTo(s, "verify", "lookup")
    /\ LookupStarts(s)
    /\ UNCHANGED <<sessionVars, aborted, taken, identity, holder, historyVars>> /\ TaskFrame

VerifyAnswered(s) ==
    /\ Waiting(s, "lookup")
    /\ LookupAnswered(s)
    /\ UNCHANGED <<sessionVars, taskVars, historyVars>> /\ TaskFrame

CacheOverlap(c) ==
    overlap' = IF asking[c] = "caching" /\ forget = "cleared" THEN "yes" ELSE overlap

VerifyCaches(s) ==
    /\ GoTo(s, "lookup", "report")
    /\ LookupCaches(s) /\ CacheOverlap(s)
    /\ identity' = [identity EXCEPT ![s] = loaded[s]]
    /\ UNCHANGED <<saved, sessionVars, aborted, taken, holder>> /\ TaskFrame

\* The Apple TV cannot be reached, or not within VERIFY_TIMEOUT.
VerifyFails(s) ==
    /\ Waiting(s, "lookup")
    /\ GoTo(s, "lookup", "report")
    /\ LookupEnds(s)
    /\ UNCHANGED <<sessionVars, aborted, taken, identity, holder, historyVars>> /\ TaskFrame

ReportReady(s) ==
    /\ pc[s] = "report" /\ Ends(s)
    /\ IF session = s /\ phase \notin Terminal
       THEN phase' = "ready" /\ verified' = identity[s]
       ELSE UNCHANGED <<phase, verified>>
    /\ UNCHANGED <<pairedVars, session, pin, holder, historyVars>>
    /\ TaskFrame

ReportFailed(s) ==
    /\ pc[s] = "failing" /\ Ends(s)
    /\ SetPhase(s, "failed")
    /\ pin' = IF session = s THEN [pin EXCEPT ![s] = "gone"] ELSE pin
    /\ UNCHANGED <<pairedVars, holder, historyVars>> /\ TaskFrame

\* An aborted task is dropped where it waits, for the Apple TV or for a lock;
\* between the save and the clearing it waits for the lock of the cache.
TaskDropped(s) ==
    /\ s \in aborted /\ pc[s] \notin {"none", "done"}
    /\ Ends(s) /\ Release(s)
    /\ asking' = [asking EXCEPT ![s] = "idle"] /\ loaded' = [loaded EXCEPT ![s] = None]
    /\ overlap' = IF pc[s] = "saved" THEN "yes" ELSE overlap
    /\ UNCHANGED <<stored, key, cached, sessionVars, saved>>
    /\ TaskFrame

-----------------------------------------------------------------------------

\* Requests that list the devices or install look the identity up as well.
Request(c) ==
    /\ c \notin Pairings
    /\ LookupStep(c)
    /\ CacheOverlap(c)
    /\ UNCHANGED <<sessionVars, due, taskVars, forget, saved, crashes>>

Crash ==
    /\ crashes < MaxCrashes
    /\ IF \E s \in Pairings : pc[s] = "saving" THEN SaveBreaks ELSE UNCHANGED <<stored, key>>
    /\ ForgetMemory
    /\ session' = None /\ phase' = "cancelled" /\ verified' = None
    /\ pin' = [s \in Pairings |-> "gone"]
    /\ pc' = [s \in Pairings |-> IF pc[s] = "none" THEN "none" ELSE "done"]
    /\ due' = FALSE /\ aborted' = {} /\ taken' = {}
    /\ identity' = [s \in Pairings |-> None]
    /\ holder' = None /\ forget' = "idle"
    /\ overlap' = "no"
    /\ crashes' = crashes + 1
    /\ UNCHANGED saved

TaskRuns(s) ==
    \/ AwaitPin(s) \/ PinArrives(s) \/ SavePairing(s) \/ SavingFails(s) \/ ClearIdentity(s)
    \/ PhaseVerifying(s) \/ VerifyAtOnce(s) \/ VerifyStarts(s) \/ VerifyCaches(s)
    \/ ReportReady(s) \/ ReportFailed(s) \/ TaskDropped(s)

TvActs(s) ==
    \/ Connects(s) \/ AsksForPin(s) \/ TvAccepts(s) \/ VerifyAnswered(s)

WaitsEnd(s) == PairingFails(s) \/ HandshakeTimesOut(s) \/ VerifyFails(s)

Forgets == ForgetStarts \/ ForgetLocks \/ ForgetClears \/ ForgetRemoves \/ ForgetDropped

TvNext ==
    \/ FallsDue \/ Expire \/ Cancel \/ SubmitPin
    \/ \E s \in Pairings : StartPairing(s) \/ TakeLock(s) \/ TaskRuns(s)
                           \/ TvActs(s) \/ WaitsEnd(s)
    \/ \E c \in Callers : Request(c)
    \/ Forgets \/ Crash

TvSpec == TvInit /\ [][TvNext]_tvVars

HolderRuns == \E s \in Pairings : holder = s /\ TaskRuns(s)
HolderGivesUp == \E s \in Pairings : holder = s /\ pc[s] = "connect" /\ PairingFails(s)
HandshakeEnds == \E s \in Pairings : HandshakeTimesOut(s)

\* The runtime polls the task and the handler that hold start_lock. Connecting
\* is bounded, and the handshake by five minutes whatever happens in it, in
\* particular while it waits for the PIN. Nothing is assumed of the Apple TV,
\* the user or any client.
TvFairSpec ==
    /\ TvSpec
    /\ WF_tvVars(HolderRuns) /\ WF_tvVars(HolderGivesUp) /\ SF_tvVars(HandshakeEnds)
    /\ WF_tvVars(ForgetClears \/ ForgetRemoves)

-----------------------------------------------------------------------------
(* Properties *)

\* A verdict is final: a task that is late, or aborted too late, never changes
\* what a client was told.
VerdictIsFinal == [][session' = session /\ phase \in Terminal => phase' = phase]_tvVars

\* A session is ready only if its own pairing reached the disk.
ReadyWasSaved == session # None /\ phase = "ready" => session \in saved

\* Unless a look-up overlapped a change of the pairing, or a task was dropped
\* between its two steps, the cache names the paired device or nobody.
CacheFollowsPairing ==
    overlap = "yes" \/ cached \in {None, stored} \/ \E s \in Pairings : pc[s] = "saved"

\* What a session was verified with is then its own identity, not that of
\* the device paired before.
VerifiedIsItself == overlap = "no" /\ phase = "ready" => verified \in {None, session}

\* A PIN that was accepted is on its way to the task that waits for it.
AcceptedPinArrives ==
    \A s \in Pairings :
        session = s /\ phase = "verifying" /\ pc[s] = "pin" => pin[s] = "sent"

\* start_lock becomes free again and again: no user who walks away from the
\* PIN, no silent Apple TV and no aborted task keeps a pairing or a forget out.
LockReleased == []<>LockFree

=============================================================================
