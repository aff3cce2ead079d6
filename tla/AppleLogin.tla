----------------------------- MODULE AppleLogin -----------------------------
(***************************************************************************)
(* Signing in with Apple (signing.rs): a request begins a login, whose     *)
(* task asks the user for two-factor answers, which other requests submit, *)
(* and ends with a Sideloader that jobs sign with. Logins overlap, a task  *)
(* can time out under an answer, and a restart may begin a login with the  *)
(* credentials that were saved (their files are not modelled).             *)
(*                                                                         *)
(* An answer is named by the number of the challenge it was given for.     *)
(***************************************************************************)
EXTENDS Naturals

CONSTANTS
    Logins,         \* ids of logins; each is begun at most once
    Clients,        \* requests that submit two-factor answers
    None,           \* no login
    MaxChallenges,  \* bounds of the model
    MaxRecoveries,
    MaxCrashes

ASSUME LoginAssumption ==
    /\ None \notin Logins
    /\ MaxChallenges \in Nat /\ MaxRecoveries \in Nat /\ MaxCrashes \in Nat

VARIABLES
    phase,       \* LoginAttempt.state.phase, "none" before it is begun
    task,        \* where the task of a login is
    challenge,   \* of a login: how often Apple has asked
    response,    \* the stored answer, or 0
    permit,      \* response_ready holds a permit
    revokes,     \* logins that may revoke a certificate
    requested,   \* certificate_recovery_requested
    sideloader,  \* the login that installed the Sideloader, or None
    signing,     \* the login a job signs with while it holds the lock, or None
    at,          \* where a submitting request is
    about,       \* the login it submits for
    answers,     \* the challenge it answers
    armed,       \* history: requests for a certificate recovery
    granted,     \* history: logins begun with one
    crashes

attemptVars == <<phase, task, challenge, response, permit>>
signerVars == <<sideloader, signing>>
submitVars == <<at, about, answers>>
recoveryVars == <<revokes, requested, armed, granted>>
loginVars == <<attemptVars, signerVars, submitVars, recoveryVars, crashes>>

InTime == {"contacting", "checks", "dozing", "asleep"}
Tasks == {"none", "failing", "session", "installs", "installed", "done"} \cup InTime

LoginTypeOK ==
    /\ phase \in [Logins -> {"none", "authenticating", "awaiting_2fa", "ready", "failed"}]
    /\ task \in [Logins -> Tasks]
    /\ challenge \in [Logins -> 0..MaxChallenges]
    /\ response \in [Logins -> 0..MaxChallenges]
    /\ permit \in [Logins -> {"yes", "no"}]
    /\ revokes \subseteq Logins /\ requested \in {"yes", "no"}
    /\ sideloader \in Logins \cup {None} /\ signing \in Logins \cup {None}
    /\ at \in [Clients -> {"idle", "stores", "notifies"}]
    /\ about \in [Clients -> Logins \cup {None}]
    /\ answers \in [Clients -> 0..MaxChallenges]
    /\ armed \in Nat /\ granted \in Nat /\ crashes \in Nat

LoginInit ==
    /\ phase = [l \in Logins |-> "none"] /\ task = [l \in Logins |-> "none"]
    /\ challenge = [l \in Logins |-> 0] /\ response = [l \in Logins |-> 0]
    /\ permit = [l \in Logins |-> "no"]
    /\ revokes = {} /\ requested = "no"
    /\ sideloader = None /\ signing = None
    /\ at = [c \in Clients |-> "idle"] /\ about = [c \in Clients |-> None]
    /\ answers = [c \in Clients |-> 0]
    /\ armed = 0 /\ granted = 0 /\ crashes = 0

-----------------------------------------------------------------------------
(* start_apple_login and request_certificate_recovery *)

\* The attempt and its task, whose first steps contact Apple.
Begun(l) ==
    /\ phase' = [phase EXCEPT ![l] = "authenticating"]
    /\ task' = [task EXCEPT ![l] = "contacting"]
    /\ UNCHANGED <<challenge, response, permit>>

\* swap(false)
TakesRecovery(l) ==
    /\ revokes' = IF requested = "yes" THEN revokes \cup {l} ELSE revokes
    /\ granted' = IF requested = "yes" THEN granted + 1 ELSE granted
    /\ requested' = "no"
    /\ UNCHANGED armed

BeginLogin(l) ==
    /\ phase[l] = "none"
    /\ Begun(l) /\ TakesRecovery(l)
    /\ UNCHANGED <<signerVars, submitVars, crashes>>

\* The client disconnects while the handler waits for the lock of the attempts:
\* the recovery is gone without a login.
BeginDropped ==
    /\ requested' = "no"
    /\ UNCHANGED <<attemptVars, signerVars, submitVars, revokes, armed, granted, crashes>>

RequestRecovery ==
    /\ armed < MaxRecoveries
    /\ requested' = "yes" /\ armed' = armed + 1
    /\ UNCHANGED <<attemptVars, signerVars, submitVars, revokes, granted, crashes>>

-----------------------------------------------------------------------------
(* The task of a login *)

TaskFrame == UNCHANGED <<submitVars, recoveryVars, crashes>>
Goes(l, from, to) == task[l] = from /\ task' = [task EXCEPT ![l] = to]

\* wait_for_two_factor: Apple asks, for the first time or again.
Challenge(l) ==
    /\ Goes(l, "contacting", "checks") /\ challenge[l] < MaxChallenges
    /\ challenge' = [challenge EXCEPT ![l] = challenge[l] + 1]
    /\ phase' = [phase EXCEPT ![l] = "awaiting_2fa"]
    /\ UNCHANGED <<response, permit, signerVars>> /\ TaskFrame

TakeResponse(l) ==
    /\ response[l] # 0 /\ Goes(l, "checks", "contacting")
    /\ response' = [response EXCEPT ![l] = 0]
    /\ UNCHANGED <<phase, challenge, permit, signerVars>> /\ TaskFrame

NoResponse(l) ==
    /\ response[l] = 0 /\ Goes(l, "checks", "dozing")
    /\ UNCHANGED <<phase, challenge, response, permit, signerVars>> /\ TaskFrame

\* notified().await takes a permit at once, or waits for one.
FallAsleep(l) ==
    /\ permit[l] = "no" /\ Goes(l, "dozing", "asleep")
    /\ UNCHANGED <<phase, challenge, response, permit, signerVars>> /\ TaskFrame

Wake(l) ==
    /\ permit[l] = "yes"
    /\ \E p \in {"dozing", "asleep"} : Goes(l, p, "checks")
    /\ permit' = [permit EXCEPT ![l] = "no"]
    /\ UNCHANGED <<phase, challenge, response, signerVars>> /\ TaskFrame

LoggedIn(l) ==
    /\ Goes(l, "contacting", "session")
    /\ UNCHANGED <<phase, challenge, response, permit, signerVars>> /\ TaskFrame

\* Anisette, Apple's answer or the developer session fails.
LoginFails(l) ==
    /\ \E p \in {"contacting", "session"} : Goes(l, p, "failing")
    /\ UNCHANGED <<phase, challenge, response, permit, signerVars>> /\ TaskFrame

\* Mutant: the time the user takes does not count.
TimesOutPaused(l) ==
    /\ Goes(l, "contacting", "failing")
    /\ UNCHANGED <<phase, challenge, response, permit, signerVars>> /\ TaskFrame

\* Five minutes, of which those the user takes are a part.
TimesOut(l) ==
    /\ \E p \in InTime : Goes(l, p, "failing")
    /\ UNCHANGED <<phase, challenge, response, permit, signerVars>> /\ TaskFrame

Failed(l) ==
    /\ Goes(l, "failing", "done")
    /\ phase' = [phase EXCEPT ![l] = "failed"]
    /\ UNCHANGED <<challenge, response, permit, signerVars>> /\ TaskFrame

\* Nothing bounds this one.
SessionCreated(l) ==
    /\ Goes(l, "session", "installs")
    /\ UNCHANGED <<phase, challenge, response, permit, signerVars>> /\ TaskFrame

\* Mutant: the Sideloader of a running job is replaced.
InstallSideloaderUnlocked(l) ==
    /\ Goes(l, "installs", "installed")
    /\ sideloader' = l
    /\ UNCHANGED <<phase, challenge, response, permit, signing>> /\ TaskFrame

\* A job that signs holds the lock.
InstallSideloader(l) ==
    /\ signing = None /\ Goes(l, "installs", "installed")
    /\ sideloader' = l
    /\ UNCHANGED <<phase, challenge, response, permit, signing>> /\ TaskFrame

Ready(l) ==
    /\ Goes(l, "installed", "done")
    /\ phase' = [phase EXCEPT ![l] = "ready"]
    /\ UNCHANGED <<challenge, response, permit, signerVars>> /\ TaskFrame

-----------------------------------------------------------------------------
(* LoginAttempt::submit, in a request *)

SubmitFrame == UNCHANGED <<task, challenge, signerVars, recoveryVars, crashes>>

\* Mutant: the challenge stays open until Apple has answered.
AcceptAnswerKeeps(c, l) ==
    /\ at[c] = "idle" /\ phase[l] = "awaiting_2fa"
    /\ at' = [at EXCEPT ![c] = "stores"]
    /\ about' = [about EXCEPT ![c] = l]
    /\ answers' = [answers EXCEPT ![c] = challenge[l]]
    /\ UNCHANGED <<phase, response, permit>> /\ SubmitFrame

\* Under the lock of the state: only a login that awaits an answer takes one,
\* and it awaits none any more.
AcceptAnswer(c, l) ==
    /\ at[c] = "idle" /\ phase[l] = "awaiting_2fa"
    /\ phase' = [phase EXCEPT ![l] = "authenticating"]
    /\ at' = [at EXCEPT ![c] = "stores"]
    /\ about' = [about EXCEPT ![c] = l]
    /\ answers' = [answers EXCEPT ![c] = challenge[l]]
    /\ UNCHANGED <<response, permit>> /\ SubmitFrame

StoreAnswer(c) ==
    /\ at[c] = "stores"
    /\ response' = [response EXCEPT ![about[c]] = answers[c]]
    /\ at' = [at EXCEPT ![c] = "notifies"]
    /\ UNCHANGED <<phase, permit, about, answers>> /\ SubmitFrame

\* Mutant: notify_waiters, which nobody hears who does not sleep yet.
NotifySleeper(c) ==
    /\ at[c] = "notifies"
    /\ permit' = [permit EXCEPT ![about[c]] = IF task[about[c]] = "asleep" THEN "yes" ELSE @]
    /\ at' = [at EXCEPT ![c] = "idle"]
    /\ about' = [about EXCEPT ![c] = None] /\ answers' = [answers EXCEPT ![c] = 0]
    /\ UNCHANGED <<phase, response>> /\ SubmitFrame

\* notify_one leaves a permit when nobody sleeps.
Notify(c) ==
    /\ at[c] = "notifies"
    /\ permit' = [permit EXCEPT ![about[c]] = "yes"]
    /\ at' = [at EXCEPT ![c] = "idle"]
    /\ about' = [about EXCEPT ![c] = None] /\ answers' = [answers EXCEPT ![c] = 0]
    /\ UNCHANGED <<phase, response>> /\ SubmitFrame

\* The client disconnects while the handler waits for the lock of the response.
SubmitDropped(c) ==
    /\ at[c] = "stores"
    /\ at' = [at EXCEPT ![c] = "idle"]
    /\ about' = [about EXCEPT ![c] = None] /\ answers' = [answers EXCEPT ![c] = 0]
    /\ UNCHANGED <<phase, response, permit>> /\ SubmitFrame

-----------------------------------------------------------------------------
(* Jobs that sign, and restarts *)

JobSigns ==
    /\ signing = None /\ sideloader # None
    /\ signing' = sideloader
    /\ UNCHANGED <<attemptVars, sideloader>> /\ TaskFrame

JobLetsGo ==
    /\ signing # None
    /\ signing' = None
    /\ UNCHANGED <<attemptVars, sideloader>> /\ TaskFrame

\* The process stops and starts again; restore_saved_login begins a login before
\* the first request is served, if credentials were saved.
Restart(l) ==
    /\ crashes < MaxCrashes /\ phase[l] = "none"
    /\ \E restored \in SUBSET {l} :
         /\ phase' = [m \in Logins |-> IF m \in restored THEN "authenticating" ELSE "none"]
         /\ task' = [m \in Logins |-> IF m \in restored THEN "contacting" ELSE "none"]
    /\ challenge' = [m \in Logins |-> 0] /\ response' = [m \in Logins |-> 0]
    /\ permit' = [m \in Logins |-> "no"]
    /\ revokes' = {} /\ requested' = "no" /\ armed' = 0 /\ granted' = 0
    /\ sideloader' = None /\ signing' = None
    /\ at' = [c \in Clients |-> "idle"] /\ about' = [c \in Clients |-> None]
    /\ answers' = [c \in Clients |-> 0]
    /\ crashes' = crashes + 1

TaskRuns(l) ==
    \/ TakeResponse(l) \/ NoResponse(l) \/ FallAsleep(l) \/ Wake(l)
    \/ Failed(l) \/ InstallSideloader(l) \/ Ready(l)

AppleActs(l) == Challenge(l) \/ LoggedIn(l) \/ LoginFails(l) \/ SessionCreated(l)

LoginNext ==
    \/ \E l \in Logins : \/ BeginLogin(l) \/ TaskRuns(l) \/ AppleActs(l) \/ TimesOut(l)
                         \/ Restart(l)
                         \/ \E c \in Clients : AcceptAnswer(c, l)
    \/ \E c \in Clients : StoreAnswer(c) \/ Notify(c) \/ SubmitDropped(c)
    \/ BeginDropped \/ RequestRecovery \/ JobSigns \/ JobLetsGo

LoginSpec == LoginInit /\ [][LoginNext]_loginVars

\* The runtime runs the tasks and their timer; Apple, users and jobs are free.
LoginFairSpec ==
    LoginSpec /\ \A l \in Logins : WF_loginVars(TaskRuns(l)) /\ WF_loginVars(TimesOut(l))

-----------------------------------------------------------------------------
(* Properties *)

\* A stored answer is one that was given for the challenge Apple has asked last
\* (submit leaves AwaitingTwoFactor under the lock that checks it, and the wait
\* ends only with the answer).
AnswerMeetsChallenge == \A l \in Logins : response[l] \in {0, challenge[l]}

\* No wake-up is lost: a task sleeps with an answer in store only while a permit
\* or the request that will leave one is there (submit and wait_for_two_factor).
NoLostWakeUp ==
    \A l \in Logins : task[l] = "asleep" /\ response[l] # 0
        => permit[l] = "yes" \/ \E c \in Clients : at[c] = "notifies" /\ about[c] = l

\* Who has read that the session is ready can sign (the Sideloader is installed
\* before ready, and none is ever taken away).
ReadyCanSign == (\E l \in Logins : phase[l] = "ready") => sideloader # None

\* A job signs to its end with the account it began with: a login that ends
\* meanwhile waits with its Sideloader.
OneAccountPerJob == signing # None => signing = sideloader

\* Whoever has seen a login succeed can sign, and what is signed is signed with
\* one account.
SideloaderServes == ReadyCanSign /\ OneAccountPerJob

\* A request for a certificate recovery gives at most one login the right to
\* revoke (begin_login swaps the flag).
OneRecoveryPerRequest == granted + (IF requested = "yes" THEN 1 ELSE 0) <= armed

\* A login that is ready or failed stays so until the process ends, whatever
\* answer comes late.
LoginOver(l) == phase[l] \in {"ready", "failed"}
LoginVerdictStays ==
    [][\A l \in Logins : LoginOver(l) /\ crashes' = crashes => phase'[l] = phase[l]]_loginVars

\* Contacting Apple ends, also when the user never answers.
SignInEnds == \A l \in Logins : task[l] \in InTime ~> task[l] \notin InTime
=============================================================================
