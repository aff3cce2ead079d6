----------------------------- MODULE LoginProofs -----------------------------
(***************************************************************************)
(* Proofs, for any number of logins and clients, that LoginInv holds in    *)
(* every reachable state of AppleLogin, and of the properties that follow  *)
(* from it.                                                                *)
(***************************************************************************)
EXTENDS LoginInvariant, TLAPS

\* No login was begun.
LEMMA LoginInitial == LoginInit => LoginInv
  <1> SUFFICES ASSUME LoginInit PROVE LoginInv
    OBVIOUS
  <1> USE LoginAssumption DEF LoginInit
  <1>1. LoginTypeOK
    BY DEF LoginTypeOK, Tasks
  <1>2. DeliveryInv /\ OpenInv /\ AnswerInv /\ WakeInv /\ LoginPhaseInv /\ SignerInv
    BY DEF DeliveryInv, OpenInv, AnswerInv, WakeInv, LoginPhaseInv, SignerInv
  <1>3. RecoveryInv
    BY DEF RecoveryInv, OneRecoveryPerRequest
  <1>4. QED
    BY <1>1, <1>2, <1>3 DEF LoginInv

\* A login is begun.
LEMMA RequestKeepsInv ==
    ASSUME NEW l \in Logins, LoginInv,
           BeginLogin(l)
    PROVE  LoginInv'
  <1> USE LoginAssumption
     DEF LoginInv, LoginTypeOK, Tasks, InTime, DeliveryInv, OpenInv, AnswerInv, WakeInv,
         LoginPhaseInv, SignerInv, RecoveryInv, OneRecoveryPerRequest, attemptVars,
         signerVars, submitVars, recoveryVars, TaskFrame, SubmitFrame, Goes
  <1>1. CASE BeginLogin(l)
    <2>1. LoginTypeOK'
      BY <1>1 DEF BeginLogin, Begun, TakesRecovery
    <2>2. DeliveryInv'
      BY <1>1 DEF BeginLogin, Begun, TakesRecovery
    <2>3. OpenInv' /\ AnswerInv'
      BY <1>1 DEF BeginLogin, Begun, TakesRecovery
    <2>4. WakeInv'
      BY <1>1 DEF BeginLogin, Begun, TakesRecovery
    <2>5. LoginPhaseInv'
      BY <1>1 DEF BeginLogin, Begun, TakesRecovery
    <2>6. SignerInv' /\ RecoveryInv'
      BY <1>1 DEF BeginLogin, Begun, TakesRecovery
    <2> QED
      BY <2>1, <2>2, <2>3, <2>4, <2>5, <2>6
  <1> QED
    BY <1>1

\* What other requests and jobs do.
LEMMA QuietKeepsInv ==
    ASSUME LoginInv,
           BeginDropped \/ RequestRecovery \/ JobSigns \/ JobLetsGo
    PROVE  LoginInv'
  <1> USE LoginAssumption
     DEF LoginInv, LoginTypeOK, Tasks, InTime, DeliveryInv, OpenInv, AnswerInv, WakeInv,
         LoginPhaseInv, SignerInv, RecoveryInv, OneRecoveryPerRequest, attemptVars,
         signerVars, submitVars, recoveryVars, TaskFrame, SubmitFrame, Goes
  <1>1. CASE BeginDropped
    <2>1. LoginTypeOK'
      BY <1>1 DEF BeginDropped
    <2>2. DeliveryInv'
      BY <1>1 DEF BeginDropped
    <2>3. OpenInv' /\ AnswerInv'
      BY <1>1 DEF BeginDropped
    <2>4. WakeInv'
      BY <1>1 DEF BeginDropped
    <2>5. LoginPhaseInv'
      BY <1>1 DEF BeginDropped
    <2>6. SignerInv' /\ RecoveryInv'
      BY <1>1 DEF BeginDropped
    <2> QED
      BY <2>1, <2>2, <2>3, <2>4, <2>5, <2>6
  <1>2. CASE RequestRecovery
    <2>1. LoginTypeOK'
      BY <1>2 DEF RequestRecovery
    <2>2. DeliveryInv'
      BY <1>2 DEF RequestRecovery
    <2>3. OpenInv' /\ AnswerInv'
      BY <1>2 DEF RequestRecovery
    <2>4. WakeInv'
      BY <1>2 DEF RequestRecovery
    <2>5. LoginPhaseInv'
      BY <1>2 DEF RequestRecovery
    <2>6. SignerInv' /\ RecoveryInv'
      BY <1>2 DEF RequestRecovery
    <2> QED
      BY <2>1, <2>2, <2>3, <2>4, <2>5, <2>6
  <1>3. CASE JobSigns
    <2>1. LoginTypeOK'
      BY <1>3 DEF JobSigns
    <2>2. DeliveryInv'
      BY <1>3 DEF JobSigns
    <2>3. OpenInv' /\ AnswerInv'
      BY <1>3 DEF JobSigns
    <2>4. WakeInv'
      BY <1>3 DEF JobSigns
    <2>5. LoginPhaseInv'
      BY <1>3 DEF JobSigns
    <2>6. SignerInv' /\ RecoveryInv'
      BY <1>3 DEF JobSigns
    <2> QED
      BY <2>1, <2>2, <2>3, <2>4, <2>5, <2>6
  <1>4. CASE JobLetsGo
    <2>1. LoginTypeOK'
      BY <1>4 DEF JobLetsGo
    <2>2. DeliveryInv'
      BY <1>4 DEF JobLetsGo
    <2>3. OpenInv' /\ AnswerInv'
      BY <1>4 DEF JobLetsGo
    <2>4. WakeInv'
      BY <1>4 DEF JobLetsGo
    <2>5. LoginPhaseInv'
      BY <1>4 DEF JobLetsGo
    <2>6. SignerInv' /\ RecoveryInv'
      BY <1>4 DEF JobLetsGo
    <2> QED
      BY <2>1, <2>2, <2>3, <2>4, <2>5, <2>6
  <1> QED
    BY <1>1, <1>2, <1>3, <1>4

\* What a task does by itself.
LEMMA TaskRunKeepsInv ==
    ASSUME NEW l \in Logins, LoginInv, TaskRuns(l)
    PROVE  LoginInv'
  <1> USE LoginAssumption
     DEF LoginInv, LoginTypeOK, Tasks, InTime, DeliveryInv, OpenInv, AnswerInv, WakeInv,
         LoginPhaseInv, SignerInv, RecoveryInv, OneRecoveryPerRequest, attemptVars,
         signerVars, submitVars, recoveryVars, TaskFrame, SubmitFrame, Goes
  <1>1. CASE TakeResponse(l)
    <2>1. LoginTypeOK'
      BY <1>1 DEF TakeResponse
    <2>2. DeliveryInv'
      BY <1>1 DEF TakeResponse
    <2>3. OpenInv' /\ AnswerInv'
      BY <1>1 DEF TakeResponse
    <2>4. WakeInv'
      BY <1>1 DEF TakeResponse
    <2>5. LoginPhaseInv'
      BY <1>1 DEF TakeResponse
    <2>6. SignerInv' /\ RecoveryInv'
      BY <1>1 DEF TakeResponse
    <2> QED
      BY <2>1, <2>2, <2>3, <2>4, <2>5, <2>6
  <1>2. CASE NoResponse(l)
    <2>1. LoginTypeOK'
      BY <1>2 DEF NoResponse
    <2>2. DeliveryInv'
      BY <1>2 DEF NoResponse
    <2>3. OpenInv' /\ AnswerInv'
      BY <1>2 DEF NoResponse
    <2>4. WakeInv'
      BY <1>2 DEF NoResponse
    <2>5. LoginPhaseInv'
      BY <1>2 DEF NoResponse
    <2>6. SignerInv' /\ RecoveryInv'
      BY <1>2 DEF NoResponse
    <2> QED
      BY <2>1, <2>2, <2>3, <2>4, <2>5, <2>6
  <1>3. CASE FallAsleep(l)
    <2>1. LoginTypeOK'
      BY <1>3 DEF FallAsleep
    <2>2. DeliveryInv'
      BY <1>3 DEF FallAsleep
    <2>3. OpenInv' /\ AnswerInv'
      BY <1>3 DEF FallAsleep
    <2>4. WakeInv'
      BY <1>3 DEF FallAsleep
    <2>5. LoginPhaseInv'
      BY <1>3 DEF FallAsleep
    <2>6. SignerInv' /\ RecoveryInv'
      BY <1>3 DEF FallAsleep
    <2> QED
      BY <2>1, <2>2, <2>3, <2>4, <2>5, <2>6
  <1>4. CASE Wake(l)
    <2>1. LoginTypeOK'
      BY <1>4 DEF Wake
    <2>2. DeliveryInv'
      BY <1>4 DEF Wake
    <2>3. OpenInv' /\ AnswerInv'
      BY <1>4 DEF Wake
    <2>4. WakeInv'
      BY <1>4 DEF Wake
    <2>5. LoginPhaseInv'
      BY <1>4 DEF Wake
    <2>6. SignerInv' /\ RecoveryInv'
      BY <1>4 DEF Wake
    <2> QED
      BY <2>1, <2>2, <2>3, <2>4, <2>5, <2>6
  <1>5. CASE Failed(l)
    <2>1. LoginTypeOK'
      BY <1>5 DEF Failed
    <2>2. DeliveryInv'
      BY <1>5 DEF Failed
    <2>3. OpenInv' /\ AnswerInv'
      BY <1>5 DEF Failed
    <2>4. WakeInv'
      BY <1>5 DEF Failed
    <2>5. LoginPhaseInv'
      BY <1>5 DEF Failed
    <2>6. SignerInv' /\ RecoveryInv'
      BY <1>5 DEF Failed
    <2> QED
      BY <2>1, <2>2, <2>3, <2>4, <2>5, <2>6
  <1>6. CASE InstallSideloader(l)
    <2>1. LoginTypeOK'
      BY <1>6 DEF InstallSideloader
    <2>2. DeliveryInv'
      BY <1>6 DEF InstallSideloader
    <2>3. OpenInv' /\ AnswerInv'
      BY <1>6 DEF InstallSideloader
    <2>4. WakeInv'
      BY <1>6 DEF InstallSideloader
    <2>5. LoginPhaseInv'
      BY <1>6 DEF InstallSideloader
    <2>6. SignerInv' /\ RecoveryInv'
      BY <1>6 DEF InstallSideloader
    <2> QED
      BY <2>1, <2>2, <2>3, <2>4, <2>5, <2>6
  <1>7. CASE Ready(l)
    <2>1. LoginTypeOK'
      BY <1>7 DEF Ready
    <2>2. DeliveryInv'
      BY <1>7 DEF Ready
    <2>3. OpenInv' /\ AnswerInv'
      BY <1>7 DEF Ready
    <2>4. WakeInv'
      BY <1>7 DEF Ready
    <2>5. LoginPhaseInv'
      BY <1>7 DEF Ready
    <2>6. SignerInv' /\ RecoveryInv'
      BY <1>7 DEF Ready
    <2> QED
      BY <2>1, <2>2, <2>3, <2>4, <2>5, <2>6
  <1> QED
    BY <1>1, <1>2, <1>3, <1>4, <1>5, <1>6, <1>7 DEF TaskRuns

\* What Apple answers, and the timer.
LEMMA AppleKeepsInv ==
    ASSUME NEW l \in Logins, LoginInv, AppleActs(l) \/ TimesOut(l)
    PROVE  LoginInv'
  <1> USE LoginAssumption
     DEF LoginInv, LoginTypeOK, Tasks, InTime, DeliveryInv, OpenInv, AnswerInv, WakeInv,
         LoginPhaseInv, SignerInv, RecoveryInv, OneRecoveryPerRequest, attemptVars,
         signerVars, submitVars, recoveryVars, TaskFrame, SubmitFrame, Goes
  <1>1. CASE Challenge(l)
    <2>1. LoginTypeOK'
      BY <1>1 DEF Challenge
    <2>2. DeliveryInv'
      BY <1>1 DEF Challenge
    <2>3. OpenInv' /\ AnswerInv'
      BY <1>1 DEF Challenge
    <2>4. WakeInv'
      BY <1>1 DEF Challenge
    <2>5. LoginPhaseInv'
      BY <1>1 DEF Challenge
    <2>6. SignerInv' /\ RecoveryInv'
      BY <1>1 DEF Challenge
    <2> QED
      BY <2>1, <2>2, <2>3, <2>4, <2>5, <2>6
  <1>2. CASE LoggedIn(l)
    <2>1. LoginTypeOK'
      BY <1>2 DEF LoggedIn
    <2>2. DeliveryInv'
      BY <1>2 DEF LoggedIn
    <2>3. OpenInv' /\ AnswerInv'
      BY <1>2 DEF LoggedIn
    <2>4. WakeInv'
      BY <1>2 DEF LoggedIn
    <2>5. LoginPhaseInv'
      BY <1>2 DEF LoggedIn
    <2>6. SignerInv' /\ RecoveryInv'
      BY <1>2 DEF LoggedIn
    <2> QED
      BY <2>1, <2>2, <2>3, <2>4, <2>5, <2>6
  <1>3. CASE LoginFails(l)
    <2>1. LoginTypeOK'
      BY <1>3 DEF LoginFails
    <2>2. DeliveryInv'
      BY <1>3 DEF LoginFails
    <2>3. OpenInv' /\ AnswerInv'
      BY <1>3 DEF LoginFails
    <2>4. WakeInv'
      BY <1>3 DEF LoginFails
    <2>5. LoginPhaseInv'
      BY <1>3 DEF LoginFails
    <2>6. SignerInv' /\ RecoveryInv'
      BY <1>3 DEF LoginFails
    <2> QED
      BY <2>1, <2>2, <2>3, <2>4, <2>5, <2>6
  <1>4. CASE SessionCreated(l)
    <2>1. LoginTypeOK'
      BY <1>4 DEF SessionCreated
    <2>2. DeliveryInv'
      BY <1>4 DEF SessionCreated
    <2>3. OpenInv' /\ AnswerInv'
      BY <1>4 DEF SessionCreated
    <2>4. WakeInv'
      BY <1>4 DEF SessionCreated
    <2>5. LoginPhaseInv'
      BY <1>4 DEF SessionCreated
    <2>6. SignerInv' /\ RecoveryInv'
      BY <1>4 DEF SessionCreated
    <2> QED
      BY <2>1, <2>2, <2>3, <2>4, <2>5, <2>6
  <1>5. CASE TimesOut(l)
    <2>1. LoginTypeOK'
      BY <1>5 DEF TimesOut
    <2>2. DeliveryInv'
      BY <1>5 DEF TimesOut
    <2>3. OpenInv' /\ AnswerInv'
      BY <1>5 DEF TimesOut
    <2>4. WakeInv'
      BY <1>5 DEF TimesOut
    <2>5. LoginPhaseInv'
      BY <1>5 DEF TimesOut
    <2>6. SignerInv' /\ RecoveryInv'
      BY <1>5 DEF TimesOut
    <2> QED
      BY <2>1, <2>2, <2>3, <2>4, <2>5, <2>6
  <1> QED
    BY <1>1, <1>2, <1>3, <1>4, <1>5 DEF AppleActs

\* An answer on its way.
LEMMA SubmitKeepsInv ==
    ASSUME NEW l \in Logins, NEW c \in Clients, LoginInv,
           AcceptAnswer(c, l) \/ StoreAnswer(c) \/ Notify(c) \/ SubmitDropped(c)
    PROVE  LoginInv'
  <1> USE LoginAssumption
     DEF LoginInv, LoginTypeOK, Tasks, InTime, DeliveryInv, OpenInv, AnswerInv, WakeInv,
         LoginPhaseInv, SignerInv, RecoveryInv, OneRecoveryPerRequest, attemptVars,
         signerVars, submitVars, recoveryVars, TaskFrame, SubmitFrame, Goes
  <1>1. CASE AcceptAnswer(c, l)
    <2>1. LoginTypeOK'
      BY <1>1 DEF AcceptAnswer
    <2>2. DeliveryInv'
      BY <1>1 DEF AcceptAnswer
    <2>3. OpenInv' /\ AnswerInv'
      BY <1>1 DEF AcceptAnswer
    <2>4. WakeInv'
      BY <1>1 DEF AcceptAnswer
    <2>5. LoginPhaseInv'
      BY <1>1 DEF AcceptAnswer
    <2>6. SignerInv' /\ RecoveryInv'
      BY <1>1 DEF AcceptAnswer
    <2> QED
      BY <2>1, <2>2, <2>3, <2>4, <2>5, <2>6
  <1>2. CASE StoreAnswer(c)
    <2>1. LoginTypeOK'
      BY <1>2 DEF StoreAnswer
    <2>2. DeliveryInv'
      BY <1>2 DEF StoreAnswer
    <2>3. OpenInv' /\ AnswerInv'
      BY <1>2 DEF StoreAnswer
    <2>4. WakeInv'
      BY <1>2 DEF StoreAnswer
    <2>5. LoginPhaseInv'
      BY <1>2 DEF StoreAnswer
    <2>6. SignerInv' /\ RecoveryInv'
      BY <1>2 DEF StoreAnswer
    <2> QED
      BY <2>1, <2>2, <2>3, <2>4, <2>5, <2>6
  <1>3. CASE Notify(c)
    <2>1. LoginTypeOK'
      BY <1>3 DEF Notify
    <2>2. DeliveryInv'
      BY <1>3 DEF Notify
    <2>3. OpenInv' /\ AnswerInv'
      BY <1>3 DEF Notify
    <2>4. WakeInv'
      BY <1>3 DEF Notify
    <2>5. LoginPhaseInv'
      BY <1>3 DEF Notify
    <2>6. SignerInv' /\ RecoveryInv'
      BY <1>3 DEF Notify
    <2> QED
      BY <2>1, <2>2, <2>3, <2>4, <2>5, <2>6
  <1>4. CASE SubmitDropped(c)
    <2>1. LoginTypeOK'
      BY <1>4 DEF SubmitDropped
    <2>2. DeliveryInv'
      BY <1>4 DEF SubmitDropped
    <2>3. OpenInv' /\ AnswerInv'
      BY <1>4 DEF SubmitDropped
    <2>4. WakeInv'
      BY <1>4 DEF SubmitDropped
    <2>5. LoginPhaseInv'
      BY <1>4 DEF SubmitDropped
    <2>6. SignerInv' /\ RecoveryInv'
      BY <1>4 DEF SubmitDropped
    <2> QED
      BY <2>1, <2>2, <2>3, <2>4, <2>5, <2>6
  <1> QED
    BY <1>1, <1>2, <1>3, <1>4

\* A restart leaves at most one login, just begun.
LEMMA LoginRestartKeepsInv ==
    ASSUME NEW l \in Logins, LoginInv, Restart(l)
    PROVE  LoginInv'
  <1> USE LoginAssumption
     DEF LoginInv, LoginTypeOK, Tasks, InTime, DeliveryInv, OpenInv, AnswerInv, WakeInv,
         LoginPhaseInv, SignerInv, RecoveryInv, OneRecoveryPerRequest, attemptVars,
         signerVars, submitVars, recoveryVars, TaskFrame, SubmitFrame, Goes
  <1>1. PICK restored \in SUBSET {l} :
          /\ phase' = [m \in Logins |-> IF m \in restored THEN "authenticating" ELSE "none"]
          /\ task' = [m \in Logins |-> IF m \in restored THEN "contacting" ELSE "none"]
    BY DEF Restart
  <1>2. LoginTypeOK'
    BY <1>1 DEF Restart
  <1>3. DeliveryInv'
    BY <1>1 DEF Restart
  <1>4. OpenInv' /\ AnswerInv'
    BY <1>1 DEF Restart
  <1>5. WakeInv'
    BY <1>1 DEF Restart
  <1>6. LoginPhaseInv'
    BY <1>1 DEF Restart
  <1>7. SignerInv' /\ RecoveryInv'
    BY <1>1 DEF Restart
  <1> QED
    BY <1>2, <1>3, <1>4, <1>5, <1>6, <1>7

\* LoginInv is inductive.
LEMMA LoginStep == LoginInv /\ [LoginNext]_loginVars => LoginInv'
  <1> SUFFICES ASSUME LoginInv, [LoginNext]_loginVars PROVE LoginInv'
    OBVIOUS
  <1>1. CASE UNCHANGED loginVars
    <2> USE LoginAssumption
       DEF LoginInv, LoginTypeOK, Tasks, InTime, DeliveryInv, OpenInv, AnswerInv, WakeInv,
           LoginPhaseInv, SignerInv, RecoveryInv, OneRecoveryPerRequest, attemptVars,
           signerVars, submitVars, recoveryVars, TaskFrame, SubmitFrame, Goes
    <2>1. LoginTypeOK'
      BY <1>1 DEF loginVars
    <2>2. DeliveryInv'
      BY <1>1 DEF loginVars
    <2>3. OpenInv' /\ AnswerInv'
      BY <1>1 DEF loginVars
    <2>4. WakeInv'
      BY <1>1 DEF loginVars
    <2>5. LoginPhaseInv'
      BY <1>1 DEF loginVars
    <2>6. SignerInv' /\ RecoveryInv'
      BY <1>1 DEF loginVars
    <2> QED
      BY <2>1, <2>2, <2>3, <2>4, <2>5, <2>6
  <1>2. ASSUME NEW l \in Logins,
               \/ BeginLogin(l) \/ TaskRuns(l) \/ AppleActs(l) \/ TimesOut(l) \/ Restart(l)
               \/ \E c \in Clients : AcceptAnswer(c, l)
        PROVE  LoginInv'
    BY <1>2, RequestKeepsInv, TaskRunKeepsInv, AppleKeepsInv, LoginRestartKeepsInv,
       SubmitKeepsInv
  <1>3. ASSUME NEW c \in Clients, StoreAnswer(c) \/ Notify(c) \/ SubmitDropped(c)
        PROVE  LoginInv'
    <2>1. about[c] \in Logins
      BY <1>3 DEF LoginInv, DeliveryInv, StoreAnswer, Notify, SubmitDropped
    <2> QED
      BY <1>3, <2>1, SubmitKeepsInv
  <1>4. CASE BeginDropped \/ RequestRecovery \/ JobSigns \/ JobLetsGo
    BY <1>4, QuietKeepsInv
  <1> QED
    BY <1>1, <1>2, <1>3, <1>4 DEF LoginNext

\* Every reachable state keeps the invariant.
THEOREM LoginInvariance == LoginSpec => []LoginInv
  <1>1. QED
    BY LoginInitial, LoginStep, PTL DEF LoginSpec

\* An answer in store was given for the last challenge: two requests never
\* answer the same one, and Apple asks again only when the answer is taken.
THEOREM AnswersMeetChallenges == LoginSpec => []AnswerMeetsChallenge
  <1>1. LoginInv => AnswerMeetsChallenge
    BY DEF LoginInv, AnswerInv, AnswerMeetsChallenge
  <1>2. QED
    BY <1>1, LoginInvariance, PTL

\* No task sleeps on an answer that nobody will wake it for.
THEOREM WakeUpsAreKept == LoginSpec => []NoLostWakeUp
  <1>1. LoginInv => NoLostWakeUp
    BY DEF LoginInv, WakeInv, NoLostWakeUp
  <1>2. QED
    BY <1>1, LoginInvariance, PTL

\* Once a login is reported ready there is a Sideloader, and a job signs with
\* the one it began with.
THEOREM ReadyLoginsSign == LoginSpec => []SideloaderServes
  <1>1. LoginInv => SideloaderServes
    BY DEF LoginInv, LoginPhaseInv, SignerInv, SideloaderServes, ReadyCanSign, OneAccountPerJob
  <1>2. QED
    BY <1>1, LoginInvariance, PTL

\* A request for a recovery is granted at most once.
THEOREM RecoveriesAreGrantedOnce == LoginSpec => []OneRecoveryPerRequest
  <1>1. LoginInv => OneRecoveryPerRequest
    BY DEF LoginInv, RecoveryInv
  <1>2. QED
    BY <1>1, LoginInvariance, PTL

\* Neither an answer that comes late nor the timer changes a verdict.
THEOREM LoginVerdictsStay == LoginSpec => LoginVerdictStays
  <1> DEFINE Stays == \A l \in Logins :
               LoginOver(l) /\ crashes' = crashes => phase'[l] = phase[l]
  <1>1. ASSUME LoginInv, LoginNext PROVE Stays
    <2> USE <1>1 DEF LoginInv, LoginTypeOK, LoginPhaseInv, LoginOver, Goes
    <2>1. ASSUME NEW l \in Logins, BeginLogin(l) PROVE Stays
      BY <2>1 DEF BeginLogin, Begun
    <2>2. ASSUME NEW l \in Logins, TaskRuns(l) PROVE Stays
      BY <2>2 DEF TaskRuns, TakeResponse, NoResponse, FallAsleep, Wake, Failed,
                  InstallSideloader, Ready
    <2>3. ASSUME NEW l \in Logins, AppleActs(l) \/ TimesOut(l) PROVE Stays
      BY <2>3 DEF AppleActs, Challenge, LoggedIn, LoginFails, SessionCreated, TimesOut
    <2>4. ASSUME NEW l \in Logins, Restart(l) PROVE Stays
      BY <2>4 DEF Restart
    <2>5. ASSUME NEW l \in Logins, NEW c \in Clients, AcceptAnswer(c, l) PROVE Stays
      BY <2>5 DEF AcceptAnswer
    <2>6. ASSUME NEW c \in Clients, StoreAnswer(c) \/ Notify(c) \/ SubmitDropped(c)
          PROVE  Stays
      BY <2>6 DEF StoreAnswer, Notify, SubmitDropped
    <2>7. CASE BeginDropped \/ RequestRecovery \/ JobSigns \/ JobLetsGo
      BY <2>7 DEF BeginDropped, RequestRecovery, JobSigns, JobLetsGo, attemptVars
    <2> QED
      BY <2>1, <2>2, <2>3, <2>4, <2>5, <2>6, <2>7 DEF LoginNext
  <1>2. LoginInv /\ [LoginNext]_loginVars => [Stays]_loginVars
    BY <1>1
  <1>3. QED
    BY <1>2, LoginInvariance, PTL DEF LoginSpec, LoginVerdictStays, LoginOver
=============================================================================
