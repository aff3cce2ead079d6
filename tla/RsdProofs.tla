------------------------------ MODULE RsdProofs ------------------------------
(***************************************************************************)
(* Proofs, for all deadlines and all sizes of an upload, that RsdInv holds *)
(* in every reachable state of RsdInstall, of the properties that follow   *)
(* from it, and that RsdInstall implements InstallPromise.                 *)
(***************************************************************************)
EXTENDS RsdInvariant, TLAPS

\* The deadlines of the call are times, and the reserves are between them.
LEMMA Deadlines ==
    /\ WorkDeadline \in Nat /\ InstallDeadline \in Nat
    /\ WorkDeadline + CleanupTimeout + CloseTimeout = OverallTimeout
    /\ InstallDeadline + VerificationTimeout = WorkDeadline
    /\ OverallTimeout \in Nat /\ RequestTimeout \in Nat /\ VerificationTimeout \in Nat
    /\ CleanupTimeout \in Nat /\ CloseTimeout \in Nat
  BY TimeAssumption DEF WorkDeadline, InstallDeadline

-----------------------------------------------------------------------------
(* The invariant *)

\* The first wait ends at the work deadline, and nothing has happened yet.
LEMMA RsdInitial == RsdInit => RsdInv
  <1> SUFFICES ASSUME RsdInit PROVE RsdInv
    OBVIOUS
  <1> USE DEF RsdInit, UploadPcs, BeforeUpload, BeforeCommand, Planned, Decided
  <1>1. RsdTypeOK
    BY Deadlines DEF RsdTypeOK, Pcs, Cleanups, Errors, Outcomes
  <1>2. TimeInv
    BY Deadlines DEF TimeInv
  <1>3. ReportInv /\ TunnelInv /\ StagingInv /\ CommandInv
    BY DEF ReportInv, TunnelInv, StagingInv, CommandInv
  <1>4. AfcInv
    <2>1. ~(sent >= RootRequest)
      BY DEF RootRequest
    <2>2. QED
      BY <2>1 DEF AfcInv
  <1>5. QED
    BY <1>1, <1>2, <1>3, <1>4 DEF RsdInv

\* A request makes the call wait for one reply more, and root_created is set
\* with the request that creates the root.
LEMMA SendRequestKeepsInv ==
    ASSUME NEW from, NEW to, RsdInv, SendRequest(from, to),
           \/ from = "upload" /\ to = "request"
           \/ from = "file_close" /\ to = "file_closing" /\ ~timedOut
    PROVE  RsdInv'
  <1> USE DEF RsdInv, SendRequest, Move, UploadPcs, BeforeUpload, BeforeCommand, Planned,
     Decided
  <1>1. RsdTypeOK'
    BY Deadlines DEF RsdTypeOK, Pcs, Cleanups, Errors, Outcomes, reportVars, artifactVars,
           deviceVars, Earlier, RootRequest
  <1>2. TimeInv'
    BY Deadlines DEF RsdTypeOK, TimeInv, Earlier
  <1>3. ReportInv' /\ TunnelInv'
    BY DEF ReportInv, TunnelInv, reportVars, deviceVars
  <1>4. AfcInv'
    <2>1. sent + 1 >= RootRequest <=> sent' >= RootRequest
      BY DEF RsdTypeOK
    <2>2. sent >= RootRequest => sent + 1 >= RootRequest
      BY DEF RsdTypeOK, RootRequest
    <2>3. rootCreated' <=> sent' >= RootRequest
      BY <2>1, <2>2, Zenon DEF AfcInv
    <2>4. QED
      BY <2>3 DEF AfcInv, RsdTypeOK
  <1>5. StagingInv' /\ CommandInv'
    BY DEF StagingInv, CommandInv, reportVars, deviceVars
  <1>6. QED
    BY <1>1, <1>2, <1>3, <1>4, <1>5

\* Steps for which the call waits for nobody.
LEMMA LocalStepKeepsInv == RsdInv /\ LocalStep => RsdInv'
  <1> SUFFICES ASSUME RsdInv, LocalStep PROVE RsdInv'
    OBVIOUS
  <1>1. CASE NextRequest
    BY <1>1, SendRequestKeepsInv DEF NextRequest
  <1>3. CASE CloseFile
    BY <1>3, SendRequestKeepsInv DEF CloseFile
  <1> USE Deadlines DEF RsdInv, RsdTypeOK, TimeInv, ReportInv, TunnelInv, AfcInv,
     StagingInv,
          CommandInv, Pcs, Cleanups, Errors, Outcomes, UploadPcs, BeforeUpload,
             BeforeCommand,
          Planned, Decided, RootRequest, Move, Decide, Return, NotStarted, ToClean, InTime,
          Expired, Earlier, reportVars, artifactVars, uploadVars, deviceVars
  <1>2. CASE Uploaded
    BY <1>2 DEF Uploaded
  <1>4. CASE CheckWindow
    BY <1>4 DEF CheckWindow
  <1>5. CASE SendCommand
    BY <1>5 DEF SendCommand
  <1> QED
    BY <1>1, <1>2, <1>3, <1>4, <1>5 DEF LocalStep

\* What the waits end with when their deadline passes.
LEMMA TimeoutStepKeepsInv == RsdInv /\ TimeoutStep => RsdInv'
  <1> SUFFICES ASSUME RsdInv, TimeoutStep PROVE RsdInv'
    OBVIOUS
  <1> USE Deadlines DEF RsdInv, RsdTypeOK, TimeInv, ReportInv, TunnelInv, AfcInv,
     StagingInv,
          CommandInv, Pcs, Cleanups, Errors, Outcomes, UploadPcs, BeforeUpload,
             BeforeCommand,
          Planned, Decided, RootRequest, Move, Decide, Return, NotStarted, ToClean, InTime,
          Expired, Earlier, reportVars, artifactVars, uploadVars, deviceVars
  <1>1. CASE OpenFails
    BY <1>1 DEF OpenFails, MergeCleanup
  <1>2. CASE IdentityFails
    BY <1>2 DEF IdentityFails
  <1>3. CASE CloseInitial
    BY <1>3 DEF CloseInitial, CloseSession, RecordSession, MergeCleanup
  <1>4. CASE CloseInitialFails
    BY <1>4 DEF CloseInitialFails, RecordSession, MergeCleanup
  <1>5. CASE CloseFinal
    BY <1>5 DEF CloseFinal, CloseSession, RecordSession, MergeCleanup
  <1>6. CASE SignTimesOut
    BY <1>6 DEF SignTimesOut
  <1>7. CASE PrecheckFails
    BY <1>7 DEF PrecheckFails
  <1>8. CASE PlanTimesOut
    BY <1>8 DEF PlanTimesOut
  <1>9. CASE AfcFails
    BY <1>9 DEF AfcFails
  <1>10. CASE RequestTimesOut
    BY <1>10 DEF RequestTimesOut, RequestEnds
  <1>11. CASE UploadTimesOut
    BY <1>11 DEF UploadTimesOut
  <1>12. CASE CloseFileEnds
    BY <1>12 DEF CloseFileEnds, ReadReply
  <1>13. CASE ProxyFails
    BY <1>13 DEF ProxyFails
  <1>14. CASE CommandUnanswered
    BY <1>14 DEF CommandUnanswered, Answer
  <1>15. CASE LookUpFails
    BY <1>15 DEF LookUpFails, Verified, Outcome
  <1>16. CASE CleanFails
    BY <1>16 DEF CleanFails, ReportCleanup
  <1> QED
    BY <1>1, <1>2, <1>3, <1>4, <1>5, <1>6, <1>7, <1>8, <1>9, <1>10, <1>11, <1>12, <1>13,
       <1>14, <1>15, <1>16 DEF TimeoutStep

\* What the device, the network or another thread answers.
LEMMA AnswerStepKeepsInv == RsdInv /\ AnswerStep => RsdInv'
  <1> SUFFICES ASSUME RsdInv, AnswerStep PROVE RsdInv'
    OBVIOUS
  <1> USE Deadlines DEF RsdInv, RsdTypeOK, TimeInv, ReportInv, TunnelInv, AfcInv,
     StagingInv,
          CommandInv, Pcs, Cleanups, Errors, Outcomes, UploadPcs, BeforeUpload,
             BeforeCommand,
          Planned, Decided, RootRequest, Move, Decide, Return, NotStarted, ToClean, InTime,
          Expired, Earlier, reportVars, artifactVars, uploadVars, deviceVars
  <1>1. CASE OpenSession
    BY <1>1 DEF OpenSession
  <1>2. CASE IdentityRead
    BY <1>2 DEF IdentityRead
  <1>3. CASE Sign
    BY <1>3 DEF Sign
  <1>4. CASE SignFails
    BY <1>4 DEF SignFails
  <1>5. CASE Precheck
    BY <1>5 DEF Precheck
  <1>6. CASE Plan
    BY <1>6 DEF Plan
  <1>7. CASE PlanFails
    BY <1>7 DEF PlanFails
  <1>8. CASE OpenAfc
    BY <1>8 DEF OpenAfc
  <1>9. CASE RequestSucceeds
    BY <1>9 DEF RequestSucceeds, ReadReply
  <1>10. CASE RequestRefused
    BY <1>10 DEF RequestRefused, RequestEnds, ReadReply
  <1>11. CASE UploadFails
    BY <1>11 DEF UploadFails
  <1>12. CASE SourceChanged
    BY <1>12 DEF SourceChanged
  <1>13. CASE OpenProxy
    BY <1>13 DEF OpenProxy
  <1>14. CASE CommandAnswered
    BY <1>14 DEF CommandAnswered, Answer
  <1>15. CASE LookUp
    BY <1>15 DEF LookUp, Verified, Outcome
  <1>16. CASE Clean
    BY <1>16 DEF Clean, ReportCleanup
  <1> QED
    BY <1>1, <1>2, <1>3, <1>4, <1>5, <1>6, <1>7, <1>8, <1>9, <1>10, <1>11, <1>12, <1>13,
       <1>14, <1>15, <1>16 DEF AnswerStep

\* The threads the call has stopped waiting for.
LEMMA BackgroundStepKeepsInv == RsdInv /\ BackgroundStep => RsdInv'
  <1> SUFFICES ASSUME RsdInv, BackgroundStep PROVE RsdInv'
    OBVIOUS
  <1> USE Deadlines DEF RsdInv, RsdTypeOK, TimeInv, ReportInv, TunnelInv, AfcInv,
     StagingInv,
          CommandInv, Pcs, Cleanups, Errors, Outcomes, UploadPcs, BeforeUpload,
             BeforeCommand,
          Planned, Decided, RootRequest, Move, Decide, Return, NotStarted, ToClean, InTime,
          Expired, Earlier, reportVars, artifactVars, uploadVars, deviceVars
  <1>1. CASE LateSign
    BY <1>1 DEF LateSign
  <1>2. CASE DropArtifact
    BY <1>2 DEF DropArtifact
  <1> QED
    BY <1>1, <1>2 DEF BackgroundStep

\* The device and its user.
LEMMA DeviceStepKeepsInv == RsdInv /\ DeviceStep => RsdInv'
  <1> SUFFICES ASSUME RsdInv, DeviceStep PROVE RsdInv'
    OBVIOUS
  <1> USE Deadlines DEF RsdInv, RsdTypeOK, TimeInv, ReportInv, TunnelInv, AfcInv,
     StagingInv,
          CommandInv, Pcs, Cleanups, Errors, Outcomes, UploadPcs, BeforeUpload,
             BeforeCommand,
          Planned, Decided, RootRequest, Move, Decide, Return, NotStarted, ToClean, InTime,
          Expired, Earlier, reportVars, artifactVars, uploadVars, deviceVars
  <1>1. CASE AfcServes
    BY <1>1 DEF AfcServes
  <1>2. CASE Installs
    BY <1>2 DEF Installs
  <1>3. CASE Rejects
    BY <1>3 DEF Rejects
  <1>4. CASE UserRemoves
    BY <1>4 DEF UserRemoves
  <1> QED
    BY <1>1, <1>2, <1>3, <1>4 DEF DeviceStep

\* Time does not pass the deadline of a wait.
LEMMA TickKeepsInv == RsdInv /\ Tick => RsdInv'
  <1> SUFFICES ASSUME RsdInv, Tick PROVE RsdInv'
    OBVIOUS
  <1> USE Deadlines DEF RsdInv, RsdTypeOK, TimeInv, ReportInv, TunnelInv, AfcInv,
     StagingInv,
          CommandInv, Pcs, Cleanups, Errors, Outcomes, UploadPcs, BeforeUpload,
             BeforeCommand,
          Planned, Decided, RootRequest, Move, Decide, Return, NotStarted, ToClean, InTime,
          Expired, Earlier, reportVars, artifactVars, uploadVars, deviceVars
  <1> QED
    BY DEF Tick

\* RsdInv, in every reachable state: what a place of the call implies for its
\* deadline, its report, the connection, the device and the command.
THEOREM RsdInvariance == RsdSpec => []RsdInv
  <1>1. RsdInv /\ [RsdNext]_rsdVars => RsdInv'
    <2> SUFFICES ASSUME RsdInv, [RsdNext]_rsdVars PROVE RsdInv'
      OBVIOUS
    <2>1. CASE RsdNext
      BY <2>1, LocalStepKeepsInv, TimeoutStepKeepsInv, AnswerStepKeepsInv,
         BackgroundStepKeepsInv,
         DeviceStepKeepsInv, TickKeepsInv DEF RsdNext
    <2>2. CASE UNCHANGED rsdVars
      BY <2>2 DEF rsdVars, reportVars, artifactVars, uploadVars, deviceVars, RsdInv,
         RsdTypeOK,
             TimeInv, ReportInv, TunnelInv, AfcInv, StagingInv, CommandInv
    <2>3. QED
      BY <2>1, <2>2
  <1>2. QED
    BY <1>1, RsdInitial, PTL DEF RsdSpec

-----------------------------------------------------------------------------
(* What follows from it *)

\* The call keeps within its budget, and no command is under way without the
\* full time for its verification.
THEOREM RsdEndsInTime == RsdSpec => []EndsInTime
  <1>1. RsdInv => EndsInTime
    BY Deadlines DEF RsdInv, RsdTypeOK, TimeInv, EndsInTime
  <1>2. QED
    BY <1>1, RsdInvariance, PTL

\* A report without an error kind is a clean one.
THEOREM RsdCleanReport == RsdSpec => []CleanReport
  <1>1. RsdInv => CleanReport
    BY DEF RsdInv, RsdTypeOK, ReportInv, TunnelInv, StagingInv, CleanReport, Decided
  <1>2. QED
    BY <1>1, RsdInvariance, PTL

\* What is left on the device is reported.
THEOREM RsdLeftoversReported == RsdSpec => []LeftoversReported
  <1>1. RsdInv => LeftoversReported
    BY DEF RsdInv, TunnelInv, StagingInv, LeftoversReported
  <1>2. QED
    BY <1>1, RsdInvariance, PTL

\* Under "refuse" the app was absent when the command was sent, so that an
\* app that is found is what the command installed.
THEOREM RsdRefusedInstalled == RsdSpec => []RefusedInstalledByCommand
  <1>1. RsdInv => RefusedInstalledByCommand
    BY DEF RsdInv, CommandInv, RefusedInstalledByCommand, InstalledByCommand
  <1>2. QED
    BY <1>1, RsdInvariance, PTL

\* A reply is only read while the call waits for that of its last request, and
\* all earlier ones have been read by then.
THEOREM RsdRepliesMatch == RsdSpec => RepliesMatch
  <1>1. RsdInv /\ [RsdNext]_rsdVars => (read' # read => read' = sent)
    <2> SUFFICES ASSUME RsdInv, [RsdNext]_rsdVars, read' # read PROVE read' = sent
      OBVIOUS
    <2> USE DEF RsdInv, RsdTypeOK, AfcInv, Move, Decide, ToClean, ReadReply, rsdVars,
       uploadVars
    <2>1. CASE RequestSucceeds
      BY <2>1 DEF RequestSucceeds
    <2>2. CASE RequestRefused
      BY <2>2 DEF RequestRefused, RequestEnds
    <2>3. CASE CloseFileEnds
      BY <2>3 DEF CloseFileEnds
    <2>4. QED
      BY <2>1, <2>2, <2>3 DEF RsdNext, LocalStep, TimeoutStep, AnswerStep, BackgroundStep,
         DeviceStep,
             NextRequest, SendRequest, Uploaded, CloseFile, CheckWindow, SendCommand,
             OpenFails, IdentityFails, CloseInitial, CloseSession, CloseInitialFails,
             CloseFinal, SignTimesOut, PrecheckFails, PlanTimesOut, AfcFails,
             RequestTimesOut, RequestEnds, UploadTimesOut, ProxyFails, CommandUnanswered,
             Answer, LookUpFails, Verified, CleanFails, ReportCleanup, OpenSession,
             IdentityRead, Sign, SignFails, Precheck, Plan, PlanFails, OpenAfc, UploadFails,
             SourceChanged, OpenProxy, CommandAnswered, LookUp, Clean, LateSign,
             DropArtifact, AfcServes, Installs, Rejects, UserRemoves, Tick
  <1>2. QED
    BY <1>1, RsdInvariance, PTL DEF RsdSpec, RepliesMatch

-----------------------------------------------------------------------------
(* The promise *)

\* A call that has not begun has promised nothing.
LEMMA PromiseInitial == RsdInit => Promise!PromiseInit
  BY DEF RsdInit, Promise!PromiseInit, Promise!Policies

\* Sending the command, and the device, do what the promise lets them do.
LEMMA CommandAndDeviceKeepPromise ==
    ASSUME RsdInv, SendCommand \/ Installs \/ Rejects \/ UserRemoves
    PROVE  Promise!PromiseNext
  <1> USE DEF reportVars, Promise!PromiseNext
  <1>1. CASE SendCommand
    BY <1>1 DEF SendCommand, Move, RsdInv, ReportInv, CommandInv, Decided, Planned,
       BeforeCommand,
           Promise!Command
  <1>2. CASE Installs
    BY <1>2 DEF Installs, Promise!Install
  <1>3. CASE Rejects
    BY <1>3 DEF Rejects, Promise!Reject
  <1>4. CASE UserRemoves
    BY <1>4 DEF UserRemoves, Promise!Remove
  <1>5. QED
    BY <1>1, <1>2, <1>3, <1>4

\* The steps that may give the verdict.
VerdictStep ==
    \/ CheckWindow \/ OpenFails \/ IdentityFails \/ CloseInitialFails
    \/ SignTimesOut \/ SignFails \/ PrecheckFails \/ PlanFails \/ PlanTimesOut
    \/ AfcFails \/ RequestTimesOut \/ RequestRefused \/ UploadFails
    \/ UploadTimesOut \/ CloseFileEnds \/ ProxyFails \/ LookUp \/ LookUpFails

\* Every verdict is true of the device. Before the command it says that nothing
\* was started or installed; after it, what the answer and the look-up show.
LEMMA VerdictKeepsPromise ==
    ASSUME RsdInv, VerdictStep
    PROVE  Promise!Report \/ UNCHANGED Promise!promiseVars
  <1> USE DEF RsdInv, RsdTypeOK, ReportInv, CommandInv, UploadPcs, BeforeUpload,
     BeforeCommand,
          Decided, Move, Decide, Return, NotStarted, ToClean, reportVars, deviceVars,
          Promise!Report, Promise!Verdicts, Promise!Justified, Promise!promiseVars
  <1>1. CASE CheckWindow
    BY <1>1 DEF CheckWindow
  <1>2. CASE OpenFails
    BY <1>2 DEF OpenFails, MergeCleanup
  <1>3. CASE IdentityFails
    BY <1>3 DEF IdentityFails
  <1>4. CASE CloseInitialFails
    BY <1>4 DEF CloseInitialFails, RecordSession, MergeCleanup
  <1>5. CASE SignTimesOut
    BY <1>5 DEF SignTimesOut
  <1>6. CASE SignFails
    BY <1>6 DEF SignFails
  <1>7. CASE PrecheckFails
    BY <1>7 DEF PrecheckFails
  <1>8. CASE PlanFails
    BY <1>8 DEF PlanFails
  <1>9. CASE PlanTimesOut
    BY <1>9 DEF PlanTimesOut
  <1>10. CASE AfcFails
    BY <1>10 DEF AfcFails
  <1>11. CASE RequestTimesOut
    BY <1>11 DEF RequestTimesOut, RequestEnds
  <1>12. CASE RequestRefused
    BY <1>12 DEF RequestRefused, RequestEnds, ReadReply
  <1>13. CASE UploadFails
    BY <1>13 DEF UploadFails
  <1>14. CASE UploadTimesOut
    BY <1>14 DEF UploadTimesOut
  <1>15. CASE CloseFileEnds
    BY <1>15 DEF CloseFileEnds, ReadReply
  <1>16. CASE ProxyFails
    BY <1>16 DEF ProxyFails
  <1>17. CASE LookUp
    <2>1. command # "idle" /\ answer \in {"ok", "definitive", "possible"}
      BY <1>17 DEF LookUp, Verified
    <2>2. CASE app = "none"
      BY <1>17, <2>1, <2>2 DEF LookUp, Verified, Outcome
    <2>3. CASE app # "none"
      BY <1>17, <2>1, <2>3 DEF LookUp, Verified, Outcome
    <2>4. QED
      BY <2>2, <2>3
  <1>18. CASE LookUpFails
    BY <1>18 DEF LookUpFails, Verified, Outcome
  <1> QED
    BY <1>1, <1>2, <1>3, <1>4, <1>5, <1>6, <1>7, <1>8, <1>9, <1>10, <1>11, <1>12, <1>13,
       <1>14, <1>15, <1>16, <1>17, <1>18 DEF VerdictStep

\* All other steps of the call promise nothing and leave the app alone.
OtherStep ==
    \/ NextRequest \/ Uploaded \/ CloseFile \/ CloseInitial \/ CloseFinal
    \/ CommandUnanswered \/ CleanFails \/ OpenSession \/ IdentityRead \/ Sign
    \/ Precheck \/ Plan \/ OpenAfc \/ RequestSucceeds \/ SourceChanged \/ OpenProxy
    \/ CommandAnswered \/ Clean \/ LateSign \/ DropArtifact \/ AfcServes \/ Tick

LEMMA OtherStepKeepsPromise == OtherStep => UNCHANGED Promise!promiseVars
  BY DEF OtherStep, Move, Return, reportVars, deviceVars, Promise!promiseVars,
         NextRequest, SendRequest, Uploaded, CloseFile, CloseInitial, CloseSession,
         RecordSession, CloseFinal, CommandUnanswered, Answer, CleanFails, ReportCleanup,
         OpenSession, IdentityRead, Sign, Precheck, Plan, OpenAfc, RequestSucceeds,
         SourceChanged, OpenProxy, CommandAnswered, Clean, LateSign, DropArtifact,
         AfcServes, Tick

\* The verdict of the report is true of the device and stays true.
THEOREM RsdPromiseKept == RsdSpec => PromiseKept
  <1>1. RsdInv /\ [RsdNext]_rsdVars => [Promise!PromiseNext]_Promise!promiseVars
    <2> SUFFICES ASSUME RsdInv, [RsdNext]_rsdVars
                 PROVE  [Promise!PromiseNext]_Promise!promiseVars
      OBVIOUS
    <2>1. CASE UNCHANGED rsdVars
      BY <2>1 DEF rsdVars, reportVars, deviceVars, Promise!promiseVars
    <2>2. CASE SendCommand \/ Installs \/ Rejects \/ UserRemoves
      BY <2>2, CommandAndDeviceKeepPromise
    <2>3. CASE VerdictStep
      BY <2>3, VerdictKeepsPromise DEF Promise!PromiseNext
    <2>4. CASE OtherStep
      BY <2>4, OtherStepKeepsPromise
    <2>5. QED
      BY <2>1, <2>2, <2>3, <2>4 DEF RsdNext, LocalStep, TimeoutStep, AnswerStep,
         BackgroundStep,
             DeviceStep, VerdictStep, OtherStep
  <1>2. QED
    BY <1>1, PromiseInitial, RsdInvariance, PTL DEF RsdSpec, PromiseKept,
       Promise!PromiseSpec

-----------------------------------------------------------------------------
(* What the promise is worth to its caller *)

\* A verdict that says the app is not installed leaves no command behind that
\* could still install it.
NoCommandLeft == outcome \in {"not_started", "not_installed"} => command # "sent"

PromiseInv == Promise!PromiseTypeOK /\ NoCommandLeft /\ Promise!RefusalKeepsOld

\* The promise begins without command and verdict.
LEMMA PromiseBegins == Promise!PromiseInit => PromiseInv
  BY DEF Promise!PromiseInit, PromiseInv, Promise!PromiseTypeOK, NoCommandLeft,
         Promise!RefusalKeepsOld, Promise!Builds, Promise!Fates, Promise!Verdicts

\* A verdict is only given when it is justified, and no command follows it.
LEMMA PromiseStep ==
    PromiseInv /\ [Promise!PromiseNext]_Promise!promiseVars => PromiseInv'
  <1> SUFFICES ASSUME PromiseInv, [Promise!PromiseNext]_Promise!promiseVars PROVE PromiseInv'
    OBVIOUS
  <1> USE DEF PromiseInv, Promise!PromiseTypeOK, NoCommandLeft, Promise!RefusalKeepsOld,
              Promise!Builds, Promise!Fates, Promise!Verdicts
  <1>1. CASE Promise!Install
    BY <1>1 DEF Promise!Install
  <1>2. CASE Promise!Reject
    BY <1>2 DEF Promise!Reject
  <1>3. CASE Promise!Remove
    BY <1>3 DEF Promise!Remove
  <1>4. CASE Promise!Command
    BY <1>4 DEF Promise!Command
  <1>5. CASE Promise!Report
    <2>1. outcome' \in {"not_started", "not_installed"} => command # "sent"
      BY <1>5 DEF Promise!Report, Promise!Justified
    <2>2. QED
      BY <1>5, <2>1 DEF Promise!Report
  <1>6. CASE UNCHANGED Promise!promiseVars
    BY <1>6 DEF Promise!promiseVars
  <1>7. QED
    BY <1>1, <1>2, <1>3, <1>4, <1>5, <1>6 DEF Promise!PromiseNext

LEMMA PromiseInvariance == Promise!PromiseSpec => []PromiseInv
  BY PromiseBegins, PromiseStep, PTL DEF Promise!PromiseSpec

\* A verdict is final, and what was reported as not installed does not get
\* installed afterwards, whoever keeps the promise.
THEOREM PromiseFinalAndKept == Promise!PromiseSpec => Promise!FinalAndKept
  <1>1. PromiseInv /\ [Promise!PromiseNext]_Promise!promiseVars =>
          (outcome # "undecided" =>
             /\ outcome' = outcome
             /\ outcome \in {"not_started", "not_installed"} => app' \in {app, "none"})
    BY DEF PromiseInv, NoCommandLeft, Promise!PromiseNext, Promise!Install, Promise!Reject,
           Promise!Remove, Promise!Command, Promise!Report, Promise!promiseVars
  <1>2. QED
    BY <1>1, PromiseInvariance, PTL DEF Promise!PromiseSpec, Promise!FinalAndKept

\* Under "refuse" no build that was there before survives a command.
THEOREM PromiseRefusal == Promise!PromiseSpec => []Promise!RefusalKeepsOld
  <1>1. PromiseInv => Promise!RefusalKeepsOld
    BY DEF PromiseInv
  <1>2. QED
    BY <1>1, PromiseInvariance, PTL

\* So it is for a caller of install_remote_pairing_app: its verdict is final, what
\* it reports as not installed is not installed by a late effect of its command,
\* and under "refuse" the build it leaves behind is its own.
THEOREM RsdFinalAndKept == RsdSpec => Promise!FinalAndKept /\ []Promise!RefusalKeepsOld
  BY RsdPromiseKept, PromiseFinalAndKept, PromiseRefusal, PTL DEF PromiseKept
=============================================================================
