---------------------------- MODULE AppleTvProofs ----------------------------
(***************************************************************************)
(* Proofs, for any number of sessions and requests, that TvInv holds in    *)
(* every reachable state of AppleTvPairing, and of the properties that     *)
(* follow from it.                                                         *)
(***************************************************************************)
EXTENDS AppleTvInvariant, TLAPS

\* Nothing was started, stored or looked up.
LEMMA TvInitial == TvInit => TvInv
  <1> SUFFICES ASSUME TvInit PROVE TvInv
    OBVIOUS
  <1> USE NoneAssumption, AppleTvAssumption DEF TvInit, PairedInit
  <1>1. TvTypeOK
    BY DEF TvTypeOK, PairedTypeOK, Phases, Terminal, Pcs, Waits
  <1>2. LockInv /\ SessionInv /\ StoredInv /\ PinInv /\ LookupInv
    BY DEF LockInv, SessionInv, StoredInv, PinInv, LookupInv, Holding, AfterSave, BeforePin
  <1>3. Readable /\ ReadyWasSaved /\ CacheFollowsPairing /\ VerifiedIsItself
        /\ AcceptedPinArrives
    BY DEF Readable, ReadyWasSaved, CacheFollowsPairing, VerifiedIsItself,
           AcceptedPinArrives
  <1>4. QED
    BY <1>1, <1>2, <1>3 DEF TvInv

\* What requests do to the session.
LEMMA SessionKeepsInv ==
    ASSUME TvInv, Expire \/ Cancel \/ SubmitPin \/ FallsDue
    PROVE  TvInv'
  <1> USE NoneAssumption, AppleTvAssumption
     DEF TvInv, TvTypeOK, PairedTypeOK, LockInv, SessionInv, StoredInv, PinInv, LookupInv,
         Readable, ReadyWasSaved, CacheFollowsPairing, VerifiedIsItself, AcceptedPinArrives,
         pairedVars, lookupVars, sessionVars, taskVars, historyVars, Phases, Terminal, Pcs,
         Waits, Listening, Holding, AfterSave, BeforePin, Active, TaskFrame, ForgetFrame, GoTo
  <1>1. CASE Expire
    <2>1. TvTypeOK'
      BY <1>1 DEF Expire, EndSession
    <2>2. LockInv' /\ SessionInv'
      BY <1>1 DEF Expire, EndSession
    <2>3. StoredInv'
      BY <1>1 DEF Expire, EndSession
    <2>4. PinInv' /\ AcceptedPinArrives'
      BY <1>1 DEF Expire, EndSession
    <2>5. LookupInv'
      BY <1>1 DEF Expire, EndSession
    <2>6. Readable' /\ ReadyWasSaved'
      BY <1>1 DEF Expire, EndSession
    <2>7. CacheFollowsPairing'
      BY <1>1 DEF Expire, EndSession
    <2>8. VerifiedIsItself'
      BY <1>1 DEF Expire, EndSession
    <2> QED
      BY <2>1, <2>2, <2>3, <2>4, <2>5, <2>6, <2>7, <2>8
  <1>2. CASE Cancel
    <2>1. TvTypeOK'
      BY <1>2 DEF Cancel, EndSession
    <2>2. LockInv' /\ SessionInv'
      BY <1>2 DEF Cancel, EndSession
    <2>3. StoredInv'
      BY <1>2 DEF Cancel, EndSession
    <2>4. PinInv' /\ AcceptedPinArrives'
      BY <1>2 DEF Cancel, EndSession
    <2>5. LookupInv'
      BY <1>2 DEF Cancel, EndSession
    <2>6. Readable' /\ ReadyWasSaved'
      BY <1>2 DEF Cancel, EndSession
    <2>7. CacheFollowsPairing'
      BY <1>2 DEF Cancel, EndSession
    <2>8. VerifiedIsItself'
      BY <1>2 DEF Cancel, EndSession
    <2> QED
      BY <2>1, <2>2, <2>3, <2>4, <2>5, <2>6, <2>7, <2>8
  <1>3. CASE SubmitPin
    <2>1. TvTypeOK'
      BY <1>3 DEF SubmitPin
    <2>2. LockInv' /\ SessionInv'
      BY <1>3 DEF SubmitPin
    <2>3. StoredInv'
      BY <1>3 DEF SubmitPin
    <2>4. PinInv' /\ AcceptedPinArrives'
      BY <1>3 DEF SubmitPin
    <2>5. LookupInv'
      BY <1>3 DEF SubmitPin
    <2>6. Readable' /\ ReadyWasSaved'
      BY <1>3 DEF SubmitPin
    <2>7. CacheFollowsPairing'
      BY <1>3 DEF SubmitPin
    <2>8. VerifiedIsItself'
      BY <1>3 DEF SubmitPin
    <2> QED
      BY <2>1, <2>2, <2>3, <2>4, <2>5, <2>6, <2>7, <2>8
  <1>4. CASE FallsDue
    <2>1. TvTypeOK'
      BY <1>4 DEF FallsDue
    <2>2. LockInv' /\ SessionInv'
      BY <1>4 DEF FallsDue
    <2>3. StoredInv'
      BY <1>4 DEF FallsDue
    <2>4. PinInv' /\ AcceptedPinArrives'
      BY <1>4 DEF FallsDue
    <2>5. LookupInv'
      BY <1>4 DEF FallsDue
    <2>6. Readable' /\ ReadyWasSaved'
      BY <1>4 DEF FallsDue
    <2>7. CacheFollowsPairing'
      BY <1>4 DEF FallsDue
    <2>8. VerifiedIsItself'
      BY <1>4 DEF FallsDue
    <2> QED
      BY <2>1, <2>2, <2>3, <2>4, <2>5, <2>6, <2>7, <2>8
  <1> QED
    BY <1>1, <1>2, <1>3, <1>4

\* A session starts, its task gets the lock.
LEMMA StartKeepsInv ==
    ASSUME NEW s \in Pairings, TvInv, StartPairing(s) \/ TakeLock(s)
    PROVE  TvInv'
  <1> USE NoneAssumption, AppleTvAssumption
     DEF TvInv, TvTypeOK, PairedTypeOK, LockInv, SessionInv, StoredInv, PinInv, LookupInv,
         Readable, ReadyWasSaved, CacheFollowsPairing, VerifiedIsItself, AcceptedPinArrives,
         pairedVars, lookupVars, sessionVars, taskVars, historyVars, Phases, Terminal, Pcs,
         Waits, Listening, Holding, AfterSave, BeforePin, Active, TaskFrame, ForgetFrame, GoTo
  <1>1. CASE StartPairing(s)
    <2>1. LockInv'
      BY <1>1 DEF StartPairing
    <2>2. SessionInv'
      BY <1>1 DEF StartPairing
    <2>3. TvTypeOK'
      BY <1>1 DEF StartPairing
    <2>4. StoredInv'
      BY <1>1 DEF StartPairing
    <2>5. PinInv' /\ AcceptedPinArrives'
      BY <1>1 DEF StartPairing
    <2>6. LookupInv'
      BY <1>1 DEF StartPairing
    <2>7. Readable' /\ ReadyWasSaved'
      BY <1>1 DEF StartPairing
    <2>8. CacheFollowsPairing'
      BY <1>1 DEF StartPairing
    <2>9. VerifiedIsItself'
      BY <1>1 DEF StartPairing
    <2> QED
      BY <2>1, <2>2, <2>3, <2>4, <2>5, <2>6, <2>7, <2>8, <2>9
  <1>2. CASE TakeLock(s)
    <2>1. TvTypeOK'
      BY <1>2 DEF TakeLock, LockFree
    <2>2. LockInv' /\ SessionInv'
      BY <1>2 DEF TakeLock, LockFree
    <2>3. StoredInv'
      BY <1>2 DEF TakeLock, LockFree
    <2>4. PinInv' /\ AcceptedPinArrives'
      BY <1>2 DEF TakeLock, LockFree
    <2>5. LookupInv'
      BY <1>2 DEF TakeLock, LockFree
    <2>6. Readable' /\ ReadyWasSaved'
      BY <1>2 DEF TakeLock, LockFree
    <2>7. CacheFollowsPairing'
      BY <1>2 DEF TakeLock, LockFree
    <2>8. VerifiedIsItself'
      BY <1>2 DEF TakeLock, LockFree
    <2> QED
      BY <2>1, <2>2, <2>3, <2>4, <2>5, <2>6, <2>7, <2>8
  <1> QED
    BY <1>1, <1>2

\* What a task does by itself.
LEMMA TaskRunKeepsInv ==
    ASSUME NEW s \in Pairings, TvInv, TaskRuns(s)
    PROVE  TvInv'
  <1> USE NoneAssumption, AppleTvAssumption
     DEF TvInv, TvTypeOK, PairedTypeOK, LockInv, SessionInv, StoredInv, PinInv, LookupInv,
         Readable, ReadyWasSaved, CacheFollowsPairing, VerifiedIsItself, AcceptedPinArrives,
         pairedVars, lookupVars, sessionVars, taskVars, historyVars, Phases, Terminal, Pcs,
         Waits, Listening, Holding, AfterSave, BeforePin, Active, TaskFrame, ForgetFrame, GoTo
  <1>1. CASE AwaitPin(s)
    <2>1. TvTypeOK'
      BY <1>1 DEF AwaitPin, SetPhase
    <2>2. LockInv' /\ SessionInv'
      BY <1>1 DEF AwaitPin, SetPhase
    <2>3. StoredInv'
      BY <1>1 DEF AwaitPin, SetPhase
    <2>4. PinInv' /\ AcceptedPinArrives'
      BY <1>1 DEF AwaitPin, SetPhase
    <2>5. LookupInv'
      BY <1>1 DEF AwaitPin, SetPhase
    <2>6. Readable' /\ ReadyWasSaved'
      BY <1>1 DEF AwaitPin, SetPhase
    <2>7. CacheFollowsPairing'
      BY <1>1 DEF AwaitPin, SetPhase
    <2>8. VerifiedIsItself'
      BY <1>1 DEF AwaitPin, SetPhase
    <2> QED
      BY <2>1, <2>2, <2>3, <2>4, <2>5, <2>6, <2>7, <2>8
  <1>2. CASE PinArrives(s)
    <2>1. TvTypeOK'
      BY <1>2 DEF PinArrives
    <2>2. LockInv' /\ SessionInv'
      BY <1>2 DEF PinArrives
    <2>3. StoredInv'
      BY <1>2 DEF PinArrives
    <2>4. PinInv' /\ AcceptedPinArrives'
      BY <1>2 DEF PinArrives
    <2>5. LookupInv'
      BY <1>2 DEF PinArrives
    <2>6. Readable' /\ ReadyWasSaved'
      BY <1>2 DEF PinArrives
    <2>7. CacheFollowsPairing'
      BY <1>2 DEF PinArrives
    <2>8. VerifiedIsItself'
      BY <1>2 DEF PinArrives
    <2> QED
      BY <2>1, <2>2, <2>3, <2>4, <2>5, <2>6, <2>7, <2>8
  <1>3. CASE SavePairing(s)
    <2>1. TvTypeOK'
      BY <1>3 DEF SavePairing, Save, LookingUp
    <2>2. LockInv' /\ SessionInv'
      BY <1>3 DEF SavePairing, Save, LookingUp
    <2>3. StoredInv'
      BY <1>3 DEF SavePairing, Save, LookingUp
    <2>4. PinInv' /\ AcceptedPinArrives'
      BY <1>3 DEF SavePairing, Save, LookingUp
    <2>5. LookupInv'
      BY <1>3 DEF SavePairing, Save, LookingUp
    <2>6. Readable' /\ ReadyWasSaved'
      BY <1>3 DEF SavePairing, Save, LookingUp
    <2>7. CacheFollowsPairing'
      BY <1>3 DEF SavePairing, Save, LookingUp
    <2>8. VerifiedIsItself'
      BY <1>3 DEF SavePairing, Save, LookingUp
    <2> QED
      BY <2>1, <2>2, <2>3, <2>4, <2>5, <2>6, <2>7, <2>8
  <1>4. CASE SavingFails(s)
    <2>1. TvTypeOK'
      BY <1>4 DEF SavingFails, SaveBreaks, Release
    <2>2. LockInv' /\ SessionInv'
      BY <1>4 DEF SavingFails, SaveBreaks, Release
    <2>3. StoredInv'
      BY <1>4 DEF SavingFails, SaveBreaks, Release
    <2>4. PinInv' /\ AcceptedPinArrives'
      BY <1>4 DEF SavingFails, SaveBreaks, Release
    <2>5. LookupInv'
      BY <1>4 DEF SavingFails, SaveBreaks, Release
    <2>6. Readable' /\ ReadyWasSaved'
      BY <1>4 DEF SavingFails, SaveBreaks, Release
    <2>7. CacheFollowsPairing'
      BY <1>4 DEF SavingFails, SaveBreaks, Release
    <2>8. VerifiedIsItself'
      BY <1>4 DEF SavingFails, SaveBreaks, Release
    <2> QED
      BY <2>1, <2>2, <2>3, <2>4, <2>5, <2>6, <2>7, <2>8
  <1>5. CASE ClearIdentity(s)
    <2>1. TvTypeOK'
      BY <1>5 DEF ClearIdentity, Release
    <2>2. LockInv' /\ SessionInv'
      BY <1>5 DEF ClearIdentity, Release
    <2>3. StoredInv'
      BY <1>5 DEF ClearIdentity, Release
    <2>4. PinInv' /\ AcceptedPinArrives'
      BY <1>5 DEF ClearIdentity, Release
    <2>5. LookupInv'
      BY <1>5 DEF ClearIdentity, Release
    <2>6. Readable' /\ ReadyWasSaved'
      BY <1>5 DEF ClearIdentity, Release
    <2>7. CacheFollowsPairing'
      BY <1>5 DEF ClearIdentity, Release
    <2>8. VerifiedIsItself'
      BY <1>5 DEF ClearIdentity, Release
    <2> QED
      BY <2>1, <2>2, <2>3, <2>4, <2>5, <2>6, <2>7, <2>8
  <1>6. CASE PhaseVerifying(s)
    <2>1. TvTypeOK'
      BY <1>6 DEF PhaseVerifying, SetPhase
    <2>2. LockInv' /\ SessionInv'
      BY <1>6 DEF PhaseVerifying, SetPhase
    <2>3. StoredInv'
      BY <1>6 DEF PhaseVerifying, SetPhase
    <2>4. PinInv' /\ AcceptedPinArrives'
      BY <1>6 DEF PhaseVerifying, SetPhase
    <2>5. LookupInv'
      BY <1>6 DEF PhaseVerifying, SetPhase
    <2>6. Readable' /\ ReadyWasSaved'
      BY <1>6 DEF PhaseVerifying, SetPhase
    <2>7. CacheFollowsPairing'
      BY <1>6 DEF PhaseVerifying, SetPhase
    <2>8. VerifiedIsItself'
      BY <1>6 DEF PhaseVerifying, SetPhase
    <2> QED
      BY <2>1, <2>2, <2>3, <2>4, <2>5, <2>6, <2>7, <2>8
  <1>7. CASE VerifyAtOnce(s)
    <2>1. TvTypeOK'
      BY <1>7 DEF VerifyAtOnce, HasStoredPairing
    <2>2. LockInv' /\ SessionInv'
      BY <1>7 DEF VerifyAtOnce, HasStoredPairing
    <2>3. StoredInv'
      BY <1>7 DEF VerifyAtOnce, HasStoredPairing
    <2>4. PinInv' /\ AcceptedPinArrives'
      BY <1>7 DEF VerifyAtOnce, HasStoredPairing
    <2>5. LookupInv'
      BY <1>7 DEF VerifyAtOnce, HasStoredPairing
    <2>6. Readable' /\ ReadyWasSaved'
      BY <1>7 DEF VerifyAtOnce, HasStoredPairing
    <2>7. CacheFollowsPairing'
      BY <1>7 DEF VerifyAtOnce, HasStoredPairing
    <2>8. VerifiedIsItself'
      BY <1>7 DEF VerifyAtOnce, HasStoredPairing
    <2> QED
      BY <2>1, <2>2, <2>3, <2>4, <2>5, <2>6, <2>7, <2>8
  <1>8. CASE VerifyStarts(s)
    <2>1. TvTypeOK'
      BY <1>8 DEF VerifyStarts, LookupStarts, HasStoredPairing
    <2>2. LockInv' /\ SessionInv'
      BY <1>8 DEF VerifyStarts, LookupStarts, HasStoredPairing
    <2>3. StoredInv'
      BY <1>8 DEF VerifyStarts, LookupStarts, HasStoredPairing
    <2>4. PinInv' /\ AcceptedPinArrives'
      BY <1>8 DEF VerifyStarts, LookupStarts, HasStoredPairing
    <2>5. LookupInv'
      BY <1>8 DEF VerifyStarts, LookupStarts, HasStoredPairing
    <2>6. Readable' /\ ReadyWasSaved'
      BY <1>8 DEF VerifyStarts, LookupStarts, HasStoredPairing
    <2>7. CacheFollowsPairing'
      BY <1>8 DEF VerifyStarts, LookupStarts, HasStoredPairing
    <2>8. VerifiedIsItself'
      BY <1>8 DEF VerifyStarts, LookupStarts, HasStoredPairing
    <2> QED
      BY <2>1, <2>2, <2>3, <2>4, <2>5, <2>6, <2>7, <2>8
  <1>9. CASE VerifyCaches(s)
    <2>1. TvTypeOK'
      BY <1>9 DEF VerifyCaches, LookupCaches, CacheOverlap
    <2>2. LockInv' /\ SessionInv'
      BY <1>9 DEF VerifyCaches, LookupCaches, CacheOverlap
    <2>3. StoredInv'
      BY <1>9 DEF VerifyCaches, LookupCaches, CacheOverlap
    <2>4. PinInv' /\ AcceptedPinArrives'
      BY <1>9 DEF VerifyCaches, LookupCaches, CacheOverlap
    <2>5. LookupInv'
      BY <1>9 DEF VerifyCaches, LookupCaches, CacheOverlap
    <2>6. Readable' /\ ReadyWasSaved'
      BY <1>9 DEF VerifyCaches, LookupCaches, CacheOverlap
    <2>7. CacheFollowsPairing'
      BY <1>9 DEF VerifyCaches, LookupCaches, CacheOverlap
    <2>8. VerifiedIsItself'
      BY <1>9 DEF VerifyCaches, LookupCaches, CacheOverlap
    <2> QED
      BY <2>1, <2>2, <2>3, <2>4, <2>5, <2>6, <2>7, <2>8
  <1>10. CASE ReportReady(s)
    <2>1. TvTypeOK'
      BY <1>10 DEF ReportReady, Ends
    <2>2. LockInv' /\ SessionInv'
      BY <1>10 DEF ReportReady, Ends
    <2>3. StoredInv'
      BY <1>10 DEF ReportReady, Ends
    <2>4. PinInv' /\ AcceptedPinArrives'
      BY <1>10 DEF ReportReady, Ends
    <2>5. LookupInv'
      BY <1>10 DEF ReportReady, Ends
    <2>6. Readable' /\ ReadyWasSaved'
      BY <1>10 DEF ReportReady, Ends
    <2>7. CacheFollowsPairing'
      BY <1>10 DEF ReportReady, Ends
    <2>8. VerifiedIsItself'
      BY <1>10 DEF ReportReady, Ends
    <2> QED
      BY <2>1, <2>2, <2>3, <2>4, <2>5, <2>6, <2>7, <2>8
  <1>11. CASE ReportFailed(s)
    <2>1. TvTypeOK'
      BY <1>11 DEF ReportFailed, Ends, SetPhase
    <2>2. LockInv' /\ SessionInv'
      BY <1>11 DEF ReportFailed, Ends, SetPhase
    <2>3. StoredInv'
      BY <1>11 DEF ReportFailed, Ends, SetPhase
    <2>4. PinInv' /\ AcceptedPinArrives'
      BY <1>11 DEF ReportFailed, Ends, SetPhase
    <2>5. LookupInv'
      BY <1>11 DEF ReportFailed, Ends, SetPhase
    <2>6. Readable' /\ ReadyWasSaved'
      BY <1>11 DEF ReportFailed, Ends, SetPhase
    <2>7. CacheFollowsPairing'
      BY <1>11 DEF ReportFailed, Ends, SetPhase
    <2>8. VerifiedIsItself'
      BY <1>11 DEF ReportFailed, Ends, SetPhase
    <2> QED
      BY <2>1, <2>2, <2>3, <2>4, <2>5, <2>6, <2>7, <2>8
  <1>12. CASE TaskDropped(s)
    <2>1. TvTypeOK'
      BY <1>12 DEF TaskDropped, Ends, Release
    <2>2. LockInv' /\ SessionInv'
      BY <1>12 DEF TaskDropped, Ends, Release
    <2>3. StoredInv'
      BY <1>12 DEF TaskDropped, Ends, Release
    <2>4. PinInv' /\ AcceptedPinArrives'
      BY <1>12 DEF TaskDropped, Ends, Release
    <2>5. LookupInv'
      BY <1>12 DEF TaskDropped, Ends, Release
    <2>6. Readable' /\ ReadyWasSaved'
      BY <1>12 DEF TaskDropped, Ends, Release
    <2>7. CacheFollowsPairing'
      BY <1>12 DEF TaskDropped, Ends, Release
    <2>8. VerifiedIsItself'
      BY <1>12 DEF TaskDropped, Ends, Release
    <2> QED
      BY <2>1, <2>2, <2>3, <2>4, <2>5, <2>6, <2>7, <2>8
  <1> QED
    BY <1>1, <1>2, <1>3, <1>4, <1>5, <1>6, <1>7, <1>8, <1>9, <1>10, <1>11, <1>12 DEF TaskRuns

\* How the waits of a task end.
LEMMA WaitKeepsInv ==
    ASSUME NEW s \in Pairings, TvInv, TvActs(s) \/ WaitsEnd(s)
    PROVE  TvInv'
  <1> USE NoneAssumption, AppleTvAssumption
     DEF TvInv, TvTypeOK, PairedTypeOK, LockInv, SessionInv, StoredInv, PinInv, LookupInv,
         Readable, ReadyWasSaved, CacheFollowsPairing, VerifiedIsItself, AcceptedPinArrives,
         pairedVars, lookupVars, sessionVars, taskVars, historyVars, Phases, Terminal, Pcs,
         Waits, Listening, Holding, AfterSave, BeforePin, Active, TaskFrame, ForgetFrame, GoTo
  <1>1. CASE Connects(s)
    <2>1. TvTypeOK'
      BY <1>1 DEF Connects
    <2>2. LockInv' /\ SessionInv'
      BY <1>1 DEF Connects
    <2>3. StoredInv'
      BY <1>1 DEF Connects
    <2>4. PinInv' /\ AcceptedPinArrives'
      BY <1>1 DEF Connects
    <2>5. LookupInv'
      BY <1>1 DEF Connects
    <2>6. Readable' /\ ReadyWasSaved'
      BY <1>1 DEF Connects
    <2>7. CacheFollowsPairing'
      BY <1>1 DEF Connects
    <2>8. VerifiedIsItself'
      BY <1>1 DEF Connects
    <2> QED
      BY <2>1, <2>2, <2>3, <2>4, <2>5, <2>6, <2>7, <2>8
  <1>2. CASE AsksForPin(s)
    <2>1. TvTypeOK'
      BY <1>2 DEF AsksForPin
    <2>2. LockInv' /\ SessionInv'
      BY <1>2 DEF AsksForPin
    <2>3. StoredInv'
      BY <1>2 DEF AsksForPin
    <2>4. PinInv' /\ AcceptedPinArrives'
      BY <1>2 DEF AsksForPin
    <2>5. LookupInv'
      BY <1>2 DEF AsksForPin
    <2>6. Readable' /\ ReadyWasSaved'
      BY <1>2 DEF AsksForPin
    <2>7. CacheFollowsPairing'
      BY <1>2 DEF AsksForPin
    <2>8. VerifiedIsItself'
      BY <1>2 DEF AsksForPin
    <2> QED
      BY <2>1, <2>2, <2>3, <2>4, <2>5, <2>6, <2>7, <2>8
  <1>3. CASE TvAccepts(s)
    <2>1. TvTypeOK'
      BY <1>3 DEF TvAccepts
    <2>2. LockInv' /\ SessionInv'
      BY <1>3 DEF TvAccepts
    <2>3. StoredInv'
      BY <1>3 DEF TvAccepts
    <2>4. PinInv' /\ AcceptedPinArrives'
      BY <1>3 DEF TvAccepts
    <2>5. LookupInv'
      BY <1>3 DEF TvAccepts
    <2>6. Readable' /\ ReadyWasSaved'
      BY <1>3 DEF TvAccepts
    <2>7. CacheFollowsPairing'
      BY <1>3 DEF TvAccepts
    <2>8. VerifiedIsItself'
      BY <1>3 DEF TvAccepts
    <2> QED
      BY <2>1, <2>2, <2>3, <2>4, <2>5, <2>6, <2>7, <2>8
  <1>4. CASE VerifyAnswered(s)
    <2>1. TvTypeOK'
      BY <1>4 DEF VerifyAnswered, Waiting, LookupAnswered
    <2>2. LockInv' /\ SessionInv'
      BY <1>4 DEF VerifyAnswered, Waiting, LookupAnswered
    <2>3. StoredInv'
      BY <1>4 DEF VerifyAnswered, Waiting, LookupAnswered
    <2>4. PinInv' /\ AcceptedPinArrives'
      BY <1>4 DEF VerifyAnswered, Waiting, LookupAnswered
    <2>5. LookupInv'
      BY <1>4 DEF VerifyAnswered, Waiting, LookupAnswered
    <2>6. Readable' /\ ReadyWasSaved'
      BY <1>4 DEF VerifyAnswered, Waiting, LookupAnswered
    <2>7. CacheFollowsPairing'
      BY <1>4 DEF VerifyAnswered, Waiting, LookupAnswered
    <2>8. VerifiedIsItself'
      BY <1>4 DEF VerifyAnswered, Waiting, LookupAnswered
    <2> QED
      BY <2>1, <2>2, <2>3, <2>4, <2>5, <2>6, <2>7, <2>8
  <1>5. CASE PairingFails(s)
    <2>1. TvTypeOK'
      BY <1>5 DEF PairingFails, Release
    <2>2. LockInv' /\ SessionInv'
      BY <1>5 DEF PairingFails, Release
    <2>3. StoredInv'
      BY <1>5 DEF PairingFails, Release
    <2>4. PinInv' /\ AcceptedPinArrives'
      BY <1>5 DEF PairingFails, Release
    <2>5. LookupInv'
      BY <1>5 DEF PairingFails, Release
    <2>6. Readable' /\ ReadyWasSaved'
      BY <1>5 DEF PairingFails, Release
    <2>7. CacheFollowsPairing'
      BY <1>5 DEF PairingFails, Release
    <2>8. VerifiedIsItself'
      BY <1>5 DEF PairingFails, Release
    <2> QED
      BY <2>1, <2>2, <2>3, <2>4, <2>5, <2>6, <2>7, <2>8
  <1>6. CASE HandshakeTimesOut(s)
    <2>1. TvTypeOK'
      BY <1>6 DEF HandshakeTimesOut, Release
    <2>2. LockInv' /\ SessionInv'
      BY <1>6 DEF HandshakeTimesOut, Release
    <2>3. StoredInv'
      BY <1>6 DEF HandshakeTimesOut, Release
    <2>4. PinInv' /\ AcceptedPinArrives'
      BY <1>6 DEF HandshakeTimesOut, Release
    <2>5. LookupInv'
      BY <1>6 DEF HandshakeTimesOut, Release
    <2>6. Readable' /\ ReadyWasSaved'
      BY <1>6 DEF HandshakeTimesOut, Release
    <2>7. CacheFollowsPairing'
      BY <1>6 DEF HandshakeTimesOut, Release
    <2>8. VerifiedIsItself'
      BY <1>6 DEF HandshakeTimesOut, Release
    <2> QED
      BY <2>1, <2>2, <2>3, <2>4, <2>5, <2>6, <2>7, <2>8
  <1>7. CASE VerifyFails(s)
    <2>1. TvTypeOK'
      BY <1>7 DEF VerifyFails, Waiting, LookupEnds
    <2>2. LockInv' /\ SessionInv'
      BY <1>7 DEF VerifyFails, Waiting, LookupEnds
    <2>3. StoredInv'
      BY <1>7 DEF VerifyFails, Waiting, LookupEnds
    <2>4. PinInv' /\ AcceptedPinArrives'
      BY <1>7 DEF VerifyFails, Waiting, LookupEnds
    <2>5. LookupInv'
      BY <1>7 DEF VerifyFails, Waiting, LookupEnds
    <2>6. Readable' /\ ReadyWasSaved'
      BY <1>7 DEF VerifyFails, Waiting, LookupEnds
    <2>7. CacheFollowsPairing'
      BY <1>7 DEF VerifyFails, Waiting, LookupEnds
    <2>8. VerifiedIsItself'
      BY <1>7 DEF VerifyFails, Waiting, LookupEnds
    <2> QED
      BY <2>1, <2>2, <2>3, <2>4, <2>5, <2>6, <2>7, <2>8
  <1> QED
    BY <1>1, <1>2, <1>3, <1>4, <1>5, <1>6, <1>7 DEF TvActs, WaitsEnd

\* The pairing is forgotten, or the server restarts.
LEMMA ForgetKeepsInv ==
    ASSUME TvInv, Forgets \/ Crash
    PROVE  TvInv'
  <1> USE NoneAssumption, AppleTvAssumption
     DEF TvInv, TvTypeOK, PairedTypeOK, LockInv, SessionInv, StoredInv, PinInv, LookupInv,
         Readable, ReadyWasSaved, CacheFollowsPairing, VerifiedIsItself, AcceptedPinArrives,
         pairedVars, lookupVars, sessionVars, taskVars, historyVars, Phases, Terminal, Pcs,
         Waits, Listening, Holding, AfterSave, BeforePin, Active, TaskFrame, ForgetFrame, GoTo
  <1>1. CASE ForgetStarts
    <2>1. TvTypeOK'
      BY <1>1 DEF ForgetStarts
    <2>2. LockInv' /\ SessionInv'
      BY <1>1 DEF ForgetStarts
    <2>3. StoredInv'
      BY <1>1 DEF ForgetStarts
    <2>4. PinInv' /\ AcceptedPinArrives'
      BY <1>1 DEF ForgetStarts
    <2>5. LookupInv'
      BY <1>1 DEF ForgetStarts
    <2>6. Readable' /\ ReadyWasSaved'
      BY <1>1 DEF ForgetStarts
    <2>7. CacheFollowsPairing'
      BY <1>1 DEF ForgetStarts
    <2>8. VerifiedIsItself'
      BY <1>1 DEF ForgetStarts
    <2> QED
      BY <2>1, <2>2, <2>3, <2>4, <2>5, <2>6, <2>7, <2>8
  <1>2. CASE ForgetLocks
    <2>1. TvTypeOK'
      BY <1>2 DEF ForgetLocks, LockFree
    <2>2. LockInv' /\ SessionInv'
      BY <1>2 DEF ForgetLocks, LockFree
    <2>3. StoredInv'
      BY <1>2 DEF ForgetLocks, LockFree
    <2>4. PinInv' /\ AcceptedPinArrives'
      BY <1>2 DEF ForgetLocks, LockFree
    <2>5. LookupInv'
      BY <1>2 DEF ForgetLocks, LockFree
    <2>6. Readable' /\ ReadyWasSaved'
      BY <1>2 DEF ForgetLocks, LockFree
    <2>7. CacheFollowsPairing'
      BY <1>2 DEF ForgetLocks, LockFree
    <2>8. VerifiedIsItself'
      BY <1>2 DEF ForgetLocks, LockFree
    <2> QED
      BY <2>1, <2>2, <2>3, <2>4, <2>5, <2>6, <2>7, <2>8
  <1>3. CASE ForgetClears
    <2>1. TvTypeOK'
      BY <1>3 DEF ForgetClears
    <2>2. LockInv' /\ SessionInv'
      BY <1>3 DEF ForgetClears
    <2>3. StoredInv'
      BY <1>3 DEF ForgetClears
    <2>4. PinInv' /\ AcceptedPinArrives'
      BY <1>3 DEF ForgetClears
    <2>5. LookupInv'
      BY <1>3 DEF ForgetClears
    <2>6. Readable' /\ ReadyWasSaved'
      BY <1>3 DEF ForgetClears
    <2>7. CacheFollowsPairing'
      BY <1>3 DEF ForgetClears
    <2>8. VerifiedIsItself'
      BY <1>3 DEF ForgetClears
    <2> QED
      BY <2>1, <2>2, <2>3, <2>4, <2>5, <2>6, <2>7, <2>8
  <1>4. CASE ForgetRemoves
    <2>1. TvTypeOK'
      BY <1>4 DEF ForgetRemoves, LookingUp
    <2>2. LockInv' /\ SessionInv'
      BY <1>4 DEF ForgetRemoves, LookingUp
    <2>3. StoredInv'
      BY <1>4 DEF ForgetRemoves, LookingUp
    <2>4. PinInv' /\ AcceptedPinArrives'
      BY <1>4 DEF ForgetRemoves, LookingUp
    <2>5. LookupInv'
      BY <1>4 DEF ForgetRemoves, LookingUp
    <2>6. Readable' /\ ReadyWasSaved'
      BY <1>4 DEF ForgetRemoves, LookingUp
    <2>7. CacheFollowsPairing'
      BY <1>4 DEF ForgetRemoves, LookingUp
    <2>8. VerifiedIsItself'
      BY <1>4 DEF ForgetRemoves, LookingUp
    <2> QED
      BY <2>1, <2>2, <2>3, <2>4, <2>5, <2>6, <2>7, <2>8
  <1>5. CASE ForgetDropped
    <2>1. TvTypeOK'
      BY <1>5 DEF ForgetDropped
    <2>2. LockInv' /\ SessionInv'
      BY <1>5 DEF ForgetDropped
    <2>3. StoredInv'
      BY <1>5 DEF ForgetDropped
    <2>4. PinInv' /\ AcceptedPinArrives'
      BY <1>5 DEF ForgetDropped
    <2>5. LookupInv'
      BY <1>5 DEF ForgetDropped
    <2>6. Readable' /\ ReadyWasSaved'
      BY <1>5 DEF ForgetDropped
    <2>7. CacheFollowsPairing'
      BY <1>5 DEF ForgetDropped
    <2>8. VerifiedIsItself'
      BY <1>5 DEF ForgetDropped
    <2> QED
      BY <2>1, <2>2, <2>3, <2>4, <2>5, <2>6, <2>7, <2>8
  <1>6. CASE Crash
    <2>1. PairedTypeOK'
      BY <1>6 DEF Crash, SaveBreaks, ForgetMemory
    <2>2. (pc \in [Pairings -> Pcs])'
      BY <1>6 DEF Crash, SaveBreaks, ForgetMemory
    <2>3. (phase \in Phases /\ session \in Pairings \cup {None} /\ verified \in Pairings \cup {None})'
      BY <1>6 DEF Crash, SaveBreaks, ForgetMemory
    <2>4. (identity \in [Pairings -> Pairings \cup {None}])'
      BY <1>6 DEF Crash, SaveBreaks, ForgetMemory
    <2>5. (pin \in [Pairings -> {"open", "sent", "gone"}])'
      BY <1>6 DEF Crash, SaveBreaks, ForgetMemory
    <2>6. (due \in BOOLEAN /\ taken \subseteq Pairings /\ aborted \subseteq Pairings)'
      BY <1>6 DEF Crash, SaveBreaks, ForgetMemory
    <2>7. (saved \subseteq Pairings /\ holder \in Pairings \cup {None})'
      BY <1>6 DEF Crash, SaveBreaks, ForgetMemory
    <2>8. (forget \in {"idle", "waiting", "locked", "cleared"})'
      BY <1>6 DEF Crash, SaveBreaks, ForgetMemory
    <2>9. (overlap \in {"no", "yes"} /\ crashes \in Nat)'
      BY <1>6 DEF Crash, SaveBreaks, ForgetMemory
    <2>10. TvTypeOK'
      BY <2>1, <2>2, <2>3, <2>4, <2>5, <2>6, <2>7, <2>8, <2>9
    <2>11. LockInv' /\ SessionInv'
      BY <1>6 DEF Crash, SaveBreaks, ForgetMemory
    <2>12. StoredInv'
      BY <1>6 DEF Crash, SaveBreaks, ForgetMemory
    <2>13. PinInv' /\ AcceptedPinArrives'
      BY <1>6 DEF Crash, SaveBreaks, ForgetMemory
    <2>14. LookupInv'
      BY <1>6 DEF Crash, SaveBreaks, ForgetMemory
    <2>15. Readable' /\ ReadyWasSaved'
      BY <1>6 DEF Crash, SaveBreaks, ForgetMemory
    <2>16. CacheFollowsPairing'
      BY <1>6 DEF Crash, SaveBreaks, ForgetMemory
    <2>17. VerifiedIsItself'
      BY <1>6 DEF Crash, SaveBreaks, ForgetMemory
    <2> QED
      BY <2>1, <2>2, <2>3, <2>4, <2>5, <2>6, <2>7, <2>8, <2>9, <2>10, <2>11, <2>12, <2>13, <2>14, <2>15, <2>16, <2>17
  <1> QED
    BY <1>1, <1>2, <1>3, <1>4, <1>5, <1>6 DEF Forgets

\* Other requests look the identity up.
LEMMA RequestKeepsInv ==
    ASSUME NEW c \in Callers, TvInv, Request(c)
    PROVE  TvInv'
  <1> USE NoneAssumption, AppleTvAssumption
     DEF TvInv, TvTypeOK, PairedTypeOK, LockInv, SessionInv, StoredInv, PinInv, LookupInv,
         Readable, ReadyWasSaved, CacheFollowsPairing, VerifiedIsItself, AcceptedPinArrives,
         pairedVars, lookupVars, sessionVars, taskVars, historyVars, Phases, Terminal, Pcs,
         Waits, Listening, Holding, AfterSave, BeforePin, Active, TaskFrame, ForgetFrame, GoTo
  <1>1. CASE LookupStarts(c)
    <2>1. TvTypeOK'
      BY <1>1 DEF Request, CacheOverlap, LookupStarts, HasStoredPairing
    <2>2. LockInv' /\ SessionInv'
      BY <1>1 DEF Request, CacheOverlap, LookupStarts, HasStoredPairing
    <2>3. StoredInv'
      BY <1>1 DEF Request, CacheOverlap, LookupStarts, HasStoredPairing
    <2>4. PinInv' /\ AcceptedPinArrives'
      BY <1>1 DEF Request, CacheOverlap, LookupStarts, HasStoredPairing
    <2>5. LookupInv'
      BY <1>1 DEF Request, CacheOverlap, LookupStarts, HasStoredPairing
    <2>6. Readable' /\ ReadyWasSaved'
      BY <1>1 DEF Request, CacheOverlap, LookupStarts, HasStoredPairing
    <2>7. CacheFollowsPairing'
      BY <1>1 DEF Request, CacheOverlap, LookupStarts, HasStoredPairing
    <2>8. VerifiedIsItself'
      BY <1>1 DEF Request, CacheOverlap, LookupStarts, HasStoredPairing
    <2> QED
      BY <2>1, <2>2, <2>3, <2>4, <2>5, <2>6, <2>7, <2>8
  <1>2. CASE LookupEnds(c)
    <2>1. TvTypeOK'
      BY <1>2 DEF Request, CacheOverlap, LookupEnds
    <2>2. LockInv' /\ SessionInv'
      BY <1>2 DEF Request, CacheOverlap, LookupEnds
    <2>3. StoredInv'
      BY <1>2 DEF Request, CacheOverlap, LookupEnds
    <2>4. PinInv' /\ AcceptedPinArrives'
      BY <1>2 DEF Request, CacheOverlap, LookupEnds
    <2>5. LookupInv'
      BY <1>2 DEF Request, CacheOverlap, LookupEnds
    <2>6. Readable' /\ ReadyWasSaved'
      BY <1>2 DEF Request, CacheOverlap, LookupEnds
    <2>7. CacheFollowsPairing'
      BY <1>2 DEF Request, CacheOverlap, LookupEnds
    <2>8. VerifiedIsItself'
      BY <1>2 DEF Request, CacheOverlap, LookupEnds
    <2> QED
      BY <2>1, <2>2, <2>3, <2>4, <2>5, <2>6, <2>7, <2>8
  <1>3. CASE LookupAnswered(c)
    <2>1. TvTypeOK'
      BY <1>3 DEF Request, CacheOverlap, LookupAnswered
    <2>2. LockInv' /\ SessionInv'
      BY <1>3 DEF Request, CacheOverlap, LookupAnswered
    <2>3. StoredInv'
      BY <1>3 DEF Request, CacheOverlap, LookupAnswered
    <2>4. PinInv' /\ AcceptedPinArrives'
      BY <1>3 DEF Request, CacheOverlap, LookupAnswered
    <2>5. LookupInv'
      BY <1>3 DEF Request, CacheOverlap, LookupAnswered
    <2>6. Readable' /\ ReadyWasSaved'
      BY <1>3 DEF Request, CacheOverlap, LookupAnswered
    <2>7. CacheFollowsPairing'
      BY <1>3 DEF Request, CacheOverlap, LookupAnswered
    <2>8. VerifiedIsItself'
      BY <1>3 DEF Request, CacheOverlap, LookupAnswered
    <2> QED
      BY <2>1, <2>2, <2>3, <2>4, <2>5, <2>6, <2>7, <2>8
  <1>4. CASE LookupCaches(c)
    <2>1. TvTypeOK'
      BY <1>4 DEF Request, CacheOverlap, LookupCaches
    <2>2. LockInv' /\ SessionInv'
      BY <1>4 DEF Request, CacheOverlap, LookupCaches
    <2>3. StoredInv'
      BY <1>4 DEF Request, CacheOverlap, LookupCaches
    <2>4. PinInv' /\ AcceptedPinArrives'
      BY <1>4 DEF Request, CacheOverlap, LookupCaches
    <2>5. LookupInv'
      BY <1>4 DEF Request, CacheOverlap, LookupCaches
    <2>6. Readable' /\ ReadyWasSaved'
      BY <1>4 DEF Request, CacheOverlap, LookupCaches
    <2>7. CacheFollowsPairing'
      BY <1>4 DEF Request, CacheOverlap, LookupCaches
    <2>8. VerifiedIsItself'
      BY <1>4 DEF Request, CacheOverlap, LookupCaches
    <2> QED
      BY <2>1, <2>2, <2>3, <2>4, <2>5, <2>6, <2>7, <2>8
  <1> QED
    BY <1>1, <1>2, <1>3, <1>4 DEF Request, LookupStep

-----------------------------------------------------------------------------

\* The invariant holds in every reachable state: one task at a time is past
\* start_lock, tasks of earlier sessions are aborted, and what a look-up will
\* cache is known.
THEOREM TvInvariance == TvSpec => []TvInv
  <1>1. TvInv /\ [TvNext]_tvVars => TvInv'
    <2> SUFFICES ASSUME TvInv, [TvNext]_tvVars PROVE TvInv'
      OBVIOUS
    <2>1. CASE UNCHANGED tvVars
      BY <2>1 DEF tvVars, pairedVars, lookupVars, sessionVars, taskVars, historyVars, TvInv,
             TvTypeOK, PairedTypeOK, LockInv, SessionInv, StoredInv, PinInv, LookupInv,
             Readable, ReadyWasSaved, CacheFollowsPairing, VerifiedIsItself,
             AcceptedPinArrives
    <2>2. CASE \E s \in Pairings : StartPairing(s) \/ TakeLock(s) \/ TaskRuns(s)
                                   \/ TvActs(s) \/ WaitsEnd(s)
      BY <2>2, StartKeepsInv, TaskRunKeepsInv, WaitKeepsInv
    <2>3. CASE \E c \in Callers : Request(c)
      BY <2>3, RequestKeepsInv
    <2>4. QED
      BY <2>1, <2>2, <2>3, SessionKeepsInv, ForgetKeepsInv DEF TvNext
  <1>2. QED
    BY <1>1, TvInitial, PTL DEF TvSpec

\* A session that is ready has its pairing stored.
THEOREM ReadySessionWasSaved == TvSpec => []ReadyWasSaved
  <1>1. TvInv => ReadyWasSaved
    BY DEF TvInv
  <1>2. QED
    BY <1>1, TvInvariance, PTL

\* Only an overlapping look-up or a task dropped at its lock leaves the cache
\* with the identity of a device that is not the paired one.
THEOREM CacheFollows == TvSpec => []CacheFollowsPairing
  <1>1. TvInv => CacheFollowsPairing
    BY DEF TvInv
  <1>2. QED
    BY <1>1, TvInvariance, PTL

\* A session is verified with its own identity.
THEOREM SessionVerifiesItself == TvSpec => []VerifiedIsItself
  <1>1. TvInv => VerifiedIsItself
    BY DEF TvInv
  <1>2. QED
    BY <1>1, TvInvariance, PTL

\* No accepted PIN is lost.
THEOREM PinIsNotLost == TvSpec => []AcceptedPinArrives
  <1>1. TvInv => AcceptedPinArrives
    BY DEF TvInv
  <1>2. QED
    BY <1>1, TvInvariance, PTL

\* A verdict is final, whatever a task does after it.
THEOREM VerdictStays == TvSpec => VerdictIsFinal
  <1>1. TvInv /\ [TvNext]_tvVars
            => [session' = session /\ phase \in Terminal => phase' = phase]_tvVars
    <2> SUFFICES ASSUME TvInv, [TvNext]_tvVars, session' = session, phase \in Terminal
                 PROVE  phase' = phase
      OBVIOUS
    <2> USE DEF sessionVars, Active
    <2>1. CASE Expire \/ Cancel \/ SubmitPin \/ FallsDue \/ UNCHANGED tvVars
      BY <2>1 DEF Expire, Cancel, EndSession, SubmitPin, FallsDue, tvVars
    <2>2. ASSUME NEW s \in Pairings, StartPairing(s) PROVE phase' = phase
      BY <2>2, NoneAssumption DEF StartPairing, TvInv, SessionInv
    <2>3. ASSUME NEW s \in Pairings, TakeLock(s) \/ TvActs(s) \/ WaitsEnd(s)
          PROVE  phase' = phase
      BY <2>3 DEF TakeLock, TvActs, WaitsEnd, Connects, AsksForPin, TvAccepts, VerifyAnswered,
             PairingFails, HandshakeTimesOut, VerifyFails
    <2>4. ASSUME NEW s \in Pairings, TaskRuns(s) PROVE phase' = phase
      BY <2>4 DEF TaskRuns, AwaitPin, SetPhase, PinArrives, SavePairing, SavingFails,
             ClearIdentity, PhaseVerifying, VerifyAtOnce, VerifyStarts, VerifyCaches,
             ReportReady, ReportFailed, TaskDropped
    <2>5. CASE Forgets \/ \E c \in Callers : Request(c)
      BY <2>5 DEF Forgets, ForgetStarts, ForgetLocks, ForgetClears, ForgetRemoves,
             ForgetDropped, ForgetFrame, Request
    <2>6. CASE Crash
      BY <2>6 DEF Crash, TvInv, SessionInv
    <2>7. QED
      BY <2>1, <2>2, <2>3, <2>4, <2>5, <2>6 DEF TvNext
  <1>2. QED
    BY <1>1, TvInvariance, PTL DEF TvSpec, VerdictIsFinal

=============================================================================
