---------------------------- MODULE PairingProofs ----------------------------
(***************************************************************************)
(* Proofs, for any number of sessions and requests and for all deadlines,  *)
(* that WirelessInv holds in every reachable state of WirelessPairing, and *)
(* of the properties that follow from it.                                  *)
(***************************************************************************)
EXTENDS WirelessInvariant, TLAPS

\* Nobody has asked for anything yet.
LEMMA WirelessInitial == WirelessInit => WirelessInv
  <1> SUFFICES ASSUME WirelessInit PROVE WirelessInv
    OBVIOUS
  <1> USE NoneAssumption DEF WirelessInit, PairedInit, Terminal
  <1>1. WirelessTypeOK
    BY DEF WirelessTypeOK, PairedTypeOK, SessionTypeOK, TaskTypeOK, StartTypeOK, Phases, Pcs
  <1>2. StartInv /\ TaskInv /\ AbortInv /\ AdvertInv
    BY DEF StartInv, TaskInv, AbortInv, AdvertInv
  <1>3. PairedIsStored /\ PairingReadable /\ WaitsEndInTime /\ EndedIsQuiet
    BY DEF PairedIsStored, PairingReadable, Readable, WaitsEndInTime, EndedIsQuiet
  <1>4. QED
    BY <1>1, <1>2, <1>3 DEF WirelessInv

\* What the clients do to the session, and the start under start_lock.
LEMMA RequestKeepsInv == WirelessInv /\ Requests => WirelessInv'
  <1> SUFFICES ASSUME WirelessInv, Requests PROVE WirelessInv'
    OBVIOUS
  <1> USE NoneAssumption, WirelessAssumption
     DEF WirelessInv, WirelessTypeOK, PairedTypeOK, SessionTypeOK, TaskTypeOK, StartTypeOK,
         StartInv, TaskInv, AbortInv, AdvertInv,
         PairedIsStored, PairingReadable, Readable, WaitsEndInTime, EndedIsQuiet,
         pairedVars, lookupVars, sessionVars, taskVars, startVars, advertVars, boundVars,
         Phases, Terminal, Pcs, Waits, Active, TaskActive, SessionExpired, EndSession,
         Fresh, At, Waiting, GoTo, WaitFor, TaskEnds, TaskEndsQuietly, TaskFrame,
         StepWait, StepDeadline, Earlier, Later, Save, SaveBreaks
  <1>1. CASE Status
    <2>1. PairedTypeOK' /\ SessionTypeOK'
      BY <1>1 DEF Status
    <2>2. TaskTypeOK' /\ StartTypeOK'
      BY <1>1 DEF Status
    <2>3. StartInv' /\ TaskInv'
      BY <1>1 DEF Status
    <2>4. AbortInv' /\ AdvertInv'
      BY <1>1 DEF Status
    <2>5. PairedIsStored' /\ PairingReadable' /\ WaitsEndInTime' /\ EndedIsQuiet'
      BY <1>1 DEF Status
    <2> QED
      BY <2>1, <2>2, <2>3, <2>4, <2>5
  <1>2. CASE Cancel
    <2>1. PairedTypeOK' /\ SessionTypeOK'
      BY <1>2 DEF Cancel
    <2>2. TaskTypeOK' /\ StartTypeOK'
      BY <1>2 DEF Cancel
    <2>3. StartInv' /\ TaskInv'
      BY <1>2 DEF Cancel
    <2>4. AbortInv' /\ AdvertInv'
      BY <1>2 DEF Cancel
    <2>5. PairedIsStored' /\ PairingReadable' /\ WaitsEndInTime' /\ EndedIsQuiet'
      BY <1>2 DEF Cancel
    <2> QED
      BY <2>1, <2>2, <2>3, <2>4, <2>5
  <1>3. CASE StartChecks
    <2>1. PairedTypeOK' /\ SessionTypeOK'
      BY <1>3 DEF StartChecks
    <2>2. TaskTypeOK' /\ StartTypeOK'
      BY <1>3 DEF StartChecks
    <2>3. StartInv' /\ TaskInv'
      BY <1>3 DEF StartChecks
    <2>4. AbortInv' /\ AdvertInv'
      BY <1>3 DEF StartChecks
    <2>5. PairedIsStored' /\ PairingReadable' /\ WaitsEndInTime' /\ EndedIsQuiet'
      BY <1>3 DEF StartChecks
    <2> QED
      BY <2>1, <2>2, <2>3, <2>4, <2>5
  <1>4. CASE StartAdvertises
    BY <1>4 DEF StartAdvertises
  <1>5. CASE StartFails
    BY <1>5 DEF StartFails
  <1>6. CASE StartSpawns
    BY <1>6 DEF StartSpawns
  <1>7. CASE StartStores
    BY <1>7 DEF StartStores
  <1>8. CASE StartDropped
    BY <1>8 DEF StartDropped
  <1> QED
    BY <1>1, <1>2, <1>3, <1>4, <1>5, <1>6, <1>7, <1>8 DEF Requests

\* What the task does between its waits.
LEMMA TaskRunKeepsInv == WirelessInv /\ TaskRuns => WirelessInv'
  <1> SUFFICES ASSUME WirelessInv, TaskRuns PROVE WirelessInv'
    OBVIOUS
  <1> USE NoneAssumption, WirelessAssumption
     DEF WirelessInv, WirelessTypeOK, PairedTypeOK, SessionTypeOK, TaskTypeOK, StartTypeOK,
         StartInv, TaskInv, AbortInv, AdvertInv,
         PairedIsStored, PairingReadable, Readable, WaitsEndInTime, EndedIsQuiet,
         pairedVars, lookupVars, sessionVars, taskVars, startVars, advertVars, boundVars,
         Phases, Terminal, Pcs, Waits, Active, TaskActive, SessionExpired, EndSession,
         Fresh, At, Waiting, GoTo, WaitFor, TaskEnds, TaskEndsQuietly, TaskFrame,
         StepWait, StepDeadline, Earlier, Later, Save, SaveBreaks
  <1>1. CASE TaskBegins
    <2>1. PairedTypeOK' /\ SessionTypeOK'
      BY <1>1 DEF TaskBegins
    <2>2. TaskTypeOK' /\ StartTypeOK'
      BY <1>1 DEF TaskBegins
    <2>3. StartInv' /\ TaskInv'
      BY <1>1 DEF TaskBegins
    <2>4. AbortInv' /\ AdvertInv'
      BY <1>1 DEF TaskBegins
    <2>5. PairedIsStored' /\ PairingReadable' /\ WaitsEndInTime' /\ EndedIsQuiet'
      BY <1>1 DEF TaskBegins
    <2> QED
      BY <2>1, <2>2, <2>3, <2>4, <2>5
  <1>2. CASE PhaseIsSet
    <2>1. PairedTypeOK' /\ SessionTypeOK'
      BY <1>2 DEF PhaseIsSet
    <2>2. TaskTypeOK' /\ StartTypeOK'
      BY <1>2 DEF PhaseIsSet
    <2>3. StartInv' /\ TaskInv'
      BY <1>2 DEF PhaseIsSet
    <2>4. AbortInv' /\ AdvertInv'
      BY <1>2 DEF PhaseIsSet
    <2>5. PairedIsStored' /\ PairingReadable' /\ WaitsEndInTime' /\ EndedIsQuiet'
      BY <1>2 DEF PhaseIsSet
    <2> QED
      BY <2>1, <2>2, <2>3, <2>4, <2>5
  <1>3. CASE SetSetupCode
    BY <1>3 DEF SetSetupCode
  <1>4. CASE FinalizeStores
    BY <1>4 DEF FinalizeStores
  <1>5. CASE FinalizeCannotSave
    BY <1>5 DEF FinalizeCannotSave
  <1>6. CASE FinalizeFails
    BY <1>6 DEF FinalizeFails
  <1>7. CASE FinalizeIgnored
    BY <1>7 DEF FinalizeIgnored
  <1>8. CASE Cleanup
    BY <1>8 DEF Cleanup
  <1>9. CASE FinishWithdraws
    BY <1>9 DEF FinishWithdraws
  <1>10. CASE FinishSetsPhase
    BY <1>10 DEF FinishSetsPhase
  <1>11. CASE TaskDropped
    BY <1>11 DEF TaskDropped
  <1> QED
    BY <1>1, <1>2, <1>3, <1>4, <1>5, <1>6, <1>7, <1>8, <1>9, <1>10, <1>11 DEF TaskRuns

\* How a wait of the task ends.
LEMMA DeviceKeepsInv == WirelessInv /\ DeviceActs => WirelessInv'
  <1> SUFFICES ASSUME WirelessInv, DeviceActs PROVE WirelessInv'
    OBVIOUS
  <1> USE NoneAssumption, WirelessAssumption
     DEF WirelessInv, WirelessTypeOK, PairedTypeOK, SessionTypeOK, TaskTypeOK, StartTypeOK,
         StartInv, TaskInv, AbortInv, AdvertInv,
         PairedIsStored, PairingReadable, Readable, WaitsEndInTime, EndedIsQuiet,
         pairedVars, lookupVars, sessionVars, taskVars, startVars, advertVars, boundVars,
         Phases, Terminal, Pcs, Waits, Active, TaskActive, SessionExpired, EndSession,
         Fresh, At, Waiting, GoTo, WaitFor, TaskEnds, TaskEndsQuietly, TaskFrame,
         StepWait, StepDeadline, Earlier, Later, Save, SaveBreaks
  <1>1. CASE DeviceConnects
    BY <1>1 DEF DeviceConnects
  <1>2. CASE AcceptFails
    BY <1>2 DEF AcceptFails
  <1>3. CASE DeviceWantsCode
    BY <1>3 DEF DeviceWantsCode
  <1>4. CASE HandshakeFails
    BY <1>4 DEF HandshakeFails
  <1>5. CASE HandshakeTimesOut
    BY <1>5 DEF HandshakeTimesOut
  <1>6. CASE HandshakeCompletes
    BY <1>6 DEF HandshakeCompletes
  <1>7. CASE DiscoveryEnds
    BY <1>7 DEF DiscoveryEnds
  <1>8. CASE CommitStepSucceeds
    BY <1>8 DEF CommitStepSucceeds
  <1>9. CASE CommitStepFails
    BY <1>9 DEF CommitStepFails
  <1> QED
    BY <1>1, <1>2, <1>3, <1>4, <1>5, <1>6, <1>7, <1>8, <1>9 DEF DeviceActs

\* Time passes, identities are looked up, the server restarts.
LEMMA OtherKeepsInv == WirelessInv /\ (Tick \/ Lookup \/ Crash) => WirelessInv'
  <1> SUFFICES ASSUME WirelessInv, Tick \/ Lookup \/ Crash PROVE WirelessInv'
    OBVIOUS
  <1> USE NoneAssumption, WirelessAssumption
     DEF WirelessInv, WirelessTypeOK, PairedTypeOK, SessionTypeOK, TaskTypeOK, StartTypeOK,
         StartInv, TaskInv, AbortInv, AdvertInv,
         PairedIsStored, PairingReadable, Readable, WaitsEndInTime, EndedIsQuiet,
         pairedVars, lookupVars, sessionVars, taskVars, startVars, advertVars, boundVars,
         Phases, Terminal, Pcs, Waits, Active, TaskActive, SessionExpired, EndSession,
         Fresh, At, Waiting, GoTo, WaitFor, TaskEnds, TaskEndsQuietly, TaskFrame,
         StepWait, StepDeadline, Earlier, Later, Save, SaveBreaks
  <1>1. CASE Tick
    BY <1>1 DEF Tick
  <1>2. CASE Lookup
    <2>1. PICK c \in Callers : LookupStep(c)
      BY <1>2 DEF Lookup
    <2>2. PairedTypeOK' /\ UNCHANGED <<stored, key>>
      BY <2>1 DEF LookupStep, LookupStarts, LookupEnds, LookupAnswered, LookupCaches,
             HasStoredPairing
    <2>3. QED
      BY <1>2, <2>2 DEF Lookup
  <1>3. CASE Crash
    <2>1. PairedTypeOK' /\ SessionTypeOK'
      BY <1>3 DEF Crash, ForgetMemory
    <2>2. TaskTypeOK' /\ StartTypeOK'
      BY <1>3 DEF Crash, ForgetMemory
    <2>3. StartInv' /\ TaskInv'
      BY <1>3 DEF Crash, ForgetMemory
    <2>4. AbortInv' /\ AdvertInv'
      BY <1>3 DEF Crash, ForgetMemory
    <2>5. PairedIsStored' /\ PairingReadable' /\ WaitsEndInTime' /\ EndedIsQuiet'
      BY <1>3 DEF Crash, ForgetMemory
    <2> QED
      BY <2>1, <2>2, <2>3, <2>4, <2>5
  <1> QED
    BY <1>1, <1>2, <1>3

-----------------------------------------------------------------------------

\* The invariant holds in every reachable state: ids are fresh, at most one
\* task serves the session that is kept, and an abort is never overlooked.
THEOREM WirelessInvariance == WirelessSpec => []WirelessInv
  <1>1. WirelessInv /\ [WirelessNext]_wirelessVars => WirelessInv'
    <2> SUFFICES ASSUME WirelessInv, [WirelessNext]_wirelessVars PROVE WirelessInv'
      OBVIOUS
    <2>1. CASE UNCHANGED wirelessVars
      BY <2>1 DEF wirelessVars, pairedVars, lookupVars, sessionVars, taskVars, startVars,
             advertVars, boundVars, WirelessInv, WirelessTypeOK, PairedTypeOK, SessionTypeOK,
         TaskTypeOK, StartTypeOK, StartInv,
             TaskInv, AbortInv, AdvertInv, PairedIsStored, PairingReadable, Readable,
             WaitsEndInTime, EndedIsQuiet
    <2>2. QED
      BY <2>1, RequestKeepsInv, TaskRunKeepsInv, DeviceKeepsInv, OtherKeepsInv
         DEF WirelessNext
  <1>2. QED
    BY <1>1, WirelessInitial, PTL DEF WirelessSpec

\* A session that says it is paired is the one on disk.
THEOREM PairedSessionIsStored == WirelessSpec => []PairedIsStored
  <1>1. WirelessInv => PairedIsStored
    BY DEF WirelessInv
  <1>2. QED
    BY <1>1, WirelessInvariance, PTL

\* The pairing on disk can be decrypted, wherever a save was interrupted.
THEOREM StoredPairingIsReadable == WirelessSpec => []PairingReadable
  <1>1. WirelessInv => PairingReadable
    BY DEF WirelessInv
  <1>2. QED
    BY <1>1, WirelessInvariance, PTL

\* No stage of a pairing outlives its session, for any number of addresses.
THEOREM PairingWaitsEndInTime == WirelessSpec => []WaitsEndInTime
  <1>1. WirelessInv => WaitsEndInTime
    BY DEF WirelessInv
  <1>2. QED
    BY <1>1, WirelessInvariance, PTL

\* A session that is over, and whose task is gone, is not advertised.
THEOREM EndedSessionIsQuiet == WirelessSpec => []EndedIsQuiet
  <1>1. WirelessInv => EndedIsQuiet
    BY DEF WirelessInv
  <1>2. QED
    BY <1>1, WirelessInvariance, PTL

\* Only the end of a commitment writes a pairing.
LEMMA OnlyFinalizeStores ==
    ASSUME WirelessInv, [WirelessNext]_wirelessVars
    PROVE  stored' # stored => FinalizeStores
  <1> USE DEF pairedVars
  <1>1. CASE Requests
    BY <1>1 DEF Requests, Status, Cancel, StartChecks, StartAdvertises, StartFails,
           StartSpawns, StartStores, StartDropped
  <1>2. CASE TaskRuns
    BY <1>2 DEF TaskRuns, TaskBegins, PhaseIsSet, SetSetupCode, FinalizeCannotSave, SaveBreaks,
           FinalizeFails, FinalizeIgnored, Cleanup, FinishWithdraws, FinishSetsPhase,
           TaskDropped
  <1>3. CASE DeviceActs
    BY <1>3 DEF DeviceActs, DeviceConnects, AcceptFails, DeviceWantsCode, HandshakeFails,
           HandshakeTimesOut, HandshakeCompletes, DiscoveryEnds, CommitStepSucceeds,
           CommitStepFails
  <1>4. CASE Tick \/ Crash \/ UNCHANGED wirelessVars
    BY <1>4 DEF Tick, Crash, SaveBreaks, wirelessVars
  <1>5. CASE Lookup
    BY <1>5 DEF Lookup, LookupStep, LookupStarts, LookupEnds, LookupAnswered, LookupCaches
  <1>6. QED
    BY <1>1, <1>2, <1>3, <1>4, <1>5 DEF WirelessNext

\* A session that a client cancelled, or saw expire, is never stored, however
\* far its task had come.
THEOREM EndedSessionStoresNothing == WirelessSpec => EndedStoresNothing
  <1>1. WirelessInv /\ [WirelessNext]_wirelessVars
            => [stored' # stored => stored' \notin ended]_wirelessVars
    <2> SUFFICES ASSUME WirelessInv, [WirelessNext]_wirelessVars, stored' # stored
                 PROVE  stored' \notin ended
      OBVIOUS
    <2>1. FinalizeStores
      BY OnlyFinalizeStores
    <2>2. QED
      BY <2>1 DEF FinalizeStores, At, TaskActive, Save, WirelessInv, AbortInv
  <1>2. QED
    BY <1>1, WirelessInvariance, PTL DEF WirelessSpec, EndedStoresNothing

=============================================================================
