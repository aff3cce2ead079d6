---------------------------- MODULE UpdateProofs ----------------------------
(***************************************************************************)
(* Proofs, for any number of requests, releases, dropped handlers and      *)
(* reboots, that UpdateIInv holds in every reachable state of SelfUpdate,  *)
(* and of the properties of the update that follow from it.                *)
(***************************************************************************)
EXTENDS UpdateInvariant, TLAPS

\* The version that is installed first.
LEMMA FirstVersion == 0 \in Versions
  BY UpdateAssumption DEF Versions

\* Nobody asks, and the runtime is the first one.
LEMMA UpdateInitial == UpdateInit => UpdateIInv
  <1> SUFFICES ASSUME UpdateInit PROVE UpdateIInv
    OBVIOUS
  <1> USE UpdateAssumption DEF UpdateInit, Versions, Upgrading, RollingBack, Served, WritingPcs
  <1>1. UpdateInv
    BY DEF UpdateInv, UpdateTypeOK, LockIsHeld, RequestIsWhole, NeverDowngrades
  <1>2. OrphanInv /\ TargetInv /\ AscendingInv /\ WriterInv
    BY DEF OrphanInv, TargetInv, AscendingInv, WriterInv
  <1>3. ServerInv /\ RuntimeInv /\ StatusInv /\ ServedIsRequested
    BY DEF ServerInv, RuntimeInv, StatusInv, ServedIsRequested, Undisturbed
  <1> QED
    BY <1>1, <1>2, <1>3 DEF UpdateIInv

-----------------------------------------------------------------------------
(* Types *)

\* A step of a request keeps the types.
LEMMA RequestTypes ==
    ASSUME UpdateTypeOK, NEW h \in Requests, AskUpdate(h) \/ RequestRuns(h) \/ HandlerDropped(h)
    PROVE  UpdateTypeOK'
  <1> USE FirstVersion DEF UpdateTypeOK
  <1>1. /\ newest' \in Versions /\ version' \in Versions /\ goal' \in Versions
        /\ binary' \in Versions /\ units' \in Versions
        /\ before' \in [binary : Versions, units : Versions, api : {"up", "down"}]
        /\ api' \in {"up", "down"} /\ job' \in {"none", "active", "interrupted"}
        /\ UNCHANGED <<updater, status, reboots, aborts>>
    BY DEF AskUpdate, RequestRuns, ChooseRelease, FindRequest, WriteBegins, WriteEnds, Publish,
       HandlerDropped, RequestFrame, hostVars
  <1>2. /\ lock' \in Requests \cup {None} /\ gone' \subseteq Requests
        /\ at' \in [Requests -> {"idle", "github", "exists", "write", "torn", "rename"}]
    BY DEF AskUpdate, RequestRuns, ChooseRelease, FindRequest, WriteBegins, WriteEnds, Publish,
       HandlerDropped, Moves, Leaves
  <1>3. target' \in [Requests -> Versions]
    BY DEF AskUpdate, RequestRuns, ChooseRelease, FindRequest, WriteBegins, WriteEnds, Publish,
       HandlerDropped, Leaves
  <1>4. tmp' \in Versions /\ request' \in Versions
    BY DEF AskUpdate, RequestRuns, ChooseRelease, FindRequest, WriteBegins, WriteEnds, Publish,
       HandlerDropped, fileVars
  <1>6. whole' \subseteq {"tmp", "request"}
    <2>1. Written(h) \subseteq {"tmp", "request"}
      BY DEF Written
    <2> QED
      BY <2>1 DEF AskUpdate, RequestRuns, ChooseRelease, FindRequest, WriteBegins, WriteEnds,
         Publish, HandlerDropped, fileVars
  <1>5. orphaned' \in {"yes", "no"} /\ blind' \in {"yes", "no"} /\ drops' \in 0..MaxDrops
    BY UpdateAssumption DEF AskUpdate, RequestRuns, ChooseRelease, FindRequest, WriteBegins,
       WriteEnds, Publish, HandlerDropped, RequestFrame
  <1> QED
    BY <1>1, <1>2, <1>3, <1>4, <1>5, <1>6

\* A line of the updater keeps the types.
LEMMA UpdaterTypes == ASSUME UpdateTypeOK, UpdaterRuns PROVE UpdateTypeOK'
  <1> USE UpdateAssumption, FirstVersion DEF UpdateTypeOK, Updater, Aborts, StatusLost,
          HostFrame, serverVars, Upgrading, RollingBack
  <1>1. CASE Trigger
    BY <1>1 DEF Trigger
  <1>2. CASE ReadRequest
    BY <1>2 DEF ReadRequest
  <1>3. CASE Download
    BY <1>3 DEF Download
  <1>4. CASE BackUp
    BY <1>4 DEF BackUp
  <1>5. CASE InstallStop
    BY <1>5 DEF InstallStop, ApiStops
  <1>6. CASE InstallBinary
    BY <1>6 DEF InstallBinary
  <1>7. CASE InstallUnits
    BY <1>7 DEF InstallUnits
  <1>8. CASE InstallStart
    BY <1>8 DEF InstallStart, ApiStarts
  <1>9. CASE InstallVerify
    BY <1>9 DEF InstallVerify
  <1>10. CASE InstallFails
    BY <1>10 DEF InstallFails
  <1>11. CASE UndoStop
    BY <1>11 DEF UndoStop, ApiStops
  <1>12. CASE UndoBinary
    BY <1>12 DEF UndoBinary
  <1>13. CASE UndoUnits
    BY <1>13 DEF UndoUnits
  <1>14. CASE UndoStart
    BY <1>14 DEF UndoStart, ApiStarts
  <1>15. CASE UndoVerify
    BY <1>15 DEF UndoVerify
  <1>16. CASE UndoFails
    BY <1>16 DEF UndoFails
  <1>17. CASE Fail \/ RemoveRequest
    <2>1. request' \in Versions /\ whole' \subseteq {"tmp", "request"} /\ updater' = "idle"
      BY <1>17 DEF Fail, RemoveRequest
    <2>3. aborts' \in 0..MaxAborts
      BY <1>17, UpdateAssumption DEF Fail, RemoveRequest
    <2>2. status' \in {"failed", "unverified", "unknown", status}
      BY <1>17 DEF Fail, RemoveRequest, FailureSaid
    <2> QED
      BY <1>17, <2>1, <2>2, <2>3 DEF Fail, RemoveRequest
  <1> QED
    BY <1>1, <1>2, <1>3, <1>4, <1>5, <1>6, <1>7, <1>8, <1>9,
       <1>10, <1>11, <1>12, <1>13, <1>14, <1>15, <1>16, <1>17 DEF UpdaterRuns

LEMMA UpdateTypes == ASSUME UpdateTypeOK, UpdateNext PROVE UpdateTypeOK'
  <1> USE FirstVersion DEF UpdateTypeOK
  <1>1. CASE JobStarts \/ JobFinishes
    BY <1>1 DEF JobStarts, JobFinishes, fileVars, hostVars, faultVars
  <1>2. CASE ReleaseAppears
    BY <1>2, UpdateAssumption DEF ReleaseAppears, Versions, serverVars, fileVars, hostVars, faultVars
  <1>3. CASE Reboot
    BY <1>3, UpdateAssumption DEF Reboot
  <1> QED
    BY <1>1, <1>2, <1>3, RequestTypes, UpdaterTypes DEF UpdateNext

-----------------------------------------------------------------------------
(* The handlers *)

\* While a handler that is there is past its lock, it is the only one, and only
\* orphans are beside it.
LEMMA SingleFlight ==
    ASSUME UpdateIInv, NEW h \in Requests, h \notin gone, at[h] # "idle"
    PROVE  \A g \in Requests \ {h} : at[g] = "idle" \/ g \in gone
  BY UpdateAssumption DEF UpdateIInv, UpdateInv, LockIsHeld

\* What a handler does to the versions, whatever step it takes.
LEMMA HandlersAscend ==
    ASSUME UpdateIInv, NEW h \in Requests, AskUpdate(h) \/ RequestRuns(h) \/ HandlerDropped(h)
    PROVE  AscendingInv'
  <1> USE DEF UpdateIInv, UpdateInv, WritingPcs
  <1>1. UpdateTypeOK /\ UpdateTypeOK' /\ AscendingInv
    BY RequestTypes
  <1>2. UNCHANGED <<newest, goal, binary, before>>
    BY DEF AskUpdate, RequestRuns, ChooseRelease, FindRequest, WriteBegins, WriteEnds, Publish,
       HandlerDropped, RequestFrame, hostVars
  <1>3. /\ \A v \in Versions : v \in Nat
        /\ \A g \in Requests : target[g] \in Versions /\ target[g]' \in Versions
    BY <1>1, UpdateAssumption DEF UpdateTypeOK, Versions
  <1>4. CASE AskUpdate(h) \/ ChooseRelease(h) \/ FindRequest(h)
    BY <1>1, <1>2, <1>3, <1>4 DEF UpdateTypeOK, AscendingInv, AskUpdate, ChooseRelease,
       FindRequest, Moves, Leaves, fileVars
  <1>5. CASE WriteBegins(h)
    <2>1. at[h] = "write" /\ h \notin gone /\ tmp' = target[h] /\ UNCHANGED <<request, target, gone>>
          /\ at' = [at EXCEPT ![h] = "torn"]
      BY <1>5 DEF WriteBegins, Moves, OrphanInv
    <2>2. \A g \in Requests \ {h} : at[g] = "idle" \/ g \in gone
      BY <2>1, SingleFlight
    <2> QED
      BY <1>1, <1>2, <1>3, <2>1, <2>2 DEF UpdateTypeOK, AscendingInv
  <1>6. CASE WriteEnds(h)
    BY <1>1, <1>2, <1>3, <1>6 DEF UpdateTypeOK, AscendingInv, WriteEnds, Moves, Leaves
  <1>7. CASE Publish(h)
    <2>1. /\ at[h] = "rename" /\ at' = [at EXCEPT ![h] = "idle"] /\ gone' = gone \ {h}
          /\ target' = [target EXCEPT ![h] = 0]
          /\ tmp' = 0 /\ (request' = request \/ (request' = tmp /\ tmp # 0))
      BY <1>7 DEF Publish, Moves, Leaves
    <2>2. \A g \in Requests \ gone' :
            at'[g] \in {"exists", "write", "torn", "rename"} =>
              g # h /\ g \notin gone /\ at'[g] = at[g] /\ target'[g] = target[g]
      BY <1>1, <2>1 DEF UpdateTypeOK
    <2>3. /\ binary <= goal /\ before.binary <= goal /\ goal <= newest
          /\ request' # 0 => goal <= request'
          /\ request' <= newest /\ tmp' <= newest /\ \A g \in Requests : target'[g] <= newest
      BY <1>1, <1>3, <2>1 DEF UpdateTypeOK, AscendingInv
    <2>4. \A g \in Requests \ gone' :
            at'[g] \in {"exists", "write", "torn", "rename"} =>
              goal <= target'[g] /\ request' <= target'[g] /\ tmp' <= target'[g]
      <3> SUFFICES ASSUME NEW g \in Requests \ gone',
                          at'[g] \in {"exists", "write", "torn", "rename"}
                   PROVE  goal <= target'[g] /\ request' <= target'[g] /\ tmp' <= target'[g]
        OBVIOUS
      <3>1. goal <= target[g] /\ request <= target[g] /\ tmp <= target[g]
        BY <1>1, <2>2 DEF AscendingInv
      <3>2. target[g] \in Nat
        BY <1>3
      <3> QED
        BY <2>1, <2>2, <3>1, <3>2
    <2> QED
      BY <1>2, <2>1, <2>3, <2>4 DEF AscendingInv
  <1>8. CASE HandlerDropped(h)
    BY <1>1, <1>2, <1>3, <1>8 DEF UpdateTypeOK, AscendingInv, HandlerDropped, fileVars
  <1> QED
    BY <1>4, <1>5, <1>6, <1>7, <1>8 DEF RequestRuns

\* The updater goes to what is requested.
LEMMA UpdaterAscends == ASSUME UpdateIInv, UpdaterRuns \/ Reboot PROVE AscendingInv'
  <1> USE DEF UpdateIInv, UpdateInv, HostFrame, Updater, Aborts, serverVars
  <1>1. UpdateTypeOK /\ UpdateTypeOK' /\ AscendingInv /\ newest' = newest
    BY UpdateTypes DEF UpdateNext, UpdaterRuns, Trigger, ReadRequest, Download, BackUp,
       InstallStop, InstallBinary, InstallUnits, InstallStart, InstallVerify, InstallFails,
       UndoStop, UndoBinary, UndoUnits, UndoStart, UndoVerify, UndoFails, Fail, RemoveRequest,
       Reboot
  <1>2. \A v \in Versions : v \in Nat
    BY UpdateAssumption DEF Versions
  <1>3. CASE Trigger
    BY <1>1, <1>2, <1>3 DEF UpdateTypeOK, AscendingInv, Trigger
  <1>4. CASE ReadRequest
    BY <1>1, <1>2, <1>4, UpdateAssumption DEF UpdateTypeOK, AscendingInv, TargetInv, ReadRequest
  <1>5. CASE Download \/ BackUp \/ InstallVerify \/ InstallFails \/ UndoVerify \/ UndoFails
    BY <1>1, <1>5 DEF AscendingInv, Download, BackUp, InstallVerify, InstallFails, UndoVerify,
       UndoFails
  <1>6. CASE InstallUnits \/ InstallStart \/ UndoUnits \/ UndoStart
    BY <1>1, <1>6 DEF AscendingInv, InstallUnits, InstallStart, UndoUnits, UndoStart, ApiStarts
  <1>7. CASE InstallBinary \/ UndoBinary
    BY <1>1, <1>2, <1>7 DEF UpdateTypeOK, AscendingInv, InstallBinary, UndoBinary
  <1>8. CASE InstallStop \/ UndoStop
    BY <1>1, <1>2, <1>8 DEF UpdateTypeOK, AscendingInv, InstallStop, UndoStop, ApiStops, WritingPcs
  <1>9. CASE Fail \/ RemoveRequest
    BY <1>1, <1>2, <1>9 DEF UpdateTypeOK, AscendingInv, Fail, RemoveRequest
  <1>10. CASE Reboot
    BY <1>1, <1>2, <1>10 DEF UpdateTypeOK, AscendingInv, Reboot, WritingPcs
  <1> QED
    BY <1>3, <1>4, <1>5, <1>6, <1>7, <1>8, <1>9, <1>10 DEF UpdaterRuns

\* The parts of the invariant that the server's half leaves to the updater: its
\* lines, the runtime and the outcome.
LEMMA HandlersSpareUpdater ==
    ASSUME UpdateIInv, NEW h \in Requests, AskUpdate(h) \/ RequestRuns(h) \/ HandlerDropped(h)
    PROVE  /\ ServerInv' /\ RuntimeInv' /\ StatusInv' /\ NeverDowngrades'
           /\ UNCHANGED <<api, version, hostVars, aborts>>
  <1>1. UNCHANGED <<api, version, hostVars, aborts>>
    BY DEF AskUpdate, RequestRuns, ChooseRelease, FindRequest, WriteBegins, WriteEnds, Publish,
       HandlerDropped, RequestFrame, hostVars
  <1>2. RuntimeInv' /\ StatusInv' /\ NeverDowngrades'
    BY <1>1 DEF UpdateIInv, UpdateInv, RuntimeInv, StatusInv, NeverDowngrades, hostVars, Upgrading,
       Served
  <1>3. api = "down" => at' = at
    <2> SUFFICES ASSUME api = "down" PROVE at' = at
      OBVIOUS
    <2>1. at[h] = "idle"
      BY DEF UpdateIInv, ServerInv
    <2> QED
      BY <2>1 DEF AskUpdate, RequestRuns, ChooseRelease, FindRequest, WriteBegins, WriteEnds,
         Publish, HandlerDropped, Moves
  <1>4. ServerInv'
    BY <1>1, <1>3 DEF UpdateIInv, ServerInv, hostVars
  <1> QED
    BY <1>1, <1>2, <1>4

\* A step of a handler between its lock and its file.
LEMMA HandlerStep ==
    ASSUME UpdateIInv, NEW h \in Requests,
           AskUpdate(h) \/ ChooseRelease(h) \/ FindRequest(h)
    PROVE  UpdateIInv'
  <1> USE DEF AskUpdate, ChooseRelease, FindRequest, Moves, Leaves, RequestFrame, fileVars,
          hostVars, WritingPcs
  <1> USE DEF UpdateIInv, UpdateInv
  <1>1. UpdateTypeOK'
    BY RequestTypes DEF RequestRuns
  <1>2. LockIsHeld'
    BY UpdateAssumption DEF UpdateTypeOK, LockIsHeld, OrphanInv
  <1>3. RequestIsWhole'
    BY DEF RequestIsWhole
  <1>4. OrphanInv'
    BY DEF UpdateTypeOK, OrphanInv
  <1>5. TargetInv'
    BY UpdateAssumption DEF UpdateTypeOK, TargetInv, Versions
  <1>6. WriterInv'
    BY DEF UpdateTypeOK, WriterInv
  <1>7. ServedIsRequested'
    BY DEF ServedIsRequested, Undisturbed, Upgrading
  <1>8. AscendingInv' /\ ServerInv' /\ RuntimeInv' /\ StatusInv' /\ NeverDowngrades'
    BY HandlersAscend, HandlersSpareUpdater DEF RequestRuns
  <1> QED
    BY <1>1, <1>2, <1>3, <1>4, <1>5, <1>6, <1>7, <1>8

\* A step of a file operation, with its handler or without.
LEMMA FileStep ==
    ASSUME UpdateIInv, NEW h \in Requests,
           WriteBegins(h) \/ WriteEnds(h) \/ Publish(h)
    PROVE  UpdateIInv'
  <1> USE DEF WriteBegins, WriteEnds, Publish, Written, Moves, Leaves, RequestFrame, hostVars,
          WritingPcs
  <1> USE DEF UpdateIInv, UpdateInv
  <1>1. UpdateTypeOK'
    BY RequestTypes DEF RequestRuns
  <1>2. LockIsHeld'
    BY UpdateAssumption DEF UpdateTypeOK, LockIsHeld, OrphanInv
  <1>3. RequestIsWhole'
    BY DEF UpdateTypeOK, RequestIsWhole, WriterInv
  <1>4. OrphanInv'
    BY DEF UpdateTypeOK, OrphanInv
  <1>5. TargetInv'
    <2>1. \A g \in Requests : at'[g] \in {"exists", "write"} \cup WritingPcs =>
              at[g] \in {"exists", "write"} \cup WritingPcs /\ target'[g] = target[g]
      BY DEF UpdateTypeOK
    <2>2. (\E g \in Requests : at'[g] \in WritingPcs) /\ tmp' # 0 => tmp' > version
      BY DEF UpdateTypeOK, TargetInv
    <2>3. updater = "read" => request' # 0
      BY DEF UpdateTypeOK, TargetInv
    <2>4. api = "up" /\ version = binary
      BY DEF UpdateTypeOK, ServerInv
    <2>5. request' = request \/ request' > version
      BY DEF TargetInv
    <2> QED
      BY <2>1, <2>2, <2>3, <2>4, <2>5 DEF TargetInv
  <1>6. WriterInv'
    BY SingleFlight DEF UpdateTypeOK, WriterInv, OrphanInv
  <1>7. ServedIsRequested'
    BY DEF UpdateTypeOK, ServedIsRequested, Undisturbed, WriterInv, RuntimeInv, Served, Upgrading
  <1>8. AscendingInv' /\ ServerInv' /\ RuntimeInv' /\ StatusInv' /\ NeverDowngrades'
    BY HandlersAscend, HandlersSpareUpdater DEF RequestRuns
  <1> QED
    BY <1>1, <1>2, <1>3, <1>4, <1>5, <1>6, <1>7, <1>8

\* A client that goes away.
LEMMA DropStep == ASSUME UpdateIInv, NEW h \in Requests, HandlerDropped(h) PROVE UpdateIInv'
  <1> USE DEF HandlerDropped, fileVars, hostVars, WritingPcs
  <1> USE DEF UpdateIInv, UpdateInv
  <1>1. UpdateTypeOK'
    BY RequestTypes
  <1>2. LockIsHeld'
    BY UpdateAssumption DEF UpdateTypeOK, LockIsHeld, OrphanInv
  <1>3. RequestIsWhole' /\ OrphanInv'
    BY DEF UpdateTypeOK, RequestIsWhole, OrphanInv
  <1>4. TargetInv' /\ WriterInv'
    BY DEF UpdateTypeOK, TargetInv, WriterInv
  <1>5. ServedIsRequested'
    BY DEF ServedIsRequested, Undisturbed, Upgrading
  <1>6. AscendingInv' /\ ServerInv' /\ RuntimeInv' /\ StatusInv' /\ NeverDowngrades'
    BY HandlersAscend, HandlersSpareUpdater
  <1> QED
    BY <1>1, <1>2, <1>3, <1>4, <1>5, <1>6

\* What goes on beside the handlers and the updater.
LEMMA BesideStep == ASSUME UpdateIInv, JobStarts \/ JobFinishes \/ ReleaseAppears PROVE UpdateIInv'
  <1> USE DEF JobStarts, JobFinishes, ReleaseAppears, serverVars, fileVars, hostVars, faultVars
  <1> USE DEF UpdateIInv, UpdateInv
  <1>1. UpdateTypeOK'
    BY UpdateTypes DEF UpdateNext
  <1>2. LockIsHeld' /\ OrphanInv' /\ RequestIsWhole' /\ NeverDowngrades'
    BY DEF LockIsHeld, OrphanInv, RequestIsWhole, NeverDowngrades
  <1>3. TargetInv' /\ WriterInv' /\ ServedIsRequested'
    BY DEF TargetInv, WriterInv, ServedIsRequested, Undisturbed
  <1>4. AscendingInv'
    <2>1. newest \in Nat /\ (newest' = newest \/ newest' = newest + 1)
      BY UpdateAssumption DEF UpdateTypeOK, Versions
    <2>2. \A v \in Versions : v \in Nat
      BY UpdateAssumption DEF Versions
    <2>3. /\ goal \in Nat /\ request \in Nat /\ tmp \in Nat
          /\ \A h \in Requests : target[h] \in Nat
      BY <2>2 DEF UpdateTypeOK
    <2> QED
      BY <2>1, <2>3 DEF AscendingInv
  <1>5. ServerInv' /\ RuntimeInv' /\ StatusInv'
    BY DEF ServerInv, RuntimeInv, StatusInv
  <1> QED
    BY <1>1, <1>2, <1>3, <1>4, <1>5

-----------------------------------------------------------------------------
(* The updater and the host *)

\* A version is installed again only after a run that was cut short.
LEMMA RestartIsLate ==
    ASSUME UpdateTypeOK', RuntimeInv', AscendingInv'
    PROVE  NeverDowngrades'
  <1>1. goal' \in Nat /\ before'.binary \in Nat /\ aborts' \in Nat
    BY UpdateAssumption DEF UpdateTypeOK, Versions
  <1> QED
    BY <1>1 DEF RuntimeInv, AscendingInv, NeverDowngrades, Served

\* The lines of the updater that leave the runtime and the server alone.
QuietLine ==
    \/ Trigger \/ ReadRequest \/ Download \/ BackUp \/ InstallVerify \/ InstallFails
    \/ UndoVerify \/ UndoFails \/ Fail \/ RemoveRequest

LEMMA QuietRuntime == ASSUME UpdateIInv, QuietLine PROVE RuntimeInv' /\ NeverDowngrades'
  <1> USE DEF UpdateIInv, UpdateInv, Updater, Aborts, HostFrame, Upgrading, RollingBack, Served
  <1>1. RuntimeInv /\ UpdateTypeOK /\ aborts' \in Nat /\ (aborts' = 0 => aborts = 0)
    BY UpdateAssumption DEF QuietLine, Trigger, ReadRequest, Download, BackUp, InstallVerify,
       InstallFails, UndoVerify, UndoFails, Fail, RemoveRequest, UpdateTypeOK
  <1>2. RuntimeInv'
    <2> USE <1>1 DEF RuntimeInv
    <2>1. CASE Trigger
      BY <2>1 DEF Trigger
    <2>2. CASE ReadRequest
      BY <2>2 DEF ReadRequest, TargetInv, serverVars
    <2>3. CASE Download \/ BackUp
      BY <2>3 DEF Download, BackUp, serverVars
    <2>4. CASE InstallVerify
      BY <2>4 DEF InstallVerify, serverVars
    <2>5. CASE InstallFails \/ UndoVerify \/ UndoFails
      BY <2>5 DEF InstallFails, UndoVerify, UndoFails, serverVars
    <2>6. CASE Fail \/ RemoveRequest
      BY <2>6 DEF Fail, RemoveRequest, serverVars
    <2> QED
      BY <2>1, <2>2, <2>3, <2>4, <2>5, <2>6 DEF QuietLine
  <1>3. AscendingInv'
    BY UpdaterAscends DEF QuietLine, UpdaterRuns
  <1>4. UpdateTypeOK'
    BY UpdaterTypes DEF QuietLine, UpdaterRuns
  <1>5. NeverDowngrades'
    BY <1>2, <1>3, <1>4, RestartIsLate
  <1> QED
    BY <1>2, <1>5

LEMMA QuietStep == ASSUME UpdateIInv, QuietLine PROVE UpdateIInv'
  <1> USE DEF QuietLine, Trigger, ReadRequest, Download, BackUp,
          InstallVerify, InstallFails, UndoVerify, UndoFails, Fail, RemoveRequest, Updater,
          Aborts, StatusLost, FailureSaid, HostFrame, serverVars, Upgrading, RollingBack, Served,
          WritingPcs
  <1> USE DEF UpdateIInv, UpdateInv
  <1>1. UpdateTypeOK'
    BY UpdaterTypes DEF UpdaterRuns
  <1>2. LockIsHeld' /\ OrphanInv'
    BY DEF LockIsHeld, OrphanInv
  <1>3. RequestIsWhole' /\ WriterInv'
    BY DEF RequestIsWhole, WriterInv
  <1>4. NeverDowngrades' /\ RuntimeInv'
    BY QuietRuntime
  <1>5. TargetInv'
    BY UpdateAssumption DEF UpdateTypeOK, TargetInv
  <1>6. ServerInv'
    BY DEF UpdateTypeOK, ServerInv
  <1>7. StatusInv'
    BY DEF UpdateTypeOK, StatusInv, RuntimeInv, ServerInv
  <1>8. ServedIsRequested'
    BY DEF UpdateTypeOK, ServedIsRequested, Undisturbed
  <1>9. AscendingInv'
    BY UpdaterAscends DEF UpdaterRuns
  <1> QED
    BY <1>1, <1>2, <1>3, <1>4, <1>5, <1>6, <1>7, <1>8, <1>9

\* The lines that stop the server, change the runtime or start it again.
RuntimeLine ==
    \/ InstallStop \/ InstallBinary \/ InstallUnits \/ InstallStart
    \/ UndoStop \/ UndoBinary \/ UndoUnits \/ UndoStart

LEMMA RuntimeStep == ASSUME UpdateIInv, RuntimeLine PROVE UpdateIInv'
  <1> USE DEF RuntimeLine, InstallStop, InstallBinary, InstallUnits,
          InstallStart, UndoStop, UndoBinary, UndoUnits, UndoStart, ApiStops, ApiStarts, Updater,
          HostFrame, serverVars, Upgrading, RollingBack, Served, WritingPcs
  <1> USE DEF UpdateIInv, UpdateInv
  <1>1. UpdateTypeOK'
    BY UpdaterTypes DEF UpdaterRuns
  <1>2. LockIsHeld' /\ OrphanInv'
    BY UpdateAssumption DEF UpdateTypeOK, LockIsHeld, OrphanInv
  <1>3. RequestIsWhole' /\ WriterInv'
    BY DEF RequestIsWhole, WriterInv
  <1>4. RuntimeInv'
    BY DEF UpdateTypeOK, RuntimeInv
  <1>5. TargetInv'
    BY DEF UpdateTypeOK, TargetInv, ServerInv
  <1>6. ServerInv'
    BY DEF UpdateTypeOK, ServerInv
  <1>7. StatusInv'
    BY DEF UpdateTypeOK, StatusInv
  <1>8. ServedIsRequested'
    BY DEF UpdateTypeOK, ServedIsRequested, Undisturbed
  <1>9. AscendingInv'
    BY UpdaterAscends DEF UpdaterRuns
  <1>10. NeverDowngrades'
    BY <1>1, <1>4, <1>9, RestartIsLate
  <1> QED
    BY <1>1, <1>2, <1>3, <1>4, <1>5, <1>6, <1>7, <1>8, <1>9, <1>10

\* After a boot nothing of a request is left, and the server runs what is on disk.
LEMMA RebootStep == ASSUME UpdateIInv, Reboot PROVE UpdateIInv'
  <1> USE DEF Reboot, Upgrading, RollingBack, Served, WritingPcs
  <1> USE DEF UpdateIInv, UpdateInv
  <1>1. UpdateTypeOK'
    BY UpdateTypes DEF UpdateNext
  <1>2. LockIsHeld' /\ OrphanInv' /\ RequestIsWhole' /\ WriterInv'
    BY UpdateAssumption DEF LockIsHeld, OrphanInv, RequestIsWhole, WriterInv
  <1>3. NeverDowngrades' /\ RuntimeInv' /\ TargetInv' /\ ServerInv' /\ ServedIsRequested'
    BY DEF NeverDowngrades, RuntimeInv, TargetInv, ServerInv, ServedIsRequested
  <1>4. StatusInv'
    BY DEF StatusInv
  <1>5. AscendingInv'
    BY UpdaterAscends
  <1> QED
    BY <1>1, <1>2, <1>3, <1>4, <1>5

-----------------------------------------------------------------------------
(* The invariant and what follows from it *)

\* UpdateIInv holds in every reachable state.
THEOREM UpdateInvariance == UpdateSpec => []UpdateIInv
  <1>1. UpdateIInv /\ [UpdateNext]_updateVars => UpdateIInv'
    <2> SUFFICES ASSUME UpdateIInv, [UpdateNext]_updateVars PROVE UpdateIInv'
      OBVIOUS
    <2>1. CASE UNCHANGED updateVars
      BY <2>1 DEF updateVars, serverVars, fileVars, hostVars, faultVars, UpdateIInv, UpdateInv,
         UpdateTypeOK, LockIsHeld, RequestIsWhole, NeverDowngrades, OrphanInv, TargetInv,
         AscendingInv, WriterInv, ServerInv, RuntimeInv, StatusInv, ServedIsRequested, Undisturbed
    <2>2. CASE UpdateNext
      BY <2>2, HandlerStep, FileStep, DropStep, BesideStep, QuietStep, RuntimeStep, RebootStep
         DEF UpdateNext, RequestRuns, UpdaterRuns, QuietLine, RuntimeLine
    <2> QED
      BY <2>1, <2>2
  <1> QED
    BY <1>1, UpdateInitial, PTL DEF UpdateSpec

\* The requests hold one lock, the file is whole when the updater reads it, and an
\* update never goes to an older version: for any number of handlers that are dropped
\* and of runs that are cut short.
THEOREM UpdatesAreOrdered == UpdateSpec => []UpdateInv
  <1>1. UpdateIInv => UpdateInv
    BY DEF UpdateIInv
  <1> QED
    BY <1>1, UpdateInvariance, PTL

\* The request that the updater serves, and removes, is the one it read.
THEOREM RequestIsServed == UpdateSpec => []ServedIsRequested
  <1>1. UpdateIInv => ServedIsRequested
    BY DEF UpdateIInv
  <1> QED
    BY <1>1, UpdateInvariance, PTL

\* A failed update has restored the runtime it found, and a successful one runs
\* with all of its files, whichever of its steps or of the rollback failed.
THEOREM OutcomesAreTrue == UpdateSpec => []OutcomeIsTrue
  <1>1. UpdateIInv => OutcomeIsTrue
    BY DEF UpdateIInv, OutcomeIsTrue, FailureRestores, SuccessRuns, StatusInv, ServerInv, RuntimeInv
  <1> QED
    BY <1>1, UpdateInvariance, PTL
=============================================================================
