-------------------------- MODULE UpdateInvariant --------------------------
(***************************************************************************)
(* The inductive invariant of SelfUpdate, in named parts: who holds the    *)
(* lock and writes which file, and what of the runtime is known at each    *)
(* line of the updater.                                                    *)
(***************************************************************************)
EXTENDS SelfUpdate

WritingPcs == {"torn", "rename"}
Served == {"download", "backup", "remove"} \cup Upgrading

\* A handler that was dropped lives on as a file operation only, and those that
\* are there form a single flight.
OrphanInv ==
    /\ \A h \in gone : at[h] \in WritingPcs
    /\ orphaned = "no" => gone = {}

\* Handlers ask for more than the server that runs, and so does the temporary file
\* they write and the request they leave; later it may ask for what is there, if a
\* run of the updater was cut short.
TargetInv ==
    /\ \A h \in Requests : at[h] \in {"exists", "write"} \cup WritingPcs => target[h] > version
    /\ (\E h \in Requests : at[h] \in WritingPcs) /\ tmp # 0 => tmp > version
    /\ updater = "read" => request # 0
    /\ updater \in {"idle", "read"} /\ request # 0 /\ aborts = 0 => request > binary

\* Versions only go up, also from one file to the next: what is there, what the
\* updater serves, the request, what a handler writes, what is released.
AscendingInv ==
    /\ binary <= goal /\ before.binary <= goal
    /\ request # 0 => goal <= request
    /\ (\E h \in Requests : at[h] \in WritingPcs) /\ tmp # 0 => goal <= tmp /\ request <= tmp
    /\ \A h \in Requests \ gone :
          at[h] \in {"exists", "write"} \cup WritingPcs =>
              goal <= target[h] /\ request <= target[h] /\ tmp <= target[h]
    /\ goal <= newest /\ request <= newest /\ tmp <= newest
    /\ \A h \in Requests : target[h] <= newest

\* A handler that is alone renames a file that has all its bytes; if it also found
\* no request, nobody else writes one.
WriterInv ==
    orphaned = "no" =>
        \A h \in Requests :
            /\ at[h] = "rename" /\ tmp # 0 => "tmp" \in whole
            /\ blind = "no" /\ at[h] \in {"write"} \cup WritingPcs => request = 0

\* The server runs what is on disk, and serves nobody while it is stopped. It runs
\* where the updater has not stopped it, if it ran before.
ServerInv ==
    /\ api = "up" => version = binary
    /\ api = "down" => \A h \in Requests : at[h] = "idle"
    /\ updater \in {"read", "download", "backup", "stop", "fail"} /\ before.api = "up" =>
          api = "up"
    /\ updater = "remove" => api = "up"
    /\ updater \in {"binary", "units", "start", "undo_binary", "undo_units", "undo_start"}
          => api = "down"

\* The runtime at each line of the installation and of the rollback.
RuntimeInv ==
    /\ updater \in {"read", "download", "backup", "stop", "fail"} =>
          binary = before.binary /\ units = before.units
    /\ updater \in {"units", "start", "verify", "remove"} => binary = goal
    /\ updater \in {"start", "verify", "remove"} => units = goal
    /\ updater \in {"undo_units", "undo_start", "undo_verify"} => binary = before.binary
    /\ updater \in {"undo_start", "undo_verify"} => units = before.units
    /\ updater = "remove" => version = goal
    /\ updater \in Served => goal # 0 /\ (aborts = 0 => goal > before.binary)

\* "failed" is said of a runtime that was restored and "succeeded" of the one that
\* runs, until the next update writes its own.
StatusInv ==
    /\ status = "failed" =>
        /\ updater \in {"idle", "read", "fail"}
        /\ binary = before.binary /\ units = before.units
        /\ before.api = "up" => api = "up"
    /\ status = "succeeded" =>
        /\ updater \in {"idle", "read", "fail", "remove"}
        /\ binary = goal /\ units = goal /\ api = "up"

UpdateIInv ==
    /\ UpdateInv
    /\ OrphanInv
    /\ TargetInv
    /\ AscendingInv
    /\ WriterInv
    /\ ServerInv
    /\ RuntimeInv
    /\ StatusInv
    /\ ServedIsRequested
=============================================================================
