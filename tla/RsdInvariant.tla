---------------------------- MODULE RsdInvariant ----------------------------
(***************************************************************************)
(* The inductive invariant behind the safety properties of RsdInstall:     *)
(* what every place of the call implies for its deadlines, its report, the *)
(* AFC connection, the staging directory, the sessions and the command.    *)
(***************************************************************************)
EXTENDS RsdInstall

UploadPcs == {"upload", "request", "file_close", "file_closing"}
BeforeUpload == {"open1", "identity1", "close1", "sign", "open2", "identity2",
                 "precheck", "plan", "afc"}
BeforeCommand == BeforeUpload \cup UploadPcs \cup {"window", "proxy", "command"}
Planned == {"plan", "afc", "window", "proxy", "command"} \cup UploadPcs
Decided == {"clean", "close2", "done"}

\* How late it can be where.
TimeInv ==
    /\ pc \notin {"sign", "done"} => clock <= expiry
    /\ pc \in BeforeUpload \cup UploadPcs \cup {"window", "verify"}
          => expiry <= WorkDeadline \/ pc = "close1"
    /\ pc \in {"close1", "sign"} => expiry <= WorkDeadline + CloseTimeout
                                    /\ clock <= WorkDeadline + CloseTimeout
    /\ pc \in {"proxy", "command", "answer"} => expiry <= InstallDeadline
    /\ pc = "clean" => expiry <= WorkDeadline + CleanupTimeout
    /\ pc = "close2" => expiry <= OverallTimeout
    /\ clock <= OverallTimeout

\* When the verdict is there, and what the call knew when it gave it.
ReportInv ==
    /\ pc \notin Decided \cup {"close1"} => outcome = "undecided"
    /\ pc = "close1" => outcome \in {"undecided", "not_started"}
    /\ pc \in Decided => outcome # "undecided"
    /\ outcome = "undecided" => error = "none"
    /\ error = "none" /\ outcome # "undecided" => outcome = "installed"
    /\ outcome = "installed" => command # "idle"
    /\ pc \in {"close2", "done"} /\ stagingCleanup = "failed" => error # "none"
    /\ sessionCleanup = "failed" => pc = "done" /\ error # "none"

\* Sessions that are open, or that nobody knows to be closed.
TunnelInv ==
    /\ pc \in {"open1", "sign", "open2"} => tunnels = 0
    /\ pc \notin {"open1", "sign", "open2", "done"} => tunnels = 1
    /\ pc = "done" /\ tunnels > 0 => sessionCleanup = "failed"

\* Every request is answered before the next one is sent on a connection.
AfcInv ==
    /\ read <= processed /\ processed <= sent
    /\ pc \in BeforeUpload => sent = 0
    /\ pc = "upload" => read = sent
    /\ pc \in {"request", "file_closing"} => read + 1 = sent
    /\ pc = "file_close" => timedOut \/ read = sent
    /\ rootCreated <=> sent >= RootRequest

StagingInv ==
    /\ staging # "none" => rootCreated
    /\ pc \in {"close2", "done"} /\ staging = "made" => stagingCleanup = "failed"

CommandInv ==
    /\ command = "idle" <=> \/ pc \in BeforeCommand
                            \/ pc \in Decided /\ command = "idle"
    /\ pc = "verify" => answer # "none"
    /\ answer = "ok" => command = "installed"
    /\ answer = "definitive" => command = "rejected"
    /\ policy = "refuse" /\ pc \in Planned => app = "none"
    /\ policy = "refuse" /\ command # "idle" => app = "none" \/ command = "installed"
    /\ policy = "refuse" /\ outcome = "installed" => command = "installed"

RsdInv ==
    /\ RsdTypeOK
    /\ TimeInv
    /\ ReportInv
    /\ TunnelInv
    /\ AfcInv
    /\ StagingInv
    /\ CommandInv
=============================================================================
