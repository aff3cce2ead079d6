--------------------------- MODULE InstallPromise ---------------------------
(***************************************************************************)
(* What an installation over RSD promises its caller, without sessions,    *)
(* deadlines or uploads: at most one install command, and one verdict that *)
(* is true of the device when it is given and that no late effect of the   *)
(* command can turn into a lie.                                            *)
(*                                                                         *)
(* The caller chooses what happens to an app that is there already: the    *)
(* diagnostic installation refuses, jobs and refreshes upgrade.            *)
(***************************************************************************)

VARIABLES
    policy,   \* ExistingAppPolicy: "refuse" or "upgrade"
    app,      \* the build of the app on the device: "none", "old" or "new"
    command,  \* what became of the install command
    verdict   \* RsdInstallOutcome, "undecided" until there is one

promiseVars == <<policy, app, command, verdict>>

Policies == {"refuse", "upgrade"}
Builds == {"none", "old", "new"}
Fates == {"idle", "sent", "lost", "installed", "rejected"}
Verdicts == {"not_started", "installed", "not_installed", "unknown"}

PromiseTypeOK ==
    /\ policy \in Policies
    /\ app \in Builds
    /\ command \in Fates
    /\ verdict \in Verdicts \cup {"undecided"}

PromiseInit ==
    /\ policy \in Policies
    /\ app \in {"none", "old"}
    /\ command = "idle"
    /\ verdict = "undecided"

-----------------------------------------------------------------------------
(* The device *)

Install ==
    /\ command = "sent"
    /\ command' = "installed"
    /\ app' = "new"
    /\ UNCHANGED <<policy, verdict>>

Reject ==
    /\ command = "sent"
    /\ command' = "rejected"
    /\ UNCHANGED <<policy, app, verdict>>

\* The user removes the app by hand.
Remove ==
    /\ app # "none"
    /\ app' = "none"
    /\ UNCHANGED <<policy, command, verdict>>

-----------------------------------------------------------------------------
(* The installation *)

\* One command, and under "refuse" only if the app is not there.
Command ==
    /\ verdict = "undecided"
    /\ command = "idle"
    /\ policy = "refuse" => app = "none"
    /\ command' \in {"sent", "lost"}
    /\ UNCHANGED <<policy, app, verdict>>

\* What has to be true of the device when a verdict is given.
Justified(v) ==
    CASE v = "not_started"   -> command = "idle"
      [] v = "not_installed" -> \/ command \in {"idle", "rejected"}
                                \/ command = "installed" /\ app = "none"
      [] v = "unknown"       -> command # "idle"
      [] v = "installed"     -> command # "idle" /\ app # "none"

Report ==
    /\ verdict = "undecided"
    /\ verdict' \in Verdicts
    /\ Justified(verdict')
    /\ UNCHANGED <<policy, app, command>>

PromiseNext == Install \/ Reject \/ Remove \/ Command \/ Report

PromiseSpec == PromiseInit /\ [][PromiseNext]_promiseVars

-----------------------------------------------------------------------------
(* What follows from the promise *)

\* A verdict is final, and once the caller was told that the app is not
\* installed (or that nothing was started), no later step installs it.
FinalAndKept ==
    [][verdict # "undecided" =>
          /\ verdict' = verdict
          /\ verdict \in {"not_started", "not_installed"} => app' \in {app, "none"}]_promiseVars

\* The diagnostic installation never replaces a build it found on the device:
\* what is there after its command is its own build.
RefusalKeepsOld ==
    policy = "refuse" /\ command # "idle" => app # "old"
=============================================================================
