----------------------------- MODULE JobRunner -----------------------------
(***************************************************************************)
(* The background half of an installation: run_install_job (main.rs), the  *)
(* signing step it goes through (signing.rs), which on the RSD route is a  *)
(* task of its own that is aborted when its deadline passes                *)
(* (wireless_pairing.rs), and what interrupts them: a restart of the       *)
(* process, a client that disconnects, a file that disappears.             *)
(***************************************************************************)
EXTENDS InstallJobs

Step(j, from, to) == run[j] = from /\ run' = [run EXCEPT ![j] = to]

\* Mutant: the job that leaves does not open the single flight.
LeaveTunnelShut(j) == UNCHANGED tunnel

\* The single-flight guard goes out of scope before the result is recorded.
LeaveTunnel(j) == tunnel' = IF tunnel = j THEN None ELSE tunnel

-----------------------------------------------------------------------------
(* run_install_job up to the signing step *)

FileMissing(j) ==
    /\ Step(j, "spawned", "failed")
    /\ files[ipa[j]] = None
    /\ SetJobFailure(j, "ipa_file_missing")
    /\ UNCHANGED <<apps, unmanaged, sources, refreshAfter, now, fileVars, lockVars, req,
                   ipa, task, signed, tunnel, signer, faults>>

Connect(j) ==
    /\ Step(j, "spawned", "connecting")
    /\ files[ipa[j]] # None
    /\ UpdateJobStatus(j, "connecting")
    /\ UNCHANGED <<apps, unmanaged, sources, refreshAfter, now, fileVars, lockVars, req,
                   ipa, task, signed, tunnel, signer, faults>>

BeginSigning(j) ==
    /\ Step(j, "connecting", "routing")
    /\ UpdateJobStatus(j, "signing")
    /\ UNCHANGED <<apps, unmanaged, sources, refreshAfter, now, fileVars, lockVars, req,
                   ipa, task, signed, tunnel, signer, faults>>

\* rsd_target: whether a pairing serves the device right now.
ChooseRoute(j) ==
    /\ \/ "rsd" \in Routes /\ Step(j, "routing", "tunnel_wait")
       \/ "direct" \in Routes /\ Step(j, "routing", "direct_open")
    /\ UNCHANGED <<storeVars, fileVars, lockVars, req, ipa, task, signed, tunnel, signer, faults>>

EnterTunnel(j) ==
    /\ Step(j, "tunnel_wait", "rsd_open")
    /\ tunnel = None
    /\ tunnel' = j
    /\ UNCHANGED <<storeVars, fileVars, lockVars, req, ipa, task, signed, signer, faults>>

\* The device was reached and told its identity; the signing step begins.
Open(j) ==
    /\ \/ Step(j, "rsd_open", "rsd_sign")
       \/ Step(j, "direct_open", "direct_sign")
    /\ task' = [task EXCEPT ![j] = "waiting"]
    /\ UNCHANGED <<storeVars, fileVars, lockVars, req, ipa, signed, tunnel, signer, faults>>

-----------------------------------------------------------------------------
(* The signing step, serialised by the sideloader mutex *)

\* With the mutex held the account, the team and the registration of the device
\* are asked for before the IPA is looked at.
TakeSigner(j) ==
    /\ task[j] = "waiting"
    /\ signer = None
    /\ signer' = j
    /\ task' = [task EXCEPT ![j] = "preflight"]
    /\ UNCHANGED <<storeVars, fileVars, lockVars, req, run, ipa, signed, tunnel, faults>>

\* The IPA is hard linked under a private name: later changes of its path do
\* not reach the signing step.
LinkIpa(j) ==
    /\ task[j] = "preflight"
    /\ files[ipa[j]] # None
    /\ task' = [task EXCEPT ![j] = "signing"]
    /\ signed' = [signed EXCEPT ![j] = files[ipa[j]]]
    /\ UNCHANGED <<storeVars, fileVars, lockVars, req, run, ipa, tunnel, signer, faults>>

SignSucceeds(j) ==
    /\ task[j] = "signing"
    /\ task' = [task EXCEPT ![j] = "signed"]
    /\ signer' = None
    /\ UpdateJobStatus(j, "transferring")
    /\ UNCHANGED <<apps, unmanaged, sources, refreshAfter, now, fileVars, lockVars, req,
                   run, ipa, signed, tunnel, faults>>

\* Apple refuses, the IPA is not there, nobody is signed in, ..
SignFails(j) ==
    /\ \/ task[j] = "waiting" /\ signer = None /\ UNCHANGED signer
       \/ task[j] = "waiting" /\ files[ipa[j]] = None /\ UNCHANGED signer
       \/ task[j] \in {"preflight", "signing"} /\ signer' = None
    /\ task' = [task EXCEPT ![j] = "failed"]
    /\ UNCHANGED <<storeVars, fileVars, lockVars, req, run, ipa, signed, tunnel, faults>>

\* progress(40) of a signing task that was aborted in the middle of a poll: the
\* abort takes effect at the next await, and there is none after the snapshot.
LateCallback(j) ==
    /\ task[j] = "late"
    /\ \E phase \in {"signing", "transferring"} : UpdateJobStatus(j, phase)
    /\ task' = [task EXCEPT ![j] = "none"]
    /\ signer' = None
    /\ UNCHANGED <<apps, unmanaged, sources, refreshAfter, now, fileVars, lockVars, req,
                   run, ipa, signed, tunnel, faults>>

LateEnd(j) ==
    /\ task[j] = "late"
    /\ task' = [task EXCEPT ![j] = "none"]
    /\ signer' = None
    /\ UNCHANGED <<storeVars, fileVars, lockVars, req, run, ipa, signed, tunnel, faults>>

-----------------------------------------------------------------------------
(* run_install_job from the signing step to the end *)

Signed(j) ==
    /\ \/ Step(j, "rsd_sign", "rsd_install")
       \/ Step(j, "direct_sign", "direct_install")
    /\ task[j] = "signed"
    /\ task' = [task EXCEPT ![j] = "none"]
    /\ UNCHANGED <<storeVars, fileVars, lockVars, req, ipa, signed, tunnel, signer, faults>>

\* The work deadline passes while the signing task waits for the mutex or signs.
\* An abort ends it at an await; a task that is being polled runs on.
SignTimesOut(j) ==
    /\ Step(j, "rsd_sign", "failed")
    /\ \/ /\ task[j] \in {"waiting", "preflight", "signing"}
          /\ task' = [task EXCEPT ![j] = "none"]
          /\ signer' = IF signer = j THEN None ELSE signer
       \/ /\ task[j] = "signing"
          /\ task' = [task EXCEPT ![j] = "late"]
          /\ UNCHANGED signer
    /\ LeaveTunnel(j)
    /\ SetJobFailure(j, "install_failed")
    /\ UNCHANGED <<apps, unmanaged, sources, refreshAfter, now, fileVars, lockVars, req,
                   ipa, signed, faults>>

\* Every other TransportError: the device was not reached, signing failed, the
\* upload or the installation failed, or was not verified.
InstallFails(j) ==
    /\ run[j] \in {"rsd_open", "rsd_install", "direct_open", "direct_install",
                   "rsd_sign", "direct_sign"}
    /\ run[j] \in {"rsd_sign", "direct_sign"} => task[j] = "failed"
    /\ run' = [run EXCEPT ![j] = "failed"]
    /\ task' = [task EXCEPT ![j] = "none"]
    /\ LeaveTunnel(j)
    /\ SetJobFailure(j, "install_failed")
    /\ UNCHANGED <<apps, unmanaged, sources, refreshAfter, now, fileVars, lockVars, req,
                   ipa, signed, signer, faults>>

\* Mutant: the installed bundle identifier is not recorded.
InstalledUnrecorded(j) ==
    /\ \/ Step(j, "rsd_install", "recorded")
       \/ Step(j, "direct_install", "recorded")
    /\ LeaveTunnel(j)
    /\ UNCHANGED <<storeVars, fileVars, lockVars, req, ipa, task, signed, signer, faults>>

Installed(j) ==
    /\ \/ Step(j, "rsd_install", "installed")
       \/ Step(j, "direct_install", "installed")
    /\ LeaveTunnel(j)
    /\ UNCHANGED <<storeVars, fileVars, lockVars, req, ipa, task, signed, signer, faults>>

\* set_job_installed_bundle_id and restore_managed_installation share a section.
RecordInstalled(j) ==
    /\ Step(j, "installed", "recorded")
    /\ SetJobInstalledBundleId(j)
    /\ RestoreManagedInstallation(jobs[j].app, jobs[j].dev)
    /\ UNCHANGED <<apps, sources, refreshAfter, now, fileVars, lockVars, req,
                   ipa, task, signed, tunnel, signer, faults>>

SetSucceeded(j) ==
    /\ Step(j, "recorded", "ended")
    /\ UpdateJobStatus(j, "succeeded")
    /\ ipa' = [ipa EXCEPT ![j] = None]
    /\ signed' = [signed EXCEPT ![j] = None]
    /\ UNCHANGED <<apps, unmanaged, sources, refreshAfter, now, fileVars, lockVars, req,
                   task, tunnel, signer, faults>>

SetFailed(j) ==
    /\ Step(j, "failed", "ended")
    /\ UpdateJobStatus(j, "failed")
    /\ ipa' = [ipa EXCEPT ![j] = None]
    /\ signed' = [signed EXCEPT ![j] = None]
    /\ UNCHANGED <<apps, unmanaged, sources, refreshAfter, now, fileVars, lockVars, req,
                   task, tunnel, signer, faults>>

RunnerStep(j) ==
    \/ FileMissing(j) \/ Connect(j) \/ BeginSigning(j) \/ ChooseRoute(j)
    \/ EnterTunnel(j) \/ Open(j) \/ Signed(j) \/ SignTimesOut(j)
    \/ InstallFails(j) \/ Installed(j) \/ RecordInstalled(j)
    \/ SetSucceeded(j) \/ SetFailed(j)

SignerStep(j) ==
    \/ TakeSigner(j) \/ LinkIpa(j) \/ SignSucceeds(j) \/ SignFails(j)
    \/ LateCallback(j) \/ LateEnd(j)

=============================================================================
