------------------------------- MODULE Store -------------------------------
(***************************************************************************)
(* The SQLite tables of iphoneloadly-api (store.rs) and the statements the *)
(* handlers run on them.  The one connection sits behind a mutex, so every *)
(* use of the database is atomic: the operators below are what happens     *)
(* inside one `database.lock()` section and the modules that extend this   *)
(* one decide which operators share a section.                             *)
(*                                                                         *)
(* An IPA is abstracted to its content (the SHA-256 column); a storage     *)
(* path is the pair <<app, tag>>: <<a, None>> is `{a}.ipa`, the name an    *)
(* upload gives, and <<a, c>> is `{a}-{sha12}.ipa`, the name a replacement *)
(* downloaded from a source gives.                                         *)
(***************************************************************************)
EXTENDS Integers, FiniteSets

CONSTANTS
    Apps,        \* application ids (UUIDs; an id is used for one app only)
    Devices,     \* device ids
    Jobs,        \* install job ids; their number bounds the jobs of a run
    Contents,    \* IPA contents, i.e. SHA-256 values
    Sources,     \* GitHub source ids
    Configs,     \* source configurations: repository, asset pattern, prereleases
    MaxRelease,  \* releases of a configuration, numbered in the order of publication
    None,        \* no value (SQL NULL, Rust's Option::None)
    MaxDay,      \* bound of the clock
    RefreshDays  \* values the refresh_after_days setting may take

ASSUME NoneAssumption ==
    None \notin Apps \cup Devices \cup Jobs \cup Contents \cup Sources

ASSUME BoundAssumption == MaxRelease \in Nat /\ MaxDay \in Nat /\ RefreshDays \subseteq 1..6

VARIABLES
    apps,          \* table apps
    jobs,          \* table jobs
    unmanaged,     \* table unmanaged_installations: a set of <<app, device>>
    sources,       \* table github_sources
    refreshAfter,  \* the refresh_after_days setting
    now            \* the day, as datetime('now') sees it

storeVars == <<apps, jobs, unmanaged, sources, refreshAfter, now>>

\* A release with the asset that matches the configuration.
Releases == Configs \X (1..MaxRelease)

Paths == Apps \X (Contents \cup {None})

UploadPath(a) == <<a, None>>
SourcePath(a, c) == <<a, c>>

ActivePhases == {"queued", "connecting", "signing", "transferring"}
TerminalPhases == {"succeeded", "failed"}
FailureCodes == {"ipa_file_missing", "install_failed"}

ASSUME NoneIsNoCode == None \notin FailureCodes

\* state is "live" while deleted_at IS NULL; a deleted row stays in the table.
App == [state : {"absent", "live", "deleted"},
        content : Contents \cup {None},
        path : Paths \cup {None}]

Job == [phase : {"absent"} \cup ActivePhases \cup TerminalPhases,
        app : Apps \cup {None},
        dev : Devices \cup {None},
        failure : FailureCodes \cup {None},
        identified : BOOLEAN,   \* installed_bundle_id IS NOT NULL
        completed : 0..MaxDay]

\* A row of github_sources; release and sha are last_release_id (with the asset
\* of that release) and last_download_sha256.
Source == [known : BOOLEAN,
           app : Apps \cup {None},
           config : Configs \cup {None},
           auto : BOOLEAN,
           release : Releases \cup {None},
           sha : Contents \cup {None},
           status : {"update_available", "up_to_date", "downloaded", "unchanged",
                     "error"} \cup {None}]

NoApp == [state |-> "absent", content |-> None, path |-> None]
NoJob == [phase |-> "absent", app |-> None, dev |-> None, failure |-> None,
          identified |-> FALSE, completed |-> 0]
NoSource == [known |-> FALSE, app |-> None, config |-> None, auto |-> FALSE,
             release |-> None, sha |-> None, status |-> None]

StoreTypeOK ==
    /\ apps \in [Apps -> App]
    /\ jobs \in [Jobs -> Job]
    /\ unmanaged \in SUBSET (Apps \X Devices)
    /\ sources \in [Sources -> Source]
    /\ refreshAfter \in 1..6
    /\ now \in 0..MaxDay

-----------------------------------------------------------------------------
(* Queries *)

IsLive(a) == apps[a].state = "live"

IsActive(j) == jobs[j].phase \in ActivePhases

\* Mutant: the list of phases lacks one.
ActiveJobExistsForAppNoQueued(a) ==
    \E j \in Jobs : jobs[j].phase \in ActivePhases \ {"queued"} /\ jobs[j].app = a

ActiveJobExistsForApp(a) == \E j \in Jobs : IsActive(j) /\ jobs[j].app = a

ActiveJobExists(a, d) ==
    \E j \in Jobs : IsActive(j) /\ jobs[j].app = a /\ jobs[j].dev = d

SucceededFor(a, d) ==
    {j \in Jobs : jobs[j].phase = "succeeded" /\ jobs[j].app = a /\ jobs[j].dev = d}

\* completed_at has a resolution, so several rows may be the latest one.
LatestSuccess(j) ==
    /\ jobs[j].phase = "succeeded"
    /\ \A k \in SucceededFor(jobs[j].app, jobs[j].dev) :
          jobs[k].completed <= jobs[j].completed

ManagedSuccess(j) ==
    /\ LatestSuccess(j)
    /\ IsLive(jobs[j].app)
    /\ <<jobs[j].app, jobs[j].dev>> \notin unmanaged

\* One row for each latest success that is old enough: the job it stems from
\* and the path of its app's IPA.
RefreshDueTargets ==
    {<<j, apps[jobs[j].app].path>> :
        j \in {k \in Jobs : ManagedSuccess(k) /\ now - jobs[k].completed >= refreshAfter}}

\* The UNIQUE column apps.sha256; the rows of deleted apps count.
ContentFree(a, c) ==
    \A b \in Apps \ {a} : apps[b].state # "absent" => apps[b].content # c

-----------------------------------------------------------------------------
(* Statements on apps *)

InsertApp(a, c, p) ==
    apps' = [apps EXCEPT ![a] = [state |-> "live", content |-> c, path |-> p]]

\* Mutant: the automation is switched off, the row is not marked.
MarkOnlySources(a) ==
    /\ sources' = [s \in Sources |->
                     IF sources[s].app = a THEN [sources[s] EXCEPT !.auto = FALSE]
                                           ELSE sources[s]]
    /\ UNCHANGED apps

MarkAppDeleted(a) ==
    /\ apps' = [apps EXCEPT ![a].state = "deleted"]
    /\ sources' = [s \in Sources |->
                     IF sources[s].app = a THEN [sources[s] EXCEPT !.auto = FALSE]
                                           ELSE sources[s]]

RestoreApp(a) == apps' = [apps EXCEPT ![a].state = "live"]

-----------------------------------------------------------------------------
(* Statements on jobs *)

\* INSERT ... SELECT FROM apps WHERE deleted_at IS NULL: no row, and no error,
\* when the app is not live.
InsertJob(j, a, d) ==
    jobs' = IF IsLive(a)
            THEN [jobs EXCEPT ![j] = [NoJob EXCEPT !.phase = "queued", !.app = a, !.dev = d]]
            ELSE jobs

\* UPDATE .. WHERE id: no row, no change.
UpdateJob(j, row) ==
    jobs' = [jobs EXCEPT ![j] = IF @.phase = "absent" THEN @ ELSE row]

\* update_job_status has no condition on the phase the row is in.
UpdateJobStatus(j, phase) ==
    UpdateJob(j, [jobs[j] EXCEPT !.phase = phase,
                                 !.completed = IF phase \in TerminalPhases THEN now ELSE @])

SetJobFailure(j, code) == UpdateJob(j, [jobs[j] EXCEPT !.failure = code])

SetJobInstalledBundleId(j) == UpdateJob(j, [jobs[j] EXCEPT !.identified = TRUE])

-----------------------------------------------------------------------------
(* Statements on unmanaged_installations *)

ForgetManagedInstallation(a, d) == unmanaged' = unmanaged \cup {<<a, d>>}

RestoreManagedInstallation(a, d) == unmanaged' = unmanaged \ {<<a, d>>}

=============================================================================
