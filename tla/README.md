# Verification of iPhoneLoadly

iPhoneLoadly is a self-hosted service that signs IPA files with a free Apple account, installs
them on iPhones and Apple TVs over the network, and signs and installs them again before the
seven-day certificate runs out. The server is one Rust binary, `iphoneloadly-api`
(`src/crates/iphoneloadly-api`), built on axum, tokio and one SQLite connection. This directory
holds TLA+ models of that server, the TLC configurations that check them on small instances, and
proofs, checked by TLAPS, of their main invariants for instances of any size.

File names below are those of `src/crates/iphoneloadly-api/src/`.

- [The system](#the-system): its parts, their state, how they interact, what is hard
- [The modules](#the-modules): what models what
- [The runs](#the-runs): what TLC checks, with which bounds
- [Fairness](#fairness)
- [What the models refute](#what-the-models-refute)
- [The proofs](#the-proofs)
- [Not modelled](#not-modelled)
- [Plan](#plan)

## The system

### Parts

| part | source | state it keeps | operations |
|---|---|---|---|
| store | `store.rs` | SQLite tables `apps`, `jobs`, `github_sources`, `unmanaged_installations`, settings | one method per statement or transaction; one connection behind a `std::sync::Mutex` |
| IPA library | `main.rs` | files under the storage directory, `app_mutation` (tokio `RwLock`) | `upload_ipa`, `delete_ipa`, `rename_app` |
| install jobs | `main.rs`, `jobs.rs` | rows of `jobs`, one spawned task per job | `create_install_job`, `trigger_refresh`, `forget_managed_installation`, `update_refresh_settings` |
| job runner | `main.rs` | position of `run_install_job`, `spike_install_mutation` (single flight of the RSD route) | `run_install_job`, `record_job_failure` |
| signing | `signing.rs` | the sideloader behind a mutex, saved credentials, login sessions, signed artifacts | login with second factor, `preflight_and_sign_for_device`, snapshot and removal of artifacts |
| GitHub sources | `sources.rs`, `github.rs` | rows of `github_sources`, `source_sync` (mutex) | create, update, remove, automation, check, download, sync |
| RSD installation | `wireless_pairing.rs` | pairing record, tunnel, AFC session, installation proxy | `install_remote_pairing_app`, the staged upload, install, verify and cleanup |
| wireless pairing | `wireless_pairing.rs` | one pairing session with its phase, task and advertisement; the pairing and its key on disk; the cached identity of the paired device | start, status, cancel; the session's task; the look-up of the identity |
| Apple TV pairing | `apple_tv.rs` | one pairing session with its PIN channel, over a second instance of the pairing service | start, PIN, status, cancel, forget, expiry |
| discovery | `main.rs` | none | netmuxd and mDNS queries |
| intake | `github.rs`, `ipa.rs` | a temporary file for each upload or download | choose a release and an asset, receive, inspect |
| self-update | `update.rs`, `deploy/host` | a request file and a status file shared with a host script, the installed runtime | request an update, report its status; update, verify or roll back |
| dashboard | `dashboard.html` | none on the server | polls the API |

### How they interact

A browser, an hourly timer (`/api/refresh`) and a six-hour timer (`/api/sources/sync`) call the
HTTP handlers, which run concurrently on tokio. A handler is a future: when its client goes away,
hyper drops it at its next `await`, with its guards. Four locks order the work:

- `app_mutation`, a read-write lock. Handlers that queue jobs hold it for reading while they look
  an app up and insert the job; `delete_ipa` and the last part of a download hold it for writing.
  `upload_ipa` and `forget_managed_installation` do not take it.
- the SQLite connection. What happens inside one `database.lock()` section is atomic; what a
  handler does in two sections is not.
- the sideloader mutex, held by a job while it signs and by every `is_ready` question. A refresh
  asks that question *with its read guard of `app_mutation` held*.
- `spike_install_mutation`, a single flight around the RSD route. The direct route has none.

A job is spawned with the path of the IPA; it uses that path long after its handler answered and
released its guard. What protects the file from there on is the row of the job: `delete_ipa` and
`download` refuse to touch an app that has an active job. The invariants below are about exactly
this hand-over from a lock to a row.

A source handler copies its row, spends minutes with GitHub, and comes back to a row and an app
that may have been edited, deleted or downloaded by somebody else.

### What is hard, and what makes each part correct

| part | hard behaviour | correct when |
|---|---|---|
| store | two sections where one looks natural; statements without a condition on the row's state | an outcome is never visible without its reason or identifier; what is successful is managed |
| library | deletion and replacement against queued and running jobs; a file operation and a row that must agree; a dropped handler whose removal still runs | a running job's IPA is there and unchanged; a live app has its file; no file outlives its row |
| install jobs | targets read once and queued later; a refresh that waits for signing with its guard held | what a refresh starts late is still right and doubles no task; every request is answered |
| job runner | deadline against a signing task that is being polled; restart between two phases; two jobs for one device | every job ends; what is signed is what the library records |
| GitHub sources | stale copies of rows; edits, deletions and other downloads in between | a download writes only to the source it was started for, never changes an app's bundle identifier, and never exchanges the IPA of a running job |
| RSD installation | a command that may have taken effect though its answer was lost; cleanup on every path | the install command is sent at most once; success is reported only for what was verified |
| pairing | late PINs, cancellations and results of ended sessions; tasks that outlive their session; caches of the old device | a session that a client saw end stores nothing; its task ends in time and withdraws the advertisement; the identity used is that of the stored pairing |
| login | overlapping logins; answers that come in two sections, late or never | an answer meets the challenge it was given for; nobody sleeps on an answer; a job signs with one account |
| self-update | request file checked and written in two steps against a host process; every step of an installation may fail; a script that ends early is started again by its request | one update at a time; a request is served whole and goes away; a failed update leaves the old runtime running |
| intake | a greedy search, limits over sums of declared sizes, a dozen error paths | the release is the latest, the asset the one the pattern stands for, the archive within all limits, and nothing refused stays on disk |

`PROJECT.json` lists the main ones at their lines, with the properties that cover them. The ones no
property covers, because the code does not guard against them, are under
[What the models refute](#what-the-models-refute) and [Not modelled](#not-modelled).

## The modules

```
IpaShelf              what the library promises to the jobs that install from it

Store                 tables and statements
 └ InstallJobs        the server's state; create_install_job, trigger_refresh
    └ JobRunner       run_install_job, the signing step, its deadline
       └ AppLibrary   upload, delete, forget, settings, faults; LibrarySpec; properties;
       │              implements IpaShelf
          ├ LibraryInvariant ── LibraryProofs
          │   └ MCLibrary
          └ GitHubSources      sources.rs; SourcesSpec; properties
              └ SourcesInvariant ── SourcesProofs (with LibraryProofs)
                  └ MCSources

ReleaseChoice, IpaInspection    operators: github.rs, ipa.rs
 └ Intake             download and upload up to the inspected file; properties
    ├ IntakeProofs
    └ MCIntake

PairedDevice          the pairing on disk, the cached identity
 ├ WirelessPairing    pairing an iPhone; properties
 │  └ WirelessInvariant ── PairingProofs
 └ AppleTvPairing     pairing an Apple TV; properties
    └ AppleTvInvariant ── AppleTvProofs

AppleLogin            signing in with Apple; properties
 └ LoginInvariant ── LoginProofs

SelfUpdate            update.rs and the host's updater; properties
 └ UpdateInvariant ── UpdateProofs

InstallPromise        what one installation on a device promises
 └ RsdInstall         install_remote_pairing_app; implements InstallPromise; properties
    └ RsdInvariant ── RsdProofs
```

Each module declares the state its component adds and one action per step between two awaits or
database sections. `AppLibrary` composes store, jobs, runner and library into `LibrarySpec`;
`GitHubSources` composes that with the sources into `SourcesSpec`. Both implement `IpaShelf`.
`RsdInstall` is the inside of one step of `JobRunner`: what runs between `EnterTunnel` and
`LeaveTunnel`.

**IpaShelf.** The library without tables, files, locks and handlers: a shelf with one content for
each app and no content twice. A job is lent an app (`Lend`), copies what the shelf holds (`Copy`),
tells that it is on the device (`Deliver`) and gives the app back (`End`; a restart ends all jobs in
one step). An app may be put there, exchanged or taken away whenever it is not lent. `OnShelf`,
`StageOf`, `LentTo` and `Reported` in `AppLibrary` are the mapping: an app is on the shelf when its
row is live, lent as long as `run_install_job` is under way, copied by the hard link of the signing
step, and delivered when `set_job_installed_bundle_id` writes. Nothing of how the library keeps its
word appears there: neither the guard under which a job is queued nor the look-up of active jobs.

**Store.** `apps`, `jobs`, `unmanaged`, `sources` are the tables, one record per row. An IPA is its
content (the `sha256` column); a storage path is a pair `<<app, tag>>`, which distinguishes the two
ways paths are named: `{id}.ipa` for uploads, `{id}-{sha12}.ipa` for replacements. `now` is the day;
`completed_at` has the resolution of a second in the code and of a day here, so that several
successes are the latest one, which SQL's `MAX` allows too. The `UNIQUE` column `apps.sha256` counts
deleted rows (`ContentFree`). `UpdateJobStatus` has no condition on the phase, as in the code.

**InstallJobs.** A request that is being served is a slot `req[r]`; its `pc` names the await or
section it has reached. `AcquireRead`, `AcquireWrite` and `ReleaseLock` are `app_mutation`.
`CreateArrives .. CreateRefused` are `create_install_job`: `is_ready` and discovery come before the
guard, the look-up and the insertion are under it. `RefreshArrives .. RefreshReturns` are
`trigger_refresh`, which takes the guard first; each pass of its loop is one section
(`RefreshQueues`, `RefreshSkips`).

**JobRunner.** `run[j]` is where `run_install_job` is, `task[j]` where its signing step is. On the
RSD route the signing step is a task of its own: when the work deadline passes it is aborted, which
takes effect at its next await, so a task that is being polled becomes `"late"` and may still write
its last progress (`LateCallback`) before it goes away. `LinkIpa` is the hard link that makes the
signing step independent of later changes of the path. What happens on the device after signing is
one choice: `Installed` or `InstallFails`; `RsdInstall` is what that choice abstracts from.

**AppLibrary.** `Delete..` marks the row, then removes the file with the guard held, and restores
the row if that fails. `Upload..` starts where the temporary file is complete and inspected: rename,
insert, and on refusal remove. Faults: `Restart` (the rows stay, tasks and handlers are gone, no
start-up step looks at jobs or files), `Disconnect` (a dropped handler; a removal that was handed to
the blocking pool becomes an entry of `unlinking` and runs later, `UnlinkRuns`), `LoseFile`.

**GitHubSources.** `fetch[r]` is what a handler carries across its awaits: the id, the *copied* row,
the release GitHub answered with. GitHub is external: `published[k]` releases of a configuration
(repository, pattern, prereleases), appearing one by one, each with one asset of fixed content.
`DownloadReplaces` and `DownloadInserts` are the section under the write guard, including the rename
before the transaction and the two ways it is refused; `DownloadCleans` removes the path the code
computed, which is not always the replaced one (see below).

**InstallPromise.** What a caller of `install_remote_pairing_app` may rely on: one install command
at most, and one verdict (`RsdInstallOutcome`) that is `Justified` by what has become of the command
when it is given. The device may carry the command out at any time, also after the verdict; that is
why `not_installed` requires a command that can have no effect any more, and a command without an
answer gives `unknown`.

**RsdInstall.** One call, with `pc` at the wait or step it has reached: two sessions (the first only
reads the identity of the device), the signing task in between, the plan of the upload on a blocking
thread, the AFC requests, the command, the look-up, the cleanup on a connection of its own, and the
closing of the session. `OpenSession .. CloseFinal`, `Sign .. SignTimesOut` are
`install_remote_pairing_app`, `Precheck .. LookUpFails` are `execute_rsd_first_install` with
`stage_signed_bundle` (`NextRequest .. UploadTimesOut`) and `TaskAfcClient` (`SendRequest`,
`RequestTimesOut` with `timed_out`), `Clean` and `CleanFails` are `clean_exact_task_staging`. An
`expiry` goes with each wait and is computed as in the code: `WorkDeadline` keeps the time for
cleanup and closing, `InstallDeadline` that for the verification too. `Tick` advances the clock only
while the call waits and not past `expiry`; `RequestTimesOut` is the 90 seconds of one request,
`UploadTimesOut` the `timeout_at` around the whole upload. `sent`, `processed` and `read` count the
requests of the upload's connection: the device serves them in order, whether or not the call still
waits (`AfcServes`), and replies are read in order. The request that creates the staging directory
is the third (`RootRequest`). `artifact` is who owns the signed bundle: the call, the planning
thread, or the blocking task that drops it; `task = "late"` is a signing task that was aborted
during its last poll.

**ReleaseChoice, IpaInspection, Intake.** The first two are operators without state: a release is a
record, a name a sequence of letters (`Ending` stands for `.ipa`), a pattern its parts between the
wildcards, an archive a sequence of entries with the sizes their headers declare. Searches and loops
with early returns are folds over these sequences (`LatestEligible`, `WildcardMatch`, `InspectIpa`);
the step of each is an operator of its own (`Later`, `Behind`, `ReadEntry`), about which the proofs
reason. `Names`, `Releases` and `Entries` are unbounded sets of them; the configuration takes a few.
`Intake` is the handler around them, for a source (`ChooseRelease .. BeginDownload`) and an upload
(`ReadField .. EndFields`); both receive bytes (`ReceiveChunk .. EndStream`), inspect the file and,
for a job, compare its platform with the device. It ends where `Upload..` of `AppLibrary` and the
write guard of `GitHubSources` begin. `given` and `made` keep what a stage was given and made of it
until the next one, so that each stage is compared with its definition for all its inputs.

**PairedDevice.** What a `WirelessPairingService` keeps: the sealed pairing (`stored`) and its key,
the identity cache, and `remote_pairing_device_identity` step by step, which reads the cache, opens a
session with the pairing on disk, and writes the cache later. A pairing stands for its device.

**WirelessPairing.** `startPc` is the request that holds `start_lock` in `start_wireless`: it checks
and binds, announces, *spawns the task, then stores the session* (`StartSpawns`, `StartStores`).
`pc` is the session's task in `run_pairing`: accept, handshake, the code, then
`commit_remote_pairing_endpoints` with one wait for every address and step, and
`finalize_new_pairing`, which stores under the session's lock unless the session has ended. `until`
is the deadline of its wait, computed as `timeout_for` does. `abort` is the abort handle, which takes
effect at the next await only. The clock counts ten seconds and does not pass a deadline that is
being waited for. A session expires when somebody looks (`Status`).

**AppleTvPairing.** `pc[s]` is the task of session `s` in `run_pairing` and `pair_with_pin`;
`holder` is who has `start_lock`, which tasks and the forget take. `pin[s]` is the oneshot channel.
`due` says that the session's time is over; it ends only when somebody looks. An aborted task stays
until its next await, and may still save. `overlap` is history: a look-up that read the old pairing
was under way while the pairing changed.

**AppleLogin.** `task[l]` is where the task of a login is, with `wait_for_two_factor` in the steps
`Challenge`, `TakeResponse`, `NoResponse`, `FallAsleep`, `Wake`; `permit` is the one permit that
tokio's `Notify` keeps. A client's answer passes three sections (`AcceptAnswer`, `StoreAnswer`,
`Notify`), between which its handler may be dropped. `signing` is the account of the job that holds
the sideloader's mutex.

**SelfUpdate.** `at[h]` is where a request is between the lock it tries, the check for active jobs,
the look for the request file, and the file written aside and renamed. A file operation of a dropped
handler goes on (`gone`, `orphaned`). `updater` is the line of `update-iphoneloadly.sh` that runs,
with `install-iphoneloadly.sh --upgrade` as its steps `Install..` and the rollback as `Undo..`. The
updater stops and starts the server, so it ends the request it serves. A line with `|| fail` fails to
`fail`; any other ends the script under `set -e` (`Aborts`), also the first one of `fail` itself, and
the path unit starts it again for the request that is still there. `aborts` counts these runs. A
version is a number; `Refused` are those the server asks for and the updater does not read. `blind`
is history: a look for the request file that failed counted as none there.

## The runs

| run | configuration | checks | instance |
|---|---|---|---|
| `library` | `MCLibraryFaults.cfg` | `JobIpaIntact`, `LiveAppHasFile`, `OutcomeExplained`, `SuccessIsManaged` | 1 app, 1 device, 2 jobs, 2 requests, both routes, one restart, one dropped client, one lost file |
| `refresh` | `MCLibraryRefresh.cfg` | `NoOrphanFile`, `RefreshStartsRight` | 2 app ids, 3 jobs, 2 requests, a day that passes |
| `live` | `MCLibraryLive.cfg` | `RequestAnswered`, `JobEnds` | 2 jobs, 2 requests, RSD route, fair |
| `sources` | `MCSources.cfg` | `NoOrphanFile`, `BundleStable`, `DownloadMatchesSource` | 1 app id, 1 source, 2 configurations, 3 contents, 4 calls |
| `source_jobs` | `MCSourcesJobs.cfg` | `ShelfKept` | 1 app id, 1 job, 1 source, 1 release, 2 contents, 2 calls, one restart, one dropped client |
| `rsd` | `MCRsd.cfg` | `EndsInTime`, `CleanReport`, `LeftoversReported`, `RefusedInstalledByCommand`, `RepliesMatch`, `PromiseKept`, `CallReturns`, `ArtifactDropped` | 8 units of time, 7 requests, one of them a write, both policies |
| `pairing` | `MCPairing.cfg` | `PairingReadable`, `WaitsEndInTime`, `EndedIsQuiet`, `EndedStoresNothing`, `TaskTerminates` | 2 sessions, 1 look-up, 2 addresses, 2 steps at each, one restart, one dropped client |
| `apple_tv` | `MCAppleTv.cfg` | `VerifiedIsItself`, `AcceptedPinArrives`, `VerdictIsFinal`, `LockReleased` | 2 sessions, 1 further look-up, one restart |
| `login` | `MCLogin.cfg` | `AnswerMeetsChallenge`, `NoLostWakeUp`, `SideloaderServes`, `SignInEnds` | 2 logins, 2 clients, 2 challenges of each login, one recovery, one restart |
| `update` | `MCUpdate.cfg` | `UpdateInv`, `ServedIsRequested`, `OutcomeIsTrue`, `RequestSettles` | 2 requests, 3 releases of which one is refused, one dropped client, 2 runs cut short, one reboot |
| `intake` | `MCIntake.cfg` | `IntakeInv`, `ChoiceIsExact`, `InspectionIsExact` | up to 3 releases, 2 assets, 3 wildcards, 4 entries |
| `restart` | `MCLibraryRestart.cfg` | `ActiveJobRuns`, violated | 1 app, 1 job, 2 requests, direct route, one restart |

The types and the inductive invariants are proved for every instance and stand in no configuration.
Each was checked with TLC before it was proved, and can be added to the configuration named in
[The proofs](#the-proofs).

What they show:

- **`library`.** From the moment a job is queued until it is done, its app is live under the path
  the job was given and the file there is what the library records (`JobIpaIntact`), although the
  job holds no lock: this needs the read guard around look-up and insertion, the refusal to delete
  in *every* active phase, and that a removal that outlived its handler is never of an app that
  came back. `LiveAppHasFile` is the same for apps without jobs, across failed and abandoned
  deletions and across restarts. `OutcomeExplained`: no client sees `failed` without a reason or
  `succeeded` without the installed identifier, though phase and reason are written in different
  sections and a late callback may write in between. `SuccessIsManaged`: a removal from management
  cannot fall between the two sections that record a success, since it is refused while the job is
  active.
- **`refresh`.** Manual installs, deletions, a second refresh and the clock interleave with a refresh
  that read its targets earlier. `RefreshStartsRight`: what it starts late in its loop is still right.
  The row is there (`INSERT .. SELECT` inserts none for a deleted app, and the task would be spawned
  all the same), the path holds the app's IPA, and no other task works on the pair, in whatever phase.
  This needs the read guard through the whole loop, against a deletion that is otherwise allowed since
  no job is active yet, and that a task's row stays active until the task is done. Three jobs are
  needed: one success that becomes due, one queued in between, one the refresh would queue. The two
  app ids have one content, so here an upload is refused (`UploadNotInserted`) because another upload
  or a row has its content, and `NoOrphanFile` says that its file goes.
- **`live`.** The refresh waits for the signing mutex with its read guard held, so a deletion waits
  for a job's signing step, and other handlers wait for both; still everybody gets on.
- **`sources`.** Checks, downloads, synchronisation, edits of the source and releases that appear
  in between. Two configurations whose repositories publish different programs are what makes
  `BundleStable` and `DownloadMatchesSource` refutable. `NoOrphanFile`: whichever way an upload or a
  download ends, a file that no row names is on its way to be removed, as long as no client has gone
  away and the server has not been restarted: both may leave one (see the observations below). With
  one app id no content is ever taken; a refused upload is exercised in `refresh`, a download that is
  refused for that reason is covered by the proof only.
- **`source_jobs`.** Downloads against a queued and running job, whose look-up, hard link and report
  are sections of their own, with a restart and clients that go away: each step is one of `IpaShelf`
  or leaves the shelf alone (`ShelfKept`). It fails when a download may exchange the IPA of an app
  that a job is active for. That no two apps have the same content is checked here for one app id
  only (with two, the run takes most of its time limit) and proved for any number.
- **`rsd`.** Every wait of an installation may be answered, refused or never answered. Whatever
  happens, the call is over within its budget and never sends a command it would have no time to
  verify (`EndsInTime`); a report without an error is a clean one (`CleanReport`) and one with an
  error names what was left behind (`LeftoversReported`: the directory counts as created from the
  moment it is asked for, since the answer may be lost). `RepliesMatch` is about the close of a file
  after a write that timed out: without `timed_out` it would read the late reply to the write.
  `PromiseKept` is the refinement: whatever the interleaving of the command, its lost answer, the
  look-up and a user who removes the app, the verdict is true and stays true. `ArtifactDropped` and
  `CallReturns` are liveness.

- **`pairing`.** A session against its own task, a client that cancels and a second session that
  waits for the port. `EndedStoresNothing`: a cancel that races with the end of the commitment wins or
  comes too late, since the task asks again under the lock in which it stores. `WaitsEndInTime`: a
  task that goes from address to address, with a timeout at every step, never waits past the end of
  its session. `EndedIsQuiet` and `TaskTerminates`: wherever the abort finds the task, also before
  its session is stored, the advertisement is withdrawn and the port becomes free. `PairingReadable`
  has a crash between any two writes of a save.
- **`apple_tv`.** Tasks outlive their sessions here: an aborted one may still save a pairing, and the
  next session waits for `start_lock`. `VerdictIsFinal` and `VerifiedIsItself` say that
  no late task changes the verdict, and none passes off the old device as the new one. The same
  model has `ReadyWasSaved` and `CacheFollowsPairing`, which are proved: clearing the cache after
  every save and in the forget is enough, unless a look-up overlaps. `LockReleased`: nobody holds the
  lock for ever, whatever the user and the Apple TV do not do.
- **`login`.** An answer is accepted in one section and stored in another, and Apple may ask again.
  That it never meets a later challenge rests on the phase leaving `awaiting_2fa` at once and the
  task not getting on without an answer. `SideloaderServes` is about the mutex of the sideloader when
  two logins end while a job signs: the job keeps its account (`OneAccountPerJob`), and the login that
  is reported ready can sign (`ReadyCanSign`).
- **`update`.** The server's handlers, their files and the host's script, which stops the server it
  works for. `ServedIsRequested`: the look for the file and the rename are two steps, and only the
  lock makes them one, so the updater never removes a request it did not serve. `OutcomeIsTrue` lets
  every step of the installation and of the rollback fail, in `fail` or past it: `failed` leaves the
  old runtime whole, `succeeded` is said of the one that runs. `RequestSettles`: a request that the
  updater can read goes away, although a run that was cut short leaves it to the next one, which finds
  a server that is down or the new runtime already there. `UpdateInv` is the type invariant with what
  the server's half ensures: the lock is held, a request is whole, an update never goes to an older
  version, and to the same one only after a run that was cut short (`NeverDowngrades`).
- **`intake`.** Each operator against a definition of what it is for, which does not mention how it
  searches: `StandsFor` places all parts of a pattern at once, `IsIpaArchive` looks at the archive as
  a whole. `ChoiceIsExact` and `InspectionIsExact` compare them, `IntakeInv` adds that none of the error
  paths leaves a file.

Every property of these runs has a mutant in `PROJECT.json`: a plausible slip in one definition (a
phase missing from a list, a writer that does not wait for readers, a guard that is not dropped)
that makes TLC find the property violated under the same configuration. The mutated forms stand
before the definitions they replace, under the comment "Mutant".

**Bounds.** `Jobs` and `Apps` are ids that are used once, so their number bounds the behaviour;
`Requests` are slots that are used again. Two requests are enough for every conflict between two
handlers, and the running jobs are further actors. `MaxDay`, `MaxLosses`, `MaxCrashes`, `MaxDrops`,
`MaxCalls`, `MaxRelease` bound what would be endless: days, lost files, restarts, dropped clients,
calls on sources, releases of a configuration. One restart or dropped client at any point reaches
every intermediate state they can leave; the proofs below have none of these bounds. The sets are
symmetric where the configuration says so (ids of requests, jobs, apps, contents, devices), and not
in the liveness run nor for contents in `MCSources`, whose programs differ.

In `rsd` a unit of time is ten seconds: 2 units to verify, 1 to clean up, 1 to close, as in the code.
One request may take 2 units instead of 9 and the whole call 8 instead of 90 or 360, so that the
work ends at 6 and the last command is sent before 4: a request may time out while there is time
left, or be cut off by the work deadline, and every wait may be the one in which the deadline falls.
Seven requests are the two queries, the two directories, and one file that is opened, written and
closed; further files repeat these. The proofs have no bound on either.

In `pairing` a unit of time is ten seconds again; a session lasts 2 units, the discovery 1, a
connection 2 and the clock 4, so that a timeout may end before, with or after the session and a
second session fits after the first. Two sessions are what a stale task, pairing or identity
needs; ids are used once. In `login` two challenges let a stale answer meet a later one; in `update`
three releases let a second request ask for more than the first, whether the updater reads the first
or not; two runs cut short let the second meet what the first left behind. In `intake` the limits are small
numbers with sizes on both sides of each, and `Largest` stands for the greatest `u64`, so that a sum
can pass it. Three wildcards give two parts in the middle, the least with which a greedy search could
go wrong, and names have up to three letters before their ending.

Deadlock is checked in the runs of the library and of the sources, where the next-state relation
always has a request that may arrive. In the others one call is made and ends (`rsd`, `intake`), or
the ids or versions of the instance are used up.

## Fairness

`FairLibrarySpec` assumes strong fairness of the steps of each request and weak fairness of the
steps of each job and of its signing step. Tokio runs every task that can run, which is weak
fairness. A handler that waits for `app_mutation` is disabled whenever others hold it, and tokio's
`RwLock` queues waiters in order of arrival, so that nobody is overtaken for ever; strong fairness
is what that queue gives without modelling its order. With weak fairness for handlers
`RequestAnswered` fails in the model, as it should: readers that keep coming would shut a writer out
for ever. Jobs need only weak fairness, because each takes the two mutexes once.

Waiting for a device ends by itself on the RSD route only, where connecting, signing, uploading and
installing run under deadlines (`wireless_pairing.rs`). The direct route has no such deadline, so
`live` has `Routes = {"rsd"}` and nothing is claimed about the direct one. No fairness is assumed of
clients, timers, the clock, GitHub or faults.

`RsdFairSpec` assumes that time passes while the call waits (`Tick`), that a wait whose deadline has
passed ends and what needs no wait is done (tokio polls the call when its timer fires), and that the
blocking threads and the late signing task end, since all they have left is local file work. The
device, the network and the user have no fairness at all: `CallReturns` holds for a device that
never answers.

`WirelessFairSpec` and `TvFairSpec` assume the same of the pairing tasks: what needs no wait is done,
time passes, and a timer that has passed ends its wait. The timer around the handshake has strong
fairness, since the handshake goes on in steps that disable it for a moment; none of them restarts
it. The forget of an Apple TV is local work. `LoginFairSpec` has weak fairness for each login's task
and its timer; the user, who may never answer, has none. `DeveloperSession` has no timer in the code,
and `SignInEnds` ends before it. `UpdateFairSpec` has weak fairness for the updater alone, whose
download is taken to end: `curl` has no `--max-time`, so a server that trickles is outside. The path
unit is part of that fairness. `RequestSettles` is therefore said of `MaxAborts` runs that are cut
short: a line that fails for ever keeps the request for ever, and systemd gives up a unit that is
started five times in ten seconds.

## What the models refute

One run checks a statement that the documentation makes about the program, and finds it violated;
`PROJECT.json` quotes the statement.

- `restart`, `ActiveJobRuns`: a job that was active when the process stopped stays active for ever;
  its app can no longer be deleted, replaced, refreshed or forgotten, and every later self-update is
  refused. The plan of the first version says it is marked interrupted at start-up.

The following are stated in the modules and violated there too; no configuration is kept for them.
Each can be seen with the constants given; `RsdInvariant` needs `CHECK_DEADLOCK FALSE`.

| property | module | constants | what the code does |
|---|---|---|---|
| `OutcomeFinal` | `MCLibrary` | of `MCLibraryRestart.cfg`, route `rsd`, no restart | `update_job_status` has no condition on the phase (`store.rs:559`): the progress callback of a signing task that is being polled when its deadline passes puts `transferring` over `failed`. The row is then active for ever. `CHANGELOG.md:39` speaks of the final result. |
| `MissingIpaCanBeUploaded` | `MCLibrary` | of `MCLibraryRestart.cfg`, 2 apps, one lost file | `main.rs:2644` asks the user to upload a missing file again, and the upload is refused as a duplicate (`main.rs:3021`). |
| `LiveAppHasFile` | `MCSources` | of `MCSources.cfg`, contents `c1` and `c3`, 5 calls | After the first download of a source without an app, and after one that restores a missing file under its own name, the "replaced" path that is removed is the new one (`sources.rs:584-589`). `DownloadCleans` removes what these lines compute. |
| `UpToDateIsTrue` | `MCSources` | the same with 2 apps | Relinking a source keeps what it last downloaded (`store.rs:813`), so a check calls it up to date though the newly linked app has other content. |
| `InstalledByCommand` | `RsdInvariant` | of `MCRsd.cfg` | Jobs upgrade an app that is on the device, but the look-up after the command asks only whether the bundle identifier is there (`wireless_pairing.rs:2646`): a command that was refused or lost is reported as installed. The diagnostic installation refuses an app that is there, and for it the verdict means what it says (`RefusedInstalledByCommand`, proved). |
| `IdentityIsPaired` | `WirelessInvariant` | of `MCPairing.cfg` | `finalize_new_pairing` does not clear the identity cache, as the Apple TV's pairing does (`wireless_pairing.rs:1240`): after a second iPhone was paired, `rsd_targets` (`main.rs:1763`) goes on with the first one's identity until a restart. |
| `UpdateSparesJobs` | `SelfUpdate` | of `MCUpdate.cfg` | The look for active jobs (`update.rs:152`) is long over when the updater stops the server; a job that started meanwhile is interrupted. |

Weaker observations:

- On the direct route nothing keeps two jobs for one phone from installing at the same time, though
  `docs/mvp-v0.1-plan.md:350` wants the second one to wait.
- A refresh that read its targets queues one more job for a pair that is removed from management
  before the loop gets to it, and its success puts the pair under management again
  (`main.rs:2434-2470`; the user guide, line 119, says removal stops refreshing).
- Two downloads of one source that end in the other order than their releases appeared put the older
  one into the library (`sources.rs:538`), until the next check.
- A download that was under way when its app was deleted brings the app back, since the look-up also
  finds deleted apps (`sources.rs:508`).
- A client that goes away while its upload is renamed or inserted leaves a file that no row names
  (`main.rs:3013`), since the handler is dropped before it removes it. `NoOrphanFile` is therefore
  said only of a library without dropped clients and restarts.
- A synchronisation that has begun downloads from a source whose automation is switched off meanwhile
  (`sources.rs:650-690`; user guide, lines 84-86).
- A paired iPhone session stays `verifying` until it expires, and a new start is refused as busy
  meanwhile. A task that ends before its session is stored leaves a session that is advertised with
  nobody listening until it expires. A start whose client goes away during the announcement leaves
  the mDNS daemon running.
- A phase or a code that the task sets after a cancel reappears until the task is gone. The port may
  still be taken by an aborted task when the next session binds.
- Cancelling an Apple TV session while it is verified leaves its pairing stored. A look-up that
  overlaps a forget or a new pairing puts the old identity back into the cache.
- An answer whose handler is dropped between its two sections leaves a login in `authenticating` with
  nobody who can answer, until it times out.
- A request file that is cut off is not removed by the updater, and the path unit starts it again and
  again. The same happens to a whole request with a version that the updater does not read: the API
  accepts build metadata (`github.rs:290-292`), the pattern in `update-iphoneloadly.sh:213` does not,
  `readarray` hides that `python3` failed, so `|| fail` never runs and `set -u` ends the script at line
  221. Later updates are refused until the host boots.
- The script ends without `fail`, and is started again for the same request, where a line without
  `|| fail` fails: `mktemp` (line 7), `sha256sum` and `mkdir` (235, 239, 272), `write_status` (228, 276,
  278, and 198 in `fail` itself, before the `mv`, which may fail unnoticed at 199), `rm` (279). After
  276 this is without a rollback, with nothing installed yet; after 278 and 279 the version that runs
  is installed again. A second run that fails writes `failed` over the "Rollback verification failed"
  of the first one, and the server may be down since then: `FailureRestores` speaks of the runtime the
  last run found. A status file that was opened and not written is read as no valid status (`unknown`).
- A look for the request file that fails is taken for none there (`update.rs:237`), so a request that
  is being served may be replaced.
- A reboot during an installation leaves a mixed runtime and the status `installing`.
- The last part of a pattern may overlap the one before: `a*a` matches `a`, unlike in a shell.
- A form that breaks off between two fields is taken for one that has ended (`main.rs:2926`).
- An app that names both platforms, or both families only, counts as one for the Apple TV
  (`ipa.rs:71-92`), and is then refused on the iPhone.

## The proofs

All are for every value of the constants, under the assumptions named in the modules
(`TimeAssumption`, `UploadAssumption`, `NoneAssumption`, `BoundAssumption`, `RouteAssumption`,
`FaultAssumption`, `NoneIsNoRequest`, `NoneIsNoCode`, `ReleaseAssumption`, `WirelessAssumption`,
`AppleTvAssumption`, `LoginAssumption`, `UpdateAssumption`, `IntakeAssumption`, `AnswerAssumption`,
`FileAssumption`): `None` is no id and no failure code, bounds are naturals, contents and
configurations are arbitrary sets. Of the intake, lists of releases and assets, patterns and archives
are of any length; a pattern has at least one part (`split` returns one), an archive names each path
once, and the expanded size is limited below the greatest `u64`.

| theorem | module | says |
|---|---|---|
| `LibraryInvariance` | `LibraryProofs` | `LibrarySpec => []LibraryInv` |
| `LibraryTypes`, `LibrarySignedIsCurrent` | `LibraryProofs` | types; what is signed is what the library records |
| `LibraryOutcomes`, `LibraryOutcomeExplained` | `LibraryProofs` | `LibrarySpec => []OutcomeInv`, and what clients see of it |
| `LibrarySuccessIsManaged`, `LibraryRefreshStartsRight` | `LibraryProofs` | the action properties of `library` and `refresh` |
| `IntactInvariance` | `LibraryProofs` | `LibrarySpec => []IntactInv` |
| `LibraryJobIpaIntact`, `LibraryLiveAppHasFile` | `LibraryProofs` | two invariants of `library` |
| `LibraryNoOrphanFile` | `LibraryProofs` | `LibrarySpec => []NoOrphanFile` |
| `LibraryShelfKept` | `LibraryProofs` | the library implements `IpaShelf` |
| `ShelfCopies`, `ShelfDeliveries` | `LibraryProofs` | what follows from `IpaShelf`: a copy is what the shelf holds, and what a job reports as installed is what the library shows for its app at that moment |
| `SourcesInvariance` | `SourcesProofs` | `SourcesSpec => []SourcesInv` |
| `SourcesTypes`, `SourcesJobIpaKept`, `SourcesSignedIsCurrent` | `SourcesProofs` | the same with downloads under way |
| `SourcesShelfKept`, `SourcesDeliveries` | `SourcesProofs` | the library with its sources implements `IpaShelf`, and what follows |
| `SourcesBundleStable`, `SourcesDownloadMatches` | `SourcesProofs` | the action properties of `sources` |
| `SourcesNoOrphanFile`, `SourcesOutcomeExplained` | `SourcesProofs` | two invariants of the library, with downloads under way |
| `RsdInvariance` | `RsdProofs` | `RsdSpec => []RsdInv` |
| `RsdEndsInTime`, `RsdCleanReport`, `RsdLeftoversReported`, `RsdRefusedInstalled` | `RsdProofs` | the invariants of `rsd` |
| `RsdRepliesMatch` | `RsdProofs` | `RsdSpec => RepliesMatch` |
| `RsdPromiseKept` | `RsdProofs` | `RsdInstall` implements `InstallPromise` |
| `WirelessInvariance` | `PairingProofs` | `WirelessSpec => []WirelessInv` |
| `PairedSessionIsStored`, `StoredPairingIsReadable`, `PairingWaitsEndInTime`, `EndedSessionIsQuiet` | `PairingProofs` | the invariants of `pairing`, and that a paired session is stored |
| `EndedSessionStoresNothing` | `PairingProofs` | `WirelessSpec => EndedStoresNothing` |
| `TvInvariance` | `AppleTvProofs` | `TvSpec => []TvInv` |
| `ReadySessionWasSaved`, `CacheFollows`, `SessionVerifiesItself`, `PinIsNotLost` | `AppleTvProofs` | the invariants of `apple_tv`, and two more |
| `VerdictStays` | `AppleTvProofs` | `TvSpec => VerdictIsFinal` |
| `LoginInvariance` | `LoginProofs` | `LoginSpec => []LoginInv` |
| `AnswersMeetChallenges`, `WakeUpsAreKept`, `ReadyLoginsSign`, `RecoveriesAreGrantedOnce` | `LoginProofs` | the invariants of `login`, and that a recovery is granted once |
| `LoginVerdictsStay` | `LoginProofs` | `LoginSpec => LoginVerdictStays`: a login that is ready or failed stays so |
| `PromiseFinalAndKept`, `PromiseRefusal`, `RsdFinalAndKept` | `RsdProofs` | what follows from the promise, and so for an installation: a verdict is final, nothing reported as not installed gets installed later, no older build survives a command under "refuse" |
| `UpdateInvariance` | `UpdateProofs` | `UpdateSpec => []UpdateIInv` |
| `UpdatesAreOrdered`, `RequestIsServed`, `OutcomesAreTrue` | `UpdateProofs` | the invariants of `update` |
| `IntakeInvariance` | `IntakeProofs` | `IntakeSpec => []IntakeIInv` |
| `IntakeLeavesNothing`, `ChoicesAreExact`, `InspectionsAreExact` | `IntakeProofs` | the invariants of `intake` |

**Why the invariants are what they are.** `JobIpaIntact` is not inductive. A job's file is safe
because `delete_ipa` and `download` see its row, so `JobInv` says that a job that runs is active,
its app live and its path the app's. It starts to hold when the job is queued because the handler
holds the read guard: `LockInv` ties each `pc` to the guard it implies, so nobody is between marking
and removing at that time. A refresh queues from what it read earlier, hence `TodoInv`: its targets
stay live at the same path as long as it holds the guard. The file at a path changes by renames and
removals only; `RowInv` and `FileInv` say that a row's path is one of its own id and holds its own
content or nothing, `UploadInv` that an upload in progress has an id of its own, `HandlerInv` that a
deletion past its mark still has the marked app's path. With these, `SignedIsCurrent` is inductive:
what `LinkIpa` finds is the recorded content, and no step replaces the content of an app with an
active job.

`IntactInv` adds presence. Removals that outlived their handler could hit a file at any later time,
so `UnlinkingInv` says they belong to an app that is not live and that nobody can bring back;
`PresentInv` is the property itself with the clause for an upload about to be inserted. It needs
that no download is under way (the composition does lose files, see above), which is why
`GitHubSources` has the weaker `JobIpaKept`: with downloads the file of a running job may be
missing, but it is never another one, and its app and path stay.

`OutcomeInv` says what the row of a job tells at each line of its task: a reason is noted exactly on
the way to `set_failed`, and a pair with the identifier recorded, whose success is the next section,
is under management. It stays so because the only statement that ends the management is refused
while a job of the pair is active, and the job is.

`RefreshStartsRight` follows from `IntactInv`: `TodoInv` for the row and the path, `PresentInv` for the
file, and `JobInv` for the tasks. The loop looks at rows only, in the section in which it inserts one,
so it is `JobInv` that makes a task visible to it in every phase (`RefreshStart`); that nobody but a
refresh starts a job while its own list gets shorter is `RefreshStarter`.

`OwnedInv` names the owner of every file: a live app, or a request that has its path in hand
(`PathPcs`) and will rename it into the library, or remove it, in a later step. A handler that is
cut short drops what it has in hand, so it is said of a library in which none was
(`Uninterrupted`). A download has one path in hand
until it removes it: the replaced one, or its own if the transaction refused it.

`ShelfInv` is what the refinement needs beside `LibraryInv`. A step is mapped to one action of
`IpaShelf` by what it changes: the sections that queue a job to `Lend`, `LinkIpa` to `Copy`,
`RecordInstalled` to `Deliver`, `SetSucceeded`, `SetFailed` and a restart to `End`, an insertion, an
undone deletion and a download to `Put`, `DeleteMarks` to `TakeAway`; all others leave the shelf
alone. `CopyInv` says that a job reaches the line that installs only with a copy, and takes one only
once; `UniqueInv` that the `UNIQUE` column also holds between deleted and live rows, so that a
deletion may be undone. `Put` is allowed because what is lent is the app of an active job
(`LentIsBusy`), and the handlers look for one. With the sources one more fact is needed: a download
changes the row of an app without active jobs only, and to a content that is free (`DownloadPuts`).

`SourcesInv` is `LibraryInv` with `LinkInv` and `FetchInv`: what a source names exists, and the row
a handler copied names an app that still has a row (rows are never removed), so what the download
writes is well defined. The proof reuses the lemmas of `LibraryProofs` for every step of the library
and adds one lemma per step of a source.

Each proof has one lemma per conjunct of the invariant, with one step per action below it; small
lemmas say what the statements of `Store` leave alone (`UpdateJobStatus` keeps the app of a row, and
so on). TLC checked `IntactInv` with the configuration of `library`, `SourcesInv` with that of
`source_jobs`, `ShelfInv` with both, `RsdInv`, `WirelessInv`, `TvInv` and `LoginInv` with those of
the runs named after them; each is a definition of the `...Invariant` module, which those runs use.

`RsdInv` says what each `pc` implies. `TimeInv` bounds the deadline of the wait: the work deadline
up to the command, the install deadline around it, then one reserve after the other, so that
`clock <= expiry` gives `EndsInTime`; its only assumption is that the reserves fit into the budget.
`AfcInv` says that all replies but the last have been read while the call waits, or that the
connection is marked. `ReportInv`, `TunnelInv` and `StagingInv` tie the report to what is open or
left. `CommandInv` says what an answer proves about the command, and that under "refuse" the app is
absent until the command installs it; it rests on the modelled fact that nobody else installs this
bundle identifier meanwhile. The refinement maps `verdict` to `outcome` and shows for each step
that gives a verdict (`VerdictStep`) that it is `Justified`; all other steps are the command, a step
of the device, or a stutter. The invariant's proof has one step per action.

`WirelessInv` ties the task to the session: `TaskInv` that a task past its first step serves the
session that is kept, `AbortInv` that a task whose session ended is aborted or cleans up, `AdvertInv`
who still has to withdraw the advertisement, `StartInv` what holds between spawning the task and
storing the session. `EndedStoresNothing` follows from `AbortInv`, since `finalize_new_pairing` stores
only for a session that has not ended.

`TvInv` rests on `SessionInv`, that the task of the kept session is the only one not aborted, and
`StoredInv`, that once it has saved, no task before its own save is left that holds the lock; so what
is stored is its pairing until a forget. `LookupInv` carries that to the look-ups, unless one
overlapped.

`LoginInv` says what an answer on its way proves: `DeliveryInv` that at most one is about to be stored
for a login, that the store is empty, and that its challenge is still the last one; `WakeInv` is the
argument why `Notify` with one permit is enough.

`UpdateIInv` has a part for each half and one for what they share. `WriterInv` is the single flight: a
handler that looked for a request and found none is the only one that writes one, unless a file
operation outlived its handler (`OrphanInv`), in which case the properties claim nothing either.
`TargetInv` carries the comparison of versions from the handler through the file to the updater: a
request asks for more than the server that runs, and the server keeps running until the updater
stops it (`ServerInv`). A run that is cut short breaks that, since its request then names what is
installed already, so `AscendingInv` orders the versions themselves: the runtime on disk and the one
the updater found, what it serves, the request, what a handler writes, what is released. Each is at
most the next, wherever a run ends, and `NeverDowngrades` follows (`RestartIsLate`). `RuntimeInv` and
`StatusInv` say what is on disk at each line of the script and its rollback; `failed` is said only of
a runtime that was put back and answers. The first attempt left open what the updater reads between
its start and the first line, and the proof asked for it: it starts for a request, and nobody else
removes one (`updater = "read" => request # 0`).

`IntakeIInv` adds to the properties only what an accepted archive hands on (`MadeInv`); the work is
in the operators, over lists of any length. A fold is a recursive definition of the community
modules, and the library's induction theorems take the property as an operator, which no prover here
can instantiate. The proofs use the well-foundedness of `<` on the naturals instead: a set of
naturals that holds 0 and with each number the next holds all, since the least number outside would
have a predecessor inside (`LeastNatural`, `NatSet`, `UpTo`). With that `FoldExists` gives, for a fold
over `m` elements, a function of the states after the first `n`, and each loop is an invariant of
that function:

- of `max_by_key`, that the best of the first `n` releases is eligible and none of them is later;
- of `wildcard_match`, that the greedy offset never passes the place at which a part stands in any
  way of matching the pattern: the first occurrence behind an earlier offset is not a later one, so
  what the pattern stands for is found (`SearchFindsAll`). The converse is false, see the last parts
  that overlap, and is not claimed;
- of `inspect_ipa`, that as long as it has not failed, the first `n` entries keep every limit, the
  saturating sum is the sum, the bundle is the only one so far and the Info.plist that of it
  (`ScanResult`). The sum saturates above `MaxExpanded` only, hence the assumption that the limit is
  below the greatest `u64`; that two entries never claim the same Info.plist is what keeps a later
  one from hiding the first.

TLC checked `UpdateIInv` with the constants of `update`, `IntakeIInv` with those of `intake`,
`OutcomeInv` with those of `library`, and `OwnedInv` with those of `sources`, one dropped client and
one lost file.

**Only model-checked.** Every invariant and every action property of the runs that pass has its
theorem. What remains with TLC is liveness (`RequestAnswered`, `JobEnds`, `CallReturns`,
`ArtifactDropped`, `TaskTerminates`, `LockReleased`, `SignInEnds`, `RequestSettles`), which the prover
cannot reason about since it knows no `ENABLED`.

## Not modelled

- Display names, versions, progress percentages, log lines, listings: nothing depends on them.
- Errors of database statements: the code ignores those of the progress updates; their effect would
  be a row that stays active, as after a restart.
- In the library, the temporary files `.upload-*` and `.source-*`: `Intake` has them, for one handler.
  They stay after a crash or a dropped handler, under names nothing else uses.
- Ids: `Uuid::now_v7` is a value nobody has. `CreateSource` therefore asks for an id that no handler
  carries.
- A start of the server on a database of an older version (the migrations in `initialize`).
- The files of the saved Apple credentials: two logins that end together may each create a key and
  leave a file the other's key does not open, and a key that is lost makes the saved login
  unreadable (`signing.rs:1151-1173`); this adds to `AppleLogin` more states than it is worth. A
  restart restores a login or not. The refusal of a login without an anisette server is left out:
  one is taken to be set.
- In the pairing modules: the cryptography and the messages of the handshake, which is one step per
  stage that succeeds, fails or never ends; the choice of network addresses. The restart of
  `WirelessPairing` keeps the files only.
- In `SelfUpdate`: checking signatures and unpacking, which succeed or fail; whether the host's file
  system keeps the order of writes over a power cut.
- The parsing of repository names and the redirect policy of the GitHub client.
- Discovery, mDNS, netmuxd, HTTP, ZIP and plist parsing: network and data whose result is a choice
  here (which devices answer, which route serves one, whether an IPA is valid).
- In `RsdInstall`: the steps of opening a session are one step that succeeds or fails; a look-up is
  atomic; timers fire on time; a step that ends at the very instant of its deadline may go either
  way; nothing else installs the same bundle identifier; what is in the files is not modelled. A
  staging directory that the device creates only after its request was given up (`staging = "late"`)
  may stay behind unreported: neither the code nor the properties cover it. A restart of the server
  during a call leaves the signed bundle and the staging directory behind; nothing removes them.
- The direct route to a device, through netmuxd and the `idevice` library.
- `run_spike_remote_pairing_install` (`main.rs:2112-2136`), the diagnostic installation: it holds a read
  guard of `app_mutation` through the whole installation and the single flight of the RSD route, queues
  no job and changes no row. In the library it would be a reader that stays longer than the others, and
  `RequestAnswered` is not checked with it. What it does on the device is in `RsdInstall` (the policy
  "refuse").
- In the pairing properties: `VerifiedIsItself` leaves out look-ups that overlap a change of the pairing,
  which do go wrong (see the observations), and `AcceptedPinArrives` a task that drops its receiver, by
  a timeout or an abort, just after the PIN was sent; that session ends.

## Plan

1. Store, install jobs, job runner, library (done: `Store`, `InstallJobs`, `JobRunner`,
   `AppLibrary`, with proofs).
2. GitHub sources composed with the library (done: `GitHubSources`, with proofs).
3. The installation on a device over RSD (done: `InstallPromise`, `RsdInstall`, with proofs).
4. Pairing an iPhone and an Apple TV (done: `PairedDevice`, `WirelessPairing`, `AppleTvPairing`, with
   proofs).
5. Signing in with Apple (done: `AppleLogin`, with proofs; the credential files are left).
6. The self-update with the host's scripts (done: `SelfUpdate`, with proofs).
7. Release choice, inspection and the stream between them (done: `Intake`, with proofs).
8. `IpaShelf`, an abstract specification of the library that `AppLibrary` and `GitHubSources`
   implement (done, with proofs).
9. Proofs of the action properties of the library and of the sources (done).
