--------------------------- MODULE GitHubSources ---------------------------
(***************************************************************************)
(* GitHub sources (sources.rs): configuring a source, checking it for a    *)
(* new release, downloading a release into the library, and the automatic  *)
(* synchronisation, composed with the library and the install jobs.        *)
(*                                                                         *)
(* A handler copies the source's row when it arrives, waits for GitHub and *)
(* comes back to rows that others may have changed: fetch[r] is what the   *)
(* handler of r carries across its awaits.  GitHub itself is external: a   *)
(* configuration has releases 1, 2, .. that appear one after the other,    *)
(* each with one matching asset whose content never changes.               *)
(***************************************************************************)
EXTENDS AppLibrary

CONSTANTS
    ReleaseContent,  \* [Releases -> Contents], what the asset of a release holds
    BundleOf,        \* [Contents -> bundle identifiers], as inspect_ipa finds them
    MaxCalls         \* bound of the calls on sources

ASSUME ReleaseAssumption ==
    /\ ReleaseContent \in [Releases -> Contents]
    /\ DOMAIN BundleOf = Contents
    /\ None \notin Configs
    /\ MaxCalls \in Nat

VARIABLES
    published,  \* [Configs -> the number of releases there are]
    fetch,      \* what a source handler carries
    syncer,     \* source_sync: the request that synchronises
    calls       \* calls on sources so far, for the bound

sourceVars == <<published, fetch, syncer, calls>>
allVars == <<vars, sourceVars>>

NoFetch == [src |-> None, row |-> NoSource, release |-> None, todo |-> {}]

Fetch == [src : Sources \cup {None},   \* the source's id
          row : Source,                \* its row when the handler arrived
          release : Releases \cup {None},  \* the release GitHub answered with
          todo : SUBSET Sources]       \* sources a synchronisation has left

SourcesTypeOK ==
    /\ JobsTypeOK
    /\ published \in [Configs -> 0..MaxRelease]
    /\ fetch \in [Requests -> Fetch]
    /\ syncer \in Requests \cup {None}
    /\ calls \in Nat

SourcesInit ==
    /\ JobsInit
    /\ published = [k \in Configs |-> 0]
    /\ fetch = [r \in Requests |-> NoFetch]
    /\ syncer = None
    /\ calls = 0

Call == calls < MaxCalls /\ calls' = calls + 1

\* What GitHub answers while published[k] > 0.
LatestRelease(k) == <<k, published[k]>>

FetchedContent(r) == ReleaseContent[fetch[r].release]

-----------------------------------------------------------------------------
(* Statements on github_sources *)

\* The columns (owner, repo, asset_pattern) and app_id are UNIQUE.
SourceFree(s, a, k) ==
    \A t \in Sources \ {s} :
        sources[t].known => sources[t].config # k /\ (a # None => sources[t].app # a)

RecordSourceCheck(s, release, sha, status) ==
    sources' = [sources EXCEPT ![s] =
                  IF @.known THEN [@ EXCEPT !.release = release, !.sha = sha, !.status = status]
                             ELSE @]

\* record_source_error clears what was known of the last release.
RecordSourceError(s) == RecordSourceCheck(s, None, None, "error")

ReplaceAppFromSource(s, a, c, p, release) ==
    /\ InsertApp(a, c, p)
    /\ RecordSourceCheck(s, release, c, "downloaded")

-----------------------------------------------------------------------------
(* create, update, remove, automation: the checks and the statement are one *)
(* section here, since no app that exists ever ceases to                    *)

SourceUnchanged == UNCHANGED <<apps, jobs, unmanaged, refreshAfter, now, fileVars,
                               lockVars, req, jobVars, faults, published, fetch, syncer>>

\* The app may be one whose row is marked deleted.
LinkTargets == {None} \cup {a \in Apps : apps[a].state # "absent"}

CreateSource(s, a, k) ==
    /\ Call
    /\ ~sources[s].known
    /\ \A r \in Requests : fetch[r].src # s /\ s \notin fetch[r].todo
    /\ a \in LinkTargets /\ SourceFree(s, a, k)
    /\ sources' = [sources EXCEPT ![s] = [NoSource EXCEPT !.known = TRUE, !.app = a,
                                                          !.config = k]]
    /\ SourceUnchanged

\* The last_* columns stay.
UpdateSource(s, a, k) ==
    /\ Call
    /\ sources[s].known
    /\ a \in LinkTargets /\ SourceFree(s, a, k)
    /\ sources' = [sources EXCEPT ![s].app = a, ![s].config = k, ![s].auto = FALSE]
    /\ SourceUnchanged

RemoveSource(s) ==
    /\ Call
    /\ sources[s].known
    /\ sources' = [sources EXCEPT ![s] = NoSource]
    /\ SourceUnchanged

\* Enabling needs the acknowledgement in the same request.
SetAutomation(s, enabled) ==
    /\ Call
    /\ sources[s].known
    /\ sources' = [sources EXCEPT ![s].auto = enabled]
    /\ SourceUnchanged

Publish(k) ==
    /\ published[k] < MaxRelease
    /\ published' = [published EXCEPT ![k] = @ + 1]
    /\ UNCHANGED <<vars, fetch, syncer, calls>>

-----------------------------------------------------------------------------
(* check *)

Snapshot(r, s) ==
    fetch' = [fetch EXCEPT ![r].src = s, ![r].row = sources[s], ![r].release = None]

EndFetch(r) == fetch' = [fetch EXCEPT ![r] = NoFetch]

CheckArrives(r, s) ==
    /\ Call
    /\ req[r].pc = "idle"
    /\ sources[s].known
    /\ Goto(r, "check_release")
    /\ Snapshot(r, s)
    /\ UNCHANGED <<storeVars, fileVars, lockVars, jobVars, faults, published, syncer>>

SourceCheckStatus(row, release) ==
    IF row.release = release /\ row.status \in {"downloaded", "unchanged", "up_to_date"}
    THEN "up_to_date" ELSE "update_available"

FindsRelease(r) ==
    /\ published[fetch[r].row.config] > 0
    /\ fetch' = [fetch EXCEPT ![r].release = LatestRelease(fetch[r].row.config)]

CheckFindsRelease(r) ==
    /\ req[r].pc = "check_release"
    /\ FindsRelease(r)
    /\ Goto(r, "check_record")
    /\ UNCHANGED <<storeVars, fileVars, lockVars, jobVars, faults, published, syncer, calls>>

\* The answer of GitHub is compared with the row as it was, and written to the
\* row as it is.
CheckRecords(r) ==
    /\ req[r].pc = "check_record"
    /\ LET row == fetch[r].row
           release == fetch[r].release
       IN  RecordSourceCheck(fetch[r].src, release, row.sha, SourceCheckStatus(row, release))
    /\ Finish(r)
    /\ EndFetch(r)
    /\ UNCHANGED <<apps, jobs, unmanaged, refreshAfter, now, fileVars, lockVars, jobVars,
                   faults, published, syncer, calls>>

CheckFails(r) ==
    /\ req[r].pc = "check_release"
    /\ RecordSourceError(fetch[r].src)
    /\ Finish(r)
    /\ EndFetch(r)
    /\ UNCHANGED <<apps, jobs, unmanaged, refreshAfter, now, fileVars, lockVars, jobVars,
                   faults, published, syncer, calls>>

-----------------------------------------------------------------------------
(* download *)

DownloadArrives(r, s) ==
    /\ Call
    /\ req[r].pc = "idle"
    /\ sources[s].known
    /\ Goto(r, "download_release")
    /\ Snapshot(r, s)
    /\ UNCHANGED <<storeVars, fileVars, lockVars, jobVars, faults, published, syncer>>

\* A synchronisation calls download for one source after the other.
ReturnDownload(r) ==
    /\ ReleaseLock(r)
    /\ req' = [req EXCEPT ![r] = [NoRequest EXCEPT !.pc = IF syncer = r THEN "sync_next"
                                                                        ELSE "idle"]]
    /\ fetch' = [fetch EXCEPT ![r] = [NoFetch EXCEPT !.todo = fetch[r].todo]]

DownloadFindsRelease(r) ==
    /\ req[r].pc = "download_release"
    /\ FindsRelease(r)
    /\ Goto(r, "download_asset")
    /\ UNCHANGED <<storeVars, fileVars, lockVars, jobVars, faults, published, syncer, calls>>

DownloadFails(r) ==
    /\ req[r].pc \in {"download_release", "download_asset"}
    /\ RecordSourceError(fetch[r].src)
    /\ ReturnDownload(r)
    /\ UNCHANGED <<apps, jobs, unmanaged, refreshAfter, now, fileVars, jobVars, faults,
                   published, syncer, calls>>

DownloadCompletes(r) ==
    /\ req[r].pc = "download_asset"
    /\ Goto(r, "download_wait")
    /\ UNCHANGED <<storeVars, fileVars, lockVars, jobVars, faults, sourceVars>>

\* inspect_ipa finds no IPA in the asset.
DownloadInvalid(r) ==
    /\ req[r].pc = "download_asset"
    /\ RecordSourceCheck(fetch[r].src, fetch[r].release, None, "error")
    /\ ReturnDownload(r)
    /\ UNCHANGED <<apps, jobs, unmanaged, refreshAfter, now, fileVars, jobVars, faults,
                   published, syncer, calls>>

DownloadLocks(r) ==
    /\ req[r].pc = "download_wait"
    /\ AcquireWrite(r)
    /\ Goto(r, "download_held")
    /\ UNCHANGED <<storeVars, fileVars, jobVars, faults, sourceVars>>

\* Mutant: it is enough that the source is still there.
SourceKnown(r) == sources[fetch[r].src].known

\* The section under the write guard: the source must be configured as it was
\* when the download began, and the linked app free and of the same bundle.
SourceAsFetched(r) ==
    LET current == sources[fetch[r].src]
    IN  current.known /\ current.app = fetch[r].row.app /\ current.config = fetch[r].row.config

\* Mutants: without the active job, and without the bundle identifier.
MayReplaceBusy(a, c) == BundleOf[apps[a].content] = BundleOf[c]
MayReplaceOther(a, c) == ~ActiveJobExistsForApp(a)

MayReplace(a, c) ==
    ~ActiveJobExistsForApp(a) /\ BundleOf[apps[a].content] = BundleOf[c]

DownloadRefused(r) ==
    /\ req[r].pc = "download_held"
    /\ LET a == fetch[r].row.app
       IN  \/ ~SourceAsFetched(r)
           \/ a # None /\ ~MayReplace(a, FetchedContent(r))
           \/ a = None /\ \A b \in Apps : ~FreshApp(b)   \* every id in Apps is used
    /\ ReturnDownload(r)
    /\ UNCHANGED <<storeVars, fileVars, jobVars, faults, published, syncer, calls>>

Current(a, c) == apps[a].content = c /\ files[apps[a].path] # None

DownloadUnchanged(r) ==
    /\ req[r].pc = "download_held"
    /\ SourceAsFetched(r)
    /\ LET a == fetch[r].row.app
           c == FetchedContent(r)
       IN  /\ a # None /\ MayReplace(a, c) /\ Current(a, c)
           /\ RecordSourceCheck(fetch[r].src, fetch[r].release, c, "unchanged")
    /\ ReturnDownload(r)
    /\ UNCHANGED <<apps, jobs, unmanaged, refreshAfter, now, fileVars, jobVars, faults,
                   published, syncer, calls>>

\* The rename comes before the statements; the path to remove afterwards is the
\* one the app had, or the new one if the statements were refused.
DownloadReplaces(r) ==
    /\ req[r].pc = "download_held"
    /\ SourceAsFetched(r)
    /\ LET a == fetch[r].row.app
           c == FetchedContent(r)
           p == SourcePath(a, c)
       IN  /\ a # None /\ MayReplace(a, c) /\ ~Current(a, c)
           /\ files' = [files EXCEPT ![p] = c]
           /\ IF ContentFree(a, c)
              THEN /\ ReplaceAppFromSource(fetch[r].src, a, c, p, fetch[r].release)
                   /\ req' = [req EXCEPT ![r].pc = "download_clean", ![r].path = apps[a].path]
              ELSE /\ req' = [req EXCEPT ![r].pc = "download_clean", ![r].path = p]
                   /\ UNCHANGED <<apps, sources>>
    /\ UNCHANGED <<jobs, unmanaged, refreshAfter, now, unlinking, lockVars, jobVars, faults,
                   sourceVars>>

\* Without a linked app: the path to remove is the new one in either case.
DownloadInserts(r) ==
    /\ req[r].pc = "download_held"
    /\ SourceAsFetched(r)
    /\ fetch[r].row.app = None
    /\ \E a \in {b \in Apps : FreshApp(b)} :
          LET c == FetchedContent(r)
              p == UploadPath(a)
          IN  /\ files' = [files EXCEPT ![p] = c]
              /\ req' = [req EXCEPT ![r].pc = "download_clean", ![r].app = a, ![r].path = p]
              /\ IF ContentFree(a, c)
                 THEN /\ InsertApp(a, c, p)
                      /\ sources' = [sources EXCEPT ![fetch[r].src] =
                                       [@ EXCEPT !.app = a, !.release = fetch[r].release,
                                                 !.sha = c, !.status = "downloaded"]]
                 ELSE UNCHANGED <<apps, sources>>
    /\ UNCHANGED <<jobs, unmanaged, refreshAfter, now, unlinking, lockVars, jobVars, faults,
                   sourceVars>>

\* Mutant: the replaced file stays.
DownloadLeaves(r) ==
    /\ req[r].pc = "download_clean"
    /\ ReturnDownload(r)
    /\ UNCHANGED <<storeVars, fileVars, jobVars, faults, published, syncer, calls>>

DownloadCleans(r) ==
    /\ req[r].pc = "download_clean"
    /\ files' = [files EXCEPT ![req[r].path] = None]
    /\ ReturnDownload(r)
    /\ UNCHANGED <<storeVars, unlinking, jobVars, faults, published, syncer, calls>>

-----------------------------------------------------------------------------
(* sync: the six-hour timer, or the user *)

SyncArrives(r) ==
    /\ Call
    /\ req[r].pc = "idle"
    /\ syncer = None
    /\ syncer' = r
    /\ Goto(r, "sync_next")
    /\ fetch' = [fetch EXCEPT ![r].todo = {s \in Sources : sources[s].auto}]
    /\ UNCHANGED <<storeVars, fileVars, lockVars, jobVars, faults, published>>

\* download looks the source up again; one that was removed is a failure.
SyncDownloads(r) ==
    /\ req[r].pc = "sync_next"
    /\ \E s \in fetch[r].todo :
          IF sources[s].known
          THEN /\ fetch' = [fetch EXCEPT ![r] = [src |-> s, row |-> sources[s], release |-> None,
                                                 todo |-> @.todo \ {s}]]
               /\ Goto(r, "download_release")
          ELSE /\ fetch' = [fetch EXCEPT ![r].todo = @ \ {s}]
               /\ UNCHANGED req
    /\ UNCHANGED <<storeVars, fileVars, lockVars, jobVars, faults, published, syncer, calls>>

SyncReturns(r) ==
    /\ req[r].pc = "sync_next"
    /\ fetch[r].todo = {}
    /\ Finish(r)
    /\ EndFetch(r)
    /\ syncer' = None
    /\ UNCHANGED <<storeVars, fileVars, lockVars, jobVars, faults, published, calls>>

-----------------------------------------------------------------------------
(* Faults *)

SourceAwaitPcs == {"check_release", "download_release", "download_asset",
                   "download_wait", "download_clean"}

SourceDisconnect(r) ==
    /\ faults.drops < MaxDrops
    /\ req[r].pc \in SourceAwaitPcs
    /\ unlinking' = IF req[r].pc = "download_clean" THEN unlinking \cup {req[r].path}
                                                    ELSE unlinking
    /\ Return(r)
    /\ EndFetch(r)
    /\ syncer' = IF syncer = r THEN None ELSE syncer
    /\ faults' = [faults EXCEPT !.drops = @ + 1]
    /\ UNCHANGED <<storeVars, files, jobVars, published, calls>>

SourceRestart ==
    /\ Restart
    /\ fetch' = [r \in Requests |-> NoFetch]
    /\ syncer' = None
    /\ UNCHANGED <<published, calls>>

-----------------------------------------------------------------------------

SourceStep(r) ==
    \/ CheckFindsRelease(r) \/ CheckRecords(r) \/ CheckFails(r)
    \/ DownloadFindsRelease(r) \/ DownloadFails(r) \/ DownloadCompletes(r) \/ DownloadInvalid(r)
    \/ DownloadLocks(r) \/ DownloadRefused(r) \/ DownloadUnchanged(r) \/ DownloadReplaces(r)
    \/ DownloadInserts(r) \/ DownloadCleans(r)
    \/ SyncDownloads(r) \/ SyncReturns(r)

SourceArrives(r) ==
    \/ \E s \in Sources : CheckArrives(r, s) \/ DownloadArrives(r, s)
    \/ SyncArrives(r)

ConfigureSource(s) ==
    \/ \E a \in Apps \cup {None}, k \in Configs : CreateSource(s, a, k) \/ UpdateSource(s, a, k)
    \/ RemoveSource(s)
    \/ \E enabled \in BOOLEAN : SetAutomation(s, enabled)

SourcesNext ==
    \/ LibraryStep /\ UNCHANGED sourceVars
    \/ \E r \in Requests : SourceArrives(r) \/ SourceStep(r) \/ SourceDisconnect(r)
    \/ \E s \in Sources : ConfigureSource(s)
    \/ \E k \in Configs : Publish(k)
    \/ SourceRestart

SourcesSpec == SourcesInit /\ [][SourcesNext]_allVars

-----------------------------------------------------------------------------
(* Properties *)

\* While a job runs, no download exchanges or moves the IPA it was queued with:
\* its app is in the library under the job's path, and the file there, if there is
\* one, is the content the library records.
JobIpaKept ==
    \A j \in Jobs :
        Running(j) =>
            LET a == jobs[j].app
            IN  /\ IsLive(a)
                /\ ipa[j] = apps[a].path
                /\ files[ipa[j]] \in {apps[a].content, None}

\* A download never gives an app an IPA of another bundle identifier, although the
\* source may be linked to another app while the download is under way.
BundleStable ==
    [][\A a \in Apps :
          apps[a].state # "absent" =>
              BundleOf[apps'[a].content] = BundleOf[apps[a].content]]_allVars

\* A source that is edited while a download or a synchronisation of it is under
\* way gets nothing of that download (at most the record that it failed): a release
\* is only ever recorded as downloaded for the configuration and the app it was
\* downloaded for.
DownloadMatchesSource ==
    [][\A r \in Requests, s \in Sources :
          /\ req[r].pc = "download_held" /\ req'[r].pc # "download_held"
          /\ fetch[r].src = s /\ sources'[s] # sources[s]
          => /\ sources'[s].config = fetch[r].row.config
             /\ sources'[s].app # None
             /\ apps'[sources'[s].app].content = ReleaseContent[sources'[s].release]]_allVars

\* A check that finds a source up to date is right: the release that GitHub named
\* is the one in the library.
UpToDateIsTrue ==
    [][\A r \in Requests, s \in Sources :
          /\ req[r].pc = "check_record" /\ req'[r].pc = "idle"
          /\ fetch[r].src = s /\ sources'[s].status = "up_to_date" /\ sources[s].app # None
          => apps[sources[s].app].content = ReleaseContent[sources'[s].release]]_allVars

=============================================================================
