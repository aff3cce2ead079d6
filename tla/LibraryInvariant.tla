-------------------------- MODULE LibraryInvariant --------------------------
(***************************************************************************)
(* Why a job's IPA stays what it was: the inductive invariant behind       *)
(* JobIpaIntact and SignedIsCurrent.  LibraryInv also survives the steps   *)
(* of GitHubSources; IntactInv needs that nothing but delete_ipa, a failed *)
(* upload and the disk itself removes files.  ShelfInv is what the proof   *)
(* that the library implements IpaShelf needs in addition.                 *)
(***************************************************************************)
EXTENDS AppLibrary

ReadPcs == {"create_held", "refresh_ready", "refresh_devices", "refresh_queue"}
WritePcs == {"delete_held", "delete_file", "download_held", "download_clean"}
UploadPcs == {"upload_rename", "upload_insert", "upload_discard"}
AppPcs == {"create_wait", "create_held", "delete_wait", "delete_held", "delete_file"}

\* The handlers that are past an acquisition are the holders of app_mutation, and
\* the lock is what a read-write lock should be.
LockInv ==
    /\ writer # None => readers = {}
    /\ \A r \in Requests : req[r].pc \in ReadPcs <=> r \in readers
    /\ \A r \in Requests : req[r].pc \in WritePcs <=> r = writer

\* A row names a path of its own app, for the content it has.
RowInv ==
    \A a \in Apps :
        apps[a].state # "absent" =>
            /\ apps[a].content \in Contents
            /\ apps[a].path \in {UploadPath(a), SourcePath(a, apps[a].content)}

\* A file at the path of a row holds that row's content.
FileInv ==
    \A a \in Apps :
        apps[a].state # "absent" => files[apps[a].path] \in {apps[a].content, None}

\* A handler that has an app's id, other than an upload, found a row.
HandlerInv ==
    \A r \in Requests :
        /\ req[r].pc \in AppPcs =>
              req[r].app \in Apps /\ apps[req[r].app].state # "absent"
        /\ req[r].pc = "delete_file" =>
              /\ apps[req[r].app].state = "deleted"
              /\ req[r].path = apps[req[r].app].path

\* An upload has an id that nobody else has, and its file is the one it brought.
UploadInv ==
    \A r \in Requests :
        req[r].pc \in UploadPcs =>
            /\ req[r].app \in Apps
            /\ req[r].content \in Contents
            /\ req[r].path = UploadPath(req[r].app)
            /\ apps[req[r].app].state = "absent"
            /\ \A q \in Requests \ {r} : req[q].pc \in UploadPcs => req[q].app # req[r].app
            /\ req[r].pc = "upload_insert" => files[req[r].path] \in {req[r].content, None}

\* What a refresh read of its targets still holds when it queues their jobs.
TodoInv ==
    \A r \in Requests :
        req[r].pc = "refresh_queue" =>
            \A t \in req[r].todo :
                /\ jobs[t[1]].phase # "absent"
                /\ IsLive(jobs[t[1]].app)
                /\ t[2] = apps[jobs[t[1]].app].path

\* A job that runs is one that the handlers see as active.
JobInv ==
    \A j \in Jobs :
        /\ jobs[j].phase # "absent" =>
              jobs[j].app \in Apps /\ apps[jobs[j].app].state # "absent"
        /\ Running(j) =>
              /\ IsActive(j)
              /\ IsLive(jobs[j].app)
              /\ ipa[j] = apps[jobs[j].app].path
        /\ ~Running(j) => ipa[j] = None /\ signed[j] = None
        /\ task[j] \in {"waiting", "preflight", "signing", "signed", "failed"} =>
              run[j] \in {"rsd_sign", "direct_sign"}

LibraryInv ==
    /\ TypeOK
    /\ LockInv
    /\ RowInv
    /\ FileInv
    /\ HandlerInv
    /\ UploadInv
    /\ TodoInv
    /\ JobInv
    /\ SignedIsCurrent

-----------------------------------------------------------------------------
(* What the row of a job says at each line of run_install_job *)

\* A job that runs has a failure from the line that goes to set_failed on, and none
\* elsewhere; with its bundle identifier recorded it is managed, and stays so,
\* since it is still active.
OutcomeInv ==
    /\ OutcomeExplained
    /\ \A j \in Jobs :
          /\ Running(j) => (run[j] = "failed" <=> jobs[j].failure # None)
          /\ run[j] = "recorded" =>
                jobs[j].identified /\ <<jobs[j].app, jobs[j].dev>> \notin unmanaged

-----------------------------------------------------------------------------
(* Why the library is a shelf to its jobs *)

PreparePcs == {"spawned", "connecting", "routing", "tunnel_wait", "rsd_open", "direct_open"}
InstallPcs == {"rsd_install", "direct_install", "installed", "recorded"}

\* A job gets behind the signing step only with the content it signed; a row that
\* is not there yet reports nothing.
CopyInv ==
    \A j \in Jobs :
        /\ run[j] \in PreparePcs \/ task[j] \in {"waiting", "preflight"} => signed[j] = None
        /\ run[j] \in InstallPcs \/ task[j] \in {"signing", "signed"} => signed[j] # None
        /\ jobs[j].phase = "absent" => jobs[j].identified = FALSE

\* The column is UNIQUE, and a deleted row keeps its content.
UniqueInv ==
    \A a, b \in Apps :
        a # b /\ apps[a].state # "absent" /\ apps[b].state # "absent"
            => apps[a].content # apps[b].content

ShelfInv == CopyInv /\ UniqueInv

-----------------------------------------------------------------------------
(* Without downloads a file of the library is there *)

NoLoss == faults.losses = 0

\* A removal that outlived its handler is of an app that is not in the library
\* and that no handler can bring (back) into it.
UnlinkingInv ==
    \A p \in unlinking :
        /\ ~IsLive(p[1])
        /\ \A r \in Requests :
              req[r].pc \in UploadPcs \cup {"delete_file"} => req[r].app # p[1]

\* The same of a handler that is about to remove a file.
PresentInv ==
    NoLoss =>
        /\ \A a \in Apps : IsLive(a) => files[apps[a].path] = apps[a].content
        /\ \A r \in Requests :
              req[r].pc = "upload_insert" => files[req[r].path] = req[r].content

IntactInv ==
    /\ LibraryInv
    /\ \A r \in Requests : req[r].pc \notin SourcePcs
    /\ UnlinkingInv
    /\ PresentInv

-----------------------------------------------------------------------------
(* Who a file belongs to *)

\* Where a request has a path of its own in hand.
PathPcs == UploadPcs \cup {"delete_file", "download_clean"}

Owned(p) ==
    \/ \E a \in Apps : IsLive(a) /\ apps[a].path = p
    \/ \E r \in Requests : req[r].pc \in PathPcs /\ req[r].path = p

Uninterrupted == faults.drops = 0 /\ faults.crashes = 0

OwnedInv == Uninterrupted => \A p \in Paths : files[p] # None => Owned(p)

=============================================================================
