-------------------------- MODULE SourcesInvariant --------------------------
(***************************************************************************)
(* Why downloads leave the IPA of a running job alone: the invariant of    *)
(* the library, which the steps of sources.rs keep as well, with what a    *)
(* source handler may rely on when it comes back from GitHub.              *)
(***************************************************************************)
EXTENDS GitHubSources, LibraryInvariant

FetchPcs == {"check_release", "check_record", "download_release", "download_asset",
             "download_wait", "download_held"}
ReleasePcs == {"check_record", "download_asset", "download_wait", "download_held"}

\* A row that names a configuration, and an app that has a row or none.
Configured(row) ==
    /\ row.config \in Configs
    /\ row.app # None => row.app \in Apps /\ apps[row.app].state # "absent"

\* A source that is there is configured.
LinkInv == \A s \in Sources : sources[s].known => Configured(sources[s])

\* So is the copy of it that a handler carries, which stays one of an app that
\* has a row; a release was found before it is used.
FetchInv ==
    \A r \in Requests :
        /\ req[r].pc \in FetchPcs => fetch[r].src \in Sources /\ Configured(fetch[r].row)
        /\ req[r].pc \in ReleasePcs => fetch[r].release \in Releases
        /\ req[r].pc = "download_clean" => req[r].path \in Paths

SourcesInv ==
    /\ SourcesTypeOK
    /\ LibraryInv
    /\ LinkInv
    /\ FetchInv

=============================================================================
