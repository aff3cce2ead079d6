------------------------------- MODULE Intake -------------------------------
(***************************************************************************)
(* How one IPA comes into the library, up to the point where AppLibrary    *)
(* and GitHubSources take over: download (sources.rs) with GitHubClient    *)
(* (github.rs), or upload_ipa (main.rs); then inspect_ipa (ipa.rs) and, for*)
(* the accepted app, platform_mismatch with a device.                      *)
(*                                                                         *)
(* Each stage chooses what it is given and keeps it, with what the code    *)
(* made of it, until the next stage.                                       *)
(***************************************************************************)
EXTENDS ReleaseChoice, IpaInspection

CONSTANTS
    ReleaseLists,  \* answers of GitHub: sequences of releases
    Patterns,      \* asset patterns of sources
    AssetLists,    \* the names of the assets of a release
    ChunkSizes,    \* bytes that arrive at once
    Archives,      \* entries of archives
    Devices,       \* device classes
    None

\* The limits are far below u64::MAX.
ASSUME IntakeAssumption ==
    /\ {MaxCompressed, MaxExpanded, MaxEntries, MaxRatio, RatioMin, MaxInfo} \subseteq Nat
    /\ Largest \in Nat /\ MaxExpanded < Largest
    /\ ChunkSizes \subseteq Nat

\* split returns at least one part, of whatever pattern.
ASSUME AnswerAssumption ==
    /\ ReleaseLists \subseteq Seq(Releases)
    /\ AssetLists \subseteq Seq(Names)
    /\ Patterns \subseteq Seq(Names) \ {<<>>}

ASSUME FileAssumption ==
    /\ NoBundle \notin Bundles
    /\ \A archive \in Archives : IsArchive(archive)
    /\ Devices \subseteq Families

VARIABLES
    stage,   \* where the handler is, or how it ended
    origin,  \* "source" or "upload"
    given,   \* what the last stage was given
    made,    \* what the code made of it
    file,    \* the temporary file exists
    total,   \* the bytes received
    seen     \* the fields of the upload read so far

vars == <<stage, origin, given, made, file, total, seen>>

Stages == {"releases", "released", "assets", "link", "fields", "stream",
           "inspect", "ready", "checked", "refused", "dropped"}

IntakeInit ==
    /\ origin \in {"source", "upload"}
    /\ stage = IF origin = "source" THEN "releases" ELSE "fields"
    /\ given = None /\ made = None
    /\ file = (origin = "upload") /\ total = 0 /\ seen = {}

Gives(what, result) == given' = what /\ made' = result

\* The error paths end here: each removes the temporary file.
Refuse ==
    /\ stage' = "refused" /\ file' = FALSE /\ total' = 0
    /\ Gives(None, None)
    /\ UNCHANGED <<origin, seen>>

-----------------------------------------------------------------------------
(* A download of a source *)

\* latest_release
ChooseRelease ==
    /\ stage = "releases"
    /\ \/ \E releases \in ReleaseLists, prereleases \in BOOLEAN :
            LET best == LatestEligible(releases, prereleases) IN
            /\ best # <<>>
            /\ stage' = "released"
            /\ Gives([releases |-> releases, prereleases |-> prereleases], best[1])
            /\ UNCHANGED <<origin, file, total, seen>>
       \/ Refuse  \* no answer of GitHub, or no eligible release

\* It returns: of the list only the release goes on, with its assets.
ReleaseChosen ==
    /\ stage = "released"
    /\ stage' = "assets" /\ Gives(None, None)
    /\ UNCHANGED <<origin, file, total, seen>>

\* match_ipa_asset
ChooseAsset ==
    /\ stage = "assets"
    /\ \E assets \in AssetLists, pattern \in Patterns :
        LET matching == Matching(assets, pattern) IN
        IF ValidPattern(pattern) /\ Cardinality(matching) = 1
        THEN /\ stage' = "link"
             /\ \E i \in matching : Gives([assets |-> assets, pattern |-> pattern], assets[i])
             /\ UNCHANGED <<origin, file, total, seen>>
        ELSE Refuse

\* download_asset, up to the loop. A link that is not the canonical one of the
\* asset, an answer that is no success and a length above the limit are refused.
BeginDownload ==
    /\ stage = "link"
    /\ \/ /\ stage' = "stream" /\ file' = TRUE
          /\ Gives(None, None)
          /\ UNCHANGED <<origin, total, seen>>
       \/ Refuse

-----------------------------------------------------------------------------
(* An upload: the fields of the form *)

ReadField ==
    /\ stage = "fields"
    /\ \E field \in {"file", "displayName", "other"} :
        IF field \in {"file", "displayName"} \ seen
        THEN /\ seen' = seen \cup {field}
             /\ stage' = IF field = "file" THEN "stream" ELSE stage
             /\ UNCHANGED <<origin, given, made, file, total>>
        ELSE Refuse

\* A name that cannot be read or is not valid.
RejectName == stage = "fields" /\ "displayName" \notin seen /\ Refuse

\* The end of the form, and an error between two fields, which is taken for it.
EndFields ==
    /\ stage = "fields"
    /\ \/ /\ "file" \in seen
          /\ stage' = "inspect"
          /\ UNCHANGED <<origin, given, made, file, total, seen>>
       \/ Refuse  \* no file field, or flush or sync_all fails

-----------------------------------------------------------------------------
(* The bytes of the file, for both *)

ReceiveChunk ==
    /\ stage = "stream"
    /\ \E n \in ChunkSizes :
        LET sum == SaturatingAdd(total, n) IN
        IF sum > MaxCompressed THEN Refuse
        ELSE total' = sum /\ UNCHANGED <<stage, origin, given, made, file, seen>>

\* Mutant: the file of a stream that breaks is left.
StreamBreaksLeaves ==
    /\ stage = "stream"
    /\ stage' = "refused" /\ total' = 0 /\ UNCHANGED <<origin, given, made, file, seen>>

\* The connection, or writing the chunk, fails.
StreamBreaks == stage = "stream" /\ Refuse

EndStream ==
    /\ stage = "stream"
    /\ \/ /\ stage' = IF origin = "source" THEN "inspect" ELSE "fields"
          /\ UNCHANGED <<origin, given, made, file, total, seen>>
       \/ origin = "source" /\ Refuse  \* flush or sync_all fails

\* The client goes away: the future of the handler is dropped where it waits.
HandlerDropped ==
    /\ stage \in {"releases", "link", "fields", "stream"}
    /\ stage' = "dropped" /\ Gives(None, None)
    /\ UNCHANGED <<origin, file, total, seen>>

-----------------------------------------------------------------------------
(* The file *)

Inspect ==
    /\ stage = "inspect"
    /\ \E archive \in Archives, readable \in BOOLEAN :
        LET result == InspectIpa(total, readable, archive) IN
        IF result.accepted
        THEN /\ stage' = "ready"
             /\ Gives(archive, result.info)
             /\ UNCHANGED <<origin, file, total, seen>>
        ELSE /\ stage' = "refused" /\ file' = FALSE /\ total' = 0
             /\ Gives(IF readable THEN archive ELSE None, None)
             /\ UNCHANGED <<origin, seen>>

\* An install job asks whether the app fits the device.
CheckDevice ==
    /\ stage = "ready"
    /\ \E device \in Devices :
        Gives([device |-> device, info |-> made],
              [allowed |-> InstallableOn(made, device)])
    /\ stage' = "checked"
    /\ UNCHANGED <<origin, file, total, seen>>

IntakeNext ==
    \/ ChooseRelease \/ ReleaseChosen \/ ChooseAsset \/ BeginDownload
    \/ ReadField \/ RejectName \/ EndFields
    \/ ReceiveChunk \/ StreamBreaks \/ EndStream \/ HandlerDropped
    \/ Inspect \/ CheckDevice

IntakeSpec == IntakeInit /\ [][IntakeNext]_vars

-----------------------------------------------------------------------------
(* Properties *)

\* Types; the file exists while bytes are received or inspected and never holds
\* more than the limit (github.rs:172, main.rs:2971). Whichever step refuses an
\* IPA, nothing of it is left on the disk (sources.rs:469, main.rs:2972).
IntakeInv ==
    /\ stage \in Stages /\ origin \in {"source", "upload"}
    /\ file \in BOOLEAN /\ total \in 0..MaxCompressed
    /\ seen \subseteq {"file", "displayName"}
    /\ stage \in {"stream", "fields", "inspect", "ready", "checked"} => file
    /\ stage = "inspect" /\ origin = "upload" => "file" \in seen
    /\ stage = "refused" => ~file

\* However GitHub orders its answer, the release chosen is eligible and no
\* eligible one was published later (github.rs:275). A pattern that stands for
\* an IPA of the release never brings another one, though the search is greedy
\* and takes no step back (github.rs:255): if an asset is chosen, no other IPA is
\* one that the pattern stands for.
ChoiceIsExact ==
    /\ stage = "released" => IsLatest(made, given.releases, given.prereleases)
    /\ stage = "link" =>
        /\ IsIpa(made)
        /\ \A i \in DOMAIN given.assets :
            IsIpa(given.assets[i]) /\ StandsFor(given.pattern, given.assets[i])
                => given.assets[i] = made

\* What the loop over the entries accepts is exactly an archive that is within
\* every limit as a whole and holds one bundle with one identifier, in whatever
\* order the entries come (ipa.rs:151). It is then let on a device only if it
\* declares its family, or none at all, and it is let on the devices of the only
\* family it declares (main.rs:2396).
InspectionIsExact ==
    /\ stage = "ready" => IsIpaArchive(given)
    /\ stage = "refused" /\ given # None => ~IsIpaArchive(given)
    /\ stage = "checked" =>
        /\ made.allowed =>
            Declares(given.info) = {} \/ given.device \in Declares(given.info)
        /\ Declares(given.info) \subseteq {given.device} => made.allowed
=============================================================================
