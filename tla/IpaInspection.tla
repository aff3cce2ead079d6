--------------------------- MODULE IpaInspection ---------------------------
(***************************************************************************)
(* inspect_ipa (ipa.rs): an archive is read entry by entry, and refused at *)
(* the first that breaks a limit or a rule; platform_mismatch, which reads *)
(* the device family of the same archive. Operators only.                  *)
(*                                                                         *)
(* An entry has the sizes its header declares, a path and, if the path is  *)
(* that of a bundle's Info.plist, its contents. A path is safe or not, is  *)
(* in a bundle of Payload or not (NoBundle), and is its Info.plist or not. *)
(***************************************************************************)
EXTENDS Integers, Sequences, FiniteSetsExt, SequencesExt

CONSTANTS
    Bundles,        \* paths of bundles in Payload
    NoBundle,
    MaxCompressed,  \* MAX_COMPRESSED_BYTES
    MaxExpanded,    \* MAX_EXPANDED_BYTES
    MaxEntries,     \* MAX_ENTRIES
    MaxRatio,       \* MAX_COMPRESSION_RATIO
    RatioMin,       \* RATIO_CHECK_MIN_BYTES
    MaxInfo,        \* MAX_INFO_PLIST_BYTES
    Largest         \* u64::MAX

\* The device families that an app can declare.
Families == {"ios", "tvos"}

Infos == [dictionary : BOOLEAN, id : BOOLEAN,
          names : SUBSET Families, families : SUBSET Families]

Entries == [size : Nat, packed : Nat, safe : BOOLEAN, bundle : Bundles \cup {NoBundle},
            isInfo : BOOLEAN, info : Infos]

\* An Info.plist is that of a bundle, and no path occurs twice.
IsArchive(archive) ==
    /\ archive \in Seq(Entries)
    /\ \A i \in DOMAIN archive : archive[i].isInfo =>
        /\ archive[i].bundle \in Bundles
        /\ \A j \in DOMAIN archive :
            archive[j].isInfo /\ archive[j].bundle = archive[i].bundle => i = j

\* Mutant: the sum wraps.
AddWraps(a, b) == (a + b) % (Largest + 1)

\* saturating_add
SaturatingAdd(a, b) == Min({a + b, Largest})

\* An Info.plist: not a dictionary, or one with or without an identifier, with
\* the device families that its platform names and its UIDeviceFamily stand for.
NoInfo == [dictionary |-> FALSE, id |-> FALSE, names |-> {}, families |-> {}]

TooDense(entry) ==
    entry.size >= RatioMin /\ entry.packed > 0 /\ entry.size \div entry.packed > MaxRatio

\* The body of the loop. The Info.plist of a bundle is also an entry of it, so
\* the bundle is known when it is read.
ReadEntry(state, entry) ==
    LET total == SaturatingAdd(state.total, entry.size) IN
    IF \/ state.failed \/ ~entry.safe \/ total > MaxExpanded \/ TooDense(entry)
       \/ entry.bundle # NoBundle /\ state.bundle \notin {NoBundle, entry.bundle}
       \/ entry.isInfo /\ (entry.size > MaxInfo \/ ~entry.info.dictionary)
    THEN [state EXCEPT !.failed = TRUE]
    ELSE [state EXCEPT
            !.total = total,
            !.bundle = IF state.bundle = NoBundle THEN entry.bundle ELSE @,
            !.present = @ \/ entry.isInfo,
            !.info = IF entry.isInfo THEN entry.info ELSE @]

\* size is the length of the file, archive its entries; readable says whether
\* the file is a ZIP archive at all.
InspectIpa(size, readable, archive) ==
    LET begin == [failed |-> size > MaxCompressed \/ ~readable \/ Len(archive) > MaxEntries,
                  total |-> 0, bundle |-> NoBundle, present |-> FALSE, info |-> NoInfo]
        end == FoldLeft(ReadEntry, begin, archive)
    IN  [accepted |-> ~end.failed /\ end.bundle # NoBundle /\ end.present /\ end.info.id,
         info |-> end.info]

-----------------------------------------------------------------------------
(* from_info_plist and installable_on_apple_tv *)

Platform(info) ==
    IF "tvos" \in info.names THEN "tvos"
    ELSE IF "ios" \in info.names THEN "ios"
    ELSE IF "tvos" \in info.families THEN "tvos"
    ELSE IF "ios" \in info.families THEN "ios" ELSE "unknown"

InstallableOn(info, device) == Platform(info) \in {"unknown", device}

-----------------------------------------------------------------------------
(* What the inspection is for *)

DeclaredSize(archive) == FoldLeft(LAMBDA sum, e : sum + e.size, 0, archive)

\* The whole archive within the limits, every path safe, and exactly one bundle,
\* whose one Info.plist names an identifier.
IsIpaArchive(archive) ==
    LET entries == ToSet(archive)
        inBundle == {e \in entries : e.bundle # NoBundle}
    IN  /\ Len(archive) <= MaxEntries
        /\ DeclaredSize(archive) <= MaxExpanded
        /\ \A e \in entries : e.safe /\ (e.size >= RatioMin /\ e.packed > 0
                                            => e.size < (MaxRatio + 1) * e.packed)
        /\ \E b \in {e.bundle : e \in inBundle} : \A e \in inBundle : e.bundle = b
        /\ \E e \in entries : e.isInfo /\ e.info.id
        /\ \A e \in entries : e.isInfo => e.info.dictionary /\ e.size <= MaxInfo

Declares(info) == info.names \cup info.families
=============================================================================
