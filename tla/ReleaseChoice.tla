--------------------------- MODULE ReleaseChoice ---------------------------
(***************************************************************************)
(* What is chosen from GitHub's answer (github.rs): the latest eligible    *)
(* release of a repository, and the one IPA asset of it whose name matches *)
(* the pattern of the source. Operators only: they have no state.          *)
(*                                                                         *)
(* A name is a sequence of letters in lower case, of which Ending stands   *)
(* for ".ipa" and Slash for one that no pattern may hold. A pattern is the *)
(* sequence of its parts between the wildcards.                            *)
(***************************************************************************)
EXTENDS Integers, Sequences, FiniteSetsExt, SequencesExt

CONSTANTS
    Letters,  \* of names and patterns
    Ending,
    Slash

Names == Seq(Letters)

\* published stands for the date, of which only the order counts.
Releases == [id : Int, published : Nat, draft : BOOLEAN, prerelease : BOOLEAN]

-----------------------------------------------------------------------------
(* latest_eligible_release *)

Eligible(r, prereleases) == ~r.draft /\ (prereleases \/ ~r.prerelease)

\* The key is (published_at, id); a release without a date has the least one.
NotBefore(r, s) ==
    \/ r.published > s.published
    \/ r.published = s.published /\ r.id >= s.id

Later(best, r, prereleases) ==
    IF Eligible(r, prereleases) /\ (best = <<>> \/ NotBefore(r, best[1])) THEN <<r>> ELSE best

\* A sequence of at most one release: max_by_key keeps the last of the greatest.
LatestEligible(releases, prereleases) ==
    FoldLeft(LAMBDA best, r : Later(best, r, prereleases), <<>>, releases)

-----------------------------------------------------------------------------
(* match_ipa_asset and wildcard_match *)

ValidPattern(parts) ==
    /\ parts # << <<>> >>
    /\ \A k \in DOMAIN parts : Slash \notin ToSet(parts[k])

PartAt(part, name, p) ==
    p + Len(part) <= Len(name) /\ SubSeq(name, p + 1, p + Len(part)) = part

\* Mutant: the last place instead of the first.
FindLast(part, name, offset) == Max({p \in offset..Len(name) : PartAt(part, name, p)})

\* name[offset..].find(part), as a place in name.
Find(part, name, offset) == Min({p \in offset..Len(name) : PartAt(part, name, p)})

Missing(name) == Len(name) + 1

Behind(offset, part, name) ==
    IF \E p \in offset..Len(name) : PartAt(part, name, p)
    THEN Find(part, name, offset) + Len(part)
    ELSE Missing(name)

\* Every part between the first and the last is looked for behind the one before
\* it. The last is only asked to end the name: it may overlap what was found.
WildcardMatch(parts, name) ==
    IF Len(parts) = 1 THEN name = parts[1]
    ELSE /\ IsPrefix(parts[1], name) /\ IsSuffix(Last(parts), name)
         /\ FoldLeft(LAMBDA offset, part : Behind(offset, part, name), Len(parts[1]),
                     SubSeq(parts, 2, Len(parts) - 1)) # Missing(name)

IsIpa(name) == name # <<>> /\ Last(name) = Ending

\* The assets of which there must be exactly one.
Matching(assets, parts) ==
    {i \in DOMAIN assets : IsIpa(assets[i]) /\ WildcardMatch(parts, assets[i])}

-----------------------------------------------------------------------------
(* What the two searches are for *)

\* The release is eligible, and no eligible one was published later.
IsLatest(release, releases, prereleases) ==
    LET Published(r) == ~r.draft /\ (r.prerelease => prereleases)
        NotAfter(r) == \/ r.published < release.published
                       \/ r.published = release.published /\ r.id <= release.id
    IN  /\ Published(release)
        /\ \A i \in DOMAIN releases : Published(releases[i]) => NotAfter(releases[i])

\* A pattern stands for a name: its parts occur one behind the other, the first
\* at the beginning and the last at the end.
StandsFor(parts, name) ==
    \E at \in [DOMAIN parts -> 0..Len(name)] :
        /\ at[1] = 0 /\ at[Len(parts)] + Len(Last(parts)) = Len(name)
        /\ \A k \in DOMAIN parts : PartAt(parts[k], name, at[k])
        /\ \A k \in 1..Len(parts) - 1 : at[k] + Len(parts[k]) <= at[k + 1]
=============================================================================
