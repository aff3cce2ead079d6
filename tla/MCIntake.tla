------------------------------ MODULE MCIntake ------------------------------
EXTENDS Intake

CONSTANTS b1, b2

\* Three releases with distinct identifiers, in any order, or fewer.
MCReleases ==
    [id : 1..3, published : 0..1, draft : BOOLEAN, prerelease : BOOLEAN]

MCReleaseLists ==
    {list \in UNION {[1..n -> MCReleases] : n \in 0..3} :
        \A i, j \in DOMAIN list : i # j => list[i].id # list[j].id}

Words(letters, n) == UNION {[1..k -> letters] : k \in 0..n}

\* Patterns with up to three wildcards, and the two invalid ones.
MCPatterns ==
    LET Parts(n) == Words({"a", "b", ".ipa"}, n) IN
    UNION {[1..n -> Parts(2)] : n \in 1..2} \cup UNION {[1..n -> Parts(1)] : n \in 3..4}
        \cup {<< <<"/">> >>}

\* Up to two assets: IPAs, and one that is not.
MCAssetLists ==
    LET FileNames == {Append(name, ".ipa") : name \in Words({"a", "b"}, 3)} \cup {<<"a">>} IN
    {list \in UNION {[1..n -> FileNames] : n \in 0..2} :
        \A i, j \in DOMAIN list : i # j => list[i] # list[j]}

Info(id, names, families) ==
    [dictionary |-> TRUE, id |-> id, names |-> names, families |-> families]

Entry(bundle, size, packed) ==
    [safe |-> TRUE, bundle |-> bundle, isInfo |-> FALSE, info |-> NoInfo,
     size |-> size, packed |-> packed]

InfoEntry(bundle, info, size) ==
    [Entry(bundle, size, 1) EXCEPT !.isInfo = TRUE, !.info = info]

MCEntries ==
    {Entry(NoBundle, size, packed) : size \in {0, 3, 4, 7}, packed \in {0, 1, 2}}
        \cup {Entry(b, 1, 1) : b \in {b1, b2}}
        \cup {[Entry(NoBundle, 1, 1) EXCEPT !.safe = FALSE]}
        \cup {InfoEntry(b1, NoInfo, 1), InfoEntry(b1, Info(FALSE, {}, {}), 1),
              InfoEntry(b1, Info(TRUE, {}, {}), 1), InfoEntry(b1, Info(TRUE, {}, {}), 2),
              InfoEntry(b2, Info(TRUE, {}, {}), 1)}

\* Up to three entries, of which no two are the Info.plist of one bundle (a path
\* occurs once in an archive), some of four, and an Info.plist of every family.
MCArchives ==
    {archive \in UNION {[1..n -> MCEntries] : n \in 0..3} :
        \A i, j \in DOMAIN archive :
            i # j => ~(archive[i].isInfo /\ archive[j].isInfo
                        /\ archive[i].bundle = archive[j].bundle)}
    \cup {<<InfoEntry(b1, Info(TRUE, {}, {}), 0)>> \o rest :
            rest \in [1..3 -> {Entry(NoBundle, 0, 0), Entry(b1, 0, 0)}]}
    \cup {<<InfoEntry(b1, Info(TRUE, names, families), 1)>> : names, families \in SUBSET Families}
=============================================================================
