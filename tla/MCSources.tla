----------------------------- MODULE MCSources -----------------------------
EXTENDS SourcesInvariant, TLC

CONSTANTS c1, c2, c3, k1

\* Two versions of one program, and another program.
MCBundleOf == [c \in Contents |-> IF c = c3 THEN "other" ELSE "program"]

\* The repository of k1 publishes both versions; any other one publishes the
\* other program.
MCReleaseContent ==
    [release \in Releases |-> IF release[1] # k1 THEN c3 ELSE IF release[2] = 1 THEN c1 ELSE c2]

Symmetry == Permutations(Requests) \cup Permutations(Apps) \cup Permutations(Jobs)
=============================================================================
