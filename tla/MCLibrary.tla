----------------------------- MODULE MCLibrary -----------------------------
EXTENDS LibraryInvariant, TLC

\* Requests, jobs and contents are interchangeable.
Symmetry == Permutations(Requests) \cup Permutations(Jobs) \cup Permutations(Apps)
            \cup Permutations(Contents) \cup Permutations(Devices)
=============================================================================
