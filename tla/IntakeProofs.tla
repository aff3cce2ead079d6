---------------------------- MODULE IntakeProofs ----------------------------
(***************************************************************************)
(* That each stage of the intake does what it is for, whatever GitHub      *)
(* answers and whatever the archive holds. The searches and the loop over  *)
(* the entries are folds: what holds before the first element and is kept  *)
(* by every step holds behind the last, by induction on the elements read. *)
(* With that, the invariant is inductive: what an answer, a form or an     *)
(* archive is found to be decides where the handler goes on, and on every  *)
(* way that ends in a refusal the temporary file is gone.                  *)
(***************************************************************************)
EXTENDS Intake, TLAPS, SequenceTheorems, FiniteSetTheorems, WellFoundedInduction

\* What is found in an archive is an Info.plist.
MadeInv == stage = "ready" => made \in Infos

IntakeIInv == IntakeInv /\ ChoiceIsExact /\ InspectionIsExact /\ MadeInv

-----------------------------------------------------------------------------
(* Loops over sequences *)

\* Every set of naturals but the empty one has a least element.
LEMMA LeastNatural ==
    ASSUME NEW T, T \subseteq Nat, T # {}
    PROVE  \E x \in T : \A y \in T : x <= y
  <1>1. PICK x \in T : \A y \in T : ~ (<<y, x>> \in OpToRel(<, Nat))
    BY NatLessThanWellFounded, WFMin
  <1>2. \A y \in T : ~ (y < x)
    BY <1>1 DEF OpToRel
  <1> QED BY <1>2

\* Induction over the naturals, for a set.
LEMMA NatSet ==
    ASSUME NEW S, 0 \in S, \A n \in Nat : n \in S => n + 1 \in S
    PROVE  Nat \subseteq S
  <1> DEFINE T == Nat \ S
  <1> SUFFICES ASSUME T # {} PROVE FALSE
    OBVIOUS
  <1>1. PICK x \in T : \A y \in T : x <= y
    BY LeastNatural
  <1>2. x \in Nat /\ x # 0
    OBVIOUS
  <1>3. x - 1 \in T
    BY <1>2
  <1> QED BY <1>1, <1>2, <1>3

\* The same for the first m numbers.
LEMMA UpTo ==
    ASSUME NEW m \in Nat, NEW S, 0 \in S, \A n \in 0..m - 1 : n \in S => n + 1 \in S
    PROVE  0..m \subseteq S
  <1> DEFINE T == {n \in Nat : n <= m => n \in S}
  <1>1. 0 \in T /\ \A n \in Nat : n \in T => n + 1 \in T
    OBVIOUS
  <1>2. Nat \subseteq T
    <2> HIDE DEF T
    <2> QED BY <1>1, NatSet
  <1> QED BY <1>2

\* Of the first n indices the greatest is n, and the others are those before it.
LEMMA MaxOfPrefix ==
    ASSUME NEW m \in Nat, NEW n \in 1..m
    PROVE  /\ Max(1..n) = n
           /\ (1..n) \ {n} = 1..n - 1
           /\ 1..n # {} /\ 1..n \in SUBSET (1..m) /\ 1..n - 1 \in SUBSET (1..m)
  <1>1. n \in 1..n /\ \A y \in 1..n : n >= y
    OBVIOUS
  <1>2. \A x \in 1..n : (\A y \in 1..n : x >= y) => x = n
    OBVIOUS
  <1>3. (CHOOSE x \in 1..n : \A y \in 1..n : x >= y) = n
    BY <1>1, <1>2
  <1>4. Max(1..n) = n
    BY <1>3 DEF Max
  <1>5. (1..n) \ {n} = 1..n - 1
    OBVIOUS
  <1>6. 1..n # {} /\ 1..n \in SUBSET (1..m) /\ 1..n - 1 \in SUBSET (1..m)
    OBVIOUS
  <1> QED BY <1>4, <1>5, <1>6

LEMMA MaxIsIn ==
    ASSUME NEW m \in Nat, NEW x \in SUBSET (1..m), x # {}
    PROVE  Max(x) \in x
  <1> DEFINE T == {m - y : y \in x}
  <1>1. PICK k \in T : \A l \in T : k <= l
    <2>1. \A y \in x : y \in 1..m /\ m - y \in Nat
      OBVIOUS
    <2>2. T \subseteq Nat /\ T # {}
      BY <2>1
    <2> HIDE DEF T
    <2> QED BY <2>2, LeastNatural
  <1>2. PICK y \in x : k = m - y
    OBVIOUS
  <1>3. \A z \in x : y >= z
    BY <1>1, <1>2
  <1> QED BY <1>3 DEF Max

\* FoldLeft is defined by the function that gives the result for every set of
\* indices, their greatest last.
IsFold(f, m, base, step) ==
    \A x \in SUBSET (1..m) :
        f[x] = IF x = {} THEN base ELSE step[Max(x)][f[x \ {Max(x)}]]

\* There is such a function, whatever the steps of the loop are that stay in S.
LEMMA FoldExists ==
    ASSUME NEW m \in Nat, NEW S, NEW base \in S,
           NEW step \in [1..m -> [S -> S]]
    PROVE  \E f \in [SUBSET (1..m) -> S] : IsFold(f, m, base, step)
  <1> DEFINE Good(n, f) == IsFold(f, n, base, step)
             G == {n \in 0..m : \E f \in [SUBSET (1..n) -> S] : Good(n, f)}
  <1>1. 0 \in G
    <2> DEFINE f == [x \in SUBSET (1..0) |-> base]
    <2>1. f \in [SUBSET (1..0) -> S]
      OBVIOUS
    <2>2. Good(0, f)
      <3>1. \A x \in SUBSET (1..0) : x = {}
        OBVIOUS
      <3> QED BY <3>1 DEF IsFold
    <2>3. 0 \in 0..m
      OBVIOUS
    <2> HIDE DEF f, Good
    <2> QED BY <2>1, <2>2, <2>3
  <1>2. ASSUME NEW n \in 0..m - 1, n \in G PROVE n + 1 \in G
    <2>1. PICK f \in [SUBSET (1..n) -> S] : Good(n, f)
      BY <1>2
    <2>2. \A x \in SUBSET (1..n + 1) : x \in SUBSET (1..n) \/ n + 1 \in x
      OBVIOUS
    <2>3. ASSUME NEW x \in SUBSET (1..n + 1), n + 1 \in x
          PROVE  Max(x) = n + 1 /\ x \ {n + 1} \in SUBSET (1..n)
      <3>1. \A y \in x : n + 1 >= y
        OBVIOUS
      <3>2. \A z \in x : (\A y \in x : z >= y) => z = n + 1
        BY <2>3
      <3>3. (CHOOSE z \in x : \A y \in x : z >= y) = n + 1
        BY <2>3, <3>1, <3>2
      <3> QED BY <3>3 DEF Max
    <2> DEFINE g == [x \in SUBSET (1..n + 1) |->
                        IF n + 1 \in x THEN step[n + 1][f[x \ {n + 1}]] ELSE f[x]]
    <2>4. step[n + 1] \in [S -> S]
      OBVIOUS
    <2>5. g \in [SUBSET (1..n + 1) -> S]
      BY <2>2, <2>3, <2>4
    <2>6. \A x \in SUBSET (1..n) : g[x] = f[x] /\ x \in SUBSET (1..n + 1)
      OBVIOUS
    <2>7. ASSUME NEW x \in SUBSET (1..n), x # {}
          PROVE  x \ {Max(x)} \in SUBSET (1..n)
      OBVIOUS
    <2>8. Good(n + 1, g)
      <3> SUFFICES ASSUME NEW x \in SUBSET (1..n + 1)
                   PROVE  g[x] = IF x = {} THEN base ELSE step[Max(x)][g[x \ {Max(x)}]]
        BY DEF IsFold
      <3>1. CASE n + 1 \in x
        <4>1. g[x] = step[n + 1][f[x \ {n + 1}]]
          BY <3>1
        <4>2. f[x \ {n + 1}] = g[x \ {n + 1}]
          BY <2>3, <2>6, <3>1
        <4> HIDE DEF g
        <4> QED BY <2>3, <3>1, <4>1, <4>2
      <3>2. CASE n + 1 \notin x
        <4>1. x \in SUBSET (1..n)
          BY <2>2, <3>2
        <4>2. f[x] = IF x = {} THEN base ELSE step[Max(x)][f[x \ {Max(x)}]]
          BY <2>1, <4>1 DEF IsFold
        <4> HIDE DEF g
        <4> QED BY <2>6, <2>7, <4>1, <4>2
      <3> QED BY <3>1, <3>2
    <2> HIDE DEF g, Good
    <2> QED BY <2>5, <2>8
  <1>3. m \in G
    <2> HIDE DEF G
    <2>1. 0..m \subseteq G
      BY <1>1, <1>2, UpTo
    <2> QED BY <2>1
  <1> QED BY <1>3

-----------------------------------------------------------------------------
(* The release *)

LEMMA ReleaseSteps ==
    ASSUME NEW releases \in Seq(Releases), NEW prereleases \in BOOLEAN
    PROVE  \E best : /\ best[0] = <<>>
                     /\ \A n \in 1..Len(releases) :
                            best[n] = Later(best[n - 1], releases[n], prereleases)
                     /\ LatestEligible(releases, prereleases) = best[Len(releases)]
  <1> DEFINE m == Len(releases)
             I == SUBSET (1..m)
             S == {<<>>} \cup {<<r>> : r \in Releases}
             Fold(f) == [x \in I |-> IF x = {} THEN <<>>
                            ELSE Later(f[x \ {Max(x)}], releases[Max(x)], prereleases)]
             step == [n \in 1..m |-> [b \in S |-> Later(b, releases[n], prereleases)]]
  <1>1. m \in Nat /\ DOMAIN releases = 1..m /\ \A n \in 1..m : releases[n] \in Releases
    BY LenProperties, ElementOfSeq
  <1>2. PICK f \in [SUBSET (1..m) -> S] : IsFold(f, m, <<>>, step)
    <2>1. step \in [1..m -> [S -> S]]
      BY <1>1 DEF Later
    <2>2. m \in Nat /\ <<>> \in S
      BY <1>1
    <2> HIDE DEF step, m, S
    <2> QED BY <2>1, <2>2, FoldExists, Zenon
  <1>3. f = Fold(f)
    <2> SUFFICES ASSUME NEW x \in I PROVE f[x] = Fold(f)[x]
      BY <1>2
    <2>1. CASE x = {}
      BY <1>2, <2>1 DEF IsFold
    <2>2. CASE x # {}
      <3>1. Max(x) \in 1..m
        BY <1>1, <2>2, MaxIsIn
      <3>2. f[x \ {Max(x)}] \in S
        BY <1>2, <2>2
      <3> HIDE DEF S
      <3> QED BY <1>2, <2>2, <3>1, <3>2 DEF IsFold
    <2> QED BY <2>1, <2>2
  <1> DEFINE F == CHOOSE g : g = Fold(g)
  <1>4. F = Fold(F)
    BY <1>3
  <1>5. LatestEligible(releases, prereleases) = F[1..m]
    BY <1>1 DEF LatestEligible, FoldLeft, MapThenFoldSet, Later
  <1> DEFINE best == [n \in 0..m |-> F[1..n]]
  <1> HIDE DEF F
  <1>6. F[{}] = <<>>
    BY <1>4
  <1>7. ASSUME NEW n \in 1..m
        PROVE  F[1..n] = Later(F[1..n - 1], releases[n], prereleases)
    <2>1. m \in Nat
      BY <1>1
    <2> HIDE DEF m
    <2> QED BY <1>4, <2>1, MaxOfPrefix
  <1>8. 1..0 = {}
    OBVIOUS
  <1>9. best[0] = <<>> /\ \A n \in 1..m : best[n] = Later(best[n - 1], releases[n], prereleases)
    <2>1. \A n \in 1..m : n \in 0..m /\ n - 1 \in 0..m
      BY <1>1
    <2> QED BY <1>1, <1>6, <1>7, <1>8, <2>1
  <1>10. LatestEligible(releases, prereleases) = best[m]
    BY <1>1, <1>5
  <1> HIDE DEF best
  <1> QED BY <1>9, <1>10

\* The release that GitHub's answer is searched for is the latest eligible one,
\* in whatever order the answer comes (github.rs:275).
LEMMA LatestIsLatest ==
    ASSUME NEW releases \in Seq(Releases), NEW prereleases \in BOOLEAN,
           LatestEligible(releases, prereleases) # <<>>
    PROVE  IsLatest(LatestEligible(releases, prereleases)[1], releases, prereleases)
  <1> DEFINE m == Len(releases)
  <1>1. m \in Nat /\ DOMAIN releases = 1..m /\ \A n \in 1..m : releases[n] \in Releases
    BY LenProperties, ElementOfSeq
  <1>2. PICK best : /\ best[0] = <<>>
                    /\ \A n \in 1..m : best[n] = Later(best[n - 1], releases[n], prereleases)
                    /\ LatestEligible(releases, prereleases) = best[m]
    BY ReleaseSteps
  <1> HIDE DEF m
  <1> DEFINE Found(n) ==
                \/ best[n] = <<>> /\ \A i \in 1..n : ~Eligible(releases[i], prereleases)
                \/ \E r \in Releases :
                    /\ best[n] = <<r>> /\ Eligible(r, prereleases)
                    /\ \A i \in 1..n : Eligible(releases[i], prereleases) => NotBefore(r, releases[i])
             S == {n \in 0..m : Found(n)}
  <1>3. 0 \in S
    BY <1>1, <1>2
  <1>4. ASSUME NEW n \in 0..m - 1, n \in S PROVE n + 1 \in S
    <2> DEFINE r == releases[n + 1]
    <2>1. best[n + 1] = Later(best[n], r, prereleases) /\ r \in Releases /\ n + 1 \in 0..m
      BY <1>1, <1>2
    <2>2. \A i \in 1..n + 1 : i \in 1..n \/ i = n + 1
      OBVIOUS
    <2>3. CASE best[n] = <<>> /\ \A i \in 1..n : ~Eligible(releases[i], prereleases)
      <3>1. CASE Eligible(r, prereleases)
        <4>1. NotBefore(r, r)
          BY <2>1 DEF NotBefore, Releases
        <4> QED BY <2>1, <2>2, <2>3, <3>1, <4>1 DEF Later
      <3>2. CASE ~Eligible(r, prereleases)
        BY <2>1, <2>2, <2>3, <3>2 DEF Later
      <3> QED BY <3>1, <3>2
    <2>4. ASSUME NEW s \in Releases, best[n] = <<s>>, Eligible(s, prereleases),
                 \A i \in 1..n : Eligible(releases[i], prereleases) => NotBefore(s, releases[i])
          PROVE  n + 1 \in S
      <3>1. CASE Eligible(r, prereleases) /\ NotBefore(r, s)
        <4>1. NotBefore(r, r) /\ \A i \in 1..n : NotBefore(s, releases[i]) => NotBefore(r, releases[i])
          BY <1>1, <2>1, <3>1 DEF NotBefore, Releases
        <4>2. best[n + 1] = <<r>>
          BY <2>1, <2>4, <3>1 DEF Later
        <4> QED BY <2>1, <2>2, <2>4, <3>1, <4>1, <4>2
      <3>2. CASE ~ (Eligible(r, prereleases) /\ NotBefore(r, s))
        <4>1. Eligible(r, prereleases) => NotBefore(s, r)
          BY <2>1, <3>2 DEF NotBefore, Releases
        <4>2. best[n + 1] = <<s>>
          BY <2>1, <2>4, <3>2 DEF Later
        <4> QED BY <2>1, <2>2, <2>4, <4>1, <4>2
      <3> QED BY <3>1, <3>2
    <2> QED BY <1>4, <2>3, <2>4
  <1>5. Found(m)
    <2> HIDE DEF S
    <2>1. 0..m \subseteq S
      BY <1>1, <1>3, <1>4, UpTo
    <2> QED BY <1>1, <2>1 DEF S
  <1>6. PICK r \in Releases :
            /\ best[m] = <<r>> /\ Eligible(r, prereleases)
            /\ \A i \in 1..m : Eligible(releases[i], prereleases) => NotBefore(r, releases[i])
    BY <1>2, <1>5
  <1> QED BY <1>1, <1>2, <1>6 DEF IsLatest, Eligible, NotBefore, Releases

-----------------------------------------------------------------------------
(* The asset *)

\* find returns the first place behind the offset.
LEMMA FindIsFirst ==
    ASSUME NEW part, NEW name \in Names, NEW offset \in Nat,
           NEW q \in offset..Len(name), PartAt(part, name, q)
    PROVE  Find(part, name, offset) \in offset..q
  <1> DEFINE T == {p \in offset..Len(name) : PartAt(part, name, p)}
  <1>1. Len(name) \in Nat
    BY LenProperties DEF Names
  <1>2. PICK p \in T : \A r \in T : p <= r
    <2>1. T \subseteq Nat /\ T # {}
      BY <1>1
    <2> HIDE DEF T
    <2> QED BY <2>1, LeastNatural
  <1>3. Find(part, name, offset) \in T /\ \A r \in T : Find(part, name, offset) <= r
    <2>1. Find(part, name, offset) = CHOOSE x \in T : \A r \in T : x <= r
      BY DEF Find, Min
    <2> HIDE DEF T
    <2> QED BY <1>2, <2>1
  <1> QED BY <1>1, <1>3

LEMMA SearchSteps ==
    ASSUME NEW parts \in Seq(Names), Len(parts) > 1, NEW name \in Names
    PROVE  \E offset :
            /\ offset[0] = Len(parts[1])
            /\ \A n \in 1..Len(parts) - 2 :
                    offset[n] = Behind(offset[n - 1], parts[n + 1], name)
            /\ WildcardMatch(parts, name) <=>
                    /\ IsPrefix(parts[1], name) /\ IsSuffix(Last(parts), name)
                    /\ offset[Len(parts) - 2] # Missing(name)
  <1> DEFINE between == SubSeq(parts, 2, Len(parts) - 1)
             m == Len(parts) - 2
             I == SUBSET (1..m)
             start == Len(parts[1])
             Fold(f) == [x \in I |-> IF x = {} THEN start
                            ELSE Behind(f[x \ {Max(x)}], between[Max(x)], name)]
             step == [n \in 1..m |-> [b \in Nat |-> Behind(b, between[n], name)]]
  <1>1. Len(parts) \in Nat /\ m \in Nat /\ \A n \in 1..Len(parts) : parts[n] \in Names
    BY LenProperties, ElementOfSeq
  <1>2. DOMAIN between = 1..m /\ \A n \in 1..m : between[n] = parts[n + 1] /\ between[n] \in Names
    <2>1. \A i \in 2..Len(parts) - 1 : parts[i] \in Names
      BY <1>1
    <2>2. /\ between \in Seq(Names)
          /\ Len(between) = IF 2 <= Len(parts) - 1 THEN Len(parts) - 1 - 2 + 1 ELSE 0
          /\ \A i \in 1..Len(parts) - 1 - 2 + 1 : between[i] = parts[2 + i - 1]
      <3>1. 2 \in Int /\ Len(parts) - 1 \in Int
        BY <1>1
      <3> HIDE DEF between
      <3> QED BY <2>1, <3>1, SubSeqProperties DEF between
    <2> HIDE DEF between
    <2>3. Len(between) = m
      <3>1. Len(parts) \in Nat /\ Len(parts) > 1
        BY <1>1
      <3>2. \A l \in Nat : l > 1 => (IF 2 <= l - 1 THEN l - 1 - 2 + 1 ELSE 0) = l - 2
        OBVIOUS
      <3> QED BY <2>2, <3>1, <3>2
    <2>5. ASSUME NEW i \in 1..m PROVE between[i] = parts[i + 1] /\ between[i] \in Names
      <3>1. i \in 1..Len(parts) - 1 - 2 + 1 /\ 2 + i - 1 = i + 1 /\ i + 1 \in 1..Len(parts)
        BY <1>1
      <3> QED BY <1>1, <2>2, <3>1
    <2>4. DOMAIN between = 1..Len(between)
      BY <2>2, LenProperties
    <2> QED BY <2>3, <2>4, <2>5
  <1>3. start \in Nat /\ Len(name) \in Nat /\ \A n \in 1..m : Len(between[n]) \in Nat
    BY <1>1, <1>2, LenProperties DEF Names
  <1> HIDE DEF between
  <1>4. ASSUME NEW n \in 1..m, NEW b \in Nat PROVE Behind(b, between[n], name) \in Nat
    <2>1. CASE \E q \in b..Len(name) : PartAt(between[n], name, q)
      <3>1. PICK q \in b..Len(name) : PartAt(between[n], name, q)
        BY <2>1
      <3>2. Find(between[n], name, b) \in b..q
        BY <1>2, <3>1, FindIsFirst
      <3> QED BY <1>3, <2>1, <3>1, <3>2 DEF Behind
    <2>2. CASE ~ \E q \in b..Len(name) : PartAt(between[n], name, q)
      BY <1>3, <2>2 DEF Behind, Missing
    <2> QED BY <2>1, <2>2
  <1>5. PICK f \in [SUBSET (1..m) -> Nat] : IsFold(f, m, start, step)
    <2>1. step \in [1..m -> [Nat -> Nat]]
      BY <1>4
    <2>2. m \in Nat /\ start \in Nat
      BY <1>1, <1>3
    <2> HIDE DEF step, m, start
    <2> QED BY <2>1, <2>2, FoldExists, Zenon
  <1>6. f = Fold(f)
    <2> SUFFICES ASSUME NEW x \in I PROVE f[x] = Fold(f)[x]
      BY <1>5
    <2>1. CASE x = {}
      BY <1>5, <2>1 DEF IsFold
    <2>2. CASE x # {}
      <3>1. Max(x) \in 1..m
        BY <1>1, <2>2, MaxIsIn
      <3>2. f[x \ {Max(x)}] \in Nat
        BY <1>5, <2>2
      <3> QED BY <1>5, <2>2, <3>1, <3>2 DEF IsFold
    <2> QED BY <2>1, <2>2
  <1> DEFINE F == CHOOSE g : g = Fold(g)
  <1>7. F = Fold(F)
    BY <1>6
  <1>8. WildcardMatch(parts, name) <=>
            /\ IsPrefix(parts[1], name) /\ IsSuffix(Last(parts), name)
            /\ F[1..m] # Missing(name)
    <2>1. FoldLeft(LAMBDA b, part : Behind(b, part, name), start, between) = F[1..m]
      BY <1>2 DEF FoldLeft, MapThenFoldSet
    <2> HIDE DEF F
    <2>2. FoldLeft(LAMBDA b, part : Behind(b, part, name), Len(parts[1]),
                   SubSeq(parts, 2, Len(parts) - 1)) = F[1..m]
      BY <2>1 DEF between
    <2>3. Len(parts) # 1
      BY <1>1
    <2> QED BY <2>2, <2>3 DEF WildcardMatch
  <1> DEFINE offset == [n \in 0..m |-> F[1..n]]
  <1> HIDE DEF F
  <1>9. F[{}] = start
    BY <1>7
  <1>10. ASSUME NEW n \in 1..m PROVE F[1..n] = Behind(F[1..n - 1], between[n], name)
    <2>1. m \in Nat
      BY <1>1
    <2> HIDE DEF m
    <2> QED BY <1>7, <2>1, MaxOfPrefix
  <1>11. 1..0 = {}
    OBVIOUS
  <1>12. offset[0] = start /\ \A n \in 1..m : offset[n] = Behind(offset[n - 1], parts[n + 1], name)
    <2>1. \A n \in 1..m : n \in 0..m /\ n - 1 \in 0..m
      BY <1>1
    <2> QED BY <1>1, <1>2, <1>9, <1>10, <1>11, <2>1
  <1>13. offset[m] = F[1..m]
    BY <1>1
  <1> HIDE DEF offset
  <1> QED BY <1>8, <1>12, <1>13

LEMMA ReverseProperties ==
    ASSUME NEW S, NEW s \in Seq(S)
    PROVE  /\ Len(Reverse(s)) = Len(s)
           /\ \A i \in 1..Len(s) : Reverse(s)[i] = s[Len(s) - i + 1] /\ Reverse(s)[i] \in S
  <1>1. Len(s) \in Nat /\ \A i \in 1..Len(s) : s[i] \in S
    BY LenProperties, ElementOfSeq
  <1>2. \A i \in 1..Len(s) : Reverse(s)[i] = s[Len(s) - i + 1] /\ Reverse(s)[i] \in S
    BY <1>1 DEF Reverse
  <1>3. Reverse(s) \in [1..Len(s) -> S]
    BY <1>1 DEF Reverse
  <1>4. Reverse(s) \in Seq(S) /\ DOMAIN Reverse(s) = 1..Len(s)
    BY <1>1, <1>3, SeqDef
  <1>5. Len(Reverse(s)) = Len(s)
    BY <1>1, <1>4, LenProperties
  <1> QED BY <1>2, <1>5

LEMMA PrefixesEqual ==
    ASSUME NEW S, NEW n \in Nat, NEW s, NEW t,
           \A i \in 1..n : s[i] \in S /\ t[i] = s[i]
    PROVE  SubSeq(s, 1, n) = SubSeq(t, 1, n)
  <1>1. /\ SubSeq(s, 1, n) \in Seq(S) /\ SubSeq(t, 1, n) \in Seq(S)
        /\ Len(SubSeq(s, 1, n)) = n /\ Len(SubSeq(t, 1, n)) = n
        /\ \A i \in 1..n : SubSeq(s, 1, n)[i] = s[i] /\ SubSeq(t, 1, n)[i] = t[i]
    BY SubSeqProperties
  <1> QED BY <1>1, SeqEqual

\* The search takes the first place of every part and never a step back, and it
\* finds every name that the pattern stands for (github.rs:255).
LEMMA SearchFindsAll ==
    ASSUME NEW parts \in Seq(Names) \ {<<>>}, NEW name \in Names, StandsFor(parts, name)
    PROVE  WildcardMatch(parts, name)
  <1> DEFINE L == Len(parts)
             m == Len(parts) - 2
  <1>1. /\ L \in Nat \ {0} /\ DOMAIN parts = 1..L /\ Len(name) \in Nat
        /\ \A k \in 1..L : parts[k] \in Names /\ Len(parts[k]) \in Nat
    <2>1. L \in Nat \ {0} /\ DOMAIN parts = 1..L
      BY LenProperties, EmptySeq
    <2>2. \A k \in 1..L : parts[k] \in Names
      BY ElementOfSeq
    <2>3. \A word \in Names : Len(word) \in Nat
      BY LenProperties DEF Names
    <2> QED BY <2>1, <2>2, <2>3
  <1>2. PICK at \in [1..L -> 0..Len(name)] :
            /\ at[1] = 0 /\ at[L] + Len(parts[L]) = Len(name)
            /\ \A k \in 1..L : PartAt(parts[k], name, at[k])
            /\ \A k \in 1..L - 1 : at[k] + Len(parts[k]) <= at[k + 1]
    BY <1>1 DEF StandsFor, Last
  <1>3. ASSUME NEW k \in 1..L
        PROVE  /\ at[k] \in Nat /\ at[k] + Len(parts[k]) <= Len(name)
               /\ \A i \in 1..Len(parts[k]) : name[at[k] + i] = parts[k][i]
    <2>1. /\ SubSeq(name, at[k] + 1, at[k] + Len(parts[k])) = parts[k]
          /\ at[k] \in Nat /\ at[k] + Len(parts[k]) <= Len(name)
      <3>1. PartAt(parts[k], name, at[k]) /\ at[k] \in 0..Len(name)
        BY <1>2
      <3> QED BY <1>1, <3>1 DEF PartAt
    <2>2. \A i \in at[k] + 1 .. at[k] + Len(parts[k]) : name[i] \in Letters
      BY <1>1, <2>1, ElementOfSeq DEF Names
    <2>3. \A i \in 1..Len(parts[k]) : SubSeq(name, at[k] + 1, at[k] + Len(parts[k]))[i] = name[at[k] + i]
      BY <1>1, <2>1, <2>2, SubSeqProperties
    <2> QED BY <2>1, <2>3
  <1>4. CASE L = 1
    <2>1. name \in Seq(Letters) /\ parts[1] \in Seq(Letters) /\ Len(name) = Len(parts[1])
      BY <1>1, <1>2, <1>4 DEF Names
    <2>2. \A i \in 1..Len(name) : name[i] = parts[1][i]
      BY <1>1, <1>2, <1>3, <1>4, <2>1
    <2>3. name = parts[1]
      BY <2>1, <2>2, SeqEqual
    <2> QED BY <1>4, <2>3 DEF WildcardMatch
  <1>5. CASE L > 1
    <2>1. IsPrefix(parts[1], name)
      <3>1. parts[1] \in Seq(Letters) /\ at[1] = 0 /\ PartAt(parts[1], name, 0)
        BY <1>1, <1>2 DEF Names
      <3>2. SubSeq(name, 1, Len(parts[1])) = parts[1] /\ Len(parts[1]) <= Len(name)
        BY <1>1, <3>1 DEF PartAt
      <3>3. SubSeq(parts[1], 1, Len(parts[1])) = parts[1]
        BY <3>1, SubSeqFull
      <3> QED BY <3>2, <3>3 DEF IsPrefix
    <2>2. IsSuffix(Last(parts), name)
      <3> DEFINE part == parts[L]
      <3>1. /\ part \in Seq(Letters) /\ name \in Seq(Letters)
            /\ Len(part) \in Nat /\ Len(part) <= Len(name)
            /\ \A i \in 1..Len(part) : name[Len(name) - Len(part) + i] = part[i]
        <4>1. part \in Seq(Letters) /\ name \in Seq(Letters) /\ Len(part) \in Nat
          BY <1>1 DEF Names
        <4>2. L \in 1..L /\ at[L] = Len(name) - Len(part)
          <5>1. L \in 1..L /\ at[L] + Len(part) = Len(name)
            BY <1>1, <1>2
          <5>2. at[L] \in 0..Len(name)
            BY <1>2, <5>1
          <5>3. Len(name) \in Nat /\ Len(part) \in Nat
            BY <1>1, <4>1
          <5> HIDE DEF part, L
          <5> QED BY <5>1, <5>2, <5>3
        <4> HIDE DEF L
        <4>3. \A i \in 1..Len(part) : name[at[L] + i] = part[i]
          BY <1>3, <4>2
        <4>4. Len(part) <= Len(name)
          BY <1>1, <1>3, <4>1, <4>2
        <4> QED BY <4>1, <4>2, <4>3, <4>4
      <3> HIDE DEF part
      <3>2. /\ Len(Reverse(part)) = Len(part) /\ Len(Reverse(name)) = Len(name)
            /\ \A i \in 1..Len(part) : Reverse(part)[i] \in Letters
            /\ \A i \in 1..Len(part) : Reverse(name)[i] \in Letters
            /\ \A i \in 1..Len(part) : Reverse(part)[i] = Reverse(name)[i]
        <4>1. Len(name) \in Nat
          BY <1>1
        <4>2. /\ Len(Reverse(part)) = Len(part) /\ Len(Reverse(name)) = Len(name)
              /\ \A i \in 1..Len(part) :
                    Reverse(part)[i] = part[Len(part) - i + 1] /\ Reverse(part)[i] \in Letters
              /\ \A i \in 1..Len(name) :
                    Reverse(name)[i] = name[Len(name) - i + 1] /\ Reverse(name)[i] \in Letters
          BY <3>1, ReverseProperties
        <4>3. ASSUME NEW i \in 1..Len(part)
              PROVE  part[Len(part) - i + 1] = name[Len(name) - i + 1] /\ i \in 1..Len(name)
          <5> DEFINE k == Len(part) - i + 1
          <5>1. /\ k \in 1..Len(part) /\ i \in 1..Len(name)
                /\ Len(name) - Len(part) + k = Len(name) - i + 1
            BY <3>1, <4>1
          <5> HIDE DEF k
          <5>2. name[Len(name) - Len(part) + k] = part[k]
            BY <3>1, <5>1
          <5> QED BY <5>1, <5>2 DEF k
        <4> QED BY <4>2, <4>3
      <3>3. SubSeq(Reverse(part), 1, Len(part)) = SubSeq(Reverse(name), 1, Len(part))
        BY <3>1, <3>2, PrefixesEqual
      <3> QED BY <3>1, <3>2, <3>3 DEF IsSuffix, IsPrefix, Last, part
    <2>3. PICK offset :
            /\ offset[0] = Len(parts[1])
            /\ \A n \in 1..m : offset[n] = Behind(offset[n - 1], parts[n + 1], name)
            /\ WildcardMatch(parts, name) <=>
                    /\ IsPrefix(parts[1], name) /\ IsSuffix(Last(parts), name)
                    /\ offset[m] # Missing(name)
      BY <1>5, SearchSteps
    <2> DEFINE S == {n \in 0..m : offset[n] \in Nat /\ offset[n] <= at[n + 1] + Len(parts[n + 1])}
    <2>4. 0 \in S
      BY <1>1, <1>2, <1>5, <2>3
    <2>5. ASSUME NEW n \in 0..m - 1, n \in S PROVE n + 1 \in S
      <3> DEFINE part == parts[n + 2]
                 q == at[n + 2]
      <3>1. offset[n + 1] = Behind(offset[n], part, name)
        BY <1>1, <1>5, <2>3
      <3>2. /\ n + 2 \in 1..L /\ n + 1 \in 1..L - 1 /\ offset[n] \in Nat
            /\ offset[n] <= q /\ q \in Nat /\ q <= Len(name) /\ PartAt(part, name, q)
        <4>1. n + 1 \in 1..L - 1 /\ n + 2 \in 1..L /\ (n + 1) + 1 = n + 2
          BY <1>1, <1>5
        <4>2. at[n + 1] + Len(parts[n + 1]) <= q
          BY <1>2, <4>1
        <4>3. q \in Nat /\ q + Len(part) <= Len(name) /\ PartAt(part, name, q) /\ Len(part) \in Nat
          BY <1>1, <1>2, <1>3, <4>1
        <4>4. at[n + 1] \in Nat /\ Len(parts[n + 1]) \in Nat
          BY <1>1, <1>3, <4>1
        <4> QED BY <1>1, <2>5, <4>1, <4>2, <4>3, <4>4
      <3>3. Find(part, name, offset[n]) \in offset[n]..q
        BY <1>1, <3>2, FindIsFirst
      <3>4. offset[n + 1] = Find(part, name, offset[n]) + Len(part)
        BY <1>1, <3>1, <3>2 DEF Behind
      <3> QED BY <1>1, <1>5, <3>2, <3>3, <3>4
    <2>6. m \in S
      <3> HIDE DEF S
      <3>1. m \in Nat
        BY <1>1, <1>5
      <3>2. 0..m \subseteq S
        BY <2>4, <2>5, <3>1, UpTo
      <3> QED BY <3>1, <3>2
    <2>7. offset[m] # Missing(name)
      BY <1>1, <1>2, <1>3, <1>5, <2>6 DEF Missing
    <2> QED BY <2>1, <2>2, <2>3, <2>7
  <1> QED BY <1>1, <1>4, <1>5

\* The asset that is chosen is the only one the pattern stands for (github.rs:235).
LEMMA ChosenAsset ==
    ASSUME NEW assets \in Seq(Names), NEW pattern \in Seq(Names) \ {<<>>},
           Cardinality(Matching(assets, pattern)) = 1, NEW i \in Matching(assets, pattern)
    PROVE  /\ IsIpa(assets[i])
           /\ \A j \in DOMAIN assets :
                IsIpa(assets[j]) /\ StandsFor(pattern, assets[j]) => assets[j] = assets[i]
  <1>1. Len(assets) \in Nat /\ DOMAIN assets = 1..Len(assets)
        /\ \A j \in 1..Len(assets) : assets[j] \in Names
    BY LenProperties, ElementOfSeq
  <1>2. IsFiniteSet(Matching(assets, pattern))
    <2>1. IsFiniteSet(1..Len(assets))
      BY <1>1, FS_Interval
    <2>2. Matching(assets, pattern) \in SUBSET (1..Len(assets))
      BY <1>1 DEF Matching
    <2> QED BY <2>1, <2>2, FS_Subset
  <1>3. PICK x : Matching(assets, pattern) = {x}
    BY <1>2, FS_Singleton
  <1>4. ASSUME NEW j \in DOMAIN assets, IsIpa(assets[j]), StandsFor(pattern, assets[j])
        PROVE  j \in Matching(assets, pattern)
    BY <1>1, <1>4, SearchFindsAll DEF Matching
  <1> QED BY <1>3, <1>4 DEF Matching

-----------------------------------------------------------------------------
(* The archive *)

LEMMA DeclaredSizeSteps ==
    ASSUME NEW archive \in Seq(Entries)
    PROVE  \E sum : /\ sum[0] = 0
                    /\ \A n \in 1..Len(archive) : sum[n] = sum[n - 1] + archive[n].size
                    /\ DeclaredSize(archive) = sum[Len(archive)]
  <1> DEFINE m == Len(archive)
             I == SUBSET (1..m)
             Fold(f) == [x \in I |-> IF x = {} THEN 0 ELSE f[x \ {Max(x)}] + archive[Max(x)].size]
             step == [n \in 1..m |-> [x \in Nat |-> x + archive[n].size]]
  <1>1. m \in Nat /\ DOMAIN archive = 1..m /\ \A n \in 1..m : archive[n].size \in Nat
    <2>1. m \in Nat /\ DOMAIN archive = 1..m
      BY LenProperties
    <2>2. \A n \in 1..m : archive[n] \in Entries
      BY ElementOfSeq
    <2> QED BY <2>1, <2>2 DEF Entries
  <1>2. PICK f \in [SUBSET (1..m) -> Nat] : IsFold(f, m, 0, step)
    <2>1. step \in [1..m -> [Nat -> Nat]]
      BY <1>1
    <2>2. m \in Nat /\ 0 \in Nat
      BY <1>1
    <2> HIDE DEF step, m
    <2> QED BY <2>1, <2>2, FoldExists, Zenon
  <1>3. f = Fold(f)
    <2> SUFFICES ASSUME NEW x \in I PROVE f[x] = Fold(f)[x]
      BY <1>2
    <2>1. CASE x = {}
      BY <1>2, <2>1 DEF IsFold
    <2>2. CASE x # {}
      <3>1. Max(x) \in 1..m
        BY <1>1, <2>2, MaxIsIn
      <3> QED BY <1>2, <2>2, <3>1 DEF IsFold
    <2> QED BY <2>1, <2>2
  <1> DEFINE F == CHOOSE g : g = Fold(g)
  <1>4. F = Fold(F)
    BY <1>3
  <1>5. DeclaredSize(archive) = F[1..m]
    BY <1>1 DEF DeclaredSize, FoldLeft, MapThenFoldSet
  <1> DEFINE sum == [n \in 0..m |-> F[1..n]]
  <1>6. F[{}] = 0
    <2> HIDE DEF F
    <2> QED BY <1>4
  <1>7. ASSUME NEW n \in 1..m PROVE F[1..n] = F[1..n - 1] + archive[n].size
    <2>1. m \in Nat
      BY <1>1
    <2> HIDE DEF F, m
    <2> QED BY <1>4, <2>1, MaxOfPrefix
  <1> HIDE DEF F
  <1>8. 1..0 = {}
    OBVIOUS
  <1>9. sum[0] = 0 /\ \A n \in 1..m : sum[n] = sum[n - 1] + archive[n].size
    <2>1. \A n \in 1..m : n \in 0..m /\ n - 1 \in 0..m
      BY <1>1
    <2> QED BY <1>1, <1>6, <1>7, <1>8, <2>1
  <1>10. DeclaredSize(archive) = sum[m]
    BY <1>1, <1>5
  <1> HIDE DEF sum
  <1> QED BY <1>9, <1>10

LEMMA SaturatingSum ==
    ASSUME NEW a \in Nat, NEW b \in Nat, Largest \in Nat
    PROVE  /\ SaturatingAdd(a, b) \in Nat
           /\ SaturatingAdd(a, b) = IF a + b <= Largest THEN a + b ELSE Largest
  <1> DEFINE S == {a + b, Largest}
             least == IF a + b <= Largest THEN a + b ELSE Largest
  <1>1. least \in S /\ \A y \in S : least <= y
    OBVIOUS
  <1>2. \A x \in S : (\A y \in S : x <= y) => x = least
    OBVIOUS
  <1>3. (CHOOSE x \in S : \A y \in S : x <= y) = least
    BY <1>1, <1>2
  <1> QED BY <1>3 DEF SaturatingAdd, Min

\* The ratio of the sizes exceeds the limit exactly if the product of the other two is passed.
LEMMA Dense ==
    ASSUME NEW a \in Nat, NEW b \in Nat, b > 0, NEW r \in Nat
    PROVE  a \div b > r <=> ~(a < (r + 1) * b)
  OBVIOUS

ScanStates == [failed : BOOLEAN, total : Nat, bundle : Bundles \cup {NoBundle},
               present : BOOLEAN, info : Infos]

ScanBegin(size, readable, archive) ==
    [failed |-> size > MaxCompressed \/ ~readable \/ Len(archive) > MaxEntries,
     total |-> 0, bundle |-> NoBundle, present |-> FALSE, info |-> NoInfo]

LEMMA ReadEntryType ==
    ASSUME NEW s \in ScanStates, NEW entry \in Entries
    PROVE  ReadEntry(s, entry) \in ScanStates
  <1>1. SaturatingAdd(s.total, entry.size) \in Nat
    <2>1. s.total \in Nat /\ entry.size \in Nat /\ Largest \in Nat
      BY IntakeAssumption DEF ScanStates, Entries
    <2> QED BY <2>1, SaturatingSum
  <1> QED BY <1>1 DEF ReadEntry, ScanStates, Entries

LEMMA ScanBeginType ==
    ASSUME NEW size \in Nat, NEW readable \in BOOLEAN, NEW archive
    PROVE  ScanBegin(size, readable, archive) \in ScanStates
  BY DEF ScanBegin, ScanStates, NoInfo, Infos

LEMMA ScanSteps ==
    ASSUME NEW archive \in Seq(Entries), NEW size \in Nat, NEW readable \in BOOLEAN
    PROVE  \E state :
            /\ state[0] = ScanBegin(size, readable, archive)
            /\ \A n \in 1..Len(archive) : state[n] = ReadEntry(state[n - 1], archive[n])
            /\ InspectIpa(size, readable, archive) =
                LET end == state[Len(archive)] IN
                [accepted |-> ~end.failed /\ end.bundle # NoBundle /\ end.present /\ end.info.id,
                 info |-> end.info]
  <1> DEFINE m == Len(archive)
             I == SUBSET (1..m)
             begin == ScanBegin(size, readable, archive)
             Fold(f) == [x \in I |-> IF x = {} THEN begin
                            ELSE ReadEntry(f[x \ {Max(x)}], archive[Max(x)])]
             step == [n \in 1..m |-> [s \in ScanStates |-> ReadEntry(s, archive[n])]]
  <1>1. m \in Nat /\ DOMAIN archive = 1..m /\ \A n \in 1..m : archive[n] \in Entries
    BY LenProperties, ElementOfSeq
  <1>2. begin \in ScanStates
    BY ScanBeginType
  <1> HIDE DEF begin
  <1>3. PICK f \in [SUBSET (1..m) -> ScanStates] : IsFold(f, m, begin, step)
    <2>1. step \in [1..m -> [ScanStates -> ScanStates]]
      BY <1>1, ReadEntryType
    <2>2. m \in Nat
      BY <1>1
    <2> HIDE DEF step, m
    <2> QED BY <1>2, <2>1, <2>2, FoldExists, Zenon
  <1>4. f = Fold(f)
    <2> SUFFICES ASSUME NEW x \in I PROVE f[x] = Fold(f)[x]
      BY <1>3
    <2>1. CASE x = {}
      BY <1>3, <2>1 DEF IsFold
    <2>2. CASE x # {}
      <3>1. Max(x) \in 1..m
        BY <1>1, <2>2, MaxIsIn
      <3>2. f[x \ {Max(x)}] \in ScanStates
        BY <1>3, <2>2
      <3> QED BY <1>3, <2>2, <3>1, <3>2 DEF IsFold
    <2> QED BY <2>1, <2>2
  <1> DEFINE F == CHOOSE g : g = Fold(g)
  <1>5. F = Fold(F)
    BY <1>4
  <1>6. FoldLeft(ReadEntry, begin, archive) = F[1..m]
    BY <1>1 DEF FoldLeft, MapThenFoldSet
  <1> DEFINE state == [n \in 0..m |-> F[1..n]]
  <1> HIDE DEF F
  <1>7. F[{}] = begin
    BY <1>5
  <1>8. ASSUME NEW n \in 1..m PROVE F[1..n] = ReadEntry(F[1..n - 1], archive[n])
    <2>1. m \in Nat
      BY <1>1
    <2> HIDE DEF m
    <2> QED BY <1>5, <2>1, MaxOfPrefix
  <1>9. 1..0 = {}
    OBVIOUS
  <1>10. state[0] = begin /\ \A n \in 1..m : state[n] = ReadEntry(state[n - 1], archive[n])
    <2>1. \A n \in 1..m : n \in 0..m /\ n - 1 \in 0..m
      BY <1>1
    <2> QED BY <1>1, <1>7, <1>8, <1>9, <2>1
  <1>11. state[m] = FoldLeft(ReadEntry, begin, archive)
    BY <1>1, <1>6
  <1> HIDE DEF state
  <1>12. InspectIpa(size, readable, archive) =
            LET end == state[m] IN
            [accepted |-> ~end.failed /\ end.bundle # NoBundle /\ end.present /\ end.info.id,
             info |-> end.info]
    BY <1>11, Zenon DEF InspectIpa, begin, ScanBegin
  <1> QED BY <1>10, <1>12, Zenon DEF begin

\* What an entry is refused for, whatever the others are.
Sound(entry) ==
    entry.safe /\ ~TooDense(entry) /\ (entry.isInfo => entry.size <= MaxInfo /\ entry.info.dictionary)

Broken(archive, n, size) ==
    \/ size > MaxExpanded
    \/ \E i \in 1..n : ~Sound(archive[i])
    \/ \E i, j \in 1..n : /\ archive[i].bundle # NoBundle /\ archive[j].bundle # NoBundle
                          /\ archive[i].bundle # archive[j].bundle

\* What a scan that has not failed after n entries, of the size declared, has found.
Scanned(archive, n, size, s) ==
    /\ s.total = size /\ size <= MaxExpanded
    /\ \A i \in 1..n : Sound(archive[i]) /\ archive[i].bundle \in {NoBundle, s.bundle}
    /\ s.bundle # NoBundle => \E i \in 1..n : archive[i].bundle = s.bundle
    /\ s.present <=> \E i \in 1..n : archive[i].isInfo
    /\ s.present => \E i \in 1..n : archive[i].isInfo /\ s.info = archive[i].info

LEMMA ReadEntryScans ==
    ASSUME NEW archive, IsArchive(archive), NEW n \in 0..Len(archive) - 1, NEW s \in ScanStates,
           NEW size \in Nat, ~s.failed, Scanned(archive, n, size, s)
    PROVE  LET t == ReadEntry(s, archive[n + 1])
               declared == size + archive[n + 1].size
           IN  IF t.failed THEN Broken(archive, n + 1, declared)
               ELSE Scanned(archive, n + 1, declared, t)
  <1> DEFINE entry == archive[n + 1]
             t == ReadEntry(s, entry)
             declared == size + entry.size
             sum == SaturatingAdd(s.total, entry.size)
  <1>1. /\ entry \in Entries /\ Len(archive) \in Nat /\ n \in Nat
        /\ entry.isInfo => entry.bundle # NoBundle
    <2>1. Len(archive) \in Nat /\ DOMAIN archive = 1..Len(archive) /\ archive \in Seq(Entries)
      BY LenProperties DEF IsArchive
    <2>2. n + 1 \in 1..Len(archive)
      BY <2>1
    <2> QED BY <2>1, <2>2, ElementOfSeq, FileAssumption DEF IsArchive
  <1>2. /\ s.total = size /\ size <= MaxExpanded
        /\ sum > MaxExpanded <=> declared > MaxExpanded
        /\ sum <= MaxExpanded => sum = declared
        /\ sum <= MaxExpanded <=> ~(sum > MaxExpanded)
    <2>1. s.total = size /\ size <= MaxExpanded
      BY DEF Scanned
    <2>2. /\ entry.size \in Nat /\ Largest \in Nat /\ MaxExpanded \in Nat /\ MaxExpanded < Largest
      BY <1>1, IntakeAssumption DEF Entries
    <2>3. sum = IF size + entry.size <= Largest THEN size + entry.size ELSE Largest
      BY <2>1, <2>2, SaturatingSum
    <2> HIDE DEF sum
    <2> QED BY <2>1, <2>2, <2>3
  <1>3. \A i \in 1..n + 1 : i \in 1..n \/ i = n + 1
    BY <1>1
  <1>4. n + 1 \in 1..n + 1 /\ \A i \in 1..n : i \in 1..n + 1
    BY <1>1
  <1>5. t = IF \/ s.failed \/ ~entry.safe \/ sum > MaxExpanded \/ TooDense(entry)
               \/ entry.bundle # NoBundle /\ s.bundle \notin {NoBundle, entry.bundle}
               \/ entry.isInfo /\ (entry.size > MaxInfo \/ ~entry.info.dictionary)
            THEN [s EXCEPT !.failed = TRUE]
            ELSE [s EXCEPT
                    !.total = sum,
                    !.bundle = IF s.bundle = NoBundle THEN entry.bundle ELSE @,
                    !.present = @ \/ entry.isInfo,
                    !.info = IF entry.isInfo THEN entry.info ELSE @]
    BY Zenon DEF ReadEntry
  <1> HIDE DEF t, entry, sum, declared
  <1>6. entry.isInfo => (entry.size > MaxInfo <=> ~(entry.size <= MaxInfo))
    BY <1>1, IntakeAssumption DEF Entries
  <1>7. CASE \/ ~Sound(entry) \/ sum > MaxExpanded
             \/ entry.bundle # NoBundle /\ s.bundle \notin {NoBundle, entry.bundle}
    <2>1. t.failed
      <3>1. t = [s EXCEPT !.failed = TRUE]
        BY <1>7, <1>5, <1>6, Zenon DEF Sound
      <3> QED BY <3>1 DEF ScanStates
    <2>2. Broken(archive, n + 1, declared)
      <3>1. CASE ~Sound(entry) \/ sum > MaxExpanded
        BY <1>2, <1>4, <3>1 DEF Broken, entry
      <3>2. CASE entry.bundle # NoBundle /\ s.bundle \notin {NoBundle, entry.bundle}
        <4>1. PICK i \in 1..n : archive[i].bundle = s.bundle
          BY <3>2 DEF Scanned
        <4> QED BY <1>4, <3>2, <4>1 DEF Broken, entry
      <3> QED BY <1>7, <3>1, <3>2
    <2> QED BY <2>1, <2>2 DEF t, entry, declared
  <1>8. CASE /\ Sound(entry) /\ sum <= MaxExpanded
             /\ entry.bundle # NoBundle => s.bundle \in {NoBundle, entry.bundle}
    <2>1. t = [s EXCEPT
                !.total = sum,
                !.bundle = IF s.bundle = NoBundle THEN entry.bundle ELSE @,
                !.present = @ \/ entry.isInfo,
                !.info = IF entry.isInfo THEN entry.info ELSE @]
      BY <1>8, <1>5, <1>6, <1>2, Zenon DEF Sound
    <2>2. /\ ~t.failed /\ t.total = sum
          /\ t.bundle = IF s.bundle = NoBundle THEN entry.bundle ELSE s.bundle
          /\ t.present = (s.present \/ entry.isInfo)
          /\ t.info = IF entry.isInfo THEN entry.info ELSE s.info
      BY <2>1 DEF ScanStates
    <2>3. Scanned(archive, n + 1, declared, t)
      <3>1. t.total = declared /\ declared <= MaxExpanded
        BY <1>2, <1>8, <2>2
      <3>2. ASSUME NEW i \in 1..n + 1
            PROVE  Sound(archive[i]) /\ archive[i].bundle \in {NoBundle, t.bundle}
        <4>1. CASE i \in 1..n
          BY <2>2, <4>1 DEF Scanned
        <4>2. CASE i = n + 1
          BY <1>8, <2>2, <4>2 DEF entry
        <4> QED BY <1>3, <4>1, <4>2
      <3>3. t.bundle # NoBundle => \E i \in 1..n + 1 : archive[i].bundle = t.bundle
        BY <1>4, <2>2 DEF Scanned, entry
      <3>4. t.present <=> \E i \in 1..n + 1 : archive[i].isInfo
        BY <1>3, <1>4, <2>2 DEF Scanned, entry
      <3>5. t.present => \E i \in 1..n + 1 : archive[i].isInfo /\ t.info = archive[i].info
        BY <1>4, <2>2 DEF Scanned, entry
      <3> QED BY <3>1, <3>2, <3>3, <3>4, <3>5 DEF Scanned
    <2> QED BY <2>2, <2>3 DEF t, entry, declared
  <1> QED BY <1>1, <1>2, <1>7, <1>8

\* A limit that is passed stays so.
LEMMA BrokenStays ==
    ASSUME NEW archive, NEW n \in Nat, NEW size \in Nat, NEW more \in Nat, Broken(archive, n, size)
    PROVE  Broken(archive, n + 1, size + more)
  <1>1. \A i \in 1..n : i \in 1..n + 1
    OBVIOUS
  <1>2. CASE size > MaxExpanded
    <2>1. MaxExpanded \in Nat
      BY IntakeAssumption
    <2> QED BY <1>2, <2>1 DEF Broken
  <1>3. CASE \E i \in 1..n : ~Sound(archive[i])
    BY <1>1, <1>3 DEF Broken
  <1>4. CASE \E i, j \in 1..n : /\ archive[i].bundle # NoBundle /\ archive[j].bundle # NoBundle
                                /\ archive[i].bundle # archive[j].bundle
    BY <1>1, <1>4 DEF Broken
  <1> QED BY <1>2, <1>3, <1>4 DEF Broken

\* What the loop leaves behind the last entry.
LEMMA ScanResult ==
    ASSUME NEW archive, IsArchive(archive), NEW size \in 0..MaxCompressed,
           NEW readable \in BOOLEAN
    PROVE  \E s \in ScanStates :
            /\ InspectIpa(size, readable, archive) =
                [accepted |-> ~s.failed /\ s.bundle # NoBundle /\ s.present /\ s.info.id,
                 info |-> s.info]
            /\ DeclaredSize(archive) \in Nat
            /\ IF s.failed
               THEN \/ ~readable \/ Len(archive) > MaxEntries
                    \/ Broken(archive, Len(archive), DeclaredSize(archive))
               ELSE /\ readable /\ Len(archive) <= MaxEntries
                    /\ Scanned(archive, Len(archive), DeclaredSize(archive), s)
  <1> DEFINE m == Len(archive)
             begin == ScanBegin(size, readable, archive)
  <1>1. /\ archive \in Seq(Entries) /\ m \in Nat
        /\ \A n \in 1..m : archive[n] \in Entries /\ archive[n].size \in Nat
    <2>1. archive \in Seq(Entries) /\ m \in Nat
      BY LenProperties DEF IsArchive
    <2>2. \A n \in 1..m : archive[n] \in Entries
      BY <2>1, ElementOfSeq
    <2> QED BY <2>1, <2>2 DEF Entries
  <1>2. size \in Nat /\ MaxEntries \in Nat /\ MaxExpanded \in Nat /\ ~(size > MaxCompressed)
    BY IntakeAssumption
  <1>3. PICK sum : /\ sum[0] = 0 /\ \A n \in 1..m : sum[n] = sum[n - 1] + archive[n].size
                   /\ DeclaredSize(archive) = sum[m]
    BY <1>1, DeclaredSizeSteps
  <1>4. PICK state :
            /\ state[0] = begin
            /\ \A n \in 1..m : state[n] = ReadEntry(state[n - 1], archive[n])
            /\ InspectIpa(size, readable, archive) =
                LET end == state[m] IN
                [accepted |-> ~end.failed /\ end.bundle # NoBundle /\ end.present /\ end.info.id,
                 info |-> end.info]
    BY <1>1, <1>2, ScanSteps
  <1> HIDE DEF m
  <1> DEFINE Right(n) ==
                /\ sum[n] \in Nat /\ state[n] \in ScanStates
                /\ IF state[n].failed THEN ~readable \/ m > MaxEntries \/ Broken(archive, n, sum[n])
                   ELSE readable /\ m <= MaxEntries /\ Scanned(archive, n, sum[n], state[n])
             S == {n \in 0..m : Right(n)}
  <1>5. 0 \in S
    <2>1. begin \in ScanStates
      BY <1>2, ScanBeginType
    <2>2. begin.failed <=> ~readable \/ m > MaxEntries
      BY <1>2 DEF ScanBegin, m
    <2>3. Scanned(archive, 0, 0, begin)
      BY <1>2 DEF Scanned, ScanBegin
    <2>4. m > MaxEntries <=> ~(m <= MaxEntries)
      BY <1>1, <1>2
    <2> HIDE DEF begin
    <2> QED BY <1>1, <1>3, <1>4, <2>1, <2>2, <2>3, <2>4
  <1>6. ASSUME NEW n \in 0..m - 1, n \in S PROVE n + 1 \in S
    <2> DEFINE entry == archive[n + 1]
               s == state[n]
               t == state[n + 1]
    <2>1. n \in Nat /\ n + 1 \in 0..m /\ n + 1 \in 1..m /\ (n + 1) - 1 = n
      BY <1>1
    <2>2. /\ sum[n + 1] = sum[n] + entry.size /\ t = ReadEntry(s, entry)
          /\ entry \in Entries /\ entry.size \in Nat
      BY <1>1, <1>3, <1>4, <2>1
    <2>3. Right(n)
      BY <1>6
    <2>4. sum[n + 1] \in Nat /\ t \in ScanStates
      BY <2>2, <2>3, ReadEntryType
    <2>5. CASE s.failed
      <3>1. t = [s EXCEPT !.failed = TRUE]
        BY <2>2, <2>5, Zenon DEF ReadEntry
      <3>2. t.failed
        BY <2>3, <3>1 DEF ScanStates
      <3>3. ~readable \/ m > MaxEntries \/ Broken(archive, n + 1, sum[n + 1])
        BY <2>1, <2>2, <2>3, <2>5, BrokenStays
      <3> QED BY <2>1, <2>4, <3>2, <3>3
    <2>6. CASE ~s.failed
      <3>1. readable /\ m <= MaxEntries /\ Scanned(archive, n, sum[n], s)
        BY <2>3, <2>6
      <3>2. IF t.failed THEN Broken(archive, n + 1, sum[n + 1])
            ELSE Scanned(archive, n + 1, sum[n + 1], t)
        BY <2>1, <2>2, <2>3, <2>6, <3>1, ReadEntryScans DEF m
      <3> QED BY <2>1, <2>4, <3>1, <3>2
    <2> QED BY <2>5, <2>6
  <1>7. Right(m)
    <2> HIDE DEF S
    <2>1. 0..m \subseteq S
      BY <1>1, <1>5, <1>6, UpTo
    <2> QED BY <1>1, <2>1 DEF S
  <1> QED BY <1>3, <1>4, <1>7 DEF m

\* The inspection accepts exactly the archives that are within all limits and hold
\* one bundle with an identifier, whatever the order of their entries (ipa.rs:151).
LEMMA InspectionDecides ==
    ASSUME NEW archive, IsArchive(archive), NEW size \in 0..MaxCompressed,
           NEW readable \in BOOLEAN
    PROVE  /\ InspectIpa(size, readable, archive).accepted <=> readable /\ IsIpaArchive(archive)
           /\ InspectIpa(size, readable, archive).info \in Infos
  <1> DEFINE m == Len(archive)
             entries == ToSet(archive)
             inBundle == {e \in entries : e.bundle # NoBundle}
  <1>1. /\ m \in Nat /\ DOMAIN archive = 1..m
        /\ \A i \in 1..m : archive[i] \in Entries
        /\ \A i \in 1..m : archive[i].isInfo =>
            /\ archive[i].bundle # NoBundle
            /\ \A j \in 1..m : archive[j].isInfo /\ archive[j].bundle = archive[i].bundle => i = j
    <2>1. /\ m \in Nat /\ DOMAIN archive = 1..m
          /\ \A i \in 1..m : archive[i] \in Entries
      BY LenProperties, ElementOfSeq DEF IsArchive
    <2>2. \A i \in 1..m : archive[i].isInfo =>
            /\ archive[i].bundle \in Bundles
            /\ \A j \in 1..m : archive[j].isInfo /\ archive[j].bundle = archive[i].bundle => i = j
      BY <2>1 DEF IsArchive
    <2> QED BY <2>1, <2>2, FileAssumption
  <1>2. PICK s \in ScanStates :
            /\ InspectIpa(size, readable, archive) =
                [accepted |-> ~s.failed /\ s.bundle # NoBundle /\ s.present /\ s.info.id,
                 info |-> s.info]
            /\ DeclaredSize(archive) \in Nat
            /\ IF s.failed
               THEN ~readable \/ m > MaxEntries \/ Broken(archive, m, DeclaredSize(archive))
               ELSE readable /\ m <= MaxEntries /\ Scanned(archive, m, DeclaredSize(archive), s)
    BY ScanResult
  <1>3. \A e : e \in entries <=> \E i \in 1..m : e = archive[i]
    BY <1>1 DEF ToSet
  <1>4. ASSUME NEW i \in 1..m
        PROVE  Sound(archive[i]) <=>
                /\ archive[i].safe
                /\ archive[i].size >= RatioMin /\ archive[i].packed > 0
                    => archive[i].size < (MaxRatio + 1) * archive[i].packed
                /\ archive[i].isInfo => archive[i].info.dictionary /\ archive[i].size <= MaxInfo
    <2> DEFINE e == archive[i]
    <2>1. e.size \in Nat /\ e.packed \in Nat /\ MaxRatio \in Nat
      BY <1>1, IntakeAssumption DEF Entries
    <2>2. e.packed > 0 => (e.size \div e.packed > MaxRatio <=> ~(e.size < (MaxRatio + 1) * e.packed))
      BY <2>1, Dense
    <2> HIDE DEF e
    <2>3. TooDense(e) <=> ~(e.size >= RatioMin /\ e.packed > 0 => e.size < (MaxRatio + 1) * e.packed)
      BY <2>2 DEF TooDense
    <2> QED BY <2>3, Zenon DEF Sound, e
  <1> DEFINE Within ==
                /\ \A i \in 1..m : Sound(archive[i])
                /\ \E i \in 1..m : /\ archive[i].bundle # NoBundle
                                    /\ \A j \in 1..m : archive[j].bundle # NoBundle
                                                        => archive[j].bundle = archive[i].bundle
                /\ \E i \in 1..m : archive[i].isInfo /\ archive[i].info.id
  <1>5. IsIpaArchive(archive) <=>
            m <= MaxEntries /\ DeclaredSize(archive) <= MaxExpanded /\ Within
    <2>1. (\A e \in entries : e.safe /\ (e.size >= RatioMin /\ e.packed > 0
                                            => e.size < (MaxRatio + 1) * e.packed))
          /\ (\A e \in entries : e.isInfo => e.info.dictionary /\ e.size <= MaxInfo)
          <=> \A i \in 1..m : Sound(archive[i])
      BY <1>3, <1>4
    <2>2. (\E b \in {e.bundle : e \in inBundle} : \A e \in inBundle : e.bundle = b) <=>
            \E i \in 1..m : /\ archive[i].bundle # NoBundle
                            /\ \A j \in 1..m : archive[j].bundle # NoBundle
                                                => archive[j].bundle = archive[i].bundle
      <3> DEFINE One(x) == x.bundle # NoBundle /\ \A e \in inBundle : e.bundle = x.bundle
      <3>1. (\E b \in {e.bundle : e \in inBundle} : \A e \in inBundle : e.bundle = b) <=>
                \E x \in entries : One(x)
        OBVIOUS
      <3>2. \A i \in 1..m : One(archive[i]) <=>
                /\ archive[i].bundle # NoBundle
                /\ \A j \in 1..m : archive[j].bundle # NoBundle => archive[j].bundle = archive[i].bundle
        BY <1>3
      <3> HIDE DEF One, entries
      <3>3. (\E x \in entries : One(x)) <=> \E i \in 1..m : One(archive[i])
        BY <1>3
      <3> QED BY <3>1, <3>2, <3>3, Zenon
    <2>3. (\E e \in entries : e.isInfo /\ e.info.id) <=>
            \E i \in 1..m : archive[i].isInfo /\ archive[i].info.id
      BY <1>3
    <2> QED BY <2>1, <2>2, <2>3, Zenon DEF IsIpaArchive
  <1> DEFINE result == InspectIpa(size, readable, archive)
  <1>6. /\ result.accepted = (~s.failed /\ s.bundle # NoBundle /\ s.present /\ s.info.id)
        /\ result.info \in Infos
    <2> DEFINE accepted == ~s.failed /\ s.bundle # NoBundle /\ s.present /\ s.info.id
    <2>1. result = [accepted |-> accepted, info |-> s.info]
      BY <1>2
    <2> HIDE DEF accepted, result
    <2>2. result.accepted = accepted /\ result.info \in Infos
      BY <2>1 DEF ScanStates
    <2> QED BY <2>2 DEF accepted
  <1> HIDE DEF result
  <1>7. CASE s.failed
    <2>1. ~(readable /\ IsIpaArchive(archive))
      <3>1. CASE m > MaxEntries
        <4>1. ~(m <= MaxEntries)
          BY <1>1, <3>1, IntakeAssumption
        <4> QED BY <1>5, <4>1
      <3>2. CASE Broken(archive, m, DeclaredSize(archive))
        <4>1. DeclaredSize(archive) > MaxExpanded => ~(DeclaredSize(archive) <= MaxExpanded)
          BY <1>2, IntakeAssumption
        <4> QED BY <1>5, <3>2, <4>1 DEF Broken
      <3> QED BY <1>2, <1>7, <3>1, <3>2
    <2> QED BY <1>7, <1>6, <2>1, Zenon DEF result
  <1>8. CASE ~s.failed
    <2>1. readable /\ m <= MaxEntries /\ Scanned(archive, m, DeclaredSize(archive), s)
      BY <1>2, <1>8
    <2>2. (s.bundle # NoBundle /\ s.present /\ s.info.id) <=> Within
      <3>1. ASSUME s.bundle # NoBundle, s.present, s.info.id PROVE Within
        BY <2>1, <3>1 DEF Scanned
      <3>2. ASSUME Within PROVE s.bundle # NoBundle /\ s.present /\ s.info.id
        <4>1. PICK i \in 1..m : archive[i].isInfo /\ archive[i].info.id
          BY <3>2
        <4>2. s.present /\ archive[i].bundle # NoBundle
          BY <1>1, <2>1, <4>1 DEF Scanned
        <4>3. PICK j \in 1..m : archive[j].isInfo /\ s.info = archive[j].info
          BY <2>1, <4>2 DEF Scanned
        <4>4. archive[i].bundle = s.bundle /\ archive[j].bundle = s.bundle
          BY <1>1, <2>1, <4>1, <4>3 DEF Scanned
        <4>5. i = j
          BY <1>1, <4>1, <4>3, <4>4
        <4> QED BY <4>1, <4>2, <4>3, <4>4, <4>5
      <3> QED BY <3>1, <3>2
    <2>3. DeclaredSize(archive) <= MaxExpanded
      BY <2>1 DEF Scanned
    <2> HIDE DEF Within
    <2>4. readable /\ IsIpaArchive(archive) <=> (s.bundle # NoBundle /\ s.present /\ s.info.id)
      BY <1>5, <2>1, <2>2, <2>3
    <2> QED BY <1>8, <1>6, <2>4, Zenon DEF result
  <1> QED BY <1>7, <1>8

-----------------------------------------------------------------------------
(* The stages *)

\* An empty file is within the limit.
LEMMA EmptyFits == 0 \in 0..MaxCompressed
  <1>1. MaxCompressed \in Nat
    BY IntakeAssumption
  <1> QED BY <1>1

\* A refusal leaves nothing on the disk.
LEMMA RefuseKeeps == ASSUME IntakeInv, Refuse PROVE IntakeInv'
  BY EmptyFits DEF IntakeInv, Refuse, Stages

\* The steps of a download before its bytes arrive.
LEMMA SourceStages ==
    ASSUME IntakeInv, ChooseRelease \/ ReleaseChosen \/ ChooseAsset \/ BeginDownload
    PROVE  IntakeInv'
  <1>1. CASE Refuse
    BY <1>1, RefuseKeeps
  <1>2. CASE /\ UNCHANGED <<origin, total, seen>>
             /\ \/ stage' \in {"released", "assets", "link"} /\ UNCHANGED file
                \/ stage' = "stream" /\ file' = TRUE
    BY <1>2 DEF IntakeInv, Stages
  <1>3. CASE ChooseRelease
    BY <1>1, <1>2, <1>3 DEF ChooseRelease
  <1>4. CASE ChooseAsset
    BY <1>1, <1>2, <1>4 DEF ChooseAsset
  <1> QED BY <1>1, <1>2, <1>3, <1>4 DEF ReleaseChosen, BeginDownload

\* The fields of an upload: the file is there from the beginning.
LEMMA UploadStages ==
    ASSUME IntakeInv, ReadField \/ RejectName \/ EndFields
    PROVE  IntakeInv'
  <1>1. CASE Refuse
    BY <1>1, RefuseKeeps
  <1>2. CASE /\ UNCHANGED <<origin, file, total>> /\ stage = "fields"
             /\ seen' \subseteq {"file", "displayName"} /\ seen \subseteq seen'
             /\ stage' \in {"stream", "fields"}
    BY <1>2 DEF IntakeInv, Stages
  <1>3. CASE ReadField
    <2>1. PICK field \in {"file", "displayName", "other"} :
            IF field \in {"file", "displayName"} \ seen
            THEN /\ seen' = seen \cup {field}
                 /\ stage' = IF field = "file" THEN "stream" ELSE stage
                 /\ UNCHANGED <<origin, given, made, file, total>>
            ELSE Refuse
      BY <1>3 DEF ReadField
    <2>2. stage = "fields" /\ seen \subseteq {"file", "displayName"}
      BY <1>3 DEF ReadField, IntakeInv
    <2> QED BY <1>1, <1>2, <2>1, <2>2
  <1>4. CASE EndFields
    BY <1>1, <1>4 DEF EndFields, IntakeInv, Stages
  <1> QED BY <1>1, <1>3, <1>4 DEF RejectName

\* The bytes: with the chunk that would make it too long the file is removed.
LEMMA StreamStages ==
    ASSUME IntakeInv, ReceiveChunk \/ StreamBreaks \/ EndStream \/ HandlerDropped
    PROVE  IntakeInv'
  <1>1. CASE Refuse
    BY <1>1, RefuseKeeps
  <1>2. CASE ReceiveChunk
    <2>1. PICK n \in ChunkSizes :
            IF SaturatingAdd(total, n) > MaxCompressed THEN Refuse
            ELSE /\ total' = SaturatingAdd(total, n)
                 /\ UNCHANGED <<stage, origin, given, made, file, seen>>
      BY <1>2 DEF ReceiveChunk
    <2>2. SaturatingAdd(total, n) \in Nat
      <3>1. total \in Nat /\ n \in Nat /\ Largest \in Nat
        BY IntakeAssumption DEF IntakeInv
      <3> QED BY <3>1, SaturatingSum
    <2>3. CASE SaturatingAdd(total, n) <= MaxCompressed
      <3>1. total' \in 0..MaxCompressed /\ UNCHANGED <<stage, origin, file, seen>>
        BY <2>1, <2>2, <2>3, IntakeAssumption
      <3> QED BY <3>1 DEF IntakeInv
    <2> QED BY <1>1, <2>1, <2>2, <2>3, IntakeAssumption
  <1>3. CASE EndStream
    BY <1>1, <1>3 DEF EndStream, IntakeInv, Stages
  <1>4. CASE HandlerDropped
    BY <1>4 DEF HandlerDropped, IntakeInv, Stages
  <1> QED BY <1>1, <1>2, <1>3, <1>4 DEF StreamBreaks

\* The inspection and the device.
LEMMA FileStages ==
    ASSUME IntakeInv, Inspect \/ CheckDevice
    PROVE  IntakeInv'
  <1>1. CASE Inspect
    <2>1. \/ stage' = "ready" /\ stage = "inspect" /\ UNCHANGED <<origin, file, total, seen>>
          \/ stage' = "refused" /\ file' = FALSE /\ total' = 0 /\ UNCHANGED <<origin, seen>>
      BY <1>1 DEF Inspect
    <2> QED BY <2>1, EmptyFits DEF IntakeInv, Stages
  <1>2. CASE CheckDevice
    BY <1>2 DEF CheckDevice, IntakeInv, Stages
  <1> QED BY <1>1, <1>2

\* Where nothing is chosen or inspected, there is nothing that could be wrong.
LEMMA QuietStages ==
    ASSUME stage' \notin {"released", "link", "ready", "checked"}, stage' = "refused" => given' = None
    PROVE  ChoiceIsExact' /\ InspectionIsExact' /\ MadeInv'
  BY DEF ChoiceIsExact, InspectionIsExact, MadeInv

LEMMA ReleaseIsExact ==
    ASSUME ChooseRelease PROVE ChoiceIsExact' /\ InspectionIsExact' /\ MadeInv'
  <1>1. CASE Refuse
    BY <1>1, QuietStages DEF Refuse, Gives
  <1>2. CASE ~Refuse
    <2>1. PICK releases \in ReleaseLists, prereleases \in BOOLEAN :
            /\ LatestEligible(releases, prereleases) # <<>>
            /\ stage' = "released"
            /\ given' = [releases |-> releases, prereleases |-> prereleases]
            /\ made' = LatestEligible(releases, prereleases)[1]
      BY <1>2, Zenon DEF ChooseRelease, Gives
    <2>2. releases \in Seq(Releases)
      BY AnswerAssumption
    <2>3. IsLatest(made', releases, prereleases)
      BY <2>1, <2>2, LatestIsLatest
    <2>4. given'.releases = releases /\ given'.prereleases = prereleases
      BY <2>1
    <2> QED BY <2>1, <2>3, <2>4 DEF ChoiceIsExact, InspectionIsExact, MadeInv
  <1> QED BY <1>1, <1>2

LEMMA AssetIsExact ==
    ASSUME ChooseAsset PROVE ChoiceIsExact' /\ InspectionIsExact' /\ MadeInv'
  <1>1. CASE Refuse
    BY <1>1, QuietStages DEF Refuse, Gives
  <1>2. CASE ~Refuse
    <2>1. PICK assets \in AssetLists, pattern \in Patterns :
              /\ Cardinality(Matching(assets, pattern)) = 1 /\ stage' = "link"
              /\ \E i \in Matching(assets, pattern) :
                  given' = [assets |-> assets, pattern |-> pattern] /\ made' = assets[i]
      BY <1>2 DEF ChooseAsset, Gives
    <2>2. PICK i \in Matching(assets, pattern) :
              given' = [assets |-> assets, pattern |-> pattern] /\ made' = assets[i]
      BY <2>1
    <2>3. assets \in Seq(Names) /\ pattern \in Seq(Names) \ {<<>>}
      BY AnswerAssumption
    <2>4. /\ IsIpa(assets[i])
          /\ \A j \in DOMAIN assets :
                IsIpa(assets[j]) /\ StandsFor(pattern, assets[j]) => assets[j] = assets[i]
      BY <2>1, <2>2, <2>3, ChosenAsset
    <2>5. given'.assets = assets /\ given'.pattern = pattern
      BY <2>2
    <2> QED BY <2>1, <2>2, <2>4, <2>5 DEF ChoiceIsExact, InspectionIsExact, MadeInv
  <1> QED BY <1>1, <1>2

LEMMA InspectIsExact ==
    ASSUME IntakeInv, Inspect PROVE ChoiceIsExact' /\ InspectionIsExact' /\ MadeInv'
  <1>1. PICK archive \in Archives, readable \in BOOLEAN :
            IF InspectIpa(total, readable, archive).accepted
            THEN /\ stage' = "ready" /\ given' = archive
                 /\ made' = InspectIpa(total, readable, archive).info
            ELSE stage' = "refused" /\ given' = IF readable THEN archive ELSE None
    BY Zenon DEF Inspect, Gives
  <1>2. IsArchive(archive) /\ total \in 0..MaxCompressed
    BY FileAssumption DEF IntakeInv
  <1>3. /\ InspectIpa(total, readable, archive).accepted <=> readable /\ IsIpaArchive(archive)
        /\ InspectIpa(total, readable, archive).info \in Infos
    BY <1>2, InspectionDecides
  <1>4. CASE readable = TRUE
    BY <1>1, <1>3, <1>4 DEF ChoiceIsExact, InspectionIsExact, MadeInv
  <1>5. CASE readable = FALSE
    BY <1>1, <1>3, <1>5, QuietStages
  <1> QED BY <1>4, <1>5

LEMMA DeviceIsExact ==
    ASSUME MadeInv, CheckDevice PROVE ChoiceIsExact' /\ InspectionIsExact' /\ MadeInv'
  <1>1. PICK device \in Devices :
            /\ stage' = "checked" /\ stage = "ready"
            /\ given' = [device |-> device, info |-> made]
            /\ made' = [allowed |-> InstallableOn(made, device)]
    BY Zenon DEF CheckDevice, Gives
  <1>2. made \in Infos /\ device \in Families
    BY <1>1, FileAssumption DEF MadeInv
  <1>3. given'.device = device /\ given'.info = made /\ made'.allowed = InstallableOn(made, device)
    <2> DEFINE allowed == InstallableOn(made, device)
    <2>1. made' = [allowed |-> allowed]
      BY <1>1
    <2> HIDE DEF allowed
    <2>2. made'.allowed = allowed
      BY <2>1
    <2>3. given'.device = device /\ given'.info = made
      BY <1>1
    <2> QED BY <2>2, <2>3 DEF allowed
  <1>4. /\ made.names \in SUBSET Families /\ made.families \in SUBSET Families
        /\ InstallableOn(made, device) => Declares(made) = {} \/ device \in Declares(made)
        /\ Declares(made) \subseteq {device} => InstallableOn(made, device)
    BY <1>2 DEF InstallableOn, Platform, Declares, Infos, Families
  <1> QED BY <1>1, <1>3, <1>4, Zenon DEF ChoiceIsExact, InspectionIsExact, MadeInv

\* However long the parts of a download or of an upload are, and wherever it fails,
\* the temporary file holds at most the limit, and a refusal leaves none. What goes
\* on is what was asked for: the latest release, the asset the pattern stands for, an
\* archive within the limits.
THEOREM IntakeInvariance == IntakeSpec => []IntakeIInv
  <1>1. IntakeInit => IntakeIInv
    <2>1. IntakeInit => IntakeInv
      BY EmptyFits DEF IntakeInit, IntakeInv, Stages
    <2>2. IntakeInit => ChoiceIsExact /\ InspectionIsExact /\ MadeInv
      BY DEF IntakeInit, ChoiceIsExact, InspectionIsExact, MadeInv
    <2> QED BY <2>1, <2>2 DEF IntakeIInv
  <1>2. IntakeIInv /\ [IntakeNext]_vars => IntakeIInv'
    <2> SUFFICES ASSUME IntakeIInv, [IntakeNext]_vars PROVE IntakeIInv'
      OBVIOUS
    <2>1. IntakeInv /\ ChoiceIsExact /\ InspectionIsExact /\ MadeInv
      BY DEF IntakeIInv
    <2>2. IntakeInv'
      <3>1. CASE UNCHANGED vars
        BY <2>1, <3>1 DEF vars, IntakeInv
      <3> QED BY <2>1, <3>1, SourceStages, UploadStages, StreamStages, FileStages DEF IntakeNext
    <2>3. ChoiceIsExact' /\ InspectionIsExact' /\ MadeInv'
      <3>1. CASE UNCHANGED vars
        BY <2>1, <3>1 DEF vars, ChoiceIsExact, InspectionIsExact, MadeInv
      <3>2. CASE Refuse
        BY <3>2, QuietStages DEF Refuse, Gives
      <3>3. CASE ReleaseChosen \/ BeginDownload
        BY <3>2, <3>3, QuietStages DEF ReleaseChosen, BeginDownload
      <3>4. CASE ReadField \/ RejectName \/ EndFields
        BY <3>2, <3>4, QuietStages DEF ReadField, RejectName, EndFields
      <3>5. CASE ReceiveChunk \/ StreamBreaks \/ EndStream \/ HandlerDropped
        BY <3>2, <3>5, QuietStages DEF ReceiveChunk, StreamBreaks, EndStream, HandlerDropped
      <3> QED BY <2>1, <3>1, <3>3, <3>4, <3>5, ReleaseIsExact, AssetIsExact, InspectIsExact,
                 DeviceIsExact DEF IntakeNext
    <2> QED BY <2>2, <2>3 DEF IntakeIInv
  <1> QED BY <1>1, <1>2, PTL DEF IntakeSpec

\* The temporary file: within the limit, and gone with a refusal.
THEOREM IntakeLeavesNothing == IntakeSpec => []IntakeInv
  <1>1. IntakeIInv => IntakeInv
    BY DEF IntakeIInv
  <1> QED BY <1>1, IntakeInvariance, PTL

\* The release chosen is the latest eligible one, and the asset the only IPA of it
\* that the pattern stands for.
THEOREM ChoicesAreExact == IntakeSpec => []ChoiceIsExact
  <1>1. IntakeIInv => ChoiceIsExact
    BY DEF IntakeIInv
  <1> QED BY <1>1, IntakeInvariance, PTL

\* What is accepted is exactly an archive within all limits that holds one bundle
\* with one identifier, and a device is offered only apps that declare its family.
THEOREM InspectionsAreExact == IntakeSpec => []InspectionIsExact
  <1>1. IntakeIInv => InspectionIsExact
    BY DEF IntakeIInv
  <1> QED BY <1>1, IntakeInvariance, PTL
=============================================================================
