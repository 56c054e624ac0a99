--------------------------- MODULE ProbeListProofs ---------------------------
(***************************************************************************)
(* Proofs about ProbeList, for any settings with a positive divisor, any   *)
(* numbers and revisions, and whatever is published, discovered and        *)
(* watched between the steps of a cycle.                                   *)
(***************************************************************************)
EXTENDS ProbeList, FiniteSetTheorems, TLAPS

-----------------------------------------------------------------------------
(* Finitely many numbers: the largest, and all of them in order *)

\* A finite set of integers that is not empty has a largest element: in a smallest
\* set without one, take an element away.
LEMMA MaxIsThere ==
    ASSUME NEW S \in SUBSET Int, IsFiniteSet(S), S # {}
    PROVE  Max(S) \in S /\ \A n \in S : Max(S) >= n
<1> DEFINE HasMax(T) == \E m \in T : \A n \in T : m >= n
           Bad == {T \in FiniteSubsetsOf(S) : T # {} /\ ~ HasMax(T)}
<1>1. ASSUME Bad # {}
      PROVE  FALSE
  <2>1. Bad \subseteq FiniteSubsetsOf(S)
    OBVIOUS
  <2>2. PICK T \in Bad : \A U \in Bad : ~ (<<U, T>> \in StrictSubsetOrdering(S))
    <3> HIDE DEF Bad
    <3> QED
      BY <1>1, <2>1, FS_StrictSubsetOrderingWellFounded, WFMin
  <2>3. T \in SUBSET S /\ IsFiniteSet(T) /\ T # {} /\ ~ HasMax(T)
    BY DEF FiniteSubsetsOf
  <2>4. PICK x \in T : TRUE
    BY <2>3
  <2>5. IsFiniteSet(T \ {x}) /\ T \ {x} \in SUBSET S
    BY <2>3, FS_RemoveElement
  <2>6. T \ {x} \notin Bad
    BY <2>2, <2>3, <2>4, <2>5 DEF StrictSubsetOrdering
  <2>7. T \ {x} # {}
    BY <2>3
  <2>8. PICK m \in T \ {x} : \A n \in T \ {x} : m >= n
    BY <2>5, <2>6, <2>7 DEF FiniteSubsetsOf
  <2> QED
    BY <2>3, <2>4, <2>8
<1>2. S \in FiniteSubsetsOf(S)
  BY DEF FiniteSubsetsOf
<1>3. HasMax(S)
  BY <1>1, <1>2
<1> QED
  BY <1>3 DEF Max

Rank(S, n) == Cardinality({m \in S : m < n})

\* A smaller number has a smaller rank.
LEMMA RankGrows ==
    ASSUME NEW S \in SUBSET Nat, IsFiniteSet(S), NEW m \in S, NEW n \in S, m < n
    PROVE  /\ Rank(S, m) \in Nat /\ Rank(S, n) \in Nat
           /\ Rank(S, m) < Rank(S, n)
<1> DEFINE A == {k \in S : k < m}
           B == {k \in S : k < n}
<1>1. A \in SUBSET S /\ B \in SUBSET S /\ m \notin A
  OBVIOUS
<1>2. A \cup {m} \in SUBSET B
  <2>1. \A k \in S : k < m => k < n
    OBVIOUS
  <2> QED
    BY <2>1
<1>3. Rank(S, m) = Cardinality(A) /\ Rank(S, n) = Cardinality(B)
  BY DEF Rank
<1> HIDE DEF A, B
<1>4. IsFiniteSet(A) /\ IsFiniteSet(B)
  BY <1>1, FS_Subset
<1>5. Cardinality(A) \in Nat /\ Cardinality(B) \in Nat
  BY <1>4, FS_CardinalityType
<1>6. Cardinality(A \cup {m}) = Cardinality(A) + 1
  BY <1>1, <1>4, FS_AddElement
<1>7. Cardinality(A \cup {m}) <= Cardinality(B)
  BY <1>2, <1>4, FS_Subset
<1> QED
  BY <1>3, <1>5, <1>6, <1>7

\* Every rank below the size is one number's: ranks are an injection into as many.
LEMMA RankTaken ==
    ASSUME NEW S \in SUBSET Nat, IsFiniteSet(S)
    PROVE  /\ Cardinality(S) \in Nat
           /\ \A n \in S : Rank(S, n) + 1 \in 1 .. Cardinality(S)
           /\ \A i \in 1 .. Cardinality(S) : \E n \in S : Rank(S, n) = i - 1
<1> DEFINE c == Cardinality(S)
           f == [n \in S |-> Rank(S, n) + 1]
<1>1. c \in Nat
  BY FS_CardinalityType
<1>2. ASSUME NEW n \in S
      PROVE  Rank(S, n) \in Nat /\ Rank(S, n) + 1 \in 1 .. c
  <2> DEFINE B == {k \in S : k < n}
           R == S \ {n}
  <2>1. B \in SUBSET R
    OBVIOUS
  <2>2. Rank(S, n) = Cardinality(B)
    BY DEF Rank
  <2>3. IsFiniteSet(R) /\ Cardinality(R) = c - 1
    BY FS_RemoveElement
  <2> HIDE DEF B, R
  <2>4. IsFiniteSet(B) /\ Cardinality(B) <= Cardinality(R)
    BY <2>1, <2>3, FS_Subset
  <2>5. Cardinality(B) \in Nat
    BY <2>4, FS_CardinalityType
  <2> QED
    BY <1>1, <2>2, <2>3, <2>4, <2>5
<1>3. ASSUME NEW m \in S, NEW n \in S, Rank(S, m) = Rank(S, n)
      PROVE  m = n
  <2>1. ~ (m < n) /\ ~ (n < m)
    BY <1>3, RankGrows
  <2> QED
    BY <2>1
<1>4. f \in Injection(S, 1 .. c)
  <2>1. f \in [S -> 1 .. c]
    BY <1>2
  <2>2. \A m, n \in S : f[m] = f[n] => m = n
    BY <1>2, <1>3
  <2> HIDE DEF f
  <2> QED
    BY <2>1, <2>2 DEF Injection, IsInjective
<1>5. IsFiniteSet(1 .. c) /\ Cardinality(1 .. c) = c
  BY <1>1, FS_Interval
<1>6. f \in Surjection(S, 1 .. c)
  <2> HIDE DEF f
  <2> QED
    BY <1>4, <1>5, FS_Injection
<1>7. ASSUME NEW i \in 1 .. c
      PROVE  \E n \in S : Rank(S, n) = i - 1
  <2>1. PICK n \in S : f[n] = i
    <3> HIDE DEF f
    <3> QED
      BY <1>6 DEF Surjection
  <2> QED
    BY <1>1, <1>2, <2>1
<1> QED
  BY <1>1, <1>2, <1>7

\* Sorted lists the numbers, each once, in ascending order.
LEMMA SortedAscends ==
    ASSUME NEW S \in SUBSET Nat, IsFiniteSet(S)
    PROVE  /\ \A i \in 1 .. Cardinality(S) : Sorted(S)[i] \in S
           /\ \A n \in S : \E i \in 1 .. Cardinality(S) : Sorted(S)[i] = n
           /\ \A i, j \in 1 .. Cardinality(S) : i < j => Sorted(S)[i] < Sorted(S)[j]
<1> DEFINE c == Cardinality(S)
           s == Sorted(S)
<1>1. c \in Nat
  BY RankTaken
<1>2. ASSUME NEW i \in 1 .. c
      PROVE  s[i] \in S /\ Rank(S, s[i]) = i - 1
  <2>1. s[i] = CHOOSE n \in S : Rank(S, n) = i - 1
    BY DEF Sorted, Rank
  <2> HIDE DEF s
  <2>2. \E n \in S : Rank(S, n) = i - 1
    BY RankTaken
  <2> QED
    BY <2>1, <2>2
<1> HIDE DEF s
<1>3. ASSUME NEW n \in S
      PROVE  \E i \in 1 .. c : s[i] = n
  <2> DEFINE i == Rank(S, n) + 1
  <2>1. i \in 1 .. c /\ Rank(S, n) \in Int
    <3>1. Rank(S, n) \in Nat
      <4>1. {m \in S : m < n} \in SUBSET S
        OBVIOUS
      <4>2. IsFiniteSet({m \in S : m < n})
        BY <4>1, FS_Subset
      <4> QED
        BY <4>2, FS_CardinalityType DEF Rank
    <3> QED
      BY <3>1, RankTaken
  <2> DEFINE m == s[i]
  <2>2. m \in S /\ Rank(S, m) = Rank(S, n)
    BY <1>2, <2>1
  <2> HIDE DEF m
  <2>3. ~ (m < n) /\ ~ (n < m)
    <3>1. \A k \in Int : ~ (k < k)
      OBVIOUS
    <3> QED
      BY <2>1, <2>2, <3>1, RankGrows
  <2>4. m = n
    BY <2>2, <2>3
  <2> QED
    BY <2>1, <2>4 DEF m
<1>4. ASSUME NEW i \in 1 .. c, NEW j \in 1 .. c, i < j
      PROVE  s[i] < s[j]
  <2>1. /\ s[i] \in S /\ Rank(S, s[i]) = i - 1
        /\ s[j] \in S /\ Rank(S, s[j]) = j - 1
    BY <1>2
  <2> DEFINE m == s[i]
             n == s[j]
  <2>2. m \in Nat /\ n \in Nat /\ m # n
    <3>1. i - 1 # j - 1
      BY <1>1, <1>4
    <3> QED
      BY <2>1, <3>1
  <2>3. ~ (n < m)
    <3> SUFFICES ASSUME n < m PROVE FALSE
      OBVIOUS
    <3>1. Rank(S, n) < Rank(S, m)
      BY <2>1, RankGrows
    <3> QED
      BY <1>4, <2>1, <3>1
  <2> HIDE DEF m, n
  <2>4. m < n
    BY <2>2, <2>3
  <2> QED
    BY <2>4 DEF m, n
<1> QED
  BY <1>2, <1>3, <1>4 DEF s

-----------------------------------------------------------------------------
(* The frontier *)

\* What the loop finds: 0 if there are no numbers; else one of them, above which
\* none is close to one below it, and which is so itself unless it is the lowest.
LEMMA FrontierFound ==
    ASSUME NEW nums \in SUBSET Nat, IsFiniteSet(nums)
    PROVE  LET f == EffectiveFrontier(nums)
           IN  /\ nums = {} => f = 0
               /\ \A n \in nums : n > f => ~ CloseBelow(nums, n)
               /\ nums # {} => f \in nums /\ (CloseBelow(nums, f) \/ \A n \in nums : n >= f)
<1> DEFINE s == Sorted(nums)
           c == Cardinality(nums)
           close == {i \in 2 .. c : s[i] - s[i - 1] <= GapThreshold}
           k == Max({1} \cup close)
<1>1. EffectiveFrontier(nums) = IF nums = {} THEN 0 ELSE s[k]
  BY DEF EffectiveFrontier
<1>2. CASE nums = {}
  BY <1>1, <1>2
<1>3. CASE nums # {}
  <2>1. /\ \A i \in 1 .. c : s[i] \in nums
        /\ \A n \in nums : \E i \in 1 .. c : s[i] = n
        /\ \A i, j \in 1 .. c : i < j => s[i] < s[j]
    BY SortedAscends
  <2>2. c \in Nat
    BY FS_CardinalityType
  <2>3. c >= 1
    <3>1. PICK n \in nums : TRUE
      BY <1>3
    <3>2. PICK i \in 1 .. c : s[i] = n
      BY <2>1, <3>1
    <3> QED
      BY <2>2, <3>2
  <2>4. close \in SUBSET (2 .. c)
    OBVIOUS
  <2>5. \A i \in 2 .. c : i \in close <=> s[i] - s[i - 1] <= GapThreshold
    OBVIOUS
  <2> DEFINE K == {1} \cup close
  <2>6. k = Max(K) /\ GapThreshold \in Nat
    BY SettingsAssumption
  <2> HIDE DEF s, c, close, k
  <2>7. K \in SUBSET Int /\ IsFiniteSet(K) /\ K # {}
    <3>1. IsFiniteSet(2 .. c)
      BY <2>2, FS_Interval
    <3>2. IsFiniteSet(close)
      BY <2>4, <3>1, FS_Subset
    <3>3. IsFiniteSet(close \cup {1})
      BY <3>2, FS_AddElement
    <3>4. close \cup {1} = K
      OBVIOUS
    <3>5. IsFiniteSet(K)
      BY <3>3, <3>4
    <3> QED
      BY <2>2, <2>4, <3>5
  <2>8. k \in K /\ \A i \in K : k >= i
    <3> HIDE DEF K
    <3> QED
      BY <2>6, <2>7, MaxIsThere
  <2>9. k \in 1 .. c
    BY <2>2, <2>3, <2>4, <2>8
  <2>10. s[k] \in nums
    BY <2>1, <2>9
  <2>11. \A x, y \in nums : (x < y => ~ (x > y) /\ y >= x) /\ x >= x
    OBVIOUS
  <2>12. ASSUME NEW n \in nums, n > s[k], NEW m \in nums, m < n, n - m <= GapThreshold
         PROVE  FALSE
    <3>1. PICK i \in 1 .. c : s[i] = n
      BY <2>1
    <3>2. PICK j \in 1 .. c : s[j] = m
      BY <2>1
    <3>3. i > k
      <4>1. ~ (i < k)
        <5> SUFFICES ASSUME i < k PROVE FALSE
          OBVIOUS
        <5>1. s[i] < s[k]
          BY <2>1, <2>9
        <5> QED
          BY <2>10, <2>12, <2>11, <3>1, <5>1
      <4>2. i # k
        BY <2>10, <2>12, <3>1
      <4> QED
        BY <2>2, <2>9, <4>1, <4>2
    <3>4. i \in 2 .. c /\ i - 1 \in 1 .. c
      BY <2>2, <2>9, <3>3
    <3>5. ~ (s[i] - s[i - 1] <= GapThreshold)
      <4>1. i \notin close
        BY <2>2, <2>8, <2>9, <3>3
      <4> QED
        BY <2>5, <3>4, <4>1
    <3>6. j < i
      <4>1. ~ (i < j)
        <5> SUFFICES ASSUME i < j PROVE FALSE
          OBVIOUS
        <5>1. s[i] < s[j]
          BY <2>1
        <5> QED
          BY <2>12, <3>1, <3>2, <5>1
      <4>2. i # j
        BY <2>12, <3>1, <3>2
      <4> QED
        BY <2>2, <4>1, <4>2
    <3>7. j = i - 1 \/ s[j] < s[i - 1]
      <4>1. j < i - 1 \/ j = i - 1
        BY <2>2, <3>6
      <4> QED
        BY <2>1, <3>4, <4>1
    <3>8. s[i - 1] \in nums
      BY <2>1, <3>4
    <3> DEFINE a == s[i - 1]
    <3>9. a \in Nat /\ ~ (n - a <= GapThreshold) /\ (m = a \/ m < a)
      BY <3>1, <3>2, <3>5, <3>7, <3>8
    <3> HIDE DEF a
    <3> QED
      BY <2>6, <2>12, <3>9
  <2>13. CASE k = 1
    <3>1. ASSUME NEW n \in nums
          PROVE  n >= s[k]
      <4>1. PICK i \in 1 .. c : s[i] = n
        BY <2>1
      <4>2. i = k \/ s[k] < s[i]
        <5>1. i = k \/ k < i
          BY <2>2, <2>13
        <5> QED
          BY <2>1, <2>9, <5>1
      <4> QED
        BY <2>10, <2>11, <4>1, <4>2
    <3> QED
      BY <1>1, <1>3, <2>10, <2>12, <3>1 DEF CloseBelow
  <2>14. CASE k \in close
    <3>1. k \in 2 .. c /\ k - 1 \in 1 .. c /\ k - 1 < k
      BY <2>2, <2>4, <2>14
    <3>2. s[k - 1] \in nums /\ s[k - 1] < s[k] /\ s[k] - s[k - 1] <= GapThreshold
      BY <2>1, <2>5, <2>9, <2>14, <3>1
    <3>3. CloseBelow(nums, s[k])
      BY <3>2 DEF CloseBelow
    <3> QED
      BY <1>1, <1>3, <2>10, <2>12, <3>3 DEF CloseBelow
  <2> QED
    BY <2>8, <2>13, <2>14
<1> QED
  BY <1>2, <1>3

\* The numbers the frontier is taken from.
LEMMA FrontierNumbers ==
    ASSUME TypeOK, IsFiniteSet(discovered)
    PROVE  /\ Seen \in SUBSET Nat
           /\ IsFiniteSet(Seen)
           /\ Frontier \in Nat
           /\ FrontierRange \subseteq Nat
<1>1. Known \in SUBSET Nat /\ IsFiniteSet(Known)
  <2>1. Known \in SUBSET (1 .. MaxNum) /\ MaxNum \in Nat
    BY SettingsAssumption DEF Known, Num
  <2>2. IsFiniteSet(1 .. MaxNum)
    BY <2>1, FS_Interval
  <2>3. IsFiniteSet(Known)
    BY <2>1, <2>2, FS_Subset
  <2> QED
    BY <2>1, <2>3
<1>2. discovered \in SUBSET Nat
  BY SettingsAssumption DEF TypeOK
<1>3. Seen \in SUBSET Nat /\ IsFiniteSet(Seen)
  BY <1>1, <1>2, FS_Union DEF Seen
<1>4. Frontier \in Nat
  <2>1. (Seen = {} => Frontier = 0) /\ (Seen # {} => Frontier \in Seen)
    BY <1>3, FrontierFound DEF Frontier
  <2>2. CASE Seen = {}
    BY <2>1, <2>2
  <2>3. CASE Seen # {}
    BY <1>3, <2>1, <2>3
  <2> QED
    BY <2>2, <2>3
<1>5. FrontierRange \subseteq Nat
  BY <1>4, SettingsAssumption DEF FrontierRange
<1> QED
  BY <1>3, <1>4, <1>5

-----------------------------------------------------------------------------
(* The entries of a list *)

\* The tier a number's entries carry: there is only one.
TierOf(n) ==
    IF n \notin hot THEN "cold"
    ELSE IF n \in Known THEN TierLabel(n, FrontierRange)
    ELSE "frontier"

Entries == [tier : {"watchlist", "frontier", "recent", "cold"},
            prefix : {"D"} \cup ProbePrefixes, num : Nat, rev : Nat]

\* What is known of an entry.
Proper(e) ==
    /\ e \in Entries
    /\ e.tier = TierOf(e.num)
    /\ e.num \in Known => e.prefix = "D" /\ e.rev > maxRev[e.num]

\* Drafts of known numbers are proper entries, if their tier is the right one.
LEMMA DraftsProper ==
    ASSUME TypeOK, NEW nums \in SUBSET Known, NEW tier, NEW depth \in Nat,
           \A n \in nums : n \in Nat /\ tier[n] = TierOf(n),
           NEW e \in NextDrafts(tier, nums, depth)
    PROVE  Proper(e)
<1>1. PICK n \in nums, k \in 1 .. depth : e = Entry(tier[n], "D", n, maxRev[n] + k)
  BY DEF NextDrafts
<1>2. maxRev[n] \in Nat
  BY <1>1, SettingsAssumption DEF TypeOK, Known, Unknown
<1>3. TierOf(n) \in {"watchlist", "frontier", "recent", "cold"}
  BY DEF TierOf, TierLabel
<1>4. maxRev[n] + k \in Nat /\ maxRev[n] + k > maxRev[n]
  BY <1>2
<1> HIDE DEF TypeOK
<1> QED
  BY <1>1, <1>3, <1>4 DEF Proper, Entry, Entries

\* So are the first revisions of unknown ones.
LEMMA GapsProper ==
    ASSUME NEW nums, NEW tier, nums \cap Known = {},
           \A n \in nums : n \in Nat /\ tier = TierOf(n),
           NEW e \in GapFiles(tier, nums)
    PROVE  Proper(e)
<1>1. PICK x \in ProbePrefixes, n \in nums, r \in 0 .. GapMaxRev : e = Entry(tier, x, n, r)
  BY DEF GapFiles
<1>2. r \in Nat /\ n \notin Known
  BY <1>1, SettingsAssumption
<1>3. TierOf(n) \in {"watchlist", "frontier", "recent", "cold"}
  BY DEF TierOf, TierLabel
<1> QED
  BY <1>1, <1>2, <1>3 DEF Proper, Entry, Entries

\* The list has proper entries only.
LEMMA ListProper ==
    ASSUME TypeOK, IsFiniteSet(discovered), NEW e \in HotList \cup ColdSlice
    PROVE  Proper(e)
<1>1. hot \subseteq Nat /\ Known \subseteq Nat /\ HotDepth \in Nat /\ ColdDepth \in Nat
  BY SettingsAssumption DEF TypeOK, Known, Num
<1>2. CASE e \in HotList
  <2> DEFINE tier == [n \in hot |-> TierLabel(n, FrontierRange)]
  <2>1. e \in NextDrafts(tier, hot \cap Known, HotDepth) \cup GapFiles("frontier", hot \ Known)
    BY <1>2 DEF HotList
  <2>2. \A n \in hot \cap Known : n \in Nat /\ tier[n] = TierOf(n)
    BY <1>1 DEF TierOf
  <2>3. \A n \in hot \ Known : n \in Nat /\ "frontier" = TierOf(n)
    BY <1>1 DEF TierOf
  <2> HIDE DEF tier
  <2>4. CASE e \in NextDrafts(tier, hot \cap Known, HotDepth)
    BY <1>1, <2>2, <2>4, DraftsProper
  <2>5. CASE e \in GapFiles("frontier", hot \ Known)
    BY <2>3, <2>5, GapsProper
  <2> QED
    BY <2>1, <2>4, <2>5
<1>3. CASE e \in ColdSlice
  <2> DEFINE slice == {n \in (Known \cup (1 .. Frontier)) \ hot :
                          n % Divisor = (cycle - 1) % Divisor}
             tier == [n \in slice |-> "cold"]
  <2>1. e \in NextDrafts(tier, slice \cap Known, ColdDepth) \cup GapFiles("cold", slice \ Known)
    BY <1>3 DEF ColdSlice
  <2>2. \A n \in slice : n \in Nat /\ tier[n] = TierOf(n) /\ "cold" = TierOf(n)
    BY <1>1, FrontierNumbers DEF TierOf
  <2> HIDE DEF slice, tier
  <2>3. CASE e \in NextDrafts(tier, slice \cap Known, ColdDepth)
    BY <1>1, <2>2, <2>3, DraftsProper
  <2>4. CASE e \in GapFiles("cold", slice \ Known)
    BY <2>2, <2>4, GapsProper
  <2> QED
    BY <2>1, <2>3, <2>4
<1> QED
  BY <1>2, <1>3

-----------------------------------------------------------------------------
(* Types, and the list *)

\* The invariant: what is discovered stays finite, and nothing is on the list but
\* while it is probed.  (Tiers are right when the list is built; after that a
\* number may get onto a watchlist, or off it.)
ListInv ==
    /\ TypeOK
    /\ IsFiniteSet(discovered)
    /\ pc # "built" => list = {}
    /\ NoUrlTwice
    /\ NothingPublishedProbed

\* A number that is published, discovered, watched or the reverse.
LEMMA WorldKeepsList ==
    ASSUME ListInv, NEW n, NEW rev, \/ Download(n, rev) /\ n \in Num /\ rev \in Unknown .. MaxRev
                                    \/ Quieten(n)
                                    \/ Discover(n) /\ n \in Discoverable
                                    \/ Watch(n) /\ n \in Watchable
                                    \/ Unwatch(n)
    PROVE  ListInv'
<1> USE DEF ListInv
<1>1. CASE Download(n, rev) /\ n \in Num /\ rev \in Unknown .. MaxRev
  <2>1. /\ maxRev' = [maxRev EXCEPT ![n] = rev] /\ list = {}
        /\ active' = IF rev > maxRev[n] THEN active \cup {n}
                     ELSE IF rev = Unknown THEN active \ {n}
                     ELSE active
        /\ UNCHANGED <<discovered, watched, cycle, pc, hot, list, unprobed>>
    BY <1>1 DEF Download
  <2>2. maxRev[n] \in Unknown .. MaxRev /\ MaxRev \in Nat /\ rev \in Unknown .. MaxRev /\ n \in Num
    BY <1>1, SettingsAssumption DEF TypeOK
  <2>3. maxRev' \in [Num -> Unknown .. MaxRev]
    BY <2>1, <2>2 DEF TypeOK
  <2>4. \A m \in Num : maxRev'[m] = IF m = n THEN rev ELSE maxRev[m]
    BY <2>1 DEF TypeOK
  <2>5. active' \subseteq Known'
    BY <2>1, <2>2, <2>4 DEF TypeOK, Known, Unknown
  <2>6. TypeOK'
    BY <2>1, <2>3, <2>5 DEF TypeOK
  <2> QED
    BY <2>1, <2>6 DEF NoUrlTwice, NothingPublishedProbed
<1>2. CASE Quieten(n)
  BY <1>2 DEF Quieten, TypeOK, Known, NoUrlTwice, NothingPublishedProbed
<1>3. CASE Discover(n) /\ n \in Discoverable
  <2>1. IsFiniteSet(discovered')
    BY <1>3, FS_AddElement DEF Discover
  <2> QED
    BY <1>3, <2>1 DEF Discover, TypeOK, Known, NoUrlTwice, NothingPublishedProbed
<1>4. CASE (Watch(n) /\ n \in Watchable) \/ Unwatch(n)
  BY <1>4 DEF Watch, Unwatch, TypeOK, Known, NoUrlTwice, NothingPublishedProbed
<1> QED
  BY <1>1, <1>2, <1>3, <1>4

\* The steps of a cycle.
LEMMA CycleKeepsList ==
    ASSUME ListInv, CycleStep
    PROVE  ListInv'
<1> USE DEF ListInv
<1>1. CASE ReadHotNumbers
  <2>1. cycle' \in 0 .. Divisor
    BY <1>1, SettingsAssumption DEF ReadHotNumbers, TypeOK
  <2>2. hot' \subseteq Nat
    <3>1. watched \subseteq Nat /\ active \subseteq Nat
      BY SettingsAssumption DEF TypeOK, Known, Num
    <3> QED
      BY <1>1, <3>1, FrontierNumbers DEF ReadHotNumbers
  <2> QED
    BY <1>1, <2>1, <2>2 DEF ReadHotNumbers, TypeOK, Known, NoUrlTwice, NothingPublishedProbed
<1>2. CASE BuildList
  <2>1. /\ list' = HotList \cup ColdSlice /\ pc' = "built"
        /\ UNCHANGED <<maxRev, active, discovered, watched, cycle, hot, unprobed>>
    BY <1>2 DEF BuildList
  <2>2. \A e \in list' : Proper(e)
    BY <2>1, ListProper
  <2>3. TypeOK'
    BY <2>1, <2>2 DEF TypeOK, Known, Proper, Entries
  <2>4. NothingPublishedProbed'
    BY <2>1, <2>2 DEF NothingPublishedProbed, Known, Proper
  <2>5. NoUrlTwice'
    <3> SUFFICES ASSUME NEW e \in list', NEW f \in list',
                        e.prefix = f.prefix, e.num = f.num, e.rev = f.rev
                 PROVE  e = f
      BY DEF NoUrlTwice
    <3>1. e \in Entries /\ f \in Entries /\ e.tier = f.tier
      BY <2>2 DEF Proper
    <3> QED
      BY <3>1 DEF Entries
  <2> QED
    BY <2>1, <2>3, <2>4, <2>5
<1>3. CASE EndCycle
  <2>1. unprobed' \in [Num -> 0 .. Divisor + 1]
    <3>1. \A n \in Num : unprobed[n] \in 0 .. Divisor + 1 /\ Divisor \in Nat
      BY SettingsAssumption DEF TypeOK
    <3>2. \A n \in Num : unprobed[n] <= Divisor => unprobed[n] + 1 \in 0 .. Divisor + 1
      BY <3>1
    <3>3. 0 \in 0 .. Divisor + 1
      BY SettingsAssumption
    <3> QED
      BY <1>3, <3>1, <3>2, <3>3 DEF EndCycle
  <2> QED
    BY <1>3, <2>1 DEF EndCycle, TypeOK, Known, NoUrlTwice, NothingPublishedProbed
<1>4. CASE FailCycle \/ Restart
  <2>1. 0 \in 0 .. Divisor + 1 /\ 0 \in 0 .. Divisor
    BY SettingsAssumption
  <2> QED
    BY <1>4, <2>1 DEF FailCycle, Restart, TypeOK, Known, NoUrlTwice, NothingPublishedProbed
<1> QED
  BY <1>1, <1>2, <1>3, <1>4 DEF CycleStep

\* The invariant holds.
LEMMA ListHolds == Spec => []ListInv
<1>1. Init => ListInv
  <2> SUFFICES ASSUME Init PROVE ListInv
    OBVIOUS
  <2>1. 0 \in 0 .. Divisor + 1 /\ 0 \in 0 .. Divisor /\ Unknown \in Unknown .. MaxRev
    BY SettingsAssumption DEF Unknown
  <2> QED
    BY <2>1, FS_EmptySet DEF Init, ListInv, TypeOK, NoUrlTwice, NothingPublishedProbed
<1>2. ListInv /\ [Next]_vars => ListInv'
  <2>1. CASE UNCHANGED vars
    BY <2>1 DEF vars, ListInv, TypeOK, Known, NoUrlTwice, NothingPublishedProbed
  <2>2. CASE Next
    <3>1. CASE CycleStep
      BY <3>1, CycleKeepsList
    <3>2. ASSUME NEW n, NEW rev, \/ Download(n, rev) /\ n \in Num /\ rev \in Unknown .. MaxRev
                                 \/ Quieten(n)
                                 \/ Discover(n) /\ n \in Discoverable
                                 \/ Watch(n) /\ n \in Watchable
                                 \/ Unwatch(n)
          PROVE  ListInv => ListInv'
      BY <3>2, WorldKeepsList
    <3> QED
      BY <2>2, <3>1, <3>2 DEF Next
  <2> QED
    BY <2>1, <2>2
<1> QED
  BY <1>1, <1>2, PTL DEF Spec

\* Types: every number on a list, and the frontier it comes from, is one, whatever
\* window and ranges are configured.
THEOREM TypeCorrect == Spec => []TypeOK
BY ListHolds, PTL DEF ListInv

\* No URL is probed twice in a cycle, also when watchlists change while its list
\* is built.
THEOREM UrlsAreDistinct == Spec => []NoUrlTwice
BY ListHolds, PTL DEF ListInv

\* What is published is not probed: of a number in the index only later drafts.
THEOREM OnlyUnpublishedListed == Spec => []NothingPublishedProbed
BY ListHolds, PTL DEF ListInv

\* The frontier is the top of the topmost cluster, or the lowest number without one.
FrontierInv ==
    /\ Seen \in SUBSET Nat
    /\ \A n \in Seen : n > Frontier => ~ CloseBelow(Seen, n)
    /\ Seen # {} => Frontier \in Seen /\ (CloseBelow(Seen, Frontier) \/ \A n \in Seen : n >= Frontier)

\* For any numbers and threshold, once there is a cluster the frontier moves up only,
\* and only to a new number or one that a new number is close below.
THEOREM StraysAreIgnored == Spec => FrontierSteady
<1> DEFINE Clustered == \E n \in Seen : CloseBelow(Seen, n)
           Steady == Seen \subseteq Seen' /\ Seen # Seen' /\ Clustered
                       => /\ Frontier' >= Frontier
                          /\ Frontier' # Frontier =>
                                /\ CloseBelow(Seen', Frontier')
                                /\ Frontier' \notin Seen \/ CloseBelow(Seen' \ Seen, Frontier')
<1>1. ListInv => FrontierInv
  <2> SUFFICES ASSUME ListInv PROVE FrontierInv
    OBVIOUS
  <2>1. Seen \in SUBSET Nat /\ IsFiniteSet(Seen)
    BY FrontierNumbers DEF ListInv
  <2> QED
    BY <2>1, FrontierFound DEF FrontierInv, Frontier
<1>2. FrontierInv /\ FrontierInv' => Steady
  <2> SUFFICES ASSUME FrontierInv, FrontierInv', Seen \subseteq Seen', Seen # Seen', Clustered
               PROVE  /\ Frontier' >= Frontier
                      /\ Frontier' # Frontier =>
                            /\ CloseBelow(Seen', Frontier')
                            /\ Frontier' \notin Seen \/ CloseBelow(Seen' \ Seen, Frontier')
    OBVIOUS
  <2> DEFINE s == Seen
             t == Seen'
             f == Frontier
             g == Frontier'
  <2>1. /\ s \in SUBSET Nat /\ s # {} /\ f \in s
        /\ \A n \in s : n > f => ~ CloseBelow(s, n)
        /\ CloseBelow(s, f) \/ \A n \in s : n >= f
        /\ \E n \in s : CloseBelow(s, n)
    BY DEF FrontierInv
  <2>2. /\ t \in SUBSET Nat /\ g \in t
        /\ \A n \in t : n > g => ~ CloseBelow(t, n)
        /\ CloseBelow(t, g) \/ \A n \in t : n >= g
    BY <2>1 DEF FrontierInv, CloseBelow
  <2>3. s \subseteq t
    OBVIOUS
  <2> HIDE DEF s, t, f, g
  <2>4. CloseBelow(s, f)
    <3> SUFFICES ASSUME \A n \in s : n >= f PROVE CloseBelow(s, f)
      BY <2>1
    <3>1. PICK n \in s : CloseBelow(s, n)
      BY <2>1
    <3>2. n = f
      BY <2>1, <3>1
    <3> QED
      BY <3>1, <3>2
  <2>5. CloseBelow(t, f) /\ f \in t
    BY <2>1, <2>3, <2>4 DEF CloseBelow
  <2>6. g >= f
    BY <2>1, <2>2, <2>5
  <2>7. ASSUME g # f
        PROVE  CloseBelow(t, g) /\ (g \notin s \/ CloseBelow(t \ s, g))
    <3>1. CloseBelow(t, g)
      BY <2>1, <2>2, <2>5, <2>6, <2>7
    <3>2. ASSUME g \in s
          PROVE  CloseBelow(t \ s, g)
      <4>1. ~ CloseBelow(s, g)
        BY <2>1, <2>2, <2>6, <2>7, <3>2
      <4> QED
        BY <3>1, <4>1 DEF CloseBelow
    <3> QED
      BY <3>1, <3>2
  <2> QED
    BY <2>6, <2>7 DEF s, t, f, g
<1>3. Steady => [Steady]_vars
  OBVIOUS
<1> QED
  BY <1>1, <1>2, ListHolds, PTL DEF FrontierSteady

-----------------------------------------------------------------------------
(* The sweep *)

\* With these settings every number that is looked at has a URL to probe.
ProbesAll == HotDepth > 0 /\ ColdDepth > 0 /\ ProbePrefixes # {}

\* The slice of a number in a round of Divisor cycles.
Slice(n) == n % Divisor

LEMMA SliceIsBelowDivisor ==
    /\ \A n \in Nat : Slice(n) \in 0 .. Divisor - 1
    /\ \A c \in 0 .. Divisor - 1 : c % Divisor = c
    /\ Divisor % Divisor = 0
    /\ Divisor \in Nat \ {0}
BY SettingsAssumption DEF Slice

\* How many cycles ago the slice was probed when cycle c has ended.
Ago(c, slice) == IF slice < c THEN c - 1 - slice ELSE c - 1 - slice + Divisor

\* Whether a number is probed in this cycle.
OnList(n) == \E e \in list : e.num = n

\* No number has waited longer than its slice.  While a cycle is under way, the
\* numbers of its slice are about to be probed, and the others have one cycle less
\* behind them than they will have in the end.
SweepInv ==
    /\ \A n \in Num :
          IF pc = "idle" THEN unprobed[n] <= Ago(cycle, Slice(n))
          ELSE IF Slice(n) = cycle - 1 THEN unprobed[n] < Divisor
          ELSE unprobed[n] < Ago(cycle, Slice(n))
    /\ pc # "idle" => cycle \in 1 .. Divisor
    /\ pc = "built" => \A n \in Num \cap Covered : Slice(n) = cycle - 1 => OnList(n)

\* Every hot number, and every other one of the cycle's slice, is on the list.
LEMMA SliceListed ==
    ASSUME ProbesAll, TypeOK, IsFiniteSet(discovered), cycle \in 1 .. Divisor,
           NEW n \in Num \cap Covered, Slice(n) = cycle - 1
    PROVE  \E e \in HotList \cup ColdSlice : e.num = n
<1>1. PICK x \in ProbePrefixes : TRUE
  BY DEF ProbesAll
<1>2. 1 \in 1 .. HotDepth /\ 1 \in 1 .. ColdDepth /\ 0 \in 0 .. GapMaxRev
  BY SettingsAssumption DEF ProbesAll
<1>3. CASE n \in hot /\ n \in Known
  <2> DEFINE tier == [m \in hot |-> TierLabel(m, FrontierRange)]
  <2>1. Entry(tier[n], "D", n, maxRev[n] + 1) \in HotList
    BY <1>2, <1>3 DEF HotList, NextDrafts
  <2> QED
    BY <2>1 DEF Entry
<1>4. CASE n \in hot /\ n \notin Known
  <2>1. Entry("frontier", x, n, 0) \in HotList
    BY <1>1, <1>2, <1>4 DEF HotList, GapFiles
  <2> QED
    BY <2>1 DEF Entry
<1>5. CASE n \notin hot
  <2> DEFINE slice == {m \in (Known \cup (1 .. Frontier)) \ hot :
                          m % Divisor = (cycle - 1) % Divisor}
             tier == [m \in slice |-> "cold"]
  <2>1. (cycle - 1) % Divisor = cycle - 1
    BY SliceIsBelowDivisor
  <2>2. n \in slice
    BY <1>5, <2>1 DEF Covered, Slice
  <2>3. ColdSlice = NextDrafts(tier, slice \cap Known, ColdDepth) \cup GapFiles("cold", slice \ Known)
    BY DEF ColdSlice
  <2> HIDE DEF slice, tier
  <2>4. CASE n \in Known
    <3>1. Entry(tier[n], "D", n, maxRev[n] + 1) \in ColdSlice
      BY <1>2, <2>2, <2>3, <2>4 DEF NextDrafts
    <3> QED
      BY <3>1 DEF Entry
  <2>5. CASE n \notin Known
    <3>1. Entry("cold", x, n, 0) \in ColdSlice
      BY <1>1, <1>2, <2>2, <2>3, <2>5 DEF GapFiles
    <3> QED
      BY <3>1 DEF Entry
  <2> QED
    BY <2>4, <2>5
<1> QED
  BY <1>3, <1>4, <1>5

\* The numbers the sweep counts with.
LEMMA SweepNumbers ==
    ASSUME TypeOK
    PROVE  /\ cycle \in 0 .. Divisor
           /\ \A n \in Num : Slice(n) \in 0 .. Divisor - 1 /\ unprobed[n] \in Nat
           /\ Divisor \in Nat \ {0}
<1>1. Num \subseteq Nat
  BY DEF Num
<1>2. \A n \in Num : unprobed[n] \in Nat
  BY SettingsAssumption DEF TypeOK
<1> QED
  BY <1>1, <1>2, SliceIsBelowDivisor DEF TypeOK

\* Every step keeps the invariant.
LEMMA SweepStep ==
    ASSUME ProbesAll, ListInv, SweepInv, [Next]_vars
    PROVE  SweepInv'
<1> USE SweepNumbers DEF ListInv, Ago
<1>1. CASE ReadHotNumbers
  <2>1. /\ pc = "idle" /\ pc' = "hot_read" /\ unprobed' = unprobed
        /\ cycle' = (cycle % Divisor) + 1
    BY <1>1 DEF ReadHotNumbers
  <2>2. cycle' = IF cycle = Divisor THEN 1 ELSE cycle + 1
    <3>1. CASE cycle = Divisor
      BY <2>1, <3>1, SliceIsBelowDivisor
    <3>2. CASE cycle # Divisor
      <4>1. cycle \in 0 .. Divisor - 1
        BY <3>2
      <4> QED
        BY <2>1, <3>2, <4>1, SliceIsBelowDivisor
    <3> QED
      BY <3>1, <3>2
  <2>3. \A n \in Num : Slice(n)' = Slice(n)
    BY DEF Slice
  <2>4. ASSUME NEW n \in Num
        PROVE  IF Slice(n) = cycle' - 1 THEN unprobed[n] < Divisor
               ELSE unprobed[n] < Ago(cycle', Slice(n))
    <3>1. unprobed[n] <= Ago(cycle, Slice(n))
      BY <2>1 DEF SweepInv
    <3> QED
      BY <2>2, <3>1
  <2> QED
    BY <2>1, <2>2, <2>4 DEF SweepInv, Slice
<1>2. CASE BuildList
  <2>1. /\ pc = "hot_read" /\ pc' = "built" /\ list' = HotList \cup ColdSlice
        /\ UNCHANGED <<cycle, unprobed, maxRev, discovered>>
    BY <1>2 DEF BuildList
  <2>2. cycle \in 1 .. Divisor
    BY <2>1 DEF SweepInv
  <2>3. ASSUME NEW n \in Num \cap Covered, Slice(n) = cycle - 1
        PROVE  \E e \in list' : e.num = n
    BY <2>1, <2>2, <2>3, SliceListed
  <2>4. Covered' = Covered
    BY <2>1 DEF Covered, Known, Frontier, Seen
  <2> QED
    BY <2>1, <2>2, <2>3, <2>4 DEF SweepInv, Slice, OnList
<1>3. CASE EndCycle
  <2>1. pc = "built" /\ pc' = "idle" /\ cycle' = cycle /\ cycle \in 1 .. Divisor
    BY <1>3 DEF EndCycle, SweepInv
  <2>2. ASSUME NEW n \in Num
        PROVE  unprobed'[n] <= Ago(cycle, Slice(n))
    <3>1. Ago(cycle, Slice(n)) >= 0
      BY <2>1
    <3>2. CASE n \notin Covered \/ OnList(n)
      <4>1. unprobed'[n] = 0
        BY <1>3, <3>2 DEF EndCycle, OnList
      <4> QED
        BY <3>1, <4>1
    <3>3. CASE n \in Covered /\ ~ OnList(n)
      <4>1. Slice(n) # cycle - 1
        BY <2>1, <3>3 DEF SweepInv
      <4>2. unprobed[n] < Ago(cycle, Slice(n))
        BY <2>1, <4>1 DEF SweepInv
      <4>3. unprobed'[n] = unprobed[n] + 1 \/ unprobed'[n] = unprobed[n]
        BY <1>3, <3>3 DEF EndCycle, OnList
      <4> QED
        BY <2>1, <4>2, <4>3
    <3> QED
      BY <3>2, <3>3
  <2> QED
    BY <2>1, <2>2 DEF SweepInv, Slice
<1>4. CASE FailCycle \/ Restart
  <2>1. pc' = "idle" /\ unprobed' = [n \in Num |-> 0] /\ cycle' \in {0, cycle}
    BY <1>4 DEF FailCycle, Restart
  <2>2. \A n \in Num : unprobed'[n] <= Ago(cycle', Slice(n))
    BY <2>1
  <2> QED
    BY <2>1, <2>2 DEF SweepInv, Slice
<1>5. ASSUME NEW n, (\E rev : Download(n, rev)) \/ Quieten(n) \/ Discover(n)
      PROVE  SweepInv'
  <2>1. pc = "idle" /\ UNCHANGED <<cycle, pc, unprobed>>
    BY <1>5 DEF Download, Quieten, Discover
  <2> QED
    BY <2>1 DEF SweepInv, Slice
<1>6. ASSUME (\E n : Watch(n) \/ Unwatch(n)) \/ UNCHANGED vars
      PROVE  SweepInv'
  <2>1. UNCHANGED <<maxRev, discovered, cycle, pc, list, unprobed>>
    BY <1>6 DEF Watch, Unwatch, vars
  <2>2. Covered' = Covered
    BY <2>1 DEF Covered, Known, Frontier, Seen
  <2> QED
    BY <2>1, <2>2 DEF SweepInv, Slice, OnList
<1> QED
  BY <1>1, <1>2, <1>3, <1>4, <1>5, <1>6 DEF Next, CycleStep

\* The sweep is complete for any divisor, however numbers move between the hot set,
\* the cold pool and the index, provided every number has a URL to probe.
THEOREM SweepIsComplete ==
    ASSUME ProbesAll
    PROVE  Spec => []SweepComplete
<1>1. Init => SweepInv
  <2> SUFFICES ASSUME Init PROVE SweepInv
    OBVIOUS
  <2>1. \A n \in Num : Slice(n) \in 0 .. Divisor - 1 /\ Divisor \in Nat
    BY SliceIsBelowDivisor DEF Num
  <2> QED
    BY <2>1 DEF Init, SweepInv, Ago
<1>2. ListInv /\ SweepInv => SweepComplete
  <2> SUFFICES ASSUME ListInv, SweepInv, NEW n \in Num
               PROVE  unprobed[n] < Divisor
    BY DEF SweepComplete
  <2> QED
    BY SweepNumbers DEF ListInv, SweepInv, Ago
<1>3. ListInv /\ SweepInv /\ [Next]_vars => SweepInv'
  BY SweepStep
<1> QED
  BY <1>1, <1>2, <1>3, ListHolds, PTL DEF Spec
=============================================================================
