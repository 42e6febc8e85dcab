------------------------- MODULE PrefixCacheProofs -------------------------
(***************************************************************************)
(* The counters of the prefix cache are exact and the result of every      *)
(* update is the one of RFC 6811, in whatever order updates and ROAs come  *)
(* and go, for any tree of prefixes, any ROAs and any updates - until a    *)
(* new prefix counts a repeated ROA once.                                  *)
(***************************************************************************)
EXTENDS PrefixCache, FiniteSetTheorems, WellFoundedInduction, TLAPS

-----------------------------------------------------------------------------
(***************************************************************************)
(* Prefixes and ROAs.                                                      *)
(***************************************************************************)

\* The ROAs at and above a prefix, those that cover it with their max length,
\* and those that make an update valid, whether they are installed or not.
Reach(p) == {r \in Roa : Entry[r].prefix = p \/ Entry[r].prefix \in Above[p]}
Count(p) == {r \in Reach(p) : Covers(r, p)}
Match(u) == {r \in Count(PrefixOf(u)) : Entry[r].as = Route[u].as}

LEMMA EntryIs ==
  ASSUME NEW r \in Roa
  PROVE  /\ Entry[r].prefix \in Prefix /\ Entry[r].maxLen \in Nat
         /\ Length[Entry[r].prefix] \in Nat /\ Length[Entry[r].prefix] <= Entry[r].maxLen
<1>1. Entry[r] \in [prefix : Prefix, as : AS, maxLen : Nat]
  BY PrefixCacheAssumption
<1>2. Entry[r].prefix \in Prefix /\ Entry[r].maxLen \in Nat
  BY <1>1
<1>3. Length[Entry[r].prefix] \in Nat
  BY <1>2, PrefixCacheAssumption
<1>4. Entry[r].maxLen >= Length[Entry[r].prefix]
  BY PrefixCacheAssumption
<1> QED BY <1>2, <1>3, <1>4

LEMMA RouteIs == ASSUME NEW u \in Update PROVE PrefixOf(u) \in Prefix
<1>1. Route[u] \in [prefix : Prefix, as : AS]
  BY PrefixCacheAssumption
<1> QED BY <1>1 DEF PrefixOf

LEMMA AboveIs ==
  ASSUME NEW p \in Prefix, NEW q \in Above[p]
  PROVE  /\ q \in Prefix /\ Length[q] \in Nat /\ Length[p] \in Nat
         /\ Length[q] < Length[p] /\ Above[q] \subseteq Above[p]
         /\ p \notin Above[q] /\ p # q
<1>1. q \in Prefix
  BY PrefixCacheAssumption
<1>2. Length[q] \in Nat /\ Length[p] \in Nat
  BY <1>1, PrefixCacheAssumption
<1>3. Length[q] < Length[p] /\ Above[q] \subseteq Above[p]
  BY PrefixCacheAssumption
<1>4. p \in Above[q] => Length[p] < Length[q]
  BY <1>1, PrefixCacheAssumption
<1> QED BY <1>1, <1>2, <1>3, <1>4

\* The prefixes above a prefix form a chain.
LEMMA AboveIsChain ==
  ASSUME NEW p \in Prefix, NEW q \in Above[p], NEW x \in Above[p], Length[x] <= Length[q]
  PROVE  x = q \/ x \in Above[q]
<1>1. q = x \/ q \in Above[x] \/ x \in Above[q]
  BY PrefixCacheAssumption
<1>2. q \in Prefix /\ x \in Prefix
  BY AboveIs
<1>3. q \in Above[x] => Length[q] < Length[x] /\ Length[q] \in Nat /\ Length[x] \in Nat
  BY <1>2, AboveIs
<1> QED BY <1>1, <1>3

\* Every non-empty set of natural numbers has a least element.
LEMMA LeastNumber ==
  ASSUME NEW S \in SUBSET Nat, S # {}
  PROVE  \E x \in S : \A y \in S : x <= y
<1> DEFINE Less == {s \in Nat \X Nat : s[1] < s[2]}
<1>1. IsWellFoundedOn(Less, Nat)
  <2>1. Less \cap (Nat \X Nat) \subseteq OpToRel(<, Nat)
    BY DEF OpToRel
  <2> QED BY <2>1, NatLessThanWellFounded, IsWellFoundedOnSubrelation
<1> HIDE DEF Less
<1>2. PICK x \in S : \A y \in S : ~(<<y, x>> \in Less)
  BY <1>1, WFMin
<1>3. ASSUME NEW y \in S PROVE x <= y
  <2>1. x \in Nat /\ y \in Nat /\ ~(<<y, x>> \in Less)
    BY <1>2
  <2>2. <<y, x>> \in Less <=> y < x
    BY <2>1 DEF Less
  <2> QED BY <2>1, <2>2
<1> QED BY <1>2, <1>3

\* The closest prefix of a chain is below all others.
LEMMA ClosestIs ==
  ASSUME NEW p \in Prefix, NEW C \in SUBSET Above[p], C # {}
  PROVE  /\ Closest(C) \in C
         /\ \A x \in C : x = Closest(C) \/ x \in Above[Closest(C)]
<1> DEFINE D == {n \in Nat : \E x \in C : n = Length[p] - Length[x]}
<1>1. \A x \in C : Length[x] \in Nat /\ Length[p] \in Nat /\ Length[p] - Length[x] \in Nat
  BY AboveIs
<1>2. D # {} /\ D \in SUBSET Nat
  BY <1>1
<1>3. PICK n \in D : \A m \in D : n <= m
  <2> HIDE DEF D
  <2> QED BY <1>2, LeastNumber
<1>4. PICK c \in C : n = Length[p] - Length[c]
  BY <1>3
<1>5. \A x \in C : Length[x] <= Length[c]
  <2> SUFFICES ASSUME NEW x \in C PROVE Length[x] <= Length[c]
    OBVIOUS
  <2>1. Length[p] - Length[x] \in D
    BY <1>1
  <2>2. Length[p] - Length[c] <= Length[p] - Length[x]
    BY <2>1, <1>3, <1>4
  <2> QED BY <2>2, <1>1
<1>6. Closest(C) \in C /\ \A x \in C : Length[x] <= Length[Closest(C)]
  BY <1>4, <1>5 DEF Closest
<1>7. \A x \in C : x \in Above[p]
  OBVIOUS
<1> QED BY <1>6, <1>7, AboveIsChain

\* A ROA that reaches a prefix reaches all below, and one that covers a prefix
\* covers what is between.
LEMMA ReachIs ==
  ASSUME NEW p \in Prefix, NEW q \in Above[p]
  PROVE  /\ Reach(q) \subseteq Reach(p)
         /\ \A r \in Count(p) : r \in Reach(q) => r \in Count(q)
         /\ \A r \in Roa : Covers(r, p) => Covers(r, q)
<1>1. Length[q] \in Nat /\ Length[p] \in Nat /\ Length[q] < Length[p] /\ Above[q] \subseteq Above[p]
  BY AboveIs
<1>2. \A r \in Roa : Covers(r, p) => Covers(r, q)
  BY <1>1, EntryIs DEF Covers
<1> QED BY <1>1, <1>2 DEF Reach, Count

\* A ROA covers its own prefix.
LEMMA RoaCoversOwn ==
  ASSUME NEW r \in Roa
  PROVE  r \in Count(Entry[r].prefix)
BY EntryIs DEF Count, Reach, Covers

LEMMA CountReach == ASSUME NEW p PROVE Count(p) \subseteq Reach(p) /\ Reach(p) \subseteq Roa
BY DEF Count, Reach

LEMMA MatchCount == ASSUME NEW u PROVE Match(u) \subseteq Count(PrefixOf(u)) /\ Match(u) \subseteq Roa
BY CountReach DEF Match

-----------------------------------------------------------------------------
(***************************************************************************)
(* The number of announcements.                                            *)
(***************************************************************************)
CountsAreBounded == roaCount \in [Roa -> Nat] /\ adds \in Nat /\ \A r \in Roa : roaCount[r] <= adds

LEMMA AnnouncementsAre ==
  ASSUME CountsAreBounded, NEW S \in SUBSET Roa, NEW x
  PROVE  x \in Announcements(S) <=> \E r \in S : \E i \in 1 .. roaCount[r] : x = <<r, i>>
BY DEF Announcements

LEMMA TotalIs ==
  ASSUME CountsAreBounded, NEW S \in SUBSET Roa
  PROVE  /\ IsFiniteSet(Announcements(S)) /\ Total(S) \in Nat
         /\ Total(S) <= Total(Roa)
         /\ Total(S) = 0 <=> S \cap Installed = {}
         /\ Total(S \cap Installed) = Total(S)
<1>1. IsFiniteSet(Roa \X (1 .. adds))
  <2>1. IsFiniteSet(1 .. adds)
    BY FS_Interval DEF CountsAreBounded
  <2> QED BY <2>1, PrefixCacheAssumption, FS_Product
<1>2. Announcements(Roa) \subseteq Roa \X (1 .. adds)
  <2> SUFFICES ASSUME NEW r \in Roa, NEW i \in 1 .. roaCount[r] PROVE <<r, i>> \in Roa \X (1 .. adds)
    BY AnnouncementsAre
  <2>1. roaCount[r] \in Nat /\ roaCount[r] <= adds /\ adds \in Nat
    BY DEF CountsAreBounded
  <2>2. i \in 1 .. adds
    BY <2>1
  <2> QED BY <2>2
<1>3. IsFiniteSet(Announcements(Roa))
  BY <1>1, <1>2, FS_Subset
<1>4. Announcements(S) \subseteq Announcements(Roa)
  BY DEF Announcements
<1>5. IsFiniteSet(Announcements(S)) /\ Total(S) <= Total(Roa)
  BY <1>3, <1>4, FS_Subset DEF Total
<1>6. Total(S) \in Nat
  BY <1>5, FS_CardinalityType DEF Total
<1>7. Announcements(S) = {} <=> S \cap Installed = {}
  <2>1. ASSUME NEW r \in S \cap Installed PROVE <<r, 1>> \in Announcements(S)
    <3>1. roaCount[r] \in Nat /\ roaCount[r] > 0
      BY <2>1 DEF CountsAreBounded, Installed
    <3>2. 1 \in 1 .. roaCount[r]
      BY <3>1
    <3> QED BY <3>2, AnnouncementsAre
  <2>2. ASSUME NEW x \in Announcements(S) PROVE S \cap Installed # {}
    <3>1. PICK r \in S : \E i \in 1 .. roaCount[r] : x = <<r, i>>
      BY <2>2, AnnouncementsAre
    <3>2. roaCount[r] \in Nat
      BY DEF CountsAreBounded
    <3>3. roaCount[r] > 0
      BY <3>1, <3>2
    <3> QED BY <3>3 DEF Installed
  <2> QED BY <2>1, <2>2
<1>8. Announcements(S \cap Installed) = Announcements(S)
  <2>1. ASSUME NEW r \in S, NEW i \in 1 .. roaCount[r] PROVE r \in Installed
    <3>1. roaCount[r] \in Nat
      BY DEF CountsAreBounded
    <3>2. roaCount[r] > 0
      BY <3>1
    <3> QED BY <3>2 DEF Installed
  <2> QED BY <2>1 DEF Announcements
<1>9. Total(S) = 0 <=> Announcements(S) = {}
  BY <1>5, FS_EmptySet DEF Total
<1> QED BY <1>5, <1>6, <1>7, <1>8, <1>9 DEF Total

\* At least as many announcements as ROAs.
LEMMA TotalIsLarge ==
  ASSUME CountsAreBounded, NEW S \in SUBSET Installed
  PROVE  IsFiniteSet(S) /\ Cardinality(S) \in Nat /\ Cardinality(S) <= Total(Roa)
<1> DEFINE T == Announcements(Roa)
           f == [r \in S |-> <<r, 1>>]
<1>1. IsFiniteSet(T)
  BY TotalIs
<1>2. ASSUME NEW r \in S PROVE <<r, 1>> \in T
  <2>1. roaCount[r] \in Nat /\ roaCount[r] > 0 /\ r \in Roa
    BY DEF CountsAreBounded, Installed
  <2>2. 1 \in 1 .. roaCount[r]
    BY <2>1
  <2> QED BY <2>1, <2>2, AnnouncementsAre
<1> HIDE DEF T
<1>3. f \in Injection(S, T)
  BY <1>2 DEF Injection, IsInjective
<1> HIDE DEF f
<1>4. IsFiniteSet(S) /\ Cardinality(S) <= Cardinality(T)
  BY <1>1, <1>3, FS_Injection
<1> QED BY <1>4, FS_CardinalityType DEF Total, T

\* One announcement more, or one less.
LEMMA TotalAfterAdd ==
  ASSUME CountsAreBounded, NEW r \in Roa, roaCount' = [roaCount EXCEPT ![r] = @ + 1],
         NEW S \in SUBSET Roa
  PROVE  Total(S)' = IF r \in S THEN Total(S) + 1 ELSE Total(S)
<1> DEFINE n == roaCount[r]
           x == <<r, n + 1>>
<1>1. n \in Nat /\ \A q \in Roa : roaCount'[q] = IF q = r THEN n + 1 ELSE roaCount[q]
  BY DEF CountsAreBounded
<1>2. 1 .. (n + 1) = (1 .. n) \cup {n + 1} /\ n + 1 \notin 1 .. n
  BY <1>1
<1>3. IsFiniteSet(Announcements(S))
  BY TotalIs
<1>4. CASE r \in S
  <2>1. Announcements(S)' = Announcements(S) \cup {x}
    <3>1. \A y : y \in Announcements(S)' <=> \E q \in S : \E i \in 1 .. roaCount'[q] : y = <<q, i>>
      BY DEF Announcements
    <3>2. \A y : y \in Announcements(S) <=> \E q \in S : \E i \in 1 .. roaCount[q] : y = <<q, i>>
      BY DEF Announcements
    <3>3. ASSUME NEW y PROVE y \in Announcements(S)' => y \in Announcements(S) \/ y = x
      <4> SUFFICES ASSUME NEW q \in S, NEW i \in 1 .. roaCount'[q], y = <<q, i>>
                   PROVE  y \in Announcements(S) \/ y = x
        BY <3>1
      <4>1. CASE q = r
        <5>1. i \in 1 .. n \/ i = n + 1
          BY <1>1, <1>2, <4>1
        <5> QED BY <5>1, <4>1, <3>2
      <4>2. CASE q # r
        BY <4>2, <1>1, <3>2
      <4> QED BY <4>1, <4>2
    <3>4. ASSUME NEW y PROVE y \in Announcements(S) => y \in Announcements(S)'
      <4> SUFFICES ASSUME NEW q \in S, NEW i \in 1 .. roaCount[q], y = <<q, i>>
                   PROVE  i \in 1 .. roaCount'[q]
        BY <3>1, <3>2
      <4> QED BY <1>1, <1>2
    <3>5. x \in Announcements(S)'
      <4>1. n + 1 \in 1 .. roaCount'[r]
        BY <1>1
      <4> QED BY <4>1, <3>1, <1>4
    <3> QED BY <3>3, <3>4, <3>5
  <2>2. x \notin Announcements(S)
    BY <1>2, AnnouncementsAre
  <2> HIDE DEF x
  <2> QED BY <2>1, <2>2, <1>3, <1>4, FS_AddElement DEF Total
<1>5. CASE r \notin S
  <2>1. Announcements(S)' = Announcements(S)
    BY <1>1, <1>5 DEF Announcements
  <2> QED BY <2>1, <1>5 DEF Total
<1> QED BY <1>4, <1>5

LEMMA TotalAfterDel ==
  ASSUME CountsAreBounded, NEW r \in Roa, roaCount[r] > 0, roaCount' = [roaCount EXCEPT ![r] = @ - 1],
         NEW S \in SUBSET Roa
  PROVE  Total(S)' = IF r \in S THEN Total(S) - 1 ELSE Total(S)
<1> DEFINE n == roaCount[r]
           x == <<r, n>>
<1>1. n \in Nat /\ n > 0 /\ \A q \in Roa : roaCount'[q] = IF q = r THEN n - 1 ELSE roaCount[q]
  BY DEF CountsAreBounded
<1>2. 1 .. (n - 1) = (1 .. n) \ {n} /\ n \in 1 .. n
  BY <1>1
<1>3. IsFiniteSet(Announcements(S))
  BY TotalIs
<1>4. CASE r \in S
  <2>1. Announcements(S)' = Announcements(S) \ {x}
    <3>1. \A y : y \in Announcements(S)' <=> \E q \in S : \E i \in 1 .. roaCount'[q] : y = <<q, i>>
      BY DEF Announcements
    <3>2. \A y : y \in Announcements(S) <=> \E q \in S : \E i \in 1 .. roaCount[q] : y = <<q, i>>
      BY DEF Announcements
    <3>3. ASSUME NEW y PROVE y \in Announcements(S)' => y \in Announcements(S) /\ y # x
      <4> SUFFICES ASSUME NEW q \in S, NEW i \in 1 .. roaCount'[q], y = <<q, i>>
                   PROVE  i \in 1 .. roaCount[q] /\ ~(q = r /\ i = n)
        BY <3>1, <3>2
      <4> QED BY <1>1, <1>2
    <3>4. ASSUME NEW y PROVE y \in Announcements(S) /\ y # x => y \in Announcements(S)'
      <4> SUFFICES ASSUME NEW q \in S, NEW i \in 1 .. roaCount[q], ~(q = r /\ i = n), y = <<q, i>>
                   PROVE  i \in 1 .. roaCount'[q]
        BY <3>1, <3>2
      <4> QED BY <1>1, <1>2
    <3> QED BY <3>3, <3>4
  <2>2. x \in Announcements(S)
    BY <1>2, <1>4, AnnouncementsAre
  <2> HIDE DEF x
  <2> QED BY <2>1, <2>2, <1>3, <1>4, FS_RemoveElement DEF Total
<1>5. CASE r \notin S
  <2>1. Announcements(S)' = Announcements(S)
    BY <1>1, <1>5 DEF Announcements
  <2> QED BY <2>1, <1>5 DEF Total
<1> QED BY <1>4, <1>5

-----------------------------------------------------------------------------
(***************************************************************************)
(* The actions, with names for their parts.                                *)
(***************************************************************************)
IsNew(u) == PrefixOf(u) \notin nodes
Covering(u) == MatchingRoas(PrefixOf(u), IsNew(u))
Matching(u) == {r \in Covering(u) : Entry[r].as = Route[u].as}
OwnState(u) == IF IsNew(u) THEN StateAbove(PrefixOf(u)) ELSE stateOfOther[PrefixOf(u)]

RequestEffect(u) ==
  /\ place[u] = "none" /\ (IsNew(u) \/ PrefixOf(u) \in known)
  /\ nodes' = nodes \union {PrefixOf(u)} /\ known' = known \union {PrefixOf(u)}
  /\ stateOfOther' = [stateOfOther EXCEPT ![PrefixOf(u)] = OwnState(u)]
  /\ coverage' = [coverage EXCEPT ![PrefixOf(u)] =
                    IF IsNew(u) THEN Cardinality(Covering(u)) ELSE coverage[PrefixOf(u)]]
  /\ miscounted' = (miscounted \/ (IsNew(u) /\ Total(Covering(u)) # Cardinality(Covering(u))))
  /\ roaUpdates' = [r \in Roa |-> IF r \in Matching(u) THEN roaUpdates[r] + 1 ELSE roaUpdates[r]]
  /\ roaMatch' = [roaMatch EXCEPT ![u] = Total(Matching(u))]
  /\ place' = [place EXCEPT ![u] = IF Matching(u) = {} THEN "other" ELSE "valid"]
  /\ result' = [result EXCEPT ![u] = IF Matching(u) = {} THEN OwnState(u) ELSE "valid"]
  /\ UNCHANGED <<roaCount, crashed, adds>>

LEMMA RequestIs ==
  ASSUME NEW u \in Update, RequestUpdateValidation(u)
  PROVE  RequestEffect(u)
BY DEF RequestUpdateValidation, RequestEffect, IsNew, Covering, Matching, OwnState

Base(r) == Entry[r].prefix
StateBefore(r) ==
  [stateOfOther EXCEPT ![Base(r)] = IF Base(r) \notin known THEN StateAbove(Base(r)) ELSE stateOfOther[Base(r)]]
Visited(r) == VisitedByAdd(r, StateBefore(r))
Touched(r) == {q \in Visited(r) : Covers(r, q)}
Gained(r) == Matched(r, Touched(r))
Changed(r) == {q \in Visited(r) : StateBefore(r)[q] = "notfound"}
CoverageBefore(r) ==
  [coverage EXCEPT ![Base(r)] = IF Base(r) \in known THEN coverage[Base(r)]
                                ELSE IF StateAbove(Base(r)) = "notfound" THEN 0 ELSE CheckCoverage(Base(r))]

AddEffect(r) ==
  /\ adds < MaxAdds /\ adds' = adds + 1
  /\ nodes' = nodes \union {Base(r)} /\ known' = known \union {Base(r)}
  /\ roaCount' = [roaCount EXCEPT ![r] = @ + 1]
  /\ roaUpdates' = [roaUpdates EXCEPT ![r] = @ + Cardinality(Gained(r))]
  /\ coverage' = [q \in Prefix |-> IF q \in Touched(r) THEN (CoverageBefore(r)[q] + 1) % CounterRange
                                   ELSE CoverageBefore(r)[q]]
  /\ stateOfOther' = [q \in Prefix |-> IF q \in Changed(r) THEN "invalid" ELSE StateBefore(r)[q]]
  /\ roaMatch' = [u \in Update |-> IF u \in Gained(r) THEN roaMatch[u] + 1 ELSE roaMatch[u]]
  /\ place' = [u \in Update |-> IF u \in Gained(r) THEN "valid" ELSE place[u]]
  /\ result' = [u \in Update |->
                  IF u \in Gained(r) /\ place[u] = "other" THEN "valid"
                  ELSE IF FollowsState(u, Changed(r)) THEN "invalid" ELSE result[u]]
  /\ UNCHANGED <<crashed, miscounted>>

LEMMA AddIs ==
  ASSUME NEW r \in Roa, AddROAwl(r)
  PROVE  AddEffect(r)
<1> USE DEF AddROAwl, Base, StateBefore, Visited, Touched, Gained, Changed, CoverageBefore
<1>1. /\ adds < MaxAdds /\ adds' = adds + 1
      /\ nodes' = nodes \union {Base(r)} /\ known' = known \union {Base(r)}
      /\ roaCount' = [roaCount EXCEPT ![r] = @ + 1]
      /\ UNCHANGED <<crashed, miscounted>>
  OBVIOUS
<1>2. roaUpdates' = [roaUpdates EXCEPT ![r] = @ + Cardinality(Gained(r))]
  OBVIOUS
<1>3. coverage' = [q \in Prefix |-> IF q \in Touched(r) THEN (CoverageBefore(r)[q] + 1) % CounterRange
                                    ELSE CoverageBefore(r)[q]]
  OBVIOUS
<1>4. stateOfOther' = [q \in Prefix |-> IF q \in Changed(r) THEN "invalid" ELSE StateBefore(r)[q]]
  OBVIOUS
<1>5. /\ roaMatch' = [u \in Update |-> IF u \in Gained(r) THEN roaMatch[u] + 1 ELSE roaMatch[u]]
      /\ place' = [u \in Update |-> IF u \in Gained(r) THEN "valid" ELSE place[u]]
  OBVIOUS
<1>6. result' = [u \in Update |->
                   IF u \in Gained(r) /\ place[u] = "other" THEN "valid"
                   ELSE IF FollowsState(u, Changed(r)) THEN "invalid" ELSE result[u]]
  OBVIOUS
<1> QED BY <1>1, <1>2, <1>3, <1>4, <1>5, <1>6 DEF AddEffect

\* The valid updates the ROA stands for, if it is withdrawn after a visit.
Candidates(r, visited) ==
  {u \in Update : /\ PrefixOf(u) \in visited /\ Covers(r, PrefixOf(u))
                  /\ Route[u].as = Entry[r].as /\ place[u] = "valid"}
Moved(treated) == {u \in treated : roaMatch[u] = 1}

DelEffect(r, visited, unfound, treated, lost) ==
  /\ roaCount[r] > 0
  /\ visited \subseteq Subtree(Base(r)) /\ unfound \subseteq Subtree(Base(r))
  /\ treated \subseteq Candidates(r, visited) /\ lost \subseteq treated \ Moved(treated)
  /\ RevalidateUpdates(r, visited, unfound)
  /\ coverage' = [q \in Prefix |-> IF q \in visited THEN CoverageAfter(r, q) ELSE coverage[q]]
  /\ stateOfOther' = [q \in Prefix |-> StateAfter(q, unfound)]
  /\ MayBeTreated(r, Candidates(r, visited), treated)
  /\ MayBeLost(Moved(treated), treated \ Moved(treated), lost)
  /\ roaMatch' = [u \in Update |-> IF u \in treated THEN roaMatch[u] - 1 ELSE roaMatch[u]]
  /\ place' = [u \in Update |-> IF u \in Moved(treated) THEN "other"
                                ELSE IF u \in lost THEN "lost" ELSE place[u]]
  /\ result' = [u \in Update |->
                  IF u \in Moved(treated) \/ FollowsState(u, visited)
                  THEN StateAfter(PrefixOf(u), unfound) ELSE result[u]]
  /\ roaUpdates' = [roaUpdates EXCEPT ![r] = IF roaCount[r] > 1 THEN @ ELSE 0]
  /\ roaCount' = [roaCount EXCEPT ![r] = @ - 1]
  /\ known' = IF StillUsed(Base(r), r) THEN known ELSE known \ {Base(r)}
  /\ UNCHANGED <<nodes, crashed, adds, miscounted>>

LEMMA DelIs ==
  ASSUME NEW r \in Roa, DelROAwl(r)
  PROVE  \E visited, unfound, treated, lost : DelEffect(r, visited, unfound, treated, lost)
<1>1. /\ roaCount[r] > 0
      /\ roaUpdates' = [roaUpdates EXCEPT ![r] = IF roaCount[r] > 1 THEN @ ELSE 0]
      /\ roaCount' = [roaCount EXCEPT ![r] = @ - 1]
      /\ known' = IF StillUsed(Base(r), r) THEN known ELSE known \ {Base(r)}
      /\ UNCHANGED <<nodes, crashed, adds, miscounted>>
  BY DEF DelROAwl, Base
<1>2. PICK visited \in SUBSET Subtree(Base(r)), unfound \in SUBSET Subtree(Base(r)) :
        /\ RevalidateUpdates(r, visited, unfound)
        /\ coverage' = [q \in Prefix |-> IF q \in visited THEN CoverageAfter(r, q) ELSE coverage[q]]
        /\ stateOfOther' = [q \in Prefix |-> StateAfter(q, unfound)]
        /\ \E treated \in SUBSET Candidates(r, visited) :
             /\ MayBeTreated(r, Candidates(r, visited), treated)
             /\ roaMatch' = [u \in Update |-> IF u \in treated THEN roaMatch[u] - 1 ELSE roaMatch[u]]
             /\ \E lost \in SUBSET (treated \ Moved(treated)) :
                  /\ MayBeLost(Moved(treated), treated \ Moved(treated), lost)
                  /\ place' = [u \in Update |-> IF u \in Moved(treated) THEN "other"
                                                ELSE IF u \in lost THEN "lost" ELSE place[u]]
             /\ result' = [u \in Update |->
                  IF u \in Moved(treated) \/ FollowsState(u, visited)
                  THEN StateAfter(PrefixOf(u), unfound) ELSE result[u]]
  BY DEF DelROAwl, Base, Candidates, Moved
<1>3. PICK treated \in SUBSET Candidates(r, visited) :
        /\ MayBeTreated(r, Candidates(r, visited), treated)
        /\ roaMatch' = [u \in Update |-> IF u \in treated THEN roaMatch[u] - 1 ELSE roaMatch[u]]
        /\ \E lost \in SUBSET (treated \ Moved(treated)) :
             /\ MayBeLost(Moved(treated), treated \ Moved(treated), lost)
             /\ place' = [u \in Update |-> IF u \in Moved(treated) THEN "other"
                                           ELSE IF u \in lost THEN "lost" ELSE place[u]]
        /\ result' = [u \in Update |->
             IF u \in Moved(treated) \/ FollowsState(u, visited)
             THEN StateAfter(PrefixOf(u), unfound) ELSE result[u]]
  BY <1>2
<1>4. PICK lost \in SUBSET (treated \ Moved(treated)) :
        /\ MayBeLost(Moved(treated), treated \ Moved(treated), lost)
        /\ place' = [u \in Update |-> IF u \in Moved(treated) THEN "other"
                                      ELSE IF u \in lost THEN "lost" ELSE place[u]]
  BY <1>3
<1>5. DelEffect(r, visited, unfound, treated, lost)
  BY <1>1, <1>2, <1>3, <1>4 DEF DelEffect
<1> QED BY <1>5

-----------------------------------------------------------------------------
(***************************************************************************)
(* Types.  The bound of the announcements is what the counter can hold.    *)
(***************************************************************************)
InUse == /\ \A r \in Installed : Entry[r].prefix \in known
         /\ \A u \in Requested : PrefixOf(u) \in known
ValidIsCounted == \A u \in Update : place[u] \in {"valid", "lost"} => roaMatch[u] > 0

TypeInv ==
  /\ TypeOK
  /\ Total(Roa) <= adds /\ (\A r \in Roa : roaCount[r] <= adds)
  /\ ValidIsCounted
  /\ InUse

LEMMA TypesAre ==
  ASSUME TypeInv
  PROVE  /\ CountsAreBounded /\ Total(Roa) \in Nat /\ Total(Roa) <= MaxAdds
         /\ nodes \subseteq Prefix /\ known \subseteq Prefix /\ Installed \subseteq Roa
         /\ \A p \in Prefix : coverage[p] \in 0 .. CounterRange - 1 /\ stateOfOther[p] \in State
<1>1. CountsAreBounded
  BY DEF TypeInv, TypeOK, CountsAreBounded
<1>2. Total(Roa) \in Nat
  BY <1>1, TotalIs
<1>3. adds \in 0 .. MaxAdds /\ Total(Roa) <= adds /\ MaxAdds \in Nat
  BY PrefixCacheAssumption DEF TypeInv, TypeOK
<1> QED BY <1>1, <1>2, <1>3 DEF TypeInv, TypeOK, Installed

LEMMA ModIs ==
  ASSUME NEW n \in Int
  PROVE  n % CounterRange \in 0 .. CounterRange - 1
<1>1. CounterRange \in Nat \ {0}
  BY PrefixCacheAssumption
<1> QED BY <1>1

LEMMA StateAboveIs ==
  ASSUME TypeInv, NEW p \in Prefix
  PROVE  StateAbove(p) \in State
<1>1. Parents(p) # {} => Closest(Parents(p)) \in Prefix
  <2>1. Parents(p) \subseteq Above[p] /\ Parents(p) \subseteq Prefix
    BY TypesAre DEF Parents
  <2> QED BY <2>1, ClosestIs
<1> QED BY <1>1, TypesAre DEF StateAbove, State

LEMMA TypeInvInit == ASSUME Init PROVE TypeInv
<1>1. TypeOK
  <2>1. 0 \in 0 .. CounterRange - 1 /\ 0 \in 0 .. MaxAdds
    BY PrefixCacheAssumption
  <2>2. /\ coverage \in [Prefix -> 0 .. CounterRange - 1] /\ adds \in 0 .. MaxAdds
        /\ roaCount \in [Roa -> Nat] /\ roaUpdates \in [Roa -> Nat] /\ roaMatch \in [Update -> Nat]
    BY <2>1 DEF Init
  <2>3. /\ stateOfOther \in [Prefix -> State] /\ place \in [Update -> Place]
        /\ result \in [Update -> State \union {"undefined", "valid"}]
        /\ crashed \in BOOLEAN /\ miscounted \in BOOLEAN
        /\ nodes \subseteq Prefix /\ known \subseteq nodes
    BY DEF Init, State, Place
  <2> QED BY <2>2, <2>3 DEF TypeOK
<1>2. Installed = {} /\ \A r \in Roa : roaCount[r] = 0
  BY DEF Init, Installed
<1>3. CountsAreBounded
  BY <1>2 DEF Init, CountsAreBounded
<1>4. Total(Roa) = 0
  BY <1>2, <1>3, TotalIs
<1>5. adds = 0
  BY DEF Init
<1>6. ValidIsCounted /\ InUse
  BY <1>2 DEF Init, ValidIsCounted, InUse, Requested
<1> QED BY <1>1, <1>2, <1>4, <1>5, <1>6 DEF TypeInv

LEMMA MatchingIs ==
  ASSUME NEW u \in Update
  PROVE  Matching(u) \subseteq Covering(u) /\ Covering(u) \subseteq Installed
BY DEF Matching, Covering, MatchingRoas

LEMMA RequestTypes ==
  ASSUME TypeInv, MaxAdds < CounterRange, NEW u \in Update, RequestEffect(u)
  PROVE  TypeInv'
<1> DEFINE p == PrefixOf(u)
<1>0. p \in Prefix
  BY RouteIs
<1>1. roaCount' = roaCount /\ adds' = adds /\ crashed' = crashed
  BY DEF RequestEffect
<1>2. OwnState(u) \in State
  BY <1>0, TypesAre, StateAboveIs DEF OwnState
<1>3. Cardinality(Covering(u)) \in 0 .. CounterRange - 1
  <2>1. Cardinality(Covering(u)) \in Nat /\ Cardinality(Covering(u)) <= Total(Roa)
    BY MatchingIs, TypesAre, TotalIsLarge
  <2>2. Total(Roa) \in Nat /\ Total(Roa) <= MaxAdds /\ MaxAdds \in Nat /\ CounterRange \in Nat
    BY TypesAre, PrefixCacheAssumption
  <2> QED BY <2>1, <2>2
<1>4. Total(Matching(u)) \in Nat /\ (Matching(u) # {} => Total(Matching(u)) > 0)
  <2>1. Matching(u) \subseteq Installed /\ Matching(u) \subseteq Roa
    BY MatchingIs DEF Installed
  <2>2. Total(Matching(u)) \in Nat /\ (Total(Matching(u)) = 0 <=> Matching(u) \cap Installed = {})
    BY <2>1, TypesAre, TotalIs
  <2> QED BY <2>1, <2>2
<1>5. nodes' \subseteq Prefix /\ known' \subseteq nodes'
  BY <1>0 DEF RequestEffect, TypeInv, TypeOK
<1>6. coverage' \in [Prefix -> 0 .. CounterRange - 1]
  <2>1. coverage' = [coverage EXCEPT ![p] = IF IsNew(u) THEN Cardinality(Covering(u)) ELSE coverage[p]]
    BY DEF RequestEffect
  <2>2. coverage \in [Prefix -> 0 .. CounterRange - 1]
    BY DEF TypeInv, TypeOK
  <2> QED BY <2>1, <2>2, <1>0, <1>3
<1>7. stateOfOther' \in [Prefix -> State]
  BY <1>0, <1>2 DEF RequestEffect, TypeInv, TypeOK
<1>8. roaUpdates' \in [Roa -> Nat]
  BY DEF RequestEffect, TypeInv, TypeOK
<1>9. roaMatch' \in [Update -> Nat]
  BY <1>4 DEF RequestEffect, TypeInv, TypeOK
<1>10. place' \in [Update -> Place]
  BY DEF RequestEffect, TypeInv, TypeOK, Place
<1>11. result' \in [Update -> State \union {"undefined", "valid"}]
  BY <1>2 DEF RequestEffect, TypeInv, TypeOK
<1>12. miscounted' \in BOOLEAN
  <2>1. miscounted' = (miscounted \/ (IsNew(u) /\ Total(Covering(u)) # Cardinality(Covering(u))))
    BY DEF RequestEffect
  <2>2. miscounted \in BOOLEAN
    BY DEF TypeInv, TypeOK
  <2> QED BY <2>1, <2>2
<1>13. TypeOK'
  <2>1. roaCount' \in [Roa -> Nat] /\ crashed' \in BOOLEAN /\ adds' \in 0 .. MaxAdds
    BY <1>1 DEF TypeInv, TypeOK
  <2> QED BY <2>1, <1>5, <1>6, <1>7, <1>8, <1>9, <1>10, <1>11, <1>12 DEF TypeOK
<1>14. Total(Roa)' = Total(Roa) /\ Installed' = Installed
  BY <1>1 DEF Total, Announcements, Installed
<1>15. ValidIsCounted'
  <2>1. roaMatch' = [roaMatch EXCEPT ![u] = Total(Matching(u))]
    BY DEF RequestEffect
  <2>2. place' = [place EXCEPT ![u] = IF Matching(u) = {} THEN "other" ELSE "valid"]
    BY DEF RequestEffect
  <2>3. roaMatch \in [Update -> Nat] /\ place \in [Update -> Place]
    BY DEF TypeInv, TypeOK
  <2>4. ValidIsCounted
    BY DEF TypeInv
  <2> QED BY <2>1, <2>2, <2>3, <2>4, <1>4 DEF ValidIsCounted
<1>16. InUse'
  <2>1. known' = known \union {p} /\ place' = [place EXCEPT ![u] = IF Matching(u) = {} THEN "other" ELSE "valid"]
    BY DEF RequestEffect
  <2>2. InUse /\ place \in [Update -> Place]
    BY DEF TypeInv, TypeOK
  <2>3. \A v \in Requested' : v \in Requested \/ v = u
    BY <2>1, <2>2 DEF Requested
  <2> QED BY <1>14, <2>1, <2>2, <2>3 DEF InUse
<1>17. Total(Roa)' <= adds' /\ (\A r \in Roa : roaCount'[r] <= adds')
  BY <1>1, <1>14 DEF TypeInv
<1> QED BY <1>13, <1>15, <1>16, <1>17 DEF TypeInv

LEMMA CheckCoverageIs ==
  ASSUME TypeInv, MaxAdds < CounterRange, NEW p
  PROVE  CheckCoverage(p) \in 0 .. CounterRange - 1
<1> DEFINE S == {r \in Installed : Entry[r].prefix \in Walk(Parents(p), Covered) /\ Covers(r, p)}
<1>1. S \subseteq Roa
  BY DEF Installed
<1>2. CheckCoverage(p) = Total(S)
  BY DEF CheckCoverage
<1> HIDE DEF S
<1>3. Total(S) \in Nat /\ Total(S) <= Total(Roa)
  BY <1>1, TypesAre, TotalIs
<1>4. Total(Roa) \in Nat /\ Total(Roa) <= MaxAdds /\ MaxAdds \in Nat /\ CounterRange \in Nat
  BY TypesAre, PrefixCacheAssumption
<1> QED BY <1>2, <1>3, <1>4

LEMMA SubtreeIs ==
  ASSUME TypeInv, NEW r \in Roa
  PROVE  Base(r) \in Prefix /\ Subtree(Base(r)) \subseteq Prefix /\ Base(r) \in Subtree(Base(r))
BY TypesAre, EntryIs DEF Base, Subtree

LEMMA AddBefore ==
  ASSUME TypeInv, MaxAdds < CounterRange, NEW r \in Roa
  PROVE  /\ StateBefore(r) \in [Prefix -> State]
         /\ CoverageBefore(r) \in [Prefix -> 0 .. CounterRange - 1]
         /\ Cardinality(Gained(r)) \in Nat
<1>1. Base(r) \in Prefix
  BY SubtreeIs
<1>2. coverage \in [Prefix -> 0 .. CounterRange - 1] /\ stateOfOther \in [Prefix -> State]
  BY DEF TypeInv, TypeOK
<1>3. StateBefore(r) \in [Prefix -> State]
  BY <1>1, <1>2, StateAboveIs DEF StateBefore
<1>4. 0 \in 0 .. CounterRange - 1
  BY PrefixCacheAssumption
<1>5. CheckCoverage(Base(r)) \in 0 .. CounterRange - 1
  BY CheckCoverageIs
<1>6. CoverageBefore(r) \in [Prefix -> 0 .. CounterRange - 1]
  BY <1>1, <1>2, <1>4, <1>5 DEF CoverageBefore
<1>7. Gained(r) \subseteq Update
  BY DEF Gained, Matched
<1> QED BY <1>3, <1>6, <1>7, PrefixCacheAssumption, FS_Subset, FS_CardinalityType

LEMMA AddTypes ==
  ASSUME TypeInv, MaxAdds < CounterRange, NEW r \in Roa, AddEffect(r)
  PROVE  TypeInv'
<1>0. /\ Base(r) \in Prefix /\ adds \in 0 .. MaxAdds /\ MaxAdds \in Nat
      /\ roaCount \in [Roa -> Nat]
  BY SubtreeIs, PrefixCacheAssumption DEF TypeInv, TypeOK
<1>1. /\ adds < MaxAdds /\ adds' = adds + 1 /\ roaCount' = [roaCount EXCEPT ![r] = @ + 1]
      /\ known' = known \union {Base(r)} /\ nodes' = nodes \union {Base(r)}
      /\ crashed' = crashed /\ miscounted' = miscounted
  BY DEF AddEffect
<1>2. adds' \in 0 .. MaxAdds /\ roaCount' \in [Roa -> Nat]
  BY <1>0, <1>1
<1>3. nodes' \subseteq Prefix /\ known' \subseteq nodes' /\ crashed' \in BOOLEAN /\ miscounted' \in BOOLEAN
  BY <1>0, <1>1 DEF TypeInv, TypeOK
<1>4. coverage' \in [Prefix -> 0 .. CounterRange - 1]
  <2>1. coverage' = [q \in Prefix |-> IF q \in Touched(r) THEN (CoverageBefore(r)[q] + 1) % CounterRange
                                      ELSE CoverageBefore(r)[q]]
    BY DEF AddEffect
  <2>2. \A q \in Prefix : CoverageBefore(r)[q] \in 0 .. CounterRange - 1
    BY AddBefore
  <2>3. \A q \in Prefix : (CoverageBefore(r)[q] + 1) % CounterRange \in 0 .. CounterRange - 1
    <3> SUFFICES ASSUME NEW q \in Prefix
                 PROVE  (CoverageBefore(r)[q] + 1) % CounterRange \in 0 .. CounterRange - 1
      OBVIOUS
    <3>1. CoverageBefore(r)[q] + 1 \in Int
      BY <2>2
    <3> QED BY <3>1, ModIs
  <2> QED BY <2>1, <2>2, <2>3
<1>5. stateOfOther' \in [Prefix -> State]
  BY AddBefore DEF AddEffect, State
<1>6. roaUpdates' \in [Roa -> Nat]
  BY AddBefore DEF AddEffect, TypeInv, TypeOK
<1>7. roaMatch' \in [Update -> Nat]
  BY DEF AddEffect, TypeInv, TypeOK
<1>8. place' = [u \in Update |-> IF u \in Gained(r) THEN "valid" ELSE place[u]]
  BY DEF AddEffect
<1>9. place \in [Update -> Place] /\ place' \in [Update -> Place]
  BY <1>8 DEF TypeInv, TypeOK, Place
<1>10. result' \in [Update -> State \union {"undefined", "valid"}]
  BY DEF AddEffect, TypeInv, TypeOK, State
<1>11. TypeOK'
  BY <1>2, <1>3, <1>4, <1>5, <1>6, <1>7, <1>9, <1>10 DEF TypeOK
<1>12. Total(Roa)' <= adds'
  <2>1. Total(Roa)' = Total(Roa) + 1
    BY <1>1, TypesAre, TotalAfterAdd
  <2>2. Total(Roa) \in Nat /\ Total(Roa) <= adds
    BY TypesAre DEF TypeInv
  <2> QED BY <2>1, <2>2, <1>0, <1>1
<1>13. \A x \in Roa : roaCount'[x] <= adds'
  BY <1>0, <1>1 DEF TypeInv
<1>14. ValidIsCounted'
  <2>1. roaMatch' = [u \in Update |-> IF u \in Gained(r) THEN roaMatch[u] + 1 ELSE roaMatch[u]]
    BY DEF AddEffect
  <2>2. roaMatch \in [Update -> Nat] /\ ValidIsCounted
    BY DEF TypeInv, TypeOK
  <2> QED BY <2>1, <2>2, <1>8 DEF ValidIsCounted
<1>15. InUse'
  <2>1. InUse
    BY DEF TypeInv
  <2>2. \A x \in Installed' : x \in Installed \/ x = r
    BY <1>0, <1>1 DEF Installed
  <2>3. \A u \in Requested' : u \in Requested
    <3> SUFFICES ASSUME NEW u \in Update, u \in Gained(r) PROVE place[u] # "none"
      BY <1>8 DEF Requested
    <3> QED BY DEF Gained, Matched
  <2> QED BY <2>1, <2>2, <2>3, <1>1 DEF InUse, Base
<1> QED BY <1>11, <1>12, <1>13, <1>14, <1>15 DEF TypeInv

\* The updates that are moved, lost or left.
LEMMA DelUpdates ==
  ASSUME TypeInv, NEW r \in Roa, NEW visited, NEW unfound, NEW treated, NEW lost,
         DelEffect(r, visited, unfound, treated, lost)
  PROVE  /\ \A u \in treated : u \in Update /\ place[u] = "valid" /\ roaMatch[u] > 0
         /\ Moved(treated) \subseteq treated /\ lost \subseteq treated \ Moved(treated)
         /\ \A u \in Update :
              /\ place'[u] = IF u \in Moved(treated) THEN "other" ELSE IF u \in lost THEN "lost" ELSE place[u]
              /\ roaMatch'[u] = IF u \in treated THEN roaMatch[u] - 1 ELSE roaMatch[u]
              /\ roaMatch[u] \in Nat
<1>1. \A u \in treated : u \in Update /\ place[u] = "valid"
  BY DEF DelEffect, Candidates
<1>2. ValidIsCounted /\ roaMatch \in [Update -> Nat]
  BY DEF TypeInv, TypeOK
<1>3. \A u \in Update :
        /\ place'[u] = IF u \in Moved(treated) THEN "other" ELSE IF u \in lost THEN "lost" ELSE place[u]
        /\ roaMatch'[u] = IF u \in treated THEN roaMatch[u] - 1 ELSE roaMatch[u]
  BY DEF DelEffect
<1>4. lost \subseteq treated \ Moved(treated) /\ Moved(treated) \subseteq treated
  BY DEF DelEffect, Moved
<1> QED BY <1>1, <1>2, <1>3, <1>4 DEF ValidIsCounted

LEMMA DelTypes ==
  ASSUME TypeInv, MaxAdds < CounterRange, NEW r \in Roa,
         NEW visited, NEW unfound, NEW treated, NEW lost,
         DelEffect(r, visited, unfound, treated, lost)
  PROVE  TypeInv'
<1>0. /\ Base(r) \in Prefix /\ adds \in 0 .. MaxAdds /\ MaxAdds \in Nat
      /\ roaCount \in [Roa -> Nat]
  BY SubtreeIs, PrefixCacheAssumption DEF TypeInv, TypeOK
<1>1. /\ roaCount[r] > 0 /\ roaCount' = [roaCount EXCEPT ![r] = @ - 1]
      /\ known' = IF StillUsed(Base(r), r) THEN known ELSE known \ {Base(r)}
      /\ nodes' = nodes /\ crashed' = crashed /\ adds' = adds /\ miscounted' = miscounted
  BY DEF DelEffect
<1>2. roaCount' \in [Roa -> Nat]
  BY <1>0, <1>1
<1>3. /\ nodes' \subseteq Prefix /\ known' \subseteq nodes' /\ crashed' \in BOOLEAN
      /\ miscounted' \in BOOLEAN /\ adds' \in 0 .. MaxAdds
  BY <1>0, <1>1 DEF TypeInv, TypeOK
<1>4. coverage' \in [Prefix -> 0 .. CounterRange - 1]
  <2>1. coverage' = [q \in Prefix |-> IF q \in visited THEN CoverageAfter(r, q) ELSE coverage[q]]
    BY DEF DelEffect
  <2>2. \A q \in Prefix : coverage[q] \in 0 .. CounterRange - 1
    BY TypesAre
  <2>3. \A q \in Prefix : (coverage[q] - 1) % CounterRange \in 0 .. CounterRange - 1
    <3> SUFFICES ASSUME NEW q \in Prefix
                 PROVE  (coverage[q] - 1) % CounterRange \in 0 .. CounterRange - 1
      OBVIOUS
    <3>1. coverage[q] - 1 \in Int
      BY <2>2
    <3> QED BY <3>1, ModIs
  <2>4. \A q \in Prefix : CoverageAfter(r, q) \in 0 .. CounterRange - 1
    BY <2>2, <2>3 DEF CoverageAfter, Decrement
  <2> QED BY <2>1, <2>2, <2>4
<1>5. stateOfOther' \in [Prefix -> State] /\ \A p \in Prefix : StateAfter(p, unfound) \in State
  BY DEF DelEffect, State, StateAfter, TypeInv, TypeOK
<1>6. roaUpdates' \in [Roa -> Nat]
  BY DEF DelEffect, TypeInv, TypeOK
<1>7. roaMatch' \in [Update -> Nat]
  <2>1. roaMatch' = [u \in Update |-> IF u \in treated THEN roaMatch[u] - 1 ELSE roaMatch[u]]
    BY DEF DelEffect
  <2> QED BY <2>1, DelUpdates
<1>8. place' \in [Update -> Place]
  <2>1. place' = [u \in Update |-> IF u \in Moved(treated) THEN "other"
                                   ELSE IF u \in lost THEN "lost" ELSE place[u]]
    BY DEF DelEffect
  <2> QED BY <2>1 DEF TypeInv, TypeOK, Place
<1>9. result' \in [Update -> State \union {"undefined", "valid"}]
  <2>1. result' = [u \in Update |->
                     IF u \in Moved(treated) \/ FollowsState(u, visited)
                     THEN StateAfter(PrefixOf(u), unfound) ELSE result[u]]
    BY DEF DelEffect
  <2>2. result \in [Update -> State \union {"undefined", "valid"}]
    BY DEF TypeInv, TypeOK
  <2> QED BY <2>1, <2>2, <1>5, RouteIs
<1>10. TypeOK'
  BY <1>2, <1>3, <1>4, <1>5, <1>6, <1>7, <1>8, <1>9 DEF TypeOK
<1>11. Total(Roa)' <= adds'
  <2>1. Total(Roa)' = Total(Roa) - 1
    BY <1>1, TypesAre, TotalAfterDel
  <2>2. Total(Roa) \in Nat /\ Total(Roa) <= adds
    BY TypesAre DEF TypeInv
  <2> QED BY <2>1, <2>2, <1>0, <1>1
<1>12. \A x \in Roa : roaCount'[x] <= adds'
  BY <1>0, <1>1 DEF TypeInv
<1>13. ValidIsCounted'
  <2> SUFFICES ASSUME NEW u \in Update, place'[u] \in {"valid", "lost"} PROVE roaMatch'[u] > 0
    BY DEF ValidIsCounted
  <2>1. ValidIsCounted
    BY DEF TypeInv
  <2>2. CASE u \in treated
    <3>1. u \notin Moved(treated)
      BY DelUpdates
    <3>2. roaMatch[u] # 1
      BY <2>2, <3>1 DEF Moved
    <3> QED BY <2>2, <3>2, DelUpdates
  <2>3. CASE u \notin treated
    <3>1. place'[u] = place[u] /\ roaMatch'[u] = roaMatch[u]
      BY <2>3, DelUpdates
    <3> QED BY <2>1, <3>1 DEF ValidIsCounted
  <2> QED BY <2>2, <2>3
<1>14. InUse'
  <2>1. InUse
    BY DEF TypeInv
  <2>2. \A x \in Installed' : x \in Installed /\ (x = r => roaCount[r] > 1)
    BY <1>0, <1>1 DEF Installed
  <2>3. \A u \in Requested' : u \in Requested
    BY DelUpdates DEF Requested
  <2>4. ASSUME NEW x \in Installed' PROVE Entry[x].prefix \in known'
    BY <2>1, <2>2, <1>1 DEF InUse, StillUsed
  <2>5. ASSUME NEW u \in Requested' PROVE PrefixOf(u) \in known'
    BY <2>1, <2>3, <1>1 DEF InUse, StillUsed, Requested
  <2> QED BY <2>4, <2>5 DEF InUse
<1> QED BY <1>10, <1>11, <1>12, <1>13, <1>14 DEF TypeInv

\* The steps that leave the counters alone.
Idle == /\ UNCHANGED <<known, roaCount, roaUpdates, coverage, stateOfOther, place, roaMatch,
                       result, adds, miscounted>>
        /\ nodes \subseteq nodes' /\ nodes' \subseteq Prefix /\ crashed' \in BOOLEAN

LEMMA NextIs ==
  ASSUME TypeInv, [Next]_vars
  PROVE  \/ \E u \in Update : RequestEffect(u)
         \/ \E r \in Roa : AddEffect(r)
         \/ \E r \in Roa : \E visited, unfound, treated, lost : DelEffect(r, visited, unfound, treated, lost)
         \/ Idle
<1>0. nodes \subseteq Prefix /\ crashed \in BOOLEAN
  BY DEF TypeInv, TypeOK
<1>1. ASSUME NEW u \in Update, RequestWithoutData(u) PROVE Idle
  BY <1>0, <1>1 DEF RequestWithoutData, Idle
<1>2. ASSUME NEW r \in Roa, DelReserved(r) PROVE Idle
  BY <1>0, <1>2, EntryIs DEF DelReserved, Idle
<1>3. ASSUME UNCHANGED vars PROVE Idle
  BY <1>0, <1>3 DEF vars, Idle
<1> QED BY <1>1, <1>2, <1>3, RequestIs, AddIs, DelIs DEF Next

LEMMA IdleTypes == ASSUME TypeInv, Idle PROVE TypeInv'
<1>1. TypeOK'
  BY DEF TypeInv, TypeOK, Idle
<1>2. Total(Roa)' = Total(Roa) /\ Installed' = Installed /\ Requested' = Requested
  BY DEF Idle, Total, Announcements, Installed, Requested
<1>3. Total(Roa)' <= adds' /\ (\A r \in Roa : roaCount'[r] <= adds')
  BY <1>2 DEF TypeInv, Idle
<1>4. ValidIsCounted' /\ InUse'
  BY <1>2 DEF TypeInv, Idle, ValidIsCounted, InUse
<1> QED BY <1>1, <1>3, <1>4 DEF TypeInv

LEMMA TypeInvNext ==
  ASSUME TypeInv, MaxAdds < CounterRange, [Next]_vars
  PROVE  TypeInv'
BY NextIs, RequestTypes, AddTypes, DelTypes, IdleTypes

\* The counters stay within 32 bits and no counter of an update is decremented
\* below zero, if the announcements of all ROAs fit the counter.
THEOREM PrefixCacheTypes ==
  ASSUME MaxAdds < CounterRange
  PROVE  Spec => []TypeOK
<1>1. Init => TypeInv
  BY TypeInvInit
<1>2. TypeInv /\ [Next]_vars => TypeInv'
  BY TypeInvNext
<1>3. TypeInv => TypeOK
  BY DEF TypeInv
<1> QED BY <1>1, <1>2, <1>3, PTL DEF Spec

-----------------------------------------------------------------------------
(***************************************************************************)
(* The inductive invariant.                                                *)
(***************************************************************************)
RightState(p) == IF Reach(p) \cap Installed = {} THEN "notfound" ELSE "invalid"

StateIsRight == \A p \in known : stateOfOther[p] = RightState(p)
CoverageIsRight == \A p \in known : coverage[p] = Total(Count(p))
MatchIsRight ==
  \A u \in Requested :
    /\ roaMatch[u] = Total(Match(u))
    /\ place[u] = IF Match(u) \cap Installed = {} THEN "other" ELSE "valid"
\* A withdrawn ROA finds all the updates it stands for.
UpdatesSuffice ==
  \A r \in Installed : Cardinality({u \in Requested : r \in Match(u)}) <= roaUpdates[r]
ResultIsRight ==
  \A u \in Requested :
    result[u] = IF Match(u) \cap Installed = {} THEN RightState(PrefixOf(u)) ELSE "valid"

Exact == StateIsRight /\ CoverageIsRight /\ MatchIsRight /\ UpdatesSuffice /\ ResultIsRight
ExactInv == TypeInv /\ (~miscounted => Exact)

LEMMA StateAboveExact ==
  ASSUME TypeInv, StateIsRight, NEW p \in Prefix
  PROVE  StateAbove(p) = IF \E r \in Installed : Entry[r].prefix \in Above[p] THEN "invalid" ELSE "notfound"
<1>1. \A r \in Installed : Entry[r].prefix \in known
  BY DEF TypeInv, InUse
<1>2. CASE Parents(p) = {}
  BY <1>1, <1>2 DEF StateAbove, Parents
<1>3. CASE Parents(p) # {}
  <2> DEFINE c == Closest(Parents(p))
  <2>1. Parents(p) \in SUBSET Above[p]
    BY DEF Parents
  <2>2. c \in Parents(p) /\ \A x \in Parents(p) : x = c \/ x \in Above[c]
    BY <1>3, <2>1, ClosestIs
  <2>3. StateAbove(p) = stateOfOther[c]
    BY <1>3 DEF StateAbove
  <2> HIDE DEF c
  <2>4. c \in known /\ c \in Above[p] /\ Above[c] \subseteq Above[p]
    BY <2>2, AboveIs DEF Parents
  <2>5. stateOfOther[c] = RightState(c)
    BY <2>4 DEF StateIsRight
  <2>6. ASSUME NEW r \in Installed PROVE r \in Reach(c) <=> Entry[r].prefix \in Above[p]
    <3>1. r \in Reach(c) => Entry[r].prefix \in Above[p]
      BY <2>4 DEF Reach
    <3>2. Entry[r].prefix \in Above[p] => Entry[r].prefix \in Parents(p)
      BY <1>1 DEF Parents
    <3> QED BY <3>1, <3>2, <2>2 DEF Reach, Installed
  <2> QED BY <2>3, <2>5, <2>6 DEF RightState
<1> QED BY <1>2, <1>3

\* A prefix without data has the state of what is above it.
LEMMA StateAboveNew ==
  ASSUME TypeInv, StateIsRight, NEW p \in Prefix, p \notin known
  PROVE  StateAbove(p) = RightState(p)
<1>1. \A r \in Installed : Entry[r].prefix # p /\ r \in Roa
  BY DEF TypeInv, InUse, Installed
<1>2. \A r \in Installed : r \in Reach(p) <=> Entry[r].prefix \in Above[p]
  BY <1>1 DEF Reach
<1> QED BY <1>2, StateAboveExact DEF RightState

\* A ROA that reaches a prefix reaches what is between its own and that one.
LEMMA ReachBetween ==
  ASSUME NEW p \in Prefix, NEW r \in Reach(p), NEW x \in {p} \union Above[p],
         Length[Entry[r].prefix] <= Length[x]
  PROVE  x \in Prefix /\ r \in Reach(x) /\ (r \in Count(p) => r \in Count(x))
<1>1. CASE x = p
  BY <1>1
<1>2. CASE x \in Above[p]
  <2>1. r \in Roa /\ (Entry[r].prefix = p \/ Entry[r].prefix \in Above[p])
    BY DEF Reach
  <2>2. Length[x] \in Nat /\ Length[p] \in Nat /\ Length[x] < Length[p] /\ x \in Prefix
    BY <1>2, AboveIs
  <2>3. Entry[r].prefix # p
    BY <2>2
  <2>4. Entry[r].prefix = x \/ Entry[r].prefix \in Above[x]
    BY <1>2, <2>1, <2>3, AboveIsChain
  <2>5. r \in Reach(x)
    BY <2>1, <2>4 DEF Reach
  <2> QED BY <2>5, <2>2, <1>2, ReachIs
<1> QED BY <1>1, <1>2

\* The prefixes with ROAs that cover them have a positive counter.
LEMMA CoveredIs ==
  ASSUME TypeInv, CoverageIsRight, NEW x \in known
  PROVE  x \in Covered <=> Count(x) \cap Installed # {}
<1>1. x \in Prefix /\ coverage[x] = Total(Count(x))
  BY TypesAre DEF CoverageIsRight
<1>2. Count(x) \subseteq Roa
  BY CountReach
<1>3. Total(Count(x)) \in Nat /\ (Total(Count(x)) = 0 <=> Count(x) \cap Installed = {})
  BY <1>2, TypesAre, TotalIs
<1> QED BY <1>1, <1>3 DEF Covered

\* The walk up finds all ROAs that cover the prefix.
LEMMA WalkIs ==
  ASSUME TypeInv, NEW p \in Prefix, NEW chain, NEW going,
         Parents(p) \subseteq chain, chain \subseteq {p} \union Parents(p),
         p \in known => p \in chain,
         \A x \in chain : x \notin going => Count(x) \cap Installed = {} 
  PROVE  {r \in Installed : Entry[r].prefix \in Walk(chain, going) /\ Covers(r, p)} = Count(p) \cap Installed
<1>1. ASSUME NEW r \in Installed, Entry[r].prefix \in Walk(chain, going), Covers(r, p)
      PROVE  r \in Count(p)
  BY <1>1 DEF Walk, Parents, Count, Reach, Installed
<1>2. ASSUME NEW r \in Installed, r \in Count(p)
      PROVE  Entry[r].prefix \in Walk(chain, going) /\ Covers(r, p)
  <2>1. Covers(r, p) /\ r \in Reach(p) /\ r \in Roa /\ (Entry[r].prefix = p \/ Entry[r].prefix \in Above[p])
    BY <1>2 DEF Count, Reach
  <2>2. Entry[r].prefix \in known
    BY DEF TypeInv, InUse
  <2>3. Entry[r].prefix \in chain
    BY <2>1, <2>2 DEF Parents
  <2>4. ASSUME NEW x \in chain, Length[x] >= Length[Entry[r].prefix] PROVE x \in going
    <3>1. x \in {p} \union Above[p]
      BY DEF Parents
    <3>2. x \in Prefix
      BY <3>1, AboveIs
    <3>3. Length[x] \in Nat /\ Length[Entry[r].prefix] \in Nat
      BY <3>2, <2>1, EntryIs, PrefixCacheAssumption
    <3>4. Length[Entry[r].prefix] <= Length[x]
      BY <2>4, <3>3
    <3>5. r \in Count(x)
      BY <3>1, <3>4, <2>1, <1>2, ReachBetween
    <3> QED BY <3>5
  <2> QED BY <2>1, <2>3, <2>4 DEF Walk
<1> QED BY <1>1, <1>2

LEMMA CheckCoverageExact ==
  ASSUME TypeInv, CoverageIsRight, NEW p \in Prefix, p \notin known
  PROVE  CheckCoverage(p) = Total(Count(p))
<1>1. \A x \in Parents(p) : x \notin Covered => Count(x) \cap Installed = {}
  BY CoveredIs DEF Parents
<1>2. {r \in Installed : Entry[r].prefix \in Walk(Parents(p), Covered) /\ Covers(r, p)} = Count(p) \cap Installed
  BY <1>1, WalkIs
<1>3. CheckCoverage(p) = Total(Count(p) \cap Installed)
  BY <1>2 DEF CheckCoverage
<1>4. Count(p) \subseteq Roa
  BY CountReach
<1> QED BY <1>3, <1>4, TypesAre, TotalIs

LEMMA MatchingRoasExact ==
  ASSUME TypeInv, StateIsRight, CoverageIsRight, NEW p \in Prefix, NEW isNew \in BOOLEAN,
         isNew => p \notin known, ~isNew => p \in known
  PROVE  MatchingRoas(p, isNew) = Count(p) \cap Installed
<1> DEFINE state(x) == IF x = p THEN StateAbove(p) ELSE stateOfOther[x]
           chain == {p} \union Parents(p)
           going == IF isNew THEN {x \in chain : state(x) = "invalid"} ELSE Covered
<1>1. \A x \in chain : x \notin going => Count(x) \cap Installed = {}
  <2>1. CASE isNew
    <3> SUFFICES ASSUME NEW x \in chain, state(x) # "invalid" PROVE Count(x) \cap Installed = {}
      BY <2>1
    <3>1. state(x) = RightState(x)
      <4>1. CASE x = p
        BY <2>1, <4>1, StateAboveNew
      <4>2. CASE x # p
        BY <4>2 DEF Parents, StateIsRight
      <4> QED BY <4>1, <4>2
    <3>2. Reach(x) \cap Installed = {}
      BY <3>1 DEF RightState
    <3> QED BY <3>2, CountReach
  <2>2. CASE ~isNew
    <3> SUFFICES ASSUME NEW x \in chain, x \notin Covered PROVE Count(x) \cap Installed = {}
      BY <2>2
    <3>1. x \in known
      BY <2>2 DEF Parents
    <3> QED BY <3>1, CoveredIs
  <2> QED BY <2>1, <2>2
<1>2. MatchingRoas(p, isNew) = {r \in Installed : Entry[r].prefix \in Walk(chain, going) /\ Covers(r, p)}
  BY DEF MatchingRoas
<1>3. Parents(p) \subseteq chain /\ chain \subseteq {p} \union Parents(p) /\ p \in chain
  OBVIOUS
<1> HIDE DEF state, chain, going
<1> QED BY <1>1, <1>2, <1>3, WalkIs

LEMMA RequestExactly ==
  ASSUME TypeInv, StateIsRight, CoverageIsRight, NEW u \in Update, RequestEffect(u)
  PROVE  /\ Covering(u) = Count(PrefixOf(u)) \cap Installed
         /\ Matching(u) = Match(u) \cap Installed
         /\ OwnState(u) = RightState(PrefixOf(u))
         /\ IsNew(u) <=> PrefixOf(u) \notin known
<1> DEFINE p == PrefixOf(u)
<1>1. IsNew(u) <=> p \notin known
  BY DEF RequestEffect, IsNew, TypeInv, TypeOK
<1>2. p \in Prefix /\ IsNew(u) \in BOOLEAN
  BY RouteIs DEF IsNew
<1>3. Covering(u) = Count(p) \cap Installed
  BY <1>1, <1>2, MatchingRoasExact DEF Covering
<1>4. Matching(u) = Match(u) \cap Installed
  BY <1>3 DEF Matching, Match
<1>5. OwnState(u) = RightState(p)
  BY <1>1, <1>2, StateAboveNew DEF OwnState, StateIsRight
<1> QED BY <1>1, <1>3, <1>4, <1>5

-----------------------------------------------------------------------------
(***************************************************************************)
(* A request keeps the counters exact.                                     *)
(***************************************************************************)
LEMMA SameRoas ==
  ASSUME roaCount' = roaCount
  PROVE  /\ Installed' = Installed
         /\ \A S : Total(S)' = Total(S)
         /\ \A p : RightState(p)' = RightState(p)
BY DEF Installed, Total, Announcements, RightState, Reach

\* The requested updates a ROA stands for.
Stood(r) == {u \in Requested : r \in Match(u)}

LEMMA StoodIs ==
  ASSUME NEW r
  PROVE  IsFiniteSet(Stood(r)) /\ Cardinality(Stood(r)) \in Nat
<1>1. Stood(r) \subseteq Update
  BY DEF Stood, Requested
<1> QED BY <1>1, PrefixCacheAssumption, FS_Subset, FS_CardinalityType

LEMMA RequestExact ==
  ASSUME TypeInv, Exact, NEW u \in Update, RequestEffect(u), ~miscounted'
  PROVE  Exact'
<1> DEFINE p == PrefixOf(u)
           m == Match(u) \cap Installed
<1>0. p \in Prefix /\ known \subseteq Prefix
  BY RouteIs, TypesAre
<1>1. /\ StateIsRight /\ CoverageIsRight /\ MatchIsRight /\ UpdatesSuffice /\ ResultIsRight
  BY DEF Exact
<1>2. /\ Covering(u) = Count(p) \cap Installed
      /\ Matching(u) = m
      /\ OwnState(u) = RightState(p)
      /\ IsNew(u) <=> p \notin known
  BY <1>1, RequestExactly
<1>3. /\ Installed' = Installed
      /\ \A S : Total(S)' = Total(S)
      /\ \A q : RightState(q)' = RightState(q)
  BY SameRoas DEF RequestEffect
<1>4. known' = known \union {p}
  BY DEF RequestEffect
<1>5. place \in [Update -> Place] /\ place[u] = "none" /\ (\A v \in Update : v # u => place'[v] = place[v])
      /\ place'[u] = IF m = {} THEN "other" ELSE "valid"
  BY <1>2 DEF RequestEffect, TypeInv, TypeOK
<1>6. Requested' = Requested \union {u} /\ u \notin Requested
  BY <1>5 DEF Requested
<1>7. StateIsRight'
  <2>1. stateOfOther' = [stateOfOther EXCEPT ![p] = RightState(p)]
    BY <1>2 DEF RequestEffect
  <2>2. stateOfOther \in [Prefix -> State]
    BY DEF TypeInv, TypeOK
  <2>3. ASSUME NEW q \in known' PROVE stateOfOther'[q] = RightState(q)'
    BY <2>1, <2>2, <1>0, <1>1, <1>3, <1>4 DEF StateIsRight
  <2> QED BY <2>3 DEF StateIsRight
<1>8. CoverageIsRight'
  <2>1. coverage' = [coverage EXCEPT ![p] = IF IsNew(u) THEN Cardinality(Covering(u)) ELSE coverage[p]]
    BY DEF RequestEffect
  <2>2. coverage \in [Prefix -> 0 .. CounterRange - 1]
    BY DEF TypeInv, TypeOK
  <2>3. IsNew(u) => Cardinality(Covering(u)) = Total(Covering(u))
    BY DEF RequestEffect
  <2>4. Total(Covering(u)) = Total(Count(p))
    <3>1. Count(p) \subseteq Roa
      BY CountReach
    <3> QED BY <3>1, <1>2, TypesAre, TotalIs
  <2>5. ASSUME NEW q \in known' PROVE coverage'[q] = Total(Count(q))'
    <3>1. coverage'[q] = Total(Count(q))
      <4>1. CASE q = p
        BY <4>1, <2>1, <2>2, <2>3, <2>4, <1>0, <1>1, <1>2 DEF CoverageIsRight
      <4>2. CASE q # p
        BY <4>2, <2>1, <2>2, <1>0, <1>1, <1>4 DEF CoverageIsRight
      <4> QED BY <4>1, <4>2
    <3>2. Total(Count(q))' = Total(Count(q))
      BY <1>3
    <3> QED BY <3>1, <3>2
  <2> QED BY <2>5 DEF CoverageIsRight
<1>9. MatchIsRight'
  <2>1. roaMatch' = [roaMatch EXCEPT ![u] = Total(m)] /\ roaMatch \in [Update -> Nat]
    BY <1>2 DEF RequestEffect, TypeInv, TypeOK
  <2>2. Total(m) = Total(Match(u))
    <3>1. Match(u) \subseteq Roa
      BY MatchCount
    <3> QED BY <3>1, TypesAre, TotalIs
  <2> HIDE DEF m
  <2>3. ASSUME NEW v \in Requested'
        PROVE  /\ roaMatch'[v] = Total(Match(v))
               /\ place'[v] = IF Match(v) \cap Installed = {} THEN "other" ELSE "valid"
    <3>1. CASE v = u
      BY <3>1, <2>1, <2>2, <1>5 DEF m
    <3>2. CASE v # u
      <4>1. v \in Requested /\ v \in Update
        BY <3>2, <1>6 DEF Requested
      <4> QED BY <3>2, <4>1, <2>1, <1>1, <1>5 DEF MatchIsRight
    <3> QED BY <3>1, <3>2
  <2>4. ASSUME NEW v \in Requested'
        PROVE  /\ roaMatch'[v] = Total(Match(v))'
               /\ place'[v] = IF Match(v) \cap Installed' = {} THEN "other" ELSE "valid"
    BY <2>3, <1>3
  <2> QED BY <2>4 DEF MatchIsRight
<1>10. UpdatesSuffice'
  <2> SUFFICES ASSUME NEW r \in Installed PROVE Cardinality(Stood(r)') <= roaUpdates'[r]
    BY <1>3 DEF UpdatesSuffice, Stood
  <2>1. Cardinality(Stood(r)) <= roaUpdates[r]
    BY <1>1 DEF UpdatesSuffice, Stood
  <2>2. /\ roaUpdates[r] \in Nat /\ IsFiniteSet(Stood(r)) /\ Cardinality(Stood(r)) \in Nat
        /\ roaUpdates'[r] = IF r \in Match(u) THEN roaUpdates[r] + 1 ELSE roaUpdates[r]
    <3>1. r \in Roa
      BY DEF Installed
    <3> QED BY <3>1, <1>2, StoodIs DEF RequestEffect, TypeInv, TypeOK
  <2>3. CASE r \in Match(u)
    <3>1. Stood(r)' = Stood(r) \cup {u} /\ u \notin Stood(r)
      BY <1>6, <2>3 DEF Stood
    <3>2. Cardinality(Stood(r)') = Cardinality(Stood(r)) + 1
      BY <3>1, <2>2, FS_AddElement
    <3> QED BY <3>2, <2>1, <2>2, <2>3
  <2>4. CASE r \notin Match(u)
    <3>1. Stood(r)' = Stood(r)
      BY <1>6, <2>4 DEF Stood
    <3> QED BY <3>1, <2>1, <2>2, <2>4
  <2> QED BY <2>3, <2>4
<1>11. ResultIsRight'
  <2>1. result' = [result EXCEPT ![u] = IF m = {} THEN RightState(p) ELSE "valid"]
    BY <1>2 DEF RequestEffect
  <2>2. result \in [Update -> State \union {"undefined", "valid"}]
    BY DEF TypeInv, TypeOK
  <2> HIDE DEF p
  <2>3. ASSUME NEW v \in Requested'
        PROVE  result'[v] = IF Match(v) \cap Installed = {} THEN RightState(PrefixOf(v)) ELSE "valid"
    <3>1. CASE v = u
      BY <3>1, <2>1, <2>2 DEF p
    <3>2. CASE v # u
      <4>1. v \in Requested /\ v \in Update
        BY <3>2, <1>6 DEF Requested
      <4>2. result'[v] = result[v]
        BY <3>2, <4>1, <2>1, <2>2
      <4> QED BY <4>1, <4>2, <1>1 DEF ResultIsRight
    <3> QED BY <3>1, <3>2
  <2>4. ASSUME NEW v \in Requested'
        PROVE  result'[v] = IF Match(v) \cap Installed' = {} THEN RightState(PrefixOf(v))' ELSE "valid"
    BY <2>3, <1>3
  <2> QED BY <2>4 DEF ResultIsRight
<1> QED BY <1>7, <1>8, <1>9, <1>10, <1>11 DEF Exact

-----------------------------------------------------------------------------
(***************************************************************************)
(* A new announcement keeps the counters exact.                            *)
(***************************************************************************)
LEMMA ModSmall ==
  ASSUME NEW n \in Nat, n < CounterRange
  PROVE  n % CounterRange = n
<1>1. CounterRange \in Nat \ {0}
  BY PrefixCacheAssumption
<1> QED BY <1>1

\* The subtree of the ROA's prefix is what the ROA reaches.
LEMMA SubtreeReach ==
  ASSUME TypeInv, NEW r \in Roa, NEW q \in known \union {Base(r)}
  PROVE  q \in Prefix /\ (q \in Subtree(Base(r)) <=> r \in Reach(q))
BY SubtreeIs, TypesAre DEF Subtree, Reach, Base

LEMMA AddBeforeExact ==
  ASSUME TypeInv, StateIsRight, CoverageIsRight, NEW r \in Roa, NEW q \in known \union {Base(r)}
  PROVE  StateBefore(r)[q] = RightState(q) /\ CoverageBefore(r)[q] = Total(Count(q))
<1> DEFINE b == Base(r)
<1>1. b \in Prefix /\ q \in Prefix
  BY SubtreeReach, SubtreeIs
<1>2. coverage \in [Prefix -> 0 .. CounterRange - 1] /\ stateOfOther \in [Prefix -> State]
  BY DEF TypeInv, TypeOK
<1>3. CASE q \in known
  <2>1. StateBefore(r)[q] = stateOfOther[q] /\ CoverageBefore(r)[q] = coverage[q]
    BY <1>1, <1>2, <1>3 DEF StateBefore, CoverageBefore
  <2> QED BY <1>3, <2>1 DEF StateIsRight, CoverageIsRight
<1>4. CASE q \notin known
  <2>1. q = b /\ b \notin known
    BY <1>4
  <2>2. StateBefore(r)[b] = StateAbove(b)
    BY <1>1, <1>2, <2>1 DEF StateBefore
  <2>3. CoverageBefore(r)[b] = IF StateAbove(b) = "notfound" THEN 0 ELSE CheckCoverage(b)
    BY <1>1, <1>2, <2>1 DEF CoverageBefore
  <2>4. StateAbove(b) = RightState(b) /\ CheckCoverage(b) = Total(Count(b))
    BY <1>1, <2>1, StateAboveNew, CheckCoverageExact
  <2>5. RightState(b) = "notfound" => Total(Count(b)) = 0
    <3>1. Count(b) \subseteq Reach(b) /\ Count(b) \subseteq Roa
      BY CountReach
    <3>2. RightState(b) = "notfound" => Count(b) \cap Installed = {}
      BY <3>1 DEF RightState
    <3> QED BY <3>1, <3>2, TypesAre, TotalIs
  <2> QED BY <2>1, <2>2, <2>3, <2>4, <2>5
<1> QED BY <1>3, <1>4

\* The walk down reaches every prefix that must be touched or changed.
LEMMA AddVisits ==
  ASSUME TypeInv, StateIsRight, CoverageIsRight, NEW r \in Roa, NEW q \in known \union {Base(r)}
  PROVE  /\ q \in Touched(r) <=> r \in Count(q)
         /\ q \in Changed(r) <=> r \in Reach(q) /\ RightState(q) = "notfound"
<1> DEFINE b == Base(r)
<1>1. q \in Prefix /\ (q \in Subtree(b) <=> r \in Reach(q))
  BY SubtreeReach
<1>2. StateBefore(r)[q] = RightState(q)
  BY AddBeforeExact
<1>3. ASSUME NEW x \in Between(b, q)
      PROVE  x \in Above[q] /\ x \in known \union {b}
  BY DEF Between, Subtree
<1>4. ASSUME q \in Subtree(b), Covers(r, q) PROVE q \in Visited(r)
  <2>1. ASSUME NEW x \in Between(b, q) PROVE Covers(r, x)
    BY <1>1, <1>3, <1>4, ReachIs
  <2> QED BY <1>4, <2>1 DEF Visited, VisitedByAdd, Base
<1>5. ASSUME q \in Subtree(b), RightState(q) = "notfound" PROVE q \in Visited(r)
  <2>1. ASSUME NEW x \in Between(b, q) PROVE StateBefore(r)[x] = "notfound"
    <3>1. Reach(x) \subseteq Reach(q)
      BY <1>1, <1>3, ReachIs
    <3>2. RightState(x) = "notfound"
      BY <3>1, <1>5 DEF RightState
    <3> QED BY <3>2, <1>3, AddBeforeExact
  <2> QED BY <1>5, <2>1 DEF Visited, VisitedByAdd, Base
<1>6. q \in Visited(r) => q \in Subtree(b)
  BY DEF Visited, VisitedByAdd, Base
<1>7. q \in Touched(r) <=> q \in Subtree(b) /\ Covers(r, q)
  BY <1>4, <1>6 DEF Touched
<1>8. q \in Changed(r) <=> q \in Subtree(b) /\ RightState(q) = "notfound"
  BY <1>2, <1>5, <1>6 DEF Changed
<1> QED BY <1>1, <1>7, <1>8 DEF Count

\* The updates that gain a ROA are those it stands for.
LEMMA AddGains ==
  ASSUME TypeInv, Exact, NEW r \in Roa
  PROVE  Gained(r) = Stood(r)
<1>1. StateIsRight /\ CoverageIsRight /\ MatchIsRight
  BY DEF Exact
<1>2. \A u \in Requested : u \in Update /\ PrefixOf(u) \in known
  BY DEF TypeInv, InUse, Requested
<1>3. \A u \in Requested : place[u] \in {"valid", "other"}
  BY <1>1 DEF MatchIsRight
<1>4. \A u \in Requested : PrefixOf(u) \in Touched(r) <=> r \in Count(PrefixOf(u))
  BY <1>1, <1>2, AddVisits
<1>5. \A u \in Requested : u \in Gained(r) <=> r \in Match(u)
  BY <1>2, <1>3, <1>4 DEF Gained, Matched, Match
<1>6. \A u \in Gained(r) : u \in Requested
  BY DEF Gained, Matched, Requested
<1> QED BY <1>5, <1>6 DEF Stood

LEMMA AddExact ==
  ASSUME TypeInv, Exact, MaxAdds < CounterRange, NEW r \in Roa, AddEffect(r)
  PROVE  Exact'
<1> DEFINE b == Base(r)
<1>0. /\ b \in Prefix /\ known \subseteq Prefix /\ CountsAreBounded /\ roaCount \in [Roa -> Nat]
      /\ CounterRange \in Nat /\ MaxAdds \in Nat
  BY SubtreeIs, TypesAre, PrefixCacheAssumption DEF CountsAreBounded
<1>1. /\ StateIsRight /\ CoverageIsRight /\ MatchIsRight /\ UpdatesSuffice /\ ResultIsRight
  BY DEF Exact
<1>2. roaCount' = [roaCount EXCEPT ![r] = @ + 1] /\ known' = known \union {b}
  BY DEF AddEffect
<1>3. Installed' = Installed \union {r}
  BY <1>0, <1>2 DEF Installed
<1>4. \A S \in SUBSET Roa : Total(S)' = IF r \in S THEN Total(S) + 1 ELSE Total(S)
  BY <1>0, <1>2, TotalAfterAdd
<1>5. \A q : RightState(q)' = IF r \in Reach(q) THEN "invalid" ELSE RightState(q)
  <2>1. \A q : RightState(q)' = IF Reach(q) \cap Installed' = {} THEN "notfound" ELSE "invalid"
    BY DEF RightState, Reach
  <2> QED BY <1>3, <2>1 DEF RightState
<1>6. \A q \in known' : /\ q \in Prefix
                        /\ StateBefore(r)[q] = RightState(q) /\ CoverageBefore(r)[q] = Total(Count(q))
                        /\ q \in Touched(r) <=> r \in Count(q)
                        /\ q \in Changed(r) <=> r \in Reach(q) /\ RightState(q) = "notfound"
  BY <1>0, <1>1, <1>2, AddBeforeExact, AddVisits
<1>7. Gained(r) = Stood(r)
  BY AddGains
<1>8. StateIsRight'
  <2>1. \A q \in Prefix : stateOfOther'[q] = IF q \in Changed(r) THEN "invalid" ELSE StateBefore(r)[q]
    BY DEF AddEffect
  <2>2. \A q : RightState(q) \in {"notfound", "invalid"}
    BY DEF RightState
  <2>3. ASSUME NEW q \in known' PROVE stateOfOther'[q] = RightState(q)'
    BY <2>1, <2>2, <1>5, <1>6
  <2> QED BY <2>3 DEF StateIsRight
<1>9. CoverageIsRight'
  <2>1. \A q \in Prefix : coverage'[q] = IF q \in Touched(r) THEN (CoverageBefore(r)[q] + 1) % CounterRange
                                         ELSE CoverageBefore(r)[q]
    BY DEF AddEffect
  <2>2. ASSUME NEW q \in known' PROVE coverage'[q] = Total(Count(q))'
    <3> DEFINE n == Total(Count(q))
    <3>1. Count(q) \in SUBSET Roa
      BY CountReach
    <3>2. n \in Nat /\ n <= Total(Roa)
      BY <3>1, <1>0, TotalIs
    <3>3. Total(Roa) \in Nat /\ Total(Roa) <= adds /\ adds \in Nat /\ adds < MaxAdds
      BY TypesAre DEF TypeInv, TypeOK, AddEffect
    <3>4. n + 1 \in Nat /\ n + 1 < CounterRange
      BY <3>2, <3>3, <1>0
    <3>5. (n + 1) % CounterRange = n + 1
      BY <3>4, ModSmall
    <3>6. Total(Count(q))' = IF r \in Count(q) THEN n + 1 ELSE n
      BY <3>1, <1>4
    <3> QED BY <3>5, <3>6, <2>1, <1>6
  <2> QED BY <2>2 DEF CoverageIsRight
<1>10. \A u \in Update : place'[u] = IF u \in Stood(r) THEN "valid" ELSE place[u]
  BY <1>7 DEF AddEffect
<1>11. Requested' = Requested
  BY <1>10 DEF Requested, Stood
<1>12. \A u \in Requested : u \in Update /\ (u \in Stood(r) <=> r \in Match(u))
  BY DEF Stood, Requested
<1>13. MatchIsRight'
  <2>1. \A u \in Update : roaMatch'[u] = IF u \in Stood(r) THEN roaMatch[u] + 1 ELSE roaMatch[u]
    BY <1>7 DEF AddEffect
  <2>2. ASSUME NEW u \in Requested PROVE roaMatch'[u] = Total(Match(u))'
    <3>1. Match(u) \in SUBSET Roa
      BY MatchCount
    <3>2. Total(Match(u))' = IF r \in Match(u) THEN Total(Match(u)) + 1 ELSE Total(Match(u))
      BY <3>1, <1>4
    <3> QED BY <3>2, <2>1, <1>1, <1>12 DEF MatchIsRight
  <2>3. ASSUME NEW u \in Requested
        PROVE  place'[u] = IF Match(u) \cap Installed' = {} THEN "other" ELSE "valid"
    BY <1>1, <1>3, <1>10, <1>12 DEF MatchIsRight
  <2>4. ASSUME NEW u \in Requested'
        PROVE  /\ roaMatch'[u] = Total(Match(u))'
               /\ place'[u] = IF Match(u) \cap Installed' = {} THEN "other" ELSE "valid"
    BY <2>2, <2>3, <1>11
  <2> QED BY <2>4 DEF MatchIsRight
<1>14. UpdatesSuffice'
  <2> SUFFICES ASSUME NEW x \in Installed' PROVE Cardinality(Stood(x)') <= roaUpdates'[x]
    BY DEF UpdatesSuffice, Stood
  <2>1. Stood(x)' = Stood(x) /\ x \in Roa
    BY <1>3, <1>11 DEF Stood, Installed
  <2>2. /\ roaUpdates \in [Roa -> Nat]
        /\ roaUpdates' = [roaUpdates EXCEPT ![r] = @ + Cardinality(Stood(r))]
    BY <1>7 DEF AddEffect, TypeInv, TypeOK
  <2>3. Cardinality(Stood(r)) \in Nat /\ Cardinality(Stood(x)) \in Nat
    BY StoodIs
  <2>4. CASE x = r
    BY <2>1, <2>2, <2>3, <2>4
  <2>5. CASE x # r
    <3>1. Cardinality(Stood(x)) <= roaUpdates[x]
      BY <2>5, <1>1, <1>3 DEF UpdatesSuffice, Stood
    <3> QED BY <3>1, <2>1, <2>2, <2>5
  <2> QED BY <2>4, <2>5
<1>15. ResultIsRight'
  <2>1. \A u \in Update : result'[u] = IF u \in Stood(r) /\ place[u] = "other" THEN "valid"
                                       ELSE IF place[u] = "other" /\ PrefixOf(u) \in Changed(r) THEN "invalid"
                                       ELSE result[u]
    BY <1>7 DEF AddEffect, FollowsState
  <2>2. ASSUME NEW u \in Requested
        PROVE  result'[u] = IF Match(u) \cap Installed' = {} THEN RightState(PrefixOf(u))' ELSE "valid"
    <3>1. u \in Update /\ PrefixOf(u) \in known'
      BY <1>2 DEF TypeInv, InUse, Requested
    <3>2. place[u] = IF Match(u) \cap Installed = {} THEN "other" ELSE "valid"
      BY <1>1 DEF MatchIsRight
    <3>3. result[u] = IF Match(u) \cap Installed = {} THEN RightState(PrefixOf(u)) ELSE "valid"
      BY <1>1 DEF ResultIsRight
    <3>4. CASE Match(u) \cap Installed # {}
      BY <3>1, <3>2, <3>3, <3>4, <2>1, <1>3
    <3>5. CASE Match(u) \cap Installed = {} /\ r \in Match(u)
      BY <3>1, <3>2, <3>5, <2>1, <1>3, <1>12
    <3>6. CASE Match(u) \cap Installed = {} /\ r \notin Match(u)
      <4>1. Match(u) \cap Installed' = {} /\ u \notin Stood(r) /\ place[u] = "other"
        BY <3>2, <3>6, <1>3 DEF Stood
      <4>2. result'[u] = IF PrefixOf(u) \in Changed(r) THEN "invalid" ELSE RightState(PrefixOf(u))
        BY <4>1, <3>1, <3>3, <3>6, <2>1
      <4>3. PrefixOf(u) \in Changed(r) <=> r \in Reach(PrefixOf(u)) /\ RightState(PrefixOf(u)) = "notfound"
        BY <3>1, <1>6
      <4>4. RightState(PrefixOf(u)) \in {"notfound", "invalid"}
        BY DEF RightState
      <4>5. RightState(PrefixOf(u))' = IF r \in Reach(PrefixOf(u)) THEN "invalid" ELSE RightState(PrefixOf(u))
        BY <1>5
      <4> QED BY <4>1, <4>2, <4>3, <4>4, <4>5
    <3> QED BY <3>4, <3>5, <3>6
  <2>3. ASSUME NEW u \in Requested'
        PROVE  result'[u] = IF Match(u) \cap Installed' = {} THEN RightState(PrefixOf(u))' ELSE "valid"
    BY <2>2, <1>11
  <2> QED BY <2>3 DEF ResultIsRight
<1> QED BY <1>8, <1>9, <1>13, <1>14, <1>15 DEF Exact

-----------------------------------------------------------------------------
(***************************************************************************)
(* A withdrawal keeps the counters exact.                                  *)
(***************************************************************************)
LEMMA TotalZero ==
  CountsAreBounded => \A S \in SUBSET Roa : Total(S) \in Nat /\ (Total(S) = 0 <=> S \cap Installed = {})
BY TotalIs

LEMMA TotalZeroAfter ==
  CountsAreBounded' => \A S \in SUBSET Roa : Total(S)' \in Nat /\ (Total(S)' = 0 <=> S \cap Installed' = {})
<1>1. CountsAreBounded' =>
        (\A S \in SUBSET Roa : Total(S) \in Nat /\ (Total(S) = 0 <=> S \cap Installed = {}))'
  BY TotalZero, PTL
<1> QED BY <1>1

LEMMA DelRoas ==
  ASSUME TypeInv, NEW r \in Roa, NEW visited, NEW unfound, NEW treated, NEW lost,
         DelEffect(r, visited, unfound, treated, lost)
  PROVE  /\ r \in Installed /\ Installed' \subseteq Installed
         /\ \A x \in Installed : x # r => x \in Installed'
         /\ r \in Installed' => roaCount[r] > 1
         /\ \A S \in SUBSET Roa : /\ Total(S)' = IF r \in S THEN Total(S) - 1 ELSE Total(S)
                                  /\ Total(S)' = 0 <=> S \cap Installed' = {}
         /\ \A q : RightState(q)' = IF Reach(q) \cap Installed' = {} THEN "notfound" ELSE "invalid"
         /\ Base(r) \in known
<1>1. roaCount[r] > 0 /\ roaCount' = [roaCount EXCEPT ![r] = @ - 1] /\ adds' = adds
  BY DEF DelEffect
<1>2. CountsAreBounded /\ roaCount \in [Roa -> Nat]
  BY TypesAre DEF CountsAreBounded
<1>3. /\ r \in Installed /\ Installed' \subseteq Installed
      /\ \A x \in Installed : x # r => x \in Installed'
      /\ r \in Installed' => roaCount[r] > 1
  BY <1>1, <1>2 DEF Installed
<1>4. CountsAreBounded'
  <2>1. roaCount' \in [Roa -> Nat]
    BY <1>1, <1>2
  <2>2. \A x \in Roa : roaCount'[x] <= adds
    BY <1>1, <1>2 DEF CountsAreBounded
  <2> QED BY <1>1, <1>2, <2>1, <2>2 DEF CountsAreBounded
<1>5. \A S \in SUBSET Roa : Total(S)' = 0 <=> S \cap Installed' = {}
  BY <1>4, TotalZeroAfter
<1>6. \A S \in SUBSET Roa : Total(S)' = IF r \in S THEN Total(S) - 1 ELSE Total(S)
  BY <1>1, <1>2, TotalAfterDel
<1>7. \A q : RightState(q)' = IF Reach(q) \cap Installed' = {} THEN "notfound" ELSE "invalid"
  BY DEF RightState, Reach
<1>8. Base(r) \in known
  BY <1>3 DEF TypeInv, InUse, Base
<1> QED BY <1>3, <1>5, <1>6, <1>7, <1>8

\* The counter of a prefix below the ROA, if it is visited.
LEMMA CoverageAfterIs ==
  ASSUME TypeInv, Exact, NEW r \in Roa, NEW visited, NEW unfound, NEW treated, NEW lost,
         DelEffect(r, visited, unfound, treated, lost), NEW q \in Subtree(Base(r))
  PROVE  CoverageAfter(r, q) = Total(Count(q))'
<1>1. q \in known /\ q \in Prefix /\ r \in Reach(q)
  <2>1. q \in known
    BY DelRoas DEF Subtree
  <2> QED BY <2>1, SubtreeReach
<1>2. Count(q) \in SUBSET Roa
  BY CountReach
<1>3. coverage[q] = Total(Count(q))
  BY <1>1 DEF Exact, CoverageIsRight
<1>4. r \in Count(q) <=> Covers(r, q)
  BY <1>1 DEF Count
<1>5. Total(Count(q))' = IF r \in Count(q) THEN Total(Count(q)) - 1 ELSE Total(Count(q))
  BY <1>2, DelRoas
<1>6. CASE Covers(r, q)
  <2>1. Total(Count(q)) \in Nat /\ Total(Count(q)) # 0
    <3>1. r \in Count(q) \cap Installed
      BY <1>4, <1>6, DelRoas
    <3> QED BY <3>1, <1>2, TypesAre, TotalIs
  <2>2. coverage[q] \in 0 .. CounterRange - 1 /\ CounterRange \in Nat
    BY <1>1, TypesAre, PrefixCacheAssumption
  <2>3. coverage[q] - 1 \in Nat /\ coverage[q] - 1 < CounterRange
    BY <1>3, <2>1, <2>2
  <2>4. (coverage[q] - 1) % CounterRange = coverage[q] - 1
    BY <2>3, ModSmall
  <2> QED BY <2>4, <1>3, <1>4, <1>5, <1>6 DEF CoverageAfter, Decrement
<1>7. CASE ~Covers(r, q)
  BY <1>3, <1>4, <1>5, <1>7 DEF CoverageAfter
<1> QED BY <1>6, <1>7

\* What a prefix below the ROA shares with its parent in the subtree.
LEMMA ParentReach ==
  ASSUME TypeInv, NEW r \in Installed, NEW q \in Subtree(Base(r)), q # Base(r), Base(r) \in known
  PROVE  /\ Closest(Between(Base(r), q)) \in Subtree(Base(r))
         /\ Closest(Between(Base(r), q)) \in Above[q]
         /\ \A x \in Installed : x \in Reach(q) =>
              Entry[x].prefix = q \/ x \in Reach(Closest(Between(Base(r), q)))
<1> DEFINE b == Base(r)
           C == Between(b, q)
           c == Closest(C)
<1>0. r \in Roa
  BY DEF Installed
<1>1. b \in Prefix /\ q \in Prefix /\ q \in known /\ b \in Above[q]
  BY <1>0, SubtreeIs, TypesAre DEF Subtree
<1>2. C \subseteq Above[q] /\ C \subseteq Subtree(b) /\ b \in C
  BY <1>1 DEF Between, Subtree
<1>3. c \in C /\ \A x \in C : x = c \/ x \in Above[c]
  BY <1>1, <1>2, ClosestIs
<1> HIDE DEF c
<1>4. c \in Above[q] /\ c \in Subtree(b) /\ c \in Prefix /\ (b = c \/ b \in Above[c])
  BY <1>1, <1>2, <1>3, AboveIs
<1>5. ASSUME NEW x \in Installed, x \in Reach(q), Entry[x].prefix # q
      PROVE  x \in Reach(c)
  <2> DEFINE e == Entry[x].prefix
  <2>1. x \in Roa /\ e \in Above[q] /\ e \in known /\ e \in Prefix
    BY <1>5, EntryIs DEF Reach, Installed, TypeInv, InUse
  <2>2. e = b \/ b \in Above[e] \/ e \in Above[b]
    BY <1>1, <2>1, PrefixCacheAssumption
  <2>3. CASE e = b \/ b \in Above[e]
    <3>1. e \in C
      BY <2>1, <2>3 DEF Between, Subtree
    <3>2. e = c \/ e \in Above[c]
      BY <1>3, <3>1
    <3> QED BY <2>1, <3>2 DEF Reach
  <2>4. CASE e \in Above[b]
    <3>1. e \in Above[c]
      BY <1>4, <2>4, AboveIs
    <3> QED BY <2>1, <3>1 DEF Reach
  <2> QED BY <2>2, <2>3, <2>4
<1> QED BY <1>4, <1>5 DEF c

\* What the walk down of a withdrawal must come to at a prefix.
DelRight(r, visited, unfound, q) ==
  /\ q \in visited => (q \in unfound <=> Reach(q) \cap Installed' = {})
  /\ q \notin visited => ~Covers(r, q) /\ Reach(q) \cap Installed' # {} /\ q \notin unfound

LEMMA DelRightTop ==
  ASSUME TypeInv, Exact, NEW r \in Roa, NEW visited, NEW unfound, NEW treated, NEW lost,
         DelEffect(r, visited, unfound, treated, lost)
  PROVE  Base(r) \in visited /\ DelRight(r, visited, unfound, Base(r))
<1> DEFINE b == Base(r)
<1>0. b \in Prefix /\ b \in Subtree(b)
  BY SubtreeIs
<1>1. /\ b \in visited
      /\ b \in unfound <=> CoverageAfter(r, b) = 0 /\ StateAbove(b) = "notfound"
  <2>1. RevalidateUpdates(r, visited, unfound)
    BY DEF DelEffect
  <2> QED BY <1>0, <2>1 DEF RevalidateUpdates, Base
<1>2. Count(b) \in SUBSET Roa
  BY CountReach
<1>3. CoverageAfter(r, b) = 0 <=> Count(b) \cap Installed' = {}
  BY <1>0, <1>2, CoverageAfterIs, DelRoas
<1>4. StateAbove(b) = "notfound" <=> ~\E x \in Installed : Entry[x].prefix \in Above[b]
  BY <1>0, StateAboveExact DEF Exact
<1>5. Installed' \subseteq Installed /\ (\A x \in Installed : x # r => x \in Installed') /\ Installed \subseteq Roa
  BY DelRoas DEF Installed
<1>6. b \notin Above[b]
  BY <1>0, AboveIs
<1>7. ASSUME NEW x \in Reach(b) \cap Installed', Count(b) \cap Installed' = {}
      PROVE  x \in Installed /\ Entry[x].prefix \in Above[b]
  <2>1. x \in Installed /\ x \in Roa /\ x \notin Count(b)
    BY <1>5, <1>7
  <2>2. Entry[x].prefix # b
    BY <2>1, RoaCoversOwn
  <2> QED BY <2>1, <2>2, <1>7 DEF Reach
<1>8. ASSUME NEW x \in Installed, Entry[x].prefix \in Above[b] PROVE x \in Reach(b) \cap Installed'
  BY <1>5, <1>6, <1>8 DEF Reach, Base
<1>9. Count(b) \subseteq Reach(b)
  BY CountReach
<1>10. b \in unfound <=> Reach(b) \cap Installed' = {}
  BY <1>1, <1>3, <1>4, <1>7, <1>8, <1>9
<1> QED BY <1>1, <1>10 DEF DelRight

LEMMA DelRightBelow ==
  ASSUME TypeInv, Exact, NEW r \in Roa, NEW visited, NEW unfound, NEW treated, NEW lost,
         DelEffect(r, visited, unfound, treated, lost),
         NEW q \in Subtree(Base(r)), q # Base(r),
         DelRight(r, visited, unfound, Closest(Between(Base(r), q)))
  PROVE  DelRight(r, visited, unfound, q)
<1> DEFINE b == Base(r)
           c == Closest(Between(b, q))
<1>0. r \in Installed /\ b \in known /\ Installed' \subseteq Installed /\ Installed \subseteq Roa
  BY DelRoas DEF Installed
<1>1. /\ q \in visited <=> c \in visited /\ (Covers(r, c) \/ c \in unfound)
      /\ q \in unfound <=> q \in visited /\ CoverageAfter(r, q) = 0 /\ StateAfter(c, unfound) = "notfound"
  <2>1. RevalidateUpdates(r, visited, unfound)
    BY DEF DelEffect
  <2> QED BY <2>1 DEF RevalidateUpdates, Base
<1>2. /\ c \in Subtree(b) /\ c \in Above[q]
      /\ \A x \in Installed : x \in Reach(q) => Entry[x].prefix = q \/ x \in Reach(c)
  BY <1>0, ParentReach
<1>3. DelRight(r, visited, unfound, c)
  OBVIOUS
<1> HIDE DEF c
<1>4. q \in Prefix /\ q \in known /\ c \in known /\ r \in Reach(c)
  <2>1. q \in known /\ c \in known
    BY <1>0, <1>2 DEF Subtree
  <2> QED BY <2>1, <1>2, SubtreeReach
<1>5. Reach(c) \subseteq Reach(q) /\ (Covers(r, q) => Covers(r, c))
  BY <1>2, <1>4, ReachIs
<1>6. CASE q \notin visited
  BY <1>1, <1>3, <1>5, <1>6 DEF DelRight
<1>7. CASE q \in visited
  <2>1. Count(q) \in SUBSET Roa /\ Count(q) \subseteq Reach(q)
    BY CountReach
  <2>2. CoverageAfter(r, q) = 0 <=> Count(q) \cap Installed' = {}
    BY <2>1, CoverageAfterIs, DelRoas
  <2>3. stateOfOther[c] = "invalid"
    BY <1>0, <1>4 DEF Exact, StateIsRight, RightState
  <2>4. StateAfter(c, unfound) = "notfound" <=> c \in unfound
    BY <2>3 DEF StateAfter
  <2>5. c \in unfound <=> Reach(c) \cap Installed' = {}
    BY <1>1, <1>3, <1>7 DEF DelRight
  <2>6. ASSUME NEW x \in Reach(q) \cap Installed' PROVE x \in Count(q) \/ x \in Reach(c)
    <3>1. x \in Installed /\ x \in Roa
      BY <1>0
    <3>2. Entry[x].prefix = q => x \in Count(q)
      BY <3>1, RoaCoversOwn
    <3> QED BY <3>1, <3>2, <1>2
  <2>7. q \in unfound <=> Reach(q) \cap Installed' = {}
    BY <1>1, <1>5, <1>7, <2>1, <2>2, <2>4, <2>5, <2>6
  <2> QED BY <1>7, <2>7 DEF DelRight
<1> QED BY <1>6, <1>7

\* A shortest prefix at which the walk is wrong does not exist.
LEMMA DelVisits ==
  ASSUME TypeInv, Exact, NEW r \in Roa, NEW visited, NEW unfound, NEW treated, NEW lost,
         DelEffect(r, visited, unfound, treated, lost)
  PROVE  \A q \in Subtree(Base(r)) : DelRight(r, visited, unfound, q)
<1> DEFINE b == Base(r)
           Wrong == {q \in Subtree(b) : ~DelRight(r, visited, unfound, q)}
           N == {Length[q] : q \in Wrong}
<1>0. r \in Installed /\ b \in known /\ Subtree(b) \subseteq Prefix
  BY DelRoas, SubtreeIs
<1> SUFFICES ASSUME Wrong # {} PROVE FALSE
  OBVIOUS
<1>1. N \in SUBSET Nat /\ N # {}
  BY <1>0, PrefixCacheAssumption
<1>2. PICK n \in N : \A m \in N : n <= m
  <2> HIDE DEF N
  <2> QED BY <1>1, LeastNumber
<1>3. PICK q \in Wrong : n = Length[q]
  BY <1>2
<1>4. q \in Subtree(b) /\ ~DelRight(r, visited, unfound, q)
  BY <1>3
<1>5. q # b
  BY <1>4, DelRightTop
<1> DEFINE c == Closest(Between(b, q))
<1>6. c \in Subtree(b) /\ c \in Above[q]
  BY <1>0, <1>4, <1>5, ParentReach
<1>7. Length[c] \in Nat /\ Length[q] \in Nat /\ Length[c] < Length[q]
  BY <1>0, <1>4, <1>6, AboveIs
<1>8. c \notin Wrong
  <2>1. c \in Wrong => Length[c] \in N
    OBVIOUS
  <2>2. Length[c] \in N => Length[q] <= Length[c]
    BY <1>2, <1>3
  <2> QED BY <2>1, <2>2, <1>7
<1>9. DelRight(r, visited, unfound, c)
  BY <1>6, <1>8
<1> QED BY <1>4, <1>5, <1>9, DelRightBelow

\* The state and the counter of every prefix after the withdrawal.
LEMMA DelPrefixes ==
  ASSUME TypeInv, Exact, NEW r \in Roa, NEW visited, NEW unfound, NEW treated, NEW lost,
         DelEffect(r, visited, unfound, treated, lost), NEW q \in known
  PROVE  /\ StateAfter(q, unfound) = RightState(q)' /\ coverage'[q] = Total(Count(q))'
         /\ q \notin visited => StateAfter(q, unfound) = RightState(q)
         /\ q \in visited => r \in Reach(q)
         /\ r \in Count(q) => q \in visited
<1> DEFINE b == Base(r)
<1>1. /\ r \in Installed /\ Installed' \subseteq Installed /\ (\A x \in Installed : x # r => x \in Installed')
      /\ RightState(q)' = IF Reach(q) \cap Installed' = {} THEN "notfound" ELSE "invalid"
  BY DelRoas
<1>2. q \in Prefix /\ (q \in Subtree(b) <=> r \in Reach(q))
  BY SubtreeReach
<1>3. stateOfOther[q] = RightState(q) /\ coverage[q] = Total(Count(q))
  BY DEF Exact, StateIsRight, CoverageIsRight
<1>4. visited \subseteq Subtree(b) /\ unfound \subseteq Subtree(b)
  BY DEF DelEffect
<1>5. coverage'[q] = IF q \in visited THEN CoverageAfter(r, q) ELSE coverage[q]
  BY <1>2 DEF DelEffect
<1>6. Count(q) \in SUBSET Roa /\ (r \in Count(q) <=> r \in Reach(q) /\ Covers(r, q))
  BY CountReach DEF Count
<1>7. Total(Count(q))' = IF r \in Count(q) THEN Total(Count(q)) - 1 ELSE Total(Count(q))
  BY <1>6, DelRoas
<1>8. CASE q \in Subtree(b)
  <2>1. DelRight(r, visited, unfound, q)
    BY <1>8, DelVisits
  <2>2. RightState(q) = "invalid"
    BY <1>1, <1>2, <1>8 DEF RightState
  <2>3. StateAfter(q, unfound) = RightState(q)' /\ (q \notin visited => StateAfter(q, unfound) = RightState(q))
    BY <1>1, <1>3, <2>1, <2>2 DEF DelRight, StateAfter
  <2>4. CoverageAfter(r, q) = Total(Count(q))'
    BY <1>8, CoverageAfterIs
  <2>5. q \notin visited => ~Covers(r, q)
    BY <2>1 DEF DelRight
  <2> QED BY <1>2, <1>3, <1>5, <1>6, <1>7, <1>8, <2>3, <2>4, <2>5
<1>9. CASE q \notin Subtree(b)
  <2>1. q \notin visited /\ q \notin unfound /\ r \notin Reach(q)
    BY <1>2, <1>4, <1>9
  <2>2. Reach(q) \cap Installed' = Reach(q) \cap Installed
    BY <1>1, <2>1
  <2>3. StateAfter(q, unfound) = RightState(q) /\ RightState(q) = RightState(q)'
    BY <1>1, <1>3, <2>1, <2>2 DEF StateAfter, RightState
  <2> QED BY <1>3, <1>5, <1>6, <1>7, <2>1, <2>3
<1> QED BY <1>8, <1>9

\* All updates the ROA stands for are treated, and none is lost.
LEMMA DelTreats ==
  ASSUME TypeInv, Exact, NEW r \in Roa, NEW visited, NEW unfound, NEW treated, NEW lost,
         DelEffect(r, visited, unfound, treated, lost)
  PROVE  treated = Stood(r) /\ lost = {}
<1> DEFINE K == Candidates(r, visited)
<1>1. r \in Installed
  BY DelRoas
<1>2. MatchIsRight /\ UpdatesSuffice
  BY DEF Exact
<1>3. ASSUME NEW u \in Stood(r) PROVE u \in K
  <2>1. u \in Requested /\ r \in Match(u) /\ u \in Update
    BY DEF Stood, Requested
  <2>2. PrefixOf(u) \in known
    BY <2>1 DEF TypeInv, InUse
  <2>3. r \in Count(PrefixOf(u)) /\ Entry[r].as = Route[u].as
    BY <2>1 DEF Match
  <2>4. PrefixOf(u) \in visited /\ Covers(r, PrefixOf(u))
    BY <2>2, <2>3, DelPrefixes DEF Count
  <2>5. place[u] = "valid"
    BY <2>1, <1>1, <1>2 DEF MatchIsRight
  <2> QED BY <2>1, <2>3, <2>4, <2>5 DEF Candidates
<1>4. ASSUME NEW u \in K PROVE u \in Stood(r)
  <2>1. u \in Update /\ place[u] = "valid" /\ PrefixOf(u) \in visited /\ Covers(r, PrefixOf(u))
        /\ Route[u].as = Entry[r].as
    BY DEF Candidates
  <2>2. u \in Requested
    BY <2>1 DEF Requested
  <2>3. PrefixOf(u) \in known
    BY <2>2 DEF TypeInv, InUse
  <2>4. r \in Reach(PrefixOf(u))
    BY <2>1, <2>3, DelPrefixes
  <2> QED BY <2>1, <2>2, <2>4 DEF Stood, Match, Count
<1>5. K = Stood(r)
  BY <1>3, <1>4
<1>6. /\ MayBeTreated(r, Stood(r), treated)
      /\ MayBeLost(Moved(treated), treated \ Moved(treated), lost)
  BY <1>5 DEF DelEffect
<1>7. Cardinality(Stood(r)) <= roaUpdates[r]
  BY <1>1, <1>2 DEF UpdatesSuffice, Stood
<1>8. roaUpdates[r] \in Nat /\ IsFiniteSet(Stood(r)) /\ Cardinality(Stood(r)) \in Nat
  BY StoodIs DEF TypeInv, TypeOK
<1>9. treated = Stood(r)
  <2>1. treated \subseteq Stood(r)
    BY <1>6 DEF MayBeTreated
  <2>2. CASE roaCount[r] > 1
    <3>1. treated = IF roaUpdates[r] > 0 THEN Stood(r) ELSE {}
      BY <1>6, <2>2 DEF MayBeTreated
    <3>2. CASE roaUpdates[r] > 0
      BY <3>1, <3>2
    <3>3. CASE ~(roaUpdates[r] > 0)
      <4>1. Cardinality(Stood(r)) = 0
        BY <1>7, <1>8, <3>3
      <4>2. Stood(r) = {}
        BY <4>1, <1>8, FS_EmptySet
      <4> QED BY <4>2, <2>1
    <3> QED BY <3>2, <3>3
  <2>3. CASE ~(roaCount[r] > 1)
    <3>1. Cardinality(treated) = IF roaUpdates[r] < Cardinality(Stood(r)) THEN roaUpdates[r]
                                 ELSE Cardinality(Stood(r))
      BY <1>6, <2>3 DEF MayBeTreated
    <3>2. Cardinality(treated) = Cardinality(Stood(r))
      BY <3>1, <1>7, <1>8
    <3> QED BY <3>2, <2>1, <1>8, FS_Subset
  <2> QED BY <2>2, <2>3
<1>10. ASSUME NEW u \in lost PROVE FALSE
  <2>1. u \in treated /\ u \notin Moved(treated)
    BY <1>6 DEF MayBeLost
  <2>2. PICK v \in Moved(treated) : PrefixOf(v) = PrefixOf(u)
    BY <1>6 DEF MayBeLost
  <2>3. v \in treated /\ roaMatch[v] = 1
    BY <2>2 DEF Moved
  <2>4. u \in Requested /\ v \in Requested /\ r \in Match(u) /\ r \in Match(v)
    BY <2>1, <2>3, <1>9 DEF Stood
  <2>5. Route[u].as = Route[v].as
    BY <2>4 DEF Match
  <2>6. Match(u) = Match(v)
    BY <2>2, <2>5 DEF Match
  <2>7. roaMatch[u] = Total(Match(u)) /\ roaMatch[v] = Total(Match(v))
    BY <2>4, <1>2 DEF MatchIsRight
  <2>8. roaMatch[u] = 1
    BY <2>3, <2>6, <2>7
  <2> QED BY <2>1, <2>8 DEF Moved
<1> QED BY <1>9, <1>10

LEMMA DelExact ==
  ASSUME TypeInv, Exact, MaxAdds < CounterRange, NEW r \in Roa,
         NEW visited, NEW unfound, NEW treated, NEW lost,
         DelEffect(r, visited, unfound, treated, lost)
  PROVE  Exact'
<1>0. /\ r \in Installed /\ Installed' \subseteq Installed /\ Installed \subseteq Roa
      /\ \A x \in Installed : x # r => x \in Installed'
      /\ r \in Installed' => roaCount[r] > 1
  BY DelRoas DEF Installed
<1>1. StateIsRight /\ CoverageIsRight /\ MatchIsRight /\ UpdatesSuffice /\ ResultIsRight
  BY DEF Exact
<1>2. \A S \in SUBSET Roa : /\ Total(S)' = IF r \in S THEN Total(S) - 1 ELSE Total(S)
                            /\ Total(S)' = 0 <=> S \cap Installed' = {}
  BY DelRoas
<1>3. treated = Stood(r) /\ lost = {}
  BY DelTreats
<1>4. known' \subseteq known /\ known \subseteq Prefix
  BY TypesAre DEF DelEffect
<1>5. \A q \in known : /\ StateAfter(q, unfound) = RightState(q)' /\ coverage'[q] = Total(Count(q))'
                       /\ q \notin visited => StateAfter(q, unfound) = RightState(q)
  BY DelPrefixes
<1>6. StateIsRight'
  <2>1. \A q \in Prefix : stateOfOther'[q] = StateAfter(q, unfound)
    BY DEF DelEffect
  <2>2. ASSUME NEW q \in known' PROVE stateOfOther'[q] = RightState(q)'
    BY <2>1, <1>4, <1>5
  <2> QED BY <2>2 DEF StateIsRight
<1>7. CoverageIsRight'
  <2>1. ASSUME NEW q \in known' PROVE coverage'[q] = Total(Count(q))'
    BY <1>4, <1>5
  <2> QED BY <2>1 DEF CoverageIsRight
<1>8. \A u \in Update : /\ place'[u] = IF u \in Moved(Stood(r)) THEN "other" ELSE place[u]
                        /\ roaMatch'[u] = IF u \in Stood(r) THEN roaMatch[u] - 1 ELSE roaMatch[u]
  BY <1>3, DelUpdates
<1>9. \A u \in Moved(Stood(r)) : u \in Stood(r) /\ roaMatch[u] = 1
  BY DEF Moved
<1>10. Requested' = Requested
  BY <1>8, <1>9 DEF Requested, Stood
<1>11. ASSUME NEW u \in Requested
       PROVE  /\ u \in Update /\ PrefixOf(u) \in known
              /\ u \in Stood(r) <=> r \in Match(u)
              /\ Match(u) \in SUBSET Roa
              /\ Total(Match(u)) \in Nat
              /\ roaMatch[u] = Total(Match(u))
              /\ place[u] = IF Match(u) \cap Installed = {} THEN "other" ELSE "valid"
              /\ result[u] = IF Match(u) \cap Installed = {} THEN RightState(PrefixOf(u)) ELSE "valid"
  <2>1. u \in Update /\ PrefixOf(u) \in known
    BY DEF Requested, TypeInv, InUse
  <2>2. Match(u) \in SUBSET Roa
    BY MatchCount
  <2>3. Total(Match(u)) \in Nat
    BY <2>2, TypesAre, TotalIs
  <2>4. u \in Stood(r) <=> r \in Match(u)
    BY DEF Stood
  <2>5. /\ roaMatch[u] = Total(Match(u))
        /\ place[u] = IF Match(u) \cap Installed = {} THEN "other" ELSE "valid"
    BY <1>1 DEF MatchIsRight
  <2>6. result[u] = IF Match(u) \cap Installed = {} THEN RightState(PrefixOf(u)) ELSE "valid"
    BY <1>1 DEF ResultIsRight
  <2> QED BY <2>1, <2>2, <2>3, <2>4, <2>5, <2>6
<1>12. ASSUME NEW u \in Requested
       PROVE  u \in Moved(Stood(r)) <=> r \in Match(u) /\ Match(u) \cap Installed' = {}
  <2>1. CASE r \in Match(u)
    <3>1. Total(Match(u))' = Total(Match(u)) - 1 /\ (Total(Match(u))' = 0 <=> Match(u) \cap Installed' = {})
      BY <2>1, <1>2, <1>11
    <3>2. u \in Moved(Stood(r)) <=> Total(Match(u)) = 1
      BY <2>1, <1>11 DEF Moved
    <3>3. Total(Match(u)) \in Nat
      BY <1>11
    <3> QED BY <2>1, <3>1, <3>2, <3>3
  <2>2. CASE r \notin Match(u)
    BY <2>2, <1>9, <1>11
  <2> QED BY <2>1, <2>2
<1>13. ASSUME NEW u \in Requested, r \notin Match(u)
       PROVE  Match(u) \cap Installed' = Match(u) \cap Installed
  BY <1>0, <1>13
<1>14. MatchIsRight'
  <2>1. ASSUME NEW u \in Requested
        PROVE  /\ roaMatch'[u] = Total(Match(u))'
               /\ place'[u] = IF Match(u) \cap Installed' = {} THEN "other" ELSE "valid"
    <3>1. Total(Match(u))' = IF r \in Match(u) THEN Total(Match(u)) - 1 ELSE Total(Match(u))
      BY <1>2, <1>11
    <3>2. roaMatch'[u] = Total(Match(u))'
      BY <3>1, <1>8, <1>11
    <3>3. CASE r \in Match(u)
      <4>1. place[u] = "valid"
        BY <3>3, <1>0, <1>11
      <4>2. place'[u] = IF Match(u) \cap Installed' = {} THEN "other" ELSE "valid"
        BY <4>1, <3>3, <1>8, <1>11, <1>12
      <4> QED BY <3>2, <4>2
    <3>4. CASE r \notin Match(u)
      <4>1. place'[u] = place[u]
        BY <3>4, <1>8, <1>11, <1>12
      <4>2. place[u] = IF Match(u) \cap Installed' = {} THEN "other" ELSE "valid"
        BY <3>4, <1>11, <1>13
      <4> QED BY <3>2, <4>1, <4>2
    <3> QED BY <3>3, <3>4
  <2>2. ASSUME NEW u \in Requested'
        PROVE  /\ roaMatch'[u] = Total(Match(u))'
               /\ place'[u] = IF Match(u) \cap Installed' = {} THEN "other" ELSE "valid"
    BY <2>1, <1>10
  <2> QED BY <2>2 DEF MatchIsRight
<1>15. UpdatesSuffice'
  <2> SUFFICES ASSUME NEW x \in Installed' PROVE Cardinality(Stood(x)') <= roaUpdates'[x]
    BY DEF UpdatesSuffice, Stood
  <2>1. Stood(x)' = Stood(x) /\ x \in Installed /\ x \in Roa
    BY <1>0, <1>10 DEF Stood
  <2>2. roaUpdates'[x] = roaUpdates[x]
    <3>1. roaUpdates \in [Roa -> Nat] /\ roaUpdates' = [roaUpdates EXCEPT ![r] = IF roaCount[r] > 1 THEN @ ELSE 0]
      BY DEF DelEffect, TypeInv, TypeOK
    <3> QED BY <3>1, <2>1, <1>0
  <2>3. Cardinality(Stood(x)) <= roaUpdates[x]
    BY <2>1, <1>1 DEF UpdatesSuffice, Stood
  <2> QED BY <2>1, <2>2, <2>3
<1>16. ResultIsRight'
  <2>1. \A u \in Update : result'[u] = IF u \in Moved(Stood(r)) \/ (place[u] = "other" /\ PrefixOf(u) \in visited)
                                       THEN StateAfter(PrefixOf(u), unfound) ELSE result[u]
    BY <1>3 DEF DelEffect, FollowsState
  <2>2. ASSUME NEW u \in Requested
        PROVE  result'[u] = IF Match(u) \cap Installed' = {} THEN RightState(PrefixOf(u))' ELSE "valid"
    <3>1. /\ StateAfter(PrefixOf(u), unfound) = RightState(PrefixOf(u))'
          /\ PrefixOf(u) \notin visited => StateAfter(PrefixOf(u), unfound) = RightState(PrefixOf(u))
      BY <1>5, <1>11
    <3>2. CASE r \in Match(u)
      <4>1. place[u] = "valid" /\ result[u] = "valid"
        BY <3>2, <1>0, <1>11
      <4> QED BY <3>1, <3>2, <4>1, <2>1, <1>11, <1>12
    <3>3. CASE r \notin Match(u) /\ Match(u) \cap Installed # {}
      <4>1. place[u] = "valid" /\ result[u] = "valid" /\ u \notin Moved(Stood(r))
        BY <3>3, <1>11, <1>12
      <4>2. result'[u] = "valid"
        BY <4>1, <2>1, <1>11
      <4>3. Match(u) \cap Installed' # {}
        BY <3>3, <1>13
      <4> QED BY <4>2, <4>3
    <3>4. CASE r \notin Match(u) /\ Match(u) \cap Installed = {}
      <4>1. place[u] = "other" /\ result[u] = RightState(PrefixOf(u)) /\ u \notin Moved(Stood(r))
        BY <3>4, <1>11, <1>12
      <4>2. result'[u] = IF PrefixOf(u) \in visited THEN StateAfter(PrefixOf(u), unfound) ELSE RightState(PrefixOf(u))
        BY <4>1, <2>1, <1>11
      <4>3. Match(u) \cap Installed' = {}
        BY <3>4, <1>13
      <4> QED BY <4>2, <4>3, <3>1
    <3> QED BY <3>2, <3>3, <3>4
  <2>3. ASSUME NEW u \in Requested'
        PROVE  result'[u] = IF Match(u) \cap Installed' = {} THEN RightState(PrefixOf(u))' ELSE "valid"
    BY <2>2, <1>10
  <2> QED BY <2>3 DEF ResultIsRight
<1> QED BY <1>6, <1>7, <1>14, <1>15, <1>16 DEF Exact

-----------------------------------------------------------------------------
(***************************************************************************)
(* The theorems.                                                           *)
(***************************************************************************)
LEMMA ExactInit == ASSUME Init PROVE Exact
<1>1. known = {} /\ Requested = {} /\ Installed = {}
  BY DEF Init, Requested, Installed
<1> QED BY <1>1 DEF Exact, StateIsRight, CoverageIsRight, MatchIsRight, UpdatesSuffice, ResultIsRight

LEMMA IdleExact == ASSUME Exact, Idle PROVE Exact'
<1>1. /\ Installed' = Installed
      /\ \A S : Total(S)' = Total(S)
      /\ \A p : RightState(p)' = RightState(p)
  BY SameRoas DEF Idle
<1>2. Requested' = Requested /\ known' = known
  BY DEF Idle, Requested
<1>3. StateIsRight'
  BY <1>1, <1>2 DEF Exact, StateIsRight, Idle
<1>4. CoverageIsRight'
  <2>1. ASSUME NEW p \in known' PROVE coverage'[p] = Total(Count(p))'
    BY <1>1, <1>2 DEF Exact, CoverageIsRight, Idle
  <2> QED BY <2>1 DEF CoverageIsRight
<1>5. MatchIsRight'
  <2>1. ASSUME NEW u \in Requested'
        PROVE  /\ roaMatch'[u] = Total(Match(u))'
               /\ place'[u] = IF Match(u) \cap Installed' = {} THEN "other" ELSE "valid"
    BY <1>1, <1>2 DEF Exact, MatchIsRight, Idle
  <2> QED BY <2>1 DEF MatchIsRight
<1>6. UpdatesSuffice'
  <2>1. ASSUME NEW r \in Installed' PROVE Cardinality({u \in Requested' : r \in Match(u)}) <= roaUpdates'[r]
    BY <1>1, <1>2 DEF Exact, UpdatesSuffice, Idle
  <2> QED BY <2>1 DEF UpdatesSuffice
<1>7. ResultIsRight'
  <2>1. ASSUME NEW u \in Requested'
        PROVE  result'[u] = IF Match(u) \cap Installed' = {} THEN RightState(PrefixOf(u))' ELSE "valid"
    BY <1>1, <1>2 DEF Exact, ResultIsRight, Idle
  <2> QED BY <2>1 DEF ResultIsRight
<1> QED BY <1>3, <1>4, <1>5, <1>6, <1>7 DEF Exact

LEMMA ExactInvNext ==
  ASSUME ExactInv, MaxAdds < CounterRange, [Next]_vars
  PROVE  ExactInv'
<1>1. TypeInv /\ (~miscounted => Exact)
  BY DEF ExactInv
<1>2. TypeInv'
  BY <1>1, TypeInvNext
<1> SUFFICES ASSUME ~miscounted' PROVE Exact'
  BY <1>2 DEF ExactInv
<1>3. ASSUME NEW u \in Update, RequestEffect(u) PROVE Exact'
  <2>1. ~miscounted
    BY <1>3 DEF RequestEffect
  <2> QED BY <1>1, <1>3, <2>1, RequestExact
<1>4. ASSUME NEW r \in Roa, AddEffect(r) PROVE Exact'
  <2>1. ~miscounted
    BY <1>4 DEF AddEffect
  <2> QED BY <1>1, <1>4, <2>1, AddExact
<1>5. ASSUME NEW r \in Roa, NEW visited, NEW unfound, NEW treated, NEW lost,
             DelEffect(r, visited, unfound, treated, lost)
      PROVE  Exact'
  <2>1. ~miscounted
    BY <1>5 DEF DelEffect
  <2> QED BY <1>1, <1>5, <2>1, DelExact
<1>6. ASSUME Idle PROVE Exact'
  <2>1. ~miscounted
    BY <1>6 DEF Idle
  <2> QED BY <1>1, <1>6, <2>1, IdleExact
<1> QED BY <1>1, <1>3, <1>4, <1>5, <1>6, NextIs

\* The ROAs of the reference are those that reach the prefix.
LEMMA CoveringRoasIs ==
  ASSUME NEW p
  PROVE  CoveringRoas(p) = Reach(p) \cap Installed
BY DEF CoveringRoas, Reach, Installed

LEMMA ExactCounters == ASSUME ExactInv PROVE CountersAreExact
<1> SUFFICES ASSUME ~miscounted PROVE CountersAreExact
  BY DEF CountersAreExact
<1>1. TypeInv /\ CoverageIsRight /\ MatchIsRight
  BY DEF ExactInv, Exact
<1>2. \A S \in SUBSET Roa : Total(S \cap Installed) = Total(S)
  BY <1>1, TypesAre, TotalIs
<1>3. ASSUME NEW p \in known
      PROVE  coverage[p] = Total({r \in CoveringRoas(p) : Covers(r, p)})
  <2>1. {r \in CoveringRoas(p) : Covers(r, p)} = Count(p) \cap Installed
    BY CoveringRoasIs DEF Count
  <2>2. Count(p) \in SUBSET Roa
    BY CountReach
  <2> QED BY <1>1, <1>2, <2>1, <2>2 DEF CoverageIsRight
<1>4. ASSUME NEW u \in Requested
      PROVE  LET own == {r \in CoveringRoas(PrefixOf(u)) : Covers(r, PrefixOf(u))
                                                           /\ Entry[r].as = Route[u].as}
             IN  /\ roaMatch[u] = Total(own)
                 /\ place[u] = IF own = {} THEN "other" ELSE "valid"
  <2> DEFINE own == {r \in CoveringRoas(PrefixOf(u)) : Covers(r, PrefixOf(u))
                                                       /\ Entry[r].as = Route[u].as}
  <2>1. own = Match(u) \cap Installed
    BY CoveringRoasIs DEF Match, Count
  <2>2. Match(u) \in SUBSET Roa
    BY MatchCount
  <2>3. /\ roaMatch[u] = Total(Match(u))
        /\ place[u] = IF Match(u) \cap Installed = {} THEN "other" ELSE "valid"
    BY <1>1 DEF MatchIsRight
  <2> HIDE DEF own
  <2>4. roaMatch[u] = Total(own) /\ place[u] = IF own = {} THEN "other" ELSE "valid"
    BY <1>2, <2>1, <2>2, <2>3
  <2> QED BY <2>4 DEF own
<1> QED BY <1>3, <1>4 DEF CountersAreExact

LEMMA ExactResults == ASSUME ExactInv PROVE ResultIsRFC6811
<1> SUFFICES ASSUME ~miscounted, NEW u \in Requested PROVE result[u] = Rfc6811(u)
  BY DEF ResultIsRFC6811
<1> DEFINE p == PrefixOf(u)
<1>1. result[u] = IF Match(u) \cap Installed = {} THEN RightState(p) ELSE "valid"
  BY DEF ExactInv, Exact, ResultIsRight
<1>2. CoveringRoas(p) = Reach(p) \cap Installed
  BY CoveringRoasIs
<1>3. (\E r \in CoveringRoas(p) : Covers(r, p) /\ Entry[r].as = Route[u].as)
        <=> Match(u) \cap Installed # {}
  BY <1>2 DEF Match, Count
<1>4. Rfc6811(u) = IF \E r \in CoveringRoas(p) : Covers(r, p) /\ Entry[r].as = Route[u].as THEN "valid"
                   ELSE IF CoveringRoas(p) = {} THEN "notfound" ELSE "invalid"
  BY DEF Rfc6811
<1>5. RightState(p) = IF CoveringRoas(p) = {} THEN "notfound" ELSE "invalid"
  BY <1>2 DEF RightState
<1> QED BY <1>1, <1>3, <1>4, <1>5

\* The counters of every prefix and of every update equal the number of
\* announcements they stand for, and every update is in the list its counter
\* says, after any sequence of requests, announcements and withdrawals of
\* which no new prefix has counted a repeated ROA once.
THEOREM CountersStayExact ==
  ASSUME MaxAdds < CounterRange
  PROVE  Spec => []CountersAreExact
<1>1. Init => ExactInv
  BY TypeInvInit, ExactInit DEF ExactInv
<1>2. ExactInv /\ [Next]_vars => ExactInv'
  BY ExactInvNext
<1>3. ExactInv => CountersAreExact
  BY ExactCounters
<1> QED BY <1>1, <1>2, <1>3, PTL DEF Spec

\* The result the prefix cache has reported last for an update is the one of
\* RFC 6811 for the ROAs of the moment, under the same condition.
THEOREM ResultsAreRFC6811 ==
  ASSUME MaxAdds < CounterRange
  PROVE  Spec => []ResultIsRFC6811
<1>1. Init => ExactInv
  BY TypeInvInit, ExactInit DEF ExactInv
<1>2. ExactInv /\ [Next]_vars => ExactInv'
  BY ExactInvNext
<1>3. ExactInv => ResultIsRFC6811
  BY ExactResults
<1> QED BY <1>1, <1>2, <1>3, PTL DEF Spec
=============================================================================
