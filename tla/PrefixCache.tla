---------------------------- MODULE PrefixCache ----------------------------
(***************************************************************************)
(* The prefix cache: origin validation of updates against the ROA white    *)
(* list, kept up to date by counters while updates and ROAs come and go.   *)
(* Every update is in the list "valid" or in the list "other" of its       *)
(* prefix; state_of_other is the result of all updates in "other".         *)
(*                                                                         *)
(* The patricia trie is the relation Above between prefixes, the set of    *)
(* prefixes that have a trie node, and the set of those with a PC_Prefix.  *)
(* All ROAs are of one validation cache and their max length is not below  *)
(* the length of their prefix.  An operation is one step: the code's own   *)
(* locks are compiled out, and what happens when the command thread and    *)
(* the RPKI thread meet inside the cache is not modelled.                  *)
(***************************************************************************)
EXTENDS Integers, FiniteSets

CONSTANTS
  Prefix,
  Length,        \* the bit length of a prefix
  Above,         \* the less specific prefixes of a prefix
  AS,
  Reserved,      \* the ASes of RFC 5398
  Roa,
  Entry,         \* prefix, AS and max length of a ROA
  Update,
  Route,         \* prefix and origin AS of an update
  CounterRange,  \* roa_coverage is a uint32_t
  MaxAdds        \* bound on the number of announced ROAs

ASSUME PrefixCacheAssumption ==
  /\ IsFiniteSet(Prefix) /\ IsFiniteSet(Roa) /\ IsFiniteSet(Update)
  /\ Length \in [Prefix -> Nat]
  /\ Above \in [Prefix -> SUBSET Prefix]
  /\ \A p \in Prefix : \A q \in Above[p] : Length[q] < Length[p] /\ Above[q] \subseteq Above[p]
  /\ \A p \in Prefix : \A q, x \in Above[p] : q = x \/ q \in Above[x] \/ x \in Above[q]
  /\ Reserved \subseteq AS
  /\ Entry \in [Roa -> [prefix : Prefix, as : AS, maxLen : Nat]]
  /\ \A r \in Roa : Entry[r].maxLen >= Length[Entry[r].prefix]
  /\ Route \in [Update -> [prefix : Prefix, as : AS]]
  /\ CounterRange \in Nat \ {0} /\ MaxAdds \in Nat

VARIABLES
  nodes,         \* the prefixes that have a node in the trie
  known,         \* the prefixes that have a node with data, a PC_Prefix
  roaCount,      \* PC_ROA.roa_count, 0 without PC_ROA
  roaUpdates,    \* PC_ROA.update_count
  coverage,      \* PC_Prefix.roa_coverage
  stateOfOther,  \* PC_Prefix.state_of_other
  place,         \* the list an update is in
  roaMatch,      \* PC_Update.roa_match
  result,        \* the result the update cache was told last
  crashed,       \* a node without data was dereferenced
  adds,
  miscounted     \* history: a new prefix counted a repeated ROA once

vars == <<nodes, known, roaCount, roaUpdates, coverage, stateOfOther, place, roaMatch, result,
          crashed, adds, miscounted>>

Place == {"none", "valid", "other", "lost"}
State == {"notfound", "invalid"}

TypeOK ==
  /\ nodes \subseteq Prefix /\ known \subseteq nodes
  /\ roaCount \in [Roa -> Nat] /\ roaUpdates \in [Roa -> Nat]
  /\ coverage \in [Prefix -> 0 .. CounterRange - 1]
  /\ stateOfOther \in [Prefix -> State]
  /\ place \in [Update -> Place]
  /\ roaMatch \in [Update -> Nat]
  /\ result \in [Update -> State \union {"undefined", "valid"}]
  /\ crashed \in BOOLEAN /\ adds \in 0 .. MaxAdds /\ miscounted \in BOOLEAN

Init ==
  /\ nodes = {} /\ known = {}
  /\ roaCount = [r \in Roa |-> 0] /\ roaUpdates = [r \in Roa |-> 0]
  /\ coverage = [p \in Prefix |-> 0]
  /\ stateOfOther = [p \in Prefix |-> "notfound"]
  /\ place = [u \in Update |-> "none"]
  /\ roaMatch = [u \in Update |-> 0]
  /\ result = [u \in Update |-> "undefined"]
  /\ crashed = FALSE /\ adds = 0 /\ miscounted = FALSE

-----------------------------------------------------------------------------
(***************************************************************************)
(* The trie.                                                               *)
(***************************************************************************)
PrefixOf(u) == Route[u].prefix
Installed == {r \in Roa : roaCount[r] > 0}
\* The announcements of the ROAs in S; a ROA may be announced more than once.
Announcements(S) == UNION {{r} \X (1 .. roaCount[r]) : r \in S}
Total(S) == Cardinality(Announcements(S))

\* The less specific prefixes with data, and the closest of them (getParent).
Parents(p) == Above[p] \intersect known
Closest(chain) == CHOOSE q \in chain : \A x \in chain : Length[x] <= Length[q]
StateAbove(p) ==
  IF Parents(p) = {} THEN "notfound" ELSE stateOfOther[Closest(Parents(p))]

\* The walk up the trie from the chain's most specific prefix, as long as the
\* condition of the loop holds, which it does for the prefixes in "going".
Walk(chain, going) ==
  {q \in chain : \A x \in chain : Length[x] >= Length[q] => x \in going}
Covered == {p \in Prefix : coverage[p] > 0}

\* The prefix and its more specific prefixes with data.
Subtree(p) == {p} \union {q \in known : p \in Above[q]}
\* The elements of the subtree of p above q.
Between(p, q) == {x \in Subtree(p) : x \in Above[q]}

Covers(r, p) == Length[p] <= Entry[r].maxLen

-----------------------------------------------------------------------------
(***************************************************************************)
(* requestUpdateValidation                                                 *)
(***************************************************************************)

\* The ROAs counted for the prefix: the walk goes up while there are ROAs above
\* (a new prefix) or while ROAs cover the prefix (a known one).
MatchingRoas(p, isNew) ==
  LET state(x) == IF x = p THEN StateAbove(p) ELSE stateOfOther[x]
      chain    == {p} \union Parents(p)
      walked   == Walk(chain, IF isNew THEN {x \in chain : state(x) = "invalid"} ELSE Covered)
  IN  {r \in Installed : Entry[r].prefix \in walked /\ Covers(r, p)}

RequestUpdateValidation(u) ==
  LET p        == PrefixOf(u)
      isNew    == p \notin nodes
      covering == MatchingRoas(p, isNew)
      matching == {r \in covering : Entry[r].as = Route[u].as}
      state    == IF isNew THEN StateAbove(p) ELSE stateOfOther[p]
  IN  /\ ~crashed /\ place[u] = "none"
      /\ isNew \/ p \in known
      /\ nodes' = nodes \union {p} /\ known' = known \union {p}
      /\ stateOfOther' = [stateOfOther EXCEPT ![p] = state]
      /\ coverage' = [coverage EXCEPT ![p] = IF isNew THEN Cardinality(covering) ELSE @]
      /\ miscounted' = (miscounted \/ (isNew /\ Total(covering) # Cardinality(covering)))
      /\ roaUpdates' = [r \in Roa |-> IF r \in matching THEN roaUpdates[r] + 1 ELSE roaUpdates[r]]
      /\ roaMatch' = [roaMatch EXCEPT ![u] = Total(matching)]
      /\ place' = [place EXCEPT ![u] = IF matching = {} THEN "other" ELSE "valid"]
      /\ result' = [result EXCEPT ![u] = IF matching = {} THEN state ELSE "valid"]
      /\ UNCHANGED <<roaCount, crashed, adds>>

\* The prefix has a node, from a ROA that is gone, but no data.
RequestWithoutData(u) ==
  /\ ~crashed /\ place[u] = "none"
  /\ PrefixOf(u) \in nodes \ known
  /\ crashed' = TRUE
  /\ UNCHANGED <<nodes, known, roaCount, roaUpdates, coverage, stateOfOther, place, roaMatch, result,
                 adds, miscounted>>

-----------------------------------------------------------------------------
(***************************************************************************)
(* addROAwl                                                                *)
(***************************************************************************)

\* Mutant: a repeated ROA is counted once.
CheckCoverageOnce(p) ==
  LET walked == Walk(Parents(p), Covered)
  IN  Cardinality({r \in Installed : Entry[r].prefix \in walked /\ Covers(r, p)})

\* _addROAwl_CheckCoverage: the ROAs above that cover a new prefix
CheckCoverage(p) ==
  LET walked == Walk(Parents(p), Covered)
  IN  Total({r \in Installed : Entry[r].prefix \in walked /\ Covers(r, p)})

\* Mutant: the children of a prefix that is too long for the ROA are left out.
VisitedByAddCovered(r, state) ==
  {q \in Subtree(Entry[r].prefix) : \A x \in Between(Entry[r].prefix, q) : Covers(r, x)}

\* _addROAwl_verifyUpdates goes on to the children of a prefix that the ROA
\* covers or that no ROA was known for.
VisitedByAdd(r, state) ==
  {q \in Subtree(Entry[r].prefix) :
     \A x \in Between(Entry[r].prefix, q) : Covers(r, x) \/ state[x] = "notfound"}

\* _addROAwl_moveMatchedUpdatesToValid: the updates of the ROA's AS that it covers
Matched(r, covered) ==
  {u \in Update : /\ PrefixOf(u) \in covered /\ Route[u].as = Entry[r].as
                  /\ place[u] \in {"valid", "other"}}

\* _ROAwl_changeStateOfOther: all updates in "other" follow the prefix.
FollowsState(u, prefixes) == place[u] = "other" /\ PrefixOf(u) \in prefixes

AddROAwl(r) ==
  LET p       == Entry[r].prefix
      new     == p \notin known
      state   == [stateOfOther EXCEPT ![p] = IF new THEN StateAbove(p) ELSE @]
      visited == VisitedByAdd(r, state)
      covered == {q \in visited : Covers(r, q)}
      matched == Matched(r, covered)
      changed == {q \in visited : state[q] = "notfound"}
      base    == [coverage EXCEPT ![p] = IF ~new THEN @
                    ELSE IF StateAbove(p) = "notfound" THEN 0 ELSE CheckCoverage(p)]
  IN  /\ ~crashed /\ adds < MaxAdds
      /\ adds' = adds + 1
      /\ Entry[r].as \notin Reserved
      /\ nodes' = nodes \union {p} /\ known' = known \union {p}
      /\ roaCount' = [roaCount EXCEPT ![r] = @ + 1]
      /\ roaUpdates' = [roaUpdates EXCEPT ![r] = @ + Cardinality(matched)]
      /\ coverage' = [q \in Prefix |->
                        IF q \in covered THEN (base[q] + 1) % CounterRange ELSE base[q]]
      /\ stateOfOther' = [q \in Prefix |-> IF q \in changed THEN "invalid" ELSE state[q]]
      /\ roaMatch' = [u \in Update |-> IF u \in matched THEN roaMatch[u] + 1 ELSE roaMatch[u]]
      /\ place' = [u \in Update |-> IF u \in matched THEN "valid" ELSE place[u]]
      /\ result' = [u \in Update |->
                      IF u \in matched /\ place[u] = "other" THEN "valid"
                      ELSE IF FollowsState(u, changed) THEN "invalid"
                      ELSE result[u]]
      /\ UNCHANGED <<crashed, miscounted>>

-----------------------------------------------------------------------------
(***************************************************************************)
(* delROAwl                                                                *)
(***************************************************************************)

\* roa_coverage-- in an unsigned counter
Decrement(n) == (n - 1) % CounterRange

\* _delROAwl_validateUpdates, from the prefix of the ROA down: the prefixes that
\* are visited, and those of them that lose their last ROA.  The children of a
\* visited prefix are visited if the ROA covers it or it has lost its last ROA.
CoverageAfter(r, q) == IF Covers(r, q) THEN Decrement(coverage[q]) ELSE coverage[q]
StateAfter(q, unfound) == IF q \in unfound THEN "notfound" ELSE stateOfOther[q]

RevalidateUpdates(r, visited, unfound) ==
  LET p         == Entry[r].prefix
      parent(q) == Closest(Between(p, q))
  IN  \A q \in Subtree(p) :
        /\ q \in visited <=>
             \/ q = p
             \/ /\ parent(q) \in visited
                /\ Covers(r, parent(q)) \/ parent(q) \in unfound
        /\ q \in unfound <=>
             /\ q \in visited /\ CoverageAfter(r, q) = 0
             /\ "notfound" = IF q = p THEN StateAbove(p) ELSE StateAfter(parent(q), unfound)

\* _delROAwl_moveToOther treats the valid updates of the AS until update_count,
\* which only the last ROA of its kind counts down, is used up.
MayBeTreated(r, candidates, treated) ==
  /\ treated \subseteq candidates
  /\ IF roaCount[r] > 1
     THEN treated = IF roaUpdates[r] > 0 THEN candidates ELSE {}
     ELSE Cardinality(treated) =
            IF roaUpdates[r] < Cardinality(candidates) THEN roaUpdates[r]
            ELSE Cardinality(candidates)

\* The list is relinked past an update that stays in front of one that is moved,
\* so that updates that stay may get lost.
MayBeLost(moved, staying, lost) ==
  /\ lost \subseteq staying
  /\ \A u \in lost : \E v \in moved : PrefixOf(v) = PrefixOf(u)

\* A PC_AS is kept for ROAs and, for ever, for updates; a PC_Prefix is freed
\* with its last PC_AS.
StillUsed(p, r) ==
  \/ roaCount[r] > 1
  \/ \E x \in Installed \ {r} : Entry[x].prefix = p
  \/ \E u \in Update : place[u] # "none" /\ PrefixOf(u) = p

DelROAwl(r) ==
  /\ ~crashed /\ roaCount[r] > 0
  /\ \E visited, unfound \in SUBSET Subtree(Entry[r].prefix) :
       LET candidates == {u \in Update : /\ PrefixOf(u) \in visited /\ Covers(r, PrefixOf(u))
                                         /\ Route[u].as = Entry[r].as /\ place[u] = "valid"}
       IN  /\ RevalidateUpdates(r, visited, unfound)
           /\ coverage' = [q \in Prefix |->
                             IF q \in visited THEN CoverageAfter(r, q) ELSE coverage[q]]
           /\ stateOfOther' = [q \in Prefix |-> StateAfter(q, unfound)]
           /\ \E treated \in SUBSET candidates :
                LET moved == {u \in treated : roaMatch[u] = 1}
                IN  /\ MayBeTreated(r, candidates, treated)
                    /\ roaMatch' = [u \in Update |->
                                      IF u \in treated THEN roaMatch[u] - 1 ELSE roaMatch[u]]
                    /\ \E lost \in SUBSET (treated \ moved) :
                         /\ MayBeLost(moved, treated \ moved, lost)
                         /\ place' = [u \in Update |-> IF u \in moved THEN "other"
                                                       ELSE IF u \in lost THEN "lost"
                                                       ELSE place[u]]
                    /\ result' = [u \in Update |->
                         IF u \in moved \/ FollowsState(u, visited)
                         THEN StateAfter(PrefixOf(u), unfound) ELSE result[u]]
  /\ roaUpdates' = [roaUpdates EXCEPT ![r] = IF roaCount[r] > 1 THEN @ ELSE 0]
  /\ roaCount' = [roaCount EXCEPT ![r] = @ - 1]
  /\ known' = IF StillUsed(Entry[r].prefix, r) THEN known ELSE known \ {Entry[r].prefix}
  /\ UNCHANGED <<nodes, crashed, adds, miscounted>>

\* The withdrawal of a ROA that addROAwl has ignored: the look-up of its prefix
\* still adds a node.
DelReserved(r) ==
  /\ ~crashed /\ Entry[r].as \in Reserved
  /\ nodes' = nodes \union {Entry[r].prefix}
  /\ UNCHANGED <<known, roaCount, roaUpdates, coverage, stateOfOther, place, roaMatch,
                 result, crashed, adds, miscounted>>

-----------------------------------------------------------------------------
Next ==
  \/ \E u \in Update : RequestUpdateValidation(u) \/ RequestWithoutData(u)
  \/ \E r \in Roa : AddROAwl(r) \/ DelROAwl(r) \/ DelReserved(r)

Spec == Init /\ [][Next]_vars

-----------------------------------------------------------------------------
(***************************************************************************)
(* Properties.                                                             *)
(***************************************************************************)

\* Reference: a ROA covers the prefixes at and below its own; an update is valid
\* if a ROA of its AS that covers it allows its length (RFC 6811).
CoveringRoas(p) == {r \in Installed : Entry[r].prefix = p \/ Entry[r].prefix \in Above[p]}

Rfc6811(u) ==
  LET covering == CoveringRoas(PrefixOf(u))
  IN  IF \E r \in covering : Covers(r, PrefixOf(u)) /\ Entry[r].as = Route[u].as THEN "valid"
      ELSE IF covering = {} THEN "notfound" ELSE "invalid"

Requested == {u \in Update : place[u] # "none"}

\* The result of every update is the one of RFC 6811 for the ROAs of the moment,
\* in whatever order updates were requested and ROAs came and went - unless a
\* new prefix has counted a repeated ROA only once.
ResultIsRFC6811 ==
  ~miscounted => \A u \in Requested : result[u] = Rfc6811(u)

\* "Number of ROAs covering this prefix (attached and through max-length)" and
\* "number of ROAs that cover this update. If the value == 0 the update MUST be
\* located in the 'other' list, otherwise [...] in the valid list", until a
\* repeated ROA is miscounted.
CountersAreExact ==
  ~miscounted =>
    /\ \A p \in known :
         coverage[p] = Total({r \in CoveringRoas(p) : Covers(r, p)})
    /\ \A u \in Requested :
         LET own == {r \in CoveringRoas(PrefixOf(u)) : Covers(r, PrefixOf(u))
                                                       /\ Entry[r].as = Route[u].as}
         IN  /\ roaMatch[u] = Total(own)
             /\ place[u] = IF own = {} THEN "other" ELSE "valid"

\* The result, also where a repeated ROA is counted once.
ResultIsAlwaysRFC6811 == \A u \in Requested : result[u] = Rfc6811(u)

\* "(Does P exist ? Yes)": a prefix that is in the trie has data.
NodeHasData == ~crashed
=============================================================================
