-------------------------- MODULE AspaCacheProofs --------------------------
(***************************************************************************)
(* Proofs about AspaValidation and AspaCache: the algorithm of             *)
(* validateASPA is the draft's for paths of every length, the database is  *)
(* the announced one but for what a withdrawal swept away, no update stays *)
(* without a result, and the End of Data leaves none that the database     *)
(* does not support, but for the updates in doubt.                         *)
(***************************************************************************)
EXTENDS AspaCache, WellFoundedInduction, TLAPS

\* Every non-empty set of natural numbers has a least element.
LEMMA LeastElement ==
  ASSUME NEW S \in SUBSET Nat, S # {}
  PROVE  \E x \in S : \A y \in S : x <= y
<1>. DEFINE R == {ss \in Nat \X Nat : ss[1] < ss[2]}
<1>1. IsWellFoundedOn(R, Nat)
  <2>1. IsWellFoundedOn(OpToRel(<, Nat), Nat)
    BY NatLessThanWellFounded
  <2>2. R \cap (Nat \X Nat) \subseteq OpToRel(<, Nat)
    BY DEF OpToRel
  <2>. QED  BY <2>1, <2>2, IsWellFoundedOnSubrelation
<1>2. \E x \in S : \A y \in S : ~ (<<y, x>> \in R)
  <2>. HIDE DEF R
  <2>. QED  BY <1>1, WFMin
<1>3. PICK x \in S : \A y \in S : ~ (<<y, x>> \in R)
  BY <1>2
<1>4. ASSUME NEW y \in S
      PROVE  x <= y
  <2>1. x \in Nat /\ y \in Nat /\ ~ (<<y, x>> \in R)
    BY <1>3
  <2>2. <<y, x>> \in R <=> y < x
    BY <2>1
  <2>. QED  BY <2>1, <2>2
<1>. QED  BY <1>4

\* The loops of validateASPA: FirstOr is the first element of a set, if any.
LEMMA FirstOrIsFirst ==
  ASSUME NEW S \in SUBSET Nat, NEW d
  PROVE  /\ S = {} => FirstOr(S, d) = d
         /\ S # {} => FirstOr(S, d) \in S /\ \A y \in S : FirstOr(S, d) <= y
<1>1. S = {} => FirstOr(S, d) = d
  BY DEF FirstOr
<1>2. ASSUME S # {} PROVE Least(S) \in S /\ \A y \in S : Least(S) <= y
  <2>1. \E x \in S : \A y \in S : x <= y
    BY <1>2, LeastElement
  <2>. QED  BY <2>1 DEF Least
<1>. QED  BY <1>1, <1>2 DEF FirstOr

\* K_val is the end of the longest attested way up, short of the last AS.
LEMMA KValIsEndOfWayUp ==
  ASSUME NEW n \in Nat, n >= 2, NEW up \in [Hops(n) -> Hop]
  PROVE  /\ KVal(n, up) \in 1 .. (n - 1)
         /\ \A i \in 1 .. (KVal(n, up) - 1) : up[i] = "valid"
         /\ KVal(n, up) # n - 1 => up[KVal(n, up)] # "valid"
<1>. DEFINE S == {i \in 1 .. (n - 2) : up[i] # "valid"}
<1>1. S \in SUBSET Nat
  OBVIOUS
<1>2. CASE S = {}
  <2>1. KVal(n, up) = n - 1
    BY <1>1, <1>2, FirstOrIsFirst DEF KVal
  <2>2. \A i \in 1 .. (n - 2) : up[i] = "valid"
    BY <1>2
  <2>. QED  BY <2>1, <2>2
<1>3. CASE S # {}
  <2>1. KVal(n, up) \in S /\ \A y \in S : KVal(n, up) <= y
    BY <1>1, <1>3, FirstOrIsFirst DEF KVal
  <2>2. ASSUME NEW i \in 1 .. (KVal(n, up) - 1), up[i] # "valid" PROVE FALSE
    <3>1. KVal(n, up) \in 1 .. (n - 2)
      BY <2>1
    <3>2. i \in 1 .. (n - 2) /\ i < KVal(n, up)
      BY <3>1, <2>2
    <3>3. i \in S
      BY <3>2, <2>2
    <3>. QED  BY <2>1, <3>1, <3>2, <3>3
  <2>. QED  BY <2>1, <2>2
<1>. QED  BY <1>2, <1>3

\* L_val is the start of the longest attested way down that does not reach K.
LEMMA LValIsStartOfWayDown ==
  ASSUME NEW n \in Nat, n >= 2, NEW k \in 1 .. (n - 1), NEW down \in [Hops(n) -> Hop]
  PROVE  /\ LVal(n, k, down) \in (k + 1) .. n
         /\ \A i \in LVal(n, k, down) .. (n - 1) : down[i] = "valid"
         /\ LVal(n, k, down) # k + 1 => down[LVal(n, k, down) - 1] # "valid"
<1>. DEFINE S == {j \in 1 .. (n - k - 1) : down[n - j] # "valid"}
            f == FirstOr(S, n - k)
<1>1. S \in SUBSET Nat
  OBVIOUS
<1>2. LVal(n, k, down) = n + 1 - f
  BY DEF LVal
<1>3. CASE S = {}
  <2>1. f = n - k
    BY <1>1, <1>3, FirstOrIsFirst
  <2>2. LVal(n, k, down) = k + 1
    BY <1>2, <2>1
  <2>3. ASSUME NEW i \in (k + 1) .. (n - 1) PROVE down[i] = "valid"
    <3>1. n - i \in 1 .. (n - k - 1) /\ n - (n - i) = i
      OBVIOUS
    <3>. QED  BY <1>3, <3>1
  <2>. QED  BY <2>2, <2>3
<1>4. CASE S # {}
  <2>1. f \in S /\ \A y \in S : f <= y
    BY <1>1, <1>4, FirstOrIsFirst
  <2>. HIDE DEF f
  <2>2. f \in 1 .. (n - k - 1) /\ down[n - f] # "valid"
    BY <2>1
  <2>3. LVal(n, k, down) \in (k + 2) .. n /\ LVal(n, k, down) - 1 = n - f
    BY <1>2, <2>2
  <2>4. ASSUME NEW i \in LVal(n, k, down) .. (n - 1), down[i] # "valid" PROVE FALSE
    <3>1. n - i \in 1 .. (n - k - 1) /\ n - (n - i) = i /\ n - i < f
      BY <2>2, <2>3, <1>2
    <3>2. n - i \in S
      BY <3>1, <2>4
    <3>3. f <= n - i
      <4>. HIDE DEF S
      <4>. QED  BY <2>1, <3>2
    <3>4. f \in Int /\ n - i \in Int
      BY <2>2
    <3>. QED  BY <3>1, <3>3, <3>4
  <2>. QED  BY <2>2, <2>3, <2>4
<1>. QED  BY <1>3, <1>4

\* To refute or to attest a way over an apex, name the apex.
LEMMA ValleyFreeWitness ==
  ASSUME NEW n \in Nat, NEW up, NEW down, NEW ok,
         NEW apex \in 1 .. n, NEW start \in {apex, apex + 1},
         \A i \in 1 .. (apex - 1) : up[i] \in ok,
         \A i \in start .. (n - 1) : down[i] \in ok
  PROVE  ValleyFree(n, up, down, ok)
BY DEF ValleyFree

\* Between K and L nothing attests the path.
LEMMA InterimIsNotValid ==
  ASSUME NEW n \in Nat, NEW up, NEW down,
         NEW k \in 1 .. (n - 1), NEW l \in (k + 2) .. n,
         up[k] # "valid", down[l - 1] # "valid"
  PROVE  ~ValleyFree(n, up, down, {"valid"})
<1>. SUFFICES ASSUME NEW apex \in 1 .. n, NEW start \in {apex, apex + 1},
                     \A i \in 1 .. (apex - 1) : up[i] \in {"valid"},
                     \A i \in start .. (n - 1) : down[i] \in {"valid"}
              PROVE  FALSE
  BY DEF ValleyFree
<1>1. ~(k \in 1 .. (apex - 1))
  OBVIOUS
<1>2. apex <= k
  BY <1>1
<1>3. ~(l - 1 \in start .. (n - 1))
  OBVIOUS
<1>. QED  BY <1>2, <1>3

\* Interim decides what is left: can the path still be explained by ASPAs that
\* are not known, or not?
LEMMA InterimIsDraft ==
  ASSUME NEW n \in Nat, n >= 2, NEW up \in [Hops(n) -> Hop], NEW down \in [Hops(n) -> Hop],
         NEW k \in 1 .. (n - 1), NEW l \in (k + 2) .. n,
         \A i \in 1 .. (k - 1) : up[i] = "valid",
         \A i \in l .. (n - 1) : down[i] = "valid"
  PROVE  Interim(k, l, up, down) =
           IF ValleyFree(n, up, down, {"valid", "unknown"}) THEN "unknown" ELSE "invalid"
<1>. DEFINE ok == {"valid", "unknown"}
            U == {i \in k .. (l - 2) : up[i] = "invalid"}
            u == FirstOr(U, 0)
<1>1. U \in SUBSET Nat
  OBVIOUS
<1>2. \A i \in 1 .. (n - 1) : up[i] \in Hop /\ down[i] \in Hop
  BY DEF Hops
<1>3. Interim(k, l, up, down) =
        IF u # 0 /\ \E j \in (u + 1) .. (l - 1) : down[j] = "invalid"
        THEN "invalid" ELSE "unknown"
  BY DEF Interim
<1>4. CASE U = {}
  <2>1. u = 0
    BY <1>1, <1>4, FirstOrIsFirst
  <2>2. \A i \in 1 .. (l - 2) : up[i] \in ok
    BY <1>2, <1>4 DEF Hop
  <2>3. l - 1 \in 1 .. n /\ l \in {l - 1, (l - 1) + 1} /\ (l - 1) - 1 = l - 2
    OBVIOUS
  <2>4. ValleyFree(n, up, down, ok)
    <3>1. \A i \in 1 .. ((l - 1) - 1) : up[i] \in ok
      BY <2>2, <2>3
    <3>2. \A i \in l .. (n - 1) : down[i] \in ok
      OBVIOUS
    <3>. HIDE DEF ok
    <3>. QED  BY <2>3, <3>1, <3>2, ValleyFreeWitness
  <2>. QED  BY <1>3, <2>1, <2>4
<1>5. CASE U # {}
  <2>1. u \in U /\ \A y \in U : u <= y
    BY <1>1, <1>5, FirstOrIsFirst
  <2>. HIDE DEF u
  <2>2. u \in k .. (l - 2) /\ up[u] = "invalid" /\ u # 0
    BY <2>1
  <2>3. CASE \E j \in (u + 1) .. (l - 1) : down[j] = "invalid"
    <3>1. PICK j \in (u + 1) .. (l - 1) : down[j] = "invalid"
      BY <2>3
    <3>2. ASSUME NEW apex \in 1 .. n, NEW start \in {apex, apex + 1},
                 \A i \in 1 .. (apex - 1) : up[i] \in ok,
                 \A i \in start .. (n - 1) : down[i] \in ok
          PROVE  FALSE
      <4>1. ~(u \in 1 .. (apex - 1))
        BY <2>2, <3>2
      <4>2. apex <= u
        BY <4>1, <2>2
      <4>3. ~(j \in start .. (n - 1))
        BY <3>1, <3>2
      <4>. QED  BY <2>2, <3>1, <4>2, <4>3
    <3>3. ~ValleyFree(n, up, down, ok)
      <4>. HIDE DEF ok
      <4>. QED  BY <3>2 DEF ValleyFree
    <3>. QED  BY <1>3, <2>2, <2>3, <3>3
  <2>4. CASE ~ \E j \in (u + 1) .. (l - 1) : down[j] = "invalid"
    <3>1. ASSUME NEW i \in 1 .. (u - 1) PROVE up[i] \in ok
      <4>1. CASE i < k
        BY <4>1
      <4>2. CASE i >= k
        <5>1. i \in k .. (l - 2) /\ i < u /\ i \in Nat /\ u \in Nat /\ i \in 1 .. (n - 1)
          BY <4>2, <2>2
        <5>2. up[i] # "invalid"
          <6>1. i \notin U
            <7>. HIDE DEF U
            <7>. QED  BY <2>1, <5>1
          <6>. QED  BY <5>1, <6>1
        <5>. QED  BY <1>2, <5>1, <5>2 DEF Hop
      <4>. QED  BY <4>1, <4>2, <2>2
    <3>2. ASSUME NEW i \in (u + 1) .. (n - 1) PROVE down[i] \in ok
      <4>1. CASE i < l
        <5>1. i \in (u + 1) .. (l - 1) /\ i \in 1 .. (n - 1)
          BY <4>1, <2>2
        <5>. QED  BY <1>2, <2>4, <5>1 DEF Hop
      <4>2. CASE i >= l
        BY <4>2
      <4>. QED  BY <4>1, <4>2, <2>2
    <3>3. u \in 1 .. n /\ u + 1 \in {u, u + 1}
      BY <2>2
    <3>4. ValleyFree(n, up, down, ok)
      <4>. HIDE DEF ok
      <4>. QED  BY <3>1, <3>2, <3>3, ValleyFreeWitness
    <3>. QED  BY <1>3, <2>4, <3>4
  <2>. QED  BY <2>3, <2>4
<1>. QED  BY <1>4, <1>5

\* The K and L of validateASPA find the draft's verdict for a path that comes
\* down from a provider, for paths of every length and every content of the
\* database.
THEOREM DownstreamIsDraft ==
  ASSUME NEW n \in Nat, n >= 1, NEW up \in [Hops(n) -> Hop], NEW down \in [Hops(n) -> Hop]
  PROVE  Downstream(n, up, down) = DraftDownstream(n, up, down)
<1>1. CASE n = 1
  <2>1. 1 \in 1 .. n /\ 1 \in {1, 1 + 1} /\ 1 .. (1 - 1) = {} /\ 1 .. (n - 1) = {}
    BY <1>1
  <2>2. ValleyFree(n, up, down, {"valid"})
    BY <2>1, ValleyFreeWitness
  <2>. QED  BY <1>1, <2>2 DEF Downstream, DraftDownstream
<1>2. CASE n >= 2
  <2>. DEFINE k == KVal(n, up)
              l == LVal(n, k, down)
  <2>1. /\ k \in 1 .. (n - 1)
        /\ \A i \in 1 .. (k - 1) : up[i] = "valid"
        /\ k # n - 1 => up[k] # "valid"
    BY <1>2, KValIsEndOfWayUp
  <2>2. Downstream(n, up, down) =
          IF n = 1 \/ k = n - 1 \/ l - k <= 1 THEN "valid" ELSE Interim(k, l, up, down)
    BY DEF Downstream
  <2>. HIDE DEF k
  <2>3. /\ l \in (k + 1) .. n
        /\ \A i \in l .. (n - 1) : down[i] = "valid"
        /\ l # k + 1 => down[l - 1] # "valid"
    BY <1>2, <2>1, LValIsStartOfWayDown
  <2>. HIDE DEF l
  <2>4. CASE k = n - 1 \/ l - k <= 1
    <3>1. \A i \in (k + 1) .. (n - 1) : down[i] \in {"valid"}
      BY <2>1, <2>3, <2>4
    <3>2. k \in 1 .. n /\ k + 1 \in {k, k + 1}
      BY <2>1
    <3>3. \A i \in 1 .. (k - 1) : up[i] \in {"valid"}
      BY <2>1
    <3>4. ValleyFree(n, up, down, {"valid"})
      BY <3>1, <3>2, <3>3, ValleyFreeWitness
    <3>. QED  BY <2>2, <2>4, <3>4 DEF DraftDownstream
  <2>5. CASE ~(k = n - 1 \/ l - k <= 1)
    <3>1. l \in (k + 2) .. n /\ up[k] # "valid" /\ down[l - 1] # "valid"
      BY <2>1, <2>3, <2>5
    <3>2. ~ValleyFree(n, up, down, {"valid"})
      BY <2>1, <3>1, InterimIsNotValid
    <3>3. Interim(k, l, up, down) =
            IF ValleyFree(n, up, down, {"valid", "unknown"}) THEN "unknown" ELSE "invalid"
      BY <1>2, <2>1, <2>3, <3>1, InterimIsDraft
    <3>. QED  BY <1>2, <2>2, <2>5, <3>2, <3>3 DEF DraftDownstream
  <2>. QED  BY <2>4, <2>5
<1>. QED  BY <1>1, <1>2

LEMMA UpstreamIsDraft ==
  ASSUME NEW n \in Nat, NEW up \in [Hops(n) -> Hop]
  PROVE  Upstream(n, up) = DraftUpstream(n, up)
<1>1. \A i \in Hops(n) : up[i] \in Hop
  OBVIOUS
<1>. QED  BY <1>1 DEF Upstream, DraftUpstream, Hop

\* validateASPA as a whole, for both directions and for sets.
LEMMA ValidateIsDraftVerdict ==
  ASSUME NEW n \in Nat, n >= 1, NEW up \in [Hops(n) -> Hop], NEW down \in [Hops(n) -> Hop],
         NEW isSequence \in BOOLEAN, NEW isDown \in BOOLEAN
  PROVE  validateASPA(isSequence, isDown, n, up, down)
           = DraftVerdict(isSequence, isDown, n, up, down)
<1>1. Downstream(n, up, down) = DraftDownstream(n, up, down)
  BY DownstreamIsDraft
<1>2. Upstream(n, up) = DraftUpstream(n, up)
  BY UpstreamIsDraft
<1>. QED  BY <1>1, <1>2 DEF validateASPA, DraftVerdict

-----------------------------------------------------------------------------
\* The inductive invariant behind ValidationIsDraft: a customer that no other
\* one's withdrawal swept away has the object announced for it.
DbIsAnnounced ==
  /\ db \in [AS -> SUBSET SUBSET AS]
  /\ announced \in [AS -> SUBSET SUBSET AS]
  /\ \A a \in AS : a \notin swept => db[a] = announced[a]

LEMMA AnnouncePreserves ==
  ASSUME DbIsAnnounced, NEW a \in AS, NEW providers \in Offer[a], Announce(a, providers)
  PROVE  DbIsAnnounced'
<1>1. {providers} \in SUBSET SUBSET AS
  BY AspaAssumption
<1>. QED  BY <1>1 DEF DbIsAnnounced, Announce

LEMMA WithdrawPreserves ==
  ASSUME DbIsAnnounced, NEW a \in AS, NEW providers \in Offer[a], Withdraw(a, providers)
  PROVE  DbIsAnnounced'
<1>1. NoObject \in SUBSET SUBSET AS
  BY DEF NoObject
<1>2. announced' = [announced EXCEPT ![a] = NoObject] /\ announced[a] = {providers}
  BY DEF Withdraw
<1>3. CASE db[a] = {providers}
  <2>1. /\ db' = [c \in AS |-> IF c = a \/ c \in Extension[a] THEN NoObject ELSE db[c]]
        /\ swept' = (swept \ {a}) \union {c \in Extension[a] : announced[c] # NoObject}
    BY <1>3 DEF Withdraw
  <2>2. db' \in [AS -> SUBSET SUBSET AS] /\ announced' \in [AS -> SUBSET SUBSET AS]
    BY <1>1, <1>2, <2>1 DEF DbIsAnnounced
  <2>3. ASSUME NEW c \in AS, c \notin swept' PROVE db'[c] = announced'[c]
    <3>1. CASE c = a
      BY <1>2, <2>1, <3>1 DEF DbIsAnnounced
    <3>2. CASE c # a
      <4>1. c \notin swept /\ announced'[c] = announced[c] /\ db[c] = announced[c]
        BY <1>2, <2>1, <2>3, <3>2 DEF DbIsAnnounced
      <4>2. c \in Extension[a] => announced[c] = NoObject
        BY <2>1, <2>3, AspaAssumption
      <4>. QED  BY <2>1, <3>2, <4>1, <4>2
    <3>. QED  BY <3>1, <3>2
  <2>. QED  BY <2>2, <2>3 DEF DbIsAnnounced
<1>4. CASE db[a] # {providers}
  <2>1. db' = db /\ swept' = swept
    BY <1>4 DEF Withdraw
  <2>2. a \in swept
    BY <1>2, <1>4 DEF DbIsAnnounced
  <2>. QED  BY <1>1, <1>2, <2>1, <2>2 DEF DbIsAnnounced
<1>. QED  BY <1>3, <1>4

LEMMA DbIsAlwaysAnnounced == Spec => []DbIsAnnounced
<1>1. Init => DbIsAnnounced
  <2>1. NoObject \in SUBSET SUBSET AS
    BY DEF NoObject
  <2>. QED  BY <2>1 DEF Init, DbIsAnnounced
<1>2. DbIsAnnounced /\ [Next]_vars => DbIsAnnounced'
  <2>. SUFFICES ASSUME DbIsAnnounced, [Next]_vars PROVE DbIsAnnounced'
    OBVIOUS
  <2>1. CASE \E a \in AS : \E providers \in Offer[a] :
               Announce(a, providers) \/ Withdraw(a, providers)
    BY <2>1, AnnouncePreserves, WithdrawPreserves
  <2>2. CASE UNCHANGED dbVars
    BY <2>2 DEF DbIsAnnounced, dbVars
  <2>3. (\E u \in Update : Request(u)) => UNCHANGED dbVars
    BY DEF Request
  <2>4. ReceiverNext => UNCHANGED dbVars
    BY DEF ReceiverNext, StoreUpdate, QueueValidation
  <2>5. CommandNext => UNCHANGED dbVars
    BY DEF CommandNext, StartCommand, Validate, ModifyPath, ModifyUpdate
  <2>6. RpkiNext => UNCHANGED dbVars
    BY DEF RpkiNext, EndOfData, ReadEntry, WriteEntry, EndOfIteration
  <2>7. Tick \/ UNCHANGED vars => UNCHANGED dbVars
    BY DEF Tick, vars
  <2>. QED  BY <2>1, <2>2, <2>3, <2>4, <2>5, <2>6, <2>7 DEF Next
<1>. QED  BY <1>1, <1>2, PTL DEF Spec

\* A look-up has one of three answers, whatever the database holds.
LEMMA HopsAreHops ==
  ASSUME NEW objects, NEW list
  PROVE  /\ UpHops(objects, list) \in [Hops(Len(list)) -> Hop]
         /\ DownHops(objects, list) \in [Hops(Len(list)) -> Hop]
BY DEF UpHops, DownHops, Lookup, Hop

LEMMA DbDecides ==
  ASSUME DbIsAnnounced PROVE ValidationIsDraft
<1>. SUFFICES ASSUME NEW p \in PathId, HasPathId(p), NEW isDown \in BOOLEAN,
                     \A i \in DOMAIN List[p] : List[p][i] \notin swept
              PROVE  Verdict(p, isDown) =
                       DraftVerdict(IsSequence[p], isDown, Len(List[p]),
                                    UpHops(announced, List[p]), DownHops(announced, List[p]))
  BY DEF ValidationIsDraft
<1>. DEFINE list == List[p]
            n == Len(list)
<1>1. list \in Seq(AS) /\ IsSequence[p] \in BOOLEAN
  BY AspaAssumption
<1>2. n \in Nat /\ n >= 1 /\ DOMAIN list = 1 .. n
  BY <1>1 DEF HasPathId
<1>3. \A i \in 1 .. n : list[i] \in AS /\ db[list[i]] = announced[list[i]]
  BY <1>1, <1>2 DEF DbIsAnnounced
<1>4. \A i \in Hops(n) : i \in 1 .. n /\ i + 1 \in 1 .. n
  BY <1>2 DEF Hops
<1>5. UpHops(db, list) = UpHops(announced, list)
  BY <1>3, <1>4 DEF UpHops, Lookup
<1>6. DownHops(db, list) = DownHops(announced, list)
  BY <1>3, <1>4 DEF DownHops, Lookup
<1>7. /\ UpHops(db, list) \in [Hops(n) -> Hop]
      /\ DownHops(db, list) \in [Hops(n) -> Hop]
  BY HopsAreHops
<1>8. Verdict(p, isDown) =
        validateASPA(IsSequence[p], isDown, n, UpHops(db, list), DownHops(db, list))
  BY DEF Verdict
<1>. HIDE DEF n, list
<1>9. validateASPA(IsSequence[p], isDown, n, UpHops(db, list), DownHops(db, list))
        = DraftVerdict(IsSequence[p], isDown, n, UpHops(db, list), DownHops(db, list))
  BY <1>1, <1>2, <1>7, ValidateIsDraftVerdict
<1>. QED  BY <1>5, <1>6, <1>8, <1>9 DEF n, list

\* Whatever ASPA PDUs are received and however many ASes and paths there are,
\* the server judges a path as the draft does by the announced ASPAs, unless a
\* withdrawal swept one of them away.
THEOREM PathsAreJudgedAsAnnounced == Spec => []ValidationIsDraft
BY DbIsAlwaysAnnounced, DbDecides, PTL

-----------------------------------------------------------------------------
(***************************************************************************)
(* The types.  They rest on what the threads have in hand: a stored update *)
(* has its path in the path cache, and whatever is queued is stored.       *)
(***************************************************************************)

\* An update is stored before it is queued for validation or has a result.
StoredFirst ==
  /\ receiver.at # "idle" => receiver.update \in Update
  /\ receiver.at = "queue" => Stored(receiver.update)
  /\ \A i \in DOMAIN commands : Stored(commands[i])
  /\ command.at # "idle" => command.update \in Update /\ Stored(command.update)
  /\ \A u \in Update : result[u] # "undefined" => Stored(u)
  /\ rpki.at = "write" => rpki.entry # 0

\* The path of an update is stored before the update is.
PathIsStored ==
  \A u \in Update :
    Stored(u) \/ (receiver.at = "store" /\ receiver.update = u) =>
      (HasPathId(PathOf[u]) => pathResult[PathOf[u]] # "none")

\* What is about to be written to the path cache is a verdict.
VerdictsAreMade ==
  /\ command.at = "path" => command.verdict \in AspaVerdict
  /\ rpki.at = "write" => rpki.verdict \in AspaVerdict

HandInv == TypeOK /\ DbIsAnnounced /\ StoredFirst /\ PathIsStored /\ VerdictsAreMade

\* validateASPA always comes to a verdict, which is neither the mark of a missing
\* entry nor the undefined result.
LEMMA VerdictIsVerdict ==
  ASSUME NEW p, NEW isDown
  PROVE  /\ Verdict(p, isDown) \in AspaVerdict
         /\ Verdict(p, isDown) \in Value
         /\ Verdict(p, isDown) # "none" /\ Verdict(p, isDown) # "undefined"
BY DEF Verdict, validateASPA, Downstream, Upstream, Interim, AspaVerdict, Hop, Value

LEMMA StoredIsStored ==
  ASSUME table \in Seq(Update), NEW x \in Update, table' = Append(table, x), NEW u
  PROVE  Stored(u)' <=> Stored(u) \/ u = x
<1>1. /\ Len(table') = Len(table) + 1 /\ Len(table) \in Nat
      /\ DOMAIN table' = 1 .. (Len(table) + 1) /\ DOMAIN table = 1 .. Len(table)
      /\ \A i \in 1 .. Len(table) : table'[i] = table[i]
      /\ table'[Len(table) + 1] = x
  OBVIOUS
<1>. QED  BY <1>1 DEF Stored

\* The entry of the path that an update in hand has.
LEMMA PathEntry ==
  ASSUME HandInv, NEW u \in Update, Stored(u), HasPathId(PathOf[u])
  PROVE  PathOf[u] \in PathId /\ pathResult[PathOf[u]] \in Value
BY AspaAssumption DEF HandInv, TypeOK, PathIsStored

LEMMA InitHand == ASSUME Init PROVE HandInv
<1>1. DbIsAnnounced
  BY DEF Init, DbIsAnnounced, NoObject
<1>2. TypeOK
  BY DEF Init, TypeOK, IdleReceiver, IdleCommand, IdleRpki, Value, Object, NoObject
<1>3. table = <<>> /\ DOMAIN table = {} /\ DOMAIN commands = {}
  BY DEF Init
<1>4. StoredFirst /\ PathIsStored /\ VerdictsAreMade
  BY <1>3 DEF Init, StoredFirst, PathIsStored, VerdictsAreMade, Stored, IdleReceiver,
     IdleCommand, IdleRpki
<1>. QED  BY <1>1, <1>2, <1>4 DEF HandInv

LEMMA ChangeHand ==
  ASSUME HandInv, NEW a \in AS, NEW providers \in Offer[a],
         Announce(a, providers) \/ Withdraw(a, providers)
  PROVE  HandInv'
<1>1. DbIsAnnounced'
  BY AnnouncePreserves, WithdrawPreserves DEF HandInv
<1>2. AspaChange
  BY DEF Announce, Withdraw
<1>3. (\A c \in AS : db[c] \in Object(c) /\ announced[c] \in Object(c)) /\ swept \subseteq AS
  BY DEF HandInv, TypeOK
<1>4. {providers} \in Object(a) /\ \A c \in AS : NoObject \in Object(c)
  BY DEF Object, NoObject
<1>5. (\A c \in AS : db'[c] \in Object(c) /\ announced'[c] \in Object(c)) /\ swept' \subseteq AS
  <2>1. CASE Announce(a, providers)
    BY <1>3, <1>4, <2>1 DEF Announce, HandInv, DbIsAnnounced
  <2>2. CASE Withdraw(a, providers)
    <3>1. Extension[a] \subseteq AS
      BY AspaAssumption
    <3>. QED  BY <1>3, <1>4, <2>2, <3>1 DEF Withdraw, HandInv, DbIsAnnounced
  <2>. QED  BY <2>1, <2>2
<1>6. TypeOK'
  <2>1. /\ UNCHANGED <<pathResult, pathDown, modified, table, result, receiver, commands,
                       rpki, clock, requests, doubt>>
        /\ pdus' = pdus + 1 /\ settled' = FALSE
        /\ command' = [command EXCEPT !.fresh = FALSE]
    BY <1>2 DEF AspaChange, pathVars, updateVars
  <2>2. command' \in [at : {"idle", "validate", "path", "update"},
                      update : Update \union {"none"}, value : Value, verdict : Value,
                      fresh : BOOLEAN]
    BY <2>1 DEF HandInv, TypeOK
  <2>3. pdus' \in Nat
    BY <2>1 DEF HandInv, TypeOK
  <2>4. settled' \in BOOLEAN
    BY <2>1, Zenon
  <2>. QED  BY <1>5, <2>1, <2>2, <2>3, <2>4 DEF HandInv, TypeOK
<1>7. StoredFirst' /\ PathIsStored' /\ VerdictsAreMade'
  BY <1>2 DEF HandInv, TypeOK, AspaChange, pathVars, updateVars, StoredFirst, PathIsStored,
     VerdictsAreMade, Stored
<1>. QED  BY <1>1, <1>6, <1>7 DEF HandInv

LEMMA RequestHand ==
  ASSUME HandInv, NEW u \in Update, Request(u)
  PROVE  HandInv'
<1>. DEFINE p == PathOf[u]
            lookUp == HasPathId(p) /\ ~Stored(u)
            found == pathResult[p] # "none"
<1>1. /\ UNCHANGED <<db, announced, swept, modified, table, result, commands, command, rpki,
                     clock, pdus, settled, doubt>>
      /\ requests' = requests + 1
      /\ receiver' = [at     |-> IF Stored(u) THEN "queue" ELSE "store",
                      update |-> u,
                      copy   |-> IF lookUp /\ found THEN pathResult[p] ELSE "undefined"]
      /\ IF lookUp /\ ~found
         THEN /\ pathResult' = [pathResult EXCEPT ![p] = "undefined"]
              /\ pathDown' = [pathDown EXCEPT ![p] = u \in FromProvider]
         ELSE UNCHANGED <<pathResult, pathDown>>
  BY DEF Request, dbVars, updateVars, historyVars
<1>2. p \in PathId
  BY AspaAssumption
<1>3. /\ pathResult \in [PathId -> Value \union {"none"}] /\ pathDown \in [PathId -> BOOLEAN]
      /\ "undefined" \in Value /\ "undefined" # "none"
  BY DEF HandInv, TypeOK, Value
<1>. HIDE DEF p
<1>4. /\ pathResult' \in [PathId -> Value \union {"none"}] /\ pathDown' \in [PathId -> BOOLEAN]
      /\ \A q \in PathId : pathResult[q] # "none" => pathResult'[q] # "none"
      /\ lookUp => pathResult'[p] # "none"
  <2>1. CASE lookUp /\ ~found
    <3>1. pathResult' = [pathResult EXCEPT ![p] = "undefined"]
      BY <1>1, <2>1
    <3>2. pathDown' = [pathDown EXCEPT ![p] = u \in FromProvider]
      BY <1>1, <2>1
    <3>3. (u \in FromProvider) \in BOOLEAN
      OBVIOUS
    <3>4. pathDown' \in [PathId -> BOOLEAN]
      BY <1>3, <3>2, <3>3
    <3>. QED  BY <1>2, <1>3, <3>1, <3>4
  <2>2. CASE ~(lookUp /\ ~found)
    BY <1>1, <1>3, <2>2
  <2>. QED  BY <2>1, <2>2
<1>5. TypeOK'
  <2>1. receiver' \in [at : {"idle", "store", "queue"}, update : Update \union {"none"},
                       copy : Value]
    BY <1>1, <1>2, <1>3
  <2>. QED  BY <1>1, <1>4, <2>1 DEF HandInv, TypeOK
<1>6. DbIsAnnounced' /\ VerdictsAreMade'
  BY <1>1 DEF HandInv, DbIsAnnounced, VerdictsAreMade
<1>7. StoredFirst'
  BY <1>1 DEF HandInv, StoredFirst, Stored
<1>8. PathIsStored'
  <2>. SUFFICES ASSUME NEW v \in Update, Stored(v) \/ v = u, HasPathId(PathOf[v])
                PROVE  pathResult'[PathOf[v]] # "none"
    BY <1>1 DEF PathIsStored, Stored, HasPathId
  <2>1. PathOf[v] \in PathId
    BY AspaAssumption
  <2>2. CASE Stored(v)
    BY <1>4, <2>1, <2>2 DEF HandInv, PathIsStored
  <2>3. CASE v = u /\ ~Stored(v)
    BY <1>4, <2>3 DEF p
  <2>. QED  BY <2>2, <2>3
<1>. QED  BY <1>5, <1>6, <1>7, <1>8 DEF HandInv

LEMMA StoreUpdateHand ==
  ASSUME HandInv, StoreUpdate
  PROVE  HandInv'
<1>1. /\ UNCHANGED <<db, announced, swept, pathResult, pathDown, modified, result, commands,
                     command, rpki, clock, pdus, requests, settled, doubt>>
      /\ receiver.at = "store"
      /\ table' = Append(table, receiver.update)
      /\ receiver' = [receiver EXCEPT !.at = "queue"]
  BY DEF StoreUpdate, dbVars, pathVars, historyVars
<1>2. receiver.update \in Update /\ table \in Seq(Update)
  BY <1>1 DEF HandInv, TypeOK, StoredFirst
<1>3. \A u : Stored(u)' <=> Stored(u) \/ u = receiver.update
  BY <1>1, <1>2, StoredIsStored
<1>4. TypeOK'
  <2>1. table' \in Seq(Update) /\ Len(table') = Len(table) + 1 /\ Len(table) \in Nat
    BY <1>1, <1>2
  <2>2. rpki' \in [at : {"idle", "read", "write"}, time : 0 .. clock',
                   entry : 0 .. Len(table)', next : 0 .. Len(table)', value : Value,
                   path : Value, verdict : Value, timely : BOOLEAN]
    BY <1>1, <2>1 DEF HandInv, TypeOK
  <2>3. receiver' \in [at : {"idle", "store", "queue"}, update : Update \union {"none"},
                       copy : Value]
    BY <1>1 DEF HandInv, TypeOK
  <2>. QED  BY <1>1, <2>1, <2>2, <2>3 DEF HandInv, TypeOK
<1>5. receiver'.at = "queue" /\ receiver'.update = receiver.update
  BY <1>1 DEF HandInv, TypeOK
<1>6. DbIsAnnounced' /\ VerdictsAreMade'
  BY <1>1 DEF HandInv, DbIsAnnounced, VerdictsAreMade
<1>7. StoredFirst'
  BY <1>1, <1>2, <1>3, <1>5 DEF HandInv, StoredFirst, Stored
<1>8. PathIsStored'
  BY <1>1, <1>3, <1>5 DEF HandInv, PathIsStored, HasPathId
<1>. QED  BY <1>4, <1>6, <1>7, <1>8 DEF HandInv

\* A write of a value to an update that is stored.
LEMMA WriteHand ==
  ASSUME HandInv, NEW u \in Update, Stored(u), NEW value \in Value, NEW fresh \in BOOLEAN,
         Write(u, value, fresh), table' = table
  PROVE  /\ result' \in [Update -> Value] /\ doubt' \subseteq Update
         /\ \A v \in Update : result'[v] # "undefined" => Stored(v)'
BY DEF Write, HandInv, TypeOK, StoredFirst, Stored

LEMMA QueueValidationHand ==
  ASSUME HandInv, QueueValidation
  PROVE  HandInv'
<1>. DEFINE u == receiver.update
<1>1. /\ UNCHANGED <<db, announced, swept, pathResult, pathDown, modified, table, command,
                     rpki, clock, pdus, requests, settled>>
      /\ commands' = Append(commands, u)
      /\ receiver' = IdleReceiver
      /\ IF receiver.copy # "undefined" THEN Write(u, receiver.copy, FALSE)
         ELSE UNCHANGED <<result, doubt>>
  BY DEF QueueValidation, dbVars, pathVars
<1>2. u \in Update /\ Stored(u) /\ receiver.copy \in Value /\ commands \in Seq(Update)
  BY DEF QueueValidation, HandInv, TypeOK, StoredFirst
<1>3. /\ result' \in [Update -> Value] /\ doubt' \subseteq Update
      /\ \A v \in Update : result'[v] # "undefined" => Stored(v)'
  <2>1. CASE receiver.copy # "undefined"
    BY <1>1, <1>2, <2>1, WriteHand
  <2>2. CASE receiver.copy = "undefined"
    BY <1>1, <2>2 DEF HandInv, TypeOK, StoredFirst, Stored
  <2>. QED  BY <2>1, <2>2
<1>4. commands' \in Seq(Update) /\ \A i \in DOMAIN commands' : Stored(commands'[i])
  <2>1. \A i \in DOMAIN commands : Stored(commands[i])
    BY DEF HandInv, StoredFirst
  <2>2. /\ commands' \in Seq(Update) /\ Len(commands) \in Nat
        /\ DOMAIN commands' = 1 .. (Len(commands) + 1) /\ DOMAIN commands = 1 .. Len(commands)
        /\ \A i \in 1 .. Len(commands) : commands'[i] = commands[i]
        /\ commands'[Len(commands) + 1] = u
    BY <1>1, <1>2
  <2>. HIDE DEF u
  <2>. QED  BY <1>2, <2>1, <2>2
<1>5. TypeOK'
  BY <1>1, <1>3, <1>4 DEF HandInv, TypeOK, IdleReceiver, Value
<1>6. DbIsAnnounced' /\ VerdictsAreMade'
  BY <1>1 DEF HandInv, DbIsAnnounced, VerdictsAreMade
<1>7. StoredFirst' /\ PathIsStored'
  BY <1>1, <1>3, <1>4 DEF HandInv, StoredFirst, PathIsStored, Stored, IdleReceiver, HasPathId
<1>. QED  BY <1>5, <1>6, <1>7 DEF HandInv

LEMMA IdleCommandIsIdle ==
  /\ IdleCommand \in [at : {"idle", "validate", "path", "update"},
                      update : Update \union {"none"}, value : Value, verdict : Value,
                      fresh : BOOLEAN]
  /\ IdleCommand.at = "idle" /\ IdleCommand.fresh = FALSE
BY DEF IdleCommand, Value

LEMMA StartCommandHand ==
  ASSUME HandInv, StartCommand
  PROVE  HandInv'
<1>. DEFINE u == Head(commands)
<1>1. /\ UNCHANGED <<db, announced, swept, pathResult, pathDown, modified, table, result,
                     receiver, rpki, clock, pdus, requests, settled, doubt>>
      /\ commands # <<>> /\ commands' = Tail(commands)
  BY DEF StartCommand, dbVars, pathVars, updateVars, historyVars
<1>2. commands \in Seq(Update) /\ result \in [Update -> Value]
  BY DEF HandInv, TypeOK
<1>3. /\ commands' \in Seq(Update) /\ u \in Update /\ u = commands[1] /\ 1 \in DOMAIN commands
      /\ \A i \in DOMAIN commands' : i + 1 \in DOMAIN commands /\ commands'[i] = commands[i + 1]
  BY <1>1, <1>2
<1>4. Stored(u) /\ \A i \in DOMAIN commands' : Stored(commands'[i])
  BY <1>3 DEF HandInv, StoredFirst
<1>5. \/ command' = IdleCommand
      \/ command' = [IdleCommand EXCEPT !.at = "validate", !.update = u]
      \/ command' = [IdleCommand EXCEPT !.at = "update", !.update = u,
                       !.value = IF IsSequence[PathOf[u]] THEN result[u] ELSE "unverifiable"]
  BY DEF StartCommand
<1>. HIDE DEF u
<1>6. /\ command' \in [at : {"idle", "validate", "path", "update"},
                       update : Update \union {"none"}, value : Value, verdict : Value,
                       fresh : BOOLEAN]
      /\ command'.at # "path"
      /\ command'.at # "idle" => command'.update = u
  <2>1. result[u] \in Value /\ "undefined" \in Value /\ "unverifiable" \in Value
    BY <1>2, <1>3 DEF Value, AspaVerdict
  <2>2. (IF IsSequence[PathOf[u]] THEN result[u] ELSE "unverifiable") \in Value
    BY <2>1
  <2>. QED  BY <1>3, <1>5, <2>2, IdleCommandIsIdle
<1>7. TypeOK'
  BY <1>1, <1>3, <1>6 DEF HandInv, TypeOK
<1>8. DbIsAnnounced' /\ VerdictsAreMade' /\ PathIsStored'
  BY <1>1, <1>6 DEF HandInv, DbIsAnnounced, VerdictsAreMade, PathIsStored, Stored, HasPathId
<1>9. StoredFirst'
  BY <1>1, <1>3, <1>4, <1>6 DEF HandInv, StoredFirst, Stored
<1>. QED  BY <1>7, <1>8, <1>9 DEF HandInv

LEMMA ValidateHand ==
  ASSUME HandInv, Validate
  PROVE  HandInv'
<1>. DEFINE u == command.update
            p == PathOf[u]
            verdict == Verdict(p, pathDown[p])
            prefersCopy == pathResult[p] # "undefined" /\ IsSequence[p]
<1>1. /\ UNCHANGED <<db, announced, swept, pathResult, pathDown, modified, table, result,
                     receiver, commands, rpki, clock, pdus, requests, settled, doubt>>
      /\ command.at = "validate"
      /\ command' =
           IF HasPathId(p)
           THEN [command EXCEPT
                   !.at = IF verdict # pathResult[p] THEN "path" ELSE "update",
                   !.verdict = verdict,
                   !.value = IF prefersCopy THEN pathResult[p] ELSE verdict,
                   !.fresh = ~prefersCopy]
           ELSE IF ~IsSequence[p]
           THEN [command EXCEPT !.at = "update", !.value = "unverifiable",
                                !.fresh = TRUE]
           ELSE IdleCommand
  BY DEF Validate, dbVars, pathVars, updateVars, historyVars
<1>2. u \in Update /\ Stored(u) /\ (HasPathId(p) => pathResult[p] \in Value)
  BY <1>1, PathEntry DEF HandInv, StoredFirst
<1>3. verdict \in Value /\ verdict \in AspaVerdict
  BY VerdictIsVerdict
<1>4. prefersCopy \in BOOLEAN
  OBVIOUS
<1>. HIDE DEF u, p, verdict, prefersCopy
<1>5. /\ command' \in [at : {"idle", "validate", "path", "update"},
                       update : Update \union {"none"}, value : Value, verdict : Value,
                       fresh : BOOLEAN]
      /\ command'.at # "idle" => command'.update = u
      /\ command'.at = "path" => command'.verdict \in AspaVerdict
  <2>0. /\ command \in [at : {"idle", "validate", "path", "update"},
                        update : Update \union {"none"}, value : Value, verdict : Value,
                        fresh : BOOLEAN]
        /\ command.update = u
    BY DEF HandInv, TypeOK, u
  <2>1. CASE HasPathId(p)
    <3>1. (~prefersCopy) \in BOOLEAN
      OBVIOUS
    <3>2. (IF prefersCopy THEN pathResult[p] ELSE verdict) \in Value
      BY <1>2, <1>3, <2>1
    <3>3. (IF verdict # pathResult[p] THEN "path" ELSE "update") \in {"path", "update"}
      OBVIOUS
    <3>. QED  BY <1>1, <1>3, <2>0, <2>1, <3>1, <3>2, <3>3
  <2>2. CASE ~HasPathId(p) /\ ~IsSequence[p]
    BY <1>1, <2>0, <2>2 DEF Value, AspaVerdict
  <2>3. CASE ~HasPathId(p) /\ IsSequence[p]
    BY <1>1, <2>3 DEF IdleCommand, Value
  <2>. QED  BY <2>1, <2>2, <2>3
<1>6. TypeOK'
  BY <1>1, <1>5 DEF HandInv, TypeOK
<1>7. DbIsAnnounced' /\ VerdictsAreMade' /\ PathIsStored'
  BY <1>1, <1>5 DEF HandInv, DbIsAnnounced, VerdictsAreMade, PathIsStored, Stored, HasPathId
<1>8. StoredFirst'
  BY <1>1, <1>2, <1>5 DEF HandInv, StoredFirst, Stored
<1>. QED  BY <1>6, <1>7, <1>8 DEF HandInv

LEMMA ModifyPathHand ==
  ASSUME HandInv, ModifyPath
  PROVE  HandInv'
<1>. DEFINE p == PathOf[command.update]
<1>1. /\ UNCHANGED <<db, announced, swept, pathDown, table, result, receiver, commands, rpki,
                     clock, pdus, requests, settled, doubt>>
      /\ command.at = "path"
      /\ pathResult' = [pathResult EXCEPT ![p] = command.verdict]
      /\ modified' = [modified EXCEPT ![p] = clock]
      /\ command' = [command EXCEPT !.at = "update"]
  BY DEF ModifyPath, dbVars, updateVars, historyVars
<1>2. p \in PathId /\ command.verdict \in Value /\ command.verdict # "none"
  BY <1>1, AspaAssumption DEF HandInv, StoredFirst, VerdictsAreMade, AspaVerdict, Hop, Value
<1>. HIDE DEF p
<1>3. /\ pathResult' \in [PathId -> Value \union {"none"}]
      /\ modified' \in [PathId -> 0 .. clock']
      /\ \A q \in PathId : pathResult[q] # "none" => pathResult'[q] # "none"
  BY <1>1, <1>2 DEF HandInv, TypeOK
<1>4. /\ command' \in [at : {"idle", "validate", "path", "update"},
                       update : Update \union {"none"}, value : Value, verdict : Value,
                       fresh : BOOLEAN]
      /\ command'.at = "update" /\ command'.update = command.update
  BY <1>1 DEF HandInv, TypeOK
<1>5. TypeOK'
  BY <1>1, <1>3, <1>4 DEF HandInv, TypeOK
<1>6. DbIsAnnounced' /\ VerdictsAreMade' /\ StoredFirst'
  BY <1>1, <1>4 DEF HandInv, DbIsAnnounced, VerdictsAreMade, StoredFirst, Stored
<1>7. PathIsStored'
  BY <1>1, <1>3, AspaAssumption DEF HandInv, PathIsStored, Stored, HasPathId
<1>. QED  BY <1>5, <1>6, <1>7 DEF HandInv

LEMMA ModifyUpdateHand ==
  ASSUME HandInv, ModifyUpdate
  PROVE  HandInv'
<1>1. /\ UNCHANGED <<db, announced, swept, pathResult, pathDown, modified, table, receiver,
                     commands, rpki, clock, pdus, requests, settled>>
      /\ command.at = "update" /\ command' = IdleCommand
      /\ Write(command.update, command.value, command.fresh)
  BY DEF ModifyUpdate, dbVars, pathVars
<1>2. /\ command.update \in Update /\ Stored(command.update) /\ command.value \in Value
      /\ command.fresh \in BOOLEAN
  BY <1>1 DEF HandInv, TypeOK, StoredFirst
<1>3. /\ result' \in [Update -> Value] /\ doubt' \subseteq Update
      /\ \A v \in Update : result'[v] # "undefined" => Stored(v)'
  BY <1>1, <1>2, WriteHand
<1>4. TypeOK'
  BY <1>1, <1>3 DEF HandInv, TypeOK, IdleCommand, Value
<1>5. DbIsAnnounced' /\ VerdictsAreMade' /\ PathIsStored'
  BY <1>1 DEF HandInv, DbIsAnnounced, VerdictsAreMade, PathIsStored, Stored, HasPathId,
     IdleCommand
<1>6. StoredFirst'
  BY <1>1, <1>3 DEF HandInv, StoredFirst, Stored, IdleCommand
<1>. QED  BY <1>4, <1>5, <1>6 DEF HandInv

\* The cursor of the iteration stays within the table.
LEMMA AtIsCursor ==
  ASSUME HandInv, NEW entry \in 0 .. Len(table)
  PROVE  LET new == At(entry, After(entry)) IN
         /\ After(entry) \in 0 .. Len(table)
         /\ new.at = "read" /\ new.entry = entry /\ new.next = After(entry)
         /\ new.time = rpki.time
         /\ new \in [at : {"idle", "read", "write"}, time : 0 .. clock,
                     entry : 0 .. Len(table), next : 0 .. Len(table), value : Value,
                     path : Value, verdict : Value, timely : BOOLEAN]
<1>1. Len(table) \in Nat /\ rpki.time \in 0 .. clock /\ "undefined" \in Value
  BY DEF HandInv, TypeOK, Value
<1>2. After(entry) \in 0 .. Len(table)
  BY <1>1 DEF After
<1>3. IdleRpki \in [at : {"idle", "read", "write"}, time : {0},
                    entry : {0}, next : {0}, value : Value,
                    path : Value, verdict : Value, timely : BOOLEAN]
  BY <1>1 DEF IdleRpki
<1>. QED  BY <1>1, <1>2, <1>3 DEF At

LEMMA EndOfDataHand ==
  ASSUME HandInv, EndOfData
  PROVE  HandInv'
<1>1. /\ UNCHANGED <<db, announced, swept, pathResult, pathDown, modified, table, result,
                     receiver, commands, command, clock, pdus, requests, doubt>>
      /\ settled' = (table = <<>>)
  BY DEF EndOfData, dbVars, pathVars, updateVars
<1>2. /\ table \in Seq(Update) /\ clock \in Nat
      /\ Len(table) \in Nat /\ (table # <<>> => 1 \in 0 .. Len(table))
  BY DEF HandInv, TypeOK
<1>3. /\ rpki' \in [at : {"idle", "read", "write"}, time : 0 .. clock,
                    entry : 0 .. Len(table), next : 0 .. Len(table), value : Value,
                    path : Value, verdict : Value, timely : BOOLEAN]
      /\ rpki'.at # "write"
  <2>1. CASE table = <<>>
    <3>1. rpki' = IdleRpki
      BY <2>1 DEF EndOfData
    <3>. QED  BY <1>2, <3>1 DEF IdleRpki, Value
  <2>2. CASE table # <<>>
    <3>1. rpki' = [At(1, After(1)) EXCEPT !.time = clock]
      BY <2>2 DEF EndOfData
    <3>. QED  BY <1>2, <2>2, <3>1, AtIsCursor
  <2>. QED  BY <2>1, <2>2
<1>4. settled' \in BOOLEAN
  BY <1>1, Zenon
<1>5. TypeOK'
  BY <1>1, <1>3, <1>4 DEF HandInv, TypeOK
<1>6. DbIsAnnounced' /\ VerdictsAreMade' /\ PathIsStored' /\ StoredFirst'
  BY <1>1, <1>3 DEF HandInv, DbIsAnnounced, VerdictsAreMade, PathIsStored, StoredFirst,
     Stored, HasPathId
<1>. QED  BY <1>5, <1>6 DEF HandInv

LEMMA ReadEntryHand ==
  ASSUME HandInv, ReadEntry
  PROVE  HandInv'
<1>. DEFINE u == table[rpki.entry]
            p == PathOf[u]
<1>1. /\ UNCHANGED <<db, announced, swept, pathResult, pathDown, modified, table, result,
                     receiver, commands, command, clock, pdus, requests, settled, doubt>>
      /\ rpki.at = "read" /\ rpki.entry # 0
      /\ rpki' = IF HasPathId(p)
                 THEN [rpki EXCEPT !.at = "write", !.value = result[u],
                                   !.path = pathResult[p], !.timely = Timely(p),
                                   !.verdict = Verdict(p, pathDown[p])]
                 ELSE At(rpki.next, After(rpki.next))
  BY DEF ReadEntry, dbVars, pathVars, updateVars, historyVars
<1>2. /\ rpki \in [at : {"idle", "read", "write"}, time : 0 .. clock,
                   entry : 0 .. Len(table), next : 0 .. Len(table), value : Value,
                   path : Value, verdict : Value, timely : BOOLEAN]
      /\ table \in Seq(Update) /\ result \in [Update -> Value] /\ Len(table) \in Nat
  BY DEF HandInv, TypeOK
<1>3. u \in Update /\ Stored(u)
  BY <1>1, <1>2 DEF Stored
<1>4. /\ rpki' \in [at : {"idle", "read", "write"}, time : 0 .. clock,
                    entry : 0 .. Len(table), next : 0 .. Len(table), value : Value,
                    path : Value, verdict : Value, timely : BOOLEAN]
      /\ rpki'.at = "write" => rpki'.entry # 0 /\ rpki'.verdict \in AspaVerdict
  <2>1. CASE HasPathId(p)
    <3>1. pathResult[p] \in Value /\ result[u] \in Value
      BY <1>2, <1>3, <2>1, PathEntry
    <3>2. Verdict(p, pathDown[p]) \in Value /\ Verdict(p, pathDown[p]) \in AspaVerdict
      BY VerdictIsVerdict
    <3>3. Timely(p) \in BOOLEAN
      BY DEF Timely
    <3>4. rpki' = [rpki EXCEPT !.at = "write", !.value = result[u],
                               !.path = pathResult[p], !.timely = Timely(p),
                               !.verdict = Verdict(p, pathDown[p])]
      BY <1>1, <2>1
    <3>. HIDE DEF u, p
    <3>. QED  BY <1>1, <1>2, <3>1, <3>2, <3>3, <3>4
  <2>2. CASE ~HasPathId(p)
    <3>1. rpki' = At(rpki.next, After(rpki.next))
      BY <1>1, <2>2
    <3>. QED  BY <1>2, <3>1, AtIsCursor
  <2>. QED  BY <2>1, <2>2
<1>5. TypeOK'
  BY <1>1, <1>4 DEF HandInv, TypeOK
<1>6. DbIsAnnounced' /\ VerdictsAreMade' /\ PathIsStored' /\ StoredFirst'
  BY <1>1, <1>4 DEF HandInv, DbIsAnnounced, VerdictsAreMade, PathIsStored, StoredFirst,
     Stored, HasPathId
<1>. QED  BY <1>5, <1>6 DEF HandInv

LEMMA WriteEntryHand ==
  ASSUME HandInv, WriteEntry
  PROVE  HandInv'
<1>. DEFINE u == table[rpki.entry]
            p == PathOf[u]
<1>1. /\ UNCHANGED <<db, announced, swept, pathDown, table, receiver, commands, command,
                     clock, pdus, requests, settled>>
      /\ rpki.at = "write" /\ rpki' = At(rpki.next, After(rpki.next))
      /\ IF rpki.timely
         THEN /\ pathResult' = [pathResult EXCEPT ![p] = rpki.verdict]
              /\ modified' = [modified EXCEPT ![p] = clock]
         ELSE UNCHANGED <<pathResult, modified>>
      /\ result' = [result EXCEPT ![u] = IF NewValue = "none" THEN @ ELSE NewValue]
      /\ doubt' = IF Skipped THEN doubt \union {u}
                  ELSE IF NewValue # "none" THEN doubt \ {u} ELSE doubt
  BY DEF WriteEntry, dbVars
<1>2. /\ rpki \in [at : {"idle", "read", "write"}, time : 0 .. clock,
                   entry : 0 .. Len(table), next : 0 .. Len(table), value : Value,
                   path : Value, verdict : Value, timely : BOOLEAN]
      /\ table \in Seq(Update) /\ result \in [Update -> Value] /\ Len(table) \in Nat
      /\ pathResult \in [PathId -> Value \union {"none"}]
      /\ modified \in [PathId -> 0 .. clock] /\ clock \in Nat /\ doubt \subseteq Update
  BY DEF HandInv, TypeOK
<1>3. rpki.entry # 0 /\ rpki.verdict \in AspaVerdict
  BY <1>1 DEF HandInv, StoredFirst, VerdictsAreMade
<1>4. u \in Update /\ Stored(u) /\ p \in PathId
  BY <1>1, <1>2, <1>3, AspaAssumption DEF Stored
<1>. HIDE DEF u, p
<1>5. rpki.verdict # "none" /\ rpki.verdict \in Value
  BY <1>2, <1>3 DEF AspaVerdict, Hop
<1>6. /\ pathResult' \in [PathId -> Value \union {"none"}]
      /\ modified' \in [PathId -> 0 .. clock']
      /\ \A q \in PathId : pathResult[q] # "none" => pathResult'[q] # "none"
  <2>1. CASE rpki.timely
    BY <1>1, <1>2, <1>4, <1>5, <2>1
  <2>2. CASE ~rpki.timely
    BY <1>1, <1>2, <2>2
  <2>. QED  BY <2>1, <2>2
<1>7. result' \in [Update -> Value] /\ doubt' \subseteq Update
  <2>1. NewValue \in Value \union {"none"}
    BY <1>2 DEF NewValue
  <2>. QED  BY <1>1, <1>2, <1>4, <2>1
<1>8. \A v \in Update : result'[v] # "undefined" => Stored(v)'
  BY <1>1, <1>2, <1>4 DEF HandInv, StoredFirst, Stored
<1>9. /\ rpki' \in [at : {"idle", "read", "write"}, time : 0 .. clock,
                    entry : 0 .. Len(table), next : 0 .. Len(table), value : Value,
                    path : Value, verdict : Value, timely : BOOLEAN]
      /\ rpki'.at = "read"
  BY <1>1, <1>2, AtIsCursor
<1>10. TypeOK'
  BY <1>1, <1>6, <1>7, <1>9 DEF HandInv, TypeOK
<1>11. DbIsAnnounced' /\ VerdictsAreMade' /\ StoredFirst'
  BY <1>1, <1>8, <1>9 DEF HandInv, DbIsAnnounced, VerdictsAreMade, StoredFirst, Stored
<1>12. PathIsStored'
  BY <1>1, <1>6, AspaAssumption DEF HandInv, PathIsStored, Stored, HasPathId
<1>. QED  BY <1>10, <1>11, <1>12 DEF HandInv

LEMMA EndOfIterationHand ==
  ASSUME HandInv, EndOfIteration
  PROVE  HandInv'
<1>1. /\ UNCHANGED <<db, announced, swept, pathResult, pathDown, modified, table, result,
                     receiver, commands, command, clock, pdus, requests, doubt>>
      /\ rpki' = IdleRpki /\ settled' = TRUE
  BY DEF EndOfIteration, dbVars, pathVars, updateVars
<1>2. /\ rpki' \in [at : {"idle", "read", "write"}, time : 0 .. clock,
                    entry : 0 .. Len(table), next : 0 .. Len(table), value : Value,
                    path : Value, verdict : Value, timely : BOOLEAN]
      /\ rpki'.at = "idle"
  BY <1>1 DEF HandInv, TypeOK, IdleRpki, Value
<1>3. settled' \in BOOLEAN
  BY <1>1, Zenon
<1>4. TypeOK'
  BY <1>1, <1>2, <1>3 DEF HandInv, TypeOK
<1>5. DbIsAnnounced' /\ VerdictsAreMade' /\ PathIsStored' /\ StoredFirst'
  BY <1>1, <1>2 DEF HandInv, DbIsAnnounced, VerdictsAreMade, PathIsStored, StoredFirst,
     Stored, HasPathId
<1>. QED  BY <1>4, <1>5 DEF HandInv

LEMMA TickHand ==
  ASSUME HandInv, Tick \/ UNCHANGED vars
  PROVE  HandInv'
<1>1. /\ UNCHANGED <<db, announced, swept, pathResult, pathDown, modified, table, result,
                     receiver, commands, command, rpki, pdus, requests, settled, doubt>>
      /\ clock' \in {clock, clock + 1}
  BY DEF Tick, vars, dbVars, pathVars, updateVars, threadVars, historyVars
<1>2. 0 .. clock \subseteq 0 .. clock' /\ clock' \in Nat
  BY <1>1 DEF HandInv, TypeOK
<1>3. /\ modified' \in [PathId -> 0 .. clock']
      /\ rpki' \in [at : {"idle", "read", "write"}, time : 0 .. clock',
                    entry : 0 .. Len(table), next : 0 .. Len(table), value : Value,
                    path : Value, verdict : Value, timely : BOOLEAN]
  BY <1>1, <1>2 DEF HandInv, TypeOK
<1>4. TypeOK'
  BY <1>1, <1>2, <1>3 DEF HandInv, TypeOK
<1>5. DbIsAnnounced' /\ VerdictsAreMade' /\ PathIsStored' /\ StoredFirst'
  BY <1>1 DEF HandInv, DbIsAnnounced, VerdictsAreMade, PathIsStored, StoredFirst,
     Stored, HasPathId
<1>. QED  BY <1>4, <1>5 DEF HandInv

LEMMA HandSteps == ASSUME HandInv, [Next]_vars PROVE HandInv'
BY ChangeHand, RequestHand, StoreUpdateHand, QueueValidationHand, StartCommandHand,
   ValidateHand, ModifyPathHand, ModifyUpdateHand, EndOfDataHand, ReadEntryHand,
   WriteEntryHand, EndOfIterationHand, TickHand
   DEF Next, ReceiverNext, CommandNext, RpkiNext

LEMMA HandIsInductive == Spec => []HandInv
<1>1. HandInv /\ [Next]_vars => HandInv'
  BY HandSteps
<1>. QED  BY <1>1, InitHand, PTL DEF Spec

\* The state of the ASPA result path has its types: no thread copies the mark of
\* a missing path entry as if it were a result, and the iteration of an End of
\* Data never leaves the table.
THEOREM AspaCacheTypes == Spec => []TypeOK
BY HandIsInductive, PTL DEF HandInv

-----------------------------------------------------------------------------
(***************************************************************************)
(* No update is forgotten: it has a result, or a thread has it in hand.    *)
(* That an End of Data takes no result away rests on the times: a path     *)
(* without a result was never modified, and is validated.                  *)
(***************************************************************************)

UndefinedIsUnmodified ==
  /\ clock > 0
  /\ \A p \in PathId : pathResult[p] \in {"none", "undefined"} => modified[p] = 0
  /\ rpki.at # "idle" => rpki.time > 0
  /\ rpki.at = "write" /\ ~rpki.timely => rpki.path # "undefined"

\* The command thread writes no undefined result.
ValueIsDefined == command.at \in {"path", "update"} => command.value # "undefined"

\* An update that waits for the command thread or is in its hands.
Pending(u) ==
  \/ receiver.at = "queue" /\ receiver.update = u
  \/ \E i \in DOMAIN commands : commands[i] = u
  \/ command.at # "idle" /\ command.update = u

Decidable(u) == HasPathId(PathOf[u]) \/ ~IsSequence[PathOf[u]]

NoneIsLost ==
  \A u \in Update : Stored(u) /\ Decidable(u) => result[u] # "undefined" \/ Pending(u)

KeepInv == HandInv /\ UndefinedIsUnmodified /\ ValueIsDefined /\ NoneIsLost

LEMMA InitKeep == ASSUME Init PROVE KeepInv
<1>1. HandInv
  BY InitHand
<1>2. table = <<>> /\ DOMAIN table = {}
  BY DEF Init
<1>3. UndefinedIsUnmodified
  BY DEF Init, UndefinedIsUnmodified, IdleRpki
<1>4. ValueIsDefined /\ NoneIsLost
  BY <1>2 DEF Init, ValueIsDefined, NoneIsLost, Stored, IdleCommand
<1>. QED  BY <1>1, <1>3, <1>4 DEF KeepInv

\* The steps that touch neither the path cache nor the RPKI thread.
LEMMA TimesStay ==
  ASSUME KeepInv, UNCHANGED <<pathResult, modified, rpki>>, clock' \in {clock, clock + 1}
  PROVE  UndefinedIsUnmodified'
BY DEF KeepInv, HandInv, TypeOK, UndefinedIsUnmodified

LEMMA TimesAreKept ==
  ASSUME KeepInv, [Next]_vars
  PROVE  UndefinedIsUnmodified'
<1>. USE DEF KeepInv
<1>0. /\ clock \in Nat /\ clock > 0
      /\ pathResult \in [PathId -> Value \union {"none"}]
      /\ modified \in [PathId -> 0 .. clock]
      /\ rpki \in [at : {"idle", "read", "write"}, time : 0 .. clock,
                   entry : 0 .. Len(table), next : 0 .. Len(table), value : Value,
                   path : Value, verdict : Value, timely : BOOLEAN]
  BY DEF HandInv, TypeOK, UndefinedIsUnmodified
<1>1. CASE \/ \E a \in AS : \E providers \in Offer[a] :
                Announce(a, providers) \/ Withdraw(a, providers)
           \/ ReceiverNext \/ StartCommand \/ Validate \/ ModifyUpdate \/ Tick
           \/ UNCHANGED vars
  <2>1. UNCHANGED <<pathResult, modified, rpki>> /\ clock' \in {clock, clock + 1}
    BY <1>1 DEF Announce, Withdraw, AspaChange, ReceiverNext, StoreUpdate, QueueValidation,
       StartCommand, Validate, ModifyUpdate, Tick, vars, pathVars, threadVars
  <2>. QED  BY <2>1, TimesStay
<1>2. ASSUME NEW u \in Update, Request(u) PROVE UndefinedIsUnmodified'
  <2>1. UNCHANGED <<modified, rpki, clock>>
    BY <1>2 DEF Request
  <2>2. \/ pathResult' = pathResult
        \/ /\ pathResult[PathOf[u]] = "none"
           /\ pathResult' = [pathResult EXCEPT ![PathOf[u]] = "undefined"]
    BY <1>2 DEF Request
  <2>. QED  BY <1>0, <2>1, <2>2 DEF UndefinedIsUnmodified
<1>3. CASE ModifyPath
  <2>1. /\ UNCHANGED <<rpki, clock>>
        /\ pathResult' = [pathResult EXCEPT ![PathOf[command.update]] = command.verdict]
        /\ modified' = [modified EXCEPT ![PathOf[command.update]] = clock]
        /\ command.at = "path"
    BY <1>3 DEF ModifyPath
  <2>2. command.verdict \notin {"none", "undefined"}
    BY <2>1 DEF HandInv, VerdictsAreMade, AspaVerdict, Hop
  <2>. QED  BY <1>0, <2>1, <2>2 DEF UndefinedIsUnmodified
<1>4. CASE EndOfData
  <2>1. UNCHANGED <<pathResult, modified, clock>>
    BY <1>4 DEF EndOfData, pathVars
  <2>2. rpki'.at # "write" /\ (rpki'.at # "idle" => rpki'.time > 0)
    <3>1. CASE table = <<>>
      BY <1>4, <3>1 DEF EndOfData, IdleRpki
    <3>2. CASE table # <<>>
      <4>1. 1 \in 0 .. Len(table)
        BY <3>2 DEF HandInv, TypeOK
      <4>. QED  BY <1>0, <1>4, <3>2, <4>1, AtIsCursor DEF EndOfData
    <3>. QED  BY <3>1, <3>2
  <2>. QED  BY <2>1, <2>2 DEF UndefinedIsUnmodified
<1>5. CASE ReadEntry
  <2>. DEFINE u == table[rpki.entry]
              p == PathOf[u]
  <2>1. UNCHANGED <<pathResult, modified, clock>> /\ rpki.at = "read" /\ rpki.entry # 0
    BY <1>5 DEF ReadEntry, pathVars
  <2>2. p \in PathId
    BY <1>0, <2>1, AspaAssumption DEF HandInv, TypeOK
  <2>3. rpki.time > 0 /\ rpki.time \in Nat
    BY <1>0, <2>1 DEF UndefinedIsUnmodified
  <2>4. CASE HasPathId(p)
    <3>1. rpki' = [rpki EXCEPT !.at = "write", !.value = result[u],
                               !.path = pathResult[p], !.timely = Timely(p),
                               !.verdict = Verdict(p, pathDown[p])]
      BY <1>5, <2>4 DEF ReadEntry
    <3>2. rpki'.time = rpki.time /\ rpki'.path = pathResult[p] /\ rpki'.timely = Timely(p)
      <4>. HIDE DEF u, p
      <4>. QED  BY <1>0, <3>1
    <3>3. pathResult[p] = "undefined" => Timely(p)
      BY <2>2, <2>3 DEF Timely, UndefinedIsUnmodified
    <3>. QED  BY <2>1, <2>3, <3>2, <3>3 DEF UndefinedIsUnmodified
  <2>5. CASE ~HasPathId(p)
    <3>1. rpki' = At(rpki.next, After(rpki.next))
      BY <1>5, <2>5 DEF ReadEntry
    <3>. QED  BY <1>0, <2>1, <2>3, <3>1, AtIsCursor DEF UndefinedIsUnmodified
  <2>. QED  BY <2>4, <2>5
<1>6. CASE WriteEntry
  <2>. DEFINE p == PathOf[table[rpki.entry]]
  <2>1. /\ rpki.at = "write" /\ rpki' = At(rpki.next, After(rpki.next)) /\ clock' = clock
        /\ IF rpki.timely
           THEN /\ pathResult' = [pathResult EXCEPT ![p] = rpki.verdict]
                /\ modified' = [modified EXCEPT ![p] = clock]
           ELSE UNCHANGED <<pathResult, modified>>
    BY <1>6 DEF WriteEntry
  <2>2. rpki.verdict \notin {"none", "undefined"}
    BY <2>1 DEF HandInv, VerdictsAreMade, AspaVerdict, Hop
  <2>. HIDE DEF p
  <2>3. \A q \in PathId : pathResult'[q] \in {"none", "undefined"} => modified'[q] = 0
    BY <1>0, <2>1, <2>2 DEF UndefinedIsUnmodified
  <2>4. rpki'.at = "read" /\ rpki'.time = rpki.time
    BY <1>0, <2>1, AtIsCursor
  <2>. QED  BY <1>0, <2>1, <2>3, <2>4 DEF UndefinedIsUnmodified
<1>7. CASE EndOfIteration
  BY <1>7 DEF EndOfIteration, pathVars, IdleRpki, UndefinedIsUnmodified
<1>. QED  BY <1>1, <1>2, <1>3, <1>4, <1>5, <1>6, <1>7 DEF Next, CommandNext, RpkiNext

LEMMA ValuesAreDefined ==
  ASSUME KeepInv, [Next]_vars
  PROVE  ValueIsDefined'
<1>. USE DEF KeepInv
<1>0. command \in [at : {"idle", "validate", "path", "update"},
                   update : Update \union {"none"}, value : Value, verdict : Value,
                   fresh : BOOLEAN]
  BY DEF HandInv, TypeOK
<1>1. CASE \/ (\E u \in Update : Request(u)) \/ ReceiverNext \/ RpkiNext \/ Tick
           \/ UNCHANGED vars
  <2>1. command' = command
    BY <1>1 DEF Request, ReceiverNext, StoreUpdate, QueueValidation, RpkiNext, EndOfData,
       ReadEntry, WriteEntry, EndOfIteration, Tick, vars, threadVars
  <2>. QED  BY <2>1 DEF ValueIsDefined
<1>2. CASE \E a \in AS : \E providers \in Offer[a] :
             Announce(a, providers) \/ Withdraw(a, providers)
  <2>1. command' = [command EXCEPT !.fresh = FALSE]
    BY <1>2 DEF Announce, Withdraw, AspaChange
  <2>. QED  BY <1>0, <2>1 DEF ValueIsDefined
<1>3. CASE StartCommand
  <2>. DEFINE u == Head(commands)
  <2>1. \/ command' = IdleCommand
        \/ command' = [IdleCommand EXCEPT !.at = "validate", !.update = u]
        \/ /\ result[u] # "undefined"
           /\ command' = [IdleCommand EXCEPT !.at = "update", !.update = u,
                            !.value = IF IsSequence[PathOf[u]] THEN result[u]
                                      ELSE "unverifiable"]
    BY <1>3 DEF StartCommand, NeedsValidation
  <2>. HIDE DEF u
  <2>. QED  BY <2>1, IdleCommandIsIdle DEF ValueIsDefined
<1>4. CASE Validate
  <2>. DEFINE p == PathOf[command.update]
              verdict == Verdict(p, pathDown[p])
              prefersCopy == pathResult[p] # "undefined" /\ IsSequence[p]
  <2>1. command' =
          IF HasPathId(p)
          THEN [command EXCEPT
                  !.at = IF verdict # pathResult[p] THEN "path" ELSE "update",
                  !.verdict = verdict,
                  !.value = IF prefersCopy THEN pathResult[p] ELSE verdict,
                  !.fresh = ~prefersCopy]
          ELSE IF ~IsSequence[p]
          THEN [command EXCEPT !.at = "update", !.value = "unverifiable",
                               !.fresh = TRUE]
          ELSE IdleCommand
    BY <1>4 DEF Validate
  <2>2. (IF prefersCopy THEN pathResult[p] ELSE verdict) # "undefined"
    BY VerdictIsVerdict
  <2>. HIDE DEF p, verdict, prefersCopy
  <2>. QED  BY <1>0, <2>1, <2>2 DEF ValueIsDefined, IdleCommand
<1>5. CASE ModifyPath
  BY <1>0, <1>5 DEF ModifyPath, ValueIsDefined
<1>6. CASE ModifyUpdate
  BY <1>6 DEF ModifyUpdate, ValueIsDefined, IdleCommand
<1>. QED  BY <1>1, <1>2, <1>3, <1>4, <1>5, <1>6 DEF Next, CommandNext

\* No step takes away the result an update has.
LEMMA DefinedStays ==
  ASSUME KeepInv, [Next]_vars, NEW u \in Update, result[u] # "undefined"
  PROVE  result'[u] # "undefined"
<1>. USE DEF KeepInv
<1>0. result \in [Update -> Value]
  BY DEF HandInv, TypeOK
<1>1. CASE UNCHANGED result
  BY <1>1
<1>2. ASSUME NEW v, NEW value, NEW fresh, value # "undefined", Write(v, value, fresh)
      PROVE  result'[u] # "undefined"
  BY <1>0, <1>2 DEF Write
<1>3. CASE QueueValidation
  BY <1>1, <1>2, <1>3 DEF QueueValidation
<1>4. CASE ModifyUpdate
  BY <1>2, <1>4 DEF ModifyUpdate, ValueIsDefined
<1>5. CASE WriteEntry
  <2>1. NewValue # "undefined"
    BY <1>5 DEF WriteEntry, NewValue, HandInv, VerdictsAreMade, UndefinedIsUnmodified,
       AspaVerdict, Hop
  <2>. QED  BY <1>0, <1>5, <2>1 DEF WriteEntry
<1>6. CASE \/ (\E a \in AS : \E providers \in Offer[a] :
                 Announce(a, providers) \/ Withdraw(a, providers))
           \/ (\E v \in Update : Request(v)) \/ StoreUpdate \/ StartCommand \/ Validate
           \/ ModifyPath \/ EndOfData \/ ReadEntry \/ EndOfIteration \/ Tick
           \/ UNCHANGED vars
  <2>1. UNCHANGED result
    BY <1>6 DEF Announce, Withdraw, AspaChange, Request, StoreUpdate, StartCommand, Validate,
       ModifyPath, EndOfData, ReadEntry, EndOfIteration, Tick, vars, updateVars
  <2>. QED  BY <2>1, <1>1
<1>. QED  BY <1>3, <1>4, <1>5, <1>6 DEF Next, ReceiverNext, CommandNext, RpkiNext

\* What is pending stays so until it has a result.
LEMMA PendingIsWorkedOff ==
  ASSUME KeepInv, [Next]_vars, NEW u \in Update, Decidable(u), Pending(u)
  PROVE  result'[u] # "undefined" \/ Pending(u)'
<1>. USE DEF KeepInv
<1>0. /\ commands \in Seq(Update)
      /\ command \in [at : {"idle", "validate", "path", "update"},
                      update : Update \union {"none"}, value : Value, verdict : Value,
                      fresh : BOOLEAN]
  BY DEF HandInv, TypeOK
<1>1. CASE \/ (\E a \in AS : \E providers \in Offer[a] :
                 Announce(a, providers) \/ Withdraw(a, providers))
           \/ (\E v \in Update : Request(v)) \/ StoreUpdate
           \/ ModifyPath \/ RpkiNext \/ Tick \/ UNCHANGED vars
  <2>1. commands' = commands /\ (receiver.at = "queue" => receiver' = receiver)
    BY <1>1 DEF Announce, Withdraw, AspaChange, Request, StoreUpdate, ModifyPath, RpkiNext,
       EndOfData, ReadEntry, WriteEntry, EndOfIteration, Tick, vars, threadVars
  <2>2. \/ command' = command
        \/ command' = [command EXCEPT !.fresh = FALSE]
        \/ command' = [command EXCEPT !.at = "update"]
    BY <1>1 DEF Announce, Withdraw, AspaChange, Request, StoreUpdate, ModifyPath, RpkiNext,
       EndOfData, ReadEntry, WriteEntry, EndOfIteration, Tick, vars, threadVars
  <2>3. command.at # "idle" => command'.at # "idle" /\ command'.update = command.update
    BY <1>0, <2>2
  <2>. QED  BY <2>1, <2>3 DEF Pending
<1>2. CASE QueueValidation
  <2>1. commands' = Append(commands, receiver.update) /\ command' = command
    BY <1>2 DEF QueueValidation
  <2>2. receiver.update \in Update
    BY <1>2 DEF QueueValidation, HandInv, StoredFirst
  <2>3. /\ Len(commands) \in Nat /\ DOMAIN commands = 1 .. Len(commands)
        /\ DOMAIN commands' = 1 .. (Len(commands) + 1)
        /\ \A i \in 1 .. Len(commands) : commands'[i] = commands[i]
        /\ commands'[Len(commands) + 1] = receiver.update
    BY <1>0, <2>1, <2>2
  <2>. QED  BY <2>1, <2>3 DEF Pending
<1>3. CASE StartCommand
  <2>. DEFINE v == Head(commands)
  <2>1. /\ commands # <<>> /\ commands' = Tail(commands)
        /\ command.at = "idle" /\ UNCHANGED <<receiver, result>>
    BY <1>3 DEF StartCommand, updateVars
  <2>2. CASE \E i \in DOMAIN commands : i # 1 /\ commands[i] = u
    <3>1. PICK i \in DOMAIN commands : i # 1 /\ commands[i] = u
      BY <2>2
    <3>2. i - 1 \in DOMAIN commands' /\ commands'[i - 1] = u
      BY <1>0, <2>1, <3>1
    <3>. QED  BY <3>2 DEF Pending
  <2>3. CASE receiver.at = "queue" /\ receiver.update = u
    BY <2>1, <2>3 DEF Pending
  <2>4. CASE v = u
    <3>1. result[u] # "undefined" \/ command' = [IdleCommand EXCEPT !.at = "validate", !.update = u]
      BY <1>3, <2>4 DEF StartCommand, NeedsValidation
    <3>2. result[u] # "undefined" \/ (command'.at = "validate" /\ command'.update = u)
      BY <3>1, IdleCommandIsIdle
    <3>. QED  BY <2>1, <3>2 DEF Pending
  <2>5. commands[1] = v
    BY <1>0, <2>1
  <2>. QED  BY <2>1, <2>2, <2>3, <2>4, <2>5 DEF Pending
<1>4. CASE Validate
  <2>. DEFINE p == PathOf[command.update]
              verdict == Verdict(p, pathDown[p])
              prefersCopy == pathResult[p] # "undefined" /\ IsSequence[p]
  <2>1. /\ UNCHANGED <<receiver, commands>>
        /\ command' =
             IF HasPathId(p)
             THEN [command EXCEPT
                     !.at = IF verdict # pathResult[p] THEN "path" ELSE "update",
                     !.verdict = verdict,
                     !.value = IF prefersCopy THEN pathResult[p] ELSE verdict,
                     !.fresh = ~prefersCopy]
             ELSE IF ~IsSequence[p]
             THEN [command EXCEPT !.at = "update", !.value = "unverifiable",
                                  !.fresh = TRUE]
             ELSE IdleCommand
    BY <1>4 DEF Validate
  <2>. HIDE DEF verdict, prefersCopy
  <2>2. command.update = u => command'.at # "idle" /\ command'.update = u
    BY <1>0, <2>1 DEF Decidable
  <2>. QED  BY <2>1, <2>2 DEF Pending
<1>5. CASE ModifyUpdate
  <2>1. /\ UNCHANGED <<receiver, commands>> /\ command.at = "update"
        /\ Write(command.update, command.value, command.fresh)
    BY <1>5 DEF ModifyUpdate
  <2>2. command.update = u => result'[u] # "undefined"
    BY <2>1 DEF Write, HandInv, TypeOK, ValueIsDefined
  <2>. QED  BY <2>1, <2>2 DEF Pending
<1>. QED  BY <1>1, <1>2, <1>3, <1>4, <1>5 DEF Next, ReceiverNext, CommandNext

LEMMA NoneGetsLost ==
  ASSUME KeepInv, [Next]_vars
  PROVE  NoneIsLost'
<1>. USE DEF KeepInv
<1>. SUFFICES ASSUME NEW u \in Update, Stored(u)', Decidable(u)
              PROVE  result'[u] # "undefined" \/ Pending(u)'
  BY DEF NoneIsLost, Decidable, HasPathId
<1>1. CASE Stored(u)
  <2>1. result[u] # "undefined" \/ Pending(u)
    BY <1>1 DEF NoneIsLost
  <2>. QED  BY <2>1, DefinedStays, PendingIsWorkedOff
<1>2. CASE ~Stored(u)
  <2>1. table' = table \/ StoreUpdate
    BY DEF Next, Announce, Withdraw, AspaChange, Request, ReceiverNext, QueueValidation,
       CommandNext, StartCommand, Validate, ModifyPath, ModifyUpdate, RpkiNext, EndOfData,
       ReadEntry, WriteEntry, EndOfIteration, Tick, vars, updateVars
  <2>2. StoreUpdate
    BY <1>2, <2>1 DEF Stored
  <2>3. receiver.update \in Update /\ table \in Seq(Update)
    BY <2>2 DEF StoreUpdate, HandInv, TypeOK, StoredFirst
  <2>4. u = receiver.update
    BY <1>2, <2>2, <2>3, StoredIsStored DEF StoreUpdate
  <2>5. receiver'.at = "queue" /\ receiver'.update = u
    BY <2>2, <2>4 DEF StoreUpdate, HandInv, TypeOK
  <2>. QED  BY <2>5 DEF Pending
<1>. QED  BY <1>1, <1>2

LEMMA KeepIsInductive == Spec => []KeepInv
<1>1. KeepInv /\ [Next]_vars => KeepInv'
  BY HandSteps, TimesAreKept, ValuesAreDefined, NoneGetsLost DEF KeepInv
<1>. QED  BY <1>1, InitKeep, PTL DEF Spec

\* However many updates, requests and PDUs there are and however the three
\* threads take turns: once the receiver and the command thread have nothing left
\* to do, every stored update whose path can be judged has an ASPA result.
THEOREM NoUpdateIsForgotten == Spec => []NoneIsForgotten
<1>1. KeepInv => NoneIsForgotten
  <2>. SUFFICES ASSUME KeepInv, receiver.at = "idle", command.at = "idle", commands = <<>>,
                       NEW i \in DOMAIN table,
                       HasPathId(PathOf[table[i]]) \/ ~IsSequence[PathOf[table[i]]]
                PROVE  result[table[i]] # "undefined"
    BY DEF NoneIsForgotten
  <2>1. table[i] \in Update /\ Stored(table[i])
    BY DEF KeepInv, HandInv, TypeOK, Stored
  <2>2. DOMAIN commands = {}
    OBVIOUS
  <2>3. ~Pending(table[i])
    BY <2>2 DEF Pending
  <2>. QED  BY <2>1, <2>3 DEF KeepInv, NoneIsLost, Decidable
<1>. QED  BY <1>1, KeepIsInductive, PTL

-----------------------------------------------------------------------------
(***************************************************************************)
(* The results are current.  The database is fixed while an End of Data is *)
(* worked off, so every update is current but those still to be visited.   *)
(***************************************************************************)

\* A path without an identifier is never judged by the database.
EmptyIsUnverifiable ==
  /\ \A u \in Update :
       ~HasPathId(PathOf[u]) => result[u] \in {"undefined", "unverifiable"}
  /\ receiver.copy # "undefined" => HasPathId(PathOf[receiver.update])
  /\ command.at \in {"path", "update"} =>
       HasPathId(PathOf[command.update]) \/ command.value = "unverifiable"

\* A verdict that no change of the database has overtaken.
FreshIsSupported ==
  \A u \in Update :
    command.fresh /\ command.update = u =>
      command.at \in {"path", "update"} /\ command.value = Supported(u)

CursorIsInOrder ==
  /\ settled => rpki.at = "idle"
  /\ rpki.at = "idle" => rpki.entry = 0
  /\ rpki.entry = 0 => rpki.next = 0
  /\ rpki.next # 0 => rpki.next = rpki.entry + 1

Current(u) == u \in doubt \/ result[u] \in {"undefined", Supported(u)}

\* The positions that the iteration has still to visit: the successor is fetched
\* in advance, so what is stored behind the last entry is not visited.
ToVisit(i) ==
  /\ rpki.entry # 0
  /\ IF rpki.next = 0 THEN i = rpki.entry ELSE i >= rpki.entry

VisitedAreCurrent ==
  settled \/ rpki.at # "idle" =>
    \A u \in Update : Current(u) \/ \E i \in DOMAIN table : ToVisit(i) /\ table[i] = u

\* What the RPKI thread has read of the entry it is about to write: if the result
\* has changed since, it has become current.
ReadIsUsable ==
  \A u \in Update :
    rpki.at = "write" /\ table[rpki.entry] = u =>
      /\ HasPathId(PathOf[u])
      /\ rpki.verdict = Supported(u)
      /\ Current(u) \/ result[u] = rpki.value

CurrentInv ==
  /\ KeepInv
  /\ EmptyIsUnverifiable /\ FreshIsSupported /\ CursorIsInOrder
  /\ VisitedAreCurrent /\ ReadIsUsable

LEMMA InitCurrent == ASSUME Init PROVE CurrentInv
<1>1. KeepInv
  BY InitKeep
<1>2. EmptyIsUnverifiable
  BY DEF Init, EmptyIsUnverifiable, IdleReceiver, IdleCommand
<1>3. FreshIsSupported
  BY IdleCommandIsIdle DEF Init, FreshIsSupported
<1>4. CursorIsInOrder /\ VisitedAreCurrent /\ ReadIsUsable
  BY DEF Init, CursorIsInOrder, VisitedAreCurrent, ReadIsUsable, Current, IdleRpki
<1>. QED  BY <1>1, <1>2, <1>3, <1>4 DEF CurrentInv

\* The steps that leave the database alone.
QuietStep ==
  \/ \E u \in Update : Request(u)
  \/ ReceiverNext \/ CommandNext \/ RpkiNext \/ Tick \/ UNCHANGED vars

\* Without a change of the database the verdict on the path of a stored update
\* stays: its path has an entry already, so that its direction is decided.
LEMMA SupportedStays ==
  ASSUME HandInv, QuietStep, NEW u \in Update, Stored(u)
  PROVE  Supported(u)' = Supported(u)
<1>1. UNCHANGED db
  BY DEF QuietStep, Request, ReceiverNext, StoreUpdate, QueueValidation, CommandNext,
     StartCommand, Validate, ModifyPath, ModifyUpdate, RpkiNext, EndOfData, ReadEntry,
     WriteEntry, EndOfIteration, Tick, vars, dbVars
<1>2. HasPathId(PathOf[u]) => pathDown'[PathOf[u]] = pathDown[PathOf[u]]
  <2>. SUFFICES ASSUME HasPathId(PathOf[u])
                PROVE  pathDown'[PathOf[u]] = pathDown[PathOf[u]]
    OBVIOUS
  <2>1. pathResult[PathOf[u]] # "none"
    BY DEF HandInv, PathIsStored
  <2>2. CASE \E v \in Update : Request(v)
    <3>1. PICK v \in Update : Request(v)
      BY <2>2
    <3>2. CASE pathDown' = pathDown
      BY <3>2
    <3>3. CASE /\ pathResult[PathOf[v]] = "none"
               /\ pathDown' = [pathDown EXCEPT ![PathOf[v]] = v \in FromProvider]
      <4>1. PathOf[v] # PathOf[u] /\ PathOf[u] \in PathId
        BY <2>1, <3>3, AspaAssumption
      <4>2. pathDown \in [PathId -> BOOLEAN]
        BY DEF HandInv, TypeOK
      <4>3. \A b : [pathDown EXCEPT ![PathOf[v]] = b][PathOf[u]] = pathDown[PathOf[u]]
        BY <4>1, <4>2
      <4>. QED  BY <3>3, <4>3, Zenon
    <3>. QED  BY <3>1, <3>2, <3>3 DEF Request
  <2>3. CASE pathDown' = pathDown
    BY <2>3
  <2>. QED  BY <2>2, <2>3 DEF QuietStep, ReceiverNext, StoreUpdate, QueueValidation,
       CommandNext, StartCommand, Validate, ModifyPath, ModifyUpdate, RpkiNext, EndOfData,
       ReadEntry, WriteEntry, EndOfIteration, Tick, vars, pathVars
<1>. QED  BY <1>1, <1>2 DEF Supported, Verdict, HasPathId, UpHops, DownHops, Lookup

\* The entry at which the iteration is.
LEMMA EntryIsStored ==
  ASSUME HandInv, rpki.entry # 0
  PROVE  /\ rpki.entry \in DOMAIN table
         /\ table[rpki.entry] \in Update /\ Stored(table[rpki.entry])
<1>1. rpki.entry \in 1 .. Len(table) /\ table \in Seq(Update)
  BY DEF HandInv, TypeOK
<1>. QED  BY <1>1 DEF Stored

LEMMA EmptyStaysUnverifiable ==
  ASSUME CurrentInv, [Next]_vars
  PROVE  EmptyIsUnverifiable'
<1>. USE DEF CurrentInv, KeepInv
<1>0. /\ result \in [Update -> Value]
      /\ command \in [at : {"idle", "validate", "path", "update"},
                      update : Update \union {"none"}, value : Value, verdict : Value,
                      fresh : BOOLEAN]
      /\ receiver \in [at : {"idle", "store", "queue"}, update : Update \union {"none"},
                       copy : Value]
  BY DEF HandInv, TypeOK
<1>1. CASE \/ (\E a \in AS : \E providers \in Offer[a] :
                 Announce(a, providers) \/ Withdraw(a, providers))
           \/ StoreUpdate \/ ModifyPath \/ EndOfData \/ ReadEntry \/ EndOfIteration \/ Tick
           \/ UNCHANGED vars
  <2>1. /\ result' = result
        /\ receiver' = receiver \/ receiver' = [receiver EXCEPT !.at = "queue"]
        /\ \/ command' = command
           \/ command' = [command EXCEPT !.fresh = FALSE]
           \/ command.at = "path" /\ command' = [command EXCEPT !.at = "update"]
    BY <1>1 DEF Announce, Withdraw, AspaChange, StoreUpdate, ModifyPath, EndOfData,
       ReadEntry, EndOfIteration, Tick, vars, threadVars, updateVars
  <2>2. receiver'.copy = receiver.copy /\ receiver'.update = receiver.update
    BY <1>0, <2>1
  <2>3. /\ command'.value = command.value /\ command'.update = command.update
        /\ command'.at \in {"path", "update"} => command.at \in {"path", "update"}
    BY <1>0, <2>1
  <2>. QED  BY <2>1, <2>2, <2>3 DEF EmptyIsUnverifiable, HasPathId
<1>2. ASSUME NEW u \in Update, Request(u) PROVE EmptyIsUnverifiable'
  <2>1. UNCHANGED <<result, command>>
    BY <1>2 DEF Request, updateVars
  <2>2. receiver'.update = u /\ (receiver'.copy # "undefined" => HasPathId(PathOf[u]))
    BY <1>2 DEF Request
  <2>. QED  BY <2>1, <2>2 DEF EmptyIsUnverifiable, HasPathId
<1>3. CASE QueueValidation
  <2>1. receiver' = IdleReceiver /\ command' = command
    BY <1>3 DEF QueueValidation
  <2>2. \/ result' = result
        \/ /\ HasPathId(PathOf[receiver.update])
           /\ result' = [result EXCEPT ![receiver.update] = receiver.copy]
    BY <1>3 DEF QueueValidation, Write, EmptyIsUnverifiable
  <2>. QED  BY <1>0, <2>1, <2>2 DEF EmptyIsUnverifiable, HasPathId, IdleReceiver
<1>4. CASE StartCommand
  <2>. DEFINE u == Head(commands)
  <2>1. UNCHANGED <<receiver, result>> /\ commands # <<>>
    BY <1>4 DEF StartCommand, updateVars
  <2>2. u \in Update
    BY <2>1 DEF HandInv, TypeOK
  <2>3. \/ command' = IdleCommand
        \/ command' = [IdleCommand EXCEPT !.at = "validate", !.update = u]
        \/ /\ result[u] # "undefined"
           /\ command' = [IdleCommand EXCEPT !.at = "update", !.update = u,
                            !.value = IF IsSequence[PathOf[u]] THEN result[u]
                                      ELSE "unverifiable"]
    BY <1>4 DEF StartCommand, NeedsValidation
  <2>4. ~HasPathId(PathOf[u]) => result[u] \in {"undefined", "unverifiable"}
    BY <2>2 DEF EmptyIsUnverifiable
  <2>. HIDE DEF u
  <2>5. command'.at \in {"path", "update"} =>
          HasPathId(PathOf[command'.update]) \/ command'.value = "unverifiable"
    BY <2>3, <2>4, IdleCommandIsIdle
  <2>. QED  BY <2>1, <2>5 DEF EmptyIsUnverifiable, HasPathId
<1>5. CASE Validate
  <2>. DEFINE p == PathOf[command.update]
              verdict == Verdict(p, pathDown[p])
              prefersCopy == pathResult[p] # "undefined" /\ IsSequence[p]
  <2>1. /\ UNCHANGED <<receiver, result>>
        /\ command' =
             IF HasPathId(p)
             THEN [command EXCEPT
                     !.at = IF verdict # pathResult[p] THEN "path" ELSE "update",
                     !.verdict = verdict,
                     !.value = IF prefersCopy THEN pathResult[p] ELSE verdict,
                     !.fresh = ~prefersCopy]
             ELSE IF ~IsSequence[p]
             THEN [command EXCEPT !.at = "update", !.value = "unverifiable",
                                  !.fresh = TRUE]
             ELSE IdleCommand
    BY <1>5 DEF Validate, updateVars
  <2>. HIDE DEF verdict, prefersCopy
  <2>2. command'.at \in {"path", "update"} =>
          HasPathId(PathOf[command'.update]) \/ command'.value = "unverifiable"
    BY <1>0, <2>1, IdleCommandIsIdle
  <2>. QED  BY <2>1, <2>2 DEF EmptyIsUnverifiable, HasPathId
<1>6. CASE ModifyUpdate
  <2>1. /\ UNCHANGED receiver /\ command' = IdleCommand /\ command.at = "update"
        /\ result' = [result EXCEPT ![command.update] = command.value]
    BY <1>6 DEF ModifyUpdate, Write
  <2>. QED  BY <1>0, <2>1, IdleCommandIsIdle DEF EmptyIsUnverifiable, HasPathId
<1>7. CASE WriteEntry
  <2>. DEFINE u == table[rpki.entry]
  <2>1. /\ UNCHANGED <<receiver, command>> /\ rpki.at = "write" /\ rpki.entry # 0
        /\ result' = [result EXCEPT ![u] = IF NewValue = "none" THEN @ ELSE NewValue]
    BY <1>7 DEF WriteEntry, HandInv, StoredFirst
  <2>2. HasPathId(PathOf[u])
    BY <2>1, EntryIsStored DEF ReadIsUsable
  <2>. HIDE DEF u
  <2>3. \A v \in Update : ~HasPathId(PathOf[v]) => result'[v] = result[v]
    BY <1>0, <2>1, <2>2
  <2>. QED  BY <2>1, <2>3 DEF EmptyIsUnverifiable, HasPathId
<1>. QED  BY <1>1, <1>2, <1>3, <1>4, <1>5, <1>6, <1>7
          DEF Next, ReceiverNext, CommandNext, RpkiNext

LEMMA FreshStaysSupported ==
  ASSUME CurrentInv, [Next]_vars
  PROVE  FreshIsSupported'
<1>. USE DEF CurrentInv, KeepInv
<1>0. command \in [at : {"idle", "validate", "path", "update"},
                   update : Update \union {"none"}, value : Value, verdict : Value,
                   fresh : BOOLEAN]
  BY DEF HandInv, TypeOK
<1>1. CASE \E a \in AS : \E providers \in Offer[a] :
             Announce(a, providers) \/ Withdraw(a, providers)
  <2>1. command' = [command EXCEPT !.fresh = FALSE]
    BY <1>1 DEF Announce, Withdraw, AspaChange
  <2>2. command'.fresh = FALSE
    BY <1>0, <2>1
  <2>. QED  BY <2>2, Zenon DEF FreshIsSupported
<1>2. CASE \/ (\E u \in Update : Request(u)) \/ ReceiverNext \/ ModifyPath \/ RpkiNext
           \/ Tick \/ UNCHANGED vars
  <2>1. \/ command' = command
        \/ command.at = "path" /\ command' = [command EXCEPT !.at = "update"]
    BY <1>2 DEF Request, ReceiverNext, StoreUpdate, QueueValidation, ModifyPath, RpkiNext,
       EndOfData, ReadEntry, WriteEntry, EndOfIteration, Tick, vars, threadVars
  <2>2. /\ command'.update = command.update /\ command'.value = command.value
        /\ command'.fresh = command.fresh
        /\ command.at \in {"path", "update"} => command'.at \in {"path", "update"}
    BY <1>0, <2>1
  <2>. SUFFICES ASSUME NEW u \in Update, command.fresh, command.update = u
                PROVE  command.at \in {"path", "update"} /\ command.value = Supported(u)'
    BY <2>2, Zenon DEF FreshIsSupported
  <2>3. command.at \in {"path", "update"} /\ command.value = Supported(u)
    BY DEF FreshIsSupported
  <2>4. Stored(u)
    BY <2>3 DEF HandInv, StoredFirst
  <2>5. Supported(u)' = Supported(u)
    BY <1>2, <2>4, SupportedStays DEF QuietStep, CommandNext
  <2>. QED  BY <2>3, <2>5
<1>3. CASE StartCommand
  <2>1. command'.fresh = FALSE
    BY <1>3, IdleCommandIsIdle DEF StartCommand
  <2>. QED  BY <2>1, Zenon DEF FreshIsSupported
<1>4. CASE Validate
  <2>0. command.update \in Update /\ Stored(command.update)
    BY <1>4 DEF Validate, HandInv, StoredFirst
  <2>w. PICK w \in Update : command.update = w
    BY <2>0
  <2>. DEFINE p == PathOf[w]
              verdict == Verdict(p, pathDown[p])
              prefersCopy == pathResult[p] # "undefined" /\ IsSequence[p]
  <2>1. /\ command.at = "validate"
        /\ command' =
             IF HasPathId(p)
             THEN [command EXCEPT
                     !.at = IF verdict # pathResult[p] THEN "path" ELSE "update",
                     !.verdict = verdict,
                     !.value = IF prefersCopy THEN pathResult[p] ELSE verdict,
                     !.fresh = ~prefersCopy]
             ELSE IF ~IsSequence[p]
             THEN [command EXCEPT !.at = "update", !.value = "unverifiable",
                                  !.fresh = TRUE]
             ELSE IdleCommand
    BY <1>4, <2>w DEF Validate
  <2>2. Stored(w)
    BY <2>0, <2>w
  <2>3. Supported(w) = IF HasPathId(p) THEN verdict ELSE "unverifiable"
    BY DEF Supported
  <2>4. QuietStep
    BY <1>4 DEF QuietStep, CommandNext
  <2>. HIDE DEF p, verdict, prefersCopy
  <2>6. command'.fresh =>
          /\ command'.at \in {"path", "update"} /\ command'.update = w
          /\ command'.value = Supported(w)
    <3>1. CASE HasPathId(p)
      <4>1. command' = [command EXCEPT
                          !.at = IF verdict # pathResult[p] THEN "path" ELSE "update",
                          !.verdict = verdict,
                          !.value = IF prefersCopy THEN pathResult[p] ELSE verdict,
                          !.fresh = ~prefersCopy]
        BY <2>1, <3>1
      <4>2. /\ command'.at \in {"path", "update"} /\ command'.update = w
            /\ command'.value = IF prefersCopy THEN pathResult[p] ELSE verdict
        BY <1>0, <2>w, <4>1
      <4>3. command'.fresh = ~prefersCopy
        BY <1>0, <4>1
      <4>. QED  BY <2>3, <3>1, <4>2, <4>3
    <3>2. CASE ~HasPathId(p) /\ ~IsSequence[p]
      BY <1>0, <2>1, <2>3, <2>w, <3>2
    <3>3. CASE ~HasPathId(p) /\ IsSequence[p]
      BY <2>1, <3>3, IdleCommandIsIdle
    <3>. QED  BY <3>1, <3>2, <3>3
  <2>7. Supported(w)' = Supported(w)
    BY <2>2, <2>4, SupportedStays
  <2>. QED  BY <2>6, <2>7 DEF FreshIsSupported
<1>5. CASE ModifyUpdate
  BY <1>5, IdleCommandIsIdle DEF ModifyUpdate, FreshIsSupported
<1>. QED  BY <1>1, <1>2, <1>3, <1>4, <1>5 DEF Next, CommandNext

\* The iteration moves on: all it had still to visit but the entry it leaves.
LEMMA CursorMoves ==
  ASSUME CurrentInv, rpki.entry # 0, rpki' = At(rpki.next, After(rpki.next)),
         table' = table
  PROVE  /\ rpki'.at = "read"
         /\ rpki'.entry = 0 => rpki'.next = 0
         /\ rpki'.next # 0 => rpki'.next = rpki'.entry + 1
         /\ \A i \in DOMAIN table : ToVisit(i) => i = rpki.entry \/ ToVisit(i)'
<1>0. /\ rpki.next \in 0 .. Len(table) /\ rpki.entry \in 0 .. Len(table)
      /\ Len(table) \in Nat /\ DOMAIN table = 1 .. Len(table)
  BY DEF CurrentInv, KeepInv, HandInv, TypeOK
<1>1. rpki'.at = "read" /\ rpki'.entry = rpki.next /\ rpki'.next = After(rpki.next)
  BY <1>0, AtIsCursor DEF CurrentInv, KeepInv
<1>2. rpki.next # 0 => rpki.next = rpki.entry + 1
  BY DEF CurrentInv, CursorIsInOrder
<1>3. ASSUME NEW i \in DOMAIN table, ToVisit(i), i # rpki.entry
      PROVE  ToVisit(i)'
  <2>1. rpki.next = rpki.entry + 1 /\ i >= rpki.next /\ rpki'.entry # 0
    BY <1>0, <1>1, <1>2, <1>3 DEF ToVisit
  <2>2. rpki'.next = 0 => i = rpki'.entry
    BY <1>0, <1>1, <2>1 DEF After
  <2>. QED  BY <1>0, <1>1, <2>1, <2>2 DEF ToVisit
<1>. QED  BY <1>0, <1>1, <1>3 DEF After

LEMMA CursorStaysInOrder ==
  ASSUME CurrentInv, [Next]_vars
  PROVE  CursorIsInOrder'
<1>. USE DEF CurrentInv, KeepInv
<1>0. rpki \in [at : {"idle", "read", "write"}, time : 0 .. clock,
                entry : 0 .. Len(table), next : 0 .. Len(table), value : Value,
                path : Value, verdict : Value, timely : BOOLEAN]
  BY DEF HandInv, TypeOK
<1>1. CASE \E a \in AS : \E providers \in Offer[a] :
             Announce(a, providers) \/ Withdraw(a, providers)
  BY <1>1 DEF Announce, Withdraw, AspaChange, CursorIsInOrder
<1>2. CASE (\E u \in Update : Request(u)) \/ ReceiverNext \/ CommandNext \/ Tick
           \/ UNCHANGED vars
  <2>1. UNCHANGED <<rpki, settled>>
    BY <1>2 DEF Request, ReceiverNext, StoreUpdate, QueueValidation, CommandNext,
       StartCommand, Validate, ModifyPath, ModifyUpdate, Tick, vars, threadVars, historyVars
  <2>. QED  BY <2>1 DEF CursorIsInOrder
<1>3. CASE EndOfData
  <2>1. CASE table = <<>>
    BY <1>3, <2>1 DEF EndOfData, CursorIsInOrder, IdleRpki
  <2>2. CASE table # <<>>
    <3>1. 1 \in 0 .. Len(table) /\ Len(table) \in Nat
      BY <2>2 DEF HandInv, TypeOK
    <3>2. rpki' = [At(1, After(1)) EXCEPT !.time = clock] /\ settled' = FALSE
      BY <1>3, <2>2 DEF EndOfData
    <3>3. rpki'.at = "read" /\ rpki'.entry = 1 /\ rpki'.next = After(1)
      BY <3>1, <3>2, AtIsCursor
    <3>4. After(1) \in {0, 2}
      BY DEF After
    <3>. QED  BY <3>2, <3>3, <3>4 DEF CursorIsInOrder
  <2>. QED  BY <2>1, <2>2
<1>4. CASE ReadEntry \/ WriteEntry
  <2>1. /\ settled' = settled /\ ~settled /\ table' = table
        /\ rpki.at \in {"read", "write"} /\ rpki.entry # 0
    BY <1>4 DEF ReadEntry, WriteEntry, historyVars, updateVars, HandInv, StoredFirst,
       CursorIsInOrder
  <2>2. CASE rpki' = At(rpki.next, After(rpki.next))
    BY <2>1, <2>2, CursorMoves DEF CursorIsInOrder
  <2>3. CASE /\ rpki'.at = "write" /\ rpki'.entry = rpki.entry /\ rpki'.next = rpki.next
    BY <2>1, <2>3 DEF CursorIsInOrder
  <2>4. \/ rpki' = At(rpki.next, After(rpki.next))
        \/ rpki'.at = "write" /\ rpki'.entry = rpki.entry /\ rpki'.next = rpki.next
    BY <1>0, <1>4 DEF ReadEntry, WriteEntry
  <2>. QED  BY <2>2, <2>3, <2>4
<1>5. CASE EndOfIteration
  BY <1>5 DEF EndOfIteration, CursorIsInOrder, IdleRpki
<1>. QED  BY <1>1, <1>2, <1>3, <1>4, <1>5 DEF Next, RpkiNext

\* A write by the receiver or the command thread leaves the update current: with
\* a value the database supports, or in doubt.
LEMMA WrittenIsCurrent ==
  ASSUME CurrentInv, QuietStep, NEW u \in Update, NEW value, NEW fresh,
         Write(u, value, fresh), Stored(u),
         fresh => value = Supported(u),
         HasPathId(PathOf[u]) \/ value = "unverifiable"
  PROVE  Current(u)'
<1>1. Supported(u)' = Supported(u)
  BY SupportedStays DEF CurrentInv, KeepInv
<1>2. result' = [result EXCEPT ![u] = value] /\ result \in [Update -> Value]
  BY DEF Write, CurrentInv, KeepInv, HandInv, TypeOK
<1>3. result'[u] = value
  BY <1>2
<1>4. CASE value = Supported(u)
  BY <1>1, <1>3, <1>4 DEF Current
<1>5. CASE value # Supported(u)
  <2>1. ~fresh /\ value # Verdict(PathOf[u], pathDown[PathOf[u]])
    BY <1>5 DEF Supported
  <2>2. doubt' = doubt \union {u}
    BY <2>1 DEF Write
  <2>. QED  BY <2>2 DEF Current
<1>. QED  BY <1>4, <1>5

\* The two threads' writes.
LEMMA WritersAreCurrent ==
  ASSUME CurrentInv, QueueValidation \/ ModifyUpdate, NEW u \in Update
  PROVE  \/ Current(u)'
         \/ result'[u] = result[u] /\ (u \in doubt' <=> u \in doubt)
<1>. USE DEF CurrentInv, KeepInv
<1>0. QuietStep /\ result \in [Update -> Value]
  BY DEF QuietStep, ReceiverNext, CommandNext, HandInv, TypeOK
<1>1. CASE QueueValidation
  <2>1. CASE receiver.copy = "undefined"
    BY <1>1, <2>1 DEF QueueValidation
  <2>2. CASE receiver.copy # "undefined"
    <3>1. Write(receiver.update, receiver.copy, FALSE)
      BY <1>1, <2>2 DEF QueueValidation
    <3>2. CASE receiver.update = u
      <4>1. Stored(u) /\ HasPathId(PathOf[u])
        BY <1>1, <2>2, <3>2 DEF QueueValidation, HandInv, StoredFirst, EmptyIsUnverifiable
      <4>2. Write(u, receiver.copy, FALSE)
        BY <3>1, <3>2
      <4>. QED  BY <1>0, <4>1, <4>2, WrittenIsCurrent
    <3>3. CASE receiver.update # u
      BY <1>0, <3>1, <3>3 DEF Write
    <3>. QED  BY <3>2, <3>3
  <2>. QED  BY <2>1, <2>2
<1>2. CASE ModifyUpdate
  <2>1. Write(command.update, command.value, command.fresh) /\ command.at = "update"
    BY <1>2 DEF ModifyUpdate
  <2>2. CASE command.update = u
    <3>1. Stored(u) /\ (HasPathId(PathOf[u]) \/ command.value = "unverifiable")
      BY <2>1, <2>2 DEF HandInv, StoredFirst, EmptyIsUnverifiable
    <3>2. command.fresh => command.value = Supported(u)
      BY <2>2 DEF FreshIsSupported
    <3>3. Write(u, command.value, command.fresh)
      BY <2>1, <2>2
    <3>. QED  BY <1>0, <3>1, <3>2, <3>3, WrittenIsCurrent
  <2>3. CASE command.update # u
    BY <1>0, <2>1, <2>3 DEF Write
  <2>. QED  BY <2>2, <2>3
<1>. QED  BY <1>1, <1>2

\* process_ASPA_EndOfData_main leaves the entry current or, where it skips it, in
\* doubt, although it may write on the strength of what it read earlier.
LEMMA EntryBecomesCurrent ==
  ASSUME CurrentInv, WriteEntry, NEW u \in Update, u = table[rpki.entry]
  PROVE  Current(u)'
<1>. USE DEF CurrentInv, KeepInv
<1>1. /\ rpki.at = "write" /\ rpki.entry # 0
      /\ result' = [result EXCEPT ![u] = IF NewValue = "none" THEN @ ELSE NewValue]
      /\ doubt' = IF Skipped THEN doubt \union {u}
                  ELSE IF NewValue # "none" THEN doubt \ {u} ELSE doubt
  BY DEF WriteEntry, HandInv, StoredFirst
<1>2. result \in [Update -> Value] /\ rpki.verdict \notin {"none", "undefined"}
  BY <1>1 DEF HandInv, TypeOK, VerdictsAreMade, AspaVerdict, Hop
<1>3. rpki.verdict = Supported(u) /\ (Current(u) \/ result[u] = rpki.value)
  BY <1>1 DEF ReadIsUsable
<1>4. Supported(u)' = Supported(u)
  BY <1>1, EntryIsStored, SupportedStays DEF QuietStep, RpkiNext
<1>5. CASE Skipped
  BY <1>1, <1>5 DEF Current
<1>6. CASE ~Skipped /\ NewValue # "none"
  <2>1. NewValue = rpki.verdict
    BY <1>6 DEF Skipped, NewValue
  <2>2. result'[u] = Supported(u)
    BY <1>1, <1>2, <1>3, <1>6, <2>1
  <2>. QED  BY <1>4, <2>2 DEF Current
<1>7. CASE ~Skipped /\ NewValue = "none"
  <2>1. result'[u] = result[u] /\ doubt' = doubt
    BY <1>1, <1>2, <1>7
  <2>2. rpki.path = rpki.verdict
    BY <1>7, <1>2 DEF Skipped, NewValue
  <2>3. rpki.value \in {"undefined", rpki.verdict}
    BY <1>7, <1>2, <2>2 DEF Skipped, NewValue
  <2>4. Current(u)
    BY <1>3, <2>3 DEF Current
  <2>. QED  BY <1>4, <2>1, <2>4 DEF Current
<1>. QED  BY <1>5, <1>6, <1>7

\* While the database stays, what is current stays so.
LEMMA CurrentStays ==
  ASSUME CurrentInv, QuietStep, NEW u \in Update, Current(u)
  PROVE  Current(u)'
<1>. USE DEF CurrentInv, KeepInv
<1>1. CASE result'[u] = result[u] /\ (u \in doubt' <=> u \in doubt)
  <2>1. CASE u \in doubt \/ result[u] = "undefined"
    BY <1>1, <2>1 DEF Current
  <2>2. CASE u \notin doubt /\ result[u] # "undefined"
    <3>1. Stored(u) /\ result[u] = Supported(u)
      BY <2>2 DEF Current, HandInv, StoredFirst
    <3>2. Supported(u)' = Supported(u)
      BY <3>1, SupportedStays
    <3>. QED  BY <1>1, <3>1, <3>2 DEF Current
  <2>. QED  BY <2>1, <2>2
<1>2. CASE QueueValidation \/ ModifyUpdate
  BY <1>1, <1>2, WritersAreCurrent
<1>3. CASE WriteEntry
  <2>1. CASE u = table[rpki.entry]
    BY <1>3, <2>1, EntryBecomesCurrent
  <2>2. CASE u # table[rpki.entry]
    <3>1. result'[u] = result[u] /\ (u \in doubt' <=> u \in doubt)
      BY <1>3, <2>2 DEF WriteEntry, HandInv, TypeOK
    <3>. QED  BY <1>1, <3>1
  <2>. QED  BY <2>1, <2>2
<1>4. CASE \/ (\E v \in Update : Request(v)) \/ StoreUpdate \/ StartCommand \/ Validate
           \/ ModifyPath \/ EndOfData \/ ReadEntry \/ EndOfIteration \/ Tick
           \/ UNCHANGED vars
  <2>1. UNCHANGED <<result, doubt>>
    BY <1>4 DEF Request, StoreUpdate, StartCommand, Validate, ModifyPath, EndOfData,
       ReadEntry, EndOfIteration, Tick, vars, updateVars, historyVars
  <2>. QED  BY <1>1, <2>1
<1>. QED  BY <1>2, <1>3, <1>4 DEF QuietStep, ReceiverNext, CommandNext, RpkiNext

LEMMA VisitedStayCurrent ==
  ASSUME CurrentInv, [Next]_vars
  PROVE  VisitedAreCurrent'
<1>. USE DEF CurrentInv, KeepInv
<1>0. /\ rpki \in [at : {"idle", "read", "write"}, time : 0 .. clock,
                   entry : 0 .. Len(table), next : 0 .. Len(table), value : Value,
                   path : Value, verdict : Value, timely : BOOLEAN]
      /\ table \in Seq(Update) /\ Len(table) \in Nat /\ DOMAIN table = 1 .. Len(table)
  BY DEF HandInv, TypeOK
<1>1. CASE \E a \in AS : \E providers \in Offer[a] :
             Announce(a, providers) \/ Withdraw(a, providers)
  <2>1. settled' = FALSE /\ rpki'.at = "idle"
    BY <1>1 DEF Announce, Withdraw, AspaChange
  <2>. QED  BY <2>1, Zenon DEF VisitedAreCurrent
<1>2. CASE QuietStep
  <2>. SUFFICES ASSUME settled' \/ rpki'.at # "idle", NEW u \in Update, ~Current(u)'
                PROVE  \E i \in DOMAIN table' : ToVisit(i)' /\ table'[i] = u
    BY DEF VisitedAreCurrent
  <2>1. ~Current(u)
    BY <1>2, CurrentStays
  <2>2. CASE EndOfData
    <3>1. Stored(u)
      BY <2>1 DEF Current, HandInv, StoredFirst
    <3>2. PICK i \in DOMAIN table : table[i] = u
      BY <3>1 DEF Stored
    <3>3. table # <<>> /\ 1 \in 0 .. Len(table)
      BY <1>0, <3>2
    <3>4. rpki' = [At(1, After(1)) EXCEPT !.time = clock] /\ table' = table
      BY <2>2, <3>3 DEF EndOfData, updateVars
    <3>5. rpki'.entry = 1 /\ rpki'.next = After(1)
      BY <3>3, <3>4, AtIsCursor
    <3>6. ToVisit(i)'
      BY <1>0, <3>5 DEF ToVisit, After
    <3>. QED  BY <3>2, <3>4, <3>6
  <2>3. CASE ~EndOfData
    <3>1. settled \/ rpki.at # "idle"
      <4>1. CASE ReadEntry \/ WriteEntry \/ EndOfIteration
        BY <4>1 DEF ReadEntry, WriteEntry, EndOfIteration
      <4>2. CASE (\E v \in Update : Request(v)) \/ ReceiverNext \/ CommandNext \/ Tick
                 \/ UNCHANGED vars
        <5>1. UNCHANGED <<rpki, settled>>
          BY <4>2 DEF Request, ReceiverNext, StoreUpdate, QueueValidation, CommandNext,
             StartCommand, Validate, ModifyPath, ModifyUpdate, Tick, vars, threadVars,
             historyVars
        <5>. QED  BY <5>1
      <4>. QED  BY <1>2, <2>3, <4>1, <4>2 DEF QuietStep, RpkiNext
    <3>2. PICK i \in DOMAIN table : ToVisit(i) /\ table[i] = u
      BY <2>1, <3>1 DEF VisitedAreCurrent
    <3>3. rpki.entry # 0
      BY <3>2 DEF ToVisit
    <3>4. CASE rpki'.entry = rpki.entry /\ rpki'.next = rpki.next
               /\ (table' = table \/ StoreUpdate)
      <4>1. ToVisit(i)'
        BY <3>2, <3>4 DEF ToVisit
      <4>2. i \in DOMAIN table' /\ table'[i] = table[i]
        <5>1. CASE table' = table
          BY <5>1
        <5>2. CASE StoreUpdate
          <6>1. table' = Append(table, receiver.update) /\ receiver.update \in Update
            BY <5>2 DEF StoreUpdate, HandInv, StoredFirst
          <6>. QED  BY <1>0, <6>1
        <5>. QED  BY <3>4, <5>1, <5>2
      <4>. QED  BY <3>2, <4>1, <4>2
    <3>5. CASE /\ rpki' = At(rpki.next, After(rpki.next)) /\ table' = table
               /\ ReadEntry \/ WriteEntry
      <4>1. ToVisit(i)' \/ i = rpki.entry
        BY <3>2, <3>3, <3>5, CursorMoves
      <4>2. i # rpki.entry
        <5>1. ASSUME i = rpki.entry, WriteEntry PROVE FALSE
          BY <3>2, <5>1, EntryBecomesCurrent
        <5>2. ASSUME i = rpki.entry, ReadEntry PROVE FALSE
          <6>1. ~HasPathId(PathOf[u])
            <7>1. rpki'.at = "read"
              BY <3>3, <3>5, CursorMoves
            <7>2. ASSUME HasPathId(PathOf[u]) PROVE rpki'.at = "write"
              BY <1>0, <3>2, <5>2, <7>2 DEF ReadEntry
            <7>. QED  BY <7>1, <7>2
          <6>2. result[u] \in {"undefined", "unverifiable"}
            BY <6>1 DEF EmptyIsUnverifiable
          <6>. QED  BY <2>1, <6>1, <6>2 DEF Current, Supported
        <5>. QED  BY <3>5, <5>1, <5>2
      <4>. QED  BY <3>2, <3>5, <4>1, <4>2
    <3>6. CASE EndOfIteration
      BY <3>3, <3>6 DEF EndOfIteration
    <3>7. CASE (\E v \in Update : Request(v)) \/ ReceiverNext \/ CommandNext \/ Tick
               \/ UNCHANGED vars
      <4>1. rpki' = rpki /\ (table' = table \/ StoreUpdate)
        BY <3>7 DEF Request, ReceiverNext, QueueValidation, StoreUpdate, CommandNext,
           StartCommand, Validate, ModifyPath, ModifyUpdate, Tick, vars, threadVars,
           updateVars
      <4>. QED  BY <3>4, <4>1
    <3>8. CASE ReadEntry
      <4>1. /\ table' = table
            /\ \/ rpki' = At(rpki.next, After(rpki.next))
               \/ rpki'.entry = rpki.entry /\ rpki'.next = rpki.next
        BY <1>0, <3>8 DEF ReadEntry, updateVars
      <4>. QED  BY <3>4, <3>5, <3>8, <4>1
    <3>9. CASE WriteEntry
      <4>1. table' = table /\ rpki' = At(rpki.next, After(rpki.next))
        BY <3>9 DEF WriteEntry
      <4>. QED  BY <3>5, <3>9, <4>1
    <3>. QED  BY <1>2, <2>3, <3>6, <3>7, <3>8, <3>9 DEF QuietStep, RpkiNext
  <2>. QED  BY <2>2, <2>3
<1>. QED  BY <1>1, <1>2 DEF Next, QuietStep

LEMMA ReadStaysUsable ==
  ASSUME CurrentInv, [Next]_vars
  PROVE  ReadIsUsable'
<1>. USE DEF CurrentInv, KeepInv
<1>0. /\ rpki \in [at : {"idle", "read", "write"}, time : 0 .. clock,
                   entry : 0 .. Len(table), next : 0 .. Len(table), value : Value,
                   path : Value, verdict : Value, timely : BOOLEAN]
      /\ table \in Seq(Update) /\ Len(table) \in Nat /\ DOMAIN table = 1 .. Len(table)
  BY DEF HandInv, TypeOK
<1>. SUFFICES ASSUME NEW u \in Update, rpki'.at = "write", table'[rpki'.entry] = u
              PROVE  /\ HasPathId(PathOf[u])
                     /\ rpki'.verdict = Supported(u)'
                     /\ Current(u)' \/ result'[u] = rpki'.value
  BY DEF ReadIsUsable, HasPathId
<1>1. CASE \E a \in AS : \E providers \in Offer[a] :
             Announce(a, providers) \/ Withdraw(a, providers)
  BY <1>1 DEF Announce, Withdraw, AspaChange
<1>2. CASE (\E v \in Update : Request(v)) \/ ReceiverNext \/ CommandNext \/ Tick
           \/ UNCHANGED vars
  <2>1. QuietStep
    BY <1>2 DEF QuietStep
  <2>2. rpki' = rpki /\ (table' = table \/ StoreUpdate)
    BY <1>2 DEF Request, ReceiverNext, QueueValidation, StoreUpdate, CommandNext,
       StartCommand, Validate, ModifyPath, ModifyUpdate, Tick, vars, threadVars,
       updateVars
  <2>3. rpki.at = "write" /\ rpki.entry # 0
    BY <2>2 DEF HandInv, StoredFirst
  <2>4. table[rpki.entry] = u
    <3>1. CASE table' = table
      BY <2>2, <3>1
    <3>2. CASE StoreUpdate
      <4>1. table' = Append(table, receiver.update) /\ receiver.update \in Update
        BY <3>2 DEF StoreUpdate, HandInv, StoredFirst
      <4>2. rpki.entry \in 1 .. Len(table)
        BY <1>0, <2>3
      <4>3. table'[rpki.entry] = table[rpki.entry]
        BY <1>0, <4>1, <4>2
      <4>. QED  BY <2>2, <4>3
    <3>. QED  BY <2>2, <3>1, <3>2
  <2>5. Stored(u)
    BY <2>3, <2>4, EntryIsStored
  <2>6. /\ HasPathId(PathOf[u]) /\ rpki.verdict = Supported(u)
        /\ Current(u) \/ result[u] = rpki.value
    BY <2>3, <2>4 DEF ReadIsUsable
  <2>7. Supported(u)' = Supported(u)
    BY <2>1, <2>5, SupportedStays
  <2>8. Current(u)' \/ result'[u] = rpki.value
    <3>1. CASE Current(u)
      BY <2>1, <3>1, CurrentStays
    <3>2. CASE result[u] = rpki.value
      <4>1. CASE QueueValidation \/ ModifyUpdate
        BY <3>2, <4>1, WritersAreCurrent
      <4>2. CASE result' = result
        BY <3>2, <4>2
      <4>. QED  BY <1>2, <4>1, <4>2 DEF Request, ReceiverNext, StoreUpdate, CommandNext,
           StartCommand, Validate, ModifyPath, Tick, vars, updateVars
    <3>. QED  BY <2>6, <3>1, <3>2
  <2>. QED  BY <2>2, <2>6, <2>7, <2>8
<1>3. CASE EndOfData
  <2>1. rpki'.at # "write"
    <3>1. CASE table = <<>>
      BY <1>3, <3>1 DEF EndOfData, IdleRpki
    <3>2. CASE table # <<>>
      <4>1. 1 \in 0 .. Len(table)
        BY <1>0, <3>2
      <4>. QED  BY <1>3, <3>2, <4>1, AtIsCursor DEF EndOfData
    <3>. QED  BY <3>1, <3>2
  <2>. QED  BY <2>1
<1>4. CASE ReadEntry
  <2>1. rpki.entry # 0 /\ UNCHANGED <<table, result>>
    BY <1>4 DEF ReadEntry, updateVars
  <2>. DEFINE v == table[rpki.entry]
              p == PathOf[v]
  <2>2. HasPathId(p)
    <3>1. ASSUME ~HasPathId(p) PROVE rpki' = At(rpki.next, After(rpki.next))
      BY <1>4, <3>1 DEF ReadEntry
    <3>. QED  BY <2>1, <3>1, CursorMoves
  <2>3. rpki' = [rpki EXCEPT !.at = "write", !.value = result[v],
                             !.path = pathResult[p], !.timely = Timely(p),
                             !.verdict = Verdict(p, pathDown[p])]
    BY <1>4, <2>2 DEF ReadEntry
  <2>. HIDE DEF v, p
  <2>4. rpki'.entry = rpki.entry /\ rpki'.value = result[v] /\ rpki'.verdict = Verdict(p, pathDown[p])
    BY <1>0, <2>3
  <2>5. v = u /\ p = PathOf[u]
    BY <2>1, <2>4 DEF v, p
  <2>6. rpki'.verdict = Supported(u)
    BY <2>2, <2>4, <2>5 DEF Supported
  <2>7. Supported(u)' = Supported(u)
    BY <1>4, <2>1, <2>5, EntryIsStored, SupportedStays DEF v, QuietStep, RpkiNext
  <2>. QED  BY <2>1, <2>2, <2>4, <2>5, <2>6, <2>7
<1>5. CASE WriteEntry
  <2>1. rpki.entry # 0 /\ table' = table /\ rpki' = At(rpki.next, After(rpki.next))
    BY <1>5 DEF WriteEntry, HandInv, StoredFirst
  <2>. QED  BY <2>1, CursorMoves
<1>6. CASE EndOfIteration
  BY <1>6 DEF EndOfIteration, IdleRpki
<1>. QED  BY <1>1, <1>2, <1>3, <1>4, <1>5, <1>6 DEF Next, RpkiNext

LEMMA CurrentIsInductive == Spec => []CurrentInv
<1>1. KeepInv /\ [Next]_vars => KeepInv'
  BY HandSteps, TimesAreKept, ValuesAreDefined, NoneGetsLost DEF KeepInv
<1>2. CurrentInv /\ [Next]_vars => CurrentInv'
  BY <1>1, EmptyStaysUnverifiable, FreshStaysSupported, CursorStaysInOrder,
     VisitedStayCurrent, ReadStaysUsable DEF CurrentInv
<1>. QED  BY <1>2, InitCurrent, PTL DEF Spec

\* For any number of updates, paths and PDUs: when an End of Data after the last
\* change of the database has been worked off, every result is the one the
\* database supports, but for the updates in doubt.  The receiver and the command
\* thread may write at any moment of the iteration, also between the moment when
\* the RPKI thread reads an entry and the moment when it writes it.
THEOREM EndOfDataSettles == Spec => []ResultsAreCurrent
<1>1. CurrentInv => ResultsAreCurrent
  <2>. SUFFICES ASSUME CurrentInv, settled, NEW u \in Update \ doubt
                PROVE  result[u] \in {"undefined", Supported(u)}
    BY DEF ResultsAreCurrent
  <2>1. rpki.entry = 0
    BY DEF CurrentInv, CursorIsInOrder
  <2>2. Current(u)
    BY <2>1 DEF CurrentInv, VisitedAreCurrent, ToVisit
  <2>. QED  BY <2>2 DEF Current
<1>. QED  BY <1>1, CurrentIsInductive, PTL
=============================================================================
