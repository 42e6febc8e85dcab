------------------------- MODULE UpdateCacheProofs -------------------------
(***************************************************************************)
(* What the update cache keeps although its threads write slots, marks and *)
(* counts one by one and without a lock.  An entry that one thread uses at *)
(* a time has a compact array and no mark beside a listener; an overlap on *)
(* an entry costs the listeners of its update and of no other; the counts  *)
(* are exact between the operations of a client, and a client that is gone *)
(* is listed nowhere, but for the mishaps and overlaps; a single handler   *)
(* stores no update twice.  All of it for any number of clients, updates   *)
(* and entries.                                                            *)
(***************************************************************************)
EXTENDS UpdateCache, CacheLocks, SequenceTheorems, FiniteSetTheorems, WellFoundedInduction, TLAPS

\* Every non-empty set of natural numbers has a least element.
LEMMA LeastElement ==
  ASSUME NEW S \in SUBSET Nat, S # {}
  PROVE  \E x \in S : \A y \in S : x <= y
<1>. DEFINE R == {ss \in Nat \X Nat : ss[1] < ss[2]}
<1>1. IsWellFoundedOn(R, Nat)
  <2>1. IsWellFoundedOn(OpToRel(<, Nat), Nat)
    BY NatLessThanWellFounded
  <2>2. R \cap (Nat \X Nat) \subseteq OpToRel(<, Nat)
    BY DEF OpToRel
  <2>. QED  BY <2>1, <2>2, IsWellFoundedOnSubrelation
<1>2. \E x \in S : \A y \in S : ~ (<<y, x>> \in R)
  <2>. HIDE DEF R
  <2>. QED  BY <1>1, WFMin
<1>3. PICK x \in S : \A y \in S : ~ (<<y, x>> \in R)
  BY <1>2
<1>4. ASSUME NEW y \in S
      PROVE  x <= y
  <2>1. x \in Nat /\ y \in Nat /\ ~ (<<y, x>> \in R)
    BY <1>3
  <2>2. <<y, x>> \in R <=> y < x
    BY <2>1
  <2>. QED  BY <2>1, <2>2
<1>. QED  BY <1>4

\* The arrays that occur in the cache.
Array == {s \in Seq(ClientSlot) : Compact(s)}

-----------------------------------------------------------------------------
\* A function on 1 .. n is a sequence of length n.
LEMMA ArrayIsSeq ==
  ASSUME NEW S, NEW n \in Nat, NEW f \in [1 .. n -> S]
  PROVE  f \in Seq(S) /\ Len(f) = n /\ DOMAIN f = 1 .. n
<1>1. f \in Seq(S)
  BY SeqDef
<1>2. DOMAIN f = 1 .. n /\ DOMAIN f = 1 .. Len(f) /\ Len(f) \in Nat
  BY <1>1, LenProperties
<1> QED
  BY <1>1, <1>2

\* FirstOf returns the least of a set of slots.
LEMMA FirstOfIsLeast ==
  ASSUME NEW I \in SUBSET Nat, I # {}
  PROVE  FirstOf(I) \in I /\ \A j \in I : FirstOf(I) <= j
<1>1. \E i \in I : \A j \in I : i <= j
  BY LeastElement
<1> QED
  BY <1>1 DEF FirstOf

\* The clients of an array are clients.
LEMMA ReferencesAreClients ==
  ASSUME NEW s \in Seq(ClientSlot)
  PROVE  References(s) \subseteq Client
<1>1. \A i \in DOMAIN s : s[i] \in ClientSlot
  BY LenProperties
<1> QED
  BY <1>1 DEF References, ClientSlot

\* A client that is added takes the first free slot, unless it has one.
LEMMA AddInPlace ==
  ASSUME NEW s \in Array, NEW c \in Client, StopSlots(s, c) # {}
  PROVE  /\ AddReference(s, c) \in Array
         /\ Len(AddReference(s, c)) = Len(s)
         /\ References(AddReference(s, c)) = References(s) \union {c}
<1> DEFINE k == FirstOf(StopSlots(s, c))
           t == [s EXCEPT ![k] = c]
<1>1. s \in [1 .. Len(s) -> ClientSlot] /\ Len(s) \in Nat /\ DOMAIN s = 1 .. Len(s)
  BY LenProperties DEF Array
<1>2. k \in StopSlots(s, c) /\ \A j \in StopSlots(s, c) : k <= j
  <2>1. StopSlots(s, c) \in SUBSET Nat
    BY <1>1 DEF StopSlots
  <2> QED
    BY <2>1, FirstOfIsLeast
<1>3. k \in 1 .. Len(s) /\ (s[k] = 0 \/ s[k] = c)
  BY <1>1, <1>2 DEF StopSlots
<1>4. AddReference(s, c) = t
  BY DEF AddReference
<1>5. t \in [1 .. Len(s) -> ClientSlot]
  BY <1>1 DEF ClientSlot
<1>6. t \in Seq(ClientSlot) /\ Len(t) = Len(s) /\ DOMAIN t = 1 .. Len(s)
  BY <1>1, <1>5, ArrayIsSeq
<1>7. c # 0
  BY CacheAssumption
<1>8. \A i \in 1 .. Len(s) : t[i] = IF i = k THEN c ELSE s[i]
  BY <1>1
<1> HIDE DEF k, t
<1>9. \A i \in 1 .. Len(s) : i < k => s[i] # 0 /\ s[i] # c
  BY <1>1, <1>2, <1>3 DEF StopSlots
<1>10. \A i \in 1 .. Len(s) : i > k => s[i] # c
  <2> SUFFICES ASSUME NEW i \in 1 .. Len(s), i > k, s[i] = c
               PROVE  FALSE
    OBVIOUS
  <2>1. CASE s[k] = 0
    BY <1>1, <1>3, <1>7, <2>1 DEF Array, Compact
  <2>2. CASE s[k] = c
    BY <1>1, <1>3, <1>7, <2>2 DEF Array, Compact
  <2> QED
    BY <1>3, <2>1, <2>2
<1>11. Compact(t)
  <2> SUFFICES ASSUME NEW i \in 1 .. Len(s), NEW j \in 1 .. Len(s)
               PROVE  /\ i < j /\ t[j] # 0 => t[i] # 0
                      /\ i # j /\ t[i] # 0 => t[i] # t[j]
    BY <1>6 DEF Compact
  <2>1. /\ i < j /\ s[j] # 0 => s[i] # 0
        /\ i # j /\ s[i] # 0 => s[i] # s[j]
    BY <1>1 DEF Array, Compact
  <2>2. i < j /\ t[j] # 0 => t[i] # 0
    BY <1>3, <1>7, <1>8, <1>9, <2>1
  <2>3. i # j /\ t[i] # 0 => t[i] # t[j]
    <3>1. CASE i = k
      BY <1>3, <1>8, <1>9, <1>10, <3>1
    <3>2. CASE j = k
      BY <1>3, <1>8, <1>9, <1>10, <3>2
    <3>3. CASE i # k /\ j # k
      BY <1>8, <2>1, <3>3
    <3> QED
      BY <3>1, <3>2, <3>3
  <2> QED
    BY <2>2, <2>3
<1>12. References(t) = References(s) \union {c}
  <2> QED
    BY <1>1, <1>3, <1>6, <1>7, <1>8 DEF References
<1> QED
  BY <1>4, <1>6, <1>11, <1>12 DEF Array

\* A full array that is extended stays compact, also when its length wraps; if
\* it does not wrap, the client is added.
LEMMA AddExtended ==
  ASSUME NEW s \in Array, NEW c \in Client, StopSlots(s, c) = {}
  PROVE  /\ AddReference(s, c) \in Array
         /\ Len(s) + MinClients < ByteRange =>
              References(AddReference(s, c)) = References(s) \union {c}
<1> DEFINE n == (Len(s) + MinClients) % ByteRange
           t == [i \in 1 .. n |-> IF i <= Len(s) THEN s[i] ELSE IF i = Len(s) + 1 THEN c ELSE 0]
<1>1. s \in [1 .. Len(s) -> ClientSlot] /\ Len(s) \in Nat /\ DOMAIN s = 1 .. Len(s)
  BY LenProperties DEF Array
<1>2. n \in Nat /\ MinClients \in Nat \ {0} /\ ByteRange \in Nat \ {0}
  BY <1>1, ReferenceAssumption
<1>3. AddReference(s, c) = t
  BY DEF AddReference
<1>4. t \in [1 .. n -> ClientSlot]
  BY <1>1, <1>2 DEF ClientSlot
<1>5. t \in Seq(ClientSlot) /\ DOMAIN t = 1 .. n
  BY <1>2, <1>4, ArrayIsSeq
<1>6. c # 0
  BY CacheAssumption
<1>7. \A i \in 1 .. n : t[i] = IF i <= Len(s) THEN s[i] ELSE IF i = Len(s) + 1 THEN c ELSE 0
  OBVIOUS
<1>8. \A i \in 1 .. Len(s) : s[i] # 0 /\ s[i] # c
  BY <1>1 DEF StopSlots
<1>9. Len(s) + MinClients < ByteRange => n = Len(s) + MinClients
  BY <1>1, <1>2
<1> HIDE DEF n, t
<1>10. Compact(t)
  <2> SUFFICES ASSUME NEW i \in 1 .. n, NEW j \in 1 .. n
               PROVE  /\ i < j /\ t[j] # 0 => t[i] # 0
                      /\ i # j /\ t[i] # 0 => t[i] # t[j]
    BY <1>5 DEF Compact
  <2>1. i <= Len(s) /\ j <= Len(s) /\ i # j => s[i] # s[j]
    BY <1>1, <1>2, <1>8 DEF Array, Compact
  <2>2. i < j /\ t[j] # 0 => t[i] # 0
    BY <1>1, <1>2, <1>6, <1>7, <1>8
  <2>3. i # j /\ t[i] # 0 => t[i] # t[j]
    BY <1>1, <1>2, <1>6, <1>7, <1>8, <2>1
  <2> QED
    BY <2>2, <2>3
<1>11. ASSUME n = Len(s) + MinClients
       PROVE  References(t) = References(s) \union {c}
  <2>1. \A i \in 1 .. Len(s) : i \in 1 .. n /\ t[i] = s[i]
    BY <1>1, <1>2, <1>7, <1>11
  <2>2. Len(s) + 1 \in 1 .. n /\ t[Len(s) + 1] = c
    BY <1>1, <1>2, <1>7, <1>11
  <2>3. \A i \in 1 .. n : t[i] = 0 \/ t[i] = c \/ (i \in 1 .. Len(s) /\ t[i] = s[i])
    BY <1>1, <1>2, <1>7
  <2> QED
    BY <1>1, <1>5, <1>6, <2>1, <2>2, <2>3 DEF References
<1> QED
  BY <1>3, <1>5, <1>9, <1>10, <1>11 DEF Array

\* A full array has one slot per client other than the one that is added.
LEMMA FullArrayIsShort ==
  ASSUME NEW s \in Array, NEW c \in Client, StopSlots(s, c) = {}
  PROVE  Len(s) < Cardinality(Client)
<1>1. s \in [1 .. Len(s) -> ClientSlot] /\ Len(s) \in Nat /\ DOMAIN s = 1 .. Len(s)
  BY LenProperties DEF Array
<1>2. \A i \in 1 .. Len(s) : s[i] \in Client \ {c} /\ s[i] # 0
  BY <1>1 DEF StopSlots, ClientSlot
<1>3. s \in [1 .. Len(s) -> Client \ {c}]
  BY <1>1, <1>2
<1>4. \A i, j \in 1 .. Len(s) : s[i] = s[j] => i = j
  BY <1>1, <1>2 DEF Array, Compact
<1>5. /\ IsFiniteSet(Client \ {c})
      /\ Cardinality(Client \ {c}) = Cardinality(Client) - 1
      /\ Cardinality(Client) \in Nat
  BY CacheAssumption, FS_RemoveElement, FS_CardinalityType
<1>6. IsFiniteSet(1 .. Len(s)) /\ Cardinality(1 .. Len(s)) = Len(s)
  <2>1. Len(s) \in Nat
    BY <1>1
  <2>2. IsFiniteSet(1 .. Len(s)) /\ Cardinality(1 .. Len(s)) = IF 1 > Len(s) THEN 0 ELSE Len(s) - 1 + 1
    BY <2>1, FS_Interval
  <2> QED
    BY <2>1, <2>2
<1>7. ~(Cardinality(Client \ {c}) < Cardinality(1 .. Len(s)))
  BY <1>3, <1>4, <1>5, <1>6, FS_PigeonHole
<1> QED
  BY <1>1, <1>5, <1>6, <1>7

\* The client that is removed leaves, everybody else stays, in any array without gaps.
LEMMA RemoveKeeps ==
  ASSUME NEW s \in Array, NEW c \in Client
  PROVE  /\ RemoveReference(s, c) \in Array
         /\ Len(RemoveReference(s, c)) = Len(s)
         /\ References(RemoveReference(s, c)) = References(s) \ {c}
<1> DEFINE t == RemoveReference(s, c)
<1>1. s \in [1 .. Len(s) -> ClientSlot] /\ Len(s) \in Nat /\ DOMAIN s = 1 .. Len(s)
  BY LenProperties DEF Array
<1>2. c # 0
  BY CacheAssumption
<1>3. \A i \in 1 .. Len(s) :
        t[i] = IF \A j \in 1 .. i : s[j] # c THEN s[i]
               ELSE IF i < Len(s) /\ s[i + 1] # c THEN s[i + 1] ELSE 0
  BY <1>1 DEF RemoveReference
<1>4. t \in [1 .. Len(s) -> ClientSlot]
  BY <1>1 DEF RemoveReference, ClientSlot
<1>5. t \in Seq(ClientSlot) /\ Len(t) = Len(s) /\ DOMAIN t = 1 .. Len(s)
  BY <1>1, <1>4, ArrayIsSeq
<1>6. \A i, j \in 1 .. Len(s) : /\ i < j /\ s[j] # 0 => s[i] # 0
                                /\ i # j /\ s[i] # 0 => s[i] # s[j]
  BY <1>1 DEF Array, Compact
<1> HIDE DEF t
<1>7. CASE \A i \in 1 .. Len(s) : s[i] # c
  <2>1. \A i \in 1 .. Len(s) : t[i] = s[i]
    BY <1>1, <1>3, <1>7
  <2>2. t = s
    BY <1>1, <1>4, <2>1
  <2>3. c \notin References(s)
    BY <1>1, <1>7 DEF References
  <2> QED
    BY <2>2, <2>3 DEF t
<1>8. ASSUME NEW k \in 1 .. Len(s), s[k] = c
      PROVE  Compact(t) /\ References(t) = References(s) \ {c}
  <2>1. \A i \in 1 .. Len(s) : i # k => s[i] # c
    BY <1>2, <1>6, <1>8
  <2>2. \A i \in 1 .. Len(s) : i < k => t[i] = s[i]
    BY <1>1, <1>3, <2>1
  <2>3. \A i \in 1 .. Len(s) : i >= k /\ i < Len(s) => t[i] = s[i + 1]
    BY <1>1, <1>3, <1>8, <2>1
  <2>4. t[Len(s)] = 0
    BY <1>1, <1>3, <1>8
  <2>5. Compact(t)
    <3> SUFFICES ASSUME NEW i \in 1 .. Len(s), NEW j \in 1 .. Len(s)
                 PROVE  /\ i < j /\ t[j] # 0 => t[i] # 0
                        /\ i # j /\ t[i] # 0 => t[i] # t[j]
      BY <1>5 DEF Compact
    <3> DEFINE p(x) == IF x < k THEN x ELSE x + 1
    <3>1. \A x \in 1 .. Len(s) : t[x] # 0 => p(x) \in 1 .. Len(s) /\ t[x] = s[p(x)]
      BY <1>1, <2>2, <2>3, <2>4
    <3>2. \A x \in 1 .. Len(s) : x # Len(s) => t[x] = s[p(x)]
      <4> SUFFICES ASSUME NEW x \in 1 .. Len(s), x # Len(s)
                   PROVE  t[x] = s[p(x)]
        OBVIOUS
      <4>1. CASE x < k
        BY <2>2, <4>1
      <4>2. CASE ~(x < k)
        <5>0. Len(s) \in Nat
          BY <1>1
        <5>1. x >= k /\ x < Len(s)
          BY <5>0, <4>2
        <5> QED
          BY <2>3, <4>2, <5>1
      <4> QED
        BY <4>1, <4>2
    <3>3. i < j => p(i) < p(j)
      OBVIOUS
    <3>4. i < j => p(i) \in 1 .. Len(s)
      BY <1>1
    <3>5. i # j => p(i) # p(j)
      OBVIOUS
    <3> HIDE DEF p
    <3>6. i < j /\ t[j] # 0 => t[i] # 0
      <4> SUFFICES ASSUME i < j, t[j] # 0
                   PROVE  t[i] # 0
        OBVIOUS
      <4>1. p(j) \in 1 .. Len(s) /\ s[p(j)] # 0
        BY <3>1
      <4>2. s[p(i)] # 0
        BY <1>6, <3>3, <3>4, <4>1
      <4>3. i # Len(s)
        <5>1. Len(s) \in Nat /\ i \in 1 .. Len(s) /\ j \in 1 .. Len(s) /\ i < j
          BY <1>1
        <5> QED
          BY <5>1
      <4> QED
        BY <3>2, <4>2, <4>3
    <3>7. i # j /\ t[i] # 0 => t[i] # t[j]
      BY <1>6, <3>1, <3>5
    <3> QED
      BY <3>6, <3>7
  <2>6. References(t) = References(s) \ {c}
    <3>1. \A i \in 1 .. Len(s) : i < k => t[i] = s[i] /\ s[i] # c
      BY <2>1, <2>2
    <3>2. \A i \in 1 .. Len(s) : i > k => i - 1 \in 1 .. Len(s) /\ t[i - 1] = s[i] /\ s[i] # c
      BY <1>1, <2>1, <2>3
    <3>3. \A i \in 1 .. Len(s) : \/ t[i] = 0
                                 \/ t[i] = s[i] /\ s[i] # c
                                 \/ i + 1 \in 1 .. Len(s) /\ t[i] = s[i + 1] /\ s[i + 1] # c
      BY <1>1, <2>1, <2>2, <2>3, <2>4
    <3>4. \A x \in References(s) \ {c} : x \in References(t)
      <4> SUFFICES ASSUME NEW i \in 1 .. Len(s), s[i] # 0, s[i] # c
                   PROVE  \E j \in 1 .. Len(s) : t[j] = s[i]
        BY <1>1, <1>5 DEF References
      <4>1. i < k \/ i > k
        BY <1>8
      <4> QED
        BY <4>1, <3>1, <3>2
    <3>5. \A x \in References(t) : x \in References(s) \ {c}
      BY <1>1, <1>5, <3>3 DEF References
    <3> QED
      BY <3>4, <3>5
  <2> QED
    BY <2>5, <2>6
<1> QED
  BY <1>5, <1>7, <1>8 DEF Array, t

\* A new array is empty.
LEMMA EmptyArray ==
  /\ EmptySlots \in Array
  /\ Len(EmptySlots) = MinClients
  /\ References(EmptySlots) = {}
  /\ \A c \in Client : StopSlots(EmptySlots, c) # {}
<1>1. MinClients \in Nat \ {0}
  BY ReferenceAssumption
<1>2. EmptySlots \in [1 .. MinClients -> ClientSlot]
  BY DEF EmptySlots, ClientSlot
<1>3. EmptySlots \in Seq(ClientSlot) /\ Len(EmptySlots) = MinClients /\ DOMAIN EmptySlots = 1 .. MinClients
  BY <1>1, <1>2, ArrayIsSeq
<1>4. \A i \in 1 .. MinClients : EmptySlots[i] = 0
  BY DEF EmptySlots
<1>5. 1 \in 1 .. MinClients
  BY <1>1
<1> QED
  BY <1>3, <1>4, <1>5 DEF Array, Compact, References, StopSlots

-----------------------------------------------------------------------------
(***************************************************************************)
(* The inductive invariant.  An entry that was never used by two threads   *)
(* has at most one holder; that is why a loop over its slots is            *)
(* undisturbed, why a mark can only meet a client whose registration is    *)
(* about to clear it, and why an entry about to be marked is still empty.  *)
(***************************************************************************)
Holds(h, e) == handler[h].step \in Attaching /\ handler[h].entry = e
DeleterHolds(e) == deleter.step \in Deleting /\ deleter.entry = e

OneHolder ==
  \A e \in DOMAIN entries \ raced :
    /\ \A g, h \in Handler : Holds(g, e) /\ Holds(h, e) => g = h
    /\ \A h \in Handler : Holds(h, e) => ~DeleterHolds(e)

\* A marked entry has slots, so that a client that comes back does not extend
\* its array and leave the mark.
MarkedIsEmpty ==
  \A e \in marked \ raced :
    /\ Len(entries[e].clients) # 0
    /\ \/ References(entries[e].clients) = {}
       \/ \E h \in Handler : handler[h].step \in {"count", "unmark"} /\ handler[h].entry = e

DeletedIsEmpty ==
  deleter.step = "mark" /\ deleter.entry \notin raced =>
    /\ Len(entries[deleter.entry].clients) # 0
    /\ References(entries[deleter.entry].clients) = {}

CacheInv == TypeOK /\ SlotsAreCompact /\ OneHolder /\ MarkedIsEmpty /\ DeletedIsEmpty

\* The parts of the type invariant.
EntriesType ==
  /\ entries \in Seq(Entry)
  /\ marked \subseteq DOMAIN entries
  /\ raced \subseteq DOMAIN entries

HandlerType ==
  /\ handler \in [Handler -> Request]
  /\ \A h \in Handler :
       /\ handler[h].step # "idle" => handler[h].id \in Update
       /\ handler[h].step \in Attaching =>
            handler[h].client # 0 /\ handler[h].entry \in DOMAIN entries

DeleterType ==
  /\ deleter \in Deletion
  /\ deleter.step # "idle" => deleter.client # 0 /\ deleter.entry \in DOMAIN entries

ClosingType ==
  /\ closing \in [Client -> Closing]
  /\ \A c \in Client : closing[c].step = "visit" => closing[c].next \in DOMAIN entries

RestType ==
  /\ updateCount \in [Client -> 0 .. (CountRange - 1)]
  /\ mapping \in [Client -> Mapping]
  /\ mishaps \subseteq Mishap
  /\ torn \subseteq Client

LEMMA TypeParts ==
  TypeOK <=> EntriesType /\ HandlerType /\ DeleterType /\ ClosingType /\ RestType
BY DEF TypeOK, EntriesType, HandlerType, DeleterType, ClosingType, RestType

LEMMA TypePartsPrimed ==
  TypeOK' <=> EntriesType' /\ HandlerType' /\ DeleterType' /\ ClosingType' /\ RestType'
BY DEF TypeOK, EntriesType, HandlerType, DeleterType, ClosingType, RestType

\* What the invariant says of one entry.
LEMMA EntryFacts ==
  ASSUME CacheInv, NEW e \in DOMAIN entries
  PROVE  /\ entries[e] \in Entry /\ entries[e].id \in Update
         /\ entries[e].clients \in Seq(ClientSlot)
         /\ e \notin raced => entries[e].clients \in Array
<1>1. entries[e] \in Entry
  BY LenProperties DEF CacheInv, TypeOK
<1> QED
  BY <1>1 DEF Entry, Array, CacheInv, SlotsAreCompact

\* The entries with other slots in one of them.
With(e, t) == [entries EXCEPT ![e] = [@ EXCEPT !.clients = t]]

LEMMA WithKeeps ==
  ASSUME CacheInv, NEW e \in DOMAIN entries, NEW t \in Seq(ClientSlot), entries' = With(e, t)
  PROVE  /\ entries' \in Seq(Entry)
         /\ DOMAIN entries' = DOMAIN entries
         /\ Len(entries') = Len(entries)
         /\ \A f \in DOMAIN entries :
              /\ entries'[f].id = entries[f].id
              /\ entries'[f].clients = IF f = e THEN t ELSE entries[f].clients
<1>1. entries \in Seq(Entry)
  BY DEF CacheInv, TypeOK
<1>2. DOMAIN entries = 1 .. Len(entries) /\ Len(entries) \in Nat
  BY <1>1, LenProperties
<1>3. \A f \in DOMAIN entries : entries[f] \in Entry
  BY EntryFacts
<1>4. [entries[e] EXCEPT !.clients = t] \in Entry
  BY <1>3 DEF Entry
<1>5. entries' \in [1 .. Len(entries) -> Entry]
  BY <1>2, <1>3, <1>4 DEF With
<1>6. entries' \in Seq(Entry) /\ DOMAIN entries' = DOMAIN entries /\ Len(entries') = Len(entries)
  BY <1>2, <1>5, ArrayIsSeq
<1>7. \A f \in DOMAIN entries :
        entries'[f] = IF f = e THEN [entries[e] EXCEPT !.clients = t] ELSE entries[f]
  BY <1>2 DEF With
<1>8. /\ [entries[e] EXCEPT !.clients = t].id = entries[e].id
      /\ [entries[e] EXCEPT !.clients = t].clients = t
  BY <1>3 DEF Entry
<1> QED
  BY <1>6, <1>7, <1>8

\* The slots a loop leaves are slots, and as it meant them if it was alone.
LEMMA ArrayChoice ==
  ASSUME CacheInv, NEW e \in DOMAIN entries, NEW s, NEW race,
         e \notin race => s \in Seq(ClientSlot), NEW t \in ArraysAfter(e, s, race)
  PROVE  t \in Seq(ClientSlot) /\ (e \notin race => t = s)
<1>1. CASE e \notin race
  BY <1>1 DEF ArraysAfter
<1>2. CASE e \in race
  <2> DEFINE old == entries[e].clients
  <2>1. Len(old) \in Nat /\ (Len(old) + MinClients) % ByteRange \in Nat
    <3>1. Len(old) \in Nat
      BY EntryFacts, LenProperties
    <3>2. \A k \in Nat : (k + MinClients) % ByteRange \in Nat
      BY ReferenceAssumption
    <3> HIDE DEF old
    <3> QED
      BY <3>1, <3>2
  <2>2. t \in AnyArray(old)
    BY <1>2 DEF ArraysAfter
  <2> HIDE DEF old
  <2>3. PICK n \in {Len(old), (Len(old) + MinClients) % ByteRange} : t \in [1 .. n -> ClientSlot]
    BY <2>2 DEF AnyArray
  <2> QED
    BY <1>2, <2>1, <2>3, ArrayIsSeq
<1> QED
  BY <1>1, <1>2

\* Removing a client empties the slots only of the last one.
LEMMA RemovalEmpties ==
  ASSUME NEW s \in Array, NEW c \in Client, References(s) = {c}
  PROVE  Len(RemoveReference(s, c)) # 0 /\ References(RemoveReference(s, c)) = {}
<1>1. Len(s) # 0
  <2> SUFFICES ASSUME Len(s) = 0
               PROVE  FALSE
    OBVIOUS
  <2>1. DOMAIN s = 1 .. 0
    BY LenProperties DEF Array
  <2>2. References(s) = {}
    BY <2>1 DEF References
  <2> QED
    BY <2>2
<1> QED
  BY <1>1, RemoveKeeps

LEMMA AddIsArray ==
  ASSUME NEW s \in Array, NEW c \in Client
  PROVE  AddReference(s, c) \in Array
BY AddInPlace, AddExtended

\* An array without clients has a free slot, if it has a slot at all.
LEMMA EmptyHasRoom ==
  ASSUME NEW s \in Array, NEW c \in Client, References(s) = {}, Len(s) # 0
  PROVE  StopSlots(s, c) # {}
<1>1. DOMAIN s = 1 .. Len(s) /\ Len(s) \in Nat
  BY LenProperties DEF Array
<1>2. 1 \in DOMAIN s
  BY <1>1
<1>3. s[1] = 0
  BY <1>2 DEF References
<1> QED
  BY <1>2, <1>3 DEF StopSlots


\* The entry that tableFind returns is one of the update's.
LEMMA TableFindIsEntry ==
  ASSUME entries \in Seq(Entry), NEW u, EntriesOf(u) # {}
  PROVE  TableFind(u) \in DOMAIN entries /\ entries[TableFind(u)].id = u
<1>1. DOMAIN entries = 1 .. Len(entries) /\ Len(entries) \in Nat
  BY LenProperties
<1> DEFINE gap == {Len(entries) - e : e \in EntriesOf(u)}
<1>2. gap \in SUBSET Nat /\ gap # {}
  BY <1>1 DEF EntriesOf
<1>3. PICK g \in gap : \A f \in gap : g <= f
  <2> HIDE DEF gap
  <2> QED
    BY <1>2, LeastElement
<1>4. PICK e \in EntriesOf(u) : g = Len(entries) - e
  BY <1>3
<1>5. \A f \in EntriesOf(u) : f <= e
  <2> SUFFICES ASSUME NEW f \in EntriesOf(u)
               PROVE  f <= e
    OBVIOUS
  <2>1. Len(entries) - e <= Len(entries) - f
    BY <1>3, <1>4
  <2>2. e \in 1 .. Len(entries) /\ f \in 1 .. Len(entries)
    BY <1>1 DEF EntriesOf
  <2> QED
    BY <1>1, <2>1, <2>2
<1>6. TableFind(u) \in EntriesOf(u)
  BY <1>5 DEF TableFind
<1> QED
  BY <1>6 DEF EntriesOf

-----------------------------------------------------------------------------
(***************************************************************************)
(* Every step keeps the invariant.                                         *)
(***************************************************************************)
LEMMA IdleFacts ==
  /\ Idle \in Request /\ Idle.step = "idle" /\ Idle.client = 0
  /\ NoDeletion \in Deletion /\ NoDeletion.step = "idle" /\ NoDeletion.client = 0
BY DEF Idle, Request, HandlerStep, ClientSlot, NoDeletion, Deletion

\* What the type invariant says of who works with an entry.
LEMMA HolderFacts ==
  ASSUME CacheInv
  PROVE  /\ \A h \in Handler : handler[h].step \in Attaching =>
              handler[h].client \in Client /\ handler[h].entry \in DOMAIN entries
         /\ deleter.step # "idle" => deleter.client \in Client /\ deleter.entry \in DOMAIN entries
BY DEF CacheInv, TypeOK, Request, Deletion, ClientSlot

\* A handler whose request moves on, while entries may be added.
LEMMA RequestKeeps ==
  ASSUME HandlerType, NEW h \in Handler, NEW r \in Request,
         r.step # "idle" => r.id \in Update,
         r.step \in Attaching => r.client # 0 /\ r.entry \in DOMAIN entries,
         handler' = [handler EXCEPT ![h] = r], DOMAIN entries \subseteq DOMAIN entries'
  PROVE  HandlerType'
BY DEF HandlerType

LEMMA HandlersKept ==
  ASSUME HandlerType, handler' = handler, DOMAIN entries \subseteq DOMAIN entries'
  PROVE  HandlerType'
BY DEF HandlerType

LEMMA DeleterKept ==
  ASSUME DeleterType, deleter' = deleter, DOMAIN entries \subseteq DOMAIN entries'
  PROVE  DeleterType'
BY DEF DeleterType

LEMMA ClosingKept ==
  ASSUME ClosingType, closing' = closing, DOMAIN entries \subseteq DOMAIN entries'
  PROVE  ClosingType'
BY DEF ClosingType

\* Every count that is written is in range, and only the client's is.
LEMMA CountsAfterFacts ==
  ASSUME TypeOK, NEW c \in Client, NEW n \in Int, updateCount' \in CountsAfter(c, n)
  PROVE  /\ updateCount' \in [Client -> 0 .. (CountRange - 1)]
         /\ \A d \in Client : d # c => updateCount'[d] = updateCount[d]
         /\ c \notin torn => updateCount'[c] = n % CountRange
<1>1. CountRange \in Nat \ {0} /\ updateCount \in [Client -> 0 .. (CountRange - 1)]
  BY CacheAssumption DEF TypeOK
<1>2. n % CountRange \in 0 .. (CountRange - 1)
  BY <1>1
<1>3. PICK k \in (IF c \in torn THEN 0 .. (CountRange - 1) ELSE {n % CountRange}) :
        updateCount' = [updateCount EXCEPT ![c] = k]
  BY DEF CountsAfter
<1>4. k \in 0 .. (CountRange - 1)
  BY <1>2, <1>3
<1> QED
  BY <1>1, <1>3, <1>4

\* Nobody takes hold of an entry in most steps.
LEMMA HoldersKept ==
  ASSUME OneHolder, raced \subseteq raced',
         \A e \in DOMAIN entries' \ raced' :
           /\ \A h \in Handler : Holds(h, e)' => e \in DOMAIN entries /\ Holds(h, e)
           /\ DeleterHolds(e)' => DeleterHolds(e)
  PROVE  OneHolder'
BY DEF OneHolder

\* Steps that change neither the entries nor who works with them.
LEMMA EntriesUntouched ==
  ASSUME CacheInv, entries' = entries, marked' = marked, raced' = raced, handler' = handler,
         deleter' = deleter
  PROVE  (EntriesType /\ HandlerType /\ DeleterType /\ SlotsAreCompact /\ OneHolder /\ MarkedIsEmpty /\ DeletedIsEmpty)'
<1>1. EntriesType' /\ HandlerType' /\ DeleterType'
  <2>1. EntriesType /\ HandlerType /\ DeleterType
    BY TypeParts DEF CacheInv
  <2> QED
    BY <2>1, HandlersKept, DeleterKept DEF EntriesType
<1>2. SlotsAreCompact'
  BY DEF CacheInv, SlotsAreCompact
<1>3. OneHolder'
  <2>1. \A f, g : (Holds(g, f)' <=> Holds(g, f)) /\ (DeleterHolds(f)' <=> DeleterHolds(f))
    BY DEF Holds, DeleterHolds
  <2> QED
    BY <2>1 DEF CacheInv, OneHolder
<1>4. MarkedIsEmpty' /\ DeletedIsEmpty'
  BY DEF CacheInv, MarkedIsEmpty, DeletedIsEmpty
<1> QED
  BY <1>1, <1>2, <1>3, <1>4

LEMMA ConnectionKeeps ==
  ASSUME CacheInv, NEW c \in Client,
         Connect(c) \/ Deactivate(c) \/ DelMapping(c) \/ LockTable(c) \/ ResetCount(c)
  PROVE  CacheInv'
<1>1. TypeOK /\ ClosingType /\ RestType /\ entries \in Seq(Entry)
  BY TypeParts DEF CacheInv, EntriesType
<1>2. entries' = entries /\ marked' = marked /\ raced' = raced /\ handler' = handler /\ deleter' = deleter
  BY DEF Connect, Deactivate, DelMapping, LockTable, ResetCount, history
<1>3. (EntriesType /\ HandlerType /\ DeleterType /\ SlotsAreCompact /\ OneHolder /\ MarkedIsEmpty /\ DeletedIsEmpty)'
  BY <1>2, EntriesUntouched
<1>4. entries # <<>> => 1 \in DOMAIN entries
  BY <1>1, EmptySeq, LenProperties
<1>5. ClosingType'
  <2>1. CASE Connect(c)
    BY <1>1, <1>2, <2>1, ClosingKept DEF Connect
  <2>2. CASE Deactivate(c) \/ DelMapping(c) \/ ResetCount(c)
    BY <1>1, <1>2, <2>2 DEF Deactivate, DelMapping, ResetCount, ClosingType, Closing, At
  <2>3. CASE LockTable(c)
    BY <1>1, <1>2, <1>4, <2>3 DEF LockTable, ClosingType, Closing, At
  <2> QED
    BY <2>1, <2>2, <2>3
<1>6. RestType'
  <2>1. CASE Connect(c)
    BY <1>1, <2>1 DEF Connect, RestType, Mapping, Mishap
  <2>2. CASE Deactivate(c)
    BY <1>1, <2>2 DEF Deactivate, RestType, Mapping, TornBy
  <2>3. CASE DelMapping(c) \/ LockTable(c)
    BY <1>1, <2>3 DEF DelMapping, LockTable, RestType, history
  <2>4. CASE ResetCount(c)
    <3>1. updateCount' \in CountsAfter(c, 0) /\ 0 \in Int
      BY <2>4 DEF ResetCount
    <3>2. updateCount' \in [Client -> 0 .. (CountRange - 1)]
      BY <1>1, <3>1, CountsAfterFacts
    <3> QED
      BY <1>1, <2>4, <3>2 DEF ResetCount, RestType, history
  <2> QED
    BY <2>1, <2>2, <2>3, <2>4
<1> QED
  BY <1>3, <1>5, <1>6, TypePartsPrimed DEF CacheInv

\* How a handler's step changes who holds what.
LEMMA LookupKeeps ==
  ASSUME CacheInv, NEW h \in Handler, NEW c \in ClientSlot, NEW u \in Update, Lookup(h, c, u)
  PROVE  CacheInv'
<1> DEFINE e == TableFind(u)
           r == AfterLookup(c, u)
<1>1. /\ TypeOK /\ EntriesType /\ HandlerType /\ DeleterType /\ ClosingType /\ RestType
      /\ entries \in Seq(Entry)
  BY TypeParts DEF CacheInv, EntriesType
<1>2. /\ entries' = entries /\ marked' = marked /\ deleter' = deleter /\ closing' = closing
      /\ updateCount' = updateCount /\ mapping' = mapping
      /\ handler' = [handler EXCEPT ![h] = r] /\ handler[h].step = "idle"
  BY DEF Lookup
<1>3. EntriesOf(u) # {} => e \in DOMAIN entries /\ e \in Nat
  BY <1>1, TableFindIsEntry, LenProperties
<1>4. raced' = IF EntriesOf(u) = {} \/ c = 0 THEN raced ELSE RacedBy(e)
  BY DEF Lookup
<1>5. raced \subseteq raced' /\ raced' \subseteq DOMAIN entries
  BY <1>1, <1>3, <1>4 DEF RacedBy, EntriesType
<1>6. /\ r \in Request /\ (r.step # "idle" => r.id \in Update)
      /\ r.step \in Attaching => c # 0 /\ r.client = c /\ r.entry = e /\ EntriesOf(u) # {}
  <2>1. CASE EntriesOf(u) = {}
    BY <2>1 DEF AfterLookup, Request, HandlerStep, Attaching
  <2>2. CASE EntriesOf(u) # {} /\ c = 0
    BY <2>2, IdleFacts DEF AfterLookup, Attaching
  <2>3. CASE EntriesOf(u) # {} /\ c # 0
    BY <1>3, <2>3 DEF AfterLookup, Request, HandlerStep, Attaching
  <2> QED
    BY <2>1, <2>2, <2>3
<1> HIDE DEF e, r
<1>7. HandlerType'
  BY <1>1, <1>2, <1>3, <1>6, RequestKeeps
<1>8. EntriesType' /\ DeleterType' /\ ClosingType'
  BY <1>1, <1>2, <1>5, DeleterKept, ClosingKept DEF EntriesType
<1>9. RestType'
  BY <1>1, <1>2 DEF Lookup, RestType, Mishap, TornBy, ClientSlot
<1>10. SlotsAreCompact'
  BY <1>2, <1>5 DEF CacheInv, SlotsAreCompact
<1>11. \A g \in Handler : handler'[g] = IF g = h THEN r ELSE handler[g]
  BY <1>1, <1>2 DEF HandlerType
<1>12. OneHolder'
  <2>1. CASE r.step \in Attaching
    <3> SUFFICES ASSUME NEW f \in DOMAIN entries \ raced'
                 PROVE  /\ \A g, k \in Handler : Holds(g, f)' /\ Holds(k, f)' => g = k
                        /\ \A g \in Handler : Holds(g, f)' => ~DeleterHolds(f)'
      BY <1>2 DEF OneHolder
    <3>1. f \in DOMAIN entries \ raced
      BY <1>5
    <3>2. \A g \in Handler : g # h => (Holds(g, f)' <=> Holds(g, f))
      BY <1>11 DEF Holds
    <3>3. DeleterHolds(f)' <=> DeleterHolds(f)
      BY <1>2 DEF DeleterHolds
    <3>4. CASE f = e
      <4>1. ~Held(e)
        BY <1>4, <1>6, <2>1, <3>4 DEF RacedBy
      <4>2. ~DeleterHolds(f) /\ \A g \in Handler : ~Holds(g, f)
        BY <3>4, <4>1 DEF Held, Holds, DeleterHolds
      <4> QED
        BY <3>2, <3>3, <4>2
    <3>5. CASE f # e
      <4>1. ~Holds(h, f)'
        BY <1>6, <1>11, <2>1, <3>5 DEF Holds
      <4> QED
        BY <3>1, <3>2, <3>3, <4>1 DEF CacheInv, OneHolder
    <3> QED
      BY <3>4, <3>5
  <2>2. CASE r.step \notin Attaching
    <3>1. \A f : DeleterHolds(f)' => DeleterHolds(f)
      BY <1>2 DEF DeleterHolds
    <3>2. \A f, g : g \in Handler /\ Holds(g, f)' => Holds(g, f)
      BY <1>11, <2>2 DEF Holds
    <3> QED
      BY <1>2, <1>5, <3>1, <3>2, HoldersKept DEF CacheInv
  <2> QED
    BY <2>1, <2>2
<1>13. MarkedIsEmpty'
  BY <1>2, <1>5, <1>11 DEF CacheInv, MarkedIsEmpty
<1>14. DeletedIsEmpty'
  BY <1>2, <1>5 DEF CacheInv, DeletedIsEmpty
<1> QED
  BY <1>7, <1>8, <1>9, <1>10, <1>12, <1>13, <1>14, TypePartsPrimed DEF CacheInv

\* The steps of a handler that leave the entries alone.
LEMMA HandlerStepKeeps ==
  ASSUME CacheInv, NEW h \in Handler,
         StoreUpdate(h) \/ Refuse(h) \/ CountReference(h) \/ ResetGCFlag(h)
  PROVE  CacheInv'
<1>1. /\ TypeOK /\ EntriesType /\ HandlerType /\ DeleterType /\ ClosingType /\ RestType
  BY TypeParts DEF CacheInv
<1>2. /\ entries' = entries /\ deleter' = deleter /\ closing' = closing /\ raced' = raced
      /\ mapping' = mapping /\ mishaps' = mishaps /\ torn' = torn
  BY DEF StoreUpdate, Refuse, CountReference, ResetGCFlag, history
<1>3. handler[h] \in Request /\ handler \in [Handler -> Request]
  BY <1>1 DEF HandlerType
<1>4. \E r \in Request :
        /\ handler' = [handler EXCEPT ![h] = r]
        /\ r.step # "idle" => r.id = handler[h].id /\ handler[h].step # "idle"
        /\ r.step \in Attaching =>
             /\ handler[h].step = "count" /\ r.step = "unmark"
             /\ r.client = handler[h].client /\ r.entry = handler[h].entry
        /\ handler[h].step \in {"count", "unmark"} /\ r.step # "unmark" => ResetGCFlag(h)
  <2>1. CASE StoreUpdate(h)
    <3> DEFINE q == IF EntriesOf(handler[h].id) = {} THEN "insert" ELSE "refused"
               r == [handler[h] EXCEPT !.step = q]
    <3>1. handler' = [handler EXCEPT ![h] = r] /\ handler[h].step = "store"
      BY <2>1 DEF StoreUpdate
    <3>2. q \in {"insert", "refused"}
      OBVIOUS
    <3> HIDE DEF q
    <3>3. r \in Request /\ r.step = q /\ r.id = handler[h].id
      BY <1>3, <3>2 DEF Request, HandlerStep
    <3> QED
      BY <3>1, <3>2, <3>3 DEF Attaching
  <2>2. CASE Refuse(h)
    <3>1. handler' = [handler EXCEPT ![h] = Idle] /\ handler[h].step = "refused"
      BY <2>2 DEF Refuse
    <3> QED
      BY <3>1, IdleFacts DEF Attaching
  <2>3. CASE CountReference(h)
    <3> DEFINE r == [handler[h] EXCEPT !.step = "unmark"]
    <3>1. handler' = [handler EXCEPT ![h] = r] /\ handler[h].step = "count"
      BY <2>3 DEF CountReference
    <3>2. /\ r \in Request /\ r.step = "unmark" /\ r.id = handler[h].id
          /\ r.client = handler[h].client /\ r.entry = handler[h].entry
      BY <1>3 DEF Request, HandlerStep
    <3> QED
      BY <3>1, <3>2
  <2>4. CASE ResetGCFlag(h)
    <3>1. handler' = [handler EXCEPT ![h] = Idle]
      BY <2>4 DEF ResetGCFlag
    <3> QED
      BY <2>4, <3>1, IdleFacts DEF Attaching
  <2> QED
    BY <2>1, <2>2, <2>3, <2>4
<1>5. PICK r \in Request :
        /\ handler' = [handler EXCEPT ![h] = r]
        /\ r.step # "idle" => r.id = handler[h].id /\ handler[h].step # "idle"
        /\ r.step \in Attaching =>
             /\ handler[h].step = "count" /\ r.step = "unmark"
             /\ r.client = handler[h].client /\ r.entry = handler[h].entry
        /\ handler[h].step \in {"count", "unmark"} /\ r.step # "unmark" => ResetGCFlag(h)
  BY <1>4
<1>6. HandlerType'
  BY <1>1, <1>2, <1>5, RequestKeeps DEF HandlerType, Attaching
<1>7. marked' \subseteq marked
  BY DEF StoreUpdate, Refuse, CountReference, ResetGCFlag
<1>8. EntriesType' /\ DeleterType' /\ ClosingType'
  BY <1>1, <1>2, <1>7, DeleterKept, ClosingKept DEF EntriesType
<1>9. RestType'
  <2>1. updateCount' \in [Client -> 0 .. (CountRange - 1)]
    <3>1. CASE CountReference(h)
      <4> DEFINE c == handler[h].client
      <4>1. c \in Client
        BY <3>1, HolderFacts DEF CountReference, Attaching
      <4>2. updateCount[c] + 1 \in Int /\ updateCount' \in CountsAfter(c, updateCount[c] + 1)
        BY <1>1, <3>1, <4>1 DEF CountReference, TypeOK
      <4> QED
        BY <1>1, <4>1, <4>2, CountsAfterFacts
    <3>2. CASE ~CountReference(h)
      BY <1>1, <3>2 DEF StoreUpdate, Refuse, ResetGCFlag, RestType
    <3> QED
      BY <3>1, <3>2
  <2> QED
    BY <1>1, <1>2, <2>1 DEF RestType
<1>10. SlotsAreCompact' /\ DeletedIsEmpty'
  BY <1>2 DEF CacheInv, SlotsAreCompact, DeletedIsEmpty
<1>11. \A g \in Handler : handler'[g] = IF g = h THEN r ELSE handler[g]
  BY <1>3, <1>5
<1>12. OneHolder'
  <2>1. \A f : DeleterHolds(f)' => DeleterHolds(f)
    BY <1>2 DEF DeleterHolds
  <2>2. \A f, g : g \in Handler /\ Holds(g, f)' => Holds(g, f)
    BY <1>5, <1>11 DEF Holds, Attaching
  <2> QED
    BY <1>2, <2>1, <2>2, HoldersKept DEF CacheInv
<1>13. MarkedIsEmpty'
  <2> SUFFICES ASSUME NEW e \in marked' \ raced'
               PROVE  /\ Len(entries[e].clients) # 0
                      /\ \/ References(entries[e].clients) = {}
                         \/ \E g \in Handler : handler'[g].step \in {"count", "unmark"} /\ handler'[g].entry = e
    BY <1>2 DEF MarkedIsEmpty
  <2>1. /\ e \in marked \ raced /\ Len(entries[e].clients) # 0
        /\ \/ References(entries[e].clients) = {}
           \/ \E g \in Handler : handler[g].step \in {"count", "unmark"} /\ handler[g].entry = e
    BY <1>2, <1>7 DEF CacheInv, MarkedIsEmpty
  <2>2. ASSUME NEW g \in Handler, handler[g].step \in {"count", "unmark"}, handler[g].entry = e
        PROVE  handler'[g].step \in {"count", "unmark"} /\ handler'[g].entry = e
    <3>1. CASE g # h
      BY <1>11, <2>2, <3>1
    <3>2. CASE g = h /\ ResetGCFlag(h)
      <4>1. marked' = marked \ {handler[h].entry}
        BY <3>2 DEF ResetGCFlag
      <4> QED
        BY <2>2, <3>2, <4>1
    <3>3. CASE g = h /\ ~ResetGCFlag(h)
      <4>1. r.step = "unmark"
        BY <1>5, <2>2, <3>3
      <4> QED
        BY <1>5, <1>11, <2>2, <3>3, <4>1 DEF Attaching
    <3> QED
      BY <3>1, <3>2, <3>3
  <2> QED
    BY <2>1, <2>2
<1> QED
  BY <1>6, <1>8, <1>9, <1>10, <1>12, <1>13, TypePartsPrimed DEF CacheInv

\* The loop of a registration: what it leaves, and where it goes on.
LEMMA AddFacts ==
  ASSUME CacheInv, NEW h \in Handler, AddClientReference(h)
  PROVE  \E t \in Seq(ClientSlot), r \in Request :
           /\ entries' = With(handler[h].entry, t)
           /\ handler[h].entry \notin raced =>
                t = AddReference(entries[handler[h].entry].clients, handler[h].client)
           /\ handler' = [handler EXCEPT ![h] = r]
           /\ r = Idle \/ r = [handler[h] EXCEPT !.step = "count"] \/ r = [handler[h] EXCEPT !.step = "unmark"]
           /\ handler[h].entry \notin raced =>
                r = IF StopSlots(entries[handler[h].entry].clients, handler[h].client) = {} THEN Idle
                    ELSE [handler[h] EXCEPT !.step =
                            IF AddCounts(entries[handler[h].entry].clients, handler[h].client)
                            THEN "count" ELSE "unmark"]
<1> DEFINE c == handler[h].client
           e == handler[h].entry
           s == entries[e].clients
<1>1. c \in Client /\ e \in DOMAIN entries
  BY HolderFacts DEF AddClientReference, Attaching
<1>2. e \notin raced => AddReference(s, c) \in Seq(ClientSlot)
  BY <1>1, EntryFacts, AddIsArray DEF Array
<1>3. PICK t \in ArraysAfter(e, AddReference(s, c), raced) : entries' = With(e, t)
  BY DEF AddClientReference, With
<1>4. t \in Seq(ClientSlot) /\ (e \notin raced => t = AddReference(s, c))
  BY <1>1, <1>2, ArrayChoice
<1>5. PICK next \in AfterLoop(e, s, c) :
        handler' = [handler EXCEPT ![h] = IF next = "idle" THEN Idle ELSE [handler[h] EXCEPT !.step = next]]
  BY DEF AddClientReference
<1>6. /\ next \in {"count", "unmark", "idle"}
      /\ e \notin raced => next = IF StopSlots(s, c) = {} THEN "idle"
                                  ELSE IF AddCounts(s, c) THEN "count" ELSE "unmark"
  BY DEF AfterLoop
<1> DEFINE r == IF next = "idle" THEN Idle ELSE [handler[h] EXCEPT !.step = next]
<1>7. handler[h] \in Request
  BY DEF CacheInv, TypeOK
<1>8. r \in Request
  BY <1>6, <1>7, IdleFacts DEF Request, HandlerStep
<1>9. e \notin raced => r = IF StopSlots(s, c) = {} THEN Idle
                            ELSE [handler[h] EXCEPT !.step = IF AddCounts(s, c) THEN "count" ELSE "unmark"]
  BY <1>6
<1>10. r = Idle \/ r = [handler[h] EXCEPT !.step = "count"] \/ r = [handler[h] EXCEPT !.step = "unmark"]
  BY <1>6
<1>11. handler' = [handler EXCEPT ![h] = r]
  BY <1>5
<1> HIDE DEF r
<1> QED
  BY <1>3, <1>4, <1>8, <1>9, <1>10, <1>11

LEMMA AddKeeps ==
  ASSUME CacheInv, NEW h \in Handler, AddClientReference(h)
  PROVE  CacheInv'
<1> DEFINE c == handler[h].client
           e == handler[h].entry
           s == entries[e].clients
<1>1. EntriesType /\ HandlerType /\ DeleterType /\ ClosingType /\ RestType
  BY TypeParts DEF CacheInv
<1>2. /\ marked' = marked /\ deleter' = deleter /\ closing' = closing /\ raced' = raced
      /\ updateCount' = updateCount /\ mapping' = mapping /\ torn' = torn
      /\ handler[h].step = "attach"
  BY DEF AddClientReference
<1>3. c \in Client /\ e \in DOMAIN entries /\ handler[h] \in Request /\ handler[h].id \in Update
  BY <1>1, <1>2, HolderFacts DEF HandlerType, Attaching
<1>4. PICK t \in Seq(ClientSlot), r \in Request :
        /\ entries' = With(e, t)
        /\ e \notin raced => t = AddReference(s, c)
        /\ handler' = [handler EXCEPT ![h] = r]
        /\ r = Idle \/ r = [handler[h] EXCEPT !.step = "count"] \/ r = [handler[h] EXCEPT !.step = "unmark"]
        /\ e \notin raced =>
             r = IF StopSlots(s, c) = {} THEN Idle
                 ELSE [handler[h] EXCEPT !.step = IF AddCounts(s, c) THEN "count" ELSE "unmark"]
  BY AddFacts
<1>5. /\ entries' \in Seq(Entry) /\ DOMAIN entries' = DOMAIN entries
      /\ \A f \in DOMAIN entries :
           entries'[f].clients = IF f = e THEN t ELSE entries[f].clients
  BY <1>3, <1>4, WithKeeps
<1>6. r = Idle \/ (/\ r.step \in {"count", "unmark"} /\ r.id = handler[h].id
                   /\ r.client = c /\ r.entry = e)
  BY <1>3, <1>4 DEF Request
<1>7. \A g \in Handler : handler'[g] = IF g = h THEN r ELSE handler[g]
  BY <1>1, <1>4 DEF HandlerType
<1>8. e \notin raced => s \in Array
  BY <1>3, EntryFacts
<1> HIDE DEF c, e, s
<1>9. HandlerType'
  <2>1. c # 0
    BY <1>3, CacheAssumption
  <2>2. r.step # "idle" => r.id \in Update
    BY <1>3, <1>6, IdleFacts
  <2>3. r.step \in Attaching => r.client # 0 /\ r.entry \in DOMAIN entries
    BY <1>3, <1>6, <2>1, IdleFacts DEF Attaching
  <2> QED
    BY <1>1, <1>4, <1>5, <2>2, <2>3, RequestKeeps
<1>10. EntriesType' /\ DeleterType' /\ ClosingType'
  BY <1>1, <1>2, <1>5, DeleterKept, ClosingKept DEF EntriesType
<1>11. RestType'
  BY <1>1, <1>2 DEF AddClientReference, RestType, Mishap
<1>12. SlotsAreCompact'
  <2>1. e \notin raced => Compact(t)
    BY <1>3, <1>4, <1>8, AddIsArray DEF Array
  <2> QED
    BY <1>2, <1>5, <2>1 DEF CacheInv, SlotsAreCompact
<1>13. OneHolder'
  <2>1. \A f : DeleterHolds(f)' => DeleterHolds(f)
    BY <1>2 DEF DeleterHolds
  <2>2. \A f, g : g \in Handler /\ Holds(g, f)' => Holds(g, f)
    BY <1>2, <1>6, <1>7, IdleFacts DEF Holds, Attaching, e
  <2> QED
    BY <1>2, <1>5, <2>1, <2>2, HoldersKept DEF CacheInv
<1>14. MarkedIsEmpty'
  <2> SUFFICES ASSUME NEW f \in marked \ raced
               PROVE  /\ Len(entries'[f].clients) # 0
                      /\ \/ References(entries'[f].clients) = {}
                         \/ \E g \in Handler : handler'[g].step \in {"count", "unmark"} /\ handler'[g].entry = f
    BY <1>2 DEF MarkedIsEmpty
  <2>1. /\ f \in DOMAIN entries /\ Len(entries[f].clients) # 0
        /\ \/ References(entries[f].clients) = {}
           \/ \E g \in Handler : handler[g].step \in {"count", "unmark"} /\ handler[g].entry = f
    BY <1>1 DEF CacheInv, MarkedIsEmpty, EntriesType
  <2>2. CASE f # e
    <3>1. \A g \in Handler : handler[g].entry = f => handler'[g] = handler[g]
      BY <1>7, <2>2 DEF e
    <3> QED
      BY <1>5, <2>1, <2>2, <3>1
  <2>3. CASE f = e
    <3>1. \A g \in Handler : handler[g].step \in {"count", "unmark"} => handler[g].entry # e
      <4> SUFFICES ASSUME NEW g \in Handler, handler[g].step \in {"count", "unmark"}, handler[g].entry = e
                   PROVE  FALSE
        OBVIOUS
      <4>1. Holds(g, e) /\ Holds(h, e)
        BY <1>2 DEF Holds, Attaching, e
      <4>2. g = h
        BY <1>3, <2>3, <4>1 DEF CacheInv, OneHolder
      <4> QED
        BY <1>2, <4>2
    <3>2. References(s) = {} /\ Len(s) # 0
      BY <2>1, <2>3, <3>1 DEF s
    <3>3. StopSlots(s, c) # {} /\ Len(t) = Len(s)
      BY <1>3, <1>4, <1>8, <2>3, <3>2, EmptyHasRoom, AddInPlace
    <3>4. r.step \in {"count", "unmark"} /\ r.entry = e
      <4>1. r # Idle
        <5>1. r = [handler[h] EXCEPT !.step = IF AddCounts(s, c) THEN "count" ELSE "unmark"]
          BY <1>4, <2>3, <3>3
        <5>2. r.step \in {"count", "unmark"}
          BY <1>3, <5>1 DEF Request
        <5> QED
          BY <5>2, IdleFacts
      <4> QED
        BY <1>6, <4>1
    <3> QED
      BY <1>5, <1>7, <2>1, <2>3, <3>2, <3>3, <3>4
  <2> QED
    BY <2>2, <2>3
<1>15. DeletedIsEmpty'
  <2> SUFFICES ASSUME deleter.step = "mark", deleter.entry \notin raced
               PROVE  /\ Len(entries'[deleter.entry].clients) # 0
                      /\ References(entries'[deleter.entry].clients) = {}
    BY <1>2 DEF DeletedIsEmpty
  <2>1. deleter.entry \in DOMAIN entries /\ DeleterHolds(deleter.entry)
    BY HolderFacts DEF DeleterHolds, Deleting
  <2>2. deleter.entry # e
    BY <1>2, <2>1 DEF CacheInv, OneHolder, Holds, Attaching, e
  <2> QED
    BY <1>5, <2>1, <2>2 DEF CacheInv, DeletedIsEmpty
<1> QED
  BY <1>9, <1>10, <1>11, <1>12, <1>13, <1>14, <1>15, TypePartsPrimed DEF CacheInv

\* Insert appends an entry.
LEMMA InsertFacts ==
  ASSUME CacheInv, NEW h \in Handler, Insert(h)
  PROVE  /\ entries' \in Seq(Entry)
         /\ DOMAIN entries' = DOMAIN entries \union {Len(entries) + 1}
         /\ Len(entries') = Len(entries) + 1 /\ Len(entries) + 1 \notin DOMAIN entries
         /\ \A e \in DOMAIN entries : entries'[e] = entries[e]
         /\ entries'[Len(entries) + 1].id = handler[h].id
         /\ entries'[Len(entries) + 1].clients \in Array
         /\ handler[h].client = 0 => Len(entries'[Len(entries) + 1].clients) # 0
         /\ References(entries'[Len(entries) + 1].clients) =
              IF handler[h].client = 0 THEN {} ELSE {handler[h].client}
<1> DEFINE c == handler[h].client
           s == IF c = 0 THEN EmptySlots ELSE AddReference(EmptySlots, c)
           new == [id |-> handler[h].id, clients |-> s]
           k == Len(entries) + 1
<1>1. c \in ClientSlot /\ handler[h].id \in Update /\ entries \in Seq(Entry)
  BY DEF CacheInv, TypeOK, Insert, Request
<1>3. s \in Array /\ References(s) = IF c = 0 THEN {} ELSE {c}
  BY <1>1, EmptyArray, AddInPlace DEF ClientSlot
<1>4. new \in Entry /\ new.id = handler[h].id /\ new.clients = s
  BY <1>1, <1>3 DEF Entry, Array
<1>5. entries' = Append(entries, new)
  BY DEF Insert
<1>6. DOMAIN entries = 1 .. Len(entries) /\ Len(entries) \in Nat
  BY <1>1, LenProperties
<1>11. c = 0 => Len(s) # 0
  BY EmptyArray, ReferenceAssumption
<1> HIDE DEF new
<1>7. /\ entries' \in Seq(Entry) /\ Len(entries') = k
      /\ \A e \in 1 .. Len(entries) : entries'[e] = entries[e]
      /\ entries'[k] = new
  BY <1>1, <1>4, <1>5, AppendProperties
<1>8. DOMAIN entries' = DOMAIN entries \union {k}
  <2>1. DOMAIN entries' = 1 .. Len(entries')
    BY <1>7, LenProperties
  <2>2. Len(entries') = k
    BY <1>7
  <2> QED
    BY <1>6, <2>1, <2>2
<1>9. k \notin DOMAIN entries
  BY <1>6
<1> QED
  BY <1>3, <1>4, <1>6, <1>7, <1>8, <1>9, <1>11

LEMMA InsertKeeps ==
  ASSUME CacheInv, NEW h \in Handler, Insert(h)
  PROVE  CacheInv'
<1> DEFINE c == handler[h].client
           k == Len(entries) + 1
<1>1. TypeOK /\ EntriesType /\ HandlerType /\ DeleterType /\ ClosingType /\ RestType
  BY TypeParts DEF CacheInv
<1>2. /\ deleter' = deleter /\ closing' = closing /\ raced' = raced
      /\ mapping' = mapping /\ torn' = torn /\ mishaps' = mishaps
      /\ handler' = [handler EXCEPT ![h] = Idle] /\ handler[h].step = "insert"
  BY DEF Insert, history
<1>3. /\ entries' \in Seq(Entry)
      /\ DOMAIN entries' = DOMAIN entries \union {k} /\ k \notin DOMAIN entries
      /\ \A e \in DOMAIN entries : entries'[e] = entries[e]
      /\ entries'[k].clients \in Array
      /\ c = 0 => Len(entries'[k].clients) # 0
      /\ References(entries'[k].clients) = IF c = 0 THEN {} ELSE {c}
  BY InsertFacts
<1>4. marked' = marked \/ (c = 0 /\ marked' = marked \union {k})
  BY DEF Insert
<1>5. \A g \in Handler : handler'[g] = IF g = h THEN Idle ELSE handler[g]
  BY <1>1, <1>2 DEF HandlerType
<1>6. RestType'
  <2>1. CASE c = 0
    BY <1>1, <1>2, <2>1 DEF Insert, RestType
  <2>2. CASE c # 0
    <3>1. c \in Client /\ updateCount[c] + 1 \in Int /\ updateCount' \in CountsAfter(c, updateCount[c] + 1)
      BY <1>1, <2>2 DEF Insert, TypeOK, Request, ClientSlot
    <3>2. updateCount' \in [Client -> 0 .. (CountRange - 1)]
      BY <1>1, <3>1, CountsAfterFacts
    <3> QED
      BY <1>1, <1>2, <3>2 DEF RestType
  <2> QED
    BY <2>1, <2>2
<1> HIDE DEF c, k
<1>7. HandlerType' /\ EntriesType' /\ DeleterType' /\ ClosingType'
  <2>1. HandlerType'
    BY <1>1, <1>2, <1>3, IdleFacts, RequestKeeps DEF Attaching
  <2> QED
    BY <1>1, <1>2, <1>3, <1>4, <2>1, DeleterKept, ClosingKept DEF EntriesType
<1>8. SlotsAreCompact'
  BY <1>2, <1>3 DEF CacheInv, SlotsAreCompact, Array
<1>9. OneHolder'
  <2>1. \A f : DeleterHolds(f)' => DeleterHolds(f)
    BY <1>2 DEF DeleterHolds
  <2>2. \A f, g : g \in Handler /\ Holds(g, f)' => f \in DOMAIN entries /\ Holds(g, f)
    BY <1>5, IdleFacts, HolderFacts DEF Holds, Attaching
  <2> QED
    BY <1>2, <2>1, <2>2, HoldersKept DEF CacheInv
<1>10. MarkedIsEmpty'
  <2> SUFFICES ASSUME NEW f \in marked' \ raced
               PROVE  /\ Len(entries'[f].clients) # 0
                      /\ \/ References(entries'[f].clients) = {}
                         \/ \E g \in Handler : handler'[g].step \in {"count", "unmark"} /\ handler'[g].entry = f
    BY <1>2 DEF MarkedIsEmpty
  <2>1. CASE f = k
    BY <1>1, <1>3, <1>4, <2>1 DEF EntriesType
  <2>2. CASE f # k
    <3>1. f \in marked \ raced /\ f \in DOMAIN entries
      BY <1>1, <1>4, <2>2 DEF EntriesType
    <3>2. \A g \in Handler : handler[g].step \in {"count", "unmark"} => handler'[g] = handler[g]
      BY <1>2, <1>5
    <3> QED
      BY <1>3, <3>1, <3>2 DEF CacheInv, MarkedIsEmpty
  <2> QED
    BY <2>1, <2>2
<1>11. DeletedIsEmpty'
  BY <1>2, <1>3, HolderFacts DEF CacheInv, DeletedIsEmpty
<1> QED
  BY <1>6, <1>7, <1>8, <1>9, <1>10, <1>11, TypePartsPrimed DEF CacheInv

\* The command thread looks an update up.
LEMMA ProcessDeleteKeeps ==
  ASSUME CacheInv, NEW c \in Client, NEW u \in Update, ProcessDeleteUpdate(c, u)
  PROVE  CacheInv'
<1> DEFINE e == TableFind(u)
<1>1. TypeOK /\ EntriesType /\ HandlerType /\ DeleterType /\ ClosingType /\ RestType
  BY TypeParts DEF CacheInv
<1>2. /\ entries' = entries /\ marked' = marked /\ handler' = handler /\ closing' = closing
      /\ updateCount' = updateCount /\ mapping' = mapping /\ mishaps' = mishaps
      /\ deleter' = [step |-> "remove", client |-> c, entry |-> e]
      /\ raced' = RacedBy(e) /\ torn' = TornBy(c)
  BY DEF ProcessDeleteUpdate
<1>3. e \in DOMAIN entries /\ e \in Nat
  <2>1. entries \in Seq(Entry) /\ EntriesOf(u) # {}
    BY <1>1 DEF EntriesType, ProcessDeleteUpdate
  <2> QED
    BY <2>1, TableFindIsEntry, LenProperties
<1> HIDE DEF e
<1>4. raced \subseteq raced' /\ raced' \subseteq DOMAIN entries
  BY <1>1, <1>2, <1>3 DEF RacedBy, EntriesType
<1>5. EntriesType' /\ HandlerType' /\ ClosingType'
  BY <1>1, <1>2, <1>4, HandlersKept, ClosingKept DEF EntriesType
<1>6. DeleterType'
  BY <1>2, <1>3, CacheAssumption DEF DeleterType, Deletion, ClientSlot
<1>7. RestType'
  BY <1>1, <1>2 DEF RestType, TornBy
<1>8. SlotsAreCompact' /\ MarkedIsEmpty' /\ DeletedIsEmpty'
  BY <1>2, <1>4 DEF CacheInv, SlotsAreCompact, MarkedIsEmpty, DeletedIsEmpty
<1>9. OneHolder'
  <2> SUFFICES ASSUME NEW f \in DOMAIN entries \ raced'
               PROVE  /\ \A g, k \in Handler : Holds(g, f)' /\ Holds(k, f)' => g = k
                      /\ \A g \in Handler : Holds(g, f)' => ~DeleterHolds(f)'
    BY <1>2 DEF OneHolder
  <2>1. f \in DOMAIN entries \ raced
    BY <1>4
  <2>2. \A g \in Handler : Holds(g, f)' <=> Holds(g, f)
    BY <1>2 DEF Holds
  <2>3. ASSUME NEW g \in Handler, Holds(g, f), DeleterHolds(f)'
        PROVE  FALSE
    <3>1. f = e
      BY <1>2, <2>3 DEF DeleterHolds
    <3>2. Held(e)
      BY <2>3, <3>1 DEF Held, Holds
    <3> QED
      BY <1>2, <3>1, <3>2 DEF RacedBy
  <2> QED
    BY <2>1, <2>2, <2>3 DEF CacheInv, OneHolder
<1> QED
  BY <1>5, <1>6, <1>7, <1>8, <1>9, TypePartsPrimed DEF CacheInv

\* The loop of a deletion: what it leaves, and where it goes on.
LEMMA DeleteFacts ==
  ASSUME CacheInv, DeleteClientMgmt
  PROVE  \E t \in Seq(ClientSlot), q \in {"mark", "count", "idle"} :
           /\ entries' = With(deleter.entry, t)
           /\ deleter' = IF q = "idle" THEN NoDeletion ELSE [deleter EXCEPT !.step = q]
           /\ deleter.entry \notin raced =>
                /\ t = RemoveReference(entries[deleter.entry].clients, deleter.client)
                /\ q = IF deleter.client \notin References(entries[deleter.entry].clients) THEN "idle"
                       ELSE IF References(entries[deleter.entry].clients) = {deleter.client} THEN "mark"
                       ELSE "count"
<1> DEFINE c == deleter.client
           e == deleter.entry
           s == entries[e].clients
<1>1. c \in Client /\ e \in DOMAIN entries
  BY HolderFacts DEF DeleteClientMgmt
<1>2. e \notin raced => RemoveReference(s, c) \in Seq(ClientSlot)
  BY <1>1, EntryFacts, RemoveKeeps DEF Array
<1>3. PICK t \in ArraysAfter(e, RemoveReference(s, c), raced) : entries' = With(e, t)
  BY DEF DeleteClientMgmt, With
<1>4. t \in Seq(ClientSlot) /\ (e \notin raced => t = RemoveReference(s, c))
  BY <1>1, <1>2, ArrayChoice
<1>5. PICK q \in AfterRemoval(e, s, c, raced) :
        deleter' = IF q = "idle" THEN NoDeletion ELSE [deleter EXCEPT !.step = q]
  BY DEF DeleteClientMgmt
<1>6. /\ q \in {"mark", "count", "idle"}
      /\ e \notin raced => q = IF c \notin References(s) THEN "idle"
                               ELSE IF References(s) = {c} THEN "mark" ELSE "count"
  BY DEF AfterRemoval
<1> QED
  BY <1>3, <1>4, <1>5, <1>6

LEMMA DeleteKeeps ==
  ASSUME CacheInv, DeleteClientMgmt
  PROVE  CacheInv'
<1> DEFINE c == deleter.client
           e == deleter.entry
           s == entries[e].clients
<1>1. EntriesType /\ HandlerType /\ DeleterType /\ ClosingType /\ RestType
  BY TypeParts DEF CacheInv
<1>2. /\ marked' = marked /\ handler' = handler /\ closing' = closing /\ raced' = raced
      /\ updateCount' = updateCount /\ mapping' = mapping /\ torn' = torn /\ mishaps' = mishaps
      /\ deleter.step = "remove"
  BY DEF DeleteClientMgmt, history
<1>3. c \in Client /\ e \in DOMAIN entries /\ deleter \in Deletion
  BY <1>1, <1>2, HolderFacts DEF DeleterType
<1>4. PICK t \in Seq(ClientSlot), q \in {"mark", "count", "idle"} :
        /\ entries' = With(e, t)
        /\ deleter' = IF q = "idle" THEN NoDeletion ELSE [deleter EXCEPT !.step = q]
        /\ e \notin raced =>
             /\ t = RemoveReference(s, c)
             /\ q = IF c \notin References(s) THEN "idle"
                    ELSE IF References(s) = {c} THEN "mark" ELSE "count"
  BY DeleteFacts
<1>5. /\ entries' \in Seq(Entry) /\ DOMAIN entries' = DOMAIN entries
      /\ \A f \in DOMAIN entries :
           entries'[f].clients = IF f = e THEN t ELSE entries[f].clients
  BY <1>3, <1>4, WithKeeps
<1>6. e \notin raced => s \in Array
  BY <1>3, EntryFacts
<1>7. /\ deleter' \in Deletion /\ deleter'.step = q
      /\ q # "idle" => deleter'.client = c /\ deleter'.entry = e
  BY <1>3, <1>4, IdleFacts DEF Deletion
<1>8. c # 0
  BY <1>3, CacheAssumption
<1>9. ~\E g \in Handler : Holds(g, e) /\ e \notin raced
  BY <1>2, <1>3 DEF CacheInv, OneHolder, DeleterHolds, Deleting
<1> HIDE DEF c, s, e
<1>10. EntriesType' /\ HandlerType' /\ ClosingType'
  BY <1>1, <1>2, <1>5, HandlersKept, ClosingKept DEF EntriesType
<1>11. DeleterType'
  BY <1>3, <1>5, <1>7, <1>8 DEF DeleterType
<1>12. RestType'
  BY <1>1, <1>2 DEF RestType
<1>13. SlotsAreCompact'
  <2>1. e \notin raced => Compact(t)
    BY <1>3, <1>4, <1>6, RemoveKeeps DEF Array
  <2> QED
    BY <1>2, <1>5, <2>1 DEF CacheInv, SlotsAreCompact
<1>14. OneHolder'
  <2>1. \A f : DeleterHolds(f)' => DeleterHolds(f)
    BY <1>2, <1>7 DEF DeleterHolds, Deleting, e
  <2>2. \A f, g : Holds(g, f)' => Holds(g, f)
    BY <1>2 DEF Holds
  <2> QED
    BY <1>2, <1>5, <2>1, <2>2, HoldersKept DEF CacheInv
<1>15. MarkedIsEmpty'
  <2> SUFFICES ASSUME NEW f \in marked \ raced
               PROVE  /\ Len(entries'[f].clients) # 0
                      /\ \/ References(entries'[f].clients) = {}
                         \/ \E g \in Handler : handler[g].step \in {"count", "unmark"} /\ handler[g].entry = f
    BY <1>2 DEF MarkedIsEmpty
  <2>1. /\ f \in DOMAIN entries /\ Len(entries[f].clients) # 0
        /\ \/ References(entries[f].clients) = {}
           \/ \E g \in Handler : handler[g].step \in {"count", "unmark"} /\ handler[g].entry = f
    BY <1>1 DEF CacheInv, MarkedIsEmpty, EntriesType
  <2>2. CASE f # e
    BY <1>5, <2>1, <2>2
  <2>3. CASE f = e
    <3>1. \A g \in Handler : ~(handler[g].step \in {"count", "unmark"} /\ handler[g].entry = f)
      BY <1>9, <2>3 DEF Holds, Attaching
    <3>2. References(s) = {} /\ Len(s) # 0
      BY <2>1, <2>3, <3>1 DEF s
    <3>3. References(t) = {} /\ Len(t) = Len(s)
      BY <1>3, <1>4, <1>6, <2>3, <3>2, RemoveKeeps
    <3> QED
      BY <1>5, <2>1, <2>3, <3>2, <3>3
  <2> QED
    BY <2>2, <2>3
<1>16. DeletedIsEmpty'
  <2> SUFFICES ASSUME deleter'.step = "mark", deleter'.entry \notin raced
               PROVE  /\ Len(entries'[deleter'.entry].clients) # 0
                      /\ References(entries'[deleter'.entry].clients) = {}
    BY <1>2 DEF DeletedIsEmpty
  <2>1. q = "mark" /\ deleter'.entry = e /\ e \notin raced
    BY <1>7
  <2>2. References(s) = {c}
    BY <1>4, <2>1
  <2>3. Len(t) # 0 /\ References(t) = {}
    BY <1>3, <1>4, <1>6, <2>1, <2>2, RemovalEmpties
  <2> QED
    BY <1>3, <1>5, <2>1, <2>3
<1> QED
  BY <1>10, <1>11, <1>12, <1>13, <1>14, <1>15, <1>16, TypePartsPrimed DEF CacheInv

\* The mark and the count of a deletion.
LEMMA DeletionEndKeeps ==
  ASSUME CacheInv, SetGCFlag \/ CountDeletion
  PROVE  CacheInv'
<1> DEFINE c == deleter.client
           e == deleter.entry
<1>1. TypeOK /\ EntriesType /\ HandlerType /\ DeleterType /\ ClosingType /\ RestType
  BY TypeParts DEF CacheInv
<1>2. /\ entries' = entries /\ handler' = handler /\ closing' = closing /\ raced' = raced
      /\ mapping' = mapping /\ torn' = torn /\ mishaps' = mishaps
  BY DEF SetGCFlag, CountDeletion, history
<1>3. c \in Client /\ e \in DOMAIN entries /\ deleter \in Deletion /\ c # 0
  BY <1>1, HolderFacts, CacheAssumption DEF DeleterType, SetGCFlag, CountDeletion
<1>4. /\ marked' \subseteq marked \union {e}
      /\ e \in marked' => e \in marked \/ deleter.step = "mark"
  BY DEF SetGCFlag, CountDeletion, MarksAfter
<1>5. /\ deleter' \in Deletion /\ deleter'.step \in {"count", "idle"}
      /\ deleter'.step # "idle" => deleter'.client = c /\ deleter'.entry = e
  <2>1. CASE SetGCFlag
    BY <1>3, <2>1 DEF SetGCFlag, Deletion
  <2>2. CASE CountDeletion
    BY <2>2, IdleFacts DEF CountDeletion
  <2> QED
    BY <2>1, <2>2
<1>6. RestType'
  <2>1. updateCount' \in [Client -> 0 .. (CountRange - 1)]
    <3>1. CASE CountDeletion
      <4>1. updateCount[c] - 1 \in Int /\ updateCount' \in CountsAfter(c, updateCount[c] - 1)
        BY <1>1, <1>3, <3>1 DEF CountDeletion, TypeOK
      <4> QED
        BY <1>1, <1>3, <4>1, CountsAfterFacts
    <3>2. CASE SetGCFlag
      BY <1>1, <3>2 DEF SetGCFlag, RestType
    <3> QED
      BY <3>1, <3>2
  <2> QED
    BY <1>1, <1>2, <2>1 DEF RestType
<1>7. deleter.step = "mark" /\ e \notin raced =>
        Len(entries[e].clients) # 0 /\ References(entries[e].clients) = {}
  BY DEF CacheInv, DeletedIsEmpty
<1> HIDE DEF c, e
<1>8. EntriesType' /\ HandlerType' /\ ClosingType' /\ DeleterType'
  <2>1. DeleterType'
    BY <1>2, <1>3, <1>5 DEF DeleterType
  <2> QED
    BY <1>1, <1>2, <1>3, <1>4, <2>1, HandlersKept, ClosingKept DEF EntriesType
<1>9. SlotsAreCompact' /\ DeletedIsEmpty'
  BY <1>2, <1>5 DEF CacheInv, SlotsAreCompact, DeletedIsEmpty
<1>10. OneHolder'
  <2>1. \A f : ~DeleterHolds(f)'
    BY <1>5 DEF DeleterHolds, Deleting
  <2>2. \A f, g : Holds(g, f)' => Holds(g, f)
    BY <1>2 DEF Holds
  <2> QED
    BY <1>2, <2>1, <2>2, HoldersKept DEF CacheInv
<1>11. MarkedIsEmpty'
  BY <1>2, <1>4, <1>7 DEF CacheInv, MarkedIsEmpty
<1> QED
  BY <1>6, <1>8, <1>9, <1>10, <1>11, TypePartsPrimed DEF CacheInv

\* One turn of unregisterClientID.
LEMMA UnregisterFacts ==
  ASSUME CacheInv, NEW c \in Client, UnregisterClientID(c)
  PROVE  \E t \in Seq(ClientSlot), q \in {"mark", "count", "idle"} :
           /\ entries' = With(closing[c].next, t)
           /\ marked' \in IF q = "mark" THEN MarksAfter(closing[c].next) ELSE {marked}
           /\ updateCount' \in IF q = "idle" THEN {updateCount} ELSE CountsAfter(c, updateCount[c] - 1)
           /\ closing[c].next \notin raced' =>
                /\ t = RemoveReference(entries[closing[c].next].clients, c)
                /\ q = IF c \notin References(entries[closing[c].next].clients) THEN "idle"
                       ELSE IF References(entries[closing[c].next].clients) = {c} THEN "mark"
                       ELSE "count"
<1> DEFINE e == closing[c].next
           s == entries[e].clients
<1>1. e \in DOMAIN entries
  BY DEF CacheInv, TypeOK, UnregisterClientID
<1>2. raced \subseteq raced'
  BY DEF UnregisterClientID, RacedBy
<1>3. e \notin raced' => RemoveReference(s, c) \in Seq(ClientSlot)
  BY <1>1, <1>2, EntryFacts, RemoveKeeps DEF Array
<1>4. PICK t \in ArraysAfter(e, RemoveReference(s, c), raced') : entries' = With(e, t)
  BY DEF UnregisterClientID, With
<1>5. t \in Seq(ClientSlot) /\ (e \notin raced' => t = RemoveReference(s, c))
  <2> DEFINE race == raced'
  <2>1. e \notin race => RemoveReference(s, c) \in Seq(ClientSlot)
    BY <1>3
  <2>2. t \in ArraysAfter(e, RemoveReference(s, c), race)
    BY <1>4
  <2> HIDE DEF race
  <2>3. t \in Seq(ClientSlot) /\ (e \notin race => t = RemoveReference(s, c))
    BY <1>1, <2>1, <2>2, ArrayChoice
  <2> QED
    BY <2>3 DEF race
<1>6. PICK q \in AfterRemoval(e, s, c, raced') :
        /\ marked' \in IF q = "mark" THEN MarksAfter(e) ELSE {marked}
        /\ updateCount' \in IF q = "idle" THEN {updateCount} ELSE CountsAfter(c, updateCount[c] - 1)
  BY DEF UnregisterClientID
<1>7. /\ q \in {"mark", "count", "idle"}
      /\ e \notin raced' => q = IF c \notin References(s) THEN "idle"
                                ELSE IF References(s) = {c} THEN "mark" ELSE "count"
  BY <1>6 DEF AfterRemoval
<1> QED
  BY <1>4, <1>5, <1>6, <1>7

LEMMA UnregisterKeeps ==
  ASSUME CacheInv, NEW c \in Client, UnregisterClientID(c)
  PROVE  CacheInv'
<1> DEFINE e == closing[c].next
           s == entries[e].clients
<1>1. TypeOK /\ EntriesType /\ HandlerType /\ DeleterType /\ ClosingType /\ RestType
  BY TypeParts DEF CacheInv
<1>2. /\ handler' = handler /\ deleter' = deleter /\ raced' = RacedBy(e)
      /\ mapping' = mapping /\ torn' = torn /\ mishaps' = mishaps
      /\ closing[c].step = "visit"
  BY DEF UnregisterClientID
<1>3. e \in DOMAIN entries /\ e \in Nat
  BY <1>1, <1>2 DEF ClosingType, Closing
<1>4. PICK t \in Seq(ClientSlot), q \in {"mark", "count", "idle"} :
        /\ entries' = With(e, t)
        /\ marked' \in IF q = "mark" THEN MarksAfter(e) ELSE {marked}
        /\ updateCount' \in IF q = "idle" THEN {updateCount} ELSE CountsAfter(c, updateCount[c] - 1)
        /\ e \notin raced' =>
             /\ t = RemoveReference(s, c)
             /\ q = IF c \notin References(s) THEN "idle"
                    ELSE IF References(s) = {c} THEN "mark" ELSE "count"
  BY UnregisterFacts
<1>5. /\ entries' \in Seq(Entry) /\ DOMAIN entries' = DOMAIN entries
      /\ \A f \in DOMAIN entries :
           entries'[f].clients = IF f = e THEN t ELSE entries[f].clients
  BY <1>3, <1>4, WithKeeps
<1>6. raced \subseteq raced' /\ raced' \subseteq DOMAIN entries
  BY <1>1, <1>2, <1>3 DEF RacedBy, EntriesType
<1>7. e \notin raced' => s \in Array /\ ~Held(e)
  BY <1>2, <1>3, <1>6, EntryFacts DEF RacedBy
<1>8. marked' \subseteq marked \union {e} /\ (e \in marked' => e \in marked \/ q = "mark")
  BY <1>4 DEF MarksAfter
<1>9. ClosingType'
  <2>1. closing' = [closing EXCEPT ![c] = IF VisitEnds(updateCount'[c], e) THEN At("reset")
                                          ELSE [step |-> "visit", next |-> e + 1]]
    BY DEF UnregisterClientID
  <2>2. ~VisitEnds(updateCount'[c], e) => e + 1 \in DOMAIN entries
    <3>1. DOMAIN entries = 1 .. Len(entries) /\ Len(entries) \in Nat
      BY <1>1, LenProperties DEF EntriesType
    <3> HIDE DEF e
    <3> QED
      BY <1>3, <3>1 DEF VisitEnds
  <2> HIDE DEF e
  <2> QED
    BY <1>1, <1>3, <1>5, <2>1, <2>2 DEF ClosingType, Closing, At
<1>10. RestType'
  <2>1. updateCount' \in [Client -> 0 .. (CountRange - 1)]
    <3>1. CASE q = "idle"
      BY <1>1, <1>4, <3>1 DEF RestType
    <3>2. CASE q # "idle"
      <4>1. updateCount[c] - 1 \in Int /\ updateCount' \in CountsAfter(c, updateCount[c] - 1)
        BY <1>1, <1>4, <3>2 DEF TypeOK
      <4> QED
        BY <1>1, <4>1, CountsAfterFacts
    <3> QED
      BY <3>1, <3>2
  <2> QED
    BY <1>1, <1>2, <2>1 DEF RestType
<1> HIDE DEF e, s
<1>11. EntriesType' /\ HandlerType' /\ DeleterType'
  BY <1>1, <1>2, <1>3, <1>5, <1>6, <1>8, HandlersKept, DeleterKept DEF EntriesType
<1>12. SlotsAreCompact'
  <2>1. e \notin raced' => Compact(t)
    BY <1>4, <1>7, RemoveKeeps DEF Array
  <2> QED
    BY <1>5, <1>6, <2>1 DEF CacheInv, SlotsAreCompact
<1>13. OneHolder'
  <2>1. \A f, g : (Holds(g, f)' => Holds(g, f)) /\ (DeleterHolds(f)' => DeleterHolds(f))
    BY <1>2 DEF Holds, DeleterHolds
  <2> QED
    BY <1>5, <1>6, <2>1, HoldersKept DEF CacheInv
<1>14. MarkedIsEmpty'
  <2> SUFFICES ASSUME NEW f \in marked' \ raced'
               PROVE  /\ Len(entries'[f].clients) # 0
                      /\ \/ References(entries'[f].clients) = {}
                         \/ \E g \in Handler : handler[g].step \in {"count", "unmark"} /\ handler[g].entry = f
    BY <1>2 DEF MarkedIsEmpty
  <2>1. f \in marked =>
          /\ Len(entries[f].clients) # 0
          /\ \/ References(entries[f].clients) = {}
             \/ \E g \in Handler : handler[g].step \in {"count", "unmark"} /\ handler[g].entry = f
    BY <1>6 DEF CacheInv, MarkedIsEmpty
  <2>2. CASE f # e
    <3>1. f \in marked /\ f \in DOMAIN entries
      BY <1>1, <1>8, <2>2 DEF EntriesType
    <3> QED
      BY <1>5, <2>1, <2>2, <3>1
  <2>3. CASE f = e
    <3>1. \A g \in Handler : ~(handler[g].step \in {"count", "unmark"} /\ handler[g].entry = f)
      BY <1>7, <2>3 DEF Held, Attaching
    <3>2. CASE q = "mark"
      <4>1. References(s) = {c}
        BY <1>4, <2>3, <3>2
      <4>2. Len(t) # 0 /\ References(t) = {}
        BY <1>4, <1>7, <2>3, <4>1, RemovalEmpties
      <4> QED
        BY <1>3, <1>5, <2>3, <4>2
    <3>3. CASE q # "mark"
      <4>1. References(s) = {} /\ Len(s) # 0
        BY <1>8, <2>1, <2>3, <3>1, <3>3 DEF s
      <4>2. References(t) = {} /\ Len(t) = Len(s)
        BY <1>4, <1>7, <2>3, <4>1, RemoveKeeps
      <4> QED
        BY <1>3, <1>5, <2>3, <4>1, <4>2
    <3> QED
      BY <3>2, <3>3
  <2> QED
    BY <2>2, <2>3
<1>15. DeletedIsEmpty'
  <2> SUFFICES ASSUME deleter.step = "mark", deleter.entry \notin raced'
               PROVE  /\ Len(entries'[deleter.entry].clients) # 0
                      /\ References(entries'[deleter.entry].clients) = {}
    BY <1>2 DEF DeletedIsEmpty
  <2>1. deleter.entry \in DOMAIN entries /\ deleter.entry \notin raced
    BY <1>6, HolderFacts
  <2>2. deleter.entry # e
    BY <1>7 DEF Held, Deleting
  <2> QED
    BY <1>5, <2>1, <2>2 DEF CacheInv, DeletedIsEmpty
<1> QED
  BY <1>9, <1>10, <1>11, <1>12, <1>13, <1>14, <1>15, TypePartsPrimed DEF CacheInv

LEMMA CacheStep == CacheInv /\ [Next]_vars => CacheInv'
<1> SUFFICES ASSUME CacheInv, [Next]_vars
             PROVE  CacheInv'
  OBVIOUS
<1>1. CASE UNCHANGED vars
  <2>1. (EntriesType /\ HandlerType /\ DeleterType /\ SlotsAreCompact /\ OneHolder /\ MarkedIsEmpty /\ DeletedIsEmpty)'
    BY <1>1, EntriesUntouched DEF vars, history
  <2>2. ClosingType' /\ RestType'
    BY <1>1, TypeParts, ClosingKept DEF vars, history, CacheInv, RestType
  <2> QED
    BY <2>1, <2>2, TypePartsPrimed DEF CacheInv
<1>2. ASSUME NEW h \in Handler, HandlerAction(h)
      PROVE  CacheInv'
  BY <1>2, LookupKeeps, AddKeeps, HandlerStepKeeps, InsertKeeps DEF HandlerAction
<1>3. CASE DeleterAction
  BY <1>3, ProcessDeleteKeeps, DeleteKeeps, DeletionEndKeeps DEF DeleterAction
<1>4. ASSUME NEW c \in Client, ConnectionAction(c)
      PROVE  CacheInv'
  BY <1>4, ConnectionKeeps, UnregisterKeeps DEF ConnectionAction
<1> QED
  BY <1>1, <1>2, <1>3, <1>4 DEF Next

LEMMA CacheInit == Init => CacheInv
<1> SUFFICES ASSUME Init
             PROVE  CacheInv
  OBVIOUS
<1>1. entries \in Seq(Entry) /\ DOMAIN entries = {} /\ marked = {} /\ raced = {}
  BY EmptySeq DEF Init
<1>2. EntriesType /\ SlotsAreCompact /\ OneHolder /\ MarkedIsEmpty
  BY <1>1 DEF EntriesType, SlotsAreCompact, OneHolder, MarkedIsEmpty
<1>3. handler = [h \in Handler |-> Idle] /\ deleter = NoDeletion
  BY DEF Init
<1>4. HandlerType /\ DeleterType /\ DeletedIsEmpty
  BY <1>3, IdleFacts DEF HandlerType, DeleterType, DeletedIsEmpty, Attaching
<1>5. 0 \in 0 .. (CountRange - 1)
  BY CacheAssumption
<1>6. RestType /\ ClosingType
  BY <1>5 DEF Init, RestType, ClosingType, Mapping, Closing, At
<1> QED
  BY <1>2, <1>4, <1>6, TypeParts DEF CacheInv

\* Type correctness of the update cache: the counts stay in their range, and
\* whoever is about to change an entry has found one.
THEOREM CacheTypeCorrect == Spec => []TypeOK
<1>1. CacheInv => TypeOK
  BY DEF CacheInv
<1> QED
  BY <1>1, CacheInit, CacheStep, PTL DEF Spec

\* For any number of handlers and clients, and even when the length of an array
\* wraps: the array of an entry that no two threads worked with at a time has no
\* gaps and no duplicates, whatever the threads did to other entries.
THEOREM ArraysStayCompact == Spec => []SlotsAreCompact
<1>1. CacheInv => SlotsAreCompact
  BY DEF CacheInv
<1> QED
  BY <1>1, CacheInit, CacheStep, PTL DEF Spec

\* An entry that is marked for the garbage collector has no listener but one
\* whose registration is about to clear the mark, although the slots and the
\* mark are written in separate steps, unless two threads worked with the entry
\* at a time.
THEOREM MarkedStaysUnused == Spec => []MarkedIsUnused
<1>1. CacheInv => MarkedIsUnused
  BY DEF CacheInv, MarkedIsEmpty, MarkedIsUnused
<1> QED
  BY <1>1, CacheInit, CacheStep, PTL DEF Spec

-----------------------------------------------------------------------------
(***************************************************************************)
(* The arrays implement the set of registrations.                          *)
(***************************************************************************)
Listens(p, e) ==
  entries[e].id \notin Spoilt /\ \E c \in References(entries[e].clients) : p = <<c, entries[e].id>>

\* Who is registered, before and after a step.
LEMMA InRegistered ==
  \A p : p \in Registered <=> \E e \in DOMAIN entries : Listens(p, e)
BY DEF Registered, Listens

LEMMA InRegisteredPrimed ==
  \A p : p \in Registered' <=> \E e \in DOMAIN entries' : Listens(p, e)'
BY DEF Registered, Listens

\* Steps that keep the identifiers and race no entry give no update up.
LEMMA SpoiltKept ==
  ASSUME CacheInv, raced' = raced, \A e \in DOMAIN entries : entries'[e].id = entries[e].id
  PROVE  Spoilt' = Spoilt
<1>1. raced \subseteq DOMAIN entries
  BY DEF CacheInv, TypeOK
<1> QED
  BY <1>1 DEF Spoilt

\* Whatever happens to a raced entry, only its update is given up.
LEMMA RaceSpoils ==
  ASSUME CacheInv, NEW e \in DOMAIN entries, raced' = raced \union {e},
         DOMAIN entries' = DOMAIN entries,
         \A f \in DOMAIN entries : entries'[f].id = entries[f].id,
         \A f \in DOMAIN entries : f # e => entries'[f].clients = entries[f].clients
  PROVE  Listeners!Next
<1> DEFINE u == entries[e].id
<1>1. raced \subseteq DOMAIN entries /\ u \in Update
  BY EntryFacts DEF CacheInv, TypeOK
<1>2. Spoilt' = Spoilt \union {u}
  BY <1>1 DEF Spoilt
<1>3. ASSUME NEW p
      PROVE  p \in Registered' <=> p \in Registered /\ p[2] # u
  <2>1. \A f \in DOMAIN entries : Listens(p, f)' <=> Listens(p, f) /\ entries[f].id # u
    <3> SUFFICES ASSUME NEW f \in DOMAIN entries
                 PROVE  Listens(p, f)' <=> Listens(p, f) /\ entries[f].id # u
      OBVIOUS
    <3>1. entries'[f].id = entries[f].id
      OBVIOUS
    <3>2. entries[f].id \notin Spoilt' <=> entries[f].id \notin Spoilt /\ entries[f].id # u
      BY <1>2
    <3>3. CASE f = e
      BY <3>1, <3>2, <3>3 DEF Listens
    <3>4. CASE f # e
      <4>1. entries'[f].clients = entries[f].clients
        BY <3>4
      <4> HIDE DEF u
      <4> QED
        BY <3>1, <3>2, <4>1 DEF Listens
    <3> QED
      BY <3>3, <3>4
  <2>2. \A f \in DOMAIN entries : Listens(p, f) => p[2] = entries[f].id
    BY DEF Listens
  <2> HIDE DEF u
  <2>3. CASE p \in Registered'
    BY <2>1, <2>2, <2>3, InRegistered, InRegisteredPrimed
  <2>4. CASE p \in Registered /\ p[2] # u
    BY <2>1, <2>2, <2>4, InRegistered, InRegisteredPrimed
  <2> QED
    BY <2>3, <2>4, InRegisteredPrimed, InRegistered, <2>1, <2>2
<1> HIDE DEF u
<1>4. Registered' = {r \in Registered : r[2] # u}
  BY <1>3
<1> QED
  BY <1>1, <1>2, <1>4 DEF Listeners!Next, Listeners!Spoil

\* A client that joins one entry is registered for its update.
LEMMA AdditionRegisters ==
  ASSUME CacheInv, NEW e \in DOMAIN entries, NEW c \in Client, raced' = raced,
         DOMAIN entries' = DOMAIN entries,
         \A f \in DOMAIN entries : entries'[f].id = entries[f].id,
         \A f \in DOMAIN entries :
           References(entries'[f].clients) = IF f = e THEN References(entries[f].clients) \union {c}
                                             ELSE References(entries[f].clients)
  PROVE  Listeners!Next \/ UNCHANGED <<Registered, Spoilt>>
<1> DEFINE u == entries[e].id
<1>1. Spoilt' = Spoilt /\ u \in Update
  BY SpoiltKept, EntryFacts
<1>2. ASSUME NEW p, NEW f \in DOMAIN entries
      PROVE  Listens(p, f)' <=> Listens(p, f) \/ (f = e /\ u \notin Spoilt /\ p = <<c, u>>)
  <2>1. entries'[f].id = entries[f].id
    OBVIOUS
  <2>2. CASE f = e
    <3>1. References(entries'[f].clients) = References(entries[f].clients) \union {c}
      BY <2>2
    <3> QED
      BY <1>1, <2>1, <2>2, <3>1 DEF Listens
  <2>3. CASE f # e
    <3>1. References(entries'[f].clients) = References(entries[f].clients)
      BY <2>3
    <3> QED
      BY <1>1, <2>1, <2>3, <3>1 DEF Listens
  <2> QED
    BY <2>2, <2>3
<1> HIDE DEF u
<1>3. \A p : p \in Registered' <=> p \in Registered \/ (u \notin Spoilt /\ p = <<c, u>>)
  BY <1>2, InRegistered, InRegisteredPrimed
<1>4. CASE u \in Spoilt
  <2>1. Registered' = Registered
    BY <1>3, <1>4
  <2> QED
    BY <1>1, <2>1
<1>5. CASE u \notin Spoilt
  <2>1. Registered' = Registered \union {<<c, u>>}
    BY <1>3, <1>5
  <2> QED
    BY <1>1, <1>5, <2>1 DEF Listeners!Next, Listeners!Register
<1> QED
  BY <1>4, <1>5

\* A client that leaves one entry withdraws from its update, or from none when
\* another entry of that update lists it.
LEMMA RemovalWithdraws ==
  ASSUME CacheInv, NEW e \in DOMAIN entries, NEW c \in Client, raced' = raced,
         DOMAIN entries' = DOMAIN entries,
         \A f \in DOMAIN entries : entries'[f].id = entries[f].id,
         \A f \in DOMAIN entries :
           References(entries'[f].clients) = IF f = e THEN References(entries[f].clients) \ {c}
                                             ELSE References(entries[f].clients)
  PROVE  Listeners!Next
<1> DEFINE u == entries[e].id
           U == IF <<c, u>> \in Registered' THEN {} ELSE {u}
<1>1. Spoilt' = Spoilt /\ u \in Update
  BY SpoiltKept, EntryFacts
<1>2. ASSUME NEW p, NEW f \in DOMAIN entries
      PROVE  /\ Listens(p, f)' => Listens(p, f)
             /\ Listens(p, f) /\ p # <<c, u>> => Listens(p, f)'
  <2>1. entries'[f].id = entries[f].id
    OBVIOUS
  <2>2. CASE f = e
    <3>1. References(entries'[f].clients) = References(entries[f].clients) \ {c}
      BY <2>2
    <3> QED
      BY <1>1, <2>1, <2>2, <3>1 DEF Listens
  <2>3. CASE f # e
    <3>1. References(entries'[f].clients) = References(entries[f].clients)
      BY <2>3
    <3> QED
      BY <1>1, <2>1, <2>3, <3>1 DEF Listens
  <2> QED
    BY <2>2, <2>3
<1>3. U \in SUBSET Update /\ \A p : p \in {c} \X U <=> (p = <<c, u>> /\ <<c, u>> \notin Registered')
  BY <1>1
<1> HIDE DEF u, U
<1>4. \A p : p \in Registered' => p \in Registered
  BY <1>2, InRegistered, InRegisteredPrimed
<1>5. \A p : p \in Registered /\ p # <<c, u>> => p \in Registered'
  BY <1>2, InRegistered, InRegisteredPrimed
<1>6. \A p : p \in Registered' <=> p \in Registered /\ p \notin {c} \X U
  <2> SUFFICES ASSUME NEW p
               PROVE  p \in Registered' <=> p \in Registered /\ p \notin {c} \X U
    OBVIOUS
  <2>1. CASE p = <<c, u>>
    BY <1>3, <1>4, <2>1
  <2>2. CASE p # <<c, u>>
    BY <1>3, <1>4, <1>5, <2>2
  <2> QED
    BY <2>1, <2>2
<1>7. Registered' = Registered \ ({c} \X U)
  BY <1>6
<1> QED
  BY <1>1, <1>3, <1>7 DEF Listeners!Next, Listeners!Withdraw

LEMMA InsertRegisters ==
  ASSUME CacheInv, NEW h \in Handler, Insert(h)
  PROVE  Listeners!Next \/ UNCHANGED <<Registered, Spoilt>>
<1> DEFINE c == handler[h].client
           u == handler[h].id
<1>0. PICK k : k = Len(entries) + 1
  OBVIOUS
<1>1. c \in ClientSlot /\ u \in Update /\ raced' = raced
  BY DEF CacheInv, TypeOK, Insert, Request, history
<1>2. /\ DOMAIN entries' = DOMAIN entries \union {k}
      /\ \A e \in DOMAIN entries : entries'[e] = entries[e]
      /\ entries'[k].id = u
      /\ References(entries'[k].clients) = IF c = 0 THEN {} ELSE {c}
  BY <1>0, InsertFacts
<1>3. Spoilt' = Spoilt
  BY <1>1, <1>2, SpoiltKept
<1> HIDE DEF c, u
<1>4. \A p : \A e \in DOMAIN entries : Listens(p, e)' <=> Listens(p, e)
  BY <1>2, <1>3 DEF Listens
<1>5. \A p : Listens(p, k)' <=> c # 0 /\ u \notin Spoilt /\ p = <<c, u>>
  BY <1>2, <1>3 DEF Listens
<1>6. \A p : p \in Registered' <=> p \in Registered \/ (c # 0 /\ u \notin Spoilt /\ p = <<c, u>>)
  BY <1>2, <1>4, <1>5, InRegistered, InRegisteredPrimed
<1>7. CASE c = 0 \/ u \in Spoilt
  <2>1. Registered' = Registered
    BY <1>6, <1>7
  <2> QED
    BY <1>3, <2>1
<1>8. CASE c # 0 /\ u \notin Spoilt
  <2>1. c \in Client /\ Registered' = Registered \union {<<c, u>>}
    BY <1>1, <1>6, <1>8 DEF ClientSlot
  <2> QED
    BY <1>1, <1>3, <1>8, <2>1 DEF Listeners!Next, Listeners!Register
<1> QED
  BY <1>7, <1>8

\* A registration adds its client, also to an array that has to grow.
LEMMA AddRegisters ==
  ASSUME CacheInv, Cardinality(Client) + MinClients <= ByteRange,
         NEW h \in Handler, AddClientReference(h)
  PROVE  Listeners!Next \/ UNCHANGED <<Registered, Spoilt>>
<1> DEFINE c == handler[h].client
           e == handler[h].entry
           s == entries[e].clients
<1>1. c \in Client /\ e \in DOMAIN entries /\ raced' = raced
  BY HolderFacts DEF AddClientReference, Attaching
<1>2. PICK t \in Seq(ClientSlot) : entries' = With(e, t) /\ (e \notin raced => t = AddReference(s, c))
  BY AddFacts
<1>3. /\ DOMAIN entries' = DOMAIN entries
      /\ \A f \in DOMAIN entries :
           /\ entries'[f].id = entries[f].id
           /\ entries'[f].clients = IF f = e THEN t ELSE entries[f].clients
  BY <1>1, <1>2, WithKeeps
<1>4. e \notin raced => s \in Array
  BY <1>1, EntryFacts
<1> HIDE DEF c, e
<1>5. CASE e \in raced
  <2>1. raced' = raced \union {e}
    BY <1>1, <1>5
  <2> QED
    BY <1>1, <1>3, <2>1, RaceSpoils
<1>6. CASE e \notin raced
  <2>1. References(AddReference(s, c)) = References(s) \union {c}
    <3> HIDE DEF s
    <3>1. CASE StopSlots(s, c) # {}
      BY <1>1, <1>4, <1>6, <3>1, AddInPlace
    <3>2. CASE StopSlots(s, c) = {}
      <4>1. Len(s) < Cardinality(Client)
        BY <1>1, <1>4, <1>6, <3>2, FullArrayIsShort
      <4>2. Len(s) \in Nat /\ Cardinality(Client) \in Nat
        BY <1>4, <1>6, LenProperties, FS_CardinalityType, CacheAssumption DEF Array
      <4>3. Len(s) + MinClients < ByteRange
        BY <4>1, <4>2, ReferenceAssumption
      <4> QED
        BY <1>1, <1>4, <1>6, <3>2, <4>3, AddExtended
    <3> QED
      BY <3>1, <3>2
  <2>2. \A f \in DOMAIN entries :
          References(entries'[f].clients) = IF f = e THEN References(entries[f].clients) \union {c}
                                            ELSE References(entries[f].clients)
    BY <1>2, <1>3, <1>6, <2>1
  <2> QED
    BY <1>1, <1>3, <2>2, AdditionRegisters
<1> QED
  BY <1>5, <1>6

LEMMA DeleteWithdraws ==
  ASSUME CacheInv, DeleteClientMgmt
  PROVE  Listeners!Next
<1> DEFINE c == deleter.client
           e == deleter.entry
<1>1. c \in Client /\ e \in DOMAIN entries /\ raced' = raced
  BY HolderFacts DEF DeleteClientMgmt, history
<1>2. PICK t \in Seq(ClientSlot) :
        entries' = With(e, t) /\ (e \notin raced => t = RemoveReference(entries[e].clients, c))
  BY DeleteFacts
<1>3. /\ DOMAIN entries' = DOMAIN entries
      /\ \A f \in DOMAIN entries :
           /\ entries'[f].id = entries[f].id
           /\ entries'[f].clients = IF f = e THEN t ELSE entries[f].clients
  BY <1>1, <1>2, WithKeeps
<1> HIDE DEF c, e
<1>4. CASE e \in raced
  <2>1. raced' = raced \union {e}
    BY <1>1, <1>4
  <2> QED
    BY <1>1, <1>3, <2>1, RaceSpoils
<1>5. CASE e \notin raced
  <2>1. References(t) = References(entries[e].clients) \ {c}
    BY <1>1, <1>2, <1>5, EntryFacts, RemoveKeeps
  <2>2. \A f \in DOMAIN entries :
          References(entries'[f].clients) = IF f = e THEN References(entries[f].clients) \ {c}
                                            ELSE References(entries[f].clients)
    BY <1>3, <2>1
  <2> QED
    BY <1>1, <1>3, <2>2, RemovalWithdraws
<1> QED
  BY <1>4, <1>5

LEMMA UnregisterWithdraws ==
  ASSUME CacheInv, NEW c \in Client, UnregisterClientID(c)
  PROVE  Listeners!Next
<1> DEFINE e == closing[c].next
<1>1. e \in DOMAIN entries /\ raced' = RacedBy(e)
  BY DEF CacheInv, TypeOK, UnregisterClientID
<1>2. PICK t \in Seq(ClientSlot) :
        entries' = With(e, t) /\ (e \notin raced' => t = RemoveReference(entries[e].clients, c))
  BY UnregisterFacts
<1>3. /\ DOMAIN entries' = DOMAIN entries
      /\ \A f \in DOMAIN entries :
           /\ entries'[f].id = entries[f].id
           /\ entries'[f].clients = IF f = e THEN t ELSE entries[f].clients
  BY <1>1, <1>2, WithKeeps
<1> HIDE DEF e
<1>4. CASE e \in raced'
  <2>1. raced' = raced \union {e}
    BY <1>1, <1>4 DEF RacedBy
  <2> QED
    BY <1>1, <1>3, <2>1, RaceSpoils
<1>5. CASE e \notin raced'
  <2>0. raced' = raced
    BY <1>1, <1>5 DEF RacedBy
  <2>1. References(t) = References(entries[e].clients) \ {c}
    BY <1>1, <1>2, <1>5, <2>0, EntryFacts, RemoveKeeps
  <2>2. \A f \in DOMAIN entries :
          References(entries'[f].clients) = IF f = e THEN References(entries[f].clients) \ {c}
                                            ELSE References(entries[f].clients)
    BY <1>3, <2>1
  <2> QED
    BY <1>1, <1>3, <2>0, <2>2, RemovalWithdraws
<1> QED
  BY <1>4, <1>5

\* Looking an update up changes no listener, unless somebody is at its entry.
LEMMA LookupSpoils ==
  ASSUME CacheInv, entries' = entries,
         raced' = raced \/ \E e \in DOMAIN entries : raced' = RacedBy(e)
  PROVE  Listeners!Next \/ UNCHANGED <<Registered, Spoilt>>
<1>1. CASE raced' = raced
  BY <1>1 DEF Registered, Spoilt
<1>2. CASE raced' # raced
  <2>1. PICK e \in DOMAIN entries : raced' = raced \union {e}
    BY <1>2 DEF RacedBy
  <2> QED
    BY <2>1, RaceSpoils
<1> QED
  BY <1>1, <1>2

\* The arrays of clients implement the set of registrations, although the
\* threads write slots, marks and counts without a lock: an overlap on one
\* update costs the registrations of no other, and without one nobody is lost or
\* added.  This holds for any number of clients, updates and handlers, provided
\* that an array with a slot for every client fits into a byte.
THEOREM CacheImplementsRegistration ==
  ASSUME Cardinality(Client) + MinClients <= ByteRange
  PROVE  Spec => ImplementsRegistration
<1>1. Init => Listeners!Init
  BY DEF Init, Listeners!Init, Registered, Spoilt
<1>2. CacheInv /\ [Next]_vars => [Listeners!Next]_<<Registered, Spoilt>>
  <2> SUFFICES ASSUME CacheInv, [Next]_vars
               PROVE  Listeners!Next \/ UNCHANGED <<Registered, Spoilt>>
    OBVIOUS
  <2>1. entries \in Seq(Entry)
    BY DEF CacheInv, TypeOK
  <2>2. CASE UNCHANGED vars
    BY <2>2, LookupSpoils DEF vars, history
  <2>3. ASSUME NEW h \in Handler, HandlerAction(h)
        PROVE  Listeners!Next \/ UNCHANGED <<Registered, Spoilt>>
    <3>1. CASE AddClientReference(h)
      BY <3>1, AddRegisters
    <3>2. CASE Insert(h)
      BY <3>2, InsertRegisters
    <3>3. ASSUME NEW c \in ClientSlot, NEW u \in Update, Lookup(h, c, u)
          PROVE  Listeners!Next \/ UNCHANGED <<Registered, Spoilt>>
      <4>1. entries' = entries
        BY <3>3 DEF Lookup
      <4>2. raced' = raced \/ (EntriesOf(u) # {} /\ raced' = RacedBy(TableFind(u)))
        BY <3>3 DEF Lookup
      <4> QED
        BY <2>1, <4>1, <4>2, TableFindIsEntry, LookupSpoils
    <3>4. CASE StoreUpdate(h) \/ Refuse(h) \/ CountReference(h) \/ ResetGCFlag(h)
      BY <3>4, LookupSpoils DEF StoreUpdate, Refuse, CountReference, ResetGCFlag, history
    <3> QED
      BY <2>3, <3>1, <3>2, <3>3, <3>4 DEF HandlerAction
  <2>4. CASE DeleterAction
    <3>1. CASE DeleteClientMgmt
      BY <3>1, DeleteWithdraws
    <3>2. ASSUME NEW c \in Client, NEW u \in Update, ProcessDeleteUpdate(c, u)
          PROVE  Listeners!Next \/ UNCHANGED <<Registered, Spoilt>>
      <4>1. entries' = entries /\ EntriesOf(u) # {} /\ raced' = RacedBy(TableFind(u))
        BY <3>2 DEF ProcessDeleteUpdate
      <4> QED
        BY <2>1, <4>1, TableFindIsEntry, LookupSpoils
    <3>3. CASE SetGCFlag \/ CountDeletion
      BY <3>3, LookupSpoils DEF SetGCFlag, CountDeletion, history
    <3> QED
      BY <2>4, <3>1, <3>2, <3>3 DEF DeleterAction
  <2>5. ASSUME NEW c \in Client, ConnectionAction(c)
        PROVE  Listeners!Next \/ UNCHANGED <<Registered, Spoilt>>
    <3>1. CASE UnregisterClientID(c)
      BY <3>1, UnregisterWithdraws
    <3>2. CASE Connect(c) \/ Deactivate(c) \/ DelMapping(c) \/ LockTable(c) \/ ResetCount(c)
      BY <3>2, LookupSpoils DEF Connect, Deactivate, DelMapping, LockTable, ResetCount, history
    <3> QED
      BY <2>5, <3>1, <3>2 DEF ConnectionAction
  <2> QED
    BY <2>2, <2>3, <2>4, <2>5 DEF Next
<1> QED
  BY <1>1, <1>2, CacheInit, CacheStep, PTL DEF Spec, ImplementsRegistration, Listeners!Spec

-----------------------------------------------------------------------------
(***************************************************************************)
(* With the receiver queue there is one handler, and updates are stored    *)
(* once: what storeUpdate looked up is still so when it inserts.           *)
(***************************************************************************)
InsertsNew == \A h \in Handler : handler[h].step = "insert" => EntriesOf(handler[h].id) = {}

\* Steps that change neither the entries' identifiers nor begin an insertion.
LEMMA IdentifiersKept ==
  ASSUME StoredOnce, InsertsNew,
         DOMAIN entries' = DOMAIN entries,
         \A e \in DOMAIN entries : entries'[e].id = entries[e].id,
         \A h \in Handler : handler'[h].step = "insert" =>
            handler[h].step = "insert" /\ handler'[h].id = handler[h].id
  PROVE  (StoredOnce /\ InsertsNew)'
<1>1. StoredOnce'
  BY DEF StoredOnce
<1>2. \A u : EntriesOf(u) = {} => EntriesOf(u)' = {}
  BY DEF EntriesOf
<1> QED
  BY <1>1, <1>2 DEF InsertsNew, EntriesOf

LEMMA InsertStoresOnce ==
  ASSUME CacheInv, StoredOnce, InsertsNew, \A k, l \in Handler : k = l,
         NEW h \in Handler, Insert(h)
  PROVE  (StoredOnce /\ InsertsNew)'
<1>1. /\ DOMAIN entries' = DOMAIN entries \union {Len(entries) + 1}
      /\ \A e \in DOMAIN entries : entries'[e] = entries[e]
      /\ entries'[Len(entries) + 1].id = handler[h].id
  BY InsertFacts
<1>2. \A e \in DOMAIN entries : entries[e].id # handler[h].id
  BY DEF InsertsNew, Insert, EntriesOf
<1>3. StoredOnce'
  BY <1>1, <1>2 DEF StoredOnce
<1>4. handler'[h].step = "idle"
  BY DEF Insert, Idle, CacheInv, TypeOK
<1>5. InsertsNew'
  BY <1>4 DEF InsertsNew
<1> QED
  BY <1>3, <1>5

LEMMA StoreUpdateLooksUp ==
  ASSUME CacheInv, StoredOnce, InsertsNew, \A k, l \in Handler : k = l,
         NEW h \in Handler, StoreUpdate(h)
  PROVE  (StoredOnce /\ InsertsNew)'
<1>1. entries' = entries
  BY DEF StoreUpdate
<1>2. StoredOnce'
  BY <1>1 DEF StoredOnce
<1>3. handler[h] \in Request /\ h \in DOMAIN handler
  BY DEF CacheInv, TypeOK
<1>4. handler'[h] = [handler[h] EXCEPT !.step = IF EntriesOf(handler[h].id) = {} THEN "insert" ELSE "refused"]
  BY <1>3 DEF StoreUpdate
<1>5. handler'[h].id = handler[h].id /\ (handler'[h].step = "insert" => EntriesOf(handler[h].id) = {})
  BY <1>3, <1>4 DEF Request
<1>6. EntriesOf(handler[h].id)' = {e \in DOMAIN entries : entries[e].id = handler'[h].id}
  BY <1>1 DEF EntriesOf
<1>7. handler'[h].step = "insert" => EntriesOf(handler[h].id)' = {}
  BY <1>5, <1>6 DEF EntriesOf
<1>8. InsertsNew'
  BY <1>7 DEF InsertsNew
<1> QED
  BY <1>2, <1>8

\* With a single handler the cache never holds an update twice.
THEOREM OneHandlerStoresOnce ==
  ASSUME \A k, l \in Handler : k = l
  PROVE  Spec => []StoredOnce
<1>1. Init => StoredOnce /\ InsertsNew
  BY DEF Init, StoredOnce, InsertsNew, Idle
<1>2. CacheInv /\ StoredOnce /\ InsertsNew /\ [Next]_vars => (StoredOnce /\ InsertsNew)'
  <2> SUFFICES ASSUME CacheInv, StoredOnce, InsertsNew, [Next]_vars
               PROVE  (StoredOnce /\ InsertsNew)'
    OBVIOUS
  <2>0. handler \in [Handler -> Request] /\ entries \in Seq(Entry)
    BY DEF CacheInv, TypeOK
  <2>1. CASE UNCHANGED vars
    BY <2>1, IdentifiersKept DEF vars
  <2>2. ASSUME NEW h \in Handler, HandlerAction(h)
        PROVE  (StoredOnce /\ InsertsNew)'
    <3>1. CASE Insert(h)
      BY <3>1, InsertStoresOnce
    <3>2. CASE StoreUpdate(h)
      BY <3>2, StoreUpdateLooksUp
    <3>3. CASE AddClientReference(h)
      <4>1. PICK t \in Seq(ClientSlot), r \in Request :
              /\ entries' = With(handler[h].entry, t)
              /\ handler' = [handler EXCEPT ![h] = r]
              /\ r = Idle \/ r = [handler[h] EXCEPT !.step = "count"] \/ r = [handler[h] EXCEPT !.step = "unmark"]
        BY <3>3, AddFacts
      <4>2. r.step # "insert"
        BY <2>0, <4>1, IdleFacts DEF Request
      <4>3. \A k \in Handler : handler'[k].step # "insert"
        BY <2>0, <4>1, <4>2
      <4>4. handler[h].entry \in DOMAIN entries
        BY <3>3, HolderFacts DEF AddClientReference, Attaching
      <4>5. DOMAIN entries' = DOMAIN entries /\ \A e \in DOMAIN entries : entries'[e].id = entries[e].id
        BY <4>1, <4>4, WithKeeps
      <4> QED
        BY <4>3, <4>5, IdentifiersKept
    <3>4. ASSUME NEW c \in ClientSlot, NEW u \in Update, Lookup(h, c, u)
          PROVE  (StoredOnce /\ InsertsNew)'
      <4>1. entries' = entries /\ handler'[h] = AfterLookup(c, u)
        BY <2>0, <3>4 DEF Lookup
      <4>2. AfterLookup(c, u).step # "insert"
        BY DEF AfterLookup, Idle
      <4>3. \A k \in Handler : handler'[k].step # "insert"
        BY <4>1, <4>2
      <4> QED
        BY <4>1, <4>3, IdentifiersKept
    <3>5. CASE Refuse(h) \/ CountReference(h) \/ ResetGCFlag(h)
      <4>1. entries' = entries
        BY <3>5 DEF Refuse, CountReference, ResetGCFlag
      <4>2. handler'[h] = Idle \/ handler'[h] = [handler[h] EXCEPT !.step = "unmark"]
        BY <2>0, <3>5 DEF Refuse, CountReference, ResetGCFlag
      <4>3. handler'[h].step # "insert"
        BY <2>0, <4>2, IdleFacts DEF Request
      <4> QED
        BY <4>1, <4>3, IdentifiersKept
    <3> QED
      BY <2>2, <3>1, <3>2, <3>3, <3>4, <3>5 DEF HandlerAction
  <2>3. CASE DeleterAction \/ \E c \in Client : ConnectionAction(c)
    <3>1. handler' = handler
      BY <2>3 DEF DeleterAction, ProcessDeleteUpdate, DeleteClientMgmt, SetGCFlag, CountDeletion,
                  ConnectionAction, Connect, Deactivate, DelMapping, LockTable, UnregisterClientID, ResetCount
    <3>2. DOMAIN entries' = DOMAIN entries /\ \A e \in DOMAIN entries : entries'[e].id = entries[e].id
      <4>1. CASE DeleteClientMgmt
        <5>1. PICK t \in Seq(ClientSlot) : entries' = With(deleter.entry, t)
          BY <4>1, DeleteFacts
        <5>2. deleter.entry \in DOMAIN entries
          BY <4>1, HolderFacts DEF DeleteClientMgmt
        <5> QED
          BY <5>1, <5>2, WithKeeps
      <4>2. ASSUME NEW c \in Client, UnregisterClientID(c)
            PROVE  DOMAIN entries' = DOMAIN entries /\ \A e \in DOMAIN entries : entries'[e].id = entries[e].id
        <5>1. PICK t \in Seq(ClientSlot) : entries' = With(closing[c].next, t)
          BY <4>2, UnregisterFacts
        <5>2. closing[c].next \in DOMAIN entries
          BY <4>2 DEF CacheInv, TypeOK, UnregisterClientID
        <5> QED
          BY <5>1, <5>2, WithKeeps
      <4>3. ASSUME \/ SetGCFlag \/ CountDeletion
                   \/ \E c \in Client, u \in Update : ProcessDeleteUpdate(c, u)
                   \/ \E c \in Client : \/ Connect(c) \/ Deactivate(c) \/ DelMapping(c)
                                        \/ LockTable(c) \/ ResetCount(c)
            PROVE  entries' = entries
        BY <4>3 DEF SetGCFlag, CountDeletion, ProcessDeleteUpdate, Connect, Deactivate, DelMapping,
                    LockTable, ResetCount
      <4> QED
        BY <2>3, <4>1, <4>2, <4>3 DEF DeleterAction, ConnectionAction
    <3> QED
      BY <3>1, <3>2, IdentifiersKept
  <2> QED
    BY <2>1, <2>2, <2>3 DEF Next
<1> QED
  BY <1>1, <1>2, CacheInit, CacheStep, PTL DEF Spec

-----------------------------------------------------------------------------
(***************************************************************************)
(* The count of each mapping.  The entries that list a client and its      *)
(* count change in separate steps, so the invariant says how far they are  *)
(* apart in between, and that a client that is not torn has one operation  *)
(* under way at most.  unregisterClientID stops where the count is used    *)
(* up, so an exact count is what makes it find all.  The counter must be   *)
(* wide enough for the entries there may be.                               *)
(***************************************************************************)
Counting(c) == \E h \in Handler : handler[h].step = "count" /\ handler[h].client = c
Uncounted(c) == deleter.step \in {"mark", "count"} /\ deleter.client = c

Alone(c) ==
  /\ \A g, h \in Handler : handler[g].client = c /\ handler[h].client = c => g = h
  /\ \A h \in Handler : handler[h].client = c =>
       deleter.client # c /\ closing[c].step = "none" /\ mapping[c] = "active"
  /\ deleter.client = c => closing[c].step = "none"

Balance(c) ==
  updateCount[c] + (IF Counting(c) THEN 1 ELSE 0)
    = Cardinality(Listing(c)) + (IF Uncounted(c) THEN 1 ELSE 0)

CountsOf(c) ==
  /\ closing[c].step # "none" => mapping[c] # "active"
  /\ closing[c].step = "none" => Balance(c)
  /\ closing[c].step \in {"delMapping", "unregister", "visit"} =>
       updateCount[c] = Cardinality(Listing(c))
  /\ closing[c].step = "visit" => \A e \in Listing(c) : closing[c].next <= e
  /\ closing[c].step = "reset" => Listing(c) = {}
  /\ mapping[c] = "inactive" /\ closing[c].step = "none" => Listing(c) = {}

CountInv ==
  /\ Len(entries) <= MaxEntries
  /\ mishaps = {} /\ raced = {} => \A c \in Client \ torn : Alone(c) /\ CountsOf(c)

\* No more entries list a client than there are.
LEMMA ListingBound ==
  ASSUME entries \in Seq(Entry), NEW c
  PROVE  /\ IsFiniteSet(Listing(c)) /\ Cardinality(Listing(c)) \in Nat
         /\ Cardinality(Listing(c)) <= Len(entries) /\ Len(entries) \in Nat
<1>1. DOMAIN entries = 1 .. Len(entries) /\ Len(entries) \in Nat
  BY LenProperties
<1>2. IsFiniteSet(1 .. Len(entries)) /\ Cardinality(1 .. Len(entries)) = Len(entries)
  BY <1>1, FS_Interval
<1>3. Listing(c) \subseteq 1 .. Len(entries)
  BY <1>1 DEF Listing
<1> QED
  BY <1>1, <1>2, <1>3, FS_Subset, FS_CardinalityType

LEMMA ListingBoundPrimed ==
  ASSUME entries' \in Seq(Entry), NEW c
  PROVE  /\ IsFiniteSet(Listing(c)') /\ Cardinality(Listing(c)') \in Nat
         /\ Cardinality(Listing(c)') <= Len(entries')
<1>1. DOMAIN entries' = 1 .. Len(entries') /\ Len(entries') \in Nat
  BY LenProperties
<1>2. IsFiniteSet(1 .. Len(entries')) /\ Cardinality(1 .. Len(entries')) = Len(entries')
  BY <1>1, FS_Interval
<1>3. Listing(c)' \subseteq 1 .. Len(entries')
  BY <1>1 DEF Listing
<1> QED
  BY <1>1, <1>2, <1>3, FS_Subset, FS_CardinalityType

\* A client that finds a slot is counted exactly if it was not listed.
LEMMA CountedIfNew ==
  ASSUME NEW s \in Array, NEW c \in Client, StopSlots(s, c) # {}
  PROVE  AddCounts(s, c) <=> c \notin References(s)
<1> DEFINE k == FirstOf(StopSlots(s, c))
<1>1. DOMAIN s = 1 .. Len(s) /\ Len(s) \in Nat /\ Compact(s) /\ c # 0
  BY LenProperties, CacheAssumption DEF Array
<1>2. k \in StopSlots(s, c) /\ \A j \in StopSlots(s, c) : k <= j
  <2>1. StopSlots(s, c) \in SUBSET Nat
    BY <1>1 DEF StopSlots
  <2> QED
    BY <2>1, FirstOfIsLeast
<1>3. k \in DOMAIN s /\ (s[k] = 0 \/ s[k] = c)
  BY <1>2 DEF StopSlots
<1>4. AddCounts(s, c) <=> s[k] = 0
  BY DEF AddCounts
<1> HIDE DEF k
<1>5. CASE s[k] = c
  BY <1>1, <1>3, <1>4, <1>5 DEF References
<1>6. CASE s[k] = 0
  <2>1. ASSUME NEW j \in DOMAIN s, s[j] = c
        PROVE  FALSE
    <3>1. k <= j /\ k # j
      BY <1>1, <1>2, <1>6, <2>1 DEF StopSlots
    <3>2. k < j
      BY <1>1, <1>3, <3>1
    <3> QED
      BY <1>1, <1>3, <1>6, <2>1, <3>2 DEF Compact
  <2>2. c \notin References(s)
    BY <2>1 DEF References
  <2> QED
    BY <1>4, <1>6, <2>2
<1> QED
  BY <1>3, <1>5, <1>6


\* Clients whose entries, count and operations a step leaves alone.
LEMMA CountsKept ==
  ASSUME NEW d, Alone(d), CountsOf(d), Listing(d)' = Listing(d), updateCount'[d] = updateCount[d],
         mapping'[d] = mapping[d], closing'[d] = closing[d],
         \A h \in Handler : handler'[h].client = d <=> handler[h].client = d,
         deleter'.client = d <=> deleter.client = d,
         Counting(d)' <=> Counting(d), Uncounted(d)' <=> Uncounted(d)
  PROVE  Alone(d)' /\ CountsOf(d)'
<1>1. Alone(d)'
  BY DEF Alone
<1>2. Balance(d)' <=> Balance(d)
  BY DEF Balance
<1> QED
  BY <1>1, <1>2 DEF CountsOf

\* A step of a handler: the balance of its own client is all that matters.
LEMMA HandlerCounts ==
  ASSUME CacheInv, NEW h \in Handler, NEW r, handler' = [handler EXCEPT ![h] = r],
         r.client = handler[h].client \/ r.client = 0,
         mapping' = mapping, closing' = closing, deleter' = deleter,
         NEW d \in Client, Alone(d), CountsOf(d),
         d # handler[h].client => Listing(d)' = Listing(d) /\ updateCount'[d] = updateCount[d],
         d = handler[h].client /\
         updateCount[d] + (IF handler[h].step = "count" THEN 1 ELSE 0) = Cardinality(Listing(d)) + 0 =>
           updateCount'[d] + (IF r.step = "count" /\ r.client = d THEN 1 ELSE 0)
             = Cardinality(Listing(d)') + 0
  PROVE  Alone(d)' /\ CountsOf(d)'
<1>1. \A g \in Handler : handler'[g] = IF g = h THEN r ELSE handler[g]
  BY DEF CacheInv, TypeOK
<1>2. d # 0
  BY CacheAssumption
<1>3. CASE d # handler[h].client
  <2>1. \A g \in Handler : handler'[g].client = d <=> handler[g].client = d
    BY <1>1, <1>2, <1>3
  <2>2. Counting(d)' <=> Counting(d)
    BY <1>1, <1>2, <1>3 DEF Counting
  <2>3. Uncounted(d)' <=> Uncounted(d)
    BY DEF Uncounted
  <2> QED
    BY <1>3, <2>1, <2>2, <2>3, CountsKept
<1>4. CASE d = handler[h].client
  <2>1. Alone(d)'
    BY <1>1, <1>2, <1>4 DEF Alone
  <2>2. /\ \A g \in Handler : handler[g].client = d => g = h
        /\ deleter.client # d /\ closing[d].step = "none" /\ mapping[d] = "active"
    BY <1>4 DEF Alone
  <2>3. ~Uncounted(d) /\ ~Uncounted(d)'
    BY <2>2 DEF Uncounted
  <2>4. Counting(d) <=> handler[h].step = "count"
    BY <1>4, <2>2 DEF Counting
  <2>5. Counting(d)' <=> r.step = "count" /\ r.client = d
    BY <1>1, <2>2 DEF Counting
  <2>6. updateCount[d] + (IF handler[h].step = "count" THEN 1 ELSE 0) = Cardinality(Listing(d)) + 0
    BY <2>2, <2>3, <2>4 DEF CountsOf, Balance
  <2>7. updateCount'[d] + (IF r.step = "count" /\ r.client = d THEN 1 ELSE 0)
             = Cardinality(Listing(d)') + 0
    BY <1>4, <2>6
  <2>8. Balance(d)'
    BY <2>3, <2>5, <2>7 DEF Balance
  <2> QED
    BY <2>1, <2>2, <2>8 DEF CountsOf
<1> QED
  BY <1>3, <1>4

\* A step of the command thread, likewise.
LEMMA DeleterCounts ==
  ASSUME CacheInv, deleter'.client = deleter.client \/ deleter'.client = 0, deleter.step # "idle",
         mapping' = mapping, closing' = closing, handler' = handler,
         NEW d \in Client, Alone(d), CountsOf(d),
         d # deleter.client => Listing(d)' = Listing(d) /\ updateCount'[d] = updateCount[d],
         Listing(d)' \subseteq Listing(d),
         d = deleter.client /\
         updateCount[d] + 0 = Cardinality(Listing(d)) + (IF deleter.step # "remove" THEN 1 ELSE 0) =>
           updateCount'[d] + 0 = Cardinality(Listing(d)')
             + (IF deleter'.step \in {"mark", "count"} /\ deleter'.client = d THEN 1 ELSE 0)
  PROVE  Alone(d)' /\ CountsOf(d)'
<1>0. deleter.step \in {"remove", "mark", "count"}
  BY DEF CacheInv, TypeOK, Deletion
<1>1. Counting(d)' <=> Counting(d)
  BY DEF Counting
<1>2. d # 0
  BY CacheAssumption
<1>3. CASE d # deleter.client
  <2>1. Uncounted(d)' <=> Uncounted(d)
    BY <1>2, <1>3 DEF Uncounted
  <2> QED
    BY <1>1, <1>2, <1>3, <2>1, CountsKept
<1>4. CASE d = deleter.client
  <2>1. Alone(d)'
    BY <1>2, <1>4 DEF Alone
  <2>2. closing[d].step = "none" /\ \A h \in Handler : handler[h].client # d
    BY <1>4 DEF Alone
  <2>3. ~Counting(d) /\ ~Counting(d)'
    BY <1>1, <2>2 DEF Counting
  <2>4. Uncounted(d) <=> deleter.step # "remove"
    BY <1>0, <1>4 DEF Uncounted
  <2>5. Uncounted(d)' <=> deleter'.step \in {"mark", "count"} /\ deleter'.client = d
    BY DEF Uncounted
  <2>6. updateCount[d] + 0 = Cardinality(Listing(d)) + (IF deleter.step # "remove" THEN 1 ELSE 0)
    BY <2>2, <2>3, <2>4 DEF CountsOf, Balance
  <2>7. updateCount'[d] + 0 = Cardinality(Listing(d)')
             + (IF deleter'.step \in {"mark", "count"} /\ deleter'.client = d THEN 1 ELSE 0)
    BY <1>4, <2>6
  <2>8. Balance(d)'
    BY <2>3, <2>5, <2>7 DEF Balance
  <2>9. mapping[d] = "inactive" => Listing(d)' = {}
    BY <2>2 DEF CountsOf
  <2> QED
    BY <2>1, <2>2, <2>8, <2>9 DEF CountsOf
<1> QED
  BY <1>3, <1>4

\* Who lists a client after one entry got other slots.
LEMMA ListingWith ==
  ASSUME CacheInv, NEW e \in DOMAIN entries, NEW t \in Seq(ClientSlot), entries' = With(e, t), NEW d
  PROVE  /\ d \in References(t) => Listing(d)' = Listing(d) \union {e}
         /\ d \notin References(t) => Listing(d)' = Listing(d) \ {e}
         /\ e \in Listing(d) <=> d \in References(entries[e].clients)
         /\ Len(entries') = Len(entries)
<1>1. /\ DOMAIN entries' = DOMAIN entries /\ Len(entries') = Len(entries)
      /\ \A f \in DOMAIN entries : entries'[f].clients = IF f = e THEN t ELSE entries[f].clients
  BY WithKeeps
<1>2. \A f \in DOMAIN entries :
        f \in Listing(d)' <=> IF f = e THEN d \in References(t) ELSE f \in Listing(d)
  BY <1>1 DEF Listing
<1>3. Listing(d) \subseteq DOMAIN entries /\ Listing(d)' \subseteq DOMAIN entries
  BY <1>1 DEF Listing
<1>4. e \in Listing(d) <=> d \in References(entries[e].clients)
  BY DEF Listing
<1> QED
  BY <1>1, <1>2, <1>3, <1>4

LEMMA AddCountsRight ==
  ASSUME CacheInv, CountInv, NEW h \in Handler, AddClientReference(h)
  PROVE  CountInv'
<1> DEFINE c == handler[h].client
           e == handler[h].entry
           s == entries[e].clients
<1>1. c \in Client /\ e \in DOMAIN entries /\ handler[h] \in Request
  BY HolderFacts DEF AddClientReference, Attaching, CacheInv, TypeOK
<1>2. /\ updateCount' = updateCount /\ mapping' = mapping /\ closing' = closing /\ deleter' = deleter
      /\ raced' = raced /\ torn' = torn /\ handler[h].step = "attach"
      /\ mishaps' = {} => mishaps = {} /\ StopSlots(s, c) # {}
  BY DEF AddClientReference
<1>3. PICK t \in Seq(ClientSlot), r \in Request :
        /\ entries' = With(e, t)
        /\ e \notin raced => t = AddReference(s, c)
        /\ handler' = [handler EXCEPT ![h] = r]
        /\ r = Idle \/ r = [handler[h] EXCEPT !.step = "count"] \/ r = [handler[h] EXCEPT !.step = "unmark"]
        /\ e \notin raced =>
             r = IF StopSlots(s, c) = {} THEN Idle
                 ELSE [handler[h] EXCEPT !.step = IF AddCounts(s, c) THEN "count" ELSE "unmark"]
  BY AddFacts
<1>4. r.client = c \/ r.client = 0
  BY <1>1, <1>3, IdleFacts DEF Request
<1>5. Len(entries') = Len(entries)
  BY <1>1, <1>3, ListingWith
<1>6. ASSUME mishaps' = {}, raced' = {}, NEW d \in Client \ torn
      PROVE  Alone(d)' /\ CountsOf(d)'
  <2>1. Alone(d) /\ CountsOf(d)
    BY <1>2, <1>6 DEF CountInv
  <2>2. s \in Array /\ StopSlots(s, c) # {} /\ e \notin raced
    BY <1>1, <1>2, <1>6, EntryFacts
  <2>3. References(t) = References(s) \union {c}
    BY <1>1, <1>3, <2>2, AddInPlace
  <2>4. AddCounts(s, c) <=> c \notin References(s)
    BY <1>1, <2>2, CountedIfNew
  <2>5. r.client = c /\ (r.step = "count" <=> c \notin References(s))
    <3>1. r = [handler[h] EXCEPT !.step = IF AddCounts(s, c) THEN "count" ELSE "unmark"]
      BY <1>3, <2>2
    <3> QED
      BY <1>1, <2>4, <3>1 DEF Request
  <2>6. d # c => Listing(d)' = Listing(d)
    <3>1. /\ d \in References(t) => Listing(d)' = Listing(d) \union {e}
          /\ d \notin References(t) => Listing(d)' = Listing(d) \ {e}
          /\ e \in Listing(d) <=> d \in References(s)
      BY <1>1, <1>3, ListingWith
    <3> HIDE DEF c, e, s
    <3> QED
      BY <2>3, <3>1
  <2>7. ASSUME d = c, updateCount[d] + 0 = Cardinality(Listing(d)) + 0
        PROVE  updateCount'[d] + (IF r.step = "count" /\ r.client = d THEN 1 ELSE 0)
                 = Cardinality(Listing(d)') + 0
    <3>0. entries \in Seq(Entry) /\ updateCount[d] \in Nat
      BY DEF CacheInv, TypeOK
    <3>1. IsFiniteSet(Listing(d)) /\ Cardinality(Listing(d)) \in Nat
      BY <3>0, ListingBound
    <3>2. Listing(d)' = Listing(d) \union {e} /\ (e \in Listing(d) <=> c \in References(s))
      BY <1>1, <1>3, <2>3, <2>7, ListingWith
    <3> HIDE DEF c, e, s
    <3>3. Cardinality(Listing(d)') = IF e \in Listing(d) THEN Cardinality(Listing(d))
                                     ELSE Cardinality(Listing(d)) + 1
      BY <3>1, <3>2, FS_AddElement
    <3> QED
      BY <1>2, <2>5, <2>7, <3>0, <3>1, <3>2, <3>3
  <2> HIDE DEF e, s
  <2>8. d = c /\ updateCount[d] + (IF handler[h].step = "count" THEN 1 ELSE 0) = Cardinality(Listing(d)) + 0 =>
           updateCount'[d] + (IF r.step = "count" /\ r.client = d THEN 1 ELSE 0) = Cardinality(Listing(d)') + 0
    BY <1>2, <2>7
  <2>9. d # c => Listing(d)' = Listing(d) /\ updateCount'[d] = updateCount[d]
    BY <1>2, <2>6
  <2> QED
    BY <1>2, <1>3, <1>4, <1>6, <2>1, <2>8, <2>9, HandlerCounts
<1> QED
  BY <1>2, <1>5, <1>6 DEF CountInv


LEMMA SmallRemainder ==
  ASSUME NEW n \in Nat, n < CountRange
  PROVE  n % CountRange = n
BY CacheAssumption

\* Steps of a handler that leave entries and counts alone.
LEMMA QuietCountsRight ==
  ASSUME CacheInv, CountInv, NEW h \in Handler, ResetGCFlag(h) \/ StoreUpdate(h) \/ Refuse(h)
  PROVE  CountInv'
<1>1. /\ entries' = entries /\ updateCount' = updateCount /\ mapping' = mapping /\ closing' = closing
      /\ deleter' = deleter /\ mishaps' = mishaps /\ raced' = raced /\ torn' = torn
      /\ handler[h].step # "count" /\ handler[h] \in Request
  BY DEF ResetGCFlag, StoreUpdate, Refuse, history, CacheInv, TypeOK
<1>2. PICK r \in {Idle, [handler[h] EXCEPT !.step = "insert"], [handler[h] EXCEPT !.step = "refused"]} :
        handler' = [handler EXCEPT ![h] = r]
  BY DEF ResetGCFlag, StoreUpdate, Refuse
<1>3. (r.client = handler[h].client \/ r.client = 0) /\ r.step # "count"
  BY <1>1, <1>2, IdleFacts DEF Request
<1>4. ASSUME mishaps' = {}, raced' = {}, NEW d \in Client \ torn
      PROVE  Alone(d)' /\ CountsOf(d)'
  <2>1. Alone(d) /\ CountsOf(d)
    BY <1>1, <1>4 DEF CountInv
  <2>2. Listing(d)' = Listing(d) /\ updateCount'[d] = updateCount[d]
    BY <1>1 DEF Listing
  <2>3. /\ (IF handler[h].step = "count" THEN 1 ELSE 0) = 0
        /\ (IF r.step = "count" /\ r.client = d THEN 1 ELSE 0) = 0
    BY <1>1, <1>3
  <2>4. d = handler[h].client /\ updateCount[d] + (IF handler[h].step = "count" THEN 1 ELSE 0) = Cardinality(Listing(d)) + 0 =>
           updateCount'[d] + (IF r.step = "count" /\ r.client = d THEN 1 ELSE 0) = Cardinality(Listing(d)') + 0
    BY <2>2, <2>3
  <2> QED
    BY <1>1, <1>2, <1>3, <2>1, <2>2, <2>4, HandlerCounts
<1> QED
  BY <1>1, <1>4 DEF CountInv

LEMMA CountReferenceRight ==
  ASSUME CacheInv, CountInv, MaxEntries < CountRange, NEW h \in Handler, CountReference(h)
  PROVE  CountInv'
<1> DEFINE c == handler[h].client
<1>1. /\ entries' = entries /\ mapping' = mapping /\ closing' = closing
      /\ deleter' = deleter /\ mishaps' = mishaps /\ raced' = raced /\ torn' = torn
      /\ handler[h].step = "count" /\ handler[h] \in Request
  BY DEF CountReference, history, CacheInv, TypeOK
<1>2. c \in Client
  BY <1>1, HolderFacts DEF Attaching
<1>3. updateCount \in [Client -> 0 .. (CountRange - 1)] /\ updateCount[c] \in Nat /\ entries \in Seq(Entry)
  BY <1>2 DEF CacheInv, TypeOK
<1>4. /\ \A d \in Client : d # c => updateCount'[d] = updateCount[d]
      /\ c \notin torn => updateCount'[c] = (updateCount[c] + 1) % CountRange
  <2>1. updateCount[c] + 1 \in Int
    BY <1>3
  <2>2. updateCount' \in CountsAfter(c, updateCount[c] + 1)
    BY DEF CountReference
  <2> HIDE DEF c
  <2> QED
    BY <1>2, <2>1, <2>2, CountsAfterFacts DEF CacheInv
<1>5. PICK r : r = [handler[h] EXCEPT !.step = "unmark"]
  OBVIOUS
<1>6. handler' = [handler EXCEPT ![h] = r]
  BY <1>5 DEF CountReference
<1>7. r.client = c /\ r.step = "unmark"
  BY <1>1, <1>5 DEF Request
<1>8. ASSUME mishaps' = {}, raced' = {}, NEW d \in Client \ torn
      PROVE  Alone(d)' /\ CountsOf(d)'
  <2>1. Alone(d) /\ CountsOf(d)
    BY <1>1, <1>8 DEF CountInv
  <2>2. Listing(d)' = Listing(d)
    BY <1>1 DEF Listing
  <2>3. ASSUME d = c, updateCount[d] + 1 = Cardinality(Listing(d)) + 0
        PROVE  updateCount'[d] + 0 = Cardinality(Listing(d)') + 0
    <3>1. Cardinality(Listing(d)) \in Nat /\ Cardinality(Listing(d)) <= Len(entries) /\ Len(entries) \in Nat
      BY <1>3, ListingBound
    <3>2. Len(entries) <= MaxEntries /\ MaxEntries \in Nat /\ CountRange \in Nat
      BY CacheAssumption DEF CountInv
    <3>3. Cardinality(Listing(d)) < CountRange
      BY <3>1, <3>2
    <3>4. updateCount'[d] = Cardinality(Listing(d)) % CountRange
      <4>1. updateCount[d] + 1 = Cardinality(Listing(d))
        BY <2>3, <3>1
      <4>2. updateCount'[d] = (updateCount[d] + 1) % CountRange
        BY <1>4, <1>8, <2>3
      <4> QED
        BY <4>1, <4>2
    <3>5. updateCount'[d] = Cardinality(Listing(d))
      BY <3>1, <3>3, <3>4, SmallRemainder
    <3> QED
      BY <2>2, <3>1, <3>5
  <2>4. d = c /\ updateCount[d] + (IF handler[h].step = "count" THEN 1 ELSE 0) = Cardinality(Listing(d)) + 0 =>
           updateCount'[d] + (IF r.step = "count" /\ r.client = d THEN 1 ELSE 0) = Cardinality(Listing(d)') + 0
    BY <1>1, <1>7, <2>3
  <2>5. d # c => Listing(d)' = Listing(d) /\ updateCount'[d] = updateCount[d]
    BY <1>4, <2>2
  <2> QED
    BY <1>1, <1>6, <1>7, <2>1, <2>4, <2>5, HandlerCounts
<1> QED
  BY <1>1, <1>8 DEF CountInv

LEMMA InsertCountsRight ==
  ASSUME CacheInv, CountInv, MaxEntries < CountRange, NEW h \in Handler, Insert(h)
  PROVE  CountInv'
<1> DEFINE c == handler[h].client
<1>1. /\ mapping' = mapping /\ closing' = closing
      /\ deleter' = deleter /\ mishaps' = mishaps /\ raced' = raced /\ torn' = torn
      /\ handler[h].step = "insert" /\ handler' = [handler EXCEPT ![h] = Idle]
      /\ Len(entries) < MaxEntries
  BY DEF Insert, history
<1>2. c \in ClientSlot
  BY DEF CacheInv, TypeOK, Request
<1>3. updateCount \in [Client -> 0 .. (CountRange - 1)] /\ entries \in Seq(Entry)
  BY DEF CacheInv, TypeOK
<1>4. /\ \A d \in Client : d # c => updateCount'[d] = updateCount[d]
      /\ c \in Client /\ c \notin torn => updateCount'[c] = (updateCount[c] + 1) % CountRange
  <2>1. CASE c = 0
    BY <2>1, CacheAssumption DEF Insert
  <2>2. CASE c \in Client
    <3>1. updateCount[c] + 1 \in Int
      BY <1>3, <2>2, CacheAssumption
    <3>2. updateCount' \in CountsAfter(c, updateCount[c] + 1)
      BY <2>2, CacheAssumption DEF Insert
    <3> HIDE DEF c
    <3> QED
      BY <2>2, <3>1, <3>2, CountsAfterFacts DEF CacheInv
  <2> QED
    BY <1>2, <2>1, <2>2 DEF ClientSlot
<1>5. PICK k : k = Len(entries) + 1
  OBVIOUS
<1>6. /\ DOMAIN entries' = DOMAIN entries \union {k} /\ k \notin DOMAIN entries
      /\ Len(entries') = k
      /\ \A e \in DOMAIN entries : entries'[e] = entries[e]
      /\ References(entries'[k].clients) = IF c = 0 THEN {} ELSE {c}
  BY <1>5, InsertFacts
<1>7. Len(entries') <= MaxEntries /\ Len(entries) \in Nat
  BY <1>1, <1>3, <1>5, <1>6, LenProperties, CacheAssumption
<1> HIDE DEF c
<1>8. ASSUME mishaps' = {}, raced' = {}, NEW d \in Client \ torn
      PROVE  Alone(d)' /\ CountsOf(d)'
  <2>1. Alone(d) /\ CountsOf(d)
    BY <1>1, <1>8 DEF CountInv
  <2>2. d # 0
    BY CacheAssumption
  <2>3. \A e \in DOMAIN entries' :
          e \in Listing(d)' <=> IF e = k THEN d = c ELSE e \in Listing(d)
    <3>1. \A e \in DOMAIN entries' : e \in Listing(d)' <=> d \in References(entries'[e].clients)
      BY DEF Listing
    <3>2. \A e \in DOMAIN entries : e \in Listing(d) <=> d \in References(entries[e].clients)
      BY DEF Listing
    <3>3. d \in References(entries'[k].clients) <=> d = c
      BY <1>6, <2>2
    <3> QED
      BY <1>6, <3>1, <3>2, <3>3
  <2>4. Listing(d) \subseteq DOMAIN entries /\ Listing(d)' \subseteq DOMAIN entries'
    BY DEF Listing
  <2>5. Listing(d)' = IF d = c THEN Listing(d) \union {k} ELSE Listing(d)
    BY <1>6, <2>3, <2>4
  <2>6. ASSUME d = c, updateCount[d] + 0 = Cardinality(Listing(d)) + 0
        PROVE  updateCount'[d] + 0 = Cardinality(Listing(d)') + 0
    <3>1. /\ IsFiniteSet(Listing(d))
          /\ Cardinality(Listing(d)) \in Nat /\ Cardinality(Listing(d)) <= Len(entries)
      BY <1>3, ListingBound
    <3>2. MaxEntries \in Nat /\ CountRange \in Nat
      BY CacheAssumption
    <3>3. Cardinality(Listing(d)) + 1 < CountRange
      BY <1>1, <1>7, <3>1, <3>2
    <3>4. Cardinality(Listing(d)') = Cardinality(Listing(d)) + 1
      <4>1. Listing(d)' = Listing(d) \union {k} /\ k \notin Listing(d)
        BY <1>6, <2>4, <2>5, <2>6
      <4> QED
        BY <3>1, <4>1, FS_AddElement
    <3>5. updateCount[d] = Cardinality(Listing(d))
      BY <1>3, <2>6, <3>1, CacheAssumption
    <3>6. updateCount'[d] = (Cardinality(Listing(d)) + 1) % CountRange
      BY <1>4, <2>6, <3>5
    <3>7. updateCount'[d] = Cardinality(Listing(d)) + 1
      BY <3>1, <3>3, <3>6, SmallRemainder
    <3> QED
      BY <3>1, <3>4, <3>7
  <2>7. d = c /\ updateCount[d] + (IF handler[h].step = "count" THEN 1 ELSE 0) = Cardinality(Listing(d)) + 0 =>
           updateCount'[d] + (IF Idle.step = "count" /\ Idle.client = d THEN 1 ELSE 0) = Cardinality(Listing(d)') + 0
    BY <1>1, <2>6, IdleFacts
  <2>8. d # c => Listing(d)' = Listing(d) /\ updateCount'[d] = updateCount[d]
    BY <1>4, <2>5
  <2>9. Idle.client = handler[h].client \/ Idle.client = 0
    BY IdleFacts
  <2> QED
    BY <1>1, <2>1, <2>7, <2>8, <2>9, HandlerCounts DEF c
<1> QED
  BY <1>1, <1>7, <1>8 DEF CountInv

\* A request begins: its client has no other operation, or is torn.
LEMMA LookupCountsRight ==
  ASSUME CacheInv, CountInv, NEW h \in Handler, NEW c \in ClientSlot, NEW u \in Update, Lookup(h, c, u)
  PROVE  CountInv'
<1>1. /\ entries' = entries /\ updateCount' = updateCount /\ mapping' = mapping /\ closing' = closing
      /\ deleter' = deleter /\ handler[h].step = "idle" /\ handler[h] \in Request
      /\ raced' = {} => raced = {}
  BY DEF Lookup, RacedBy, CacheInv, TypeOK
<1>2. PICK r : r = AfterLookup(c, u)
  OBVIOUS
<1>3. handler' = [handler EXCEPT ![h] = r] /\ r.step # "count" /\ (r.client = c \/ r.client = 0)
  BY <1>2, IdleFacts DEF Lookup, AfterLookup
<1>4. \A g \in Handler : handler'[g] = IF g = h THEN r ELSE handler[g]
  BY <1>3 DEF CacheInv, TypeOK
<1>5. c # 0 /\ mishaps' = {} => mapping[c] = "active"
  BY DEF Lookup
<1>6. mishaps' = {} => mishaps = {}
  BY DEF Lookup
<1>7. torn \subseteq torn' /\ (c # 0 /\ c \notin torn' => ~Open(c))
  BY DEF Lookup, TornBy
<1>8. ASSUME mishaps' = {}, raced' = {}, NEW d \in Client \ torn'
      PROVE  Alone(d)' /\ CountsOf(d)'
  <2>0. d # 0
    BY CacheAssumption
  <2>1. Alone(d) /\ CountsOf(d)
    BY <1>1, <1>6, <1>7, <1>8 DEF CountInv
  <2>2. Listing(d)' = Listing(d)
    BY <1>1 DEF Listing
  <2>3. Counting(d)' <=> Counting(d)
    BY <1>1, <1>3, <1>4 DEF Counting
  <2>4. Uncounted(d)' <=> Uncounted(d)
    BY <1>1 DEF Uncounted
  <2>5. CountsOf(d)'
    BY <1>1, <2>1, <2>2, <2>3, <2>4 DEF CountsOf, Balance
  <2>6. CASE d # c
    <3>1. Alone(d)'
      <4>1. \A g \in Handler : handler'[g].client = d => handler[g].client = d
        BY <1>3, <1>4, <2>0, <2>6
      <4> QED
        BY <1>1, <2>1, <4>1 DEF Alone
    <3> QED
      BY <2>5, <3>1
  <2>7. CASE d = c
    <3>1. /\ \A g \in Handler : handler[g].client # d
          /\ deleter.client # d /\ closing[d].step = "none" /\ mapping[d] = "active"
      BY <1>5, <1>7, <1>8, <2>0, <2>7 DEF Open
    <3>2. Alone(d)'
      BY <1>1, <1>4, <3>1 DEF Alone
    <3> QED
      BY <2>5, <3>2
  <2> QED
    BY <2>5, <2>6, <2>7
<1> QED
  BY <1>1, <1>8 DEF CountInv

\* A deletion begins, likewise.
LEMMA ProcessDeleteCountsRight ==
  ASSUME CacheInv, CountInv, NEW c \in Client, NEW u \in Update, ProcessDeleteUpdate(c, u)
  PROVE  CountInv'
<1>1. /\ entries' = entries /\ updateCount' = updateCount /\ mapping' = mapping /\ closing' = closing
      /\ handler' = handler /\ mishaps' = mishaps /\ deleter.step = "idle"
      /\ deleter'.step = "remove" /\ deleter'.client = c /\ raced \subseteq raced'
  BY DEF ProcessDeleteUpdate, RacedBy
<1>2. torn \subseteq torn' /\ (c \notin torn' => ~Open(c))
  BY DEF ProcessDeleteUpdate, TornBy
<1>3. ASSUME mishaps' = {}, raced' = {}, NEW d \in Client \ torn'
      PROVE  Alone(d)' /\ CountsOf(d)'
  <2>1. Alone(d) /\ CountsOf(d)
    BY <1>1, <1>2, <1>3 DEF CountInv
  <2>2. Listing(d)' = Listing(d)
    BY <1>1 DEF Listing
  <2>3. (Counting(d)' <=> Counting(d)) /\ ~Uncounted(d) /\ ~Uncounted(d)'
    BY <1>1 DEF Counting, Uncounted
  <2>4. CountsOf(d)'
    BY <1>1, <2>1, <2>2, <2>3 DEF CountsOf, Balance
  <2>5. d = c => (\A g \in Handler : handler[g].client # d) /\ closing[d].step = "none"
    BY <1>2, <1>3 DEF Open
  <2>6. Alone(d)'
    BY <1>1, <2>1, <2>5 DEF Alone
  <2> QED
    BY <2>4, <2>6
<1> QED
  BY <1>1, <1>3 DEF CountInv

LEMMA DeleteCountsRight ==
  ASSUME CacheInv, CountInv, DeleteClientMgmt
  PROVE  CountInv'
<1> DEFINE c == deleter.client
           e == deleter.entry
           s == entries[e].clients
<1>1. c \in Client /\ e \in DOMAIN entries /\ deleter \in Deletion
  BY HolderFacts DEF DeleteClientMgmt, CacheInv, TypeOK
<1>2. /\ updateCount' = updateCount /\ mapping' = mapping /\ closing' = closing /\ handler' = handler
      /\ raced' = raced /\ torn' = torn /\ mishaps' = mishaps /\ deleter.step = "remove"
  BY DEF DeleteClientMgmt, history
<1>3. PICK t \in Seq(ClientSlot), q \in {"mark", "count", "idle"} :
        /\ entries' = With(e, t)
        /\ deleter' = IF q = "idle" THEN NoDeletion ELSE [deleter EXCEPT !.step = q]
        /\ e \notin raced =>
             /\ t = RemoveReference(s, c)
             /\ q = IF c \notin References(s) THEN "idle" ELSE IF References(s) = {c} THEN "mark" ELSE "count"
  BY DeleteFacts
<1>4. /\ deleter'.step = q
      /\ IF q = "idle" THEN deleter'.client = 0 ELSE deleter'.client = c
  BY <1>1, <1>3, IdleFacts DEF Deletion
<1>5. Len(entries') = Len(entries)
  BY <1>1, <1>3, ListingWith
<1>6. ASSUME mishaps' = {}, raced' = {}, NEW d \in Client \ torn
      PROVE  Alone(d)' /\ CountsOf(d)'
  <2>1. Alone(d) /\ CountsOf(d)
    BY <1>2, <1>6 DEF CountInv
  <2>2. s \in Array /\ e \notin raced
    BY <1>1, <1>2, <1>6, EntryFacts
  <2>3. References(t) = References(s) \ {c} /\ (q = "idle" <=> c \notin References(s))
    BY <1>1, <1>3, <2>2, RemoveKeeps
  <2>4. /\ d \in References(t) => Listing(d)' = Listing(d) \union {e}
        /\ d \notin References(t) => Listing(d)' = Listing(d) \ {e}
        /\ e \in Listing(d) <=> d \in References(s)
    BY <1>1, <1>3, ListingWith
  <2>5. entries \in Seq(Entry) /\ updateCount[d] \in Nat
    BY DEF CacheInv, TypeOK
  <2> HIDE DEF c, e, s
  <2>6. Listing(d)' = IF d = c THEN Listing(d) \ {e} ELSE Listing(d)
    BY <2>3, <2>4
  <2>7. ASSUME d = c, updateCount[d] + 0 = Cardinality(Listing(d)) + 0
        PROVE  updateCount'[d] + 0 = Cardinality(Listing(d)')
                 + (IF deleter'.step \in {"mark", "count"} /\ deleter'.client = d THEN 1 ELSE 0)
    <3>1. IsFiniteSet(Listing(d)) /\ Cardinality(Listing(d)) \in Nat
      BY <2>5, ListingBound
    <3>2. Cardinality(Listing(d)') = IF e \in Listing(d) THEN Cardinality(Listing(d)) - 1
                                     ELSE Cardinality(Listing(d))
      BY <2>6, <2>7, <3>1, FS_RemoveElement
    <3>3. (deleter'.step \in {"mark", "count"} /\ deleter'.client = d) <=> e \in Listing(d)
      BY <1>4, <2>3, <2>4, <2>7
    <3> QED
      BY <1>2, <2>5, <2>7, <3>1, <3>2, <3>3
  <2>8. d = c /\ updateCount[d] + 0 = Cardinality(Listing(d)) + (IF deleter.step # "remove" THEN 1 ELSE 0) =>
           updateCount'[d] + 0 = Cardinality(Listing(d)')
             + (IF deleter'.step \in {"mark", "count"} /\ deleter'.client = d THEN 1 ELSE 0)
    BY <1>2, <2>7
  <2>9. /\ d # c => Listing(d)' = Listing(d) /\ updateCount'[d] = updateCount[d]
        /\ Listing(d)' \subseteq Listing(d)
    BY <1>2, <2>6
  <2>10. (deleter'.client = c \/ deleter'.client = 0) /\ deleter.step # "idle"
    BY <1>2, <1>4
  <2> QED
    BY <1>2, <2>1, <2>8, <2>9, <2>10, DeleterCounts DEF c
<1> QED
  BY <1>2, <1>5, <1>6 DEF CountInv

LEMMA DeletionEndCountsRight ==
  ASSUME CacheInv, CountInv, MaxEntries < CountRange, SetGCFlag \/ CountDeletion
  PROVE  CountInv'
<1> DEFINE c == deleter.client
<1>1. /\ entries' = entries /\ mapping' = mapping /\ closing' = closing /\ handler' = handler
      /\ raced' = raced /\ torn' = torn /\ mishaps' = mishaps
      /\ deleter.step \in {"mark", "count"} /\ deleter \in Deletion
  BY DEF SetGCFlag, CountDeletion, history, CacheInv, TypeOK
<1>2. c \in Client
  BY <1>1, HolderFacts
<1>3. /\ updateCount \in [Client -> 0 .. (CountRange - 1)] /\ updateCount[c] \in Nat
      /\ entries \in Seq(Entry)
  BY <1>2 DEF CacheInv, TypeOK
<1>4. \/ updateCount' = updateCount /\ deleter'.step = "count" /\ deleter'.client = c
      \/ /\ deleter'.step = "idle" /\ deleter'.client = 0
         /\ \A d \in Client : d # c => updateCount'[d] = updateCount[d]
         /\ c \notin torn => updateCount'[c] = (updateCount[c] - 1) % CountRange
  <2>1. CASE SetGCFlag
    BY <1>1, <2>1 DEF SetGCFlag, Deletion
  <2>2. CASE CountDeletion
    <3>1. updateCount[c] - 1 \in Int
      BY <1>3
    <3>2. updateCount' \in CountsAfter(c, updateCount[c] - 1) /\ deleter' = NoDeletion
      BY <2>2 DEF CountDeletion
    <3> HIDE DEF c
    <3> QED
      BY <1>2, <3>1, <3>2, CountsAfterFacts, IdleFacts DEF CacheInv
  <2> QED
    BY <2>1, <2>2
<1> HIDE DEF c
<1>5. ASSUME mishaps' = {}, raced' = {}, NEW d \in Client \ torn
      PROVE  Alone(d)' /\ CountsOf(d)'
  <2>1. Alone(d) /\ CountsOf(d)
    BY <1>1, <1>5 DEF CountInv
  <2>2. Listing(d)' = Listing(d)
    BY <1>1 DEF Listing
  <2>3. Cardinality(Listing(d)) \in Nat /\ Cardinality(Listing(d)) <= Len(entries) /\ Len(entries) \in Nat
    BY <1>3, ListingBound
  <2>4. ASSUME d = c, updateCount[d] + 0 = Cardinality(Listing(d)) + 1
        PROVE  updateCount'[d] + 0 = Cardinality(Listing(d)')
                 + (IF deleter'.step \in {"mark", "count"} /\ deleter'.client = d THEN 1 ELSE 0)
    <3>1. CASE updateCount' = updateCount /\ deleter'.step = "count" /\ deleter'.client = c
      BY <2>2, <2>4, <3>1
    <3>2. CASE /\ deleter'.step = "idle" /\ deleter'.client = 0
               /\ c \notin torn => updateCount'[c] = (updateCount[c] - 1) % CountRange
      <4>1. Cardinality(Listing(d)) < CountRange
        BY <2>3, CacheAssumption DEF CountInv
      <4>2. updateCount[d] - 1 = Cardinality(Listing(d))
        BY <1>3, <2>3, <2>4
      <4>3. updateCount'[d] = (updateCount[d] - 1) % CountRange
        BY <1>5, <2>4, <3>2
      <4>4. updateCount'[d] = Cardinality(Listing(d))
        BY <2>3, <4>1, <4>2, <4>3, SmallRemainder
      <4> QED
        BY <2>2, <2>3, <3>2, <4>4
    <3> QED
      BY <1>4, <3>1, <3>2
  <2>5. d = c /\ updateCount[d] + 0 = Cardinality(Listing(d)) + (IF deleter.step # "remove" THEN 1 ELSE 0) =>
           updateCount'[d] + 0 = Cardinality(Listing(d)')
             + (IF deleter'.step \in {"mark", "count"} /\ deleter'.client = d THEN 1 ELSE 0)
    BY <1>1, <2>4
  <2>6. /\ d # c => Listing(d)' = Listing(d) /\ updateCount'[d] = updateCount[d]
        /\ Listing(d)' \subseteq Listing(d)
        /\ deleter'.client = c \/ deleter'.client = 0
        /\ deleter.step # "idle"
    BY <1>1, <1>4, <2>2
  <2> QED
    BY <1>1, <2>1, <2>5, <2>6, DeleterCounts DEF c
<1> QED
  BY <1>1, <1>5 DEF CountInv

\* A step of the connection of c leaves the other clients alone.
LEMMA OtherClients ==
  ASSUME handler' = handler, deleter' = deleter, NEW d, Alone(d), CountsOf(d), Listing(d)' = Listing(d),
         updateCount'[d] = updateCount[d], mapping'[d] = mapping[d], closing'[d] = closing[d]
  PROVE  Alone(d)' /\ CountsOf(d)'
<1>1. (Counting(d)' <=> Counting(d)) /\ (Uncounted(d)' <=> Uncounted(d))
  BY DEF Counting, Uncounted
<1> QED
  BY <1>1, CountsKept

\* A client that is being deactivated has no other operation under way.
LEMMA NothingElse ==
  ASSUME NEW c \in Client, Alone(c), closing[c].step # "none", handler' = handler, deleter' = deleter
  PROVE  /\ \A h \in Handler : handler[h].client # c
         /\ deleter.client # c
         /\ ~Counting(c)' /\ ~Uncounted(c)'
         /\ Alone(c)'
<1>1. (\A h \in Handler : handler[h].client # c) /\ deleter.client # c
  BY DEF Alone
<1> QED
  BY <1>1 DEF Alone, Counting, Uncounted

LEMMA EmptyListing ==
  ASSUME entries \in Seq(Entry), NEW c, Cardinality(Listing(c)) = 0
  PROVE  Listing(c) = {}
<1>1. IsFiniteSet(Listing(c))
  BY ListingBound
<1> QED
  BY <1>1, FS_EmptySet

LEMMA ConnectCountsRight ==
  ASSUME CacheInv, CountInv, NEW c \in Client, Connect(c)
  PROVE  CountInv'
<1>1. /\ entries' = entries /\ updateCount' = updateCount /\ closing' = closing /\ handler' = handler
      /\ deleter' = deleter /\ raced' = raced /\ torn' = torn
      /\ mishaps' = {} => mishaps = {} /\ closing[c].step = "none"
  BY DEF Connect
<1>2. \A d \in Client : mapping'[d] = IF d = c THEN "active" ELSE mapping[d]
  BY DEF Connect, CacheInv, TypeOK
<1>3. ASSUME mishaps' = {}, raced' = {}, NEW d \in Client \ torn
      PROVE  Alone(d)' /\ CountsOf(d)'
  <2>1. Alone(d) /\ CountsOf(d)
    BY <1>1, <1>3 DEF CountInv
  <2>2. Listing(d)' = Listing(d)
    BY <1>1 DEF Listing
  <2>3. CASE d # c
    BY <1>1, <1>2, <2>1, <2>2, <2>3, OtherClients
  <2>4. CASE d = c
    <3>1. closing[d].step = "none" /\ mapping'[d] = "active"
      BY <1>1, <1>2, <1>3, <2>4
    <3>2. Alone(d)'
      BY <1>1, <2>1, <3>1 DEF Alone
    <3>3. Balance(d) /\ (Counting(d)' <=> Counting(d)) /\ (Uncounted(d)' <=> Uncounted(d))
      BY <1>1, <2>1, <3>1 DEF CountsOf, Counting, Uncounted
    <3>4. Balance(d)'
      BY <1>1, <2>2, <3>3 DEF Balance
    <3> QED
      BY <1>1, <3>1, <3>2, <3>4 DEF CountsOf
  <2> QED
    BY <2>3, <2>4
<1> QED
  BY <1>1, <1>3 DEF CountInv

LEMMA DeactivateCountsRight ==
  ASSUME CacheInv, CountInv, NEW c \in Client, Deactivate(c)
  PROVE  CountInv'
<1>1. /\ entries' = entries /\ updateCount' = updateCount /\ handler' = handler
      /\ deleter' = deleter /\ raced' = raced /\ mishaps' = mishaps /\ closing[c].step = "none"
  BY DEF Deactivate
<1>2. /\ \A d \in Client : mapping'[d] = IF d = c THEN "inactive" ELSE mapping[d]
      /\ \A d \in Client \ {c} : closing'[d] = closing[d]
      /\ closing'[c].step = "delMapping"
  BY DEF Deactivate, At, CacheInv, TypeOK
<1>3. torn \subseteq torn' /\ (c \notin torn' => ~Open(c))
  BY DEF Deactivate, TornBy
<1>4. ASSUME mishaps' = {}, raced' = {}, NEW d \in Client \ torn'
      PROVE  Alone(d)' /\ CountsOf(d)'
  <2>1. Alone(d) /\ CountsOf(d)
    BY <1>1, <1>3, <1>4 DEF CountInv
  <2>2. Listing(d)' = Listing(d)
    BY <1>1 DEF Listing
  <2>3. CASE d # c
    BY <1>1, <1>2, <2>1, <2>2, <2>3, OtherClients
  <2>4. CASE d = c
    <3>1. (\A h \in Handler : handler[h].client # d) /\ deleter.client # d
      BY <1>3, <1>4, <2>4 DEF Open
    <3>2. Alone(d)'
      BY <1>1, <3>1 DEF Alone
    <3>3. ~Counting(d) /\ ~Uncounted(d)
      BY <3>1 DEF Counting, Uncounted
    <3>4. updateCount[d] + 0 = Cardinality(Listing(d)) + 0
      BY <1>1, <2>1, <2>4, <3>3 DEF CountsOf, Balance
    <3>5. updateCount[d] \in Nat /\ entries \in Seq(Entry)
      BY DEF CacheInv, TypeOK
    <3>6. updateCount[d] = Cardinality(Listing(d))
      BY <3>4, <3>5, ListingBound
    <3> QED
      BY <1>1, <1>2, <2>2, <2>4, <3>2, <3>6 DEF CountsOf
  <2> QED
    BY <2>3, <2>4
<1> QED
  BY <1>1, <1>4 DEF CountInv

LEMMA SearchBeginsRight ==
  ASSUME CacheInv, CountInv, NEW c \in Client, DelMapping(c) \/ LockTable(c)
  PROVE  CountInv'
<1>1. /\ entries' = entries /\ updateCount' = updateCount /\ mapping' = mapping /\ handler' = handler
      /\ deleter' = deleter /\ raced' = raced /\ mishaps' = mishaps /\ torn' = torn
      /\ closing[c].step \in {"delMapping", "unregister"}
  BY DEF DelMapping, LockTable, history
<1>2. \A d \in Client \ {c} : closing'[d] = closing[d]
  BY DEF DelMapping, LockTable, CacheInv, TypeOK
<1>3. \/ closing'[c].step = "unregister"
      \/ closing'[c].step = "visit" /\ closing'[c].next = 1
      \/ /\ closing'[c].step = "reset"
         /\ entries = <<>> \/ mapping[c] = "active" \/ ~(updateCount[c] > 0)
  BY DEF DelMapping, LockTable, At, CacheInv, TypeOK
<1>4. ASSUME mishaps' = {}, raced' = {}, NEW d \in Client \ torn
      PROVE  Alone(d)' /\ CountsOf(d)'
  <2>1. Alone(d) /\ CountsOf(d)
    BY <1>1, <1>4 DEF CountInv
  <2>2. Listing(d)' = Listing(d)
    BY <1>1 DEF Listing
  <2>3. CASE d # c
    BY <1>1, <1>2, <2>1, <2>2, <2>3, OtherClients
  <2>4. CASE d = c
    <3>1. Alone(d)'
      BY <1>1, <2>1, <2>4, NothingElse
    <3>2. mapping[c] # "active" /\ updateCount[c] = Cardinality(Listing(c))
      BY <1>1, <2>1, <2>4 DEF CountsOf
    <3>3. entries \in Seq(Entry) /\ updateCount[c] \in Nat
      BY DEF CacheInv, TypeOK
    <3>4. \A e \in Listing(c) : 1 <= e
      BY <3>3, LenProperties DEF Listing
    <3>5. closing'[c].step = "reset" => Listing(c) = {}
      <4>1. ASSUME entries = <<>>
            PROVE  Listing(c) = {}
        BY <4>1 DEF Listing
      <4>2. ASSUME ~(updateCount[c] > 0)
            PROVE  Listing(c) = {}
        BY <3>2, <3>3, <4>2, EmptyListing
      <4> QED
        BY <1>3, <3>2, <4>1, <4>2
    <3> QED
      BY <1>1, <1>3, <2>2, <2>4, <3>1, <3>2, <3>4, <3>5 DEF CountsOf
  <2> QED
    BY <2>3, <2>4
<1> QED
  BY <1>1, <1>4 DEF CountInv

LEMMA ResetCountsRight ==
  ASSUME CacheInv, CountInv, NEW c \in Client, ResetCount(c)
  PROVE  CountInv'
<1>1. /\ entries' = entries /\ mapping' = mapping /\ handler' = handler
      /\ deleter' = deleter /\ raced' = raced /\ mishaps' = mishaps /\ torn' = torn
      /\ closing[c].step = "reset"
  BY DEF ResetCount, history
<1>2. closing'[c].step = "none" /\ \A d \in Client \ {c} : closing'[d] = closing[d]
  BY DEF ResetCount, At, CacheInv, TypeOK
<1>3. /\ \A d \in Client : d # c => updateCount'[d] = updateCount[d]
      /\ c \notin torn => updateCount'[c] = 0
  <2>1. updateCount' \in CountsAfter(c, 0) /\ 0 % CountRange = 0
    BY CacheAssumption, SmallRemainder DEF ResetCount
  <2> QED
    BY <2>1, CountsAfterFacts DEF CacheInv
<1>4. ASSUME mishaps' = {}, raced' = {}, NEW d \in Client \ torn
      PROVE  Alone(d)' /\ CountsOf(d)'
  <2>1. Alone(d) /\ CountsOf(d)
    BY <1>1, <1>4 DEF CountInv
  <2>2. Listing(d)' = Listing(d)
    BY <1>1 DEF Listing
  <2>3. CASE d # c
    BY <1>1, <1>2, <1>3, <2>1, <2>2, <2>3, OtherClients
  <2>4. CASE d = c
    <3>1. Alone(d)' /\ ~Counting(d)' /\ ~Uncounted(d)'
      BY <1>1, <2>1, <2>4, NothingElse
    <3>2. Listing(d)' = {} /\ updateCount'[d] = 0
      BY <1>1, <1>3, <1>4, <2>1, <2>2, <2>4 DEF CountsOf
    <3>3. Balance(d)'
      BY <3>1, <3>2, FS_EmptySet DEF Balance
    <3> QED
      BY <1>2, <2>4, <3>1, <3>2, <3>3 DEF CountsOf
  <2> QED
    BY <2>3, <2>4
<1> QED
  BY <1>1, <1>4 DEF CountInv

\* One turn of the search: the entry visited does not list the client any more,
\* and the search ends where no later one does.
LEMMA UnregisterCountsRight ==
  ASSUME CacheInv, CountInv, MaxEntries < CountRange, NEW c \in Client, UnregisterClientID(c)
  PROVE  CountInv'
<1> DEFINE e == closing[c].next
           s == entries[e].clients
<1>1. /\ mapping' = mapping /\ handler' = handler /\ deleter' = deleter /\ mishaps' = mishaps
      /\ torn' = torn /\ closing[c].step = "visit" /\ raced \subseteq raced'
      /\ closing' = [closing EXCEPT ![c] = IF VisitEnds(updateCount'[c], e) THEN At("reset")
                                           ELSE [step |-> "visit", next |-> e + 1]]
  BY DEF UnregisterClientID, RacedBy
<1>2. /\ \A d \in Client \ {c} : closing'[d] = closing[d]
      /\ closing'[c] = IF VisitEnds(updateCount'[c], e) THEN At("reset")
                       ELSE [step |-> "visit", next |-> e + 1]
  BY <1>1 DEF CacheInv, TypeOK
<1>3. /\ entries \in Seq(Entry) /\ e \in DOMAIN entries
      /\ updateCount \in [Client -> 0 .. (CountRange - 1)] /\ updateCount[c] \in Nat
  BY <1>1 DEF CacheInv, TypeOK
<1>4. PICK t \in Seq(ClientSlot), q \in {"mark", "count", "idle"} :
        /\ entries' = With(e, t)
        /\ updateCount' \in IF q = "idle" THEN {updateCount} ELSE CountsAfter(c, updateCount[c] - 1)
        /\ e \notin raced' =>
             /\ t = RemoveReference(s, c)
             /\ q = IF c \notin References(s) THEN "idle" ELSE IF References(s) = {c} THEN "mark" ELSE "count"
  BY UnregisterFacts
<1>5. Len(entries') = Len(entries)
  BY <1>3, <1>4, ListingWith
<1>6. /\ \A d \in Client : d # c => updateCount'[d] = updateCount[d]
      /\ c \notin torn => updateCount'[c] = IF q = "idle" THEN updateCount[c] ELSE (updateCount[c] - 1) % CountRange
  <2>1. CASE q = "idle"
    BY <1>4, <2>1
  <2>2. CASE q # "idle"
    <3>1. updateCount[c] - 1 \in Int
      BY <1>3
    <3>2. updateCount' \in CountsAfter(c, updateCount[c] - 1)
      BY <1>4, <2>2
    <3> QED
      BY <2>2, <3>1, <3>2, CountsAfterFacts DEF CacheInv
  <2> QED
    BY <2>1, <2>2
<1>7. ASSUME mishaps' = {}, raced' = {}, NEW d \in Client \ torn
      PROVE  Alone(d)' /\ CountsOf(d)'
  <2>1. Alone(d) /\ CountsOf(d)
    BY <1>1, <1>7 DEF CountInv
  <2>2. s \in Array /\ e \notin raced'
    BY <1>1, <1>3, <1>7, EntryFacts
  <2>3. References(t) = References(s) \ {c} /\ (q = "idle" <=> c \notin References(s))
    BY <1>4, <2>2, RemoveKeeps
  <2>4. /\ d \in References(t) => Listing(d)' = Listing(d) \union {e}
        /\ d \notin References(t) => Listing(d)' = Listing(d) \ {e}
        /\ e \in Listing(d) <=> d \in References(s)
    BY <1>3, <1>4, ListingWith
  <2>5. e \in Nat /\ DOMAIN entries = 1 .. Len(entries) /\ Len(entries) \in Nat
    BY <1>3, LenProperties
  <2>6. /\ IsFiniteSet(Listing(d)) /\ Cardinality(Listing(d)) \in Nat
        /\ Cardinality(Listing(d)) <= Len(entries)
    BY <1>3, ListingBound
  <2>7. (VisitEnds(updateCount'[c], e) <=> updateCount'[c] = 0 \/ e = Len(entries))
    BY DEF VisitEnds
  <2> HIDE DEF e, s
  <2>8. Listing(d)' = IF d = c THEN Listing(d) \ {e} ELSE Listing(d)
    BY <2>3, <2>4
  <2>9. CASE d # c
    BY <1>1, <1>2, <1>6, <2>1, <2>8, <2>9, OtherClients
  <2>10. CASE d = c
    <3>1. Alone(d)'
      BY <1>1, <2>1, <2>10, NothingElse
    <3>2. /\ mapping[d] # "active" /\ updateCount[d] = Cardinality(Listing(d))
          /\ \A f \in Listing(d) : e <= f
      BY <1>1, <2>1, <2>10 DEF CountsOf, e
    <3>3. Listing(d) \subseteq 1 .. Len(entries)
      BY <2>5 DEF Listing
    <3>4. Cardinality(Listing(d)') = IF e \in Listing(d) THEN Cardinality(Listing(d)) - 1
                                     ELSE Cardinality(Listing(d))
      BY <2>6, <2>8, <2>10, FS_RemoveElement
    <3>5. updateCount'[d] = Cardinality(Listing(d)')
      <4>1. CASE e \notin Listing(d)
        BY <1>6, <1>7, <2>3, <2>4, <2>10, <3>2, <3>4, <4>1
      <4>2. CASE e \in Listing(d)
        <5>1. Cardinality(Listing(d)) # 0
          BY <2>6, <4>2, FS_EmptySet
        <5>2. Cardinality(Listing(d)) < CountRange
          BY <2>5, <2>6, CacheAssumption DEF CountInv
        <5>3. Cardinality(Listing(d)) - 1 \in Nat /\ Cardinality(Listing(d)) - 1 < CountRange
          BY <2>6, <5>1, <5>2, CacheAssumption
        <5>4. updateCount'[d] = (Cardinality(Listing(d)) - 1) % CountRange
          BY <1>6, <1>7, <2>3, <2>4, <2>10, <3>2, <4>2
        <5> QED
          BY <3>4, <4>2, <5>3, <5>4, SmallRemainder
      <4> QED
        BY <4>1, <4>2
    <3>6. \A f \in Listing(d)' : e < f /\ f <= Len(entries)
      BY <2>5, <2>8, <2>10, <3>2, <3>3
    <3>7. CASE VisitEnds(updateCount'[c], e)
      <4>1. closing'[d].step = "reset"
        BY <1>2, <2>10, <3>7 DEF At
      <4>2. Listing(d)' = {}
        <5>1. CASE updateCount'[d] = 0
          <6>1. IsFiniteSet(Listing(d)')
            BY <2>6, <2>8, <2>10, FS_Subset
          <6> QED
            BY <3>5, <5>1, <6>1, FS_EmptySet
        <5>2. CASE e = Len(entries)
          BY <2>5, <3>3, <3>6, <5>2, <2>8
        <5> QED
          BY <2>7, <2>10, <3>7, <5>1, <5>2
      <4> QED
        BY <1>1, <3>1, <3>2, <4>1, <4>2 DEF CountsOf
    <3>8. CASE ~VisitEnds(updateCount'[c], e)
      <4>1. closing'[d].step = "visit" /\ closing'[d].next = e + 1
        BY <1>2, <2>10, <3>8
      <4>2. \A f \in Listing(d)' : e + 1 <= f
        BY <2>5, <2>8, <3>3, <3>6, <2>10
      <4> QED
        BY <1>1, <3>1, <3>2, <3>5, <4>1, <4>2 DEF CountsOf
    <3> QED
      BY <3>7, <3>8
  <2> QED
    BY <2>9, <2>10
<1> QED
  BY <1>1, <1>5, <1>7 DEF CountInv

LEMMA CountStep ==
  ASSUME CacheInv, CountInv, MaxEntries < CountRange, [Next]_vars
  PROVE  CountInv'
<1>1. CASE UNCHANGED vars
  <2>1. /\ entries' = entries /\ updateCount' = updateCount /\ mapping' = mapping /\ closing' = closing
        /\ handler' = handler /\ deleter' = deleter /\ mishaps' = mishaps /\ raced' = raced /\ torn' = torn
    BY <1>1 DEF vars, history
  <2>2. ASSUME mishaps' = {}, raced' = {}, NEW d \in Client \ torn
        PROVE  Alone(d)' /\ CountsOf(d)'
    <3>1. Listing(d)' = Listing(d)
      BY <2>1 DEF Listing
    <3>2. Alone(d) /\ CountsOf(d)
      BY <2>1, <2>2 DEF CountInv
    <3> QED
      BY <2>1, <3>1, <3>2, OtherClients
  <2> QED
    BY <2>1, <2>2 DEF CountInv
<1>2. ASSUME NEW h \in Handler, HandlerAction(h)
      PROVE  CountInv'
  BY <1>2, LookupCountsRight, AddCountsRight, CountReferenceRight, QuietCountsRight, InsertCountsRight
     DEF HandlerAction
<1>3. CASE DeleterAction
  BY <1>3, ProcessDeleteCountsRight, DeleteCountsRight, DeletionEndCountsRight DEF DeleterAction
<1>4. ASSUME NEW c \in Client, ConnectionAction(c)
      PROVE  CountInv'
  BY <1>4, ConnectCountsRight, DeactivateCountsRight, SearchBeginsRight, UnregisterCountsRight,
     ResetCountsRight DEF ConnectionAction
<1> QED
  BY <1>1, <1>2, <1>3, <1>4 DEF Next

LEMMA CountInit == Init => CountInv
<1> SUFFICES ASSUME Init
             PROVE  CountInv
  OBVIOUS
<1>1. /\ entries = <<>> /\ torn = {} /\ updateCount = [c \in Client |-> 0]
      /\ mapping = [c \in Client |-> "new"] /\ deleter.step = "idle" /\ deleter.client = 0
      /\ \A c \in Client : closing[c].step = "none"
      /\ \A h \in Handler : handler[h].client = 0 /\ handler[h].step = "idle"
  BY IdleFacts DEF Init, At
<1>2. \A c \in Client : c # 0 /\ Listing(c) = {} /\ ~Counting(c) /\ ~Uncounted(c)
  BY <1>1, CacheAssumption DEF Listing, Counting, Uncounted
<1>3. \A c \in Client : Alone(c)
  BY <1>1, <1>2 DEF Alone
<1>4. \A c \in Client : CountsOf(c)
  <2>1. \A c \in Client : updateCount[c] = 0 /\ Cardinality(Listing(c)) = 0
    BY <1>1, <1>2, FS_EmptySet
  <2>2. \A c \in Client : Balance(c)
    BY <1>2, <2>1 DEF Balance
  <2> QED
    BY <1>1, <2>2 DEF CountsOf
<1>5. Len(entries) <= MaxEntries
  BY <1>1, CacheAssumption
<1> QED
  BY <1>3, <1>4, <1>5 DEF CountInv

\* Between two operations of a client its updateCount is the number of updates
\* that list it (CountsWithoutMishap), for a counter wide enough for the
\* entries: the slots and the count change in separate steps of several
\* threads, and the two meet again unless one of the mishaps named happened.
THEOREM CountsStayExact ==
  ASSUME MaxEntries < CountRange
  PROVE  Spec => []CountsWithoutMishap
<1>1. Init => CacheInv /\ CountInv
  BY CacheInit, CountInit
<1>2. CacheInv /\ CountInv /\ [Next]_vars => CacheInv' /\ CountInv'
  BY CacheStep, CountStep
<1>3. CacheInv /\ CountInv => CountsWithoutMishap
  <2> SUFFICES ASSUME CacheInv, CountInv, mishaps = {}, raced = {}, NEW c \in Client \ torn, ~Open(c)
               PROVE  CountIsExact(c)
    BY DEF CountsWithoutMishap
  <2>1. closing[c].step = "none" /\ CountsOf(c)
    BY DEF CountInv, Open
  <2>2. ~Counting(c) /\ ~Uncounted(c)
    BY DEF Open, Counting, Uncounted
  <2>3. updateCount[c] + 0 = Cardinality(Listing(c)) + 0
    BY <2>1, <2>2 DEF CountsOf, Balance
  <2>4. updateCount[c] \in Nat /\ updateCount[c] < CountRange /\ entries \in Seq(Entry)
    BY CacheAssumption DEF CacheInv, TypeOK
  <2>5. Cardinality(Listing(c)) = updateCount[c]
    BY <2>3, <2>4, ListingBound
  <2>6. updateCount[c] % CountRange = updateCount[c]
    BY <2>4, SmallRemainder
  <2> QED
    BY <2>5, <2>6 DEF CountIsExact
<1> QED
  BY <1>1, <1>2, <1>3, PTL DEF Spec

\* Once its deactivation is over, a client is listed by no update
\* (GoneIsUnlisted): the search of unregisterClientID stops when the count is
\* used up, and an exact count is used up at the last update that lists it.
THEOREM GoneStaysUnlisted ==
  ASSUME MaxEntries < CountRange
  PROVE  Spec => []GoneIsUnlisted
<1>1. Init => CacheInv /\ CountInv
  BY CacheInit, CountInit
<1>2. CacheInv /\ CountInv /\ [Next]_vars => CacheInv' /\ CountInv'
  BY CacheStep, CountStep
<1>3. CountInv => GoneIsUnlisted
  BY DEF CountInv, CountsOf, GoneIsUnlisted
<1> QED
  BY <1>1, <1>2, <1>3, PTL DEF Spec

-----------------------------------------------------------------------------
(***************************************************************************)
(* The locks of the update cache.  While nobody runs unregisterClientID,   *)
(* its operations take itemMutex before tableLock and never block each     *)
(* other, for any number of threads.                                       *)
(***************************************************************************)
Ordered == Operation \ {"unregisterClientID"}

\* The next lock call of the thread is the given one.
NextCallIs(t, call) ==
  /\ job[t] # "none"
  /\ pos[t] <= Len(Calls(job[t]))
  /\ Calls(job[t])[pos[t]] = call

\* A thread that holds tableLock releases it next; a thread that holds the
\* mutex is past its only lockMutex and not yet past its last call.
LocksInv ==
  /\ job \in [Thread -> Ordered \union {"none"}]
  /\ pos \in [Thread -> Nat \ {0}]
  /\ readers \subseteq Thread /\ writers \subseteq Thread /\ mutex \subseteq Thread
  /\ \A t \in readers : NextCallIs(t, "unlockRead")
  /\ \A t \in writers : NextCallIs(t, "unlockWrite")
  /\ \A t \in mutex : job[t] # "none" /\ pos[t] > 3 /\ pos[t] <= Len(Calls(job[t]))

-----------------------------------------------------------------------------
\* The shape of the call sequences: locks of the table are released by the next
\* call, lockMutex is the third call and unlockMutex the last one.
LEMMA CallShape ==
  ASSUME NEW op \in Ordered, NEW p \in Nat \ {0}, p <= Len(Calls(op))
  PROVE  /\ Calls(op)[p] = "readLock"  => p + 1 <= Len(Calls(op)) /\ Calls(op)[p + 1] = "unlockRead"
         /\ Calls(op)[p] = "writeLock" => p + 1 <= Len(Calls(op)) /\ Calls(op)[p + 1] = "unlockWrite"
         /\ Calls(op)[p] = "lockMutex" => p = 3 /\ p + 1 <= Len(Calls(op))
         /\ p > 3 /\ Calls(op)[p] # "unlockMutex" => p + 1 <= Len(Calls(op))
<1>1. CASE op = "find"
  <2>1. Calls(op) = <<"readLock", "unlockRead">>
    BY <1>1 DEF Calls, FindCalls
  <2>2. Len(Calls(op)) = 2
    BY <2>1
  <2>3. p = 1 \/ p = 2
    BY <2>2
  <2> QED
    BY <2>1, <2>2, <2>3
<1>2. CASE op = "storeUpdate"
  <2>1. Calls(op) = <<"readLock", "unlockRead", "lockMutex", "writeLock", "unlockWrite", "unlockMutex">>
    BY <1>2 DEF Calls, StoreUpdateCalls
  <2>2. Len(Calls(op)) = 6
    BY <2>1
  <2>3. p = 1 \/ p = 2 \/ p = 3 \/ p = 4 \/ p = 5 \/ p = 6
    BY <2>2
  <2> QED
    BY <2>1, <2>2, <2>3
<1>3. CASE op = "modifyUpdateResult"
  <2>1. Calls(op) = <<"readLock", "unlockRead", "lockMutex", "readLock", "unlockRead", "unlockMutex">>
    BY <1>3 DEF Calls, ModifyUpdateResultCalls
  <2>2. Len(Calls(op)) = 6
    BY <2>1
  <2>3. p = 1 \/ p = 2 \/ p = 3 \/ p = 4 \/ p = 5 \/ p = 6
    BY <2>2
  <2> QED
    BY <2>1, <2>2, <2>3
<1>4. CASE op = "modifyAspa"
  <2>1. Calls(op) = <<"readLock", "unlockRead", "lockMutex", "unlockMutex">>
    BY <1>4 DEF Calls, ModifyAspaCalls
  <2>2. Len(Calls(op)) = 4
    BY <2>1
  <2>3. p = 1 \/ p = 2 \/ p = 3 \/ p = 4
    BY <2>2
  <2> QED
    BY <2>1, <2>2, <2>3
<1> QED
  BY <1>1, <1>2, <1>3, <1>4 DEF Ordered, Operation

\* Lengths are natural numbers.
LEMMA CallCount ==
  ASSUME NEW op \in Ordered
  PROVE  Len(Calls(op)) \in Nat
<1>1. \/ op = "find" \/ op = "storeUpdate" \/ op = "modifyUpdateResult" \/ op = "modifyAspa"
  BY DEF Ordered, Operation
<1> QED
  BY <1>1 DEF Calls, FindCalls, StoreUpdateCalls, ModifyUpdateResultCalls, ModifyAspaCalls

\* Initially nobody holds a lock.
LEMMA LocksInvInit == LocksInit => LocksInv
BY DEF LocksInit, LocksInv, Ordered

\* The invariant is kept by every step, if no thread runs unregisterClientID.
LEMMA LocksInvNext ==
  ASSUME \A t \in Thread : Jobs[t] \subseteq Ordered, LocksInv, [LocksNext]_lockVars
  PROVE  LocksInv'
<1> USE DEF LocksInv, NextCallIs
<1>1. CASE UNCHANGED lockVars
  BY <1>1 DEF lockVars
<1>2. ASSUME NEW t \in Thread, Begin(t)
      PROVE  LocksInv'
  <2>1. t \notin readers /\ t \notin writers /\ t \notin mutex
    BY <1>2 DEF Begin
  <2>2. PICK op \in Jobs[t] : job' = [job EXCEPT ![t] = op]
    BY <1>2 DEF Begin
  <2>3. op \in Ordered
    BY <2>2
  <2> QED
    BY <1>2, <2>1, <2>2, <2>3 DEF Begin
<1>3. ASSUME NEW t \in Thread, LockMutex(t)
      PROVE  LocksInv'
  <2>1. job[t] \in Ordered
    BY <1>3 DEF LockMutex, NextCall
  <2>2. pos[t] = 3 /\ pos[t] + 1 <= Len(Calls(job[t]))
    BY <1>3, <2>1, CallShape DEF LockMutex, NextCall
  <2>3. t \notin readers /\ t \notin writers
    BY <1>3 DEF LockMutex, NextCall
  <2> QED
    BY <1>3, <2>1, <2>2, <2>3 DEF LockMutex, NextCall
<1>4. ASSUME NEW t \in Thread, UnlockMutex(t)
      PROVE  LocksInv'
  <2>1. t \notin readers /\ t \notin writers
    BY <1>4 DEF UnlockMutex, NextCall
  <2> QED
    BY <1>4, <2>1 DEF UnlockMutex, NextCall
<1>5. ASSUME NEW t \in Thread, AcquireReadLock(t)
      PROVE  LocksInv'
  <2>1. job[t] \in Ordered
    BY <1>5 DEF AcquireReadLock, NextCall
  <2>2. /\ pos[t] + 1 <= Len(Calls(job[t]))
        /\ Calls(job[t])[pos[t] + 1] = "unlockRead"
    BY <1>5, <2>1, CallShape DEF AcquireReadLock, NextCall
  <2>3. t \notin writers
    BY <1>5 DEF AcquireReadLock, NextCall
  <2> QED
    BY <1>5, <2>1, <2>2, <2>3 DEF AcquireReadLock, NextCall
<1>6. ASSUME NEW t \in Thread, UnlockReadLock(t)
      PROVE  LocksInv'
  <2>1. job[t] \in Ordered
    BY <1>6 DEF UnlockReadLock, NextCall
  <2>2. t \notin writers
    BY <1>6 DEF UnlockReadLock, NextCall
  <2>3. t \in mutex => pos[t] + 1 <= Len(Calls(job[t]))
    BY <1>6, <2>1, CallShape DEF UnlockReadLock, NextCall
  <2> QED
    BY <1>6, <2>1, <2>2, <2>3 DEF UnlockReadLock, NextCall
<1>7. ASSUME NEW t \in Thread, AcquireWriteLock(t)
      PROVE  LocksInv'
  <2>1. job[t] \in Ordered
    BY <1>7 DEF AcquireWriteLock, NextCall
  <2>2. /\ pos[t] + 1 <= Len(Calls(job[t]))
        /\ Calls(job[t])[pos[t] + 1] = "unlockWrite"
    BY <1>7, <2>1, CallShape DEF AcquireWriteLock, NextCall
  <2> QED
    BY <1>7, <2>1, <2>2 DEF AcquireWriteLock, NextCall
<1>8. ASSUME NEW t \in Thread, UnlockWriteLock(t)
      PROVE  LocksInv'
  <2>1. job[t] \in Ordered
    BY <1>8 DEF UnlockWriteLock, NextCall
  <2>2. t \notin readers
    BY <1>8 DEF UnlockWriteLock, NextCall
  <2>3. t \in mutex => pos[t] + 1 <= Len(Calls(job[t]))
    BY <1>8, <2>1, CallShape DEF UnlockWriteLock, NextCall
  <2> QED
    BY <1>8, <2>1, <2>2, <2>3 DEF UnlockWriteLock, NextCall
<1>9. ASSUME NEW t \in Thread, Return(t)
      PROVE  LocksInv'
  <2>1. job[t] \in Ordered /\ Len(Calls(job[t])) \in Nat
    BY <1>9, CallCount DEF Return
  <2>2. t \notin readers /\ t \notin writers /\ t \notin mutex
    BY <1>9, <2>1 DEF Return
  <2> QED
    BY <1>9, <2>2 DEF Return
<1> QED
  BY <1>1, <1>2, <1>3, <1>4, <1>5, <1>6, <1>7, <1>8, <1>9 DEF LocksNext, Step

\* Who holds tableLock, or else who holds the mutex, can go on; if nobody holds
\* a lock, everybody can.
LEMMA LocksInvProceeds == LocksInv => SomebodyProceeds
<1> SUFFICES ASSUME LocksInv, NEW t \in Thread, job[t] # "none"
             PROVE  \E u \in Thread : CanProceed(u)
  BY DEF SomebodyProceeds
<1>1. CASE \E r \in readers : TRUE
  <2>1. PICK r \in readers : TRUE
    BY <1>1
  <2>2. CanProceed(r) /\ r \in Thread
    BY <2>1 DEF LocksInv, NextCallIs, CanProceed
  <2> QED
    BY <2>2
<1>2. CASE \E w \in writers : TRUE
  <2>1. PICK w \in writers : TRUE
    BY <1>2
  <2>2. CanProceed(w) /\ w \in Thread
    BY <2>1 DEF LocksInv, NextCallIs, CanProceed
  <2> QED
    BY <2>2
<1>3. CASE readers = {} /\ writers = {} /\ \E m \in mutex : TRUE
  <2>1. PICK m \in mutex : TRUE
    BY <1>3
  <2>2. m \in Thread /\ job[m] \in Ordered /\ pos[m] \in Nat \ {0}
    BY <2>1 DEF LocksInv
  <2>3. Calls(job[m])[pos[m]] # "lockMutex"
    BY <2>1, <2>2, CallShape DEF LocksInv
  <2>4. CanProceed(m)
    BY <1>3, <2>1, <2>2, <2>3 DEF LocksInv, CanProceed
  <2> QED
    BY <2>2, <2>4
<1>4. CASE readers = {} /\ writers = {} /\ mutex = {}
  BY <1>4 DEF CanProceed
<1> QED
  BY <1>1, <1>2, <1>3, <1>4

\* Without disconnects the lock order of the update cache is safe: storeUpdate,
\* modifyUpdateResult with its broadcast, modifyUpdateCacheResultWithAspaVal and
\* the look-ups never block each other, for any number of threads.
THEOREM LockOrderIsSafe ==
  ASSUME \A t \in Thread : Jobs[t] \subseteq Ordered
  PROVE  LocksSpec => []SomebodyProceeds
<1>1. LocksInit => LocksInv
  BY LocksInvInit
<1>2. LocksInv /\ [LocksNext]_lockVars => LocksInv'
  BY LocksInvNext
<1>3. LocksInv => SomebodyProceeds
  BY LocksInvProceeds
<1> QED
  BY <1>1, <1>2, <1>3, PTL DEF LocksSpec
=============================================================================
