-------------------------- MODULE RtrSessionProofs --------------------------
(***************************************************************************)
(* A synchronized router client misses no ROA of the cache, and has        *)
(* exactly the cache's ROAs if it needed one Reset Query: for any finite   *)
(* set of ROAs, any number of commands, faults and session ids.            *)
(*                                                                         *)
(* The last entry may have its serial number before the cache has: Newest  *)
(* is the one the cache is about to have.  Once new entries were counted   *)
(* wrong, nothing is shown.                                                *)
(*                                                                         *)
(* TypeInv, OrderInv, KnowInv and ExactInv each contain the one before.    *)
(* For the last two an action is first reduced to what it does to the      *)
(* three queues on the way (an Effect), and then shown to keep them.       *)
(***************************************************************************)
EXTENDS RtrSession, SequenceTheorems, FiniteSetTheorems, WellFoundedInduction, TLAPS

\* Every non-empty set of natural numbers has a least element.
LEMMA LeastElement ==
  ASSUME NEW S \in SUBSET Nat, S # {}
  PROVE  \E x \in S : \A y \in S : x <= y
<1>. DEFINE R == {ss \in Nat \X Nat : ss[1] < ss[2]}
<1>1. IsWellFoundedOn(R, Nat)
  <2>1. IsWellFoundedOn(OpToRel(<, Nat), Nat)
    BY NatLessThanWellFounded
  <2>2. R \cap (Nat \X Nat) \subseteq OpToRel(<, Nat)
    BY DEF OpToRel
  <2>. QED  BY <2>1, <2>2, IsWellFoundedOnSubrelation
<1>2. \E x \in S : \A y \in S : ~ (<<y, x>> \in R)
  <2>. HIDE DEF R
  <2>. QED  BY <1>1, WFMin
<1>3. PICK x \in S : \A y \in S : ~ (<<y, x>> \in R)
  BY <1>2
<1>4. ASSUME NEW y \in S
      PROVE  x <= y
  <2>1. x \in Nat /\ y \in Nat /\ ~ (<<y, x>> \in R)
    BY <1>3
  <2>2. <<y, x>> \in R <=> y < x
    BY <2>1
  <2>. QED  BY <2>1, <2>2
<1>. QED  BY <1>4

-----------------------------------------------------------------------------
(***************************************************************************)
(* Selections of a sequence.                                               *)
(***************************************************************************)
Enumerates(f, K) ==
  /\ f \in [1 .. Cardinality(K) -> K]
  /\ Range(f) = K
  /\ \A i, j \in DOMAIN f : i < j => f[i] < f[j]

LEMMA PositionsAreFinite ==
  ASSUME NEW n \in Nat, NEW K \in SUBSET (1 .. n)
  PROVE  IsFiniteSet(K) /\ Cardinality(K) \in Nat
<1>1. IsFiniteSet(1 .. n)
  BY FS_Interval
<1>2. IsFiniteSet(K)
  BY <1>1, FS_Subset
<1> QED BY <1>2, FS_CardinalityType

\* A finite set of positions can be put in order.
LEMMA EnumerationExists ==
  ASSUME NEW n \in Nat
  PROVE  \A K \in SUBSET (1 .. n) : \E f : Enumerates(f, K)
<1> DEFINE P(m) == \A K \in SUBSET (1 .. m) : \E f : Enumerates(f, K)
           Bad == {m \in Nat : ~P(m)}
<1>1. SUFFICES ASSUME Bad # {} PROVE FALSE
  OBVIOUS
<1>2. PICK m \in Bad : \A k \in Bad : m <= k
  <2> HIDE DEF P
  <2> QED BY <1>1, LeastElement
<1>3. PICK K \in SUBSET (1 .. m) : \A f : ~Enumerates(f, K)
  BY <1>2
<1>4. m # 0
  <2> SUFFICES ASSUME m = 0 PROVE FALSE
    OBVIOUS
  <2>1. K = {}
    OBVIOUS
  <2>3. Cardinality(K) = 0
    BY <2>1, FS_EmptySet
  <2>2. Enumerates([i \in 1 .. 0 |-> 0], K)
    BY <2>1, <2>3 DEF Enumerates, Range
  <2> QED BY <2>2, <1>3
<1>5. m \in Nat /\ m - 1 \in Nat /\ m - 1 \notin Bad
  BY <1>2, <1>4
<1>6. P(m - 1)
  <2> HIDE DEF P
  <2> QED BY <1>5
<1>7. m \in K
  <2> SUFFICES ASSUME m \notin K PROVE FALSE
    OBVIOUS
  <2>1. K \in SUBSET (1 .. m - 1)
    BY <1>5
  <2> QED BY <2>1, <1>6, <1>3
<1> DEFINE J == K \ {m}
<1>8. J \in SUBSET (1 .. m - 1)
  BY <1>5
<1>9. PICK f : Enumerates(f, J)
  BY <1>8, <1>6
<1>10. IsFiniteSet(K) /\ Cardinality(K) \in Nat
  BY <1>5, PositionsAreFinite
<1>11. IsFiniteSet(J) /\ Cardinality(J) \in Nat /\ Cardinality(K) = Cardinality(J) + 1
  <2>1. IsFiniteSet(J) /\ Cardinality(J) = Cardinality(K) - 1
    BY <1>10, <1>7, FS_RemoveElement
  <2>2. Cardinality(J) \in Nat
    BY <2>1, FS_CardinalityType
  <2> QED BY <2>1, <2>2, <1>10
<1> DEFINE c == Cardinality(J)
           g == [i \in 1 .. c + 1 |-> IF i = c + 1 THEN m ELSE f[i]]
<1>12. c \in Nat /\ c = Cardinality(J)
  BY <1>11
<1>13. /\ f \in [1 .. c -> J]
       /\ \A x \in J : \E i \in 1 .. c : f[i] = x
       /\ \A i, j \in 1 .. c : i < j => f[i] < f[j]
  <2>1. Range(f) = J /\ DOMAIN f = 1 .. c /\ f \in [1 .. c -> J]
    BY <1>9 DEF Enumerates
  <2>2. \A i, j \in DOMAIN f : i < j => f[i] < f[j]
    BY <1>9 DEF Enumerates
  <2> QED BY <2>1, <2>2 DEF Range
<1> HIDE DEF c, J
<1>14. K = J \union {m} /\ m \notin J /\ \A x \in J : x \in Int /\ x < m
  BY <1>7, <1>8, <1>5 DEF J
<1>15. g \in [1 .. c + 1 -> K] /\ DOMAIN g = 1 .. c + 1
  BY <1>12, <1>13, <1>14
<1>16. \A x \in K : \E i \in 1 .. c + 1 : g[i] = x
  BY <1>12, <1>13, <1>14
<1>17. \A i, j \in 1 .. c + 1 : i < j => g[i] < g[j]
  <2> SUFFICES ASSUME NEW i \in 1 .. c + 1, NEW j \in 1 .. c + 1, i < j PROVE g[i] < g[j]
    OBVIOUS
  <2>1. i \in 1 .. c /\ g[i] = f[i] /\ f[i] \in J
    BY <1>12, <1>13
  <2>2. CASE j = c + 1
    BY <2>1, <2>2, <1>14
  <2>3. CASE j # c + 1
    <3>1. j \in 1 .. c /\ g[j] = f[j]
      BY <2>3, <1>12
    <3> QED BY <3>1, <2>1, <1>13
  <2> QED BY <2>2, <2>3
<1> HIDE DEF g
<1>18. Range(g) = K
  BY <1>15, <1>16 DEF Range
<1>19. Enumerates(g, K)
  BY <1>15, <1>17, <1>18, <1>11, <1>12 DEF Enumerates
<1> QED BY <1>19, <1>3

\* The sequence consists of the elements of es at the positions K, in their order.
IsSelection(seq, es, K, f) ==
  /\ f \in [DOMAIN seq -> K]
  /\ \A i \in DOMAIN seq : seq[i] = es[f[i]]
  /\ \A k \in K : \E i \in DOMAIN seq : f[i] = k
  /\ \A i, j \in DOMAIN seq : i < j => f[i] < f[j]

LEMMA SelectIs ==
  ASSUME NEW S, NEW es \in Seq(S), NEW K \in SUBSET DOMAIN es
  PROVE  Select(es, K) \in Seq(S) /\ \E f : IsSelection(Select(es, K), es, K, f)
<1> DEFINE f == InOrder(K)
           c == Cardinality(K)
<1>1. Len(es) \in Nat /\ DOMAIN es = 1 .. Len(es)
  OBVIOUS
<1>2. c \in Nat
  BY <1>1, PositionsAreFinite
<1>3. Enumerates(f, K)
  <2>1. \E g : Enumerates(g, K)
    BY <1>1, EnumerationExists
  <2> QED BY <2>1 DEF Enumerates, InOrder
<1>4. /\ f \in [1 .. c -> K]
      /\ \A k \in K : \E i \in 1 .. c : f[i] = k
      /\ \A i, j \in 1 .. c : i < j => f[i] < f[j]
  <2>1. Range(f) = K /\ DOMAIN f = 1 .. c /\ f \in [1 .. c -> K]
    BY <1>3 DEF Enumerates
  <2>2. \A i, j \in DOMAIN f : i < j => f[i] < f[j]
    BY <1>3 DEF Enumerates
  <2> QED BY <2>1, <2>2 DEF Range
<1>5. Select(es, K) = [i \in 1 .. c |-> es[f[i]]]
  BY DEF Select
<1> HIDE DEF f, c
<1>6. Select(es, K) \in Seq(S) /\ DOMAIN Select(es, K) = 1 .. c
  <2>1. \A i \in 1 .. c : es[f[i]] \in S
    BY <1>1, <1>4
  <2> QED BY <2>1, <1>5, <1>2
<1>7. IsSelection(Select(es, K), es, K, f)
  BY <1>4, <1>5, <1>6 DEF IsSelection
<1> QED BY <1>6, <1>7

-----------------------------------------------------------------------------
(***************************************************************************)
(* Types.                                                                  *)
(***************************************************************************)

\* While new entries are counted, the command that adds them has no serial number
\* yet, and there is one entry more than before at most.
Counting ==
  /\ change \in {"counted", "listed"} => maxSerial < commands
  /\ change = "counted" => Len(entries) <= numBefore
  /\ change = "listed" => Len(entries) <= numBefore + 1

\* A serial number is given by a command, and the last error count stops the
\* client.
TypeInv ==
  /\ TypeOK
  /\ maxSerial <= commands
  /\ client.at # "stopped" => client.errCount < MaxErrCt
  /\ Counting

Steady(c) == c \in ClientState /\ (c.at # "stopped" => c.errCount < MaxErrCt)

\* What manageConnection does after receivePDUs leaves all but the position and
\* the count of errors alone; the only way on is from the handshake to the loop.
LEMMA ReturnIs ==
  ASSUME NEW c, Steady(c), c.at \in Receiving, NEW error
  PROVE  /\ Steady(Return(c, error))
         /\ Return(c, error).serial = c.serial
         /\ Return(c, error).session = c.session
         /\ Return(c, error).startup = c.startup
         /\ Return(c, error).at # "handshake"
         /\ Return(c, error).at = "loop" => c.at = "handshake" /\ c.lastRecv = "response"
<1> USE DEF Steady, ClientState, Position, Receiving
<1>1. CASE c.at = "loop"
  BY <1>1 DEF Return
<1>2. CASE c.at = "reload"
  BY <1>2 DEF Return
<1>3. CASE c.at = "handshake" /\ c.lastRecv = "response"
  BY <1>3 DEF Return
<1>4. CASE c.at = "handshake" /\ c.lastRecv = "error"
  <2>1. CASE error = "version"
    <3>1. Return(c, error) = [c EXCEPT !.at = "stopped"]
      BY <1>4, <2>1 DEF Return
    <3> QED BY <3>1, <1>4
  <2>2. CASE error # "version"
    <3> DEFINE n == c.errCount + 1
               a == IF n >= MaxErrCt THEN "stopped" ELSE "lost"
    <3>1. Return(c, error) = [c EXCEPT !.at = a, !.errCount = n]
      BY <1>4, <2>2 DEF Return
    <3>2. n \in ErrCount /\ (a # "stopped" => n < MaxErrCt) /\ a \in {"stopped", "lost"}
      <4>1. MaxErrCt \in Nat /\ c.errCount \in 0 .. MaxErrCt /\ c.errCount < MaxErrCt
        BY <1>4, RtrSessionAssumption DEF ErrCount
      <4> QED BY <4>1 DEF ErrCount
    <3> HIDE DEF n, a
    <3> QED BY <3>1, <3>2, <1>4
  <2> QED BY <2>1, <2>2
<1>5. CASE c.at = "handshake" /\ c.lastRecv \notin {"response", "error"}
  <2>1. Return(c, error) = [c EXCEPT !.at = "stopped"]
    BY <1>5 DEF Return
  <2> QED BY <2>1, <1>5
<1> HIDE DEF Steady, ClientState, Position
<1> QED BY <1>1, <1>2, <1>3, <1>4, <1>5

\* After a PDU the client goes on where it is, or from the handshake to the loop,
\* or it leaves both.
LEMMA PolledIs ==
  ASSUME NEW c, Steady(c), c.at \in Receiving
  PROVE  /\ Steady(Polled(c))
         /\ Polled(c).serial = c.serial /\ Polled(c).session = c.session
         /\ Polled(c).startup = c.startup
         /\ Polled(c).at \in {"handshake", "loop"} => c.at \in {"handshake", "loop"}
<1>1. CASE c.at = "handshake"
  BY <1>1, ReturnIs DEF Polled
<1>2. CASE c.at # "handshake"
  BY <1>2 DEF Polled
<1> QED BY <1>1, <1>2

LEMMA CheckSessionIDIs ==
  ASSUME TypeInv, client.at \in Receiving, NEW s \in Session, NEW t \in PduType
  PROVE  LET c == [CheckSessionID(s) EXCEPT !.lastRecv = t]
         IN  /\ Steady(c) /\ c.at = client.at /\ c.serial = client.serial
             /\ c.lastRecv = t /\ c.session \in Session
<1>1. client \in ClientState /\ client.errCount < MaxErrCt
  BY DEF TypeInv, TypeOK, Receiving
<1> QED BY <1>1 DEF CheckSessionID, Steady, ClientState

\* An answer is a response, the objects and an End of Data.
LEMMA AnswerIs ==
  ASSUME NEW es \in Seq(Entry)
  PROVE  /\ Answer(es) \in Seq(Part) /\ Len(Answer(es)) = Len(es) + 2
         /\ Answer(es)[1] = [type |-> "response"]
         /\ \A i \in 1 .. Len(es) :
              Answer(es)[i + 1] = [type |-> "object", roa |-> es[i].roa, announced |-> es[i].announced]
         /\ Answer(es)[Len(es) + 2] = [type |-> "end of data"]
<1> DEFINE objects == [i \in DOMAIN es |-> [type |-> "object", roa |-> es[i].roa, announced |-> es[i].announced]]
           first == [type |-> "response"]
           last == [type |-> "end of data"]
<1>1. first \in Part /\ last \in Part
  BY DEF Part
<1>2. Len(es) \in Nat /\ DOMAIN es = 1 .. Len(es)
  OBVIOUS
<1>3. \A i \in 1 .. Len(es) : objects[i] \in Part
  <2> SUFFICES ASSUME NEW i \in 1 .. Len(es) PROVE objects[i] \in Part
    OBVIOUS
  <2>1. es[i] \in Entry
    BY <1>2
  <2>2. es[i].roa \in Roa /\ es[i].announced \in BOOLEAN
    BY <2>1 DEF Entry
  <2>3. objects[i] \in [type : {"object"}, roa : Roa, announced : BOOLEAN]
    BY <2>2, <1>2
  <2> QED BY <2>3 DEF Part
<1>4. objects \in Seq(Part) /\ Len(objects) = Len(es)
  <2> HIDE DEF objects
  <2>1. objects = [i \in 1 .. Len(es) |-> objects[i]]
    BY <1>2 DEF objects
  <2> QED BY <2>1, <1>2, <1>3
<1>5. Answer(es) = (<<first>> \o objects) \o <<last>>
  BY DEF Answer
<1>6. \A i \in 1 .. Len(es) :
        objects[i] = [type |-> "object", roa |-> es[i].roa, announced |-> es[i].announced]
  BY <1>2
<1> HIDE DEF objects, first, last
<1>7. <<first>> \in Seq(Part) /\ <<last>> \in Seq(Part)
  BY <1>1
<1>8. /\ <<first>> \o objects \in Seq(Part) /\ Len(<<first>> \o objects) = Len(es) + 1
      /\ (<<first>> \o objects)[1] = first
      /\ \A i \in 1 .. Len(es) : (<<first>> \o objects)[i + 1] = objects[i]
  BY <1>7, <1>4, <1>2
<1>9. /\ Answer(es) \in Seq(Part) /\ Len(Answer(es)) = Len(es) + 2
      /\ \A i \in 1 .. Len(es) + 1 : Answer(es)[i] = (<<first>> \o objects)[i]
      /\ Answer(es)[Len(es) + 2] = last
  <2> DEFINE front == <<first>> \o objects
  <2>1. front \in Seq(Part) /\ Len(front) = Len(es) + 1
    BY <1>8
  <2> HIDE DEF front
  <2>2. /\ front \o <<last>> \in Seq(Part) /\ Len(front \o <<last>>) = Len(es) + 2
        /\ \A i \in 1 .. Len(es) + 1 : (front \o <<last>>)[i] = front[i]
        /\ (front \o <<last>>)[Len(es) + 2] = last
    BY <2>1, <1>7, <1>2
  <2> QED BY <2>2, <1>5 DEF front
<1>10. Answer(es)[1] = first
  BY <1>8, <1>9, <1>2
<1>11. ASSUME NEW i \in 1 .. Len(es)
       PROVE  Answer(es)[i + 1] = objects[i]
  <2>1. i + 1 \in 1 .. Len(es) + 1
    BY <1>2
  <2> QED BY <2>1, <1>8, <1>9
<1> QED BY <1>6, <1>9, <1>10, <1>11 DEF first, last

\* Min and Max of a bounded set of natural numbers are its least and its greatest
\* element.
LEMMA ExtremesExist ==
  ASSUME NEW S \in SUBSET Nat, S # {}, NEW n \in Nat, \A x \in S : x <= n
  PROVE  /\ Min(S) \in S /\ \A x \in S : Min(S) <= x
         /\ Max(S) \in S /\ \A x \in S : x <= Max(S)
<1>1. Min(S) \in S /\ \A x \in S : Min(S) <= x
  <2>1. \E x \in S : \A y \in S : x <= y
    BY LeastElement
  <2> QED BY <2>1 DEF Min
<1>2. Max(S) \in S /\ \A x \in S : Max(S) >= x
  <2> DEFINE T == {n - x : x \in S}
  <2>0. PICK z \in S : TRUE
    OBVIOUS
  <2>5. \A x \in S : n - x \in Nat
    OBVIOUS
  <2>6. n - z \in T
    BY <2>0
  <2>1. T \in SUBSET Nat /\ T # {}
    BY <2>5, <2>6
  <2>2. PICK t \in T : \A y \in T : t <= y
    BY <2>1, LeastElement
  <2>3. PICK m \in S : t = n - m
    BY <2>2
  <2>4. \A y \in S : m >= y
    <3> SUFFICES ASSUME NEW y \in S PROVE m >= y
      OBVIOUS
    <3>1. n - y \in T
      OBVIOUS
    <3> HIDE DEF T
    <3>2. n - m <= n - y
      BY <3>1, <2>2, <2>3
    <3> QED BY <3>2
  <2> QED BY <2>4 DEF Max
<1> QED BY <1>1, <1>2

LEMMA TypeInit == Init => TypeInv
<1> SUFFICES ASSUME Init PROVE TypeInv
  OBVIOUS
<1>1. 0 \in Serial /\ 0 \in Session /\ UINT32_MAX \in Serial \union {UINT32_MAX}
  BY RtrSessionAssumption DEF Serial, Session
<1>2. 0 \in ErrCount /\ 0 < MaxErrCt
  BY RtrSessionAssumption DEF ErrCount
<1>3. client \in ClientState /\ client.errCount = 0
  <2>1. PICK newest \in BOOLEAN :
          client = [at |-> "query", fd |-> running, startup |-> TRUE, changed |-> FALSE,
                    session |-> 0, serial |-> 0, lastRecv |-> "notify", errCount |-> 0,
                    newest |-> newest]
    BY DEF Init
  <2>2. running \in BOOLEAN
    BY DEF Init
  <2> QED BY <2>1, <2>2, <1>1, <1>2 DEF ClientState, Position, PduType
<1>8. entries = <<>> /\ sending = <<>> /\ toCache = <<>> /\ toClient = <<>>
  BY DEF Init
<1>4. /\ entries \in Seq(Entry) /\ sending \in Seq(Part)
      /\ toCache \in Seq(Query) /\ toClient \in Seq(Pdu)
  BY <1>8
<1>9. /\ running \in BOOLEAN /\ session \in Session /\ maxSerial \in Serial
      /\ notify \in BOOLEAN /\ greeted \in BOOLEAN /\ up \in BOOLEAN
      /\ trail \in {"new", "exact", "blurred", "astray"}
      /\ foreign \in BOOLEAN /\ forgotten \in BOOLEAN
  BY <1>1, Zenon DEF Init
<1>5. expired \in [min : Serial \union {UINT32_MAX}, max : Serial]
  <2>1. expired = [min |-> UINT32_MAX, max |-> 0]
    BY DEF Init, NoneExpired
  <2> HIDE DEF UINT32_MAX
  <2> QED BY <2>1, <1>1
<1>6. /\ installed \in [Roa -> Nat] /\ commands \in 0 .. MaxCommands /\ faults \in 0 .. MaxFaults
  <2>1. installed = [r \in Roa |-> 0] /\ commands = 0 /\ faults = 0
    BY DEF Init
  <2> QED BY <2>1, RtrSessionAssumption
<1>7. maxSerial <= commands
  BY DEF Init
<1>10. /\ change \in {"none", "counted", "listed", "numbered"} /\ numBefore \in Nat
       /\ stuck \in BOOLEAN /\ miscounted \in BOOLEAN /\ Counting
  BY DEF Init, Counting
<1> QED BY <1>2, <1>3, <1>4, <1>5, <1>6, <1>7, <1>9, <1>10 DEF TypeInv, TypeOK

\* The type invariant by groups of variables.
TypeCache ==
  /\ running \in BOOLEAN /\ session \in Session /\ entries \in Seq(Entry)
  /\ maxSerial \in Serial /\ expired \in [min : Serial \union {UINT32_MAX}, max : Serial]
  /\ notify \in BOOLEAN /\ sending \in Seq(Part) /\ greeted \in BOOLEAN
TypeLink == up \in BOOLEAN /\ toCache \in Seq(Query) /\ toClient \in Seq(Pdu)
TypeClient == Steady(client) /\ installed \in [Roa -> Nat]
TypeHistory ==
  /\ commands \in 0 .. MaxCommands /\ faults \in 0 .. MaxFaults /\ maxSerial <= commands
  /\ trail \in {"new", "exact", "blurred", "astray"}
  /\ foreign \in BOOLEAN /\ forgotten \in BOOLEAN

TypeConsole ==
  /\ change \in {"none", "counted", "listed", "numbered"} /\ numBefore \in Nat
  /\ stuck \in BOOLEAN /\ miscounted \in BOOLEAN
  /\ Counting
TypeBase == TypeCache /\ TypeLink /\ TypeClient /\ TypeHistory

LEMMA TypeGroups ==
  TypeInv <=> TypeCache /\ TypeLink /\ TypeClient /\ TypeHistory /\ TypeConsole
BY DEF TypeInv, TypeOK, TypeCache, TypeLink, TypeClient, TypeHistory, TypeConsole, Steady

LEMMA TypeBaseNext == TypeBase' <=> TypeCache' /\ TypeLink' /\ TypeClient' /\ TypeHistory'
BY DEF TypeBase

LEMMA TypeGroupsNext == TypeInv' <=> TypeBase' /\ TypeConsole'
BY DEF TypeInv, TypeOK, TypeBase, TypeCache, TypeLink, TypeClient, TypeHistory, TypeConsole, Steady

LEMMA SelectType ==
  ASSUME TypeCache, NEW K \in SUBSET DOMAIN entries
  PROVE  Select(entries, K) \in Seq(Entry)
BY SelectIs DEF TypeCache

LEMMA CommandTypes ==
  ASSUME TypeInv, Command
  PROVE  /\ commands' \in 0 .. MaxCommands /\ maxSerial + 1 \in Serial
         /\ maxSerial <= commands' /\ maxSerial + 1 <= commands'
<1>1. /\ maxSerial \in 0 .. MaxCommands /\ commands \in 0 .. MaxCommands /\ maxSerial <= commands
      /\ commands < MaxCommands /\ commands' = commands + 1 /\ MaxCommands \in Nat
  BY RtrSessionAssumption DEF TypeInv, TypeOK, Command, Serial
<1> QED BY <1>1 DEF Serial

\* Telling the client something that is not part of an answer.
LEMMA ToClientType ==
  ASSUME TypeLink, NEW p \in Pdu, ToClient(p), UNCHANGED <<up, toCache>>
  PROVE  TypeLink'
<1>1. toClient' = Append(toClient, p) \/ toClient' = toClient
  BY DEF ToClient
<1>2. toClient' \in Seq(Pdu)
  BY <1>1 DEF TypeLink
<1> QED BY <1>2 DEF TypeLink

LEMMA NotifyType == ASSUME TypeCache, NEW s \in Session PROVE Notify(s) \in Pdu
BY DEF Notify, Pdu, TypeCache

LEMMA EntryType ==
  ASSUME NEW r \in Roa, NEW s \in Serial, NEW p \in Serial, NEW a \in BOOLEAN
  PROVE  [roa |-> r, serial |-> s, prevSerial |-> p, announced |-> a] \in Entry
BY DEF Entry

LEMMA CommandsType ==
  ASSUME TypeInv, Commands
  PROVE  TypeBase'
<1>0. TypeCache /\ TypeLink /\ TypeClient /\ TypeHistory
  BY TypeGroups
<1>1. Command
  BY DEF Commands, CountEntries, RemoveEntry, EmptyCache, SendSerialNotify, ChangeSession,
         SendUnasked, Change
<1>2. /\ commands' \in 0 .. MaxCommands /\ maxSerial + 1 \in Serial
      /\ maxSerial <= commands' /\ maxSerial + 1 <= commands'
  BY <1>1, CommandTypes
<1>3. UNCHANGED <<running, greeted, up, toCache, client, installed, faults, foreign>>
  BY <1>1 DEF Command, clientVars
<1>4. TypeClient'
  BY <1>0, <1>3 DEF TypeClient, Steady
<1>5. CASE CountEntries
  <2>1. UNCHANGED <<session, entries, maxSerial, expired, notify, sending, toClient, trail, forgotten>>
    BY <1>5 DEF CountEntries
  <2>2. TypeCache'
    BY <2>1, <1>0, <1>3 DEF TypeCache
  <2>3. TypeHistory'
    BY <2>1, <1>0, <1>2, <1>3 DEF TypeHistory
  <2>4. TypeLink'
    BY <2>1, <1>0, <1>3 DEF TypeLink
  <2> QED BY <2>2, <2>3, <2>4, <1>4, TypeBaseNext
<1>6. ASSUME NEW i \in DOMAIN entries, RemoveEntry(i) PROVE TypeBase'
  <2> DEFINE e == [entries[i] EXCEPT !.serial = maxSerial + 1, !.announced = FALSE]
  <2>1. /\ entries' = Append(Select(entries, DOMAIN entries \ {i}), e)
        /\ maxSerial' = maxSerial + 1
        /\ UNCHANGED <<session, sending, toClient, expired, trail, notify, forgotten>>
    BY <1>6 DEF RemoveEntry, Change
  <2>2. e \in Entry
    <3> DEFINE n == maxSerial + 1
    <3>1. entries[i] \in Entry
      BY <1>0 DEF TypeCache
    <3>2. n \in Serial /\ e = [entries[i] EXCEPT !.serial = n, !.announced = FALSE]
      BY <1>2
    <3> HIDE DEF n, e
    <3> QED BY <3>1, <3>2 DEF Entry
  <2> HIDE DEF e
  <2>3. entries' \in Seq(Entry)
    <3>1. Select(entries, DOMAIN entries \ {i}) \in Seq(Entry)
      BY <1>0, SelectType
    <3> QED BY <2>1, <2>2, <3>1
  <2>4. TypeCache'
    BY <2>1, <2>3, <1>0, <1>2, <1>3 DEF TypeCache
  <2>5. TypeHistory'
    BY <2>1, <1>0, <1>2, <1>3 DEF TypeHistory
  <2>6. TypeLink'
    BY <2>1, <1>0, <1>3 DEF TypeLink
  <2> QED BY <2>4, <2>5, <2>6, <1>4, TypeBaseNext
<1>7. CASE EmptyCache
  <2>1. /\ entries' = <<>> /\ trail' \in {trail, "blurred"}
        /\ UNCHANGED <<session, sending, toClient, maxSerial, expired, notify, forgotten>>
    BY <1>7 DEF EmptyCache, Change
  <2>2. entries' \in Seq(Entry)
    BY <2>1
  <2>4. TypeCache'
    BY <2>1, <2>2, <1>0, <1>3 DEF TypeCache
  <2>5. TypeHistory'
    BY <2>1, <1>0, <1>2, <1>3 DEF TypeHistory
  <2>6. TypeLink'
    BY <2>1, <1>0, <1>3 DEF TypeLink
  <2> QED BY <2>4, <2>5, <2>6, <1>4, TypeBaseNext
<1>8. CASE SendSerialNotify
  <2>1. ToClient(Notify(session)) /\ UNCHANGED <<session, entries, maxSerial, expired, notify, sending, trail, forgotten>>
    BY <1>8 DEF SendSerialNotify, cacheData
  <2>2. TypeLink'
    BY <2>1, <1>0, <1>3, ToClientType, NotifyType DEF TypeCache
  <2>4. TypeCache'
    BY <2>1, <1>0, <1>3 DEF TypeCache
  <2>5. TypeHistory'
    BY <2>1, <1>0, <1>2, <1>3 DEF TypeHistory
  <2> QED BY <2>2, <2>4, <2>5, <1>4, TypeBaseNext
<1>9. ASSUME NEW s \in Session, ChangeSession(s) PROVE TypeBase'
  <2>1. /\ ToClient(Notify(s)) /\ session' = s
        /\ UNCHANGED <<entries, maxSerial, expired, notify, sending, trail, forgotten>>
    BY <1>9 DEF ChangeSession
  <2>2. TypeLink'
    BY <2>1, <1>0, <1>3, ToClientType, NotifyType
  <2>4. TypeCache'
    BY <2>1, <1>0, <1>3 DEF TypeCache
  <2>5. TypeHistory'
    BY <2>1, <1>0, <1>2, <1>3 DEF TypeHistory
  <2> QED BY <2>2, <2>4, <2>5, <1>4, TypeBaseNext
<1>10. ASSUME NEW type \in {"cache reset", "error"}, SendUnasked(type) PROVE TypeBase'
  <2>1. ToClient([type |-> type]) /\ UNCHANGED <<session, entries, maxSerial, expired, notify, sending, trail, forgotten>>
    BY <1>10 DEF SendUnasked, cacheData
  <2>2. [type |-> type] \in Pdu
    BY DEF Pdu
  <2>3. TypeLink'
    BY <2>1, <2>2, <1>0, <1>3, ToClientType
  <2>4. TypeCache'
    BY <2>1, <1>0, <1>3 DEF TypeCache
  <2>5. TypeHistory'
    BY <2>1, <1>0, <1>2, <1>3 DEF TypeHistory
  <2> QED BY <2>3, <2>4, <2>5, <1>4, TypeBaseNext
<1> QED BY <1>5, <1>6, <1>7, <1>8, <1>9, <1>10 DEF Commands

\* The withdrawals that deleteExpiredEntriesFromCache deletes.
Old(age) == {i \in DOMAIN entries : ~entries[i].announced /\ entries[i].serial <= age}

\* The bounds of what was deleted are the extremes of serial numbers.
LEMMA TimerBounds ==
  ASSUME TypeInv, NEW age \in Serial, TimerExpired(age)
  PROVE  /\ expired' \in [min : Serial \union {UINT32_MAX}, max : Serial]
         /\ expired'.min <= expired.min /\ expired.max <= expired'.max
         /\ \A i \in Old(age) : /\ expired'.min <= entries[i].prevSerial
                                /\ entries[i].serial <= expired'.max
         /\ expired'.max \in {expired.max} \union {entries[i].serial : i \in Old(age)}
<1> DEFINE P == {expired.min} \union {entries[i].prevSerial : i \in Old(age)}
           S == {expired.max} \union {entries[i].serial : i \in Old(age)}
<1>1. expired' = [min |-> Min(P), max |-> Max(S)]
  BY DEF TimerExpired, Old
<1>2. MaxCommands \in Nat /\ UINT32_MAX = MaxCommands + 1
  BY RtrSessionAssumption DEF UINT32_MAX
<1>3. expired.min \in Serial \union {UINT32_MAX} /\ expired.max \in Serial
  BY DEF TypeInv, TypeOK
<1>4. \A i \in Old(age) : entries[i].prevSerial \in Serial /\ entries[i].serial \in Serial
  <2> SUFFICES ASSUME NEW i \in Old(age)
               PROVE  entries[i].prevSerial \in Serial /\ entries[i].serial \in Serial
    OBVIOUS
  <2>1. entries[i] \in Entry
    BY DEF TypeInv, TypeOK, Old
  <2> QED BY <2>1 DEF Entry
<1>5. P \subseteq Serial \union {UINT32_MAX} /\ P # {} /\ S \subseteq Serial /\ S # {}
  BY <1>3, <1>4
<1>6. /\ expired.min \in P /\ expired.max \in S
      /\ \A i \in Old(age) : entries[i].prevSerial \in P /\ entries[i].serial \in S
  OBVIOUS
<1>7. S = {expired.max} \union {entries[i].serial : i \in Old(age)}
  OBVIOUS
<1> HIDE DEF P, S
<1>8. P \in SUBSET Nat /\ \A x \in P : x <= MaxCommands + 1
  BY <1>5, <1>2 DEF Serial
<1>9. Min(P) \in P /\ \A x \in P : Min(P) <= x
  <2> DEFINE n == MaxCommands + 1
  <2>1. n \in Nat /\ \A x \in P : x <= n
    BY <1>2, <1>8
  <2> HIDE DEF n
  <2> QED BY <2>1, <1>8, <1>5, ExtremesExist
<1>10. S \in SUBSET Nat /\ \A x \in S : x <= MaxCommands
  BY <1>5, <1>2 DEF Serial
<1>11. Max(S) \in S /\ \A x \in S : x <= Max(S)
  BY <1>10, <1>5, <1>2, ExtremesExist
<1>12. expired'.min = Min(P) /\ expired'.max = Max(S)
  BY <1>1
<1>13. expired' \in [min : Serial \union {UINT32_MAX}, max : Serial]
  <2>1. Min(P) \in Serial \union {UINT32_MAX} /\ Max(S) \in Serial
    BY <1>5, <1>9, <1>11
  <2> QED BY <2>1, <1>1, Zenon
<1> QED BY <1>6, <1>7, <1>9, <1>11, <1>12, <1>13

LEMMA TimerType ==
  ASSUME TypeInv, NEW age \in Serial, TimerExpired(age)
  PROVE  TypeBase'
<1>0. TypeCache /\ TypeLink /\ TypeClient /\ TypeHistory
  BY TypeGroups
<1>1. /\ entries' = Select(entries, DOMAIN entries \ Old(age)) /\ notify' = FALSE
      /\ UNCHANGED <<running, session, maxSerial, sending, greeted, up, toCache>>
  BY DEF TimerExpired, Old
<1>2. UNCHANGED <<client, installed, commands, faults, trail, foreign, forgotten>>
  BY DEF TimerExpired, clientVars, historyVars
<1>3. entries' \in Seq(Entry)
  BY <1>0, <1>1, SelectType
<1>4. expired' \in [min : Serial \union {UINT32_MAX}, max : Serial]
  BY TimerBounds
<1>5. TypeCache'
  BY <1>0, <1>1, <1>3, <1>4 DEF TypeCache
<1>6. TypeLink'
  <2>1. ToClient(Notify(session)) \/ toClient' = toClient
    BY DEF TimerExpired
  <2>2. Notify(session) \in Pdu
    BY <1>0, NotifyType DEF TypeCache
  <2>3. CASE ToClient(Notify(session))
    BY <2>2, <2>3, <1>0, <1>1, ToClientType
  <2>4. CASE toClient' = toClient
    BY <2>4, <1>0, <1>1 DEF TypeLink
  <2> QED BY <2>1, <2>3, <2>4
<1>7. TypeClient' /\ TypeHistory'
  BY <1>0, <1>1, <1>2 DEF TypeClient, TypeHistory, Steady
<1> QED BY <1>5, <1>6, <1>7, TypeBaseNext

LEMMA ResponseType ==
  ASSUME TypeCache, NEW q
  PROVE  Response(q) \in Seq(Part)
<1>1. Current \in Seq(Entry)
  BY SelectType DEF Current
<1>2. \A s : NewSince(s) \in Seq(Entry)
  BY SelectType DEF NewSince
<1>4. Answer(Current) \in Seq(Part) /\ \A s : Answer(NewSince(s)) \in Seq(Part)
  BY <1>1, <1>2, AnswerIs
<1>5. <<>> \in Seq(Part) /\ <<[type |-> "cache reset"]>> \in Seq(Part)
  <2> DEFINE p == [type |-> "cache reset"]
  <2>1. p \in Part
    BY DEF Part
  <2> HIDE DEF p
  <2>2. <<>> \in Seq(Part) /\ <<p>> \in Seq(Part)
    BY <2>1
  <2> QED BY <2>2 DEF p
<1> QED BY <1>4, <1>5 DEF Response

LEMMA WithSessionType ==
  ASSUME TypeCache, NEW p \in Part
  PROVE  /\ WithSession(p) \in Pdu /\ WithSession(p).type = p.type
         /\ p.type = "end of data" => WithSession(p).serial = maxSerial
         /\ p.type = "object" => WithSession(p) = p
<1>1. session \in Session /\ maxSerial \in Serial
  BY DEF TypeCache
<1> HIDE DEF Session
<1>2. CASE p \in [type : {"response", "cache reset"}]
  BY <1>1, <1>2 DEF WithSession, Pdu
<1>3. CASE p \in [type : {"object"}, roa : Roa, announced : BOOLEAN]
  BY <1>1, <1>3 DEF WithSession, Pdu
<1>4. CASE p \in [type : {"end of data"}]
  BY <1>1, <1>4 DEF WithSession, Pdu
<1> QED BY <1>2, <1>3, <1>4 DEF Part

LEMMA CacheType ==
  ASSUME TypeInv, HandleQuery \/ SendPdu \/ OtherQuery \/ LoseConnection \/ CacheStops \/ CacheStarts
  PROVE  TypeBase'
<1>0. TypeCache /\ TypeLink /\ TypeClient /\ TypeHistory
  BY TypeGroups
<1>1. UNCHANGED <<client, installed, commands>>
  BY DEF HandleQuery, SendPdu, OtherQuery, LoseConnection, CacheStops, CacheStarts, Disconnect,
         clientVars, historyVars
<1>2. TypeClient'
  BY <1>0, <1>1 DEF TypeClient, Steady
<1>3. CASE HandleQuery
  <2>1. /\ toCache' = Tail(toCache) /\ toCache # <<>> /\ notify' = FALSE /\ greeted' = TRUE
        /\ sending' = Response(Head(toCache))
        /\ UNCHANGED <<running, session, entries, maxSerial, expired, up, toClient>>
        /\ UNCHANGED <<faults, trail, foreign, forgotten>>
    BY <1>3 DEF HandleQuery, cacheData, historyVars
  <2>2. sending' \in Seq(Part)
    BY <2>1, <1>0, ResponseType
  <2>3. TypeCache'
    BY <2>1, <2>2, <1>0 DEF TypeCache
  <2>4. TypeLink'
    BY <2>1, <1>0 DEF TypeLink
  <2>5. TypeHistory'
    BY <2>1, <1>0, <1>1 DEF TypeHistory
  <2> QED BY <2>3, <2>4, <2>5, <1>2, TypeBaseNext
<1>4. CASE SendPdu
  <2>1. /\ toClient' = Append(toClient, WithSession(Head(sending)))
        /\ sending # <<>> /\ sending' = Tail(sending)
        /\ UNCHANGED <<running, session, entries, maxSerial, expired, notify, greeted, up, toCache>>
        /\ UNCHANGED <<faults, foreign, forgotten>> /\ trail' \in {trail, "blurred"}
    BY <1>4 DEF SendPdu, cacheData
  <2>2. Head(sending) \in Part /\ sending' \in Seq(Part)
    BY <2>1, <1>0 DEF TypeCache
  <2>3. TypeCache'
    BY <2>1, <2>2, <1>0 DEF TypeCache
  <2>4. WithSession(Head(sending)) \in Pdu
    BY <2>2, <1>0, WithSessionType
  <2>5. TypeLink'
    BY <2>1, <2>4, <1>0 DEF TypeLink
  <2>6. TypeHistory'
    BY <2>1, <1>0, <1>1 DEF TypeHistory
  <2> QED BY <2>3, <2>5, <2>6, <1>2, TypeBaseNext
<1>5. CASE OtherQuery
  <2>1. /\ notify' = FALSE /\ forgotten' = TRUE
        /\ UNCHANGED <<running, session, entries, maxSerial, expired, sending, greeted>>
        /\ UNCHANGED <<up, toCache, toClient, faults, trail, foreign>>
    BY <1>5 DEF OtherQuery, cacheData, linkVars
  <2>3. TypeCache'
    BY <2>1, <1>0 DEF TypeCache
  <2>4. TypeLink'
    BY <2>1, <1>0 DEF TypeLink
  <2>5. TypeHistory'
    BY <2>1, <1>0, <1>1 DEF TypeHistory
  <2> QED BY <2>3, <2>4, <2>5, <1>2, TypeBaseNext
<1>6. CASE LoseConnection \/ CacheStops
  <2>1. PICK n \in 0 .. Len(toClient) : toClient' = SubSeq(toClient, 1, n)
    BY <1>6 DEF LoseConnection, CacheStops, Disconnect
  <2>2. up' = FALSE /\ toCache' = <<>> /\ sending' = <<>> /\ greeted' = FALSE
    BY <1>6 DEF LoseConnection, CacheStops, Disconnect
  <2>3. /\ faults < MaxFaults /\ faults' = faults + 1
        /\ UNCHANGED <<trail, forgotten>>
    BY <1>6 DEF LoseConnection, CacheStops, Disconnect
  <2>4. TypeLink'
    <3>1. toClient \in Seq(Pdu)
      BY <1>0 DEF TypeLink
    <3>2. toClient' \in Seq(Pdu)
      BY <2>1, <3>1
    <3>3. toCache' \in Seq(Query)
      BY <2>2
    <3> QED BY <2>2, <3>2, <3>3 DEF TypeLink
  <2>5. faults' \in 0 .. MaxFaults
    BY <2>3, <1>0, RtrSessionAssumption DEF TypeHistory
  <2>6. sending' \in Seq(Part)
    BY <2>2
  <2>7. CASE LoseConnection
    <3>1. UNCHANGED <<running, session, entries, maxSerial, expired, notify, foreign>>
      BY <2>7 DEF LoseConnection, cacheData
    <3>2. TypeCache'
      BY <2>2, <2>6, <3>1, <1>0 DEF TypeCache
    <3>3. TypeHistory'
      BY <2>3, <2>5, <3>1, <1>0, <1>1 DEF TypeHistory
    <3> QED BY <2>4, <3>2, <3>3, <1>2, TypeBaseNext
  <2>8. CASE CacheStops
    <3>1. /\ running' = FALSE /\ session' = 0 /\ entries' = <<>> /\ maxSerial' = 0
          /\ expired' = NoneExpired /\ notify' = FALSE /\ foreign' = TRUE
      BY <2>8 DEF CacheStops
    <3>2. 0 \in Serial /\ 0 \in Session /\ UINT32_MAX \in Serial \union {UINT32_MAX}
      BY RtrSessionAssumption DEF Serial, Session
    <3>3. expired' \in [min : Serial \union {UINT32_MAX}, max : Serial]
      <4>1. expired' = [min |-> UINT32_MAX, max |-> 0]
        BY <3>1 DEF NoneExpired
      <4> HIDE DEF UINT32_MAX
      <4> QED BY <4>1, <3>2
    <3>4. entries' \in Seq(Entry)
      BY <3>1
    <3>5. TypeCache'
      BY <2>2, <2>6, <3>1, <3>2, <3>3, <3>4 DEF TypeCache
    <3>6. maxSerial' <= commands'
      BY <3>1, <1>0, <1>1 DEF TypeHistory
    <3>7. TypeHistory'
      BY <2>3, <2>5, <3>1, <3>6, <1>0, <1>1 DEF TypeHistory
    <3> QED BY <2>4, <3>5, <3>7, <1>2, TypeBaseNext
  <2> QED BY <2>7, <2>8, <1>6
<1>7. CASE CacheStarts
  <2>1. /\ running' = TRUE
        /\ UNCHANGED <<session, entries, maxSerial, expired, notify, sending, greeted>>
        /\ UNCHANGED <<up, toCache, toClient, faults, trail, foreign, forgotten>>
    BY <1>7 DEF CacheStarts, cacheData, linkVars, historyVars
  <2>3. TypeCache'
    BY <2>1, <1>0 DEF TypeCache
  <2>4. TypeLink'
    BY <2>1, <1>0 DEF TypeLink
  <2>5. TypeHistory'
    BY <2>1, <1>0, <1>1 DEF TypeHistory
  <2> QED BY <2>3, <2>4, <2>5, <1>2, TypeBaseNext
<1> QED BY <1>3, <1>4, <1>5, <1>6, <1>7

\* The serial number of the newest entry: the console lists it before the cache
\* has it.
Newest == IF change = "listed" THEN maxSerial + 1 ELSE maxSerial

\* A PDU is read and processed.
ReadStep ==
  \/ ReceiveNotify \/ ReceiveResponse \/ ReceiveObject \/ ReceiveEndOfData
  \/ ReceiveCacheReset \/ ReceiveError
  \/ \E type \in {"notify", "error"} : RefuseVersion(type)

\* The End of Data whose serial number the client takes over.
Accepted(p) == p.type = "end of data" /\ SessionMatches(p.session)

\* What reading a PDU does.  After an End of Data that is not accepted the client
\* leaves the loop and does not get past the handshake.
ReadEffect ==
  /\ client.at \in Receiving /\ toClient # <<>> /\ toClient' = Tail(toClient)
  /\ UNCHANGED <<running, session, entries, maxSerial, Newest, expired, notify, sending, greeted, up>>
  /\ UNCHANGED <<commands, faults, forgotten>>
  /\ Steady(client')
  /\ client'.at \in {"handshake", "loop"} =>
       /\ client.at \in {"handshake", "loop"}
       /\ Head(toClient).type = "end of data" => Accepted(Head(toClient))
  /\ client'.serial = (IF Accepted(Head(toClient)) THEN Head(toClient).serial ELSE client.serial)
  /\ foreign' = (foreign /\ ~(up /\ Accepted(Head(toClient))))
  /\ installed' = IF Head(toClient).type = "object"
                  THEN [installed EXCEPT ![Head(toClient).roa] =
                          IF Head(toClient).announced THEN @ + 1 ELSE IF @ > 0 THEN @ - 1 ELSE 0]
                  ELSE installed
  /\ \/ UNCHANGED <<toCache, trail>>
     \/ SendResetQuery
     \/ \E c : c.serial = client.serial /\ c.session \in Session /\ SendSerialQuery(c)

LEMMA PduFields ==
  ASSUME NEW p \in Pdu
  PROVE  /\ p.type \in PduType
         /\ p.type \in {"notify", "response", "end of data"} => p.session \in Session
         /\ p.type = "object" => p.roa \in Roa /\ p.announced \in BOOLEAN
         /\ p.type = "end of data" => p.serial \in Serial
BY DEF Pdu, PduType

LEMMA ReadIs ==
  ASSUME TypeInv, ReadStep
  PROVE  ReadEffect /\ Head(toClient) \in Pdu
<1> DEFINE p == Head(toClient)
<1>1. PICK type : Read(type)
  BY DEF ReadStep, ReceiveNotify, ReceiveResponse, ReceiveObject, ReceiveEndOfData,
         ReceiveCacheReset, ReceiveError, RefuseVersion, Process
<1>2. /\ client.at \in Receiving /\ toClient # <<>> /\ toClient' = Tail(toClient)
      /\ UNCHANGED <<running, session, entries, maxSerial, Newest, expired, notify, sending, greeted, up>>
      /\ UNCHANGED <<commands, faults, forgotten>>
  BY <1>1 DEF Read, cacheVars, cacheData, Newest
<1>3. p \in Pdu
  BY <1>2 DEF TypeInv, TypeOK
<1>4. foreign' = (foreign /\ ~(up /\ Accepted(p)))
  BY <1>1 DEF Read, Accepted
<1>5. Steady(client) /\ client.at # "stopped"
  BY <1>2 DEF TypeInv, TypeOK, Steady, Receiving
<1>6. /\ p.type \in PduType
      /\ p.type \in {"notify", "response", "end of data"} => p.session \in Session
  BY <1>3, PduFields
<1> HIDE DEF p
<1>7. CASE ReceiveNotify
  <2> DEFINE c == [CheckSessionID(p.session) EXCEPT !.lastRecv = "notify"]
  <2>1. /\ p.type = "notify" /\ installed' = installed
        /\ IF SessionMatches(p.session) THEN client' = Polled(c) /\ SendSerialQuery(c)
           ELSE client' = Return(c, "corrupt") /\ UNCHANGED <<toCache, trail>>
    BY <1>7 DEF ReceiveNotify, Process, Read, p
  <2>2. /\ Steady(c) /\ c.at = client.at /\ c.serial = client.serial
        /\ c.lastRecv = "notify" /\ c.session \in Session
    BY <2>1, <1>2, <1>6, CheckSessionIDIs
  <2> HIDE DEF c
  <2>3. CASE SessionMatches(p.session)
    <3>1. client' = Polled(c) /\ SendSerialQuery(c)
      BY <2>1, <2>3
    <3>2. /\ Steady(client') /\ client'.serial = client.serial
          /\ client'.at \in {"handshake", "loop"} => client.at \in {"handshake", "loop"}
      BY <3>1, <2>2, <1>2, PolledIs
    <3> QED BY <1>2, <1>3, <1>4, <2>1, <2>2, <3>1, <3>2 DEF ReadEffect, Accepted, p
  <2>4. CASE ~SessionMatches(p.session)
    <3>1. client' = Return(c, "corrupt") /\ UNCHANGED <<toCache, trail>>
      BY <2>1, <2>4
    <3>2. /\ Steady(client') /\ client'.serial = client.serial
          /\ client'.at \notin {"handshake", "loop"}
      BY <3>1, <2>2, <1>2, ReturnIs
    <3> QED BY <1>2, <1>3, <1>4, <2>1, <3>1, <3>2 DEF ReadEffect, Accepted, p
  <2> QED BY <2>3, <2>4
<1>8. CASE ReceiveResponse
  <2> DEFINE c == [CheckSessionID(p.session) EXCEPT !.lastRecv = "response"]
  <2>1. /\ p.type = "response" /\ UNCHANGED <<toCache, installed, trail>>
        /\ client' = IF SessionMatches(p.session) THEN Polled(c) ELSE [client EXCEPT !.at = "crashed"]
    BY <1>8 DEF ReceiveResponse, Process, Read, p
  <2>2. /\ Steady(c) /\ c.at = client.at /\ c.serial = client.serial
    BY <2>1, <1>2, <1>6, CheckSessionIDIs
  <2> HIDE DEF c
  <2>3. /\ Steady([client EXCEPT !.at = "crashed"])
        /\ [client EXCEPT !.at = "crashed"].serial = client.serial
        /\ [client EXCEPT !.at = "crashed"].at = "crashed"
    BY <1>5 DEF Steady, ClientState, Position
  <2>4. /\ Steady(client') /\ client'.serial = client.serial
        /\ client'.at \in {"handshake", "loop"} => client.at \in {"handshake", "loop"}
    BY <2>1, <2>2, <2>3, <1>2, PolledIs
  <2> QED BY <1>2, <1>3, <1>4, <2>1, <2>4 DEF ReadEffect, Accepted, p
<1>9. CASE ReceiveObject
  <2> DEFINE c == [client EXCEPT !.lastRecv = "object"]
  <2>1. /\ p.type = "object" /\ UNCHANGED <<toCache, trail>> /\ client' = Polled(c)
        /\ installed' = [installed EXCEPT ![p.roa] =
                           IF p.announced THEN @ + 1 ELSE IF @ > 0 THEN @ - 1 ELSE 0]
    BY <1>9 DEF ReceiveObject, Process, Read, p
  <2>2. /\ Steady(c) /\ c.at = client.at /\ c.serial = client.serial
    BY <1>5 DEF Steady, ClientState, PduType
  <2> HIDE DEF c
  <2>4. /\ Steady(client') /\ client'.serial = client.serial
        /\ client'.at \in {"handshake", "loop"} => client.at \in {"handshake", "loop"}
    BY <2>1, <2>2, <1>2, PolledIs
  <2> QED BY <1>2, <1>3, <1>4, <2>1, <2>4 DEF ReadEffect, Accepted, p
<1>10. CASE ReceiveEndOfData
  <2> DEFINE c == [CheckSessionID(p.session) EXCEPT !.lastRecv = "end of data"]
             d == [c EXCEPT !.serial = p.serial]
  <2>1. /\ p.type = "end of data" /\ UNCHANGED <<toCache, installed, trail>>
        /\ client' = IF ~SessionMatches(p.session) THEN Return(c, "corrupt")
                     ELSE IF client.at = "reload" THEN Return(d, "none") ELSE d
    BY <1>10 DEF ReceiveEndOfData, Process, Read, p
  <2>2. /\ Steady(c) /\ c.at = client.at /\ c.serial = client.serial /\ c.lastRecv = "end of data"
    BY <2>1, <1>2, <1>6, CheckSessionIDIs
  <2>3. p.serial \in Serial
    BY <2>1, <1>3, PduFields
  <2> HIDE DEF c
  <2>4. Steady(d) /\ d.at = client.at /\ d.serial = p.serial
    BY <2>2, <2>3 DEF Steady, ClientState
  <2> HIDE DEF d
  <2>5. CASE ~SessionMatches(p.session)
    <3>1. client' = Return(c, "corrupt")
      BY <2>1, <2>5
    <3>2. /\ Steady(client') /\ client'.serial = client.serial
          /\ client'.at \notin {"handshake", "loop"}
      BY <3>1, <2>2, <1>2, ReturnIs
    <3> QED BY <1>2, <1>3, <1>4, <2>1, <2>5, <3>2 DEF ReadEffect, Accepted, p
  <2>6. CASE SessionMatches(p.session)
    <3>1. client' = IF client.at = "reload" THEN Return(d, "none") ELSE d
      BY <2>1, <2>6
    <3>2. /\ Steady(client') /\ client'.serial = p.serial
          /\ client'.at \in {"handshake", "loop"} => client.at \in {"handshake", "loop"}
      BY <3>1, <2>4, <1>2, ReturnIs
    <3> QED BY <1>2, <1>3, <1>4, <2>1, <2>6, <3>2 DEF ReadEffect, Accepted, p
  <2> QED BY <2>5, <2>6
<1>11. CASE ReceiveCacheReset
  <2> DEFINE c == [client EXCEPT !.lastRecv = "cache reset"]
  <2>1. p.type = "cache reset" /\ installed' = installed /\ SendResetQuery /\ client' = Polled(c)
    BY <1>11 DEF ReceiveCacheReset, Process, Read, p
  <2>2. /\ Steady(c) /\ c.at = client.at /\ c.serial = client.serial
    BY <1>5 DEF Steady, ClientState, PduType
  <2> HIDE DEF c
  <2>4. /\ Steady(client') /\ client'.serial = client.serial
        /\ client'.at \in {"handshake", "loop"} => client.at \in {"handshake", "loop"}
    BY <2>1, <2>2, <1>2, PolledIs
  <2> QED BY <1>2, <1>3, <1>4, <2>1, <2>4 DEF ReadEffect, Accepted, p
<1>12. CASE ReceiveError
  <2>1. /\ p.type = "error" /\ UNCHANGED <<toCache, installed, trail>>
        /\ client' = [client EXCEPT !.lastRecv = "error"]
    BY <1>12 DEF ReceiveError, Process, Read, p
  <2>4. Steady(client') /\ client'.serial = client.serial /\ client'.at = client.at
    BY <2>1, <1>5 DEF Steady, ClientState, PduType
  <2> QED BY <1>2, <1>3, <1>4, <2>1, <2>4 DEF ReadEffect, Accepted, p
<1>13. ASSUME NEW t \in {"notify", "error"}, RefuseVersion(t)
       PROVE  ReadEffect /\ p \in Pdu
  <2> DEFINE c == [client EXCEPT !.lastRecv = t]
  <2>1. p.type = t /\ client' = Return(c, "version") /\ UNCHANGED <<toCache, installed, trail>>
    BY <1>13 DEF RefuseVersion, Read, p
  <2>2. Steady(c) /\ c.at = client.at /\ c.serial = client.serial /\ c.lastRecv = t
    BY <1>5 DEF Steady, ClientState, PduType
  <2> HIDE DEF c
  <2>4. /\ Steady(client') /\ client'.serial = client.serial
        /\ client'.at \notin {"handshake", "loop"}
    BY <2>1, <2>2, <1>2, ReturnIs
  <2> QED BY <1>2, <1>3, <1>4, <2>1, <2>4 DEF ReadEffect, Accepted, p
<1> QED BY <1>7, <1>8, <1>9, <1>10, <1>11, <1>12, <1>13 DEF ReadStep, p

\* What a query does to the link and the trail.
LEMMA SendResetQueryIs ==
  ASSUME SendResetQuery
  PROVE  /\ toCache' = IF up THEN Append(toCache, [type |-> "reset query"]) ELSE toCache
         /\ trail' = IF trail = "new" THEN "exact" ELSE "blurred"
BY DEF SendResetQuery, ToCache

LEMMA SendSerialQueryIs ==
  ASSUME NEW c, SendSerialQuery(c)
  PROVE  /\ toCache' = IF up THEN Append(toCache, [type |-> "serial query", session |-> c.session,
                                                   serial |-> c.serial])
                       ELSE toCache
         /\ trail' = IF foreign \/ trail = "astray" THEN "astray"
                     ELSE IF Outstanding THEN "blurred" ELSE trail
BY DEF SendSerialQuery, ToCache

LEMMA ResetQueryType ==
  ASSUME TypeLink, TypeHistory, SendResetQuery
  PROVE  toCache' \in Seq(Query) /\ trail' \in {"new", "exact", "blurred", "astray"}
<1> DEFINE q == [type |-> "reset query"]
<1>1. q \in Query
  BY DEF Query
<1>2. /\ toCache' = Append(toCache, q) \/ toCache' = toCache
      /\ trail' \in {"exact", "blurred"}
  BY SendResetQueryIs
<1> HIDE DEF q
<1> QED BY <1>1, <1>2 DEF TypeLink

LEMMA SerialQueryType ==
  ASSUME TypeLink, TypeHistory, NEW c, c.session \in Session, c.serial \in Serial, SendSerialQuery(c)
  PROVE  toCache' \in Seq(Query) /\ trail' \in {"new", "exact", "blurred", "astray"}
<1> DEFINE q == [type |-> "serial query", session |-> c.session, serial |-> c.serial]
<1>1. q \in Query
  BY DEF Query
<1>2. /\ toCache' = Append(toCache, q) \/ toCache' = toCache
      /\ trail' \in {"astray", "blurred", trail}
  BY SendSerialQueryIs
<1> HIDE DEF q
<1>3. toCache' \in Seq(Query)
  BY <1>1, <1>2 DEF TypeLink
<1>4. trail' \in {"new", "exact", "blurred", "astray"}
  BY <1>2 DEF TypeHistory
<1> QED BY <1>3, <1>4

\* A PDU is read.
LEMMA ReadType ==
  ASSUME TypeInv, ReadStep
  PROVE  TypeBase'
<1>0. TypeCache /\ TypeLink /\ TypeClient /\ TypeHistory
  BY TypeGroups
<1>1. ReadEffect /\ Head(toClient) \in Pdu
  BY ReadIs
<1>2. TypeCache'
  BY <1>0, <1>1 DEF ReadEffect, TypeCache
<1>3. toCache' \in Seq(Query) /\ trail' \in {"new", "exact", "blurred", "astray"}
  <2>1. client.serial \in Serial
    BY <1>0 DEF TypeClient, Steady, ClientState
  <2>2. CASE UNCHANGED <<toCache, trail>>
    BY <2>2, <1>0 DEF TypeLink, TypeHistory
  <2>3. CASE SendResetQuery
    BY <2>3, <1>0, ResetQueryType
  <2>4. CASE \E c : c.serial = client.serial /\ c.session \in Session /\ SendSerialQuery(c)
    BY <2>4, <2>1, <1>0, SerialQueryType
  <2> QED BY <2>2, <2>3, <2>4, <1>1 DEF ReadEffect
<1>4. TypeLink'
  <2>0. toClient # <<>> /\ toClient' = Tail(toClient)
    BY <1>1 DEF ReadEffect
  <2>1. toClient' \in Seq(Pdu)
    BY <2>0, <1>0 DEF TypeLink
  <2> QED BY <2>1, <1>3, <1>0, <1>1 DEF ReadEffect, TypeLink
<1>5. installed' \in [Roa -> Nat]
  <2>1. CASE Head(toClient).type # "object"
    BY <2>1, <1>0, <1>1 DEF ReadEffect, TypeClient
  <2>2. CASE Head(toClient).type = "object"
    <3> DEFINE r == Head(toClient).roa
               v == IF Head(toClient).announced THEN installed[r] + 1
                    ELSE IF installed[r] > 0 THEN installed[r] - 1 ELSE 0
    <3>1. r \in Roa
      BY <2>2, <1>1, PduFields
    <3>2. installed' = [installed EXCEPT ![r] = v]
      BY <2>2, <1>1 DEF ReadEffect
    <3>3. installed \in [Roa -> Nat]
      BY <1>0 DEF TypeClient
    <3>4. v \in Nat
      BY <3>1, <3>3
    <3> HIDE DEF r, v
    <3> QED BY <3>1, <3>2, <3>3, <3>4
  <2> QED BY <2>1, <2>2
<1>6. TypeClient'
  BY <1>1, <1>5 DEF ReadEffect, TypeClient, Steady
<1>7. foreign' \in BOOLEAN
  <2>1. foreign' = (foreign /\ ~(up /\ Accepted(Head(toClient))))
    BY <1>1 DEF ReadEffect
  <2> QED BY <2>1
<1>8. TypeHistory'
  BY <1>0, <1>1, <1>3, <1>7 DEF ReadEffect, TypeHistory
<1> QED BY <1>2, <1>4, <1>6, <1>8, TypeBaseNext

\* A query that starts a connection or follows a change of the session.
StartEffect ==
  /\ \/ SendResetQuery /\ client'.at \in {"handshake", "reload"}
     \/ ~up /\ client'.at \in {"lost", "query"} /\ UNCHANGED <<toCache, trail>>
  /\ client.at \in {"query", "requery"}
  /\ client'.serial = client.serial /\ Steady(client')
  /\ UNCHANGED <<running, session, entries, maxSerial, Newest, expired, notify, sending, greeted, up>>
  /\ UNCHANGED <<toClient, installed, commands, faults, foreign, forgotten>>

LEMMA StartIs ==
  ASSUME TypeInv, ResetQuery \/ SessionChangedQuery
  PROVE  StartEffect
<1>1. Steady(client)
  BY DEF TypeInv, TypeOK, Steady
<1>2. ASSUME NEW from \in {"query", "requery"}, NEW sent \in {"handshake", "reload"},
             NEW failed \in {"lost", "query"}, StartQuery(from, sent, failed)
      PROVE  StartEffect
  <2>1. client.at = from
    BY <1>2 DEF StartQuery
  <2>2. /\ UNCHANGED <<running, session, entries, maxSerial, Newest, expired, notify, sending, greeted, up>>
        /\ UNCHANGED <<toClient, installed, commands, faults, foreign, forgotten>>
    BY <1>2 DEF StartQuery, cacheVars, cacheData, Newest
  <2>3. \/ SendResetQuery /\ client' = [client EXCEPT !.at = sent]
        \/ ~up /\ client' = [client EXCEPT !.at = failed] /\ UNCHANGED <<toCache, trail>>
    BY <1>2 DEF StartQuery
  <2>4. ASSUME NEW a \in {"handshake", "reload", "lost", "query"}, client' = [client EXCEPT !.at = a]
        PROVE  client'.at = a /\ client'.serial = client.serial /\ Steady(client')
    BY <2>4, <2>1, <1>1 DEF Steady, ClientState, Position, Receiving
  <2> QED BY <2>1, <2>2, <2>3, <2>4 DEF StartEffect
<1> QED BY <1>2 DEF ResetQuery, SessionChangedQuery

LEMMA StartType ==
  ASSUME TypeInv, ResetQuery \/ SessionChangedQuery
  PROVE  TypeBase'
<1>0. TypeCache /\ TypeLink /\ TypeClient /\ TypeHistory
  BY TypeGroups
<1>1. StartEffect
  BY StartIs
<1>2. toCache' \in Seq(Query) /\ trail' \in {"new", "exact", "blurred", "astray"}
  <2>1. CASE SendResetQuery
    BY <2>1, <1>0, ResetQueryType
  <2>2. CASE UNCHANGED <<toCache, trail>>
    BY <2>2, <1>0 DEF TypeLink, TypeHistory
  <2> QED BY <2>1, <2>2, <1>1 DEF StartEffect
<1>3. TypeCache'
  BY <1>0, <1>1 DEF StartEffect, TypeCache
<1>4. TypeLink'
  BY <1>0, <1>1, <1>2 DEF StartEffect, TypeLink
<1>5. TypeClient'
  BY <1>0, <1>1 DEF StartEffect, TypeClient, Steady
<1>6. TypeHistory'
  BY <1>0, <1>1, <1>2 DEF StartEffect, TypeHistory
<1> QED BY <1>3, <1>4, <1>5, <1>6, TypeBaseNext

\* A connection that fails or is set up again.
FailsEffect ==
  /\ ~up /\ client'.serial = client.serial /\ Steady(client') /\ client.at \in Receiving
  /\ UNCHANGED <<running, session, entries, maxSerial, Newest, expired, notify, sending, greeted, up>>
  /\ UNCHANGED <<toCache, toClient, installed, commands, faults, trail, foreign, forgotten>>

ReconnectEffect ==
  /\ client.at = "lost" /\ client'.at \in {"requery", "query"}
  /\ client'.serial = client.serial /\ Steady(client')
  /\ up' = running /\ toCache' = <<>> /\ toClient' = <<>> /\ sending' = <<>> /\ greeted' = FALSE
  /\ UNCHANGED <<running, session, entries, maxSerial, Newest, expired, notify>>
  /\ UNCHANGED <<installed, commands, faults, trail, foreign, forgotten>>

LEMMA FailsIs == ASSUME TypeInv, ReceiveFails PROVE FailsEffect
<1> DEFINE c == [client EXCEPT !.fd = FALSE]
<1>1. Steady(client) /\ client.at \in Receiving
  BY DEF TypeInv, TypeOK, Steady, ReceiveFails
<1>2. Steady(c) /\ c.at = client.at /\ c.serial = client.serial
  BY <1>1 DEF Steady, ClientState
<1>3. client' = Return(c, "socket")
  BY DEF ReceiveFails
<1> HIDE DEF c
<1>4. Steady(client') /\ client'.serial = client.serial
  BY <1>1, <1>2, <1>3, ReturnIs
<1>5. /\ ~up /\ UNCHANGED <<running, session, entries, maxSerial, Newest, expired, notify, sending, greeted, up>>
      /\ UNCHANGED <<toCache, toClient, installed, commands, faults, trail, foreign, forgotten>>
  BY DEF ReceiveFails, cacheVars, cacheData, linkVars, historyVars, Newest
<1> QED BY <1>1, <1>4, <1>5 DEF FailsEffect

LEMMA ReconnectIs == ASSUME TypeInv, Reconnect PROVE ReconnectEffect
<1>1. Steady(client) /\ client.at = "lost" /\ running \in BOOLEAN
  BY DEF TypeInv, TypeOK, Steady, Reconnect
<1>2. client' = [client EXCEPT !.at = IF client.changed THEN "requery" ELSE "query",
                               !.startup = @ \/ client.changed, !.fd = running]
  BY DEF Reconnect
<1>3. Steady(client') /\ client'.serial = client.serial /\ client'.at \in {"requery", "query"}
  <2> DEFINE a == IF client.changed THEN "requery" ELSE "query"
             b == client.startup \/ client.changed
  <2>1. a \in {"requery", "query"} /\ b \in BOOLEAN
    OBVIOUS
  <2>2. client' = [client EXCEPT !.at = a, !.startup = b, !.fd = running]
    BY <1>2
  <2> HIDE DEF a, b
  <2> QED BY <2>1, <2>2, <1>1 DEF Steady, ClientState, Position
<1>4. /\ up' = running /\ toCache' = <<>> /\ toClient' = <<>> /\ sending' = <<>> /\ greeted' = FALSE
      /\ UNCHANGED <<running, session, entries, maxSerial, Newest, expired, notify>>
      /\ UNCHANGED <<installed, commands, faults, trail, foreign, forgotten>>
  BY DEF Reconnect, cacheData, historyVars, Newest
<1> QED BY <1>1, <1>3, <1>4 DEF ReconnectEffect

LEMMA LinkType ==
  ASSUME TypeInv, ReceiveFails \/ Reconnect
  PROVE  TypeBase'
<1>0. TypeCache /\ TypeLink /\ TypeClient /\ TypeHistory
  BY TypeGroups
<1>1. CASE ReceiveFails
  <2>1. FailsEffect
    BY <1>1, FailsIs
  <2>2. TypeCache' /\ TypeLink'
    BY <2>1, <1>0 DEF FailsEffect, TypeCache, TypeLink
  <2>3. TypeClient' /\ TypeHistory'
    BY <2>1, <1>0 DEF FailsEffect, TypeClient, TypeHistory, Steady
  <2> QED BY <2>2, <2>3, TypeBaseNext
<1>2. CASE Reconnect
  <2>1. ReconnectEffect
    BY <1>2, ReconnectIs
  <2>2. toCache' \in Seq(Query) /\ toClient' \in Seq(Pdu) /\ sending' \in Seq(Part)
    BY <2>1 DEF ReconnectEffect
  <2>3. TypeCache'
    BY <2>1, <2>2, <1>0 DEF ReconnectEffect, TypeCache
  <2>4. TypeLink'
    BY <2>1, <2>2, <1>0 DEF ReconnectEffect, TypeCache, TypeLink
  <2>5. TypeClient' /\ TypeHistory'
    BY <2>1, <1>0 DEF ReconnectEffect, TypeClient, TypeHistory, Steady
  <2> QED BY <2>3, <2>4, <2>5, TypeBaseNext
<1> QED BY <1>1, <1>2

\* The console goes on with a change, or the timer gets stuck.
ConsoleStep == Appends \/ RaiseSerial \/ RequestNotify \/ TimerBlocks

\* What raising the serial number does: it never exceeds the number of commands.
LEMMA RaiseSerialIs ==
  ASSUME TypeInv, RaiseSerial
  PROVE  /\ change = "listed" /\ change' \in {"none", "numbered"} /\ numBefore' = 0
         /\ maxSerial' \in Serial /\ maxSerial' <= commands /\ miscounted' \in BOOLEAN
         /\ miscounted => miscounted'
         /\ ~miscounted' => maxSerial' = maxSerial + 1
         /\ UNCHANGED <<running, session, entries, expired, stuck, notify, sending, greeted>>
         /\ UNCHANGED <<up, toCache, toClient, client, installed>>
         /\ UNCHANGED <<commands, faults, trail, foreign, forgotten>>
<1> DEFINE n == Len(entries) - numBefore
           S == {0, maxSerial + n}
<1>1. /\ change = "listed" /\ maxSerial' = Max(S) /\ numBefore' = 0
      /\ change' \in {"none", "numbered"}
      /\ miscounted' = (miscounted \/ n # 1)
  BY DEF RaiseSerial
<1>2. /\ UNCHANGED <<running, session, entries, expired, stuck, notify, sending, greeted>>
      /\ UNCHANGED <<up, toCache, toClient, client, installed>>
      /\ UNCHANGED <<commands, faults, trail, foreign, forgotten>>
  BY DEF RaiseSerial, linkVars, clientVars, historyVars
<1>3. /\ maxSerial \in 0 .. MaxCommands /\ commands \in 0 .. MaxCommands /\ MaxCommands \in Nat
      /\ maxSerial < commands /\ Len(entries) <= numBefore + 1 /\ numBefore \in Nat
      /\ Len(entries) \in Nat
  BY <1>1, RtrSessionAssumption DEF TypeInv, TypeOK, Counting, Serial
<1>4. n \in Int /\ n <= 1
  BY <1>3
<1> HIDE DEF n
<1>5. Max(S) \in S /\ \A x \in S : Max(S) >= x
  <2>1. \E x \in S : \A y \in S : x >= y
    <3>1. CASE maxSerial + n >= 0
      BY <3>1, <1>3, <1>4
    <3>2. CASE ~(maxSerial + n >= 0)
      BY <3>2, <1>3, <1>4
    <3> QED BY <3>1, <3>2
  <2> QED BY <2>1 DEF Max
<1>6. Max(S) \in 0 .. MaxCommands /\ Max(S) <= commands /\ (n = 1 => Max(S) = maxSerial + 1)
  <2> DEFINE m == Max(S)
  <2>1. (m = 0 \/ m = maxSerial + n) /\ m >= 0 /\ m >= maxSerial + n
    BY <1>5
  <2> HIDE DEF m
  <2>2. m \in 0 .. MaxCommands /\ m <= commands /\ (n = 1 => m = maxSerial + 1)
    BY <2>1, <1>3, <1>4
  <2> QED BY <2>2 DEF m
<1> HIDE DEF S
<1>7. miscounted' \in BOOLEAN /\ (miscounted => miscounted') /\ (~miscounted' => n = 1)
  BY <1>1
<1> QED BY <1>1, <1>2, <1>6, <1>7 DEF Serial

LEMMA ConsoleType ==
  ASSUME TypeInv, ConsoleStep
  PROVE  TypeBase'
<1>0. TypeCache /\ TypeLink /\ TypeClient /\ TypeHistory
  BY TypeGroups
<1>1. ASSUME NEW r \in Roa, AppendPrefix(r) PROVE TypeBase'
  <2> DEFINE e == [roa |-> r, serial |-> maxSerial + 1, prevSerial |-> maxSerial + 1, announced |-> TRUE]
  <2>1. /\ entries' = Append(entries, e) /\ change = "counted"
        /\ UNCHANGED <<running, session, maxSerial, expired, notify, sending, greeted>>
        /\ UNCHANGED <<up, toCache, toClient, client, installed>>
        /\ UNCHANGED <<commands, faults, trail, foreign, forgotten>>
    BY <1>1 DEF AppendPrefix, linkVars, clientVars, historyVars
  <2>2. e \in Entry
    <3>1. maxSerial \in 0 .. MaxCommands /\ commands \in 0 .. MaxCommands /\ maxSerial < commands
      BY <2>1 DEF TypeInv, TypeOK, Counting, Serial
    <3>2. maxSerial + 1 \in Serial
      BY <3>1, RtrSessionAssumption DEF Serial
    <3> QED BY <3>2, EntryType
  <2> HIDE DEF e
  <2>3. entries' \in Seq(Entry)
    BY <2>1, <2>2, <1>0 DEF TypeCache
  <2>4. TypeCache' /\ TypeLink'
    BY <2>1, <2>3, <1>0 DEF TypeCache, TypeLink
  <2>5. TypeClient' /\ TypeHistory'
    BY <2>1, <1>0 DEF TypeClient, TypeHistory, Steady
  <2> QED BY <2>4, <2>5, TypeBaseNext
<1>2. CASE RaiseSerial
  <2>1. /\ maxSerial' \in Serial /\ maxSerial' <= commands
        /\ UNCHANGED <<running, session, entries, expired, stuck, notify, sending, greeted>>
        /\ UNCHANGED <<up, toCache, toClient, client, installed>>
        /\ UNCHANGED <<commands, faults, trail, foreign, forgotten>>
    BY <1>2, RaiseSerialIs
  <2>2. TypeCache' /\ TypeLink'
    BY <2>1, <1>0 DEF TypeCache, TypeLink
  <2>3. TypeClient' /\ TypeHistory'
    BY <2>1, <1>0 DEF TypeClient, TypeHistory, Steady
  <2> QED BY <2>2, <2>3, TypeBaseNext
<1>3. CASE RequestNotify
  <2>1. /\ notify' = TRUE /\ forgotten' = FALSE
        /\ UNCHANGED <<running, session, entries, maxSerial, expired, sending, greeted>>
        /\ UNCHANGED <<up, toCache, toClient, client, installed>>
        /\ UNCHANGED <<commands, faults, trail, foreign>>
    BY <1>3 DEF RequestNotify, linkVars, clientVars
  <2>2. TypeCache' /\ TypeLink'
    BY <2>1, <1>0 DEF TypeCache, TypeLink
  <2>3. TypeClient' /\ TypeHistory'
    BY <2>1, <1>0 DEF TypeClient, TypeHistory, Steady
  <2> QED BY <2>2, <2>3, TypeBaseNext
<1>4. CASE TimerBlocks
  <2>1. /\ faults < MaxFaults /\ faults' = faults + 1
        /\ UNCHANGED <<running, session, entries, maxSerial, expired, notify, sending, greeted>>
        /\ UNCHANGED <<up, toCache, toClient, client, installed>>
        /\ UNCHANGED <<commands, trail, foreign, forgotten>>
    BY <1>4 DEF TimerBlocks, linkVars, clientVars
  <2>2. TypeCache' /\ TypeLink'
    BY <2>1, <1>0 DEF TypeCache, TypeLink
  <2>3. faults' \in 0 .. MaxFaults
    BY <2>1, <1>0, RtrSessionAssumption DEF TypeHistory
  <2>4. TypeClient' /\ TypeHistory'
    BY <2>1, <2>3, <1>0 DEF TypeClient, TypeHistory, Steady
  <2> QED BY <2>2, <2>4, TypeBaseNext
<1> QED BY <1>1, <1>2, <1>3, <1>4 DEF ConsoleStep, Appends

\* A part of a sequence is not longer than the sequence.
LEMMA SelectIsShorter ==
  ASSUME NEW es, es \in Seq(Entry), NEW K \in SUBSET DOMAIN es
  PROVE  Len(Select(es, K)) <= Len(es)
<1>1. /\ IsFiniteSet(DOMAIN es) /\ Cardinality(DOMAIN es) = Len(es)
  <2>1. DOMAIN es = 1 .. Len(es) /\ Len(es) \in Nat
    OBVIOUS
  <2> DEFINE n == Len(es)
  <2>2. n \in Nat /\ DOMAIN es = 1 .. n
    BY <2>1
  <2> HIDE DEF n
  <2>3. IsFiniteSet(1 .. n) /\ Cardinality(1 .. n) = IF 1 > n THEN 0 ELSE n - 1 + 1
    BY <2>2, FS_Interval
  <2>4. Cardinality(1 .. n) = n
    BY <2>2, <2>3
  <2> QED BY <2>2, <2>3, <2>4 DEF n
<1>2. Cardinality(K) \in Nat /\ Cardinality(K) <= Len(es)
  BY <1>1, FS_Subset, FS_CardinalityType
<1>3. Len(Select(es, K)) = Cardinality(K)
  BY <1>2 DEF Select
<1> QED BY <1>2, <1>3

\* The kinds of steps.
LEMMA NextCases ==
  ASSUME Next
  PROVE  \/ ReadStep \/ ResetQuery \/ SessionChangedQuery \/ ReceiveFails \/ Reconnect
         \/ Commands \/ ConsoleStep
         \/ \E age \in Serial : TimerExpired(age)
         \/ HandleQuery \/ SendPdu \/ OtherQuery
         \/ LoseConnection \/ CacheStops \/ CacheStarts
BY DEF Next, ClientNext, ReadStep, ConsoleStep, Timer

\* The stages of a change and the count of its entries.
LEMMA ConsoleNext ==
  ASSUME TypeInv, Next
  PROVE  TypeConsole'
<1>0. TypeConsole /\ TypeHistory /\ TypeCache
  BY TypeGroups
<1>1. ASSUME UNCHANGED <<entries, maxSerial, change, numBefore, stuck, miscounted, commands>>
      PROVE  TypeConsole'
  BY <1>0, <1>1 DEF TypeConsole, Counting
<1>2. CASE ReadStep \/ ResetQuery \/ SessionChangedQuery \/ ReceiveFails \/ Reconnect
  <2>1. UNCHANGED cacheData /\ UNCHANGED commands
    BY <1>2 DEF ReadStep, ReceiveNotify, ReceiveResponse, ReceiveObject, ReceiveEndOfData,
                ReceiveCacheReset, ReceiveError, RefuseVersion, Process, Read, ResetQuery,
                SessionChangedQuery, StartQuery, ReceiveFails, Reconnect, cacheVars, historyVars
  <2> QED BY <2>1, <1>1 DEF cacheData
<1>3. CASE HandleQuery \/ SendPdu \/ OtherQuery \/ LoseConnection \/ CacheStarts
  <2>1. UNCHANGED cacheData /\ UNCHANGED commands
    BY <1>3 DEF HandleQuery, SendPdu, OtherQuery, LoseConnection, CacheStarts, Disconnect, historyVars
  <2> QED BY <2>1, <1>1 DEF cacheData
<1>4. CASE CacheStops
  <2>1. change' = "none" /\ numBefore' = 0 /\ stuck' = FALSE /\ miscounted' = miscounted
    BY <1>4 DEF CacheStops
  <2> QED BY <2>1, <1>0 DEF TypeConsole, Counting
<1>5. CASE Commands
  <2>1. Command
    BY <1>5 DEF Commands, CountEntries, RemoveEntry, EmptyCache, SendSerialNotify, ChangeSession,
                SendUnasked, Change
  <2>2. UNCHANGED <<stuck, miscounted>> /\ change = "none"
    BY <2>1 DEF Command
  <2>3. CASE CountEntries
    <3>1. UNCHANGED <<entries, maxSerial>> /\ numBefore' = Len(entries) /\ change' = "counted"
      BY <2>3 DEF CountEntries
    <3>2. maxSerial + 1 <= commands' /\ maxSerial \in 0 .. MaxCommands /\ commands' \in 0 .. MaxCommands
      BY <2>1, CommandTypes, <1>0 DEF TypeCache, Serial
    <3>3. Len(entries) \in Nat
      BY <1>0 DEF TypeCache
    <3> QED BY <3>1, <3>2, <3>3, <2>2, <1>0 DEF TypeConsole, Counting
  <2>4. CASE ~CountEntries
    <3>1. change' \in {"none", "numbered"} /\ numBefore' = numBefore
      BY <2>2, <2>4, <1>5 DEF Commands, RemoveEntry, EmptyCache, SendSerialNotify, ChangeSession,
                              SendUnasked, Change, cacheData
    <3> QED BY <3>1, <2>2, <1>0 DEF TypeConsole, Counting
  <2> QED BY <2>3, <2>4
<1>6. ASSUME NEW r \in Roa, AppendPrefix(r) PROVE TypeConsole'
  <2> DEFINE e == [roa |-> r, serial |-> maxSerial + 1, prevSerial |-> maxSerial + 1, announced |-> TRUE]
  <2>1. /\ change = "counted" /\ change' = "listed" /\ entries' = Append(entries, e)
        /\ UNCHANGED <<maxSerial, commands, numBefore, stuck, miscounted>>
    BY <1>6 DEF AppendPrefix, historyVars
  <2> HIDE DEF e
  <2>2. Len(entries') = Len(entries) + 1
    BY <2>1, <1>0 DEF TypeCache
  <2>3. Len(entries) \in Nat
    BY <1>0 DEF TypeCache
  <2> QED BY <2>1, <2>2, <2>3, <1>0 DEF TypeConsole, Counting
<1>7. CASE RaiseSerial
  <2>1. /\ change' \in {"none", "numbered"} /\ numBefore' = 0 /\ miscounted' \in BOOLEAN
        /\ stuck' = stuck
    BY <1>7, RaiseSerialIs
  <2> QED BY <2>1, <1>0 DEF TypeConsole, Counting
<1>8. CASE RequestNotify
  <2>1. change' = "none" /\ UNCHANGED <<numBefore, stuck, miscounted>>
    BY <1>8 DEF RequestNotify
  <2> QED BY <2>1, <1>0 DEF TypeConsole, Counting
<1>9. CASE TimerBlocks
  <2>1. stuck' = TRUE /\ UNCHANGED <<entries, maxSerial, change, numBefore, miscounted, commands>>
    BY <1>9 DEF TimerBlocks
  <2> QED BY <2>1, <1>0 DEF TypeConsole, Counting
<1>10. ASSUME NEW age \in Serial, TimerExpired(age) PROVE TypeConsole'
  <2>1. /\ entries' = Select(entries, DOMAIN entries \ Old(age))
        /\ UNCHANGED <<maxSerial, change, numBefore, stuck, miscounted, commands>>
    BY <1>10 DEF TimerExpired, Old, historyVars
  <2>2. entries \in Seq(Entry)
    BY <1>0 DEF TypeCache
  <2>3. Len(entries') <= Len(entries)
    BY <2>1, <2>2, SelectIsShorter
  <2>4. Len(entries) \in Nat /\ Len(entries') \in Nat
    BY <2>1, <2>2, <1>0, SelectType
  <2> QED BY <2>1, <2>3, <2>4, <1>0 DEF TypeConsole, Counting
<1> QED BY NextCases, <1>2, <1>3, <1>4, <1>5, <1>6, <1>7, <1>8, <1>9, <1>10 DEF ConsoleStep, Appends

LEMMA TypeNext == TypeInv /\ [Next]_vars => TypeInv'
<1> SUFFICES ASSUME TypeInv, [Next]_vars PROVE TypeInv'
  OBVIOUS
<1>1. CASE Next
  <2>1. TypeBase'
    BY <1>1, NextCases, ReadType, StartType, LinkType, CommandsType, ConsoleType, TimerType, CacheType
  <2> QED BY <2>1, <1>1, ConsoleNext, TypeGroupsNext
<1>2. CASE UNCHANGED vars
  <2>0. TypeCache /\ TypeLink /\ TypeClient /\ TypeHistory /\ TypeConsole
    BY TypeGroups
  <2>1. TypeCache' /\ TypeLink' /\ TypeConsole'
    BY <1>2, <2>0 DEF vars, cacheVars, cacheData, linkVars, historyVars, TypeCache, TypeLink,
                      TypeConsole, Counting
  <2>2. TypeClient' /\ TypeHistory'
    BY <1>2, <2>0 DEF vars, cacheVars, cacheData, clientVars, historyVars, TypeClient, TypeHistory, Steady
  <2> QED BY <2>1, <2>2, TypeGroupsNext, TypeBaseNext
<1> QED BY <1>1, <1>2

LEMMA TypeInvariant == Spec => []TypeInv
BY TypeInit, TypeNext, PTL DEF Spec

\* Every variable of the router client, the cache and their connection keeps its
\* type; no ROA's count in the prefix cache becomes negative, and a serial number
\* never exceeds the number of commands given to the cache.
THEOREM RtrSessionTypes == Spec => []TypeOK
<1>1. TypeInv => TypeOK
  BY DEF TypeInv
<1> QED BY <1>1, TypeInvariant, PTL

-----------------------------------------------------------------------------
(***************************************************************************)
(* The order of the serial numbers.                                        *)
(***************************************************************************)

\* Serial numbers grow along the cache; an entry is announced if and only if its
\* two serial numbers are equal; an entry that is followed by another one of its
\* ROA was withdrawn before the ROA was announced again.
Ordered(es, max) ==
  /\ \A i \in DOMAIN es :
       /\ 0 < es[i].prevSerial /\ es[i].prevSerial <= es[i].serial /\ es[i].serial <= max
       /\ es[i].announced <=> es[i].serial = es[i].prevSerial
  /\ \A i, j \in DOMAIN es : i < j =>
       /\ es[i].serial < es[j].serial
       /\ es[i].roa = es[j].roa => ~es[i].announced /\ es[i].serial < es[j].prevSerial

OrderInv == TypeInv /\ Ordered(entries, Newest) /\ expired.max <= Newest

LEMMA NewestType == ASSUME TypeInv PROVE maxSerial \in Nat /\ Newest \in Nat /\ maxSerial <= Newest
<1>1. maxSerial \in Nat
  BY RtrSessionAssumption DEF TypeInv, TypeOK, Serial
<1> QED BY <1>1 DEF Newest

LEMMA EntryFields ==
  ASSUME NEW e \in Entry
  PROVE  e.roa \in Roa /\ e.serial \in Nat /\ e.prevSerial \in Nat /\ e.announced \in BOOLEAN
BY RtrSessionAssumption DEF Entry, Serial

LEMMA ElementFields ==
  ASSUME NEW es \in Seq(Entry), NEW i \in DOMAIN es
  PROVE  /\ es[i] \in Entry /\ i \in Nat
         /\ es[i].roa \in Roa /\ es[i].serial \in Nat
         /\ es[i].prevSerial \in Nat /\ es[i].announced \in BOOLEAN
<1>1. es[i] \in Entry /\ i \in Nat
  OBVIOUS
<1> QED BY <1>1, EntryFields

LEMMA SelectionIsOrdered ==
  ASSUME NEW es, NEW max, Ordered(es, max), NEW K \in SUBSET DOMAIN es, NEW seq, NEW f,
         IsSelection(seq, es, K, f)
  PROVE  Ordered(seq, max)
<1>1. \A i \in DOMAIN seq : f[i] \in DOMAIN es /\ seq[i] = es[f[i]]
  BY DEF IsSelection
<1>2. \A i, j \in DOMAIN seq : i < j => f[i] < f[j]
  BY DEF IsSelection
<1> QED BY <1>1, <1>2 DEF Ordered

\* A new entry gets the next serial number.
LEMMA AppendIsOrdered ==
  ASSUME NEW es \in Seq(Entry), NEW max \in Nat, Ordered(es, max), NEW e \in Entry,
         e.serial = max + 1, 0 < e.prevSerial, e.prevSerial <= e.serial,
         e.announced <=> e.serial = e.prevSerial,
         \A i \in DOMAIN es : es[i].roa = e.roa => ~es[i].announced /\ es[i].serial < e.prevSerial
  PROVE  Ordered(Append(es, e), max + 1)
<1> DEFINE n == Len(es)
           fs == Append(es, e)
<1>1. /\ n \in Nat /\ DOMAIN es = 1 .. n /\ DOMAIN fs = 1 .. n + 1
      /\ \A i \in 1 .. n : fs[i] = es[i]
      /\ fs[n + 1] = e
  OBVIOUS
<1> HIDE DEF n, fs
<1>2. \A i \in 1 .. n : es[i].serial \in Nat /\ es[i].serial <= max
  BY <1>1, ElementFields DEF Ordered
<1>3. ASSUME NEW i \in DOMAIN fs
      PROVE  /\ 0 < fs[i].prevSerial /\ fs[i].prevSerial <= fs[i].serial /\ fs[i].serial <= max + 1
             /\ fs[i].announced <=> fs[i].serial = fs[i].prevSerial
  <2>1. CASE i \in 1 .. n
    <3>1. fs[i] = es[i] /\ i \in DOMAIN es
      BY <2>1, <1>1
    <3> QED BY <3>1, <2>1, <1>2 DEF Ordered
  <2>2. CASE i = n + 1
    BY <2>2, <1>1
  <2> QED BY <2>1, <2>2, <1>1
<1>4. ASSUME NEW i \in DOMAIN fs, NEW j \in DOMAIN fs, i < j
      PROVE  /\ fs[i].serial < fs[j].serial
             /\ fs[i].roa = fs[j].roa => ~fs[i].announced /\ fs[i].serial < fs[j].prevSerial
  <2>1. i \in 1 .. n /\ fs[i] = es[i] /\ i \in DOMAIN es
    BY <1>1, <1>4
  <2>2. CASE j \in 1 .. n
    <3>1. fs[j] = es[j] /\ j \in DOMAIN es
      BY <2>2, <1>1
    <3> QED BY <3>1, <2>1, <1>4 DEF Ordered
  <2>3. CASE j = n + 1
    <3>1. fs[j] = e
      BY <2>3, <1>1
    <3> QED BY <3>1, <2>1, <1>2
  <2> QED BY <2>2, <2>3, <1>1
<1>5. Ordered(fs, max + 1)
  BY <1>3, <1>4 DEF Ordered
<1> QED BY <1>5 DEF fs

LEMMA OrderInit == Init => OrderInv
<1> SUFFICES ASSUME Init PROVE OrderInv
  OBVIOUS
<1>1. TypeInv
  BY TypeInit
<1>2. entries = <<>> /\ expired.max = 0 /\ maxSerial = 0
  BY DEF Init, NoneExpired
<1>4. Newest = 0
  BY <1>2 DEF Init, Newest
<1>3. Ordered(entries, Newest)
  BY <1>2 DEF Ordered
<1> QED BY <1>1, <1>2, <1>3, <1>4 DEF OrderInv

\* What a change by the operator does to the entries: some are kept, and one is
\* appended with the next serial number.
ChangeEffect(K, es, f, e) ==
  /\ K \in SUBSET DOMAIN entries /\ es \in Seq(Entry) /\ IsSelection(es, entries, K, f)
  /\ e \in Entry /\ entries' = Append(es, e) /\ Newest' = Newest + 1
  /\ e.serial = Newest + 1
  /\ Ordered(entries', Newest')
  /\ sending = <<>> /\ UNCHANGED <<running, session, greeted, up, toCache, toClient, client>>
  /\ UNCHANGED <<installed, sending, expired, trail, foreign>>

LEMMA AppendPrefixIs ==
  ASSUME OrderInv, NEW r \in Roa, AppendPrefix(r)
  PROVE  \E e, f : /\ ChangeEffect(DOMAIN entries, entries, f, e)
                   /\ e.roa = r /\ e.announced /\ e.prevSerial = Newest + 1
<1> DEFINE n == maxSerial + 1
           e == [roa |-> r, serial |-> n, prevSerial |-> n, announced |-> TRUE]
<1>0. maxSerial \in Nat /\ Newest = maxSerial /\ Newest' = maxSerial' + 1
  BY NewestType DEF OrderInv, AppendPrefix, Newest
<1>1. entries \in Seq(Entry) /\ Ordered(entries, maxSerial)
  BY <1>0 DEF OrderInv, TypeInv, TypeOK
<1>2. /\ entries' = Append(entries, e) /\ Newest' = n
      /\ sending = <<>> /\ UNCHANGED <<running, session, greeted, up, toCache, toClient, client>>
      /\ UNCHANGED <<installed, sending, expired, trail, foreign>>
      /\ ~IsAnnounced(r)
  BY <1>0 DEF AppendPrefix, WriteLock, linkVars, clientVars, historyVars
<1>3. n \in Serial
  <2>1. maxSerial \in 0 .. MaxCommands /\ commands \in 0 .. MaxCommands /\ maxSerial < commands
    BY DEF AppendPrefix, OrderInv, TypeInv, TypeOK, Counting, Serial
  <2> QED BY <2>1, RtrSessionAssumption DEF Serial
<1>4. e \in Entry /\ e.roa = r /\ e.serial = n /\ e.prevSerial = n /\ e.announced = TRUE
  BY <1>3, EntryType
<1>5. n \in Nat /\ n = maxSerial + 1 /\ 0 < n /\ n <= n
  BY <1>0
<1> HIDE DEF n, e
<1>6. ASSUME NEW i \in DOMAIN entries, entries[i].roa = e.roa
      PROVE  ~entries[i].announced /\ entries[i].serial < e.prevSerial
  <2>1. ~entries[i].announced
    BY <1>6, <1>4, <1>2 DEF IsAnnounced
  <2>2. entries[i].serial \in Nat /\ entries[i].serial <= maxSerial
    BY <1>1, ElementFields DEF Ordered
  <2>3. entries[i].serial < n
    BY <2>2, <1>0, <1>5
  <2> QED BY <2>1, <2>3, <1>4
<1>7. Ordered(entries', Newest')
  <2>1. Ordered(Append(entries, e), maxSerial + 1)
    BY <1>0, <1>1, <1>4, <1>5, <1>6, AppendIsOrdered
  <2> QED BY <2>1, <1>2, <1>5
<1>8. IsSelection(entries, entries, DOMAIN entries, [i \in DOMAIN entries |-> i])
  BY DEF IsSelection
<1>9. ChangeEffect(DOMAIN entries, entries, [i \in DOMAIN entries |-> i], e)
  BY <1>0, <1>1, <1>2, <1>4, <1>5, <1>7, <1>8 DEF ChangeEffect
<1> QED BY <1>9, <1>0, <1>4, <1>5

LEMMA RemoveEntryIs ==
  ASSUME OrderInv, NEW i \in DOMAIN entries, RemoveEntry(i)
  PROVE  /\ entries[i].announced
         /\ \E es, e, f : /\ ChangeEffect(DOMAIN entries \ {i}, es, f, e)
                          /\ e.roa = entries[i].roa /\ ~e.announced
                          /\ e.prevSerial = entries[i].prevSerial
<1> DEFINE n == maxSerial + 1
           K == DOMAIN entries \ {i}
           es == Select(entries, K)
           e == [entries[i] EXCEPT !.serial = n, !.announced = FALSE]
<1>0. maxSerial \in Nat /\ Newest = maxSerial /\ Newest' = maxSerial'
  BY NewestType DEF OrderInv, RemoveEntry, Change, Command, Newest
<1>1. entries \in Seq(Entry) /\ Ordered(entries, maxSerial)
  BY <1>0 DEF OrderInv, TypeInv, TypeOK
<1>2. /\ entries' = Append(es, e) /\ Newest' = n
      /\ sending = <<>> /\ UNCHANGED <<running, session, greeted, up, toCache, toClient, client>>
      /\ UNCHANGED <<installed, sending, expired, trail, foreign>>
      /\ entries[i].serial = entries[i].prevSerial /\ Command
  BY <1>0 DEF RemoveEntry, Change, Command, WriteLock, clientVars
<1>3. n \in Serial
  BY <1>2, CommandTypes DEF OrderInv
<1>4. entries[i] \in Entry /\ i \in Nat
  BY <1>1, ElementFields
<1>5. n \in Nat /\ n = maxSerial + 1
  BY <1>0
<1> HIDE DEF n
<1>6. /\ e \in Entry /\ e.roa = entries[i].roa /\ e.serial = n
      /\ e.prevSerial = entries[i].prevSerial /\ e.announced = FALSE
  BY <1>3, <1>4 DEF Entry
<1>7. /\ entries[i].announced /\ entries[i].serial \in Nat /\ entries[i].prevSerial \in Nat
      /\ 0 < entries[i].prevSerial /\ entries[i].prevSerial <= entries[i].serial
      /\ entries[i].serial <= maxSerial
  BY <1>1, <1>2, ElementFields DEF Ordered
<1>8. es \in Seq(Entry) /\ \E f : IsSelection(es, entries, K, f)
  BY <1>1, SelectIs
<1> HIDE DEF es, e
<1>9. PICK f : IsSelection(es, entries, K, f)
  BY <1>8
<1>10. Ordered(es, maxSerial)
  BY <1>9, <1>1, SelectionIsOrdered
<1>11. ASSUME NEW j \in DOMAIN es, es[j].roa = e.roa
       PROVE  ~es[j].announced /\ es[j].serial < e.prevSerial
  <2>1. f[j] \in DOMAIN entries /\ f[j] # i /\ es[j] = entries[f[j]]
    BY <1>9 DEF IsSelection
  <2>2. f[j] \in Nat /\ i \in Nat
    BY <2>1, <1>1, ElementFields
  <2>3. entries[f[j]].roa = entries[i].roa
    BY <2>1, <1>11, <1>6
  <2>4. \A x, y \in DOMAIN entries : x < y /\ entries[x].roa = entries[y].roa =>
          ~entries[x].announced /\ entries[x].serial < entries[y].prevSerial
    BY <1>1 DEF Ordered
  <2>5. CASE f[j] < i
    BY <2>1, <2>3, <2>4, <2>5, <1>6
  <2>6. CASE i < f[j]
    BY <2>1, <2>3, <2>4, <2>6, <1>7
  <2>7. f[j] < i \/ i < f[j]
    BY <2>1, <2>2
  <2> QED BY <2>5, <2>6, <2>7
<1>12. Ordered(entries', Newest')
  <2>1. e.serial = maxSerial + 1 /\ 0 < e.prevSerial /\ e.prevSerial <= e.serial
        /\ (e.announced <=> e.serial = e.prevSerial)
    BY <1>0, <1>5, <1>6, <1>7
  <2>2. Ordered(Append(es, e), maxSerial + 1)
    BY <2>1, <1>0, <1>6, <1>8, <1>10, <1>11, AppendIsOrdered
  <2> QED BY <2>2, <1>2, <1>5
<1>13. ChangeEffect(K, es, f, e)
  BY <1>0, <1>2, <1>5, <1>6, <1>8, <1>9, <1>12 DEF ChangeEffect
<1> QED BY <1>13, <1>6, <1>7

\* A wrong count of the new entries is not forgotten.
LEMMA MiscountStays == ASSUME TypeInv, [Next]_vars, miscounted PROVE miscounted'
<1>1. CASE RaiseSerial
  BY <1>1, RaiseSerialIs
<1>2. CASE ReadStep \/ ResetQuery \/ SessionChangedQuery \/ ReceiveFails \/ Reconnect
  BY <1>2 DEF ReadStep, ReceiveNotify, ReceiveResponse, ReceiveObject, ReceiveEndOfData,
              ReceiveCacheReset, ReceiveError, RefuseVersion, Process, Read, ResetQuery,
              SessionChangedQuery, StartQuery, ReceiveFails, Reconnect, cacheVars, cacheData
<1>3. CASE Commands
  BY <1>3 DEF Commands, CountEntries, RemoveEntry, EmptyCache, SendSerialNotify, ChangeSession,
              SendUnasked, Change, Command
<1>4. CASE Appends \/ RequestNotify \/ TimerBlocks \/ \E age \in Serial : TimerExpired(age)
  BY <1>4 DEF Appends, AppendPrefix, RequestNotify, TimerBlocks, TimerExpired
<1>5. CASE HandleQuery \/ SendPdu \/ OtherQuery \/ LoseConnection \/ CacheStops \/ CacheStarts
  BY <1>5 DEF HandleQuery, SendPdu, OtherQuery, LoseConnection, CacheStops, CacheStarts, cacheData
<1>6. CASE UNCHANGED vars
  BY <1>6 DEF vars, cacheVars, cacheData
<1> QED BY <1>1, <1>2, <1>3, <1>4, <1>5, <1>6, NextCases DEF ConsoleStep

\* The steps that say nothing new: the console counts, raises the serial number to
\* that of the newest entry or asks for a notify, or the timer gets stuck.
ConsoleEffect ==
  /\ UNCHANGED <<running, session, entries, Newest, expired, sending, greeted, up>>
  /\ UNCHANGED <<toCache, toClient, client, installed, trail, foreign>>

LEMMA ConsoleIs ==
  ASSUME TypeInv, CountEntries \/ RaiseSerial \/ RequestNotify \/ TimerBlocks, ~miscounted'
  PROVE  ConsoleEffect
<1>1. CASE CountEntries
  BY <1>1 DEF CountEntries, Command, clientVars, Newest, ConsoleEffect
<1>2. CASE RaiseSerial
  <2>1. Newest' = Newest
    BY <1>2, RaiseSerialIs DEF Newest
  <2> QED BY <2>1, <1>2, RaiseSerialIs DEF ConsoleEffect
<1>3. CASE RequestNotify
  BY <1>3 DEF RequestNotify, linkVars, clientVars, Newest, ConsoleEffect
<1>4. CASE TimerBlocks
  BY <1>4 DEF TimerBlocks, linkVars, clientVars, Newest, ConsoleEffect
<1> QED BY <1>1, <1>2, <1>3, <1>4

LEMMA OrderNext == OrderInv /\ [Next]_vars /\ ~miscounted' => OrderInv'
<1> SUFFICES ASSUME OrderInv, [Next]_vars, ~miscounted' PROVE OrderInv'
  OBVIOUS
<1>1. TypeInv' /\ TypeInv
  BY TypeNext DEF OrderInv
<1>2. /\ Newest \in Nat /\ expired.max \in Nat /\ expired.max <= Newest
      /\ entries \in Seq(Entry) /\ Ordered(entries, Newest)
  BY RtrSessionAssumption, NewestType DEF OrderInv, TypeInv, TypeOK, Serial
<1>3. CASE UNCHANGED <<entries, Newest, expired>>
  BY <1>1, <1>2, <1>3 DEF OrderInv
<1>4. CASE Next
  <2>1. CASE ReadStep
    BY <2>1, <1>1, <1>3, ReadIs DEF ReadEffect
  <2>2. CASE ResetQuery \/ SessionChangedQuery
    BY <2>2, <1>1, <1>3, StartIs DEF StartEffect
  <2>3. CASE ReceiveFails \/ Reconnect
    BY <2>3, <1>1, <1>3, FailsIs, ReconnectIs DEF FailsEffect, ReconnectEffect
  <2>4. CASE SendSerialNotify \/ (\E s \in Session : ChangeSession(s))
             \/ (\E type \in {"cache reset", "error"} : SendUnasked(type))
    BY <2>4, <1>3 DEF SendSerialNotify, ChangeSession, SendUnasked, cacheData, Newest
  <2>5. CASE (\E r \in Roa : AppendPrefix(r)) \/ (\E i \in DOMAIN entries : RemoveEntry(i))
    <3>1. Newest' = Newest + 1 /\ expired' = expired /\ Ordered(entries', Newest')
      BY <2>5, AppendPrefixIs, RemoveEntryIs DEF ChangeEffect
    <3> QED BY <3>1, <1>1, <1>2 DEF OrderInv
  <2>6. CASE EmptyCache
    <3>1. entries' = <<>> /\ UNCHANGED <<Newest, expired>>
      BY <2>6 DEF EmptyCache, Change, Newest
    <3>2. Ordered(entries', Newest')
      BY <3>1 DEF Ordered
    <3> QED BY <3>1, <3>2, <1>1, <1>2 DEF OrderInv
  <2>7. ASSUME NEW age \in Serial, TimerExpired(age) PROVE OrderInv'
    <3>1. entries' = Select(entries, DOMAIN entries \ Old(age)) /\ Newest' = Newest
      BY <2>7 DEF TimerExpired, Old, Newest
    <3>2. \E f : IsSelection(entries', entries, DOMAIN entries \ Old(age), f)
      BY <3>1, <1>2, SelectIs
    <3>3. Ordered(entries', Newest')
      BY <3>1, <3>2, <1>2, SelectionIsOrdered
    <3>4. expired'.max \in {expired.max} \union {entries[i].serial : i \in Old(age)}
      BY <2>7, <1>1, TimerBounds
    <3>5. \A i \in Old(age) : entries[i].serial <= Newest
      BY <1>2 DEF Old, Ordered
    <3>6. expired'.max <= Newest'
      BY <3>1, <3>4, <3>5, <1>2
    <3> QED BY <3>3, <3>6, <1>1 DEF OrderInv
  <2>8. CASE CacheStops
    <3>1. entries' = <<>> /\ Newest' = 0 /\ expired'.max = 0
      BY <2>8 DEF CacheStops, NoneExpired, Newest
    <3>2. Ordered(entries', Newest')
      BY <3>1 DEF Ordered
    <3> QED BY <3>1, <3>2, <1>1 DEF OrderInv
  <2>9. CASE HandleQuery \/ SendPdu \/ OtherQuery \/ LoseConnection \/ CacheStarts
    BY <2>9, <1>3 DEF HandleQuery, SendPdu, OtherQuery, LoseConnection, CacheStarts, cacheData, Newest
  <2>10. CASE CountEntries \/ RaiseSerial \/ RequestNotify \/ TimerBlocks
    BY <2>10, <1>1, <1>3, ConsoleIs DEF ConsoleEffect
  <2> QED BY <1>4, <2>1, <2>2, <2>3, <2>4, <2>5, <2>6, <2>7, <2>8, <2>9, <2>10, NextCases
           DEF Commands, ConsoleStep, Appends
<1>5. CASE UNCHANGED vars
  BY <1>5, <1>3 DEF vars, cacheVars, cacheData, Newest
<1> QED BY <1>4, <1>5

-----------------------------------------------------------------------------
(***************************************************************************)
(* What the client knows or will ask for.                                  *)
(***************************************************************************)
IsEnd(m) == m.type = "end of data"
IsReset(m) == m.type = "reset query"
IsWord(m, r, a) == m.type = "object" /\ m.roa = r /\ m.announced = a

IsTooNew(q, max) == q.type = "serial query" /\ q.serial > max
ResetFollows(seq, i) == \E j \in DOMAIN seq : j > i /\ IsReset(seq[j])

NoReset == \A i \in DOMAIN toCache : ~IsReset(toCache[i])
NoEnd(seq) == \A i \in DOMAIN seq : ~IsEnd(seq[i])
EndsUpTo(seq, max) == \A i \in DOMAIN seq : IsEnd(seq[i]) => seq[i].serial <= max
EndsBelow(seq, s) == \A i \in DOMAIN seq : IsEnd(seq[i]) => seq[i].serial < s
QueriesBelow(seq, s) == \A i \in DOMAIN seq : seq[i].type = "serial query" => seq[i].serial < s

\* Serial numbers on their way, and that of the client, are numbers of the cache
\* at the other end; a query with another one is followed by a Reset Query.
SerialsAreKnown ==
  /\ ~foreign => client.serial <= Newest
  /\ up \/ ~foreign => EndsUpTo(toClient, Newest)
  /\ trail # "astray" =>
       \A i \in DOMAIN toCache : IsTooNew(toCache[i], Newest) => ResetFollows(toCache, i)
  /\ ~up => toCache = <<>>

Following == up /\ client.at \in {"handshake", "loop"}

\* A client with a serial number of an earlier cache will be given a new one.
FreshStart ==
  Following /\ foreign /\ trail # "astray" => ~NoReset \/ ~NoEnd(toClient) \/ ~NoEnd(sending)

\* The ROA is announced, and not withdrawn afterwards.
EndsWell(seq, r) ==
  \E i \in DOMAIN seq : /\ IsWord(seq[i], r, TRUE)
                        /\ \A j \in DOMAIN seq : j > i => ~IsWord(seq[j], r, FALSE)
NoWithdrawal(seq, r) == \A i \in DOMAIN seq : ~IsWord(seq[i], r, FALSE)

\* The client will have the ROA when all that is on its way has arrived.
WillKnow(r) ==
  \/ EndsWell(sending, r)
  \/ NoWithdrawal(sending, r) /\ EndsWell(toClient, r)
  \/ NoWithdrawal(sending, r) /\ NoWithdrawal(toClient, r) /\ installed[r] > 0

\* The client has and will get a serial number that is too small for s.
WillAsk(s) ==
  /\ ~foreign => client.serial < s
  /\ EndsBelow(toClient, s) /\ NoEnd(sending)
  /\ QueriesBelow(toCache, s)

\* Unless a Reset Query is on its way, the client will have each announced ROA or
\* ask for it.
Covered ==
  Following /\ trail # "astray" /\ NoReset =>
    \A i \in DOMAIN entries : entries[i].announced =>
      WillKnow(entries[i].roa) \/ WillAsk(entries[i].serial)

KnowInv == OrderInv /\ SerialsAreKnown /\ FreshStart /\ Covered

LEMMA TailIs ==
  ASSUME NEW S, NEW s \in Seq(S), s # <<>>
  PROVE  /\ 1 \in DOMAIN s /\ s[1] = Head(s) /\ Tail(s) \in Seq(S) /\ Head(s) \in S
         /\ \A i \in DOMAIN Tail(s) : i \in Nat /\ i + 1 \in DOMAIN s /\ Tail(s)[i] = s[i + 1]
         /\ \A i \in DOMAIN s : /\ i \in Nat
                                /\ i # 1 => i - 1 \in DOMAIN Tail(s) /\ Tail(s)[i - 1] = s[i]
                                /\ i # 1 => i > 1
OBVIOUS

LEMMA AppendIs ==
  ASSUME NEW S, NEW s \in Seq(S), NEW e
  PROVE  /\ Len(s) \in Nat /\ DOMAIN s = 1 .. Len(s)
         /\ DOMAIN Append(s, e) = 1 .. Len(s) + 1
         /\ Append(s, e)[Len(s) + 1] = e
         /\ \A i \in DOMAIN s : /\ i \in Nat /\ i < Len(s) + 1 /\ i \in DOMAIN Append(s, e)
                                /\ Append(s, e)[i] = s[i]
         /\ \A i \in DOMAIN Append(s, e) : i \in Nat /\ (i \in DOMAIN s \/ i = Len(s) + 1)
         /\ Len(s) + 1 \in DOMAIN Append(s, e)
OBVIOUS

LEMMA EndsWellTail ==
  ASSUME NEW S, NEW s \in Seq(S), s # <<>>, NEW r
  PROVE  /\ NoWithdrawal(s, r) => NoWithdrawal(Tail(s), r)
         /\ EndsWell(s, r) => \/ EndsWell(Tail(s), r)
                              \/ IsWord(Head(s), r, TRUE) /\ NoWithdrawal(Tail(s), r)
         /\ IsWord(Head(s), r, FALSE) => ~NoWithdrawal(s, r)
<1>1. /\ 1 \in DOMAIN s /\ s[1] = Head(s)
      /\ \A i \in DOMAIN Tail(s) : i \in Nat /\ i + 1 \in DOMAIN s /\ Tail(s)[i] = s[i + 1]
      /\ \A i \in DOMAIN s : /\ i \in Nat
                             /\ i # 1 => i - 1 \in DOMAIN Tail(s) /\ Tail(s)[i - 1] = s[i]
                             /\ i # 1 => i > 1
  BY TailIs
<1>2. NoWithdrawal(s, r) => NoWithdrawal(Tail(s), r)
  BY <1>1 DEF NoWithdrawal
<1>3. ASSUME EndsWell(s, r)
      PROVE  EndsWell(Tail(s), r) \/ (IsWord(Head(s), r, TRUE) /\ NoWithdrawal(Tail(s), r))
  <2>1. PICK i \in DOMAIN s : /\ IsWord(s[i], r, TRUE)
                              /\ \A j \in DOMAIN s : j > i => ~IsWord(s[j], r, FALSE)
    BY <1>3 DEF EndsWell
  <2>2. CASE i = 1
    <3>1. ASSUME NEW j \in DOMAIN Tail(s) PROVE ~IsWord(Tail(s)[j], r, FALSE)
      <4>1. DOMAIN Tail(s) = 1 .. Len(Tail(s)) /\ Tail(s) \in Seq(S)
        BY TailIs
      <4>2. j + 1 > i
        BY <2>2, <4>1
      <4> QED BY <4>2, <2>1, <1>1
    <3> QED BY <3>1, <2>1, <2>2, <1>1 DEF NoWithdrawal
  <2>3. CASE i # 1
    <3>1. i - 1 \in DOMAIN Tail(s) /\ Tail(s)[i - 1] = s[i] /\ i \in Nat
      BY <2>3, <1>1
    <3>2. ASSUME NEW j \in DOMAIN Tail(s), j > i - 1 PROVE ~IsWord(Tail(s)[j], r, FALSE)
      <4>1. j + 1 \in DOMAIN s /\ Tail(s)[j] = s[j + 1] /\ j \in Nat
        BY <1>1
      <4>2. j + 1 > i
        BY <3>1, <3>2, <4>1
      <4> QED BY <4>1, <4>2, <2>1
    <3> QED BY <3>1, <3>2, <2>1 DEF EndsWell
  <2> QED BY <2>2, <2>3
<1> QED BY <1>1, <1>2, <1>3 DEF NoWithdrawal

LEMMA EndsWellAppend ==
  ASSUME NEW S, NEW s \in Seq(S), NEW e, NEW r
  PROVE  /\ IsWord(e, r, TRUE) => EndsWell(Append(s, e), r)
         /\ NoWithdrawal(s, r) /\ ~IsWord(e, r, FALSE) => NoWithdrawal(Append(s, e), r)
         /\ EndsWell(s, r) /\ ~IsWord(e, r, FALSE) => EndsWell(Append(s, e), r)
<1>1. /\ Len(s) \in Nat
      /\ Append(s, e)[Len(s) + 1] = e
      /\ \A i \in DOMAIN s : /\ i \in Nat /\ i < Len(s) + 1 /\ i \in DOMAIN Append(s, e)
                             /\ Append(s, e)[i] = s[i]
      /\ \A i \in DOMAIN Append(s, e) : i \in Nat /\ (i \in DOMAIN s \/ i = Len(s) + 1)
      /\ Len(s) + 1 \in DOMAIN Append(s, e)
  BY AppendIs
<1>2. ASSUME NEW j \in DOMAIN Append(s, e) PROVE ~(j > Len(s) + 1)
  BY <1>1
<1> QED BY <1>1, <1>2 DEF EndsWell, NoWithdrawal

\* The queries on their way: one may be added.
QuerySent ==
  \/ UNCHANGED <<toCache, trail>>
  \/ SendResetQuery
  \/ \E c : c.serial = client.serial /\ c.session \in Session /\ SendSerialQuery(c)

\* The part of SerialsAreKnown about the queries.
QueriesAreKnown ==
  /\ trail # "astray" =>
       \A i \in DOMAIN toCache : IsTooNew(toCache[i], Newest) => ResetFollows(toCache, i)
  /\ ~up => toCache = <<>>

LEMMA KnownIsNotTooNew ==
  ASSUME NEW max \in Nat, NEW n \in Nat, n <= max, NEW q, q.serial = n
  PROVE  ~IsTooNew(q, max)
<1>1. ~(n > max)
  OBVIOUS
<1> QED BY <1>1 DEF IsTooNew

LEMMA QuerySentIs ==
  ASSUME KnowInv, QuerySent, UNCHANGED <<up, Newest>>
  PROVE  /\ QueriesAreKnown'
         /\ up /\ NoReset' /\ trail' # "astray" =>
              /\ NoReset /\ trail # "astray"
              /\ \A s : (~foreign => client.serial < s) /\ QueriesBelow(toCache, s) =>
                          QueriesBelow(toCache', s)
<1>1. toCache \in Seq(Query)
  BY DEF KnowInv, OrderInv, TypeInv, TypeOK
<1>2. QueriesAreKnown /\ (~foreign => client.serial <= Newest)
  BY DEF KnowInv, SerialsAreKnown, QueriesAreKnown
<1>3. CASE UNCHANGED <<toCache, trail>>
  BY <1>2, <1>3 DEF QueriesAreKnown, NoReset
<1>4. CASE toCache' = toCache /\ ~up
  <2>1. toCache = <<>>
    BY <1>2, <1>4 DEF QueriesAreKnown
  <2> QED BY <2>1, <1>4 DEF QueriesAreKnown
<1>5. CASE SendResetQuery /\ up
  <2> DEFINE q == [type |-> "reset query"]
  <2>1. toCache' = Append(toCache, q)
    BY <1>5, SendResetQueryIs
  <2>2. IsReset(q) /\ q.type # "serial query"
    BY DEF IsReset
  <2> HIDE DEF q
  <2>3. /\ Len(toCache) + 1 \in DOMAIN toCache' /\ toCache'[Len(toCache) + 1] = q
        /\ \A i \in DOMAIN toCache' : i \in DOMAIN toCache \/ i = Len(toCache) + 1
        /\ \A i \in DOMAIN toCache : i < Len(toCache) + 1 /\ i \in Nat
        /\ Len(toCache) \in Nat
    BY <1>1, <2>1, AppendIs
  <2>4. ASSUME NEW i \in DOMAIN toCache', toCache'[i].type = "serial query"
        PROVE  ResetFollows(toCache', i)
    <3>1. i # Len(toCache) + 1
      BY <2>2, <2>3, <2>4
    <3>2. Len(toCache) + 1 > i
      BY <3>1, <2>3
    <3> QED BY <3>2, <2>2, <2>3 DEF ResetFollows
  <2>5. QueriesAreKnown'
    BY <2>4, <1>5 DEF QueriesAreKnown, IsTooNew
  <2>6. ~NoReset'
    BY <2>2, <2>3 DEF NoReset
  <2> QED BY <2>5, <2>6
<1>6. ASSUME NEW c, c.serial = client.serial, c.session \in Session, SendSerialQuery(c), up
      PROVE  /\ QueriesAreKnown'
             /\ up /\ NoReset' /\ trail' # "astray" =>
                  /\ NoReset /\ trail # "astray"
                  /\ \A s : (~foreign => client.serial < s) /\ QueriesBelow(toCache, s) =>
                              QueriesBelow(toCache', s)
  <2> DEFINE q == [type |-> "serial query", session |-> c.session, serial |-> c.serial]
  <2>1. /\ toCache' = Append(toCache, q)
        /\ trail' # "astray" => ~foreign /\ trail # "astray"
    BY <1>6 DEF SendSerialQuery, ToCache
  <2>2. ~IsReset(q) /\ q.type = "serial query" /\ q.serial = client.serial
    BY <1>6 DEF IsReset
  <2> HIDE DEF q
  <2>3. /\ Len(toCache) + 1 \in DOMAIN toCache' /\ toCache'[Len(toCache) + 1] = q
        /\ \A i \in DOMAIN toCache' : i \in DOMAIN toCache \/ i = Len(toCache) + 1
        /\ \A i \in DOMAIN toCache : i \in DOMAIN toCache' /\ toCache'[i] = toCache[i]
    BY <1>1, <2>1, AppendIs
  <2>4. NoReset' => NoReset
    BY <2>3 DEF NoReset
  <2>5. ASSUME trail' # "astray", NEW i \in DOMAIN toCache', IsTooNew(toCache'[i], Newest)
        PROVE  ResetFollows(toCache', i)
    <3>1. client.serial <= Newest /\ Newest \in Nat /\ client.serial \in Nat
      <4>1. Newest \in Nat /\ client.serial \in Serial
        BY NewestType DEF KnowInv, OrderInv, TypeInv, TypeOK, ClientState
      <4>2. ~foreign
        BY <2>5, <2>1
      <4>3. client.serial <= Newest
        BY <4>2, <1>2
      <4> QED BY <4>1, <4>3, RtrSessionAssumption DEF Serial
    <3>2. ~IsTooNew(q, Newest)
      BY <3>1, <2>2, KnownIsNotTooNew
    <3>3. i \in DOMAIN toCache /\ toCache'[i] = toCache[i]
      BY <3>2, <2>3, <2>5
    <3>4. ResetFollows(toCache, i)
      BY <3>3, <2>1, <2>5, <1>2 DEF QueriesAreKnown
    <3> QED BY <3>4, <2>3 DEF ResetFollows
  <2>6. QueriesAreKnown'
    BY <2>5, <1>6 DEF QueriesAreKnown
  <2>7. ASSUME up, NoReset', trail' # "astray"
        PROVE  /\ NoReset /\ trail # "astray"
               /\ \A s : (~foreign => client.serial < s) /\ QueriesBelow(toCache, s) =>
                           QueriesBelow(toCache', s)
    BY <2>7, <2>1, <2>2, <2>3, <2>4 DEF QueriesBelow
  <2> QED BY <2>6, <2>7
<1>7. up \/ toCache' = toCache \/ UNCHANGED <<toCache, trail>>
  BY DEF QuerySent, SendResetQuery, SendSerialQuery, ToCache
<1> QED BY <1>3, <1>4, <1>5, <1>6, <1>7 DEF QuerySent

LEMMA EndsTail ==
  ASSUME NEW S, NEW s \in Seq(S), s # <<>>
  PROVE  /\ \A n : EndsUpTo(s, n) => EndsUpTo(Tail(s), n) /\ (IsEnd(Head(s)) => Head(s).serial <= n)
         /\ \A n : EndsBelow(s, n) => EndsBelow(Tail(s), n) /\ (IsEnd(Head(s)) => Head(s).serial < n)
         /\ NoEnd(s) <=> NoEnd(Tail(s)) /\ ~IsEnd(Head(s))
<1>1. /\ 1 \in DOMAIN s /\ s[1] = Head(s)
      /\ \A i \in DOMAIN Tail(s) : i + 1 \in DOMAIN s /\ Tail(s)[i] = s[i + 1]
      /\ \A i \in DOMAIN s : i # 1 => i - 1 \in DOMAIN Tail(s) /\ Tail(s)[i - 1] = s[i]
  BY TailIs
<1> QED BY <1>1 DEF EndsUpTo, EndsBelow, NoEnd

LEMMA EndsAppend ==
  ASSUME NEW S, NEW s \in Seq(S), NEW e
  PROVE  /\ \A n : EndsUpTo(s, n) /\ (IsEnd(e) => e.serial <= n) => EndsUpTo(Append(s, e), n)
         /\ \A n : EndsBelow(s, n) /\ ~IsEnd(e) => EndsBelow(Append(s, e), n)
         /\ NoEnd(Append(s, e)) <=> NoEnd(s) /\ ~IsEnd(e)
<1>1. /\ Append(s, e)[Len(s) + 1] = e
      /\ \A i \in DOMAIN s : i \in DOMAIN Append(s, e) /\ Append(s, e)[i] = s[i]
      /\ \A i \in DOMAIN Append(s, e) : i \in DOMAIN s \/ i = Len(s) + 1
      /\ Len(s) + 1 \in DOMAIN Append(s, e)
  BY AppendIs
<1> QED BY <1>1 DEF EndsUpTo, EndsBelow, NoEnd

LEMMA KnowTypes ==
  ASSUME KnowInv
  PROVE  /\ TypeInv /\ entries \in Seq(Entry) /\ sending \in Seq(Part)
         /\ toCache \in Seq(Query) /\ toClient \in Seq(Pdu) /\ installed \in [Roa -> Nat]
         /\ maxSerial \in Nat /\ Newest \in Nat /\ maxSerial <= Newest
         /\ client.serial \in Nat /\ TypeCache
         /\ up \in BOOLEAN /\ foreign \in BOOLEAN
<1>1. TypeInv
  BY DEF KnowInv, OrderInv
<1>2. TypeCache /\ TypeLink /\ TypeClient /\ TypeHistory
  BY <1>1, TypeGroups
<1>3. client.serial \in Serial
  BY <1>2 DEF TypeClient, Steady, ClientState
<1>4. maxSerial \in Nat /\ Newest \in Nat /\ maxSerial <= Newest /\ client.serial \in Nat
  BY <1>1, <1>3, NewestType, RtrSessionAssumption DEF Serial
<1> QED BY <1>1, <1>2, <1>4 DEF TypeCache, TypeLink, TypeClient, TypeHistory

\* A PDU is read.
LEMMA ReadKnows ==
  ASSUME KnowInv, ReadStep
  PROVE  SerialsAreKnown' /\ FreshStart' /\ Covered'
<1> DEFINE p == Head(toClient)
<1>1. ReadEffect /\ p \in Pdu
  BY KnowTypes, ReadIs
<1>2. QuerySent /\ UNCHANGED <<up, Newest, entries, sending>>
  BY <1>1 DEF ReadEffect, QuerySent
<1>3. /\ QueriesAreKnown'
      /\ up /\ NoReset' /\ trail' # "astray" =>
           /\ NoReset /\ trail # "astray"
           /\ \A s : (~foreign => client.serial < s) /\ QueriesBelow(toCache, s) =>
                       QueriesBelow(toCache', s)
  BY <1>2, QuerySentIs
<1>4. toClient # <<>> /\ toClient' = Tail(toClient) /\ toClient \in Seq(Pdu)
  BY <1>1, KnowTypes DEF ReadEffect
<1>5. foreign' = (foreign /\ ~(up /\ Accepted(p)))
  BY <1>1 DEF ReadEffect
<1>6. client'.serial = IF Accepted(p) THEN p.serial ELSE client.serial
  BY <1>1 DEF ReadEffect
<1>7. /\ \A n : EndsUpTo(toClient, n) => EndsUpTo(toClient', n) /\ (IsEnd(p) => p.serial <= n)
      /\ \A n : EndsBelow(toClient, n) => EndsBelow(toClient', n) /\ (IsEnd(p) => p.serial < n)
      /\ NoEnd(toClient) <=> NoEnd(toClient') /\ ~IsEnd(p)
  BY <1>4, EndsTail
<1>8. client'.at \in {"handshake", "loop"} =>
        client.at \in {"handshake", "loop"} /\ (IsEnd(p) => Accepted(p))
  BY <1>1 DEF ReadEffect, IsEnd
<1>9. Accepted(p) => IsEnd(p)
  BY DEF Accepted, IsEnd
<1>10. SerialsAreKnown'
  <2>1. ~foreign' => client'.serial <= Newest
    <3>1. CASE Accepted(p)
      <4>1. ~foreign' => up \/ ~foreign
        BY <1>5
      <4> QED BY <4>1, <3>1, <1>6, <1>7, <1>9 DEF KnowInv, SerialsAreKnown
    <3>2. CASE ~Accepted(p)
      <4>1. ~foreign' => ~foreign
        BY <3>2, <1>5
      <4> QED BY <4>1, <3>2, <1>6 DEF KnowInv, SerialsAreKnown
    <3> QED BY <3>1, <3>2
  <2>2. up \/ ~foreign' => EndsUpTo(toClient', Newest)
    <3>1. ~foreign' => up \/ ~foreign
      BY <1>5
    <3> QED BY <3>1, <1>7 DEF KnowInv, SerialsAreKnown
  <2> QED BY <2>1, <2>2, <1>2, <1>3 DEF SerialsAreKnown, QueriesAreKnown
<1>11. FreshStart'
  <2> SUFFICES ASSUME Following', foreign', trail' # "astray", NoReset', NoEnd(toClient'), NoEnd(sending')
               PROVE  FALSE
    BY DEF FreshStart
  <2>1. Following /\ foreign /\ ~(up /\ Accepted(p)) /\ up
    BY <1>2, <1>5, <1>8 DEF Following
  <2>2. NoReset /\ trail # "astray" /\ NoEnd(sending)
    BY <2>1, <1>2, <1>3
  <2>3. ~NoEnd(toClient)
    BY <2>1, <2>2 DEF KnowInv, FreshStart
  <2>4. IsEnd(p)
    BY <2>3, <1>7
  <2> QED BY <2>1, <2>4, <1>8 DEF Following
<1>12. Covered'
  <2> SUFFICES ASSUME Following', trail' # "astray", NoReset', NEW i \in DOMAIN entries, entries[i].announced
               PROVE  (WillKnow(entries[i].roa) \/ WillAsk(entries[i].serial))'
    BY <1>2 DEF Covered
  <2> DEFINE r == entries[i].roa
             s == entries[i].serial
  <2>1. Following /\ up
    BY <1>2, <1>8 DEF Following
  <2>2. /\ NoReset /\ trail # "astray"
        /\ (~foreign => client.serial < s) /\ QueriesBelow(toCache, s) => QueriesBelow(toCache', s)
    BY <2>1, <1>3
  <2>3. WillKnow(r) \/ WillAsk(s)
    BY <2>1, <2>2 DEF KnowInv, Covered
  <2>4. r \in Roa /\ r' = r /\ s' = s
    BY <1>2, KnowTypes, ElementFields
  <2> HIDE DEF r, s
  <2>5. CASE WillAsk(s)
    <3>1. ~foreign' => client'.serial < s
      <4>1. CASE Accepted(p)
        BY <4>1, <2>5, <1>6, <1>7, <1>9 DEF WillAsk
      <4>2. CASE ~Accepted(p)
        <5>1. ~foreign' => ~foreign
          BY <4>2, <1>5
        <5> QED BY <5>1, <4>2, <2>5, <1>6 DEF WillAsk
      <4> QED BY <4>1, <4>2
    <3> QED BY <3>1, <2>2, <2>4, <2>5, <1>2, <1>7 DEF WillAsk, r, s
  <2>6. CASE WillKnow(r)
    <3>1. /\ NoWithdrawal(toClient, r) => NoWithdrawal(toClient', r)
          /\ EndsWell(toClient, r) => \/ EndsWell(toClient', r)
                                      \/ IsWord(p, r, TRUE) /\ NoWithdrawal(toClient', r)
          /\ IsWord(p, r, FALSE) => ~NoWithdrawal(toClient, r)
      BY <1>4, EndsWellTail
    <3>2. /\ IsWord(p, r, TRUE) => installed'[r] > 0
          /\ installed[r] > 0 /\ ~IsWord(p, r, FALSE) => installed'[r] > 0
      <4>1. installed[r] \in Nat /\ installed \in [Roa -> Nat]
        BY <2>4, KnowTypes
      <4>2. installed' = IF p.type = "object"
                         THEN [installed EXCEPT ![p.roa] = IF p.announced THEN @ + 1 ELSE IF @ > 0 THEN @ - 1 ELSE 0]
                         ELSE installed
        BY <1>1 DEF ReadEffect
      <4>3. p.type = "object" => p.announced \in BOOLEAN
        BY <1>1, PduFields
      <4>4. CASE p.type = "object" /\ p.roa = r
        <5>1. installed'[r] = IF p.announced THEN installed[r] + 1
                              ELSE IF installed[r] > 0 THEN installed[r] - 1 ELSE 0
          BY <4>1, <4>2, <4>4, <2>4
        <5> QED BY <5>1, <4>1, <4>3, <4>4 DEF IsWord
      <4>5. CASE ~(p.type = "object" /\ p.roa = r)
        <5>1. installed'[r] = installed[r]
          BY <4>1, <4>2, <4>5, <2>4
        <5> QED BY <5>1, <4>5 DEF IsWord
      <4> QED BY <4>4, <4>5
    <3>3. WillKnow(r)'
      <4>1. sending' = sending /\ r' = r
        BY <1>2, <2>4
      <4> QED BY <3>1, <3>2, <2>6, <4>1 DEF WillKnow
    <3> QED BY <3>3, <2>4, <1>2 DEF r
  <2> QED BY <2>3, <2>5, <2>6
<1> QED BY <1>10, <1>11, <1>12

\* The client is told something that is not part of an answer, or nothing, and
\* the cache has no new entries.
LEMMA TellKnows ==
  ASSUME KnowInv,
         \/ toClient' = toClient
         \/ \E m : m.type \notin {"end of data", "object"} /\ toClient' = Append(toClient, m),
         UNCHANGED <<client, foreign, Newest, installed, up, toCache, sending>>,
         trail' # "astray" => trail # "astray",
         \A i \in DOMAIN entries' : \E j \in DOMAIN entries : entries'[i] = entries[j]
  PROVE  SerialsAreKnown' /\ FreshStart' /\ Covered'
<1>1. /\ \A n : EndsUpTo(toClient, n) => EndsUpTo(toClient', n)
      /\ \A n : EndsBelow(toClient, n) => EndsBelow(toClient', n)
      /\ NoEnd(toClient) <=> NoEnd(toClient')
      /\ \A r : NoWithdrawal(toClient, r) => NoWithdrawal(toClient', r)
      /\ \A r : EndsWell(toClient, r) => EndsWell(toClient', r)
  <2>1. CASE toClient' = toClient
    BY <2>1
  <2>2. ASSUME NEW m, m.type \notin {"end of data", "object"}, toClient' = Append(toClient, m)
        PROVE  /\ \A n : EndsUpTo(toClient, n) => EndsUpTo(toClient', n)
               /\ \A n : EndsBelow(toClient, n) => EndsBelow(toClient', n)
               /\ NoEnd(toClient) <=> NoEnd(toClient')
               /\ \A r : NoWithdrawal(toClient, r) => NoWithdrawal(toClient', r)
               /\ \A r : EndsWell(toClient, r) => EndsWell(toClient', r)
    <3>1. ~IsEnd(m) /\ \A r : ~IsWord(m, r, FALSE)
      BY <2>2 DEF IsEnd, IsWord
    <3>2. toClient \in Seq(Pdu)
      BY KnowTypes
    <3> QED BY <3>1, <3>2, <2>2, EndsAppend, EndsWellAppend
  <2> QED BY <2>1, <2>2
<1>2. SerialsAreKnown'
  BY <1>1 DEF KnowInv, SerialsAreKnown
<1>3. FreshStart'
  BY <1>1 DEF KnowInv, FreshStart, Following, NoReset
<1>4. Covered'
  <2> SUFFICES ASSUME Following', trail' # "astray", NoReset', NEW i \in DOMAIN entries', entries'[i].announced
               PROVE  (WillKnow(entries[i].roa) \/ WillAsk(entries[i].serial))'
    BY DEF Covered
  <2>1. PICK j \in DOMAIN entries : entries'[i] = entries[j]
    OBVIOUS
  <2>2. WillKnow(entries[j].roa) \/ WillAsk(entries[j].serial)
    BY <2>1 DEF KnowInv, Covered, Following, NoReset
  <2> DEFINE r == entries[j].roa
             s == entries[j].serial
  <2>3. entries'[i].roa = r /\ entries'[i].serial = s
    BY <2>1
  <2>4. WillKnow(r) \/ WillAsk(s)
    BY <2>2
  <2> HIDE DEF r, s
  <2>5. WillKnow(r) => (WillKnow(entries[i].roa))'
    BY <2>3, <1>1 DEF WillKnow
  <2>6. WillAsk(s) => (WillAsk(entries[i].serial))'
    BY <2>3, <1>1 DEF WillAsk
  <2> QED BY <2>4, <2>5, <2>6
<1> QED BY <1>2, <1>3, <1>4

\* A Reset Query asks for everything; without a connection nothing is followed.
LEMMA StartKnows ==
  ASSUME KnowInv, ResetQuery \/ SessionChangedQuery
  PROVE  SerialsAreKnown' /\ FreshStart' /\ Covered'
<1>1. StartEffect
  BY StartIs, KnowTypes
<1>2. QuerySent /\ UNCHANGED <<up, Newest, entries, sending, toClient, foreign>> /\ client'.serial = client.serial
  BY <1>1 DEF StartEffect, QuerySent
<1>3. QueriesAreKnown'
  BY <1>2, QuerySentIs
<1>4. SerialsAreKnown'
  BY <1>2, <1>3 DEF KnowInv, SerialsAreKnown, QueriesAreKnown
<1>5. Following' => ~NoReset'
  <2>1. CASE SendResetQuery /\ up
    <3> DEFINE q == [type |-> "reset query"]
    <3>1. toCache' = Append(toCache, q)
      BY <2>1, SendResetQueryIs
    <3>2. IsReset(q)
      BY DEF IsReset
    <3> HIDE DEF q
    <3>3. Len(toCache) + 1 \in DOMAIN toCache' /\ toCache'[Len(toCache) + 1] = q
      BY <3>1, KnowTypes, AppendIs
    <3> QED BY <3>2, <3>3 DEF NoReset
  <2>2. CASE ~up
    BY <2>2, <1>2 DEF Following
  <2> QED BY <2>1, <2>2, <1>1 DEF StartEffect
<1> QED BY <1>4, <1>5 DEF FreshStart, Covered

LEMMA DownKnows ==
  ASSUME KnowInv, ReceiveFails \/ Reconnect \/ LoseConnection \/ CacheStops
  PROVE  SerialsAreKnown' /\ FreshStart' /\ Covered'
<1>1. CASE ReceiveFails
  <2>1. FailsEffect
    BY <1>1, FailsIs, KnowTypes
  <2>2. /\ UNCHANGED <<up, Newest, sending, toClient, toCache, foreign, trail>>
        /\ client'.serial = client.serial /\ ~up
    BY <2>1 DEF FailsEffect
  <2>3. SerialsAreKnown'
    BY <2>2 DEF KnowInv, SerialsAreKnown
  <2> QED BY <2>2, <2>3 DEF FreshStart, Covered, Following
<1>2. CASE Reconnect
  <2>1. ReconnectEffect
    BY <1>2, ReconnectIs, KnowTypes
  <2>2. /\ toCache' = <<>> /\ toClient' = <<>> /\ sending' = <<>> /\ ~Following'
        /\ client'.serial = client.serial /\ UNCHANGED <<Newest, foreign>>
    BY <2>1 DEF ReconnectEffect, Following
  <2>3. SerialsAreKnown'
    BY <2>2 DEF KnowInv, SerialsAreKnown, EndsUpTo
  <2> QED BY <2>2, <2>3 DEF FreshStart, Covered
<1>3. CASE LoseConnection \/ CacheStops
  <2>1. up' = FALSE /\ toCache' = <<>> /\ sending' = <<>> /\ client' = client
    BY <1>3 DEF LoseConnection, CacheStops, Disconnect, clientVars
  <2>2. FreshStart' /\ Covered'
    BY <2>1 DEF FreshStart, Covered, Following
  <2>3. CASE CacheStops
    <3>1. foreign' = TRUE
      BY <2>3 DEF CacheStops
    <3>2. SerialsAreKnown'
      BY <2>1, <3>1 DEF SerialsAreKnown
    <3> QED BY <2>2, <3>2
  <2>4. CASE LoseConnection
    <3>1. PICK n \in 0 .. Len(toClient) : toClient' = SubSeq(toClient, 1, n)
      BY <2>4 DEF LoseConnection, Disconnect
    <3>2. Newest' = Newest /\ foreign' = foreign
      BY <2>4 DEF LoseConnection, cacheData, Newest
    <3>3. \A i \in DOMAIN toClient' : i \in DOMAIN toClient /\ toClient'[i] = toClient[i]
      BY <3>1, KnowTypes
    <3>4. EndsUpTo(toClient, Newest) => EndsUpTo(toClient', Newest)
      BY <3>3 DEF EndsUpTo
    <3> QED BY <2>1, <2>2, <3>2, <3>4 DEF KnowInv, SerialsAreKnown
  <2> QED BY <1>3, <2>2, <2>3, <2>4
<1> QED BY <1>1, <1>2, <1>3

LEMMA SerialIsNat == Serial \subseteq Nat
<1>1. MaxCommands \in Nat
  BY RtrSessionAssumption
<1>2. 0 .. MaxCommands \subseteq Nat
  BY <1>1
<1> QED BY <1>2 DEF Serial

LEMMA QueryFields ==
  ASSUME NEW q \in Query, q.type = "serial query"
  PROVE  q.serial \in Nat
<1>1. q.serial \in Serial
  BY DEF Query
<1> QED BY <1>1, SerialIsNat

\* The client has no serial number that reaches a new entry.
LEMMA ChangeKnows ==
  ASSUME KnowInv, NEW K, NEW es, NEW f, NEW e, ChangeEffect(K, es, f, e)
  PROVE  SerialsAreKnown' /\ FreshStart' /\ Covered'
<1> DEFINE n == Newest + 1
<1>1. /\ Newest' = n /\ e.serial = n /\ entries' = Append(es, e) /\ sending = <<>> /\ es \in Seq(Entry)
      /\ UNCHANGED <<up, toCache, toClient, client, installed, sending, trail, foreign>>
  BY DEF ChangeEffect
<1>2. Newest \in Nat /\ client.serial \in Nat /\ toClient \in Seq(Pdu) /\ toCache \in Seq(Query)
  BY KnowTypes
<1>3. n \in Nat /\ \A x \in Nat : x <= Newest => x <= n /\ x < n
  BY <1>2
<1>4. \A x \in Nat : ~(x > Newest) => x < n /\ ~(x > n)
  BY <1>2
<1> HIDE DEF n
<1>5. ASSUME EndsUpTo(toClient, Newest) PROVE EndsUpTo(toClient, n) /\ EndsBelow(toClient, n)
  <2> SUFFICES ASSUME NEW i \in DOMAIN toClient, IsEnd(toClient[i])
               PROVE  toClient[i].serial <= n /\ toClient[i].serial < n
    BY DEF EndsUpTo, EndsBelow
  <2>1. toClient[i] \in Pdu
    BY <1>2
  <2>2. toClient[i].serial \in Serial
    BY <2>1, PduFields DEF IsEnd
  <2>3. toClient[i].serial \in Nat
    BY <2>2, RtrSessionAssumption DEF Serial
  <2>4. toClient[i].serial <= Newest
    BY <1>5 DEF EndsUpTo
  <2> QED BY <2>3, <2>4, <1>3
<1>6. ASSUME NEW i \in DOMAIN toCache, toCache[i].type = "serial query", ~IsTooNew(toCache[i], Newest)
      PROVE  toCache[i].serial < n /\ ~IsTooNew(toCache[i], n)
  <2>1. toCache[i] \in Query
    BY <1>2
  <2>2. toCache[i].serial \in Nat
    BY <2>1, <1>6, QueryFields
  <2>3. ~(toCache[i].serial > Newest)
    BY <1>6 DEF IsTooNew
  <2>4. toCache[i].serial < n /\ ~(toCache[i].serial > n)
    BY <2>2, <2>3, <1>4
  <2> QED BY <2>4 DEF IsTooNew
<1>7. \A i \in DOMAIN toCache : IsTooNew(toCache[i], n) => IsTooNew(toCache[i], Newest)
  <2>1. \A q : IsTooNew(q, n) => q.type = "serial query"
    BY DEF IsTooNew
  <2> QED BY <2>1, <1>6
<1>8. SerialsAreKnown'
  <2>1. ~foreign => client.serial <= n
    BY <1>2, <1>3 DEF KnowInv, SerialsAreKnown
  <2>2. up \/ ~foreign => EndsUpTo(toClient, n)
    BY <1>5 DEF KnowInv, SerialsAreKnown
  <2>3. trail # "astray" => \A i \in DOMAIN toCache : IsTooNew(toCache[i], n) => ResetFollows(toCache, i)
    BY <1>7 DEF KnowInv, SerialsAreKnown
  <2>4. ~up => toCache = <<>>
    BY DEF KnowInv, SerialsAreKnown
  <2> QED BY <2>1, <2>2, <2>3, <2>4, <1>1 DEF SerialsAreKnown
<1>9. FreshStart'
  BY <1>1 DEF KnowInv, FreshStart, Following, NoReset
<1>10. Covered'
  <2> SUFFICES ASSUME Following', trail' # "astray", NoReset', NEW i \in DOMAIN entries', entries'[i].announced
               PROVE  (WillKnow(entries[i].roa) \/ WillAsk(entries[i].serial))'
    BY DEF Covered
  <2>1. Following /\ trail # "astray" /\ NoReset
    BY <1>1 DEF Following, NoReset
  <2>2. /\ i \in DOMAIN es => entries'[i] = es[i]
        /\ i \in DOMAIN es \/ entries'[i] = e
    BY <1>1, AppendIs
  <2>3. CASE i \in DOMAIN es
    <3>1. f[i] \in DOMAIN entries /\ entries'[i] = entries[f[i]]
      BY <2>2, <2>3 DEF ChangeEffect, IsSelection
    <3> DEFINE r == entries[f[i]].roa
               s == entries[f[i]].serial
    <3>2. WillKnow(r) \/ WillAsk(s)
      BY <3>1, <2>1 DEF KnowInv, Covered
    <3>3. entries'[i].roa = r /\ entries'[i].serial = s
      BY <3>1
    <3> HIDE DEF r, s
    <3>4. WillKnow(r) => (WillKnow(entries[i].roa))'
      BY <3>3, <1>1 DEF WillKnow
    <3>5. WillAsk(s) => (WillAsk(entries[i].serial))'
      BY <3>3, <1>1 DEF WillAsk
    <3> QED BY <3>2, <3>4, <3>5
  <2>4. CASE entries'[i] = e
    <3>1. entries'[i].serial = n
      BY <2>4, <1>1
    <3>2. ~foreign => client.serial < n
      BY <1>2, <1>3 DEF KnowInv, SerialsAreKnown
    <3>3. EndsBelow(toClient, n)
      BY <2>1, <1>5 DEF KnowInv, SerialsAreKnown, Following
    <3>4. NoEnd(sending)
      BY <1>1 DEF NoEnd
    <3>5. QueriesBelow(toCache, n)
      <4>1. \A j \in DOMAIN toCache : ~ResetFollows(toCache, j)
        BY <2>1 DEF NoReset, ResetFollows
      <4>2. \A j \in DOMAIN toCache : ~IsTooNew(toCache[j], Newest)
        BY <4>1, <2>1 DEF KnowInv, SerialsAreKnown
      <4> QED BY <4>2, <1>6 DEF QueriesBelow
    <3> QED BY <3>1, <3>2, <3>3, <3>4, <3>5, <1>1 DEF WillAsk
  <2> QED BY <2>2, <2>3, <2>4
<1> QED BY <1>8, <1>9, <1>10

\* The next PDU of an answer goes out.
LEMMA SendKnows ==
  ASSUME KnowInv, SendPdu
  PROVE  SerialsAreKnown' /\ FreshStart' /\ Covered'
<1> DEFINE x == Head(sending)
           m == WithSession(x)
<1>1. /\ sending # <<>> /\ sending' = Tail(sending) /\ toClient' = Append(toClient, m)
      /\ UNCHANGED <<up, toCache, client, installed, foreign, entries, Newest>>
      /\ trail' # "astray" => trail # "astray"
  BY DEF SendPdu, cacheData, clientVars, Newest
<1>2. /\ sending \in Seq(Part) /\ toClient \in Seq(Pdu) /\ TypeCache
      /\ maxSerial \in Nat /\ Newest \in Nat /\ maxSerial <= Newest
  BY KnowTypes
<1>3. x \in Part /\ x = sending[1] /\ 1 \in DOMAIN sending
  BY <1>1, <1>2
<1>4. /\ m.type = x.type
      /\ x.type = "end of data" => m.serial = maxSerial
      /\ x.type = "object" => m = x
  BY <1>2, <1>3, WithSessionType
<1>5. /\ IsEnd(m) <=> IsEnd(x)
      /\ \A r, a : IsWord(m, r, a) <=> IsWord(x, r, a)
      /\ IsEnd(x) => m.serial = maxSerial
  BY <1>3, <1>4 DEF IsEnd, IsWord
<1> HIDE DEF x, m
<1>6. /\ \A k : EndsUpTo(toClient, k) /\ (IsEnd(m) => m.serial <= k) => EndsUpTo(toClient', k)
      /\ \A k : EndsBelow(toClient, k) /\ ~IsEnd(m) => EndsBelow(toClient', k)
      /\ NoEnd(toClient') <=> NoEnd(toClient) /\ ~IsEnd(m)
  BY <1>1, <1>2, EndsAppend
<1>7. /\ NoEnd(sending) <=> NoEnd(sending') /\ ~IsEnd(x)
      /\ \A i \in DOMAIN sending' : \E j \in DOMAIN sending : sending'[i] = sending[j]
  BY <1>1, <1>2, EndsTail, TailIs DEF x
<1>8. SerialsAreKnown'
  <2>1. IsEnd(m) => m.serial <= Newest
    BY <1>2, <1>5
  <2>2. up \/ ~foreign => EndsUpTo(toClient', Newest)
    BY <2>1, <1>6 DEF KnowInv, SerialsAreKnown
  <2> QED BY <2>2, <1>1 DEF KnowInv, SerialsAreKnown
<1>9. FreshStart'
  BY <1>1, <1>5, <1>6, <1>7 DEF KnowInv, FreshStart, Following, NoReset
<1>10. Covered'
  <2> SUFFICES ASSUME Following', trail' # "astray", NoReset', NEW i \in DOMAIN entries, entries[i].announced
               PROVE  (WillKnow(entries[i].roa) \/ WillAsk(entries[i].serial))'
    BY <1>1 DEF Covered
  <2> DEFINE r == entries[i].roa
             s == entries[i].serial
  <2>1. WillKnow(r) \/ WillAsk(s)
    BY <1>1 DEF KnowInv, Covered, Following, NoReset
  <2>2. entries'[i].roa = r /\ entries'[i].serial = s
    BY <1>1
  <2> HIDE DEF r, s
  <2>3. WillAsk(s) => (WillAsk(entries[i].serial))'
    BY <2>2, <1>1, <1>5, <1>6, <1>7 DEF WillAsk
  <2>4. /\ NoWithdrawal(sending, r) => NoWithdrawal(sending', r)
        /\ EndsWell(sending, r) => \/ EndsWell(sending', r)
                                   \/ IsWord(x, r, TRUE) /\ NoWithdrawal(sending', r)
        /\ IsWord(x, r, FALSE) => ~NoWithdrawal(sending, r)
    BY <1>1, <1>2, EndsWellTail DEF x
  <2>5. /\ IsWord(m, r, TRUE) => EndsWell(toClient', r)
        /\ NoWithdrawal(toClient, r) /\ ~IsWord(m, r, FALSE) => NoWithdrawal(toClient', r)
        /\ EndsWell(toClient, r) /\ ~IsWord(m, r, FALSE) => EndsWell(toClient', r)
    BY <1>1, <1>2, EndsWellAppend
  <2>6. WillKnow(r) => (WillKnow(entries[i].roa))'
    BY <2>2, <2>4, <2>5, <1>1, <1>5 DEF WillKnow
  <2> QED BY <2>1, <2>3, <2>6
<1> QED BY <1>8, <1>9, <1>10

\* The words of an answer about a ROA are the entries of the ROA.
LEMMA AnswerWords ==
  ASSUME NEW es \in Seq(Entry)
  PROVE  /\ \A i \in DOMAIN Answer(es) : \A r, a : IsWord(Answer(es)[i], r, a) =>
              \E k \in DOMAIN es : i = k + 1 /\ es[k].roa = r /\ es[k].announced = a
         /\ \A k \in DOMAIN es : /\ k + 1 \in DOMAIN Answer(es)
                                 /\ IsWord(Answer(es)[k + 1], es[k].roa, es[k].announced)
         /\ ~NoEnd(Answer(es))
<1> DEFINE A == Answer(es)
           n == Len(es)
<1>1. A \in Seq(Part) /\ Len(A) = n + 2
  BY AnswerIs
<1>10. A[1] = [type |-> "response"] /\ A[n + 2] = [type |-> "end of data"]
  BY AnswerIs
<1>11. \A i \in 1 .. n :
         A[i + 1] = [type |-> "object", roa |-> es[i].roa, announced |-> es[i].announced]
  BY AnswerIs
<1>2. n \in Nat /\ DOMAIN es = 1 .. n
  OBVIOUS
<1> HIDE DEF A, n
<1>3. DOMAIN A = 1 .. n + 2
  BY <1>1, <1>2
<1>4. ASSUME NEW i \in DOMAIN A
      PROVE  i = 1 \/ i = n + 2 \/ (i - 1 \in 1 .. n /\ i = (i - 1) + 1)
  BY <1>2, <1>3
<1>5. /\ A[1].type = "response" /\ A[n + 2].type = "end of data"
      /\ \A i \in 1 .. n : /\ A[i + 1].type = "object" /\ A[i + 1].roa = es[i].roa
                           /\ A[i + 1].announced = es[i].announced
  <2>1. A[1].type = "response" /\ A[n + 2].type = "end of data"
    <3>1. \A x : x = [type |-> "response"] => x.type = "response"
      OBVIOUS
    <3> DEFINE d == [type |-> "end of data"]
    <3>2. d.type = "end of data"
      OBVIOUS
    <3>3. A[n + 2] = d
      BY <1>10
    <3> HIDE DEF d
    <3> QED BY <3>1, <3>2, <3>3, <1>10
  <2>2. ASSUME NEW i \in 1 .. n
        PROVE  /\ A[i + 1].type = "object" /\ A[i + 1].roa = es[i].roa
               /\ A[i + 1].announced = es[i].announced
    <3>1. A[i + 1] = [type |-> "object", roa |-> es[i].roa, announced |-> es[i].announced]
      BY <1>11
    <3> QED BY <3>1
  <2> QED BY <2>1, <2>2
<1>6. ASSUME NEW i \in DOMAIN A, NEW r, NEW a, IsWord(A[i], r, a)
      PROVE  \E k \in DOMAIN es : i = k + 1 /\ es[k].roa = r /\ es[k].announced = a
  <2>1. A[i].type = "object"
    BY <1>6 DEF IsWord
  <2>2. i - 1 \in 1 .. n /\ i = (i - 1) + 1
    BY <2>1, <1>4, <1>5
  <2>3. PICK k \in 1 .. n : i = k + 1
    BY <2>2
  <2> QED BY <2>3, <1>2, <1>5, <1>6 DEF IsWord
<1>7. ASSUME NEW k \in DOMAIN es
      PROVE  k + 1 \in DOMAIN A /\ IsWord(A[k + 1], es[k].roa, es[k].announced)
  <2>1. k + 1 \in DOMAIN A
    BY <1>2, <1>3
  <2> QED BY <2>1, <1>2, <1>5 DEF IsWord
<1>9. ~NoEnd(A)
  <2>1. n + 2 \in DOMAIN A
    BY <1>2, <1>3
  <2> QED BY <2>1, <1>5 DEF NoEnd, IsEnd
<1> QED BY <1>6, <1>7, <1>9 DEF A

\* An answer to a serial number that is too small for an announced entry, or to a
\* Reset Query, has the ROA as its last word; one to a larger serial number does
\* not withdraw it.
LEMMA AnswersAreGood ==
  ASSUME OrderInv, NEW K \in SUBSET DOMAIN entries,
         NEW i \in DOMAIN entries, entries[i].announced
  PROVE  /\ i \in K => EndsWell(Answer(Select(entries, K)), entries[i].roa)
         /\ (\A k \in K : k < i /\ entries[k].roa = entries[i].roa => FALSE) =>
              NoWithdrawal(Answer(Select(entries, K)), entries[i].roa)
<1> DEFINE es == Select(entries, K)
           A == Answer(es)
           r == entries[i].roa
<1>1. entries \in Seq(Entry)
  BY DEF OrderInv, TypeInv, TypeOK
<1>2. es \in Seq(Entry) /\ \E f : IsSelection(es, entries, K, f)
  BY <1>1, SelectIs
<1>3. PICK f : IsSelection(es, entries, K, f)
  BY <1>2
<1> HIDE DEF es
<1>4. /\ \A j \in DOMAIN A : \A a : IsWord(A[j], r, a) =>
           \E k \in DOMAIN es : j = k + 1 /\ es[k].roa = r /\ es[k].announced = a
      /\ \A k \in DOMAIN es : /\ k + 1 \in DOMAIN A
                              /\ IsWord(A[k + 1], es[k].roa, es[k].announced)
  <2>1. \A j \in DOMAIN Answer(es) : \A x, a : IsWord(Answer(es)[j], x, a) =>
          \E k \in DOMAIN es : j = k + 1 /\ es[k].roa = x /\ es[k].announced = a
    BY <1>2, AnswerWords
  <2>2. \A k \in DOMAIN es : /\ k + 1 \in DOMAIN Answer(es)
                             /\ IsWord(Answer(es)[k + 1], es[k].roa, es[k].announced)
    BY <1>2, AnswerWords
  <2> QED BY <2>1, <2>2
<1> HIDE DEF A
<1>5. ASSUME NEW k \in DOMAIN es, es[k].roa = r
      PROVE  f[k] \in K /\ (f[k] = i \/ f[k] < i) /\ es[k] = entries[f[k]]
  <2>1. f[k] \in K /\ es[k] = entries[f[k]]
    BY <1>3 DEF IsSelection
  <2>2. f[k] \in Nat /\ i \in Nat
    BY <2>1, <1>1, ElementFields
  <2>3. ~(i < f[k])
    BY <2>1, <1>5 DEF OrderInv, Ordered
  <2>4. f[k] = i \/ f[k] < i
    BY <2>2, <2>3
  <2> QED BY <2>1, <2>4
<1>6. ASSUME i \in K PROVE EndsWell(A, r)
  <2>1. PICK k \in DOMAIN es : f[k] = i
    BY <1>3, <1>6 DEF IsSelection
  <2>2. es[k].roa = r /\ es[k].announced
    BY <2>1, <1>3 DEF IsSelection
  <2>3. k + 1 \in DOMAIN A /\ IsWord(A[k + 1], r, TRUE)
    <3>1. es[k].announced = TRUE
      BY <2>2, <1>2, ElementFields
    <3> QED BY <3>1, <2>2, <1>4
  <2>4. ASSUME NEW j \in DOMAIN A, j > k + 1, IsWord(A[j], r, FALSE) PROVE FALSE
    <3>1. PICK l \in DOMAIN es : j = l + 1 /\ es[l].roa = r
      BY <2>4, <1>4
    <3>2. l \in Nat /\ k \in Nat
      BY <1>2, ElementFields
    <3>3. k < l
      BY <3>1, <3>2, <2>4
    <3>4. f[k] < f[l]
      BY <3>3, <1>3 DEF IsSelection
    <3>5. f[l] = i \/ f[l] < i
      BY <3>1, <1>5
    <3>6. i \in Nat /\ f[l] \in Nat
      <4>1. f[l] \in DOMAIN entries
        BY <3>1, <1>5
      <4> QED BY <4>1, <1>1, ElementFields
    <3> QED BY <3>4, <3>5, <3>6, <2>1
  <2> QED BY <2>3, <2>4 DEF EndsWell
<1>7. ASSUME \A k \in K : k < i /\ entries[k].roa = r => FALSE
      PROVE  NoWithdrawal(A, r)
  <2> SUFFICES ASSUME NEW j \in DOMAIN A, IsWord(A[j], r, FALSE) PROVE FALSE
    BY DEF NoWithdrawal
  <2>1. PICK l \in DOMAIN es : es[l].roa = r /\ es[l].announced = FALSE
    BY <1>4
  <2>2. f[l] \in K /\ (f[l] = i \/ f[l] < i) /\ es[l] = entries[f[l]]
    BY <2>1, <1>5
  <2> QED BY <2>1, <2>2, <1>7
<1> QED BY <1>6, <1>7 DEF A, es

LEMMA QueriesTail ==
  ASSUME NEW S, NEW s \in Seq(S), s # <<>>
  PROVE  /\ \A n : QueriesBelow(s, n) => QueriesBelow(Tail(s), n)
         /\ \A i \in DOMAIN Tail(s) : /\ i \in Nat /\ i + 1 \in DOMAIN s /\ Tail(s)[i] = s[i + 1]
                                      /\ ResetFollows(s, i + 1) => ResetFollows(Tail(s), i)
<1>1. /\ \A i \in DOMAIN Tail(s) : i \in Nat /\ i + 1 \in DOMAIN s /\ Tail(s)[i] = s[i + 1]
      /\ \A i \in DOMAIN s : /\ i \in Nat
                             /\ i # 1 => i - 1 \in DOMAIN Tail(s) /\ Tail(s)[i - 1] = s[i]
  BY TailIs
<1>2. \A n : QueriesBelow(s, n) => QueriesBelow(Tail(s), n)
  BY <1>1 DEF QueriesBelow
<1>3. ASSUME NEW i \in DOMAIN Tail(s), ResetFollows(s, i + 1) PROVE ResetFollows(Tail(s), i)
  <2>1. PICK j \in DOMAIN s : j > i + 1 /\ IsReset(s[j])
    BY <1>3 DEF ResetFollows
  <2>2. i \in Nat /\ j \in Nat
    BY <1>1
  <2>3. DOMAIN Tail(s) = 1 .. Len(Tail(s))
    BY TailIs
  <2>4. j # 1 /\ j - 1 > i
    BY <2>1, <2>2, <2>3
  <2> QED BY <2>1, <2>4, <1>1 DEF ResetFollows
<1> QED BY <1>1, <1>2, <1>3

\* A query is answered.
LEMMA HandleKnows ==
  ASSUME KnowInv, HandleQuery
  PROVE  SerialsAreKnown' /\ FreshStart' /\ Covered'
<1> DEFINE q == Head(toCache)
<1>1. /\ sending = <<>> /\ toCache # <<>> /\ toCache' = Tail(toCache) /\ sending' = Response(q)
      /\ UNCHANGED <<up, toClient, client, installed, trail, foreign, entries, Newest>>
  BY DEF HandleQuery, cacheData, clientVars, historyVars, Newest
<1>2. /\ toCache \in Seq(Query) /\ entries \in Seq(Entry) /\ OrderInv
  BY DEF KnowInv, OrderInv, TypeInv, TypeOK
<1>3. q \in Query /\ 1 \in DOMAIN toCache /\ toCache[1] = q
  BY <1>1, <1>2, TailIs
<1>4. q.type = "serial query" => q.serial \in Nat
  BY <1>3, QueryFields
<1>5. IsReset(q) \/ q.type = "serial query"
  BY <1>3 DEF IsReset, Query
<1> HIDE DEF q
<1>6. /\ \A n : QueriesBelow(toCache, n) => QueriesBelow(toCache', n)
      /\ \A i \in DOMAIN toCache' : /\ i + 1 \in DOMAIN toCache /\ toCache'[i] = toCache[i + 1]
                                    /\ ResetFollows(toCache, i + 1) => ResetFollows(toCache', i)
  BY <1>1, <1>2, QueriesTail
<1>7. ~IsReset(q) /\ NoReset' => NoReset
  <2>1. \A i \in DOMAIN toCache : i # 1 => i - 1 \in DOMAIN toCache' /\ toCache'[i - 1] = toCache[i]
    BY <1>1, <1>2, TailIs
  <2> QED BY <2>1, <1>3 DEF NoReset
<1> DEFINE K(n) == {i \in DOMAIN entries :
                      /\ entries[i].serial > n
                      /\ \/ entries[i].serial = entries[i].prevSerial
                         \/ entries[i].prevSerial <= n}
           C == {i \in DOMAIN entries : entries[i].announced}
<1>8. Current = Select(entries, C) /\ \A n : NewSince(n) = Select(entries, K(n))
  BY DEF Current, NewSince
<1>9. /\ Select(entries, C) \in Seq(Entry)
      /\ \A n : Select(entries, K(n)) \in Seq(Entry)
  BY <1>2, SelectIs
<1>10. \/ sending' = <<>> /\ ~IsReset(q)
       \/ sending' = <<[type |-> "cache reset"]>> /\ ~IsReset(q)
       \/ sending' = Answer(Select(entries, C)) /\ IsReset(q)
       \/ sending' = Answer(Select(entries, K(q.serial))) /\ ~IsReset(q)
  BY <1>1, <1>8 DEF Response, IsReset
<1>11. sending' = <<[type |-> "cache reset"]>> =>
         NoEnd(sending') /\ \A r : NoWithdrawal(sending', r)
  <2> DEFINE m == [type |-> "cache reset"]
  <2>1. ~IsEnd(m) /\ \A r : ~IsWord(m, r, FALSE)
    BY DEF IsEnd, IsWord
  <2> HIDE DEF m
  <2>2. ASSUME sending' = <<m>> PROVE NoEnd(sending') /\ \A r : NoWithdrawal(sending', r)
    <3>1. \A i \in DOMAIN <<m>> : <<m>>[i] = m
      OBVIOUS
    <3> QED BY <3>1, <2>1, <2>2 DEF NoEnd, NoWithdrawal
  <2> QED BY <2>2 DEF m
<1>12. sending' = <<>> => NoEnd(sending') /\ \A r : NoWithdrawal(sending', r)
  <2>1. \A i \in DOMAIN <<>> : FALSE
    OBVIOUS
  <2> QED BY <2>1 DEF NoEnd, NoWithdrawal
<1>13. ASSUME NEW es \in Seq(Entry), sending' = Answer(es)
       PROVE  ~NoEnd(sending')
  BY <1>13, <1>2, AnswerWords
<1> HIDE DEF K, C
<1>14. SerialsAreKnown'
  <2>2. trail # "astray" =>
          \A i \in DOMAIN toCache' : IsTooNew(toCache'[i], Newest) => ResetFollows(toCache', i)
    BY <1>6 DEF KnowInv, SerialsAreKnown
  <2>3. up
    BY <1>1 DEF KnowInv, SerialsAreKnown
  <2> QED BY <2>2, <2>3, <1>1 DEF KnowInv, SerialsAreKnown
<1>15. FreshStart'
  <2> SUFFICES ASSUME Following', foreign', trail' # "astray", NoReset', NoEnd(toClient'), NoEnd(sending')
               PROVE  FALSE
    BY DEF FreshStart
  <2>1. ~IsReset(q)
    BY <1>9, <1>10, <1>13
  <2>2. NoReset
    BY <2>1, <1>7
  <2>3. NoEnd(sending)
    BY <1>1 DEF NoEnd
  <2> QED BY <2>2, <2>3, <1>1 DEF KnowInv, FreshStart, Following
<1>16. Covered'
  <2> SUFFICES ASSUME Following', trail' # "astray", NoReset', NEW i \in DOMAIN entries, entries[i].announced
               PROVE  (WillKnow(entries[i].roa) \/ WillAsk(entries[i].serial))'
    BY <1>1 DEF Covered
  <2> DEFINE r == entries[i].roa
             s == entries[i].serial
  <2>1. /\ s \in Nat /\ entries[i].prevSerial = s
        /\ \A j \in DOMAIN entries : j < i => entries[j].serial < s
    BY <1>2, ElementFields DEF OrderInv, Ordered
  <2>0. \A a, b, c \in Nat : a < b /\ a > c => c < b
    OBVIOUS
  <2>2. entries'[i].roa = r /\ entries'[i].serial = s
    BY <1>1
  <2>3. ASSUME NEW J \in SUBSET DOMAIN entries
        PROVE  /\ i \in J => EndsWell(Answer(Select(entries, J)), r)
               /\ (\A k \in J : k < i /\ entries[k].roa = r => FALSE) =>
                    NoWithdrawal(Answer(Select(entries, J)), r)
    BY <1>2, AnswersAreGood
  <2>4. K(q.serial) \in SUBSET DOMAIN entries /\ C \in SUBSET DOMAIN entries /\ i \in C
    BY DEF K, C
  <2>5. ~IsReset(q) => WillKnow(r) \/ WillAsk(s)
    BY <1>1, <1>7 DEF KnowInv, Covered, Following
  <2>6. q.type = "serial query" /\ q.serial < s => i \in K(q.serial)
    BY <2>1, <1>4 DEF K
  <2>7. q.type = "serial query" /\ ~(q.serial < s) =>
          /\ ~WillAsk(s)
          /\ \A k \in K(q.serial) : k < i /\ entries[k].roa = r => FALSE
    <3>1. ASSUME q.type = "serial query", ~(q.serial < s) PROVE ~WillAsk(s)
      BY <3>1, <1>3 DEF WillAsk, QueriesBelow
    <3>2. ASSUME q.type = "serial query", ~(q.serial < s), NEW k \in K(q.serial), k < i PROVE FALSE
      <4>1. entries[k].serial \in Nat /\ entries[k].serial < s /\ entries[k].serial > q.serial
        BY <3>2, <2>1, <1>2, ElementFields DEF K
      <4>2. q.serial \in Nat /\ s \in Nat
        BY <3>2, <2>1, <1>4
      <4> HIDE DEF s
      <4>3. q.serial < s
        BY <4>1, <4>2, <2>0
      <4> QED BY <4>3, <3>2
    <3> QED BY <3>1, <3>2
  <2> HIDE DEF r, s
  <2>8. ASSUME NoWithdrawal(sending', r), WillKnow(r) PROVE (WillKnow(entries[i].roa))'
    <3>1. ~EndsWell(sending, r)
      BY <1>1 DEF EndsWell
    <3> QED BY <3>1, <2>2, <2>8, <1>1 DEF WillKnow
  <2>9. ASSUME NoEnd(sending'), WillAsk(s) PROVE (WillAsk(entries[i].serial))'
    BY <2>2, <2>9, <1>1, <1>6 DEF WillAsk
  <2>10. ASSUME EndsWell(sending', r) PROVE (WillKnow(entries[i].roa))'
    BY <2>2, <2>10 DEF WillKnow
  <2>11. CASE sending' = <<>> \/ sending' = <<[type |-> "cache reset"]>>
    <3>1. NoEnd(sending') /\ NoWithdrawal(sending', r)
      BY <2>11, <1>11, <1>12
    <3>2. ~IsReset(q)
      BY <2>11, <1>9, <1>10, <1>13, <3>1
    <3> QED BY <3>1, <3>2, <2>5, <2>8, <2>9
  <2>12. CASE sending' = Answer(Select(entries, C))
    BY <2>12, <2>3, <2>4, <2>10
  <2>13. CASE sending' = Answer(Select(entries, K(q.serial))) /\ ~IsReset(q)
    <3>1. CASE q.serial < s
      <4>1. EndsWell(sending', r)
        BY <3>1, <2>3, <2>4, <2>6, <2>13, <1>5
      <4> QED BY <4>1, <2>10
    <3>2. CASE ~(q.serial < s)
      <4>1. NoWithdrawal(sending', r) /\ WillKnow(r)
        BY <3>2, <2>3, <2>4, <2>5, <2>7, <2>13, <1>5
      <4> QED BY <4>1, <2>8
    <3> QED BY <3>1, <3>2
  <2> QED BY <2>11, <2>12, <2>13, <1>10
<1> QED BY <1>14, <1>15, <1>16

LEMMA KnowInit == Init => KnowInv
<1> SUFFICES ASSUME Init PROVE KnowInv
  OBVIOUS
<1>1. OrderInv
  BY OrderInit
<1>2. /\ toCache = <<>> /\ toClient = <<>> /\ sending = <<>> /\ entries = <<>>
      /\ Newest = 0 /\ foreign = FALSE
  BY DEF Init, Newest
<1>3. client.serial = 0
  BY DEF Init
<1>4. SerialsAreKnown
  BY <1>2, <1>3 DEF SerialsAreKnown, EndsUpTo
<1>5. FreshStart /\ Covered
  BY <1>2 DEF FreshStart, Covered
<1> QED BY <1>1, <1>4, <1>5 DEF KnowInv

LEMMA KnowNext == KnowInv /\ [Next]_vars /\ ~miscounted' => KnowInv'
<1> SUFFICES ASSUME KnowInv, [Next]_vars, ~miscounted' PROVE SerialsAreKnown' /\ FreshStart' /\ Covered'
  BY OrderNext DEF KnowInv
<1>1. OrderInv
  BY DEF KnowInv
<1>2. CASE Next
  <2>1. CASE ReadStep
    BY <2>1, ReadKnows
  <2>2. CASE ResetQuery \/ SessionChangedQuery
    BY <2>2, StartKnows
  <2>3. CASE ReceiveFails \/ Reconnect \/ LoseConnection \/ CacheStops
    BY <2>3, DownKnows
  <2>4. CASE SendPdu
    BY <2>4, SendKnows
  <2>5. CASE HandleQuery
    BY <2>5, HandleKnows
  <2>6. CASE (\E r \in Roa : AppendPrefix(r)) \/ (\E i \in DOMAIN entries : RemoveEntry(i))
    BY <2>6, <1>1, AppendPrefixIs, RemoveEntryIs, ChangeKnows
  <2>7. CASE SendSerialNotify \/ (\E s \in Session : ChangeSession(s))
             \/ (\E type \in {"cache reset", "error"} : SendUnasked(type))
    <3>1. UNCHANGED <<client, foreign, Newest, installed, up, toCache, sending, trail, entries>>
      BY <2>7 DEF SendSerialNotify, ChangeSession, SendUnasked, Command, clientVars, cacheData, Newest
    <3>2. \E m : ToClient(m) /\ m.type \notin {"end of data", "object"}
      <4>1. \A s : Notify(s).type = "notify"
        BY DEF Notify
      <4>2. CASE SendSerialNotify \/ \E s \in Session : ChangeSession(s)
        <5>1. \E s : ToClient(Notify(s))
          BY <4>2 DEF SendSerialNotify, ChangeSession
        <5> QED BY <5>1, <4>1
      <4>3. ASSUME NEW type \in {"cache reset", "error"}, SendUnasked(type)
            PROVE  \E m : ToClient(m) /\ m.type \notin {"end of data", "object"}
        <5>1. ToClient([type |-> type]) /\ [type |-> type].type = type
          BY <4>3 DEF SendUnasked
        <5> QED BY <5>1
      <4> QED BY <2>7, <4>2, <4>3
    <3> QED BY <3>1, <3>2, TellKnows DEF ToClient
  <2>8. CASE EmptyCache
    <3>1. UNCHANGED <<client, foreign, Newest, installed, up, toCache, sending, toClient>>
      BY <2>8 DEF EmptyCache, Change, Command, clientVars, Newest
    <3>2. entries' = <<>> /\ (trail' # "astray" => trail # "astray")
      BY <2>8 DEF EmptyCache
    <3> QED BY <3>1, <3>2, TellKnows
  <2>9. ASSUME NEW age \in Serial, TimerExpired(age) PROVE SerialsAreKnown' /\ FreshStart' /\ Covered'
    <3>1. /\ entries' = Select(entries, DOMAIN entries \ Old(age))
          /\ UNCHANGED <<client, foreign, Newest, installed, up, toCache, sending, trail>>
          /\ ToClient(Notify(session)) \/ toClient' = toClient
      BY <2>9 DEF TimerExpired, Old, clientVars, historyVars, Newest
    <3>2. \E f : IsSelection(entries', entries, DOMAIN entries \ Old(age), f)
      BY <3>1, SelectIs, KnowTypes
    <3>3. \A i \in DOMAIN entries' : \E j \in DOMAIN entries : entries'[i] = entries[j]
      BY <3>2 DEF IsSelection
    <3>4. Notify(session).type \notin {"end of data", "object"}
      BY DEF Notify
    <3> QED BY <3>1, <3>3, <3>4, TellKnows DEF ToClient
  <2>10. CASE OtherQuery \/ CacheStarts
    <3>1. UNCHANGED <<client, foreign, Newest, installed, up, toCache, sending, toClient, trail, entries>>
      BY <2>10 DEF OtherQuery, CacheStarts, clientVars, historyVars, linkVars, cacheData, Newest
    <3> QED BY <3>1, TellKnows
  <2>11. CASE CountEntries \/ RaiseSerial \/ RequestNotify \/ TimerBlocks
    BY <2>11, KnowTypes, ConsoleIs, TellKnows DEF ConsoleEffect
  <2> QED BY <1>2, <2>1, <2>2, <2>3, <2>4, <2>5, <2>6, <2>7, <2>8, <2>9, <2>10,
             <2>11, NextCases DEF Commands, ConsoleStep, Appends
<1>3. CASE UNCHANGED vars
  <2>1. UNCHANGED <<client, foreign, Newest, installed, up, toCache, sending, toClient, trail, entries>>
    BY <1>3 DEF vars, clientVars, historyVars, linkVars, cacheVars, cacheData, Newest
  <2> QED BY <2>1, TellKnows
<1> QED BY <1>2, <1>3

\* A synchronized client has every ROA the cache announces, after any number of
\* lost connections, restarts, resets and commands, unless it has asked the cache
\* with the serial number of an earlier one or new entries were miscounted: what is not installed is on its way,
\* or newer than every serial number the client has or will get.
THEOREM NothingIsEverMissed == Spec => []NothingIsMissing
<1>1. miscounted \/ KnowInv => NothingIsMissing
  <2> SUFFICES ASSUME KnowInv, Synchronized, trail # "astray", NEW i \in DOMAIN entries, entries[i].announced
               PROVE  installed[entries[i].roa] > 0
    BY DEF NothingIsMissing, IsAnnounced
  <2>1. /\ up /\ client.at = "loop" /\ toCache = <<>> /\ sending = <<>> /\ toClient = <<>>
        /\ client.serial = Newest
    BY DEF Synchronized, Newest
  <2>2. NoReset /\ NoEnd(toClient) /\ NoEnd(sending) /\ Following
    BY <2>1 DEF NoReset, NoEnd, Following
  <2>3. ~foreign
    BY <2>2 DEF KnowInv, FreshStart
  <2>4. ~WillAsk(entries[i].serial)
    <3>1. entries[i].serial <= Newest /\ entries[i].serial \in Nat /\ Newest \in Nat
      BY KnowTypes, ElementFields DEF KnowInv, OrderInv, Ordered
    <3>2. ~(Newest < entries[i].serial)
      BY <3>1
    <3> QED BY <3>2, <2>1, <2>3 DEF WillAsk
  <2>5. WillKnow(entries[i].roa)
    BY <2>2, <2>4 DEF KnowInv, Covered
  <2> QED BY <2>1, <2>5 DEF WillKnow, EndsWell
<1>2. TypeInv /\ (miscounted \/ KnowInv) /\ [Next]_vars => (miscounted \/ KnowInv)'
  BY KnowNext, MiscountStays
<1>3. Spec => [](miscounted \/ KnowInv)
  BY <1>2, KnowInit, TypeInvariant, PTL DEF Spec
<1> QED BY <1>1, <1>3, PTL

-----------------------------------------------------------------------------
(***************************************************************************)
(* What the client has exactly.                                            *)
(***************************************************************************)
IsSilent(m) == m.type \notin {"object", "end of data"}
Silent(seq) == \A i \in DOMAIN seq : IsSilent(seq[i])

\* A PDU takes a ROA that is installed a times (0 or 1) to b times.
Effect(m, r, a, b) ==
  /\ a \in {0, 1} /\ b \in {0, 1}
  /\ IsWord(m, r, TRUE) => a = 0 /\ b = 1
  /\ IsWord(m, r, FALSE) => a = 1 /\ b = 0
  /\ ~IsWord(m, r, TRUE) /\ ~IsWord(m, r, FALSE) => a = b

\* So does a sequence of PDUs, one after the other.
Leads(seq, r, a, b) ==
  \E h \in [0 .. Len(seq) -> {0, 1}] :
    h[0] = a /\ h[Len(seq)] = b /\ \A i \in DOMAIN seq : Effect(seq[i], r, h[i - 1], h[i])

\* The sequence has one End of Data, after all objects; with serial number n.
EndsAt(seq, e) ==
  /\ e \in DOMAIN seq /\ IsEnd(seq[e])
  /\ \A i \in DOMAIN seq : i # e => ~IsEnd(seq[i])
  /\ \A i \in DOMAIN seq : i > e => IsSilent(seq[i])
EndsLast(seq) == \E e : EndsAt(seq, e)
EndsWith(seq, n) == \E e : EndsAt(seq, e) /\ seq[e].serial = n

LEMMA LeadsTail ==
  ASSUME NEW S, NEW s \in Seq(S), s # <<>>, NEW r, NEW a, NEW b, Leads(s, r, a, b)
  PROVE  \E c : Effect(Head(s), r, a, c) /\ Leads(Tail(s), r, c, b)
<1> DEFINE n == Len(s)
           t == Tail(s)
<1>1. /\ n \in Nat /\ n >= 1 /\ DOMAIN s = 1 .. n /\ Len(t) = n - 1 /\ DOMAIN t = 1 .. n - 1
      /\ s[1] = Head(s) /\ \A i \in 1 .. n - 1 : t[i] = s[i + 1]
  OBVIOUS
<1>2. PICK h \in [0 .. n -> {0, 1}] :
        h[0] = a /\ h[n] = b /\ \A i \in 1 .. n : Effect(s[i], r, h[i - 1], h[i])
  BY <1>1 DEF Leads
<1> DEFINE g == [i \in 0 .. n - 1 |-> h[i + 1]]
<1> HIDE DEF n, t
<1>3. g \in [0 .. n - 1 -> {0, 1}] /\ g[0] = h[1] /\ g[n - 1] = h[n]
  BY <1>1, <1>2
<1>4. ASSUME NEW i \in 1 .. n - 1 PROVE Effect(t[i], r, g[i - 1], g[i])
  <2>1. i + 1 \in 1 .. n /\ i - 1 \in 0 .. n - 1 /\ i \in 0 .. n - 1 /\ (i + 1) - 1 = i /\ (i - 1) + 1 = i
    BY <1>1
  <2>2. g[i - 1] = h[i] /\ g[i] = h[i + 1]
    BY <2>1
  <2>3. Effect(s[i + 1], r, h[i], h[i + 1])
    BY <2>1, <1>2
  <2> QED BY <2>2, <2>3, <1>1
<1> HIDE DEF g
<1>5. Leads(t, r, h[1], b)
  BY <1>1, <1>2, <1>3, <1>4 DEF Leads
<1>6. Effect(Head(s), r, a, h[1])
  <2>1. 1 \in 1 .. n /\ 1 - 1 = 0
    BY <1>1
  <2>2. Effect(s[1], r, h[1 - 1], h[1])
    BY <2>1, <1>2
  <2> QED BY <2>1, <2>2, <1>1, <1>2
<1> QED BY <1>5, <1>6 DEF t

LEMMA LeadsAppend ==
  ASSUME NEW S, NEW s \in Seq(S), NEW r, NEW a, NEW b, NEW c, Leads(s, r, a, c),
         NEW e, Effect(e, r, c, b)
  PROVE  Leads(Append(s, e), r, a, b)
<1> DEFINE n == Len(s)
           t == Append(s, e)
<1>1. /\ n \in Nat /\ DOMAIN s = 1 .. n /\ Len(t) = n + 1 /\ DOMAIN t = 1 .. n + 1
      /\ t[n + 1] = e /\ \A i \in 1 .. n : t[i] = s[i]
  OBVIOUS
<1>2. PICK h \in [0 .. n -> {0, 1}] :
        h[0] = a /\ h[n] = c /\ \A i \in 1 .. n : Effect(s[i], r, h[i - 1], h[i])
  BY <1>1 DEF Leads
<1> DEFINE g == [i \in 0 .. n + 1 |-> IF i = n + 1 THEN b ELSE h[i]]
<1> HIDE DEF n, t
<1>0. b \in {0, 1}
  BY DEF Effect
<1>3. /\ g \in [0 .. n + 1 -> {0, 1}] /\ g[n + 1] = b
      /\ \A i \in 0 .. n : g[i] = h[i]
  BY <1>0, <1>1, <1>2
<1> HIDE DEF g
<1>4. ASSUME NEW i \in 1 .. n + 1 PROVE Effect(t[i], r, g[i - 1], g[i])
  <2>1. CASE i \in 1 .. n
    <3>1. i - 1 \in 0 .. n /\ i \in 0 .. n
      BY <2>1, <1>1
    <3> QED BY <3>1, <2>1, <1>1, <1>2, <1>3
  <2>2. CASE i = n + 1
    <3>1. i - 1 = n /\ n \in 0 .. n
      BY <2>2, <1>1
    <3>2. g[i - 1] = c
      BY <3>1, <1>2, <1>3
    <3> QED BY <3>2, <2>2, <1>1, <1>3
  <2> QED BY <2>1, <2>2, <1>1
<1>5. g[0] = a
  <2>1. 0 \in 0 .. n
    BY <1>1
  <2> QED BY <2>1, <1>2, <1>3
<1>6. Leads(t, r, a, b)
  BY <1>1, <1>3, <1>4, <1>5 DEF Leads
<1> QED BY <1>6 DEF t

\* PDUs that are no objects change nothing; no PDUs lead nowhere.
LEMMA SilentLeads ==
  ASSUME NEW S, NEW s \in Seq(S), Silent(s), NEW r, NEW a \in {0, 1}
  PROVE  Leads(s, r, a, a)
<1> DEFINE h == [i \in 0 .. Len(s) |-> a]
<1>1. Len(s) \in Nat /\ DOMAIN s = 1 .. Len(s)
  OBVIOUS
<1>2. h \in [0 .. Len(s) -> {0, 1}] /\ h[0] = a /\ h[Len(s)] = a
  BY <1>1
<1>3. ASSUME NEW i \in 1 .. Len(s) PROVE Effect(s[i], r, h[i - 1], h[i])
  <2>1. i - 1 \in 0 .. Len(s) /\ i \in 0 .. Len(s)
    BY <1>1
  <2>2. h[i - 1] = a /\ h[i] = a
    BY <2>1
  <2> HIDE DEF h
  <2>3. ~IsWord(s[i], r, TRUE) /\ ~IsWord(s[i], r, FALSE)
    BY <1>1 DEF Silent, IsSilent, IsWord
  <2> QED BY <2>2, <2>3 DEF Effect
<1> HIDE DEF h
<1> QED BY <1>1, <1>2, <1>3 DEF Leads

LEMMA NothingLeadsNowhere ==
  ASSUME NEW r, NEW a, NEW b, Leads(<<>>, r, a, b)
  PROVE  a = b /\ a \in {0, 1}
<1>1. Len(<<>>) = 0
  OBVIOUS
<1>2. PICK h \in [0 .. 0 -> {0, 1}] : h[0] = a /\ h[0] = b
  BY <1>1 DEF Leads
<1>3. h[0] \in {0, 1}
  BY <1>2
<1> QED BY <1>2, <1>3

LEMMA SilentTail ==
  ASSUME NEW S, NEW s \in Seq(S), s # <<>>
  PROVE  /\ Silent(s) <=> IsSilent(Head(s)) /\ Silent(Tail(s))
         /\ \A n : EndsWith(s, n) =>
              \/ ~IsEnd(Head(s)) /\ EndsWith(Tail(s), n)
              \/ IsEnd(Head(s)) /\ Head(s).serial = n /\ Silent(Tail(s))
         /\ EndsLast(s) =>
              \/ ~IsEnd(Head(s)) /\ EndsLast(Tail(s))
              \/ IsEnd(Head(s)) /\ Silent(Tail(s))
<1>1. /\ 1 \in DOMAIN s /\ s[1] = Head(s)
      /\ \A i \in DOMAIN Tail(s) : i \in Nat /\ i + 1 \in DOMAIN s /\ Tail(s)[i] = s[i + 1]
      /\ \A i \in DOMAIN s : /\ i \in Nat
                             /\ i # 1 => i - 1 \in DOMAIN Tail(s) /\ Tail(s)[i - 1] = s[i]
                             /\ i # 1 => i > 1
  BY TailIs
<1>2. Silent(s) <=> IsSilent(Head(s)) /\ Silent(Tail(s))
  BY <1>1 DEF Silent
<1>3. ASSUME NEW e, EndsAt(s, e)
      PROVE  \/ /\ ~IsEnd(Head(s)) /\ EndsAt(Tail(s), e - 1) /\ Tail(s)[e - 1] = s[e]
             \/ IsEnd(Head(s)) /\ s[e] = Head(s) /\ Silent(Tail(s))
  <2>1. /\ e \in DOMAIN s /\ IsEnd(s[e])
        /\ \A i \in DOMAIN s : i # e => ~IsEnd(s[i])
        /\ \A i \in DOMAIN s : i > e => IsSilent(s[i])
    BY <1>3 DEF EndsAt
  <2>2. \A i \in DOMAIN Tail(s) : i > 0
    <3>1. DOMAIN Tail(s) = 1 .. Len(Tail(s))
      BY TailIs
    <3> QED BY <3>1
  <2>3. CASE e = 1
    <3>1. \A i \in DOMAIN Tail(s) : i + 1 > e
      BY <2>2, <2>3, <1>1
    <3>2. Silent(Tail(s))
      BY <3>1, <2>1, <1>1 DEF Silent
    <3> QED BY <3>2, <2>1, <2>3, <1>1
  <2>4. CASE e # 1
    <3>1. ~IsEnd(Head(s)) /\ e - 1 \in DOMAIN Tail(s) /\ Tail(s)[e - 1] = s[e] /\ e \in Nat
      BY <2>1, <2>4, <1>1
    <3>2. \A i \in DOMAIN Tail(s) : /\ i # e - 1 => i + 1 # e
                                    /\ i > e - 1 => i + 1 > e
      <4>1. e \in Nat
        BY <3>1
      <4>2. \A i \in Nat : (i # e - 1 => i + 1 # e) /\ (i > e - 1 => i + 1 > e)
        BY <4>1
      <4> QED BY <4>2, <1>1
    <3>3. EndsAt(Tail(s), e - 1)
      BY <3>1, <3>2, <2>1, <1>1 DEF EndsAt
    <3> QED BY <3>1, <3>3
  <2> QED BY <2>3, <2>4
<1>4. ASSUME NEW n, EndsWith(s, n)
      PROVE  \/ ~IsEnd(Head(s)) /\ EndsWith(Tail(s), n)
             \/ IsEnd(Head(s)) /\ Head(s).serial = n /\ Silent(Tail(s))
  <2>1. PICK e : EndsAt(s, e) /\ s[e].serial = n
    BY <1>4 DEF EndsWith
  <2> QED BY <2>1, <1>3 DEF EndsWith
<1>5. ASSUME EndsLast(s)
      PROVE  \/ ~IsEnd(Head(s)) /\ EndsLast(Tail(s))
             \/ IsEnd(Head(s)) /\ Silent(Tail(s))
  <2>1. PICK e : EndsAt(s, e)
    BY <1>5 DEF EndsLast
  <2> QED BY <2>1, <1>3 DEF EndsLast
<1> QED BY <1>2, <1>4, <1>5

LEMMA SilentAppend ==
  ASSUME NEW S, NEW s \in Seq(S), NEW e
  PROVE  /\ Silent(s) /\ IsSilent(e) => Silent(Append(s, e))
         /\ \A n : EndsWith(s, n) /\ IsSilent(e) => EndsWith(Append(s, e), n)
         /\ \A n : NoEnd(s) /\ IsEnd(e) /\ e.serial = n => EndsWith(Append(s, e), n)
<1>1. /\ Len(s) \in Nat
      /\ Append(s, e)[Len(s) + 1] = e
      /\ \A i \in DOMAIN s : /\ i \in Nat /\ i < Len(s) + 1 /\ i \in DOMAIN Append(s, e)
                             /\ Append(s, e)[i] = s[i]
      /\ \A i \in DOMAIN Append(s, e) : i \in Nat /\ (i \in DOMAIN s \/ i = Len(s) + 1)
      /\ Len(s) + 1 \in DOMAIN Append(s, e)
  BY AppendIs
<1>2. ASSUME NEW j \in DOMAIN Append(s, e) PROVE ~(j > Len(s) + 1)
  BY <1>1
<1>3. Silent(s) /\ IsSilent(e) => Silent(Append(s, e))
  BY <1>1 DEF Silent
<1>4. IsSilent(e) => ~IsEnd(e)
  BY DEF IsSilent, IsEnd
<1>5. ASSUME NEW n, EndsWith(s, n), IsSilent(e) PROVE EndsWith(Append(s, e), n)
  <2>1. PICK k : EndsAt(s, k) /\ s[k].serial = n
    BY <1>5 DEF EndsWith
  <2>2. EndsAt(Append(s, e), k) /\ Append(s, e)[k] = s[k]
    BY <2>1, <1>1, <1>4, <1>5 DEF EndsAt
  <2> QED BY <2>1, <2>2 DEF EndsWith
<1>6. ASSUME NEW n, NoEnd(s), IsEnd(e), e.serial = n PROVE EndsWith(Append(s, e), n)
  <2>1. EndsAt(Append(s, e), Len(s) + 1)
    BY <1>1, <1>2, <1>6 DEF EndsAt, NoEnd
  <2> QED BY <2>1, <1>1, <1>6 DEF EndsWith
<1> QED BY <1>3, <1>5, <1>6

\* A sequence with at most one announcement and at most one withdrawal, before it,
\* of a ROA that is installed if and only if there is a withdrawal to come.
LEMMA WordsLead ==
  ASSUME NEW S, NEW A \in Seq(S), NEW r, NEW a \in {0, 1},
         \A i, j \in DOMAIN A : IsWord(A[i], r, TRUE) /\ IsWord(A[j], r, TRUE) => i = j,
         \A i, j \in DOMAIN A : IsWord(A[i], r, FALSE) /\ IsWord(A[j], r, FALSE) => i = j,
         \A i, j \in DOMAIN A : IsWord(A[i], r, TRUE) /\ IsWord(A[j], r, FALSE) => j < i,
         (\E i \in DOMAIN A : IsWord(A[i], r, FALSE)) => a = 1,
         (\E i \in DOMAIN A : IsWord(A[i], r, TRUE)) /\ (\A i \in DOMAIN A : ~IsWord(A[i], r, FALSE))
           => a = 0
  PROVE  Leads(A, r, a, IF \E i \in DOMAIN A : IsWord(A[i], r, TRUE) THEN 1
                        ELSE IF \E i \in DOMAIN A : IsWord(A[i], r, FALSE) THEN 0 ELSE a)
<1> DEFINE n == Len(A)
           T(i) == IsWord(A[i], r, TRUE)
           F(i) == IsWord(A[i], r, FALSE)
           v(i) == IF \E j \in 1 .. n : j <= i /\ T(j) THEN 1
                   ELSE IF \E j \in 1 .. n : j <= i /\ F(j) THEN 0 ELSE a
           h == [i \in 0 .. n |-> v(i)]
<1>1. n \in Nat /\ DOMAIN A = 1 .. n
  OBVIOUS
<1>2. /\ \A i, j \in 1 .. n : T(i) /\ T(j) => i = j
      /\ \A i, j \in 1 .. n : F(i) /\ F(j) => i = j
      /\ \A i, j \in 1 .. n : T(i) /\ F(j) => j < i
      /\ \A i \in 1 .. n : F(i) => a = 1
      /\ \A i \in 1 .. n : T(i) /\ a = 1 => \E j \in 1 .. n : F(j)
  <2>1. a = 1 => a # 0
    OBVIOUS
  <2> QED BY <2>1, <1>1
<1> HIDE DEF n, T, F
<1>3. \A i \in 0 .. n : v(i) \in {0, 1}
  OBVIOUS
<1>4. v(0) = a
  <2>1. \A j \in 1 .. n : ~(j <= 0)
    BY <1>1
  <2> QED BY <2>1
<1>5. v(n) = IF \E i \in 1 .. n : T(i) THEN 1 ELSE IF \E i \in 1 .. n : F(i) THEN 0 ELSE a
  <2>1. \A j \in 1 .. n : j <= n
    BY <1>1
  <2> QED BY <2>1
<1>6. ASSUME NEW i \in 1 .. n PROVE Effect(A[i], r, v(i - 1), v(i))
  <2>0. \A j \in 1 .. n : (j <= i <=> j <= i - 1 \/ j = i) /\ ~(i <= i - 1) /\ (j < i => j <= i - 1)
    BY <1>1
  <2>5. i - 1 \in 0 .. n /\ i \in 0 .. n
    BY <1>1
  <2>1. CASE T(i)
    <3>1. v(i) = 1
      BY <2>0, <2>1
    <3>2. \A j \in 1 .. n : j <= i - 1 => ~T(j)
      BY <2>0, <2>1, <1>2
    <3>3. a = 1 => \E j \in 1 .. n : j <= i - 1 /\ F(j)
      BY <2>0, <2>1, <1>2
    <3>4. v(i - 1) = 0
      BY <3>2, <3>3
    <3>5. ~F(i)
      <4>1. ~(i < i)
        BY <1>1
      <4> QED BY <4>1, <2>1, <1>2
    <3> QED BY <2>1, <3>1, <3>4, <3>5 DEF Effect, T, F
  <2>2. CASE F(i)
    <3>1. \A j \in 1 .. n : j <= i => ~T(j)
      <4>1. \A j \in 1 .. n : i < j => ~(j <= i)
        BY <1>1
      <4> QED BY <4>1, <2>2, <1>2
    <3>2. v(i) = 0
      BY <2>0, <2>2, <3>1
    <3>3. \A j \in 1 .. n : j <= i - 1 => ~F(j) /\ ~T(j)
      BY <2>0, <2>2, <3>1, <1>2
    <3>4. v(i - 1) = a /\ a = 1
      BY <3>3, <2>2, <1>2
    <3>5. ~T(i)
      BY <3>1, <2>0
    <3> QED BY <2>2, <3>2, <3>4, <3>5 DEF Effect, T, F
  <2>3. CASE ~T(i) /\ ~F(i)
    <3>1. \A j \in 1 .. n : T(j) => (j <= i <=> j <= i - 1)
      BY <2>0, <2>3
    <3>2. \A j \in 1 .. n : F(j) => (j <= i <=> j <= i - 1)
      BY <2>0, <2>3
    <3>3. v(i) = v(i - 1)
      BY <3>1, <3>2
    <3>4. v(i) \in {0, 1} /\ v(i - 1) \in {0, 1}
      OBVIOUS
    <3> HIDE DEF v
    <3> QED BY <2>3, <3>3, <3>4 DEF Effect, T, F
  <2> QED BY <2>1, <2>2, <2>3
<1>7. h \in [0 .. n -> {0, 1}] /\ \A i \in 0 .. n : h[i] = v(i)
  BY <1>3
<1> HIDE DEF v, h
<1>8. h[0] = a /\ h[n] = v(n)
  <2>1. 0 \in 0 .. n /\ n \in 0 .. n
    BY <1>1
  <2> QED BY <2>1, <1>4, <1>7
<1>9. ASSUME NEW i \in 1 .. n PROVE Effect(A[i], r, h[i - 1], h[i])
  <2>1. i - 1 \in 0 .. n /\ i \in 0 .. n
    BY <1>1
  <2> QED BY <2>1, <1>6, <1>7
<1>10. Leads(A, r, a, v(n))
  BY <1>1, <1>7, <1>8, <1>9 DEF Leads, n
<1> QED BY <1>1, <1>5, <1>10 DEF T, F

\* The words of an answer stand for the selected entries, in their order.
LEMMA AnswerFollowsEntries ==
  ASSUME OrderInv, NEW K \in SUBSET DOMAIN entries
  PROVE  \E g : LET A == Answer(Select(entries, K))
                IN  /\ \A i \in DOMAIN A : \A r, a : IsWord(A[i], r, a) =>
                         g[i] \in K /\ entries[g[i]].roa = r /\ entries[g[i]].announced = a
                    /\ \A i, j \in DOMAIN A : \A r, a, s, b :
                         IsWord(A[i], r, a) /\ IsWord(A[j], s, b) /\ i < j => g[i] < g[j]
                    /\ \A k \in K : \E i \in DOMAIN A :
                         g[i] = k /\ IsWord(A[i], entries[k].roa, entries[k].announced)
<1> DEFINE es == Select(entries, K)
           A == Answer(es)
<1>1. entries \in Seq(Entry)
  BY DEF OrderInv, TypeInv, TypeOK
<1>2. es \in Seq(Entry) /\ \E f : IsSelection(es, entries, K, f)
  BY <1>1, SelectIs
<1>3. PICK f : IsSelection(es, entries, K, f)
  BY <1>2
<1> HIDE DEF es
<1>4. /\ \A j \in DOMAIN A : \A r, a : IsWord(A[j], r, a) =>
           \E k \in DOMAIN es : j = k + 1 /\ es[k].roa = r /\ es[k].announced = a
      /\ \A k \in DOMAIN es : /\ k + 1 \in DOMAIN A
                              /\ IsWord(A[k + 1], es[k].roa, es[k].announced)
  BY <1>1, <1>2, AnswerWords
<1> HIDE DEF A
<1> DEFINE g == [j \in DOMAIN A |-> f[j - 1]]
<1>5. \A k \in DOMAIN es : k \in Nat /\ (k + 1) - 1 = k /\ k + 1 \in DOMAIN A
  <2>1. \A k \in DOMAIN es : k \in Nat
    BY <1>2, ElementFields
  <2>2. \A k \in Nat : (k + 1) - 1 = k
    OBVIOUS
  <2> QED BY <2>1, <2>2, <1>4
<1>6. \A k \in DOMAIN es : g[k + 1] = f[k]
  BY <1>5
<1> HIDE DEF g
<1>7. ASSUME NEW i \in DOMAIN A, NEW r, NEW a, IsWord(A[i], r, a)
      PROVE  g[i] \in K /\ entries[g[i]].roa = r /\ entries[g[i]].announced = a
  <2>1. PICK k \in DOMAIN es : i = k + 1 /\ es[k].roa = r /\ es[k].announced = a
    BY <1>4, <1>7
  <2>2. f[k] \in K /\ es[k] = entries[f[k]]
    BY <1>3 DEF IsSelection
  <2> QED BY <2>1, <2>2, <1>6
<1>8. ASSUME NEW i \in DOMAIN A, NEW j \in DOMAIN A, NEW r, NEW a, NEW s, NEW b,
             IsWord(A[i], r, a), IsWord(A[j], s, b), i < j
      PROVE  g[i] < g[j]
  <2>1. PICK k \in DOMAIN es : i = k + 1
    BY <1>4, <1>8
  <2>2. PICK l \in DOMAIN es : j = l + 1
    BY <1>4, <1>8
  <2>3. k < l
    BY <2>1, <2>2, <1>5, <1>8
  <2>4. f[k] < f[l]
    BY <2>3, <1>3 DEF IsSelection
  <2> QED BY <2>1, <2>2, <2>4, <1>6
<1>9. ASSUME NEW k \in K
      PROVE  \E i \in DOMAIN A : g[i] = k /\ IsWord(A[i], entries[k].roa, entries[k].announced)
  <2>1. PICK l \in DOMAIN es : f[l] = k
    BY <1>3 DEF IsSelection
  <2>2. es[l] = entries[k]
    BY <2>1, <1>3 DEF IsSelection
  <2> QED BY <2>1, <2>2, <1>4, <1>6
<1> QED BY <1>7, <1>8, <1>9 DEF A, es

\* A client with serial number f has the ROA if it is correct and up to date.
Held(r, f) ==
  \E i \in DOMAIN entries :
    /\ entries[i].roa = r /\ entries[i].prevSerial <= f
    /\ entries[i].announced \/ f < entries[i].serial
Once(b) == IF b THEN 1 ELSE 0

LEMMA HeldIsAnnounced == ASSUME OrderInv, NEW r PROVE Held(r, Newest) <=> IsAnnounced(r)
<1>1. entries \in Seq(Entry) /\ Newest \in Nat
  BY NewestType DEF OrderInv, TypeInv, TypeOK
<1>2. ASSUME NEW i \in DOMAIN entries
      PROVE  entries[i].prevSerial <= Newest /\ ~(Newest < entries[i].serial)
  <2>1. entries[i].prevSerial \in Nat /\ entries[i].serial \in Nat
    BY <1>1, ElementFields
  <2>2. entries[i].prevSerial <= entries[i].serial /\ entries[i].serial <= Newest
    BY DEF OrderInv, Ordered
  <2> QED BY <2>1, <2>2, <1>1
<1> QED BY <1>2 DEF Held, IsAnnounced

\* An answer takes the ROA from what the serial number stands for to what the
\* cache announces.
Newer(n) == {i \in DOMAIN entries :
               /\ entries[i].serial > n
               /\ entries[i].serial = entries[i].prevSerial \/ entries[i].prevSerial <= n}
Announced == {i \in DOMAIN entries : entries[i].announced}

LEMMA CurrentLeads ==
  ASSUME OrderInv, NEW r
  PROVE  Leads(Answer(Select(entries, Announced)), r, 0, Once(IsAnnounced(r)))
<1> DEFINE A == Answer(Select(entries, Announced))
<1>1. Announced \in SUBSET DOMAIN entries /\ entries \in Seq(Entry)
  BY DEF Announced, OrderInv, TypeInv, TypeOK
<1>2. A \in Seq(Part)
  BY <1>1, SelectIs, AnswerIs
<1>3. PICK g : /\ \A i \in DOMAIN A : \A q, a : IsWord(A[i], q, a) =>
                    g[i] \in Announced /\ entries[g[i]].roa = q /\ entries[g[i]].announced = a
               /\ \A i, j \in DOMAIN A : \A q, a, s, b :
                    IsWord(A[i], q, a) /\ IsWord(A[j], s, b) /\ i < j => g[i] < g[j]
               /\ \A k \in Announced : \E i \in DOMAIN A :
                    g[i] = k /\ IsWord(A[i], entries[k].roa, entries[k].announced)
  BY <1>1, AnswerFollowsEntries
<1> HIDE DEF A
<1>4. \A i \in DOMAIN A : ~IsWord(A[i], r, FALSE)
  BY <1>3 DEF Announced
<1>5. ASSUME NEW i \in DOMAIN A, NEW j \in DOMAIN A, IsWord(A[i], r, TRUE), IsWord(A[j], r, TRUE), i < j
      PROVE  FALSE
  <2>1. g[i] \in Announced /\ entries[g[i]].roa = r /\ g[j] \in Announced /\ entries[g[j]].roa = r
    BY <1>3, <1>5
  <2>2. g[i] < g[j]
    BY <1>3, <1>5
  <2>3. /\ g[i] \in DOMAIN entries /\ g[j] \in DOMAIN entries /\ entries[g[i]].roa = entries[g[j]].roa
        /\ entries[g[i]].announced
    BY <2>1 DEF Announced
  <2> QED BY <2>2, <2>3 DEF OrderInv, Ordered
<1>6. \A i, j \in DOMAIN A : IsWord(A[i], r, TRUE) /\ IsWord(A[j], r, TRUE) => i = j
  <2>1. \A i, j \in DOMAIN A : i < j \/ j < i \/ i = j
    BY <1>2
  <2> QED BY <2>1, <1>5
<1>7. (\E i \in DOMAIN A : IsWord(A[i], r, TRUE)) <=> IsAnnounced(r)
  <2>1. ASSUME NEW i \in DOMAIN A, IsWord(A[i], r, TRUE) PROVE IsAnnounced(r)
    BY <2>1, <1>3 DEF Announced, IsAnnounced
  <2>2. ASSUME IsAnnounced(r) PROVE \E i \in DOMAIN A : IsWord(A[i], r, TRUE)
    <3>1. PICK k \in DOMAIN entries : entries[k].roa = r /\ entries[k].announced
      BY <2>2 DEF IsAnnounced
    <3>2. k \in Announced /\ entries[k].announced = TRUE
      BY <3>1, <1>1, ElementFields DEF Announced
    <3> QED BY <3>1, <3>2, <1>3
  <2> QED BY <2>1, <2>2
<1>8. Leads(A, r, 0, IF \E i \in DOMAIN A : IsWord(A[i], r, TRUE) THEN 1
                     ELSE IF \E i \in DOMAIN A : IsWord(A[i], r, FALSE) THEN 0 ELSE 0)
  BY <1>2, <1>4, <1>6, WordsLead
<1> QED BY <1>7, <1>8 DEF A, Once

LEMMA NewerLeads ==
  ASSUME OrderInv, NEW r, NEW n \in Nat
  PROVE  Leads(Answer(Select(entries, Newer(n))), r, Once(Held(r, n)), Once(IsAnnounced(r)))
<1> DEFINE K == Newer(n)
           A == Answer(Select(entries, K))
<1>1. K \in SUBSET DOMAIN entries /\ entries \in Seq(Entry)
  BY DEF Newer, OrderInv, TypeInv, TypeOK
<1>2. A \in Seq(Part)
  BY <1>1, SelectIs, AnswerIs
<1>3. PICK g : /\ \A i \in DOMAIN A : \A q, a : IsWord(A[i], q, a) =>
                    g[i] \in K /\ entries[g[i]].roa = q /\ entries[g[i]].announced = a
               /\ \A i, j \in DOMAIN A : \A q, a, s, b :
                    IsWord(A[i], q, a) /\ IsWord(A[j], s, b) /\ i < j => g[i] < g[j]
               /\ \A k \in K : \E i \in DOMAIN A :
                    g[i] = k /\ IsWord(A[i], entries[k].roa, entries[k].announced)
  BY <1>1, AnswerFollowsEntries
<1> HIDE DEF A
\* about the entries
<1>4. ASSUME NEW k \in DOMAIN entries
      PROVE  /\ entries[k].serial \in Nat /\ entries[k].prevSerial \in Nat /\ k \in Nat
             /\ entries[k].announced \in BOOLEAN
             /\ entries[k].announced <=> entries[k].serial = entries[k].prevSerial
             /\ entries[k].prevSerial <= entries[k].serial
  BY <1>1, ElementFields DEF OrderInv, Ordered
<1>5. \A k, l \in DOMAIN entries : k < l /\ entries[k].roa = entries[l].roa =>
        ~entries[k].announced /\ entries[k].serial < entries[l].prevSerial
  BY DEF OrderInv, Ordered
<1>6. ASSUME NEW k \in K
      PROVE  /\ k \in DOMAIN entries /\ entries[k].serial > n
             /\ ~entries[k].announced => entries[k].prevSerial <= n
  BY <1>4 DEF Newer
<1>7. ASSUME NEW k \in DOMAIN entries, entries[k].serial > n,
             entries[k].announced \/ entries[k].prevSerial <= n
      PROVE  k \in K
  BY <1>7, <1>4 DEF Newer
<1> HIDE DEF K
<1>8. ASSUME NEW k \in K, NEW l \in K, entries[k].roa = entries[l].roa, k < l
      PROVE  ~entries[k].announced /\ entries[l].announced
  <2>1. ~entries[k].announced /\ entries[k].serial < entries[l].prevSerial
    BY <1>5, <1>6, <1>8
  <2>2. entries[k].serial > n /\ entries[k].serial \in Nat /\ entries[l].prevSerial \in Nat
    BY <1>4, <1>6
  <2>3. ~(entries[l].prevSerial <= n)
    BY <2>1, <2>2
  <2> QED BY <2>1, <2>3, <1>6
<1>9. \A k, l \in K : k < l \/ l < k \/ k = l
  <2>1. \A k \in K : k \in Nat
    BY <1>4, <1>6
  <2> QED BY <2>1
\* about the words
<1>10. \A i, j \in DOMAIN A : i < j \/ j < i \/ i = j
  BY <1>2
<1>11. ASSUME NEW i \in DOMAIN A, NEW j \in DOMAIN A, NEW a, NEW b,
              IsWord(A[i], r, a), IsWord(A[j], r, b), i < j
       PROVE  a = FALSE /\ b = TRUE
  <2>1. /\ g[i] \in K /\ entries[g[i]].roa = r /\ entries[g[i]].announced = a
        /\ g[j] \in K /\ entries[g[j]].roa = r /\ entries[g[j]].announced = b
        /\ g[i] < g[j]
    BY <1>3, <1>11
  <2>2. ~entries[g[i]].announced /\ entries[g[j]].announced
    BY <2>1, <1>8
  <2>3. entries[g[i]].announced \in BOOLEAN /\ entries[g[j]].announced \in BOOLEAN
    BY <2>1, <1>4, <1>6
  <2> QED BY <2>1, <2>2, <2>3
<1>12. \A i, j \in DOMAIN A : IsWord(A[i], r, TRUE) /\ IsWord(A[j], r, TRUE) => i = j
  BY <1>10, <1>11
<1>13. \A i, j \in DOMAIN A : IsWord(A[i], r, FALSE) /\ IsWord(A[j], r, FALSE) => i = j
  BY <1>10, <1>11
<1>14. \A i, j \in DOMAIN A : IsWord(A[i], r, TRUE) /\ IsWord(A[j], r, FALSE) => j < i
  <2>1. \A i : ~(IsWord(A[i], r, TRUE) /\ IsWord(A[i], r, FALSE))
    BY DEF IsWord
  <2> QED BY <2>1, <1>10, <1>11
<1>15. ASSUME NEW k \in K, entries[k].roa = r, ~entries[k].announced
       PROVE  \E i \in DOMAIN A : IsWord(A[i], r, FALSE)
  <2>1. entries[k].announced \in BOOLEAN
    BY <1>4, <1>6
  <2>2. entries[k].announced = FALSE
    BY <2>1, <1>15
  <2>3. PICK i \in DOMAIN A : IsWord(A[i], entries[k].roa, entries[k].announced)
    BY <1>3
  <2>4. IsWord(A[i], r, FALSE)
    BY <2>2, <2>3, <1>15
  <2> QED BY <2>4
<1>16. ASSUME NEW k \in K, entries[k].roa = r, entries[k].announced
       PROVE  \E i \in DOMAIN A : IsWord(A[i], r, TRUE)
  <2>1. entries[k].announced \in BOOLEAN
    BY <1>4, <1>6
  <2>2. entries[k].announced = TRUE
    BY <2>1, <1>16
  <2>3. PICK i \in DOMAIN A : IsWord(A[i], entries[k].roa, entries[k].announced)
    BY <1>3
  <2>4. IsWord(A[i], r, TRUE)
    BY <2>2, <2>3, <1>16
  <2> QED BY <2>4
\* a withdrawal
<1>17. ASSUME NEW i \in DOMAIN A, IsWord(A[i], r, FALSE)
       PROVE  \E k \in K : entries[k].roa = r /\ ~entries[k].announced
  BY <1>3, <1>17
<1>18. ASSUME NEW i \in DOMAIN A, IsWord(A[i], r, TRUE)
       PROVE  \E k \in K : entries[k].roa = r /\ entries[k].announced
  BY <1>3, <1>18
<1>19. (\E i \in DOMAIN A : IsWord(A[i], r, FALSE)) => Held(r, n)
  <2>1. ASSUME NEW k \in K, entries[k].roa = r, ~entries[k].announced PROVE Held(r, n)
    <3>1. k \in DOMAIN entries /\ entries[k].serial > n /\ entries[k].prevSerial <= n
      BY <2>1, <1>6
    <3>2. n < entries[k].serial
      BY <3>1, <1>4
    <3> QED BY <2>1, <3>1, <3>2 DEF Held
  <2> QED BY <2>1, <1>17
<1>20. ASSUME NEW i \in DOMAIN A, IsWord(A[i], r, TRUE), Held(r, n)
       PROVE  \E j \in DOMAIN A : IsWord(A[j], r, FALSE)
  <2>1. PICK k \in K : entries[k].roa = r /\ entries[k].announced
    BY <1>18, <1>20
  <2>2. PICK l \in DOMAIN entries : /\ entries[l].roa = r /\ entries[l].prevSerial <= n
                                    /\ entries[l].announced \/ n < entries[l].serial
    BY <1>20 DEF Held
  <2>3. k \in DOMAIN entries /\ entries[k].serial > n /\ k \in Nat /\ l \in Nat
    BY <1>4, <1>6
  <2>4. ~entries[l].announced
    <3> SUFFICES ASSUME entries[l].announced PROVE FALSE
      OBVIOUS
    <3>1. ~(k < l) /\ ~(l < k)
      BY <2>1, <2>2, <2>3, <1>5
    <3>2. k = l
      BY <3>1, <2>3
    <3> QED BY <3>2, <2>1, <2>2, <2>3, <1>4
  <2>5. entries[l].serial > n
    BY <2>2, <2>4, <1>4
  <2>6. l \in K
    BY <2>2, <2>5, <1>7
  <2> QED BY <2>2, <2>4, <2>6, <1>15
<1>21. (\E i \in DOMAIN A : IsWord(A[i], r, TRUE)) => IsAnnounced(r)
  BY <1>18, <1>6 DEF IsAnnounced
<1>22. ASSUME IsAnnounced(r), \A i \in DOMAIN A : ~IsWord(A[i], r, TRUE)
       PROVE  Held(r, n) /\ \A i \in DOMAIN A : ~IsWord(A[i], r, FALSE)
  <2>1. PICK l \in DOMAIN entries : entries[l].roa = r /\ entries[l].announced
    BY <1>22 DEF IsAnnounced
  <2>2. l \notin K
    BY <2>1, <1>16, <1>22
  <2>3. ~(entries[l].serial > n)
    BY <2>1, <2>2, <1>7
  <2>4. entries[l].prevSerial <= n
    BY <2>1, <2>3, <1>4
  <2>5. Held(r, n)
    BY <2>1, <2>4 DEF Held
  <2>6. ASSUME NEW i \in DOMAIN A, IsWord(A[i], r, FALSE) PROVE FALSE
    <3>1. PICK k \in K : entries[k].roa = r /\ ~entries[k].announced
      BY <2>6, <1>17
    <3>2. k \in DOMAIN entries /\ k \in Nat /\ l \in Nat /\ entries[k].serial > n
      BY <1>4, <1>6
    <3>3. ~(l < k) /\ l # k
      BY <2>1, <3>1, <3>2, <1>5
    <3>4. k < l
      BY <3>2, <3>3
    <3>5. entries[k].serial < entries[l].prevSerial
      BY <2>1, <3>1, <3>2, <3>4, <1>5
    <3> QED BY <3>2, <3>5, <2>4, <1>4
  <2> QED BY <2>5, <2>6
<1>23. ASSUME Held(r, n), ~IsAnnounced(r) PROVE \E i \in DOMAIN A : IsWord(A[i], r, FALSE)
  <2>1. PICK l \in DOMAIN entries : /\ entries[l].roa = r /\ entries[l].prevSerial <= n
                                    /\ entries[l].announced \/ n < entries[l].serial
    BY <1>23 DEF Held
  <2>2. ~entries[l].announced
    BY <2>1, <1>23 DEF IsAnnounced
  <2>3. entries[l].serial > n
    BY <2>1, <2>2, <1>4
  <2>4. l \in K
    BY <2>1, <2>3, <1>7
  <2> QED BY <2>1, <2>2, <2>4, <1>15
<1> DEFINE a == Once(Held(r, n))
<1>24. /\ a \in {0, 1}
       /\ (\E i \in DOMAIN A : IsWord(A[i], r, FALSE)) => a = 1
       /\ (\E i \in DOMAIN A : IsWord(A[i], r, TRUE)) /\ (\A i \in DOMAIN A : ~IsWord(A[i], r, FALSE))
            => a = 0
  BY <1>19, <1>20 DEF Once
<1>25. (IF \E i \in DOMAIN A : IsWord(A[i], r, TRUE) THEN 1
        ELSE IF \E i \in DOMAIN A : IsWord(A[i], r, FALSE) THEN 0 ELSE a) = Once(IsAnnounced(r))
  BY <1>19, <1>21, <1>22, <1>23 DEF Once
<1> HIDE DEF a
<1>26. Leads(A, r, a, IF \E i \in DOMAIN A : IsWord(A[i], r, TRUE) THEN 1
                      ELSE IF \E i \in DOMAIN A : IsWord(A[i], r, FALSE) THEN 0 ELSE a)
  BY <1>2, <1>12, <1>13, <1>14, <1>24, WordsLead
<1>27. Leads(A, r, a, Once(IsAnnounced(r)))
  BY <1>25, <1>26
<1> QED BY <1>27 DEF A, K, a

\* Withdrawals since the serial number were deleted.
Lacks(f) == expired.min <= f /\ f < expired.max

\* The ROA will be installed v times when all that is on its way has arrived.
Settles(r, v) == \E w : Leads(toClient, r, installed[r], w) /\ Leads(sending, r, w, v)

\* What is installed and on its way is what the serial number stands for, or the
\* cache will not serve it.
Right(f) == Lacks(f) \/ \A r \in Roa : Settles(r, Once(Held(r, f)))

\* Before its first query the client has nothing.
NothingYet ==
  trail = "new" =>
    /\ client.at \in {"query", "requery", "lost"}
    /\ \A r \in Roa : installed[r] = 0
    /\ sending = <<>> /\ toCache = <<>> /\ Silent(toClient)

\* The Reset Query is on its way.
Asked ==
  /\ Len(toCache) = 1 /\ IsReset(toCache[1])
  /\ sending = <<>> /\ Silent(toClient) /\ \A r \in Roa : installed[r] = 0

\* No data is on its way, and at most one Serial Query.
Quiet ==
  /\ \E n \in Nat : client.serial = n /\ Right(n)
  /\ Silent(toClient) /\ Silent(sending) /\ ~foreign
  /\ toCache # <<>> => /\ sending = <<>> /\ Len(toCache) = 1
                       /\ toCache[1].type = "serial query" /\ toCache[1].serial = client.serial

\* An answer is on its way, and no query.  The serial number is read when the End
\* of Data is sent.
Answered ==
  /\ toCache = <<>>
  /\ \E n \in Nat : /\ Right(n)
                    /\ \/ EndsLast(sending) /\ n = Newest /\ NoEnd(toClient)
                       \/ Silent(sending) /\ EndsWith(toClient, n)

Exact == Following /\ trail = "exact" => Asked \/ Quiet \/ Answered

ExactInv == KnowInv /\ NothingYet /\ Exact

LEMMA RightKept ==
  ASSUME NEW n, Right(n), Lacks(n) => Lacks(n)',
         \A r \in Roa : Lacks(n)' \/ (Held(r, n)' <=> Held(r, n)),
         \A r \in Roa, v \in {0, 1} : Settles(r, v) => Settles(r, v)'
  PROVE  Right(n)'
<1>1. CASE Lacks(n)'
  BY <1>1 DEF Right
<1>2. CASE ~Lacks(n)'
  <2>1. ASSUME NEW r \in Roa PROVE Settles(r, Once(Held(r, n)))'
    <3>1. Held(r, n)' <=> Held(r, n)
      BY <1>2
    <3>2. Settles(r, Once(Held(r, n)))
      BY <1>2 DEF Right
    <3>3. CASE Held(r, n)
      <4>1. Settles(r, 1)
        BY <3>2, <3>3 DEF Once
      <4>2. Settles(r, 1)'
        BY <4>1
      <4>3. Once(Held(r, n))' = 1
        BY <3>1, <3>3 DEF Once
      <4> QED BY <4>2, <4>3 DEF Settles
    <3>4. CASE ~Held(r, n)
      <4>1. Settles(r, 0)
        BY <3>2, <3>4 DEF Once
      <4>2. Settles(r, 0)'
        BY <4>1
      <4>3. Once(Held(r, n))' = 0
        BY <3>1, <3>4 DEF Once
      <4> QED BY <4>2, <4>3 DEF Settles
    <3> QED BY <3>3, <3>4
  <2> QED BY <2>1 DEF Right
<1> QED BY <1>1, <1>2

LEMMA SilentEffect ==
  ASSUME NEW m, IsSilent(m), NEW r, NEW a \in {0, 1}
  PROVE  Effect(m, r, a, a)
<1>1. ~IsWord(m, r, TRUE) /\ ~IsWord(m, r, FALSE)
  BY DEF IsSilent, IsWord
<1> QED BY <1>1 DEF Effect

LEMMA LeadsBits ==
  ASSUME NEW S, NEW s \in Seq(S), NEW r, NEW a, NEW b, Leads(s, r, a, b)
  PROVE  a \in {0, 1} /\ b \in {0, 1}
<1>1. PICK h \in [0 .. Len(s) -> {0, 1}] : h[0] = a /\ h[Len(s)] = b
  BY DEF Leads
<1>2. 0 \in 0 .. Len(s) /\ Len(s) \in 0 .. Len(s)
  <2>1. Len(s) \in Nat
    OBVIOUS
  <2> QED BY <2>1
<1> QED BY <1>1, <1>2

\* Something is told that is not part of an answer, or nothing.
LEMMA TellSettles ==
  ASSUME KnowInv, \/ toClient' = toClient
                  \/ \E m : IsSilent(m) /\ toClient' = Append(toClient, m),
         UNCHANGED <<installed, sending>>,
         NEW r \in Roa, NEW v, Settles(r, v)
  PROVE  Settles(r, v)'
<1>1. PICK w : Leads(toClient, r, installed[r], w) /\ Leads(sending, r, w, v)
  BY DEF Settles
<1>2. w \in {0, 1}
  BY <1>1, KnowTypes, LeadsBits
<1>3. Leads(toClient', r, installed[r], w)
  <2>1. CASE toClient' = toClient
    BY <2>1, <1>1
  <2>2. ASSUME NEW m, IsSilent(m), toClient' = Append(toClient, m)
        PROVE  Leads(toClient', r, installed[r], w)
    <3>1. Effect(m, r, w, w)
      BY <2>2, <1>2, SilentEffect
    <3>2. toClient \in Seq(Pdu)
      BY KnowTypes
    <3> QED BY <3>1, <3>2, <2>2, <1>1, LeadsAppend
  <2> QED BY <2>1, <2>2
<1> QED BY <1>1, <1>3 DEF Settles

LEMMA ReadSettles ==
  ASSUME KnowInv, ReadStep, NEW r \in Roa, NEW v, Settles(r, v)
  PROVE  Settles(r, v)'
<1> DEFINE p == Head(toClient)
<1>1. ReadEffect /\ p \in Pdu
  BY KnowTypes, ReadIs
<1>2. toClient # <<>> /\ toClient' = Tail(toClient) /\ sending' = sending
  BY <1>1 DEF ReadEffect
<1>3. PICK w : Leads(toClient, r, installed[r], w) /\ Leads(sending, r, w, v)
  BY DEF Settles
<1>4. PICK c : Effect(p, r, installed[r], c) /\ Leads(toClient', r, c, w)
  BY <1>2, <1>3, KnowTypes, LeadsTail
<1>5. installed' = IF p.type = "object"
                   THEN [installed EXCEPT ![p.roa] = IF p.announced THEN @ + 1 ELSE IF @ > 0 THEN @ - 1 ELSE 0]
                   ELSE installed
  BY <1>1 DEF ReadEffect
<1>6. p.type = "object" => p.announced \in BOOLEAN
  BY <1>1, PduFields
<1>7. installed \in [Roa -> Nat]
  BY KnowTypes
<1> HIDE DEF p
<1>8. installed'[r] = c
  <2>1. CASE p.type = "object" /\ p.roa = r
    <3>1. installed'[r] = IF p.announced THEN installed[r] + 1
                          ELSE IF installed[r] > 0 THEN installed[r] - 1 ELSE 0
      BY <2>1, <1>5, <1>7
    <3>2. CASE p.announced
      <4>1. IsWord(p, r, TRUE)
        BY <3>2, <2>1, <1>6 DEF IsWord
      <4>2. installed[r] = 0 /\ c = 1
        BY <4>1, <1>4 DEF Effect
      <4> QED BY <4>2, <3>1, <3>2
    <3>3. CASE ~p.announced
      <4>1. IsWord(p, r, FALSE)
        BY <3>3, <2>1, <1>6 DEF IsWord
      <4>2. installed[r] = 1 /\ c = 0
        BY <4>1, <1>4 DEF Effect
      <4> QED BY <4>2, <3>1, <3>3
    <3> QED BY <3>2, <3>3
  <2>2. CASE ~(p.type = "object" /\ p.roa = r)
    <3>1. installed'[r] = installed[r]
      BY <2>2, <1>5, <1>7
    <3>2. ~IsWord(p, r, TRUE) /\ ~IsWord(p, r, FALSE)
      BY <2>2 DEF IsWord
    <3> QED BY <3>1, <3>2, <1>4 DEF Effect
  <2> QED BY <2>1, <2>2
<1> QED BY <1>2, <1>3, <1>4, <1>8 DEF Settles

\* The next PDU of an answer, without and with the session id.
Sent(x, m) ==
  /\ sending # <<>> /\ x = Head(sending) /\ x \in Part
  /\ sending' = Tail(sending) /\ toClient' = Append(toClient, m)
  /\ m.type = x.type /\ (IsEnd(m) <=> IsEnd(x)) /\ (IsSilent(m) <=> IsSilent(x))
  /\ \A r, a : IsWord(m, r, a) <=> IsWord(x, r, a)
  /\ trail' \in {trail, "blurred"} /\ (IsEnd(x) /\ trail' = "exact" => m.serial = Newest)
  /\ UNCHANGED <<up, toCache, client, installed, foreign, entries, Newest, expired>>

LEMMA SendPduIs == ASSUME KnowInv, SendPdu PROVE \E x, m : Sent(x, m)
<1> DEFINE x == Head(sending)
           m == WithSession(x)
<1>1. /\ sending # <<>> /\ sending' = Tail(sending) /\ toClient' = Append(toClient, m)
      /\ UNCHANGED <<up, toCache, client, installed, foreign, entries, Newest, expired>>
  BY DEF SendPdu, cacheData, clientVars, Newest
<1>2. /\ trail' \in {trail, "blurred"}
      /\ x.type = "end of data" /\ trail' = "exact" => change # "listed"
  BY DEF SendPdu
<1>3. x.type = "end of data" /\ trail' = "exact" => maxSerial = Newest
  BY <1>2 DEF Newest
<1>4. x \in Part
  BY <1>1, KnowTypes
<1>5. /\ m.type = x.type
      /\ x.type = "end of data" => m.serial = maxSerial
      /\ x.type = "object" => m = x
  BY <1>4, KnowTypes, WithSessionType
<1> HIDE DEF m
<1>6. /\ (IsEnd(m) <=> IsEnd(x)) /\ (IsSilent(m) <=> IsSilent(x))
      /\ \A r, a : IsWord(m, r, a) <=> IsWord(x, r, a)
      /\ IsEnd(x) /\ trail' = "exact" => m.serial = Newest
  BY <1>5, <1>3 DEF IsEnd, IsSilent, IsWord
<1>7. Sent(x, m)
  BY <1>1, <1>4, <1>5, <1>6, <1>2 DEF Sent
<1> QED BY <1>7

LEMMA SendSettles ==
  ASSUME KnowInv, NEW x, NEW m, Sent(x, m), NEW r \in Roa, NEW v, Settles(r, v)
  PROVE  Settles(r, v)'
<1>1. PICK w : Leads(toClient, r, installed[r], w) /\ Leads(sending, r, w, v)
  BY DEF Settles
<1>2. sending # <<>> /\ sending' = Tail(sending) /\ toClient' = Append(toClient, m) /\ x = Head(sending)
  BY DEF Sent
<1>3. PICK c : Effect(x, r, w, c) /\ Leads(sending', r, c, v)
  BY <1>1, <1>2, KnowTypes, LeadsTail
<1>4. Effect(m, r, w, c)
  BY <1>3 DEF Effect, Sent
<1>5. Leads(toClient', r, installed[r], c)
  BY <1>1, <1>2, <1>4, KnowTypes, LeadsAppend
<1>6. installed' = installed
  BY DEF Sent
<1> QED BY <1>3, <1>5, <1>6 DEF Settles

LEMMA ReadExact ==
  ASSUME ExactInv, ReadStep
  PROVE  NothingYet' /\ Exact'
<1> DEFINE p == Head(toClient)
<1>0. KnowInv /\ toClient \in Seq(Pdu) /\ toCache \in Seq(Query)
  BY KnowTypes DEF ExactInv
<1>1. ReadEffect
  BY <1>0, KnowTypes, ReadIs
<1>2. /\ toClient # <<>> /\ toClient' = Tail(toClient) /\ client.at \in Receiving
      /\ UNCHANGED <<up, entries, Newest, expired, sending>>
  BY <1>1 DEF ReadEffect
<1>3. trail # "new"
  BY <1>2 DEF ExactInv, NothingYet, Receiving
<1>4. \/ UNCHANGED <<toCache, trail>>
      \/ trail' = "blurred"
      \/ /\ trail' \in {"astray", "blurred", trail}
         /\ trail' \notin {"astray", "blurred"} => ~Outstanding /\ ~foreign
         /\ up => \E q : q.type = "serial query" /\ q.serial = client.serial /\ toCache' = Append(toCache, q)
         /\ ~up => toCache' = toCache
  <2>1. SendResetQuery => trail' = "blurred"
    BY <1>3, SendResetQueryIs
  <2>2. ASSUME NEW c, c.serial = client.serial, SendSerialQuery(c)
        PROVE  /\ trail' \in {"astray", "blurred", trail}
               /\ trail' \notin {"astray", "blurred"} => ~Outstanding /\ ~foreign
               /\ up => \E q : q.type = "serial query" /\ q.serial = client.serial /\ toCache' = Append(toCache, q)
               /\ ~up => toCache' = toCache
    <3> DEFINE q == [type |-> "serial query", session |-> c.session, serial |-> c.serial]
    <3>1. /\ toCache' = IF up THEN Append(toCache, q) ELSE toCache
          /\ trail' = IF foreign \/ trail = "astray" THEN "astray"
                      ELSE IF Outstanding THEN "blurred" ELSE trail
      BY <2>2, SendSerialQueryIs
    <3>2. q.type = "serial query" /\ q.serial = client.serial
      BY <2>2
    <3> HIDE DEF q
    <3>3. trail' \in {"astray", "blurred", trail}
      BY <3>1
    <3>4. trail' \notin {"astray", "blurred"} => ~Outstanding /\ ~foreign
      BY <3>1
    <3> QED BY <3>1, <3>2, <3>3, <3>4
  <2> QED BY <2>1, <2>2, <1>1 DEF ReadEffect
<1>5. NothingYet'
  BY <1>3, <1>4 DEF NothingYet
<1>6. ASSUME NEW n, Right(n) PROVE Right(n)'
  <2>1. Lacks(n)' <=> Lacks(n)
    BY <1>2 DEF Lacks
  <2>2. \A r \in Roa : Held(r, n)' <=> Held(r, n)
    BY <1>2 DEF Held
  <2>3. \A r \in Roa, v \in {0, 1} : Settles(r, v) => Settles(r, v)'
    BY <1>0, ReadSettles
  <2> QED BY <2>1, <2>2, <2>3, <1>6, RightKept
<1>7. /\ Silent(toClient) <=> IsSilent(p) /\ Silent(toClient')
      /\ \A n : EndsWith(toClient, n) =>
           \/ ~IsEnd(p) /\ EndsWith(toClient', n)
           \/ IsEnd(p) /\ p.serial = n /\ Silent(toClient')
      /\ NoEnd(toClient) <=> NoEnd(toClient') /\ ~IsEnd(p)
  BY <1>0, <1>2, SilentTail, EndsTail
<1>8. /\ IsSilent(p) => installed' = installed
      /\ IsSilent(p) => ~IsEnd(p)
      /\ ~IsEnd(p) => client'.serial = client.serial
      /\ foreign' = (foreign /\ ~(up /\ Accepted(p)))
      /\ Accepted(p) => client'.serial = p.serial
  BY <1>1 DEF ReadEffect, IsSilent, IsEnd, Accepted
<1>10. client'.at \in {"handshake", "loop"} =>
         client.at \in {"handshake", "loop"} /\ (IsEnd(p) => Accepted(p))
  BY <1>1 DEF ReadEffect, IsEnd
<1> HIDE DEF p
<1>9. Exact'
  <2> SUFFICES ASSUME Following', trail' = "exact" PROVE (Asked \/ Quiet \/ Answered)'
    BY DEF Exact
  <2>1. Following /\ up
    BY <1>2, <1>10 DEF Following
  <2>2. IsEnd(p) => Accepted(p)
    BY <1>10 DEF Following
  <2>3. /\ trail = "exact"
        /\ \/ toCache' = toCache
           \/ /\ ~Outstanding /\ ~foreign
              /\ \E q : q.type = "serial query" /\ q.serial = client.serial /\ toCache' = Append(toCache, q)
    BY <1>4, <2>1
  <2>4. Asked \/ Quiet \/ Answered
    BY <2>1, <2>3 DEF ExactInv, Exact
  <2>5. CASE Asked
    <3>1. toCache # <<>>
      <4>1. Len(toCache) = 1 /\ Len(<<>>) = 0
        BY <2>5 DEF Asked
      <4> QED BY <4>1
    <3>2. toCache' = toCache
      BY <3>1, <2>3 DEF Outstanding
    <3> QED BY <3>2, <2>5, <1>2, <1>7, <1>8 DEF Asked
  <2>6. CASE Quiet
    <3>1. IsSilent(p) /\ Silent(toClient') /\ ~IsEnd(p)
      BY <2>6, <1>7, <1>8 DEF Quiet
    <3>2. client'.serial = client.serial /\ ~foreign'
      BY <3>1, <2>6, <1>8 DEF Quiet
    <3>3. \E n \in Nat : client'.serial = n /\ Right(n)'
      BY <3>2, <2>6, <1>6 DEF Quiet
    <3>4. Silent(sending')
      BY <2>6, <1>2 DEF Quiet
    <3>5. toCache' # <<>> =>
            /\ sending' = <<>> /\ Len(toCache') = 1
            /\ toCache'[1].type = "serial query" /\ toCache'[1].serial = client'.serial
      <4>1. CASE toCache' = toCache
        BY <4>1, <3>2, <2>6, <1>2 DEF Quiet
      <4>2. ASSUME ~Outstanding, NEW q, q.type = "serial query", q.serial = client.serial,
                   toCache' = Append(toCache, q)
            PROVE  /\ sending' = <<>> /\ Len(toCache') = 1
                   /\ toCache'[1].type = "serial query" /\ toCache'[1].serial = client'.serial
        <5>1. toCache = <<>> /\ sending = <<>>
          BY <4>2 DEF Outstanding
        <5>2. Len(Append(<<>>, q)) = 1 /\ Append(<<>>, q)[1] = q
          OBVIOUS
        <5>3. Len(toCache') = 1 /\ toCache'[1] = q
          BY <5>1, <5>2, <4>2
        <5> QED BY <5>1, <5>3, <4>2, <3>2, <1>2
      <4> QED BY <4>1, <4>2, <2>3
    <3> QED BY <3>1, <3>2, <3>3, <3>4, <3>5 DEF Quiet
  <2>7. CASE Answered
    <3>1. PICK n \in Nat : /\ Right(n)
                           /\ \/ EndsLast(sending) /\ n = Newest /\ NoEnd(toClient)
                              \/ Silent(sending) /\ EndsWith(toClient, n)
      BY <2>7 DEF Answered
    <3>2. Outstanding
      <4>1. CASE EndsLast(sending)
        <5>1. sending # <<>>
          BY <4>1 DEF EndsLast, EndsAt
        <5> QED BY <5>1 DEF Outstanding
      <4>2. CASE EndsWith(toClient, n)
        BY <4>2 DEF EndsWith, EndsAt, Outstanding, IsEnd
      <4> QED BY <3>1, <4>1, <4>2
    <3>3. toCache' = <<>>
      BY <3>2, <2>3, <2>7 DEF Answered
    <3>4. Right(n)'
      BY <3>1, <1>6
    <3>5. CASE EndsLast(sending) /\ n = Newest /\ NoEnd(toClient)
      <4>1. EndsLast(sending') /\ n = Newest' /\ NoEnd(toClient')
        BY <3>5, <1>2, <1>7
      <4> QED BY <4>1, <3>3, <3>4 DEF Answered
    <3>6. CASE Silent(sending) /\ EndsWith(toClient, n)
      <4>1. CASE ~IsEnd(p)
        <5>1. Silent(sending') /\ EndsWith(toClient', n)
          BY <3>6, <4>1, <1>2, <1>7
        <5> QED BY <5>1, <3>3, <3>4 DEF Answered
      <4>2. CASE IsEnd(p)
        <5>1. p.serial = n /\ Silent(toClient') /\ Accepted(p)
          BY <3>6, <4>2, <2>2, <1>7
        <5>2. client'.serial = n /\ ~foreign'
          BY <5>1, <2>1, <1>8
        <5>3. Silent(sending')
          BY <3>6, <1>2
        <5> QED BY <5>1, <5>2, <5>3, <3>3, <3>4 DEF Quiet
      <4> QED BY <4>1, <4>2
    <3> QED BY <3>1, <3>5, <3>6
  <2> QED BY <2>4, <2>5, <2>6, <2>7
<1> QED BY <1>5, <1>9

\* Nobody is asked and nothing is read; the cache may change.
LEMMA TellExact ==
  ASSUME ExactInv,
         \/ toClient' = toClient
         \/ \E m : IsSilent(m) /\ toClient' = Append(toClient, m),
         UNCHANGED <<client, foreign, installed, up, toCache, sending, trail>>,
         sending = <<>> \/ Newest' = Newest,
         \A n \in Nat : n <= Newest => (Lacks(n) => Lacks(n)'),
         \A n \in Nat, r \in Roa : n <= Newest => Lacks(n)' \/ (Held(r, n)' <=> Held(r, n))
  PROVE  NothingYet' /\ Exact'
<1>0. KnowInv /\ toClient \in Seq(Pdu)
  BY KnowTypes DEF ExactInv
<1>1. /\ Silent(toClient) => Silent(toClient')
      /\ \A n : EndsWith(toClient, n) => EndsWith(toClient', n)
      /\ NoEnd(toClient) => NoEnd(toClient')
  <2>1. CASE toClient' = toClient
    BY <2>1
  <2>2. ASSUME NEW m, IsSilent(m), toClient' = Append(toClient, m)
        PROVE  /\ Silent(toClient) => Silent(toClient')
               /\ \A n : EndsWith(toClient, n) => EndsWith(toClient', n)
               /\ NoEnd(toClient) => NoEnd(toClient')
    <3>1. ~IsEnd(m)
      BY <2>2 DEF IsSilent, IsEnd
    <3> QED BY <3>1, <2>2, <1>0, SilentAppend, EndsAppend
  <2> QED BY <2>1, <2>2
<1>2. NothingYet'
  BY <1>1 DEF ExactInv, NothingYet
<1>3. ASSUME NEW n \in Nat, n <= Newest, Right(n) PROVE Right(n)'
  <2>1. \A r \in Roa, v \in {0, 1} : Settles(r, v) => Settles(r, v)'
    BY <1>0, TellSettles
  <2> QED BY <2>1, <1>3, RightKept
<1>4. Exact'
  <2> SUFFICES ASSUME Following', trail' = "exact" PROVE (Asked \/ Quiet \/ Answered)'
    BY DEF Exact
  <2>1. Following /\ trail = "exact" /\ up
    BY DEF Following
  <2>2. Asked \/ Quiet \/ Answered
    BY <2>1 DEF ExactInv, Exact
  <2>3. CASE Asked
    BY <2>3, <1>1 DEF Asked
  <2>4. CASE Quiet
    <3>1. PICK n \in Nat : client.serial = n /\ Right(n)
      BY <2>4 DEF Quiet
    <3>2. n <= Newest
      BY <3>1, <2>4, <1>0 DEF Quiet, KnowInv, SerialsAreKnown
    <3>3. Right(n)'
      BY <3>1, <3>2, <1>3
    <3> QED BY <3>1, <3>3, <2>4, <1>1 DEF Quiet
  <2>5. CASE Answered
    <3>1. PICK n \in Nat : /\ Right(n)
                           /\ \/ EndsLast(sending) /\ n = Newest /\ NoEnd(toClient)
                              \/ Silent(sending) /\ EndsWith(toClient, n)
      BY <2>5 DEF Answered
    <3>2. n <= Newest
      <4>1. CASE n = Newest
        BY <4>1
      <4>2. CASE EndsWith(toClient, n)
        BY <4>2, <2>1, <1>0 DEF EndsWith, EndsAt, KnowInv, SerialsAreKnown, EndsUpTo
      <4> QED BY <3>1, <4>1, <4>2
    <3>3. Right(n)'
      BY <3>1, <3>2, <1>3
    <3>4. EndsLast(sending) => sending # <<>>
      BY DEF EndsLast, EndsAt
    <3>5. \/ EndsLast(sending') /\ n = Newest' /\ NoEnd(toClient')
          \/ Silent(sending') /\ EndsWith(toClient', n)
      BY <3>1, <3>4, <1>1
    <3> QED BY <3>3, <3>5, <2>5 DEF Answered
  <2> QED BY <2>2, <2>3, <2>4, <2>5
<1> QED BY <1>2, <1>4

LEMMA SendExact ==
  ASSUME ExactInv, SendPdu
  PROVE  NothingYet' /\ Exact'
<1>0. KnowInv /\ toClient \in Seq(Pdu) /\ sending \in Seq(Part)
  BY KnowTypes DEF ExactInv
<1>1. PICK x, m : Sent(x, m)
  BY <1>0, SendPduIs
<1>2. /\ sending # <<>> /\ x = Head(sending) /\ sending' = Tail(sending) /\ toClient' = Append(toClient, m)
      /\ (IsEnd(m) <=> IsEnd(x)) /\ (IsSilent(m) <=> IsSilent(x))
      /\ trail' \in {trail, "blurred"} /\ (IsEnd(x) /\ trail' = "exact" => m.serial = Newest)
      /\ UNCHANGED <<up, toCache, client, installed, foreign, entries, Newest, expired>>
  BY <1>1 DEF Sent
<1>3. /\ Silent(toClient) /\ IsSilent(m) => Silent(toClient')
      /\ \A n : EndsWith(toClient, n) /\ IsSilent(m) => EndsWith(toClient', n)
      /\ \A n : NoEnd(toClient) /\ IsEnd(m) /\ m.serial = n => EndsWith(toClient', n)
      /\ NoEnd(toClient) /\ ~IsEnd(m) => NoEnd(toClient')
  BY <1>0, <1>2, SilentAppend, EndsAppend
<1>4. /\ Silent(sending) => IsSilent(x) /\ Silent(sending')
      /\ EndsLast(sending) =>
           \/ ~IsEnd(x) /\ EndsLast(sending')
           \/ IsEnd(x) /\ Silent(sending')
  BY <1>0, <1>2, SilentTail
<1>5. NothingYet'
  BY <1>2 DEF ExactInv, NothingYet
<1>6. ASSUME NEW n, Right(n) PROVE Right(n)'
  <2>1. Lacks(n)' <=> Lacks(n)
    BY <1>2 DEF Lacks
  <2>2. \A r \in Roa : Held(r, n)' <=> Held(r, n)
    BY <1>2 DEF Held
  <2>3. \A r \in Roa, v \in {0, 1} : Settles(r, v) => Settles(r, v)'
    BY <1>0, <1>1, SendSettles
  <2> QED BY <2>1, <2>2, <2>3, <1>6, RightKept
<1>7. Exact'
  <2> SUFFICES ASSUME Following', trail' = "exact" PROVE (Quiet \/ Answered)'
    BY DEF Exact
  <2>1. Asked \/ Quiet \/ Answered
    BY <1>2 DEF ExactInv, Exact, Following
  <2>2. CASE Asked
    BY <2>2, <1>2 DEF Asked
  <2>3. CASE Quiet
    <3>1. toCache = <<>> /\ Silent(toClient') /\ Silent(sending') /\ ~foreign
      BY <2>3, <1>2, <1>3, <1>4 DEF Quiet
    <3>2. \E n \in Nat : client.serial = n /\ Right(n)'
      BY <2>3, <1>6 DEF Quiet
    <3> QED BY <3>1, <3>2, <1>2 DEF Quiet
  <2>4. CASE Answered
    <3>1. PICK n \in Nat : /\ Right(n)
                           /\ \/ EndsLast(sending) /\ n = Newest /\ NoEnd(toClient)
                              \/ Silent(sending) /\ EndsWith(toClient, n)
      BY <2>4 DEF Answered
    <3>2. Right(n)' /\ toCache' = <<>>
      BY <3>1, <2>4, <1>2, <1>6 DEF Answered
    <3>3. \/ EndsLast(sending') /\ n = Newest' /\ NoEnd(toClient')
          \/ Silent(sending') /\ EndsWith(toClient', n)
      BY <3>1, <1>2, <1>3, <1>4
    <3> QED BY <3>2, <3>3 DEF Answered
  <2> QED BY <2>1, <2>2, <2>3, <2>4
<1> QED BY <1>5, <1>7

\* A client with an older serial number holds the same after a change.
LEMMA ChangeHolds ==
  ASSUME KnowInv, (\E r \in Roa : AppendPrefix(r)) \/ (\E i \in DOMAIN entries : RemoveEntry(i)),
         NEW n \in Nat, n <= Newest, NEW q
  PROVE  Held(q, n)' <=> Held(q, n)
<1> DEFINE Holds(e) == e.roa = q /\ e.prevSerial <= n /\ (e.announced \/ n < e.serial)
<1>0. OrderInv /\ entries \in Seq(Entry) /\ Newest \in Nat
  BY KnowTypes DEF KnowInv
<1>1. ASSUME NEW K, NEW es, NEW f, NEW e, ChangeEffect(K, es, f, e)
      PROVE  Held(q, n)' <=> Holds(e) \/ \E k \in K : Holds(entries[k])
  <2>1. /\ es \in Seq(Entry) /\ entries' = Append(es, e) /\ IsSelection(es, entries, K, f)
    BY <1>1 DEF ChangeEffect
  <2>2. /\ Append(es, e)[Len(es) + 1] = e /\ Len(es) + 1 \in DOMAIN Append(es, e)
        /\ \A i \in DOMAIN es : i \in DOMAIN Append(es, e) /\ Append(es, e)[i] = es[i]
        /\ \A i \in DOMAIN Append(es, e) : i \in DOMAIN es \/ i = Len(es) + 1
    BY <2>1, AppendIs
  <2>3. Held(q, n)' <=> \E i \in DOMAIN entries' : Holds(entries'[i])
    BY DEF Held
  <2> HIDE DEF Holds
  <2>4. (\E i \in DOMAIN entries' : Holds(entries'[i])) <=> Holds(e) \/ \E i \in DOMAIN es : Holds(es[i])
    BY <2>1, <2>2
  <2>5. (\E i \in DOMAIN es : Holds(es[i])) <=> \E k \in K : Holds(entries[k])
    BY <2>1 DEF IsSelection
  <2> QED BY <2>3, <2>4, <2>5
<1>2. Held(q, n) <=> \E k \in DOMAIN entries : Holds(entries[k])
  BY DEF Held
<1>3. ASSUME NEW r \in Roa, AppendPrefix(r) PROVE Held(q, n)' <=> Held(q, n)
  <2>1. PICK e, f : ChangeEffect(DOMAIN entries, entries, f, e) /\ e.prevSerial = Newest + 1
    BY <1>0, <1>3, AppendPrefixIs
  <2>2. ~(Newest + 1 <= n)
    BY <1>0
  <2>3. ~Holds(e)
    BY <2>1, <2>2
  <2> HIDE DEF Holds
  <2> QED BY <2>1, <2>3, <1>1, <1>2
<1>4. ASSUME NEW i \in DOMAIN entries, RemoveEntry(i) PROVE Held(q, n)' <=> Held(q, n)
  <2>1. /\ entries[i].announced
        /\ \E es, e, f : /\ ChangeEffect(DOMAIN entries \ {i}, es, f, e)
                         /\ e.roa = entries[i].roa /\ ~e.announced
                         /\ e.prevSerial = entries[i].prevSerial
    BY <1>0, <1>4, RemoveEntryIs
  <2>2. PICK es, e, f : /\ ChangeEffect(DOMAIN entries \ {i}, es, f, e)
                        /\ e.roa = entries[i].roa /\ ~e.announced
                        /\ e.prevSerial = entries[i].prevSerial
    BY <2>1
  <2>3. n < Newest + 1
    BY <1>0
  <2>4. e.serial = Newest + 1
    BY <2>2 DEF ChangeEffect
  <2>5. Holds(e) <=> Holds(entries[i])
    BY <2>1, <2>2, <2>3, <2>4
  <2> HIDE DEF Holds
  <2> QED BY <2>2, <2>5, <1>1, <1>2
<1> QED BY <1>3, <1>4

\* A withdrawal is deleted together with the serial numbers that lack it.
LEMMA TimerHolds ==
  ASSUME KnowInv, NEW age \in Serial, TimerExpired(age), NEW n \in Nat
  PROVE  /\ Lacks(n) => Lacks(n)'
         /\ \A r : Lacks(n)' \/ (Held(r, n)' <=> Held(r, n))
<1>0. TypeInv /\ entries \in Seq(Entry)
  BY KnowTypes
<1>1. /\ expired' \in [min : Serial \union {UINT32_MAX}, max : Serial]
      /\ expired'.min <= expired.min /\ expired.max <= expired'.max
      /\ \A i \in Old(age) : /\ expired'.min <= entries[i].prevSerial
                             /\ entries[i].serial <= expired'.max
  BY <1>0, TimerBounds
<1>2. expired \in [min : Serial \union {UINT32_MAX}, max : Serial]
  BY <1>0 DEF TypeInv, TypeOK
<1>3. \A x \in Serial \union {UINT32_MAX} : x \in Nat
  BY RtrSessionAssumption DEF Serial, UINT32_MAX
<1>4. /\ expired.min \in Nat /\ expired.max \in Nat
      /\ expired'.min \in Nat /\ expired'.max \in Nat
  BY <1>1, <1>2, <1>3
<1>5. \A a, b, c, d \in Nat : (a <= b /\ b <= n => a <= n) /\ (n < c /\ c <= d => n < d)
  OBVIOUS
<1>6. Lacks(n) => Lacks(n)'
  BY <1>1, <1>4, <1>5 DEF Lacks
<1>7. PICK f : IsSelection(entries', entries, DOMAIN entries \ Old(age), f)
  <2>1. entries' = Select(entries, DOMAIN entries \ Old(age))
    BY DEF TimerExpired, Old
  <2> QED BY <2>1, <1>0, SelectIs
<1>8. ASSUME NEW r, Held(r, n)' PROVE Held(r, n)
  BY <1>7, <1>8 DEF Held, IsSelection
<1>9. ASSUME NEW r, Held(r, n), ~Lacks(n)' PROVE Held(r, n)'
  <2>1. PICK i \in DOMAIN entries : /\ entries[i].roa = r /\ entries[i].prevSerial <= n
                                    /\ entries[i].announced \/ n < entries[i].serial
    BY <1>9 DEF Held
  <2>2. i \notin Old(age)
    <3> SUFFICES ASSUME i \in Old(age) PROVE FALSE
      OBVIOUS
    <3>1. ~entries[i].announced
      BY DEF Old
    <3>2. entries[i].prevSerial \in Nat /\ entries[i].serial \in Nat
      BY <1>0, ElementFields
    <3>3. expired'.min <= entries[i].prevSerial /\ entries[i].serial <= expired'.max
      BY <1>1
    <3>4. expired'.min <= n /\ n < expired'.max
      BY <2>1, <3>1, <3>2, <3>3, <1>4, <1>5
    <3> QED BY <3>4, <1>9 DEF Lacks
  <2>3. PICK j \in DOMAIN entries' : entries'[j] = entries[i]
    BY <2>2, <1>7 DEF IsSelection
  <2> QED BY <2>1, <2>3 DEF Held
<1> QED BY <1>6, <1>8, <1>9

\* A serial number that is answered lacks nothing.
LEMMA ServedLacksNothing ==
  ASSUME TypeInv, NEW n \in Nat, ~CheckSerial(n)
  PROVE  ~Lacks(n)
<1>1. expired \in [min : Serial \union {UINT32_MAX}, max : Serial]
  BY DEF TypeInv, TypeOK
<1>2. \A x \in Serial \union {UINT32_MAX} : x \in Nat
  BY RtrSessionAssumption DEF Serial, UINT32_MAX
<1>3. PICK a \in Nat, b \in Nat : a = expired.min /\ b = expired.max
  BY <1>1, <1>2
<1>4. ~(IF a < b THEN n >= a /\ n <= b ELSE ~(n < a) /\ n > b)
  BY <1>3 DEF CheckSerial
<1>5. ~(a <= n /\ n < b)
  BY <1>4
<1> QED BY <1>3, <1>5 DEF Lacks

LEMMA AnswerEnds ==
  ASSUME NEW es \in Seq(Entry)
  PROVE  EndsLast(Answer(es))
<1> DEFINE A == Answer(es)
           n == Len(es)
<1>1. A \in Seq(Part) /\ Len(A) = n + 2
  BY AnswerIs
<1>2. n \in Nat
  OBVIOUS
<1>3. /\ \A k \in DOMAIN es : /\ k + 1 \in DOMAIN A
                              /\ IsWord(A[k + 1], es[k].roa, es[k].announced)
      /\ ~NoEnd(A)
  BY AnswerWords
<1>4. A[1] = [type |-> "response"]
  BY AnswerIs
<1>5. ~IsEnd(A[1])
  BY <1>4 DEF IsEnd
<1>6. DOMAIN es = 1 .. n
  OBVIOUS
<1> HIDE DEF A, n
<1>7. DOMAIN A = 1 .. n + 2
  BY <1>1, <1>2
<1>8. PICK e \in DOMAIN A : IsEnd(A[e])
  BY <1>3 DEF NoEnd
<1>9. \A k \in 1 .. n : ~IsEnd(A[k + 1])
  BY <1>3, <1>6 DEF IsWord, IsEnd
<1>10. ASSUME NEW i \in DOMAIN A, i # n + 2 PROVE ~IsEnd(A[i])
  <2>1. i = 1 \/ \E k \in 1 .. n : i = k + 1
    <3>1. i = 1 \/ (i - 1 \in 1 .. n /\ i = (i - 1) + 1)
      BY <1>2, <1>7, <1>10
    <3> QED BY <3>1
  <2> QED BY <2>1, <1>5, <1>9
<1>11. e = n + 2
  BY <1>8, <1>10
<1>12. \A i \in DOMAIN A : ~(i > n + 2)
  BY <1>2, <1>7
<1>13. EndsAt(A, e)
  BY <1>8, <1>10, <1>11, <1>12 DEF EndsAt
<1> QED BY <1>13 DEF A, EndsLast

LEMMA HandleExact ==
  ASSUME ExactInv, HandleQuery
  PROVE  NothingYet' /\ Exact'
<1> DEFINE q == Head(toCache)
<1>0. KnowInv /\ OrderInv /\ TypeInv /\ toClient \in Seq(Pdu) /\ toCache \in Seq(Query)
      /\ entries \in Seq(Entry) /\ Newest \in Nat
  BY KnowTypes DEF ExactInv, KnowInv
<1>1. /\ sending = <<>> /\ toCache # <<>> /\ toCache' = Tail(toCache) /\ sending' = Response(q)
      /\ UNCHANGED <<up, toClient, client, installed, trail, foreign, entries, Newest, expired>>
  BY DEF HandleQuery, cacheData, clientVars, historyVars, Newest
<1>2. q = toCache[1] /\ (Len(toCache) = 1 => toCache' = <<>>)
  BY <1>0, <1>1
<1>3. NothingYet'
  BY <1>1 DEF ExactInv, NothingYet
<1>5. \A n : (Lacks(n)' <=> Lacks(n)) /\ \A r : Held(r, n)' <=> Held(r, n)
  BY <1>1 DEF Lacks, Held
\* an answer that leads every ROA to what the cache announces
<1>6. ASSUME NEW es \in Seq(Entry), sending' = Answer(es), toCache' = <<>>, NoEnd(toClient),
             \A r \in Roa : \E w : /\ Leads(toClient, r, installed[r], w)
                                   /\ Leads(Answer(es), r, w, Once(IsAnnounced(r)))
      PROVE  Answered'
  <2>1. EndsLast(sending')
    BY <1>6, AnswerEnds
  <2>2. ASSUME NEW n, n = Newest PROVE Right(n)'
    <3>1. ASSUME NEW r \in Roa PROVE Settles(r, Once(Held(r, n)))'
      <4>1. Held(r, n)' <=> IsAnnounced(r)
        BY <2>2, <1>0, <1>5, HeldIsAnnounced
      <4>2. Once(Held(r, n))' = Once(IsAnnounced(r))
        BY <4>1 DEF Once
      <4>3. PICK w : /\ Leads(toClient, r, installed[r], w)
                     /\ Leads(Answer(es), r, w, Once(IsAnnounced(r)))
        BY <1>6
      <4> QED BY <4>2, <4>3, <1>1, <1>6 DEF Settles
    <3> QED BY <3>1 DEF Right
  <2>3. PICK n \in Nat : n = Newest
    BY <1>0
  <2>4. Right(n)' /\ EndsLast(sending') /\ n = Newest' /\ NoEnd(toClient')
    BY <2>1, <2>2, <2>3, <1>1, <1>6
  <2> QED BY <2>4, <1>6 DEF Answered
<1>7. Silent(toClient) => NoEnd(toClient)
  BY DEF Silent, IsSilent, NoEnd, IsEnd
<1>8. Exact'
  <2> SUFFICES ASSUME Following', trail' = "exact" PROVE (Quiet \/ Answered)'
    BY DEF Exact
  <2>1. Asked \/ Quiet \/ Answered
    BY <1>1 DEF ExactInv, Exact, Following
  <2>2. CASE Asked
    <3>1. IsReset(q) /\ toCache' = <<>> /\ NoEnd(toClient)
      BY <2>2, <1>2, <1>7 DEF Asked
    <3>2. sending' = Answer(Current)
      BY <3>1, <1>1 DEF Response, IsReset
    <3>3. Current = Select(entries, Announced)
      BY DEF Current, Announced
    <3>4. Current \in Seq(Entry)
      BY <3>3, <1>0, SelectIs DEF Announced
    <3>5. ASSUME NEW r \in Roa
          PROVE  \E w : /\ Leads(toClient, r, installed[r], w)
                        /\ Leads(Answer(Current), r, w, Once(IsAnnounced(r)))
      <4>1. Leads(Answer(Current), r, 0, Once(IsAnnounced(r)))
        BY <3>3, <1>0, CurrentLeads
      <4>2. installed[r] = 0 /\ Silent(toClient)
        BY <2>2 DEF Asked
      <4>3. 0 \in {0, 1}
        OBVIOUS
      <4>4. Leads(toClient, r, 0, 0)
        BY <4>2, <4>3, <1>0, SilentLeads
      <4> QED BY <4>1, <4>2, <4>4
    <3> QED BY <3>1, <3>2, <3>4, <3>5, <1>6
  <2>3. CASE Quiet
    <3>1. PICK n \in Nat : client.serial = n /\ Right(n)
      BY <2>3 DEF Quiet
    <3>2. /\ q.type = "serial query" /\ q.serial = n /\ toCache' = <<>> /\ NoEnd(toClient)
          /\ Silent(toClient) /\ ~foreign
      BY <2>3, <3>1, <1>1, <1>2, <1>7 DEF Quiet
    <3> HIDE DEF q
    <3>3. ASSUME NEW r \in Roa, NEW v, Settles(r, v)
          PROVE  Leads(toClient, r, installed[r], v) /\ v \in {0, 1}
      <4>1. PICK w : Leads(toClient, r, installed[r], w) /\ Leads(<<>>, r, w, v)
        BY <3>3, <1>1 DEF Settles
      <4>2. w = v /\ w \in {0, 1}
        BY <4>1, NothingLeadsNowhere
      <4> QED BY <4>1, <4>2
    <3>4. CASE Silent(sending')
      <4>1. sending' \in Seq(Part)
        BY <1>0, <1>1, ResponseType, KnowTypes
      <4>2. \A r \in Roa, v \in {0, 1} : Settles(r, v) => Settles(r, v)'
        <5> SUFFICES ASSUME NEW r \in Roa, NEW v \in {0, 1}, Settles(r, v) PROVE Settles(r, v)'
          OBVIOUS
        <5>1. Leads(toClient, r, installed[r], v)
          BY <3>3
        <5>2. Leads(sending', r, v, v)
          BY <3>4, <4>1, SilentLeads
        <5> QED BY <5>1, <5>2, <1>1 DEF Settles
      <4>3. Right(n)'
        BY <3>1, <4>2, <1>5, RightKept
      <4> QED BY <3>1, <3>2, <3>4, <4>3, <1>1 DEF Quiet
    <3>5. CASE sending' = Answer(NewSince(n)) /\ ~CheckSerial(n)
      <4>1. NewSince(n) = Select(entries, Newer(n))
        BY DEF NewSince, Newer
      <4>2. NewSince(n) \in Seq(Entry)
        BY <4>1, <1>0, SelectIs DEF Newer
      <4>3. ~Lacks(n)
        BY <3>5, <1>0, ServedLacksNothing
      <4>4. ASSUME NEW r \in Roa
            PROVE  \E w : /\ Leads(toClient, r, installed[r], w)
                          /\ Leads(Answer(NewSince(n)), r, w, Once(IsAnnounced(r)))
        <5>1. Settles(r, Once(Held(r, n)))
          BY <3>1, <4>3 DEF Right
        <5>2. Leads(toClient, r, installed[r], Once(Held(r, n)))
          BY <5>1, <3>3
        <5>3. Leads(Answer(NewSince(n)), r, Once(Held(r, n)), Once(IsAnnounced(r)))
          BY <4>1, <1>0, NewerLeads
        <5> QED BY <5>2, <5>3
      <4> QED BY <3>2, <3>5, <4>2, <4>4, <1>6
    <3>6. sending' = <<>> \/ sending' = <<[type |-> "cache reset"]>> \/
            (sending' = Answer(NewSince(n)) /\ ~CheckSerial(n))
      BY <3>2, <1>1 DEF Response
    <3>7. sending' = <<>> => Silent(sending')
      BY DEF Silent
    <3>8. sending' = <<[type |-> "cache reset"]>> => Silent(sending')
      <4> DEFINE m == [type |-> "cache reset"]
      <4>1. IsSilent(m)
        BY DEF IsSilent
      <4> HIDE DEF m
      <4>2. \A i \in DOMAIN <<m>> : <<m>>[i] = m
        OBVIOUS
      <4>3. sending' = <<m>> => Silent(sending')
        BY <4>1, <4>2 DEF Silent
      <4> QED BY <4>3 DEF m
    <3> QED BY <3>4, <3>5, <3>6, <3>7, <3>8
  <2>4. CASE Answered
    BY <2>4, <1>1 DEF Answered
  <2> QED BY <2>1, <2>2, <2>3, <2>4
<1> QED BY <1>3, <1>8

\* The first Reset Query meets an empty connection; a later one is not exact.
LEMMA StartExact ==
  ASSUME ExactInv, ResetQuery \/ SessionChangedQuery
  PROVE  NothingYet' /\ Exact'
<1>0. KnowInv /\ TypeInv
  BY KnowTypes DEF ExactInv
<1>1. StartEffect
  BY <1>0, StartIs
<1>2. UNCHANGED <<toClient, installed, sending, up>>
  BY <1>1 DEF StartEffect
<1>3. CASE SendResetQuery
  <2>1. trail' = IF trail = "new" THEN "exact" ELSE "blurred"
    BY <1>3 DEF SendResetQuery
  <2>2. NothingYet'
    BY <2>1 DEF NothingYet
  <2>3. Exact'
    <3> SUFFICES ASSUME Following', trail' = "exact" PROVE Asked'
      BY DEF Exact
    <3> DEFINE q == [type |-> "reset query"]
    <3>1. trail = "new" /\ up
      BY <2>1, <1>2 DEF Following
    <3>2. toCache = <<>> /\ sending = <<>> /\ Silent(toClient) /\ \A r \in Roa : installed[r] = 0
      BY <3>1 DEF ExactInv, NothingYet
    <3>3. IsReset(q)
      BY DEF IsReset
    <3>4. toCache' = Append(toCache, q)
      BY <1>3, <3>1 DEF SendResetQuery, ToCache
    <3> HIDE DEF q
    <3>5. Len(toCache') = 1 /\ toCache'[1] = q
      BY <3>2, <3>4
    <3>6. sending' = <<>> /\ Silent(toClient') /\ \A r \in Roa : installed'[r] = 0
      BY <3>2, <1>2
    <3> QED BY <3>3, <3>5, <3>6 DEF Asked
  <2> QED BY <2>2, <2>3
<1>4. CASE ~up /\ client'.at \in {"lost", "query"} /\ UNCHANGED <<toCache, trail>>
  BY <1>4, <1>2 DEF ExactInv, NothingYet, Exact, Following
<1> QED BY <1>1, <1>3, <1>4 DEF StartEffect

\* Without a connection nothing is followed.
LEMMA DownExact ==
  ASSUME ExactInv, ReceiveFails \/ Reconnect \/ LoseConnection \/ CacheStops
  PROVE  NothingYet' /\ Exact'
<1>0. KnowInv /\ TypeInv /\ toClient \in Seq(Pdu)
  BY KnowTypes DEF ExactInv
<1>1. CASE ReceiveFails
  <2>1. FailsEffect
    BY <1>0, <1>1, FailsIs
  <2>2. client.at \in Receiving /\ ~up /\ UNCHANGED <<up, trail>>
    BY <2>1 DEF FailsEffect
  <2>3. trail' # "new"
    BY <2>2 DEF ExactInv, NothingYet, Receiving
  <2> QED BY <2>2, <2>3 DEF NothingYet, Exact, Following
<1>2. CASE Reconnect
  <2>1. ReconnectEffect
    BY <1>0, <1>2, ReconnectIs
  <2>2. /\ client'.at \in {"requery", "query"} /\ toCache' = <<>> /\ toClient' = <<>> /\ sending' = <<>>
        /\ UNCHANGED <<installed, trail>>
    BY <2>1 DEF ReconnectEffect
  <2>3. NothingYet'
    BY <2>2 DEF ExactInv, NothingYet, Silent
  <2>4. Exact'
    BY <2>2 DEF Exact, Following
  <2> QED BY <2>3, <2>4
<1>3. CASE LoseConnection \/ CacheStops
  <2>1. /\ up' = FALSE /\ toCache' = <<>> /\ sending' = <<>> /\ UNCHANGED <<client, installed, trail>>
        /\ \E n \in 0 .. Len(toClient) : toClient' = SubSeq(toClient, 1, n)
    BY <1>3 DEF LoseConnection, CacheStops, Disconnect, clientVars
  <2>2. PICK n \in 0 .. Len(toClient) : toClient' = SubSeq(toClient, 1, n)
    BY <2>1
  <2>3. \A i \in DOMAIN toClient' : i \in DOMAIN toClient /\ toClient'[i] = toClient[i]
    BY <2>2, <1>0
  <2>4. Silent(toClient) => Silent(toClient')
    BY <2>3 DEF Silent
  <2> QED BY <2>1, <2>4 DEF ExactInv, NothingYet, Exact, Following
<1> QED BY <1>1, <1>2, <1>3

LEMMA ExactInit == Init => ExactInv
<1> SUFFICES ASSUME Init PROVE NothingYet /\ Exact
  BY KnowInit DEF ExactInv
<1>1. toCache = <<>> /\ toClient = <<>> /\ sending = <<>> /\ trail = "new"
  BY DEF Init
<1>2. client.at = "query" /\ \A r \in Roa : installed[r] = 0
  BY DEF Init
<1> QED BY <1>1, <1>2 DEF NothingYet, Exact, Silent

\* The entries and the bounds of the deleted withdrawals stay.
LEMMA SameExact ==
  ASSUME ExactInv,
         \/ toClient' = toClient
         \/ \E m : IsSilent(m) /\ toClient' = Append(toClient, m),
         UNCHANGED <<client, foreign, installed, up, toCache, sending, trail, entries, expired>>,
         Newest' = Newest
  PROVE  NothingYet' /\ Exact'
<1>1. \A n : Lacks(n)' <=> Lacks(n)
  BY DEF Lacks
<1>2. \A n, r : Held(r, n)' <=> Held(r, n)
  BY DEF Held
<1> QED BY <1>1, <1>2, TellExact

LEMMA ExactNext == ExactInv /\ [Next]_vars /\ ~miscounted' => ExactInv'
<1> SUFFICES ASSUME ExactInv, [Next]_vars, ~miscounted' PROVE NothingYet' /\ Exact'
  BY KnowNext DEF ExactInv
<1>1. KnowInv /\ OrderInv
  BY DEF ExactInv, KnowInv
<1>2. CASE Next
  <2>1. CASE ReadStep
    BY <2>1, ReadExact
  <2>2. CASE ResetQuery \/ SessionChangedQuery
    BY <2>2, StartExact
  <2>3. CASE ReceiveFails \/ Reconnect \/ LoseConnection \/ CacheStops
    BY <2>3, DownExact
  <2>4. CASE SendPdu
    BY <2>4, SendExact
  <2>5. CASE HandleQuery
    BY <2>5, HandleExact
  <2>6. CASE (\E r \in Roa : AppendPrefix(r)) \/ (\E i \in DOMAIN entries : RemoveEntry(i))
    <3>1. \E K, es, f, e : ChangeEffect(K, es, f, e)
      BY <2>6, <1>1, AppendPrefixIs, RemoveEntryIs
    <3>2. /\ UNCHANGED <<client, foreign, installed, up, toCache, sending, trail, toClient, expired>>
          /\ sending = <<>>
      BY <3>1 DEF ChangeEffect
    <3>3. \A n : Lacks(n)' <=> Lacks(n)
      BY <3>2 DEF Lacks
    <3>4. \A n \in Nat, r \in Roa : n <= Newest => (Held(r, n)' <=> Held(r, n))
      BY <2>6, <1>1, ChangeHolds
    <3> QED BY <3>2, <3>3, <3>4, TellExact
  <2>7. CASE SendSerialNotify \/ (\E s \in Session : ChangeSession(s))
             \/ (\E type \in {"cache reset", "error"} : SendUnasked(type))
    <3>1. UNCHANGED <<client, foreign, installed, up, toCache, sending, trail, entries, expired, Newest>>
      BY <2>7 DEF SendSerialNotify, ChangeSession, SendUnasked, Command, clientVars, cacheData, Newest
    <3>2. \E m : ToClient(m) /\ IsSilent(m)
      <4>1. \A s : IsSilent(Notify(s))
        BY DEF Notify, IsSilent
      <4>2. CASE SendSerialNotify \/ \E s \in Session : ChangeSession(s)
        <5>1. \E s : ToClient(Notify(s))
          BY <4>2 DEF SendSerialNotify, ChangeSession
        <5> QED BY <5>1, <4>1
      <4>3. ASSUME NEW type \in {"cache reset", "error"}, SendUnasked(type)
            PROVE  \E m : ToClient(m) /\ IsSilent(m)
        <5>1. ToClient([type |-> type]) /\ [type |-> type].type = type
          BY <4>3 DEF SendUnasked
        <5>2. IsSilent([type |-> type])
          BY <5>1 DEF IsSilent
        <5> QED BY <5>1, <5>2
      <4> QED BY <2>7, <4>2, <4>3
    <3> QED BY <3>1, <3>2, SameExact DEF ToClient
  <2>8. CASE EmptyCache
    <3>1. UNCHANGED <<client, foreign, installed, up, toCache, sending, toClient, expired, Newest>>
      BY <2>8 DEF EmptyCache, Change, Command, clientVars, Newest
    <3>2. entries' = <<>> /\ trail' = IF entries = <<>> \/ trail = "astray" THEN trail ELSE "blurred"
      BY <2>8 DEF EmptyCache
    <3>3. CASE entries = <<>>
      BY <3>1, <3>2, <3>3, SameExact
    <3>4. CASE entries # <<>>
      BY <3>2, <3>4 DEF NothingYet, Exact
    <3> QED BY <3>3, <3>4
  <2>9. ASSUME NEW age \in Serial, TimerExpired(age) PROVE NothingYet' /\ Exact'
    <3>1. /\ UNCHANGED <<client, foreign, installed, up, toCache, sending, trail>>
          /\ ToClient(Notify(session)) \/ toClient' = toClient
          /\ sending = <<>>
      BY <2>9 DEF TimerExpired, WriteLock, clientVars, historyVars
    <3>2. IsSilent(Notify(session))
      BY DEF Notify, IsSilent
    <3>3. \A n \in Nat : /\ Lacks(n) => Lacks(n)'
                         /\ \A r : Lacks(n)' \/ (Held(r, n)' <=> Held(r, n))
      BY <2>9, <1>1, TimerHolds
    <3>4. \/ toClient' = toClient
          \/ \E m : IsSilent(m) /\ toClient' = Append(toClient, m)
      BY <3>1, <3>2 DEF ToClient
    <3> QED BY <3>1, <3>3, <3>4, TellExact
  <2>10. CASE OtherQuery \/ CacheStarts
    <3>1. /\ UNCHANGED <<client, foreign, installed, up, toCache, sending, trail, entries, expired>>
          /\ toClient' = toClient /\ Newest' = Newest
      BY <2>10 DEF OtherQuery, CacheStarts, clientVars, historyVars, linkVars, cacheData, Newest
    <3> QED BY <3>1, SameExact
  <2>11. CASE CountEntries \/ RaiseSerial \/ RequestNotify \/ TimerBlocks
    BY <2>11, <1>1, KnowTypes, ConsoleIs, SameExact DEF ConsoleEffect
  <2> QED BY <1>2, <2>1, <2>2, <2>3, <2>4, <2>5, <2>6, <2>7, <2>8, <2>9, <2>10,
             <2>11, NextCases DEF Commands, ConsoleStep, Appends
<1>3. CASE UNCHANGED vars
  <2>1. /\ UNCHANGED <<client, foreign, installed, up, toCache, sending, trail, entries, expired>>
        /\ toClient' = toClient /\ Newest' = Newest
    BY <1>3 DEF vars, clientVars, historyVars, linkVars, cacheVars, cacheData, Newest
  <2> QED BY <2>1, SameExact
<1> QED BY <1>2, <1>3

\* A synchronized client that needed one Reset Query only has exactly the ROAs the
\* cache announces, each once: every answer takes what its serial number stands
\* for to what the cache announces, and a serial number for which a withdrawal is
\* missing is never served (sendCacheObjects, checkSerial, handlePrefix).  New
\* entries are counted right, and no End of Data came between a new entry and its
\* serial number (appendPrefixData).
THEOREM ClientFollowsExactly == Spec => []FollowsExactly
<1>1. miscounted \/ ExactInv => FollowsExactly
  <2> SUFFICES ASSUME ExactInv, Synchronized, trail = "exact", NEW r \in Roa
               PROVE  installed[r] = Once(IsAnnounced(r))
    BY DEF FollowsExactly, Once
  <2>1. /\ up /\ client.at = "loop" /\ toCache = <<>> /\ sending = <<>> /\ toClient = <<>>
        /\ client.serial = Newest
    BY DEF Synchronized, Newest
  <2>2. KnowInv /\ OrderInv /\ TypeInv
    BY DEF ExactInv, KnowInv, OrderInv
  <2>3. ~Asked
    BY <2>1 DEF Asked
  <2>4. ~Answered
    BY <2>1 DEF Answered, EndsWith, EndsLast, EndsAt
  <2>5. Quiet
    BY <2>1, <2>3, <2>4 DEF ExactInv, Exact, Following
  <2>6. Right(Newest)
    BY <2>1, <2>5 DEF Quiet
  <2>7. ~Lacks(Newest)
    <3>1. expired.max \in Serial /\ expired.max <= Newest
      BY <2>2 DEF OrderInv, TypeInv, TypeOK
    <3>2. expired.max \in Nat /\ Newest \in Nat
      BY <3>1, <2>2, SerialIsNat, NewestType
    <3>3. ~(Newest < expired.max)
      BY <3>1, <3>2
    <3> QED BY <3>3 DEF Lacks
  <2>8. Settles(r, Once(Held(r, Newest)))
    BY <2>6, <2>7 DEF Right
  <2>9. PICK w : Leads(<<>>, r, installed[r], w) /\ Leads(<<>>, r, w, Once(Held(r, Newest)))
    BY <2>1, <2>8 DEF Settles
  <2>10. installed[r] = Once(Held(r, Newest))
    BY <2>9, NothingLeadsNowhere
  <2>11. Held(r, Newest) <=> IsAnnounced(r)
    BY <2>2, HeldIsAnnounced
  <2> QED BY <2>10, <2>11 DEF Once
<1>2. TypeInv /\ (miscounted \/ ExactInv) /\ [Next]_vars => (miscounted \/ ExactInv)'
  BY ExactNext, MiscountStays
<1>3. Spec => [](miscounted \/ ExactInv)
  BY <1>2, ExactInit, TypeInvariant, PTL DEF Spec
<1> QED BY <1>1, <1>3, PTL
=============================================================================
