--------------------------- MODULE ProxyMapProofs ---------------------------
(***************************************************************************)
(* Theorems about ProxyMap, for every set of connections and proxies, any  *)
(* size of the table and any width of the counter: its table keeps what is *)
(* configured, a proxy has one clientID until the counter wraps, and the   *)
(* socket of an active mapping is a connection that knows its clientID.    *)
(***************************************************************************)
EXTENDS ProxyMap, FiniteSetTheorems, WellFoundedInduction, TLAPS

\* Every non-empty set of natural numbers has a least element.
LEMMA LeastElement ==
  ASSUME NEW S \in SUBSET Nat, S # {}
  PROVE  \E x \in S : \A y \in S : x <= y
<1>. DEFINE R == {ss \in Nat \X Nat : ss[1] < ss[2]}
<1>1. IsWellFoundedOn(R, Nat)
  <2>1. IsWellFoundedOn(OpToRel(<, Nat), Nat)
    BY NatLessThanWellFounded
  <2>2. R \cap (Nat \X Nat) \subseteq OpToRel(<, Nat)
    BY DEF OpToRel
  <2>. QED  BY <2>1, <2>2, IsWellFoundedOnSubrelation
<1>2. \E x \in S : \A y \in S : ~ (<<y, x>> \in R)
  <2>. HIDE DEF R
  <2>. QED  BY <1>1, WFMin
<1>3. PICK x \in S : \A y \in S : ~ (<<y, x>> \in R)
  BY <1>2
<1>4. ASSUME NEW y \in S
      PROVE  x <= y
  <2>1. x \in Nat /\ y \in Nat /\ ~ (<<y, x>> \in R)
    BY <1>3
  <2>2. <<y, x>> \in R <=> y < x
    BY <2>1
  <2>. QED  BY <2>1, <2>2
<1>. QED  BY <1>4

(***************************************************************************)
(* Every non-empty set of clientIDs has a smallest element, so the scans   *)
(* of findClientID and createClientID return an entry they looked for.     *)
(***************************************************************************)
LEMMA SmallestIsMember ==
  ASSUME NEW S \in SUBSET UsableID, S # {}
  PROVE  Smallest(S) \in S /\ \A j \in S : Smallest(S) <= j
<1>1. S \in SUBSET Nat
  BY SizeAssumption DEF UsableID
<1>. QED  BY <1>1, LeastElement DEF Smallest

LEMMA FindClientIDMeaning ==
  ASSUME NEW p
  PROVE  /\ FindClientID(p) \in ClientID
         /\ FindClientID(p) # 0
              => /\ FindClientID(p) \in UsableID
                 /\ proxyMap[FindClientID(p)].proxyID = p
<1>. DEFINE found == {i \in UsableID : /\ proxyMap[i].proxyID = p
                                       /\ Cardinality(AssignedBelow(i)) < noMappings}
<1>0. 0 \in ClientID /\ UsableID \subseteq ClientID
  BY SizeAssumption DEF ClientID, UsableID
<1>1. CASE found = {}
  BY <1>0, <1>1 DEF FindClientID
<1>2. CASE found # {}
  <2>1. FindClientID(p) = Smallest(found)
    BY <1>2 DEF FindClientID
  <2>2. Smallest(found) \in found
    <3>1. found \in SUBSET UsableID
      OBVIOUS
    <3>. QED  BY <3>1, <1>2, SmallestIsMember
  <2>. QED  BY <1>0, <2>1, <2>2
<1>. QED  BY <1>1, <1>2

LEMMA CreateClientIDMeaning ==
  /\ CreateClientID \in ClientID
  /\ CreateClientID # 0
       => /\ CreateClientID \in UsableID
          /\ proxyMap[CreateClientID].proxyID = NoProxy
<1>. DEFINE free == {i \in UsableID : proxyMap[i].proxyID = NoProxy}
<1>0. 0 \in ClientID /\ UsableID \subseteq ClientID
  BY SizeAssumption DEF ClientID, UsableID
<1>1. CASE free = {}
  BY <1>0, <1>1 DEF CreateClientID
<1>2. CASE free # {}
  <2>1. CreateClientID = Smallest(free)
    BY <1>2 DEF CreateClientID
  <2>2. Smallest(free) \in free
    <3>1. free \in SUBSET UsableID
      OBVIOUS
    <3>. QED  BY <3>1, <1>2, SmallestIsMember
  <2>. QED  BY <1>0, <2>1, <2>2
<1>. QED  BY <1>1, <1>2

LEMMA HandshakeIDType ==
  ASSUME NEW p
  PROVE  HandshakeID(p) \in ClientID
BY FindClientIDMeaning, CreateClientIDMeaning DEF HandshakeID

LEMMA CounterStaysInWidth ==
  ASSUME NEW n \in Nat
  PROVE  /\ n % CounterMod \in 0 .. CounterMod - 1
         /\ n < CounterMod => n % CounterMod = n
BY SizeAssumption

(***************************************************************************)
(* Type correctness.                                                       *)
(***************************************************************************)
LEMMA InitType == Init => TypeOK
<1>. SUFFICES ASSUME Init PROVE TypeOK
  OBVIOUS
<1>1. IsFiniteSet({i \in UsableID : IsConfigured(i)})
      /\ Cardinality({i \in UsableID : IsConfigured(i)}) \in 0 .. CounterMod - 1
  <2>1. IsFiniteSet(UsableID) /\ Cardinality(UsableID) = MaxElements - 1
    BY SizeAssumption, FS_Interval DEF UsableID
  <2>2. {i \in UsableID : IsConfigured(i)} \in SUBSET UsableID
    OBVIOUS
  <2>3. IsFiniteSet({i \in UsableID : IsConfigured(i)})
        /\ Cardinality({i \in UsableID : IsConfigured(i)}) <= MaxElements - 1
    BY <2>1, <2>2, FS_Subset
  <2>. QED  BY <2>3, FS_CardinalityType, SizeAssumption
<1>2. proxyMap \in [ClientID -> Mapping]
  BY ConfiguredAssumption DEF Init, IsConfigured, Mapping
<1>3. ct \in [Conn -> ClientThread]
  BY SizeAssumption DEF Init, NewThread, ClientThread, ThreadPos, ClientID
<1>4. cmd \in Command
  BY SizeAssumption DEF Init, Idle, Command, CmdStep, ClientID
<1>. QED  BY <1>1, <1>2, <1>3, <1>4 DEF Init, TypeOK, Phase, Idle

(***************************************************************************)
(* How the actions update a mapping and a ClientThread.                    *)
(***************************************************************************)
LEMMA MappingUpdates ==
  ASSUME NEW r \in Mapping, NEW b \in BOOLEAN
  PROVE  /\ [r EXCEPT !.isActive = FALSE, !.crashed = b] \in Mapping
         /\ [r EXCEPT !.socket = NoConn,
                      !.proxyID = IF r.preDefined \/ r.crashed
                                  THEN r.proxyID ELSE NoProxy] \in Mapping
<1>1. [r EXCEPT !.isActive = FALSE, !.crashed = b] \in Mapping
  BY Zenon DEF Mapping
<1>2. ASSUME NEW q \in ProxyID \union {NoProxy}
      PROVE  [r EXCEPT !.socket = NoConn, !.proxyID = q] \in Mapping
  BY Zenon DEF Mapping
<1>3. (IF r.preDefined \/ r.crashed THEN r.proxyID ELSE NoProxy)
        \in ProxyID \union {NoProxy}
  BY DEF Mapping
<1>. QED  BY <1>1, <1>2, <1>3, Zenon

LEMMA ThreadMoves ==
  ASSUME NEW r \in ClientThread, NEW t \in ThreadPos
  PROVE  [r EXCEPT !.thread = t] \in ClientThread
BY Zenon DEF ClientThread

LEMMA ThreadAndActive ==
  ASSUME NEW r \in ClientThread, NEW t \in ThreadPos, NEW b \in BOOLEAN
  PROVE  /\ [r EXCEPT !.thread = t, !.active = b] \in ClientThread
         /\ [r EXCEPT !.active = b, !.thread = t] \in ClientThread
<1>1. [r EXCEPT !.thread = t, !.active = b] \in ClientThread
  BY Zenon DEF ClientThread
<1>2. [r EXCEPT !.active = b, !.thread = t] \in ClientThread
  BY Zenon DEF ClientThread
<1>. QED  BY <1>1, <1>2

LEMMA ThreadAndDelID ==
  ASSUME NEW r \in ClientThread, NEW t \in ThreadPos, NEW i \in ClientID
  PROVE  [r EXCEPT !.thread = t, !.delID = i] \in ClientThread
BY Zenon DEF ClientThread

LEMMA ThreadSent ==
  ASSUME NEW r \in ClientThread, NEW S \in SUBSET {"hello", "goodbye", "other"}
  PROVE  [r EXCEPT !.sent = S] \in ClientThread
BY Zenon DEF ClientThread

LEMMA ThreadGoodBye ==
  ASSUME NEW r \in ClientThread, NEW b \in BOOLEAN
  PROVE  [r EXCEPT !.goodByeReceived = b] \in ClientThread
BY Zenon DEF ClientThread

LEMMA ThreadHandshake ==
  ASSUME NEW r \in ClientThread, NEW p \in ProxyID \union {NoProxy},
         NEW i \in ClientID, NEW b \in BOOLEAN
  PROVE  [r EXCEPT !.proxyID = p, !.routerID = i, !.initialized = b] \in ClientThread
BY Zenon DEF ClientThread

LEMMA ThreadPositions ==
  /\ "reading" \in ThreadPos /\ "closing" \in ThreadPos /\ "delmap" \in ThreadPos
  /\ "leaving" \in ThreadPos /\ "gone" \in ThreadPos
BY DEF ThreadPos

LEMMA HeadOfQueue ==
  ASSUME NEW q \in Seq(Pdu), q # << >>
  PROVE  /\ Head(q) \in Pdu /\ Tail(q) \in Seq(Pdu)
         /\ Head(q).conn \in Conn
         /\ Head(q).proxy \in ProxyID \union {NoProxy}
<1>1. Head(q) \in Pdu /\ Tail(q) \in Seq(Pdu)
  OBVIOUS
<1>. QED  BY <1>1 DEF Pdu

LEMMA IdleIsCommand == Idle \in Command
BY SizeAssumption DEF Idle, Command, CmdStep, ClientID

LEMMA NextType == TypeOK /\ [Next]_vars => TypeOK'
<1>. SUFFICES ASSUME TypeOK, [Next]_vars PROVE TypeOK'
  OBVIOUS
<1>. USE DEF TypeOK
<1>0. ASSUME NEW c \in Conn, NEW r \in ClientThread
      PROVE  [ct EXCEPT ![c] = r] \in [Conn -> ClientThread]
  OBVIOUS
<1>1. ASSUME NEW c \in Conn, Accept(c) PROVE TypeOK'
  <2>1. [ct[c] EXCEPT !.thread = "reading", !.active = TRUE] \in ClientThread
    BY ThreadAndActive, ThreadPositions, Zenon
  <2>2. ct' \in [Conn -> ClientThread]
    BY <1>0, <1>1, <2>1 DEF Accept
  <2>. QED  BY <1>1, <2>2 DEF Accept
<1>2. ASSUME NEW c \in Conn, LoseConnection(c) PROVE TypeOK'
  <2>1. [ct[c] EXCEPT !.thread = "closing"] \in ClientThread
    BY ThreadMoves, ThreadPositions, Zenon
  <2>2. ct' \in [Conn -> ClientThread]
    BY <1>0, <1>2, <2>1 DEF LoseConnection
  <2>. QED  BY <1>2, <2>2 DEF LoseConnection
<1>3. ASSUME NEW i \in ClientID, NEW b \in BOOLEAN, Deactivate(i, b)
      PROVE  proxyMap' \in [ClientID -> Mapping]
  <2>1. [proxyMap[i] EXCEPT !.isActive = FALSE, !.crashed = b] \in Mapping
    BY MappingUpdates
  <2>. QED  BY <1>3, <2>1 DEF Deactivate
<1>4. ASSUME NEW i \in ClientID, DelMapping(i)
      PROVE  proxyMap' \in [ClientID -> Mapping]
  <2>. DEFINE r == [proxyMap[i] EXCEPT !.socket = NoConn,
                       !.proxyID = IF proxyMap[i].preDefined \/ proxyMap[i].crashed
                                   THEN proxyMap[i].proxyID ELSE NoProxy]
  <2>1. r \in Mapping
    BY MappingUpdates, Zenon
  <2>2. proxyMap' = [proxyMap EXCEPT ![i] = r]
    BY <1>4, Zenon DEF DelMapping
  <2>. HIDE DEF r
  <2>. QED  BY <2>1, <2>2
<1>5. ASSUME NEW c \in Conn, StatusChange(c) PROVE TypeOK'
  <2>1. ct[c].routerID \in ClientID
    BY DEF ClientThread
  <2>2. proxyMap' \in [ClientID -> Mapping]
    BY <1>3, <1>5, <2>1 DEF StatusChange
  <2>3. [ct[c] EXCEPT !.thread = "delmap", !.delID = ct[c].routerID] \in ClientThread
    BY <2>1, ThreadAndDelID, ThreadPositions, Zenon
  <2>4. ct' \in [Conn -> ClientThread]
    BY <1>0, <1>5, <2>3 DEF StatusChange
  <2>. QED  BY <1>5, <2>2, <2>4 DEF StatusChange
<1>6. ASSUME NEW c \in Conn, StatusChangeDelMapping(c) PROVE TypeOK'
  <2>1. ct[c].delID \in ClientID /\ 0 \in ClientID
    BY SizeAssumption DEF ClientThread, ClientID
  <2>2. proxyMap' \in [ClientID -> Mapping]
    BY <1>4, <1>6, <2>1 DEF StatusChangeDelMapping
  <2>3. [ct[c] EXCEPT !.thread = "leaving", !.delID = 0] \in ClientThread
    BY <2>1, ThreadAndDelID, ThreadPositions, Zenon
  <2>4. ct' \in [Conn -> ClientThread]
    BY <1>0, <1>6, <2>3 DEF StatusChangeDelMapping
  <2>. QED  BY <1>6, <2>2, <2>4 DEF StatusChangeDelMapping
<1>7. ASSUME NEW c \in Conn, Leave(c) PROVE TypeOK'
  <2>1. [ct[c] EXCEPT !.thread = "gone", !.active = FALSE] \in ClientThread
    BY ThreadAndActive, ThreadPositions, Zenon
  <2>2. ct' \in [Conn -> ClientThread]
    BY <1>0, <1>7, <2>1 DEF Leave
  <2>. QED  BY <1>7, <2>2 DEF Leave
<1>8. ASSUME NEW c \in Conn, NEW t \in Sends, NEW p \in ProxyID \union {NoProxy},
             Receive(c, t, p)
      PROVE  TypeOK'
  <2>. DEFINE kind == IF t = "badhello" THEN "hello" ELSE t
  <2>1. t \in PduType /\ kind \in {"hello", "goodbye", "other"}
    BY SendsAssumption DEF PduType
  <2>2. rxQueue' \in Seq(Pdu)
    BY <1>8, <2>1 DEF Receive, Pdu
  <2>3. ct' = [ct EXCEPT ![c] = [@ EXCEPT !.sent = ct[c].sent \union {kind}]]
    BY <1>8 DEF Receive
  <2>4. ct' \in [Conn -> ClientThread]
    <3>. HIDE DEF kind
    <3>1. ct[c].sent \union {kind} \in SUBSET {"hello", "goodbye", "other"}
      BY <2>1 DEF ClientThread
    <3>2. [ct[c] EXCEPT !.sent = ct[c].sent \union {kind}] \in ClientThread
      BY <3>1, ThreadSent, Zenon
    <3>. QED  BY <1>0, <2>3, <3>2
  <2>. QED  BY <1>8, <2>2, <2>4 DEF Receive
<1>9. ASSUME HandlePacket PROVE TypeOK'
  <2>. DEFINE pkt == Head(rxQueue)
              b   == ct[pkt.conn].goodByeReceived
                       \/ /\ pkt.type = "goodbye"
                          /\ ct[pkt.conn].active /\ ct[pkt.conn].initialized
  <2>1. pkt \in Pdu /\ Tail(rxQueue) \in Seq(Pdu) /\ pkt.conn \in Conn
    BY <1>9, HeadOfQueue DEF HandlePacket
  <2>2. ct' \in [Conn -> ClientThread] /\ cmdQueue' \in Seq(Pdu)
    <3>1. CASE Refused(pkt)
      BY <1>9, <3>1 DEF HandlePacket
    <3>2. CASE ~Refused(pkt)
      <4>1. b \in BOOLEAN
        BY <2>1 DEF ClientThread
      <4>2. ct' = [ct EXCEPT ![pkt.conn] = [ct[pkt.conn] EXCEPT !.goodByeReceived = b]]
        BY <1>9, <3>2 DEF HandlePacket
      <4>3. cmdQueue' = Append(cmdQueue, pkt)
        BY <1>9, <3>2 DEF HandlePacket
      <4>. HIDE DEF b, pkt
      <4>4. [ct[pkt.conn] EXCEPT !.goodByeReceived = b] \in ClientThread
        BY <2>1, <4>1, ThreadGoodBye, Zenon
      <4>. QED  BY <1>0, <2>1, <4>2, <4>3, <4>4
    <3>. QED  BY <3>1, <3>2
  <2>. QED  BY <1>9, <2>1, <2>2 DEF HandlePacket
<1>10. ASSUME NEW c \in Conn, Kill(c) PROVE ct' \in [Conn -> ClientThread]
  <2>1. CASE ~ct[c].active
    BY <1>10, <2>1 DEF Kill
  <2>2. CASE ct[c].active
    <3>1. PICK t \in CancelOutcomes(ct[c].thread) :
            ct' = [ct EXCEPT ![c] = [@ EXCEPT !.thread = t, !.active = FALSE]]
      BY <1>10, <2>2 DEF Kill
    <3>2. t \in ThreadPos
      BY DEF CancelOutcomes, ThreadPos
    <3>3. [ct[c] EXCEPT !.thread = t, !.active = FALSE] \in ClientThread
      BY <3>2, ThreadAndActive, Zenon
    <3>. QED  BY <1>0, <3>1, <3>3
  <2>. QED  BY <2>1, <2>2
<1>11. ASSUME NEW T, NextCommand(T)
      PROVE  /\ Head(cmdQueue) \in Pdu
             /\ Head(cmdQueue).conn \in Conn
             /\ Head(cmdQueue).proxy \in ProxyID \union {NoProxy}
             /\ cmdQueue' \in Seq(Pdu)
             /\ cmd.step = "idle"
  BY <1>11, HeadOfQueue DEF NextCommand
<1>12. ASSUME HandshakeMap PROVE TypeOK'
  <2>. DEFINE c == Head(cmdQueue).conn
              p == Head(cmdQueue).proxy
              i == HandshakeID(p)
  <2>1. c \in Conn /\ p \in ProxyID \union {NoProxy} /\ cmdQueue' \in Seq(Pdu)
    BY <1>11, <1>12 DEF HandshakeMap
  <2>2. i \in ClientID
    BY HandshakeIDType
  <2>3. AddMapping(p, i, c)
        /\ cmd' = [step |-> "mapped", conn |-> c, proxy |-> p, id |-> i]
        /\ UNCHANGED <<ct, clients, cthreads, rxQueue, phase>>
    BY <1>12 DEF HandshakeMap
  <2>. HIDE DEF c, p, i
  <2>4. proxyMap' \in [ClientID -> Mapping]
    BY <2>1, <2>2, <2>3 DEF AddMapping, Mapping
  <2>5. installs' \in Nat /\ noMappings' \in 0 .. CounterMod - 1
    <3>1. noMappings + 1 \in Nat
      BY SizeAssumption
    <3>2. (noMappings + 1) % CounterMod \in 0 .. CounterMod - 1
      BY <3>1, CounterStaysInWidth
    <3>. QED  BY <2>3, <3>2 DEF AddMapping
  <2>6. cmd' \in Command /\ cmd'.conn \in Conn
    BY <2>1, <2>2, <2>3 DEF Command, CmdStep
  <2>. QED  BY <2>1, <2>3, <2>4, <2>5, <2>6
<1>13. ASSUME HandshakeAnswer PROVE TypeOK'
  <2>. DEFINE b == ct[cmd.conn].initialized \/ ct[cmd.conn].active
  <2>1. cmd.conn \in Conn /\ cmd.proxy \in ProxyID \union {NoProxy} /\ cmd.id \in ClientID
    BY <1>13 DEF HandshakeAnswer, Command
  <2>2. b \in BOOLEAN
    BY <2>1 DEF ClientThread
  <2>3. ct' = [ct EXCEPT ![cmd.conn] = [ct[cmd.conn] EXCEPT !.proxyID = cmd.proxy,
                            !.routerID = cmd.id, !.initialized = b]]
    BY <1>13 DEF HandshakeAnswer
  <2>4. ct' \in [Conn -> ClientThread]
    <3>. HIDE DEF b
    <3>1. [ct[cmd.conn] EXCEPT !.proxyID = cmd.proxy, !.routerID = cmd.id,
                               !.initialized = b] \in ClientThread
      BY <2>1, <2>2, ThreadHandshake, Zenon
    <3>. QED  BY <1>0, <2>1, <2>3, <3>1
  <2>5. cmd' \in Command /\ cmd'.step = "idle"
    BY <1>13, IdleIsCommand DEF HandshakeAnswer, Idle
  <2>. QED  BY <1>13, <2>4, <2>5 DEF HandshakeAnswer
<1>14. ASSUME HandshakeFail PROVE TypeOK'
  <2>1. Head(cmdQueue).conn \in Conn /\ cmdQueue' \in Seq(Pdu)
    BY <1>11, <1>14 DEF HandshakeFail
  <2>2. Kill(Head(cmdQueue).conn) /\ cthreads' \subseteq Conn /\ clients' \subseteq Conn
    BY <1>14 DEF HandshakeFail, CloseClientConnection
  <2>3. ct' \in [Conn -> ClientThread]
    BY <1>10, <2>1, <2>2
  <2>. QED  BY <1>14, <2>1, <2>2, <2>3 DEF HandshakeFail
<1>15. ASSUME CommandClose PROVE TypeOK'
  <2>1. Head(cmdQueue).conn \in Conn /\ cmdQueue' \in Seq(Pdu)
    BY <1>11, <1>15 DEF CommandClose
  <2>2. Kill(Head(cmdQueue).conn) /\ cthreads' \subseteq Conn
    BY <1>15 DEF CommandClose, CloseClientConnection
  <2>3. ct' \in [Conn -> ClientThread]
    BY <1>10, <2>1, <2>2
  <2>4. cmd' = [step |-> "closed", conn |-> Head(cmdQueue).conn,
                proxy |-> NoProxy, id |-> 0]
    BY <1>15, Zenon DEF CommandClose, Idle
  <2>5. cmd' \in Command /\ cmd'.conn \in Conn
    BY <2>1, <2>4, SizeAssumption DEF Command, CmdStep, ClientID
  <2>. QED  BY <1>15, <2>1, <2>2, <2>3, <2>5 DEF CommandClose
<1>16. ASSUME CommandDeactivate PROVE TypeOK'
  <2>0. cmd.conn \in Conn
    BY <1>16 DEF CommandDeactivate
  <2>1. ct[cmd.conn].routerID \in ClientID
    BY <2>0 DEF ClientThread
  <2>2. proxyMap' \in [ClientID -> Mapping]
    BY <1>3, <1>16, <2>1 DEF CommandDeactivate
  <2>3. cmd' = [cmd EXCEPT !.step = "delmap", !.id = ct[cmd.conn].routerID]
    BY <1>16 DEF CommandDeactivate
  <2>4. cmd' \in Command /\ cmd'.conn = cmd.conn
    BY <2>1, <2>3, Zenon DEF Command, CmdStep
  <2>. QED  BY <1>16, <2>0, <2>2, <2>4 DEF CommandDeactivate
<1>17. ASSUME CommandDelMapping PROVE TypeOK'
  <2>1. cmd.id \in ClientID
    BY DEF Command
  <2>2. proxyMap' \in [ClientID -> Mapping]
    BY <1>4, <1>17, <2>1 DEF CommandDelMapping
  <2>3. cmd' \in Command /\ cmd'.step = "idle"
    BY <1>17, IdleIsCommand DEF CommandDelMapping, Idle
  <2>. QED  BY <1>17, <2>2, <2>3 DEF CommandDelMapping
<1>18. ASSUME MarkShutdown PROVE TypeOK'
  BY <1>18 DEF MarkShutdown, Phase
<1>19. ASSUME StopProcessingCommands PROVE TypeOK'
  <2>1. cmd' = [step |-> "stopped", conn |-> NoConn, proxy |-> NoProxy, id |-> 0]
    BY <1>19, Zenon DEF StopProcessingCommands, Idle
  <2>2. cmd' \in Command /\ cmd'.step = "stopped"
    BY <2>1, SizeAssumption DEF Command, CmdStep, ClientID
  <2>. QED  BY <1>19, <2>2 DEF StopProcessingCommands, Phase
<1>20. ASSUME StopProcessingRequests PROVE TypeOK'
  <2>1. PICK kept \in SUBSET {c \in cthreads : "reading" # ct[c].thread} :
          ct' = [c \in Conn |->
                   IF c \in cthreads /\ ct[c].active
                   THEN [ct[c] EXCEPT !.active = FALSE,
                                      !.thread = IF c \in kept THEN ct[c].thread ELSE "gone"]
                   ELSE ct[c]]
    BY <1>20 DEF StopProcessingRequests
  <2>2. ASSUME NEW c \in Conn
        PROVE  [ct[c] EXCEPT !.active = FALSE,
                             !.thread = IF c \in kept THEN ct[c].thread ELSE "gone"] \in ClientThread
    <3>1. (IF c \in kept THEN ct[c].thread ELSE "gone") \in ThreadPos
      BY DEF ClientThread, ThreadPos
    <3>. QED  BY <3>1, ThreadAndActive, Zenon
  <2>3. ct' \in [Conn -> ClientThread]
    BY <2>1, <2>2
  <2>4. /\ phase' = "stopped" /\ rxQueue' = << >> /\ cthreads' = {}
        /\ UNCHANGED <<proxyMap, noMappings, installs, clients, cmdQueue, cmd>>
    BY <1>20 DEF StopProcessingRequests
  <2>5. rxQueue' \in Seq(Pdu) /\ cthreads' \subseteq Conn /\ phase' \in Phase
    BY <2>4 DEF Phase
  <2>. QED  BY <2>3, <2>4, <2>5
<1>21. CASE UNCHANGED vars
  BY <1>21 DEF vars
<1>. QED
  BY <1>1, <1>2, <1>5, <1>6, <1>7, <1>8, <1>9, <1>12, <1>13, <1>14, <1>15, <1>16,
     <1>17, <1>18, <1>19, <1>20, <1>21 DEF Next, ReaderStep, CommandStep

\* Type correctness of the connection management.
THEOREM TypeCorrect == Spec => []TypeOK
BY InitType, NextType, PTL DEF Spec

(***************************************************************************)
(* Only four kinds of steps touch the mapping table: the two halves of a   *)
(* deactivation, the installation of a mapping for a Hello, and none.      *)
(***************************************************************************)
TableUnchanged == UNCHANGED <<proxyMap, noMappings, installs>>

Installs(p, i, c) ==
  /\ i = HandshakeID(p)
  /\ MayMap(p, i, c)
  /\ AddMapping(p, i, c)

LEMMA TableSteps ==
  ASSUME TypeOK, [Next]_vars
  PROVE  \/ TableUnchanged
         \/ /\ \E i \in ClientID, b \in BOOLEAN : Deactivate(i, b)
            /\ UNCHANGED <<noMappings, installs>>
         \/ /\ \E i \in ClientID : DelMapping(i)
            /\ UNCHANGED <<noMappings, installs>>
         \/ HandshakeMap /\ \E p, c : \E i \in UsableID : Installs(p, i, c)
<1>. USE DEF TableUnchanged
<1>1. ASSUME NEW c \in Conn, Accept(c) PROVE TableUnchanged
  BY <1>1 DEF Accept
<1>2. ASSUME NEW c \in Conn, LoseConnection(c) PROVE TableUnchanged
  BY <1>2 DEF LoseConnection
<1>3. ASSUME NEW c \in Conn, StatusChange(c)
      PROVE  /\ \E i \in ClientID, b \in BOOLEAN : Deactivate(i, b)
             /\ UNCHANGED <<noMappings, installs>>
  <2>1. ct[c].routerID \in ClientID
    BY DEF TypeOK, ClientThread
  <2>. QED  BY <1>3, <2>1 DEF StatusChange
<1>4. ASSUME NEW c \in Conn, StatusChangeDelMapping(c)
      PROVE  /\ \E i \in ClientID : DelMapping(i)
             /\ UNCHANGED <<noMappings, installs>>
  <2>1. ct[c].delID \in ClientID
    BY DEF TypeOK, ClientThread
  <2>. QED  BY <1>4, <2>1 DEF StatusChangeDelMapping
<1>5. ASSUME NEW c \in Conn, Leave(c) PROVE TableUnchanged
  BY <1>5 DEF Leave
<1>6. ASSUME NEW c, NEW t, NEW p, Receive(c, t, p) PROVE TableUnchanged
  BY <1>6 DEF Receive
<1>7. ASSUME HandlePacket PROVE TableUnchanged
  BY <1>7 DEF HandlePacket
<1>8. ASSUME HandshakeMap
      PROVE  \E p, c : \E i \in UsableID : Installs(p, i, c)
  <2>. DEFINE cc == Head(cmdQueue).conn
              pp == Head(cmdQueue).proxy
  <2>1. HandshakeID(pp) # 0 /\ MayMap(pp, HandshakeID(pp), cc)
        /\ AddMapping(pp, HandshakeID(pp), cc)
    BY <1>8 DEF HandshakeMap
  <2>2. HandshakeID(pp) \in UsableID
    BY <2>1, HandshakeIDType, SizeAssumption DEF ClientID, UsableID
  <2>. QED  BY <2>1, <2>2 DEF Installs
<1>9. ASSUME HandshakeAnswer PROVE TableUnchanged
  BY <1>9 DEF HandshakeAnswer
<1>10. ASSUME HandshakeFail PROVE TableUnchanged
  BY <1>10 DEF HandshakeFail
<1>11. ASSUME CommandClose PROVE TableUnchanged
  BY <1>11 DEF CommandClose
<1>12. ASSUME CommandDeactivate
       PROVE  /\ \E i \in ClientID, b \in BOOLEAN : Deactivate(i, b)
              /\ UNCHANGED <<noMappings, installs>>
  <2>1. cmd.conn \in Conn
    BY <1>12 DEF TypeOK, CommandDeactivate
  <2>2. ct[cmd.conn].routerID \in ClientID
    BY <2>1 DEF TypeOK, ClientThread
  <2>. QED  BY <1>12, <2>2 DEF CommandDeactivate
<1>13. ASSUME CommandDelMapping
       PROVE  /\ \E i \in ClientID : DelMapping(i)
              /\ UNCHANGED <<noMappings, installs>>
  <2>1. cmd.id \in ClientID
    BY DEF TypeOK, Command
  <2>. QED  BY <1>13, <2>1 DEF CommandDelMapping
<1>14. ASSUME MarkShutdown PROVE TableUnchanged
  BY <1>14 DEF MarkShutdown
<1>15. ASSUME StopProcessingCommands PROVE TableUnchanged
  BY <1>15 DEF StopProcessingCommands
<1>16. ASSUME StopProcessingRequests PROVE TableUnchanged
  BY <1>16 DEF StopProcessingRequests
<1>17. CASE UNCHANGED vars
  BY <1>17 DEF vars
<1>. HIDE DEF TableUnchanged
<1>. QED
  BY <1>1, <1>2, <1>3, <1>4, <1>5, <1>6, <1>7, <1>8, <1>9, <1>10, <1>11, <1>12,
     <1>13, <1>14, <1>15, <1>16, <1>17 DEF Next, ReaderStep, CommandStep

(***************************************************************************)
(* What the three updates leave in an entry.                               *)
(***************************************************************************)
LEMMA DeactivateEffect ==
  ASSUME TypeOK, NEW i \in ClientID, NEW b \in BOOLEAN, Deactivate(i, b),
         NEW j \in ClientID
  PROVE  /\ proxyMap'[j].proxyID = proxyMap[j].proxyID
         /\ proxyMap'[j].socket = proxyMap[j].socket
         /\ proxyMap'[j].preDefined = proxyMap[j].preDefined
         /\ proxyMap'[j].isActive => proxyMap[j].isActive
<1>. DEFINE r == [proxyMap[i] EXCEPT !.isActive = FALSE, !.crashed = b]
<1>1. proxyMap' = [proxyMap EXCEPT ![i] = r]
  BY DEF Deactivate
<1>2. proxyMap[i] \in Mapping /\ proxyMap \in [ClientID -> Mapping]
  BY DEF TypeOK
<1>3. r.proxyID = proxyMap[i].proxyID
  BY <1>2 DEF Mapping
<1>4. r.socket = proxyMap[i].socket
  BY <1>2 DEF Mapping
<1>5. r.preDefined = proxyMap[i].preDefined
  BY <1>2 DEF Mapping
<1>6. r.isActive = FALSE
  BY <1>2 DEF Mapping
<1>. HIDE DEF r
<1>. QED  BY <1>1, <1>2, <1>3, <1>4, <1>5, <1>6

LEMMA DelMappingEffect ==
  ASSUME TypeOK, NEW i \in ClientID, DelMapping(i), NEW j \in ClientID
  PROVE  /\ proxyMap'[j].proxyID \in {proxyMap[j].proxyID, NoProxy}
         /\ proxyMap[j].preDefined => proxyMap'[j].proxyID = proxyMap[j].proxyID
         /\ \/ proxyMap'[j].socket = NoConn
            \/ /\ proxyMap'[j].socket = proxyMap[j].socket
               /\ proxyMap'[j].proxyID = proxyMap[j].proxyID
         /\ proxyMap'[j].preDefined = proxyMap[j].preDefined
         /\ proxyMap'[j].isActive = proxyMap[j].isActive
<1>. DEFINE q == IF proxyMap[i].preDefined \/ proxyMap[i].crashed
                 THEN proxyMap[i].proxyID ELSE NoProxy
            r == [proxyMap[i] EXCEPT !.socket = NoConn, !.proxyID = q]
<1>1. proxyMap' = [proxyMap EXCEPT ![i] = r]
  BY DEF DelMapping
<1>2. proxyMap[i] \in Mapping /\ proxyMap \in [ClientID -> Mapping]
  BY DEF TypeOK
<1>3. q \in {proxyMap[i].proxyID, NoProxy}
      /\ (proxyMap[i].preDefined => q = proxyMap[i].proxyID)
  OBVIOUS
<1>. HIDE DEF q
<1>4. r.proxyID = q
  BY <1>2 DEF Mapping
<1>5. r.socket = NoConn
  BY <1>2 DEF Mapping
<1>6. r.preDefined = proxyMap[i].preDefined
  BY <1>2 DEF Mapping
<1>7. r.isActive = proxyMap[i].isActive
  BY <1>2 DEF Mapping
<1>. HIDE DEF r
<1>. QED  BY <1>1, <1>2, <1>3, <1>4, <1>5, <1>6, <1>7

LEMMA AddMappingEffect ==
  ASSUME TypeOK, NEW p, NEW c, NEW i \in UsableID, AddMapping(p, i, c),
         NEW j \in ClientID
  PROVE  /\ j # i => proxyMap'[j] = proxyMap[j]
         /\ proxyMap'[i].proxyID = IF proxyMap[i].proxyID = NoProxy
                                   THEN p ELSE proxyMap[i].proxyID
         /\ proxyMap'[i].socket = c
         /\ proxyMap'[i].preDefined = proxyMap[i].preDefined
<1>1. proxyMap \in [ClientID -> Mapping] /\ i \in ClientID
  BY SizeAssumption DEF TypeOK, ClientID, UsableID
<1>. QED  BY <1>1 DEF AddMapping

(***************************************************************************)
(* The element of ID 0.                                                    *)
(***************************************************************************)
LEMMA ZeroIsNotUsable == 0 \in ClientID /\ 0 \notin UsableID /\ UsableID \subseteq ClientID
BY SizeAssumption DEF ClientID, UsableID

LEMMA ZeroStep == TypeOK /\ ZeroEntryUnused /\ [Next]_vars => ZeroEntryUnused'
<1>. SUFFICES ASSUME TypeOK, ZeroEntryUnused, [Next]_vars PROVE ZeroEntryUnused'
  OBVIOUS
<1>0. TypeOK' /\ 0 \in ClientID
  BY NextType, ZeroIsNotUsable
<1>1. CASE TableUnchanged
  BY <1>1 DEF TableUnchanged, ZeroEntryUnused
<1>2. ASSUME NEW i \in ClientID, NEW b \in BOOLEAN, Deactivate(i, b)
      PROVE  ZeroEntryUnused'
  BY <1>0, <1>2, DeactivateEffect DEF ZeroEntryUnused
<1>3. ASSUME NEW i \in ClientID, DelMapping(i) PROVE ZeroEntryUnused'
  BY <1>0, <1>3, DelMappingEffect DEF ZeroEntryUnused
<1>4. ASSUME NEW p, NEW c, NEW i \in UsableID, Installs(p, i, c)
      PROVE  ZeroEntryUnused'
  BY <1>0, <1>4, AddMappingEffect, ZeroIsNotUsable DEF ZeroEntryUnused, Installs
<1>. QED  BY <1>1, <1>2, <1>3, <1>4, TableSteps

\* clientID 0 stands for "no client" throughout the server: its entry is never
\* assigned, activated or given a socket, for any size of the table, although
\* connections that end before their handshake run the deactivation on it.
THEOREM ZeroStaysUnused == Spec => []ZeroEntryUnused
<1>1. Init => ZeroEntryUnused
  BY ZeroIsNotUsable DEF Init, ZeroEntryUnused, IsConfigured
<1>. QED  BY <1>1, ZeroStep, TypeCorrect, PTL DEF Spec

(***************************************************************************)
(* Configured mappings.  The invariant says that every configured entry    *)
(* has a proxy: addMapping would otherwise give it one.                    *)
(***************************************************************************)
ConfiguredHasProxy ==
  \A i \in UsableID : proxyMap[i].preDefined => proxyMap[i].proxyID # NoProxy

LEMMA ConfiguredStep ==
  ASSUME TypeOK, ConfiguredHasProxy, [Next]_vars, NEW j \in UsableID,
         proxyMap[j].preDefined
  PROVE  proxyMap'[j].preDefined /\ proxyMap'[j].proxyID = proxyMap[j].proxyID
<1>0. j \in ClientID
  BY ZeroIsNotUsable
<1>1. CASE TableUnchanged
  BY <1>1 DEF TableUnchanged
<1>2. ASSUME NEW i \in ClientID, NEW b \in BOOLEAN, Deactivate(i, b)
      PROVE  proxyMap'[j].preDefined /\ proxyMap'[j].proxyID = proxyMap[j].proxyID
  BY <1>0, <1>2, DeactivateEffect
<1>3. ASSUME NEW i \in ClientID, DelMapping(i)
      PROVE  proxyMap'[j].preDefined /\ proxyMap'[j].proxyID = proxyMap[j].proxyID
  BY <1>0, <1>3, DelMappingEffect
<1>4. ASSUME NEW p, NEW c, NEW i \in UsableID, Installs(p, i, c)
      PROVE  proxyMap'[j].preDefined /\ proxyMap'[j].proxyID = proxyMap[j].proxyID
  BY <1>0, <1>4, AddMappingEffect DEF ConfiguredHasProxy, Installs
<1>. QED  BY <1>1, <1>2, <1>3, <1>4, TableSteps

LEMMA PreDefinedFixed ==
  ASSUME TypeOK, [Next]_vars, NEW j \in UsableID
  PROVE  proxyMap'[j].preDefined = proxyMap[j].preDefined
<1>0. j \in ClientID
  BY ZeroIsNotUsable
<1>1. CASE TableUnchanged
  BY <1>1 DEF TableUnchanged
<1>2. ASSUME NEW i \in ClientID, NEW b \in BOOLEAN, Deactivate(i, b)
      PROVE  proxyMap'[j].preDefined = proxyMap[j].preDefined
  BY <1>0, <1>2, DeactivateEffect
<1>3. ASSUME NEW i \in ClientID, DelMapping(i)
      PROVE  proxyMap'[j].preDefined = proxyMap[j].preDefined
  BY <1>0, <1>3, DelMappingEffect
<1>4. ASSUME NEW p, NEW c, NEW i \in UsableID, Installs(p, i, c)
      PROVE  proxyMap'[j].preDefined = proxyMap[j].preDefined
  BY <1>0, <1>4, AddMappingEffect DEF Installs
<1>. QED  BY <1>1, <1>2, <1>3, <1>4, TableSteps

\* A configured clientID keeps its proxy for ever.
THEOREM ConfiguredMappingsStay == Spec => PreDefinedStays
<1>. DEFINE Kept == \A i \in UsableID :
               proxyMap[i].preDefined => /\ proxyMap'[i].preDefined
                                         /\ proxyMap'[i].proxyID = proxyMap[i].proxyID
<1>1. Init => ConfiguredHasProxy
  BY ZeroIsNotUsable DEF Init, ConfiguredHasProxy, IsConfigured
<1>2. TypeOK /\ ConfiguredHasProxy /\ [Next]_vars => ConfiguredHasProxy'
  BY ConfiguredStep, PreDefinedFixed DEF ConfiguredHasProxy
<1>3. TypeOK /\ ConfiguredHasProxy /\ [Next]_vars => [Kept]_vars
  BY ConfiguredStep
<1>. QED  BY <1>1, <1>2, <1>3, TypeCorrect, PTL DEF Spec, PreDefinedStays

(***************************************************************************)
(* No takeover.                                                            *)
(***************************************************************************)
LEMMA TakeoverStep ==
  ASSUME TypeOK, [Next]_vars, NEW j \in UsableID,
         proxyMap[j].isActive, proxyMap'[j].isActive
  PROVE  proxyMap'[j].socket \in {proxyMap[j].socket, NoConn}
<1>0. j \in ClientID
  BY ZeroIsNotUsable
<1>1. CASE TableUnchanged
  BY <1>1 DEF TableUnchanged
<1>2. ASSUME NEW i \in ClientID, NEW b \in BOOLEAN, Deactivate(i, b)
      PROVE  proxyMap'[j].socket \in {proxyMap[j].socket, NoConn}
  BY <1>0, <1>2, DeactivateEffect
<1>3. ASSUME NEW i \in ClientID, DelMapping(i)
      PROVE  proxyMap'[j].socket \in {proxyMap[j].socket, NoConn}
  BY <1>0, <1>3, DelMappingEffect
<1>4. ASSUME NEW p, NEW c, NEW i \in UsableID, Installs(p, i, c)
      PROVE  proxyMap'[j].socket \in {proxyMap[j].socket, NoConn}
  <2>1. CASE i # j
    BY <1>0, <1>4, <2>1, AddMappingEffect DEF Installs
  <2>2. CASE i = j
    <3>1. MayMap(p, i, c)
      BY <1>4 DEF Installs
    <3>2. proxyMap[i].socket = c
      BY <2>2, <3>1 DEF MayMap
    <3>3. proxyMap'[i].socket = c
      BY <1>0, <1>4, AddMappingEffect DEF Installs
    <3>. QED  BY <2>2, <3>2, <3>3
  <2>. QED  BY <2>1, <2>2
<1>. QED  BY <1>1, <1>2, <1>3, <1>4, TableSteps

\* An active mapping is never moved from one connection to another: the
\* refusal EM4 of addMapping covers every interleaving of the threads.
THEOREM ActiveMappingIsNotTakenOver == Spec => NoTakeover
<1>. DEFINE Fixed == \A i \in UsableID :
       proxyMap[i].isActive /\ proxyMap'[i].isActive /\ proxyMap[i].socket # NoConn
         => proxyMap'[i].socket \in {proxyMap[i].socket, NoConn}
<1>1. TypeOK /\ [Next]_vars => [Fixed]_vars
  BY TakeoverStep
<1>. QED  BY <1>1, TypeCorrect, PTL DEF Spec, NoTakeover

(***************************************************************************)
(* Uniqueness of the proxies.  findClientID stops after noMappings         *)
(* assigned entries, so uniqueness rests on noMappings never being smaller *)
(* than the number of assigned entries, which holds until the counter      *)
(* wraps.                                                                  *)
(***************************************************************************)
Assigned == {i \in UsableID : proxyMap[i].proxyID # NoProxy}

Counting == installs < CounterMod => /\ noMappings = installs
                                     /\ Cardinality(Assigned) <= installs

UniqueInv == Counting /\ UniqueUntilWrap

LEMMA AssignedFinite ==
  /\ IsFiniteSet(UsableID) /\ Cardinality(UsableID) = MaxElements - 1
  /\ IsFiniteSet(Assigned) /\ Cardinality(Assigned) \in Nat
<1>1. IsFiniteSet(UsableID) /\ Cardinality(UsableID) = MaxElements - 1
  BY SizeAssumption, FS_Interval DEF UsableID
<1>2. Assigned \in SUBSET UsableID
  BY DEF Assigned
<1>. QED  BY <1>1, <1>2, FS_Subset, FS_CardinalityType

\* findClientID finds every proxy while the counter covers the assigned ones.
LEMMA ScanIsComplete ==
  ASSUME TypeOK, NEW p, p # NoProxy, Cardinality(Assigned) <= noMappings,
         FindClientID(p) = 0, NEW i \in UsableID
  PROVE  proxyMap[i].proxyID # p
<1>. SUFFICES ASSUME proxyMap[i].proxyID = p PROVE FALSE
  OBVIOUS
<1>. DEFINE found == {j \in UsableID : /\ proxyMap[j].proxyID = p
                                       /\ Cardinality(AssignedBelow(j)) < noMappings}
<1>1. i \in Assigned
  BY DEF Assigned
<1>2. AssignedBelow(i) \in SUBSET (Assigned \ {i})
  BY SizeAssumption DEF AssignedBelow, Assigned, UsableID
<1>3. /\ IsFiniteSet(Assigned \ {i})
      /\ Cardinality(Assigned \ {i}) = Cardinality(Assigned) - 1
  BY <1>1, AssignedFinite, FS_RemoveElement
<1>4. /\ Cardinality(AssignedBelow(i)) \in Nat
      /\ Cardinality(AssignedBelow(i)) <= Cardinality(Assigned \ {i})
  BY <1>2, <1>3, FS_Subset, FS_CardinalityType
<1>5. Cardinality(AssignedBelow(i)) < noMappings
  BY <1>3, <1>4, AssignedFinite, SizeAssumption DEF TypeOK
<1>6. found # {} /\ found \in SUBSET UsableID
  BY <1>5
<1>7. Smallest(found) \in found
  BY <1>6, SmallestIsMember
<1>8. FindClientID(p) = Smallest(found)
  BY <1>6 DEF FindClientID
<1>. QED  BY <1>7, <1>8, ZeroIsNotUsable

\* A step that assigns no proxy keeps the invariant.
LEMMA NothingAssigned ==
  ASSUME TypeOK, UniqueInv, UNCHANGED <<noMappings, installs>>,
         \A j \in UsableID : proxyMap'[j].proxyID \in {proxyMap[j].proxyID, NoProxy}
  PROVE  UniqueInv'
<1>1. Assigned' \in SUBSET Assigned
  BY DEF Assigned
<1>2. Cardinality(Assigned') <= Cardinality(Assigned) /\ Cardinality(Assigned') \in Nat
  BY <1>1, AssignedFinite, FS_Subset, FS_CardinalityType
<1>3. Counting'
  BY <1>2, AssignedFinite DEF UniqueInv, Counting, TypeOK
<1>4. UniqueUntilWrap'
  BY DEF UniqueInv, UniqueUntilWrap, UniqueProxyID
<1>. QED  BY <1>3, <1>4 DEF UniqueInv

LEMMA InstallKeepsUnique ==
  ASSUME TypeOK, UniqueInv, NEW p, NEW c, NEW i \in UsableID, Installs(p, i, c)
  PROVE  UniqueInv'
<1>0. i # 0 /\ i \in ClientID /\ UsableID \subseteq ClientID
  BY ZeroIsNotUsable
<1>1. CASE proxyMap[i].proxyID # NoProxy
  <2>1. UNCHANGED <<noMappings, installs>>
    BY <1>1 DEF Installs, AddMapping
  <2>2. \A j \in UsableID : proxyMap'[j].proxyID = proxyMap[j].proxyID
    BY <1>0, <1>1, AddMappingEffect DEF Installs
  <2>. QED  BY <2>1, <2>2, NothingAssigned
<1>2. CASE proxyMap[i].proxyID = NoProxy
  <2>1. installs' = installs + 1 /\ noMappings' = (noMappings + 1) % CounterMod
    BY <1>2 DEF Installs, AddMapping
  <2>2. /\ proxyMap'[i].proxyID = p
        /\ \A j \in UsableID \ {i} : proxyMap'[j].proxyID = proxyMap[j].proxyID
    BY <1>0, <1>2, AddMappingEffect DEF Installs
  <2>3. SUFFICES ASSUME installs' < CounterMod
                 PROVE  noMappings' = installs' /\ Cardinality(Assigned') <= installs'
                        /\ UniqueProxyID'
    BY DEF UniqueInv, Counting, UniqueUntilWrap
  <2>4. /\ installs \in Nat /\ installs < CounterMod /\ noMappings = installs
        /\ Cardinality(Assigned) <= installs /\ UniqueProxyID
    BY <2>1, <2>3, SizeAssumption DEF UniqueInv, Counting, UniqueUntilWrap, TypeOK
  <2>5. noMappings' = installs'
    BY <2>1, <2>3, <2>4, CounterStaysInWidth
  <2>6. Cardinality(Assigned') <= installs'
    <3>1. Assigned' \in SUBSET (Assigned \union {i})
      BY <2>2 DEF Assigned
    <3>2. i \notin Assigned
      BY <1>2 DEF Assigned
    <3>3. /\ IsFiniteSet(Assigned \union {i})
          /\ Cardinality(Assigned \union {i}) = Cardinality(Assigned) + 1
      BY <3>2, AssignedFinite, FS_AddElement
    <3>4. /\ Cardinality(Assigned') <= Cardinality(Assigned \union {i})
          /\ Cardinality(Assigned') \in Nat
      BY <3>1, <3>3, FS_Subset, FS_CardinalityType
    <3>. QED  BY <2>1, <2>4, <3>3, <3>4, AssignedFinite
  <2>7. UniqueProxyID'
    <3>1. CASE p = NoProxy
      BY <2>2, <2>4, <3>1 DEF UniqueProxyID
    <3>2. CASE p # NoProxy
      <4>1. MayMap(p, i, c)
        BY DEF Installs
      <4>2. FindClientID(p) = 0
        BY <1>0, <1>2, <3>2, <4>1, FindClientIDMeaning DEF MayMap
      <4>3. \A j \in UsableID : proxyMap[j].proxyID # p
        BY <2>4, <3>2, <4>2, ScanIsComplete
      <4>. QED  BY <2>2, <2>4, <4>3 DEF UniqueProxyID
    <3>. QED  BY <3>1, <3>2
  <2>. QED  BY <2>5, <2>6, <2>7
<1>. QED  BY <1>1, <1>2

LEMMA UniqueStep == TypeOK /\ UniqueInv /\ [Next]_vars => UniqueInv'
<1>. SUFFICES ASSUME TypeOK, UniqueInv, [Next]_vars PROVE UniqueInv'
  OBVIOUS
<1>0. UsableID \subseteq ClientID
  BY ZeroIsNotUsable
<1>1. CASE TableUnchanged
  BY <1>1, NothingAssigned DEF TableUnchanged
<1>2. ASSUME NEW i \in ClientID, NEW b \in BOOLEAN, Deactivate(i, b),
             UNCHANGED <<noMappings, installs>>
      PROVE  UniqueInv'
  BY <1>0, <1>2, DeactivateEffect, NothingAssigned
<1>3. ASSUME NEW i \in ClientID, DelMapping(i), UNCHANGED <<noMappings, installs>>
      PROVE  UniqueInv'
  BY <1>0, <1>3, DelMappingEffect, NothingAssigned
<1>4. ASSUME NEW p, NEW c, NEW i \in UsableID, Installs(p, i, c)
      PROVE  UniqueInv'
  BY <1>4, InstallKeepsUnique
<1>. QED  BY <1>1, <1>2, <1>3, <1>4, TableSteps

LEMMA UniqueInit == Init => UniqueInv
<1>. SUFFICES ASSUME Init PROVE UniqueInv
  OBVIOUS
<1>1. \A i \in UsableID :
        proxyMap[i].proxyID = IF IsConfigured(i) THEN Configured[i] ELSE NoProxy
  BY ZeroIsNotUsable DEF Init
<1>2. Assigned = {i \in UsableID : IsConfigured(i)}
  BY <1>1 DEF Assigned, IsConfigured
<1>3. Counting
  BY <1>2, AssignedFinite DEF Init, Counting
<1>4. UniqueProxyID
  <2>. SUFFICES ASSUME NEW i \in UsableID, NEW j \in UsableID,
                       proxyMap[i].proxyID = proxyMap[j].proxyID,
                       proxyMap[i].proxyID # NoProxy
                PROVE  i = j
    BY DEF UniqueProxyID
  <2>1. IsConfigured(i) /\ IsConfigured(j) /\ Configured[i] = Configured[j]
    BY <1>1
  <2>. QED  BY <2>1, SizeAssumption DEF IsConfigured, UsableID
<1>. QED  BY <1>3, <1>4 DEF UniqueInv, UniqueUntilWrap

\* For every size of the table and every width of the counter: no proxy has two
\* clientIDs before the counter wraps, whatever the threads interleave.
THEOREM ProxiesAreUniqueUntilWrap == Spec => []UniqueUntilWrap
<1>1. UniqueInv => UniqueUntilWrap
  BY DEF UniqueInv
<1>. QED  BY <1>1, UniqueInit, UniqueStep, TypeCorrect, PTL DEF Spec


(***************************************************************************)
(* The socket of an active mapping.  A connection is told its clientID by  *)
(* the command thread only after the mapping has its socket, and it must   *)
(* never be told a second one.  That rests on a connection having a single *)
(* Hello: it is in one of the two queues or in the hands of the command    *)
(* thread, and before that no mapping has the socket of the connection.    *)
(***************************************************************************)
IsHello(pkt, c) == pkt.conn = c /\ pkt.type \in {"hello", "badhello"}
InQueue(queue, c) == \E k \in DOMAIN queue : IsHello(queue[k], c)
InHand(c) == cmd.step = "mapped" /\ cmd.conn = c
Single(queue, c) ==
  \A k, l \in DOMAIN queue : IsHello(queue[k], c) /\ IsHello(queue[l], c) => k = l

HelloIsSingle ==
  \A c \in Conn :
    /\ InQueue(rxQueue, c) \/ InQueue(cmdQueue, c) \/ InHand(c) => "hello" \in ct[c].sent
    /\ Single(rxQueue, c) /\ Single(cmdQueue, c)
    /\ ~(InQueue(rxQueue, c) /\ InQueue(cmdQueue, c))
    /\ InHand(c) => ~InQueue(rxQueue, c) /\ ~InQueue(cmdQueue, c)

SocketIsSingle ==
  /\ \A c \in Conn :
       "hello" \notin ct[c].sent \/ InQueue(rxQueue, c) \/ InQueue(cmdQueue, c) =>
         \A i \in ClientID : proxyMap[i].socket # c
  /\ cmd.step = "mapped" => \A i \in ClientID \ {cmd.id} : proxyMap[i].socket # cmd.conn
  /\ cmd.step = "mapped" /\ proxyMap[cmd.id].isActive /\ proxyMap[cmd.id].socket = cmd.conn
       => proxyMap[cmd.id].proxyID = cmd.proxy

SocketInv == TypeOK /\ HelloIsSingle /\ SocketIsSingle /\ SocketKnowsItsClientID

\* What the threads of the connections do to themselves.
SameIDs(r, s) == s.routerID = r.routerID /\ s.proxyID = r.proxyID /\ s.sent = r.sent

LEMMA OtherFields ==
  ASSUME NEW r \in ClientThread, NEW t, NEW b, NEW i
  PROVE  /\ SameIDs(r, [r EXCEPT !.thread = t])
         /\ SameIDs(r, [r EXCEPT !.thread = t, !.active = b])
         /\ SameIDs(r, [r EXCEPT !.active = b, !.thread = t])
         /\ SameIDs(r, [r EXCEPT !.thread = t, !.delID = i])
         /\ SameIDs(r, [r EXCEPT !.goodByeReceived = b])
BY DEF SameIDs, ClientThread

LEMMA ThreadsKeepTheirIDs ==
  ASSUME TypeOK, [Next]_vars, NEW c \in Conn
  PROVE  \/ SameIDs(ct[c], ct'[c])
         \/ \E t \in Sends, p \in ProxyID \union {NoProxy} : Receive(c, t, p)
         \/ HandshakeAnswer /\ c = cmd.conn
<1>0. ct \in [Conn -> ClientThread] /\ ct[c] \in ClientThread
  BY DEF TypeOK
<1>1. ASSUME NEW d, NEW r, SameIDs(ct[d], r), ct' = [ct EXCEPT ![d] = r]
      PROVE  SameIDs(ct[c], ct'[c])
  BY <1>0, <1>1 DEF SameIDs
<1>2. ASSUME UNCHANGED ct PROVE SameIDs(ct[c], ct'[c])
  BY <1>2 DEF SameIDs
<1>3. ASSUME NEW d \in Conn, Accept(d) PROVE SameIDs(ct[c], ct'[c])
  <2>. DEFINE r == [ct[d] EXCEPT !.thread = "reading", !.active = TRUE]
  <2>1. ct' = [ct EXCEPT ![d] = r]
    BY <1>3, Zenon DEF Accept
  <2>2. SameIDs(ct[d], r)
    BY <1>0, OtherFields, Zenon
  <2>. HIDE DEF r
  <2>. QED  BY <1>1, <2>1, <2>2
<1>4. ASSUME NEW d \in Conn, LoseConnection(d) PROVE SameIDs(ct[c], ct'[c])
  BY <1>0, <1>1, <1>4, OtherFields DEF LoseConnection
<1>5. ASSUME NEW d \in Conn, StatusChange(d) PROVE SameIDs(ct[c], ct'[c])
  <2>. DEFINE r == [ct[d] EXCEPT !.thread = "delmap", !.delID = ct[d].routerID]
  <2>1. ct' = [ct EXCEPT ![d] = r]
    BY <1>5, Zenon DEF StatusChange
  <2>2. SameIDs(ct[d], r)
    BY <1>0, OtherFields, Zenon
  <2>. HIDE DEF r
  <2>. QED  BY <1>1, <2>1, <2>2
<1>6. ASSUME NEW d \in Conn, StatusChangeDelMapping(d) PROVE SameIDs(ct[c], ct'[c])
  <2>. DEFINE r == [ct[d] EXCEPT !.thread = "leaving", !.delID = 0]
  <2>1. ct' = [ct EXCEPT ![d] = r]
    BY <1>6, Zenon DEF StatusChangeDelMapping
  <2>2. SameIDs(ct[d], r)
    BY <1>0, OtherFields, Zenon
  <2>. HIDE DEF r
  <2>. QED  BY <1>1, <2>1, <2>2
<1>7. ASSUME NEW d \in Conn, Leave(d) PROVE SameIDs(ct[c], ct'[c])
  <2>. DEFINE r == [ct[d] EXCEPT !.thread = "gone", !.active = FALSE]
  <2>1. ct' = [ct EXCEPT ![d] = r]
    BY <1>7, Zenon DEF Leave
  <2>2. SameIDs(ct[d], r)
    BY <1>0, OtherFields, Zenon
  <2>. HIDE DEF r
  <2>. QED  BY <1>1, <2>1, <2>2
<1>8. ASSUME NEW d \in Conn, d # c, NEW t, NEW p, Receive(d, t, p)
      PROVE  SameIDs(ct[c], ct'[c])
  BY <1>0, <1>8 DEF Receive, SameIDs
<1>9. ASSUME NEW d \in Conn, Kill(d) PROVE SameIDs(ct[c], ct'[c])
  <2>1. CASE UNCHANGED ct
    BY <1>2, <2>1
  <2>2. ASSUME NEW t, ct' = [ct EXCEPT ![d] = [ct[d] EXCEPT !.thread = t, !.active = FALSE]]
        PROVE  SameIDs(ct[c], ct'[c])
    <3>. DEFINE r == [ct[d] EXCEPT !.thread = t, !.active = FALSE]
    <3>1. SameIDs(ct[d], r)
      BY <1>0, OtherFields, Zenon
    <3>2. ct' = [ct EXCEPT ![d] = r]
      BY <2>2
    <3>. HIDE DEF r
    <3>. QED  BY <1>1, <3>1, <3>2
  <2>. QED  BY <1>9, <2>1, <2>2, Zenon DEF Kill
<1>10. CASE HandlePacket
  <2>. DEFINE d == Head(rxQueue).conn
              b == \/ ct[d].goodByeReceived
                   \/ /\ Head(rxQueue).type = "goodbye"
                      /\ ct[d].active /\ ct[d].initialized
  <2>1. d \in Conn
    BY <1>10, HeadOfQueue DEF TypeOK, HandlePacket
  <2>2. UNCHANGED ct \/ ct' = [ct EXCEPT ![d] = [ct[d] EXCEPT !.goodByeReceived = b]]
    BY <1>10, Zenon DEF HandlePacket
  <2>3. SameIDs(ct[d], [ct[d] EXCEPT !.goodByeReceived = b])
    BY <1>0, <2>1, OtherFields
  <2>. HIDE DEF b
  <2>. QED  BY <1>1, <1>2, <2>2, <2>3
<1>11. CASE HandshakeMap \/ CommandDeactivate \/ CommandDelMapping \/ MarkShutdown
            \/ StopProcessingCommands \/ UNCHANGED vars
  BY <1>2, <1>11 DEF HandshakeMap, CommandDeactivate, CommandDelMapping, MarkShutdown,
     StopProcessingCommands, vars
<1>12. CASE HandshakeFail \/ CommandClose
  <2>1. Head(cmdQueue).conn \in Conn
    BY <1>12, HeadOfQueue DEF TypeOK, HandshakeFail, CommandClose, NextCommand
  <2>. QED  BY <1>9, <1>12, <2>1 DEF HandshakeFail, CommandClose, CloseClientConnection
<1>13. ASSUME HandshakeAnswer, c # cmd.conn PROVE SameIDs(ct[c], ct'[c])
  BY <1>0, <1>13 DEF HandshakeAnswer, SameIDs
<1>14. CASE StopProcessingRequests
  <2>1. PICK kept : ct' = [d \in Conn |->
                IF d \in cthreads /\ ct[d].active
                THEN [ct[d] EXCEPT !.active = FALSE,
                                   !.thread = IF d \in kept THEN ct[d].thread ELSE "gone"]
                ELSE ct[d]]
    BY <1>14 DEF StopProcessingRequests
  <2>2. SameIDs(ct[c], [ct[c] EXCEPT !.active = FALSE,
                          !.thread = IF c \in kept THEN ct[c].thread ELSE "gone"])
    BY <1>0, OtherFields
  <2>3. SameIDs(ct[c], ct[c])
    BY DEF SameIDs
  <2>. QED  BY <2>1, <2>2, <2>3
<1>. QED  BY <1>3, <1>4, <1>5, <1>6, <1>7, <1>8, <1>10, <1>11, <1>12, <1>13, <1>14
          DEF Next, ReaderStep, CommandStep

LEMMA HelloAppended ==
  ASSUME NEW q \in Seq(Pdu), NEW x \in Pdu, NEW c
  PROVE  /\ InQueue(Append(q, x), c) <=> InQueue(q, c) \/ IsHello(x, c)
         /\ Single(q, c) /\ ~(InQueue(q, c) /\ IsHello(x, c)) => Single(Append(q, x), c)
<1>. DEFINE r == Append(q, x)
            n == Len(q)
<1>1. /\ n \in Nat /\ DOMAIN q = 1 .. n /\ DOMAIN r = 1 .. (n + 1)
      /\ \A k \in 1 .. n : r[k] = q[k]
      /\ r[n + 1] = x
  OBVIOUS
<1>. HIDE DEF r, n
<1>2. InQueue(r, c) <=> InQueue(q, c) \/ IsHello(x, c)
  BY <1>1 DEF InQueue
<1>3. Single(q, c) /\ ~(InQueue(q, c) /\ IsHello(x, c)) => Single(r, c)
  BY <1>1 DEF InQueue, Single
<1>. QED  BY <1>2, <1>3 DEF r

LEMMA HelloTaken ==
  ASSUME NEW q \in Seq(Pdu), q # << >>, NEW c
  PROVE  /\ InQueue(q, c) <=> InQueue(Tail(q), c) \/ IsHello(Head(q), c)
         /\ Single(q, c) =>
              Single(Tail(q), c) /\ ~(InQueue(Tail(q), c) /\ IsHello(Head(q), c))
<1>. DEFINE r == Tail(q)
            n == Len(q)
<1>1. /\ n \in Nat /\ n > 0 /\ DOMAIN q = 1 .. n /\ DOMAIN r = 1 .. (n - 1)
      /\ \A k \in 1 .. (n - 1) : r[k] = q[k + 1]
      /\ Head(q) = q[1]
  OBVIOUS
<1>. HIDE DEF r, n
<1>2. \A k \in 1 .. n : k = 1 \/ (k - 1 \in 1 .. (n - 1) /\ q[k] = r[k - 1])
  BY <1>1
<1>3. \A k \in 1 .. (n - 1) : k + 1 \in 1 .. n /\ k + 1 # 1 /\ r[k] = q[k + 1]
  BY <1>1
<1>4. 1 \in 1 .. n
  BY <1>1
<1>5. InQueue(q, c) => InQueue(r, c) \/ IsHello(Head(q), c)
  <2>. SUFFICES ASSUME NEW k \in 1 .. n, IsHello(q[k], c)
                PROVE  InQueue(r, c) \/ IsHello(Head(q), c)
    BY <1>1, Zenon DEF InQueue
  <2>1. CASE k = 1
    BY <1>1, <2>1
  <2>2. CASE k # 1
    <3>1. k - 1 \in DOMAIN r /\ IsHello(r[k - 1], c)
      BY <1>1, <1>2, <2>2
    <3>. QED  BY <3>1, Zenon DEF InQueue
  <2>. QED  BY <2>1, <2>2
<1>6. InQueue(r, c) => \E k \in 1 .. n : k # 1 /\ IsHello(q[k], c)
  <2>. SUFFICES ASSUME NEW k \in 1 .. (n - 1), IsHello(r[k], c)
                PROVE  \E l \in 1 .. n : l # 1 /\ IsHello(q[l], c)
    BY <1>1, Zenon DEF InQueue
  <2>1. k + 1 \in 1 .. n /\ k + 1 # 1 /\ IsHello(q[k + 1], c)
    BY <1>3
  <2>. QED  BY <2>1, Zenon
<1>7. InQueue(r, c) \/ IsHello(Head(q), c) => InQueue(q, c)
  BY <1>1, <1>4, <1>6, Zenon DEF InQueue
<1>8. ASSUME Single(q, c) PROVE Single(r, c)
  <2>. SUFFICES ASSUME NEW k \in 1 .. (n - 1), NEW l \in 1 .. (n - 1),
                       IsHello(r[k], c), IsHello(r[l], c)
                PROVE  k = l
    BY <1>1, Zenon DEF Single
  <2>1. /\ k + 1 \in DOMAIN q /\ IsHello(q[k + 1], c)
        /\ l + 1 \in DOMAIN q /\ IsHello(q[l + 1], c)
    BY <1>1, <1>3
  <2>2. k + 1 = l + 1
    BY <1>8, <2>1, Zenon DEF Single
  <2>. QED  BY <2>2
<1>9. ASSUME Single(q, c) PROVE ~(InQueue(r, c) /\ IsHello(Head(q), c))
  BY <1>1, <1>4, <1>6, <1>9, Zenon DEF Single
<1>. QED  BY <1>5, <1>7, <1>8, <1>9 DEF r

LEMMA NoHelloInEmpty == \A c : ~InQueue(<< >>, c) /\ Single(<< >>, c)
BY DEF InQueue, Single

LEMMA HelloStaysSent ==
  ASSUME TypeOK, [Next]_vars, NEW c \in Conn, "hello" \in ct[c].sent
  PROVE  "hello" \in ct'[c].sent
<1>1. ASSUME NEW t, NEW p, Receive(c, t, p) PROVE "hello" \in ct'[c].sent
  BY <1>1 DEF Receive, TypeOK, ClientThread
<1>2. ASSUME HandshakeAnswer, c = cmd.conn PROVE ct'[c].sent = ct[c].sent
  BY <1>2 DEF HandshakeAnswer, TypeOK, ClientThread
<1>. QED  BY <1>1, <1>2, ThreadsKeepTheirIDs DEF SameIDs

LEMMA HelloStep ==
  ASSUME TypeOK, HelloIsSingle, [Next]_vars
  PROVE  HelloIsSingle'
<1>. SUFFICES ASSUME NEW c \in Conn
              PROVE  /\ InQueue(rxQueue', c) \/ InQueue(cmdQueue', c) \/ InHand(c)'
                          => "hello" \in ct'[c].sent
                     /\ Single(rxQueue', c) /\ Single(cmdQueue', c)
                     /\ ~(InQueue(rxQueue', c) /\ InQueue(cmdQueue', c))
                     /\ InHand(c)' => ~InQueue(rxQueue', c) /\ ~InQueue(cmdQueue', c)
  BY DEF HelloIsSingle
<1>. DEFINE Goal == /\ InQueue(rxQueue', c) \/ InQueue(cmdQueue', c) \/ InHand(c)'
                         => "hello" \in ct'[c].sent
                    /\ Single(rxQueue', c) /\ Single(cmdQueue', c)
                    /\ ~(InQueue(rxQueue', c) /\ InQueue(cmdQueue', c))
                    /\ InHand(c)' => ~InQueue(rxQueue', c) /\ ~InQueue(cmdQueue', c)
<1>0. /\ rxQueue \in Seq(Pdu) /\ cmdQueue \in Seq(Pdu)
      /\ InQueue(rxQueue, c) \/ InQueue(cmdQueue, c) \/ InHand(c) => "hello" \in ct[c].sent
      /\ Single(rxQueue, c) /\ Single(cmdQueue, c)
      /\ ~(InQueue(rxQueue, c) /\ InQueue(cmdQueue, c))
      /\ InHand(c) => ~InQueue(rxQueue, c) /\ ~InQueue(cmdQueue, c)
  BY DEF TypeOK, HelloIsSingle
<1>1. "hello" \in ct[c].sent => "hello" \in ct'[c].sent
  BY HelloStaysSent
<1>2. ASSUME UNCHANGED <<rxQueue, cmdQueue>>, InHand(c)' => InHand(c) PROVE Goal
  BY <1>0, <1>1, <1>2
<1>3. CASE \/ \E d \in Conn : Accept(d) \/ LoseConnection(d) \/ ReaderStep(d)
           \/ HandshakeAnswer \/ CommandDeactivate \/ CommandDelMapping \/ MarkShutdown
           \/ UNCHANGED vars
  <2>1. UNCHANGED <<rxQueue, cmdQueue>>
    BY <1>3 DEF Accept, LoseConnection, ReaderStep, StatusChange, StatusChangeDelMapping,
       Leave, HandshakeAnswer, CommandDeactivate, CommandDelMapping, MarkShutdown, vars
  <2>2. cmd' = cmd \/ cmd'.step # "mapped"
    <3>1. CASE HandshakeAnswer \/ CommandDelMapping
      BY <3>1 DEF HandshakeAnswer, CommandDelMapping, Idle
    <3>2. CASE CommandDeactivate
      BY <3>2 DEF CommandDeactivate, TypeOK, Command
    <3>. QED  BY <1>3, <3>1, <3>2 DEF Accept, LoseConnection, ReaderStep, StatusChange,
                 StatusChangeDelMapping, Leave, MarkShutdown, vars
  <2>3. InHand(c)' => InHand(c)
    BY <2>2 DEF InHand
  <2>. QED  BY <1>2, <2>1, <2>3
<1>4. ASSUME NEW d \in Conn, NEW t \in Sends, NEW p \in ProxyID \union {NoProxy},
             Receive(d, t, p)
      PROVE  Goal
  <2>. DEFINE x == [conn |-> d, type |-> t, proxy |-> p]
  <2>1. rxQueue' = Append(rxQueue, x) /\ UNCHANGED <<cmdQueue, cmd>>
    BY <1>4 DEF Receive
  <2>2. x \in Pdu
    BY SendsAssumption DEF Pdu, PduType
  <2>3. IsHello(x, c) => "hello" \notin ct[c].sent /\ "hello" \in ct'[c].sent
    <3>1. ASSUME IsHello(x, c) PROVE d = c /\ t \in {"hello", "badhello"}
      BY <3>1 DEF IsHello
    <3>2. ASSUME d = c, t \in {"hello", "badhello"}
          PROVE  "hello" \notin ct[c].sent /\ "hello" \in ct'[c].sent
      BY <1>4, <3>2 DEF Receive, TypeOK, ClientThread
    <3>. QED  BY <3>1, <3>2
  <2>. HIDE DEF x
  <2>4. InHand(c)' => InHand(c)
    BY <2>1 DEF InHand
  <2>5. /\ InQueue(rxQueue', c) <=> InQueue(rxQueue, c) \/ IsHello(x, c)
        /\ Single(rxQueue, c) /\ ~(InQueue(rxQueue, c) /\ IsHello(x, c)) => Single(rxQueue', c)
    BY <1>0, <2>1, <2>2, HelloAppended
  <2>. QED  BY <1>0, <1>1, <2>1, <2>3, <2>4, <2>5
<1>5. CASE HandlePacket
  <2>. DEFINE x == Head(rxQueue)
  <2>1. /\ rxQueue # << >> /\ rxQueue' = Tail(rxQueue) /\ cmd' = cmd
        /\ cmdQueue' = cmdQueue \/ cmdQueue' = Append(cmdQueue, x)
    BY <1>5 DEF HandlePacket
  <2>2. x \in Pdu
    BY <1>0, <2>1, HeadOfQueue
  <2>3. /\ InQueue(rxQueue, c) <=> InQueue(rxQueue', c) \/ IsHello(x, c)
        /\ Single(rxQueue', c) /\ ~(InQueue(rxQueue', c) /\ IsHello(x, c))
    BY <1>0, <2>1, HelloTaken
  <2>. HIDE DEF x
  <2>4. /\ InQueue(cmdQueue', c) => InQueue(cmdQueue, c) \/ IsHello(x, c)
        /\ ~(InQueue(cmdQueue, c) /\ IsHello(x, c)) => Single(cmdQueue', c)
    <3>1. CASE cmdQueue' = cmdQueue
      BY <1>0, <3>1
    <3>2. CASE cmdQueue' = Append(cmdQueue, x)
      BY <1>0, <2>2, <3>2, HelloAppended
    <3>. QED  BY <2>1, <3>1, <3>2
  <2>5. InHand(c)' => InHand(c)
    BY <2>1 DEF InHand
  <2>. QED  BY <1>0, <1>1, <2>3, <2>4, <2>5
<1>6. CASE HandshakeMap \/ HandshakeFail \/ CommandClose
  <2>. DEFINE x == Head(cmdQueue)
  <2>1. /\ cmdQueue # << >> /\ cmdQueue' = Tail(cmdQueue) /\ rxQueue' = rxQueue
        /\ cmd.step = "idle"
    BY <1>6 DEF HandshakeMap, HandshakeFail, CommandClose, NextCommand
  <2>2. /\ InQueue(cmdQueue, c) <=> InQueue(cmdQueue', c) \/ IsHello(x, c)
        /\ Single(cmdQueue', c) /\ ~(InQueue(cmdQueue', c) /\ IsHello(x, c))
    BY <1>0, <2>1, HelloTaken
  <2>3. InHand(c)' => IsHello(x, c)
    <3>1. CASE HandshakeMap
      BY <3>1 DEF HandshakeMap, NextCommand, InHand, IsHello
    <3>2. CASE HandshakeFail
      BY <2>1, <3>2 DEF HandshakeFail, InHand
    <3>3. CASE CommandClose
      BY <3>3 DEF CommandClose, Idle, InHand
    <3>. QED  BY <1>6, <3>1, <3>2, <3>3
  <2>. QED  BY <1>0, <1>1, <2>1, <2>2, <2>3
<1>7. CASE StopProcessingCommands
  BY <1>0, <1>1, <1>7, NoHelloInEmpty DEF StopProcessingCommands, InHand, Idle
<1>8. CASE StopProcessingRequests
  <2>1. rxQueue' = << >> /\ UNCHANGED <<cmdQueue, cmd>>
    BY <1>8 DEF StopProcessingRequests
  <2>2. InHand(c)' => InHand(c)
    BY <2>1 DEF InHand
  <2>. QED  BY <1>0, <1>1, <2>1, <2>2, NoHelloInEmpty
<1>. QED  BY <1>3, <1>4, <1>5, <1>6, <1>7, <1>8 DEF Next, CommandStep

\* A connection whose Hello is still to come or still waits in a queue.
Unmapped(c) == "hello" \notin ct[c].sent \/ InQueue(rxQueue, c) \/ InQueue(cmdQueue, c)

LEMMA UnmappedStep ==
  ASSUME TypeOK, HelloIsSingle, [Next]_vars, NEW c \in Conn, Unmapped(c)'
  PROVE  Unmapped(c)
<1>0. rxQueue \in Seq(Pdu) /\ cmdQueue \in Seq(Pdu)
  BY DEF TypeOK
<1>1. "hello" \notin ct'[c].sent => Unmapped(c)
  BY HelloStaysSent DEF Unmapped
<1>2. CASE UNCHANGED <<rxQueue, cmdQueue>>
  BY <1>1, <1>2 DEF Unmapped
<1>3. CASE \/ \E d \in Conn : Accept(d) \/ LoseConnection(d) \/ ReaderStep(d)
           \/ HandshakeAnswer \/ CommandDeactivate \/ CommandDelMapping \/ MarkShutdown
           \/ UNCHANGED vars
  <2>1. UNCHANGED <<rxQueue, cmdQueue>>
    BY <1>3 DEF Accept, LoseConnection, ReaderStep, StatusChange, StatusChangeDelMapping,
       Leave, HandshakeAnswer, CommandDeactivate, CommandDelMapping, MarkShutdown, vars
  <2>. QED  BY <1>2, <2>1
<1>4. ASSUME NEW d \in Conn, NEW t \in Sends, NEW p \in ProxyID \union {NoProxy},
             Receive(d, t, p)
      PROVE  Unmapped(c)
  <2>. DEFINE x == [conn |-> d, type |-> t, proxy |-> p]
  <2>1. rxQueue' = Append(rxQueue, x) /\ UNCHANGED cmdQueue
    BY <1>4 DEF Receive
  <2>2. x \in Pdu
    BY SendsAssumption DEF Pdu, PduType
  <2>3. IsHello(x, c) => "hello" \notin ct[c].sent
    <3>1. ASSUME IsHello(x, c) PROVE d = c /\ t \in {"hello", "badhello"}
      BY <3>1 DEF IsHello
    <3>. QED  BY <1>4, <3>1 DEF Receive
  <2>. HIDE DEF x
  <2>4. InQueue(rxQueue', c) => InQueue(rxQueue, c) \/ IsHello(x, c)
    BY <1>0, <2>1, <2>2, HelloAppended
  <2>. QED  BY <1>1, <2>1, <2>3, <2>4 DEF Unmapped
<1>5. CASE HandlePacket
  <2>. DEFINE x == Head(rxQueue)
  <2>1. /\ rxQueue # << >> /\ rxQueue' = Tail(rxQueue)
        /\ cmdQueue' = cmdQueue \/ cmdQueue' = Append(cmdQueue, x)
    BY <1>5 DEF HandlePacket
  <2>2. x \in Pdu
    BY <1>0, <2>1, HeadOfQueue
  <2>3. InQueue(rxQueue, c) <=> InQueue(rxQueue', c) \/ IsHello(x, c)
    BY <1>0, <2>1, HelloTaken
  <2>. HIDE DEF x
  <2>4. InQueue(cmdQueue', c) => InQueue(cmdQueue, c) \/ IsHello(x, c)
    <3>1. CASE cmdQueue' = cmdQueue
      BY <3>1
    <3>2. CASE cmdQueue' = Append(cmdQueue, x)
      BY <1>0, <2>2, <3>2, HelloAppended
    <3>. QED  BY <2>1, <3>1, <3>2
  <2>. QED  BY <1>1, <2>3, <2>4 DEF Unmapped
<1>6. CASE HandshakeMap \/ HandshakeFail \/ CommandClose
  <2>1. cmdQueue # << >> /\ cmdQueue' = Tail(cmdQueue) /\ rxQueue' = rxQueue
    BY <1>6 DEF HandshakeMap, HandshakeFail, CommandClose, NextCommand
  <2>2. InQueue(cmdQueue', c) => InQueue(cmdQueue, c)
    BY <1>0, <2>1, HelloTaken
  <2>. QED  BY <1>1, <2>1, <2>2 DEF Unmapped
<1>7. CASE StopProcessingCommands
  BY <1>1, <1>7, NoHelloInEmpty DEF StopProcessingCommands, Unmapped
<1>8. CASE StopProcessingRequests
  BY <1>1, <1>8, NoHelloInEmpty DEF StopProcessingRequests, Unmapped
<1>. QED  BY <1>3, <1>4, <1>5, <1>6, <1>7, <1>8 DEF Next, CommandStep

\* Except for addMapping, the table only loses sockets and activity.
LEMMA TableShrinks ==
  ASSUME TypeOK, [Next]_vars, ~HandshakeMap, NEW j \in ClientID
  PROVE  /\ proxyMap'[j].isActive => proxyMap[j].isActive
         /\ \/ proxyMap'[j].socket = NoConn
            \/ /\ proxyMap'[j].socket = proxyMap[j].socket
               /\ proxyMap'[j].proxyID = proxyMap[j].proxyID
<1>1. CASE TableUnchanged
  BY <1>1 DEF TableUnchanged
<1>2. ASSUME NEW i \in ClientID, NEW b \in BOOLEAN, Deactivate(i, b)
      PROVE  /\ proxyMap'[j].isActive => proxyMap[j].isActive
             /\ proxyMap'[j].socket = proxyMap[j].socket
             /\ proxyMap'[j].proxyID = proxyMap[j].proxyID
  BY <1>2, DeactivateEffect
<1>3. ASSUME NEW i \in ClientID, DelMapping(i)
      PROVE  /\ proxyMap'[j].isActive => proxyMap[j].isActive
             /\ \/ proxyMap'[j].socket = NoConn
                \/ /\ proxyMap'[j].socket = proxyMap[j].socket
                   /\ proxyMap'[j].proxyID = proxyMap[j].proxyID
  BY <1>3, DelMappingEffect
<1>. QED  BY <1>1, <1>2, <1>3, TableSteps

\* Only addMapping takes a Hello into the hands of the command thread, and
\* only the answer puts it down.
LEMMA HandSteps ==
  ASSUME TypeOK, [Next]_vars
  PROVE  /\ cmd'.step = "mapped" => cmd' = cmd \/ HandshakeMap
         /\ cmd.step = "mapped" => cmd' = cmd \/ HandshakeAnswer
<1>1. CASE HandshakeAnswer
  BY <1>1 DEF HandshakeAnswer, Idle
<1>2. CASE CommandDelMapping
  BY <1>2 DEF CommandDelMapping, Idle
<1>3. CASE CommandDeactivate
  BY <1>3 DEF CommandDeactivate, TypeOK, Command
<1>4. CASE CommandClose
  BY <1>4 DEF CommandClose, NextCommand, Idle
<1>5. CASE HandshakeMap
  BY <1>5 DEF HandshakeMap, NextCommand
<1>6. CASE StopProcessingCommands
  BY <1>6 DEF StopProcessingCommands, Idle
<1>7. CASE \/ \E d \in Conn : \/ Accept(d) \/ LoseConnection(d) \/ ReaderStep(d)
                            \/ \E t \in Sends, p \in ProxyID \union {NoProxy} : Receive(d, t, p)
           \/ HandlePacket \/ HandshakeFail \/ MarkShutdown \/ StopProcessingRequests
           \/ UNCHANGED vars
  BY <1>7 DEF Accept, LoseConnection, ReaderStep, StatusChange, StatusChangeDelMapping,
     Leave, Receive, HandlePacket, HandshakeFail, MarkShutdown, StopProcessingRequests, vars
<1>. QED  BY <1>1, <1>2, <1>3, <1>4, <1>5, <1>6, <1>7 DEF Next, CommandStep

LEMMA SocketMapped ==
  ASSUME SocketInv, [Next]_vars, HandshakeMap
  PROVE  SocketIsSingle' /\ SocketKnowsItsClientID'
<1>. DEFINE c0 == Head(cmdQueue).conn
            p0 == Head(cmdQueue).proxy
            i0 == HandshakeID(p0)
<1>1. /\ cmd.step = "idle" /\ cmdQueue # << >> /\ Head(cmdQueue).type = "hello"
      /\ i0 # 0 /\ MayMap(p0, i0, c0) /\ AddMapping(p0, i0, c0)
      /\ cmd' = [step |-> "mapped", conn |-> c0, proxy |-> p0, id |-> i0]
      /\ ct' = ct
  BY DEF HandshakeMap, NextCommand
<1>2. Head(cmdQueue) \in Pdu /\ c0 \in Conn /\ p0 \in ProxyID \union {NoProxy}
  BY <1>1, HeadOfQueue DEF SocketInv, TypeOK
<1>3. i0 \in UsableID /\ i0 \in ClientID
  <2>1. i0 \in ClientID
    BY <1>2, HandshakeIDType DEF SocketInv
  <2>. QED  BY <1>1, <2>1, SizeAssumption DEF ClientID, UsableID
<1>4. IsHello(Head(cmdQueue), c0) /\ InQueue(cmdQueue, c0)
  <2>1. IsHello(Head(cmdQueue), c0)
    BY <1>1 DEF IsHello
  <2>2. cmdQueue \in Seq(Pdu)
    BY DEF SocketInv, TypeOK
  <2>. QED  BY <1>1, <2>1, <2>2, HelloTaken
<1>5. \A i \in ClientID : proxyMap[i].socket # c0
  BY <1>2, <1>4 DEF SocketInv, SocketIsSingle
<1>6. proxyMap[i0].proxyID # NoProxy => proxyMap[i0].proxyID = p0
  <2>. SUFFICES ASSUME FindClientID(p0) = i0, i0 # 0 PROVE proxyMap[i0].proxyID = p0
    BY <1>1, Zenon DEF MayMap
  <2>. QED  BY <1>2, FindClientIDMeaning DEF SocketInv
<1>7. /\ proxyMap'[i0].proxyID = p0 /\ proxyMap'[i0].socket = c0
      /\ \A j \in ClientID : j # i0 => proxyMap'[j] = proxyMap[j]
  <2>. HIDE DEF c0, p0, i0
  <2>. QED  BY <1>1, <1>3, <1>6, AddMappingEffect DEF SocketInv
<1>. HIDE DEF c0, p0, i0
<1>8. ASSUME NEW c \in Conn, Unmapped(c)' PROVE c # c0
  <2>. SUFFICES ASSUME c = c0 PROVE FALSE
    OBVIOUS
  <2>1. cmd'.step = "mapped" /\ cmd'.conn = c
    BY <1>1
  <2>2. InHand(c)'
    BY <2>1 DEF InHand
  <2>3. HelloIsSingle'
    BY HelloStep DEF SocketInv
  <2>. QED  BY <1>8, <2>2, <2>3 DEF HelloIsSingle, Unmapped
<1>9. ASSUME NEW c \in Conn, Unmapped(c)', NEW i \in ClientID
      PROVE  proxyMap'[i].socket # c
  <2>1. Unmapped(c) /\ c # c0
    BY <1>8, <1>9, UnmappedStep DEF SocketInv
  <2>2. proxyMap[i].socket # c
    BY <2>1 DEF SocketInv, SocketIsSingle, Unmapped
  <2>. QED  BY <1>7, <2>1, <2>2
<1>10. SocketIsSingle'
  <2>1. \A c \in Conn : Unmapped(c)' => \A i \in ClientID : proxyMap'[i].socket # c
    BY <1>9
  <2>2. cmd'.id = i0 /\ cmd'.conn = c0 /\ cmd'.proxy = p0
    BY <1>1
  <2>3. \A i \in ClientID \ {cmd'.id} : proxyMap'[i].socket # cmd'.conn
    BY <1>5, <1>7, <2>2
  <2>. QED  BY <1>7, <2>1, <2>2, <2>3 DEF SocketIsSingle, Unmapped
<1>11. SocketKnowsItsClientID'
  <2>. SUFFICES ASSUME NEW i \in UsableID, proxyMap'[i].isActive, proxyMap'[i].socket # NoConn
                PROVE  LET c == proxyMap'[i].socket
                       IN  \/ ct'[c].routerID = i /\ ct'[c].proxyID = proxyMap'[i].proxyID
                           \/ cmd'.step = "mapped" /\ cmd'.conn = c /\ cmd'.id = i
    BY DEF SocketKnowsItsClientID
  <2>0. i \in ClientID
    BY ZeroIsNotUsable
  <2>1. CASE i = i0
    BY <1>1, <1>7, <2>1
  <2>2. CASE i # i0
    BY <1>1, <1>7, <2>0, <2>2 DEF SocketInv, SocketKnowsItsClientID
  <2>. QED  BY <2>1, <2>2
<1>. QED  BY <1>10, <1>11

LEMMA SocketKept ==
  ASSUME SocketInv, [Next]_vars, ~HandshakeMap
  PROVE  SocketIsSingle' /\ SocketKnowsItsClientID'
<1>0. /\ TypeOK /\ HelloIsSingle
      /\ cmd.step = "mapped" => cmd.conn \in Conn /\ cmd.id \in ClientID
  BY DEF SocketInv, TypeOK, Command
<1>1. ASSUME NEW c \in Conn, Unmapped(c)', NEW i \in ClientID
      PROVE  proxyMap'[i].socket # c
  <2>1. proxyMap[i].socket # c
    BY <1>0, <1>1, UnmappedStep DEF SocketInv, SocketIsSingle, Unmapped
  <2>. QED  BY <1>0, <2>1, TableShrinks, NullAssumption
<1>2. cmd'.step = "mapped" => cmd' = cmd
  BY <1>0, HandSteps
<1>3. ASSUME cmd'.step = "mapped", NEW i \in ClientID \ {cmd'.id}
      PROVE  proxyMap'[i].socket # cmd'.conn
  <2>1. proxyMap[i].socket # cmd.conn
    BY <1>2, <1>3 DEF SocketInv, SocketIsSingle
  <2>. QED  BY <1>0, <1>2, <1>3, <2>1, TableShrinks, NullAssumption
<1>4. ASSUME cmd'.step = "mapped", proxyMap'[cmd'.id].isActive,
             proxyMap'[cmd'.id].socket = cmd'.conn
      PROVE  proxyMap'[cmd'.id].proxyID = cmd'.proxy
  <2>. DEFINE i == cmd.id
  <2>1. i \in ClientID /\ cmd.conn \in Conn /\ cmd.step = "mapped" /\ cmd' = cmd
    BY <1>0, <1>2, <1>4
  <2>2. /\ proxyMap[i].isActive
        /\ proxyMap[i].socket = cmd.conn
        /\ proxyMap'[i].proxyID = proxyMap[i].proxyID
    <3>. HIDE DEF i
    <3>1. proxyMap'[i].isActive /\ proxyMap'[i].socket = cmd.conn
      BY <1>4, <2>1 DEF i
    <3>. QED  BY <1>0, <2>1, <3>1, TableShrinks, NullAssumption
  <2>. QED  BY <2>1, <2>2 DEF SocketInv, SocketIsSingle
<1>5. SocketIsSingle'
  BY <1>1, <1>3, <1>4, Zenon DEF SocketIsSingle, Unmapped
<1>6. SocketKnowsItsClientID'
  <2>. SUFFICES ASSUME NEW i \in UsableID, proxyMap'[i].isActive, proxyMap'[i].socket # NoConn
                PROVE  LET c == proxyMap'[i].socket
                       IN  \/ ct'[c].routerID = i /\ ct'[c].proxyID = proxyMap'[i].proxyID
                           \/ cmd'.step = "mapped" /\ cmd'.conn = c /\ cmd'.id = i
    BY DEF SocketKnowsItsClientID
  <2>. DEFINE c == proxyMap[i].socket
  <2>0. i \in ClientID
    BY ZeroIsNotUsable
  <2>1. /\ proxyMap[i].isActive /\ c # NoConn
        /\ proxyMap'[i].socket = c /\ proxyMap'[i].proxyID = proxyMap[i].proxyID
    BY <1>0, <2>0, TableShrinks
  <2>2. c \in Conn
    BY <2>0, <2>1 DEF SocketInv, TypeOK, Mapping
  <2>3. \/ ct[c].routerID = i /\ ct[c].proxyID = proxyMap[i].proxyID
        \/ cmd.step = "mapped" /\ cmd.conn = c /\ cmd.id = i
    BY <2>1 DEF SocketInv, SocketKnowsItsClientID
  <2>4. ASSUME cmd.step = "mapped", cmd.conn = c
        PROVE  cmd.id = i /\ cmd.proxy = proxyMap[i].proxyID
    <3>1. cmd.id = i
      BY <2>0, <2>4 DEF SocketInv, SocketIsSingle
    <3>. QED  BY <2>1, <2>4, <3>1 DEF SocketInv, SocketIsSingle
  <2>. HIDE DEF c
  <2>5. ASSUME HandshakeAnswer, cmd.conn = c
        PROVE  ct'[c].routerID = i /\ ct'[c].proxyID = proxyMap[i].proxyID
    <3>1. cmd.step = "mapped"
      BY <2>5 DEF HandshakeAnswer
    <3>2. ct'[c].routerID = cmd.id /\ ct'[c].proxyID = cmd.proxy
      BY <1>0, <2>2, <2>5 DEF HandshakeAnswer, TypeOK, ClientThread
    <3>. QED  BY <2>4, <2>5, <3>1, <3>2
  <2>6. ASSUME NEW t, NEW p, Receive(c, t, p)
        PROVE  ct'[c].routerID = ct[c].routerID /\ ct'[c].proxyID = ct[c].proxyID
    BY <1>0, <2>2, <2>6 DEF Receive, TypeOK, ClientThread
  <2>7. CASE ct[c].routerID = i /\ ct[c].proxyID = proxyMap[i].proxyID
    <3>1. ct'[c].routerID = i /\ ct'[c].proxyID = proxyMap[i].proxyID
      BY <1>0, <2>2, <2>5, <2>6, <2>7, ThreadsKeepTheirIDs DEF SameIDs
    <3>. QED  BY <2>1, <3>1
  <2>8. CASE cmd.step = "mapped" /\ cmd.conn = c /\ cmd.id = i
    <3>1. cmd' = cmd \/ HandshakeAnswer
      BY <1>0, <2>8, HandSteps
    <3>. QED  BY <2>1, <2>5, <2>8, <3>1
  <2>. QED  BY <2>3, <2>7, <2>8
<1>. QED  BY <1>5, <1>6

LEMMA SocketInit == Init => SocketInv
<1>. SUFFICES ASSUME Init PROVE HelloIsSingle /\ SocketIsSingle /\ SocketKnowsItsClientID
  BY InitType DEF SocketInv
<1>1. rxQueue = << >> /\ cmdQueue = << >> /\ cmd.step = "idle"
  BY DEF Init, Idle
<1>2. \A i \in ClientID : proxyMap[i].socket = NoConn
  BY DEF Init
<1>3. HelloIsSingle
  BY <1>1, NoHelloInEmpty DEF HelloIsSingle, InHand
<1>4. SocketIsSingle
  BY <1>1, <1>2, NullAssumption DEF SocketIsSingle
<1>5. SocketKnowsItsClientID
  BY <1>2, ZeroIsNotUsable DEF SocketKnowsItsClientID
<1>. QED  BY <1>3, <1>4, <1>5

\* The socket of an active mapping is a connection that carries this clientID
\* and this proxy, or is about to be told them: for every number of
\* connections and every order of accepts, losses, handshakes and goodbyes, a
\* notification sent through the mapping reaches the proxy that owns it.
THEOREM SocketsKnowTheirClientIDs == Spec => []SocketKnowsItsClientID
<1>1. SocketInv /\ [Next]_vars => SocketInv'
  BY NextType, HelloStep, SocketMapped, SocketKept DEF SocketInv
<1>2. SocketInv => SocketKnowsItsClientID
  BY DEF SocketInv
<1>. QED  BY <1>1, <1>2, SocketInit, PTL DEF Spec
=============================================================================
