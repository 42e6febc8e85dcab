------------------------------ MODULE ProxyMap ------------------------------
(***************************************************************************)
(* The connection management of the SRx server: the table that maps proxy  *)
(* identifiers to one-byte client identifiers (proxyMap), and the three    *)
(* kinds of threads that change it without a common lock:                  *)
(*                                                                         *)
(*   - one reader thread per TCP connection (single_handleClient), which   *)
(*     receives packets and, when the connection ends, runs the status     *)
(*     callback that deactivates the mapping;                              *)
(*   - the receiver-queue thread (_handlePacket), which decides whether a  *)
(*     packet is passed on;                                                *)
(*   - the command-handler thread (handleCommands), which performs the     *)
(*     handshake and the ordered disconnect.                               *)
(*                                                                         *)
(* The model follows the TCP build (USE_GRPC undefined).  A handler is     *)
(* split into several actions exactly where another thread can observe or  *)
(* change the mapping in between.  Update references (updateCount,         *)
(* unregisterClientID) belong to UpdateCache.tla.                          *)
(***************************************************************************)
EXTENDS Integers, Sequences, FiniteSets

CONSTANTS
  Conn,          \* ClientThread instances; each accept() allocates a new one
  ProxyID,       \* the proxy identifiers routers announce, zero excluded
  NoProxy,       \* proxyID 0: the entry is unassigned
  NoConn,        \* the NULL socket
  MaxElements,   \* MAX_PROXY_CLIENT_ELEMENTS, 256 in the code
  CounterMod,    \* noMappings is a uint8_t: 256 in the code
  Configured,    \* mapping_routerID: clientID -> ProxyID or NoProxy
  Sends,         \* the packet types the proxies of an instance send
  MayShutDown,   \* whether the instance includes shutDown()
  MaxQueue,      \* bound on the packets waiting in either queue
  MaxInstalls    \* bound on how many mappings are ever installed

\* The clientID is the index of the mapping; index 0 is never handed out.
ClientID == 0 .. MaxElements - 1
UsableID == 1 .. MaxElements - 1

ASSUME SizeAssumption ==
  /\ MaxElements \in Nat \ {0}
  /\ CounterMod \in Nat
  /\ MaxElements <= CounterMod
  /\ MaxQueue \in Nat
  /\ MaxInstalls \in Nat
  /\ MayShutDown \in BOOLEAN

ASSUME SendsAssumption == Sends \subseteq {"hello", "badhello", "goodbye", "other"}

ASSUME NullAssumption == NoProxy \notin ProxyID /\ NoConn \notin Conn

ASSUME ConfiguredAssumption == Configured \in [UsableID -> ProxyID \union {NoProxy}]

VARIABLES
  proxyMap,    \* the mapping table
  noMappings,  \* uint8_t counter of installed mappings
  installs,    \* history: how often addMapping installed a mapping
  ct,          \* the ClientThread records
  clients,     \* svrConnHandler.clients
  cthreads,    \* svrSock.cthreads
  rxQueue,     \* packets in the receiver queue
  cmdQueue,    \* packets in the command queue
  cmd,         \* what the command-handler thread is doing
  phase        \* progress of shutDown()

vars == <<proxyMap, noMappings, installs, ct, clients, cthreads, rxQueue,
          cmdQueue, cmd, phase>>

(***************************************************************************)
(* Packets, as far as connection management tells them apart.  "badhello"  *)
(* is a Hello of another protocol version; "other" is any PDU the command  *)
(* handler does not support.                                               *)
(***************************************************************************)
PduType == {"hello", "badhello", "goodbye", "other"}
Pdu == [conn : Conn, type : PduType, proxy : ProxyID \union {NoProxy}]

Mapping == [proxyID : ProxyID \union {NoProxy}, socket : Conn \union {NoConn},
            isActive : BOOLEAN, preDefined : BOOLEAN, crashed : BOOLEAN]

(***************************************************************************)
(* A ClientThread.  thread is the reader thread's position: "reading" in   *)
(* receivePackets, "closing" once the stream ended, "delmap" inside        *)
(* deactivateConnectionMapping, "leaving" after the status callback.       *)
(* delID is the clientID argument of the running deactivation.  sent is    *)
(* the environment's record of what the proxy has sent: a proxy sends one  *)
(* Hello and one Goodbye per connection.                                   *)
(***************************************************************************)
ThreadPos == {"none", "reading", "closing", "delmap", "leaving", "gone"}
ClientThread == [thread : ThreadPos, active : BOOLEAN, initialized : BOOLEAN,
                 goodByeReceived : BOOLEAN, proxyID : ProxyID \union {NoProxy},
                 routerID : ClientID, delID : ClientID,
                 sent : SUBSET {"hello", "goodbye", "other"}]

CmdStep == {"idle", "mapped", "closed", "delmap", "stopped"}
Command == [step : CmdStep, conn : Conn \union {NoConn},
            proxy : ProxyID \union {NoProxy}, id : ClientID]

Idle == [step |-> "idle", conn |-> NoConn, proxy |-> NoProxy, id |-> 0]

Phase == {"running", "shutdown", "commandsStopped", "stopped"}

TypeOK ==
  /\ proxyMap \in [ClientID -> Mapping]
  /\ noMappings \in 0 .. CounterMod - 1
  /\ installs \in Nat
  /\ ct \in [Conn -> ClientThread]
  /\ clients \subseteq Conn
  /\ cthreads \subseteq Conn
  /\ rxQueue \in Seq(Pdu)
  /\ cmdQueue \in Seq(Pdu)
  /\ cmd \in Command
  /\ cmd.step \in {"mapped", "closed", "delmap"} => cmd.conn \in Conn
  /\ phase \in Phase

-----------------------------------------------------------------------------
(***************************************************************************)
(* Lookups in the mapping table.                                           *)
(***************************************************************************)
Smallest(S) == CHOOSE i \in S : \A j \in S : i <= j

AssignedBelow(i) == {j \in UsableID : j < i /\ proxyMap[j].proxyID # NoProxy}

\* Mutant: the scan skips inactive entries.
FindClientIDActiveOnly(p) ==
  LET found == {i \in UsableID : proxyMap[i].proxyID = p /\ proxyMap[i].isActive}
  IN  IF found = {} THEN 0 ELSE Smallest(found)

\* The scan goes through the entries in ascending order and gives up once it
\* has seen noMappings assigned ones.
FindClientID(p) ==
  LET found == {i \in UsableID : /\ proxyMap[i].proxyID = p
                                 /\ Cardinality(AssignedBelow(i)) < noMappings}
  IN  IF found = {} THEN 0 ELSE Smallest(found)

CreateClientID ==
  LET free == {i \in UsableID : proxyMap[i].proxyID = NoProxy}
  IN  IF free = {} THEN 0 ELSE Smallest(free)

\* The clientID a Hello of proxy p is answered with, zero if there is none.
HandshakeID(p) ==
  IF FindClientID(p) # 0 THEN FindClientID(p) ELSE CreateClientID

\* Mutant: EM4 does not compare the sockets.
MayMapAnySocket(p, i, c) ==
  \/ /\ FindClientID(p) = 0
     /\ proxyMap[i].proxyID = NoProxy
     /\ ~proxyMap[i].isActive
  \/ FindClientID(p) = i

\* addMapping's verdict (the cases EM1 to EM5 are the refusals).
MayMap(p, i, c) ==
  \/ /\ FindClientID(p) = 0
     /\ proxyMap[i].proxyID = NoProxy
     /\ ~proxyMap[i].isActive
  \/ /\ FindClientID(p) = i
     /\ proxyMap[i].isActive => proxyMap[i].socket = c

\* Mutant: the counter has no width.
AddMappingUnbounded(p, i, c) ==
  /\ installs < MaxInstalls
  /\ installs' = installs + 1
  /\ noMappings' = noMappings + 1
  /\ proxyMap' = [proxyMap EXCEPT ![i] =
       [proxyID |-> p, socket |-> c, isActive |-> TRUE,
        preDefined |-> @.preDefined, crashed |-> FALSE]]

AddMapping(p, i, c) ==
  /\ IF proxyMap[i].proxyID = NoProxy
     THEN /\ installs < MaxInstalls
          /\ installs' = installs + 1
          /\ noMappings' = (noMappings + 1) % CounterMod
     ELSE UNCHANGED <<installs, noMappings>>
  /\ proxyMap' = [proxyMap EXCEPT ![i] =
       [proxyID |-> IF @.proxyID = NoProxy THEN p ELSE @.proxyID, socket |-> c,
        isActive |-> TRUE, preDefined |-> @.preDefined, crashed |-> FALSE]]

-----------------------------------------------------------------------------
(***************************************************************************)
(* Start: configureProxyMap adds the configured mappings in index order;   *)
(* a proxy configured twice keeps its first clientID (EM5).                *)
(***************************************************************************)
IsConfigured(i) ==
  /\ i \in UsableID
  /\ Configured[i] # NoProxy
  /\ \A j \in UsableID : j < i => Configured[j] # Configured[i]

NewThread == [thread |-> "none", active |-> FALSE, initialized |-> FALSE,
              goodByeReceived |-> FALSE, proxyID |-> NoProxy, routerID |-> 0,
              delID |-> 0, sent |-> {}]

Init ==
  /\ proxyMap = [i \in ClientID |->
       [proxyID |-> IF IsConfigured(i) THEN Configured[i] ELSE NoProxy,
        socket |-> NoConn, isActive |-> FALSE,
        preDefined |-> IsConfigured(i), crashed |-> FALSE]]
  /\ installs = Cardinality({i \in UsableID : IsConfigured(i)})
  /\ noMappings = installs
  /\ ct = [c \in Conn |-> NewThread]
  /\ clients = {} /\ cthreads = {}
  /\ rxQueue = << >> /\ cmdQueue = << >>
  /\ cmd = Idle
  /\ phase = "running"

-----------------------------------------------------------------------------
(***************************************************************************)
(* The accept loop and the reader threads.                                 *)
(***************************************************************************)

\* runServerLoop: append the ClientThread, call the status callback, start it.
Accept(c) ==
  /\ phase # "stopped"
  /\ ct[c].thread = "none"
  /\ ct' = [ct EXCEPT ![c] = [@ EXCEPT !.thread = "reading", !.active = TRUE]]
  /\ clients' = clients \union {c}
  /\ cthreads' = cthreads \union {c}
  /\ UNCHANGED <<proxyMap, noMappings, installs, rxQueue, cmdQueue, cmd, phase>>

\* receivePackets -> handlePacket -> addToSCHReceiverQueue.  What a proxy may
\* still send is limited by sent.
Receive(c, type, p) ==
  LET kind == IF type = "badhello" THEN "hello" ELSE type
  IN  /\ ct[c].thread = "reading"
      /\ type = "hello" <=> p # NoProxy
      /\ kind \notin ct[c].sent
      /\ Len(rxQueue) < MaxQueue
      /\ ct' = [ct EXCEPT ![c] = [@ EXCEPT !.sent = ct[c].sent \union {kind}]]
      /\ rxQueue' = Append(rxQueue, [conn |-> c, type |-> type, proxy |-> p])
      /\ UNCHANGED <<proxyMap, noMappings, installs, clients, cthreads, cmdQueue,
                     cmd, phase>>

\* The peer closed the connection or it broke: receivePackets returns.
LoseConnection(c) ==
  /\ ct[c].thread = "reading"
  /\ ct' = [ct EXCEPT ![c] = [@ EXCEPT !.thread = "closing"]]
  /\ UNCHANGED <<proxyMap, noMappings, installs, clients, cthreads, rxQueue,
                 cmdQueue, cmd, phase>>

\* First half of deactivateConnectionMapping: up to and including the test of
\* isActive in _delMapping.  Between the halves the update cache is searched.
Deactivate(i, hasCrashed) ==
  proxyMap' = [proxyMap EXCEPT ![i] =
                 [@ EXCEPT !.isActive = FALSE, !.crashed = hasCrashed]]

\* Mutant: the configuration is forgotten.
DelMappingConfigured(i) ==
  proxyMap' = [proxyMap EXCEPT ![i] =
                 [@ EXCEPT !.socket = NoConn,
                           !.proxyID = IF proxyMap[i].crashed THEN @ ELSE NoProxy]]

\* Second half: _delMapping forgets the proxy unless it is configured or is
\* expected to come back after a crash; the socket is always cleared.
DelMapping(i) ==
  proxyMap' = [proxyMap EXCEPT ![i] =
                 [@ EXCEPT !.socket = NoConn,
                           !.proxyID = IF proxyMap[i].preDefined \/ proxyMap[i].crashed
                                       THEN proxyMap[i].proxyID ELSE NoProxy]]

\* clientThreadCleanup -> handleStatusChange(connected = false).
StatusChange(c) ==
  /\ ct[c].thread = "closing"
  /\ clients' = clients \ {c}
  /\ Deactivate(ct[c].routerID,
                ~(phase # "running" \/ ct[c].goodByeReceived))
  /\ ct' = [ct EXCEPT ![c] = [@ EXCEPT !.thread = "delmap", !.delID = ct[c].routerID]]
  /\ UNCHANGED <<noMappings, installs, cthreads, rxQueue, cmdQueue, cmd, phase>>

StatusChangeDelMapping(c) ==
  /\ ct[c].thread = "delmap"
  /\ DelMapping(ct[c].delID)
  /\ cthreads' = cthreads \ {c}
  /\ ct' = [ct EXCEPT ![c] = [@ EXCEPT !.thread = "leaving", !.delID = 0]]
  /\ UNCHANGED <<noMappings, installs, clients, rxQueue, cmdQueue, cmd, phase>>

\* The end of clientThreadCleanup.
Leave(c) ==
  /\ ct[c].thread = "leaving"
  /\ ct' = [ct EXCEPT ![c] = [@ EXCEPT !.thread = "gone", !.active = FALSE]]
  /\ UNCHANGED <<proxyMap, noMappings, installs, clients, cthreads, rxQueue,
                 cmdQueue, cmd, phase>>

-----------------------------------------------------------------------------
(***************************************************************************)
(* The receiver-queue thread.                                              *)
(***************************************************************************)

\* _handlePacket: a Hello is dropped unless the connection still waits for its
\* handshake (an error and a goodbye are sent); a Goodbye on an established
\* connection announces the ordered disconnect.  The rest is queued.
Refused(pkt) ==
  /\ pkt.type \in {"hello", "badhello"}
  /\ ~ct[pkt.conn].active \/ ct[pkt.conn].initialized

HandlePacket ==
  /\ phase # "stopped"
  /\ rxQueue # << >>
  /\ LET pkt == Head(rxQueue)
         c   == pkt.conn
     IN  /\ rxQueue' = Tail(rxQueue)
         /\ IF Refused(pkt)
            THEN UNCHANGED <<ct, cmdQueue>>
            ELSE /\ Len(cmdQueue) < MaxQueue
                 /\ cmdQueue' = Append(cmdQueue, pkt)
                 /\ ct' = [ct EXCEPT ![c] = [@ EXCEPT !.goodByeReceived =
                             \/ ct[c].goodByeReceived
                             \/ /\ pkt.type = "goodbye"
                                /\ ct[c].active /\ ct[c].initialized]]
  /\ UNCHANGED <<proxyMap, noMappings, installs, clients, cthreads, cmd, phase>>

-----------------------------------------------------------------------------
(***************************************************************************)
(* The command-handler thread.                                             *)
(***************************************************************************)

\* pthread_cancel ends a reader thread that waits for data; one that already
\* runs its cleanup reaches a cancellation point or finishes first.
CancelOutcomes(t) ==
  IF t \in {"closing", "delmap", "leaving"} THEN {t, "gone"} ELSE {"gone"}

\* _killClientThread
Kill(c) ==
  IF ct[c].active
  THEN \E t \in CancelOutcomes(ct[c].thread) :
         ct' = [ct EXCEPT ![c] = [@ EXCEPT !.thread = t, !.active = FALSE]]
  ELSE UNCHANGED ct

\* closeClientConnection
CloseClientConnection(c) == Kill(c) /\ cthreads' = cthreads \ {c}

NextCommand(types) ==
  /\ phase \in {"running", "shutdown"}
  /\ cmd.step = "idle"
  /\ cmdQueue # << >>
  /\ Head(cmdQueue).type \in types
  /\ cmdQueue' = Tail(cmdQueue)

\* Mutant: addMapping is called with clientID 0 when the table is full.
HandshakeMapUnchecked ==
  /\ NextCommand({"hello"})
  /\ LET c == Head(cmdQueue).conn
         p == Head(cmdQueue).proxy
         i == HandshakeID(p)
     IN  /\ MayMap(p, i, c)
         /\ AddMapping(p, i, c)
         /\ cmd' = [step |-> "mapped", conn |-> c, proxy |-> p, id |-> i]
  /\ UNCHANGED <<ct, clients, cthreads, rxQueue, phase>>

\* _processHandshake up to addMapping.
HandshakeMap ==
  /\ NextCommand({"hello"})
  /\ LET c == Head(cmdQueue).conn
         p == Head(cmdQueue).proxy
         i == HandshakeID(p)
     IN  /\ i # 0
         /\ MayMap(p, i, c)
         /\ AddMapping(p, i, c)
         /\ cmd' = [step |-> "mapped", conn |-> c, proxy |-> p, id |-> i]
  /\ UNCHANGED <<ct, clients, cthreads, rxQueue, phase>>

\* Mutant: routerID is set only once the Hello Response is out.
HandshakeAnswerLate ==
  /\ cmd.step = "mapped"
  /\ ct' = IF ct[cmd.conn].active
           THEN [ct EXCEPT ![cmd.conn] =
                  [@ EXCEPT !.proxyID = cmd.proxy, !.routerID = cmd.id,
                            !.initialized = TRUE]]
           ELSE ct
  /\ cmd' = Idle
  /\ UNCHANGED <<proxyMap, noMappings, installs, clients, cthreads, rxQueue,
                 cmdQueue, phase>>

\* _processHandshake after addMapping: the Hello Response goes out only while
\* the connection is active, and only then is the connection initialized.
HandshakeAnswer ==
  /\ cmd.step = "mapped"
  /\ ct' = [ct EXCEPT ![cmd.conn] =
              [@ EXCEPT !.proxyID = cmd.proxy, !.routerID = cmd.id,
                        !.initialized = ct[cmd.conn].initialized \/ ct[cmd.conn].active]]
  /\ cmd' = Idle
  /\ UNCHANGED <<proxyMap, noMappings, installs, clients, cthreads, rxQueue,
                 cmdQueue, phase>>

\* Mutant: the goodbye is sent but the connection is left open.
HandshakeFailOpen ==
  /\ NextCommand({"hello", "badhello"})
  /\ LET c == Head(cmdQueue).conn
         p == Head(cmdQueue).proxy
         i == HandshakeID(p)
     IN  \/ Head(cmdQueue).type = "badhello"
         \/ i = 0
         \/ ~MayMap(p, i, c)
  /\ UNCHANGED <<proxyMap, noMappings, installs, ct, clients, cthreads, rxQueue,
                 cmd, phase>>

\* A failed handshake: error and goodbye are sent and the connection closed.
HandshakeFail ==
  /\ NextCommand({"hello", "badhello"})
  /\ LET c == Head(cmdQueue).conn
         p == Head(cmdQueue).proxy
         i == HandshakeID(p)
     IN  /\ \/ Head(cmdQueue).type = "badhello"
            \/ i = 0
            \/ ~MayMap(p, i, c)
         /\ CloseClientConnection(c)
         /\ clients' = clients \ {c}
  /\ UNCHANGED <<proxyMap, noMappings, installs, rxQueue, cmd, phase>>

\* A Goodbye, or a PDU the command handler does not support: close the
\* connection, then deactivate the mapping of its routerID.
CommandClose ==
  /\ NextCommand({"goodbye", "other"})
  /\ LET c == Head(cmdQueue).conn
     IN  /\ CloseClientConnection(c)
         /\ cmd' = [Idle EXCEPT !.step = "closed", !.conn = c]
  /\ UNCHANGED <<proxyMap, noMappings, installs, clients, rxQueue, phase>>

CommandDeactivate ==
  /\ cmd.step = "closed"
  /\ LET i == ct[cmd.conn].routerID
     IN  /\ Deactivate(i, FALSE)
         /\ cmd' = [cmd EXCEPT !.step = "delmap", !.id = i]
  /\ UNCHANGED <<noMappings, installs, ct, clients, cthreads, rxQueue, cmdQueue,
                 phase>>

CommandDelMapping ==
  /\ cmd.step = "delmap"
  /\ DelMapping(cmd.id)
  /\ clients' = clients \ {cmd.conn}
  /\ cmd' = Idle
  /\ UNCHANGED <<noMappings, installs, ct, cthreads, rxQueue, cmdQueue, phase>>

-----------------------------------------------------------------------------
(***************************************************************************)
(* shutDown(): mark the shutdown, stop the command thread (its pending     *)
(* commands are dropped), then stop the queue and kill the readers.        *)
(***************************************************************************)
MarkShutdown ==
  /\ MayShutDown
  /\ phase = "running"
  /\ phase' = "shutdown"
  /\ UNCHANGED <<proxyMap, noMappings, installs, ct, clients, cthreads, rxQueue,
                 cmdQueue, cmd>>

StopProcessingCommands ==
  /\ phase = "shutdown"
  /\ cmd.step = "idle"
  /\ phase' = "commandsStopped"
  /\ cmdQueue' = << >>
  /\ cmd' = [Idle EXCEPT !.step = "stopped"]
  /\ UNCHANGED <<proxyMap, noMappings, installs, ct, clients, cthreads, rxQueue>>

StopProcessingRequests ==
  /\ phase = "commandsStopped"
  /\ phase' = "stopped"
  /\ rxQueue' = << >>
  /\ \E kept \in SUBSET {c \in cthreads : "reading" # ct[c].thread} :
       ct' = [c \in Conn |->
                IF c \in cthreads /\ ct[c].active
                THEN [ct[c] EXCEPT !.active = FALSE,
                                   !.thread = IF c \in kept THEN ct[c].thread ELSE "gone"]
                ELSE ct[c]]
  /\ cthreads' = {}
  /\ UNCHANGED <<proxyMap, noMappings, installs, clients, cmdQueue, cmd>>

-----------------------------------------------------------------------------
ReaderStep(c) == StatusChange(c) \/ StatusChangeDelMapping(c) \/ Leave(c)

CommandStep ==
  \/ HandshakeMap
  \/ HandshakeAnswer
  \/ HandshakeFail
  \/ CommandClose
  \/ CommandDeactivate
  \/ CommandDelMapping

Next ==
  \/ \E c \in Conn : \/ Accept(c)
                     \/ LoseConnection(c)
                     \/ ReaderStep(c)
                     \/ \E t \in Sends, p \in ProxyID \union {NoProxy} : Receive(c, t, p)
  \/ HandlePacket
  \/ CommandStep
  \/ MarkShutdown
  \/ StopProcessingCommands
  \/ StopProcessingRequests

Spec == Init /\ [][Next]_vars

-----------------------------------------------------------------------------
(***************************************************************************)
(* Properties.                                                             *)
(***************************************************************************)
UniqueProxyID ==
  \A i, j \in UsableID :
    proxyMap[i].proxyID = proxyMap[j].proxyID /\ proxyMap[i].proxyID # NoProxy
      => i = j

\* No proxy is mapped to two clientIDs, as long as the 8-bit counter that
\* bounds findClientID's scan has not wrapped around.  The counter is never
\* decreased, so it overestimates the assigned entries and the scan reaches
\* all of them.
UniqueUntilWrap == installs < CounterMod => UniqueProxyID

\* The element of ID 0 is never assigned, activated or given a socket, even
\* though a connection that is lost before its handshake deactivates it.
ZeroEntryUnused ==
  /\ proxyMap[0].proxyID = NoProxy
  /\ ~proxyMap[0].isActive
  /\ proxyMap[0].socket = NoConn

\* The socket of an active mapping is a connection that carries this very
\* clientID (or is about to be told it), so notifications sent through the
\* mapping reach the proxy that owns it, and no connection serves two mappings.
SocketKnowsItsClientID ==
  \A i \in UsableID :
    LET c == proxyMap[i].socket
    IN  proxyMap[i].isActive /\ c # NoConn
          => \/ ct[c].routerID = i /\ ct[c].proxyID = proxyMap[i].proxyID
             \/ cmd.step = "mapped" /\ cmd.conn = c /\ cmd.id = i

\* A step never moves an active mapping from one connection to another one: a
\* second connection that announces the same proxy is refused (EM4).
NoTakeover ==
  [][\A i \in UsableID :
       proxyMap[i].isActive /\ proxyMap'[i].isActive /\ proxyMap[i].socket # NoConn
         => proxyMap'[i].socket \in {proxyMap[i].socket, NoConn}]_vars

\* A configured mapping keeps its proxy for ever, whatever connects, crashes or
\* says goodbye.
PreDefinedStays ==
  [][\A i \in UsableID :
       proxyMap[i].preDefined => /\ proxyMap'[i].preDefined
                                 /\ proxyMap'[i].proxyID = proxyMap[i].proxyID]_vars

\* addMapping's comment calls an active mapping without a proxy (EM1) something
\* that should never occur; broadcastResult sends through the socket of every
\* active mapping without a test for NULL.
NoActiveZeroMapping ==
  \A i \in UsableID : proxyMap[i].isActive => proxyMap[i].proxyID # NoProxy

\* "disconnects of proxies require to deactivate the mapping": once the thread
\* of a connection is gone and nothing it sent is still to be processed, no
\* active mapping refers to it.
Pending(c) ==
  \/ \E k \in 1 .. Len(rxQueue) : rxQueue[k].conn = c
  \/ \E k \in 1 .. Len(cmdQueue) : cmdQueue[k].conn = c
  \/ cmd.conn = c
DisconnectDeactivates ==
  \A c \in Conn :
    ct[c].thread = "gone" /\ ~Pending(c) /\ phase = "running"
      => \A i \in UsableID : ~(proxyMap[i].isActive /\ proxyMap[i].socket = c)

\* While a connection is established its mapping is actively used: isActive
\* "defines if the map entry is actively used at this point in time".
EstablishedIsMapped ==
  \A c \in Conn :
    ct[c].thread = "reading" /\ ct[c].active /\ ct[c].initialized
      => /\ proxyMap[ct[c].routerID].isActive
         /\ proxyMap[ct[c].routerID].socket = c

-----------------------------------------------------------------------------
(***************************************************************************)
(* Fairness: the receiver-queue thread and the command thread run until    *)
(* they are stopped, and a reader that left its loop finishes its cleanup. *)
(* Nothing is assumed of the proxies, of the network or of shutDown().     *)
(***************************************************************************)
Fairness ==
  /\ WF_vars(HandlePacket)
  /\ WF_vars(CommandStep)
  /\ \A c \in Conn : WF_vars(ReaderStep(c))

FairSpec == Spec /\ Fairness

\* Every Hello that reaches a running server is settled: the connection becomes
\* initialized, or it is closed, unless the server is shut down first.
HelloIsSettled ==
  \A c \in Conn :
    (\E k \in 1 .. Len(rxQueue) :
        rxQueue[k].conn = c /\ rxQueue[k].type \in {"hello", "badhello"})
      ~> (ct[c].initialized \/ ~ct[c].active \/ phase # "running")
=============================================================================
