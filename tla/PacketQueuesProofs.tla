------------------------ MODULE PacketQueuesProofs ------------------------
(***************************************************************************)
(* The two queues hand the packets on in order and without repetition also *)
(* while the server ends, and a requested end is clean: for any number of  *)
(* packets, both endings, and whether or not the sleep of a stop outlasts  *)
(* its thread.                                                             *)
(***************************************************************************)
EXTENDS PacketQueues, SequenceTheorems, TLAPS

-----------------------------------------------------------------------------
(***************************************************************************)
(* The inductive invariants.                                               *)
(***************************************************************************)

\* The stops of doCleanup and stopProcessingRequests: queue, place, next place.
IsStop(q, here, next) ==
  \/ q = "receive" /\ here = "stopRequests" /\ next = "stopLoop"
  \/ q = "send" /\ here = "releaseSend" /\ next = "freeSend"
  \/ q = "receive" /\ here = "stopReceive" /\ next = "freeReceive"

IsFree(q, here, next) ==
  \/ q = "send" /\ here = "freeSend" /\ next = "stopReceive"
  \/ q = "receive" /\ here = "freeReceive" /\ next = "over"

\* Where the ending thread is tells what has been joined and released.
PlaceTells ==
  /\ closing.at = "serving" <=> ending = "no"
  /\ joins["send"] = (IF closing.at \in {"serving", "stopRequests", "stopLoop", "releaseSend"}
                      THEN 0 ELSE 1)
  /\ joins["receive"] <= (IF closing.at \in {"serving", "stopRequests"} THEN 0
                          ELSE IF closing.at \in {"freeReceive", "over"} THEN 2 ELSE 1)
  /\ "send" \in freed => closing.at \in {"stopReceive", "freeReceive", "over"}
  /\ "receive" \in freed => closing.at = "over"

\* After a request the receiver thread has ended before the send queue is
\* stopped, and a queue that was stopped stays empty.
RequestedOrder ==
  ending = "requested" =>
    /\ closing.at \notin {"serving", "stopRequests"} => handler["receive"].at = "done"
    /\ dropped = {}
    /\ closing.at \in {"freeSend", "stopReceive", "freeReceive", "over"} => packets["send"] = <<>>
    /\ closing.at \in {"freeReceive", "over"} => packets["receive"] = <<>>

\* An answer is dropped only after the send queue is released.
NothingDroppedBefore == "send" \notin freed => dropped = {}

EndInv == TypeOK /\ PlaceTells /\ RequestedOrder /\ NothingDroppedBefore

-----------------------------------------------------------------------------
(***************************************************************************)
(* Types, and the order of the end.                                        *)
(***************************************************************************)

\* The steps of a queue's thread, of the readers and of the ending thread.
LEMMA NextCases ==
  ASSUME Next
  PROVE  \/ \E q \in Queue : TestRunning(q) \/ Fetch(q) \/ WakeUp(q)
         \/ AddToSCHReceiverQueue \/ AnswerPacket \/ AddToSendQueue \/ SendPacket
         \/ RequestShutdown \/ AcceptFails \/ StopServerLoop
         \/ \E q \in Queue, here, next \in Place :
              /\ IsStop(q, here, next)
              /\ StopSignal(q, here) \/ StopLock(q, here) \/ StopJoin(q, here, next)
         \/ \E q \in Queue, here, next \in Place : IsFree(q, here, next) /\ Free(q, here, next)
<1>1. "receive" \in Queue /\ "send" \in Queue
  BY DEF Queue
<1>2. /\ "stopRequests" \in Place /\ "stopLoop" \in Place /\ "releaseSend" \in Place
      /\ "freeSend" \in Place /\ "stopReceive" \in Place /\ "freeReceive" \in Place
      /\ "over" \in Place
  BY DEF Place
<1>3. /\ IsStop("receive", "stopRequests", "stopLoop") /\ IsStop("send", "releaseSend", "freeSend")
      /\ IsStop("receive", "stopReceive", "freeReceive")
      /\ IsFree("send", "freeSend", "stopReceive") /\ IsFree("receive", "freeReceive", "over")
  BY DEF IsStop, IsFree
<1>4. CASE SchReceiverQueueThreadLoop \/ SendQueueThreadLoop
  BY <1>1, <1>4 DEF SchReceiverQueueThreadLoop, SendQueueThreadLoop, FetchSCHReceiverPacket,
     FetchSendPacket
<1>5. CASE StopProcessingRequests
  BY <1>1, <1>2, <1>3, <1>5 DEF StopProcessingRequests, Stop
<1>6. CASE ReleaseSendQueue
  BY <1>1, <1>2, <1>3, <1>6 DEF ReleaseSendQueue, Stop
<1>7. CASE ReleaseServerConnectionHandler
  BY <1>1, <1>2, <1>3, <1>7 DEF ReleaseServerConnectionHandler, Stop
<1> QED
  BY <1>4, <1>5, <1>6, <1>7 DEF Next, Close, DoCleanup

\* A thread without a packet has a state of its type.
LEMMA AtType ==
  ASSUME NEW n \in Nat, NEW at \in HandlerStep
  PROVE  At(at) \in [at : HandlerStep, packet : 0 .. n] /\ At(at).at = at /\ At(at).packet = 0
BY DEF At

LEMMA ClosingType ==
  ASSUME NEW at \in Place, NEW stop \in StopStep
  PROVE  /\ Closing(at, stop) \in [at : Place, stop : StopStep]
         /\ Closing(at, stop).at = at /\ Closing(at, stop).stop = stop
BY DEF Closing

\* A queue of packets is also one when more packets were received.
LEMMA QueuesGrow ==
  ASSUME TypeOK, received' = received + 1
  PROVE  /\ \A q \in Queue : packets[q] \in Seq(1 .. received')
         /\ sent \in Seq(1 .. received') /\ dropped \subseteq 1 .. received'
         /\ handler \in [Queue -> [at : HandlerStep, packet : 0 .. received']]
<1>1. received \in Nat /\ 1 .. received \subseteq 1 .. received' /\ 0 .. received \subseteq 0 .. received'
  BY DEF TypeOK
<1>2. sent \in Seq(1 .. received) /\ \A q \in Queue : packets[q] \in Seq(1 .. received)
  BY DEF TypeOK
<1>3. sent \in Seq(1 .. received') /\ \A q \in Queue : packets[q] \in Seq(1 .. received')
  BY <1>1, <1>2, SeqMonotonic
<1>4. dropped \subseteq 1 .. received'
  BY <1>1 DEF TypeOK
<1>5. handler \in [Queue -> [at : HandlerStep, packet : 0 .. received']]
  BY <1>1 DEF TypeOK
<1> QED
  BY <1>3, <1>4, <1>5

LEMMA EndInit == Init => EndInv
<1> SUFFICES ASSUME Init PROVE EndInv
  OBVIOUS
<1> USE DEF Init
<1>1. At("test") \in [at : HandlerStep, packet : 0 .. received] /\ At("test").packet = 0
      /\ At("test").at = "test"
  BY DEF At, HandlerStep
<1>2. closing \in [at : Place, stop : StopStep] /\ closing.at = "serving"
  BY DEF Closing, Place, StopStep
<1>3. sent \in Seq(1 .. received) /\ packets \in [Queue -> Seq(1 .. received)]
  OBVIOUS
<1>4. running \in [Queue -> BOOLEAN] /\ crashed \in BOOLEAN
  OBVIOUS
<1>5. TypeOK
  BY <1>1, <1>2, <1>3, <1>4 DEF TypeOK
<1>6. PlaceTells /\ RequestedOrder /\ NothingDroppedBefore
  BY <1>2 DEF PlaceTells, RequestedOrder, NothingDroppedBefore, Queue
<1> QED
  BY <1>5, <1>6 DEF EndInv

\* What a thread's own step leaves alone.
LEMMA HandlerMoves ==
  ASSUME TypeOK, NEW q \in Queue, NEW h \in [at : HandlerStep, packet : 0 .. received],
         h.packet # 0 <=> h.at \in {"busy", "add"},
         handler' = [handler EXCEPT ![q] = h], received' = received
  PROVE  /\ handler' \in [Queue -> [at : HandlerStep, packet : 0 .. received']]
         /\ \A p \in Queue : handler'[p].packet # 0 <=> handler'[p].at \in {"busy", "add"}
BY DEF TypeOK

LEMMA TestRunningKeeps == ASSUME EndInv, NEW q \in Queue, TestRunning(q) PROVE EndInv'
<1> USE DEF EndInv
<1> DEFINE at == IF running[q] THEN "lock" ELSE "done"
<1>1. At(at) \in [at : HandlerStep, packet : 0 .. received] /\ At(at).at = at /\ At(at).packet = 0
  BY AtType DEF TypeOK, HandlerStep
<1>2. handler' = [handler EXCEPT ![q] = At(at)] /\ handler[q].at = "test"
      /\ UNCHANGED <<received, packets, running, closing, ending, joins, freed, sent, dropped, crashed>>
  BY DEF TestRunning
<1>3. /\ handler' \in [Queue -> [at : HandlerStep, packet : 0 .. received']]
      /\ \A p \in Queue : handler'[p].packet # 0 <=> handler'[p].at \in {"busy", "add"}
  BY <1>1, <1>2, HandlerMoves
<1>4. TypeOK'
  BY <1>2, <1>3 DEF TypeOK
<1>5. handler["receive"].at = "done" => handler'["receive"] = handler["receive"]
  BY <1>2 DEF TypeOK, Queue
<1> QED
  BY <1>2, <1>4, <1>5 DEF PlaceTells, RequestedOrder, NothingDroppedBefore

LEMMA FetchKeeps == ASSUME EndInv, NEW q \in Queue, Fetch(q) PROVE EndInv'
<1> USE DEF EndInv
<1> DEFINE H == [at : HandlerStep, packet : 0 .. received]
<1>1. handler[q].at = "lock"
      /\ UNCHANGED <<received, running, closing, ending, joins, freed, sent, dropped, crashed>>
  BY DEF Fetch
<1>2. packets[q] \in Seq(1 .. received) /\ received \in Nat
  BY DEF TypeOK
<1>3. /\ packets' \in [Queue -> Seq(1 .. received)]
      /\ \A p \in Queue : packets[p] = <<>> => packets'[p] = <<>>
      /\ \E h \in H : /\ h.packet # 0 <=> h.at \in {"busy", "add"}
                      /\ handler' = [handler EXCEPT ![q] = h]
  <2>1. CASE ~running[q] \/ packets[q] = <<>>
    <3>1. packets' = packets
          /\ handler' = [handler EXCEPT ![q] = At(IF running[q] THEN "wait" ELSE "test")]
      BY <2>1 DEF Fetch
    <3>2. At(IF running[q] THEN "wait" ELSE "test") \in H
          /\ At(IF running[q] THEN "wait" ELSE "test").packet = 0
          /\ At(IF running[q] THEN "wait" ELSE "test").at \in {"wait", "test"}
      BY <1>2, AtType DEF HandlerStep
    <3> QED
      BY <3>1, <3>2 DEF TypeOK
  <2>2. CASE running[q] /\ packets[q] # <<>>
    <3>1. /\ handler' = [handler EXCEPT ![q] = [at |-> "busy", packet |-> Head(packets[q])]]
          /\ packets' = [packets EXCEPT ![q] = Tail(packets[q])]
      BY <2>2 DEF Fetch
    <3>2. Head(packets[q]) \in 1 .. received /\ Tail(packets[q]) \in Seq(1 .. received)
      BY <1>2, <2>2, HeadTailProperties
    <3>3. [at |-> "busy", packet |-> Head(packets[q])] \in H /\ Head(packets[q]) # 0
      BY <1>2, <3>2 DEF HandlerStep
    <3>4. packets' \in [Queue -> Seq(1 .. received)]
      BY <3>1, <3>2 DEF TypeOK
    <3>5. \A p \in Queue : packets[p] = <<>> => packets'[p] = <<>>
      BY <2>2, <3>1 DEF TypeOK
    <3> QED
      BY <3>1, <3>3, <3>4, <3>5
  <2> QED
    BY <2>1, <2>2
<1>4. /\ handler' \in [Queue -> [at : HandlerStep, packet : 0 .. received']]
      /\ \A p \in Queue : handler'[p].packet # 0 <=> handler'[p].at \in {"busy", "add"}
  BY <1>1, <1>3, HandlerMoves
<1>5. TypeOK'
  BY <1>1, <1>3, <1>4 DEF TypeOK
<1>6. handler["receive"].at = "done" => handler'["receive"] = handler["receive"]
  BY <1>1, <1>3 DEF TypeOK, Queue
<1> QED
  BY <1>1, <1>3, <1>5, <1>6 DEF PlaceTells, RequestedOrder, NothingDroppedBefore, Queue

LEMMA WakeUpKeeps == ASSUME EndInv, NEW q \in Queue, WakeUp(q) PROVE EndInv'
<1> USE DEF EndInv
<1>1. At("lock") \in [at : HandlerStep, packet : 0 .. received]
      /\ At("lock").at = "lock" /\ At("lock").packet = 0
  BY AtType DEF TypeOK, HandlerStep
<1>2. handler' = [handler EXCEPT ![q] = At("lock")] /\ handler[q].at = "wait"
      /\ UNCHANGED <<received, packets, running, closing, ending, joins, freed, sent, dropped, crashed>>
  BY DEF WakeUp
<1>3. /\ handler' \in [Queue -> [at : HandlerStep, packet : 0 .. received']]
      /\ \A p \in Queue : handler'[p].packet # 0 <=> handler'[p].at \in {"busy", "add"}
  BY <1>1, <1>2, HandlerMoves
<1>4. TypeOK'
  BY <1>2, <1>3 DEF TypeOK
<1>5. handler["receive"].at = "done" => handler'["receive"] = handler["receive"]
  BY <1>2 DEF TypeOK, Queue
<1> QED
  BY <1>2, <1>4, <1>5 DEF PlaceTells, RequestedOrder, NothingDroppedBefore

\* A reader that adds to a stopped queue is cancelled before the queue is
\* stopped for the last time.
LEMMA ReceiveKeeps == ASSUME EndInv, AddToSCHReceiverQueue PROVE EndInv'
<1> USE DEF EndInv
<1>1. received' = received + 1 /\ received \in Nat
      /\ UNCHANGED <<running, handler, closing, ending, joins, freed, sent, dropped>>
  BY DEF AddToSCHReceiverQueue, TypeOK
<1>2. /\ \A q \in Queue : packets[q] \in Seq(1 .. received')
      /\ sent \in Seq(1 .. received') /\ dropped \subseteq 1 .. received'
      /\ handler \in [Queue -> [at : HandlerStep, packet : 0 .. received']]
  BY <1>1, QueuesGrow
<1>3. packets' = packets \/ packets' = [packets EXCEPT !["receive"] = Append(packets["receive"], received')]
  BY <1>1 DEF AddToSCHReceiverQueue
<1>4. crashed' \in BOOLEAN
  BY DEF AddToSCHReceiverQueue, TypeOK
<1>5. packets' \in [Queue -> Seq(1 .. received')]
  <2>1. Append(packets["receive"], received') \in Seq(1 .. received')
    <3>1. received' \in 1 .. received' /\ packets["receive"] \in Seq(1 .. received')
      BY <1>1, <1>2 DEF Queue
    <3> QED
      BY <3>1, AppendProperties
  <2> QED
    BY <1>2, <1>3, <2>1 DEF TypeOK
<1>6. TypeOK'
  BY <1>1, <1>2, <1>4, <1>5 DEF TypeOK
<1>7. packets'["send"] = packets["send"]
  BY <1>3 DEF TypeOK, Queue
<1>8. ending = "requested" => closing.at \in {"stopRequests", "stopLoop"}
  BY DEF AddToSCHReceiverQueue, ReadersAlive
<1> QED
  BY <1>1, <1>6, <1>7, <1>8 DEF PlaceTells, RequestedOrder, NothingDroppedBefore

\* After a request the receiver thread has ended when the send queue is released.
LEMMA AnswerKeeps == ASSUME EndInv, AnswerPacket PROVE EndInv'
<1> USE DEF EndInv
<1> DEFINE x == handler["receive"].packet
           H == [at : HandlerStep, packet : 0 .. received]
<1>1. handler["receive"].at = "busy"
      /\ UNCHANGED <<received, packets, running, closing, ending, joins, freed, sent, crashed>>
  BY DEF AnswerPacket
<1>2. x \in 1 .. received /\ received \in Nat /\ "receive" \in Queue
  BY <1>1 DEF TypeOK, Queue
<1>3. dropped' \subseteq 1 .. received /\ ("send" \notin freed => dropped' = dropped)
  BY <1>2 DEF AnswerPacket, TypeOK
<1>4. \E h \in H : /\ h.packet # 0 <=> h.at \in {"busy", "add"}
                   /\ handler' = [handler EXCEPT !["receive"] = h]
  <2>1. At("test") \in H /\ At("test").packet = 0 /\ At("test").at = "test"
    BY <1>2, AtType DEF HandlerStep
  <2>2. [at |-> "add", packet |-> x] \in H
    BY <1>2 DEF HandlerStep
  <2> QED
    BY <1>2, <2>1, <2>2 DEF AnswerPacket
<1>5. /\ handler' \in [Queue -> [at : HandlerStep, packet : 0 .. received']]
      /\ \A p \in Queue : handler'[p].packet # 0 <=> handler'[p].at \in {"busy", "add"}
  BY <1>1, <1>2, <1>4, HandlerMoves
<1>6. TypeOK'
  BY <1>1, <1>3, <1>5 DEF TypeOK
<1> QED
  BY <1>1, <1>3, <1>6 DEF PlaceTells, RequestedOrder, NothingDroppedBefore

LEMMA AddKeeps == ASSUME EndInv, AddToSendQueue PROVE EndInv'
<1> USE DEF EndInv
<1> DEFINE x == handler["receive"].packet
<1>1. handler["receive"].at = "add" /\ handler' = [handler EXCEPT !["receive"] = At("test")]
      /\ UNCHANGED <<received, running, closing, ending, joins, freed, sent, dropped>>
  BY DEF AddToSendQueue
<1>2. x \in 1 .. received /\ received \in Nat /\ "receive" \in Queue /\ "send" \in Queue
  BY <1>1 DEF TypeOK, Queue
<1>3. At("test") \in [at : HandlerStep, packet : 0 .. received] /\ At("test").packet = 0
      /\ At("test").at = "test"
  BY <1>2, AtType DEF HandlerStep
<1>4. /\ handler' \in [Queue -> [at : HandlerStep, packet : 0 .. received']]
      /\ \A p \in Queue : handler'[p].packet # 0 <=> handler'[p].at \in {"busy", "add"}
  BY <1>1, <1>2, <1>3, HandlerMoves
<1>5. packets' = packets \/ packets' = [packets EXCEPT !["send"] = Append(packets["send"], x)]
  BY DEF AddToSendQueue
<1>6. packets' \in [Queue -> Seq(1 .. received)] /\ packets'["receive"] = packets["receive"]
  <2>1. packets \in [Queue -> Seq(1 .. received)]
    BY DEF TypeOK
  <2>2. Append(packets["send"], x) \in Seq(1 .. received)
    BY <1>2, <2>1, AppendProperties
  <2> QED
    BY <1>2, <1>5, <2>1, <2>2
<1>7. crashed' \in BOOLEAN
  BY DEF AddToSendQueue, TypeOK
<1>8. TypeOK'
  BY <1>1, <1>4, <1>6, <1>7 DEF TypeOK
<1> QED
  BY <1>1, <1>6, <1>8 DEF PlaceTells, RequestedOrder, NothingDroppedBefore

LEMMA SendKeeps == ASSUME EndInv, SendPacket PROVE EndInv'
<1> USE DEF EndInv
<1> DEFINE x == handler["send"].packet
<1>1. handler["send"].at = "busy" /\ handler' = [handler EXCEPT !["send"] = At("test")]
      /\ sent' = Append(sent, x)
      /\ UNCHANGED <<received, packets, running, closing, ending, joins, freed, dropped, crashed>>
  BY DEF SendPacket
<1>2. x \in 1 .. received /\ received \in Nat /\ "send" \in Queue /\ sent \in Seq(1 .. received)
  BY <1>1 DEF TypeOK, Queue
<1>3. At("test") \in [at : HandlerStep, packet : 0 .. received] /\ At("test").packet = 0
      /\ At("test").at = "test"
  BY <1>2, AtType DEF HandlerStep
<1>4. /\ handler' \in [Queue -> [at : HandlerStep, packet : 0 .. received']]
      /\ \A p \in Queue : handler'[p].packet # 0 <=> handler'[p].at \in {"busy", "add"}
  BY <1>1, <1>2, <1>3, HandlerMoves
<1>5. sent' \in Seq(1 .. received)
  BY <1>1, <1>2, AppendProperties
<1>6. TypeOK'
  BY <1>1, <1>4, <1>5 DEF TypeOK
<1>7. handler'["receive"] = handler["receive"]
  BY <1>1 DEF TypeOK, Queue
<1> QED
  BY <1>1, <1>6, <1>7 DEF PlaceTells, RequestedOrder, NothingDroppedBefore

\* The ending thread moves on without touching a queue.
LEMMA BeginKeeps ==
  ASSUME EndInv, RequestShutdown \/ AcceptFails \/ StopServerLoop
  PROVE  EndInv'
<1> USE DEF EndInv
<1>1. UNCHANGED <<running, packets, joins, freed, crashed, received, handler, sent, dropped>>
  BY DEF RequestShutdown, AcceptFails, StopServerLoop, Unmoved
<1>2. CASE RequestShutdown
  <2>1. closing' \in [at : Place, stop : StopStep] /\ closing'.at = "stopRequests"
        /\ ending' = "requested" /\ closing.at = "serving"
    BY <1>2, ClosingType DEF RequestShutdown, Place, StopStep
  <2>2. ending = "no" /\ freed = {}
    BY <2>1 DEF PlaceTells, TypeOK, Queue
  <2>3. dropped = {}
    BY <2>2 DEF NothingDroppedBefore
  <2> QED
    BY <1>1, <2>1, <2>2, <2>3 DEF TypeOK, PlaceTells, RequestedOrder, NothingDroppedBefore
<1>3. CASE AcceptFails
  <2>1. closing' \in [at : Place, stop : StopStep] /\ closing'.at = "releaseSend"
        /\ ending' = "failed" /\ closing.at = "serving"
    BY <1>3, ClosingType DEF AcceptFails, Place, StopStep
  <2> QED
    BY <1>1, <2>1 DEF TypeOK, PlaceTells, RequestedOrder, NothingDroppedBefore, Queue
<1>4. CASE StopServerLoop
  <2>1. closing' \in [at : Place, stop : StopStep] /\ closing'.at = "releaseSend"
        /\ ending' = ending /\ closing.at = "stopLoop"
    BY <1>4, ClosingType DEF StopServerLoop, Place, StopStep
  <2> QED
    BY <1>1, <2>1 DEF TypeOK, PlaceTells, RequestedOrder, NothingDroppedBefore
<1> QED
  BY <1>2, <1>3, <1>4

LEMMA StopKeeps ==
  ASSUME EndInv, NEW q \in Queue, NEW here \in Place, NEW next \in Place, IsStop(q, here, next),
         StopSignal(q, here) \/ StopLock(q, here) \/ StopJoin(q, here, next)
  PROVE  EndInv'
<1> USE DEF EndInv
<1>1. UNCHANGED <<ending, freed, received, handler, sent, dropped>>
  BY DEF StopSignal, StopLock, StopJoin, Unmoved
<1>2. CASE StopSignal(q, here) \/ StopLock(q, here)
  <2>1. UNCHANGED <<packets, joins, crashed>> /\ running' \in [Queue -> BOOLEAN]
    BY <1>2 DEF StopSignal, StopLock, TypeOK
  <2>2. closing.at = here /\ closing'.at = here /\ closing' \in [at : Place, stop : StopStep]
    BY <1>2, ClosingType DEF StopSignal, StopLock, StopStep
  <2> QED
    BY <1>1, <2>1, <2>2 DEF TypeOK, PlaceTells, RequestedOrder, NothingDroppedBefore
<1>3. CASE StopJoin(q, here, next)
  <2>1. closing.at = here /\ closing'.at = next /\ closing' \in [at : Place, stop : StopStep]
    BY <1>3, ClosingType DEF StopJoin, StopStep
  <2>2. handler[q].at = "done" /\ running' = running /\ joins' = [joins EXCEPT ![q] = @ + 1]
        /\ packets' = [packets EXCEPT ![q] = <<>>]
    BY <1>3 DEF StopJoin
  <2>3. crashed' \in BOOLEAN
    BY <1>3 DEF StopJoin
  <2>4. <<>> \in Seq(1 .. received)
    OBVIOUS
  <2>5. packets' \in [Queue -> Seq(1 .. received)]
    BY <2>2, <2>4 DEF TypeOK
  <2>6. joins' \in [Queue -> 0 .. 2]
    <3>1. joins[q] \in 0 .. 1
      BY <2>1 DEF PlaceTells, TypeOK, Queue, IsStop
    <3> QED
      BY <2>2, <3>1 DEF TypeOK
  <2>7. TypeOK'
    BY <1>1, <2>1, <2>2, <2>3, <2>5, <2>6 DEF TypeOK
  <2>8. PlaceTells'
    <3>1. /\ joins'["send"] = IF q = "send" THEN joins["send"] + 1 ELSE joins["send"]
          /\ joins'["receive"] = IF q = "receive" THEN joins["receive"] + 1 ELSE joins["receive"]
          /\ joins["receive"] \in 0 .. 2
      BY <2>2 DEF TypeOK, Queue
    <3> QED
      BY <1>1, <2>1, <3>1 DEF PlaceTells, IsStop
  <2>9. RequestedOrder'
    <3>1. /\ packets'["send"] = IF q = "send" THEN <<>> ELSE packets["send"]
          /\ packets'["receive"] = IF q = "receive" THEN <<>> ELSE packets["receive"]
      BY <2>2 DEF TypeOK, Queue
    <3> QED
      BY <1>1, <2>1, <2>2, <3>1 DEF RequestedOrder, IsStop
  <2> QED
    BY <1>1, <2>7, <2>8, <2>9 DEF NothingDroppedBefore
<1> QED
  BY <1>2, <1>3

LEMMA FreeKeeps ==
  ASSUME EndInv, NEW q \in Queue, NEW here \in Place, NEW next \in Place, IsFree(q, here, next),
         Free(q, here, next)
  PROVE  EndInv'
<1> USE DEF EndInv
<1>1. UNCHANGED <<running, packets, ending, joins, crashed, received, handler, sent, dropped>>
      /\ freed' = freed \union {q}
  BY DEF Free, Unmoved
<1>2. closing.at = here /\ closing'.at = next /\ closing' \in [at : Place, stop : StopStep]
  BY ClosingType DEF Free, StopStep
<1> QED
  BY <1>1, <1>2 DEF TypeOK, PlaceTells, RequestedOrder, NothingDroppedBefore, IsFree

LEMMA EndNext == EndInv /\ [Next]_vars => EndInv'
<1> SUFFICES ASSUME EndInv, [Next]_vars PROVE EndInv'
  OBVIOUS
<1>1. CASE UNCHANGED vars
  BY <1>1 DEF vars, EndInv, TypeOK, PlaceTells, RequestedOrder, NothingDroppedBefore
<1>2. CASE Next
  <2>1. ASSUME NEW q \in Queue, TestRunning(q) \/ Fetch(q) \/ WakeUp(q) PROVE EndInv'
    BY <2>1, TestRunningKeeps, FetchKeeps, WakeUpKeeps
  <2>2. CASE AddToSCHReceiverQueue \/ AnswerPacket \/ AddToSendQueue \/ SendPacket
    BY <2>2, ReceiveKeeps, AnswerKeeps, AddKeeps, SendKeeps
  <2>3. CASE RequestShutdown \/ AcceptFails \/ StopServerLoop
    BY <2>3, BeginKeeps
  <2>4. ASSUME NEW q \in Queue, NEW here \in Place, NEW next \in Place, IsStop(q, here, next),
               StopSignal(q, here) \/ StopLock(q, here) \/ StopJoin(q, here, next)
        PROVE  EndInv'
    BY <2>4, StopKeeps
  <2>5. ASSUME NEW q \in Queue, NEW here \in Place, NEW next \in Place, IsFree(q, here, next),
               Free(q, here, next)
        PROVE  EndInv'
    BY <2>5, FreeKeeps
  <2> QED
    BY <1>2, <2>1, <2>2, <2>3, <2>4, <2>5, NextCases
<1> QED
  BY <1>1, <1>2

LEMMA EndInvariant == Spec => []EndInv
BY EndInit, EndNext, PTL DEF Spec

\* Packets, queues, threads and the ending thread keep their types; a queue's
\* thread is joined at most twice, whichever way the server ends.
THEOREM PacketQueuesTypes == Spec => []TypeOK
<1>1. EndInv => TypeOK
  BY DEF EndInv
<1> QED
  BY <1>1, EndInvariant, PTL

\* After a request for shutdown no answer meets a released send queue, and both
\* queues are empty when releaseSendQueue and releaseSCHReceiverQueue free them.
THEOREM RequestedEnd == Spec => []RequestedEndIsClean
<1>1. EndInv => RequestedEndIsClean
  <2> SUFFICES ASSUME EndInv, ending = "requested"
               PROVE  dropped = {} /\ \A q \in freed : packets[q] = <<>>
    BY DEF RequestedEndIsClean
  <2>1. \A q \in freed : q = "send" \/ q = "receive"
    BY DEF EndInv, TypeOK, Queue
  <2> QED
    BY <2>1 DEF EndInv, PlaceTells, RequestedOrder
<1> QED
  BY <1>1, EndInvariant, PTL

-----------------------------------------------------------------------------
(***************************************************************************)
(* Sequences of packets.                                                   *)
(***************************************************************************)
Increasing(s) == \A i, j \in DOMAIN s : i < j => s[i] < s[j]

\* Taking the head off and putting it in front again changes nothing.
LEMMA HeadThenTail ==
  ASSUME NEW s \in Seq(Nat), s # <<>>
  PROVE  /\ Head(s) \in Nat /\ Tail(s) \in Seq(Nat) /\ <<Head(s)>> \in Seq(Nat)
         /\ s = <<Head(s)>> \o Tail(s)
<1> DEFINE h == <<Head(s)>>
           t == Tail(s)
<1>1. Head(s) \in Nat /\ t \in Seq(Nat) /\ Len(t) = Len(s) - 1
      /\ \A i \in 1 .. Len(t) : t[i] = s[i + 1]
  BY HeadTailProperties
<1>2. Head(s) = s[1]
  OBVIOUS
<1>3. h \in Seq(Nat) /\ Len(h) = 1 /\ h[1] = s[1]
  BY <1>1, <1>2
<1> HIDE DEF h, t
<1>4. h \o t \in Seq(Nat) /\ Len(h \o t) = Len(h) + Len(t)
      /\ \A i \in 1 .. Len(h) + Len(t) : (h \o t)[i] = IF i <= Len(h) THEN h[i] ELSE t[i - Len(h)]
  <2>1. h \in Seq(Nat) /\ t \in Seq(Nat)
    BY <1>1, <1>3
  <2> QED
    BY <2>1, ConcatProperties
<1>5. Len(s) \in Nat /\ Len(t) \in Nat
  BY <1>1, LenProperties
<1>6. Len(h \o t) = Len(s)
  BY <1>1, <1>3, <1>4, <1>5
<1>7. ASSUME NEW i \in 1 .. Len(s) PROVE s[i] = (h \o t)[i]
  <2>1. (h \o t)[i] = IF i <= 1 THEN h[1] ELSE t[i - 1]
    BY <1>1, <1>3, <1>4, <1>5, <1>7
  <2>2. i > 1 => t[i - 1] = s[i]
    BY <1>1, <1>5, <1>7
  <2> QED
    BY <1>3, <1>5, <1>7, <2>1, <2>2
<1>8. s = h \o t
  BY <1>4, <1>6, <1>7, SeqEqual
<1> QED
  BY <1>1, <1>3, <1>8 DEF h, t

\* Leaving out a part keeps the order of the rest.
LEMMA DropMiddle ==
  ASSUME NEW a \in Seq(Nat), NEW b \in Seq(Nat), NEW c \in Seq(Nat), Increasing((a \o b) \o c)
  PROVE  Increasing(a \o c)
<1> DEFINE p == (a \o b) \o c
           r == a \o c
           k == Len(a)
           m == Len(b)
           n == Len(c)
<1>1. k \in Nat /\ m \in Nat /\ n \in Nat
  BY LenProperties
<1>2. a \o b \in Seq(Nat) /\ Len(a \o b) = k + m
      /\ \A i \in 1 .. k + m : (a \o b)[i] = IF i <= k THEN a[i] ELSE b[i - k]
  BY ConcatProperties
<1>3. p \in Seq(Nat) /\ Len(p) = k + m + n
      /\ \A i \in 1 .. k + m + n : p[i] = IF i <= k + m THEN (a \o b)[i] ELSE c[i - (k + m)]
  BY <1>2, ConcatProperties
<1>4. r \in Seq(Nat) /\ Len(r) = k + n
      /\ \A i \in 1 .. k + n : r[i] = IF i <= k THEN a[i] ELSE c[i - k]
  BY ConcatProperties
<1>5. DOMAIN p = 1 .. k + m + n /\ DOMAIN r = 1 .. k + n
  BY <1>3, <1>4, LenProperties
<1>6. \A i, j \in 1 .. k + m + n : i < j => p[i] < p[j]
  BY <1>5 DEF Increasing
<1> HIDE DEF p, r, k, m, n
<1>7. ASSUME NEW i \in 1 .. k PROVE i \in 1 .. k + m + n /\ r[i] = p[i]
  <2>1. i \in 1 .. k + m /\ i \in 1 .. k + m + n /\ i \in 1 .. k + n /\ i <= k /\ i <= k + m
    BY <1>1
  <2>2. (a \o b)[i] = a[i]
    BY <1>2, <2>1
  <2>3. p[i] = (a \o b)[i]
    BY <1>3, <2>1
  <2>4. r[i] = a[i]
    BY <1>4, <2>1
  <2> QED
    BY <2>1, <2>2, <2>3, <2>4
<1>8. ASSUME NEW i \in k + 1 .. k + n PROVE i + m \in 1 .. k + m + n /\ r[i] = p[i + m]
  <2>1. i \in 1 .. k + n /\ ~(i <= k) /\ i + m \in 1 .. k + m + n /\ ~(i + m <= k + m)
        /\ (i + m) - (k + m) = i - k
    BY <1>1
  <2>2. r[i] = c[i - k]
    BY <1>4, <2>1
  <2>3. p[i + m] = c[(i + m) - (k + m)]
    BY <1>3, <2>1
  <2> QED
    BY <2>1, <2>2, <2>3
<1>9. ASSUME NEW i \in 1 .. k + n, NEW j \in 1 .. k + n, i < j PROVE r[i] < r[j]
  <2>1. CASE j <= k
    <3>1. i \in 1 .. k /\ j \in 1 .. k
      BY <1>1, <1>9, <2>1
    <3> QED
      BY <1>6, <1>7, <1>9, <3>1
  <2>2. CASE i > k
    <3>1. i \in k + 1 .. k + n /\ j \in k + 1 .. k + n /\ i + m < j + m
      BY <1>1, <1>9, <2>2
    <3> QED
      BY <1>6, <1>8, <3>1
  <2>3. CASE i <= k /\ j > k
    <3>1. i \in 1 .. k /\ j \in k + 1 .. k + n /\ i < j + m
      BY <1>1, <1>9, <2>3
    <3> QED
      BY <1>6, <1>7, <1>8, <3>1
  <2> QED
    BY <1>1, <1>9, <2>1, <2>2, <2>3
<1> QED
  BY <1>5, <1>9 DEF Increasing, r

\* A packet with a new number goes to the end.
LEMMA NewestLast ==
  ASSUME NEW n \in Nat, NEW s \in Seq(1 .. n), Increasing(s)
  PROVE  Increasing(Append(s, n + 1)) /\ Len(Append(s, n + 1)) = Len(s) + 1
<1> DEFINE t == Append(s, n + 1)
<1>1. 1 .. n \subseteq 1 .. (n + 1) /\ n + 1 \in 1 .. (n + 1)
  OBVIOUS
<1>2. s \in Seq(1 .. (n + 1))
  BY <1>1, SeqMonotonic
<1>3. t \in Seq(1 .. (n + 1)) /\ Len(t) = Len(s) + 1
      /\ (\A i \in 1 .. Len(s) : t[i] = s[i]) /\ t[Len(s) + 1] = n + 1
  BY <1>1, <1>2, AppendProperties
<1>4. Len(s) \in Nat /\ DOMAIN s = 1 .. Len(s) /\ DOMAIN t = 1 .. (Len(s) + 1)
  BY <1>3, LenProperties
<1>5. \A i \in 1 .. Len(s) : s[i] \in 1 .. n
  BY ElementOfSeq
<1> HIDE DEF t
<1>6. ASSUME NEW i \in DOMAIN t, NEW j \in DOMAIN t, i < j PROVE t[i] < t[j]
  <2>1. i \in 1 .. Len(s) /\ t[i] = s[i]
    BY <1>3, <1>4, <1>6
  <2>2. CASE j = Len(s) + 1
    BY <1>3, <1>5, <2>1, <2>2
  <2>3. CASE j # Len(s) + 1
    <3>1. j \in 1 .. Len(s) /\ t[j] = s[j]
      BY <1>3, <1>4, <1>6, <2>3
    <3> QED
      BY <1>4, <1>6, <2>1, <3>1 DEF Increasing
  <2> QED
    BY <2>2, <2>3
<1> QED
  BY <1>3, <1>6 DEF Increasing, t

\* A thread takes the first packet of its queue into its hands.
LEMMA TakeHead ==
  ASSUME NEW x \in Seq(Nat), NEW s \in Seq(Nat), s # <<>>
  PROVE  (x \o <<>>) \o s = (x \o <<Head(s)>>) \o Tail(s)
<1>1. /\ Tail(s) \in Seq(Nat) /\ <<Head(s)>> \in Seq(Nat)
      /\ s = <<Head(s)>> \o Tail(s)
  BY HeadThenTail
<1>2. x \o (<<Head(s)>> \o Tail(s)) = (x \o <<Head(s)>>) \o Tail(s)
  BY <1>1, ConcatAssociative
<1>3. x \o <<>> = x
  BY ConcatEmptySeq
<1> QED
  BY <1>1, <1>2, <1>3

\* A thread puts the packet in its hands at the end of the next queue.
LEMMA PutLast ==
  ASSUME NEW x \in Seq(Nat), NEW s \in Seq(Nat), NEW y \in Nat
  PROVE  /\ Append(s, y) \in Seq(Nat)
         /\ (x \o s) \o <<y>> = x \o Append(s, y)
         /\ (x \o s) \o <<y>> = (x \o Append(s, y)) \o <<>>
<1>1. <<y>> \in Seq(Nat)
  OBVIOUS
<1>2. Append(s, y) = s \o <<y>> /\ Append(s, y) \in Seq(Nat)
  BY AppendIsConcat, AppendProperties
<1>3. (x \o s) \o <<y>> = x \o (s \o <<y>>)
  BY <1>1, ConcatAssociative
<1>4. x \o Append(s, y) \in Seq(Nat)
  BY <1>2, ConcatProperties
<1>5. (x \o Append(s, y)) \o <<>> = x \o Append(s, y)
  BY <1>4, ConcatEmptySeq
<1> QED
  BY <1>2, <1>3, <1>5

-----------------------------------------------------------------------------
(***************************************************************************)
(* The pipeline.                                                           *)
(***************************************************************************)

\* The parts of the pipeline are sequences of packets.
LEMMA Parts ==
  ASSUME TypeOK
  PROVE  /\ received \in Nat
         /\ sent \in Seq(1 .. received) /\ sent \in Seq(Nat)
         /\ \A q \in Queue : /\ InHand(q) \in Seq(1 .. received) /\ InHand(q) \in Seq(Nat)
                             /\ packets[q] \in Seq(1 .. received) /\ packets[q] \in Seq(Nat)
<1>1. received \in Nat /\ 1 .. received \subseteq Nat
  BY DEF TypeOK
<1>2. sent \in Seq(1 .. received) /\ \A q \in Queue : packets[q] \in Seq(1 .. received)
  BY DEF TypeOK
<1>3. ASSUME NEW q \in Queue PROVE InHand(q) \in Seq(1 .. received)
  <2>1. handler[q].packet \in 0 .. received
    BY DEF TypeOK
  <2>2. CASE handler[q].packet = 0
    BY <2>2, EmptySeq DEF InHand
  <2>3. CASE handler[q].packet # 0
    <3>1. handler[q].packet \in 1 .. received
      BY <1>1, <2>1, <2>3
    <3>2. <<handler[q].packet>> \in Seq(1 .. received)
      BY <3>1
    <3> QED
      BY <2>3, <3>2 DEF InHand
  <2> QED
    BY <2>2, <2>3
<1> QED
  BY <1>1, <1>2, <1>3, SeqMonotonic

\* The parts up to each point are sequences of packets, too.
LEMMA Prefixes ==
  ASSUME TypeOK, NEW S, S = Nat \/ S = 1 .. received
  PROVE  /\ sent \o InHand("send") \in Seq(S)
         /\ sent \o InHand("send") \o packets["send"] \in Seq(S)
         /\ sent \o InHand("send") \o packets["send"] \o InHand("receive") \in Seq(S)
         /\ Pipeline \in Seq(S)
<1>1. /\ sent \in Seq(S)
      /\ InHand("send") \in Seq(S) /\ InHand("receive") \in Seq(S)
      /\ packets["send"] \in Seq(S) /\ packets["receive"] \in Seq(S)
  BY Parts DEF Queue
<1>2. sent \o InHand("send") \in Seq(S)
  BY <1>1, ConcatProperties
<1>3. sent \o InHand("send") \o packets["send"] \in Seq(S)
  BY <1>1, <1>2, ConcatProperties
<1>4. sent \o InHand("send") \o packets["send"] \o InHand("receive") \in Seq(S)
  BY <1>1, <1>3, ConcatProperties
<1>5. Pipeline \in Seq(S)
  BY <1>1, <1>4, ConcatProperties DEF Pipeline
<1> QED
  BY <1>2, <1>3, <1>4, <1>5

LEMMA FifoInit == Init => PipelineIsFifo
<1> SUFFICES ASSUME Init PROVE PipelineIsFifo
  OBVIOUS
<1>1. sent = <<>> /\ InHand("send") = <<>> /\ InHand("receive") = <<>>
      /\ packets["send"] = <<>> /\ packets["receive"] = <<>> /\ received = 0
  BY DEF Init, InHand, At, Queue
<1>2. <<>> \o <<>> = <<>>
  BY ConcatEmptySeq, EmptySeq
<1>3. Pipeline = <<>>
  BY <1>1, <1>2 DEF Pipeline
<1>4. Len(<<>>) = 0 /\ DOMAIN <<>> = {}
  OBVIOUS
<1> QED
  BY <1>1, <1>3, <1>4 DEF PipelineIsFifo

\* A step that hands a packet on leaves the pipeline as it is.
LEMMA HandedOn ==
  ASSUME PipelineIsFifo, Pipeline' = Pipeline, received' = received, ending' = ending
  PROVE  PipelineIsFifo'
<1> HIDE DEF Pipeline
<1> QED
  BY DEF PipelineIsFifo

LEMMA FetchFifo ==
  ASSUME TypeOK, PipelineIsFifo, NEW q \in Queue, Fetch(q)
  PROVE  PipelineIsFifo'
<1> DEFINE a == sent
           b == InHand("send")
           c == packets["send"]
           d == InHand("receive")
           e == packets["receive"]
<1>1. handler[q].packet = 0 /\ InHand(q) = <<>> /\ UNCHANGED <<received, sent, ending>>
  BY DEF Fetch, TypeOK, InHand
<1>2. CASE ~running[q] \/ packets[q] = <<>>
  <2>1. packets' = packets
        /\ handler' = [handler EXCEPT ![q] = At(IF running[q] THEN "wait" ELSE "test")]
    BY <1>2 DEF Fetch
  <2>2. \A p \in Queue : handler'[p].packet = handler[p].packet
    BY <1>1, <2>1 DEF At, TypeOK
  <2>3. InHand("send")' = b /\ InHand("receive")' = d
    BY <2>2 DEF InHand, Queue
  <2>4. Pipeline' = Pipeline
    BY <1>1, <2>1, <2>3 DEF Pipeline
  <2> QED
    BY <1>1, <2>4, HandedOn
<1>3. CASE running[q] /\ packets[q] # <<>>
  <2>1. /\ handler' = [handler EXCEPT ![q] = [at |-> "busy", packet |-> Head(packets[q])]]
        /\ packets' = [packets EXCEPT ![q] = Tail(packets[q])]
    BY <1>3 DEF Fetch
  <2>2. Head(packets[q]) \in 1 .. received
    BY <1>3, Parts, HeadTailProperties
  <2>3. /\ InHand(q)' = <<Head(packets[q])>> /\ packets'[q] = Tail(packets[q])
        /\ \A p \in Queue : p # q => InHand(p)' = InHand(p) /\ packets'[p] = packets[p]
    <3>1. handler'[q].packet = Head(packets[q]) /\ Head(packets[q]) # 0
      BY <2>1, <2>2, Parts DEF TypeOK
    <3>2. \A p \in Queue : p # q => handler'[p] = handler[p] /\ packets'[p] = packets[p]
      BY <2>1 DEF TypeOK
    <3>3. packets'[q] = Tail(packets[q])
      BY <2>1 DEF TypeOK
    <3> QED
      BY <3>1, <3>2, <3>3 DEF InHand
  <2>4. a \in Seq(Nat) /\ (a \o b) \o c \in Seq(Nat) /\ c \in Seq(Nat) /\ e \in Seq(Nat)
    BY Parts, Prefixes DEF Queue
  <2>5. CASE q = "send"
    <3>1. InHand("send")' = <<Head(c)>> /\ packets'["send"] = Tail(c) /\ b = <<>> /\ c # <<>>
          /\ InHand("receive")' = d /\ packets'["receive"] = e
      BY <1>1, <1>3, <2>3, <2>5 DEF Queue
    <3>2. (a \o <<>>) \o c = (a \o <<Head(c)>>) \o Tail(c)
      BY <2>4, <3>1, TakeHead
    <3>3. Pipeline' = Pipeline
      BY <1>1, <3>1, <3>2 DEF Pipeline
    <3> QED
      BY <1>1, <3>3, HandedOn
  <2>6. CASE q = "receive"
    <3>1. InHand("receive")' = <<Head(e)>> /\ packets'["receive"] = Tail(e) /\ d = <<>> /\ e # <<>>
          /\ InHand("send")' = b /\ packets'["send"] = c
      BY <1>1, <1>3, <2>3, <2>6 DEF Queue
    <3>2. (((a \o b) \o c) \o <<>>) \o e = (((a \o b) \o c) \o <<Head(e)>>) \o Tail(e)
      BY <2>4, <3>1, TakeHead
    <3>3. Pipeline' = Pipeline
      BY <1>1, <3>1, <3>2 DEF Pipeline
    <3> QED
      BY <1>1, <3>3, HandedOn
  <2> QED
    BY <2>5, <2>6 DEF Queue
<1> QED
  BY <1>2, <1>3

\* A received packet is the newest and goes to the end; if the queue is already
\* released, the server is ending.
LEMMA ReceiveFifo ==
  ASSUME EndInv, PipelineIsFifo, AddToSCHReceiverQueue
  PROVE  PipelineIsFifo'
<1> DEFINE z == sent \o InHand("send") \o packets["send"] \o InHand("receive")
           e == packets["receive"]
           y == received + 1
<1>1. TypeOK /\ received' = y /\ received \in Nat /\ UNCHANGED <<handler, ending, sent>>
  BY DEF AddToSCHReceiverQueue, EndInv, TypeOK
<1>2. InHand("send")' = InHand("send") /\ InHand("receive")' = InHand("receive")
  BY <1>1 DEF InHand
<1>3. CASE "receive" \in freed
  <2>1. ending # "no" /\ packets' = packets
    BY <1>3 DEF EndInv, PlaceTells, AddToSCHReceiverQueue
  <2>2. Pipeline' = Pipeline
    BY <1>1, <1>2, <2>1 DEF Pipeline
  <2> HIDE DEF Pipeline
  <2> QED
    BY <1>1, <2>1, <2>2 DEF PipelineIsFifo
<1>4. CASE "receive" \notin freed
  <2>1. packets' = [packets EXCEPT !["receive"] = Append(e, y)]
    BY <1>4 DEF AddToSCHReceiverQueue
  <2>2. packets'["receive"] = Append(e, y) /\ packets'["send"] = packets["send"]
    BY <1>1, <2>1 DEF TypeOK, Queue
  <2>3. z \in Seq(Nat) /\ e \in Seq(Nat) /\ y \in Nat /\ Pipeline = z \o e
    BY <1>1, Prefixes, Parts DEF Queue, Pipeline
  <2>4. Pipeline' = z \o Append(e, y)
    BY <1>1, <1>2, <2>2 DEF Pipeline
  <2> HIDE DEF z, e
  <2>5. Pipeline \in Seq(Nat) /\ Pipeline' = Pipeline \o <<y>>
    BY <1>1, <2>3, <2>4, PutLast, Prefixes
  <2>6. Pipeline' = Append(Pipeline, y)
    BY <2>3, <2>5, AppendIsConcat
  <2>7. Pipeline \in Seq(1 .. received) /\ Increasing(Pipeline)
    BY <1>1, Prefixes DEF PipelineIsFifo, Increasing
  <2> HIDE DEF Pipeline
  <2>8. Increasing(Pipeline') /\ Len(Pipeline') = Len(Pipeline) + 1
    BY <1>1, <2>6, <2>7, NewestLast
  <2> QED
    BY <1>1, <2>8 DEF PipelineIsFifo, Increasing
<1> QED
  BY <1>3, <1>4

\* The packet in the receiver thread's hands is left out of the pipeline.
LEMMA DroppedFromHand ==
  ASSUME TypeOK, PipelineIsFifo, ending' # "no",
         UNCHANGED <<sent, packets>>, InHand("send")' = InHand("send"), InHand("receive")' = <<>>
  PROVE  PipelineIsFifo'
<1> DEFINE x == sent \o InHand("send") \o packets["send"]
           d == InHand("receive")
           e == packets["receive"]
<1>1. x \in Seq(Nat) /\ d \in Seq(Nat) /\ e \in Seq(Nat) /\ Pipeline = (x \o d) \o e
  BY Prefixes, Parts DEF Queue, Pipeline
<1>2. Pipeline' = (x \o <<>>) \o e
  BY DEF Pipeline
<1>3. Increasing(Pipeline)
  BY DEF PipelineIsFifo, Increasing
<1> HIDE DEF x, d, e, Pipeline
<1>4. x \o <<>> = x
  BY <1>1, ConcatEmptySeq
<1>5. Increasing(x \o e)
  BY <1>1, <1>3, DropMiddle
<1>6. Increasing(Pipeline')
  BY <1>2, <1>4, <1>5
<1> QED
  BY <1>6 DEF PipelineIsFifo, Increasing

LEMMA AnswerFifo ==
  ASSUME EndInv, PipelineIsFifo, AnswerPacket
  PROVE  PipelineIsFifo'
<1>1. TypeOK /\ UNCHANGED <<received, packets, sent, ending>> /\ handler["receive"].at = "busy"
  BY DEF EndInv, AnswerPacket
<1>2. CASE "send" \in freed
  <2>1. handler' = [handler EXCEPT !["receive"] = At("test")] /\ ending # "no"
    BY <1>2 DEF AnswerPacket, EndInv, PlaceTells
  <2>2. handler'["receive"].packet = 0 /\ handler'["send"] = handler["send"]
    BY <1>1, <2>1 DEF TypeOK, Queue, At
  <2>3. InHand("send")' = InHand("send") /\ InHand("receive")' = <<>>
    BY <2>2 DEF InHand
  <2> QED
    BY <1>1, <2>1, <2>3, DroppedFromHand
<1>3. CASE "send" \notin freed
  <2>1. handler' = [handler EXCEPT !["receive"] =
                      [at |-> "add", packet |-> handler["receive"].packet]]
    BY <1>3 DEF AnswerPacket
  <2>2. \A q \in Queue : handler'[q].packet = handler[q].packet
    BY <1>1, <2>1 DEF TypeOK, Queue
  <2>3. InHand("send")' = InHand("send") /\ InHand("receive")' = InHand("receive")
    BY <2>2 DEF InHand, Queue
  <2>4. Pipeline' = Pipeline
    BY <1>1, <2>3 DEF Pipeline
  <2> QED
    BY <1>1, <2>4, HandedOn
<1> QED
  BY <1>2, <1>3

LEMMA AddFifo ==
  ASSUME EndInv, PipelineIsFifo, AddToSendQueue
  PROVE  PipelineIsFifo'
<1> DEFINE w == sent \o InHand("send")
           c == packets["send"]
           y == handler["receive"].packet
<1>1. TypeOK /\ UNCHANGED <<received, sent, ending>>
      /\ handler' = [handler EXCEPT !["receive"] = At("test")]
  BY DEF EndInv, AddToSendQueue
<1>2. y \in Nat /\ y # 0
  BY <1>1 DEF AddToSendQueue, TypeOK, Queue
<1>3. handler'["receive"].packet = 0 /\ handler'["send"] = handler["send"]
  BY <1>1 DEF TypeOK, Queue, At
<1>4. InHand("send")' = InHand("send") /\ InHand("receive")' = <<>> /\ InHand("receive") = <<y>>
  BY <1>2, <1>3 DEF InHand
<1>5. CASE "send" \in freed
  <2>1. packets' = packets /\ ending # "no"
    BY <1>5 DEF AddToSendQueue, EndInv, PlaceTells
  <2> QED
    BY <1>1, <1>4, <2>1, DroppedFromHand
<1>6. CASE "send" \notin freed
  <2>1. packets'["send"] = Append(c, y) /\ packets'["receive"] = packets["receive"]
    BY <1>1, <1>6 DEF AddToSendQueue, TypeOK, Queue
  <2>2. w \in Seq(Nat) /\ c \in Seq(Nat)
    BY <1>1, Prefixes, Parts DEF Queue
  <2>3. (w \o c) \o <<y>> = (w \o Append(c, y)) \o <<>>
    BY <1>2, <2>2, PutLast
  <2>4. Pipeline' = Pipeline
    BY <1>1, <1>4, <2>1, <2>3 DEF Pipeline
  <2> QED
    BY <1>1, <2>4, HandedOn
<1> QED
  BY <1>5, <1>6

LEMMA SendFifo ==
  ASSUME TypeOK, PipelineIsFifo, SendPacket
  PROVE  PipelineIsFifo'
<1> DEFINE y == handler["send"].packet
<1>1. UNCHANGED <<received, packets, ending>> /\ sent' = Append(sent, y)
      /\ handler' = [handler EXCEPT !["send"] = At("test")]
  BY DEF SendPacket
<1>2. y \in Nat /\ y # 0
  BY DEF SendPacket, TypeOK, Queue
<1>3. handler'["send"].packet = 0 /\ handler'["receive"] = handler["receive"]
  BY <1>1 DEF TypeOK, Queue, At
<1>4. InHand("receive")' = InHand("receive") /\ InHand("send")' = <<>> /\ InHand("send") = <<y>>
  BY <1>2, <1>3 DEF InHand
<1>5. sent \in Seq(Nat)
  BY Parts
<1>6. Append(sent, y) \in Seq(Nat) /\ Append(sent, y) = sent \o <<y>>
  BY <1>2, <1>5, AppendIsConcat, AppendProperties
<1>7. Append(sent, y) \o <<>> = sent \o <<y>>
  BY <1>6, ConcatEmptySeq
<1>8. Pipeline' = Pipeline
  BY <1>1, <1>4, <1>7 DEF Pipeline
<1> QED
  BY <1>1, <1>8, HandedOn

\* A stop throws away what is left in the queue.
LEMMA StopFifo ==
  ASSUME EndInv, PipelineIsFifo, NEW q \in Queue, NEW here \in Place, NEW next \in Place,
         IsStop(q, here, next), StopJoin(q, here, next)
  PROVE  PipelineIsFifo'
<1> DEFINE w == sent \o InHand("send")
           c == packets["send"]
           d == InHand("receive")
           e == packets["receive"]
<1>1. TypeOK /\ UNCHANGED <<received, handler, sent, ending>>
      /\ packets' = [packets EXCEPT ![q] = <<>>]
  BY DEF EndInv, StopJoin, Unmoved
<1>2. ending # "no"
  <2>1. closing.at = here
    BY ClosingType DEF StopJoin, StopStep
  <2> QED
    BY <2>1 DEF EndInv, PlaceTells, IsStop
<1>3. InHand("send")' = InHand("send") /\ InHand("receive")' = d
  BY <1>1 DEF InHand
<1>4. w \in Seq(Nat) /\ c \in Seq(Nat) /\ d \in Seq(Nat) /\ e \in Seq(Nat)
      /\ w \o c \in Seq(Nat) /\ (w \o c) \o d \in Seq(Nat) /\ Pipeline = ((w \o c) \o d) \o e
  BY <1>1, Prefixes, Parts DEF Queue, Pipeline
<1>5. Increasing(Pipeline) /\ <<>> \in Seq(Nat)
  BY DEF PipelineIsFifo, Increasing
<1>6. CASE q = "send"
  <2>1. packets'["send"] = <<>> /\ packets'["receive"] = e
    BY <1>1, <1>6 DEF TypeOK, Queue
  <2>2. Pipeline' = ((w \o <<>>) \o d) \o e
    BY <1>1, <1>3, <2>1 DEF Pipeline
  <2> HIDE DEF w, c, d, e, Pipeline
  <2>3. d \o e \in Seq(Nat) /\ ((w \o c) \o d) \o e = (w \o c) \o (d \o e)
        /\ (w \o d) \o e = w \o (d \o e) /\ w \o <<>> = w
    <3>1. w \in Seq(Nat) /\ d \in Seq(Nat) /\ e \in Seq(Nat) /\ w \o c \in Seq(Nat)
      BY <1>4
    <3>2. d \o e \in Seq(Nat)
      BY <3>1, ConcatProperties
    <3>3. ((w \o c) \o d) \o e = (w \o c) \o (d \o e)
      <4>1. PICK v \in Seq(Nat) : v = w \o c
        BY <3>1
      <4>2. (v \o d) \o e = v \o (d \o e)
        <5>1. v \in Seq(Nat) /\ d \in Seq(Nat) /\ e \in Seq(Nat)
          BY <3>1
        <5> QED
          BY <5>1, ConcatAssociative
      <4> QED
        BY <4>1, <4>2
    <3>4. (w \o d) \o e = w \o (d \o e)
      BY <3>1, ConcatAssociative
    <3>5. w \o <<>> = w
      BY <3>1, ConcatEmptySeq
    <3> QED
      BY <3>2, <3>3, <3>4, <3>5
  <2>4. Increasing(w \o (d \o e))
    BY <1>4, <1>5, <2>3, DropMiddle
  <2>5. Increasing(Pipeline')
    BY <2>2, <2>3, <2>4
  <2> QED
    BY <1>1, <1>2, <2>5 DEF PipelineIsFifo, Increasing
<1>7. CASE q = "receive"
  <2> DEFINE z == (w \o c) \o d
  <2>1. packets'["send"] = c /\ packets'["receive"] = <<>>
    BY <1>1, <1>7 DEF TypeOK, Queue
  <2>2. Pipeline' = z \o <<>>
    BY <1>1, <1>3, <2>1 DEF Pipeline
  <2>3. z \in Seq(Nat) /\ Pipeline = z \o e /\ Pipeline \in Seq(Nat)
    BY <1>1, <1>4, Prefixes
  <2> HIDE DEF z, w, c, d, e, Pipeline
  <2>4. Pipeline = (z \o e) \o <<>>
    BY <2>3, ConcatEmptySeq
  <2>5. Increasing(z \o <<>>)
    <3>1. z \in Seq(Nat) /\ e \in Seq(Nat) /\ <<>> \in Seq(Nat)
      BY <1>4, <1>5, <2>3
    <3>2. Increasing((z \o e) \o <<>>)
      BY <1>5, <2>4
    <3> QED
      BY <3>1, <3>2, DropMiddle
  <2>6. Increasing(Pipeline')
    BY <2>2, <2>5
  <2> QED
    BY <1>1, <1>2, <2>6 DEF PipelineIsFifo, Increasing
<1> QED
  BY <1>6, <1>7 DEF Queue

LEMMA FifoNext == EndInv /\ PipelineIsFifo /\ [Next]_vars => PipelineIsFifo'
<1> SUFFICES ASSUME EndInv, PipelineIsFifo, [Next]_vars PROVE PipelineIsFifo'
  OBVIOUS
<1>1. TypeOK
  BY DEF EndInv
\* Steps that move no packet.
<1>2. ASSUME UNCHANGED <<received, sent, packets>>, \A q \in Queue : handler'[q].packet = handler[q].packet,
             ending' = "no" => ending = "no"
      PROVE  PipelineIsFifo'
  <2>1. InHand("send")' = InHand("send") /\ InHand("receive")' = InHand("receive")
    BY <1>2 DEF InHand, Queue
  <2>2. Pipeline' = Pipeline
    BY <1>2, <2>1 DEF Pipeline
  <2> HIDE DEF Pipeline
  <2> QED
    BY <1>2, <2>2 DEF PipelineIsFifo
<1>3. CASE UNCHANGED vars
  BY <1>2, <1>3 DEF vars
<1>4. CASE Next
  <2>1. ASSUME NEW q \in Queue, TestRunning(q) \/ WakeUp(q) PROVE PipelineIsFifo'
    <3>1. handler[q].packet = 0 /\ UNCHANGED <<received, sent, packets, ending>>
      BY <1>1, <2>1 DEF TestRunning, WakeUp, TypeOK
    <3>2. \E at \in HandlerStep : handler' = [handler EXCEPT ![q] = At(at)]
      BY <2>1 DEF TestRunning, WakeUp, HandlerStep
    <3>3. \A p \in Queue : handler'[p].packet = handler[p].packet
      BY <1>1, <3>1, <3>2 DEF TypeOK, At
    <3> QED
      BY <1>2, <3>1, <3>3
  <2>2. ASSUME NEW q \in Queue, Fetch(q) PROVE PipelineIsFifo'
    BY <1>1, <2>2, FetchFifo
  <2>3. CASE AddToSCHReceiverQueue \/ AnswerPacket \/ AddToSendQueue \/ SendPacket
    BY <1>1, <2>3, ReceiveFifo, AnswerFifo, AddFifo, SendFifo
  <2>4. CASE RequestShutdown \/ AcceptFails \/ StopServerLoop
    BY <1>2, <2>4 DEF RequestShutdown, AcceptFails, StopServerLoop, Unmoved
  <2>5. ASSUME NEW q \in Queue, NEW here \in Place, NEW next \in Place, IsStop(q, here, next),
               StopSignal(q, here) \/ StopLock(q, here) \/ StopJoin(q, here, next)
        PROVE  PipelineIsFifo'
    <3>1. CASE StopSignal(q, here) \/ StopLock(q, here)
      BY <1>2, <3>1 DEF StopSignal, StopLock, Unmoved
    <3>2. CASE StopJoin(q, here, next)
      BY <2>5, <3>2, StopFifo
    <3> QED
      BY <2>5, <3>1, <3>2
  <2>6. ASSUME NEW q \in Queue, NEW here \in Place, NEW next \in Place, IsFree(q, here, next),
               Free(q, here, next)
        PROVE  PipelineIsFifo'
    BY <1>2, <2>6 DEF Free, Unmoved
  <2> QED
    BY <1>4, <2>1, <2>2, <2>3, <2>4, <2>5, <2>6, NextCases
<1> QED
  BY <1>3, <1>4

\* From the readers through the receiver queue, _handlePacket, the send queue and
\* its thread to the proxy no packet is repeated or overtaken, also while the
\* queues are stopped and released; none is lost as long as the server runs.
THEOREM PacketsStayInOrder == Spec => []PipelineIsFifo
<1>1. EndInv /\ PipelineIsFifo /\ [Next]_vars => (EndInv /\ PipelineIsFifo)'
  BY EndNext, FifoNext
<1>2. Init => EndInv /\ PipelineIsFifo
  BY EndInit, FifoInit
<1> QED
  BY <1>1, <1>2, PTL DEF Spec
=============================================================================
