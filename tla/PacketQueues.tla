---------------------------- MODULE PacketQueues ----------------------------
(***************************************************************************)
(* The two packet queues of the server, one behind the other: reader       *)
(* threads put received packets into the receiver queue, whose thread runs *)
(* _handlePacket and puts the answer into the send queue, whose thread     *)
(* sends it to the proxy.  The code of the two queues is the same, line by *)
(* line, so one set of operators describes both; the named actions below   *)
(* them stand for the functions of either file.  The packets are the       *)
(* requests that are answered through the send queue.                      *)
(*                                                                         *)
(* A function that holds a queue's mutex from beginning to end is one      *)
(* step.  stopSendQueue and stopSCHReceiverQueue are not: they lock the    *)
(* mutex twice and wait for the queue's thread while they hold it.  The    *)
(* condition wait has a timeout, so a thread leaves it at any time.        *)
(*                                                                         *)
(* The server ends in one of two ways.  A request (console or signal) runs *)
(* stopProcessingRequests, and the main thread then leaves its loop and    *)
(* runs doCleanup.  When accept() fails, the main thread runs doCleanup    *)
(* while everybody else goes on.                                           *)
(***************************************************************************)
EXTENDS Integers, Sequences

CONSTANTS
  MaxPackets,   \* bound on the number of packets received
  Endings       \* the ways in which the instance may end

ASSUME PipelineAssumption ==
  /\ MaxPackets \in Nat
  /\ Endings \subseteq {"requested", "failed"}

Queue == {"receive", "send"}

VARIABLES
  received,  \* the number of packets received; packets are numbered by it
  packets,   \* the packets in each queue
  running,   \* the flag of each queue
  handler,   \* each queue's thread and the packet it has in hand, zero if none
  closing,   \* the thread that ends the server: its function and its step there
  ending,    \* "no", or why the server ends
  joins,     \* how often each queue's thread was joined
  freed,     \* the queues whose memory is released
  sent,      \* the answers the proxy got, in order
  dropped,   \* history: the answers that were neither queued nor sent
  crashed    \* the process died of undefined behaviour

vars == <<received, packets, running, handler, closing, ending, joins, freed,
          sent, dropped, crashed>>

\* "test": before the test of running; "lock": before lockMutex of the fetch;
\* "wait": in the condition wait; "busy": with a packet; "add": in
\* addToSendQueue before its lockMutex.
HandlerStep == {"test", "lock", "wait", "busy", "add", "done"}

\* The functions in their order; doCleanup begins with "releaseSend".
Place == {"serving", "stopRequests", "stopLoop", "releaseSend", "freeSend",
          "stopReceive", "freeReceive", "over"}

\* The steps of a stop; in "joining" it holds the mutex.
StopStep == {"begin", "signalled", "joining"}

TypeOK ==
  /\ received \in Nat
  /\ packets \in [Queue -> Seq(1 .. received)]
  /\ running \in [Queue -> BOOLEAN]
  /\ handler \in [Queue -> [at : HandlerStep, packet : 0 .. received]]
  /\ \A q \in Queue : handler[q].packet # 0 <=> handler[q].at \in {"busy", "add"}
  /\ closing \in [at : Place, stop : StopStep]
  /\ ending \in {"no", "requested", "failed"}
  /\ joins \in [Queue -> 0 .. 2]
  /\ freed \subseteq Queue
  /\ sent \in Seq(1 .. received)
  /\ dropped \subseteq 1 .. received
  /\ crashed \in BOOLEAN

At(at) == [at |-> at, packet |-> 0]
Closing(at, stop) == [at |-> at, stop |-> stop]

\* Both queues are created and their threads started.
Init ==
  /\ received = 0
  /\ packets = [q \in Queue |-> <<>>]
  /\ running = [q \in Queue |-> TRUE]
  /\ handler = [q \in Queue |-> At("test")]
  /\ closing = Closing("serving", "begin")
  /\ ending = "no"
  /\ joins = [q \in Queue |-> 0]
  /\ freed = {}
  /\ sent = <<>>
  /\ dropped = {}
  /\ crashed = FALSE

-----------------------------------------------------------------------------
(***************************************************************************)
(* The thread of a queue.                                                  *)
(***************************************************************************)
\* The queue at which the ending thread is.
StoppedQueue == IF closing.at = "releaseSend" THEN "send" ELSE "receive"

MutexFree(q) == ~(closing.stop = "joining" /\ StoppedQueue = q)

\* while (queue->running)
TestRunning(q) ==
  /\ ~crashed
  /\ handler[q].at = "test"
  /\ handler' = [handler EXCEPT ![q] = At(IF running[q] THEN "lock" ELSE "done")]
  /\ UNCHANGED <<received, packets, running, closing, ending, joins, freed,
                 sent, dropped, crashed>>

\* Mutant: the last packet is taken first.
FetchLast(q) ==
  /\ ~crashed
  /\ handler[q].at = "lock"
  /\ MutexFree(q)
  /\ IF ~running[q] THEN handler' = [handler EXCEPT ![q] = At("test")] /\ UNCHANGED packets
     ELSE IF packets[q] = <<>>
     THEN handler' = [handler EXCEPT ![q] = At("wait")] /\ UNCHANGED packets
     ELSE /\ handler' = [handler EXCEPT ![q] =
               [at |-> "busy", packet |-> packets[q][Len(packets[q])]]]
          /\ packets' = [packets EXCEPT ![q] = SubSeq(packets[q], 1, Len(packets[q]) - 1)]
  /\ UNCHANGED <<received, running, closing, ending, joins, freed, sent, dropped, crashed>>

\* fetchSendPacket, fetchSCHReceiverPacket up to the return or the wait.
Fetch(q) ==
  /\ ~crashed
  /\ handler[q].at = "lock"
  /\ MutexFree(q)
  /\ IF ~running[q] THEN handler' = [handler EXCEPT ![q] = At("test")] /\ UNCHANGED packets
     ELSE IF packets[q] = <<>>
     THEN handler' = [handler EXCEPT ![q] = At("wait")] /\ UNCHANGED packets
     ELSE /\ handler' = [handler EXCEPT ![q] = [at |-> "busy", packet |-> Head(packets[q])]]
          /\ packets' = [packets EXCEPT ![q] = Tail(packets[q])]
  /\ UNCHANGED <<received, running, closing, ending, joins, freed, sent, dropped, crashed>>

\* Mutant: the wait has no timeout and addTo... does not signal.
WakeUpAtStop(q) ==
  /\ ~crashed
  /\ handler[q].at = "wait"
  /\ ~running[q]
  /\ handler' = [handler EXCEPT ![q] = At("lock")]
  /\ UNCHANGED <<received, packets, running, closing, ending, joins, freed,
                 sent, dropped, crashed>>

\* The condition wait ends, by a signal or its timeout, and locks the mutex.
WakeUp(q) ==
  /\ ~crashed
  /\ handler[q].at = "wait"
  /\ handler' = [handler EXCEPT ![q] = At("lock")]
  /\ UNCHANGED <<received, packets, running, closing, ending, joins, freed,
                 sent, dropped, crashed>>

FetchSCHReceiverPacket == Fetch("receive") \/ WakeUp("receive")
FetchSendPacket == Fetch("send") \/ WakeUp("send")

\* stopServerLoop cancels the readers; a failing accept() leaves them alone.
ReadersAlive ==
  ending = "requested" => closing.at \in {"stopRequests", "stopLoop"}

\* A reader thread: handlePacket with addToSCHReceiverQueue, which does not
\* look whether the queue is running.
AddToSCHReceiverQueue ==
  /\ ~crashed
  /\ received < MaxPackets
  /\ ReadersAlive
  /\ MutexFree("receive")
  /\ received' = received + 1
  /\ IF "receive" \in freed THEN crashed' = TRUE /\ UNCHANGED packets
     ELSE /\ packets' = [packets EXCEPT !["receive"] = Append(packets["receive"], received + 1)]
          /\ UNCHANGED crashed
  /\ UNCHANGED <<running, handler, closing, ending, joins, freed, sent, dropped>>

\* _handlePacket answers through __sendPacketToClient: once the send queue is
\* released, a warning is logged and the answer is dropped.
AnswerPacket ==
  /\ ~crashed
  /\ handler["receive"].at = "busy"
  /\ IF "send" \in freed
     THEN /\ handler' = [handler EXCEPT !["receive"] = At("test")]
          /\ dropped' = dropped \union {handler["receive"].packet}
     ELSE /\ handler' = [handler EXCEPT !["receive"] =
               [at |-> "add", packet |-> handler["receive"].packet]]
          /\ UNCHANGED dropped
  /\ UNCHANGED <<received, packets, running, closing, ending, joins, freed, sent, crashed>>

\* addToSendQueue, which does not look whether the queue is running.
AddToSendQueue ==
  /\ ~crashed
  /\ handler["receive"].at = "add"
  /\ MutexFree("send")
  /\ handler' = [handler EXCEPT !["receive"] = At("test")]
  /\ IF "send" \in freed THEN crashed' = TRUE /\ UNCHANGED packets
     ELSE /\ packets' = [packets EXCEPT !["send"] =
               Append(packets["send"], handler["receive"].packet)]
          /\ UNCHANGED crashed
  /\ UNCHANGED <<received, running, closing, ending, joins, freed, sent, dropped>>

\* Mutant: the packet stays in the thread's hands.
SendPacketKept ==
  /\ ~crashed
  /\ handler["send"].at = "busy"
  /\ sent' = Append(sent, handler["send"].packet)
  /\ handler' = [handler EXCEPT !["send"].at = "test"]
  /\ UNCHANGED <<received, packets, running, closing, ending, joins, freed, dropped, crashed>>

\* sendQueueThreadLoop with a packet.
SendPacket ==
  /\ ~crashed
  /\ handler["send"].at = "busy"
  /\ sent' = Append(sent, handler["send"].packet)
  /\ handler' = [handler EXCEPT !["send"] = At("test")]
  /\ UNCHANGED <<received, packets, running, closing, ending, joins, freed, dropped, crashed>>

SchReceiverQueueThreadLoop ==
  TestRunning("receive") \/ FetchSCHReceiverPacket \/ AnswerPacket \/ AddToSendQueue

SendQueueThreadLoop == TestRunning("send") \/ FetchSendPacket \/ SendPacket

-----------------------------------------------------------------------------
(***************************************************************************)
(* The end of the server.                                                  *)
(***************************************************************************)
Unmoved == <<received, handler, sent, dropped>>

\* Mutant: running is not reset.
StopSignalForgotten(q, here) ==
  /\ ~crashed
  /\ closing = Closing(here, "begin")
  /\ closing' = Closing(here, "signalled")
  /\ UNCHANGED <<running, packets, ending, joins, freed, crashed>>
  /\ UNCHANGED Unmoved

\* The first critical section of a stop.
StopSignal(q, here) ==
  /\ ~crashed
  /\ closing = Closing(here, "begin")
  /\ MutexFree(q)
  /\ closing' = Closing(here, "signalled")
  /\ running' = [running EXCEPT ![q] = FALSE]
  /\ UNCHANGED <<packets, ending, joins, freed, crashed>>
  /\ UNCHANGED Unmoved

\* After a sleep of two milliseconds the mutex is locked again, wherever the
\* queue's thread is by then.
StopLock(q, here) ==
  /\ ~crashed
  /\ closing = Closing(here, "signalled")
  /\ closing' = Closing(here, "joining")
  /\ UNCHANGED <<running, packets, ending, joins, freed, crashed>>
  /\ UNCHANGED Unmoved

\* pthread_join returns and the remaining packets are freed.  A second join of
\* the same thread is undefined: it returns an error or the process dies.
StopJoin(q, here, next) ==
  /\ ~crashed
  /\ closing = Closing(here, "joining")
  /\ handler[q].at = "done"
  /\ joins' = [joins EXCEPT ![q] = @ + 1]
  /\ closing' = Closing(next, "begin")
  /\ packets' = [packets EXCEPT ![q] = <<>>]
  /\ crashed' \in (IF joins[q] = 0 THEN {FALSE} ELSE BOOLEAN)
  /\ UNCHANGED <<running, ending, freed>>
  /\ UNCHANGED Unmoved

Stop(q, here, next) ==
  StopSignal(q, here) \/ StopLock(q, here) \/ StopJoin(q, here, next)

Free(q, here, next) ==
  /\ ~crashed
  /\ closing = Closing(here, "begin")
  /\ closing' = Closing(next, "begin")
  /\ freed' = freed \union {q}
  /\ UNCHANGED <<running, packets, ending, joins, crashed>>
  /\ UNCHANGED Unmoved

\* shutDown or signalReceived, up to stopProcessingRequests.
RequestShutdown ==
  /\ ~crashed
  /\ closing.at = "serving"
  /\ "requested" \in Endings
  /\ closing' = Closing("stopRequests", "begin")
  /\ ending' = "requested"
  /\ UNCHANGED <<running, packets, joins, freed, crashed>>
  /\ UNCHANGED Unmoved

\* accept() fails: runServerLoop and run return to main, which calls doCleanup.
AcceptFails ==
  /\ ~crashed
  /\ closing.at = "serving"
  /\ "failed" \in Endings
  /\ closing' = Closing("releaseSend", "begin")
  /\ ending' = "failed"
  /\ UNCHANGED <<running, packets, joins, freed, crashed>>
  /\ UNCHANGED Unmoved

\* Mutant: the receiver queue is not stopped.
StopProcessingRequestsOnlyLoop ==
  /\ ~crashed
  /\ closing.at = "stopRequests"
  /\ closing' = Closing("stopLoop", "begin")
  /\ UNCHANGED <<running, packets, ending, joins, freed, crashed>>
  /\ UNCHANGED Unmoved

StopProcessingRequests == Stop("receive", "stopRequests", "stopLoop")

StopServerLoop ==
  /\ ~crashed
  /\ closing.at = "stopLoop"
  /\ closing' = Closing("releaseSend", "begin")
  /\ UNCHANGED <<running, packets, ending, joins, freed, crashed>>
  /\ UNCHANGED Unmoved

ReleaseSendQueue ==
  Stop("send", "releaseSend", "freeSend") \/ Free("send", "freeSend", "stopReceive")

\* releaseServerConnectionHandler stops the receiver queue, again after a
\* request, and releases it.
ReleaseServerConnectionHandler ==
  \/ Stop("receive", "stopReceive", "freeReceive")
  \/ Free("receive", "freeReceive", "over")

DoCleanup == ReleaseSendQueue \/ ReleaseServerConnectionHandler

Close == StopProcessingRequests \/ StopServerLoop \/ DoCleanup

Next ==
  \/ AddToSCHReceiverQueue
  \/ SchReceiverQueueThreadLoop
  \/ SendQueueThreadLoop
  \/ RequestShutdown
  \/ AcceptFails
  \/ Close

Spec == Init /\ [][Next]_vars

\* The threads of the queues run, and the end of the server goes on once it
\* has begun.
FairSpec ==
  /\ Spec
  /\ WF_vars(SchReceiverQueueThreadLoop)
  /\ WF_vars(SendQueueThreadLoop)
  /\ WF_vars(Close)

-----------------------------------------------------------------------------
(***************************************************************************)
(* Properties.                                                             *)
(***************************************************************************)
InHand(q) == IF handler[q].packet = 0 THEN <<>> ELSE <<handler[q].packet>>

\* The answers sent, the packets in the threads' hands and the queues.
Pipeline ==
  sent \o InHand("send") \o packets["send"] \o InHand("receive") \o packets["receive"]

\* Between the readers and the proxy nothing is repeated or overtaken, also
\* while the server ends, and nothing is lost as long as it does not.
PipelineIsFifo ==
  /\ \A i, j \in DOMAIN Pipeline : i < j => Pipeline[i] < Pipeline[j]
  /\ ending = "no" => Len(Pipeline) = received

\* As long as the server runs, every packet is answered.
EveryPacketIsAnswered ==
  \A n \in 1 .. MaxPackets :
    received >= n ~> (ending # "no" \/ \E i \in DOMAIN sent : sent[i] = n)

\* A stop has reset the flag and waits, with the mutex in its hands, for a
\* thread that waits for the mutex: the sleep before the second lock was too
\* short for the thread to see the flag.
StopBlocksItself ==
  /\ closing.stop = "joining" /\ ~running[StoppedQueue]
  /\ handler[StoppedQueue].at \in {"lock", "wait"}

\* The end of the server comes to its own end, a crash in the second join
\* aside, unless a stop took the mutex while its thread was on the way to it:
\* whatever else the thread does at that moment (a packet in hand, an answer on
\* the way to the other queue, the test of the flag), the join returns.
ShutdownCompletes ==
  ending # "no" ~> (closing.at = "over" \/ crashed \/ StopBlocksItself)

\* Without that exception it does not hold (stopSendQueue,
\* stopSCHReceiverQueue).
ShutdownAlwaysCompletes == ending # "no" ~> (closing.at = "over" \/ crashed)

\* A requested end is clean: the receiver thread has ended before the send
\* queue is released, so no answer meets a released queue, and a queue that is
\* released is empty, also of the packets that readers added after its stop.
RequestedEndIsClean ==
  ending = "requested" =>
    /\ dropped = {}
    /\ \A q \in freed : packets[q] = <<>>
=============================================================================
