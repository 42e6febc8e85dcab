---------------------------- MODULE CommandQueue ----------------------------
(***************************************************************************)
(* The queue between the connection handler and the command handler:       *)
(* queueCommand appends, fetchNextCommand hands the item at a cursor       *)
(* (nextItemNode) to a worker but leaves it in the list, deleteCommand     *)
(* removes it once it is processed, removeAllCommands clears the list.     *)
(*                                                                         *)
(* The list only grows at its end, so it is modelled as the set of its     *)
(* nodes, numbered in the order in which they were appended; the node      *)
(* after n is the next larger number.  Numbers are never reused: a cursor  *)
(* that is not in the list points to freed memory.  Each function runs     *)
(* under cmdQueueMutex and is one action; fetchNextCommand is split at its *)
(* condition wait.  Failing allocations are not modelled.                  *)
(***************************************************************************)
EXTENDS Integers, FiniteSets

CONSTANTS
  Worker,       \* the command handler threads (NUM_COMMAND_HANDLER_THREADS)
  MayReject,    \* whether data of 1000000 bytes or more is submitted
  MayStop,      \* whether the instance includes stopProcessingCommands
  MaxCommands   \* bound on the number of commands ever submitted

ASSUME QueueAssumption ==
  /\ IsFiniteSet(Worker)
  /\ MayReject \in BOOLEAN
  /\ MayStop \in BOOLEAN
  /\ MaxCommands \in Nat

VARIABLES
  queue,             \* the nodes in the list
  nextItemNode,      \* the cursor, zero for NULL
  totalItems,
  unprocessedItems,
  consumed,          \* the items whose consumed flag is set
  shutdowns,         \* the items of type COMMAND_TYPE_SHUTDOWN
  worker,            \* what each worker does, and the item it holds
  phase,             \* progress of stopProcessingCommands and the release
  lastNode           \* number of nodes ever appended

vars == <<queue, nextItemNode, totalItems, unprocessedItems, consumed, shutdowns,
          worker, phase, lastNode>>

\* "fetch": about to lock the mutex; "wait": in the condition wait; "busy":
\* processing its item; "done": left the loop; "undefined": the program read or
\* freed memory it had freed before.
WorkerStep == {"fetch", "wait", "busy", "done", "undefined"}
WorkerState == [step : WorkerStep, item : Nat]

Phase == {"running", "cleared", "sent", "joined", "released"}

TypeOK ==
  /\ lastNode \in Nat
  /\ queue \subseteq 1 .. lastNode
  /\ nextItemNode \in 0 .. lastNode
  /\ totalItems \in Int
  /\ unprocessedItems \in Nat
  /\ consumed \subseteq 1 .. lastNode
  /\ shutdowns \subseteq 1 .. lastNode
  /\ worker \in [Worker -> WorkerState]
  /\ phase \in Phase

\* The unprocessed part of the queue.
Pending == queue \ consumed

Init ==
  /\ queue = {} /\ nextItemNode = 0
  /\ totalItems = 0 /\ unprocessedItems = 0
  /\ consumed = {} /\ shutdowns = {}
  /\ worker = [w \in Worker |-> [step |-> "fetch", item |-> 0]]
  /\ phase = "running"
  /\ lastNode = 0

-----------------------------------------------------------------------------
\* signalCond wakes one of the waiting workers, if there is one.
SignalCond ==
  LET waiting == {w \in Worker : worker[w].step = "wait"}
  IN  IF waiting = {}
      THEN UNCHANGED worker
      ELSE \E w \in waiting : worker' = [worker EXCEPT ![w] = [@ EXCEPT !.step = "fetch"]]

\* Mutant: the consumer is not notified.
QueueItemSilently(isShutdown) ==
  /\ lastNode' = lastNode + 1
  /\ queue' = queue \union {lastNode + 1}
  /\ nextItemNode' = IF nextItemNode = 0 THEN lastNode + 1 ELSE nextItemNode
  /\ totalItems' = totalItems + 1
  /\ unprocessedItems' = unprocessedItems + 1
  /\ shutdowns' = IF isShutdown THEN shutdowns \union {lastNode + 1} ELSE shutdowns
  /\ UNCHANGED <<worker, consumed>>

\* queueCommand, once alive and the data were checked.
QueueItem(isShutdown) ==
  /\ lastNode' = lastNode + 1
  /\ queue' = queue \union {lastNode + 1}
  /\ nextItemNode' = IF nextItemNode = 0 THEN lastNode + 1 ELSE nextItemNode
  /\ totalItems' = totalItems + 1
  /\ unprocessedItems' = unprocessedItems + 1
  /\ shutdowns' = IF isShutdown THEN shutdowns \union {lastNode + 1} ELSE shutdowns
  /\ SignalCond
  /\ UNCHANGED consumed

\* The receiver-queue thread submits a packet; after the release alive is false.
QueueCommand ==
  /\ phase # "released"
  /\ lastNode < MaxCommands
  /\ QueueItem(FALSE)
  /\ UNCHANGED phase

\* queueCommand with too much data: the new node is appended, becomes the
\* cursor if there was none, and is deleted from the list again.
RejectCommand ==
  /\ MayReject
  /\ phase # "released"
  /\ lastNode < MaxCommands
  /\ lastNode' = lastNode + 1
  /\ nextItemNode' = IF nextItemNode = 0 THEN lastNode + 1 ELSE nextItemNode
  /\ UNCHANGED <<queue, totalItems, unprocessedItems, consumed, shutdowns, worker,
                 phase>>

\* fetchNextCommand finds nothing to process.
Wait(w) ==
  /\ worker[w].step = "fetch"
  /\ unprocessedItems = 0
  /\ worker' = [worker EXCEPT ![w] = [@ EXCEPT !.step = "wait"]]
  /\ UNCHANGED <<queue, nextItemNode, totalItems, unprocessedItems, consumed,
                 shutdowns, phase, lastNode>>

\* getNextNodeOfSListNode
NextNode(n) ==
  LET later == {m \in queue : m > n}
  IN  IF later = {} THEN 0 ELSE CHOOSE m \in later : \A k \in later : m <= k

\* Mutant: the cursor is not advanced.
FetchNextCommandAgain(w) ==
  /\ worker[w].step = "fetch"
  /\ unprocessedItems > 0
  /\ nextItemNode \in queue
  /\ unprocessedItems' = unprocessedItems - 1
  /\ consumed' = consumed \union {nextItemNode}
  /\ worker' = [worker EXCEPT ![w] = [step |-> "busy", item |-> nextItemNode]]
  /\ UNCHANGED <<queue, nextItemNode, totalItems, shutdowns, phase, lastNode>>

\* Mutant: the cursor is advanced before the item is read.
FetchNextCommandAdvanced(w) ==
  /\ worker[w].step = "fetch"
  /\ unprocessedItems > 0
  /\ nextItemNode \in queue
  /\ unprocessedItems' = unprocessedItems - 1
  /\ consumed' = consumed \union {nextItemNode}
  /\ nextItemNode' = NextNode(nextItemNode)
  /\ worker' = [worker EXCEPT ![w] = [step |-> "busy", item |-> nextItemNode']]
  /\ UNCHANGED <<queue, totalItems, shutdowns, phase, lastNode>>

FetchNextCommand(w) ==
  /\ worker[w].step = "fetch"
  /\ unprocessedItems > 0
  /\ nextItemNode \in queue
  /\ unprocessedItems' = unprocessedItems - 1
  /\ consumed' = consumed \union {nextItemNode}
  /\ nextItemNode' = NextNode(nextItemNode)
  /\ worker' = [worker EXCEPT ![w] = [step |-> "busy", item |-> nextItemNode]]
  /\ UNCHANGED <<queue, totalItems, shutdowns, phase, lastNode>>

\* fetchNextCommand reads a node that was freed (or NULL).
FetchFreedNode(w) ==
  /\ worker[w].step = "fetch"
  /\ unprocessedItems > 0
  /\ nextItemNode \notin queue
  /\ worker' = [worker EXCEPT ![w] = [step |-> "undefined", item |-> 0]]
  /\ UNCHANGED <<queue, nextItemNode, totalItems, unprocessedItems, consumed,
                 shutdowns, phase, lastNode>>

AfterItem(n) == [step |-> IF n \in shutdowns THEN "done" ELSE "fetch", item |-> 0]

\* Mutant: the total is not decreased.
DeleteCommandUncounted(w) ==
  /\ worker[w].step = "busy"
  /\ queue' = queue \ {worker[w].item}
  /\ worker' = [worker EXCEPT ![w] = AfterItem(worker[w].item)]
  /\ UNCHANGED <<nextItemNode, totalItems, unprocessedItems, consumed, shutdowns, phase,
                 lastNode>>

\* Mutant: a processed item is counted once more.
DeleteCommandUnprocessed(w) ==
  /\ worker[w].step = "busy"
  /\ totalItems' = totalItems - 1
  /\ unprocessedItems' = unprocessedItems - 1
  /\ queue' = queue \ {worker[w].item}
  /\ worker' = [worker EXCEPT ![w] = AfterItem(worker[w].item)]
  /\ UNCHANGED <<nextItemNode, consumed, shutdowns, phase, lastNode>>

\* The command is processed; handleCommands calls deleteCommand and leaves its
\* loop after a SHUTDOWN.  An item that removeAllCommands already released is
\* freed a second time: the program may stop there or go on.
DeleteCommand(w) ==
  /\ worker[w].step = "busy"
  /\ totalItems' = totalItems - 1
  /\ queue' = queue \ {worker[w].item}
  /\ \/ worker' = [worker EXCEPT ![w] = AfterItem(worker[w].item)]
     \/ /\ worker[w].item \notin queue
        /\ worker' = [worker EXCEPT ![w] = [step |-> "undefined", item |-> 0]]
  /\ UNCHANGED <<nextItemNode, unprocessedItems, consumed, shutdowns, phase, lastNode>>

-----------------------------------------------------------------------------
\* removeAllCommands: the list is emptied, the cursor stays where it is.
RemoveAllCommands ==
  /\ queue' = {}
  /\ totalItems' = 0
  /\ unprocessedItems' = 0
  /\ UNCHANGED <<nextItemNode, consumed, shutdowns, worker, lastNode>>

\* stopProcessingCommands, called by shutDown(): clear the queue, submit one
\* SHUTDOWN per worker, join the workers.  The receiver-queue thread goes on.
StopProcessingCommands ==
  /\ MayStop
  /\ phase = "running"
  /\ phase' = "cleared"
  /\ RemoveAllCommands

\* Mutant: a single SHUTDOWN for all workers.
SendShutdownOnce ==
  /\ phase = "cleared"
  /\ QueueItem(TRUE)
  /\ phase' = "sent"

SendShutdown ==
  /\ phase = "cleared"
  /\ QueueItem(TRUE)
  /\ phase' = IF Cardinality(shutdowns') = Cardinality(Worker) THEN "sent" ELSE "cleared"

JoinWorkers ==
  /\ phase = "sent"
  /\ \A w \in Worker : worker[w].step = "done"
  /\ phase' = "joined"
  /\ UNCHANGED <<queue, nextItemNode, totalItems, unprocessedItems, consumed,
                 shutdowns, worker, lastNode>>

\* releaseCommandQueue, called by doCleanup(): alive becomes false.
ReleaseCommandQueue ==
  /\ phase = "joined"
  /\ phase' = "released"
  /\ RemoveAllCommands

WorkerStepOf(w) ==
  \/ Wait(w)
  \/ FetchNextCommand(w)
  \/ FetchFreedNode(w)
  \/ DeleteCommand(w)

Stopping == SendShutdown \/ JoinWorkers \/ ReleaseCommandQueue

Next ==
  \/ QueueCommand
  \/ RejectCommand
  \/ \E w \in Worker : WorkerStepOf(w)
  \/ StopProcessingCommands
  \/ Stopping

Spec == Init /\ [][Next]_vars

\* The workers run whenever they can, and shutDown() goes through its steps.
\* Nothing is assumed of the proxies that submit commands.
FairSpec == Spec /\ (\A w \in Worker : WF_vars(WorkerStepOf(w))) /\ WF_vars(Stopping)

-----------------------------------------------------------------------------
(***************************************************************************)
(* Properties.                                                             *)
(***************************************************************************)

\* The cursor points to freed memory.
Stale == nextItemNode # 0 /\ nextItemNode \notin queue

Undefined == \E w \in Worker : worker[w].step = "undefined"

\* The cursor is the oldest item that no worker has fetched, and
\* unprocessedItems counts exactly those items, as long as the cursor does not
\* point to a deleted node.
CursorIsOldest ==
  ~Stale => /\ unprocessedItems = Cardinality(Pending)
            /\ Pending = {} => nextItemNode = 0
            /\ Pending # {} => /\ nextItemNode \in Pending
                               /\ \A n \in Pending : nextItemNode <= n

\* totalItems is the number of items in the list, processed and unprocessed,
\* until removeAllCommands releases items that are still being processed.
TotalIsListSize == phase = "running" => totalItems = Cardinality(queue)

\* The same, also while shutDown() clears the queue.
TotalIsAlwaysListSize == totalItems = Cardinality(queue)

\* nextItemNode is the next node to be fetched: a node of the list, or NULL.
CursorInQueue == ~Stale

\* The queue hands every command to exactly one worker, in the order in which
\* they were submitted (no command is skipped, repeated or overtaken), whatever
\* is rejected in between and whenever the queue is cleared.
Channel == INSTANCE FifoChannel WITH
             submitted <- lastNode,
             pending   <- Pending,
             holding   <- [w \in Worker |-> worker[w].item]
ImplementsFifoChannel == Channel!Spec

\* A submitted command is fetched, processed and deleted: no wake-up is lost,
\* as long as the program did not hit freed memory.
EveryCommandIsProcessed ==
  \A n \in 1 .. MaxCommands : n \in queue ~> (n \notin queue \/ Stale \/ Undefined)

\* Once shutDown() cleared the queue, it gets to the end: every worker receives
\* its SHUTDOWN and is joined, unless the program hit freed memory.
ShutdownCompletes == phase = "cleared" ~> (phase = "released" \/ Stale \/ Undefined)
=============================================================================
