------------------------- MODULE CommandQueueProofs -------------------------
(***************************************************************************)
(* Theorems about CommandQueue, for any number of workers and commands.    *)
(* The invariant adds two facts to CursorIsOldest: the items the workers   *)
(* took are older than all the ones nobody took, and a worker that is busy *)
(* holds an item it took.                                                  *)
(***************************************************************************)
EXTENDS CommandQueue, FiniteSetTheorems, WellFoundedInduction, TLAPS

\* Every non-empty set of natural numbers has a least element.
LEMMA LeastElement ==
  ASSUME NEW S \in SUBSET Nat, S # {}
  PROVE  \E x \in S : \A y \in S : x <= y
<1>. DEFINE R == {ss \in Nat \X Nat : ss[1] < ss[2]}
<1>1. IsWellFoundedOn(R, Nat)
  <2>1. IsWellFoundedOn(OpToRel(<, Nat), Nat)
    BY NatLessThanWellFounded
  <2>2. R \cap (Nat \X Nat) \subseteq OpToRel(<, Nat)
    BY DEF OpToRel
  <2>. QED  BY <2>1, <2>2, IsWellFoundedOnSubrelation
<1>2. \E x \in S : \A y \in S : ~ (<<y, x>> \in R)
  <2>. HIDE DEF R
  <2>. QED  BY <1>1, WFMin
<1>3. PICK x \in S : \A y \in S : ~ (<<y, x>> \in R)
  BY <1>2
<1>4. ASSUME NEW y \in S
      PROVE  x <= y
  <2>1. x \in Nat /\ y \in Nat /\ ~ (<<y, x>> \in R)
    BY <1>3
  <2>2. <<y, x>> \in R <=> y < x
    BY <2>1
  <2>. QED  BY <2>1, <2>2
<1>. QED  BY <1>4

Ordered == \A c \in consumed, n \in Pending : c < n

Held ==
  \A w \in Worker : /\ worker[w].step = "busy" => worker[w].item \in consumed
                    /\ worker[w].step # "busy" => worker[w].item = 0

QueueInv == TypeOK /\ CursorIsOldest /\ Ordered /\ Held

LEMMA PendingFinite ==
  ASSUME TypeOK
  PROVE  /\ IsFiniteSet(queue) /\ IsFiniteSet(Pending)
         /\ Cardinality(Pending) \in Nat
         /\ Pending \subseteq 1 .. lastNode
<1>1. IsFiniteSet(1 .. lastNode)
  BY FS_Interval DEF TypeOK
<1>2. queue \subseteq 1 .. lastNode /\ Pending \subseteq 1 .. lastNode
  BY DEF TypeOK, Pending
<1>. QED  BY <1>1, <1>2, FS_Subset, FS_CardinalityType

LEMMA SignalMovesAWorker ==
  ASSUME TypeOK, Held, SignalCond, consumed' = consumed
  PROVE  /\ worker' \in [Worker -> WorkerState] /\ Held'
         /\ \A w \in Worker : worker'[w].item = worker[w].item
<1>. DEFINE waiting == {w \in Worker : worker[w].step = "wait"}
<1>1. CASE waiting = {}
  BY <1>1 DEF SignalCond, TypeOK, Held
<1>2. CASE waiting # {}
  <2>1. PICK w \in waiting :
          worker' = [worker EXCEPT ![w] = [@ EXCEPT !.step = "fetch"]]
    BY <1>2 DEF SignalCond
  <2>2. worker[w] \in WorkerState /\ worker[w].step = "wait" /\ w \in Worker
    BY <2>1 DEF TypeOK
  <2>3. /\ [worker[w] EXCEPT !.step = "fetch"] \in WorkerState
        /\ [worker[w] EXCEPT !.step = "fetch"].step = "fetch"
        /\ [worker[w] EXCEPT !.step = "fetch"].item = worker[w].item
    BY <2>2 DEF WorkerState, WorkerStep
  <2>4. worker' \in [Worker -> WorkerState]
    BY <2>1, <2>2, <2>3 DEF TypeOK
  <2>5. ASSUME NEW v \in Worker
        PROVE  /\ worker'[v].item = worker[v].item
               /\ v # w => worker'[v] = worker[v]
               /\ v = w => worker'[v].step = "fetch"
    BY <2>1, <2>2, <2>3 DEF TypeOK
  <2>6. Held'
    BY <2>2, <2>5 DEF Held
  <2>. QED  BY <2>4, <2>5, <2>6
<1>. QED  BY <1>1, <1>2

\* Appending an item.
LEMMA QueueItemKeeps ==
  ASSUME QueueInv, NEW b \in BOOLEAN, QueueItem(b), phase' \in Phase
  PROVE  QueueInv'
<1>. DEFINE n == lastNode + 1
<1>1. /\ lastNode' = n /\ queue' = queue \union {n} /\ consumed' = consumed
      /\ unprocessedItems' = unprocessedItems + 1
      /\ nextItemNode' = IF nextItemNode = 0 THEN n ELSE nextItemNode
    BY DEF QueueItem
<1>2. n \in Nat /\ n > lastNode /\ lastNode \in Nat
  BY DEF QueueInv, TypeOK
<1>3. worker' \in [Worker -> WorkerState] /\ Held'
  BY SignalMovesAWorker DEF QueueInv, QueueItem
<1>4. TypeOK'
  <2>1. shutdowns' \subseteq 1 .. n
    BY <1>2 DEF QueueItem, QueueInv, TypeOK
  <2>2. totalItems' \in Int /\ unprocessedItems' \in Nat
    BY DEF QueueItem, QueueInv, TypeOK
  <2>. QED  BY <1>1, <1>2, <1>3, <2>1, <2>2 DEF QueueInv, TypeOK
<1>5. Pending' = Pending \union {n} /\ n \notin Pending
  BY <1>1, <1>2 DEF Pending, QueueInv, TypeOK
<1>6. Ordered'
  BY <1>1, <1>2, <1>5 DEF Ordered, QueueInv, TypeOK
<1>7. CursorIsOldest'
  <2>. SUFFICES ASSUME ~Stale'
                PROVE  /\ unprocessedItems' = Cardinality(Pending')
                       /\ nextItemNode' \in Pending'
                       /\ \A m \in Pending' : nextItemNode' <= m
    BY <1>5 DEF CursorIsOldest
  <2>1. ~Stale
    BY <1>1, <1>2 DEF Stale, QueueInv, TypeOK
  <2>2. Cardinality(Pending') = Cardinality(Pending) + 1
    BY <1>5, PendingFinite, FS_AddElement DEF QueueInv
  <2>3. Pending \subseteq 1 .. lastNode
    BY PendingFinite DEF QueueInv
  <2>4. nextItemNode \in Nat
    BY <1>2 DEF QueueInv, TypeOK
  <2>. QED  BY <1>1, <1>2, <1>5, <2>1, <2>2, <2>3, <2>4 DEF QueueInv, CursorIsOldest
<1>. QED  BY <1>3, <1>4, <1>6, <1>7 DEF QueueInv

\* Fetching: the next node of the list is the oldest of the remaining ones.
LEMMA FetchTakesOldest ==
  ASSUME QueueInv, nextItemNode \in queue
  PROVE  /\ nextItemNode \in Pending
         /\ \A n \in Pending : nextItemNode <= n
         /\ unprocessedItems = Cardinality(Pending)
         /\ Pending \ {nextItemNode} = {m \in queue : m > nextItemNode}
<1>1. ~Stale /\ queue \subseteq Nat /\ nextItemNode \in Nat
  BY DEF Stale, QueueInv, TypeOK
<1>2. nextItemNode # 0
  BY DEF QueueInv, TypeOK
<1>3. /\ nextItemNode \in Pending
      /\ \A n \in Pending : nextItemNode <= n
      /\ unprocessedItems = Cardinality(Pending)
  BY <1>1, <1>2 DEF QueueInv, CursorIsOldest
<1>4. ASSUME NEW m \in queue, m > nextItemNode
      PROVE  m \in Pending
  <2>1. m \notin consumed
    BY <1>1, <1>3, <1>4 DEF QueueInv, Ordered
  <2>. QED  BY <2>1 DEF Pending
<1>5. ASSUME NEW m \in Pending \ {nextItemNode}
      PROVE  m \in queue /\ m > nextItemNode
  BY <1>1, <1>3 DEF Pending
<1>6. \A m : m \in Pending \ {nextItemNode} <=> m \in {k \in queue : k > nextItemNode}
  <2>1. ~(nextItemNode > nextItemNode)
    BY <1>1
  <2>. QED  BY <1>4, <1>5, <2>1
<1>. QED  BY <1>3, <1>6

LEMMA NextNodeIsLeast ==
  ASSUME TypeOK, NEW n
  PROVE  LET later == {m \in queue : m > n}
         IN  /\ later = {} => NextNode(n) = 0
             /\ later # {} => /\ NextNode(n) \in later
                              /\ \A k \in later : NextNode(n) <= k
<1>. DEFINE later == {m \in queue : m > n}
<1>0. queue \subseteq Nat
  BY DEF TypeOK
<1>1. later \in SUBSET Nat
  BY <1>0
<1>2. later # {} => \E m \in later : \A k \in later : m <= k
  BY <1>1, LeastElement
<1>. QED  BY <1>2 DEF NextNode

LEMMA FetchKeeps ==
  ASSUME QueueInv, NEW w \in Worker, FetchNextCommand(w)
  PROVE  QueueInv'
<1>. DEFINE c == nextItemNode
            later == {m \in queue : m > c}
<1>1. /\ c \in queue /\ unprocessedItems > 0
      /\ unprocessedItems' = unprocessedItems - 1
      /\ consumed' = consumed \union {c} /\ nextItemNode' = NextNode(c)
      /\ worker' = [worker EXCEPT ![w] = [step |-> "busy", item |-> c]]
      /\ UNCHANGED <<queue, totalItems, shutdowns, phase, lastNode>>
  BY DEF FetchNextCommand
<1>2. /\ c \in Pending /\ (\A n \in Pending : c <= n)
      /\ unprocessedItems = Cardinality(Pending)
      /\ Pending \ {c} = later
  BY <1>1, FetchTakesOldest
<1>3. c \in 1 .. lastNode /\ lastNode \in Nat /\ queue \subseteq 1 .. lastNode
  BY <1>1 DEF QueueInv, TypeOK
<1>4. /\ later = {} => NextNode(c) = 0
      /\ later # {} => NextNode(c) \in later /\ \A k \in later : NextNode(c) <= k
  BY NextNodeIsLeast DEF QueueInv
<1>. HIDE DEF c, later
<1>5. Pending' = later /\ later \subseteq queue
  <2>1. Pending' = Pending \ {c}
    BY <1>1 DEF Pending
  <2>. QED  BY <1>2, <2>1 DEF Pending
<1>5a. NextNode(c) \in 0 .. lastNode
  <2>0. CASE later = {}
    BY <1>3, <1>4, <2>0
  <2>1. CASE later # {}
    <3>1. NextNode(c) \in 1 .. lastNode
      BY <1>3, <1>4, <1>5, <2>1
    <3>. QED  BY <1>3, <3>1
  <2>. QED  BY <2>0, <2>1
<1>6. TypeOK'
  <2>2. [step |-> "busy", item |-> c] \in WorkerState
    BY <1>3 DEF WorkerState, WorkerStep
  <2>3. worker' \in [Worker -> WorkerState]
    BY <1>1, <2>2 DEF QueueInv, TypeOK
  <2>. QED  BY <1>1, <1>3, <1>5a, <2>3 DEF QueueInv, TypeOK
<1>7. CursorIsOldest'
  <2>1. Cardinality(Pending') = Cardinality(Pending) - 1
    BY <1>2, <1>5, PendingFinite, FS_RemoveElement DEF QueueInv
  <2>. QED  BY <1>1, <1>2, <1>4, <1>5, <2>1 DEF CursorIsOldest
<1>8. Ordered'
  <2>1. ASSUME NEW m \in consumed', NEW n \in Pending'
        PROVE  m < n
    <3>1. n \in Pending /\ n > c
      BY <1>2, <1>5 DEF later
    <3>2. m \in consumed \/ m = c
      BY <1>1
    <3>. QED  BY <3>1, <3>2, <1>3 DEF QueueInv, Ordered
  <2>. QED  BY <2>1 DEF Ordered
<1>9. Held'
  <2>1. ASSUME NEW v \in Worker
        PROVE  IF v = w THEN worker'[v].step = "busy" /\ worker'[v].item = c
                        ELSE worker'[v] = worker[v]
    BY <1>1 DEF QueueInv, TypeOK
  <2>. QED  BY <1>1, <2>1 DEF QueueInv, Held
<1>. QED  BY <1>6, <1>7, <1>8, <1>9 DEF QueueInv

\* Steps of a worker that take nothing from the queue.
LEMMA WorkerMoves ==
  ASSUME QueueInv, NEW w \in Worker, NEW s \in WorkerState, s.step # "busy",
         s.item = 0, worker' = [worker EXCEPT ![w] = s],
         UNCHANGED <<queue, nextItemNode, totalItems, unprocessedItems, consumed,
                     shutdowns, phase, lastNode>>
  PROVE  QueueInv'
<1>1. worker' \in [Worker -> WorkerState]
  BY DEF QueueInv, TypeOK
<1>2. ASSUME NEW v \in Worker
      PROVE  IF v = w THEN worker'[v] = s ELSE worker'[v] = worker[v]
  BY DEF QueueInv, TypeOK
<1>3. Held'
  BY <1>2 DEF QueueInv, Held
<1>4. TypeOK' /\ CursorIsOldest' /\ Ordered'
  BY <1>1 DEF QueueInv, TypeOK, CursorIsOldest, Ordered, Stale, Pending
<1>. QED  BY <1>3, <1>4 DEF QueueInv

LEMMA DeleteKeeps ==
  ASSUME QueueInv, NEW w \in Worker, DeleteCommand(w)
  PROVE  QueueInv' /\ Pending' = Pending /\ worker'[w].item = 0
<1>. DEFINE c == worker[w].item
<1>1. c \in consumed /\ c \notin Pending
  BY DEF DeleteCommand, QueueInv, Held, Pending
<1>2. /\ queue' = queue \ {c} /\ totalItems' = totalItems - 1
      /\ UNCHANGED <<nextItemNode, unprocessedItems, consumed, shutdowns, phase, lastNode>>
  BY DEF DeleteCommand
<1>3. PICK s \in {AfterItem(c), [step |-> "undefined", item |-> 0]} :
        worker' = [worker EXCEPT ![w] = s]
  BY DEF DeleteCommand
<1>4. s \in WorkerState /\ s.step # "busy" /\ s.item = 0
  BY <1>3 DEF AfterItem, WorkerState, WorkerStep
<1>5. Pending' = Pending
  BY <1>1, <1>2 DEF Pending
<1>6. ASSUME NEW v \in Worker
      PROVE  IF v = w THEN worker'[v] = s ELSE worker'[v] = worker[v]
  BY <1>3 DEF QueueInv, TypeOK
<1>7. Held'
  BY <1>2, <1>4, <1>6 DEF QueueInv, Held
<1>8. TypeOK'
  <2>1. worker' \in [Worker -> WorkerState]
    BY <1>3, <1>4 DEF QueueInv, TypeOK
  <2>2. queue' \subseteq 1 .. lastNode'
    BY <1>2 DEF QueueInv, TypeOK
  <2>3. totalItems' \in Int
    <3>. HIDE DEF c
    <3>. QED  BY <1>2 DEF QueueInv, TypeOK
  <2>. QED  BY <1>2, <2>1, <2>2, <2>3 DEF QueueInv, TypeOK
<1>9. CursorIsOldest'
  <2>1. Stale => Stale'
    BY <1>2 DEF Stale
  <2>. QED  BY <1>2, <1>5, <2>1 DEF QueueInv, CursorIsOldest
<1>10. Ordered'
  BY <1>2, <1>5 DEF QueueInv, Ordered
<1>. QED  BY <1>4, <1>5, <1>6, <1>7, <1>8, <1>9, <1>10 DEF QueueInv

LEMMA RemoveAllKeeps ==
  ASSUME QueueInv, RemoveAllCommands, phase' \in Phase
  PROVE  QueueInv'
<1>1. /\ queue' = {} /\ totalItems' = 0 /\ unprocessedItems' = 0
      /\ UNCHANGED <<nextItemNode, consumed, shutdowns, worker, lastNode>>
  BY DEF RemoveAllCommands
<1>2. Pending' = {}
  BY <1>1 DEF Pending
<1>3. CursorIsOldest'
  BY <1>1, <1>2, FS_EmptySet DEF CursorIsOldest, Stale
<1>4. TypeOK' /\ Ordered' /\ Held'
  BY <1>1, <1>2 DEF QueueInv, TypeOK, Ordered, Held
<1>. QED  BY <1>3, <1>4 DEF QueueInv

LEMMA QueueStep == QueueInv /\ [Next]_vars => QueueInv'
<1>. SUFFICES ASSUME QueueInv, [Next]_vars PROVE QueueInv'
  OBVIOUS
<1>0. phase \in Phase
  BY DEF QueueInv, TypeOK
<1>1. CASE QueueCommand
  BY <1>0, <1>1, QueueItemKeeps DEF QueueCommand
<1>2. CASE RejectCommand
  <2>1. /\ lastNode' = lastNode + 1
        /\ nextItemNode' = IF nextItemNode = 0 THEN lastNode + 1 ELSE nextItemNode
        /\ UNCHANGED <<queue, totalItems, unprocessedItems, consumed, shutdowns, worker,
                       phase>>
    BY <1>2 DEF RejectCommand
  <2>2. TypeOK'
    BY <2>1 DEF QueueInv, TypeOK
  <2>3. Pending' = Pending
    BY <2>1 DEF Pending
  <2>4. CursorIsOldest'
    BY <2>1, <2>3 DEF QueueInv, TypeOK, CursorIsOldest, Stale
  <2>5. Ordered' /\ Held'
    BY <2>1, <2>3 DEF QueueInv, Ordered, Held
  <2>. QED  BY <2>2, <2>4, <2>5 DEF QueueInv
<1>3. ASSUME NEW w \in Worker, Wait(w) PROVE QueueInv'
  <2>1. worker[w] \in WorkerState /\ worker[w].item = 0
    BY <1>3 DEF Wait, QueueInv, TypeOK, Held
  <2>. DEFINE s == [worker[w] EXCEPT !.step = "wait"]
  <2>2. s \in WorkerState /\ s.step # "busy" /\ s.item = 0
    BY <2>1 DEF WorkerState, WorkerStep
  <2>3. worker' = [worker EXCEPT ![w] = s]
    BY <1>3 DEF Wait
  <2>. HIDE DEF s
  <2>. QED  BY <1>3, <2>2, <2>3, WorkerMoves DEF Wait
<1>4. ASSUME NEW w \in Worker, FetchNextCommand(w) PROVE QueueInv'
  BY <1>4, FetchKeeps
<1>5. ASSUME NEW w \in Worker, FetchFreedNode(w) PROVE QueueInv'
  <2>1. [step |-> "undefined", item |-> 0] \in WorkerState
    BY DEF WorkerState, WorkerStep
  <2>. QED  BY <1>5, <2>1, WorkerMoves DEF FetchFreedNode
<1>6. ASSUME NEW w \in Worker, DeleteCommand(w) PROVE QueueInv'
  BY <1>6, DeleteKeeps
<1>7. CASE StopProcessingCommands
  BY <1>7, RemoveAllKeeps DEF StopProcessingCommands, Phase
<1>8. CASE SendShutdown
  BY <1>8, QueueItemKeeps DEF SendShutdown, Phase
<1>9. CASE JoinWorkers
  BY <1>9 DEF JoinWorkers, QueueInv, TypeOK, CursorIsOldest, Ordered, Held, Stale,
              Pending, Phase
<1>10. CASE ReleaseCommandQueue
  BY <1>10, RemoveAllKeeps DEF ReleaseCommandQueue, Phase
<1>11. CASE UNCHANGED vars
  BY <1>11 DEF vars, QueueInv, TypeOK, CursorIsOldest, Ordered, Held, Stale, Pending
<1>. QED
  BY <1>1, <1>2, <1>3, <1>4, <1>5, <1>6, <1>7, <1>8, <1>9, <1>10, <1>11
     DEF Next, WorkerStepOf, Stopping

LEMMA QueueInit == Init => QueueInv
<1>. SUFFICES ASSUME Init PROVE QueueInv
  OBVIOUS
<1>1. TypeOK
  BY DEF Init, TypeOK, WorkerState, WorkerStep, Phase
<1>2. Pending = {}
  BY DEF Init, Pending
<1>. QED  BY <1>1, <1>2, FS_EmptySet DEF Init, QueueInv, CursorIsOldest, Ordered, Held

\* Type correctness of the command queue.
THEOREM QueueTypeCorrect == Spec => []TypeOK
<1>1. QueueInv => TypeOK
  BY DEF QueueInv
<1>. QED  BY <1>1, QueueInit, QueueStep, PTL DEF Spec

\* nextItemNode is the oldest unfetched item and unprocessedItems counts the
\* unfetched ones in every state in which nextItemNode is not a deleted node:
\* oversized commands and shutDown() included.
THEOREM CursorStaysOldest == Spec => []CursorIsOldest
<1>1. QueueInv => CursorIsOldest
  BY DEF QueueInv
<1>. QED  BY <1>1, QueueInit, QueueStep, PTL DEF Spec

(***************************************************************************)
(* Counting.  Until the queue is cleared, every worker that is busy holds  *)
(* an item of the list, and no two hold the same one, so that deleteCommand *)
(* takes exactly one item from the list.                                   *)
(***************************************************************************)
CountInv ==
  phase = "running" =>
    /\ totalItems = Cardinality(queue)
    /\ \A w \in Worker : worker[w].step = "busy" => worker[w].item \in queue
    /\ \A v, w \in Worker : /\ worker[v].step = "busy" /\ worker[w].step = "busy"
                            /\ worker[v].item = worker[w].item
                            => v = w

LEMMA QueueCommandCounts ==
  ASSUME QueueInv, CountInv, QueueCommand
  PROVE  CountInv'
<1>1. /\ lastNode' = lastNode + 1 /\ queue' = queue \union {lastNode + 1}
      /\ totalItems' = totalItems + 1 /\ phase' = phase /\ SignalCond
      /\ consumed' = consumed
  BY DEF QueueCommand, QueueItem
<1>2. /\ \A w \in Worker : worker'[w].item = worker[w].item
      /\ Held' /\ worker' \in [Worker -> WorkerState]
  BY <1>1, SignalMovesAWorker DEF QueueInv
<1>3. ASSUME NEW w \in Worker, worker'[w].step = "busy"
      PROVE  worker[w].step = "busy"
  <2>1. worker'[w].item \in consumed
    BY <1>1, <1>2, <1>3 DEF Held
  <2>2. worker[w].item # 0
    BY <1>2, <2>1 DEF QueueInv, TypeOK
  <2>. QED  BY <2>2 DEF QueueInv, Held
<1>4. lastNode + 1 \notin queue
  BY DEF QueueInv, TypeOK
<1>5. Cardinality(queue') = Cardinality(queue) + 1
  BY <1>1, <1>4, PendingFinite, FS_AddElement DEF QueueInv
<1>. QED  BY <1>1, <1>2, <1>3, <1>5 DEF CountInv

LEMMA FetchCounts ==
  ASSUME QueueInv, CountInv, NEW w \in Worker, FetchNextCommand(w)
  PROVE  CountInv'
<1>1. /\ nextItemNode \in queue /\ UNCHANGED <<queue, totalItems, phase>>
      /\ worker' = [worker EXCEPT ![w] = [step |-> "busy", item |-> nextItemNode]]
  BY DEF FetchNextCommand
<1>2. nextItemNode \notin consumed
  BY <1>1, FetchTakesOldest DEF Pending
<1>3. ASSUME NEW v \in Worker
      PROVE  IF v = w THEN worker'[v].item = nextItemNode
                      ELSE worker'[v] = worker[v]
  BY <1>1 DEF QueueInv, TypeOK
<1>4. \A v \in Worker : worker[v].step = "busy" => worker[v].item # nextItemNode
  BY <1>2 DEF QueueInv, Held
<1>. QED  BY <1>1, <1>3, <1>4 DEF CountInv

LEMMA DeleteCounts ==
  ASSUME QueueInv, CountInv, NEW w \in Worker, DeleteCommand(w)
  PROVE  CountInv'
<1>. SUFFICES ASSUME phase' = "running"
              PROVE  /\ totalItems' = Cardinality(queue')
                     /\ \A v \in Worker : worker'[v].step = "busy" => worker'[v].item \in queue'
                     /\ \A v, u \in Worker : /\ worker'[v].step = "busy" /\ worker'[u].step = "busy"
                                             /\ worker'[v].item = worker'[u].item
                                             => v = u
  BY DEF CountInv
<1>1. /\ worker[w].step = "busy" /\ phase = "running"
      /\ queue' = queue \ {worker[w].item} /\ totalItems' = totalItems - 1
  BY DEF DeleteCommand
<1>2. worker[w].item \in queue
  BY <1>1 DEF CountInv
<1>3. Cardinality(queue') = Cardinality(queue) - 1
  BY <1>1, <1>2, PendingFinite, FS_RemoveElement DEF QueueInv
<1>4. PICK s \in {AfterItem(worker[w].item), [step |-> "undefined", item |-> 0]} :
        worker' = [worker EXCEPT ![w] = s]
  BY DEF DeleteCommand
<1>5. s.step # "busy"
  BY <1>4 DEF AfterItem
<1>6. ASSUME NEW v \in Worker
      PROVE  IF v = w THEN worker'[v].step # "busy" ELSE worker'[v] = worker[v]
  BY <1>4, <1>5 DEF QueueInv, TypeOK
<1>7. totalItems' = Cardinality(queue')
  BY <1>1, <1>3 DEF CountInv
<1>. QED  BY <1>1, <1>6, <1>7 DEF CountInv

\* Steps that leave the list and the busy workers alone.
LEMMA OthersCount ==
  ASSUME QueueInv, CountInv, UNCHANGED <<queue, totalItems, phase>>,
         \A w \in Worker : worker'[w].step = "busy" => worker'[w] = worker[w]
  PROVE  CountInv'
BY DEF CountInv

LEMMA CountStep == QueueInv /\ CountInv /\ [Next]_vars => CountInv'
<1>. SUFFICES ASSUME QueueInv, CountInv, [Next]_vars PROVE CountInv'
  OBVIOUS
<1>1. CASE QueueCommand
  BY <1>1, QueueCommandCounts
<1>2. CASE RejectCommand \/ UNCHANGED vars
  BY <1>2, OthersCount DEF RejectCommand, vars
<1>3. ASSUME NEW w \in Worker, WorkerStepOf(w)
      PROVE  CountInv'
  <2>1. CASE FetchNextCommand(w)
    BY <2>1, FetchCounts
  <2>2. CASE DeleteCommand(w)
    BY <2>2, DeleteCounts
  <2>3. CASE Wait(w) \/ FetchFreedNode(w)
    <3>1. worker[w] \in WorkerState
      BY DEF QueueInv, TypeOK
    <3>2. PICK s : worker' = [worker EXCEPT ![w] = s] /\ s.step # "busy"
      BY <2>3, <3>1 DEF Wait, FetchFreedNode, WorkerState
    <3>3. \A v \in Worker : worker'[v].step = "busy" => worker'[v] = worker[v]
      BY <3>2 DEF QueueInv, TypeOK
    <3>. QED  BY <2>3, <3>3, OthersCount DEF Wait, FetchFreedNode
  <2>. QED  BY <1>3, <2>1, <2>2, <2>3 DEF WorkerStepOf
<1>4. CASE StopProcessingCommands \/ Stopping
  <2>1. phase' # "running"
    BY <1>4 DEF StopProcessingCommands, Stopping, SendShutdown, JoinWorkers, ReleaseCommandQueue
  <2>. QED  BY <2>1 DEF CountInv
<1>. QED  BY <1>1, <1>2, <1>3, <1>4 DEF Next

\* totalItems counts the items of the list until shutDown() clears it,
\* oversized commands included.
THEOREM TotalStaysListSize == Spec => []TotalIsListSize
<1>1. Init => CountInv
  BY FS_EmptySet DEF Init, CountInv
<1>2. CountInv => TotalIsListSize
  BY DEF CountInv, TotalIsListSize
<1>. QED  BY <1>1, <1>2, CountStep, QueueInit, QueueStep, PTL DEF Spec

(***************************************************************************)
(* Refinement.  Every step is a step of the FIFO channel: an oversized     *)
(* command is refused, a cleared queue withdraws what waits in it, and a   *)
(* worker that reads a deleted node is handed nothing.                     *)
(***************************************************************************)
Holding == [w \in Worker |-> worker[w].item]

LEMMA SubmitRefines ==
  ASSUME QueueInv, NEW b \in BOOLEAN, QueueItem(b)
  PROVE  Channel!Submit
<1>1. \A w \in Worker : worker'[w].item = worker[w].item
  BY SignalMovesAWorker DEF QueueInv, QueueItem
<1>2. Holding' = Holding
  BY <1>1 DEF Holding
<1>3. lastNode' = lastNode + 1 /\ Pending' = Pending \union {lastNode + 1}
  BY DEF QueueItem, Pending, QueueInv, TypeOK
<1>. QED  BY <1>2, <1>3 DEF Holding, Channel!Submit

LEMMA ClearRefines ==
  ASSUME RemoveAllCommands
  PROVE  Channel!Withdraw
<1>1. queue' = {} /\ UNCHANGED <<lastNode, worker>>
  BY DEF RemoveAllCommands
<1>2. Pending' = {}
  BY <1>1 DEF Pending
<1>. QED  BY <1>1, <1>2 DEF Channel!Withdraw

LEMMA FetchRefines ==
  ASSUME QueueInv, NEW w \in Worker, FetchNextCommand(w)
  PROVE  Channel!HandOut(w)
<1>1. /\ nextItemNode \in queue /\ consumed' = consumed \union {nextItemNode}
      /\ worker' = [worker EXCEPT ![w] = [step |-> "busy", item |-> nextItemNode]]
      /\ worker[w].step = "fetch"
      /\ UNCHANGED <<queue, lastNode>>
  BY DEF FetchNextCommand
<1>2. nextItemNode \in Pending /\ \A n \in Pending : nextItemNode <= n
  BY <1>1, FetchTakesOldest
<1>3. Pending' = Pending \ {nextItemNode}
  BY <1>1 DEF Pending
<1>4. Holding[w] = 0
  BY <1>1 DEF QueueInv, Held, Holding
<1>5. Holding' = [Holding EXCEPT ![w] = nextItemNode]
  <2>1. ASSUME NEW v \in Worker
        PROVE  worker'[v].item = IF v = w THEN nextItemNode ELSE worker[v].item
    BY <1>1 DEF QueueInv, TypeOK
  <2>. QED  BY <2>1 DEF Holding
<1>. QED  BY <1>1, <1>2, <1>3, <1>4, <1>5 DEF Holding, Channel!HandOut

LEMMA DeleteRefines ==
  ASSUME QueueInv, NEW w \in Worker, DeleteCommand(w)
  PROVE  Channel!Finish(w)
<1>1. Pending' = Pending /\ worker'[w].item = 0
  BY DeleteKeeps
<1>2. worker[w].step = "busy" /\ UNCHANGED lastNode
  BY DEF DeleteCommand
<1>3. worker[w].item # 0
  BY <1>2 DEF QueueInv, Held, TypeOK
<1>4. Holding' = [Holding EXCEPT ![w] = 0]
  <2>1. PICK s : worker' = [worker EXCEPT ![w] = s]
    BY DEF DeleteCommand
  <2>2. \A v \in Worker : v # w => worker'[v] = worker[v]
    BY <2>1 DEF QueueInv, TypeOK
  <2>. QED  BY <1>1, <2>2 DEF Holding
<1>. QED  BY <1>1, <1>2, <1>3, <1>4 DEF Holding, Channel!Finish

\* A worker that waits or reads a deleted node.
LEMMA IdleRefines ==
  ASSUME QueueInv, NEW w \in Worker, Wait(w) \/ FetchFreedNode(w)
  PROVE  UNCHANGED <<lastNode, Pending, Holding>>
<1>1. worker[w] \in WorkerState /\ worker[w].item = 0
  BY DEF QueueInv, TypeOK, Held, Wait, FetchFreedNode
<1>2. PICK s : worker' = [worker EXCEPT ![w] = s] /\ s.item = 0
  BY <1>1 DEF Wait, FetchFreedNode, WorkerState
<1>3. \A v \in Worker : worker'[v].item = worker[v].item
  BY <1>1, <1>2 DEF QueueInv, TypeOK
<1>. QED  BY <1>3 DEF Wait, FetchFreedNode, Pending, Holding

\* The queue hands every command to exactly one worker in the order of
\* submission, oversized commands and shutDown() included.
THEOREM QueueImplementsChannel == Spec => ImplementsFifoChannel
<1>1. Init => Channel!Init
  BY DEF Init, Pending, Channel!Init
<1>2. QueueInv /\ [Next]_vars => [Channel!Next]_(Channel!channelVars)
  <2>. SUFFICES ASSUME QueueInv, [Next]_vars
                PROVE  [Channel!Next]_(Channel!channelVars)
    OBVIOUS
  <2>1. CASE QueueCommand \/ SendShutdown
    BY <2>1, SubmitRefines DEF QueueCommand, SendShutdown, Channel!Next
  <2>2. ASSUME NEW w \in Worker, WorkerStepOf(w)
        PROVE  [Channel!Next]_(Channel!channelVars)
    <3>1. CASE Wait(w) \/ FetchFreedNode(w)
      BY <3>1, IdleRefines DEF Channel!channelVars, Holding
    <3>2. CASE FetchNextCommand(w)
      BY <3>2, FetchRefines DEF Channel!Next
    <3>3. CASE DeleteCommand(w)
      BY <3>3, DeleteRefines DEF Channel!Next
    <3>. QED  BY <2>2, <3>1, <3>2, <3>3 DEF WorkerStepOf
  <2>3. CASE StopProcessingCommands \/ ReleaseCommandQueue
    BY <2>3, ClearRefines DEF StopProcessingCommands, ReleaseCommandQueue, Channel!Next
  <2>4. CASE RejectCommand
    BY <2>4 DEF RejectCommand, Pending, Channel!Next, Channel!Refuse
  <2>5. CASE JoinWorkers \/ UNCHANGED vars
    BY <2>5 DEF JoinWorkers, vars, Pending, Channel!channelVars
  <2>. QED  BY <2>1, <2>2, <2>3, <2>4, <2>5 DEF Next, Stopping
<1>. QED  BY <1>1, <1>2, QueueInit, QueueStep, PTL
          DEF Spec, ImplementsFifoChannel, Channel!Spec

=============================================================================
