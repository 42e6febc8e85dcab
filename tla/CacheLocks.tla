----------------------------- MODULE CacheLocks -----------------------------
(***************************************************************************)
(* The two locks of the update cache, the read-write lock tableLock and    *)
(* the mutex itemMutex, and the order in which the functions of            *)
(* update_cache.c take and release them.  An operation is the sequence of  *)
(* its lock calls; what it does between them is left out.                  *)
(***************************************************************************)
EXTENDS Naturals, Sequences

CONSTANTS
  Thread,
  Jobs      \* the operations each thread runs

Operation == {"find", "storeUpdate", "modifyUpdateResult", "modifyAspa",
              "unregisterClientID"}

ASSUME JobsAssumption == Jobs \in [Thread -> SUBSET Operation]

VARIABLES
  job,       \* the operation each thread is in, "none" between operations
  pos,       \* the next lock call of that operation
  mutex,     \* the threads that hold itemMutex
  readers,   \* the threads that hold tableLock for reading
  writers    \* the threads that hold tableLock for writing

lockVars == <<job, pos, mutex, readers, writers>>

\* tableFind; also getUpdateResult, detectCollision and deleteUpdateFromCache
FindCalls == <<"readLock", "unlockRead">>

\* Mutant: an error exit leaves the mutex locked.
StoreUpdateCallsLeak ==
  <<"readLock", "unlockRead", "lockMutex", "writeLock", "unlockWrite">>

\* storeUpdate: tableFind, then tableAdd inside the mutex
StoreUpdateCalls ==
  <<"readLock", "unlockRead", "lockMutex", "writeLock", "unlockWrite", "unlockMutex">>

\* modifyUpdateResult: tableFind, then inside the mutex the callback, which
\* calls broadcastResult and with it getClientIDsOfUpdate and tableFind
ModifyUpdateResultCalls ==
  <<"readLock", "unlockRead", "lockMutex", "readLock", "unlockRead", "unlockMutex">>

\* modifyUpdateCacheResultWithAspaVal
ModifyAspaCalls == <<"readLock", "unlockRead", "lockMutex", "unlockMutex">>

\* unregisterClientID
UnregisterCalls == <<"writeLock", "lockMutex", "unlockMutex", "unlockWrite">>

Calls(op) ==
  CASE op = "find"               -> FindCalls
    [] op = "storeUpdate"        -> StoreUpdateCalls
    [] op = "modifyUpdateResult" -> ModifyUpdateResultCalls
    [] op = "modifyAspa"         -> ModifyAspaCalls
    [] op = "unregisterClientID" -> UnregisterCalls

LocksInit ==
  /\ job = [t \in Thread |-> "none"]
  /\ pos = [t \in Thread |-> 1]
  /\ mutex = {} /\ readers = {} /\ writers = {}

Begin(t) ==
  /\ job[t] = "none"
  /\ \E op \in Jobs[t] : job' = [job EXCEPT ![t] = op]
  /\ pos' = [pos EXCEPT ![t] = 1]
  /\ UNCHANGED <<mutex, readers, writers>>

NextCall(t, call) ==
  /\ job[t] # "none"
  /\ pos[t] <= Len(Calls(job[t]))
  /\ Calls(job[t])[pos[t]] = call
  /\ pos' = [pos EXCEPT ![t] = @ + 1]
  /\ UNCHANGED job

LockMutex(t) ==
  /\ NextCall(t, "lockMutex")
  /\ mutex = {}
  /\ mutex' = {t}
  /\ UNCHANGED <<readers, writers>>

UnlockMutex(t) ==
  /\ NextCall(t, "unlockMutex")
  /\ mutex' = mutex \ {t}
  /\ UNCHANGED <<readers, writers>>

\* Readers wait for a writer that holds the lock, not for one that waits.
AcquireReadLock(t) ==
  /\ NextCall(t, "readLock")
  /\ writers = {}
  /\ readers' = readers \union {t}
  /\ UNCHANGED <<mutex, writers>>

UnlockReadLock(t) ==
  /\ NextCall(t, "unlockRead")
  /\ readers' = readers \ {t}
  /\ UNCHANGED <<mutex, writers>>

AcquireWriteLock(t) ==
  /\ NextCall(t, "writeLock")
  /\ readers = {} /\ writers = {}
  /\ writers' = {t}
  /\ UNCHANGED <<mutex, readers>>

UnlockWriteLock(t) ==
  /\ NextCall(t, "unlockWrite")
  /\ writers' = writers \ {t}
  /\ UNCHANGED <<mutex, readers>>

Return(t) ==
  /\ job[t] # "none"
  /\ pos[t] > Len(Calls(job[t]))
  /\ job' = [job EXCEPT ![t] = "none"]
  /\ UNCHANGED <<pos, mutex, readers, writers>>

Step(t) ==
  \/ LockMutex(t) \/ UnlockMutex(t)
  \/ AcquireReadLock(t) \/ UnlockReadLock(t)
  \/ AcquireWriteLock(t) \/ UnlockWriteLock(t)
  \/ Return(t)

LocksNext == \E t \in Thread : Begin(t) \/ Step(t)

LocksSpec == LocksInit /\ [][LocksNext]_lockVars

-----------------------------------------------------------------------------
(***************************************************************************)
(* Properties.                                                             *)
(***************************************************************************)

\* The thread is in an operation, and its next lock call does not block.
CanProceed(t) ==
  /\ job[t] # "none"
  /\ \/ pos[t] > Len(Calls(job[t]))
     \/ LET call == Calls(job[t])[pos[t]]
        IN  /\ call = "lockMutex" => mutex = {}
            /\ call = "readLock"  => writers = {}
            /\ call = "writeLock" => readers = {} /\ writers = {}

\* No threads wait for each other: whenever operations of the update cache are
\* under way, one of them can go on.
SomebodyProceeds ==
  (\E t \in Thread : job[t] # "none") => \E t \in Thread : CanProceed(t)

\* The client of a lost connection is removed from all updates of the cache:
\* while unregisterClientID runs, somebody who can go on keeps it from being
\* blocked for ever.
UnregistrationIsNotBlocked ==
  (\E t \in Thread : job[t] = "unregisterClientID") => \E t \in Thread : CanProceed(t)
=============================================================================
