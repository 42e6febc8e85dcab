---------------------------- MODULE UpdateCache ----------------------------
(***************************************************************************)
(* The update cache: which updates are stored, which clients listen to     *)
(* them, and the count of listened updates each client mapping keeps.      *)
(*                                                                         *)
(* Handlers run processValidationRequest: one of them with the receiver    *)
(* queue, one per connection without it.  The command thread deletes       *)
(* references; the command thread or the reader thread of a connection     *)
(* deactivates its mapping.  Only the table is locked, and only during a   *)
(* look-up or an insertion: the slots and the gcFlag of an entry and the   *)
(* updateCount of a mapping are written without a lock, one after the      *)
(* other, and a thread can be overtaken between any two of these steps.    *)
(*                                                                         *)
(* A loop over the slots of an entry is one step as long as no other       *)
(* thread works with the entry between its look-up and its last write.     *)
(* When two do, the entry is raced, and from then on what a loop leaves in *)
(* its array is any array; likewise ++ and -- of the updateCount of a      *)
(* client with two operations under way (the client is torn).              *)
(*                                                                         *)
(* Entries are never removed (the garbage collector is not implemented),   *)
(* so they are a sequence in the order of allItems.                        *)
(***************************************************************************)
EXTENDS ClientReferences, FiniteSets

CONSTANTS
  Client,       \* the clientIDs of the proxy map, without zero
  Update,       \* update identifiers
  Handler,      \* the threads that run _handlePacket
  CountRange,   \* the number of values of the uint32_t updateCount
  MaxEntries    \* bound on the number of entries

ASSUME CacheAssumption ==
  /\ IsFiniteSet(Client)
  /\ 0 \notin Client
  /\ Cardinality(Client) < ByteRange
  /\ CountRange \in Nat \ {0}
  /\ MaxEntries \in Nat

VARIABLES
  entries,      \* the entries: identifier and clients
  marked,       \* the entries with a gcFlag other than zero
  updateCount,  \* proxyMap[c].updateCount
  mapping,      \* "new": never used, "active" or "inactive"
  closing,      \* how far deactivateConnectionMapping is for a client
  handler,      \* the request each handler works on
  deleter,      \* the deletion the command thread works on
  mishaps,      \* history: what happened that the counting does not provide for
  raced,        \* history: the entries two threads worked with at a time
  torn          \* history: the clients with two operations at a time

history == <<mishaps, raced, torn>>
vars == <<entries, marked, updateCount, mapping, closing, handler, deleter, history>>

ClientSlot == Client \union {0}
Entry == [id : Update, clients : Seq(ClientSlot)]
Mapping == {"new", "active", "inactive"}
Closing == [step : {"none", "delMapping", "unregister", "visit", "reset"}, next : Nat]
HandlerStep == {"idle", "attach", "count", "unmark", "store", "insert", "refused"}
Request == [step : HandlerStep, client : ClientSlot, id : Update \union {0}, entry : Nat]
Deletion == [step : {"idle", "remove", "mark", "count"}, client : ClientSlot, entry : Nat]
Mishap == {"extended", "late", "reconnected"}

\* The steps at which a handler, the command thread, works with its entry.
Attaching == {"attach", "count", "unmark"}
Deleting == {"remove", "mark"}

TypeOK ==
  /\ entries \in Seq(Entry)
  /\ marked \subseteq DOMAIN entries
  /\ updateCount \in [Client -> 0 .. (CountRange - 1)]
  /\ mapping \in [Client -> Mapping]
  /\ closing \in [Client -> Closing]
  /\ \A c \in Client : closing[c].step = "visit" => closing[c].next \in DOMAIN entries
  /\ handler \in [Handler -> Request]
  /\ \A h \in Handler :
       /\ handler[h].step # "idle" => handler[h].id \in Update
       /\ handler[h].step \in Attaching =>
            handler[h].client # 0 /\ handler[h].entry \in DOMAIN entries
  /\ deleter \in Deletion
  /\ deleter.step # "idle" => deleter.client # 0 /\ deleter.entry \in DOMAIN entries
  /\ mishaps \subseteq Mishap
  /\ raced \subseteq DOMAIN entries
  /\ torn \subseteq Client

Idle == [step |-> "idle", client |-> 0, id |-> 0, entry |-> 0]
NoDeletion == [step |-> "idle", client |-> 0, entry |-> 0]
At(step) == [step |-> step, next |-> 0]

Init ==
  /\ entries = <<>> /\ marked = {}
  /\ updateCount = [c \in Client |-> 0]
  /\ mapping = [c \in Client |-> "new"]
  /\ closing = [c \in Client |-> At("none")]
  /\ handler = [h \in Handler |-> Idle]
  /\ deleter = NoDeletion
  /\ mishaps = {} /\ raced = {} /\ torn = {}

-----------------------------------------------------------------------------
(***************************************************************************)
(* The table, and who works with what.                                     *)
(***************************************************************************)

\* Mutant: an update that waits for the garbage collector is not found.
EntriesOfUnmarked(u) == {e \in DOMAIN entries : entries[e].id = u /\ e \notin marked}

EntriesOf(u) == {e \in DOMAIN entries : entries[e].id = u}

\* tableFind; of several entries with the same key HASH_FIND returns the one
\* that was added last.
TableFind(u) == CHOOSE e \in EntriesOf(u) : \A f \in EntriesOf(u) : f <= e

\* unregisterClientID holds tableLock and itemMutex while it goes through the
\* entries; the others lock only for a look-up or an insertion.
TableFree == \A c \in Client : closing[c].step # "visit"

\* Somebody has looked the entry up and will still read or write it.
Held(e) ==
  \/ \E h \in Handler : handler[h].step \in Attaching /\ handler[h].entry = e
  \/ deleter.step \in Deleting /\ deleter.entry = e

\* An operation that counts for the client is under way.
Open(c) ==
  \/ \E h \in Handler : handler[h].client = c
  \/ deleter.client = c
  \/ closing[c].step # "none"

RacedBy(e) == IF Held(e) THEN raced \union {e} ELSE raced
TornBy(c) == IF Open(c) THEN torn \union {c} ELSE torn

\* What overlapping loops may leave of an array: any slots, and a length that
\* one of them has extended.
AnyArray(s) ==
  UNION {[1 .. n -> ClientSlot] : n \in {Len(s), (Len(s) + MinClients) % ByteRange}}

\* The arrays a loop may leave in the entry e that would leave s if undisturbed.
ArraysAfter(e, s, race) == IF e \in race THEN AnyArray(entries[e].clients) ELSE {s}

\* The counts after n was written to the client's.
CountsAfter(c, n) ==
  {[updateCount EXCEPT ![c] = k] :
     k \in IF c \in torn THEN 0 .. (CountRange - 1) ELSE {n % CountRange}}

-----------------------------------------------------------------------------
(***************************************************************************)
(* A handler: processValidationRequest.                                    *)
(***************************************************************************)

\* Mutant: a store-only request is registered like any other.
AfterLookupStoreOnly(c, u) ==
  IF EntriesOf(u) = {} THEN [step |-> "store", client |-> c, id |-> u, entry |-> 0]
  ELSE [step |-> "attach", client |-> c, id |-> u, entry |-> TableFind(u)]

\* How a request goes on after the look-up of getUpdateResult.  A request
\* without validation flags is store only and has no client.
AfterLookup(c, u) ==
  IF EntriesOf(u) = {} THEN [step |-> "store", client |-> c, id |-> u, entry |-> 0]
  ELSE IF c = 0 THEN Idle
  ELSE [step |-> "attach", client |-> c, id |-> u, entry |-> TableFind(u)]

\* processValidationRequest up to that look-up.  A packet may be handled long
\* after its connection went down.
Lookup(h, c, u) ==
  /\ handler[h].step = "idle"
  /\ c # 0 => mapping[c] # "new"
  /\ TableFree
  /\ handler' = [handler EXCEPT ![h] = AfterLookup(c, u)]
  /\ raced' = IF EntriesOf(u) = {} \/ c = 0 THEN raced ELSE RacedBy(TableFind(u))
  /\ IF c = 0 THEN UNCHANGED <<mishaps, torn>>
     ELSE /\ mishaps' = IF mapping[c] = "active" THEN mishaps ELSE mishaps \union {"late"}
          /\ torn' = TornBy(c)
  /\ UNCHANGED <<entries, marked, updateCount, mapping, closing, deleter>>

\* Where _addClientReference goes on after its loop: with the count when it has
\* taken a free slot, with the gcFlag when the client had one, and not at all
\* when the array had to be extended.
AfterLoop(e, s, c) ==
  IF e \in raced THEN {"count", "unmark", "idle"}
  ELSE IF StopSlots(s, c) = {} THEN {"idle"}
  ELSE IF AddCounts(s, c) THEN {"count"} ELSE {"unmark"}

\* The loop of _addClientReference, called by getUpdateResult.
AddClientReference(h) ==
  LET c == handler[h].client
      e == handler[h].entry
      s == entries[e].clients
  IN  /\ handler[h].step = "attach"
      /\ \E t \in ArraysAfter(e, AddReference(s, c), raced) :
           entries' = [entries EXCEPT ![e] = [@ EXCEPT !.clients = t]]
      /\ \E next \in AfterLoop(e, s, c) :
           handler' = [handler EXCEPT ![h] =
             IF next = "idle" THEN Idle ELSE [@ EXCEPT !.step = next]]
      /\ mishaps' = IF StopSlots(s, c) = {} THEN mishaps \union {"extended"} ELSE mishaps
      /\ UNCHANGED <<marked, updateCount, mapping, closing, deleter, raced, torn>>

\* updateCount++ of _addClientReference
CountReference(h) ==
  /\ handler[h].step = "count"
  /\ updateCount' \in CountsAfter(handler[h].client, updateCount[handler[h].client] + 1)
  /\ handler' = [handler EXCEPT ![h] = [@ EXCEPT !.step = "unmark"]]
  /\ UNCHANGED <<entries, marked, mapping, closing, deleter, history>>

\* Mutant: the gcFlag stays.
ResetGCFlagForgotten(h) ==
  /\ handler[h].step = "unmark"
  /\ handler' = [handler EXCEPT ![h] = Idle]
  /\ UNCHANGED <<entries, marked, updateCount, mapping, closing, deleter, history>>

\* gcFlag = 0 of _addClientReference
ResetGCFlag(h) ==
  /\ handler[h].step = "unmark"
  /\ marked' = marked \ {handler[h].entry}
  /\ handler' = [handler EXCEPT ![h] = Idle]
  /\ UNCHANGED <<entries, updateCount, mapping, closing, deleter, history>>

\* storeUpdate looks the update up again, without a lock that lasts.
StoreUpdate(h) ==
  /\ handler[h].step = "store"
  /\ TableFree
  /\ handler' = [handler EXCEPT ![h] =
       [@ EXCEPT !.step = IF EntriesOf(handler[h].id) = {} THEN "insert" ELSE "refused"]]
  /\ UNCHANGED <<entries, marked, updateCount, mapping, closing, deleter, history>>

EmptySlots == [i \in 1 .. MinClients |-> 0]

\* The rest of storeUpdate, under itemMutex: nobody finds the entry before it
\* is complete.  The gcFlag of a store-only entry is a time of day in 16 bits,
\* which may be zero.
Insert(h) ==
  LET c == handler[h].client
      s == IF c = 0 THEN EmptySlots ELSE AddReference(EmptySlots, c)
  IN  /\ handler[h].step = "insert"
      /\ TableFree
      /\ Len(entries) < MaxEntries
      /\ entries' = Append(entries, [id |-> handler[h].id, clients |-> s])
      /\ \/ marked' = marked
         \/ c = 0 /\ marked' = marked \union {Len(entries) + 1}
      /\ IF c = 0 THEN UNCHANGED updateCount
         ELSE updateCount' \in CountsAfter(c, updateCount[c] + 1)
      /\ handler' = [handler EXCEPT ![h] = Idle]
      /\ UNCHANGED <<mapping, closing, deleter, history>>

\* The request is answered with an error and a Goodbye.
Refuse(h) ==
  /\ handler[h].step = "refused"
  /\ handler' = [handler EXCEPT ![h] = Idle]
  /\ UNCHANGED <<entries, marked, updateCount, mapping, closing, deleter, history>>

-----------------------------------------------------------------------------
(***************************************************************************)
(* The command thread: _processDeleteUpdate.                               *)
(***************************************************************************)

\* deleteUpdateFromCache looks the update up; without an entry the answer is an
\* error.
ProcessDeleteUpdate(c, u) ==
  /\ deleter.step = "idle"
  /\ mapping[c] # "new"
  /\ TableFree
  /\ EntriesOf(u) # {}
  /\ deleter' = [step |-> "remove", client |-> c, entry |-> TableFind(u)]
  /\ raced' = RacedBy(TableFind(u))
  /\ torn' = TornBy(c)
  /\ UNCHANGED <<entries, marked, updateCount, mapping, closing, handler, mishaps>>

\* Where a deletion goes on after its loop: nowhere when the client was not
\* listed, with the gcFlag when no other is.
AfterRemoval(e, s, c, race) ==
  IF e \in race THEN {"mark", "count", "idle"}
  ELSE IF c \notin References(s) THEN {"idle"}
  ELSE IF References(s) = {c} THEN {"mark"} ELSE {"count"}

\* _deleteUpdateFromCache_clientMgmt, the loop over the slots.
DeleteClientMgmt ==
  LET c == deleter.client
      e == deleter.entry
      s == entries[e].clients
  IN  /\ deleter.step = "remove"
      /\ \E t \in ArraysAfter(e, RemoveReference(s, c), raced) :
           entries' = [entries EXCEPT ![e] = [@ EXCEPT !.clients = t]]
      /\ \E next \in AfterRemoval(e, s, c, raced) :
           deleter' = IF next = "idle" THEN NoDeletion ELSE [deleter EXCEPT !.step = next]
      /\ UNCHANGED <<marked, updateCount, mapping, closing, handler, history>>

\* setGCFlag: the flag is a time of day in 16 bits, which may be zero.
MarksAfter(e) == {marked \union {e}, marked \ {e}}

SetGCFlag ==
  /\ deleter.step = "mark"
  /\ marked' \in MarksAfter(deleter.entry)
  /\ deleter' = [deleter EXCEPT !.step = "count"]
  /\ UNCHANGED <<entries, updateCount, mapping, closing, handler, history>>

\* Mutant: the count of the mapping stays.
CountDeletionForgotten ==
  /\ deleter.step = "count"
  /\ deleter' = NoDeletion
  /\ UNCHANGED <<entries, marked, updateCount, mapping, closing, handler, history>>

\* updateCount-- of _processDeleteUpdate
CountDeletion ==
  /\ deleter.step = "count"
  /\ updateCount' \in CountsAfter(deleter.client, updateCount[deleter.client] - 1)
  /\ deleter' = NoDeletion
  /\ UNCHANGED <<entries, marked, mapping, closing, handler, history>>

-----------------------------------------------------------------------------
(***************************************************************************)
(* Connections.                                                            *)
(***************************************************************************)

\* addMapping activates the mapping, for a new proxy or for one that returns.
Connect(c) ==
  /\ mapping[c] # "active"
  /\ mapping' = [mapping EXCEPT ![c] = "active"]
  /\ mishaps' = IF closing[c].step = "none" THEN mishaps ELSE mishaps \union {"reconnected"}
  /\ UNCHANGED <<entries, marked, updateCount, closing, handler, deleter, raced, torn>>

\* deactivateConnectionMapping, after a Goodbye or the loss of the connection.
Deactivate(c) ==
  /\ mapping[c] # "new"
  /\ closing[c].step = "none"
  /\ mapping' = [mapping EXCEPT ![c] = "inactive"]
  /\ closing' = [closing EXCEPT ![c] = At("delMapping")]
  /\ torn' = TornBy(c)
  /\ UNCHANGED <<entries, marked, updateCount, handler, deleter, mishaps, raced>>

\* _delMapping tests the activation and the count.
DelMapping(c) ==
  /\ closing[c].step = "delMapping"
  /\ closing' = [closing EXCEPT ![c] =
       At(IF mapping[c] # "active" /\ updateCount[c] > 0 THEN "unregister" ELSE "reset")]
  /\ UNCHANGED <<entries, marked, updateCount, mapping, handler, deleter, history>>

\* unregisterClientID locks tableLock and itemMutex.
LockTable(c) ==
  /\ closing[c].step = "unregister"
  /\ TableFree
  /\ closing' = [closing EXCEPT ![c] =
       IF entries = <<>> THEN At("reset") ELSE [step |-> "visit", next |-> 1]]
  /\ UNCHANGED <<entries, marked, updateCount, mapping, handler, deleter, history>>

\* Mutant: the search ends one update too early.
VisitEndsEarly(n, e) == n <= 1 \/ e = Len(entries)

\* The loop of unregisterClientID ends with the last entry, or as soon as the
\* count of the mapping has reached zero.
VisitEnds(n, e) == n = 0 \/ e = Len(entries)

\* One turn of that loop: _deleteUpdateFromCache and updateCount--.  The locks
\* do not keep out who has looked the entry up before.
UnregisterClientID(c) ==
  LET e == closing[c].next
      s == entries[e].clients
  IN  /\ closing[c].step = "visit"
      /\ raced' = RacedBy(e)
      /\ \E t \in ArraysAfter(e, RemoveReference(s, c), raced') :
           entries' = [entries EXCEPT ![e] = [@ EXCEPT !.clients = t]]
      /\ \E next \in AfterRemoval(e, s, c, raced') :
           /\ marked' \in IF next = "mark" THEN MarksAfter(e) ELSE {marked}
           /\ updateCount' \in IF next = "idle" THEN {updateCount}
                               ELSE CountsAfter(c, updateCount[c] - 1)
      /\ closing' = [closing EXCEPT ![c] =
           IF VisitEnds(updateCount'[c], e) THEN At("reset")
           ELSE [step |-> "visit", next |-> e + 1]]
      /\ UNCHANGED <<mapping, handler, deleter, mishaps, torn>>

\* The last statement of deactivateConnectionMapping.
ResetCount(c) ==
  /\ closing[c].step = "reset"
  /\ updateCount' \in CountsAfter(c, 0)
  /\ closing' = [closing EXCEPT ![c] = At("none")]
  /\ UNCHANGED <<entries, marked, mapping, handler, deleter, history>>

HandlerAction(h) ==
  \/ \E c \in ClientSlot, u \in Update : Lookup(h, c, u)
  \/ AddClientReference(h)
  \/ CountReference(h)
  \/ ResetGCFlag(h)
  \/ StoreUpdate(h)
  \/ Insert(h)
  \/ Refuse(h)

DeleterAction ==
  \/ \E c \in Client, u \in Update : ProcessDeleteUpdate(c, u)
  \/ DeleteClientMgmt
  \/ SetGCFlag
  \/ CountDeletion

ConnectionAction(c) ==
  \/ Connect(c)
  \/ Deactivate(c)
  \/ DelMapping(c)
  \/ LockTable(c)
  \/ UnregisterClientID(c)
  \/ ResetCount(c)

Next ==
  \/ \E h \in Handler : HandlerAction(h)
  \/ DeleterAction
  \/ \E c \in Client : ConnectionAction(c)

Spec == Init /\ [][Next]_vars

-----------------------------------------------------------------------------
(***************************************************************************)
(* Properties.                                                             *)
(***************************************************************************)

\* In every entry that no two threads worked with at a time, the used slots are
\* at the front and no client has two of them: _addClientReference relies on it
\* when it stops at the first free slot, _deleteUpdateFromCache_clientMgmt when
\* it removes one slot only.
SlotsAreCompact == \A e \in DOMAIN entries \ raced : Compact(entries[e].clients)

\* An entry that is marked for the garbage collector has no clients, but for a
\* client whose registration is under way and will clear the mark - unless a
\* deletion and a registration worked with the entry at a time.
MarkedIsUnused ==
  \A e \in marked \ raced :
    \/ References(entries[e].clients) = {}
    \/ \E h \in Handler : handler[h].step \in {"count", "unmark"} /\ handler[h].entry = e

\* storeUpdate stores an update once: the second look-up finds it.
StoredOnce ==
  \A e, f \in DOMAIN entries : entries[e].id = entries[f].id => e = f

\* No request is answered with an error because storeUpdate finds the update
\* that the look-up before it did not find.
NobodyIsRefused == \A h \in Handler : handler[h].step # "refused"

\* The updates of raced entries, and the pairs of a client and another update
\* it listens to.
Spoilt == {entries[e].id : e \in raced}
Registered ==
  UNION {{<<c, entries[e].id>> : c \in References(entries[e].clients)} :
           e \in {f \in DOMAIN entries : entries[f].id \notin Spoilt}}
Listeners == INSTANCE Registration WITH registered <- Registered, spoilt <- Spoilt

\* The clients registered for an update are exactly those that asked for it
\* and did not withdraw: slot arrays implement the set of registrations.  An
\* overlap of two loops over one entry costs the registrations of that update
\* and of no other.
ImplementsRegistration == Listeners!Spec

\* The entries that list a client.
Listing(c) == {e \in DOMAIN entries : c \in References(entries[e].clients)}

CountIsExact(c) == updateCount[c] = Cardinality(Listing(c)) % CountRange

\* Between two operations of a client, updateCount is the number of updates
\* that list it, as long as no array was extended, no packet of a closed
\* connection was handled, no client returned in the middle of its
\* deactivation, and neither an entry nor the client was used by two threads at
\* a time.
CountsWithoutMishap ==
  mishaps = {} /\ raced = {} =>
    \A c \in Client \ torn : ~Open(c) => CountIsExact(c)

\* The number of updates assigned to a client includes those whose array of
\* clients was extended for it.
CountsWithExtension ==
  mishaps \subseteq {"extended"} /\ raced = {} =>
    \A c \in Client \ torn : ~Open(c) => CountIsExact(c)

\* A client that is gone is not listed any more, as long as nothing happened
\* that the counting does not provide for: the search of unregisterClientID,
\* which ends when the count is used up, has then found every update.
GoneIsUnlisted ==
  mishaps = {} /\ raced = {} =>
    \A c \in Client \ torn :
      mapping[c] = "inactive" /\ closing[c].step = "none" => Listing(c) = {}

\* unregisterClientID removes the client from all updates, also from those
\* whose array of clients was extended for it.
GoneIsUnlistedAlways ==
  mishaps \subseteq {"extended"} /\ raced = {} =>
    \A c \in Client \ torn :
      mapping[c] = "inactive" /\ closing[c].step = "none" => Listing(c) = {}

\* A changed result is sent to every active client registered for the update.
ListenersAreNotified ==
  \A e \in DOMAIN entries \ raced : \A c \in References(entries[e].clients) :
    mapping[c] = "active" => c \in BroadcastTargets(entries[e].clients)
=============================================================================
