# The SRx server in TLA+

These modules model the server of BGP Secure Routing Extension (SRx): the program
in `src/srx-server/src/server` that validates BGP updates for routers. A router
talks to it through the proxy API (`client/`), the server answers from its caches,
and it sends a notification whenever a result changes, for example because the
RPKI data changed. The server is a C program with several threads and few locks;
most of what can go wrong in it needs two threads, or a connection that ends at an
unlucky moment. The models follow the default TCP build (`USE_GRPC` undefined).

Contents: 1 inventory, 2 modules, 3 runs, 4 findings, 5 proofs, 6 what is only
model-checked, 7 what is not modelled, 8 plan.

Paths below are relative to `src/srx-server/src`. `SCH` is
`server/server_connection_handler.c`, `CH` `server/command_handler.c`, `CQ`
`server/command_queue.c`, `UC` `server/update_cache.c`, `PS`
`server/srx_packet_sender.c`, `RC` `server/rpki_router_client.c`, `SV`
`tools/rpkirtr_svr.c`.

## 1. Inventory

| Component | State | Operations | Correct means |
|---|---|---|---|
| Connection management (`SCH`, `util/server_socket.c`) | `proxyMap[256]`, `noMappings`, the lists `clients` and `cthreads`, a `ClientThread` per connection | accept, receive, status callback, `findClientID`, `createClientID`, `addMapping`, `_delMapping`, `deactivateConnectionMapping`, `closeClientConnection` | a proxy has one clientID, a clientID one proxy and one live connection; a Hello is answered or its connection closed |
| Receiver queue (`SCH` 125-423) | list, size, `running`, mutex, condition | add, fetch, stop, release | first in, first out; it ends |
| Command queue (`CQ`) | list, cursor `nextItemNode`, two counters | queue, fetch, delete, remove all, release | every command to one worker, in order, none forgotten |
| Command handler (`CH`) | worker threads | handshake, disconnect, delete update, validation, broadcast, stop | handshakes and disconnects leave a consistent table; a result reaches every listener |
| Update cache (`UC`) | hash table and list of entries, the clients of each entry, gc marks, results, two locks | `getUpdateResult`, `storeUpdate`, `modifyUpdateResult`, `deleteUpdateFromCache`, `unregisterClientID` | one entry per update; a client listens until it withdraws; counts are exact; no deadlock |
| Send queue (`PS`) | as the receiver queue | add, fetch, stop, release | first in, first out; it ends |
| Prefix cache (`prefix_cache.c`) | a trie of prefixes, ROA lists, valid and other updates | request validation, add and delete a ROA | RFC 6811 at all times, whatever the order of ROAs and updates |
| ASPA (`aspa_trie.c`, `aspath_cache.c`, `CH` 384-637) | customer-provider sets, stored AS paths | add, delete, validate upstream and downstream | the ASPA path procedure |
| RPKI (`rpki_queue.c`, `rpki_handler.c`, `rpki_router_client.c`) | a queue of affected updates; session, serial, connection | RTR PDUs, serial and reset queries, reconnect | every change is applied and re-validates exactly the affected updates |
| SKI and key cache, BGPsec handler | keys, updates waiting for keys | register, add and delete a key | an update is re-validated when a key it uses changes |
| Main (`main.c`) | the phases of the program | set-up, `shutDown`, signal handler, `doCleanup` | the end of the server ends, nothing is used after its release |
| Proxy API (`client/`) | connection state, receive thread | connect, handshake, verify, reconnect | a handshake settles; notifications are delivered |
| Test cache (`tools/rpkirtr_svr.c`) | entries with two serials each, `maxSerial`, the bounds of what expired, `notify`, session id | add, remove, empty, notify, change the session, answer queries, timer | a client that follows it ends up with its data |
| Console, configuration, gRPC service, other tools | - | I/O | - |

How they interact. A reader thread per connection puts packets into the receiver
queue; its single thread runs `_handlePacket`, which looks updates up in the cache,
answers at once through the send queue, and puts Hello, Goodbye, Delete Update and
validations into the command queue; the single command thread
(`NUM_COMMAND_HANDLER_THREADS` is 1) executes these. `modifyUpdateResult` calls
`handleUpdateResultChange` back inside `itemMutex`, which broadcasts to the clients
of the entry. The RPKI client thread changes the prefix cache and with it results.
The table of mappings and the arrays of clients are shared by all of these threads
without a lock; `mode_no_receivequeue` removes the receiver queue and lets every
reader thread run `_handlePacket` itself.

Hard behaviours: a connection that is lost while its packets wait in a queue;
reconnects that overlap with the clean-up of the old connection; arrays and
one-byte counters at their limits; commands cleared at shutdown while one is
processed; two locks and callbacks under a lock; the order of releases at the end;
a result that changes between the look-up and the registration of a client;
broadcasts that overtake answers; counters kept by increments while ROAs and
updates come in any order; a validation that writes back what it read before an
End of Data; a cache that restarts with old session ids, a notify that crosses a
query. The
list with lines is under `hazards` in `PROJECT.json`.

## 2. Modules

| Module | Models | Used by |
|---|---|---|
| `ProxyMap` | connections, mapping table, handshake, disconnect, `shutDown` | `MCProxyMap`, `ProxyMapProofs` |
| `FifoChannel` | abstract: a multi-worker channel, commands in order, each to one worker | `CommandQueue` |
| `CommandQueue` | the command queue and the life of its workers | `MCCommandQueue`, `CommandQueueProofs` |
| `PacketQueues` | receiver queue and send queue as a pipeline, and their end | `MCPacketQueues`, `PacketQueuesProofs` |
| `ClientReferences` | the array of clients of a cache entry: the result of adding and removing a client | `UpdateCache`, `SlotLoops` |
| `Registration` | abstract: the set of registered pairs of client and update | `UpdateCache` |
| `UpdateCache` | storing, registering, deleting, unregistering, counting | `MCUpdateCache`, `UpdateCacheProofs` |
| `SlotLoops` | the two loops over the array, assignment by assignment | `MCSlotLoops` (beside the runs) |
| `Notification` | the result of an update on its way to the proxies: answers, validations, RPKI changes, broadcasts | `MCNotification`, `NotificationProofs` |
| `PrefixCache` | origin validation with its counters, and the reference RFC 6811 | `MCPrefixCache`, `PrefixCacheProofs` |
| `AspaValidation` | `validateASPA` as a function, and the draft's definition as reference | `AspaCache` |
| `AspaCache` | ASPA database, AS path cache, ASPA results; three threads | `MCAspaCache`, `AspaCacheProofs` |
| `RtrSession` | router client, test cache and the connection between them | `RtrSession.cfg`, `RtrSessionProofs` |
| `CacheLocks` | `tableLock` and `itemMutex`: the order of the lock calls | `MCCacheLocks`, `UpdateCacheProofs` |

The `MC...` modules instantiate a module for TLC, the `...Proofs` modules hold the
theorems; `RtrSession` needs no definition to be instantiated, and its run checks it
directly. Definitions whose comment begins with "Mutant" are variants of the
definition that follows them, with one plausible mistake; no specification uses
them. For each property one of them is known to break it.

**ProxyMap.** One record per mapping and per `ClientThread`; reader threads, the
receiver thread and the command thread have a program position each. A function is
split where another thread can get between two accesses to the table: the status
callback into `StatusChange` (deactivation), `StatusChangeDelMapping` (the search of
the update cache and the reset in `_delMapping`) and `Leave`; the handshake into
`HandshakeMap` (find or create the clientID, `addMapping`) and `HandshakeAnswer` or
`HandshakeFail`. `pthread_cancel` reaches a reader anywhere in its clean-up, which
`CancelOutcomes` states as a choice. The counter of mappings is taken modulo
`CounterMod`.

**CommandQueue.** The list is the set of its nodes, numbered as appended, so the
cursor may point to a number that is no longer in the list: freed memory. Reading
such a node makes the worker `undefined`. `fetchNextCommand` is split at its
condition wait; `signalCond` wakes one waiting worker if there is one.

**PacketQueues.** The two queues have the same code, so one set of operators
describes both. A stop is three steps: reset `running` and signal; sleep and lock;
join and drain, with the mutex held. The server ends on request (`shutDown`,
`signalReceived`: the receiver queue is stopped, then `doCleanup` releases both
queues and stops the receiver queue again) or because `accept()` fails
(`doCleanup` alone, beside the running threads). The use of a freed queue crashes;
a second join returns or crashes. Nothing is assumed of the length of the sleep: the
stop may take the mutex while its thread is still on the way to it, and then both wait
for ever (`StopBlocksItself`). The release of the send queue by the signal handler and the one by
`doCleanup` are one release, the second finds `NULL`. A reader that is cancelled is
taken to be gone when `stopServerLoop` returns.

**UpdateCache.** A registration is the look-up of `getUpdateResult` (`Lookup`), the
loop over the slots (`AddClientReference`), `updateCount++` (`CountReference`) and the
clearing of the mark (`ResetGCFlag`); a deletion by the command thread is its look-up
(`ProcessDeleteUpdate`), the loop (`DeleteClientMgmt`), the mark (`SetGCFlag`) and
`updateCount--` (`CountDeletion`); a deactivation is the test of `_delMapping`, the
locking of the table, one step per entry that `unregisterClientID` visits, and the
reset of the count. `StoreUpdate` is the second look-up in `storeUpdate`, `Insert` the
part under `itemMutex`. Others get between any two of these steps.
`ClientReferences` gives the contents of the array after an undisturbed loop; the
length of the array is taken modulo `ByteRange`, as in its `uint8_t`.

The loops themselves run slot by slot and without a lock. The model takes a loop as one
step only as long as no other thread uses the entry between its own look-up and its last
write. When a second thread begins to (`Held`), the entry is put into `raced`, and from
then on a loop over it may leave any array and may take any of its exits. This
includes more than the code can do, and it includes the use of an array that another
thread has just reallocated, whose outcome is undefined. In the same way the count of a
client with two operations under way at a time is `torn`, and each `++`, `--` or reset
may then leave any value. So the properties exempt the entries and clients on which two
threads really met, and nothing else: what one overlap does to other
entries, other clients and later operations is in the model. The history variable
`mishaps` remembers three more events after which the counts are known to be wrong: an
extension of an array (the new slot is not counted), a request of a client that is
already gone, a reconnect inside a deactivation. One simplification is left: a client has
one deactivation at a time. A Goodbye that meets the loss of its connection can start a
second one, until `_killClientThread` has cancelled the reader; it would tear the client's
count, remove the client again from entries under the same table lock, and reset the count
again. Both count properties exempt a torn client, and for the others such a removal is
a step of `UnregisterClientID` like any other.

**SlotLoops.** A test of a slot and an assignment to one are steps. It connects the
one-step operators of `ClientReferences` with the loops of the code: an undisturbed
loop computes its operator. It also shows that overlapping loops do lose registrations
and leave gaps, which is why `UpdateCache` makes no promise about a raced entry.

**Notification.** One update and the threads that touch its result. The receiver
thread looks the result up (`Lookup`), registers the client, answers and queues a
validation; the send thread delivers the answer; the command thread counts the ROAs of
the prefix (`LookUpPrefix`), appends the update to one of the prefix's lists
(`AppendToPrefix`) and stores the result (`StoreOrigin`) in separate steps; the RPKI
thread flips the verdict of a
ROA or a key, collects reasons in the RPKI queue and works them off at the End of
Data. The locks of the prefix cache are compiled out, so a ROA change may fall between
the count and the append: the count then may or may not contain it, and the
update may be in the wrong list for good (`RoaChangeMiscounted`, `misplaced`). `view` is
what a client was told last. `doubt`, `overwritten`, `misplaced` and `unsaved`
remember the events after which the stored result or a client's may be old; they are set
by the step where it happens, so the properties say that there is no other way.

**PrefixCache.** The trie is reduced to the relation "less specific", the prefixes
that have a node and those whose node has data. `RequestUpdateValidation`,
`AddROAwl` and `DelROAwl` are one step each, with every counter and list they
maintain; `Rfc6811` computes the result from the ROAs alone. The recursion of
`_delROAwl_validateUpdates` is stated by the two sets it determines, the prefixes it
visits and those that lose their last ROA, with an equation for each prefix and its
parent (`RevalidateUpdates`); `Total` is the number of announcements of a set of
ROAs. A ROA that is announced twice before a more specific prefix is created is counted once there,
which `miscounted` remembers.

**AspaValidation, AspaCache.** `up` and `down` are the answers of the look-ups for
the hops of a path; `KVal`, `LVal` and `Interim` are the loops of `validateASPA` as
first and last elements of sets. `AspaCache` adds the database, where the withdrawal
of AS 1 frees the trie below it and so the object of AS 12 (`Extension`), the AS
path cache, and the clock in seconds by which the End of Data decides which paths
to validate again. `doubt` are the updates for which a thread wrote back a copy it
had read earlier, or which the End of Data skips.

**RtrSession.** Both ends of the RPKI-to-router connection. `manageConnection` and
`receivePDUs` are the positions of `client.at`: "handshake" is the single poll after
the Reset Query, "loop" the receiving afterwards, "reload" the one after a change of
session; `Return` is what follows when `receivePDUs` returns, decided by the last
PDU type, which may be one of an earlier connection. On the cache's side an answer
is a sequence of PDUs that is sent one by one (`sending`); the read lock keeps
changes of the entries out meanwhile, but not a new session id, a notify or an
unasked Cache Reset. An announcement at the console has four stages, because
`appendPrefixData` gives its lock up between them: it counts the entries
(`CountEntries`, `SV` 1978), appends under the write lock (`AppendPrefix`), takes the
difference of two counts as the number of new entries and raises `maxSerial`, under the
read lock again (`RaiseSerial`, `SV` 1985), and sets `notify` (`RequestNotify`).
A query answered before `RaiseSerial` ends with the old serial number, so the next answer
repeats the ROA (`trail` is "blurred" then); the timer may delete withdrawals between the two
counts, so that `maxSerial` grows by too little or falls (`miscounted`). The
timer is a `SIGALRM` handler: `TimerBlocks` is the signal that arrives on a thread
that holds `cache.lock` for reading, where the handler waits for its own thread
(`stuck`); no change and no expiry gets the lock after that.
`LoseConnection` cuts both directions at any point, `CacheStops`
and `CacheStarts` are a restart with an empty cache and session id 0. `trail` says
what the history of the client allows to expect: "exact" (one Reset Query, no
overlapping queries, no End of Data ahead of its serial number), "blurred", or "astray"
when it has asked with the serial number of an earlier process of the cache.

**CacheLocks.** Each function of `update_cache.c` is the sequence of its lock calls,
calls made by the callback under the lock included. `tableLock` is a
read-write lock without preference for writers.

## 3. Runs

Deadlock is not checked where the system may come to rest (all packets sent, server
ended).

| Run | Configuration | Instance | Shows |
|---|---|---|---|
| `proxymap` | `MCProxyMap` | 3 connections, 2 proxies, table of 3, counter modulo 3, 4 installations | types; no proxy twice before the counter wraps; the socket of a mapping knows its clientID; an active mapping is not taken over; configured mappings stay |
| `proxymap_live` | `MCProxyMapLive` | 2 connections of 2 proxies, a single clientID, malformed packets, `shutDown`, fairness | every Hello ends in an initialized or a closed connection; entry 0 stays unused, also when the table is full |
| `cmdqueue` | `MCCommandQueue` | 2 workers, 5 commands, oversized data, stop at any moment | types; implements `FifoChannel`; the cursor is the oldest pending item until freed memory is met; `totalItems` is exact until the stop; no lost wake-up; the stop completes |
| `packets` | `MCPacketQueues` | 4 packets, both ways to end | types; nothing is overtaken or repeated; while the server runs nothing is lost and every packet is answered; a requested end is clean; an end completes unless a stop blocks itself |
| `updcache` | `MCUpdateCache` | 2 clients, 2 updates, 1 handler, arrays of 1 | types; one entry per update; exact counts between the operations of a client and no trace of a gone client, mishaps and overlaps aside |
| `updcache_noqueue` | `MCUpdateCacheNoQueue` | 2 handlers, 2 clients, 1 update, arrays of 1 | arrays are compact and marked entries unused where no two threads met; implements `Registration` (an overlap spoils one update only) even if an update is stored twice |
| `cachelocks` | `MCCacheLocks` | handler, command and RPKI thread | somebody can always proceed |
| `notification` | `MCNotification` | 2 clients, 2 requests, 2 RPKI changes, with and without receipt, fairness | the stored origin result is current, the two named races aside; at rest every listener knows the result, the named events aside; a request with a receipt is validated |
| `prefixcache` | `MCPrefixCache` | 4 prefixes, 6 ROAs, 5 updates, 3 announcements | results are those of RFC 6811 and all counters exact, in every order |
| `aspa` | `MCAspaCache` | ASes 1, 3 and 12, 4 updates, 3 paths, 3 PDUs, 2 requests, 1 tick of the clock (1.3 million states) | types; paths are judged as the draft does; after an End of Data no unsupported result, the named races aside; no update is left without a result |
| `rtrsession` | `RtrSession` | 1 ROA, 2 session ids, 3 commands, 1 fault, fairness (1.6 million states) | types; a synchronized client misses no ROA, also after a lost connection; it has exactly the cache's ROAs if it needed one Reset Query and no End of Data was ahead; in the end it is synchronized, has given up, or the cache is stuck |
| `cachelocks_unregister` | `VCacheLocks` | as `cachelocks`, with `unregisterClientID` | violation, see section 4 |

`MCSlotLoops` (3 clients, 2 slots, 1 extension) is kept beside the runs: an
undisturbed loop computes its operator of `ClientReferences`, from every array that
races can leave.

*Bounds.* `MaxElements` 3 leaves two usable clientIDs, one of them configured, and
three connections allow an old, a new and a foreign connection at the same time;
`MaxElements` 2 leaves one for two proxies, so that the table is full. `CounterMod`
3 makes the counter wrap with `MaxInstalls` 4. Five commands for two workers include
every order of two fetched and several waiting items, two deletions out of order
among them. Arrays of one or two slots are extended by the second or third client, and two
clients on one update are what a deletion, a registration and an unregistration need to
meet on one entry. `MCRegular` lets one thing go wrong per behaviour (an overlap on an
entry, on a client, or a mishap): after it every array or count of the victim is
possible, so a second one adds no step of another kind; the proofs have no such bound.
`MaxPackets` 4 is a packet in the hands of each thread and one in each queue. Two
changes in `Notification` are one that a validation reads and one that overtakes
it. The prefixes of `MCPrefixCache` are a chain of three and a neighbour; three
announcements repeat a ROA and add another. ASes 1 and 12 share a digit, the path
over three ASes has two hops. `MCNotification` starts with one of the two verdicts, since
they may be exchanged throughout. In `RtrSession.cfg` three commands suffice for an
announcement, its withdrawal and the next announcement, a notify or a new session, one
fault for a lost connection, a restart or a stuck timer. One ROA shows repetition,
withdrawal and loss; two ROAs were checked as well, with two commands and two faults (0.9
million states) and, for safety only, with three commands and one fault (4.7 million).
The properties proved in section 5 do not depend on bounds.

*Symmetry* is used for connections, clients, updates and handlers in runs that
check safety only, or the abstract safety specification; no constant of these sets
is named by a definition.

*Fairness* is weak fairness of each server thread's own steps, and of the thread
that ends the server once it has begun. The threads are POSIX threads that run in
loops without priorities; their waits end by a signal that is sent under the mutex
(`CQ` 213) or by a timeout (`PS` 306). In `RtrSession` the threads of the client and
of the cache and the cache's interval timer are fair as long as no signal has come to a
thread that holds `cache.lock`; that this happens is never excluded. Nothing is assumed of the
proxies, the operator of the cache, the network and other routers: whether a
packet arrives, a connection is lost, a command is given or a shutdown is requested
is never fair.

## 4. Findings

| Run | What the code does |
|---|---|
| `cachelocks_unregister` | `unregisterClientID` takes the two locks in the other order and deadlocks with storing and with results |

It is quoted with its comment in `PROJECT.json`.

The models contain more of what the code does and a reader may not expect. The
following properties do not hold; TLC ends with a trace that shows why. The `V...`
configurations check theirs as they stand; with an `MC...` configuration, check the
property in place of its own.

| Constants of | Property | What the code does |
|---|---|---|
| `MCProxyMap` | `EstablishedIsMapped` | the late clean-up of an old connection deactivates the proxy's new one |
| `VPacketQueuesStop` | `ShutdownAlwaysCompletes` | a stop joins its thread while it holds the mutex the thread needs; the sleep before it is 2 ms, not 2 s |
| `MCProxyMap` | `UniqueProxyID` | `noMappings` (`uint8_t`) only grows and bounds the scan of `findClientID`; after its wrap a proxy gets a second clientID |
| `MCProxyMap` | `NoActiveZeroMapping` | a handshake between test and reset in `_delMapping` leaves an active mapping with proxyID 0 |
| `MCProxyMap` | `DisconnectDeactivates` | a Hello processed after its connection was lost activates a mapping for ever |
| `VCommandQueueReject` | `CursorInQueue` | rejecting oversized data frees the node at the cursor |
| `VCommandQueueClear` | `CursorInQueue` | `removeAllCommands` frees the node at the cursor |
| `VCommandQueueTotal` | `TotalIsAlwaysListSize` | `removeAllCommands` frees an item that is being processed, which is then freed again |
| `VUpdateCacheTwice` | `StoredOnce` | without the receiver queue an update is stored twice |
| `VUpdateCacheRefused` | `NobodyIsRefused` | without the receiver queue the second request can be answered with an error and a Goodbye |
| `VUpdateCacheCount` | `CountsWithExtension` | a client for which an array was extended is not counted |
| `VUpdateCacheGone` | `GoneIsUnlistedAlways` | the clean-up that relies on the count misses such a client |
| `VUpdateCacheNotify` | `ListenersAreNotified` | with more clients than `minNumberOfClients` a changed result is sent to none of them |
| `VUpdateCacheWrap` | `ImplementsRegistration` | the length of an array wraps in its `uint8_t` and the registrations are lost (scaled to 4) |
| `MCSlotLoops` | `AttachedIsListed` | a deletion that meets a registration loses it |
| `VNotificationStale` | `ListenersKnowTheResult` | a broadcast overtakes the answer of an earlier look-up; the proxy keeps the old result |
| `VNotificationPath` | `StoredPathIsCurrent` | the path result that End of Data computes is broadcast but not stored |
| `VNotificationCrash` | `UpdateDataExists` | an update registered with the SKI cache but not yet in the table is dereferenced by End of Data |
| `VNotificationNoReceipt` | `RequestLeadsToValidation` | a request without receipt for a known, not validated update queues no validation |
| `MCPrefixCache` | `NodeHasData` | a prefix whose last ROA and update are gone keeps a trie node without data, which is dereferenced |
| `MCPrefixCache` | `ResultIsAlwaysRFC6811` | a repeated ROA is counted once by a new prefix, and twice when it is withdrawn |
| `MCAspaCache` | `AllResultsAreCurrent` | a path validated in the second of the End of Data, or written back late, keeps its old result |
| `MCAspaCache` | `DirectionIsRespected` | updates from a customer and from a provider share one path entry and one direction |
| `MCAspaCache` | `AnnouncedIsStored` | the withdrawal of AS 1 frees the object of AS 12 |
| `RtrSession` | `NothingIsEverMissing` | a restarted cache with the old session id is asked with the old serial number, and a ROA is never sent |
| `RtrSession` | `NothingIsStale` | a reset keeps the ROAs; one that is announced again counts twice and survives its withdrawal |
| `RtrSession` | `NeverCrashes` | a Cache Response with another session id calls `sessionIDChangedCallback`, which the server leaves `NULL` |
| `RtrSession` | `KeepsTheConnectionUp` | a notify that crosses the Reset Query, or a connection lost in the handshake, stops the client for good |
| `RtrSession` | `ClientSettlesAlways` | the query of one client clears the pending notify of all |
| `RtrSession` | `ClientSettlesUnstuck` | the handler of the timer's signal waits for the write lock on a thread that holds the read lock, and the cache never notifies again |

Three more are part of `PacketQueues` without a configuration of their own: a
requested end joins the receiver thread twice; after a failing `accept()` an answer
that finds no send queue is dropped (the message says it is sent directly), and the
running threads use the queues while they are released.

## 5. Proofs

All constants are arbitrary within the named assumptions of the modules.

**ProxyMapProofs.** Assumptions: the table has at least one entry, is not larger
than the range of the counter, and the configuration maps clientIDs to proxies.
`TypeCorrect`: the type invariant is inductive; `NextType` has a step per action.
`TableSteps` then says which actions change the table at all and how, so that the
others are proved from four kinds of table step. `ZeroStaysUnused`,
`ConfiguredMappingsStay` and `ActiveMappingIsNotTakenOver` follow from it.
`ProxiesAreUniqueUntilWrap` needs a strengthening: uniqueness is only kept if
`findClientID`, which counts assigned entries and stops after `noMappings` of them,
has seen them all. `UniqueInv` therefore adds that, before the wrap, the number of
assigned entries is at most `noMappings` (which is then the number of
installations). `ScanIsComplete` is the lemma that turns this into "the scan
finds the proxy if it is there".
`SocketsKnowTheirClientIDs` is about a socket that gets into the table once: a
connection has a single Hello, in a queue or in the hands of the command thread
(`HelloIsSingle`), no mapping has its socket before, and while the Hello is being
answered only the mapping it is answered with has (`SocketIsSingle`). Without this
the answer could give a connection a clientID while another active mapping holds
its socket.

**CommandQueueProofs.** Assumption: finitely many workers. `QueueInv` is `TypeOK`,
`CursorIsOldest` (unless the cursor is stale), the order of the numbers, and that
consumed items in the list are held by workers. It gives `QueueTypeCorrect` and
`CursorStaysOldest`. `TotalStaysListSize` adds that, while the queue runs,
`totalItems` is the cardinality of the list, for which it must be finite and every
item to be deleted still be in it. `QueueImplementsChannel` maps
pending items to the channel's content and the workers' items to the items handed
out; each step, the rejection of oversized data and the clearing at the stop
included, is a step of `FifoChannel` or stutters.

**UpdateCacheProofs.** Assumptions: finitely many clients, fewer than `ByteRange`;
initial arrays of at least one and less than `ByteRange` slots. `CacheInv` is
`TypeOK`, `SlotsAreCompact`, and for every entry that is not raced: one thread at most is
between its look-up and its last write (`OneHolder`), a marked entry has no
client but the one that thread is about to unmark (`MarkedIsEmpty`), and an entry about
to be marked has none (`DeletedIsEmpty`). The operators find the first free
slot, so what they return is known only for arrays without gaps and duplicates, and
the mark can be wrong only if somebody registers between the loop of a deletion and its
mark, which `OneHolder` excludes. It gives `CacheTypeCorrect`, `ArraysStayCompact` and
`MarkedStaysUnused`.
`CacheImplementsRegistration` assumes that an array with room for every client
fits into a byte (`Cardinality(Client) + MinClients <= ByteRange`), the bound the
configuration `VUpdateCacheWrap` shows to be necessary; a step registers one client for one
update, removes registrations of one client, its own, or spoils one update
(`RaceSpoils`). `OneHandlerStoresOnce`, for a single handler, adds that a
handler about to insert an update knows it is not stored (`InsertsNew`).
`CountsStayExact` and `GoneStaysUnlisted` hold for any number of
handlers and assume that there are fewer entries than the counter can count
(`MaxEntries < CountRange`; it has 32 bits). Array and count change in different steps, so
`CountInv` says how far they are apart: without mishap and overlap a client that is
not torn has one operation under way at most (`Alone`); count plus a `++` that is still to
come is the number of entries that list it plus a `--` that is still to come
(`Balance`); during a deactivation the count is exact until the reset, every entry that
lists the client is still to be visited, and nobody lists it afterwards. The step
that needs it is `unregisterClientID`, which stops when the count is used up:
with an exact count none is left behind then (`UnregisterCountsRight`). The module also
extends `CacheLocks`, whose specification is
`LocksSpec`. `LockOrderIsSafe`: if no thread runs `unregisterClientID`,
some thread can always take its next lock call, for any number of threads.
The invariant relates the position of a thread in its sequence of calls to the
locks it holds; then the holder of the mutex can proceed unless somebody holds
`tableLock`, and whoever holds `tableLock` can release it.

**PrefixCacheProofs.** Assumptions: finitely many prefixes, ROAs and updates; "less
specific" is transitive, makes a prefix shorter, and two prefixes above one prefix are
comparable (that is what makes the prefixes a tree); the max length of a ROA is not
below the length of its prefix. The theorems are stated for `MaxAdds < CounterRange`:
fewer announcements than the 32 bits of `roa_coverage` count. `TypeInv` adds to `TypeOK`
that the number of announcements is bounded by the steps that made them, that a valid
update has a positive counter, and that prefixes in use have data
(`PrefixCacheTypes`). `ExactInv` says of every state without a miscount that
`state_of_other` of each prefix says whether a ROA is at or above it
(`StateIsRight`), that its counter is the number of announcements that cover it
(`CoverageIsRight`), the same for each update with its list (`MatchIsRight`) and result
(`ResultIsRight`), and that the `update_count` of a ROA is at least the number of
updates it stands for (`UpdatesSuffice`), without which a withdrawal could stop too
early. The functions look at part of the trie only, so each needs a lemma that the
part is enough. `WalkIs`: going up, where the loop stops no ROA further up covers the
prefix, because a ROA that covers it covers what is between (`ReachBetween`).
`AddVisits`: going down, every prefix that must be counted or that has no ROA yet is
visited. `DelVisits`: a prefix that the withdrawal does not visit is not covered by the
ROA and keeps another one above it, and a visited one loses its state exactly if no ROA
is left for it; the proof takes a shortest prefix where this fails and finds its parent
wrong too. `DelTreats`: all updates of the ROA are treated, and none is lost from the
list, since updates of the same prefix and AS have the same counter.
`CountersStayExact` and `ResultsAreRFC6811` follow. That the condition is needed is
shown by `ResultIsAlwaysRFC6811` (section 4).

**AspaCacheProofs.** `DownstreamIsDraft`: for paths of every length and all answers
of the look-ups, the indices K and L of `validateASPA` give the verdict of the
draft; the lemmas characterise K and L as the ends of the attested ways, and the
interim part by the existence of a provable break up followed by one down.
`PathsAreJudgedAsAnnounced` states `ValidationIsDraft` for the specification: the
invariant `DbIsAnnounced` says that the database holds what is announced for every
AS that was not swept, and a verdict only looks at the ASes of its path.
`AspaCacheTypes` needs `HandInv`, which ties what the threads hold to the path cache.
`NoUpdateIsForgotten`: an update without a result has a request, a command or a
thread that is about to give it one (`NoneIsLost`). `EndOfDataSettles`: `CurrentInv`
follows the iteration of `process_ASPA_EndOfData_main` over the table. The database
does not change meanwhile; at each position every update already passed is current
or in doubt (`VisitedAreCurrent`), and a thread that writes after the position went
by writes something current or puts the update in doubt.

**NotificationProofs.** No assumption beyond those of the module; the send queue
and the receipts may be there or not. `OriginInv` says what exists before the update
is in the table (nothing), that at most one look-up is in flight, and that between count
and append the verdict of the look-up is the one of the ROAs unless a change has come in
between; it gives `OriginIsCurrent`. `ListenersInv` adds to it that a result collected for a
broadcast, and the last word on its way to a client, is the current result unless
the client is in doubt; at rest nothing is on its way, and `ListenersKnow` follows.

**PacketQueuesProofs.** `PacketsStayInOrder`: the packets answered, then those with the
send thread, in the send queue, with the receiver thread and in the receiver queue
are one increasing sequence of numbers, and every step of fetching, answering,
dropping and draining keeps this. `RequestedEnd`:
`EndInv` gives for each place in the clean-up which threads have ended and which
queue is stopped or freed (`PlaceTells`); the receiver thread has ended before the
send queue is released. A stop that blocks itself drops nothing either.

**RtrSessionProofs.** Assumption: finitely many ROAs. The answers of the cache are
selections of its entries; `Select` takes the kept positions as a set, and `SelectIs`
shows that such a selection exists and keeps the order (the library's laws of
`SelectSeq` have an operator as parameter). Four invariants build on each other.
`TypeInv` adds to `TypeOK` that a client that has not stopped has errors left and
that `maxSerial` counts commands (`RtrSessionTypes`). The other three hold until new
entries were counted wrong (`miscounted`), and speak of `Newest`: the serial number the
cache is about to have between `AppendPrefix` and `RaiseSerial`, and `maxSerial`
otherwise. `OrderInv`: the serial numbers
of the entries increase up to `Newest`, a ROA is announced again only after its
withdrawal, and no deleted withdrawal is newer than it. `KnowInv` is about a client that follows the cache: for each
announced ROA, either the ROA is installed or on its way and not withdrawn behind
it, or its serial number is larger than every serial number the client has or will
get, so that it will ask for it (`Covered`); it needs that the client's serial number
and those on their way are not beyond the cache's (`SerialsAreKnown`) unless they
are of a cache that has stopped, in which case a Reset Query or its answer is on its
way (`FreshStart`). A client that is synchronized has nothing on its way and nothing
to ask for: `NothingIsEverMissed`. `ExactInv` gives each serial number a meaning:
`Held(r, n)`, whether a client with serial number `n` has ROA `r`, which no later
change of the entries alters, and which the deletion of withdrawals alters only for
serial numbers that `checkSerial` refuses (`ChangeHolds`, `TimerHolds`,
`ServedLacksNothing`). What is installed and on its way leads to what the client's
serial number stands for (`Right`), an answer leads from there to what is announced
(`CurrentLeads`, `NewerLeads`), with each PDU taking a ROA from absent to present or
back (`Leads`); `ClientFollowsExactly` is the case in which nothing is on its way.

## 6. Model-checked only

Liveness (`HelloIsSettled`, `EveryCommandIsProcessed`, `EveryPacketIsAnswered`, both
`ShutdownCompletes`, `ReceiptLeadsToValidation`, `ClientSettles`) is beyond the
prover. Every invariant of the passing runs is stated by a theorem. `SlotLoops` is a
check beside the runs.

## 7. Not modelled

The console, the configuration and the client tools are I/O; the gRPC service is not
part of the default build; the crypto API computes signatures. Quagga (`quagga-srx`)
is a vendored router with patches that call the proxy API: it is most of the lines
of the repository (more than 250,000) and none of the server's logic, so the share of
all lines that these modules cover is small by nature. PDU layouts are formatting;
malformed or truncated RTR PDUs, protocol downgrades and `releaseRPKIRouterClient`
are left out of `RtrSession`, and so is the misuse of the cache's lock in
`sendCacheResetToAllClients`. Failing allocations are left out
everywhere. `MODE_MULTIPLE_CLIENTS` and `MODE_CUSTOM_CALLBACK` of the server socket are not used
by the server. There is no garbage collector in the code, only its marks. The
prefix cache's operations and a single path validation are atomic: the outcome of
two threads meeting inside the trie or of a freed ASPA object is undefined.

In `RtrSession` an operator announces one ROA at a time; keys and ASPA objects are appended
in the same stages (`SV` 2172-2191, 2210-2228). A signal of the timer that comes to a thread
holding the write lock finds `EDEADLK`, which the code ignores; that the handler then changes
the list under the console's hands is undefined and left out. `maxSerial` that a wrong
count takes below 0 stays 0 instead of wrapping round.

Hazards known from reading that no property here settles: `storeUpdate` returns
with `itemMutex` held when an allocation fails (`UC` 582); the comparison of
prefixes in `detectCollision` (`UC` 1377); the node without data in the prefix
cache's trie (`prefix_cache.c` 609, `NodeHasData`); AS numbers of more than five
digits in a six-byte buffer (`rpki_handler.c` 526); `asType` and `asRelType` unset for
IPv6 requests (`SCH` 624); the client closes a pointer value instead of its socket
(`RC` 937).

## 8. Plan

1. `SkiCache`: registration of updates and keys, and its order with the update cache.
2. `ProxyClient`: handshake, reconnect, notifications on the router's side.
3. Collision detection (`UC` 1370-1392) as an operator against equality of the
   announcements.
