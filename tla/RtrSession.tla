----------------------------- MODULE RtrSession -----------------------------
(***************************************************************************)
(* The RPKI-to-router session: the router client of the SRx server, which  *)
(* is its RPKI thread, and the validation cache of the repository (the     *)
(* test harness rpkirtr_svr), with the connection between them.            *)
(*                                                                         *)
(* The client starts every connection with a Reset Query, polls one PDU to *)
(* see that the cache answers, and then follows the cache: a Serial Notify *)
(* makes it ask for what is new since its serial number.  The connection   *)
(* may be lost and the cache may stop and start again at any time.         *)
(*                                                                         *)
(* Objects are ROAs; keys and ASPA objects travel the same way.  The       *)
(* prefix cache is the number of times each ROA is installed.  A PDU       *)
(* arrives whole or not at all, and no PDU is malformed.  The error        *)
(* reports of the client are left out, the cache only prints them.         *)
(* Removing a range of entries is the removal of each; "add now" and       *)
(* "remove now" are the change followed by a notify.  The operator does    *)
(* not announce again what is announced; the harness would not object.     *)
(*                                                                         *)
(* cache.lock is held for writing in one step.  While it is held for       *)
(* reading, by the answer to a query or by the console, other steps that   *)
(* need no write lock come in between.                                     *)
(***************************************************************************)
EXTENDS Integers, Sequences, FiniteSets, SequencesExt

CONSTANTS
  Roa,
  MaxErrCt,      \* RRC_MAX_ERRCT
  MaxSession,    \* bound on session ids
  MaxCommands,   \* bound on the commands given to the cache
  MaxFaults      \* bound on lost connections, stops and stuck timers of the cache

ASSUME RtrSessionAssumption ==
  /\ IsFiniteSet(Roa)
  /\ MaxErrCt \in Nat \ {0}
  /\ MaxSession \in Nat /\ MaxCommands \in Nat /\ MaxFaults \in Nat

VARIABLES
  \* the cache
  running,       \* whether the process runs
  session,       \* sessionID
  entries,       \* cache.entries
  maxSerial,     \* cache.maxSerial
  expired,       \* cache.minPSExpired and cache.maxSExpired
  change,        \* how far the console is with a change of the entries
  numBefore,     \* of appendPrefixData
  stuck,         \* the timer has interrupted a thread that holds cache.lock
  notify,        \* service.notify
  sending,       \* the rest of the answer sendCacheObjects is sending
  greeted,       \* whether the version of the client is known
  \* the connection
  up,
  toCache,
  toClient,
  \* the client
  client,
  installed,     \* roa_count of each ROA in the prefix cache
  \* bounds and history
  commands, faults,
  trail,         \* whether the client's data can be relied on
  miscounted,    \* maxSerial has not followed the entries
  foreign,       \* the client's serial number is one of a cache that has stopped
  forgotten      \* a pending notify was dropped because of another query

cacheData == <<session, entries, maxSerial, expired, change, numBefore, stuck, miscounted>>
cacheVars == <<running, cacheData, notify, sending, greeted>>
linkVars == <<up, toCache, toClient>>
clientVars == <<client, installed>>
historyVars == <<commands, faults, trail, foreign, forgotten>>
vars == <<cacheVars, linkVars, clientVars, historyVars>>

Session == 0 .. MaxSession
Serial == 0 .. MaxCommands
UINT32_MAX == MaxCommands + 1   \* larger than every serial number
NoneExpired == [min |-> UINT32_MAX, max |-> 0]

Entry == [roa : Roa, serial : Serial, prevSerial : Serial, announced : BOOLEAN]
Query == [type : {"reset query"}]
         \union [type : {"serial query"}, session : Session, serial : Serial]
Part == [type : {"response", "end of data", "cache reset"}]
        \union [type : {"object"}, roa : Roa, announced : BOOLEAN]
Pdu == [type : {"notify"}, session : Session, known : BOOLEAN]
       \union [type : {"response"}, session : Session]
       \union [type : {"object"}, roa : Roa, announced : BOOLEAN]
       \union [type : {"end of data"}, session : Session, serial : Serial]
       \union [type : {"cache reset", "error"}]

Receiving == {"handshake", "loop", "reload"}
Position == Receiving \union {"query", "requery", "lost", "stopped", "crashed"}
PduType == {"notify", "response", "object", "end of data", "cache reset", "error"}
ErrCount == 0 .. MaxErrCt
ClientState == [at : Position, fd : BOOLEAN, startup : BOOLEAN, changed : BOOLEAN,
                session : Session, serial : Serial, lastRecv : PduType,
                errCount : ErrCount, newest : BOOLEAN]

TypeOK ==
  /\ running \in BOOLEAN /\ session \in Session
  /\ entries \in Seq(Entry) /\ maxSerial \in Serial
  /\ expired \in [min : Serial \union {UINT32_MAX}, max : Serial]
  /\ change \in {"none", "counted", "listed", "numbered"} /\ numBefore \in Nat
  /\ stuck \in BOOLEAN /\ miscounted \in BOOLEAN
  /\ notify \in BOOLEAN /\ sending \in Seq(Part) /\ greeted \in BOOLEAN
  /\ up \in BOOLEAN /\ toCache \in Seq(Query) /\ toClient \in Seq(Pdu)
  /\ client \in ClientState
  /\ installed \in [Roa -> Nat]
  /\ commands \in 0 .. MaxCommands /\ faults \in 0 .. MaxFaults
  /\ trail \in {"new", "exact", "blurred", "astray"}
  /\ foreign \in BOOLEAN /\ forgotten \in BOOLEAN

\* createRPKIRouterClient; its session id is unknown until startup is over.  The
\* structure is static: lastRecv is 0, the type of a Serial Notify.  A version
\* other than the newest one is configured.
Init ==
  /\ running \in BOOLEAN /\ session = 0
  /\ entries = <<>> /\ maxSerial = 0 /\ expired = NoneExpired
  /\ change = "none" /\ numBefore = 0 /\ stuck = FALSE /\ miscounted = FALSE
  /\ notify = FALSE /\ sending = <<>> /\ greeted = FALSE
  /\ up = running /\ toCache = <<>> /\ toClient = <<>>
  /\ \E newest \in BOOLEAN :
       client = [at |-> "query", fd |-> running, startup |-> TRUE, changed |-> FALSE,
                 session |-> 0, serial |-> 0, lastRecv |-> "notify", errCount |-> 0,
                 newest |-> newest]
  /\ installed = [r \in Roa |-> 0]
  /\ commands = 0 /\ faults = 0 /\ trail = "new"
  /\ foreign = FALSE /\ forgotten = FALSE

-----------------------------------------------------------------------------
(***************************************************************************)
(* The cache.                                                              *)
(***************************************************************************)
\* The elements of a sequence at some of its positions, in their order.
InOrder(K) ==
  CHOOSE f \in [1 .. Cardinality(K) -> K] :
    Range(f) = K /\ \A i, j \in DOMAIN f : i < j => f[i] < f[j]
Select(es, K) == LET f == InOrder(K) IN [i \in 1 .. Cardinality(K) |-> es[f[i]]]

IsAnnounced(r) == \E i \in DOMAIN entries : entries[i].roa = r /\ entries[i].announced
ToClient(pdu) == toClient' = IF up THEN Append(toClient, pdu) ELSE toClient

\* A command of the operator; the console is one thread.
Command ==
  /\ running /\ change = "none" /\ commands < MaxCommands
  /\ commands' = commands + 1
  /\ UNCHANGED <<running, stuck, miscounted, greeted, up, toCache, clientVars, faults, foreign>>

\* A change needs the write lock; an answer that is sent holds the read lock.
WriteLock == sending = <<>> /\ ~stuck
Change ==
  /\ Command /\ WriteLock
  /\ UNCHANGED <<session, expired, numBefore, notify, sending, toClient, forgotten>>

\* appendPrefixData, under the read lock.  changeReadToWriteLock releases it.
CountEntries ==
  /\ Command /\ \E r \in Roa : ~IsAnnounced(r)
  /\ numBefore' = Len(entries)
  /\ change' = "counted"
  /\ UNCHANGED <<session, entries, maxSerial, expired, notify, sending, toClient, trail, forgotten>>

\* readPrefixData, under the write lock: the entry is in the list, with a serial
\* number that is not yet the one of the cache.
AppendPrefix(r) ==
  /\ change = "counted" /\ WriteLock /\ ~IsAnnounced(r)
  /\ entries' = Append(entries, [roa |-> r, serial |-> maxSerial + 1,
                                 prevSerial |-> maxSerial + 1, announced |-> TRUE])
  /\ change' = "listed"
  /\ UNCHANGED <<running, session, maxSerial, expired, numBefore, stuck, miscounted, notify,
                 sending, greeted, linkVars, clientVars, historyVars>>

\* The end of appendPrefixData, under the read lock again: meanwhile queries are
\* answered, and the timer may have deleted withdrawals.  (Below 0 the serial
\* number wraps round; only a second wrong count comes there.)
RaiseSerial ==
  LET numAdded == Len(entries) - numBefore
  IN  /\ change = "listed"
      /\ maxSerial' = Max({0, maxSerial + numAdded})
      /\ change' = IF numAdded = 0 THEN "none" ELSE "numbered"
      /\ numBefore' = 0
      /\ miscounted' = (miscounted \/ numAdded # 1)
      /\ UNCHANGED <<running, session, entries, expired, stuck, notify, sending, greeted,
                     linkVars, clientVars, historyVars>>

\* Mutant: the clients are not told.
RequestNothing ==
  /\ change = "numbered"
  /\ change' = "none"
  /\ UNCHANGED <<running, session, entries, maxSerial, expired, numBefore, stuck, miscounted,
                 notify, sending, greeted, linkVars, clientVars, historyVars>>

\* The end of every change, without a lock.
RequestNotify ==
  /\ change = "numbered"
  /\ notify' = TRUE /\ forgotten' = FALSE
  /\ change' = "none"
  /\ UNCHANGED <<running, session, entries, maxSerial, expired, numBefore, stuck, miscounted,
                 sending, greeted, linkVars, clientVars, commands, faults, trail, foreign>>

\* processEntryRemoval: the entry becomes a withdrawal and moves to the end.
RemoveEntry(i) ==
  /\ Change /\ entries[i].serial = entries[i].prevSerial
  /\ maxSerial' = maxSerial + 1
  /\ entries' = Append(Select(entries, DOMAIN entries \ {i}),
                       [entries[i] EXCEPT !.serial = maxSerial + 1, !.announced = FALSE])
  /\ change' = "numbered"
  /\ UNCHANGED trail

\* emptyCache: nobody is told.
EmptyCache ==
  /\ Change
  /\ entries' = <<>>
  /\ trail' = IF entries = <<>> \/ trail = "astray" THEN trail ELSE "blurred"
  /\ UNCHANGED <<maxSerial, change>>

\* sendPDUWithSerial; before its first query the version of a client is -1.
Notify(s) == [type |-> "notify", session |-> s, known |-> greeted]

\* sendSerialNotifyToAllClients
SendSerialNotify ==
  /\ Command
  /\ ToClient(Notify(session))
  /\ UNCHANGED <<cacheData, notify, sending, trail, forgotten>>

\* processSessionID
ChangeSession(s) ==
  /\ Command /\ s >= session /\ s > 0
  /\ session' = s
  /\ ToClient(Notify(s))
  /\ UNCHANGED <<entries, maxSerial, expired, change, numBefore, notify, sending, trail,
                 forgotten>>

\* sendCacheResetToAllClients, sendErrorReport
SendUnasked(type) ==
  /\ Command
  /\ ToClient([type |-> type])
  /\ UNCHANGED <<cacheData, notify, sending, trail, forgotten>>

\* The signal of the timer may come to a thread that holds the read lock: to one
\* that sends an answer, raises maxSerial or prints the cache, at any time.  The
\* handler then waits for the write lock, and so for its own thread, for ever.
TimerBlocks ==
  /\ running /\ ~stuck
  /\ stuck' = TRUE
  /\ faults < MaxFaults /\ faults' = faults + 1
  /\ UNCHANGED <<running, session, entries, maxSerial, expired, change, numBefore, miscounted,
                 notify, sending, greeted, linkVars, clientVars, commands, trail, foreign,
                 forgotten>>

\* serviceTimerExpired: the withdrawals up to some age are deleted
\* (deleteExpiredEntriesFromCache, with its write lock), then the clients are told.
TimerExpired(age) ==
  LET old == {i \in DOMAIN entries : ~entries[i].announced /\ entries[i].serial <= age}
  IN  /\ running /\ WriteLock /\ (old # {} \/ notify)
      /\ expired' = [min |-> Min({expired.min} \union {entries[i].prevSerial : i \in old}),
                     max |-> Max({expired.max} \union {entries[i].serial : i \in old})]
      /\ entries' = Select(entries, DOMAIN entries \ old)
      /\ notify' = FALSE
      /\ IF notify THEN ToClient(Notify(session)) ELSE UNCHANGED toClient
      /\ UNCHANGED <<running, session, maxSerial, change, numBefore, stuck, miscounted, sending,
                     greeted, up, toCache, clientVars, historyVars>>

-----------------------------------------------------------------------------
\* Mutant: a client that knows the announcement only is served.
CheckSerialExclusive(serial) ==
  IF expired.min < expired.max
  THEN serial > expired.min /\ serial <= expired.max
  ELSE ~(serial < expired.min) /\ serial > expired.max

\* checkSerial: the serial number cannot be served because withdrawals since
\* then were deleted.
CheckSerial(serial) ==
  IF expired.min < expired.max
  THEN serial >= expired.min /\ serial <= expired.max
  ELSE ~(serial < expired.min) /\ serial > expired.max

\* Mutant: an announcement counts as one the client has never heard of.
NewSinceKnown(serial) ==
  Select(entries, {i \in DOMAIN entries :
                     entries[i].serial > serial /\ entries[i].prevSerial <= serial})

\* The entries newer than the serial number, without withdrawals of what was
\* never announced to the client.
NewSince(serial) ==
  Select(entries, {i \in DOMAIN entries :
                     /\ entries[i].serial > serial
                     /\ \/ entries[i].serial = entries[i].prevSerial
                        \/ entries[i].prevSerial <= serial})

Current == Select(entries, {i \in DOMAIN entries : entries[i].announced})

Answer(es) ==
  <<[type |-> "response"]>>
  \o [i \in DOMAIN es |-> [type |-> "object", roa |-> es[i].roa, announced |-> es[i].announced]]
  \o <<[type |-> "end of data"]>>

\* sendCacheObjects: a query of another session is dropped without an answer
\* (dropSession does nothing).
Response(q) ==
  IF q.type = "reset query" THEN Answer(Current)
  ELSE IF q.session # session THEN <<>>
  ELSE IF CheckSerial(q.serial) THEN <<[type |-> "cache reset"]>>
  ELSE Answer(NewSince(q.serial))

\* handleClient
HandleQuery ==
  /\ running /\ toCache # <<>> /\ sending = <<>>
  /\ toCache' = Tail(toCache)
  /\ notify' = FALSE
  /\ greeted' = TRUE
  /\ sending' = Response(Head(toCache))
  /\ UNCHANGED <<running, cacheData, up, toClient, clientVars, historyVars>>

WithSession(part) ==
  CASE part.type = "response" -> [type |-> "response", session |-> session]
    [] part.type = "end of data" ->
         [type |-> "end of data", session |-> session, serial |-> maxSerial]
    [] OTHER -> part

\* The PDUs of an answer are sent one by one; the session id is read for each, and
\* the serial number for the End of Data.  If that is not yet the one of the last
\* entry, the next answer repeats the entry.
SendPdu ==
  /\ running /\ sending # <<>>
  /\ toClient' = Append(toClient, WithSession(Head(sending)))
  /\ sending' = Tail(sending)
  /\ trail' = IF Head(sending).type = "end of data" /\ change = "listed" /\ trail = "exact"
              THEN "blurred" ELSE trail
  /\ UNCHANGED <<running, cacheData, notify, greeted, up, toCache, clientVars, commands,
                 faults, foreign, forgotten>>

\* A query of another router, or one left over from a closed connection, clears
\* the flag for all.
OtherQuery ==
  /\ running /\ notify
  /\ notify' = FALSE
  /\ forgotten' = TRUE
  /\ UNCHANGED <<running, cacheData, sending, greeted, linkVars, clientVars, commands, faults,
                 trail, foreign>>

-----------------------------------------------------------------------------
(***************************************************************************)
(* Faults.                                                                 *)
(***************************************************************************)

\* What is under way to the client may or may not arrive.
Disconnect ==
  /\ up' = FALSE
  /\ toCache' = <<>>
  /\ \E n \in 0 .. Len(toClient) : toClient' = SubSeq(toClient, 1, n)
  /\ sending' = <<>> /\ greeted' = FALSE
  /\ faults < MaxFaults /\ faults' = faults + 1
  /\ UNCHANGED <<clientVars, commands, trail, forgotten>>

LoseConnection ==
  /\ up
  /\ Disconnect
  /\ UNCHANGED <<running, cacheData, notify, foreign>>

CacheStops ==
  /\ running
  /\ running' = FALSE
  /\ session' = 0 /\ entries' = <<>> /\ maxSerial' = 0 /\ expired' = NoneExpired
  /\ change' = "none" /\ numBefore' = 0 /\ stuck' = FALSE /\ UNCHANGED miscounted
  /\ notify' = FALSE
  /\ foreign' = TRUE
  /\ Disconnect

\* setupCache, setupService: a new process, with session id 0 until a command
\* changes it
CacheStarts ==
  /\ ~running
  /\ running' = TRUE
  /\ UNCHANGED <<cacheData, notify, sending, greeted, linkVars, clientVars, historyVars>>

-----------------------------------------------------------------------------
(***************************************************************************)
(* The client: receivePDUs.                                                *)
(***************************************************************************)
ToCache(query) == toCache' = IF up THEN Append(toCache, query) ELSE toCache

\* An answer is still to come.
Outstanding ==
  toCache # <<>> \/ sending # <<>> \/ \E i \in DOMAIN toClient : toClient[i].type = "end of data"

\* sendResetQuery
SendResetQuery ==
  /\ ToCache([type |-> "reset query"])
  /\ trail' = IF trail = "new" THEN "exact" ELSE "blurred"

\* sendSerialQuery
SendSerialQuery(c) ==
  /\ ToCache([type |-> "serial query", session |-> c.session, serial |-> c.serial])
  /\ trail' = IF foreign \/ trail = "astray" THEN "astray"
              ELSE IF Outstanding THEN "blurred" ELSE trail

\* checkVersion, without downgrade.  During startup every PDU but an error report
\* is accepted; a Serial Notify to a client the cache has not heard of and an
\* error report carry a version of their own.
RefusesVersion(pdu) ==
  \/ pdu.type = "notify" /\ ~pdu.known /\ ~client.startup
  \/ pdu.type = "error" /\ ~client.newest

\* checkSessionID: during startup the session id is taken over.
SessionMatches(s) == client.startup \/ client.session = s
CheckSessionID(s) ==
  IF client.startup
  THEN [client EXCEPT !.startup = FALSE, !.session = s, !.changed = FALSE]
  ELSE [client EXCEPT !.changed = @ \/ client.session # s]

\* What manageConnection does when receivePDUs has returned.  After the handshake
\* it goes by the last PDU that was received, of this connection or an earlier one.
Return(c, error) ==
  CASE c.at = "loop" -> [c EXCEPT !.at = "lost"]
    [] c.at = "reload" -> [c EXCEPT !.at = "query"]
    [] c.at = "handshake" /\ c.lastRecv = "response" -> [c EXCEPT !.at = "loop"]
    [] c.at = "handshake" /\ c.lastRecv = "error" ->
         IF error = "version" THEN [c EXCEPT !.at = "stopped"]
         ELSE [c EXCEPT !.at = IF c.errCount + 1 >= MaxErrCt THEN "stopped" ELSE "lost",
                        !.errCount = @ + 1]
    [] OTHER -> [c EXCEPT !.at = "stopped"]

\* singlePoll: one PDU is enough in the handshake.
Polled(c) == IF c.at = "handshake" THEN Return(c, "none") ELSE c

\* The next PDU is read.  With an End of Data that is accepted the serial number
\* becomes one of the cache at the other end.
Read(type) ==
  /\ client.at \in Receiving
  /\ toClient # <<>> /\ Head(toClient).type = type
  /\ toClient' = Tail(toClient)
  /\ foreign' = (foreign /\ ~(/\ type = "end of data" /\ up
                               /\ SessionMatches(Head(toClient).session)))
  /\ UNCHANGED <<cacheVars, up, commands, faults, forgotten>>
Process(type) == Read(type) /\ ~RefusesVersion(Head(toClient))

\* recvNum fails; lastRecv keeps its value.
ReceiveFails ==
  /\ client.at \in Receiving
  /\ ~up /\ toClient = <<>>
  /\ client' = Return([client EXCEPT !.fd = FALSE], "socket")
  /\ UNCHANGED <<cacheVars, linkVars, installed, historyVars>>

RefuseVersion(type) ==
  /\ Read(type) /\ RefusesVersion(Head(toClient))
  /\ client' = Return([client EXCEPT !.lastRecv = type], "version")
  /\ UNCHANGED <<toCache, installed, trail>>

ReceiveNotify ==
  LET s == Head(toClient).session
      c == [CheckSessionID(s) EXCEPT !.lastRecv = "notify"]
  IN  /\ Process("notify")
      /\ IF SessionMatches(s)
         THEN client' = Polled(c) /\ SendSerialQuery(c)
         ELSE client' = Return(c, "corrupt") /\ UNCHANGED <<toCache, trail>>
      /\ UNCHANGED installed

\* The server provides no sessionIDChangedCallback; it is called all the same.
ReceiveResponse ==
  LET s == Head(toClient).session
      c == [CheckSessionID(s) EXCEPT !.lastRecv = "response"]
  IN  /\ Process("response")
      /\ client' = IF SessionMatches(s) THEN Polled(c) ELSE [client EXCEPT !.at = "crashed"]
      /\ UNCHANGED <<toCache, installed, trail>>

\* Mutant: an unknown ROA is counted down.
ReceiveObjectUnknown ==
  LET pdu == Head(toClient)
  IN  /\ Process("object")
      /\ installed' = [installed EXCEPT ![pdu.roa] = IF pdu.announced THEN @ + 1 ELSE @ - 1]
      /\ client' = Polled([client EXCEPT !.lastRecv = "object"])
      /\ UNCHANGED <<toCache, trail>>

\* handlePrefix: addROAwl, or delROAwl, which ignores an unknown ROA.
ReceiveObject ==
  LET pdu == Head(toClient)
  IN  /\ Process("object")
      /\ installed' = [installed EXCEPT ![pdu.roa] =
                         IF pdu.announced THEN @ + 1 ELSE IF @ > 0 THEN @ - 1 ELSE 0]
      /\ client' = Polled([client EXCEPT !.lastRecv = "object"])
      /\ UNCHANGED <<toCache, trail>>

\* Only the reload after a change of the session returns after the data, and not
\* even the handshake does.
ReceiveEndOfData ==
  LET pdu == Head(toClient)
      c   == [CheckSessionID(pdu.session) EXCEPT !.lastRecv = "end of data"]
      d   == [c EXCEPT !.serial = pdu.serial]
  IN  /\ Process("end of data")
      /\ client' = IF ~SessionMatches(pdu.session) THEN Return(c, "corrupt")
                   ELSE IF client.at = "reload" THEN Return(d, "none") ELSE d
      /\ UNCHANGED <<toCache, installed, trail>>

\* handleReset is not implemented: the ROAs stay.
ReceiveCacheReset ==
  /\ Process("cache reset")
  /\ SendResetQuery
  /\ client' = Polled([client EXCEPT !.lastRecv = "cache reset"])
  /\ UNCHANGED installed

\* handleError keeps the connection, and the loop goes on in the handshake too.
ReceiveError ==
  /\ Process("error")
  /\ client' = [client EXCEPT !.lastRecv = "error"]
  /\ UNCHANGED <<toCache, installed, trail>>

-----------------------------------------------------------------------------
(***************************************************************************)
(* The client: manageConnection.                                           *)
(***************************************************************************)

\* A Reset Query at "from".  On a broken connection it may or may not fail; on
\* a closed one it does.
StartQuery(from, sent, failed) ==
  /\ client.at = from
  /\ \/ /\ client.fd
        /\ client' = [client EXCEPT !.at = sent]
        /\ SendResetQuery
     \/ /\ ~up
        /\ client' = [client EXCEPT !.at = failed]
        /\ UNCHANGED <<toCache, trail>>
  /\ UNCHANGED <<cacheVars, up, toClient, installed, commands, faults, foreign, forgotten>>

ResetQuery == StartQuery("query", "handshake", "lost")
SessionChangedQuery == StartQuery("requery", "reload", "query")

\* reconnectToServer: ten attempts
Reconnect ==
  /\ client.at = "lost"
  /\ client' = [client EXCEPT !.at = IF client.changed THEN "requery" ELSE "query",
                              !.startup = @ \/ client.changed, !.fd = running]
  /\ up' = running
  /\ toCache' = <<>> /\ toClient' = <<>>
  /\ sending' = <<>> /\ greeted' = FALSE
  /\ UNCHANGED <<running, cacheData, notify, installed, historyVars>>

-----------------------------------------------------------------------------
ClientNext ==
  \/ ResetQuery \/ SessionChangedQuery \/ Reconnect
  \/ ReceiveNotify \/ ReceiveResponse \/ ReceiveObject \/ ReceiveEndOfData
  \/ ReceiveCacheReset \/ ReceiveError \/ ReceiveFails
  \/ \E type \in {"notify", "error"} : RefuseVersion(type)

Commands ==
  \/ CountEntries
  \/ \E i \in DOMAIN entries : RemoveEntry(i)
  \/ EmptyCache \/ SendSerialNotify
  \/ \E s \in Session : ChangeSession(s)
  \/ \E type \in {"cache reset", "error"} : SendUnasked(type)

Appends == \E r \in Roa : AppendPrefix(r)
Timer == \E age \in Serial : TimerExpired(age)

Next ==
  \/ ClientNext
  \/ Commands \/ Appends \/ RaiseSerial \/ RequestNotify
  \/ Timer \/ TimerBlocks
  \/ HandleQuery \/ SendPdu \/ OtherQuery
  \/ LoseConnection \/ CacheStops \/ CacheStarts

Spec == Init /\ [][Next]_vars

\* The threads of the client and of the cache, and the cache's timer, go on as
\* long as no thread of the cache is stuck; nothing is assumed of the operator,
\* the network and other routers.
FairSpec ==
  /\ Spec /\ WF_vars(ClientNext)
  /\ WF_vars(Timer)
  /\ WF_vars(~stuck /\ (HandleQuery \/ SendPdu))
  /\ WF_vars(~stuck /\ (RaiseSerial \/ RequestNotify))

-----------------------------------------------------------------------------
(***************************************************************************)
(* Properties.                                                             *)
(***************************************************************************)

\* The client follows the cache and has heard all it has to say.
Synchronized ==
  /\ up /\ client.at = "loop" /\ change # "listed"
  /\ toCache = <<>> /\ sending = <<>> /\ toClient = <<>>
  /\ client.session = session /\ client.serial = maxSerial

\* A synchronized client has every ROA the cache announces, whatever was lost,
\* repeated, reset or restarted before - unless it has asked the cache with the
\* serial number of an earlier one, or the timer has deleted entries while the
\* cache counted its new ones (sendCacheObjects, appendPrefixData, receivePDUs).
NothingIsMissing ==
  Synchronized /\ trail # "astray" /\ ~miscounted => \A r \in Roa : IsAnnounced(r) => installed[r] > 0

\* A synchronized client has exactly the ROAs the cache announces, each once,
\* as long as it needed one Reset Query only, its queries did not overlap, no
\* End of Data came between a new entry and its serial number, new entries were
\* counted right and the cache was not emptied: the serial numbers, the order of
\* the entries and the bounds of the deleted withdrawals are right.
FollowsExactly ==
  Synchronized /\ trail = "exact" /\ ~miscounted =>
    \A r \in Roa : installed[r] = IF IsAnnounced(r) THEN 1 ELSE 0

\* In the end the client is synchronized, unless it has given up, the cache does
\* not run or is stuck in its timer, or the notify it waits for was dropped.
ClientSettles ==
  <>[](\/ Synchronized \/ ~running \/ stuck \/ forgotten
       \/ client.at \in {"stopped", "crashed"})

\* Not so: the same without exception.  A cache that has started again uses its
\* old session id, and the client its old serial number until the End of Data.
NothingIsEverMissing ==
  Synchronized => \A r \in Roa : IsAnnounced(r) => installed[r] > 0

\* Not so: a ROA the cache has withdrawn is not installed.  handleReset does not
\* "remove or flag all ROAS", and a ROA that is announced again counts twice.
NothingIsStale ==
  Synchronized => \A i \in DOMAIN entries :
                    installed[entries[i].roa] > 0 => IsAnnounced(entries[i].roa)

\* Not so: a new session of the cache does not end the server.
NeverCrashes == client.at # "crashed"

\* Not so: the client "tries to keep the connection up".
KeepsTheConnectionUp == client.at # "stopped"

\* Not so: "no need to send the notify anymore" after any query.
ClientSettlesAlways ==
  <>[](Synchronized \/ ~running \/ stuck \/ client.at \in {"stopped", "crashed"})

\* Not so: the timer of the cache always comes back.
ClientSettlesUnstuck ==
  <>[](Synchronized \/ ~running \/ forgotten \/ client.at \in {"stopped", "crashed"})
=============================================================================
