----------------------------- MODULE AspaCache -----------------------------
(***************************************************************************)
(* ASPA results: the ASPA database (aspa_trie.c), the AS path cache        *)
(* (aspath_cache.c), the ASPA result of the updates, and the three threads *)
(* that work on them.  The receiver thread stores an update and its path,  *)
(* the command thread validates a path, and the RPKI thread changes the    *)
(* database and, on an End of Data, goes through all updates again.        *)
(* Time is the clock of time(NULL), which counts seconds: any number of    *)
(* steps fit into one.                                                     *)
(*                                                                         *)
(* Requests are for IPv4, ask for a receipt and for ASPA validation, and   *)
(* carry no result of the router.  One validation is one step: a change    *)
(* of the database between two of its look-ups counts as one after it.     *)
(***************************************************************************)
EXTENDS AspaValidation, Sequences, FiniteSets

CONSTANTS
  AS,
  Extension,    \* [AS -> SUBSET AS]: the ASes whose decimal number extends the AS's
  Offer,        \* the provider sets that the ASPA objects of an AS may list
  PathId,
  List,         \* the AS path, its origin first
  IsSequence,   \* whether asType is AS_SEQUENCE, otherwise it is AS_SET
  Update,
  PathOf,       \* the path of an update
  FromProvider, \* the updates that come from a provider or a sibling
  MaxPdus,      \* bound on the number of ASPA PDUs
  MaxRequests,  \* bound on the number of requests
  MaxTime       \* bound on the clock

ASSUME AspaAssumption ==
  /\ Extension \in [AS -> SUBSET AS]
  /\ Offer \in [AS -> SUBSET SUBSET AS]
  /\ List \in [PathId -> Seq(AS)]
  /\ IsSequence \in [PathId -> BOOLEAN]
  /\ PathOf \in [Update -> PathId]
  /\ FromProvider \subseteq Update
  /\ MaxPdus \in Nat /\ MaxRequests \in Nat /\ MaxTime \in Nat

\* A customer has at most one object, the set of its providers.
Object(a) == {{}} \union {{providers} : providers \in Offer[a]}
NoObject == {}
Value == AspaVerdict \union {"undefined"}

VARIABLES
  db,           \* the ASPA object of each customer
  announced,    \* what the validation cache announced and did not withdraw
  swept,        \* history: customers whose object another one's withdrawal freed
  pathResult,   \* the AS path cache, "none" where it has no entry
  pathDown,     \* asRelDir of the entry
  modified,     \* lastModified of the entry
  table,        \* the updates in the update cache, in their order of iteration
  result,       \* aspaResult of their entries
  receiver, commands, command, rpki,
  clock, pdus, requests,
  settled,      \* history: an End of Data was processed after the last change
  doubt         \* history: updates with a result the database may not support

dbVars == <<db, announced, swept>>
pathVars == <<pathResult, pathDown, modified>>
updateVars == <<table, result>>
threadVars == <<receiver, commands, command, rpki>>
historyVars == <<settled, doubt>>
vars == <<dbVars, pathVars, updateVars, threadVars, clock, pdus, requests, historyVars>>

\* "fresh" is history: the value is a verdict on the present database.
IdleReceiver == [at |-> "idle", update |-> "none", copy |-> "undefined"]
IdleCommand == [at |-> "idle", update |-> "none", value |-> "undefined",
                verdict |-> "undefined", fresh |-> FALSE]
IdleRpki == [at |-> "idle", time |-> 0, entry |-> 0, next |-> 0, value |-> "undefined",
             path |-> "undefined", verdict |-> "undefined", timely |-> FALSE]

TypeOK ==
  /\ \A a \in AS : db[a] \in Object(a) /\ announced[a] \in Object(a)
  /\ swept \subseteq AS
  /\ pathResult \in [PathId -> Value \union {"none"}]
  /\ pathDown \in [PathId -> BOOLEAN]
  /\ modified \in [PathId -> 0 .. clock]
  /\ table \in Seq(Update)
  /\ result \in [Update -> Value]
  /\ receiver \in [at : {"idle", "store", "queue"}, update : Update \union {"none"},
                   copy : Value]
  /\ commands \in Seq(Update)
  /\ command \in [at : {"idle", "validate", "path", "update"},
                  update : Update \union {"none"}, value : Value, verdict : Value,
                  fresh : BOOLEAN]
  /\ rpki \in [at : {"idle", "read", "write"}, time : 0 .. clock,
               entry : 0 .. Len(table), next : 0 .. Len(table), value : Value,
               path : Value, verdict : Value, timely : BOOLEAN]
  /\ clock \in Nat /\ pdus \in Nat /\ requests \in Nat
  /\ settled \in BOOLEAN
  /\ doubt \subseteq Update

Init ==
  /\ db = [a \in AS |-> NoObject] /\ announced = db /\ swept = {}
  /\ pathResult = [p \in PathId |-> "none"]
  /\ pathDown = [p \in PathId |-> FALSE]
  /\ modified = [p \in PathId |-> 0]
  /\ table = <<>>
  /\ result = [u \in Update |-> "undefined"]
  /\ receiver = IdleReceiver /\ commands = <<>>
  /\ command = IdleCommand /\ rpki = IdleRpki
  /\ clock = 1 /\ pdus = 0 /\ requests = 0
  /\ settled = TRUE /\ doubt = {}

-----------------------------------------------------------------------------
(***************************************************************************)
(* The database.                                                           *)
(***************************************************************************)

\* ASPA_DB_lookup
Lookup(objects, customer, provider) ==
  IF objects[customer] = NoObject THEN "unknown"
  ELSE IF \E providers \in objects[customer] : provider \in providers THEN "valid"
  ELSE "invalid"

UpHops(objects, list) ==
  [i \in Hops(Len(list)) |-> Lookup(objects, list[i], list[i + 1])]
DownHops(objects, list) ==
  [i \in Hops(Len(list)) |-> Lookup(objects, list[i + 1], list[i])]

Verdict(p, isDown) ==
  validateASPA(IsSequence[p], isDown, Len(List[p]), UpHops(db, List[p]),
               DownHops(db, List[p]))

\* The RPKI thread receives an ASPA PDU.
AspaChange ==
  /\ rpki.at = "idle"
  /\ pdus < MaxPdus
  /\ pdus' = pdus + 1
  /\ settled' = FALSE
  /\ command' = [command EXCEPT !.fresh = FALSE]
  /\ UNCHANGED <<pathVars, updateVars, receiver, commands, rpki, clock, requests, doubt>>

\* handleAspaPdu, announcement: insertAspaObj replaces the customer's object.
Announce(a, providers) ==
  /\ AspaChange
  /\ db' = [db EXCEPT ![a] = {providers}]
  /\ announced' = [announced EXCEPT ![a] = {providers}]
  /\ swept' = swept \ {a}

\* handleAspaPdu, withdrawal: delete_TrieNode_AspaObj frees the node of the
\* customer, if it holds this object, and with it all nodes below it.
Withdraw(a, providers) ==
  /\ AspaChange
  /\ announced[a] = {providers}
  /\ announced' = [announced EXCEPT ![a] = NoObject]
  /\ IF db[a] = {providers}
     THEN /\ db' = [c \in AS |-> IF c = a \/ c \in Extension[a] THEN NoObject ELSE db[c]]
          /\ swept' = (swept \ {a}) \union {c \in Extension[a] : announced[c] # NoObject}
     ELSE UNCHANGED <<db, swept>>

-----------------------------------------------------------------------------
(***************************************************************************)
(* The receiver thread: processValidationRequest.                          *)
(***************************************************************************)

Stored(u) == \E i \in DOMAIN table : table[i] = u

\* pathId # 0: makePathId fails on an empty AS path
HasPathId(p) == List[p] # <<>>

\* makePathId, getAspathListFromAspathCache and storeAspathList: the first
\* request with this path decides on the direction of the entry.
Request(u) ==
  /\ receiver.at = "idle"
  /\ requests < MaxRequests
  /\ requests' = requests + 1
  /\ LET p == PathOf[u]
         lookUp == HasPathId(p) /\ ~Stored(u)
         found == pathResult[p] # "none"
     IN  /\ receiver' = [at     |-> IF Stored(u) THEN "queue" ELSE "store",
                         update |-> u,
                         copy   |-> IF lookUp /\ found THEN pathResult[p] ELSE "undefined"]
         /\ IF lookUp /\ ~found
            THEN /\ pathResult' = [pathResult EXCEPT ![p] = "undefined"]
                 /\ pathDown' = [pathDown EXCEPT ![p] = u \in FromProvider]
            ELSE UNCHANGED <<pathResult, pathDown>>
  /\ UNCHANGED <<dbVars, modified, updateVars, commands, command, rpki, clock, pdus,
                 historyVars>>

\* storeUpdate
StoreUpdate ==
  /\ receiver.at = "store"
  /\ table' = Append(table, receiver.update)
  /\ receiver' = [receiver EXCEPT !.at = "queue"]
  /\ UNCHANGED <<dbVars, pathVars, result, commands, command, rpki, clock, pdus, requests,
                 historyVars>>

\* The result of an update is set, to a fresh verdict or to a copy that was
\* read earlier and that the database may not support any more.
Write(u, value, fresh) ==
  /\ result' = [result EXCEPT ![u] = value]
  /\ doubt' = IF fresh \/ value = Verdict(PathOf[u], pathDown[PathOf[u]])
              THEN doubt \ {u} ELSE doubt \union {u}

\* modifyUpdateCacheResultWithAspaVal with the path's result, if it has one,
\* and queueCommand
QueueValidation ==
  /\ receiver.at = "queue"
  /\ commands' = Append(commands, receiver.update)
  /\ IF receiver.copy # "undefined"
     THEN Write(receiver.update, receiver.copy, FALSE)
     ELSE UNCHANGED <<result, doubt>>
  /\ receiver' = IdleReceiver
  /\ UNCHANGED <<dbVars, pathVars, table, command, rpki, clock, pdus, requests, settled>>

-----------------------------------------------------------------------------
(***************************************************************************)
(* The command thread: the ASPA part of _processUpdateValidation.          *)
(***************************************************************************)

\* Mutant: the result of the path decides whether a validation is needed.
NeedsValidationPath(u) == pathResult[PathOf[u]] = "undefined"

NeedsValidation(u) == result[u] = "undefined"

\* An update with a result: it is written back, unless the path is a set.
WritesBack(u) == IsSequence[PathOf[u]] \/ ~HasPathId(PathOf[u])

StartCommand ==
  /\ command.at = "idle" /\ commands # <<>>
  /\ LET u == Head(commands) IN
     command' = IF NeedsValidation(u)
                THEN [IdleCommand EXCEPT !.at = "validate", !.update = u]
                ELSE IF WritesBack(u)
                THEN [IdleCommand EXCEPT
                        !.at = "update", !.update = u,
                        !.value = IF IsSequence[PathOf[u]] THEN result[u]
                                  ELSE "unverifiable"]
                ELSE IdleCommand
  /\ commands' = Tail(commands)
  /\ UNCHANGED <<dbVars, pathVars, updateVars, receiver, rpki, clock, pdus, requests,
                 historyVars>>

\* getAspathListFromAspathCache and validateASPA.  The copy of the result
\* receives that of the path, and a copy that is not undefined is later preferred
\* to the verdict, again unless the path is a set.
Validate ==
  /\ command.at = "validate"
  /\ LET p == PathOf[command.update]
         verdict == Verdict(p, pathDown[p])
         prefersCopy == pathResult[p] # "undefined" /\ IsSequence[p]
     IN  command' =
           IF HasPathId(p)
           THEN [command EXCEPT
                   !.at = IF verdict # pathResult[p] THEN "path" ELSE "update",
                   !.verdict = verdict,
                   !.value = IF prefersCopy THEN pathResult[p] ELSE verdict,
                   !.fresh = ~prefersCopy]
           ELSE IF ~IsSequence[p]
           THEN [command EXCEPT !.at = "update", !.value = "unverifiable",
                                !.fresh = TRUE]
           ELSE IdleCommand
  /\ UNCHANGED <<dbVars, pathVars, updateVars, receiver, commands, rpki, clock, pdus,
                 requests, historyVars>>

\* modifyAspaValidationResultToAspathCache, if the verdict is news
ModifyPath ==
  /\ command.at = "path"
  /\ LET p == PathOf[command.update] IN
     /\ pathResult' = [pathResult EXCEPT ![p] = command.verdict]
     /\ modified' = [modified EXCEPT ![p] = clock]
  /\ command' = [command EXCEPT !.at = "update"]
  /\ UNCHANGED <<dbVars, pathDown, updateVars, receiver, commands, rpki, clock, pdus,
                 requests, historyVars>>

\* modifyUpdateResult
ModifyUpdate ==
  /\ command.at = "update"
  /\ Write(command.update, command.value, command.fresh)
  /\ command' = IdleCommand
  /\ UNCHANGED <<dbVars, pathVars, table, receiver, commands, rpki, clock, pdus, requests,
                 settled>>

-----------------------------------------------------------------------------
(***************************************************************************)
(* The RPKI thread: process_ASPA_EndOfData, update by update.              *)
(***************************************************************************)

\* Mutant: the successor of the last entry is not the end.
AfterBeyond(i) == IF i # 0 THEN i + 1 ELSE 0

\* HASH_ITER fetches the successor before an entry is processed.
After(i) == IF i # 0 /\ i < Len(table) THEN i + 1 ELSE 0

At(entry, next) ==
  [IdleRpki EXCEPT !.at = "read", !.time = rpki.time, !.entry = entry, !.next = next]

EndOfData ==
  /\ rpki.at = "idle"
  /\ rpki' = IF table = <<>> THEN IdleRpki
             ELSE [At(1, After(1)) EXCEPT !.time = clock]
  /\ settled' = (table = <<>>)
  /\ UNCHANGED <<dbVars, pathVars, updateVars, receiver, commands, command, clock, pdus,
                 requests, doubt>>

\* lastEndOfDataTime > aspl->lastModified
Timely(p) == rpki.time > modified[p]

\* process_ASPA_EndOfData_main until its validation, if it makes one
ReadEntry ==
  /\ rpki.at = "read" /\ rpki.entry # 0
  /\ LET u == table[rpki.entry]
         p == PathOf[u]
     IN  rpki' = IF HasPathId(p)
                 THEN [rpki EXCEPT !.at = "write", !.value = result[u],
                                   !.path = pathResult[p], !.timely = Timely(p),
                                   !.verdict = Verdict(p, pathDown[p])]
                 ELSE At(rpki.next, After(rpki.next))
  /\ UNCHANGED <<dbVars, pathVars, updateVars, receiver, commands, command, clock, pdus,
                 requests, historyVars>>

\* Mutant: only the update whose path is validated is changed.
NewValueTimely ==
  IF rpki.timely /\ rpki.verdict # rpki.path THEN rpki.verdict ELSE "none"

\* The update's result changes if that of its path does; if the path was not
\* validated again, it changes if it differs from that of the path.
NewValue ==
  IF rpki.timely
  THEN IF rpki.verdict # rpki.path THEN rpki.verdict ELSE "none"
  ELSE IF rpki.value # rpki.path THEN rpki.path ELSE "none"

\* history: the path was validated in the second of this End of Data, or the
\* update's result differs from the one its path had and keeps.
Skipped ==
  \/ ~rpki.timely /\ rpki.path # rpki.verdict
  \/ rpki.timely /\ rpki.verdict = rpki.path /\ rpki.value \notin {rpki.path, "undefined"}

\* The rest of process_ASPA_EndOfData_main
WriteEntry ==
  /\ rpki.at = "write"
  /\ LET u == table[rpki.entry]
         p == PathOf[u]
     IN  /\ IF rpki.timely
            THEN /\ pathResult' = [pathResult EXCEPT ![p] = rpki.verdict]
                 /\ modified' = [modified EXCEPT ![p] = clock]
            ELSE UNCHANGED <<pathResult, modified>>
         /\ result' = [result EXCEPT ![u] = IF NewValue = "none" THEN @ ELSE NewValue]
         /\ doubt' = IF Skipped THEN doubt \union {u}
                     ELSE IF NewValue # "none" THEN doubt \ {u} ELSE doubt
  /\ rpki' = At(rpki.next, After(rpki.next))
  /\ UNCHANGED <<dbVars, pathDown, table, receiver, commands, command, clock, pdus,
                 requests, settled>>

EndOfIteration ==
  /\ rpki.at = "read" /\ rpki.entry = 0
  /\ rpki' = IdleRpki
  /\ settled' = TRUE
  /\ UNCHANGED <<dbVars, pathVars, updateVars, receiver, commands, command, clock, pdus,
                 requests, doubt>>

-----------------------------------------------------------------------------
Tick ==
  /\ clock < MaxTime
  /\ clock' = clock + 1
  /\ UNCHANGED <<dbVars, pathVars, updateVars, threadVars, pdus, requests, historyVars>>

ReceiverNext == StoreUpdate \/ QueueValidation
CommandNext == StartCommand \/ Validate \/ ModifyPath \/ ModifyUpdate
RpkiNext == EndOfData \/ ReadEntry \/ WriteEntry \/ EndOfIteration

Next ==
  \/ \E a \in AS : \E providers \in Offer[a] : Announce(a, providers) \/ Withdraw(a, providers)
  \/ \E u \in Update : Request(u)
  \/ ReceiverNext \/ CommandNext \/ RpkiNext \/ Tick

Spec == Init /\ [][Next]_vars

-----------------------------------------------------------------------------
(***************************************************************************)
(* Properties.                                                             *)
(***************************************************************************)

\* Whatever PDUs were received, a path is judged as the draft judges it by the
\* ASPAs announced and not withdrawn, in both directions, unless the withdrawal
\* of an AS with a shorter number freed one of them (free_trienode).
ValidationIsDraft ==
  \A p \in {q \in PathId : HasPathId(q)} : \A isDown \in BOOLEAN :
    (\A i \in DOMAIN List[p] : List[p][i] \notin swept) =>
      Verdict(p, isDown) =
        DraftVerdict(IsSequence[p], isDown, Len(List[p]), UpHops(announced, List[p]),
                     DownHops(announced, List[p]))

\* The result that the database supports for the path of an update.
Supported(u) ==
  IF HasPathId(PathOf[u]) THEN Verdict(PathOf[u], pathDown[PathOf[u]]) ELSE "unverifiable"

\* When the End of Data that follows a change of the database has been worked
\* off, no update keeps a result the database does not support, although
\* commands and requests went on meanwhile: except where a thread wrote back a
\* copy it had read earlier, or where process_ASPA_EndOfData_main skips the
\* update, see Skipped.
ResultsAreCurrent ==
  settled => \A u \in Update \ doubt : result[u] \in {"undefined", Supported(u)}

\* The same for all updates, which the comment on the time comparison of
\* process_ASPA_EndOfData_main takes for granted.
AllResultsAreCurrent ==
  settled => \A u \in Update : result[u] \in {"undefined", Supported(u)}

\* Two updates with one path and different directions: each has a result for
\* its own direction (asRelDir of the request).
DirectionIsRespected ==
  pdus = 0 \/ ~settled \/ doubt # {} \/
  \A u \in Update : result[u] # "undefined" /\ HasPathId(PathOf[u]) =>
    result[u] = Verdict(PathOf[u], u \in FromProvider)

\* An AS whose ASPA was announced and not withdrawn is in the database.
AnnouncedIsStored == db = announced

\* When the threads have nothing left to do, every update in the cache has a
\* result, also if another update brought its path into the path cache and
\* whatever the End of Data did meanwhile; an empty path that is not a set
\* cannot have one.
NoneIsForgotten ==
  receiver.at = "idle" /\ command.at = "idle" /\ commands = <<>> =>
    \A i \in DOMAIN table :
      HasPathId(PathOf[table[i]]) \/ ~IsSequence[PathOf[table[i]]] =>
        result[table[i]] # "undefined"
=============================================================================
