---------------------------- MODULE Notification ----------------------------
(***************************************************************************)
(* How the result of one update reaches the proxies that listen to it.     *)
(*                                                                         *)
(* The receiver thread answers a request with the result it finds and      *)
(* queues a validation, the send thread delivers the answer, the command   *)
(* thread validates and broadcasts, the RPKI thread changes ROAs and keys, *)
(* collects affected updates in the RPKI queue and broadcasts them when it *)
(* receives an End of Data.  Only changes of the result are made under a   *)
(* lock; reading it, registering a client and sending are not, and         *)
(* broadcasts do not go through the send queue.                            *)
(*                                                                         *)
(* Requests ask for origin and for path validation, with "undefined" as    *)
(* the router's own result.  The verdict of the prefix cache and of the    *)
(* signature check is a value that ROA and key changes flip.  Clients do   *)
(* not leave here (see UpdateCache), ASPA results are in AspaCache.        *)
(***************************************************************************)
EXTENDS Naturals, Sequences, FiniteSets

CONSTANTS
  Client,
  UseSendQueue,  \* ~mode_no_sendqueue
  Receipts,      \* whether requests ask for a receipt: a set of Booleans
  MinClients,    \* minNumberOfClients, the room in broadcastResult's array
  MaxRequests,   \* bound on the number of requests
  MaxChanges     \* bound on the number of RPKI changes

ASSUME NotificationAssumption ==
  /\ IsFiniteSet(Client)
  /\ UseSendQueue \in BOOLEAN
  /\ Receipts \subseteq BOOLEAN
  /\ MinClients \in Nat /\ MaxRequests \in Nat /\ MaxChanges \in Nat

Kind == {"roa", "bgpsec"}
Verdict == {"valid", "invalid"}
Value == Verdict \union {"undefined"}
Result == [Kind -> Value]
Undefined == [k \in Kind |-> "undefined"]

VARIABLES
  truth,         \* what the prefix cache and the signature check would say now
  stored,        \* "no", "registered" with the SKI cache only, "yes": in the table
  result,        \* srxResult of the cache entry
  listeners,     \* the clients of the cache entry
  inPrefixCache, \* whether the prefix cache knows the update
  receiver,      \* the request in processValidationRequest
  sendQueue,
  commands,      \* number of validations in the command queue
  command,       \* the command thread in _processUpdateValidation
  reasons,       \* the reasons of the update's element in the RPKI queue
  rpki,          \* the RPKI thread in handleEndOfData
  view,          \* the result each client was told last
  requests, changes,
  doubt,         \* history: clients that may hold an old result of a kind
  overwritten,   \* history: an older origin result replaced a newer one
  misplaced,     \* history: ROAs changed between the update's look-up and its list
  unsaved        \* history: a path result was made known but not stored

serverVars == <<stored, result, listeners, inPrefixCache>>
historyVars == <<doubt, overwritten, misplaced, unsaved>>
vars == <<truth, serverVars, receiver, sendQueue, commands, command, reasons, rpki,
          view, requests, changes, historyVars>>

ReceiverStep == {"idle", "register", "store", "insert", "answer", "queue"}
CommandStep == {"idle", "origin", "append", "storeOrigin", "storePath"}
RpkiStep == {"idle", "drain", "send", "crashed"}

NoClient == "none"
IdleReceiver == [at |-> "idle", client |-> NoClient, copy |-> Undefined, receipt |-> FALSE]
IdleCommand == [at |-> "idle", verdict |-> Undefined, crossed |-> FALSE]
IdleRpki == [at |-> "idle", kinds |-> {}, values |-> Undefined, crossed |-> {}]

TypeOK ==
  /\ truth \in [Kind -> Verdict]
  /\ stored \in {"no", "registered", "yes"}
  /\ result \in Result
  /\ listeners \subseteq Client
  /\ inPrefixCache \in BOOLEAN
  /\ receiver \in [at : ReceiverStep, client : Client \union {NoClient},
                   copy : Result, receipt : BOOLEAN]
  /\ receiver.at # "idle" => receiver.client \in Client
  /\ sendQueue \in Seq([client : Client, copy : Result])
  /\ commands \in Nat
  /\ command \in [at : CommandStep, verdict : Result, crossed : BOOLEAN]
  /\ reasons \subseteq Kind
  /\ rpki \in [at : RpkiStep, kinds : SUBSET Kind, values : Result, crossed : SUBSET Kind]
  /\ view \in [Client -> Result]
  /\ requests \in Nat /\ changes \in Nat
  /\ doubt \subseteq Client \X Kind
  /\ overwritten \in BOOLEAN /\ misplaced \in BOOLEAN /\ unsaved \in BOOLEAN
Init ==
  /\ truth \in [Kind -> Verdict]
  /\ stored = "no" /\ result = Undefined /\ listeners = {} /\ inPrefixCache = FALSE
  /\ receiver = IdleReceiver /\ sendQueue = <<>>
  /\ commands = 0 /\ command = IdleCommand
  /\ reasons = {} /\ rpki = IdleRpki
  /\ view = [c \in Client |-> Undefined]
  /\ requests = 0 /\ changes = 0
  /\ doubt = {} /\ overwritten = FALSE /\ misplaced = FALSE /\ unsaved = FALSE

-----------------------------------------------------------------------------
\* getClientIDsOfUpdate fails if the entry has more slots than the array of
\* broadcastResult; then nobody is notified.
BroadcastTargets == IF Cardinality(listeners) <= MinClients THEN listeners ELSE {}

\* broadcastResult: the notification names the kinds the client has to update.
ViewAfter(kinds, values) ==
  [c \in Client |-> IF c \in BroadcastTargets
                    THEN [k \in Kind |-> IF k \in kinds THEN values[k] ELSE view[c][k]]
                    ELSE view[c]]

\* An answer with a result that was read earlier is still to be delivered.
OnTheWay(c) ==
  \/ receiver.client = c /\ receiver.at \in {"register", "store", "insert", "answer"}
  \/ \E i \in DOMAIN sendQueue : sendQueue[i].client = c

\* A broadcast settles what its receivers know, unless an answer crosses it or
\* it carries the kinds "old", on which something newer is already known.
DoubtAfter(kinds, old) ==
  {d \in Client \X Kind :
     IF d[2] \in kinds
     THEN OnTheWay(d[1]) \/ d[1] \notin BroadcastTargets \/ d[2] \in old
     ELSE d \in doubt}

Broadcast(kinds, values, old) ==
  /\ view' = ViewAfter(kinds, values)
  /\ doubt' = DoubtAfter(kinds, old)

-----------------------------------------------------------------------------
(***************************************************************************)
(* The receiver thread: processValidationRequest.                          *)
(***************************************************************************)

\* getUpdateResult copies the result; the client is registered only after that.
Request(c, receipt) ==
  /\ receiver.at = "idle"
  /\ requests < MaxRequests
  /\ requests' = requests + 1
  /\ receiver' = [at      |-> IF stored = "yes" THEN "register" ELSE "store",
                  client  |-> c,
                  copy    |-> IF stored = "yes" THEN result ELSE Undefined,
                  receipt |-> receipt]
  /\ doubt' = {d \in Client \X Kind :
                 IF d[1] = c THEN d[2] = "bgpsec" /\ unsaved ELSE d \in doubt}
  /\ UNCHANGED <<truth, serverVars, sendQueue, commands, command, reasons, rpki, view,
                 changes, overwritten, misplaced, unsaved>>

\* _addClientReference in getUpdateResult
Register ==
  /\ receiver.at = "register"
  /\ listeners' = listeners \union {receiver.client}
  /\ receiver' = [receiver EXCEPT !.at = "answer"]
  /\ UNCHANGED <<truth, stored, result, inPrefixCache, sendQueue, commands, command,
                 reasons, rpki, view, requests, changes, historyVars>>

\* storeUpdate registers the update with the SKI cache ...
RegisterWithSkiCache ==
  /\ receiver.at = "store"
  /\ stored' = "registered"
  /\ receiver' = [receiver EXCEPT !.at = "insert"]
  /\ UNCHANGED <<truth, result, listeners, inPrefixCache, sendQueue, commands, command,
                 reasons, rpki, view, requests, changes, historyVars>>

\* ... before it adds the entry, with its first client, to the table.
StoreUpdate ==
  /\ receiver.at = "insert"
  /\ stored' = "yes"
  /\ result' = Undefined
  /\ listeners' = {receiver.client}
  /\ receiver' = [receiver EXCEPT !.at = "answer"]
  /\ UNCHANGED <<truth, inPrefixCache, sendQueue, commands, command, reasons, rpki, view,
                 requests, changes, historyVars>>

\* Mutant: only a result the router does not have is answered.
AnswerNeededForNews == receiver.copy # Undefined

\* sendFlags: a receipt was asked for, or the router's result is not the stored one.
AnswerNeeded == receiver.receipt \/ receiver.copy # Undefined

\* sendVerifyNotification
Answer ==
  /\ receiver.at = "answer"
  /\ receiver' = IF AnswerNeeded THEN [receiver EXCEPT !.at = "queue"] ELSE IdleReceiver
  /\ IF AnswerNeeded /\ UseSendQueue
     THEN sendQueue' = Append(sendQueue, [client |-> receiver.client, copy |-> receiver.copy])
     ELSE UNCHANGED sendQueue
  /\ IF AnswerNeeded /\ ~UseSendQueue
     THEN view' = [view EXCEPT ![receiver.client] = receiver.copy]
     ELSE UNCHANGED view
  /\ UNCHANGED <<truth, serverVars, commands, command, reasons, rpki, requests, changes,
                 historyVars>>

\* queueCommand
QueueValidation ==
  /\ receiver.at = "queue"
  /\ commands' = commands + 1
  /\ receiver' = IdleReceiver
  /\ UNCHANGED <<truth, serverVars, sendQueue, command, reasons, rpki, view, requests,
                 changes, historyVars>>

\* The send thread delivers the oldest answer.
SendAnswer ==
  /\ sendQueue # <<>>
  /\ view' = [view EXCEPT ![Head(sendQueue).client] = Head(sendQueue).copy]
  /\ sendQueue' = Tail(sendQueue)
  /\ UNCHANGED <<truth, serverVars, receiver, commands, command, reasons, rpki, requests,
                 changes, historyVars>>

-----------------------------------------------------------------------------
(***************************************************************************)
(* The command thread: _processUpdateValidation.                           *)
(***************************************************************************)

\* The stored result is read; the signature is checked unless there is a path
\* result.  Only this thread turns an undefined result into another one, so
\* reading and checking are one step.
StartValidation ==
  /\ command.at = "idle"
  /\ commands > 0
  /\ commands' = commands - 1
  /\ command' = [at      |-> IF result["roa"] = "undefined" THEN "origin" ELSE "storePath",
                 verdict |-> [Undefined EXCEPT !["bgpsec"] =
                                IF result["bgpsec"] = "undefined" THEN truth["bgpsec"] ELSE @],
                 crossed |-> FALSE]
  /\ UNCHANGED <<truth, serverVars, receiver, sendQueue, reasons, rpki, view, requests,
                 changes, historyVars>>

\* requestUpdateValidation counts the ROAs that match ...
LookUpPrefix ==
  /\ command.at = "origin"
  /\ command' = [command EXCEPT !.at = "append", !.verdict["roa"] = truth["roa"]]
  /\ UNCHANGED <<truth, serverVars, receiver, sendQueue, commands, reasons, rpki, view,
                 requests, changes, historyVars>>

\* ... and then appends the update to the list of the prefix that its count
\* tells: from here on ROA changes find the update.
AppendToPrefix ==
  /\ command.at = "append"
  /\ inPrefixCache' = TRUE
  /\ command' = [command EXCEPT !.at = "storeOrigin"]
  /\ UNCHANGED <<truth, stored, result, listeners, receiver, sendQueue, commands, reasons,
                 rpki, view, requests, changes, historyVars>>

\* modifyUpdateResult without suppression: a new value is stored and broadcast.
ModifyUpdateResult(k, value, old) ==
  IF result[k] = value
  THEN UNCHANGED <<result, view, doubt, rpki>>
  ELSE /\ result' = [result EXCEPT ![k] = value]
       /\ Broadcast({k}, [result EXCEPT ![k] = value], old)
       /\ rpki' = IF rpki.at = "send" /\ k \in rpki.kinds
                  THEN [rpki EXCEPT !.crossed = @ \union {k}] ELSE rpki

\* The result of the look-up is stored.
StoreOrigin ==
  /\ command.at = "storeOrigin"
  /\ ModifyUpdateResult("roa", command.verdict["roa"], {})
  /\ overwritten' = (overwritten \/ result["roa"] \notin {"undefined", command.verdict["roa"]})
  /\ command' = [command EXCEPT !.at = "storePath"]
  /\ UNCHANGED <<truth, stored, listeners, inPrefixCache, receiver, sendQueue, commands,
                 reasons, requests, changes, misplaced, unsaved>>

\* The result of the signature check is stored, if there was one.
StorePath ==
  /\ command.at = "storePath"
  /\ IF command.verdict["bgpsec"] = "undefined"
     THEN UNCHANGED <<result, view, doubt, rpki>>
     ELSE ModifyUpdateResult("bgpsec", command.verdict["bgpsec"],
                             IF command.crossed THEN {"bgpsec"} ELSE {})
  /\ command' = IdleCommand
  /\ UNCHANGED <<truth, stored, listeners, inPrefixCache, receiver, sendQueue, commands,
                 reasons, requests, changes, overwritten, misplaced, unsaved>>

-----------------------------------------------------------------------------
(***************************************************************************)
(* The RPKI thread.                                                        *)
(***************************************************************************)
Other(value) == IF value = "valid" THEN "invalid" ELSE "valid"

\* Mutant: a second reason replaces the first.
RqQueueLast(reason) == {reason}

\* rq_queue: one element per update; a second reason is added to the first.
RqQueue(reason) == reasons \union {reason}

\* Mutant: the new result is queued but not stored.
RoaChangeQueued ==
  /\ rpki.at = "idle"
  /\ changes < MaxChanges
  /\ command.at # "append" /\ ~misplaced
  /\ changes' = changes + 1
  /\ truth' = [truth EXCEPT !["roa"] = Other(@)]
  /\ reasons' = IF inPrefixCache THEN RqQueue("roa") ELSE reasons
  /\ UNCHANGED <<serverVars, receiver, sendQueue, commands, command, rpki, view, requests,
                 historyVars>>

\* handlePrefix: the new result of a known update is stored, its notification
\* suppressed and the update queued.
RoaChange ==
  /\ rpki.at = "idle"
  /\ changes < MaxChanges
  /\ command.at # "append" /\ ~misplaced
  /\ changes' = changes + 1
  /\ truth' = [truth EXCEPT !["roa"] = Other(@)]
  /\ IF inPrefixCache
     THEN /\ result' = [result EXCEPT !["roa"] = Other(truth["roa"])]
          /\ reasons' = RqQueue("roa")
          /\ overwritten' = FALSE
     ELSE UNCHANGED <<result, reasons, overwritten>>
  /\ UNCHANGED <<stored, listeners, inPrefixCache, receiver, sendQueue, commands, command,
                 rpki, view, requests, doubt, misplaced, unsaved>>

\* handlePrefix while the command thread has counted, or is counting, and the
\* update is in no list: nothing keeps the two apart, and the count may or may
\* not contain the change.  From then on the update's count and list do not fit
\* the ROAs, and a change, of whatever effect on the verdict, finds the update
\* or not and stores what the wrong count gives.
RoaChangeMiscounted ==
  /\ rpki.at = "idle"
  /\ changes < MaxChanges
  /\ command.at = "append" \/ misplaced
  /\ changes' = changes + 1
  /\ misplaced' = TRUE
  /\ \E v \in Verdict : truth' = [truth EXCEPT !["roa"] = v]
  /\ \/ /\ command.at = "append"
        /\ \E v \in Verdict : command' = [command EXCEPT !.verdict["roa"] = v]
        /\ UNCHANGED <<result, reasons>>
     \/ /\ inPrefixCache
        /\ \E v \in Verdict : result' = [result EXCEPT !["roa"] = v]
        /\ reasons' = RqQueue("roa")
        /\ UNCHANGED command
     \/ UNCHANGED <<command, result, reasons>>
  /\ UNCHANGED <<stored, listeners, inPrefixCache, receiver, sendQueue, commands, rpki,
                 view, requests, doubt, overwritten, unsaved>>

\* handleRouterKey: updates registered with the SKI cache are queued, nothing
\* is stored.
KeyChange ==
  /\ rpki.at = "idle"
  /\ changes < MaxChanges
  /\ changes' = changes + 1
  /\ truth' = [truth EXCEPT !["bgpsec"] = Other(@)]
  /\ reasons' = IF stored = "no" THEN reasons ELSE RqQueue("bgpsec")
  /\ command' = IF command.verdict["bgpsec"] # "undefined"
                THEN [command EXCEPT !.crossed = TRUE] ELSE command
  /\ unsaved' = (unsaved \/ result["bgpsec"] # "undefined" \/ command.verdict["bgpsec"] # "undefined")
  /\ UNCHANGED <<serverVars, receiver, sendQueue, commands, rpki, view, requests, doubt,
                 overwritten, misplaced>>

EndOfData ==
  /\ rpki.at = "idle"
  /\ reasons # {}
  /\ rpki' = [rpki EXCEPT !.at = "drain"]
  /\ UNCHANGED <<truth, serverVars, receiver, sendQueue, commands, command, reasons, view,
                 requests, changes, historyVars>>

\* rq_dequeue, and the result of each reason: the stored origin result, a new
\* check of the signature.  The data for the check are those of the cache entry,
\* used without a test whether there is an entry.
Dequeue ==
  /\ rpki.at = "drain"
  /\ rpki' = IF reasons = {} THEN IdleRpki
             ELSE IF "bgpsec" \in reasons /\ stored # "yes"
             THEN [IdleRpki EXCEPT !.at = "crashed"]
             ELSE [at |-> "send", kinds |-> reasons, crossed |-> {},
                   values |-> [result EXCEPT !["bgpsec"] = truth["bgpsec"]]]
  /\ reasons' = {}
  /\ UNCHANGED <<truth, serverVars, receiver, sendQueue, commands, command, view, requests,
                 changes, historyVars>>

\* resChangedCallback with the result that was collected.
SendChange ==
  /\ rpki.at = "send"
  /\ Broadcast(rpki.kinds, rpki.values, rpki.crossed)
  /\ rpki' = [IdleRpki EXCEPT !.at = "drain"]
  /\ UNCHANGED <<truth, serverVars, receiver, sendQueue, commands, command, reasons,
                 requests, changes, overwritten, misplaced, unsaved>>

-----------------------------------------------------------------------------
ReceiverNext == Register \/ RegisterWithSkiCache \/ StoreUpdate \/ Answer \/ QueueValidation
CommandNext == StartValidation \/ LookUpPrefix \/ AppendToPrefix \/ StoreOrigin \/ StorePath
RpkiNext == Dequeue \/ SendChange

Next ==
  \/ \E c \in Client, receipt \in Receipts : Request(c, receipt)
  \/ ReceiverNext
  \/ SendAnswer
  \/ CommandNext
  \/ RoaChange \/ RoaChangeMiscounted \/ KeyChange \/ EndOfData
  \/ RpkiNext

Spec == Init /\ [][Next]_vars

\* The server's threads go on while they have work; nothing is assumed of the
\* proxies and of the RPKI cache.
Fairness ==
  /\ WF_vars(ReceiverNext) /\ WF_vars(SendAnswer)
  /\ WF_vars(CommandNext) /\ WF_vars(RpkiNext)
FairSpec == Spec /\ Fairness

-----------------------------------------------------------------------------
(***************************************************************************)
(* Properties.                                                             *)
(***************************************************************************)

\* Nothing is under way: what the clients know now is what they will go by.
AtRest ==
  /\ receiver.at = "idle" /\ sendQueue = <<>>
  /\ commands = 0 /\ command.at = "idle"
  /\ rpki.at = "idle" /\ reasons = {}

\* The origin result in the cache is the one the ROAs give, except between the
\* look-up in the prefix cache and the store of its result, after such a store
\* has overwritten a change that came in between, and after a change fell
\* between the count of the matching ROAs and the append to the prefix's list.
\* These are the only two races that leave a wrong origin result behind.
StoredOriginIsCurrent ==
  inPrefixCache /\ command.at # "storeOrigin" /\ ~overwritten /\ ~misplaced
    => result["roa"] = truth["roa"]

\* At rest every listener knows the current result of a validated update, from
\* its answer or from a broadcast, whatever the order of requests, validations
\* and RPKI changes - except where a broadcast met an answer on its way, went to
\* nobody, carried a result older than one already sent, or an answer was taken
\* from a path result that EndOfData had not stored.
ListenersAreUpToDate ==
  AtRest =>
    \A c \in listeners :
      /\ result["roa"] # "undefined" /\ <<c, "roa">> \notin doubt
           => view[c]["roa"] = result["roa"]
      /\ result["bgpsec"] # "undefined" /\ <<c, "bgpsec">> \notin doubt
           => view[c]["bgpsec"] = truth["bgpsec"]

\* A request with a receipt leads to a validated update, unless the RPKI
\* thread crashes.
ReceiptLeadsToValidation ==
  (receiver.at # "idle" /\ receiver.receipt)
    ~> ((\A k \in Kind : result[k] # "undefined") \/ rpki.at = "crashed")

\* The same for every request for validation.
RequestLeadsToValidation ==
  receiver.at # "idle" ~> ((\A k \in Kind : result[k] # "undefined") \/ rpki.at = "crashed")

\* "This method is used to communicate validation state changes to the user of
\* the API": at rest every listener was told the result that is stored.
ListenersKnowTheResult ==
  AtRest => \A c \in listeners : result["roa"] # "undefined" => view[c]["roa"] = result["roa"]

\* getUpdateResult returns the current result associated with the update.
StoredPathIsCurrent ==
  AtRest => result["bgpsec"] \in {"undefined", truth["bgpsec"]}

\* The data of an update in the RPKI queue are those of a stored update.
UpdateDataExists == rpki.at # "crashed"
=============================================================================
