------------------------ MODULE NotificationProofs ------------------------
(***************************************************************************)
(* The stored origin result follows the ROAs, and at rest every listener   *)
(* that is not in doubt knows the current result: for any set of clients,  *)
(* any number of requests and RPKI changes, any room in the array of       *)
(* broadcastResult, with and without the send queue and receipts.          *)
(***************************************************************************)
EXTENDS Notification, SequenceTheorems, TLAPS

-----------------------------------------------------------------------------
(***************************************************************************)
(* The inductive invariants.                                               *)
(***************************************************************************)

\* Until the update is in the table there is no result, no listener and no
\* validation, and the table is entered by the request that found it absent.
NotStoredYet ==
  /\ receiver.at \in {"store", "insert"} => stored # "yes"
  /\ receiver.at \in {"register", "answer", "queue"} => stored = "yes"
  /\ stored # "yes" => /\ result = Undefined /\ listeners = {} /\ ~inPrefixCache
                       /\ commands = 0 /\ command = IdleCommand

\* The prefix cache is asked once.  Unless the ROAs changed before the update was
\* in a list, the verdict is current up to the append, and between the append
\* and the store the result is undefined, and then the verdict is current, or a
\* ROA change has set it.
OneLookUp ==
  /\ ~inPrefixCache => result["roa"] = "undefined" /\ command.at \in {"idle", "origin", "append"}
  /\ command.at \in {"origin", "append"} => ~inPrefixCache
  /\ command.at \in {"append", "storeOrigin"} => command.verdict["roa"] # "undefined"
  /\ command.at = "append" /\ ~misplaced => command.verdict["roa"] = truth["roa"]
  /\ command.at = "storeOrigin" /\ ~misplaced =>
       \/ result["roa"] = "undefined" /\ command.verdict["roa"] = truth["roa"]
       \/ result["roa"] = truth["roa"]
  /\ inPrefixCache /\ command.at # "storeOrigin" => result["roa"] # "undefined"

\* The signature is checked once, and its result is that of the current keys
\* unless a key has changed since.
OneCheck ==
  /\ command.at = "idle" => command.verdict = Undefined
  /\ command.verdict["bgpsec"] # "undefined" =>
       /\ result["bgpsec"] = "undefined"
       /\ ~command.crossed => command.verdict["bgpsec"] = truth["bgpsec"]
  /\ ~unsaved /\ result["bgpsec"] # "undefined" => result["bgpsec"] = truth["bgpsec"]
  /\ ~unsaved => ~command.crossed

OriginInv == TypeOK /\ NotStoredYet /\ OneLookUp /\ StoredOriginIsCurrent

\* What a listener should know of a kind.
Current(k) == IF k = "roa" THEN result["roa"] ELSE truth["bgpsec"]

Sending(k) == rpki.at = "send" /\ k \in rpki.kinds

\* A collected change is the current result unless another one has crossed it.
CollectedIsCurrent ==
  \A k \in Kind : Sending(k) /\ k \notin rpki.crossed => rpki.values[k] = Current(k)

\* The answer to c has not been sent.
Due(c) == receiver.client = c /\ receiver.at \in {"register", "store", "insert", "answer"}

\* The last answer to c in the send queue, if there is one, else the view of c.
LastSentIs(c, k, v) ==
  /\ \A i \in DOMAIN sendQueue :
       /\ sendQueue[i].client = c
       /\ \A j \in DOMAIN sendQueue : j > i => sendQueue[j].client # c
       => sendQueue[i].copy[k] = v
  /\ (\A i \in DOMAIN sendQueue : sendQueue[i].client # c) => view[c][k] = v

\* What c will know of a kind when everything on its way to c has arrived.
LastWordIs(c, k, v) == IF Due(c) THEN receiver.copy[k] = v ELSE LastSentIs(c, k, v)

\* A client is covered if no broadcast of the kind is to come and none left it
\* in doubt.
Covered(c, k) ==
  /\ c \in listeners \/ Due(c)
  /\ <<c, k>> \notin doubt
  /\ k \notin reasons /\ ~Sending(k) /\ rpki.at # "crashed"
  /\ result[k] # "undefined"

LastWordIsCurrent ==
  \A c \in Client, k \in Kind : Covered(c, k) => LastWordIs(c, k, Current(k))

ListenersInv ==
  /\ OriginInv /\ OneCheck /\ CollectedIsCurrent /\ LastWordIsCurrent
  /\ ~UseSendQueue => sendQueue = <<>>

-----------------------------------------------------------------------------
(***************************************************************************)
(* Types.                                                                  *)
(***************************************************************************)

LEMMA UndefinedIsResult == Undefined \in Result /\ \A k \in Kind : Undefined[k] = "undefined"
BY DEF Undefined, Result, Value

\* A result with a new value of one kind is a result.
LEMMA ResultExcept ==
  ASSUME NEW r \in Result, NEW k \in Kind, NEW v \in Value
  PROVE  /\ [r EXCEPT ![k] = v] \in Result
         /\ [r EXCEPT ![k] = v][k] = v
         /\ \A q \in Kind : q # k => [r EXCEPT ![k] = v][q] = r[q]
BY DEF Result

\* Views stay views when a result is broadcast.
LEMMA ViewAfterType ==
  ASSUME TypeOK, NEW kinds, NEW values \in Result
  PROVE  ViewAfter(kinds, values) \in [Client -> Result]
<1> SUFFICES ASSUME NEW c \in Client
             PROVE  [k \in Kind |-> IF k \in kinds THEN values[k] ELSE view[c][k]] \in Result
  BY DEF ViewAfter, TypeOK
<1> QED
  BY DEF TypeOK, Result

LEMMA DoubtAfterType == ASSUME NEW kinds, NEW old PROVE DoubtAfter(kinds, old) \subseteq Client \X Kind
BY DEF DoubtAfter

\* What modifyUpdateResult changes keeps its type.
LEMMA ModifyType ==
  ASSUME TypeOK, NEW k \in Kind, NEW v \in Value, NEW old, ModifyUpdateResult(k, v, old)
  PROVE  /\ result' \in Result
         /\ view' \in [Client -> Result]
         /\ doubt' \subseteq Client \X Kind
         /\ rpki' \in [at : RpkiStep, kinds : SUBSET Kind, values : Result, crossed : SUBSET Kind]
<1> DEFINE R == [at : RpkiStep, kinds : SUBSET Kind, values : Result, crossed : SUBSET Kind]
<1>1. CASE result[k] = v
  BY <1>1 DEF TypeOK, ModifyUpdateResult
<1>2. CASE result[k] # v
  <2>1. result' = [result EXCEPT ![k] = v] /\ Broadcast({k}, result', old)
    BY <1>2 DEF ModifyUpdateResult
  <2>2. result' \in Result
    BY <2>1, ResultExcept DEF TypeOK
  <2>3. view' \in [Client -> Result] /\ doubt' \subseteq Client \X Kind
    BY <2>1, <2>2, ViewAfterType, DoubtAfterType DEF Broadcast
  <2>4. rpki' \in R
    <3>1. rpki \in R
      BY DEF TypeOK
    <3>2. rpki' = rpki \/ rpki' = [rpki EXCEPT !.crossed = @ \union {k}]
      BY <1>2 DEF ModifyUpdateResult
    <3> QED
      BY <3>1, <3>2
  <2> QED
    BY <2>2, <2>3, <2>4
<1> QED
  BY <1>1, <1>2

LEMMA TypeInit == Init => TypeOK
<1> SUFFICES ASSUME Init PROVE TypeOK
  OBVIOUS
<1> USE UndefinedIsResult DEF Init
<1>1. receiver \in [at : ReceiverStep, client : Client \union {NoClient},
                    copy : Result, receipt : BOOLEAN] /\ receiver.at = "idle"
  BY DEF IdleReceiver, ReceiverStep
<1>2. command \in [at : CommandStep, verdict : Result, crossed : BOOLEAN]
  BY DEF IdleCommand, CommandStep
<1>3. rpki \in [at : RpkiStep, kinds : SUBSET Kind, values : Result, crossed : SUBSET Kind]
  BY DEF IdleRpki, RpkiStep
<1>4. view \in [Client -> Result]
  OBVIOUS
<1>5. sendQueue \in Seq([client : Client, copy : Result])
  OBVIOUS
<1>6. /\ inPrefixCache \in BOOLEAN /\ overwritten \in BOOLEAN
      /\ misplaced \in BOOLEAN /\ unsaved \in BOOLEAN
  OBVIOUS
<1> QED
  BY <1>1, <1>2, <1>3, <1>4, <1>5, <1>6 DEF TypeOK

LEMMA TypeNext == TypeOK /\ [Next]_vars => TypeOK'
<1> SUFFICES ASSUME TypeOK, [Next]_vars PROVE TypeOK'
  OBVIOUS
<1> USE NotificationAssumption, UndefinedIsResult
<1>1. ASSUME NEW c \in Client, NEW receipt \in Receipts, Request(c, receipt) PROVE TypeOK'
  BY <1>1 DEF TypeOK, Request, serverVars, ReceiverStep
<1>2. CASE Register
  BY <1>2 DEF TypeOK, Register, historyVars, ReceiverStep
<1>3. CASE RegisterWithSkiCache
  BY <1>3 DEF TypeOK, RegisterWithSkiCache, historyVars, ReceiverStep
<1>4. CASE StoreUpdate
  BY <1>4 DEF TypeOK, StoreUpdate, historyVars, ReceiverStep
<1>5. CASE Answer
  <2>1. [client |-> receiver.client, copy |-> receiver.copy] \in [client : Client, copy : Result]
    BY <1>5 DEF TypeOK, Answer
  <2>2. receiver' \in [at : ReceiverStep, client : Client \union {NoClient},
                       copy : Result, receipt : BOOLEAN]
        /\ (receiver'.at # "idle" => receiver'.client \in Client)
    BY <1>5 DEF TypeOK, Answer, IdleReceiver, ReceiverStep
  <2>3. sendQueue' \in Seq([client : Client, copy : Result])
    <3>1. sendQueue \in Seq([client : Client, copy : Result])
      BY DEF TypeOK
    <3>2. \/ sendQueue' = sendQueue
          \/ sendQueue' = Append(sendQueue, [client |-> receiver.client, copy |-> receiver.copy])
      <4>1. CASE AnswerNeeded /\ UseSendQueue
        BY <1>5, <4>1 DEF Answer
      <4>2. CASE ~(AnswerNeeded /\ UseSendQueue)
        BY <1>5, <4>2 DEF Answer
      <4> QED
        BY <4>1, <4>2
    <3> DEFINE S == [client : Client, copy : Result]
               e == [client |-> receiver.client, copy |-> receiver.copy]
    <3>3. e \in S /\ sendQueue \in Seq(S) /\ (sendQueue' = sendQueue \/ sendQueue' = Append(sendQueue, e))
      BY <2>1, <3>1, <3>2
    <3> HIDE DEF S, e
    <3>4. sendQueue' \in Seq(S)
      BY <3>3, AppendProperties
    <3> QED
      BY <3>4 DEF S
  <2>4. view' \in [Client -> Result]
    BY <1>5 DEF TypeOK, Answer
  <2> QED
    BY <1>5, <2>2, <2>3, <2>4 DEF TypeOK, Answer, serverVars, historyVars
<1>6. CASE QueueValidation
  BY <1>6 DEF TypeOK, QueueValidation, serverVars, historyVars, IdleReceiver, ReceiverStep
<1>7. CASE SendAnswer
  <2>1. Head(sendQueue) \in [client : Client, copy : Result]
        /\ Tail(sendQueue) \in Seq([client : Client, copy : Result])
    BY <1>7, HeadTailProperties DEF TypeOK, SendAnswer
  <2>2. view' \in [Client -> Result]
    BY <1>7, <2>1 DEF TypeOK, SendAnswer
  <2> QED
    BY <1>7, <2>1, <2>2 DEF TypeOK, SendAnswer, serverVars, historyVars
<1>8. CASE StartValidation
  <2>1. command' \in [at : CommandStep, verdict : Result, crossed : BOOLEAN]
    <3> DEFINE v == IF result["bgpsec"] = "undefined" THEN truth["bgpsec"] ELSE Undefined["bgpsec"]
    <3>1. v \in Value
      BY DEF TypeOK, Value, Kind, Result
    <3>2. [Undefined EXCEPT !["bgpsec"] = v] \in Result
      BY <3>1, ResultExcept DEF Kind
    <3> QED
      BY <1>8, <3>2 DEF StartValidation, CommandStep
  <2> QED
    BY <1>8, <2>1 DEF TypeOK, StartValidation, serverVars, historyVars
<1>9. CASE LookUpPrefix
  <2>1. [command.verdict EXCEPT !["roa"] = truth["roa"]] \in Result
    <3>1. truth["roa"] \in Value /\ command.verdict \in Result
      BY DEF TypeOK, Value, Kind
    <3> QED
      BY <3>1, ResultExcept DEF Kind
  <2>2. command' = [at |-> "append", crossed |-> command.crossed,
                    verdict |-> [command.verdict EXCEPT !["roa"] = truth["roa"]]]
    BY <1>9 DEF LookUpPrefix, TypeOK
  <2> QED
    BY <1>9, <2>1, <2>2 DEF TypeOK, LookUpPrefix, serverVars, historyVars, CommandStep
<1>18. CASE AppendToPrefix
  <2>1. command' \in [at : CommandStep, verdict : Result, crossed : BOOLEAN]
    BY <1>18 DEF TypeOK, AppendToPrefix, CommandStep
  <2> QED
    BY <1>18, <2>1 DEF TypeOK, AppendToPrefix, historyVars
<1>19. CASE RoaChangeMiscounted
  <2>1. truth' \in [Kind -> Verdict]
    BY <1>19 DEF TypeOK, RoaChangeMiscounted
  <2>2. "roa" \in Kind /\ Verdict \subseteq Value /\ result \in Result /\ command.verdict \in Result
    BY DEF TypeOK, Kind, Value
  <2>3. result' \in Result
    <3>1. result' = result \/ \E v \in Verdict : result' = [result EXCEPT !["roa"] = v]
      BY <1>19 DEF RoaChangeMiscounted
    <3> QED
      BY <2>2, <3>1, ResultExcept
  <2>4. command' \in [at : CommandStep, verdict : Result, crossed : BOOLEAN]
    <3>1. \/ command' = command
          \/ \E v \in Verdict : command' = [command EXCEPT !.verdict["roa"] = v]
      BY <1>19 DEF RoaChangeMiscounted
    <3>2. \A v \in Verdict : [command.verdict EXCEPT !["roa"] = v] \in Result
      BY <2>2, ResultExcept
    <3>3. ASSUME NEW v \in Verdict, command' = [command EXCEPT !.verdict["roa"] = v]
          PROVE  command' = [command EXCEPT !.verdict = [command.verdict EXCEPT !["roa"] = v]]
      BY <3>3 DEF TypeOK
    <3> QED
      BY <3>1, <3>2, <3>3 DEF TypeOK
  <2>5. reasons' \subseteq Kind
    BY <1>19, <2>2 DEF TypeOK, RoaChangeMiscounted, RqQueue
  <2> QED
    BY <1>19, <2>1, <2>3, <2>4, <2>5 DEF TypeOK, RoaChangeMiscounted
<1>10. CASE StoreOrigin
  <2>1. command.verdict["roa"] \in Value /\ command.verdict \in Result
    BY DEF TypeOK, Result, Kind
  <2>2. /\ result' \in Result /\ view' \in [Client -> Result] /\ doubt' \subseteq Client \X Kind
        /\ rpki' \in [at : RpkiStep, kinds : SUBSET Kind, values : Result, crossed : SUBSET Kind]
    BY <1>10, <2>1, ModifyType DEF StoreOrigin, Kind
  <2>3. command' \in [at : CommandStep, verdict : Result, crossed : BOOLEAN]
    BY <1>10, <2>1 DEF TypeOK, StoreOrigin, CommandStep
  <2> QED
    BY <1>10, <2>2, <2>3 DEF TypeOK, StoreOrigin
<1>11. CASE StorePath
  <2>1. command.verdict["bgpsec"] \in Value
    BY DEF TypeOK, Result, Kind
  <2>2. /\ result' \in Result /\ view' \in [Client -> Result] /\ doubt' \subseteq Client \X Kind
        /\ rpki' \in [at : RpkiStep, kinds : SUBSET Kind, values : Result, crossed : SUBSET Kind]
    <3>1. CASE command.verdict["bgpsec"] = "undefined"
      BY <1>11, <3>1 DEF StorePath, TypeOK
    <3>2. CASE command.verdict["bgpsec"] # "undefined"
      BY <1>11, <2>1, <3>2, ModifyType DEF StorePath, Kind
    <3> QED
      BY <3>1, <3>2
  <2> QED
    BY <1>11, <2>2 DEF TypeOK, StorePath, IdleCommand, CommandStep
<1>12. CASE RoaChange
  <2>1. [truth EXCEPT !["roa"] = Other(truth["roa"])] \in [Kind -> Verdict]
    BY DEF TypeOK, Other, Verdict
  <2>2. Other(truth["roa"]) \in Value
    BY DEF Other, Value, Verdict
  <2>3. [result EXCEPT !["roa"] = Other(truth["roa"])] \in Result
    BY <2>2, ResultExcept DEF TypeOK, Kind
  <2>4. overwritten' \in BOOLEAN
    BY <1>12 DEF RoaChange, TypeOK
  <2>5. result' \in Result /\ reasons' \subseteq Kind
    BY <1>12, <2>3 DEF TypeOK, RoaChange, RqQueue, Kind
  <2> QED
    BY <1>12, <2>1, <2>4, <2>5 DEF TypeOK, RoaChange
<1>13. CASE KeyChange
  <2>1. [truth EXCEPT !["bgpsec"] = Other(truth["bgpsec"])] \in [Kind -> Verdict]
    BY DEF TypeOK, Other, Verdict
  <2>2. command' \in [at : CommandStep, verdict : Result, crossed : BOOLEAN]
    BY <1>13 DEF TypeOK, KeyChange
  <2> QED
    BY <1>13, <2>1, <2>2 DEF TypeOK, KeyChange, RqQueue, Kind, serverVars
<1>14. CASE EndOfData
  BY <1>14 DEF TypeOK, EndOfData, serverVars, historyVars, RpkiStep
<1>15. CASE Dequeue
  <2>1. [result EXCEPT !["bgpsec"] = truth["bgpsec"]] \in Result
    <3>1. truth["bgpsec"] \in Value
      BY DEF TypeOK, Value, Kind
    <3> QED
      BY <3>1, ResultExcept DEF TypeOK, Kind
  <2>2. rpki' \in [at : RpkiStep, kinds : SUBSET Kind, values : Result, crossed : SUBSET Kind]
    BY <1>15, <2>1 DEF Dequeue, IdleRpki, RpkiStep, TypeOK
  <2> QED
    BY <1>15, <2>2 DEF TypeOK, Dequeue, serverVars, historyVars
<1>16. CASE SendChange
  <2>1. view' \in [Client -> Result] /\ doubt' \subseteq Client \X Kind
    BY <1>16, ViewAfterType, DoubtAfterType DEF SendChange, Broadcast, TypeOK
  <2> QED
    BY <1>16, <2>1 DEF TypeOK, SendChange, serverVars, IdleRpki, RpkiStep
<1>17. CASE UNCHANGED vars
  BY <1>17 DEF TypeOK, vars, serverVars, historyVars
<1> QED
  BY <1>1, <1>2, <1>3, <1>4, <1>5, <1>6, <1>7, <1>8, <1>9, <1>10, <1>11, <1>12, <1>13,
     <1>14, <1>15, <1>16, <1>17, <1>18, <1>19 DEF Next, ReceiverNext, CommandNext, RpkiNext

\* Every variable of the model of processValidationRequest, of the command
\* thread and of handleEndOfData keeps its type.
THEOREM NotificationTypes == Spec => []TypeOK
BY TypeInit, TypeNext, PTL DEF Spec

-----------------------------------------------------------------------------
(***************************************************************************)
(* The stored origin result.                                               *)
(***************************************************************************)

\* modifyUpdateResult leaves the given value and nothing else in the entry.
LEMMA ModifyResult ==
  ASSUME TypeOK, NEW k \in Kind, NEW v \in Value, NEW old, ModifyUpdateResult(k, v, old)
  PROVE  result'[k] = v /\ \A q \in Kind : q # k => result'[q] = result[q]
<1>1. CASE result[k] = v
  BY <1>1 DEF ModifyUpdateResult
<1>2. CASE result[k] # v
  <2>1. result' = [result EXCEPT ![k] = v] /\ result \in Result
    BY <1>2 DEF ModifyUpdateResult, TypeOK
  <2> QED
    BY <2>1, ResultExcept
<1> QED
  BY <1>1, <1>2

\* What the command thread stores: the look-up of the origin, and the check of
\* the path unless there was none.
LEMMA StoredValues ==
  ASSUME TypeOK
  PROVE  /\ StoreOrigin => /\ result'["roa"] = command.verdict["roa"]
                           /\ result'["bgpsec"] = result["bgpsec"]
         /\ StorePath => /\ result'["roa"] = result["roa"]
                         /\ result'["bgpsec"] = IF command.verdict["bgpsec"] = "undefined"
                                                THEN result["bgpsec"]
                                                ELSE command.verdict["bgpsec"]
<1>1. command.verdict["roa"] \in Value /\ command.verdict["bgpsec"] \in Value
  BY DEF TypeOK, Result, Kind
<1>2. "roa" \in Kind /\ "bgpsec" \in Kind
  BY DEF Kind
<1>3. CASE StoreOrigin
  BY <1>1, <1>2, <1>3, ModifyResult DEF StoreOrigin, StorePath
<1>4. CASE StorePath
  <2>1. CASE command.verdict["bgpsec"] = "undefined"
    BY <1>4, <2>1 DEF StoreOrigin, StorePath
  <2>2. CASE command.verdict["bgpsec"] # "undefined"
    BY <1>1, <1>2, <1>4, <2>2, ModifyResult DEF StoreOrigin, StorePath
  <2> QED
    BY <2>1, <2>2
<1> QED
  BY <1>3, <1>4

LEMMA VerdictsAreDefined ==
  ASSUME TypeOK
  PROVE  /\ truth["roa"] \in Verdict /\ truth["bgpsec"] \in Verdict
         /\ \A v \in Verdict : v # "undefined" /\ Other(v) \in Verdict
BY DEF TypeOK, Kind, Verdict, Other

LEMMA OriginInit == Init => NotStoredYet /\ OneLookUp /\ StoredOriginIsCurrent
BY UndefinedIsResult
   DEF Init, NotStoredYet, OneLookUp, StoredOriginIsCurrent, IdleReceiver, IdleCommand, Kind

LEMMA NotStoredYetNext == TypeOK /\ NotStoredYet /\ [Next]_vars => NotStoredYet'
<1> SUFFICES ASSUME TypeOK, NotStoredYet, [Next]_vars PROVE NotStoredYet'
  OBVIOUS
<1>1. ASSUME NEW c \in Client, NEW receipt \in Receipts, Request(c, receipt) PROVE NotStoredYet'
  BY <1>1 DEF NotStoredYet, Request, serverVars
<1>2. CASE Register
  BY <1>2 DEF TypeOK, NotStoredYet, Register
<1>3. CASE RegisterWithSkiCache
  BY <1>3 DEF TypeOK, NotStoredYet, RegisterWithSkiCache
<1>4. CASE StoreUpdate
  BY <1>4 DEF TypeOK, NotStoredYet, StoreUpdate
<1>5. CASE Answer
  BY <1>5 DEF TypeOK, NotStoredYet, Answer, IdleReceiver, serverVars
<1>6. CASE QueueValidation
  BY <1>6 DEF TypeOK, NotStoredYet, QueueValidation, IdleReceiver, serverVars
<1>7. CASE SendAnswer
  BY <1>7 DEF NotStoredYet, SendAnswer, serverVars
<1>8. CASE StartValidation
  BY <1>8 DEF NotStoredYet, StartValidation, serverVars
<1>9. CASE LookUpPrefix
  BY <1>9 DEF NotStoredYet, LookUpPrefix, IdleCommand, serverVars
<1>18. CASE AppendToPrefix
  BY <1>18 DEF NotStoredYet, AppendToPrefix, IdleCommand
<1>19. CASE RoaChangeMiscounted
  <2>1. stored # "yes" => command.at # "append" /\ ~inPrefixCache
    BY DEF NotStoredYet, IdleCommand
  <2> QED
    BY <1>19, <2>1 DEF NotStoredYet, RoaChangeMiscounted
<1>10. CASE StoreOrigin
  BY <1>10 DEF NotStoredYet, StoreOrigin, IdleCommand
<1>11. CASE StorePath
  BY <1>11 DEF NotStoredYet, StorePath, IdleCommand
<1>12. CASE RoaChange
  BY <1>12 DEF NotStoredYet, RoaChange
<1>13. CASE KeyChange
  <2>1. command = IdleCommand => command' = command
    BY <1>13, UndefinedIsResult DEF KeyChange, IdleCommand, Kind
  <2> QED
    BY <1>13, <2>1 DEF NotStoredYet, KeyChange, serverVars
<1>14. CASE EndOfData
  BY <1>14 DEF NotStoredYet, EndOfData, serverVars
<1>15. CASE Dequeue
  BY <1>15 DEF NotStoredYet, Dequeue, serverVars
<1>16. CASE SendChange
  BY <1>16 DEF NotStoredYet, SendChange, serverVars
<1>17. CASE UNCHANGED vars
  BY <1>17 DEF NotStoredYet, vars, serverVars
<1> QED
  BY <1>1, <1>2, <1>3, <1>4, <1>5, <1>6, <1>7, <1>8, <1>9, <1>10, <1>11, <1>12, <1>13,
     <1>14, <1>15, <1>16, <1>17, <1>18, <1>19 DEF Next, ReceiverNext, CommandNext, RpkiNext

LEMMA OriginNext == OriginInv /\ [Next]_vars => OneLookUp' /\ StoredOriginIsCurrent'
<1> SUFFICES ASSUME OriginInv, [Next]_vars PROVE OneLookUp' /\ StoredOriginIsCurrent'
  OBVIOUS
<1> USE VerdictsAreDefined DEF OriginInv, OneLookUp, StoredOriginIsCurrent
\* These steps touch neither the result, the ROAs, the prefix cache nor the
\* command thread.
<1>1. CASE UNCHANGED <<truth, result, inPrefixCache, command, overwritten, misplaced>>
  BY <1>1
<1>2. ASSUME NEW c \in Client, NEW receipt \in Receipts, Request(c, receipt)
      PROVE  UNCHANGED <<truth, result, inPrefixCache, command, overwritten, misplaced>>
  BY <1>2 DEF Request, serverVars
<1>3. Register \/ RegisterWithSkiCache \/ Answer \/ QueueValidation \/ SendAnswer \/ EndOfData
        \/ Dequeue \/ SendChange \/ UNCHANGED vars
      => UNCHANGED <<truth, result, inPrefixCache, command, overwritten, misplaced>>
  BY DEF Register, RegisterWithSkiCache, Answer, QueueValidation, SendAnswer, EndOfData,
         Dequeue, SendChange, vars, serverVars, historyVars
\* An update is stored before it is validated.
<1>4. CASE StoreUpdate
  BY <1>4, UndefinedIsResult DEF StoreUpdate, NotStoredYet, historyVars, IdleCommand, Kind
<1>5. CASE StartValidation
  BY <1>5 DEF StartValidation, serverVars, historyVars
<1>6. CASE LookUpPrefix
  <2>1. command'.at = "append" /\ command'.verdict["roa"] = truth["roa"]
    BY <1>6 DEF LookUpPrefix, TypeOK, Result, Kind
  <2> QED
    BY <1>6, <2>1 DEF LookUpPrefix, serverVars, historyVars
<1>11. CASE AppendToPrefix
  <2>1. command'.at = "storeOrigin" /\ command'.verdict = command.verdict
    BY <1>11 DEF AppendToPrefix, TypeOK
  <2> QED
    BY <1>11, <2>1 DEF AppendToPrefix, historyVars
\* Before the append nothing is stored; after it whatever is stored is a verdict.
<1>12. CASE RoaChangeMiscounted
  <2>1. misplaced' = TRUE /\ inPrefixCache' = inPrefixCache /\ "roa" \in Kind
    BY <1>12 DEF RoaChangeMiscounted, Kind
  <2>2. command'.at = command.at /\ (command' = command \/ command'.verdict["roa"] \in Verdict)
    BY <1>12, <2>1 DEF RoaChangeMiscounted, TypeOK, Result
  <2>3. result' = result \/ (inPrefixCache /\ result'["roa"] \in Verdict)
    BY <1>12, <2>1 DEF RoaChangeMiscounted, TypeOK, Result
  <2> QED
    BY <2>1, <2>2, <2>3
<1>7. CASE StoreOrigin
  <2>1. command'.at = "storePath" /\ result'["roa"] = command.verdict["roa"]
    BY <1>7, StoredValues DEF StoreOrigin, TypeOK
  <2>2. overwritten' = FALSE => result["roa"] \in {"undefined", command.verdict["roa"]}
    BY <1>7 DEF StoreOrigin
  <2>3. overwritten' \in BOOLEAN
    BY <1>7 DEF StoreOrigin, TypeOK
  <2> QED
    BY <1>7, <2>1, <2>2, <2>3 DEF StoreOrigin
<1>8. CASE StorePath
  <2>1. command'.at = "idle" /\ result'["roa"] = result["roa"]
    BY <1>8, StoredValues DEF StorePath, IdleCommand
  <2> QED
    BY <1>8, <2>1 DEF StorePath
<1>9. CASE RoaChange
  <2>1. truth'["roa"] = Other(truth["roa"])
    BY <1>9 DEF RoaChange, TypeOK, Kind
  <2>2. CASE inPrefixCache
    <3>1. result'["roa"] = Other(truth["roa"]) /\ UNCHANGED <<inPrefixCache, command>>
      BY <1>9, <2>2 DEF RoaChange, TypeOK, Result, Kind
    <3> QED
      BY <2>1, <2>2, <3>1
  <2>3. CASE ~inPrefixCache
    BY <1>9, <2>3 DEF RoaChange
  <2> QED
    BY <2>2, <2>3
<1>10. CASE KeyChange
  <2>1. truth'["roa"] = truth["roa"]
    BY <1>10 DEF KeyChange, TypeOK, Kind
  <2>2. command'.at = command.at /\ command'.verdict = command.verdict
    BY <1>10 DEF KeyChange, TypeOK
  <2> QED
    BY <1>10, <2>1, <2>2 DEF KeyChange, serverVars
<1> QED
  BY <1>1, <1>2, <1>3, <1>4, <1>5, <1>6, <1>7, <1>8, <1>9, <1>10, <1>11, <1>12
     DEF Next, ReceiverNext, CommandNext, RpkiNext

LEMMA OriginInvNext == OriginInv /\ [Next]_vars => OriginInv'
BY TypeNext, NotStoredYetNext, OriginNext DEF OriginInv

LEMMA OriginInvariant == Spec => []OriginInv
<1>1. Init => OriginInv
  BY TypeInit, OriginInit DEF OriginInv
<1> QED
  BY <1>1, OriginInvNext, PTL DEF Spec

\* Whatever the order in which the command thread looks up and stores and the
\* RPKI thread applies ROAs in handlePrefix, the stored origin result is the one
\* the ROAs give, except around the one look-up of the update, after that
\* look-up was stored over a newer result, and after a ROA change that came
\* between the count of the ROAs and the append to the prefix's list.
THEOREM OriginIsCurrent == Spec => []StoredOriginIsCurrent
<1>1. OriginInv => StoredOriginIsCurrent
  BY DEF OriginInv
<1> QED
  BY <1>1, OriginInvariant, PTL

-----------------------------------------------------------------------------
(***************************************************************************)
(* What the listeners know.                                                *)
(***************************************************************************)

\* A broadcast of a kind reaches every client that it does not leave in doubt,
\* nothing is on its way to such a client, and other kinds are left alone.
LEMMA BroadcastTold ==
  ASSUME TypeOK, NEW kinds, NEW values, NEW old, Broadcast(kinds, values, old),
         NEW c \in Client, NEW k \in Kind
  PROVE  /\ k \in kinds /\ <<c, k>> \notin doubt' =>
              ~OnTheWay(c) /\ k \notin old /\ view'[c][k] = values[k]
         /\ k \notin kinds => view'[c][k] = view[c][k] /\ (<<c, k>> \in doubt' <=> <<c, k>> \in doubt)
<1>1. view'[c] = IF c \in BroadcastTargets
                 THEN [q \in Kind |-> IF q \in kinds THEN values[q] ELSE view[c][q]] ELSE view[c]
  BY DEF Broadcast, ViewAfter
<1>2. <<c, k>> \in doubt' <=>
        IF k \in kinds THEN OnTheWay(c) \/ c \notin BroadcastTargets \/ k \in old
        ELSE <<c, k>> \in doubt
  BY DEF Broadcast, DoubtAfter
<1> QED
  BY <1>1, <1>2

\* What modifyUpdateResult does to what a client knows.
LEMMA ModifyTold ==
  ASSUME TypeOK, NEW q \in Kind, NEW v \in Value, NEW old, ModifyUpdateResult(q, v, old),
         NEW c \in Client, NEW k \in Kind
  PROVE  /\ k # q \/ result[q] = v =>
              view'[c][k] = view[c][k] /\ (<<c, k>> \in doubt' <=> <<c, k>> \in doubt)
         /\ k = q /\ result[q] # v /\ <<c, k>> \notin doubt' =>
              ~OnTheWay(c) /\ q \notin old /\ view'[c][k] = v
<1>1. CASE result[q] = v
  BY <1>1 DEF ModifyUpdateResult
<1>2. CASE result[q] # v
  <2>1. Broadcast({q}, result', old)
    BY <1>2 DEF ModifyUpdateResult
  <2>2. result'[q] = v
    BY ModifyResult
  <2> QED
    BY <1>2, <2>1, <2>2, BroadcastTold
<1> QED
  BY <1>1, <1>2

\* A change that was collected and not sent is marked when another value of its
\* kind is stored; nothing else of the RPKI thread changes.
LEMMA ModifyRpki ==
  ASSUME TypeOK, NEW q \in Kind, NEW v \in Value, NEW old, ModifyUpdateResult(q, v, old)
  PROVE  /\ rpki'.at = rpki.at /\ rpki'.kinds = rpki.kinds /\ rpki'.values = rpki.values
         /\ rpki.crossed \subseteq rpki'.crossed
         /\ result[q] # v /\ Sending(q) => q \in rpki'.crossed
<1>1. CASE result[q] = v
  BY <1>1 DEF ModifyUpdateResult
<1>2. CASE result[q] # v
  <2>1. rpki' = IF Sending(q) THEN [rpki EXCEPT !.crossed = @ \union {q}] ELSE rpki
    BY <1>2 DEF ModifyUpdateResult, Sending
  <2>2. /\ rpki'.at = rpki.at /\ rpki'.kinds = rpki.kinds /\ rpki'.values = rpki.values
        /\ rpki'.crossed = IF Sending(q) THEN rpki.crossed \union {q} ELSE rpki.crossed
    BY <2>1 DEF TypeOK
  <2> QED
    BY <1>2, <2>2
<1> QED
  BY <1>1, <1>2

\* What is sent last to a client stays that while nothing is sent to it.
LEMMA LastWordFrame ==
  ASSUME NEW c, NEW k, LastWordIs(c, k, Current(k)), Current(k)' = Current(k),
         Due(c)' <=> Due(c), receiver'.copy = receiver.copy, sendQueue' = sendQueue,
         view'[c][k] = view[c][k]
  PROVE  LastWordIs(c, k, Current(k))'
<1> HIDE DEF Current
<1> QED
  BY DEF LastWordIs, LastSentIs

LEMMA OneCheckNext == OriginInv /\ OneCheck /\ [Next]_vars => OneCheck'
<1> SUFFICES ASSUME OriginInv, OneCheck, [Next]_vars PROVE OneCheck'
  OBVIOUS
<1> USE VerdictsAreDefined DEF OriginInv, OneCheck
<1>1. CASE UNCHANGED <<truth, result, command, unsaved>>
  BY <1>1
<1>2. ASSUME NEW c \in Client, NEW receipt \in Receipts, Request(c, receipt)
      PROVE  UNCHANGED <<truth, result, command, unsaved>>
  BY <1>2 DEF Request, serverVars
<1>3. Register \/ RegisterWithSkiCache \/ Answer \/ QueueValidation \/ SendAnswer \/ EndOfData
        \/ Dequeue \/ SendChange \/ UNCHANGED vars
      => UNCHANGED <<truth, result, command, unsaved>>
  BY DEF Register, RegisterWithSkiCache, Answer, QueueValidation, SendAnswer, EndOfData,
         Dequeue, SendChange, vars, serverVars, historyVars
<1>4. CASE StoreUpdate
  BY <1>4, UndefinedIsResult DEF StoreUpdate, NotStoredYet, historyVars, IdleCommand, Kind
<1>5. CASE StartValidation
  <2>1. command'.verdict["bgpsec"] = IF result["bgpsec"] = "undefined" THEN truth["bgpsec"]
                                     ELSE "undefined"
    BY <1>5, UndefinedIsResult DEF StartValidation, Undefined, Kind
  <2>2. command'.at # "idle" /\ command'.crossed = FALSE
    BY <1>5 DEF StartValidation
  <2> QED
    BY <1>5, <2>1, <2>2 DEF StartValidation, serverVars, historyVars
<1>6. CASE LookUpPrefix
  <2>1. /\ command'.at # "idle" /\ command'.verdict["bgpsec"] = command.verdict["bgpsec"]
        /\ command'.crossed = command.crossed
    BY <1>6 DEF LookUpPrefix, TypeOK, Result, Kind
  <2> QED
    BY <1>6, <2>1 DEF LookUpPrefix, serverVars, historyVars
<1>11. CASE AppendToPrefix
  <2>1. /\ command'.at # "idle" /\ command'.verdict = command.verdict
        /\ command'.crossed = command.crossed
    BY <1>11 DEF AppendToPrefix, TypeOK
  <2> QED
    BY <1>11, <2>1 DEF AppendToPrefix, historyVars
<1>12. CASE RoaChangeMiscounted
  <2>1. truth'["bgpsec"] = truth["bgpsec"] /\ result'["bgpsec"] = result["bgpsec"]
    BY <1>12 DEF RoaChangeMiscounted, TypeOK, Result, Kind
  <2>2. \/ command' = command
        \/ /\ command'.at = "append" /\ command'.verdict["bgpsec"] = command.verdict["bgpsec"]
           /\ command'.crossed = command.crossed
    BY <1>12 DEF RoaChangeMiscounted, TypeOK, Result, Kind
  <2> QED
    BY <1>12, <2>1, <2>2 DEF RoaChangeMiscounted
<1>7. CASE StoreOrigin
  <2>1. /\ command'.at # "idle" /\ command'.verdict["bgpsec"] = command.verdict["bgpsec"]
        /\ command'.crossed = command.crossed
    BY <1>7 DEF StoreOrigin, TypeOK
  <2>2. result'["bgpsec"] = result["bgpsec"]
    BY <1>7, StoredValues
  <2> QED
    BY <1>7, <2>1, <2>2 DEF StoreOrigin
<1>8. CASE StorePath
  <2>1. command'.verdict = Undefined /\ command'.crossed = FALSE
    BY <1>8 DEF StorePath, IdleCommand
  <2>2. result'["bgpsec"] = IF command.verdict["bgpsec"] = "undefined"
                            THEN result["bgpsec"] ELSE command.verdict["bgpsec"]
    BY <1>8, StoredValues
  <2> QED
    BY <1>8, <2>1, <2>2, UndefinedIsResult DEF StorePath, Kind
<1>9. CASE RoaChange
  <2>1. truth'["bgpsec"] = truth["bgpsec"] /\ result'["bgpsec"] = result["bgpsec"]
    BY <1>9 DEF RoaChange, TypeOK, Result, Kind
  <2> QED
    BY <1>9, <2>1 DEF RoaChange
<1>10. CASE KeyChange
  <2>1. CASE command.verdict["bgpsec"] = "undefined"
    BY <1>10, <2>1 DEF KeyChange, serverVars
  <2>2. CASE command.verdict["bgpsec"] # "undefined"
    <3>1. command'.at = command.at /\ command'.verdict = command.verdict /\ command'.crossed = TRUE
      BY <1>10, <2>2 DEF KeyChange, TypeOK
    <3> QED
      BY <1>10, <2>2, <3>1 DEF KeyChange, serverVars
  <2> QED
    BY <2>1, <2>2
<1> QED
  BY <1>1, <1>2, <1>3, <1>4, <1>5, <1>6, <1>7, <1>8, <1>9, <1>10, <1>11, <1>12
     DEF Next, ReceiverNext, CommandNext, RpkiNext

LEMMA QueueUnusedNext ==
  (~UseSendQueue => sendQueue = <<>>) /\ [Next]_vars => (~UseSendQueue => sendQueue' = <<>>)
<1> SUFFICES ASSUME ~UseSendQueue, sendQueue = <<>>, [Next]_vars PROVE sendQueue' = <<>>
  OBVIOUS
<1>1. ASSUME NEW c \in Client, NEW receipt \in Receipts, Request(c, receipt) PROVE sendQueue' = <<>>
  BY <1>1 DEF Request
<1> QED
  BY <1>1 DEF Next, ReceiverNext, CommandNext, RpkiNext, Register, RegisterWithSkiCache,
     StoreUpdate, Answer, QueueValidation, SendAnswer, StartValidation, LookUpPrefix,
     AppendToPrefix, RoaChangeMiscounted, StoreOrigin, StorePath, RoaChange, KeyChange, EndOfData, Dequeue, SendChange, vars

LEMMA CollectedNext == OriginInv /\ CollectedIsCurrent /\ [Next]_vars => CollectedIsCurrent'
<1> SUFFICES ASSUME OriginInv, CollectedIsCurrent, [Next]_vars PROVE CollectedIsCurrent'
  OBVIOUS
<1> USE DEF OriginInv, CollectedIsCurrent
<1>1. CASE UNCHANGED <<truth, result, rpki>>
  BY <1>1 DEF Sending, Current
<1>2. ASSUME NEW c \in Client, NEW receipt \in Receipts, Request(c, receipt)
      PROVE  UNCHANGED <<truth, result, rpki>>
  BY <1>2 DEF Request, serverVars
<1>3. Register \/ RegisterWithSkiCache \/ Answer \/ QueueValidation \/ SendAnswer
        \/ StartValidation \/ LookUpPrefix \/ AppendToPrefix \/ UNCHANGED vars
      => UNCHANGED <<truth, result, rpki>>
  BY DEF Register, RegisterWithSkiCache, Answer, QueueValidation, SendAnswer, StartValidation,
         LookUpPrefix, AppendToPrefix, vars, serverVars
<1>4. StoreUpdate => UNCHANGED <<truth, result, rpki>>
  BY DEF StoreUpdate, NotStoredYet
<1>5. ASSUME NEW k \in Kind, Sending(k)', k \notin rpki'.crossed,
             rpki'.at = rpki.at, rpki'.kinds = rpki.kinds, rpki'.values = rpki.values,
             rpki.crossed \subseteq rpki'.crossed, Current(k)' = Current(k)
      PROVE  rpki'.values[k] = Current(k)'
  BY <1>5 DEF Sending
<1>6. "roa" \in Kind /\ "bgpsec" \in Kind /\ Kind = {"roa", "bgpsec"}
  BY DEF Kind
<1>7. CASE StoreOrigin
  <2>1. command.verdict["roa"] \in Value /\ ModifyUpdateResult("roa", command.verdict["roa"], {})
    BY <1>7 DEF StoreOrigin, TypeOK, Result, Kind
  <2>2. /\ rpki'.at = rpki.at /\ rpki'.kinds = rpki.kinds /\ rpki'.values = rpki.values
        /\ rpki.crossed \subseteq rpki'.crossed
        /\ result["roa"] # command.verdict["roa"] /\ Sending("roa") => "roa" \in rpki'.crossed
    BY <1>6, <2>1, ModifyRpki
  <2>3. result'["roa"] = command.verdict["roa"] /\ truth' = truth
    BY <1>7, StoredValues DEF StoreOrigin
  <2>4. ASSUME NEW k \in Kind, Sending(k)', k \notin rpki'.crossed
        PROVE  rpki'.values[k] = Current(k)'
    <3>1. Current(k)' = Current(k)
      BY <1>6, <2>2, <2>3, <2>4 DEF Current, Sending
    <3> QED
      BY <1>5, <2>2, <2>4, <3>1
  <2> QED
    BY <2>4
<1>8. CASE StorePath
  <2>1. result'["roa"] = result["roa"] /\ truth' = truth
    BY <1>8, StoredValues DEF StorePath
  <2>2. /\ rpki'.at = rpki.at /\ rpki'.kinds = rpki.kinds /\ rpki'.values = rpki.values
        /\ rpki.crossed \subseteq rpki'.crossed
    <3>1. CASE command.verdict["bgpsec"] = "undefined"
      BY <1>8, <3>1 DEF StorePath
    <3>2. CASE command.verdict["bgpsec"] # "undefined"
      <4>1. command.verdict["bgpsec"] \in Value
        BY DEF TypeOK, Result, Kind
      <4> QED
        BY <1>6, <1>8, <3>2, <4>1, ModifyRpki DEF StorePath
    <3> QED
      BY <3>1, <3>2
  <2>3. \A k \in Kind : Current(k)' = Current(k)
    BY <2>1 DEF Current
  <2> QED
    BY <1>5, <2>2, <2>3
<1>9. CASE RoaChange \/ RoaChangeMiscounted \/ KeyChange \/ EndOfData \/ SendChange
  <2>1. ~ \E k \in Kind : Sending(k)'
    BY <1>9 DEF RoaChange, RoaChangeMiscounted, KeyChange, EndOfData, SendChange, Sending,
                TypeOK, IdleRpki
  <2> QED
    BY <2>1
<1>10. CASE Dequeue
  <2>1. ASSUME NEW k \in Kind, Sending(k)' PROVE rpki'.values[k] = Current(k)'
    <3>1. rpki'.values = [result EXCEPT !["bgpsec"] = truth["bgpsec"]]
      BY <1>10, <2>1 DEF Dequeue, Sending, IdleRpki
    <3>2. UNCHANGED <<truth, result>>
      BY <1>10 DEF Dequeue, serverVars
    <3> QED
      BY <1>6, <3>1, <3>2 DEF Current, TypeOK, Result
  <2> QED
    BY <2>1
<1> QED
  BY <1>1, <1>2, <1>3, <1>4, <1>7, <1>8, <1>9, <1>10
     DEF Next, ReceiverNext, CommandNext, RpkiNext

\* Delivering the oldest answer does not change what arrives last.
LEMMA LastSentDelivered ==
  ASSUME TypeOK, SendAnswer, NEW c \in Client, NEW k \in Kind, LastSentIs(c, k, Current(k))
  PROVE  LastSentIs(c, k, Current(k))'
<1> DEFINE E == [client : Client, copy : Result]
           q == sendQueue
           t == Tail(sendQueue)
<1>1. q \in Seq(E) /\ q # <<>> /\ sendQueue' = t /\ q[1] \in E
      /\ view' = [view EXCEPT ![q[1].client] = q[1].copy] /\ view \in [Client -> Result]
  <2>1. q \in Seq(E) /\ q # <<>> /\ view \in [Client -> Result]
    BY DEF SendAnswer, TypeOK
  <2>2. Head(q) = q[1] /\ Head(q) \in E
    <3> HIDE DEF q, E
    <3>1. Head(q) \in E
      BY <2>1, HeadTailProperties
    <3>2. Head(q) = q[1]
      BY <2>1
    <3> QED
      BY <3>1, <3>2
  <2> QED
    BY <2>1, <2>2 DEF SendAnswer
<1>2. Len(q) \in Nat \ {0} /\ DOMAIN q = 1 .. Len(q) /\ DOMAIN t = 1 .. (Len(q) - 1)
      /\ \A i \in 1 .. (Len(q) - 1) : t[i] = q[i + 1]
  <2>1. Len(q) \in Nat \ {0} /\ DOMAIN q = 1 .. Len(q)
    BY <1>1, LenProperties, EmptySeq
  <2>2. t \in Seq(E) /\ Len(t) = Len(q) - 1
    BY <1>1, HeadTailProperties
  <2>3. DOMAIN t = 1 .. (Len(q) - 1)
    BY <2>2, LenProperties
  <2>4. \A i \in 1 .. (Len(q) - 1) : t[i] = q[i + 1]
    BY <1>1, <2>1, <2>2, HeadTailProperties
  <2> QED
    BY <2>1, <2>3, <2>4
<1>3. Current(k)' = Current(k)
  BY DEF Current, SendAnswer, serverVars
<1>4. /\ \A i \in DOMAIN q :
           q[i].client = c /\ (\A j \in DOMAIN q : j > i => q[j].client # c)
             => q[i].copy[k] = Current(k)
      /\ (\A i \in DOMAIN q : q[i].client # c) => view[c][k] = Current(k)
  BY DEF LastSentIs
<1> HIDE DEF Current, q, t, E
<1>5. ASSUME NEW i \in DOMAIN t, t[i].client = c, \A j \in DOMAIN t : j > i => t[j].client # c
      PROVE  t[i].copy[k] = Current(k)
  <2>1. i + 1 \in DOMAIN q /\ q[i + 1] = t[i]
    BY <1>2, <1>5
  <2>2. ASSUME NEW j \in DOMAIN q, j > i + 1 PROVE q[j].client # c
    <3>1. j - 1 \in DOMAIN t /\ j - 1 > i /\ t[j - 1] = q[j]
      BY <1>2, <2>2
    <3> QED
      BY <1>5, <3>1
  <2> QED
    BY <1>4, <1>5, <2>1, <2>2
<1>6. ASSUME \A i \in DOMAIN t : t[i].client # c
      PROVE  view'[c][k] = Current(k)
  <2>1. ASSUME NEW j \in DOMAIN q, j > 1 PROVE q[j].client # c
    <3>1. j - 1 \in DOMAIN t /\ t[j - 1] = q[j]
      BY <1>2, <2>1
    <3> QED
      BY <1>6, <3>1
  <2>2. 1 \in DOMAIN q
    BY <1>2
  <2>3. CASE q[1].client = c
    <3>1. q[1].copy[k] = Current(k)
      BY <1>4, <2>1, <2>2, <2>3
    <3> QED
      BY <1>1, <2>3, <3>1 DEF E
  <2>4. CASE q[1].client # c
    <3>1. \A j \in DOMAIN q : q[j].client # c
      BY <1>2, <2>1, <2>4
    <3>2. view'[c] = view[c]
      BY <1>1, <2>4
    <3> QED
      BY <1>4, <3>1, <3>2
  <2> QED
    BY <2>3, <2>4
<1> QED
  BY <1>1, <1>3, <1>5, <1>6 DEF LastSentIs

\* An answer that is queued arrives last, and concerns one client only.
LEMMA LastSentQueued ==
  ASSUME TypeOK, NEW c \in Client, NEW k \in Kind, NEW r \in Client, NEW copy \in Result,
         sendQueue' = Append(sendQueue, [client |-> r, copy |-> copy]), view' = view,
         Current(k)' = Current(k),
         IF r = c THEN copy[k] = Current(k) ELSE LastSentIs(c, k, Current(k))
  PROVE  LastSentIs(c, k, Current(k))'
<1> DEFINE E == [client : Client, copy : Result]
           e == [client |-> r, copy |-> copy]
           q == sendQueue
           n == Len(q)
<1>1. q \in Seq(E) /\ e \in E
  BY DEF TypeOK
<1>2. e.client = r /\ e.copy = copy
  OBVIOUS
<1> HIDE DEF Current, E, e
<1>3. /\ n \in Nat /\ DOMAIN q = 1 .. n /\ DOMAIN sendQueue' = 1 .. (n + 1)
      /\ sendQueue'[n + 1] = e /\ \A i \in 1 .. n : sendQueue'[i] = q[i]
  <2>1. sendQueue' = Append(q, e)
    BY DEF e
  <2>2. n \in Nat /\ DOMAIN q = 1 .. n
    BY <1>1, LenProperties
  <2>3. sendQueue' \in Seq(E) /\ Len(sendQueue') = n + 1
    BY <1>1, <2>1, AppendProperties
  <2>4. DOMAIN sendQueue' = 1 .. (n + 1)
    BY <2>3, LenProperties
  <2> QED
    BY <1>1, <2>1, <2>2, <2>4, AppendProperties
<1>4. CASE r = c
  <2>1. copy[k] = Current(k)'
    BY <1>4
  <2>2. ASSUME NEW i \in DOMAIN sendQueue',
               \A j \in DOMAIN sendQueue' : j > i => sendQueue'[j].client # c
        PROVE  sendQueue'[i].copy[k] = Current(k)'
    <3>1. i = n + 1
      BY <1>2, <1>3, <1>4, <2>2
    <3> QED
      BY <1>2, <1>3, <2>1, <3>1
  <2>3. ~ \A i \in DOMAIN sendQueue' : sendQueue'[i].client # c
    BY <1>2, <1>3, <1>4
  <2> QED
    BY <2>2, <2>3 DEF LastSentIs
<1>5. CASE r # c
  <2>1. LastSentIs(c, k, Current(k))
    BY <1>5
  <2>2. ASSUME NEW i \in DOMAIN sendQueue', sendQueue'[i].client = c,
               \A j \in DOMAIN sendQueue' : j > i => sendQueue'[j].client # c
        PROVE  sendQueue'[i].copy[k] = Current(k)'
    <3>1. i \in DOMAIN q /\ sendQueue'[i] = q[i]
      BY <1>2, <1>3, <1>5, <2>2
    <3>2. \A j \in DOMAIN q : j > i => q[j].client # c
      BY <1>3, <2>2
    <3> QED
      BY <2>1, <2>2, <3>1, <3>2 DEF LastSentIs
  <2>3. ASSUME \A i \in DOMAIN sendQueue' : sendQueue'[i].client # c
        PROVE  view'[c][k] = Current(k)'
    <3>1. \A i \in DOMAIN q : q[i].client # c
      BY <1>3, <2>3
    <3> QED
      BY <2>1, <3>1 DEF LastSentIs
  <2> QED
    BY <2>2, <2>3 DEF LastSentIs
<1> QED
  BY <1>4, <1>5

LEMMA LastWordNext == ListenersInv /\ [Next]_vars => LastWordIsCurrent'
<1> SUFFICES ASSUME ListenersInv, [Next]_vars, NEW c \in Client, NEW k \in Kind, Covered(c, k)'
             PROVE  LastWordIs(c, k, Current(k))'
  BY DEF LastWordIsCurrent
<1> USE DEF ListenersInv, OriginInv
<1>kind. "roa" \in Kind /\ "bgpsec" \in Kind /\ Kind = {"roa", "bgpsec"}
  BY DEF Kind
<1>defined. result[k] # "undefined" => Current(k) # "undefined"
  BY VerdictsAreDefined, <1>kind DEF Current
\* The frame of most steps: c was covered before, and nothing was sent to it.
<1>frame. ASSUME Covered(c, k), Current(k)' = Current(k), Due(c)' <=> Due(c),
                 receiver'.copy = receiver.copy, sendQueue' = sendQueue, view'[c][k] = view[c][k]
          PROVE  LastWordIs(c, k, Current(k))'
  <2>1. LastWordIs(c, k, Current(k))
    BY <1>frame DEF LastWordIsCurrent
  <2> QED
    BY <1>frame, <2>1, LastWordFrame
\* Nothing is on its way to c and its view is current.
<1>told. ASSUME ~OnTheWay(c), UNCHANGED <<receiver, sendQueue>>, view'[c][k] = Current(k)'
         PROVE  LastWordIs(c, k, Current(k))'
  <2> HIDE DEF Current
  <2> QED
    BY <1>told DEF OnTheWay, LastWordIs, LastSentIs, Due
<1>1. ASSUME NEW r \in Client, NEW receipt \in Receipts, Request(r, receipt)
      PROVE  LastWordIs(c, k, Current(k))'
  <2>1. Current(k)' = Current(k) /\ result' = result
    BY <1>1 DEF Request, serverVars, Current
  <2>2. CASE r = c
    <3>1. Due(c)' /\ stored = "yes" /\ receiver'.copy = result
      BY <1>1, <1>kind, <2>1, <2>2, UndefinedIsResult
         DEF Request, Due, NotStoredYet, Covered
    <3>2. k = "bgpsec" => ~unsaved
      BY <1>1, <1>kind, <2>2 DEF Request, Covered
    <3>3. result[k] = Current(k)
      BY <1>kind, <2>1, <3>2 DEF OneCheck, Current, Covered
    <3> QED
      BY <2>1, <3>1, <3>3 DEF LastWordIs
  <2>3. CASE r # c
    <3>1. ~Due(c) /\ ~Due(c)'
      BY <1>1, <2>3 DEF Request, Due
    <3>2. Covered(c, k)
      BY <1>1, <2>3, <3>1 DEF Request, Covered, Sending, serverVars
    <3>3. LastSentIs(c, k, Current(k))
      BY <3>1, <3>2 DEF LastWordIsCurrent, LastWordIs
    <3>4. LastSentIs(c, k, Current(k))'
      <4> HIDE DEF Current
      <4> QED
        BY <1>1, <2>1, <3>3 DEF Request, LastSentIs
    <3> QED
      BY <3>1, <3>4 DEF LastWordIs
  <2> QED
    BY <2>2, <2>3
<1>2. CASE Register
  <2>1. (Due(c)' <=> Due(c)) /\ receiver'.copy = receiver.copy
    BY <1>2 DEF Register, Due, TypeOK
  <2>2. Covered(c, k)
    BY <1>2, <2>1 DEF Register, Covered, Sending, Due, historyVars
  <2> QED
    BY <1>2, <1>frame, <2>1, <2>2 DEF Register, Current
<1>3. CASE RegisterWithSkiCache
  <2>1. (Due(c)' <=> Due(c)) /\ receiver'.copy = receiver.copy
    BY <1>3 DEF RegisterWithSkiCache, Due, TypeOK
  <2>2. Covered(c, k)
    BY <1>3, <2>1 DEF RegisterWithSkiCache, Covered, Sending, historyVars
  <2> QED
    BY <1>3, <1>frame, <2>1, <2>2 DEF RegisterWithSkiCache, Current
<1>4. CASE StoreUpdate
  BY <1>4, UndefinedIsResult DEF StoreUpdate, Covered
<1>5. CASE Answer
  <2>1. Current(k)' = Current(k) /\ ~Due(c)'
    BY <1>5 DEF Answer, serverVars, Current, Due, IdleReceiver, TypeOK
  <2>2. Covered(c, k)
    BY <1>5, <2>1 DEF Answer, Covered, Sending, Due, serverVars, historyVars, NotStoredYet
  <2>3. LastWordIs(c, k, Current(k))
    BY <2>2 DEF LastWordIsCurrent
  <2>4. receiver.client \in Client /\ receiver.copy \in Result
    BY <1>5 DEF Answer, TypeOK
  <2>5. receiver.client = c => receiver.copy[k] = Current(k) /\ AnswerNeeded
    BY <1>5, <1>defined, <2>2, <2>3, UndefinedIsResult
       DEF Answer, LastWordIs, Due, Covered, AnswerNeeded
  <2>6. receiver.client # c => LastSentIs(c, k, Current(k))
    BY <2>3 DEF LastWordIs, Due
  <2>7. LastSentIs(c, k, Current(k))'
    <3>1. CASE AnswerNeeded /\ UseSendQueue
      <4>1. /\ sendQueue' = Append(sendQueue, [client |-> receiver.client, copy |-> receiver.copy])
            /\ view' = view
        BY <1>5, <3>1 DEF Answer
      <4> QED
        BY <2>1, <2>4, <2>5, <2>6, <4>1, LastSentQueued
    <3>2. CASE AnswerNeeded /\ ~UseSendQueue
      <4>1. sendQueue = <<>> /\ sendQueue' = <<>>
        BY <1>5, <3>2 DEF Answer
      <4>2. view' = [view EXCEPT ![receiver.client] = receiver.copy]
        BY <1>5, <3>2 DEF Answer
      <4>3. view'[c][k] = Current(k)
        <5> HIDE DEF Current
        <5>1. CASE receiver.client = c
          BY <2>5, <4>2, <5>1 DEF TypeOK
        <5>2. CASE receiver.client # c
          <6>1. view[c][k] = Current(k)
            BY <2>6, <4>1, <5>2 DEF LastSentIs
          <6> QED
            BY <4>2, <5>2, <6>1 DEF TypeOK
        <5> QED
          BY <5>1, <5>2
      <4> HIDE DEF Current
      <4> QED
        BY <2>1, <4>1, <4>3 DEF LastSentIs
    <3>3. CASE ~AnswerNeeded
      <4>1. sendQueue' = sendQueue /\ view' = view
        BY <1>5, <3>3 DEF Answer
      <4> HIDE DEF Current
      <4> QED
        BY <2>1, <2>5, <2>6, <3>3, <4>1 DEF LastSentIs
    <3> QED
      BY <3>1, <3>2, <3>3
  <2> QED
    BY <2>1, <2>7 DEF LastWordIs
<1>6. CASE QueueValidation
  <2>1. ~Due(c) /\ ~Due(c)'
    BY <1>6 DEF QueueValidation, Due, IdleReceiver
  <2>2. Covered(c, k)
    BY <1>6, <2>1 DEF QueueValidation, Covered, Sending, serverVars, historyVars
  <2>3. LastSentIs(c, k, Current(k))
    BY <2>1, <2>2 DEF LastWordIsCurrent, LastWordIs
  <2>4. Current(k)' = Current(k)
    BY <1>6 DEF QueueValidation, serverVars, Current
  <2>5. LastSentIs(c, k, Current(k))'
    <3> HIDE DEF Current
    <3> QED
      BY <1>6, <2>3, <2>4 DEF QueueValidation, LastSentIs
  <2> QED
    BY <2>1, <2>5 DEF LastWordIs
<1>7. CASE SendAnswer
  <2>1. (Due(c)' <=> Due(c)) /\ receiver' = receiver
    BY <1>7 DEF SendAnswer, Due
  <2>2. Covered(c, k)
    BY <1>7, <2>1 DEF SendAnswer, Covered, Sending, serverVars, historyVars
  <2>3. LastWordIs(c, k, Current(k)) /\ Current(k)' = Current(k)
    BY <1>7, <2>2 DEF LastWordIsCurrent, SendAnswer, serverVars, Current
  <2> QED
    BY <1>7, <2>1, <2>3, LastSentDelivered DEF LastWordIs
<1>8. CASE StartValidation
  <2>1. Covered(c, k)
    BY <1>8 DEF StartValidation, Covered, Sending, Due, serverVars, historyVars
  <2> QED
    BY <1>8, <1>frame, <2>1 DEF StartValidation, Current, Due, serverVars
<1>9. CASE LookUpPrefix
  <2>1. Covered(c, k)
    BY <1>9 DEF LookUpPrefix, Covered, Sending, Due, serverVars, historyVars
  <2> QED
    BY <1>9, <1>frame, <2>1 DEF LookUpPrefix, Current, Due, serverVars
<1>18. CASE AppendToPrefix
  <2>1. Covered(c, k)
    BY <1>18 DEF AppendToPrefix, Covered, Sending, Due, historyVars
  <2> QED
    BY <1>18, <1>frame, <2>1 DEF AppendToPrefix, Current, Due
<1>19. CASE RoaChangeMiscounted
  <2>1. truth'["bgpsec"] = truth["bgpsec"] /\ result'["bgpsec"] = result["bgpsec"]
    BY <1>19, <1>kind DEF RoaChangeMiscounted, TypeOK, Result
  <2>2. UNCHANGED <<listeners, receiver, sendQueue, view, doubt, rpki>>
    BY <1>19 DEF RoaChangeMiscounted
  <2>3. UNCHANGED <<result, reasons>> \/ reasons' = RqQueue("roa")
    BY <1>19 DEF RoaChangeMiscounted
  \* A stored result is queued, so only the other kind stays covered.
  <2>4. k = "bgpsec" \/ UNCHANGED <<result, reasons>>
    BY <1>kind, <2>3 DEF Covered, RqQueue
  <2>5. Current(k)' = Current(k) /\ result'[k] = result[k] /\ reasons \subseteq reasons'
    BY <1>kind, <2>1, <2>3, <2>4 DEF Current, RqQueue
  <2>6. Covered(c, k)
    BY <2>2, <2>5 DEF Covered, Sending, Due
  <2> QED
    BY <1>frame, <2>2, <2>5, <2>6 DEF Due
<1>10. CASE StoreOrigin
  <2>1. command.verdict["roa"] \in Value /\ ModifyUpdateResult("roa", command.verdict["roa"], {})
    BY <1>10 DEF StoreOrigin, TypeOK, Result, Kind
  <2>2. rpki'.at = rpki.at /\ rpki'.kinds = rpki.kinds
    BY <1>kind, <2>1, ModifyRpki
  <2>3. /\ k # "roa" \/ result["roa"] = command.verdict["roa"] =>
             view'[c][k] = view[c][k] /\ (<<c, k>> \in doubt' <=> <<c, k>> \in doubt)
        /\ k = "roa" /\ result["roa"] # command.verdict["roa"] /\ <<c, k>> \notin doubt' =>
             ~OnTheWay(c) /\ "roa" \notin {} /\ view'[c][k] = command.verdict["roa"]
    <3>1. TypeOK
      OBVIOUS
    <3> QED
      BY <1>kind, <2>1, <3>1, ModifyTold, Zenon
  <2>4. result'["roa"] = command.verdict["roa"] /\ result'["bgpsec"] = result["bgpsec"]
        /\ UNCHANGED <<truth, receiver, sendQueue, listeners, reasons>>
    BY <1>10, StoredValues DEF StoreOrigin
  <2>5. CASE k # "roa" \/ result["roa"] = command.verdict["roa"]
    <3>1. result'[k] = result[k] /\ Current(k)' = Current(k)
      BY <1>kind, <2>4, <2>5 DEF Current
    <3>2. Covered(c, k)
      BY <2>2, <2>3, <2>4, <2>5, <3>1 DEF Covered, Sending, Due
    <3> QED
      BY <1>frame, <2>3, <2>4, <2>5, <3>1, <3>2 DEF Due
  <2>6. CASE k = "roa" /\ result["roa"] # command.verdict["roa"]
    BY <1>told, <2>3, <2>4, <2>6 DEF Covered, Current
  <2> QED
    BY <2>5, <2>6
<1>11. CASE StorePath
  <2>1. UNCHANGED <<truth, receiver, sendQueue, listeners, reasons>>
    BY <1>11 DEF StorePath
  <2>2. CASE command.verdict["bgpsec"] = "undefined"
    <3>1. UNCHANGED <<result, view, doubt, rpki>>
      BY <1>11, <2>2 DEF StorePath
    <3>2. Covered(c, k)
      BY <2>1, <3>1 DEF Covered, Sending, Due
    <3> QED
      BY <1>frame, <2>1, <3>1, <3>2 DEF Due, Current
  <2>3. CASE command.verdict["bgpsec"] # "undefined"
    <3> DEFINE old == IF command.crossed THEN {"bgpsec"} ELSE {}
    <3>1. command.verdict["bgpsec"] \in Value
          /\ ModifyUpdateResult("bgpsec", command.verdict["bgpsec"], old)
      BY <1>11, <2>3 DEF StorePath, TypeOK, Result, Kind
    <3> HIDE DEF old
    <3>2. rpki'.at = rpki.at /\ rpki'.kinds = rpki.kinds
      BY <1>kind, <3>1, ModifyRpki
    <3>3. result["bgpsec"] # command.verdict["bgpsec"]
      BY <2>3 DEF OneCheck
    <3>4. /\ k # "bgpsec" \/ result["bgpsec"] = command.verdict["bgpsec"] =>
               view'[c][k] = view[c][k] /\ (<<c, k>> \in doubt' <=> <<c, k>> \in doubt)
          /\ k = "bgpsec" /\ result["bgpsec"] # command.verdict["bgpsec"] /\ <<c, k>> \notin doubt' =>
               ~OnTheWay(c) /\ "bgpsec" \notin old /\ view'[c][k] = command.verdict["bgpsec"]
      <4>1. TypeOK
        OBVIOUS
      <4> QED
        BY <1>kind, <3>1, <4>1, ModifyTold, Zenon
    <3>5. result'["roa"] = result["roa"]
      BY <1>11, StoredValues
    <3>6. CASE k = "roa"
      <4>1. Covered(c, k)
        BY <2>1, <3>2, <3>4, <3>5, <3>6 DEF Covered, Sending, Due
      <4> QED
        BY <1>frame, <2>1, <3>4, <3>5, <3>6, <4>1 DEF Due, Current
    <3>7. CASE k = "bgpsec"
      <4>1. ~command.crossed => command.verdict["bgpsec"] = truth["bgpsec"]
        BY <2>3 DEF OneCheck
      <4>2. ~OnTheWay(c) /\ "bgpsec" \notin old /\ view'[c][k] = command.verdict["bgpsec"]
        BY <3>3, <3>4, <3>7 DEF Covered
      <4>3. view'[c][k] = Current(k)'
        BY <2>1, <3>7, <4>1, <4>2 DEF Current, old
      <4> QED
        BY <1>told, <2>1, <4>2, <4>3
    <3> QED
      BY <1>kind, <3>6, <3>7
  <2> QED
    BY <2>2, <2>3
<1>12. CASE RoaChange
  <2>1. k = "bgpsec"
    BY <1>12, <1>kind DEF RoaChange, Covered, RqQueue, OneLookUp
  <2>2. truth'["bgpsec"] = truth["bgpsec"] /\ result'["bgpsec"] = result["bgpsec"]
    BY <1>12, <1>kind DEF RoaChange, TypeOK, Result
  <2>3. Covered(c, k)
    BY <1>12, <2>1, <2>2 DEF RoaChange, Covered, Sending, Due, RqQueue
  <2> QED
    BY <1>12, <1>frame, <2>1, <2>2, <2>3 DEF RoaChange, Current, Due
<1>13. CASE KeyChange
  <2>1. k = "roa"
    BY <1>13, <1>kind, UndefinedIsResult DEF KeyChange, Covered, RqQueue, NotStoredYet, serverVars
  <2>2. Covered(c, k)
    BY <1>13, <2>1 DEF KeyChange, Covered, Sending, Due, RqQueue, serverVars
  <2> QED
    BY <1>13, <1>frame, <2>1, <2>2 DEF KeyChange, Current, Due, serverVars
<1>14. CASE EndOfData
  <2>1. Covered(c, k)
    BY <1>14 DEF EndOfData, Covered, Sending, Due, serverVars, historyVars
  <2> QED
    BY <1>14, <1>frame, <2>1 DEF EndOfData, Current, Due, serverVars
<1>15. CASE Dequeue
  <2>1. k \notin reasons
    BY <1>15 DEF Dequeue, Covered, Sending, IdleRpki
  <2>2. Covered(c, k)
    BY <1>15, <2>1 DEF Dequeue, Covered, Sending, Due, serverVars, historyVars
  <2> QED
    BY <1>15, <1>frame, <2>2 DEF Dequeue, Current, Due, serverVars
<1>16. CASE SendChange
  <2>1. Broadcast(rpki.kinds, rpki.values, rpki.crossed) /\ rpki.at = "send"
        /\ UNCHANGED <<truth, result, listeners, receiver, sendQueue, reasons>>
    BY <1>16 DEF SendChange, serverVars
  <2>2. /\ k \in rpki.kinds /\ <<c, k>> \notin doubt' =>
             ~OnTheWay(c) /\ k \notin rpki.crossed /\ view'[c][k] = rpki.values[k]
        /\ k \notin rpki.kinds =>
             view'[c][k] = view[c][k] /\ (<<c, k>> \in doubt' <=> <<c, k>> \in doubt)
    BY <2>1, BroadcastTold
  <2>3. Current(k)' = Current(k)
    BY <2>1 DEF Current
  <2>4. CASE k \in rpki.kinds
    <3>1. rpki.values[k] = Current(k) /\ ~OnTheWay(c) /\ view'[c][k] = rpki.values[k]
      BY <2>1, <2>2, <2>4 DEF Covered, CollectedIsCurrent, Sending
    <3> QED
      BY <1>told, <2>1, <2>3, <3>1
  <2>5. CASE k \notin rpki.kinds
    <3>1. Covered(c, k)
      BY <2>1, <2>2, <2>5 DEF Covered, Sending, Due
    <3> QED
      BY <1>frame, <2>1, <2>2, <2>3, <2>5, <3>1 DEF Due
  <2> QED
    BY <2>4, <2>5
<1>17. CASE UNCHANGED vars
  <2>1. Covered(c, k)
    BY <1>17 DEF vars, Covered, Sending, Due, serverVars, historyVars
  <2> QED
    BY <1>17, <1>frame, <2>1 DEF vars, Current, Due, serverVars
<1> QED
  BY <1>1, <1>2, <1>3, <1>4, <1>5, <1>6, <1>7, <1>8, <1>9, <1>10, <1>11, <1>12, <1>13,
     <1>14, <1>15, <1>16, <1>17, <1>18, <1>19 DEF Next, ReceiverNext, CommandNext, RpkiNext

LEMMA ListenersInvariant == Spec => []ListenersInv
<1>1. Init => ListenersInv
  <2>1. Init => OriginInv
    BY TypeInit, OriginInit DEF OriginInv
  <2>2. Init => OneCheck
    BY UndefinedIsResult DEF Init, OneCheck, IdleCommand, Kind
  <2>3. Init => CollectedIsCurrent /\ LastWordIsCurrent
    BY DEF Init, CollectedIsCurrent, LastWordIsCurrent, Sending, IdleRpki, Covered, Due,
           IdleReceiver
  <2> QED
    BY <2>1, <2>2, <2>3 DEF ListenersInv, Init
<1>2. ListenersInv /\ [Next]_vars => ListenersInv'
  BY OriginInvNext, OneCheckNext, CollectedNext, LastWordNext, QueueUnusedNext DEF ListenersInv
<1> QED
  BY <1>1, <1>2, PTL DEF Spec

\* When the threads have nothing left to do, every client that getUpdateResult or
\* storeUpdate registered was last told, by an answer or by broadcastResult, the
\* origin result that is stored and the path result the keys give - unless a
\* broadcast left it in doubt.
THEOREM ListenersKnow == Spec => []ListenersAreUpToDate
<1>1. ListenersInv => ListenersAreUpToDate
  <2> SUFFICES ASSUME ListenersInv, AtRest, NEW c \in listeners, NEW k \in Kind,
                      result[k] # "undefined", <<c, k>> \notin doubt
               PROVE  view[c][k] = Current(k)
    BY DEF ListenersAreUpToDate, Current, Kind
  <2>1. c \in Client /\ Covered(c, k)
    BY DEF AtRest, ListenersInv, OriginInv, TypeOK, Covered, Sending
  <2>2. LastWordIs(c, k, Current(k)) /\ ~Due(c)
    BY <2>1 DEF ListenersInv, LastWordIsCurrent, AtRest, Due
  <2> HIDE DEF Current
  <2> QED
    BY <2>2 DEF LastWordIs, LastSentIs, AtRest
<1> QED
  BY <1>1, ListenersInvariant, PTL
=============================================================================
