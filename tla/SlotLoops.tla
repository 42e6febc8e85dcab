----------------------------- MODULE SlotLoops -----------------------------
(***************************************************************************)
(* The two loops over the clients of one cache entry, slot by slot:        *)
(* _addClientReference, run by the handler of a request, and               *)
(* _deleteUpdateFromCache_clientMgmt, run by the command thread for a      *)
(* Delete Update.  Neither takes a lock.  A test of a slot and each        *)
(* assignment to one are steps of their own; the growth of the array is    *)
(* one step (realloc may also move the array, which is not modelled).      *)
(***************************************************************************)
EXTENDS ClientReferences

CONSTANTS
  Client,
  MaxSlots      \* bound on the length of the array

VARIABLES
  slots,        \* the array of clients of the entry
  adder,        \* the handler in _addClientReference
  remover,      \* the command thread in _deleteUpdateFromCache_clientMgmt
  attached      \* history: clients whose registration was confirmed and not deleted

vars == <<slots, adder, remover, attached>>

\* "before", "alone" and "contested" are history: the array when the call began,
\* whether the other thread made no step since, and whether it worked for the
\* same client meanwhile.
Idle == [at |-> "idle", client |-> 0, idx |-> 1, found |-> FALSE,
         before |-> <<>>, alone |-> TRUE, contested |-> FALSE]

Call(c, contested) ==
  [at |-> "test", client |-> c, idx |-> 1, found |-> FALSE,
   before |-> slots, alone |-> TRUE, contested |-> contested]

Init ==
  /\ slots = [i \in 1 .. MinClients |-> 0]
  /\ adder = Idle
  /\ remover = Idle
  /\ attached = {}

\* A thread that is in a call is not alone any more once the other one moves.
Disturbed(t) == IF t.at = "idle" THEN t ELSE [t EXCEPT !.alone = FALSE]

At(t, place) == t.at = place

InArray(t) == t.idx \in DOMAIN slots

-----------------------------------------------------------------------------
StartAdd(c) ==
  /\ At(adder, "idle")
  /\ adder' = Call(c, remover.client = c)
  /\ remover' = Disturbed(remover)
  /\ UNCHANGED <<slots, attached>>

\* The tests of one iteration.
AddTest ==
  /\ At(adder, "test")
  /\ adder' = [adder EXCEPT
       !.at  = IF ~InArray(adder) THEN "extend"
               ELSE IF slots[adder.idx] = 0 THEN "write"
               ELSE IF slots[adder.idx] = adder.client THEN "done" ELSE "test",
       !.idx = IF InArray(adder) /\ slots[adder.idx] \notin {0, adder.client}
               THEN adder.idx + 1 ELSE adder.idx]
  /\ remover' = Disturbed(remover)
  /\ UNCHANGED <<slots, attached>>

\* clients[idx] = clientID
AddWrite ==
  /\ At(adder, "write")
  /\ InArray(adder)
  /\ slots' = [slots EXCEPT ![adder.idx] = adder.client]
  /\ adder' = [adder EXCEPT !.at = "done"]
  /\ remover' = Disturbed(remover)
  /\ UNCHANGED attached

\* The array is full: it is extended, and the client takes the first new slot.
AddExtend ==
  /\ At(adder, "extend")
  /\ Len(slots) + MinClients <= MaxSlots
  /\ slots' = [i \in 1 .. ((Len(slots) + MinClients) % ByteRange) |->
                 IF i <= Len(slots) THEN slots[i]
                 ELSE IF i = Len(slots) + 1 THEN adder.client ELSE 0]
  /\ adder' = [adder EXCEPT !.at = "done"]
  /\ remover' = Disturbed(remover)
  /\ UNCHANGED attached

\* The caller is told that the client is attached.  If a deletion for
\* the same client ran meanwhile, either outcome is right.
AddReturn ==
  /\ At(adder, "done")
  /\ attached' = IF adder.contested THEN attached ELSE attached \union {adder.client}
  /\ adder' = Idle
  /\ UNCHANGED <<slots, remover>>

-----------------------------------------------------------------------------
StartRemove(c) ==
  /\ At(remover, "idle")
  /\ remover' = Call(c, FALSE)
  /\ adder' = [Disturbed(adder) EXCEPT !.contested = @ \/ adder.client = c]
  /\ attached' = attached \ {c}
  /\ UNCHANGED slots

\* Mutant: the loop ends at the first free slot.
RemoveTestStop ==
  /\ At(remover, "test")
  /\ remover' = [remover EXCEPT
       !.at  = IF ~InArray(remover) \/ slots[remover.idx] = 0 THEN "done"
               ELSE IF slots[remover.idx] = remover.client THEN "clear"
               ELSE IF remover.found THEN "move" ELSE "test",
       !.idx = IF InArray(remover) /\ slots[remover.idx] # 0
                  /\ slots[remover.idx] # remover.client /\ ~remover.found
               THEN remover.idx + 1 ELSE remover.idx]
  /\ adder' = Disturbed(adder)
  /\ UNCHANGED <<slots, attached>>

RemoveTest ==
  /\ At(remover, "test")
  /\ remover' = [remover EXCEPT
       !.at  = IF ~InArray(remover) THEN "done"
               ELSE IF slots[remover.idx] = remover.client THEN "clear"
               ELSE IF slots[remover.idx] # 0 /\ remover.found THEN "move" ELSE "test",
       !.idx = IF InArray(remover) /\ slots[remover.idx] # remover.client
                  /\ ~(slots[remover.idx] # 0 /\ remover.found)
               THEN remover.idx + 1 ELSE remover.idx]
  /\ adder' = Disturbed(adder)
  /\ UNCHANGED <<slots, attached>>

\* clients[idx - 1] = clients[idx]
RemoveMove ==
  /\ At(remover, "move")
  /\ slots' = [slots EXCEPT ![remover.idx - 1] = slots[remover.idx]]
  /\ remover' = [remover EXCEPT !.at = "clear"]
  /\ adder' = Disturbed(adder)
  /\ UNCHANGED attached

\* clients[idx] = 0
RemoveClear ==
  /\ At(remover, "clear")
  /\ slots' = [slots EXCEPT ![remover.idx] = 0]
  /\ remover' = [remover EXCEPT !.at = "test", !.found = TRUE, !.idx = remover.idx + 1]
  /\ adder' = Disturbed(adder)
  /\ UNCHANGED attached

RemoveReturn ==
  /\ At(remover, "done")
  /\ remover' = Idle
  /\ UNCHANGED <<slots, adder, attached>>

Next ==
  \/ \E c \in Client : StartAdd(c) \/ StartRemove(c)
  \/ AddTest \/ AddWrite \/ AddExtend \/ AddReturn
  \/ RemoveTest \/ RemoveMove \/ RemoveClear \/ RemoveReturn

Spec == Init /\ [][Next]_vars

-----------------------------------------------------------------------------
(***************************************************************************)
(* Properties.                                                             *)
(***************************************************************************)

\* A call that no step of the other thread disturbed computes what the
\* operators AddReference and RemoveReference say, also in an array that
\* earlier races have left with gaps or with a client in two slots.
LoopsComputeOperators ==
  /\ At(adder, "done") /\ adder.alone => slots = AddReference(adder.before, adder.client)
  /\ At(remover, "done") /\ remover.alone =>
       slots = RemoveReference(remover.before, remover.client)

\* A client whose registration was confirmed is in the array until its own
\* deletion: _addClientReference returns true if the client is attached.
AttachedIsListed ==
  At(adder, "idle") /\ At(remover, "idle") => attached \subseteq References(slots)
=============================================================================
