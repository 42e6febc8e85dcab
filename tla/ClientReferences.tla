-------------------------- MODULE ClientReferences --------------------------
(***************************************************************************)
(* The array of clients that every entry of the update cache keeps: which  *)
(* clients asked for the update and have to be told when its validation    *)
(* result changes.  The array is a sequence of clientIDs; zero is a free   *)
(* slot; its length is noPossibleClients.                                  *)
(***************************************************************************)
EXTENDS Integers, Sequences

CONSTANTS
  MinClients,   \* minNumberOfClients: initial size of an array and its growth
  ByteRange     \* the number of values of a uint8_t

ASSUME ReferenceAssumption ==
  /\ ByteRange \in Nat \ {0}
  /\ MinClients \in 1 .. (ByteRange - 1)

\* The clients in the array.
References(s) == {s[i] : i \in DOMAIN s} \ {0}

\* The slots at which _addClientReference stops: free, or already the client's.
StopSlots(s, c) == {i \in DOMAIN s : s[i] = 0 \/ s[i] = c}

FirstOf(I) == CHOOSE i \in I : \A j \in I : i <= j

\* _addClientReference: the first free slot is taken; a full array grows by
\* MinClients, and its new length is stored in a uint8_t.
AddReference(s, c) ==
  IF StopSlots(s, c) # {}
  THEN [s EXCEPT ![FirstOf(StopSlots(s, c))] = c]
  ELSE [i \in 1 .. ((Len(s) + MinClients) % ByteRange) |->
          IF i <= Len(s) THEN s[i] ELSE IF i = Len(s) + 1 THEN c ELSE 0]

\* updateCount is increased only when a slot of the present array was free.
AddCounts(s, c) ==
  /\ StopSlots(s, c) # {}
  /\ s[FirstOf(StopSlots(s, c))] = 0

\* Mutant: the clients behind the removed one stay where they are.
RemoveReferenceHole(s, c) == [i \in DOMAIN s |-> IF s[i] = c THEN 0 ELSE s[i]]

\* Mutant: the clients behind the removed one are lost.
RemoveReferenceRest(s, c) ==
  [i \in DOMAIN s |-> IF \A j \in 1 .. i : s[j] # c THEN s[i] ELSE 0]

\* _deleteUpdateFromCache_clientMgmt: the client's slot is cleared, and every
\* client behind it moves one slot to the left.
RemoveReference(s, c) ==
  [i \in DOMAIN s |->
     IF \A j \in 1 .. i : s[j] # c THEN s[i]
     ELSE IF i < Len(s) /\ s[i + 1] # c THEN s[i + 1]
     ELSE 0]

\* getClientIDsOfUpdate, called by broadcastResult with an array of MinClients
\* elements: a longer list of clients is an error, and nobody is notified.
BroadcastTargets(s) == IF Len(s) <= MinClients THEN References(s) ELSE {}

-----------------------------------------------------------------------------
\* The free slots are at the end, and no client has two slots.
Compact(s) ==
  \A i, j \in DOMAIN s :
    /\ i < j /\ s[j] # 0 => s[i] # 0
    /\ i # j /\ s[i] # 0 => s[i] # s[j]
=============================================================================
