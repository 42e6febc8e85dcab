---------------------------- MODULE FifoChannel ----------------------------
(***************************************************************************)
(* What the command queue promises: commands, numbered in the order in     *)
(* which they were submitted, are each handed to exactly one worker, in    *)
(* that order, and a worker holds one command at a time.  A command may be *)
(* refused when it is submitted, and all that wait may be withdrawn.       *)
(***************************************************************************)
EXTENDS Naturals

CONSTANT Worker

VARIABLES
  submitted,  \* the number of the last submitted command
  pending,    \* the commands that were not handed out yet
  holding     \* the command each worker holds, zero if none

channelVars == <<submitted, pending, holding>>

Init ==
  /\ submitted = 0
  /\ pending = {}
  /\ holding = [w \in Worker |-> 0]

Submit ==
  /\ submitted' = submitted + 1
  /\ pending' = pending \union {submitted + 1}
  /\ UNCHANGED holding

Refuse ==
  /\ submitted' = submitted + 1
  /\ UNCHANGED <<pending, holding>>

Withdraw ==
  /\ pending' = {}
  /\ UNCHANGED <<submitted, holding>>

HandOut(w) ==
  /\ holding[w] = 0
  /\ \E n \in pending :
       /\ \A m \in pending : n <= m
       /\ pending' = pending \ {n}
       /\ holding' = [holding EXCEPT ![w] = n]
  /\ UNCHANGED submitted

Finish(w) ==
  /\ holding[w] # 0
  /\ holding' = [holding EXCEPT ![w] = 0]
  /\ UNCHANGED <<submitted, pending>>

Next == Submit \/ Refuse \/ Withdraw \/ \E w \in Worker : HandOut(w) \/ Finish(w)

Spec == Init /\ [][Next]_channelVars
=============================================================================
