---------------------------- MODULE Registration ----------------------------
(***************************************************************************)
(* What the update cache promises about its listeners: a client is         *)
(* registered for an update when it asks for it and stays registered until *)
(* it withdraws, whatever the other clients do.  Unlocked threads may      *)
(* spoil an update: then nothing is promised about its listeners, and the  *)
(* promise about every other update stands.                                *)
(***************************************************************************)
CONSTANTS Client, Update

VARIABLES
  registered,   \* pairs of a client and an update that is not spoilt
  spoilt        \* the updates given up

Init == registered = {} /\ spoilt = {}

Register(c, u) ==
  /\ u \notin spoilt
  /\ registered' = registered \union {<<c, u>>}
  /\ UNCHANGED spoilt

Withdraw(c, U) ==
  /\ registered' = registered \ ({c} \X U)
  /\ UNCHANGED spoilt

Spoil(u) ==
  /\ spoilt' = spoilt \union {u}
  /\ registered' = {r \in registered : r[2] # u}

Next ==
  \/ \E c \in Client :
       \/ \E u \in Update : Register(c, u)
       \/ \E U \in SUBSET Update : Withdraw(c, U)
  \/ \E u \in Update : Spoil(u)

Spec == Init /\ [][Next]_<<registered, spoilt>>
=============================================================================
