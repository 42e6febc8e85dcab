---------------------------- MODULE MCAspaCache ----------------------------
(* Instances of AspaCache for TLC.  The number of AS 12 extends that of AS 1. *)
(* A path of three ASes is shared by an update from a customer and one from a *)
(* provider; the other two paths are sets, one of them empty.                 *)
EXTENDS AspaCache

MCExtension == [a \in AS |-> IF a = 1 THEN {12} ELSE {}]
MCOffer == [a \in AS |-> CASE a = 1 -> {{12}} [] a = 3 -> {{1}} [] a = 12 -> {{3}}]
MCList == [long |-> <<1, 12, 3>>, set |-> <<1, 3>>, empty |-> <<>>]
MCIsSequence == [long |-> TRUE, set |-> FALSE, empty |-> FALSE]
MCPathOf == [u1 |-> "long", u2 |-> "long", u3 |-> "empty", u4 |-> "set"]
=============================================================================
