--------------------------- MODULE MCNotification ---------------------------
(* Instances of Notification for TLC. *)
EXTENDS Notification, TLC

MCSymmetry == Permutations(Client)

\* The two verdicts of a kind may be exchanged in every behaviour, so it is
\* enough to start with one of them.
MCInit == Init /\ truth = [k \in Kind |-> "valid"]
MCSpec == MCInit /\ [][Next]_vars /\ Fairness
=============================================================================
