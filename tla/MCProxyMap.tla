----------------------------- MODULE MCProxyMap -----------------------------
(***************************************************************************)
(* Instances of ProxyMap for TLC: two usable clientIDs, of which the first *)
(* is configured for a proxy, or a single one that is not, so that a       *)
(* second proxy finds the table full.                                      *)
(***************************************************************************)
EXTENDS ProxyMap, TLC

CONSTANTS p1, p2

FirstConfigured == <<p1, NoProxy>>
SingleUnconfigured == <<NoProxy>>

ConnSymmetry == Permutations(Conn)
=============================================================================
