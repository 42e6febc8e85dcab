--------------------------- MODULE AspaValidation ---------------------------
(***************************************************************************)
(* validateASPA of command_handler.c.  After its call of reverse, AS 1 is  *)
(* the origin of a path of n ASes.  up[i] is the answer of ASPA_DB_lookup  *)
(* for AS i as customer of AS i+1, down[i] the one for AS i+1 as customer  *)
(* of AS i.  The reference is the verification draft: a path that comes    *)
(* down from a provider must climb to an apex and descend from there or    *)
(* from its neighbour.                                                     *)
(***************************************************************************)
EXTENDS Integers

Hop == {"valid", "invalid", "unknown"}
AspaVerdict == Hop \union {"unverifiable"}

\* The hops of a path of n ASes.
Hops(n) == 1 .. (n - 1)

Least(S) == CHOOSE x \in S : \A y \in S : x <= y

\* The first element of S, the value at which a loop over S breaks, or
\* "otherwise" if it never does.
FirstOr(S, otherwise) == IF S = {} THEN otherwise ELSE Least(S)

-----------------------------------------------------------------------------
\* The route comes from a customer or a lateral peer, or nothing is known.
Upstream(n, up) ==
  IF \E i \in Hops(n) : up[i] = "invalid" THEN "invalid"
  ELSE IF \E i \in Hops(n) : up[i] = "unknown" THEN "unknown"
  ELSE "valid"

\* Mutant: the hop at which the loop breaks is counted as attested.
KValPast(n, up) == FirstOr({i \in 1 .. (n - 2) : up[i] # "valid"}, n - 2) + 1

\* K_val: the end of the attested way up
KVal(n, up) == FirstOr({i \in 1 .. (n - 2) : up[i] # "valid"}, n - 1)

\* L_val: the start of the attested way down, looked for from the end, K excluded
LVal(n, k, down) ==
  n + 1 - FirstOr({j \in 1 .. (n - k - 1) : down[n - j] # "valid"}, n - k)

\* The ASes between K and L: a provable break up is followed by one down, or not.
Interim(k, l, up, down) ==
  LET u == FirstOr({i \in k .. (l - 2) : up[i] = "invalid"}, 0)
  IN  IF u # 0 /\ \E j \in (u + 1) .. (l - 1) : down[j] = "invalid"
      THEN "invalid" ELSE "unknown"

\* The route comes from a provider or a sibling.
Downstream(n, up, down) ==
  LET k == KVal(n, up)
      l == LVal(n, k, down)
  IN  IF n = 1 \/ k = n - 1 \/ l - k <= 1 THEN "valid" ELSE Interim(k, l, up, down)

\* An AS path with a set is unverifiable, unless it is invalid.
validateASPA(isSequence, isDownstream, n, up, down) ==
  LET verdict == IF isDownstream THEN Downstream(n, up, down) ELSE Upstream(n, up)
  IN  IF ~isSequence /\ verdict # "invalid" THEN "unverifiable" ELSE verdict

-----------------------------------------------------------------------------
(***************************************************************************)
(* The reference.                                                          *)
(***************************************************************************)

\* A way up to "apex" and down from "apex" or its successor, every hop of which
\* has one of the answers "ok".
ValleyFree(n, up, down, ok) ==
  \E apex \in 1 .. n : \E start \in {apex, apex + 1} :
    /\ \A i \in 1 .. (apex - 1) : up[i] \in ok
    /\ \A i \in start .. (n - 1) : down[i] \in ok

DraftDownstream(n, up, down) ==
  IF ValleyFree(n, up, down, {"valid"}) THEN "valid"
  ELSE IF ValleyFree(n, up, down, {"valid", "unknown"}) THEN "unknown"
  ELSE "invalid"

\* A way up only: the apex is the last AS.
DraftUpstream(n, up) ==
  IF \A i \in Hops(n) : up[i] = "valid" THEN "valid"
  ELSE IF \A i \in Hops(n) : up[i] # "invalid" THEN "unknown"
  ELSE "invalid"

DraftVerdict(isSequence, isDownstream, n, up, down) ==
  LET verdict == IF isDownstream THEN DraftDownstream(n, up, down)
                 ELSE DraftUpstream(n, up)
  IN  IF isSequence \/ verdict = "invalid" THEN verdict ELSE "unverifiable"
=============================================================================
