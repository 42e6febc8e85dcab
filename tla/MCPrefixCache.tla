--------------------------- MODULE MCPrefixCache ---------------------------
(* Instances of PrefixCache for TLC: a /8 with two /16 below it, a /24 below *)
(* one of these, two ASes and a reserved one.                                *)
EXTENDS PrefixCache

MCPrefix == {"p8", "p16", "q16", "p24"}
MCLength == [p8 |-> 8, p16 |-> 16, q16 |-> 16, p24 |-> 24]
MCAbove == [p8 |-> {}, p16 |-> {"p8"}, q16 |-> {"p8"}, p24 |-> {"p8", "p16"}]

R(p, as, len) == [prefix |-> p, as |-> as, maxLen |-> len]
MCEntry == <<R("p8", 1, 8), R("p8", 1, 24), R("p8", 2, 16), R("p16", 1, 16),
             R("p16", 2, 24), R("p24", 3, 24)>>

A(p, as) == [prefix |-> p, as |-> as]
MCRoute == <<A("p16", 1), A("p24", 1), A("p24", 1), A("p24", 2), A("q16", 2)>>
=============================================================================
