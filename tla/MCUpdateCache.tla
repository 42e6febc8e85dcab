--------------------------- MODULE MCUpdateCache ---------------------------
(* Instances of UpdateCache for TLC. *)
EXTENDS UpdateCache, TLC

\* Neither clients nor updates nor handlers are told apart by the cache.
MCSymmetry == Permutations(Client) \union Permutations(Update) \union Permutations(Handler)

\* What goes wrong is followed up to here: after an overlap every array of the
\* entry, or every count of the client, is possible, and a second overlap adds
\* no other step.
MCRegular == Cardinality(mishaps) + Cardinality(raced) + Cardinality(torn) <= 1
=============================================================================
