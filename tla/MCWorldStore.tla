---------------------------- MODULE MCWorldStore ----------------------------
(***************************************************************************)
(* Three chunks in a cache of one: the spawn chunk, held for the session,  *)
(* keeps the cache over its limit and every other chunk is evicted in turn.*)
(***************************************************************************)
EXTENDS WorldStore, TLC

CONSTANTS a, b, spawn

\* The chunks that nobody holds are alike.
MCSymmetry == Permutations({a, b})
=============================================================================
