---------------------------- MODULE MCAdmission ----------------------------
(***************************************************************************)
(* Small servers for TLC.  In the safety run three connections come from   *)
(* one address and one from another, so that the per-address, the pending  *)
(* and the global limit each refuse a connection the other two would       *)
(* admit, and a second attempt within a second is over the rate limit.     *)
(***************************************************************************)
EXTENDS Admission, TLC

CONSTANTS h1, h2, c1, c2, c3, c4

MCHostOf == c1 :> h1 @@ c2 :> h1 @@ c3 :> h1 @@ c4 :> h2

\* The liveness runs: two connections of one address and one of another.
MCHostOfLive == c1 :> h1 @@ c2 :> h1 @@ c3 :> h2

\* The connections of one address are alike, and so are names and workers.
MCSymmetry ==
    Permutations({c1, c2, c3}) \cup Permutations(Workers) \cup Permutations(Names)
============================================================================
