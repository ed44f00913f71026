---------------------------- MODULE MCRegionFile ----------------------------
(***************************************************************************)
(* Two slots and payloads of one, two and three sectors: records grow, and *)
(* shrink in place and grow again, until the location table's offset limit *)
(* refuses an append.  The payload of three sectors is too long.           *)
(***************************************************************************)
EXTENDS RegionFile, TLC

CONSTANTS one, other, two, three

MCNeed == one :> 1 @@ other :> 1 @@ two :> 2 @@ three :> 3
\* Slots are alike, and so are the two payloads of one sector.
MCSymmetry == Permutations(Slots) \cup Permutations({one, other})
=============================================================================
