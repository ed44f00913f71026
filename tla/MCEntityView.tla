---------------------------- MODULE MCEntityView ----------------------------
(***************************************************************************)
(* Two places, of which the player sees only the one it is at: a step of   *)
(* the player or of a mob, or a teleport, takes an entity in or out of     *)
(* range.  One hotbar slot for two of the three items there may be, so     *)
(* that a pick-up can be left with a rest, and three entities.             *)
(***************************************************************************)
EXTENDS EntityView, TLC

MCPlaces == 0..1
MCRange == [kind \in Kinds |-> 0]
=============================================================================
