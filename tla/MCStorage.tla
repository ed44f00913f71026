------------------------------ MODULE MCStorage ------------------------------
(***************************************************************************)
(* The two kinds of file of a world, checked in one run: a region file,    *)
(* and level.mcd with the scalar state it holds.  Each behaviour is that   *)
(* of one part, chosen at first; the other keeps its initial state.        *)
(*                                                                         *)
(* Region file: payloads of one, two and three sectors grow, shrink in     *)
(* place and grow again, until the offset limit refuses an append; the one *)
(* of three sectors is too long.  Two slots and two sessions have the same *)
(* names, so that one permutation is a symmetry of both parts.             *)
(*                                                                         *)
(* Scalar state: rain fades in over two ticks; weather and border changes  *)
(* take two ticks.                                                         *)
(***************************************************************************)
EXTENDS Storage, TLC

CONSTANTS one, other, two, three

VARIABLE part

MCNeed == one :> 1 @@ other :> 1 @@ two :> 2 @@ three :> 3
MCSymmetry == Permutations(Slots) \cup Permutations({one, other})

MCInit ==
  /\ part \in {"region", "state"}
  /\ Init /\ L!Init

Region(A) == part = "region" /\ A /\ UNCHANGED <<part, stateVars>>
Scalars(A) == part = "state" /\ A /\ UNCHANGED <<part, regionVars>>

MCNext ==
  \/ \E w \in Writers, s \in Slots, v \in Vals : Region(BeginSave(w, s, v))
  \/ \E w \in Writers : Region(Open(w))
  \/ \E w \in Writers : Region(WriteHeader(w))
  \/ \E w \in Writers : Region(Locate(w))
  \/ \E w \in Writers : Region(WriteData(w))
  \/ \E w \in Writers : Region(Commit(w))
  \/ \E w \in Writers : Region(Return(w))
  \/ \E w \in Writers : Region(WriteFails(w))
  \/ Region(Crash)
  \/ \E s \in Slots : Scalars(L!LoadSettings(s))
  \/ \E s \in Slots : Scalars(L!Join(s))
  \/ \E s \in Slots, thunder \in BOOLEAN, d \in {2} : Scalars(L!Tick(s, thunder, d))
  \/ \E s \in Slots, day \in {0, 9} : Scalars(L!TimeSet(s, day))
  \/ \E s \in Slots, raining, thunder \in BOOLEAN, d \in {2} :
        Scalars(L!Weather(s, raining, thunder, d))
  \/ \E s \in Slots, r \in {"doDaylightCycle", "doWeatherCycle"}, on \in BOOLEAN :
        Scalars(L!GameRule(s, r, on))
  \/ \E s \in Slots : Scalars(L!Difficulty(s, 3))
  \/ \E s \in Slots, n \in 0..1 : Scalars(L!BorderCenter(s, n))
  \/ \E s \in Slots, n \in {2, 6} : Scalars(L!BorderSet(s, n))
  \/ \E s \in Slots, n \in {2, 6}, d \in {2} : Scalars(L!BorderLerp(s, n, d))
  \/ \E s \in Slots, n \in 0..1 : Scalars(L!BorderWarning(s, n))
  \/ \E s \in Slots, last \in BOOLEAN : Scalars(L!Save(s, last))
  \/ \E s \in Slots : Scalars(L!Write(s))
  \/ \E s \in Slots : Scalars(L!Rename(s))
  \/ \E s \in Slots : Scalars(L!RenameFails(s))
  \/ Scalars(L!Crash)

MCSpec == MCInit /\ [][MCNext]_<<part, regionVars, stateVars>>
=============================================================================
