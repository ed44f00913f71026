------------------------------- MODULE Storage -------------------------------
(***************************************************************************)
(* The two kinds of file of a world: a region file, and level.mcd with the *)
(* scalar state it holds.  They share no variable.                         *)
(***************************************************************************)
EXTENDS RegionFile

CONSTANTS Sessions, Hardcore, FullRain, Durations, Sizes, Difficulties, RulesSet,
          MaxTicks, MaxCommands, MaxSaves

VARIABLES phase, leaving, world, client, level, tmp, fd, kept, shared, ticks, commands, saves

L == INSTANCE WorldState

ASSUME StateAssumption == L!StateConstants

regionVars == vars
stateVars == <<phase, leaving, world, client, level, tmp, fd, kept, shared, ticks, commands, saves>>

(* The properties of the scalar state, stated in its module; those of the  *)
(* region file come with it.                                               *)

WorldShown == L!WorldShown
CrashSafe == L!CrashSafe
Resumes == L!Resumes
=============================================================================
