------------------------------- MODULE Session -------------------------------
(***************************************************************************)
(* The parts of a session from the handshake to play, side by side: the    *)
(* login, the play protocol, the player's blocks, body and items, the      *)
(* containers at a table, and the AI of a mob.  No two share a variable.   *)
(***************************************************************************)
EXTENDS MobAi

CONSTANTS
  KnownPackPackets, PackResponses, FinishPackets, Configs,
  Places, Home, Near, Window, TeleportTimeout, KeepAliveInterval, KeepAliveTimeout,
  MaxTeleports, MaxKeepAlives, MaxFlight,
  Width, Top, Reachable, StoneByHand, FluidDelay, RandomTicks, Terrain, Stock, MaxScheduled,
  FullHealth, FullFood, RegenFood, StartSaturation, Point, Hearts, Effects, Chosen, Difficulties,
  Off, Kit, Limit, Wears, Foods, Treats, Placeable, Mined, BarModes, MaxItems, MaxGiven,
  Crafters, StackLimit, Worth, Accepted, GridWidth, GridHeight, Known, Streams, Start, MaxState

VARIABLES
  config, reading, count, framing, core, why, frames, answers, joiner,
  position, center, streamed, chunks, nextId, pending, confirmed, playDead, keepSent,
  keepPending, teleportAge, keepAge, end, client, toClient, toServer,
  blocks, view, scheduled, mining, carried, held, blockMode,
  player, hand, dead, mode, difficulty, shown, shownEffects,
  items, active, blockingHand, blocking, itemMode, itemDead, ground, itemView, balance,
  box, cursor, seen, recipes, stream, report

mobVars == vars
loginVars == <<config, reading, count, framing, core, why, frames, answers, joiner>>
playVars == <<position, center, streamed, chunks, nextId, pending, confirmed, playDead, keepSent,
              keepPending, teleportAge, keepAge, end, client, toClient, toServer>>
blockVars == <<blocks, view, scheduled, mining, carried, held, blockMode>>
bodyVars == <<player, hand, dead, mode, difficulty, shown, shownEffects>>
itemVars == <<items, active, blockingHand, blocking, itemMode, itemDead, ground, itemView, balance>>
tableVars == <<box, cursor, seen, recipes, stream, report>>

L == INSTANCE LoginSequence WITH
       at <- reading, toServer <- frames, toClient <- answers, client <- joiner
P == INSTANCE PlaySession WITH dead <- playDead
B == INSTANCE BlockWork WITH mode <- blockMode
S == INSTANCE Survival
H == INSTANCE Hotbar WITH
       hand <- blockingHand, mode <- itemMode, dead <- itemDead, view <- itemView,
       Chosen <- BarModes
C == INSTANCE Content WITH Players <- Crafters, Limit <- StackLimit, Width <- GridWidth, Height <- GridHeight

ASSUME LoginAssumption == L!LoginConstants
ASSUME PlayAssumption == P!PlayConstants
ASSUME BodyAssumption == S!SurvivalConstants
ASSUME BlockAssumption == B!BlockConstants
ASSUME HotbarAssumption == H!HotbarConstants
ASSUME ContentAssumption == C!ContentConstants

---------------------------------------------------------------------------
(* The properties of the parts, each stated in its module; those of the    *)
(* mob's AI come with it.                                                  *)

FramesReadable == L!FramesReadable
PlayOnlyThroughGates == L!PlayOnlyThroughGates
RegistriesComplete == L!RegistriesComplete
NothingLeftHanging == B!NothingLeftHanging
MaterialKept == B!MaterialKept
SurvivalSound == S!SurvivalSound

\* The server ends no session of a client that answers: neither the login with its packet
\* limits nor the keep-alives of play, whatever else is in flight.
HonestNotRefused == L!HonestNotRefused /\ P!KeepAliveNeverFails

\* The world runs for a player only where the client has put itself, and once nothing is in
\* flight both sides agree on the place and on the chunks.
PlacesAgree == P!ConfirmedMeansApplied /\ P!Agreement

\* No item is lost or made: by what moves a player's stacks, or by what several players and
\* the recipes do to containers.
NothingLost == H!ItemsKept /\ C!WealthKept

\* What a client has been sent, of the blocks, of its player's state and of its items, is
\* what the server has; and a container that a player looks at is what the player sees.
ClientSees == B!ViewExact /\ S!ClientMirrors /\ H!ItemsShown /\ C!SeenIsCurrent
=============================================================================
