------------------------------ MODULE Survival ------------------------------
(***************************************************************************)
(* SurvivalState (player.cpp) and what the play session does with it: the  *)
(* game tick, hostile attacks, movement, food, effects, game modes, death  *)
(* and respawn, and the health and effects the client has been told of.    *)
(* A number of the code is a small natural here; a timer that counts ticks *)
(* (regeneration, starvation, air, an effect's interval and its duration)  *)
(* may fire at any tick.  Armor is never set by the server, so it absorbs  *)
(* nothing.  Packets reach the client in order; the client's view is that  *)
(* of all packets sent.                                                    *)
(***************************************************************************)
EXTENDS Integers

CONSTANTS
  FullHealth, FullFood,   \* both 20 in the code
  RegenFood,              \* food from which health regenerates: 18
  StartSaturation,        \* saturation of a new player: 5
  Point,                  \* exhaustion that costs one point of food: 4
  Hearts,                 \* absorption of one level of the effect: 4
  Effects,                \* the effects in use, of EffectNames
  Chosen,                 \* the game modes the player chooses, of Modes
  Difficulties            \* the difficulties chosen, of DifficultyNames

VARIABLES
  player,        \* SurvivalState
  hand,          \* blocking_hand
  dead,          \* player_dead
  mode,          \* game_mode
  difficulty,
  shown,         \* health, food and saturation the client was sent last
  shownEffects   \* effects the client was told it has

vars == <<player, hand, dead, mode, difficulty, shown, shownEffects>>

Modes == {"survival", "creative", "adventure", "spectator"}
DifficultyNames == {"peaceful", "easy", "normal", "hard"}
EffectNames == {"speed", "regeneration", "poison", "wither", "absorption"}

\* What the limits have in common with the code's.
SurvivalConstants ==
  /\ FullHealth \in Nat \ {0} /\ FullFood \in Nat /\ RegenFood \in 0..FullFood
  /\ StartSaturation \in 0..FullFood /\ Point \in Nat \ {0} /\ Hearts \in Nat
  /\ Effects \subseteq EffectNames
  /\ Chosen \subseteq Modes /\ Difficulties \subseteq DifficultyNames

Least(m, n) == IF m < n THEN m ELSE n
Most(m, n) == IF m > n THEN m ELSE n

\* The state of a new player; effects maps an effect to its level, zero if it is off.
Fresh ==
  [health |-> FullHealth, food |-> FullFood, saturation |-> StartSaturation, exhaustion |-> 0,
   absorption |-> 0, effects |-> [e \in Effects |-> 0], blocking |-> FALSE, flying |-> FALSE,
   invulnerable |-> FALSE, dirty |-> FALSE]

Vitals(p) == <<p.health, p.food, p.saturation>>
Active(p) == {e \in Effects : p.effects[e] > 0}

---------------------------------------------------------------------------
(* The member functions of SurvivalState.                                  *)

Heal(p, n) ==
  IF p.health = 0 \/ p.health = FullHealth THEN p
  ELSE [p EXCEPT !.health = Least(FullHealth, @ + n), !.dirty = TRUE]

Refused(p, n, bypass) == n = 0 \/ p.health = 0 \/ (p.invulnerable /\ ~bypass)

Damage(p, n, bypass, blockable) ==
  IF Refused(p, n, bypass) THEN p
  ELSE LET blocked == IF blockable /\ p.blocking THEN n \div 2 ELSE 0
           absorbed == Least(p.absorption, n - blocked)
           health == Most(0, p.health - (n - blocked - absorbed))
       IN  [p EXCEPT !.absorption = @ - absorbed, !.health = health,
                     !.blocking = @ /\ health > 0, !.invulnerable = @ \/ ~bypass,
                     !.dirty = TRUE]

\* add_exhaustion and apply_exhaustion: every full Point is paid with saturation, then food.
Exhaust(p, n) ==
  LET due == (p.exhaustion + n) \div Point
  IN  [p EXCEPT !.exhaustion = (@ + n) % Point,
                !.saturation = Most(0, @ - due),
                !.food = Most(0, @ - Most(0, due - p.saturation)),
                !.dirty = @ \/ due > 0]

\* consume_food
Hungry(p) == p.food < FullFood

Eat(p, nutrition, saturation) ==
  LET food == Least(FullFood, p.food + nutrition)
  IN  [p EXCEPT !.food = food, !.saturation = Least(food, @ + saturation), !.dirty = TRUE]

Accepts(p, e, level) == p.effects[e] <= level

Apply(p, e, level) ==
  [p EXCEPT !.effects[e] = level,
            !.absorption = IF e = "absorption" THEN level * Hearts ELSE @,
            !.dirty = @ \/ e = "absorption"]

\* Absorption outlives its effect.
MutLift(p, es) ==
  [p EXCEPT !.effects = [e \in Effects |-> IF e \in es THEN 0 ELSE @[e]]]

\* remove_effect, and the expiry of effects in tick
Lift(p, es) ==
  LET gone == "absorption" \in es \cap Active(p)
  IN  [p EXCEPT !.effects = [e \in Effects |-> IF e \in es THEN 0 ELSE @[e]],
                !.absorption = IF gone THEN 0 ELSE @,
                !.dirty = @ \/ gone]

SetBlocking(p, b) == [p EXCEPT !.blocking = b /\ p.health > 0]

\* tick, in the code's order.  fires holds the timers that run out.
Refill(p, d) ==
  IF d = "peaceful" /\ p.food < FullFood
  THEN [p EXCEPT !.food = FullFood, !.saturation = Most(@, StartSaturation),
                 !.exhaustion = 0, !.dirty = TRUE]
  ELSE p

Calm(p, fires) == [p EXCEPT !.invulnerable = @ /\ "calm" \notin fires]

Acts(p, e, fires) == e \in fires \cap Effects /\ p.effects[e] > 0

Regenerate(p, fires) == IF Acts(p, "regeneration", fires) THEN Heal(p, 1) ELSE p

Poison(p, fires) ==
  IF Acts(p, "poison", fires)
  THEN Damage(p, Least(1, Most(0, p.health - 1) + p.absorption), TRUE, FALSE) ELSE p

Wither(p, fires) == IF Acts(p, "wither", fires) THEN Damage(p, 1, TRUE, FALSE) ELSE p

Drown(p, fires) == IF "drown" \in fires THEN Damage(p, 2, TRUE, FALSE) ELSE p

Recover(p, d, fires) ==
  IF p.food >= RegenFood /\ p.health < FullHealth /\ "recover" \in fires
  THEN IF d = "peaceful" THEN Heal(p, 1) ELSE Exhaust(Heal(p, 1), Point + Point \div 2)
  ELSE p

\* The health below which hunger does no harm; the code has 10, 1 and 0.
Floor(d) == CASE d = "easy" -> FullHealth \div 2 [] d = "normal" -> 1 [] OTHER -> 0

Starve(p, d, fires) ==
  IF p.food = 0 /\ d /= "peaceful" /\ "starve" \in fires /\ p.health > Floor(d)
  THEN [p EXCEPT !.health = Most(Floor(d), @ - 1), !.dirty = TRUE]
  ELSE p

\* The timers that run: of hurt invulnerability, air, hunger and the periodic effects.
Running(p, d) ==
  {"drown"} \cup {t \in {"calm"} : p.invulnerable}
    \cup {t \in {"recover"} : p.food >= RegenFood \/ d = "peaceful"}
    \cup {t \in {"starve"} : p.food = 0} \cup (Active(p) \ {"speed", "absorption"})

Tick(p, d, fires, expired) ==
  LET periodic == Wither(Poison(Regenerate(Calm(Refill(p, d), fires), fires), fires), fires)
  IN  Starve(Recover(Drown(Lift(periodic, expired), fires), d, fires), d, fires)

---------------------------------------------------------------------------
(* The play session.                                                       *)

Init ==
  /\ player = Fresh /\ hand = "none" /\ dead = FALSE
  /\ mode = "survival" /\ difficulty \in Difficulties
  /\ shown = Vitals(Fresh) /\ shownEffects = {}

Clean(p) == [p EXCEPT !.dirty = FALSE]
Told(p) == IF p.dirty THEN Vitals(p) ELSE shown

\* scale_hostile_damage of the two points of a hostile's attack.
Scaled(d) == CASE d = "peaceful" -> 0 [] d = "hard" -> 3 [] OTHER -> 2

\* An attack that applies is reported at once; one that does not changes nothing.
Attacked(p, facing) ==
  LET hit == Damage(p, Scaled(difficulty), FALSE, facing)
  IN  IF Refused(p, Scaled(difficulty), FALSE) THEN p ELSE Clean(hit)

\* After survival.tick has made p of the player: its report, and at most one hostile's
\* attack, after which a broken shield is lowered.
Ticked(p, expired, attack) ==
  LET attacked == attack /= "none" /\ p.health > 0
      q == IF attacked THEN Attacked(Clean(p), attack /= "behind") ELSE Clean(p)
      lowered == attacked /\ attack = "front_breaks" /\ q /= Clean(p) /\ p.blocking
  IN  /\ player' = IF lowered THEN SetBlocking(q, FALSE) ELSE q
      /\ hand' = IF lowered THEN "none" ELSE hand
      /\ shown' = IF q = Clean(p) THEN Told(p) ELSE Vitals(q)
      /\ shownEffects' = shownEffects \ expired
      /\ dead' = (p.health = 0)

\* One game tick.  Nothing happens to a dead, creative or spectating player.
GameTick ==
  /\ ~dead /\ mode \in {"survival", "adventure"}
  /\ \E fires \in SUBSET Running(player, difficulty), expired \in SUBSET Active(player),
        attack \in {"none", "behind", "front", "front_breaks"} :
       Ticked(Tick(player, difficulty, fires, expired), expired, attack)
  /\ UNCHANGED <<mode, difficulty>>

\* Every packet of a dead player but the request to respawn is dropped.
Handles == ~dead

\* record_movement: exhaustion and the fall a landing ends, in every mode but spectator.
Move ==
  /\ Handles /\ mode /= "spectator"
  /\ \E effort \in 0..1, fall \in 0..FullHealth :
       /\ player.flying => effort = 0 /\ fall = 0
       /\ player' = Damage(Exhaust(player, effort), fall, TRUE, FALSE)
  /\ UNCHANGED <<hand, dead, mode, difficulty, shown, shownEffects>>

\* attack
Attack ==
  /\ Handles /\ mode /= "spectator"
  /\ player' = Exhaust(player, 1)
  /\ UNCHANGED <<hand, dead, mode, difficulty, shown, shownEffects>>

UseFood ==
  /\ Handles /\ mode /= "spectator" /\ Hungry(player)
  /\ \E nutrition \in 1..2, saturation \in 0..2 :
       LET p == Eat(player, nutrition, saturation)
       IN  player' = Clean(p) /\ shown' = Vitals(p)
  /\ UNCHANGED <<hand, dead, mode, difficulty, shownEffects>>

UseShield ==
  /\ Handles /\ mode /= "spectator"
  /\ player' = SetBlocking(player, TRUE)
  /\ hand' \in {"main", "off"}
  /\ UNCHANGED <<dead, mode, difficulty, shown, shownEffects>>

ReleaseUse ==
  /\ Handles
  /\ player' = SetBlocking(player, FALSE) /\ hand' = "none"
  /\ UNCHANGED <<dead, mode, difficulty, shown, shownEffects>>

EffectGive ==
  /\ Handles
  /\ \E e \in Effects, level \in 1..2 :
       /\ Accepts(player, e, level)
       /\ player' = Apply(player, e, level)
       /\ shownEffects' = shownEffects \cup {e}
  /\ UNCHANGED <<hand, dead, mode, difficulty, shown>>

EffectClear ==
  /\ Handles
  /\ \E es \in {Active(player)} \cup {{e} \cap Active(player) : e \in Effects} :
       /\ player' = Lift(player, es)
       /\ shownEffects' = shownEffects \ es
  /\ UNCHANGED <<hand, dead, mode, difficulty, shown>>

SetMode ==
  /\ Handles
  /\ mode' \in Chosen
  /\ player' = SetBlocking([player EXCEPT !.flying = mode' = "spectator"], FALSE)
  /\ hand' = "none"
  /\ UNCHANGED <<dead, difficulty, shown, shownEffects>>

\* player_abilities: a creative player may fly, a spectator always does.
Abilities ==
  /\ Handles
  /\ \E requested \in BOOLEAN :
       player' = [player EXCEPT !.flying = mode = "spectator" \/ (mode = "creative" /\ requested)]
  /\ UNCHANGED <<hand, dead, mode, difficulty, shown, shownEffects>>

SetDifficulty ==
  /\ Handles
  /\ difficulty' \in Difficulties
  /\ UNCHANGED <<player, hand, dead, mode, shown, shownEffects>>

\* The kill command: damage beyond any health, then kill_player's report.
Kill ==
  /\ Handles
  /\ LET p == Damage(player, player.health + player.absorption, TRUE, FALSE)
     IN  player' = Clean(p) /\ shown' = Told(p)
  /\ dead' = TRUE
  /\ UNCHANGED <<hand, mode, difficulty, shownEffects>>

\* client_command perform_respawn; a hardcore server makes a spectator of the player.
\* The client clears its effects with the respawn packet.
Respawn ==
  /\ dead
  /\ \E hardcore \in BOOLEAN :
       LET m == IF hardcore THEN "spectator" ELSE mode
       IN  mode' = m /\ player' = [Fresh EXCEPT !.flying = m = "spectator"]
  /\ dead' = FALSE
  /\ shown' = Vitals(Fresh) /\ shownEffects' = {}
  /\ UNCHANGED <<hand, difficulty>>

Next ==
  \/ GameTick \/ Move \/ Attack \/ UseFood \/ UseShield \/ ReleaseUse
  \/ EffectGive \/ EffectClear \/ SetMode \/ Abilities \/ SetDifficulty
  \/ Kill \/ Respawn

Spec == Init /\ [][Next]_vars

---------------------------------------------------------------------------
(* Properties.                                                             *)

Players ==
  [health : 0..FullHealth, food : 0..FullFood, saturation : Nat, exhaustion : 0..Point - 1,
   absorption : Nat, effects : [Effects -> 0..2], blocking : BOOLEAN, flying : BOOLEAN,
   invulnerable : BOOLEAN, dirty : BOOLEAN]

\* Every variable has its type.
TypeOK ==
  /\ player \in Players
  /\ hand \in {"none", "main", "off"} /\ dead \in BOOLEAN
  /\ mode \in Modes /\ difficulty \in Difficulties
  /\ shown \in (0..FullHealth) \X (0..FullFood) \X Nat /\ shownEffects \subseteq Effects

\* Relations between quantities that different functions change: saturation never exceeds
\* food, although eating, exhaustion and a peaceful tick move both; absorption lasts no
\* longer than the effect that gave it; a raised shield is in a hand; and no path brings a
\* dead player's health back but the respawn.
SurvivalSound ==
  /\ player.saturation <= player.food
  /\ player.absorption > 0 => player.effects["absorption"] > 0
  /\ player.blocking => hand /= "none"
  /\ dead => player.health = 0

\* What the client shows is what the server has: unless dirty_ still promises a report,
\* health, food and saturation are those sent last, and the client has been told of exactly
\* the effects in force, through expiry, clearing, death and respawn.
ClientMirrors ==
  /\ ~player.dirty => shown = Vitals(player)
  /\ shownEffects = Active(player)

=============================================================================
