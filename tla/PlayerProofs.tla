---------------------------- MODULE PlayerProofs ----------------------------
(***************************************************************************)
(* A session in play, for any limits and any world like the code's: the    *)
(* survival state of the player's body, and the protocol of teleports,     *)
(* moves, chunks and keep-alives with the client.                          *)
(***************************************************************************)
EXTENDS LoginProofs, SurroundingsProofs

(***************************************************************************)
(* The survival state keeps its types and its sound combinations: one      *)
(* lemma per member function, then one step per action.                    *)
(***************************************************************************)

\* What every function keeps of the player's own numbers.
Sound(p) ==
  /\ p \in S!Players
  /\ p.saturation <= p.food
  /\ p.absorption > 0 => "absorption" \in Effects /\ p.effects["absorption"] > 0

\* q is what a function of the tick may make of p: sound, and not raising a shield.
Follows(q, p) == Sound(q) /\ (q.blocking => p.blocking)

\* Division by a positive number.
LEMMA Division ==
  ASSUME NEW a \in Nat, NEW b \in Nat \ {0}
  PROVE  a \div b \in Nat /\ a % b \in 0..b - 1
  OBVIOUS

LEMMA FreshSound ==
  ASSUME S!SurvivalConstants
  PROVE  Sound(S!Fresh) /\ S!Fresh.blocking = FALSE
  BY DEF S!SurvivalConstants, Sound, S!Fresh, S!Players

LEMMA HealSound ==
  ASSUME S!SurvivalConstants, NEW p, Sound(p), NEW n \in Nat
  PROVE  Follows(S!Heal(p, n), p)
  <1> DEFINE q == [p EXCEPT !.health = S!Least(FullHealth, @ + n), !.dirty = TRUE]
  <1>1. p \in S!Players /\ S!Least(FullHealth, p.health + n) \in 0..FullHealth
    BY DEF S!SurvivalConstants, Sound, S!Players, S!Least
  <1>2. q \in S!Players
    BY <1>1 DEF S!Players
  <1>3. /\ q.saturation = p.saturation /\ q.food = p.food /\ q.absorption = p.absorption
        /\ q.effects = p.effects /\ q.blocking = p.blocking
    BY <1>1 DEF S!Players
  <1> QED BY <1>2, <1>3 DEF S!Heal, Sound, Follows

LEMMA DamageSound ==
  ASSUME S!SurvivalConstants, NEW p, Sound(p), NEW n \in Nat,
         NEW bypass \in BOOLEAN, NEW blockable \in BOOLEAN
  PROVE  Follows(S!Damage(p, n, bypass, blockable), p)
  <1> DEFINE blocked == IF blockable /\ p.blocking THEN n \div 2 ELSE 0
             absorbed == S!Least(p.absorption, n - blocked)
             health == S!Most(0, p.health - (n - blocked - absorbed))
             hit == [p EXCEPT !.absorption = @ - absorbed, !.health = health,
                              !.blocking = @ /\ health > 0, !.invulnerable = @ \/ ~bypass,
                              !.dirty = TRUE]
  <1>1. p.health \in 0..FullHealth /\ p.absorption \in Nat /\ p.blocking \in BOOLEAN
        /\ p.invulnerable \in BOOLEAN /\ FullHealth \in Nat
    BY DEF Sound, S!Players, S!SurvivalConstants
  <1>2. blocked \in Nat /\ blocked <= n
    BY <1>1
  <1>3. absorbed \in Nat /\ absorbed <= p.absorption /\ absorbed <= n - blocked
    BY <1>1, <1>2 DEF S!Least
  <1>4. health \in 0..FullHealth
    BY <1>1, <1>2, <1>3 DEF S!Most
  <1> HIDE DEF blocked, absorbed, health
  <1>5. Follows(hit, p)
    <2>1. p \in S!Players /\ p.absorption - absorbed \in Nat
          /\ p.absorption - absorbed <= p.absorption
      BY <1>1, <1>3 DEF Sound
    <2>2. hit \in S!Players
      BY <1>4, <2>1 DEF S!Players
    <2>3. /\ hit.saturation = p.saturation /\ hit.food = p.food
          /\ hit.absorption = p.absorption - absorbed /\ hit.effects = p.effects
          /\ (hit.blocking => p.blocking)
      BY <1>1, <2>1 DEF S!Players
    <2> QED BY <1>1, <2>1, <2>2, <2>3 DEF Sound, Follows
  <1>6. Follows(p, p)
    BY DEF Follows
  <1>7. S!Damage(p, n, bypass, blockable) = IF S!Refused(p, n, bypass) THEN p ELSE hit
    BY DEF S!Damage, blocked, absorbed, health
  <1> QED BY <1>5, <1>6, <1>7

LEMMA ExhaustSound ==
  ASSUME S!SurvivalConstants, NEW p, Sound(p), NEW n \in Nat
  PROVE  Follows(S!Exhaust(p, n), p)
  <1> DEFINE due == (p.exhaustion + n) \div Point
             rest == (p.exhaustion + n) % Point
             sat == S!Most(0, p.saturation - due)
             food == S!Most(0, p.food - S!Most(0, due - p.saturation))
             q == [p EXCEPT !.exhaustion = rest, !.saturation = sat, !.food = food,
                            !.dirty = @ \/ due > 0]
  <1>1. p \in S!Players /\ p.saturation \in Nat /\ p.food \in 0..FullFood
        /\ p.saturation <= p.food
        /\ p.exhaustion + n \in Nat /\ Point \in Nat \ {0} /\ FullFood \in Nat
    BY DEF Sound, S!Players, S!SurvivalConstants
  <1>2. due \in Nat /\ rest \in 0..Point - 1
    BY <1>1, Division
  <1> HIDE DEF due, rest
  <1>3. sat \in Nat /\ food \in 0..FullFood /\ sat <= food
    BY <1>1, <1>2 DEF S!Most
  <1>4. S!Exhaust(p, n) = q
    BY <1>1 DEF S!Exhaust, due, rest, sat, food, S!Players
  <1> HIDE DEF sat, food
  <1>5. q \in S!Players
    BY <1>1, <1>2, <1>3 DEF S!Players
  <1>6. /\ q.saturation = sat /\ q.food = food /\ q.absorption = p.absorption
        /\ q.effects = p.effects /\ q.blocking = p.blocking
    BY <1>1 DEF S!Players
  <1> QED BY <1>3, <1>4, <1>5, <1>6 DEF Sound, Follows

LEMMA EatSound ==
  ASSUME S!SurvivalConstants, NEW p, Sound(p), NEW n \in Nat, NEW s \in Nat
  PROVE  Follows(S!Eat(p, n, s), p)
  <1> DEFINE food == S!Least(FullFood, p.food + n)
             sat == S!Least(food, p.saturation + s)
             q == [p EXCEPT !.food = food, !.saturation = sat, !.dirty = TRUE]
  <1>1. p \in S!Players /\ food \in 0..FullFood /\ sat \in Nat /\ sat <= food
    BY DEF S!SurvivalConstants, Sound, S!Players, S!Least
  <1> HIDE DEF food, sat
  <1>2. q \in S!Players
    BY <1>1 DEF S!Players
  <1>3. /\ q.saturation = sat /\ q.food = food /\ q.absorption = p.absorption
        /\ q.effects = p.effects /\ q.blocking = p.blocking
    BY <1>1 DEF S!Players
  <1>4. S!Eat(p, n, s) = q
    BY <1>1 DEF S!Eat, food, sat, S!Players
  <1> QED BY <1>1, <1>2, <1>3, <1>4 DEF Sound, Follows

LEMMA ApplySound ==
  ASSUME S!SurvivalConstants, NEW p, Sound(p), NEW e \in Effects, NEW level \in 1..2
  PROVE  Follows(S!Apply(p, e, level), p)
  <1> DEFINE es == [p.effects EXCEPT ![e] = level]
             hearts == IF e = "absorption" THEN level * Hearts ELSE p.absorption
             q == S!Apply(p, e, level)
  <1>1. p \in S!Players /\ es \in [Effects -> 0..2]
    BY DEF Sound, S!Players
  <1>2. hearts \in Nat
    BY <1>1 DEF S!Players, S!SurvivalConstants
  <1>3. hearts > 0 => "absorption" \in Effects /\ es["absorption"] > 0
    BY <1>1, <1>2 DEF Sound, S!Players
  <1>4. q = [p EXCEPT !.effects = es, !.absorption = hearts, !.dirty = @ \/ e = "absorption"]
    BY <1>1 DEF S!Apply, S!Players
  <1> HIDE DEF es, hearts, q
  <1>5. q \in S!Players
    BY <1>1, <1>2, <1>4 DEF S!Players
  <1>6. /\ q.saturation = p.saturation /\ q.food = p.food /\ q.absorption = hearts
        /\ q.effects = es /\ q.blocking = p.blocking
    BY <1>1, <1>4 DEF S!Players
  <1> QED BY <1>3, <1>5, <1>6 DEF Sound, Follows, q

LEMMA LiftSound ==
  ASSUME S!SurvivalConstants, NEW p, Sound(p), NEW es \in SUBSET Effects
  PROVE  Follows(S!Lift(p, es), p)
  <1> DEFINE gone == "absorption" \in es \cap S!Active(p)
             after == [e \in Effects |-> IF e \in es THEN 0 ELSE p.effects[e]]
             hearts == IF gone THEN 0 ELSE p.absorption
             q == S!Lift(p, es)
  <1>1. p \in S!Players /\ after \in [Effects -> 0..2] /\ hearts \in Nat
    BY DEF Sound, S!Players
  <1>2. hearts > 0 => "absorption" \in Effects /\ after["absorption"] > 0
    BY <1>1 DEF Sound, S!Active
  <1>3. q = [p EXCEPT !.effects = after, !.absorption = hearts, !.dirty = @ \/ gone]
    BY <1>1 DEF S!Lift, S!Players
  <1> HIDE DEF after, hearts, gone, q
  <1>4. q \in S!Players
    BY <1>1, <1>3, Zenon DEF S!Players
  <1>5. /\ q.saturation = p.saturation /\ q.food = p.food /\ q.absorption = hearts
        /\ q.effects = after /\ q.blocking = p.blocking
    BY <1>1, <1>3 DEF S!Players
  <1> QED BY <1>2, <1>4, <1>5 DEF Sound, Follows, q

LEMMA SetBlockingSound ==
  ASSUME NEW p, Sound(p), NEW b \in BOOLEAN
  PROVE  Sound(S!SetBlocking(p, b)) /\ (S!SetBlocking(p, b).blocking => b)
  BY DEF Sound, S!SetBlocking, S!Players

LEMMA RefillSound ==
  ASSUME S!SurvivalConstants, NEW p, Sound(p), NEW d
  PROVE  Follows(S!Refill(p, d), p)
  <1> DEFINE sat == S!Most(p.saturation, StartSaturation)
             q == [p EXCEPT !.food = FullFood, !.saturation = sat, !.exhaustion = 0,
                            !.dirty = TRUE]
  <1>1. p \in S!Players /\ FullFood \in 0..FullFood /\ 0 \in 0..Point - 1 /\ sat \in Nat
        /\ sat <= FullFood
    BY DEF S!SurvivalConstants, Sound, S!Players, S!Most
  <1>2. S!Refill(p, d) = IF d = "peaceful" /\ p.food < FullFood THEN q ELSE p
    BY <1>1 DEF S!Refill, S!Players
  <1> HIDE DEF sat
  <1>3. q \in S!Players
    BY <1>1 DEF S!Players
  <1>4. /\ q.saturation = sat /\ q.food = FullFood /\ q.absorption = p.absorption
        /\ q.effects = p.effects /\ q.blocking = p.blocking
    BY <1>1 DEF S!Players
  <1> HIDE DEF q
  <1> QED BY <1>1, <1>2, <1>3, <1>4 DEF Sound, Follows

LEMMA CalmSound ==
  ASSUME NEW p, Sound(p), NEW fires
  PROVE  Follows(S!Calm(p, fires), p)
  BY DEF Sound, Follows, S!Calm, S!Players

LEMMA RecoverSound ==
  ASSUME S!SurvivalConstants, NEW p, Sound(p), NEW d, NEW fires
  PROVE  Follows(S!Recover(p, d, fires), p)
  <1>1. Point + Point \div 2 \in Nat
    BY DEF S!SurvivalConstants
  <1>2. Follows(S!Heal(p, 1), p)
    BY HealSound
  <1>3. Follows(S!Exhaust(S!Heal(p, 1), Point + Point \div 2), S!Heal(p, 1))
    BY <1>1, <1>2, ExhaustSound DEF Follows
  <1> QED BY <1>2, <1>3 DEF S!Recover, Follows

LEMMA StarveSound ==
  ASSUME S!SurvivalConstants, NEW p, Sound(p), NEW d, NEW fires
  PROVE  Follows(S!Starve(p, d, fires), p)
  <1> DEFINE h == S!Most(S!Floor(d), p.health - 1)
             q == [p EXCEPT !.health = h, !.dirty = TRUE]
             hungry == p.food = 0 /\ d /= "peaceful" /\ "starve" \in fires
                       /\ p.health > S!Floor(d)
  <1>1. p \in S!Players /\ p.health \in 0..FullHealth /\ FullHealth \in Nat
    BY DEF Sound, S!Players, S!SurvivalConstants
  <1>2. S!Floor(d) \in Nat
    BY DEF S!SurvivalConstants, S!Floor
  <1>3. hungry => h \in 0..FullHealth
    BY <1>1, <1>2 DEF S!Most
  <1>4. S!Starve(p, d, fires) = IF hungry THEN q ELSE p
    BY <1>1 DEF S!Starve, S!Players
  <1> HIDE DEF h, hungry
  <1>5. hungry => q \in S!Players
    BY <1>1, <1>3 DEF S!Players
  <1>6. /\ q.saturation = p.saturation /\ q.food = p.food /\ q.absorption = p.absorption
        /\ q.effects = p.effects /\ q.blocking = p.blocking
    BY <1>1 DEF S!Players
  <1> HIDE DEF q
  <1> QED BY <1>4, <1>5, <1>6 DEF Sound, Follows

\* The periodic effects and the drowning of a tick.
LEMMA PeriodicSound ==
  ASSUME S!SurvivalConstants, NEW p, Sound(p), NEW fires
  PROVE  /\ Follows(S!Regenerate(p, fires), p) /\ Follows(S!Poison(p, fires), p)
         /\ Follows(S!Wither(p, fires), p) /\ Follows(S!Drown(p, fires), p)
  <1>1. S!Least(1, S!Most(0, p.health - 1) + p.absorption) \in Nat
    BY DEF Sound, S!Players, S!Least, S!Most, S!SurvivalConstants
  <1>2. Follows(p, p)
    BY DEF Follows
  <1>3. Follows(S!Damage(p, S!Least(1, S!Most(0, p.health - 1) + p.absorption), TRUE, FALSE), p)
    BY <1>1, DamageSound
  <1> QED BY <1>2, <1>3, DamageSound, HealSound DEF S!Regenerate, S!Poison, S!Wither, S!Drown

LEMMA TickSound ==
  ASSUME S!SurvivalConstants, NEW p, Sound(p), NEW d, NEW fires, NEW expired \in SUBSET Effects
  PROVE  Follows(S!Tick(p, d, fires, expired), p)
  <1> DEFINE a == S!Refill(p, d)
             b == S!Calm(a, fires)
             c == S!Regenerate(b, fires)
             e == S!Poison(c, fires)
             f == S!Wither(e, fires)
             g == S!Lift(f, expired)
             h == S!Drown(g, fires)
             i == S!Recover(h, d, fires)
             j == S!Starve(i, d, fires)
  <1>1. Follows(a, p)
    BY RefillSound
  <1> HIDE DEF a
  <1>2. Follows(b, a)
    BY <1>1, CalmSound DEF Follows
  <1> HIDE DEF b
  <1>3. Follows(c, b)
    BY <1>2, PeriodicSound DEF Follows
  <1> HIDE DEF c
  <1>4. Follows(e, c)
    BY <1>3, PeriodicSound DEF Follows
  <1> HIDE DEF e
  <1>5. Follows(f, e)
    BY <1>4, PeriodicSound DEF Follows
  <1> HIDE DEF f
  <1>6. Follows(g, f)
    BY <1>5, LiftSound DEF Follows
  <1> HIDE DEF g
  <1>7. Follows(h, g)
    BY <1>6, PeriodicSound DEF Follows
  <1> HIDE DEF h
  <1>8. Follows(i, h)
    BY <1>7, RecoverSound DEF Follows
  <1> HIDE DEF i
  <1>9. Follows(j, i)
    BY <1>8, StarveSound DEF Follows
  <1>10. S!Tick(p, d, fires, expired) = j
    BY DEF S!Tick, a, b, c, e, f, g, h, i
  <1> HIDE DEF j
  <1> QED BY <1>1, <1>2, <1>3, <1>4, <1>5, <1>6, <1>7, <1>8, <1>9, <1>10 DEF Follows

---------------------------------------------------------------------------

\* The strengthening: soundness with the types, and the conjuncts about the session.
BodyInv ==
  /\ Sound(player)
  /\ player.blocking => hand /= "none"
  /\ dead => player.health = 0
  /\ hand \in {"none", "main", "off"} /\ dead \in BOOLEAN /\ mode \in S!Modes

LEMMA CleanSound ==
  ASSUME NEW p, Sound(p)
  PROVE  /\ Sound(S!Clean(p)) /\ S!Clean(p).health = p.health
         /\ S!Clean(p).blocking = p.blocking
  BY DEF Sound, S!Clean, S!Players

\* A game tick, with the attack that may follow it.
LEMMA GameTickSound ==
  ASSUME S!SurvivalConstants, BodyInv, S!GameTick
  PROVE  BodyInv'
  <1>1. PICK fires \in SUBSET S!Running(player, difficulty), expired \in SUBSET S!Active(player),
             attack \in {"none", "behind", "front", "front_breaks"} :
        S!Ticked(S!Tick(player, difficulty, fires, expired), expired, attack)
    BY DEF S!GameTick
  <1> DEFINE p == S!Tick(player, difficulty, fires, expired)
             attacked == attack /= "none" /\ p.health > 0
             q == IF attacked THEN S!Attacked(S!Clean(p), attack /= "behind") ELSE S!Clean(p)
             lowered == attacked /\ attack = "front_breaks" /\ q /= S!Clean(p) /\ p.blocking
  <1>2. Follows(p, player)
    BY TickSound DEF BodyInv, S!Active
  <1>3. Sound(S!Clean(p)) /\ S!Clean(p).health = p.health /\ S!Clean(p).blocking = p.blocking
    BY <1>2, CleanSound DEF Follows
  <1>4. player' = (IF lowered THEN S!SetBlocking(q, FALSE) ELSE q)
        /\ hand' = (IF lowered THEN "none" ELSE hand) /\ dead' = (p.health = 0)
    BY <1>1 DEF S!Ticked
  <1>5. (p.health > 0) \in BOOLEAN /\ p.health \in Nat
    BY <1>2 DEF Follows, Sound, S!Players
  <1> HIDE DEF p
  <1>6. Follows(S!Attacked(S!Clean(p), attack /= "behind"), S!Clean(p))
    <2>1. S!Scaled(difficulty) \in Nat
      BY DEF S!Scaled
    <2>2. Follows(S!Damage(S!Clean(p), S!Scaled(difficulty), FALSE, attack /= "behind"), S!Clean(p))
      BY <1>3, <2>1, DamageSound
    <2>3. Follows(S!Clean(p), S!Clean(p))
      BY <1>3 DEF Follows
    <2> QED BY <2>2, <2>3, CleanSound DEF S!Attacked, Follows
  <1>7. Sound(q) /\ (q.blocking => player.blocking) /\ (~attacked => q = S!Clean(p))
    BY <1>2, <1>3, <1>6 DEF Follows
  <1> HIDE DEF q
  <1>8. Sound(S!SetBlocking(q, FALSE)) /\ ~S!SetBlocking(q, FALSE).blocking
    BY <1>7, SetBlockingSound
  <1>9. Sound(player')
    BY <1>4, <1>7, <1>8
  <1>10. player'.blocking => hand' /= "none"
    BY <1>4, <1>7, <1>8 DEF BodyInv
  <1>11. ASSUME dead' PROVE player'.health = 0
    <2>1. p.health = 0
      BY <1>4, <1>11
    <2>2. ~attacked
      BY <2>1
    <2>3. player' = S!Clean(p)
      BY <1>4, <1>7, <2>2
    <2> QED BY <1>3, <2>1, <2>3
  <1> QED BY <1>4, <1>5, <1>9, <1>10, <1>11 DEF BodyInv, S!GameTick

\* The packets and commands of the player.
LEMMA HandlerSound ==
  ASSUME S!SurvivalConstants, BodyInv
  PROVE  /\ S!Move => BodyInv'
         /\ S!Attack => BodyInv'
         /\ S!UseFood => BodyInv'
         /\ S!UseShield => BodyInv'
         /\ S!ReleaseUse => BodyInv'
         /\ S!EffectGive => BodyInv'
         /\ S!EffectClear => BodyInv'
         /\ S!SetMode => BodyInv'
         /\ S!Abilities => BodyInv'
         /\ S!SetDifficulty => BodyInv'
  <1> USE DEF BodyInv, S!Handles
  <1>1. ASSUME S!Move PROVE BodyInv'
    <2>1. PICK effort \in 0..1, fall \in 0..FullHealth :
            player' = S!Damage(S!Exhaust(player, effort), fall, TRUE, FALSE)
      BY <1>1 DEF S!Move
    <2>2. Follows(S!Exhaust(player, effort), player)
      BY ExhaustSound
    <2>3. fall \in Nat
      BY DEF S!SurvivalConstants
    <2>4. Follows(player', S!Exhaust(player, effort))
      BY <2>1, <2>2, <2>3, DamageSound DEF Follows
    <2> QED BY <1>1, <2>2, <2>4 DEF S!Move, Follows
  <1>2. ASSUME S!Attack PROVE BodyInv'
    <2>1. Follows(S!Exhaust(player, 1), player)
      BY ExhaustSound
    <2> QED BY <1>2, <2>1 DEF S!Attack, Follows
  <1>3. ASSUME S!UseFood PROVE BodyInv'
    <2>1. PICK nutrition \in 1..2, saturation \in 0..2 :
            player' = S!Clean(S!Eat(player, nutrition, saturation))
      BY <1>3 DEF S!UseFood
    <2>2. Follows(S!Eat(player, nutrition, saturation), player)
      BY EatSound
    <2> QED BY <1>3, <2>1, <2>2, CleanSound DEF S!UseFood, Follows
  <1>4. ASSUME S!UseShield PROVE BodyInv'
    BY <1>4, SetBlockingSound DEF S!UseShield
  <1>5. ASSUME S!ReleaseUse PROVE BodyInv'
    BY <1>5, SetBlockingSound DEF S!ReleaseUse
  <1>6. ASSUME S!EffectGive PROVE BodyInv'
    <2>1. PICK e \in Effects, level \in 1..2 : player' = S!Apply(player, e, level)
      BY <1>6 DEF S!EffectGive
    <2>2. Follows(player', player)
      BY <2>1, ApplySound
    <2> QED BY <1>6, <2>2 DEF S!EffectGive, Follows
  <1>7. ASSUME S!EffectClear PROVE BodyInv'
    <2>1. PICK es \in {S!Active(player)} \cup {{e} \cap S!Active(player) : e \in Effects} :
            player' = S!Lift(player, es)
      BY <1>7 DEF S!EffectClear
    <2>2. es \in SUBSET Effects
      BY <2>1 DEF S!Active
    <2>3. Follows(player', player)
      BY <2>1, <2>2, LiftSound
    <2> QED BY <1>7, <2>3 DEF S!EffectClear, Follows
  <1>8. ASSUME S!SetMode PROVE BodyInv'
    <2>1. Sound([player EXCEPT !.flying = mode' = "spectator"])
      BY DEF Sound, S!Players
    <2>2. player' = S!SetBlocking([player EXCEPT !.flying = mode' = "spectator"], FALSE)
          /\ mode' \in S!Modes /\ hand' = "none" /\ dead' = dead /\ ~dead
      BY <1>8 DEF S!SetMode, S!SurvivalConstants
    <2>3. Sound(player') /\ ~player'.blocking
      BY <2>1, <2>2, SetBlockingSound
    <2> QED BY <2>2, <2>3
  <1>9. ASSUME S!Abilities PROVE BodyInv'
    <2>1. PICK requested \in BOOLEAN :
            player' = [player EXCEPT !.flying = mode = "spectator" \/ (mode = "creative" /\ requested)]
      BY <1>9 DEF S!Abilities
    <2> QED BY <1>9, <2>1 DEF S!Abilities, Sound, S!Players
  <1>10. ASSUME S!SetDifficulty PROVE BodyInv'
    BY <1>10 DEF S!SetDifficulty
  <1> QED BY <1>1, <1>2, <1>3, <1>4, <1>5, <1>6, <1>7, <1>8, <1>9, <1>10

LEMMA KillSound ==
  ASSUME S!SurvivalConstants, BodyInv, S!Kill
  PROVE  BodyInv'
  <1> DEFINE n == player.health + player.absorption
             p == S!Damage(player, n, TRUE, FALSE)
  <1>1. player \in S!Players /\ Sound(player)
    BY DEF BodyInv, Sound
  <1>2. n \in Nat /\ n - player.absorption = player.health /\ player.health \in Nat
        /\ player.absorption \in Nat
    BY <1>1 DEF S!Players, S!SurvivalConstants
  <1>3. Follows(p, player)
    BY <1>1, <1>2, DamageSound
  <1>4. p.health = 0
    BY <1>1, <1>2 DEF S!Damage, S!Refused, S!Least, S!Most, S!Players
  <1> HIDE DEF p
  <1>5. Sound(S!Clean(p)) /\ S!Clean(p).health = 0 /\ (S!Clean(p).blocking => player.blocking)
    BY <1>3, <1>4, CleanSound DEF Follows
  <1>6. player' = S!Clean(p) /\ dead' = TRUE /\ hand' = hand /\ mode' = mode
    BY DEF S!Kill, p
  <1> QED BY <1>5, <1>6 DEF BodyInv

LEMMA RespawnSound ==
  ASSUME S!SurvivalConstants, BodyInv, S!Respawn
  PROVE  BodyInv'
  <1>1. PICK hardcore \in BOOLEAN :
          LET m == IF hardcore THEN "spectator" ELSE mode
          IN  mode' = m /\ player' = [S!Fresh EXCEPT !.flying = m = "spectator"]
    BY DEF S!Respawn
  <1>2. Sound([S!Fresh EXCEPT !.flying = mode' = "spectator"])
    BY FreshSound DEF Sound, S!Players
  <1>3. [S!Fresh EXCEPT !.flying = mode' = "spectator"].blocking = FALSE
    BY DEF S!Fresh
  <1> QED BY <1>1, <1>2, <1>3 DEF BodyInv, S!Respawn, S!Modes

LEMMA BodyInvariant == S!Spec => []BodyInv
<1> USE BodyAssumption
<1>1. S!Init => BodyInv
  BY FreshSound DEF S!Init, BodyInv, S!Modes
<1>2. BodyInv /\ [S!Next]_S!vars => BodyInv'
  <2> SUFFICES ASSUME BodyInv, [S!Next]_S!vars PROVE BodyInv'
    OBVIOUS
  <2>1. CASE S!Next
    BY <2>1, GameTickSound, HandlerSound, KillSound, RespawnSound DEF S!Next
  <2>2. CASE UNCHANGED S!vars
    BY <2>2 DEF S!vars, BodyInv
  <2> QED BY <2>1, <2>2
<1> QED BY <1>1, <1>2, PTL DEF S!Spec

\* Saturation within food, absorption within its effect, a raised shield in a hand and no
\* return from death but the respawn, for any limits like the code's.
THEOREM SurvivalSoundCorrect == S!Spec => []SurvivalSound
<1>1. BodyInv => SurvivalSound
  BY DEF BodyInv, SurvivalSound, S!SurvivalSound, Sound
<1> QED BY <1>1, BodyInvariant, PTL

(***************************************************************************)
(* What the client shows of the body: a change that it would show has been *)
(* reported, or dirty_ promises the report.                                *)
(***************************************************************************)

\* A function that makes q of p promises a report of what it changed in health, food and
\* saturation, and takes no report back.
Promises(q, p) == ~q.dirty => ~p.dirty /\ S!Vitals(q) = S!Vitals(p)

LEMMA HealPromises ==
  ASSUME NEW p, Sound(p), NEW n \in Nat
  PROVE  Promises(S!Heal(p, n), p) /\ S!Heal(p, n).effects = p.effects
  BY DEF Sound, S!Players, S!Heal, Promises

LEMMA DamagePromises ==
  ASSUME NEW p, Sound(p), NEW n \in Nat, NEW bypass \in BOOLEAN, NEW blockable \in BOOLEAN
  PROVE  /\ Promises(S!Damage(p, n, bypass, blockable), p)
         /\ S!Damage(p, n, bypass, blockable).effects = p.effects
  BY DEF Sound, S!Players, S!Damage, Promises

LEMMA ExhaustPromises ==
  ASSUME S!SurvivalConstants, NEW p, Sound(p), NEW n \in Nat
  PROVE  Promises(S!Exhaust(p, n), p) /\ S!Exhaust(p, n).effects = p.effects
<1> DEFINE due == (p.exhaustion + n) \div Point
<1>1. /\ p \in S!Players /\ p.exhaustion + n \in Nat /\ Point \in Nat \ {0}
      /\ p.saturation \in Nat /\ p.food \in Nat
  BY DEF Sound, S!Players, S!SurvivalConstants
<1>2. due \in Nat
  BY <1>1, Division
<1> HIDE DEF due
<1>3. /\ S!Exhaust(p, n).saturation = S!Most(0, p.saturation - due)
      /\ S!Exhaust(p, n).food = S!Most(0, p.food - S!Most(0, due - p.saturation))
      /\ S!Exhaust(p, n).health = p.health
      /\ S!Exhaust(p, n).effects = p.effects
      /\ S!Exhaust(p, n).dirty = (p.dirty \/ due > 0)
  BY <1>1 DEF S!Exhaust, S!Players, due
<1>4. due = 0 => /\ S!Most(0, p.saturation - due) = p.saturation
                 /\ S!Most(0, p.food - S!Most(0, due - p.saturation)) = p.food
  BY <1>1 DEF S!Most
<1>5. ~(due > 0) => due = 0
  BY <1>2
<1> QED BY <1>3, <1>4, <1>5 DEF Promises, S!Vitals

LEMMA LiftPromises ==
  ASSUME NEW p, Sound(p), NEW es \in SUBSET Effects
  PROVE  /\ Promises(S!Lift(p, es), p)
         /\ S!Active(S!Lift(p, es)) = S!Active(p) \ es
  BY DEF Sound, S!Players, S!Lift, Promises, S!Vitals, S!Active

LEMMA RefillPromises ==
  ASSUME NEW p, Sound(p), NEW d
  PROVE  Promises(S!Refill(p, d), p) /\ S!Refill(p, d).effects = p.effects
  BY DEF Sound, S!Players, S!Refill, Promises, S!Vitals

LEMMA CalmPromises ==
  ASSUME NEW p, Sound(p), NEW fires
  PROVE  Promises(S!Calm(p, fires), p) /\ S!Calm(p, fires).effects = p.effects
  BY DEF Sound, S!Players, S!Calm, Promises, S!Vitals

LEMMA RecoverPromises ==
  ASSUME S!SurvivalConstants, NEW p, Sound(p), NEW d, NEW fires
  PROVE  Promises(S!Recover(p, d, fires), p) /\ S!Recover(p, d, fires).effects = p.effects
<1>1. Point + Point \div 2 \in Nat
  BY DEF S!SurvivalConstants
<1>2. Sound(S!Heal(p, 1)) /\ Promises(S!Heal(p, 1), p) /\ S!Heal(p, 1).effects = p.effects
  BY HealSound, HealPromises DEF Follows
<1> DEFINE q == S!Heal(p, 1)
           r == S!Exhaust(q, Point + Point \div 2)
<1> HIDE DEF q
<1>3. Promises(r, q) /\ r.effects = q.effects
  BY <1>1, <1>2, ExhaustPromises DEF q
<1>4. S!Recover(p, d, fires) \in {p, q, r}
  BY DEF S!Recover, q
<1> HIDE DEF r
<1> QED BY <1>2, <1>3, <1>4 DEF Promises, q

LEMMA StarvePromises ==
  ASSUME NEW p, Sound(p), NEW d, NEW fires
  PROVE  Promises(S!Starve(p, d, fires), p) /\ S!Starve(p, d, fires).effects = p.effects
<1> DEFINE h == S!Most(S!Floor(d), p.health - 1)
           q == [p EXCEPT !.health = h, !.dirty = TRUE]
<1>1. S!Starve(p, d, fires) \in {p, q}
  BY DEF S!Starve, Sound, S!Players
<1> HIDE DEF h
<1>2. q.dirty /\ q.effects = p.effects
  BY DEF Sound, S!Players
<1> HIDE DEF q
<1> QED BY <1>1, <1>2 DEF Promises

LEMMA PeriodicPromises ==
  ASSUME S!SurvivalConstants, NEW p, Sound(p), NEW fires
  PROVE  /\ Promises(S!Regenerate(p, fires), p) /\ S!Regenerate(p, fires).effects = p.effects
         /\ Promises(S!Poison(p, fires), p) /\ S!Poison(p, fires).effects = p.effects
         /\ Promises(S!Wither(p, fires), p) /\ S!Wither(p, fires).effects = p.effects
         /\ Promises(S!Drown(p, fires), p) /\ S!Drown(p, fires).effects = p.effects
<1>1. S!Least(1, S!Most(0, p.health - 1) + p.absorption) \in Nat
  BY DEF Sound, S!Players, S!Least, S!Most, S!SurvivalConstants
<1>2. Promises(p, p)
  BY DEF Promises
<1> DEFINE q == S!Damage(p, S!Least(1, S!Most(0, p.health - 1) + p.absorption), TRUE, FALSE)
<1>3. Promises(q, p) /\ q.effects = p.effects
  BY <1>1, DamagePromises
<1>4. S!Poison(p, fires) \in {p, q}
  BY DEF S!Poison
<1> HIDE DEF q
<1>5. Promises(S!Poison(p, fires), p) /\ S!Poison(p, fires).effects = p.effects
  BY <1>2, <1>3, <1>4
<1>6. Promises(S!Regenerate(p, fires), p) /\ S!Regenerate(p, fires).effects = p.effects
  BY <1>2, HealPromises DEF S!Regenerate
<1>7. Promises(S!Wither(p, fires), p) /\ S!Wither(p, fires).effects = p.effects
  BY <1>2, DamagePromises DEF S!Wither
<1>8. Promises(S!Drown(p, fires), p) /\ S!Drown(p, fires).effects = p.effects
  BY <1>2, DamagePromises DEF S!Drown
<1> QED BY <1>5, <1>6, <1>7, <1>8

\* Reports add up.
LEMMA PromisesTwice ==
  ASSUME NEW p, NEW q, NEW r, Promises(q, p), Promises(r, q)
  PROVE  Promises(r, p)
  BY DEF Promises

LEMMA TickPromises ==
  ASSUME S!SurvivalConstants, NEW p, Sound(p), NEW d, NEW fires, NEW expired \in SUBSET Effects
  PROVE  /\ Promises(S!Tick(p, d, fires, expired), p)
         /\ S!Active(S!Tick(p, d, fires, expired)) = S!Active(p) \ expired
<1> DEFINE a == S!Refill(p, d)
           b == S!Calm(a, fires)
           c == S!Regenerate(b, fires)
           e == S!Poison(c, fires)
           f == S!Wither(e, fires)
           g == S!Lift(f, expired)
           h == S!Drown(g, fires)
           i == S!Recover(h, d, fires)
           j == S!Starve(i, d, fires)
<1>1. Sound(a) /\ Promises(a, p) /\ a.effects = p.effects
  BY RefillSound, RefillPromises DEF Follows
<1> HIDE DEF a
<1>2. Sound(b) /\ Promises(b, a) /\ b.effects = a.effects
  BY <1>1, CalmSound, CalmPromises DEF Follows
<1> HIDE DEF b
<1>3. Sound(c) /\ Promises(c, b) /\ c.effects = b.effects
  BY <1>2, PeriodicSound, PeriodicPromises DEF Follows
<1> HIDE DEF c
<1>4. Sound(e) /\ Promises(e, c) /\ e.effects = c.effects
  BY <1>3, PeriodicSound, PeriodicPromises DEF Follows
<1> HIDE DEF e
<1>5. Sound(f) /\ Promises(f, e) /\ f.effects = e.effects
  BY <1>4, PeriodicSound, PeriodicPromises DEF Follows
<1> HIDE DEF f
<1>6. Sound(g) /\ Promises(g, f) /\ S!Active(g) = S!Active(f) \ expired
  BY <1>5, LiftSound, LiftPromises DEF Follows
<1> HIDE DEF g
<1>7. Sound(h) /\ Promises(h, g) /\ h.effects = g.effects
  BY <1>6, PeriodicSound, PeriodicPromises DEF Follows
<1> HIDE DEF h
<1>8. Sound(i) /\ Promises(i, h) /\ i.effects = h.effects
  BY <1>7, RecoverSound, RecoverPromises DEF Follows
<1> HIDE DEF i
<1>9. Promises(j, i) /\ j.effects = i.effects
  BY <1>8, StarvePromises
<1>10. S!Tick(p, d, fires, expired) = j
  BY DEF S!Tick, a, b, c, e, f, g, h, i
<1> HIDE DEF j
<1>11. Promises(j, p)
  BY <1>1, <1>2, <1>3, <1>4, <1>5, <1>6, <1>7, <1>8, <1>9, PromisesTwice
<1>12. S!Active(j) = S!Active(g) /\ S!Active(f) = S!Active(p)
  BY <1>1, <1>2, <1>3, <1>4, <1>5, <1>7, <1>8, <1>9 DEF S!Active
<1> QED BY <1>6, <1>10, <1>11, <1>12

---------------------------------------------------------------------------

LEMMA CleanSame ==
  ASSUME NEW p, Sound(p)
  PROVE  /\ S!Clean(p).dirty = FALSE /\ S!Vitals(S!Clean(p)) = S!Vitals(p)
         /\ S!Active(S!Clean(p)) = S!Active(p)
  BY DEF Sound, S!Players, S!Clean, S!Vitals, S!Active

LEMMA TickMirrors ==
  ASSUME S!SurvivalConstants, BodyInv, S!ClientMirrors, S!GameTick
  PROVE  S!ClientMirrors'
<1>1. PICK fires \in SUBSET S!Running(player, difficulty), expired \in SUBSET S!Active(player),
           attack \in {"none", "behind", "front", "front_breaks"} :
        S!Ticked(S!Tick(player, difficulty, fires, expired), expired, attack)
  BY DEF S!GameTick
<1> DEFINE p == S!Tick(player, difficulty, fires, expired)
           c == S!Clean(p)
           attacked == attack /= "none" /\ p.health > 0
           q == IF attacked THEN S!Attacked(c, attack /= "behind") ELSE c
           lowered == attacked /\ attack = "front_breaks" /\ q /= c /\ p.blocking
<1>2. /\ player' = IF lowered THEN S!SetBlocking(q, FALSE) ELSE q
      /\ shown' = IF q = c THEN S!Told(p) ELSE S!Vitals(q)
      /\ shownEffects' = shownEffects \ expired
  BY <1>1 DEF S!Ticked
<1>3. Sound(p) /\ Promises(p, player) /\ S!Active(p) = S!Active(player) \ expired
  BY TickSound, TickPromises DEF BodyInv, Follows, S!Active
<1>4. S!Told(p) = S!Vitals(p)
  BY <1>3 DEF S!Told, Promises, S!ClientMirrors
<1> HIDE DEF p
<1>5. Sound(c) /\ c.dirty = FALSE /\ S!Vitals(c) = S!Vitals(p) /\ S!Active(c) = S!Active(p)
  BY <1>3, CleanSound, CleanSame
<1> HIDE DEF c
<1>6. Sound(q) /\ S!Active(q) = S!Active(c)
  <2>1. S!Scaled(difficulty) \in Nat
    BY DEF S!Scaled
  <2> DEFINE hit == S!Damage(c, S!Scaled(difficulty), FALSE, attack /= "behind")
  <2>2. Sound(hit) /\ hit.effects = c.effects
    BY <1>5, <2>1, DamageSound, DamagePromises DEF Follows
  <2>3. q \in {c, S!Clean(hit)}
    BY DEF S!Attacked
  <2> HIDE DEF hit
  <2>4. Sound(S!Clean(hit)) /\ S!Active(S!Clean(hit)) = S!Active(hit)
    BY <2>2, CleanSound, CleanSame
  <2>5. S!Active(hit) = S!Active(c)
    BY <2>2 DEF S!Active
  <2> HIDE DEF q
  <2> QED BY <1>5, <2>3, <2>4, <2>5
<1> HIDE DEF q
<1>7. shown' = S!Vitals(q)
  BY <1>2, <1>4, <1>5
<1>8. S!Vitals(S!SetBlocking(q, FALSE)) = S!Vitals(q) /\ S!Active(S!SetBlocking(q, FALSE)) = S!Active(q)
  BY <1>6 DEF Sound, S!Players, S!SetBlocking, S!Vitals, S!Active
<1>9. S!Vitals(player') = S!Vitals(q) /\ S!Active(player') = S!Active(q)
  BY <1>2, <1>8
<1>10. shownEffects' = S!Active(player')
  BY <1>2, <1>3, <1>5, <1>6, <1>9 DEF S!ClientMirrors
<1> QED BY <1>7, <1>9, <1>10 DEF S!ClientMirrors, S!Active, S!Vitals

\* A handler that reports nothing to the client has changed nothing it shows, or promises to.
LEMMA QuietMirrors ==
  ASSUME S!ClientMirrors, Promises(player', player), player'.effects = player.effects,
         UNCHANGED <<shown, shownEffects>>
  PROVE  S!ClientMirrors'
  BY DEF S!ClientMirrors, Promises, S!Active, S!Vitals

LEMMA HandlerMirrors ==
  ASSUME S!SurvivalConstants, BodyInv, S!ClientMirrors
  PROVE  /\ S!Move => S!ClientMirrors'
         /\ S!Attack => S!ClientMirrors'
         /\ S!UseFood => S!ClientMirrors'
         /\ S!UseShield => S!ClientMirrors'
         /\ S!ReleaseUse => S!ClientMirrors'
         /\ S!EffectGive => S!ClientMirrors'
         /\ S!EffectClear => S!ClientMirrors'
         /\ S!SetMode => S!ClientMirrors'
         /\ S!Abilities => S!ClientMirrors'
         /\ S!SetDifficulty => S!ClientMirrors'
<1>0. Sound(player)
  BY DEF BodyInv
<1>a. ASSUME NEW b \in BOOLEAN
      PROVE  Promises(S!SetBlocking(player, b), player)
             /\ S!SetBlocking(player, b).effects = player.effects
  BY <1>0 DEF Sound, S!Players, S!SetBlocking, Promises, S!Vitals
<1>1. ASSUME S!Move PROVE S!ClientMirrors'
  <2>1. PICK effort \in 0..1, fall \in 0..FullHealth :
          player' = S!Damage(S!Exhaust(player, effort), fall, TRUE, FALSE)
    BY <1>1 DEF S!Move
  <2>2. effort \in Nat /\ fall \in Nat
    BY DEF S!SurvivalConstants
  <2> DEFINE p == S!Exhaust(player, effort)
  <2>3. Sound(p) /\ Promises(p, player) /\ p.effects = player.effects
    BY <1>0, <2>2, ExhaustSound, ExhaustPromises DEF Follows
  <2> HIDE DEF p
  <2>4. Promises(player', p) /\ player'.effects = p.effects
    BY <2>1, <2>2, <2>3, DamagePromises DEF p
  <2> QED BY <1>1, <2>3, <2>4, PromisesTwice, QuietMirrors DEF S!Move
<1>2. ASSUME S!Attack PROVE S!ClientMirrors'
  BY <1>0, <1>2, ExhaustPromises, QuietMirrors DEF S!Attack
<1>3. ASSUME S!UseFood PROVE S!ClientMirrors'
  <2>1. PICK nutrition \in 1..2, saturation \in 0..2 :
          LET p == S!Eat(player, nutrition, saturation)
          IN  player' = S!Clean(p) /\ shown' = S!Vitals(p)
    BY <1>3 DEF S!UseFood
  <2> DEFINE p == S!Eat(player, nutrition, saturation)
  <2>2. Sound(p)
    BY <1>0, EatSound DEF Follows
  <2>3. p.effects = player.effects
    BY <1>0 DEF Sound, S!Players, S!Eat
  <2> HIDE DEF p
  <2>4. player' = S!Clean(p) /\ shown' = S!Vitals(p) /\ shownEffects' = shownEffects
    BY <1>3, <2>1 DEF p, S!UseFood
  <2>5. S!Vitals(player') = S!Vitals(p) /\ S!Active(player') = S!Active(p)
    BY <2>2, <2>4, CleanSame
  <2>6. S!Active(p) = S!Active(player)
    BY <2>3 DEF S!Active
  <2> QED BY <2>4, <2>5, <2>6 DEF S!ClientMirrors, S!Active, S!Vitals
<1>4. ASSUME S!UseShield PROVE S!ClientMirrors'
  BY <1>4, <1>a, QuietMirrors DEF S!UseShield
<1>5. ASSUME S!ReleaseUse PROVE S!ClientMirrors'
  BY <1>5, <1>a, QuietMirrors DEF S!ReleaseUse
<1>6. ASSUME S!EffectGive PROVE S!ClientMirrors'
  <2>1. PICK e \in Effects, level \in 1..2 :
          player' = S!Apply(player, e, level) /\ shownEffects' = shownEffects \cup {e}
    BY <1>6 DEF S!EffectGive
  <2>2. Promises(player', player) /\ S!Active(player') = S!Active(player) \cup {e}
    BY <1>0, <2>1 DEF Sound, S!Players, S!Apply, Promises, S!Vitals, S!Active
  <2>3. shown' = shown
    BY <1>6 DEF S!EffectGive
  <2> QED BY <2>1, <2>2, <2>3 DEF S!ClientMirrors, Promises, S!Active, S!Vitals
<1>7. ASSUME S!EffectClear PROVE S!ClientMirrors'
  <2>1. PICK es \in {S!Active(player)} \cup {{e} \cap S!Active(player) : e \in Effects} :
          player' = S!Lift(player, es) /\ shownEffects' = shownEffects \ es
    BY <1>7 DEF S!EffectClear
  <2>2. es \in SUBSET Effects
    BY <2>1 DEF S!Active
  <2>3. Promises(player', player) /\ S!Active(player') = S!Active(player) \ es
    BY <1>0, <2>1, <2>2, LiftPromises
  <2>4. shown' = shown
    BY <1>7 DEF S!EffectClear
  <2> QED BY <2>1, <2>3, <2>4 DEF S!ClientMirrors, Promises, S!Active, S!Vitals
<1>8. ASSUME S!SetMode PROVE S!ClientMirrors'
  <2> DEFINE p == [player EXCEPT !.flying = mode' = "spectator"]
  <2>1. Promises(p, player) /\ p.effects = player.effects /\ Sound(p)
    BY <1>0 DEF Sound, S!Players, Promises, S!Vitals
  <2> HIDE DEF p
  <2>2. Promises(S!SetBlocking(p, FALSE), p) /\ S!SetBlocking(p, FALSE).effects = p.effects
    BY <2>1 DEF Sound, S!Players, S!SetBlocking, Promises, S!Vitals
  <2>3. player' = S!SetBlocking(p, FALSE) /\ UNCHANGED <<shown, shownEffects>>
    BY <1>8 DEF S!SetMode, p
  <2> QED BY <2>1, <2>2, <2>3, PromisesTwice, QuietMirrors
<1>9. ASSUME S!Abilities PROVE S!ClientMirrors'
  <2>1. PICK requested \in BOOLEAN :
          player' = [player EXCEPT !.flying =
                       mode = "spectator" \/ (mode = "creative" /\ requested)]
    BY <1>9 DEF S!Abilities
  <2>2. Promises(player', player) /\ player'.effects = player.effects
    BY <1>0, <2>1 DEF Sound, S!Players, Promises, S!Vitals
  <2> QED BY <1>9, <2>2, QuietMirrors DEF S!Abilities
<1>10. ASSUME S!SetDifficulty PROVE S!ClientMirrors'
  BY <1>10 DEF S!SetDifficulty, S!ClientMirrors, S!Active, S!Vitals
<1> QED BY <1>1, <1>2, <1>3, <1>4, <1>5, <1>6, <1>7, <1>8, <1>9, <1>10

LEMMA KillMirrors ==
  ASSUME S!SurvivalConstants, BodyInv, S!ClientMirrors, S!Kill
  PROVE  S!ClientMirrors'
<1> DEFINE p == S!Damage(player, player.health + player.absorption, TRUE, FALSE)
<1>1. player.health + player.absorption \in Nat
  BY DEF BodyInv, Sound, S!Players, S!SurvivalConstants
<1>2. Sound(p) /\ Promises(p, player) /\ p.effects = player.effects
  BY <1>1, DamageSound, DamagePromises DEF Follows, BodyInv
<1>3. player' = S!Clean(p) /\ shown' = S!Told(p) /\ shownEffects' = shownEffects
  BY DEF S!Kill
<1> HIDE DEF p
<1>4. S!Told(p) = S!Vitals(p)
  BY <1>2 DEF S!Told, Promises, S!ClientMirrors
<1>5. S!Vitals(player') = S!Vitals(p) /\ S!Active(player') = S!Active(p)
  BY <1>2, <1>3, CleanSame
<1>6. S!Active(p) = S!Active(player)
  BY <1>2 DEF S!Active
<1> QED BY <1>3, <1>4, <1>5, <1>6 DEF S!ClientMirrors, S!Active, S!Vitals

LEMMA BornMirrors ==
  ASSUME S!SurvivalConstants, NEW p, p.effects = S!Fresh.effects
  PROVE  S!Active(p) = {}
  BY DEF S!Active, S!Fresh

LEMMA RespawnMirrors ==
  ASSUME S!SurvivalConstants, S!Respawn
  PROVE  S!ClientMirrors'
<1>1. PICK flies \in BOOLEAN : player' = [S!Fresh EXCEPT !.flying = flies]
  BY DEF S!Respawn
<1>2. S!Vitals(player') = S!Vitals(S!Fresh) /\ player'.effects = S!Fresh.effects
  BY <1>1 DEF S!Fresh, S!Vitals
<1>3. shown' = S!Vitals(S!Fresh) /\ shownEffects' = {}
  BY DEF S!Respawn
<1>4. S!Active(player') = {}
  BY <1>2, BornMirrors
<1> QED BY <1>2, <1>3, <1>4 DEF S!ClientMirrors, S!Active, S!Vitals

LEMMA BodyNext ==
  ASSUME S!SurvivalConstants, BodyInv, S!ClientMirrors, [S!Next]_(S!vars)
  PROVE  S!ClientMirrors'
<1>1. CASE S!Next
  BY <1>1, TickMirrors, HandlerMirrors, KillMirrors, RespawnMirrors DEF S!Next
<1>2. CASE UNCHANGED S!vars
  BY <1>2 DEF S!vars, S!ClientMirrors, S!Active, S!Vitals
<1> QED BY <1>1, <1>2

LEMMA BodyAlways == S!Spec => []S!ClientMirrors
<1>1. S!Init => S!ClientMirrors
  BY DEF S!Init, S!ClientMirrors, S!Active, S!Fresh
<1>2. BodyInv /\ S!ClientMirrors /\ [S!Next]_(S!vars) => S!ClientMirrors'
  BY BodyAssumption, BodyNext
<1>3. S!Spec => []BodyInv
  BY BodyInvariant
<1> QED BY <1>1, <1>2, <1>3, PTL DEF S!Spec

(***************************************************************************)
(* The play protocol.  PlayInv relates the messages in flight to both ends *)
(* of the streams; Serves and Hears summarise the steps of the server and  *)
(* of the client, and each part of PlayInv is kept by both.                *)
(***************************************************************************)

\* Every chunk of some window.
Chunks == UNION {Window[p] : p \in Places}

\* Messages to the client, and to the server.
Downward ==
  [kind : {"teleport"}, id : Nat, place : Places] \cup [kind : {"keep_alive"}, id : Nat]
    \cup [kind : {"batch"}, drop : SUBSET Chunks, add : SUBSET Chunks]
    \cup [kind : {"died", "respawned"}]
Upward ==
  [kind : {"accept_teleportation", "keep_alive"}, id : Nat]
    \cup [kind : {"move_player_pos", "tp"}, place : Places]
    \cup [kind : {"kill", "perform_respawn"}]

\* The types: the window streamed is that of the last place streamed, and the teleport
\* that is pending is the last one.
PlayTypes ==
  /\ position \in Places /\ center = position /\ streamed \in Places /\ chunks = Window[streamed]
  /\ nextId \in Nat \ {0} /\ pending \in {0, nextId} /\ confirmed \in BOOLEAN /\ playDead \in BOOLEAN
  /\ keepSent \in Nat /\ keepPending \in 0..keepSent /\ keepAge \in Nat
  /\ client \in [place : Places, chunks : SUBSET Chunks, dead : BOOLEAN]
  /\ toClient \in Seq(Downward) /\ toServer \in Seq(Upward)

\* Teleports are numbered in the order they are sent, and acknowledged in that order.
Numbered ==
  /\ \A i \in 1..Len(toClient) : toClient[i].kind = "teleport" => toClient[i].id \in 1..nextId
  /\ \A i \in 1..Len(toServer) :
       toServer[i].kind = "accept_teleportation" => toServer[i].id \in 1..nextId
  /\ \A i, j \in 1..Len(toClient) :
       i < j /\ toClient[i].kind = "teleport" /\ toClient[j].kind = "teleport" =>
         toClient[i].id < toClient[j].id
  /\ \A i, j \in 1..Len(toServer) :
       i < j /\ toServer[i].kind = "accept_teleportation" /\ toServer[j].kind = "accept_teleportation" =>
         toServer[i].id < toServer[j].id
  /\ \A i \in 1..Len(toServer), j \in 1..Len(toClient) :
       toServer[i].kind = "accept_teleportation" /\ toClient[j].kind = "teleport" =>
         toServer[i].id < toClient[j].id
  /\ confirmed => No(toClient, "teleport") /\ No(toServer, "accept_teleportation")

\* The last place reported is where the client is.
Placed ==
  /\ \A i \in 1..Len(toServer) : toServer[i].kind = "accept_teleportation" =>
       i < Len(toServer) /\ toServer[i + 1].kind = "move_player_pos"
  /\ \A i \in 1..Len(toServer) :
       toServer[i].kind = "move_player_pos" =>
         \/ toServer[i].place = client.place
         \/ \E j \in i + 1..Len(toServer) : toServer[j].kind = "move_player_pos"
  /\ confirmed /\ ~playDead /\ No(toServer, "move_player_pos") => position = client.place
  /\ confirmed => streamed = position

\* A batch that loads or drops a chunk.
Mentions(m, c) == m.kind = "batch" /\ c \in m.drop \cup m.add

\* The last batch on its way that mentions a chunk says whether it is loaded.
Windowed ==
  \A c \in Chunks :
    /\ (\A i \in 1..Len(toClient) : ~Mentions(toClient[i], c)) => (c \in client.chunks <=> c \in chunks)
    /\ \A i \in 1..Len(toClient) :
         Mentions(toClient[i], c) =>
           \/ c \in toClient[i].add <=> c \in chunks
           \/ \E j \in i + 1..Len(toClient) : Mentions(toClient[j], c)

\* One keep-alive is on its way when one is pending, and it is that one.
Kept ==
  /\ Once(toClient, "keep_alive") /\ Once(toServer, "keep_alive")
  /\ No(toClient, "keep_alive") \/ No(toServer, "keep_alive")
  /\ \A i \in 1..Len(toClient) : toClient[i].kind = "keep_alive" => toClient[i].id = keepPending
  /\ \A i \in 1..Len(toServer) : toServer[i].kind = "keep_alive" => toServer[i].id = keepPending
  /\ keepPending # 0 => ~No(toClient, "keep_alive") \/ ~No(toServer, "keep_alive")
  /\ end \notin {"keep-alive mismatch", "keep-alive timed out"}

\* The inductive invariant of the play protocol.
PlayInv == PlayTypes /\ Numbered /\ Placed /\ Windowed /\ Kept

---------------------------------------------------------------------------
\* The head of the stream to the server has been taken, or nothing.
Receives(kind) ==
  /\ toServer # <<>> /\ toServer[1].kind = kind
  /\ toServer' \in Seq(Upward) /\ Len(toServer') = Len(toServer) - 1 /\ Len(toServer) \in Nat \ {0}
  /\ \A i \in 1..Len(toServer') : toServer'[i] = toServer[i + 1]

Packets == {"accept_teleportation", "move_player_pos", "tp", "kill", "perform_respawn", "keep_alive"}

\* The server has sent n messages.
Delivers(n) == toClient' \in Seq(Downward) /\ Grows(toClient, toClient', n)
Delivered(i) == Following(toClient, toClient', i)

Waits == toServer' = toServer
\* A step of the server reads one packet, or none.
Handles == Waits \/ \E kind \in Packets : Receives(kind)

\* What the server keeps of its types.
ServesTypes ==
  /\ position' \in Places /\ center' = position' /\ streamed' \in Places /\ chunks' = Window[streamed']
  /\ nextId' \in Nat \ {0} /\ pending' \in {0, nextId'} /\ confirmed' \in BOOLEAN /\ playDead' \in BOOLEAN
  /\ keepSent' \in Nat /\ keepPending' \in 0..keepSent' /\ keepAge' \in Nat
  /\ client' = client

\* Its effect on each part of the invariant, with n messages sent.
ServesTeleports(n) ==
  /\ nextId' = nextId \/ nextId' = nextId + 1
  /\ \A i \in 1..n : Delivered(i).kind = "teleport" => i = n /\ nextId' = nextId + 1 /\ Delivered(i).id = nextId'
  /\ confirmed' => /\ confirmed \/ (Receives("accept_teleportation") /\ toServer[1].id = nextId)
                   /\ \A i \in 1..n : Delivered(i).kind # "teleport"

ServesPlace ==
  /\ confirmed' => streamed' = position'
  /\ confirmed' /\ ~playDead' =>
       \/ Receives("move_player_pos") /\ position' = toServer[1].place
       \/ Receives("accept_teleportation")
       \/ /\ confirmed /\ ~playDead /\ position' = position
          /\ Waits \/ \E kind \in Packets \ {"move_player_pos"} : Receives(kind)

ServesWindow(n) ==
  \/ chunks' = chunks /\ \A i \in 1..n : Delivered(i).kind # "batch"
  \/ \E b \in 1..n :
       /\ Delivered(b).kind = "batch"
       /\ Delivered(b).drop = chunks \ chunks' /\ Delivered(b).add = chunks' \ chunks
       /\ \A i \in 1..n : Delivered(i).kind = "batch" => i = b

ServesKeepAlive(n) ==
  /\ end' \notin {"keep-alive mismatch", "keep-alive timed out"}
  /\ \/ /\ keepPending' = keepPending /\ \A i \in 1..n : Delivered(i).kind # "keep_alive"
        /\ Waits \/ \E kind \in Packets \ {"keep_alive"} : Receives(kind)
     \/ Receives("keep_alive") /\ keepPending' = 0 /\ n = 0
     \/ /\ toClient = <<>> /\ toServer = <<>> /\ Waits /\ n = 1
        /\ Delivered(1).kind = "keep_alive" /\ Delivered(1).id = keepPending' /\ keepPending' # 0

\* A step of the server.
Serves(n) ==
  /\ Handles /\ Delivers(n) /\ ServesTypes
  /\ ServesTeleports(n) /\ ServesPlace /\ ServesWindow(n) /\ ServesKeepAlive(n)

---------------------------------------------------------------------------
\* The types of the messages.
LEMMA WindowsTyped ==
  ASSUME NEW p \in Places
  PROVE  Window[p] \in SUBSET Chunks
  BY DEF Chunks

LEMMA DownwardTyped ==
  /\ \A id \in Nat, p \in Places : P!Teleport(id, p) \in Downward
  /\ \A id \in Nat : P!KeepAlive(id) \in Downward
  /\ \A drop, add \in SUBSET Chunks : P!Batch(drop, add) \in Downward
  /\ P!Died \in Downward /\ P!Respawned \in Downward
  <1>1. \A id \in Nat, p \in Places : P!Teleport(id, p) \in Downward
    BY DEF P!Teleport, Downward
  <1>2. \A id \in Nat : P!KeepAlive(id) \in Downward
    BY DEF P!KeepAlive, Downward
  <1>3. \A drop, add \in SUBSET Chunks : P!Batch(drop, add) \in Downward
    BY DEF P!Batch, Downward
  <1>4. P!Died \in Downward /\ P!Respawned \in Downward
    BY DEF P!Died, P!Respawned, Downward
  <1> QED BY <1>1, <1>2, <1>3, <1>4

LEMMA UpwardTyped ==
  /\ \A id \in Nat : P!Accept(id) \in Upward
  /\ \A id \in Nat : [kind |-> "keep_alive", id |-> id] \in Upward
  /\ \A p \in Places : P!Move(p) \in Upward
  /\ \A p \in Places : P!TpCommand(p) \in Upward
  /\ P!KillCommand \in Upward /\ P!Respawn \in Upward
  <1>1. \A id \in Nat : P!Accept(id) \in Upward
    BY DEF P!Accept, Upward
  <1>2. \A id \in Nat : [kind |-> "keep_alive", id |-> id] \in Upward
    BY DEF Upward
  <1>3. \A p \in Places : P!Move(p) \in Upward
    BY DEF P!Move, Upward
  <1>4. \A p \in Places : P!TpCommand(p) \in Upward
    BY DEF P!TpCommand, Upward
  <1>5. P!KillCommand \in Upward /\ P!Respawn \in Upward
    BY DEF P!KillCommand, P!Respawn, Upward
  <1> QED BY <1>1, <1>2, <1>3, <1>4, <1>5

LEMMA DownwardParts ==
  ASSUME NEW m \in Downward
  PROVE  /\ m.kind = "teleport" => m.id \in Nat /\ m.place \in Places
         /\ m.kind = "keep_alive" => m.id \in Nat
         /\ m.kind = "batch" => m.drop \in SUBSET Chunks /\ m.add \in SUBSET Chunks
         /\ m.kind \in {"teleport", "keep_alive", "batch", "died", "respawned"}
  BY DEF Downward

LEMMA UpwardParts ==
  ASSUME NEW m \in Upward
  PROVE  /\ m.kind \in {"accept_teleportation", "keep_alive"} => m.id \in Nat
         /\ m.kind \in {"move_player_pos", "tp"} => m.place \in Places
         /\ m.kind \in Packets
  BY DEF Upward, Packets

\* What Receive takes.
LEMMA ReceiveTakes ==
  ASSUME PlayTypes, NEW kind, P!Receive(kind)
  PROVE  Receives(kind) /\ toServer[1] = Head(toServer) /\ toServer[1] \in Upward /\ end = "running"
  BY Rest DEF PlayTypes, P!Receive, Receives

---------------------------------------------------------------------------
\* No message sent, one, two or three.
LEMMA DeliversNone ==
  ASSUME PlayTypes, toClient' = toClient
  PROVE  Delivers(0)
  BY DEF PlayTypes, Delivers, Grows

LEMMA DeliversOne ==
  ASSUME PlayTypes, NEW m \in Downward, toClient' = Append(toClient, m) \/ toClient' = toClient \o <<m>>
  PROVE  Delivers(1) /\ Delivered(1) = m
  <1>1. toClient \in Seq(Downward)
    BY DEF PlayTypes
  <1>2. CASE toClient' = Append(toClient, m)
    BY <1>1, <1>2, Appended DEF Delivers, Delivered
  <1>3. CASE toClient' = toClient \o <<m>>
    BY <1>1, <1>3, WrittenOne DEF Delivers, Delivered
  <1> QED BY <1>2, <1>3

\* One message more.
LEMMA Longer ==
  ASSUME NEW Q, NEW q \in Seq(Q), NEW r \in Seq(Q), NEW n \in Nat, Grows(q, r, n), NEW a \in Q
  PROVE  /\ r \o <<a>> \in Seq(Q) /\ Grows(q, r \o <<a>>, n + 1)
         /\ Following(q, r \o <<a>>, n + 1) = a
         /\ \A i \in 1..n : Following(q, r \o <<a>>, i) = Following(q, r, i)
  BY DEF Grows, Following

LEMMA NoneYet == \A i \in 1..0 : FALSE
  OBVIOUS

LEMMA JoinsNone ==
  ASSUME NEW Q, NEW q \in Seq(Q)
  PROVE  q \o <<>> = q
  BY ConcatEmptySeq

\* Two messages.
LEMMA JoinsTwo ==
  ASSUME PlayTypes, NEW a \in Downward, NEW b \in Downward, toClient' = (toClient \o <<a>>) \o <<b>>
  PROVE  Delivers(2) /\ Delivered(1) = a /\ Delivered(2) = b
  <1> DEFINE q == toClient
             r == q \o <<a>>
             t == r \o <<b>>
  <1>1. r \in Seq(Downward) /\ Grows(q, r, 1) /\ Following(q, r, 1) = a /\ q \in Seq(Downward) /\ toClient' = t
    BY WrittenOne DEF PlayTypes
  <1> HIDE DEF r
  <1>2. t \in Seq(Downward) /\ Len(t) = Len(r) + 1 /\ t[Len(r) + 1] = b /\ \A i \in 1..Len(r) : t[i] = r[i]
    BY <1>1
  <1> HIDE DEF t
  <1>3. Grows(q, t, 2) /\ Following(q, t, 1) = a /\ Following(q, t, 2) = b
    <2> DEFINE l == Len(q)
    <2>1. l \in Nat /\ Len(r) = l + 1 /\ r[l + 1] = a /\ \A i \in 1..l : r[i] = q[i]
      <3>1. l \in Nat
        BY <1>1
      <3>2. Len(r) = l + 1 /\ \A i \in 1..l : r[i] = q[i]
        BY <1>1 DEF Grows
      <3>3. r[l + 1] = a
        BY <1>1 DEF Following
      <3> QED BY <3>1, <3>2, <3>3
    <2> HIDE DEF l
    <2>2. (l + 1) + 1 = l + 2 /\ l + 1 \in 1..l + 1 /\ \A i \in 1..l : i \in 1..l + 1
      BY <2>1
    <2>3. Len(t) = l + 2 /\ t[l + 2] = b /\ t[l + 1] = a /\ \A i \in 1..l : t[i] = q[i]
      BY <1>2, <2>1, <2>2
    <2> QED BY <2>3 DEF Grows, Following, l
  <1> QED BY <1>1, <1>2, <1>3 DEF Delivers, Delivered

LEMMA JoinsThree ==
  ASSUME PlayTypes, NEW a \in Downward, NEW b \in Downward, NEW c \in Downward,
         toClient' = ((toClient \o <<a>>) \o <<b>>) \o <<c>>
  PROVE  Delivers(3) /\ Delivered(1) = a /\ Delivered(2) = b /\ Delivered(3) = c
  <1> DEFINE q == toClient
             r == q \o <<a>>
             s == r \o <<b>>
  <1>1. r \in Seq(Downward) /\ Grows(q, r, 1) /\ Following(q, r, 1) = a /\ q \in Seq(Downward)
    BY WrittenOne DEF PlayTypes
  <1>2. s \in Seq(Downward) /\ Grows(q, s, 2) /\ Following(q, s, 1) = a /\ Following(q, s, 2) = b
    <2> HIDE DEF r
    <2>1. s \in Seq(Downward) /\ Len(s) = Len(r) + 1 /\ s[Len(r) + 1] = b /\ \A i \in 1..Len(r) : s[i] = r[i]
      BY <1>1
    <2> HIDE DEF s
    <2> DEFINE l == Len(q)
    <2>2. l \in Nat /\ Len(r) = l + 1 /\ r[l + 1] = a /\ \A i \in 1..l : r[i] = q[i]
      <3>1. l \in Nat
        BY <1>1
      <3>2. Len(r) = l + 1 /\ \A i \in 1..l : r[i] = q[i]
        BY <1>1 DEF Grows
      <3>3. r[l + 1] = a
        BY <1>1 DEF Following
      <3> QED BY <3>1, <3>2, <3>3
    <2> HIDE DEF l
    <2>3. (l + 1) + 1 = l + 2 /\ l + 1 \in 1..l + 1 /\ \A i \in 1..l : i \in 1..l + 1
      BY <2>2
    <2>4. Len(s) = l + 2 /\ s[l + 2] = b /\ s[l + 1] = a /\ \A i \in 1..l : s[i] = q[i]
      BY <2>1, <2>2, <2>3
    <2> QED BY <2>1, <2>4 DEF Grows, Following, l
  <1> HIDE DEF s
  <1>3. /\ s \o <<c>> \in Seq(Downward) /\ Grows(q, s \o <<c>>, 2 + 1)
        /\ Following(q, s \o <<c>>, 2 + 1) = c
        /\ \A i \in 1..2 : Following(q, s \o <<c>>, i) = Following(q, s, i)
    BY <1>1, <1>2, Longer
  <1>4. 2 + 1 = 3 /\ 1 \in 1..2 /\ 2 \in 1..2
    OBVIOUS
  <1>5. toClient' = s \o <<c>>
    BY DEF s
  <1> QED BY <1>2, <1>3, <1>4, <1>5 DEF Delivers, Delivered

LEMMA KeepsKept ==
  ASSUME Kept, end' = end, keepPending' = keepPending,
         NEW n \in 0..3, \A i \in 1..n : Delivered(i).kind # "keep_alive",
         NEW kind \in Packets \ {"keep_alive"}, Receives(kind)
  PROVE  ServesKeepAlive(n)
  <1>1. end' \notin {"keep-alive mismatch", "keep-alive timed out"}
    BY DEF Kept
  <1> QED BY <1>1 DEF ServesKeepAlive

\* What the server keeps, apart from the streams and the end.
Untouched ==
  UNCHANGED <<position, center, streamed, chunks, nextId, confirmed, playDead, pending,
              keepSent, keepPending, keepAge, client>>

\* A step of the server that says nothing and leaves its keep-alives alone.
LEMMA ServesQuietly ==
  ASSUME PlayTypes, Placed, Kept, NEW kind \in Packets \ {"keep_alive"}, Receives(kind),
         Untouched, toClient' = toClient,
         end' \notin {"keep-alive mismatch", "keep-alive timed out"},
         ~playDead => kind # "move_player_pos"
  PROVE  Serves(0)
  <1>1. Delivers(0)
    BY DeliversNone
  <1>2. ServesTypes
    BY DEF Untouched, PlayTypes, ServesTypes
  <1>3. ServesTeleports(0) /\ ServesWindow(0)
    BY NoneYet DEF Untouched, ServesTeleports, ServesWindow
  <1>4. ServesPlace
    BY DEF Untouched, ServesPlace, Placed
  <1>5. ServesKeepAlive(0)
    <2>1. \A i \in 1..0 : Delivered(i).kind # "keep_alive"
      BY NoneYet
    <2>2. keepPending' = keepPending
      BY DEF Untouched
    <2> QED BY <2>1, <2>2 DEF ServesKeepAlive
  <1> QED BY <1>1, <1>2, <1>3, <1>4, <1>5 DEF Serves, Handles

\* One lemma per handler.
LEMMA DropStep ==
  ASSUME PlayTypes, Placed, Kept, P!DropFromDead
  PROVE  Serves(0)
  <1>1. PICK kind \in {"accept_teleportation", "move_player_pos", "tp", "kill"} : P!Receive(kind)
    BY DEF P!DropFromDead
  <1>2. Receives(kind) /\ playDead
    BY <1>1, ReceiveTakes DEF P!DropFromDead
  <1>3. Untouched /\ toClient' = toClient /\ end' = end
    BY DEF Untouched, P!DropFromDead, P!where, P!teleports, P!keepAlive
  <1> QED BY <1>2, <1>3, ServesQuietly DEF Packets, Kept

\* The batch that stream_chunk_window sends.
LEMMA StreamingOne ==
  ASSUME PlayTypes, NEW p \in Places
  PROVE  /\ P!Streaming(p) = <<P!Batch(chunks \ Window[p], Window[p] \ chunks)>>
         /\ P!Batch(chunks \ Window[p], Window[p] \ chunks) \in Downward
         /\ P!Batch(chunks \ Window[p], Window[p] \ chunks).kind = "batch"
         /\ P!Batch(chunks \ Window[p], Window[p] \ chunks).drop = chunks \ Window[p]
         /\ P!Batch(chunks \ Window[p], Window[p] \ chunks).add = Window[p] \ chunks
  <1>1. chunks \in SUBSET Chunks /\ Window[p] \in SUBSET Chunks
    BY WindowsTyped DEF PlayTypes
  <1>2. chunks \ Window[p] \in SUBSET Chunks /\ Window[p] \ chunks \in SUBSET Chunks
    BY <1>1
  <1> QED BY <1>2, DownwardTyped DEF P!Streaming, P!Batch

LEMMA AcceptStep ==
  ASSUME PlayTypes, Numbered, Placed, Kept, P!HandleAccept
  PROVE  \E n \in 0..1 : Serves(n)
  <1>1. Receives("accept_teleportation") /\ toServer[1] = Head(toServer) /\ ~playDead
    BY ReceiveTakes DEF P!HandleAccept
  <1>2. CASE Head(toServer).id # pending
    <2>1. Untouched /\ toClient' = toClient /\ end' = "acknowledgement mismatch"
      BY <1>2 DEF Untouched, P!HandleAccept, P!End, P!where, P!teleports, P!keepAlive
    <2>2. "accept_teleportation" \in Packets \ {"keep_alive"}
      BY DEF Packets
    <2>3. Serves(0)
      BY <1>1, <2>1, <2>2, ServesQuietly
    <2> QED BY <2>3
  <1>3. CASE Head(toServer).id = pending
    <2>1. /\ pending' = 0 /\ confirmed' = TRUE
          /\ UNCHANGED <<position, center, nextId, playDead, keepSent, keepPending, keepAge, end, client>>
      BY <1>3 DEF P!HandleAccept, P!keepAlive
    <2>2. toServer[1].id = nextId
      <3>1. toServer[1].id \in 1..nextId
        BY <1>1 DEF Numbered, Receives
      <3> QED BY <1>1, <1>3, <3>1 DEF PlayTypes
    <2>3. CASE center # streamed
      <3>1. /\ streamed' = center /\ chunks' = Window[center] /\ toClient' = toClient \o P!Streaming(center)
        BY <1>3, <2>3 DEF P!HandleAccept, P!Stream
      <3>2. center \in Places /\ center = position
        BY DEF PlayTypes
      <3>3. /\ Delivers(1) /\ Delivered(1).kind = "batch"
            /\ Delivered(1).drop = chunks \ chunks' /\ Delivered(1).add = chunks' \ chunks
        BY <3>1, <3>2, StreamingOne, DeliversOne
      <3>4. ServesTypes
        BY <2>1, <3>1, <3>2 DEF PlayTypes, ServesTypes
      <3>5. ServesTeleports(1) /\ ServesPlace
        BY <1>1, <2>1, <2>2, <3>1, <3>2, <3>3 DEF ServesTeleports, ServesPlace
      <3>6. ServesWindow(1)
        BY <3>3 DEF ServesWindow
      <3>7. ServesKeepAlive(1)
        BY <1>1, <2>1, <3>3, KeepsKept DEF Packets
      <3> QED BY <1>1, <3>3, <3>4, <3>5, <3>6, <3>7 DEF Serves, Handles, Packets
    <2>4. CASE center = streamed
      <3>1. UNCHANGED <<streamed, chunks, toClient>>
        BY <1>3, <2>4 DEF P!HandleAccept
      <3>2. Delivers(0)
        BY <3>1, DeliversNone
      <3>4. ServesTypes
        BY <2>1, <3>1 DEF PlayTypes, ServesTypes
      <3>5. ServesTeleports(0) /\ ServesPlace
        BY <1>1, <2>1, <2>2, <2>4, <3>1 DEF ServesTeleports, ServesPlace, PlayTypes
      <3>6. ServesWindow(0)
        BY <3>1 DEF ServesWindow
      <3>7. ServesKeepAlive(0)
        BY <1>1, <2>1, KeepsKept DEF Packets
      <3> QED BY <1>1, <3>2, <3>4, <3>5, <3>6, <3>7 DEF Serves, Handles, Packets
    <2> QED BY <2>3, <2>4
  <1> QED BY <1>2, <1>3

LEMMA MoveStep ==
  ASSUME PlayTypes, Numbered, Placed, Kept, P!HandleMove
  PROVE  \E n \in 0..1 : Serves(n)
  <1> DEFINE p == Head(toServer).place
  <1>1. /\ Receives("move_player_pos") /\ toServer[1] = Head(toServer) /\ ~playDead /\ toServer[1] \in Upward
        /\ UNCHANGED <<playDead, keepSent, keepPending, keepAge, end, client>>
    BY ReceiveTakes DEF P!HandleMove, P!keepAlive
  <1>2. p \in Places
    BY <1>1, UpwardParts DEF Receives
  <1>3. CASE <<position, p>> \notin Near
    <2>1. /\ nextId' = nextId + 1 /\ pending' = nextId + 1 /\ confirmed' = FALSE
          /\ toClient' = Append(toClient, P!Teleport(nextId + 1, position))
          /\ UNCHANGED <<position, center, streamed, chunks>>
      BY <1>3 DEF P!HandleMove, P!SendTeleport, P!where
    <2>2. nextId + 1 \in Nat \ {0} /\ nextId + 1 \in Nat /\ position \in Places
      BY DEF PlayTypes
    <2>3. Delivers(1) /\ Delivered(1).kind = "teleport" /\ Delivered(1).id = nextId + 1
      <3>1. P!Teleport(nextId + 1, position) \in Downward
        BY <2>2, DownwardTyped
      <3>2. Delivers(1) /\ Delivered(1) = P!Teleport(nextId + 1, position)
        BY <2>1, <3>1, DeliversOne
      <3> QED BY <3>2 DEF P!Teleport
    <2>4. ServesTypes
      BY <1>1, <2>1, <2>2 DEF PlayTypes, ServesTypes
    <2>5. ServesTeleports(1) /\ ServesPlace /\ ServesWindow(1)
      BY <2>1, <2>3 DEF ServesTeleports, ServesPlace, ServesWindow
    <2>6. ServesKeepAlive(1)
      BY <1>1, <2>3, KeepsKept DEF Packets
    <2> QED BY <1>1, <2>3, <2>4, <2>5, <2>6 DEF Serves, Handles, Packets
  <1>4. CASE <<position, p>> \in Near /\ confirmed /\ p # streamed
    <2>1. /\ position' = p /\ center' = p /\ streamed' = p /\ chunks' = Window[p]
          /\ toClient' = toClient \o P!Streaming(p) /\ UNCHANGED <<nextId, pending, confirmed>>
      BY <1>4 DEF P!HandleMove, P!Stream, P!teleports
    <2>2. /\ Delivers(1) /\ Delivered(1).kind = "batch"
          /\ Delivered(1).drop = chunks \ chunks' /\ Delivered(1).add = chunks' \ chunks
      BY <1>2, <2>1, StreamingOne, DeliversOne
    <2>3. ServesTypes
      BY <1>1, <1>2, <2>1 DEF PlayTypes, ServesTypes
    <2>4. ServesTeleports(1) /\ ServesPlace /\ ServesWindow(1)
      BY <1>1, <1>4, <2>1, <2>2 DEF ServesTeleports, ServesPlace, ServesWindow
    <2>5. ServesKeepAlive(1)
      BY <1>1, <2>2, KeepsKept DEF Packets
    <2> QED BY <1>1, <2>2, <2>3, <2>4, <2>5 DEF Serves, Handles, Packets
  <1>5. CASE <<position, p>> \in Near /\ ~(confirmed /\ p # streamed)
    <2>1. /\ position' = p /\ center' = p /\ UNCHANGED <<streamed, chunks, toClient, nextId, pending, confirmed>>
      BY <1>5 DEF P!HandleMove, P!teleports
    <2>2. Delivers(0)
      BY <2>1, DeliversNone
    <2>3. ServesTypes
      BY <1>1, <1>2, <2>1 DEF PlayTypes, ServesTypes
    <2>4. ServesTeleports(0) /\ ServesPlace /\ ServesWindow(0)
      BY <1>1, <1>5, <2>1 DEF ServesTeleports, ServesPlace, ServesWindow, PlayTypes
    <2>5. ServesKeepAlive(0)
      BY <1>1, KeepsKept DEF Packets
    <2> QED BY <1>1, <2>2, <2>3, <2>4, <2>5 DEF Serves, Handles, Packets
  <1> QED BY <1>3, <1>4, <1>5

\* The player is put at a place, and told.
LEMMA PlaceServes ==
  ASSUME PlayTypes, Kept, NEW p \in Places, NEW before \in {<<>>, <<P!Respawned>>}, P!Place(p, before),
         NEW kind \in {"tp", "perform_respawn"}, Receives(kind), playDead' \in BOOLEAN,
         UNCHANGED <<keepSent, keepPending, keepAge, end, client>>
  PROVE  \E n \in 1..3 : Serves(n)
  <1> DEFINE batch == P!Batch(chunks \ Window[p], Window[p] \ chunks)
             teleport == P!Teleport(nextId + 1, p)
             moved == IF streamed # p THEN P!Streaming(p) ELSE <<>>
  <1>1. /\ nextId' = nextId + 1 /\ pending' = nextId + 1 /\ confirmed' = FALSE
        /\ position' = p /\ center' = p
        /\ (streamed # p => streamed' = p /\ chunks' = Window[p])
        /\ (streamed = p => UNCHANGED <<streamed, chunks>>)
        /\ toClient' = ((toClient \o before) \o moved) \o <<teleport>>
    BY DEF P!Place, P!SendTeleport, P!Stream
  <1>2. /\ teleport \in Downward /\ teleport.kind = "teleport" /\ teleport.id = nextId + 1
        /\ P!Respawned \in Downward /\ P!Respawned.kind = "respawned"
        /\ toClient \in Seq(Downward) /\ nextId \in Nat \ {0}
    <2>1. nextId + 1 \in Nat
      BY DEF PlayTypes
    <2> QED BY <2>1, DownwardTyped DEF P!Teleport, P!Respawned, PlayTypes
  <1>3. /\ P!Streaming(p) = <<batch>> /\ batch \in Downward /\ batch.kind = "batch"
        /\ batch.drop = chunks \ Window[p] /\ batch.add = Window[p] \ chunks
    BY StreamingOne
  <1>4. ServesTypes
    <2>1. nextId + 1 \in Nat \ {0}
      BY <1>2
    <2> QED BY <1>1, <1>2, <2>1 DEF PlayTypes, ServesTypes
  <1>5. Handles /\ ServesPlace
    BY <1>1 DEF Handles, Packets, ServesPlace
  <1>6. ASSUME NEW n \in 1..3, Delivers(n), Delivered(n).kind = "teleport", Delivered(n).id = nextId + 1,
               \A i \in 1..n : Delivered(i).kind = "teleport" => i = n,
               \A i \in 1..n : Delivered(i).kind # "keep_alive",
               ServesWindow(n)
        PROVE  Serves(n)
    <2>1. ServesTeleports(n)
      BY <1>1, <1>6 DEF ServesTeleports
    <2>2. ServesKeepAlive(n)
      BY <1>6, KeepsKept DEF Packets
    <2> QED BY <1>4, <1>5, <1>6, <2>1, <2>2 DEF Serves
  <1> HIDE DEF batch, teleport
  <1>7. CASE streamed = p /\ before = <<>>
    <2>1. toClient' = toClient \o <<teleport>>
      <3>1. toClient \o <<>> = toClient
        BY <1>2, JoinsNone
      <3>2. before = <<>> /\ moved = <<>>
        BY <1>7
      <3> QED BY <1>1, <3>1, <3>2
    <2>2. Delivers(1) /\ Delivered(1) = teleport
      BY <1>2, <2>1, DeliversOne
    <2>3. ServesWindow(1)
      BY <1>1, <1>2, <1>7, <2>2 DEF ServesWindow
    <2> QED BY <1>2, <1>6, <2>2, <2>3
  <1>8. CASE streamed = p /\ before = <<P!Respawned>>
    <2>1. toClient' = (toClient \o <<P!Respawned>>) \o <<teleport>>
      <3>1. (toClient \o <<P!Respawned>>) \in Seq(Downward)
        BY <1>2, WrittenOne
      <3>2. (toClient \o <<P!Respawned>>) \o <<>> = toClient \o <<P!Respawned>>
        BY <3>1, JoinsNone
      <3> QED BY <1>1, <1>8, <3>2
    <2>2. Delivers(2) /\ Delivered(1) = P!Respawned /\ Delivered(2) = teleport
      BY <1>2, <2>1, JoinsTwo
    <2>3. \A i \in 1..2 : i = 1 \/ i = 2
      OBVIOUS
    <2>4. ServesWindow(2)
      BY <1>1, <1>2, <1>8, <2>2, <2>3 DEF ServesWindow
    <2> QED BY <1>2, <1>6, <2>2, <2>3, <2>4
  <1>9. CASE streamed # p /\ before = <<>>
    <2>1. toClient' = (toClient \o <<batch>>) \o <<teleport>>
      <3>1. toClient \o <<>> = toClient
        BY <1>2, JoinsNone
      <3>2. before = <<>> /\ moved = <<batch>>
        BY <1>3, <1>9
      <3> QED BY <1>1, <3>1, <3>2
    <2>2. Delivers(2) /\ Delivered(1) = batch /\ Delivered(2) = teleport
      BY <1>2, <1>3, <2>1, JoinsTwo
    <2>3. \A i \in 1..2 : i = 1 \/ i = 2
      OBVIOUS
    <2>4. ServesWindow(2)
      <3>1. 1 \in 1..2
        OBVIOUS
      <3> QED BY <1>1, <1>2, <1>3, <1>9, <2>2, <2>3, <3>1 DEF ServesWindow
    <2> QED BY <1>2, <1>3, <1>6, <2>2, <2>3, <2>4
  <1>10. CASE streamed # p /\ before = <<P!Respawned>>
    <2>1. toClient' = ((toClient \o <<P!Respawned>>) \o <<batch>>) \o <<teleport>>
      <3>1. before = <<P!Respawned>> /\ moved = <<batch>>
        BY <1>3, <1>10
      <3> QED BY <1>1, <3>1
    <2>2. Delivers(3) /\ Delivered(1) = P!Respawned /\ Delivered(2) = batch /\ Delivered(3) = teleport
      BY <1>2, <1>3, <2>1, JoinsThree
    <2>3. \A i \in 1..3 : i = 1 \/ i = 2 \/ i = 3
      OBVIOUS
    <2>4. ServesWindow(3)
      <3>1. 2 \in 1..3
        OBVIOUS
      <3> QED BY <1>1, <1>2, <1>3, <1>10, <2>2, <2>3, <3>1 DEF ServesWindow
    <2> QED BY <1>2, <1>3, <1>6, <2>2, <2>3, <2>4
  <1> QED BY <1>7, <1>8, <1>9, <1>10

---------------------------------------------------------------------------
LEMMA TpStep ==
  ASSUME PlayTypes, Kept, P!HandleTp
  PROVE  \E n \in 1..3 : Serves(n)
  <1> DEFINE p == Head(toServer).place
  <1>1. /\ Receives("tp") /\ toServer[1] = Head(toServer) /\ toServer[1] \in Upward
        /\ UNCHANGED <<playDead, keepSent, keepPending, keepAge, end, client>>
        /\ P!Place(p, <<>>)
    BY ReceiveTakes DEF P!HandleTp, P!keepAlive
  <1>2. p \in Places
    BY <1>1, UpwardParts DEF Receives
  <1>3. playDead' \in BOOLEAN
    BY <1>1 DEF PlayTypes
  <1> HIDE DEF p
  <1> QED BY <1>1, <1>2, <1>3, PlaceServes

LEMMA RespawnStep ==
  ASSUME P!PlayConstants, PlayTypes, Placed, Kept, P!HandleRespawn
  PROVE  \E n \in 0..3 : Serves(n)
  <1>1. /\ Receives("perform_respawn")
        /\ UNCHANGED <<keepSent, keepPending, keepAge, end, client>>
    BY ReceiveTakes DEF P!HandleRespawn, P!keepAlive
  <1>2. CASE playDead
    <2>1. playDead' = FALSE /\ P!Place(Home, <<P!Respawned>>)
      BY <1>2 DEF P!HandleRespawn
    <2>2. Home \in Places
      BY DEF P!PlayConstants
    <2>3. \E n \in 1..3 : Serves(n)
      BY <1>1, <2>1, <2>2, PlaceServes
    <2> QED BY <2>3
  <1>3. CASE ~playDead
    <2>1. Untouched /\ toClient' = toClient
      BY <1>1, <1>3 DEF P!HandleRespawn, P!where, P!teleports, Untouched
    <2>2. "perform_respawn" \in Packets \ {"keep_alive"} /\ "perform_respawn" # "move_player_pos"
      BY DEF Packets
    <2>3. end' \notin {"keep-alive mismatch", "keep-alive timed out"}
      BY <1>1 DEF Kept
    <2>4. Serves(0)
      BY <1>1, <2>1, <2>2, <2>3, ServesQuietly
    <2> QED BY <2>4
  <1> QED BY <1>2, <1>3

\* kill_player: the client is told, and nothing else changes.
LEMMA KillServes ==
  ASSUME PlayTypes, Placed, Kept, Waits \/ Receives("kill"), P!Kill, ~playDead,
         UNCHANGED <<P!where, P!teleports, P!keepAlive, end, client>>
  PROVE  Serves(1)
  <1>1. /\ UNCHANGED <<position, center, streamed, chunks, nextId, confirmed, pending,
                       keepSent, keepPending, keepAge, client, end>>
        /\ playDead' = TRUE /\ toClient' = Append(toClient, P!Died)
    BY DEF P!where, P!teleports, P!keepAlive, P!Kill
  <1>2. P!Died \in Downward /\ P!Died.kind = "died"
    BY DownwardTyped DEF P!Died
  <1>3. Delivers(1) /\ Delivered(1).kind = "died"
    BY <1>1, <1>2, DeliversOne
  <1>4. ServesTypes
    BY <1>1 DEF PlayTypes, ServesTypes
  <1>5. ServesTeleports(1) /\ ServesWindow(1)
    BY <1>1, <1>3 DEF ServesTeleports, ServesWindow
  <1>6. ServesPlace
    BY <1>1 DEF ServesPlace, Placed
  <1>7. ServesKeepAlive(1)
    <2>1. \A i \in 1..1 : Delivered(i).kind # "keep_alive"
      BY <1>3
    <2>2. end' \notin {"keep-alive mismatch", "keep-alive timed out"}
      BY <1>1 DEF Kept
    <2>3. Waits \/ \E kind \in Packets \ {"keep_alive"} : Receives(kind)
      BY DEF Packets
    <2> QED BY <1>1, <2>1, <2>2, <2>3 DEF ServesKeepAlive
  <1> QED BY <1>3, <1>4, <1>5, <1>6, <1>7 DEF Serves, Handles, Packets

LEMMA KillStep ==
  ASSUME PlayTypes, Placed, Kept, P!HandleKill
  PROVE  Serves(1)
  BY ReceiveTakes, KillServes DEF P!HandleKill

LEMMA HurtStep ==
  ASSUME PlayTypes, Placed, Kept, P!Hurt
  PROVE  Serves(1)
  BY KillServes DEF P!Hurt, Waits

LEMMA KeepAliveStep ==
  ASSUME PlayTypes, Placed, Kept, P!HandleKeepAlive
  PROVE  Serves(0)
  <1>1. Receives("keep_alive") /\ toServer[1] = Head(toServer)
    BY ReceiveTakes DEF P!HandleKeepAlive
  <1>2. Head(toServer).id = keepPending
    <2>1. 1 \in 1..Len(toServer) /\ toServer[1].kind = "keep_alive"
      BY <1>1 DEF Receives
    <2>2. toServer[1].id = keepPending
      BY <2>1 DEF Kept
    <2> QED BY <1>1, <2>2
  <1>3. /\ keepPending' = 0
        /\ UNCHANGED <<position, center, streamed, chunks, nextId, confirmed, pending, playDead,
                       keepSent, keepAge, client, toClient, end>>
    BY <1>2 DEF P!HandleKeepAlive, P!where, P!teleports
  <1>4. Delivers(0)
    BY <1>3, DeliversNone
  <1>5. ServesTypes
    BY <1>3 DEF PlayTypes, ServesTypes
  <1>6. ServesTeleports(0) /\ ServesWindow(0)
    BY <1>3, NoneYet DEF ServesTeleports, ServesWindow
  <1>7. ServesPlace
    BY <1>1, <1>3 DEF ServesPlace, Placed, Packets
  <1>8. ServesKeepAlive(0)
    BY <1>1, <1>3 DEF ServesKeepAlive, Kept
  <1> QED BY <1>1, <1>4, <1>5, <1>6, <1>7, <1>8 DEF Serves, Handles, Packets

\* The timers: nothing is in flight, so that no keep-alive is pending and none can be late.
LEMMA TimersStep ==
  ASSUME P!PlayConstants, PlayTypes, Placed, Kept, P!Tick
  PROVE  \E n \in 0..1 : Serves(n)
  <1>1. /\ toClient = <<>> /\ toServer = <<>> /\ Waits
        /\ UNCHANGED <<position, center, streamed, chunks, nextId, pending, confirmed, playDead, client>>
    BY DEF P!Tick, P!where, Waits
  <1>2. keepPending = 0
    BY <1>1 DEF Kept, No
  <1>3. ServesPlace
    BY <1>1 DEF ServesPlace, Placed
  <1>4. CASE keepAge + 1 >= KeepAliveInterval
    <2>1. /\ keepAge' = 0 /\ keepSent' = keepSent + 1 /\ keepPending' = keepSent + 1
          /\ toClient' = Append(toClient, P!KeepAlive(keepSent + 1))
          /\ end' = IF keepPending' # 0 /\ keepAge' >= KeepAliveTimeout THEN "keep-alive timed out"
                    ELSE IF ~confirmed /\ teleportAge' >= TeleportTimeout
                         THEN "acknowledgement timed out" ELSE "running"
      BY <1>2, <1>4 DEF P!Tick
    <2>2. end' \notin {"keep-alive mismatch", "keep-alive timed out"}
      <3>1. ~(0 >= KeepAliveTimeout)
        BY DEF P!PlayConstants
      <3> QED BY <2>1, <3>1
    <2>3. keepSent + 1 \in Nat /\ keepSent + 1 # 0 /\ keepSent + 1 \in 0..keepSent + 1
      BY DEF PlayTypes
    <2>4. Delivers(1) /\ Delivered(1).kind = "keep_alive" /\ Delivered(1).id = keepSent + 1
      <3>1. P!KeepAlive(keepSent + 1) \in Downward
        BY <2>3, DownwardTyped
      <3>2. Delivers(1) /\ Delivered(1) = P!KeepAlive(keepSent + 1)
        BY <2>1, <3>1, DeliversOne
      <3> QED BY <3>2 DEF P!KeepAlive
    <2>5. ServesTypes
      BY <1>1, <2>1, <2>3 DEF PlayTypes, ServesTypes
    <2>6. ServesTeleports(1) /\ ServesWindow(1)
      BY <1>1, <2>4 DEF ServesTeleports, ServesWindow
    <2>7. ServesKeepAlive(1)
      BY <1>1, <2>1, <2>2, <2>3, <2>4 DEF ServesKeepAlive
    <2> QED BY <1>1, <1>3, <2>4, <2>5, <2>6, <2>7 DEF Serves, Handles
  <1>5. CASE ~(keepAge + 1 >= KeepAliveInterval)
    <2>1. /\ keepAge' = keepAge + 1 /\ UNCHANGED <<keepSent, keepPending, toClient>>
          /\ end' = IF keepPending' # 0 /\ keepAge' >= KeepAliveTimeout THEN "keep-alive timed out"
                    ELSE IF ~confirmed /\ teleportAge' >= TeleportTimeout
                         THEN "acknowledgement timed out" ELSE "running"
      BY <1>2, <1>5 DEF P!Tick
    <2>2. end' \notin {"keep-alive mismatch", "keep-alive timed out"}
      BY <1>2, <2>1
    <2>3. ServesTypes
      <3>1. keepAge \in Nat /\ keepSent \in Nat /\ keepPending \in 0..keepSent
        BY DEF PlayTypes
      <3>4. keepAge' = keepAge + 1
        BY <2>1
      <3>2. keepAge' \in Nat
        BY <3>1, <3>4
      <3>3. keepSent' \in Nat /\ keepPending' \in 0..keepSent'
        BY <2>1, <3>1
      <3> QED BY <1>1, <3>2, <3>3 DEF PlayTypes, ServesTypes
    <2>4. Delivers(0)
      BY <2>1, DeliversNone
    <2>5. ServesTeleports(0) /\ ServesWindow(0)
      BY <1>1, NoneYet DEF ServesTeleports, ServesWindow
    <2>6. ServesKeepAlive(0)
      BY <1>1, <2>1, <2>2, NoneYet DEF ServesKeepAlive
    <2> QED BY <1>1, <1>3, <2>3, <2>4, <2>5, <2>6 DEF Serves, Handles
  <1> QED BY <1>4, <1>5 DEF PlayTypes, P!PlayConstants

---------------------------------------------------------------------------
\* The stream to the server has lost its first d messages.
Shifts(d) ==
  /\ toServer' \in Seq(Upward) /\ Len(toServer) \in Nat /\ Len(toServer') \in Nat
  /\ Len(toServer') = Len(toServer) - d
  /\ \A i \in 1..Len(toServer') : i + d \in 1..Len(toServer) /\ toServer'[i] = toServer[i + d]

\* A message of the stream to the client was there, or has just been sent.
Lengthens(n) ==
  /\ Len(toClient) \in Nat /\ Len(toClient') \in Nat /\ Len(toClient') = Len(toClient) + n
  /\ \A i \in 1..Len(toClient) : i \in 1..Len(toClient') /\ toClient'[i] = toClient[i]
  /\ \A k \in 1..n : Len(toClient) + k \in 1..Len(toClient') /\ toClient'[Len(toClient) + k] = Delivered(k)
  /\ \A i \in 1..Len(toClient') :
       \/ i \in 1..Len(toClient) /\ toClient'[i] = toClient[i]
       \/ \E k \in 1..n : i = Len(toClient) + k /\ toClient'[i] = Delivered(k)

LEMMA ReceivesShift ==
  ASSUME PlayTypes, NEW kind, Receives(kind)
  PROVE  /\ Shifts(1) /\ 1 \in 1..Len(toServer) /\ toServer[1].kind = kind
         /\ \A i \in 1..Len(toServer) : i = 1 \/ (i - 1 \in 1..Len(toServer') /\ toServer'[i - 1] = toServer[i])
  <1>1. Shifts(1) /\ 1 \in 1..Len(toServer) /\ toServer[1].kind = kind
    BY DEF Receives, Shifts
  <1>2. ASSUME NEW i \in 1..Len(toServer), i # 1
        PROVE  i - 1 \in 1..Len(toServer') /\ toServer'[i - 1] = toServer[i]
    <2>1. i - 1 \in 1..Len(toServer') /\ (i - 1) + 1 = i
      BY <1>1, <1>2 DEF Shifts
    <2>2. toServer'[i - 1] = toServer[(i - 1) + 1]
      BY <1>1, <2>1 DEF Shifts
    <2> QED BY <2>1, <2>2
  <1> QED BY <1>1, <1>2

LEMMA WaitsShift ==
  ASSUME PlayTypes, Waits
  PROVE  Shifts(0)
  <1>1. toServer \in Seq(Upward) /\ Len(toServer) \in Nat
    BY DEF PlayTypes
  <1> QED BY <1>1 DEF Shifts, Waits

LEMMA HandlesShift ==
  ASSUME PlayTypes, Handles
  PROVE  \E d \in 0..1 : Shifts(d)
  <1>1. CASE Waits
    <2>1. Shifts(0)
      BY <1>1, WaitsShift
    <2> QED BY <2>1
  <1>2. CASE \E kind \in Packets : Receives(kind)
    <2>1. Shifts(1)
      BY <1>2, ReceivesShift
    <2> QED BY <2>1
  <1> QED BY <1>1, <1>2 DEF Handles

LEMMA DeliversLengthens ==
  ASSUME PlayTypes, NEW n \in 0..3, Delivers(n)
  PROVE  Lengthens(n)
  <1> DEFINE l == Len(toClient)
             m == Len(toClient')
  <1>1. l \in Nat /\ m = l + n /\ m \in Nat /\ \A i \in 1..l : toClient'[i] = toClient[i]
    BY DEF Delivers, Grows, PlayTypes
  <1>2. \A k \in 1..n : toClient'[l + k] = Delivered(k)
    BY DEF Delivered, Following
  <1> HIDE DEF l, m
  <1>3. \A i \in 1..l : i \in 1..m
    BY <1>1
  <1>4. \A k \in 1..n : l + k \in 1..m
    BY <1>1
  <1>5. ASSUME NEW i \in 1..m, i \notin 1..l
        PROVE  i - l \in 1..n /\ i = l + (i - l)
    BY <1>1, <1>5
  <1>6. \A i \in 1..m :
          \/ i \in 1..l /\ toClient'[i] = toClient[i]
          \/ \E k \in 1..n : i = l + k /\ toClient'[i] = Delivered(k)
    BY <1>1, <1>2, <1>5
  <1> QED BY <1>1, <1>2, <1>3, <1>4, <1>6 DEF Lengthens, l, m

---------------------------------------------------------------------------
\* A step of the server keeps the invariant, part by part.
LEMMA NumberedServed ==
  ASSUME PlayTypes, Numbered, NEW n \in 0..3, Serves(n)
  PROVE  Numbered'
  <1>1. PICK d \in 0..1 : Shifts(d)
    BY HandlesShift DEF Serves
  <1>2. Lengthens(n)
    BY DeliversLengthens DEF Serves
  <1>3. nextId \in Nat \ {0} /\ (nextId' = nextId \/ nextId' = nextId + 1)
    BY DEF Serves, ServesTeleports, PlayTypes
  <1>4. ASSUME NEW k \in 1..n, Delivered(k).kind = "teleport"
        PROVE  k = n /\ nextId' = nextId + 1 /\ Delivered(k).id = nextId'
    BY <1>4 DEF Serves, ServesTeleports
  <1>5. ASSUME NEW i \in 1..Len(toServer'), toServer'[i].kind = "accept_teleportation"
        PROVE  /\ i + d \in 1..Len(toServer) /\ toServer[i + d].kind = "accept_teleportation"
               /\ toServer'[i].id = toServer[i + d].id /\ toServer'[i].id \in 1..nextId
    BY <1>1, <1>5 DEF Numbered, Shifts
  <1>6. ASSUME NEW i \in 1..Len(toClient), toClient[i].kind = "teleport"
        PROVE  toClient[i].id \in 1..nextId
    BY <1>6 DEF Numbered
  <1>7. ASSUME NEW i \in 1..Len(toClient'), toClient'[i].kind = "teleport"
        PROVE  toClient'[i].id \in 1..nextId'
    <2>1. CASE i \in 1..Len(toClient) /\ toClient'[i] = toClient[i]
      BY <1>3, <1>6, <1>7, <2>1
    <2>2. CASE \E k \in 1..n : i = Len(toClient) + k /\ toClient'[i] = Delivered(k)
      BY <1>3, <1>4, <1>7, <2>2
    <2> QED BY <1>2, <2>1, <2>2 DEF Lengthens
  <1>8. ASSUME NEW i \in 1..Len(toServer'), toServer'[i].kind = "accept_teleportation"
        PROVE  toServer'[i].id \in 1..nextId'
    BY <1>3, <1>5, <1>8
  <1>9. ASSUME NEW i \in 1..Len(toClient'), NEW j \in 1..Len(toClient'), i < j,
               toClient'[i].kind = "teleport", toClient'[j].kind = "teleport"
        PROVE  toClient'[i].id < toClient'[j].id
    <2>1. CASE j \in 1..Len(toClient) /\ toClient'[j] = toClient[j]
      <3>1. i \in 1..Len(toClient)
        BY <1>2, <1>9, <2>1 DEF Lengthens
      <3>2. toClient'[i] = toClient[i]
        BY <1>2, <3>1 DEF Lengthens
      <3> QED BY <1>9, <2>1, <3>1, <3>2 DEF Numbered
    <2>2. CASE \E k \in 1..n : j = Len(toClient) + k /\ toClient'[j] = Delivered(k)
      <3>1. PICK k \in 1..n : j = Len(toClient) + k /\ toClient'[j] = Delivered(k)
        BY <2>2
      <3>2. k = n /\ nextId' = nextId + 1 /\ toClient'[j].id = nextId + 1
        BY <1>4, <1>9, <3>1
      <3>3. CASE i \in 1..Len(toClient) /\ toClient'[i] = toClient[i]
        BY <1>3, <1>6, <1>9, <3>2, <3>3
      <3>4. CASE \E h \in 1..n : i = Len(toClient) + h /\ toClient'[i] = Delivered(h)
        <4>1. PICK h \in 1..n : i = Len(toClient) + h /\ toClient'[i] = Delivered(h)
          BY <3>4
        <4>2. h = n
          BY <1>4, <1>9, <4>1
        <4> QED BY <1>9, <3>1, <3>2, <4>1, <4>2
      <3> QED BY <1>2, <3>3, <3>4 DEF Lengthens
    <2> QED BY <1>2, <2>1, <2>2 DEF Lengthens
  <1>10. ASSUME NEW i \in 1..Len(toServer'), NEW j \in 1..Len(toServer'), i < j,
                toServer'[i].kind = "accept_teleportation", toServer'[j].kind = "accept_teleportation"
         PROVE  toServer'[i].id < toServer'[j].id
    <2>1. i + d < j + d
      BY <1>10
    <2> QED BY <1>5, <1>10, <2>1 DEF Numbered
  <1>11. ASSUME NEW i \in 1..Len(toServer'), NEW j \in 1..Len(toClient'),
                toServer'[i].kind = "accept_teleportation", toClient'[j].kind = "teleport"
         PROVE  toServer'[i].id < toClient'[j].id
    <2>1. CASE j \in 1..Len(toClient) /\ toClient'[j] = toClient[j]
      BY <1>5, <1>11, <2>1 DEF Numbered
    <2>2. CASE \E k \in 1..n : j = Len(toClient) + k /\ toClient'[j] = Delivered(k)
      <3>1. toClient'[j].id = nextId + 1
        BY <1>4, <1>11, <2>2
      <3> QED BY <1>3, <1>5, <1>11, <3>1
    <2> QED BY <1>2, <2>1, <2>2 DEF Lengthens
  <1>12. ASSUME confirmed'
         PROVE  No(toClient', "teleport") /\ No(toServer', "accept_teleportation")
    <2>1. /\ confirmed \/ (Receives("accept_teleportation") /\ toServer[1].id = nextId)
          /\ \A i \in 1..n : Delivered(i).kind # "teleport"
      BY <1>12 DEF Serves, ServesTeleports
    <2>2. CASE confirmed
      <3>1. No(toClient, "teleport") /\ No(toServer, "accept_teleportation")
        BY <2>2 DEF Numbered
      <3>2. No(toClient', "teleport")
        BY <1>2, <2>1, <3>1 DEF No, Lengthens
      <3>3. No(toServer', "accept_teleportation")
        BY <1>1, <3>1 DEF No, Shifts
      <3> QED BY <3>2, <3>3
    <2>3. CASE Receives("accept_teleportation") /\ toServer[1].id = nextId
      <3>1. Shifts(1) /\ 1 \in 1..Len(toServer) /\ toServer[1].kind = "accept_teleportation"
        BY <2>3, ReceivesShift
      <3>2. ASSUME NEW i \in 1..Len(toClient), toClient[i].kind = "teleport"
            PROVE  FALSE
        <4>1. toServer[1].id < toClient[i].id
          BY <3>1, <3>2 DEF Numbered
        <4> QED BY <1>3, <1>6, <2>3, <3>2, <4>1
      <3>3. No(toClient', "teleport")
        BY <1>2, <2>1, <3>2 DEF No, Lengthens
      <3>4. ASSUME NEW i \in 1..Len(toServer'), toServer'[i].kind = "accept_teleportation"
            PROVE  FALSE
        <4>1. /\ i + 1 \in 1..Len(toServer) /\ 1 < i + 1
              /\ toServer[i + 1].kind = "accept_teleportation"
          BY <3>1, <3>4 DEF Shifts
        <4>2. toServer[1].id < toServer[i + 1].id /\ toServer[i + 1].id \in 1..nextId
          BY <3>1, <4>1 DEF Numbered
        <4> QED BY <1>3, <2>3, <4>2
      <3> QED BY <3>3, <3>4 DEF No
    <2> QED BY <2>1, <2>2, <2>3
  <1>13. /\ \A i \in 1..Len(toClient') : toClient'[i].kind = "teleport" => toClient'[i].id \in 1..nextId'
         /\ \A i \in 1..Len(toServer') :
              toServer'[i].kind = "accept_teleportation" => toServer'[i].id \in 1..nextId'
    BY <1>7, <1>8
  <1> QED BY <1>9, <1>10, <1>11, <1>12, <1>13 DEF Numbered

LEMMA PlacedServed ==
  ASSUME PlayTypes, Placed, NEW n \in 0..3, Serves(n)
  PROVE  Placed'
  <1>1. PICK d \in 0..1 : Shifts(d)
    BY HandlesShift DEF Serves
  <1>2. client' = client /\ ServesPlace
    BY DEF Serves, ServesTypes
  <1>3. ASSUME NEW i \in 1..Len(toServer'), toServer'[i].kind = "accept_teleportation"
        PROVE  i < Len(toServer') /\ toServer'[i + 1].kind = "move_player_pos"
    <2>1. i + d \in 1..Len(toServer) /\ toServer[i + d].kind = "accept_teleportation"
      BY <1>1, <1>3 DEF Shifts
    <2>2. i + d < Len(toServer) /\ toServer[(i + d) + 1].kind = "move_player_pos"
      BY <2>1 DEF Placed
    <2>3. i + 1 \in 1..Len(toServer') /\ (i + d) + 1 = (i + 1) + d
      BY <1>1, <2>2 DEF Shifts
    <2>4. toServer'[i + 1] = toServer[(i + 1) + d]
      BY <1>1, <2>3 DEF Shifts
    <2>5. i < Len(toServer')
      BY <2>3
    <2> QED BY <2>2, <2>3, <2>4, <2>5
  <1>4. ASSUME NEW i \in 1..Len(toServer'), toServer'[i].kind = "move_player_pos"
        PROVE  \/ toServer'[i].place = client'.place
               \/ \E j \in i + 1..Len(toServer') : toServer'[j].kind = "move_player_pos"
    <2>1. i + d \in 1..Len(toServer) /\ toServer'[i] = toServer[i + d]
      BY <1>1 DEF Shifts
    <2>2. CASE toServer[i + d].place = client.place
      BY <1>2, <2>1, <2>2
    <2>3. CASE \E j \in (i + d) + 1..Len(toServer) : toServer[j].kind = "move_player_pos"
      <3>1. PICK j \in (i + d) + 1..Len(toServer) : toServer[j].kind = "move_player_pos"
        BY <2>3
      <3>2. j - d \in i + 1..Len(toServer') /\ j - d \in 1..Len(toServer') /\ (j - d) + d = j
        BY <1>1, <3>1 DEF Shifts
      <3>3. toServer'[j - d] = toServer[(j - d) + d]
        BY <1>1, <3>2 DEF Shifts
      <3>4. toServer'[j - d].kind = "move_player_pos"
        BY <3>1, <3>2, <3>3
      <3> QED BY <3>2, <3>4
    <2> QED BY <1>4, <2>1, <2>2, <2>3 DEF Placed
  <1>5. ASSUME confirmed', ~playDead', No(toServer', "move_player_pos")
        PROVE  position' = client'.place
    <2>1. CASE Receives("move_player_pos") /\ position' = toServer[1].place
      <3>1. /\ 1 \in 1..Len(toServer) /\ toServer[1].kind = "move_player_pos"
            /\ \A i \in 1..Len(toServer) : i = 1 \/ (i - 1 \in 1..Len(toServer') /\ toServer'[i - 1] = toServer[i])
        BY <2>1, ReceivesShift
      <3>2. \A j \in 1 + 1..Len(toServer) : j \in 1..Len(toServer) /\ j # 1
        OBVIOUS
      <3>3. ~\E j \in 1 + 1..Len(toServer) : toServer[j].kind = "move_player_pos"
        BY <1>5, <3>1, <3>2 DEF No
      <3>4. toServer[1].place = client.place
        BY <3>1, <3>3 DEF Placed
      <3> QED BY <1>2, <2>1, <3>4
    <2>2. CASE Receives("accept_teleportation")
      <3>1. /\ 1 \in 1..Len(toServer) /\ toServer[1].kind = "accept_teleportation" /\ Shifts(1)
        BY <2>2, ReceivesShift
      <3>2. 1 < Len(toServer) /\ toServer[1 + 1].kind = "move_player_pos"
        BY <3>1 DEF Placed
      <3>3. 1 \in 1..Len(toServer')
        BY <3>1, <3>2 DEF Shifts
      <3>4. toServer'[1] = toServer[1 + 1]
        BY <3>1, <3>3 DEF Shifts
      <3> QED BY <1>5, <3>2, <3>3, <3>4 DEF No
    <2>3. CASE /\ confirmed /\ ~playDead /\ position' = position
               /\ Waits \/ \E kind \in Packets \ {"move_player_pos"} : Receives(kind)
      <3>1. No(toServer, "move_player_pos")
        <4>1. CASE Waits
          BY <1>5, <4>1 DEF Waits
        <4>2. CASE \E kind \in Packets \ {"move_player_pos"} : Receives(kind)
          <5>1. PICK kind \in Packets \ {"move_player_pos"} : Receives(kind)
            BY <4>2
          <5>2. /\ toServer[1].kind = kind
                /\ \A i \in 1..Len(toServer) :
                     i = 1 \/ (i - 1 \in 1..Len(toServer') /\ toServer'[i - 1] = toServer[i])
            BY <5>1, ReceivesShift
          <5>3. kind # "move_player_pos"
            OBVIOUS
          <5> QED BY <1>5, <5>2, <5>3 DEF No
        <4> QED BY <2>3, <4>1, <4>2
      <3> QED BY <1>2, <2>3, <3>1 DEF Placed
    <2> QED BY <1>2, <1>5, <2>1, <2>2, <2>3 DEF ServesPlace
  <1>6. confirmed' => streamed' = position'
    BY <1>2 DEF ServesPlace
  <1> QED BY <1>3, <1>4, <1>5, <1>6 DEF Placed

---------------------------------------------------------------------------
\* What Windowed says of a chunk.
Tracks(c) ==
  /\ (\A i \in 1..Len(toClient) : ~Mentions(toClient[i], c)) => (c \in client.chunks <=> c \in chunks)
  /\ \A i \in 1..Len(toClient) :
       Mentions(toClient[i], c) =>
         \/ c \in toClient[i].add <=> c \in chunks
         \/ \E j \in i + 1..Len(toClient) : Mentions(toClient[j], c)

LEMMA WindowedServed ==
  ASSUME PlayTypes, Windowed, NEW n \in 0..3, Serves(n)
  PROVE  Windowed'
  <1>1. Lengthens(n)
    BY DeliversLengthens DEF Serves
  <1>2. client' = client /\ ServesWindow(n)
    BY DEF Serves, ServesTypes
  <1>3. ASSUME NEW c \in Chunks, c \in chunks' <=> c \in chunks,
               \A k \in 1..n : ~Mentions(Delivered(k), c)
        PROVE  Tracks(c)'
    <2>1. Tracks(c)
      BY DEF Windowed, Tracks
    <2>2. ASSUME NEW i \in 1..Len(toClient'), Mentions(toClient'[i], c)
          PROVE  i \in 1..Len(toClient) /\ toClient'[i] = toClient[i]
      BY <1>1, <1>3, <2>2 DEF Lengthens
    <2>3. ASSUME NEW i \in 1..Len(toClient)
          PROVE  i \in 1..Len(toClient') /\ toClient'[i] = toClient[i]
      BY <1>1 DEF Lengthens
    <2>4. ASSUME \A i \in 1..Len(toClient') : ~Mentions(toClient'[i], c)
          PROVE  c \in client'.chunks <=> c \in chunks'
      BY <1>2, <1>3, <2>1, <2>3, <2>4 DEF Tracks
    <2>5. ASSUME NEW i \in 1..Len(toClient'), Mentions(toClient'[i], c)
          PROVE  \/ c \in toClient'[i].add <=> c \in chunks'
                 \/ \E j \in i + 1..Len(toClient') : Mentions(toClient'[j], c)
      <3>1. i \in 1..Len(toClient) /\ toClient'[i] = toClient[i]
        BY <2>2, <2>5
      <3>2. CASE c \in toClient[i].add <=> c \in chunks
        BY <1>3, <3>1, <3>2
      <3>3. CASE \E j \in i + 1..Len(toClient) : Mentions(toClient[j], c)
        <4>1. PICK j \in i + 1..Len(toClient) : Mentions(toClient[j], c)
          BY <3>3
        <4>2. j \in 1..Len(toClient)
          BY <3>1, <4>1
        <4>3. j \in i + 1..Len(toClient') /\ toClient'[j] = toClient[j]
          BY <1>1, <4>1, <4>2, <2>3 DEF Lengthens
        <4> QED BY <4>1, <4>3
      <3> QED BY <2>1, <2>5, <3>1, <3>2, <3>3 DEF Tracks
    <2> QED BY <2>4, <2>5 DEF Tracks
  <1>4. CASE chunks' = chunks /\ \A i \in 1..n : Delivered(i).kind # "batch"
    BY <1>3, <1>4 DEF Windowed, Tracks, Mentions
  <1>5. CASE \E b \in 1..n :
               /\ Delivered(b).kind = "batch"
               /\ Delivered(b).drop = chunks \ chunks' /\ Delivered(b).add = chunks' \ chunks
               /\ \A i \in 1..n : Delivered(i).kind = "batch" => i = b
    <2>1. PICK b \in 1..n :
               /\ Delivered(b).kind = "batch"
               /\ Delivered(b).drop = chunks \ chunks' /\ Delivered(b).add = chunks' \ chunks
               /\ \A i \in 1..n : Delivered(i).kind = "batch" => i = b
      BY <1>5
    <2>2. ASSUME NEW c \in Chunks
          PROVE  Tracks(c)'
      <3>1. CASE c \in chunks' <=> c \in chunks
        <4>1. ASSUME NEW k \in 1..n
              PROVE  ~Mentions(Delivered(k), c)
          <5>1. CASE k = b
            BY <2>1, <3>1, <5>1 DEF Mentions
          <5>2. CASE k # b
            BY <2>1, <5>2 DEF Mentions
          <5> QED BY <5>1, <5>2
        <4> QED BY <1>3, <3>1, <4>1
      <3>2. CASE ~(c \in chunks' <=> c \in chunks)
        <4> DEFINE k == Len(toClient) + b
        <4>1. /\ k \in 1..Len(toClient') /\ Mentions(toClient'[k], c)
              /\ (c \in toClient'[k].add <=> c \in chunks')
          BY <1>1, <2>1, <3>2 DEF Lengthens, Mentions
        <4>2. ASSUME NEW i \in 1..Len(toClient'), Mentions(toClient'[i], c)
              PROVE  i <= k
          <5>1. CASE i \in 1..Len(toClient)
            BY <1>1, <5>1 DEF Lengthens
          <5>2. CASE \E h \in 1..n : i = Len(toClient) + h /\ toClient'[i] = Delivered(h)
            BY <2>1, <4>2, <5>2 DEF Mentions
          <5> QED BY <1>1, <5>1, <5>2 DEF Lengthens
        <4> HIDE DEF k
        <4>3. ASSUME NEW i \in 1..Len(toClient'), Mentions(toClient'[i], c)
              PROVE  \/ c \in toClient'[i].add <=> c \in chunks'
                     \/ \E j \in i + 1..Len(toClient') : Mentions(toClient'[j], c)
          <5>1. CASE i = k
            BY <4>1, <5>1
          <5>2. CASE i # k
            <6>1. k \in i + 1..Len(toClient')
              BY <4>1, <4>2, <4>3, <5>2
            <6> QED BY <4>1, <6>1
          <5> QED BY <5>1, <5>2
        <4> QED BY <4>1, <4>3 DEF Tracks
      <3> QED BY <3>1, <3>2
    <2> QED BY <2>2 DEF Windowed, Tracks
  <1> QED BY <1>2, <1>4, <1>5 DEF ServesWindow

LEMMA KeptServed ==
  ASSUME PlayTypes, Kept, NEW n \in 0..3, Serves(n)
  PROVE  Kept'
  <1>1. PICK d \in 0..1 : Shifts(d)
    BY HandlesShift DEF Serves
  <1>2. Lengthens(n)
    BY DeliversLengthens DEF Serves
  <1>3. end' \notin {"keep-alive mismatch", "keep-alive timed out"}
    BY DEF Serves, ServesKeepAlive
  <1>4. CASE /\ keepPending' = keepPending /\ \A i \in 1..n : Delivered(i).kind # "keep_alive"
             /\ Waits \/ \E kind \in Packets \ {"keep_alive"} : Receives(kind)
    <2>1. ASSUME NEW i \in 1..Len(toClient'), toClient'[i].kind = "keep_alive"
          PROVE  i \in 1..Len(toClient) /\ toClient'[i] = toClient[i]
      BY <1>2, <1>4, <2>1 DEF Lengthens
    <2>2. ASSUME NEW i \in 1..Len(toClient)
          PROVE  i \in 1..Len(toClient') /\ toClient'[i] = toClient[i]
      BY <1>2 DEF Lengthens
    <2>3. ASSUME NEW i \in 1..Len(toServer')
          PROVE  i + d \in 1..Len(toServer) /\ toServer'[i] = toServer[i + d]
      BY <1>1 DEF Shifts
    <2>4. ASSUME ~No(toServer, "keep_alive")
          PROVE  ~No(toServer', "keep_alive")
      <3>1. CASE Waits
        BY <2>4, <3>1 DEF Waits
      <3>2. CASE \E kind \in Packets \ {"keep_alive"} : Receives(kind)
        <4>1. PICK kind \in Packets \ {"keep_alive"} : Receives(kind)
          BY <3>2
        <4>2. /\ toServer[1].kind = kind
              /\ \A i \in 1..Len(toServer) :
                   i = 1 \/ (i - 1 \in 1..Len(toServer') /\ toServer'[i - 1] = toServer[i])
          BY <4>1, ReceivesShift
        <4>3. kind # "keep_alive"
          OBVIOUS
        <4>4. PICK i \in 1..Len(toServer) : toServer[i].kind = "keep_alive"
          BY <2>4 DEF No
        <4>5. i - 1 \in 1..Len(toServer') /\ toServer'[i - 1].kind = "keep_alive"
          BY <4>2, <4>3, <4>4
        <4> QED BY <4>5 DEF No
      <3> QED BY <1>4, <3>1, <3>2
    <2>5. Once(toClient', "keep_alive")
      BY <2>1 DEF Kept, Once
    <2>6. Once(toServer', "keep_alive")
      <3>1. ASSUME NEW i \in 1..Len(toServer'), NEW j \in 1..Len(toServer'),
                   toServer'[i].kind = "keep_alive", toServer'[j].kind = "keep_alive"
            PROVE  i = j
        <4>1. i + d = j + d
          BY <2>3, <3>1 DEF Kept, Once
        <4> QED BY <4>1
      <3> QED BY <3>1 DEF Once
    <2>7. No(toClient, "keep_alive") => No(toClient', "keep_alive")
      BY <2>1 DEF No
    <2>8. No(toServer, "keep_alive") => No(toServer', "keep_alive")
      BY <2>3 DEF No
    <2>9. ~No(toClient, "keep_alive") => ~No(toClient', "keep_alive")
      BY <2>2 DEF No
    <2>10. \A i \in 1..Len(toClient') : toClient'[i].kind = "keep_alive" => toClient'[i].id = keepPending'
      BY <1>4, <2>1 DEF Kept
    <2>11. \A i \in 1..Len(toServer') : toServer'[i].kind = "keep_alive" => toServer'[i].id = keepPending'
      BY <1>4, <2>3 DEF Kept
    <2>12. No(toClient', "keep_alive") \/ No(toServer', "keep_alive")
      BY <2>7, <2>8 DEF Kept
    <2>13. keepPending' # 0 => ~No(toClient', "keep_alive") \/ ~No(toServer', "keep_alive")
      BY <1>4, <2>4, <2>9 DEF Kept
    <2> QED BY <1>3, <2>5, <2>6, <2>10, <2>11, <2>12, <2>13 DEF Kept
  <1>5. CASE Receives("keep_alive") /\ keepPending' = 0 /\ n = 0
    <2>1. Shifts(1) /\ 1 \in 1..Len(toServer) /\ toServer[1].kind = "keep_alive"
      BY <1>5, ReceivesShift
    <2>2. No(toClient, "keep_alive")
      BY <2>1 DEF Kept, No
    <2>3. ASSUME NEW i \in 1..Len(toServer'), toServer'[i].kind = "keep_alive"
          PROVE  FALSE
      <3>1. i + 1 \in 1..Len(toServer) /\ i + 1 # 1 /\ toServer[i + 1].kind = "keep_alive"
        BY <2>1, <2>3 DEF Shifts
      <3> QED BY <2>1, <3>1 DEF Kept, Once
    <2>4. No(toServer', "keep_alive")
      BY <2>3 DEF No
    <2>5. No(toClient', "keep_alive")
      BY <1>2, <1>5, <2>2 DEF Lengthens, No
    <2> QED BY <1>3, <1>5, <2>4, <2>5 DEF Kept, No, Once
  <1>6. CASE /\ toClient = <<>> /\ toServer = <<>> /\ Waits /\ n = 1
             /\ Delivered(1).kind = "keep_alive" /\ Delivered(1).id = keepPending' /\ keepPending' # 0
    <2>1. toServer' = <<>> /\ Len(toServer') = 0
      BY <1>6 DEF Waits
    <2>2. Len(toClient) = 0
      BY <1>6
    <2>3. Len(toClient') = 1 /\ toClient'[1].kind = "keep_alive" /\ toClient'[1].id = keepPending'
      BY <1>2, <1>6, <2>2 DEF Lengthens
    <2>4. No(toServer', "keep_alive") /\ Once(toServer', "keep_alive")
      BY <2>1 DEF No, Once
    <2>5. ~No(toClient', "keep_alive") /\ Once(toClient', "keep_alive")
      BY <2>3 DEF No, Once
    <2>6. \A i \in 1..Len(toClient') : toClient'[i].id = keepPending'
      BY <2>3
    <2>7. \A i \in 1..Len(toServer') : FALSE
      BY <2>1
    <2> QED BY <1>3, <2>4, <2>5, <2>6, <2>7 DEF Kept
  <1> QED BY <1>4, <1>5, <1>6 DEF Serves, ServesKeepAlive

LEMMA TypesServed ==
  ASSUME PlayTypes, NEW n \in 0..3, Serves(n)
  PROVE  PlayTypes'
  <1>1. toServer' \in Seq(Upward)
    BY HandlesShift DEF Serves, Shifts
  <1> QED BY <1>1 DEF Serves, ServesTypes, Delivers, PlayTypes

LEMMA ServedSafe ==
  ASSUME PlayInv, NEW n \in 0..3, Serves(n)
  PROVE  PlayInv'
  BY TypesServed, NumberedServed, PlacedServed, WindowedServed, KeptServed DEF PlayInv

---------------------------------------------------------------------------
\* The client has taken the first s messages of its stream.
Drops(s) ==
  /\ toClient' \in Seq(Downward) /\ Len(toClient) \in Nat /\ Len(toClient') \in Nat
  /\ Len(toClient') = Len(toClient) - s
  /\ \A i \in 1..Len(toClient') : i + s \in 1..Len(toClient) /\ toClient'[i] = toClient[i + s]
  /\ s = 1 => 1 \in 1..Len(toClient) /\ toClient[1] \in Downward

\* The client has sent n messages.
Posts(n) == toServer' \in Seq(Upward) /\ Grows(toServer, toServer', n)
Told(i) == Following(toServer, toServer', i)

\* The server has not moved.
Still ==
  UNCHANGED <<position, center, streamed, chunks, nextId, confirmed, playDead, pending,
              keepSent, keepPending, keepAge, end>>

\* The effect on each part of the invariant, with s messages read and n sent.
HearsAccepts(s, n) ==
  \A i \in 1..n :
    Told(i).kind = "accept_teleportation" =>
      /\ i = 1 /\ n = 2 /\ Told(2).kind = "move_player_pos"
      /\ s = 1 /\ toClient[1].kind = "teleport" /\ Told(1).id = toClient[1].id

HearsPlace(n) ==
  \/ client'.place = client.place /\ \A i \in 1..n : Told(i).kind # "move_player_pos"
  \/ /\ n # 0 /\ Told(n).kind = "move_player_pos" /\ Told(n).place = client'.place
     /\ \A i \in 1..n : Told(i).kind = "move_player_pos" => i = n

HearsWindow(s) ==
  \/ client'.chunks = client.chunks /\ (s = 0 \/ toClient[1].kind # "batch")
  \/ /\ s = 1 /\ toClient[1].kind = "batch"
     /\ client'.chunks = (client.chunks \ toClient[1].drop) \cup toClient[1].add

HearsKeepAlive(s, n) ==
  \/ (\A i \in 1..n : Told(i).kind # "keep_alive") /\ (s = 0 \/ toClient[1].kind # "keep_alive")
  \/ /\ s = 1 /\ toClient[1].kind = "keep_alive"
     /\ n = 1 /\ Told(1).kind = "keep_alive" /\ Told(1).id = toClient[1].id

\* A step of the client.
Hears(s, n) ==
  /\ Still /\ Drops(s) /\ Posts(n)
  /\ client' \in [place : Places, chunks : SUBSET Chunks, dead : BOOLEAN]
  /\ HearsAccepts(s, n) /\ HearsPlace(n) /\ HearsWindow(s) /\ HearsKeepAlive(s, n)

LEMMA DropsOne ==
  ASSUME PlayTypes, toClient # <<>>, toClient' = Tail(toClient)
  PROVE  Drops(1) /\ toClient[1] = Head(toClient)
  <1>1. toClient \in Seq(Downward)
    BY DEF PlayTypes
  <1>2. /\ Tail(toClient) \in Seq(Downward) /\ Len(toClient) \in Nat \ {0} /\ Len(Tail(toClient)) = Len(toClient) - 1
        /\ \A i \in 1..Len(toClient) - 1 : Tail(toClient)[i] = toClient[i + 1]
        /\ Head(toClient) = toClient[1] /\ toClient[1] \in Downward
    BY <1>1, Rest
  <1> QED BY <1>2 DEF Drops

LEMMA DropsNone ==
  ASSUME PlayTypes, toClient' = toClient
  PROVE  Drops(0)
  <1>1. toClient \in Seq(Downward) /\ Len(toClient) \in Nat
    BY DEF PlayTypes
  <1> QED BY <1>1 DEF Drops

LEMMA TellsOneMore ==
  ASSUME PlayTypes, NEW m \in Upward, toServer' = Append(toServer, m) \/ toServer' = toServer \o <<m>>
  PROVE  Posts(1) /\ Told(1) = m
  <1>1. toServer \in Seq(Upward)
    BY DEF PlayTypes
  <1>2. CASE toServer' = Append(toServer, m)
    BY <1>1, <1>2, Appended DEF Posts, Told
  <1>3. CASE toServer' = toServer \o <<m>>
    BY <1>1, <1>3, WrittenOne DEF Posts, Told
  <1> QED BY <1>2, <1>3

LEMMA TellsNothing ==
  ASSUME PlayTypes, toServer' = toServer \o <<>>
  PROVE  Posts(0)
  <1>1. toServer \in Seq(Upward)
    BY DEF PlayTypes
  <1>2. toServer' = toServer
    BY <1>1, JoinsNone
  <1> QED BY <1>1, <1>2 DEF Posts, Grows

\* The client, its place or its chunks changed.
LEMMA ClientTyped ==
  ASSUME PlayTypes
  PROVE  /\ client \in [place : Places, chunks : SUBSET Chunks, dead : BOOLEAN]
         /\ \A p \in Places :
              /\ [client EXCEPT !.place = p] \in [place : Places, chunks : SUBSET Chunks, dead : BOOLEAN]
              /\ [client EXCEPT !.place = p].place = p
              /\ [client EXCEPT !.place = p].chunks = client.chunks
         /\ \A drop, add \in SUBSET Chunks :
              /\ [client EXCEPT !.chunks = (@ \ drop) \cup add]
                   \in [place : Places, chunks : SUBSET Chunks, dead : BOOLEAN]
              /\ [client EXCEPT !.chunks = (@ \ drop) \cup add].place = client.place
              /\ [client EXCEPT !.chunks = (@ \ drop) \cup add].chunks = (client.chunks \ drop) \cup add
         /\ \A b \in BOOLEAN :
              /\ [client EXCEPT !.dead = b] \in [place : Places, chunks : SUBSET Chunks, dead : BOOLEAN]
              /\ [client EXCEPT !.dead = b].place = client.place
              /\ [client EXCEPT !.dead = b].chunks = client.chunks
  <1>1. client \in [place : Places, chunks : SUBSET Chunks, dead : BOOLEAN]
    BY DEF PlayTypes
  <1>2. ASSUME NEW drop \in SUBSET Chunks, NEW add \in SUBSET Chunks
        PROVE  (client.chunks \ drop) \cup add \in SUBSET Chunks
    BY <1>1
  <1> QED BY <1>1, <1>2

\* One lemma per message and per action of the client.
LEMMA TeleportHeard ==
  ASSUME PlayTypes, NEW m, m = Head(toClient), toClient # <<>>, m.kind = "teleport",
         P!Answer(<<P!Accept(m.id), P!Move(m.place)>>, [client EXCEPT !.place = m.place])
  PROVE  Hears(1, 2)
  <1>1. /\ toClient' = Tail(toClient) /\ toServer' = toServer \o <<P!Accept(m.id), P!Move(m.place)>>
        /\ client' = [client EXCEPT !.place = m.place] /\ Still
    BY DEF P!Answer, P!where, P!teleports, P!keepAlive, Still
  <1>2. Drops(1) /\ toClient[1] = m /\ m \in Downward
    BY <1>1, DropsOne DEF Drops
  <1>3. m.id \in Nat /\ m.place \in Places
    BY <1>2, DownwardParts
  <1>4. P!Accept(m.id) \in Upward /\ P!Move(m.place) \in Upward
    BY <1>3, UpwardTyped
  <1>5. Posts(2) /\ Told(1) = P!Accept(m.id) /\ Told(2) = P!Move(m.place)
    <2>1. toServer \in Seq(Upward)
      BY DEF PlayTypes
    <2> QED BY <1>1, <1>4, <2>1, WrittenTwo DEF Posts, Told
  <1>6. /\ Told(1).kind = "accept_teleportation" /\ Told(1).id = m.id
        /\ Told(2).kind = "move_player_pos" /\ Told(2).place = m.place
    BY <1>5 DEF P!Accept, P!Move
  <1>7. \A i \in 1..2 : i = 1 \/ i = 2
    OBVIOUS
  <1>8. /\ client' \in [place : Places, chunks : SUBSET Chunks, dead : BOOLEAN]
        /\ client'.place = m.place /\ client'.chunks = client.chunks
    BY <1>1, <1>3, ClientTyped
  <1>9. HearsAccepts(1, 2)
    BY <1>2, <1>6, <1>7 DEF HearsAccepts
  <1>10. HearsPlace(2)
    BY <1>6, <1>7, <1>8 DEF HearsPlace
  <1>11. HearsWindow(1) /\ HearsKeepAlive(1, 2)
    BY <1>2, <1>6, <1>7, <1>8 DEF HearsWindow, HearsKeepAlive
  <1> QED BY <1>1, <1>2, <1>5, <1>8, <1>9, <1>10, <1>11 DEF Hears

LEMMA KeepAliveHeard ==
  ASSUME PlayTypes, NEW m, m = Head(toClient), toClient # <<>>, m.kind = "keep_alive",
         P!Answer(<<[kind |-> "keep_alive", id |-> m.id]>>, client)
  PROVE  Hears(1, 1)
  <1> DEFINE a == [kind |-> "keep_alive", id |-> m.id]
  <1>1. toClient' = Tail(toClient) /\ toServer' = toServer \o <<a>> /\ client' = client /\ Still
    BY DEF P!Answer, P!where, P!teleports, P!keepAlive, Still
  <1>2. Drops(1) /\ toClient[1] = m /\ m \in Downward
    BY <1>1, DropsOne DEF Drops
  <1>3. a \in Upward /\ a.kind = "keep_alive" /\ a.id = m.id
    <2>1. m.id \in Nat
      BY <1>2, DownwardParts
    <2> QED BY <2>1, UpwardTyped
  <1> HIDE DEF a
  <1>4. Posts(1) /\ Told(1) = a
    BY <1>1, <1>3, TellsOneMore
  <1>5. HearsAccepts(1, 1) /\ HearsPlace(1)
    BY <1>1, <1>3, <1>4 DEF HearsAccepts, HearsPlace
  <1>6. HearsWindow(1) /\ HearsKeepAlive(1, 1)
    BY <1>1, <1>2, <1>3, <1>4 DEF HearsWindow, HearsKeepAlive
  <1>7. client' \in [place : Places, chunks : SUBSET Chunks, dead : BOOLEAN]
    BY <1>1, ClientTyped
  <1> QED BY <1>1, <1>2, <1>4, <1>5, <1>6, <1>7 DEF Hears

\* A message that the client does not answer.
LEMMA SilentlyHeard ==
  ASSUME PlayTypes, NEW m, m = Head(toClient), toClient # <<>>, NEW c, P!Answer(<<>>, c),
         c \in [place : Places, chunks : SUBSET Chunks, dead : BOOLEAN], c.place = client.place,
         m.kind # "keep_alive",
         \/ c.chunks = client.chunks /\ m.kind # "batch"
         \/ c.chunks = (client.chunks \ m.drop) \cup m.add /\ m.kind = "batch"
  PROVE  Hears(1, 0)
  <1>1. toClient' = Tail(toClient) /\ toServer' = toServer \o <<>> /\ client' = c /\ Still
    BY DEF P!Answer, P!where, P!teleports, P!keepAlive, Still
  <1>2. Drops(1) /\ toClient[1] = m
    BY <1>1, DropsOne
  <1>3. Posts(0)
    BY <1>1, TellsNothing
  <1>4. HearsAccepts(1, 0) /\ HearsPlace(0)
    BY <1>1, NoneYet DEF HearsAccepts, HearsPlace
  <1>5. HearsWindow(1) /\ HearsKeepAlive(1, 0)
    BY <1>1, <1>2, NoneYet DEF HearsWindow, HearsKeepAlive
  <1> QED BY <1>1, <1>2, <1>3, <1>4, <1>5 DEF Hears

LEMMA ReceivesHeard ==
  ASSUME PlayTypes, P!ClientReceives
  PROVE  \E s \in 0..1, n \in 0..2 : Hears(s, n)
  <1> DEFINE m == Head(toClient)
  <1>1. toClient # <<>> /\ m \in Downward
    <2>1. toClient # <<>> /\ toClient \in Seq(Downward)
      BY DEF PlayTypes, P!ClientReceives
    <2>2. Head(toClient) = toClient[1] /\ toClient[1] \in Downward
      BY <2>1, Rest
    <2> QED BY <2>1, <2>2
  <1>2. CASE m.kind = "teleport" /\ P!Answer(<<P!Accept(m.id), P!Move(m.place)>>, [client EXCEPT !.place = m.place])
    <2>1. Hears(1, 2)
      BY <1>1, <1>2, TeleportHeard
    <2> QED BY <2>1
  <1>3. CASE m.kind = "keep_alive" /\ P!Answer(<<[kind |-> "keep_alive", id |-> m.id]>>, client)
    <2>1. Hears(1, 1)
      BY <1>1, <1>3, KeepAliveHeard
    <2> QED BY <2>1
  <1>4. CASE m.kind = "batch" /\ P!Answer(<<>>, [client EXCEPT !.chunks = (@ \ m.drop) \cup m.add])
    <2>1. m.drop \in SUBSET Chunks /\ m.add \in SUBSET Chunks
      BY <1>1, <1>4, DownwardParts
    <2> DEFINE c == [client EXCEPT !.chunks = (@ \ m.drop) \cup m.add]
    <2>2. /\ c \in [place : Places, chunks : SUBSET Chunks, dead : BOOLEAN] /\ c.place = client.place
          /\ c.chunks = (client.chunks \ m.drop) \cup m.add
      BY <2>1, ClientTyped
    <2>3. P!Answer(<<>>, c)
      BY <1>4
    <2> HIDE DEF c
    <2>4. Hears(1, 0)
      BY <1>1, <1>4, <2>2, <2>3, SilentlyHeard
    <2> QED BY <2>4
  <1>5. ASSUME NEW b \in BOOLEAN, m.kind \in {"died", "respawned"},
               P!Answer(<<>>, [client EXCEPT !.dead = b])
        PROVE  \E s \in 0..1, n \in 0..2 : Hears(s, n)
    <2> DEFINE c == [client EXCEPT !.dead = b]
    <2>1. /\ c \in [place : Places, chunks : SUBSET Chunks, dead : BOOLEAN] /\ c.place = client.place
          /\ c.chunks = client.chunks
      BY ClientTyped
    <2>2. P!Answer(<<>>, c)
      BY <1>5
    <2> HIDE DEF c
    <2>3. Hears(1, 0)
      BY <1>1, <1>5, <2>1, <2>2, SilentlyHeard
    <2> QED BY <2>3
  <1> QED BY <1>1, <1>2, <1>3, <1>4, <1>5 DEF P!ClientReceives

LEMMA MovesHeard ==
  ASSUME PlayTypes, NEW p \in Places, P!ClientMoves(p)
  PROVE  Hears(0, 1)
  <1>1. /\ toServer' = Append(toServer, P!Move(p)) /\ toClient' = toClient
        /\ client' = [client EXCEPT !.place = p] /\ Still
    BY DEF P!ClientMoves, P!Send, P!where, P!teleports, P!keepAlive, Still
  <1>2. P!Move(p) \in Upward /\ P!Move(p).kind = "move_player_pos" /\ P!Move(p).place = p
    BY UpwardTyped DEF P!Move
  <1>3. Posts(1) /\ Told(1) = P!Move(p)
    BY <1>1, <1>2, TellsOneMore
  <1>4. /\ client' \in [place : Places, chunks : SUBSET Chunks, dead : BOOLEAN]
        /\ client'.place = p /\ client'.chunks = client.chunks
    BY <1>1, ClientTyped
  <1>5. HearsAccepts(0, 1) /\ HearsPlace(1)
    BY <1>2, <1>3, <1>4 DEF HearsAccepts, HearsPlace
  <1>6. HearsWindow(0) /\ HearsKeepAlive(0, 1)
    BY <1>2, <1>3, <1>4 DEF HearsWindow, HearsKeepAlive
  <1> QED BY <1>1, <1>3, <1>4, <1>5, <1>6, DropsNone DEF Hears

LEMMA AsksHeard ==
  ASSUME PlayTypes, P!ClientAsks
  PROVE  Hears(0, 1)
  <1>1. PICK m \in Upward : m.kind \in {"tp", "kill", "perform_respawn"} /\ P!Send(m)
    <2>1. CASE \E p \in Places : ~client.dead /\ P!Send(P!TpCommand(p))
      <3>1. PICK p \in Places : P!Send(P!TpCommand(p))
        BY <2>1
      <3>2. P!TpCommand(p) \in Upward /\ P!TpCommand(p).kind = "tp"
        BY UpwardTyped DEF P!TpCommand
      <3> QED BY <3>1, <3>2
    <2>2. CASE P!Send(P!KillCommand)
      <3>1. P!KillCommand \in Upward /\ P!KillCommand.kind = "kill"
        BY UpwardTyped DEF P!KillCommand
      <3> QED BY <2>2, <3>1
    <2>3. CASE P!Send(P!Respawn)
      <3>1. P!Respawn \in Upward /\ P!Respawn.kind = "perform_respawn"
        BY UpwardTyped DEF P!Respawn
      <3> QED BY <2>3, <3>1
    <2> QED BY <2>1, <2>2, <2>3 DEF P!ClientAsks
  <1>2. toServer' = Append(toServer, m) /\ toClient' = toClient /\ client' = client /\ Still
    BY <1>1 DEF P!ClientAsks, P!Send, P!where, P!teleports, P!keepAlive, Still
  <1>3. Posts(1) /\ Told(1) = m
    BY <1>2, TellsOneMore
  <1>4. client' \in [place : Places, chunks : SUBSET Chunks, dead : BOOLEAN]
    BY <1>2, ClientTyped
  <1>5. HearsAccepts(0, 1) /\ HearsPlace(1)
    BY <1>1, <1>2, <1>3 DEF HearsAccepts, HearsPlace
  <1>6. HearsWindow(0) /\ HearsKeepAlive(0, 1)
    BY <1>1, <1>2, <1>3 DEF HearsWindow, HearsKeepAlive
  <1> QED BY <1>2, <1>3, <1>4, <1>5, <1>6, DropsNone DEF Hears

---------------------------------------------------------------------------
\* A message of the stream to the server was there, or has just been sent.
Extends(n) ==
  /\ Len(toServer) \in Nat /\ Len(toServer') \in Nat /\ Len(toServer') = Len(toServer) + n
  /\ \A i \in 1..Len(toServer) : i \in 1..Len(toServer') /\ toServer'[i] = toServer[i]
  /\ \A k \in 1..n : Len(toServer) + k \in 1..Len(toServer') /\ toServer'[Len(toServer) + k] = Told(k)
  /\ \A i \in 1..Len(toServer') :
       \/ i \in 1..Len(toServer) /\ toServer'[i] = toServer[i]
       \/ \E k \in 1..n : i = Len(toServer) + k /\ toServer'[i] = Told(k)

LEMMA TellsExtends ==
  ASSUME PlayTypes, NEW n \in 0..2, Posts(n)
  PROVE  Extends(n)
  <1> DEFINE l == Len(toServer)
             m == Len(toServer')
  <1>1. l \in Nat /\ m = l + n /\ m \in Nat /\ \A i \in 1..l : toServer'[i] = toServer[i]
    BY DEF Posts, Grows, PlayTypes
  <1>2. \A k \in 1..n : toServer'[l + k] = Told(k)
    BY DEF Told, Following
  <1> HIDE DEF l, m
  <1>3. \A i \in 1..l : i \in 1..m
    BY <1>1
  <1>4. \A k \in 1..n : l + k \in 1..m
    BY <1>1
  <1>5. ASSUME NEW i \in 1..m, i \notin 1..l
        PROVE  i - l \in 1..n /\ i = l + (i - l)
    BY <1>1, <1>5
  <1>6. \A i \in 1..m :
          \/ i \in 1..l /\ toServer'[i] = toServer[i]
          \/ \E k \in 1..n : i = l + k /\ toServer'[i] = Told(k)
    BY <1>1, <1>2, <1>5
  <1> QED BY <1>1, <1>2, <1>3, <1>4, <1>6 DEF Extends, l, m

\* A step of the client keeps the invariant, part by part.
LEMMA NumberedHeard ==
  ASSUME PlayTypes, Numbered, NEW s \in 0..1, NEW n \in 0..2, Hears(s, n)
  PROVE  Numbered'
  <1>1. Drops(s)
    BY DEF Hears
  <1>2. Extends(n)
    BY TellsExtends DEF Hears
  <1>3. nextId' = nextId /\ confirmed' = confirmed
    BY DEF Hears, Still
  <1>4. ASSUME NEW i \in 1..Len(toClient')
        PROVE  i + s \in 1..Len(toClient) /\ toClient'[i] = toClient[i + s]
    BY <1>1 DEF Drops
  <1>5. ASSUME NEW k \in 1..n, Told(k).kind = "accept_teleportation"
        PROVE  /\ k = 1 /\ s = 1 /\ 1 \in 1..Len(toClient)
               /\ toClient[1].kind = "teleport" /\ Told(k).id = toClient[1].id
    BY <1>1, <1>5 DEF Hears, HearsAccepts, Drops
  <1>6. \A i \in 1..Len(toClient') : toClient'[i].kind = "teleport" => toClient'[i].id \in 1..nextId'
    BY <1>3, <1>4 DEF Numbered
  <1>7. ASSUME NEW i \in 1..Len(toServer'), toServer'[i].kind = "accept_teleportation"
        PROVE  toServer'[i].id \in 1..nextId'
    <2>1. CASE i \in 1..Len(toServer) /\ toServer'[i] = toServer[i]
      BY <1>3, <1>7, <2>1 DEF Numbered
    <2>2. CASE \E k \in 1..n : i = Len(toServer) + k /\ toServer'[i] = Told(k)
      BY <1>3, <1>5, <1>7, <2>2 DEF Numbered
    <2> QED BY <1>2, <2>1, <2>2 DEF Extends
  <1>8. ASSUME NEW i \in 1..Len(toClient'), NEW j \in 1..Len(toClient'), i < j,
               toClient'[i].kind = "teleport", toClient'[j].kind = "teleport"
        PROVE  toClient'[i].id < toClient'[j].id
    <2>1. i + s < j + s
      BY <1>8
    <2> QED BY <1>4, <1>8, <2>1 DEF Numbered
  <1>9. ASSUME NEW i \in 1..Len(toServer'), NEW j \in 1..Len(toServer'), i < j,
               toServer'[i].kind = "accept_teleportation", toServer'[j].kind = "accept_teleportation"
        PROVE  toServer'[i].id < toServer'[j].id
    <2>1. CASE j \in 1..Len(toServer) /\ toServer'[j] = toServer[j]
      <3>1. i \in 1..Len(toServer)
        BY <1>2, <1>9, <2>1 DEF Extends
      <3>2. toServer'[i] = toServer[i]
        BY <1>2, <3>1 DEF Extends
      <3> QED BY <1>9, <2>1, <3>1, <3>2 DEF Numbered
    <2>2. CASE \E k \in 1..n : j = Len(toServer) + k /\ toServer'[j] = Told(k)
      <3>1. PICK k \in 1..n : j = Len(toServer) + k /\ toServer'[j] = Told(k)
        BY <2>2
      <3>2. /\ k = 1 /\ s = 1 /\ 1 \in 1..Len(toClient)
            /\ toClient[1].kind = "teleport" /\ toServer'[j].id = toClient[1].id
        BY <1>5, <1>9, <3>1
      <3>3. i \in 1..Len(toServer)
        BY <1>2, <1>9, <3>1, <3>2 DEF Extends
      <3>4. toServer'[i] = toServer[i]
        BY <1>2, <3>3 DEF Extends
      <3> QED BY <1>9, <3>2, <3>3, <3>4 DEF Numbered
    <2> QED BY <1>2, <2>1, <2>2 DEF Extends
  <1>10. ASSUME NEW i \in 1..Len(toServer'), NEW j \in 1..Len(toClient'),
                toServer'[i].kind = "accept_teleportation", toClient'[j].kind = "teleport"
         PROVE  toServer'[i].id < toClient'[j].id
    <2>1. j + s \in 1..Len(toClient) /\ toClient'[j] = toClient[j + s]
      BY <1>4
    <2>2. CASE i \in 1..Len(toServer) /\ toServer'[i] = toServer[i]
      BY <1>10, <2>1, <2>2 DEF Numbered
    <2>3. CASE \E k \in 1..n : i = Len(toServer) + k /\ toServer'[i] = Told(k)
      <3>1. /\ s = 1 /\ 1 \in 1..Len(toClient)
            /\ toClient[1].kind = "teleport" /\ toServer'[i].id = toClient[1].id
        BY <1>5, <1>10, <2>3
      <3>2. 1 < j + s
        BY <3>1
      <3> QED BY <1>10, <2>1, <3>1, <3>2 DEF Numbered
    <2> QED BY <1>2, <2>2, <2>3 DEF Extends
  <1>11. ASSUME confirmed'
         PROVE  No(toClient', "teleport") /\ No(toServer', "accept_teleportation")
    <2>1. No(toClient, "teleport") /\ No(toServer, "accept_teleportation")
      BY <1>3, <1>11 DEF Numbered
    <2>2. No(toClient', "teleport")
      BY <1>4, <2>1 DEF No
    <2>3. ASSUME NEW i \in 1..Len(toServer'), toServer'[i].kind = "accept_teleportation"
          PROVE  FALSE
      BY <1>2, <1>5, <2>1, <2>3 DEF No, Extends
    <2> QED BY <2>2, <2>3 DEF No
  <1>12. \A i \in 1..Len(toServer') :
           toServer'[i].kind = "accept_teleportation" => toServer'[i].id \in 1..nextId'
    BY <1>7
  <1> QED BY <1>6, <1>8, <1>9, <1>10, <1>11, <1>12 DEF Numbered

LEMMA PlacedHeard ==
  ASSUME PlayTypes, Placed, NEW s \in 0..1, NEW n \in 0..2, Hears(s, n)
  PROVE  Placed'
  <1>1. Extends(n)
    BY TellsExtends DEF Hears
  <1>2. /\ position' = position /\ confirmed' = confirmed /\ playDead' = playDead /\ streamed' = streamed
        /\ HearsPlace(n) /\ HearsAccepts(s, n)
    BY DEF Hears, Still
  <1>3. ASSUME NEW i \in 1..Len(toServer'), toServer'[i].kind = "accept_teleportation"
        PROVE  i < Len(toServer') /\ toServer'[i + 1].kind = "move_player_pos"
    <2>1. CASE i \in 1..Len(toServer) /\ toServer'[i] = toServer[i]
      <3>1. i < Len(toServer) /\ toServer[i + 1].kind = "move_player_pos"
        BY <1>3, <2>1 DEF Placed
      <3>2. i + 1 \in 1..Len(toServer) /\ i < Len(toServer')
        BY <1>1, <3>1 DEF Extends
      <3>3. toServer'[i + 1] = toServer[i + 1]
        BY <1>1, <3>2 DEF Extends
      <3> QED BY <3>1, <3>2, <3>3
    <2>2. CASE \E k \in 1..n : i = Len(toServer) + k /\ toServer'[i] = Told(k)
      <3>1. PICK k \in 1..n : i = Len(toServer) + k /\ toServer'[i] = Told(k)
        BY <2>2
      <3>2. k = 1 /\ n = 2 /\ Told(2).kind = "move_player_pos"
        BY <1>2, <1>3, <3>1 DEF HearsAccepts
      <3>3. 2 \in 1..n /\ i + 1 = Len(toServer) + 2
        BY <1>1, <3>1, <3>2 DEF Extends
      <3>4. i + 1 \in 1..Len(toServer') /\ toServer'[i + 1] = Told(2)
        BY <1>1, <3>3 DEF Extends
      <3>5. i < Len(toServer')
        BY <3>4
      <3> QED BY <3>2, <3>4, <3>5
    <2> QED BY <1>1, <2>1, <2>2 DEF Extends
  <1>4. CASE client'.place = client.place /\ \A k \in 1..n : Told(k).kind # "move_player_pos"
    <2>1. ASSUME NEW i \in 1..Len(toServer'), toServer'[i].kind = "move_player_pos"
          PROVE  i \in 1..Len(toServer) /\ toServer'[i] = toServer[i]
      BY <1>1, <1>4, <2>1 DEF Extends
    <2>2. ASSUME NEW i \in 1..Len(toServer'), toServer'[i].kind = "move_player_pos"
          PROVE  \/ toServer'[i].place = client'.place
                 \/ \E j \in i + 1..Len(toServer') : toServer'[j].kind = "move_player_pos"
      <3>1. i \in 1..Len(toServer) /\ toServer'[i] = toServer[i]
        BY <2>1, <2>2
      <3>2. CASE toServer[i].place = client.place
        BY <1>4, <3>1, <3>2
      <3>3. CASE \E j \in i + 1..Len(toServer) : toServer[j].kind = "move_player_pos"
        <4>1. PICK j \in i + 1..Len(toServer) : toServer[j].kind = "move_player_pos"
          BY <3>3
        <4>2. j \in 1..Len(toServer)
          BY <3>1, <4>1
        <4>3. j \in i + 1..Len(toServer') /\ toServer'[j] = toServer[j]
          BY <1>1, <4>1, <4>2 DEF Extends
        <4> QED BY <4>1, <4>3
      <3> QED BY <2>2, <3>1, <3>2, <3>3 DEF Placed
    <2>3. No(toServer', "move_player_pos") => No(toServer, "move_player_pos")
      BY <1>1 DEF No, Extends
    <2>4. confirmed' /\ ~playDead' /\ No(toServer', "move_player_pos") => position' = client'.place
      BY <1>2, <1>4, <2>3 DEF Placed
    <2>5. confirmed' => streamed' = position'
      BY <1>2 DEF Placed
    <2> QED BY <1>3, <2>2, <2>4, <2>5 DEF Placed
  <1>5. CASE /\ n # 0 /\ Told(n).kind = "move_player_pos" /\ Told(n).place = client'.place
             /\ \A k \in 1..n : Told(k).kind = "move_player_pos" => k = n
    <2> DEFINE l == Len(toServer) + n
    <2>1. n \in 1..n
      BY <1>5
    <2>2. l \in 1..Len(toServer') /\ l = Len(toServer') /\ toServer'[l] = Told(n)
      BY <1>1, <2>1 DEF Extends
    <2> HIDE DEF l
    <2>3. ASSUME NEW i \in 1..Len(toServer'), i # l
          PROVE  l \in i + 1..Len(toServer')
      BY <1>1, <2>2, <2>3 DEF Extends
    <2>4. ASSUME NEW i \in 1..Len(toServer'), toServer'[i].kind = "move_player_pos"
          PROVE  \/ toServer'[i].place = client'.place
                 \/ \E j \in i + 1..Len(toServer') : toServer'[j].kind = "move_player_pos"
      <3>1. CASE i = l
        BY <1>5, <2>2, <3>1
      <3>2. CASE i # l
        BY <1>5, <2>2, <2>3, <3>2
      <3> QED BY <3>1, <3>2
    <2>5. ~No(toServer', "move_player_pos")
      BY <1>5, <2>2 DEF No
    <2>6. confirmed' => streamed' = position'
      BY <1>2 DEF Placed
    <2> QED BY <1>3, <2>4, <2>5, <2>6 DEF Placed
  <1> QED BY <1>2, <1>4, <1>5 DEF HearsPlace

LEMMA WindowedHeard ==
  ASSUME PlayTypes, Windowed, NEW s \in 0..1, NEW n \in 0..2, Hears(s, n)
  PROVE  Windowed'
  <1>1. Drops(s) /\ chunks' = chunks /\ HearsWindow(s)
    BY DEF Hears, Still
  <1>2. ASSUME NEW i \in 1..Len(toClient')
        PROVE  i + s \in 1..Len(toClient) /\ toClient'[i] = toClient[i + s]
    BY <1>1 DEF Drops
  <1>3. ASSUME NEW c \in Chunks
        PROVE  Tracks(c)'
    <2>1. Tracks(c)
      BY DEF Windowed, Tracks
    <2>2. ASSUME NEW i \in 1..Len(toClient'), NEW j \in (i + s) + 1..Len(toClient), Mentions(toClient[j], c)
          PROVE  \E k \in i + 1..Len(toClient') : Mentions(toClient'[k], c)
      <3>1. j - s \in i + 1..Len(toClient') /\ j - s \in 1..Len(toClient') /\ (j - s) + s = j
        BY <1>1 DEF Drops
      <3>2. toClient'[j - s] = toClient[(j - s) + s]
        BY <1>2, <3>1
      <3>3. Mentions(toClient'[j - s], c)
        BY <2>2, <3>1, <3>2
      <3> QED BY <3>1, <3>3
    <2>3. ASSUME NEW i \in 1..Len(toClient'), Mentions(toClient'[i], c)
          PROVE  \/ c \in toClient'[i].add <=> c \in chunks'
                 \/ \E j \in i + 1..Len(toClient') : Mentions(toClient'[j], c)
      <3>1. i + s \in 1..Len(toClient) /\ toClient'[i] = toClient[i + s]
        BY <1>2
      <3>2. \/ c \in toClient[i + s].add <=> c \in chunks
            \/ \E j \in (i + s) + 1..Len(toClient) : Mentions(toClient[j], c)
        BY <2>1, <2>3, <3>1 DEF Tracks
      <3> QED BY <1>1, <2>2, <3>1, <3>2
    <2>4. ASSUME NEW j \in 1..Len(toClient), Mentions(toClient[j], c), j # 1 \/ s = 0
          PROVE  \E k \in 1..Len(toClient') : Mentions(toClient'[k], c)
      <3>1. j - s \in 1..Len(toClient') /\ (j - s) + s = j
        BY <1>1, <2>4 DEF Drops
      <3>2. toClient'[j - s] = toClient[(j - s) + s]
        BY <1>2, <3>1
      <3> QED BY <2>4, <3>1, <3>2
    <2>5. ASSUME \A i \in 1..Len(toClient') : ~Mentions(toClient'[i], c)
          PROVE  c \in client'.chunks <=> c \in chunks'
      <3>1. CASE s = 1 /\ toClient[1].kind = "batch" /\ Mentions(toClient[1], c)
        <4>1. client'.chunks = (client.chunks \ toClient[1].drop) \cup toClient[1].add
          BY <1>1, <3>1 DEF HearsWindow
        <4>2. c \in toClient[1].drop \cup toClient[1].add /\ 1 \in 1..Len(toClient)
          BY <1>1, <3>1 DEF Mentions, Drops
        <4>3. c \in client'.chunks <=> c \in toClient[1].add
          BY <4>1, <4>2
        <4>4. \A j \in 1 + 1..Len(toClient) : j \in 1..Len(toClient) /\ j # 1
          OBVIOUS
        <4>5. ~\E j \in 1 + 1..Len(toClient) : Mentions(toClient[j], c)
          BY <2>4, <2>5, <4>4
        <4>6. c \in toClient[1].add <=> c \in chunks
          BY <2>1, <3>1, <4>2, <4>5 DEF Tracks
        <4> QED BY <1>1, <4>3, <4>6
      <3>2. CASE ~(s = 1 /\ toClient[1].kind = "batch" /\ Mentions(toClient[1], c))
        <4>1. \A j \in 1..Len(toClient) : ~Mentions(toClient[j], c)
          <5>1. ASSUME NEW j \in 1..Len(toClient), Mentions(toClient[j], c)
                PROVE  FALSE
            <6>1. CASE j # 1 \/ s = 0
              BY <2>4, <2>5, <5>1, <6>1
            <6>2. CASE j = 1 /\ s = 1
              BY <3>2, <5>1, <6>2 DEF Mentions
            <6> QED BY <6>1, <6>2
          <5> QED BY <5>1
        <4>2. c \in client'.chunks <=> c \in client.chunks
          <5>1. CASE client'.chunks = client.chunks
            BY <5>1
          <5>2. CASE /\ s = 1 /\ toClient[1].kind = "batch"
                     /\ client'.chunks = (client.chunks \ toClient[1].drop) \cup toClient[1].add
            <6>1. c \notin toClient[1].drop \cup toClient[1].add
              BY <3>2, <5>2 DEF Mentions
            <6> QED BY <5>2, <6>1
          <5> QED BY <1>1, <5>1, <5>2 DEF HearsWindow
        <4> QED BY <1>1, <2>1, <4>1, <4>2 DEF Tracks
      <3> QED BY <3>1, <3>2
    <2> QED BY <2>3, <2>5 DEF Tracks
  <1> QED BY <1>3 DEF Windowed, Tracks

LEMMA KeptHeard ==
  ASSUME PlayTypes, Kept, NEW s \in 0..1, NEW n \in 0..2, Hears(s, n)
  PROVE  Kept'
  <1>1. Drops(s) /\ keepPending' = keepPending /\ end' = end /\ HearsKeepAlive(s, n)
    BY DEF Hears, Still
  <1>2. Extends(n)
    BY TellsExtends DEF Hears
  <1>3. end' \notin {"keep-alive mismatch", "keep-alive timed out"}
    BY <1>1 DEF Kept
  <1>4. ASSUME NEW i \in 1..Len(toClient')
        PROVE  i + s \in 1..Len(toClient) /\ toClient'[i] = toClient[i + s]
    BY <1>1 DEF Drops
  <1>5. Once(toClient', "keep_alive")
    <2>1. ASSUME NEW i \in 1..Len(toClient'), NEW j \in 1..Len(toClient'),
                 toClient'[i].kind = "keep_alive", toClient'[j].kind = "keep_alive"
          PROVE  i = j
      <3>1. i + s = j + s
        BY <1>4, <2>1 DEF Kept, Once
      <3> QED BY <3>1
    <2> QED BY <2>1 DEF Once
  <1>6. \A i \in 1..Len(toClient') : toClient'[i].kind = "keep_alive" => toClient'[i].id = keepPending'
    BY <1>1, <1>4 DEF Kept
  <1>7. CASE (\A i \in 1..n : Told(i).kind # "keep_alive") /\ (s = 0 \/ toClient[1].kind # "keep_alive")
    <2>1. ASSUME NEW i \in 1..Len(toServer'), toServer'[i].kind = "keep_alive"
          PROVE  i \in 1..Len(toServer) /\ toServer'[i] = toServer[i]
      BY <1>2, <1>7, <2>1 DEF Extends
    <2>2. Once(toServer', "keep_alive")
      BY <2>1 DEF Kept, Once
    <2>3. \A i \in 1..Len(toServer') : toServer'[i].kind = "keep_alive" => toServer'[i].id = keepPending'
      BY <1>1, <2>1 DEF Kept
    <2>4. No(toServer, "keep_alive") => No(toServer', "keep_alive")
      BY <2>1 DEF No
    <2>5. No(toClient, "keep_alive") => No(toClient', "keep_alive")
      BY <1>4 DEF No
    <2>6. ~No(toServer, "keep_alive") => ~No(toServer', "keep_alive")
      BY <1>2 DEF No, Extends
    <2>7. ASSUME ~No(toClient, "keep_alive")
          PROVE  ~No(toClient', "keep_alive")
      <3>1. PICK i \in 1..Len(toClient) : toClient[i].kind = "keep_alive"
        BY <2>7 DEF No
      <3>2. i - s \in 1..Len(toClient') /\ (i - s) + s = i
        BY <1>1, <1>7, <3>1 DEF Drops
      <3>3. toClient'[i - s] = toClient[(i - s) + s]
        BY <1>4, <3>2
      <3>4. toClient'[i - s].kind = "keep_alive"
        BY <3>1, <3>2, <3>3
      <3> QED BY <3>2, <3>4 DEF No
    <2>8. No(toClient', "keep_alive") \/ No(toServer', "keep_alive")
      BY <2>4, <2>5 DEF Kept
    <2>9. keepPending' # 0 => ~No(toClient', "keep_alive") \/ ~No(toServer', "keep_alive")
      BY <1>1, <2>6, <2>7 DEF Kept
    <2> QED BY <1>3, <1>5, <1>6, <2>2, <2>3, <2>8, <2>9 DEF Kept
  <1>8. CASE /\ s = 1 /\ toClient[1].kind = "keep_alive"
             /\ n = 1 /\ Told(1).kind = "keep_alive" /\ Told(1).id = toClient[1].id
    <2>1. 1 \in 1..Len(toClient)
      BY <1>1, <1>8 DEF Drops
    <2>2. No(toServer, "keep_alive") /\ toClient[1].id = keepPending
      BY <1>8, <2>1 DEF Kept, No
    <2>3. ASSUME NEW i \in 1..Len(toClient'), toClient'[i].kind = "keep_alive"
          PROVE  FALSE
      <3>1. i + 1 \in 1..Len(toClient) /\ i + 1 # 1 /\ toClient[i + 1].kind = "keep_alive"
        BY <1>4, <1>8, <2>3
      <3> QED BY <1>8, <2>1, <3>1 DEF Kept, Once
    <2>4. No(toClient', "keep_alive")
      BY <2>3 DEF No
    <2> DEFINE l == Len(toServer) + 1
    <2>5. l \in 1..Len(toServer') /\ toServer'[l] = Told(1)
      BY <1>2, <1>8 DEF Extends
    <2>6. ASSUME NEW i \in 1..Len(toServer'), toServer'[i].kind = "keep_alive"
          PROVE  i = l
      <3>1. CASE i \in 1..Len(toServer) /\ toServer'[i] = toServer[i]
        BY <2>2, <2>6, <3>1 DEF No
      <3>2. CASE \E k \in 1..n : i = Len(toServer) + k /\ toServer'[i] = Told(k)
        BY <1>8, <3>2
      <3> QED BY <1>2, <3>1, <3>2 DEF Extends
    <2> HIDE DEF l
    <2>7. Once(toServer', "keep_alive")
      BY <2>6 DEF Once
    <2>8. \A i \in 1..Len(toServer') : toServer'[i].kind = "keep_alive" => toServer'[i].id = keepPending'
      BY <1>1, <1>8, <2>2, <2>5, <2>6
    <2>9. ~No(toServer', "keep_alive")
      BY <1>8, <2>5 DEF No
    <2> QED BY <1>3, <1>5, <1>6, <2>4, <2>7, <2>8, <2>9 DEF Kept
  <1> QED BY <1>1, <1>7, <1>8 DEF HearsKeepAlive

LEMMA TypesHeard ==
  ASSUME PlayTypes, NEW s \in 0..1, NEW n \in 0..2, Hears(s, n)
  PROVE  PlayTypes'
  BY DEF Hears, Still, Drops, Posts, PlayTypes

LEMMA HeardSafe ==
  ASSUME PlayInv, NEW s \in 0..1, NEW n \in 0..2, Hears(s, n)
  PROVE  PlayInv'
  BY TypesHeard, NumberedHeard, PlacedHeard, WindowedHeard, KeptHeard DEF PlayInv

---------------------------------------------------------------------------
\* Every step of the server and of the client, and none, keeps the invariant.
LEMMA ServerServed ==
  ASSUME PlayInv,
         \/ P!DropFromDead \/ P!HandleAccept \/ P!HandleMove \/ P!HandleTp \/ P!HandleKill
         \/ P!HandleRespawn \/ P!HandleKeepAlive \/ P!Hurt \/ P!Tick
  PROVE  PlayInv'
  <1>1. PlayTypes /\ Numbered /\ Placed /\ Kept /\ P!PlayConstants
    BY PlayAssumption DEF PlayInv
  <1>2. ASSUME P!DropFromDead \/ P!HandleKill \/ P!HandleKeepAlive \/ P!Hurt
        PROVE  \E n \in 0..3 : Serves(n)
    <2>1. Serves(0) \/ Serves(1)
      BY <1>1, <1>2, DropStep, KillStep, KeepAliveStep, HurtStep
    <2> QED BY <2>1
  <1>3. ASSUME P!HandleAccept \/ P!HandleMove \/ P!Tick
        PROVE  \E n \in 0..3 : Serves(n)
    <2>1. \E n \in 0..1 : Serves(n)
      BY <1>1, <1>3, AcceptStep, MoveStep, TimersStep
    <2> QED BY <2>1
  <1>4. ASSUME P!HandleTp
        PROVE  \E n \in 0..3 : Serves(n)
    <2>1. \E n \in 1..3 : Serves(n)
      BY <1>1, <1>4, TpStep
    <2> QED BY <2>1
  <1>5. ASSUME P!HandleRespawn
        PROVE  \E n \in 0..3 : Serves(n)
    BY <1>1, <1>5, RespawnStep
  <1>6. PICK n \in 0..3 : Serves(n)
    BY <1>2, <1>3, <1>4, <1>5
  <1> QED BY <1>6, ServedSafe

LEMMA ClientHeard ==
  ASSUME PlayInv, P!ClientReceives \/ P!ClientAsks \/ \E p \in Places : P!ClientMoves(p)
  PROVE  PlayInv'
  <1>1. PlayTypes
    BY DEF PlayInv
  <1>2. PICK s \in 0..1, n \in 0..2 : Hears(s, n)
    <2>1. CASE P!ClientReceives
      BY <1>1, <2>1, ReceivesHeard
    <2>2. CASE P!ClientAsks \/ \E p \in Places : P!ClientMoves(p)
      <3>1. Hears(0, 1)
        BY <1>1, <2>2, AsksHeard, MovesHeard
      <3> QED BY <3>1
    <2> QED BY <2>1, <2>2
  <1> QED BY <1>2, HeardSafe

LEMMA PlayStuttering ==
  ASSUME PlayInv, UNCHANGED playVars
  PROVE  PlayInv'
  <1>1. PlayTypes'
    BY DEF PlayInv, PlayTypes, playVars
  <1>2. Numbered' /\ Placed'
    BY DEF PlayInv, Numbered, Placed, No, playVars
  <1>3. Windowed' /\ Kept'
    BY DEF PlayInv, Windowed, Kept, No, Once, playVars
  <1> QED BY <1>1, <1>2, <1>3 DEF PlayInv

LEMMA PlayInit ==
  ASSUME P!Init
  PROVE  PlayInv
  <1> DEFINE a == P!Teleport(1, Home)
             b == P!Batch({}, Window[Home])
  <1>1. Home \in Places
    BY PlayAssumption DEF P!PlayConstants
  <1>2. /\ a \in Downward /\ a.kind = "teleport" /\ a.id = 1
        /\ b \in Downward /\ b.kind = "batch" /\ b.drop = {} /\ b.add = Window[Home]
    <2>1. Window[Home] \in SUBSET Chunks /\ {} \in SUBSET Chunks
      BY <1>1, WindowsTyped
    <2> QED BY <1>1, <2>1, DownwardTyped DEF P!Teleport, P!Batch
  <1>3. /\ position = Home /\ center = Home /\ streamed = Home /\ chunks = Window[Home]
        /\ nextId = 1 /\ pending = 1 /\ confirmed = FALSE /\ playDead = FALSE
        /\ keepSent = 0 /\ keepPending = 0 /\ keepAge = 0 /\ end = "running"
        /\ client = [place |-> Home, chunks |-> {}, dead |-> FALSE]
        /\ toClient = <<a, b>> /\ toServer = <<>>
    BY DEF P!Init
  <1> HIDE DEF a, b
  <1>4. /\ toClient \in Seq(Downward) /\ Len(toClient) = 2 /\ toClient[1] = a /\ toClient[2] = b
        /\ toServer \in Seq(Upward) /\ Len(toServer) = 0
    BY <1>2, <1>3
  <1>5. (\A i \in 1..Len(toClient) : i = 1 \/ i = 2) /\ \A i \in 1..Len(toServer) : FALSE
    BY <1>4
  <1>6. PlayTypes
    <2>1. client \in [place : Places, chunks : SUBSET Chunks, dead : BOOLEAN]
      BY <1>1, <1>3
    <2>2. 1 \in Nat \ {0} /\ 0 \in Nat /\ 0 \in 0..0
      OBVIOUS
    <2> QED BY <1>1, <1>3, <1>4, <2>1, <2>2 DEF PlayTypes
  <1>7. Numbered
    BY <1>2, <1>3, <1>4, <1>5 DEF Numbered
  <1>8. Placed
    BY <1>3, <1>5 DEF Placed
  <1>9. Windowed
    <2>1. ASSUME NEW c \in Chunks
          PROVE  Tracks(c)
      <3>1. CASE c \in Window[Home]
        <4>1. 2 \in 1..Len(toClient) /\ Mentions(toClient[2], c) /\ 2 \in 1 + 1..Len(toClient)
          BY <1>2, <1>4, <3>1 DEF Mentions
        <4>2. ~Mentions(toClient[1], c)
          BY <1>2, <1>4 DEF Mentions
        <4>3. c \in toClient[2].add <=> c \in chunks
          BY <1>2, <1>3, <1>4
        <4> QED BY <1>5, <4>1, <4>2, <4>3 DEF Tracks
      <3>2. CASE c \notin Window[Home]
        <4>1. \A i \in 1..Len(toClient) : ~Mentions(toClient[i], c)
          BY <1>2, <1>4, <1>5, <3>2 DEF Mentions
        <4>2. c \notin client.chunks /\ c \notin chunks
          BY <1>3, <3>2
        <4> QED BY <4>1, <4>2 DEF Tracks
      <3> QED BY <3>1, <3>2
    <2> QED BY <2>1 DEF Windowed, Tracks
  <1>10. No(toClient, "keep_alive") /\ No(toServer, "keep_alive")
    BY <1>2, <1>4, <1>5 DEF No
  <1>11. Kept
    BY <1>3, <1>10 DEF Kept, No, Once
  <1> QED BY <1>6, <1>7, <1>8, <1>9, <1>11 DEF PlayInv

\* The invariant always holds.
LEMMA PlayAlways == P!Spec => []PlayInv
  <1>1. P!Init => PlayInv
    BY PlayInit
  <1>2. PlayInv /\ [P!Next]_playVars => PlayInv'
    BY ServerServed, ClientHeard, PlayStuttering DEF P!Next
  <1> QED BY <1>1, <1>2, PTL DEF P!Spec, P!vars, playVars

\* For any places, windows and timers the constructor accepts: an acknowledged teleport has
\* been applied by the client and none is under way, and once nothing is in flight the two
\* sides agree on the place and on the chunks of its window.
THEOREM PlacesAgreeCorrect == P!Spec => []PlacesAgree
  <1>1. PlayInv => P!ConfirmedMeansApplied
    BY DEF PlayInv, Numbered, No, P!ConfirmedMeansApplied, P!Kinds
  <1>2. PlayInv => P!Agreement
    <2> SUFFICES ASSUME PlayInv, confirmed, ~playDead, toClient = <<>>, toServer = <<>>
                 PROVE  client.place = position /\ client.chunks = chunks /\ client.chunks = Window[client.place]
      BY DEF P!Agreement
    <2>1. (\A i \in 1..Len(toClient) : FALSE) /\ \A i \in 1..Len(toServer) : FALSE
      OBVIOUS
    <2>2. PlayTypes /\ Placed /\ Windowed
      BY DEF PlayInv
    <2>3. client.place = position /\ streamed = position
      BY <2>1, <2>2 DEF Placed, No
    <2>4. client.chunks \in SUBSET Chunks
      BY <2>2 DEF PlayTypes
    <2>5. chunks = Window[streamed] /\ chunks \in SUBSET Chunks
      BY <2>2, WindowsTyped DEF PlayTypes
    <2>6. \A c \in Chunks : c \in client.chunks <=> c \in chunks
      BY <2>1, <2>2 DEF Windowed
    <2>7. client.chunks = chunks
      BY <2>4, <2>5, <2>6
    <2> QED BY <2>3, <2>5, <2>7
  <1> QED BY <1>1, <1>2, PlayAlways, PTL DEF PlacesAgree

\* For any accepted configurations, limits and timers: the server ends no session of a client
\* that answers, neither in the login, where the packet limits leave it room and every answer
\* reaches the read that expects it, nor in play for a keep-alive, late or out of turn.
THEOREM HonestNotRefusedCorrect == L!Spec /\ P!Spec => []HonestNotRefused
  <1>1. GateInv /\ HonestInv => L!HonestNotRefused
    BY DEF HonestInv, Excused, Reasons, L!HonestNotRefused
  <1>2. PlayInv => P!KeepAliveNeverFails
    BY DEF PlayInv, Kept, P!KeepAliveNeverFails
  <1> QED BY <1>1, <1>2, HonestAlways, PlayAlways, PTL DEF HonestNotRefused

\* In any world, with any kit, any recipes and any limits like the code's, what the server
\* has sent is what it has: of the blocks, of the player's body and of its items; and a
\* player whose state_id is a container's has seen that container's slots.
THEOREM ClientSeesCorrect == B!Spec /\ S!Spec /\ H!Spec /\ C!Spec => []ClientSees
  <1>1. BlockInv => B!ViewExact
    BY DEF BlockInv, B!ViewExact
  <1>2. B!ViewExact /\ S!ClientMirrors /\ H!ItemsShown /\ C!SeenIsCurrent => ClientSees
    BY DEF ClientSees
  <1> QED BY <1>1, <1>2, BlockAlways, BodyAlways, ItemsAlways, TableAlways, PTL
=============================================================================
