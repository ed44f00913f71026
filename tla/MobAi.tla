-------------------------------- MODULE MobAi --------------------------------
(***************************************************************************)
(* The goals of one mob (ai.cpp): a GoalSelector gives the controls of its *)
(* body to goals by priority, the goals keep what they know in a Brain,    *)
(* and the play session feeds the brain between game ticks (server.cpp,    *)
(* handle_login).  One step is one goal considered, so that what holds at  *)
(* every step holds in the middle of a tick too.                           *)
(*                                                                         *)
(* What a goal asks of positions, of its target and of the entity's tick   *)
(* counter is a fact about the world, chosen afresh for every tick; how a  *)
(* goal moves the body is left out, with Navigation, which no goal uses.   *)
(***************************************************************************)
EXTENDS Integers, Sequences

CONSTANTS
    PanicTicks,     \* duration_ticks of PanicGoal
    WanderTicks,    \* remaining_ticks_ of a started WanderGoal: 20
    Circumstances   \* the sets of facts a tick can meet

Goals == {"panic", "melee", "owner", "tempt", "flock", "wander"}
Timed == {"panic", "wander"}
Keys == {"panic", "last_seen_position", "target_entity", "tempted",
         "owner_position", "flock_leader"}
Facts == {"tempted_far", "owner_far", "owner_near", "mate_about", "leader_about",
          "wander_due", "target_alive", "target_in_range"}

ASSUME MobAssumption ==
    /\ PanicTicks \in Nat \ {0} /\ WanderTicks \in Nat \ {0}
    /\ Circumstances \subseteq SUBSET Facts

VARIABLES
    category,   \* of the mob: "creature" or "monster"
    attached,   \* MobAiSystem has a state for it
    running,    \* the goals with running_ set
    memory,     \* the keys the Brain holds
    left,       \* remaining_ticks_ of the goals that have them
    suspended,
    tamed, sitting, \* AnimalState, for the mob's owner
    facts,      \* of this tick
    pass, at    \* which pass of the tick, at which goal

vars == <<category, attached, running, memory, left, suspended, tamed, sitting,
          facts, pass, at>>
animal == <<category, tamed, sitting>>

\* attach: the goals of the mob, as add's stable_sort leaves them.
GoalsOf(kind) ==
    IF kind = "monster" THEN <<"melee", "wander">>
    ELSE <<"panic", "owner", "tempt", "flock", "wander">>

Priority(g) ==
    CASE g = "panic" -> 0 [] g = "melee" -> 1 [] g = "owner" -> 1
      [] g = "tempt" -> 2 [] g = "flock" -> 3 [] g = "wander" -> 5

Controls(g) ==
    CASE g = "melee" -> {"move", "look", "target"}
      [] g \in {"panic", "owner", "tempt"} -> {"move", "look"}
      [] g \in {"flock", "wander"} -> {"move"}

\* controls_overlap.
Overlap(g, h) == Controls(g) \cap Controls(h) # {}

\* can_start of each goal, for a brain m and the facts of now.
CanStart(g, m, now) ==
    CASE g = "panic" -> {"panic", "last_seen_position"} \subseteq m
      [] g = "melee" -> "target_entity" \in m /\ "target_alive" \in now
      [] g = "owner" -> "owner_position" \in m /\ "owner_far" \in now
      [] g = "tempt" -> "tempted" \in m /\ "tempted_far" \in now
      [] g = "flock" -> "mate_about" \in now
      [] g = "wander" -> "wander_due" \in now

\* can_continue of each goal.
CanContinue(g, m, now) ==
    CASE g = "panic" -> left["panic"] > 0 /\ "last_seen_position" \in m
      [] g = "melee" -> CanStart(g, m, now) /\ "target_in_range" \in now
      [] g = "owner" -> "owner_position" \in m
                           /\ now \cap {"owner_far", "owner_near"} # {}
      [] g = "tempt" -> CanStart(g, m, now)
      [] g = "flock" -> "flock_leader" \in m /\ "leader_about" \in now
      [] g = "wander" -> left["wander"] > 0

\* The memories that stop erases.
Forgets(g) ==
    CASE g = "panic" -> {"panic", "last_seen_position"}
      [] g = "tempt" -> {"tempted"}
      [] g = "flock" -> {"flock_leader"}
      [] g \in {"melee", "owner", "wander"} -> {}

\* Mutant: a goal keeps the time it had left.
MutStopped(gs) ==
    /\ memory' = memory \ UNION {Forgets(g) : g \in gs}
    /\ left' = left

\* stop, for some of the goals.
Stopped(gs) ==
    /\ memory' = memory \ UNION {Forgets(g) : g \in gs}
    /\ left' = [g \in Timed |-> IF g \in gs THEN 0 ELSE left[g]]

Duration(g) == IF g = "panic" THEN PanicTicks ELSE WanderTicks

Init ==
    /\ category \in {"creature", "monster"}
    /\ attached = TRUE
    /\ running = {} /\ memory = {}
    /\ left = [g \in Timed |-> 0]
    /\ suspended = FALSE /\ tamed = FALSE /\ sitting = FALSE
    /\ facts = {} /\ pass = "idle" /\ at = 1

-----------------------------------------------------------------------------
(* GoalSelector::tick *)

Here == GoalsOf(category)[at]
Advance(next) ==
    IF at < Len(GoalsOf(category)) THEN at' = at + 1 /\ pass' = pass
                                   ELSE at' = 1 /\ pass' = next

\* The first pass: what cannot go on is stopped.
ContinueStep ==
    /\ pass = "continue"
    /\ IF Here \in running /\ ~CanContinue(Here, memory, facts)
       THEN running' = running \ {Here} /\ Stopped({Here})
       ELSE UNCHANGED <<running, memory, left>>
    /\ Advance("start")
    /\ UNCHANGED <<attached, suspended, facts, animal>>

\* A FlockGoal that can start remembers whom it would follow.
Asked(g) == IF g = "flock" THEN {"flock_leader"} ELSE {}

\* Mutant: a control that is held is never taken.
MutBlocked(g) == \E a \in running : Overlap(a, g)

Blocked(g) == \E a \in running : Overlap(a, g) /\ Priority(a) <= Priority(g)

\* Mutant: the goals in the way go on.
MutOusted(g) == {}

\* The goals that a starting goal stops.
Ousted(g) == {a \in running : Overlap(a, g)}

\* The second pass: what can start takes its controls from lesser goals.
StartStep ==
    /\ pass = "start"
    /\ IF Here \in running \/ ~CanStart(Here, memory, facts)
       THEN UNCHANGED <<running, memory, left>>
       ELSE IF Blocked(Here)
       THEN memory' = memory \cup Asked(Here) /\ UNCHANGED <<running, left>>
       ELSE /\ running' = (running \ Ousted(Here)) \cup {Here}
            /\ memory' = (memory \cup Asked(Here))
                            \ UNION {Forgets(g) : g \in Ousted(Here)}
            /\ left' = [g \in Timed |-> IF g = Here THEN Duration(g)
                                        ELSE IF g \in Ousted(Here) THEN 0
                                        ELSE left[g]]
    /\ Advance("tick")
    /\ UNCHANGED <<attached, suspended, facts, animal>>

\* The third pass: the running goals act, and the timed ones count.
TickStep ==
    /\ pass = "tick"
    /\ left' = [g \in Timed |-> IF g \in running /\ left[g] > 0
                                THEN left[g] - 1 ELSE left[g]]
    /\ pass' = "hurt"
    /\ UNCHANGED <<attached, running, memory, suspended, facts, at, animal>>

-----------------------------------------------------------------------------
(* MobAiSystem *)

\* set_suspended: stop_all.
Suspend(s) ==
    /\ suspended' = s
    /\ IF s THEN running' = {} /\ Stopped(running)
       ELSE UNCHANGED <<running, memory, left>>

\* The part of a game tick before mob_ai.tick: the player's food tempts, and a
\* tamed animal sits or follows its owner.
BeforeTick ==
    /\ pass = "idle" /\ attached
    /\ \E food \in BOOLEAN :
          IF tamed /\ category = "creature" /\ sitting
          THEN /\ suspended' = TRUE
               /\ running' = {}
               /\ memory' = (memory \cup IF food THEN {"tempted"} ELSE {})
                               \ UNION {Forgets(g) : g \in running}
               /\ left' = [g \in Timed |-> IF g \in running THEN 0 ELSE left[g]]
          ELSE /\ suspended' = IF tamed THEN FALSE ELSE suspended
               /\ memory' = memory
                     \cup (IF food /\ category = "creature" THEN {"tempted"} ELSE {})
                     \cup (IF tamed THEN {"owner_position"} ELSE {})
               /\ UNCHANGED <<running, left>>
    /\ facts' \in Circumstances
    /\ pass' = "select" /\ at' = 1
    /\ UNCHANGED <<attached, animal>>

\* MobAiSystem::tick: the state of a mob that is gone is erased; a suspended
\* one is passed over.
Select ==
    /\ pass = "select"
    /\ \/ pass' = (IF suspended THEN "hurt" ELSE "continue") /\ UNCHANGED attached
       \/ pass' = "idle" /\ attached' = FALSE
    /\ IF attached' THEN UNCHANGED <<running, memory, left, suspended>>
       ELSE /\ running' = {} /\ memory' = {} /\ suspended' = FALSE
            /\ left' = [g \in Timed |-> 0]
    /\ UNCHANGED <<facts, at, animal>>

\* The second loop of it: a mob just hurt by an attacker that is still there
\* panics.
Hurt ==
    /\ pass = "hurt"
    /\ \/ UNCHANGED memory
       \/ /\ ~suspended /\ category # "monster"
          /\ memory' = memory \cup {"panic", "last_seen_position"}
    /\ pass' = "idle" /\ facts' = {}
    /\ UNCHANGED <<attached, running, left, suspended, at, animal>>

\* A packet, between ticks.
Packet == pass = "idle" /\ attached

\* notify_damage, on an attack of the player.
NotifyDamage ==
    /\ Packet /\ category # "monster"
    /\ memory' = memory \cup {"panic", "last_seen_position"}
    /\ UNCHANGED <<attached, running, left, suspended, facts, pass, at, animal>>

\* set_target, when the mob spawns.
SetTarget ==
    /\ Packet /\ category = "monster"
    /\ memory' = memory \cup {"target_entity"}
    /\ UNCHANGED <<attached, running, left, suspended, facts, pass, at, animal>>

\* interact with the item that tames it: it is tempted.
Tame ==
    /\ Packet /\ category = "creature" /\ ~tamed
    /\ tamed' = TRUE
    /\ memory' = memory \cup {"tempted"}
    /\ UNCHANGED <<category, sitting, attached, running, left, suspended, facts,
                   pass, at>>

\* interact by its owner: toggle_sitting, and set_suspended at once.
ToggleSitting ==
    /\ Packet /\ tamed
    /\ sitting' = ~sitting
    /\ Suspend(sitting')
    /\ UNCHANGED <<category, tamed, attached, facts, pass, at>>

Next ==
    \/ BeforeTick \/ Select \/ ContinueStep \/ StartStep \/ TickStep \/ Hurt
    \/ NotifyDamage \/ SetTarget \/ Tame \/ ToggleSitting

Spec == Init /\ [][Next]_vars

-----------------------------------------------------------------------------
TypeOK ==
    /\ category \in {"creature", "monster"}
    /\ attached \in BOOLEAN /\ suspended \in BOOLEAN
    /\ tamed \in BOOLEAN /\ sitting \in BOOLEAN
    /\ running \subseteq Goals /\ memory \subseteq Keys
    /\ left \in [Timed -> Nat]
    /\ facts \subseteq Facts
    /\ pass \in {"idle", "select", "continue", "start", "tick", "hurt"}
    /\ at \in 1..Len(GoalsOf(category))

\* No two running goals hold the same control, at any point of a tick
\* (GoalSelector::tick stops the holders before it starts a goal).
Exclusive == \A g, h \in running : g # h => ~Overlap(g, h)

Served(g) ==
    \/ g \in running \/ ~CanStart(g, memory, facts)
    \/ \E a \in running : Overlap(a, g) /\ Priority(a) <= Priority(g)

\* Once the goals have been chosen, none that could start is kept out by lesser
\* goals alone: of what holds its controls, something is of its priority or a
\* higher one, though goals were stopped, and made to forget, on the way.
NoInversion ==
    pass = "tick" =>
        \A i \in 1..Len(GoalsOf(category)) : Served(GoalsOf(category)[i])

\* A goal that does not run leaves nothing behind for when it starts again, or
\* for its neighbours: no time left, and a mob that panics knows from what
\* (stop on every way out: the first pass, a pre-emption, a suspension).
CleanStops ==
    /\ \A g \in Timed \ running : left[g] = 0
    /\ "panic" \in running => {"panic", "last_seen_position"} \subseteq memory
    /\ suspended => running = {}
=============================================================================
