----------------------------- MODULE EntityView -----------------------------
(***************************************************************************)
(* The entities of a play session and what its client has been told of     *)
(* them (server.cpp, handle_login): EntityManager, EntityTracker,          *)
(* DroppedItemSystem, ProjectileSystem, the experience orbs, the vehicle a *)
(* player rides and the items it holds.  Each session has its own.         *)
(*                                                                         *)
(* One thread runs the session: packets are handled one at a time, and a   *)
(* game tick goes through its phases with no packet in between.  Packets   *)
(* to the client are a stream, so what it knows is what it has been sent.  *)
(*                                                                         *)
(* Places lie on a line; entities in the same place can touch, and ranges  *)
(* are distances between places.  There is one kind of item, and it does   *)
(* not wear out.  Ticks have no numbers: what depends on a counter (a      *)
(* pick-up delay, a lifetime, a flight) may happen in any tick after the   *)
(* one that started it.                                                    *)
(***************************************************************************)
EXTENDS Integers, Sequences, FiniteSets, SequencesExt

CONSTANTS
    Places,       \* places, integers
    Home,         \* initial_player_position
    TrackingRange, \* EntityTracker::tracking_range of each kind
    Despawn,      \* the distance at which monsters despawn
    HotbarSlots,  \* hotbar.size()
    MaxStack,     \* max_stack_size
    MaxEntities,  \* bound: entity ids
    MaxItems,     \* bound: items in existence
    MaxGhosts,    \* bound: entities the client has and the tracker has not
    NoEntity

Kinds == {"monster", "creature", "item", "orb", "arrow"}
Living == {"monster", "creature"}

ASSUME ViewAssumption ==
    /\ Places \subseteq Int /\ Home \in Places
    /\ TrackingRange \in [Kinds -> Nat] /\ Despawn \in Nat
    /\ HotbarSlots \in Nat \ {0} /\ MaxStack \in Nat \ {0}
    /\ MaxEntities \in Nat \ {0, 1} /\ MaxItems \in Nat /\ MaxGhosts \in Nat
    /\ NoEntity \notin Nat

VARIABLES
    ents,       \* EntityManager: the kind and place of each entity
    nextId,     \* next_id_
    dying,      \* living entities with removed() set
    stacks,     \* DroppedItemSystem: the count of each dropped item
    orbs,       \* keys of experience_orbs
    carriers,   \* entities that have the player among their passengers
    vehicle,    \* player_vehicle
    tracker,    \* keys of EntityTracker
    known,      \* the entities the client has
    visible,    \* entities_visible
    confirmed,  \* teleport_confirmed
    dead,       \* player_dead
    place,      \* player_position
    held,       \* the slots of the hotbar, then the offhand
    phase,      \* "loop", or how far the game tick is
    before,     \* ids() when the tick or its despawning began
    deaths,     \* deaths to be drained, with kind and place
    pickups,    \* counts of the stacks picked up and not yet put away
    made        \* history: items made, less those used up

vars == <<ents, nextId, dying, stacks, orbs, carriers, vehicle, tracker, known,
          visible, confirmed, dead, place, held, phase, before, deaths, pickups,
          made>>
spawnVars == <<ents, nextId, stacks, orbs>>
rideVars == <<vehicle, carriers>>
viewVars == <<tracker, known>>
playerVars == <<visible, confirmed, dead, place>>
tickVars == <<phase, before, deaths, pickups>>

Ids == DOMAIN ents
OfKind(kind) == {i \in Ids : ents[i].kind = kind}
At(p) == {i \in Ids : ents[i].at = p}

Distance(p, q) == IF p < q THEN q - p ELSE p - q
Smaller(a, b) == IF a < b THEN a ELSE b

\* The entities in tracking range of the player.
InRange == {i \in Ids : Distance(ents[i].at, place) <= TrackingRange[ents[i].kind]}

Hotbar == 1..HotbarSlots
Offhand == HotbarSlots + 1
Slots == 1..Offhand

-----------------------------------------------------------------------------
(* EntityManager, and the tables beside it *)

Thing(kind, at, count) == [kind |-> kind, at |-> at, count |-> count]

\* spawn() each of a sequence of things, items with their stack and orbs with
\* their entry in experience_orbs.
Spawn(things) ==
    LET new == nextId .. (nextId + Len(things) - 1)
        thing(i) == things[i - nextId + 1]
        newOf(kind) == {i \in new : thing(i).kind = kind}
    IN  /\ nextId + Len(things) - 1 <= MaxEntities
        /\ nextId' = nextId + Len(things)
        /\ ents' = [i \in Ids \cup new |->
                       IF i \in Ids THEN ents[i]
                       ELSE [kind |-> thing(i).kind, at |-> thing(i).at]]
        /\ stacks' = [i \in DOMAIN stacks \cup newOf("item") |->
                         IF i \in Ids THEN stacks[i] ELSE thing(i).count]
        /\ orbs' = orbs \cup newOf("orb")

\* remove() a set of entities: whoever rides them is off.
RemoveAll(gone) ==
    /\ ents' = Restrict(ents, Ids \ gone)
    /\ dying' = dying \ gone
    /\ carriers' = carriers \ gone

\* Mutant: the entity ridden keeps its passenger.
MutDismount == vehicle' = NoEntity /\ UNCHANGED carriers

\* remove_external_passenger and player_vehicle.reset().
Dismount == vehicle' = NoEntity /\ carriers' = carriers \ {vehicle}

-----------------------------------------------------------------------------
(* The player's items *)

\* insert_from into each slot of the hotbar in turn.
Inserted(n) ==
    LET room(s) == MaxStack - held[s]
        taken(s) == SumFunctionOnSet([t \in Hotbar |-> room(t)], 1..(s - 1))
    IN  [s \in Slots |->
            IF s = Offhand \/ taken(s) >= n THEN held[s]
            ELSE held[s] + Smaller(n - taken(s), room(s))]

\* What does not fit.
Rest(n) == n - (SumFunction(Inserted(n)) - SumFunction(held))

Drop(n) == IF n = 0 THEN <<>> ELSE <<Thing("item", place, n)>>

\* The slots that hold something, in their order, and a stack dropped from each.
Filled == {s \in Slots : held[s] > 0}
InOrder(slots) == \A k \in DOMAIN slots : \A l \in 1..(k - 1) : slots[l] < slots[k]
DropAll(slots) == [k \in DOMAIN slots |-> Thing("item", place, held[slots[k]])]

\* Mutant: what does not fit is dropped with the count it came with.
MutPutAway(n) ==
    /\ held' = Inserted(n)
    /\ Spawn(Drop(IF Rest(n) = 0 THEN 0 ELSE n))

\* Put a stack of n items into the hotbar, and drop the rest.
PutAway(n) ==
    /\ held' = Inserted(n)
    /\ Spawn(Drop(Rest(n)))

-----------------------------------------------------------------------------
(* The tracker *)

\* update() for each entity there is, of a tracker that holds the set t.
Updated(t) == (t \ Ids) \cup InRange

\* Mutant: the tracker is updated and nothing is sent.
MutAnnounce(i) ==
    IF visible THEN tracker' = tracker \cup {i} /\ UNCHANGED known
    ELSE UNCHANGED viewVars

\* A new entity beside the player is sent at once.
Announce(i) ==
    IF visible THEN tracker' = tracker \cup {i} /\ known' = known \cup {i}
    ELSE UNCHANGED viewVars

\* Mutant: the client is not told.
MutForget(gone) == tracker' = tracker \ gone /\ UNCHANGED known

\* forget() a set of entities, and remove those at the client that it had.
Forget(gone) ==
    /\ tracker' = tracker \ gone
    /\ known' = known \ (gone \cap tracker)

-----------------------------------------------------------------------------
(* Packets, handled between ticks.  Those of a dead player are dropped. *)

Alive == phase = "loop" /\ ~dead

\* accept_teleportation: the tracker is updated for every entity, and those
\* that enter are sent; those that leave are forgotten and not looked at.
HandleAccept ==
    /\ Alive /\ ~confirmed
    /\ confirmed' = TRUE /\ visible' = TRUE
    /\ tracker' = Updated(tracker)
    /\ known' = known \cup (InRange \ tracker)
    /\ Cardinality(known' \ tracker') <= MaxGhosts
    /\ UNCHANGED <<spawnVars, rideVars, dying, dead, place, held, tickVars, made>>

\* A move within reach.
HandleMove(p) ==
    /\ Alive /\ Distance(p, place) = 1 /\ vehicle = NoEntity
    /\ place' = p
    /\ UNCHANGED <<spawnVars, rideVars, viewVars, dying, visible, confirmed, dead,
                   held, tickVars, made>>

HandleTp(p) ==
    /\ Alive
    /\ Dismount
    /\ place' = p /\ confirmed' = FALSE
    /\ UNCHANGED <<spawnVars, viewVars, dying, visible, dead, held, tickVars, made>>

\* kill_player, with and without keep_inventory and experience to lose.
KillPlayer ==
    /\ dead' = TRUE
    /\ Dismount
    /\ \/ UNCHANGED <<spawnVars, held>>
       \/ /\ \E orb \in {<<>>, <<Thing("orb", place, 0)>>},
                slots \in [1..Cardinality(Filled) -> Filled] :
                InOrder(slots) /\ Spawn(orb \o DropAll(slots))
          /\ held' = [s \in Slots |-> 0]

HandleKill ==
    /\ Alive
    /\ KillPlayer
    /\ UNCHANGED <<viewVars, dying, visible, confirmed, place, tickVars, made>>

HandleRespawn ==
    /\ phase = "loop" /\ dead
    /\ dead' = FALSE /\ place' = Home /\ confirmed' = FALSE
    /\ UNCHANGED <<spawnVars, rideVars, viewVars, dying, visible, held, tickVars, made>>

\* summon.
HandleSummon(kind) ==
    /\ Alive
    /\ Spawn(<<Thing(kind, place, 0)>>)
    /\ Announce(nextId)
    /\ UNCHANGED <<rideVars, dying, playerVars, held, tickVars, made>>

\* give: a stack into the hotbar.  A broken block gives its drops so too.
HandleGive(n) ==
    /\ Alive /\ made + n <= MaxItems
    /\ PutAway(n)
    /\ made' = made + n
    /\ UNCHANGED <<rideVars, viewVars, dying, playerVars, tickVars>>

\* difficulty peaceful: every monster is removed.
HandlePeaceful ==
    /\ Alive
    /\ RemoveAll(OfKind("monster"))
    /\ Forget(OfKind("monster"))
    /\ UNCHANGED <<nextId, stacks, orbs, vehicle, playerVars, held, tickVars, made>>

\* attack: a deadly one marks its target, which goes in the next tick.
HandleAttack(i) ==
    /\ Alive
    /\ i \in At(place) \ dying /\ ents[i].kind \in Living
    /\ dying' = dying \cup {i}
    /\ UNCHANGED <<spawnVars, rideVars, viewVars, playerVars, held, tickVars, made>>

\* interact: get on a creature, and off the one before.
HandleMount(i) ==
    /\ Alive
    /\ i \in At(place) /\ ents[i].kind = "creature"
    /\ vehicle' = i /\ carriers' = {i}
    /\ UNCHANGED <<spawnVars, viewVars, dying, playerVars, held, tickVars, made>>

\* interact: a creature is tamed, or fed, and two that were fed have a young
\* one, which the next tick sends.
HandleFeed(s) ==
    /\ Alive /\ held[s] > 0
    /\ \E i \in At(place) :
          /\ ents[i].kind = "creature"
          /\ \/ UNCHANGED spawnVars
             \/ /\ \E j \in At(place) \ {i} : ents[j].kind = "creature"
                /\ Spawn(<<Thing("creature", place, 0)>>)
    /\ held' = [held EXCEPT ![s] = @ - 1] /\ made' = made - 1
    /\ UNCHANGED <<rideVars, viewVars, dying, playerVars, tickVars>>

\* gamemode spectator: off the vehicle.
HandleSpectate ==
    /\ Alive /\ vehicle # NoEntity
    /\ Dismount
    /\ UNCHANGED <<spawnVars, viewVars, dying, playerVars, held, tickVars, made>>

\* player_input with shift: off, beside the vehicle.
HandleDismount ==
    /\ Alive /\ vehicle # NoEntity
    /\ Dismount
    /\ place' = ents[vehicle].at
    /\ UNCHANGED <<spawnVars, viewVars, dying, visible, confirmed, dead, held,
                   tickVars, made>>

\* drop_item and drop_all_items of the slot in hand.
HandleDrop(s) ==
    /\ Alive
    /\ \E n \in {1, held[s]} \ {0} :
          /\ n <= held[s]
          /\ held' = [held EXCEPT ![s] = @ - n]
          /\ Spawn(Drop(n))
    /\ Announce(nextId)
    /\ UNCHANGED <<rideVars, dying, playerVars, tickVars, made>>

\* swap_item_with_offhand.
HandleSwap(s) ==
    /\ Alive /\ held[s] # held[Offhand]
    /\ held' = [held EXCEPT ![s] = held[Offhand], ![Offhand] = held[s]]
    /\ UNCHANGED <<spawnVars, rideVars, viewVars, dying, playerVars, tickVars, made>>

\* use_item with a bow: an arrow leaves the hotbar for the world; a creative
\* player shoots one that it need not have.
HandleShoot(s) ==
    /\ Alive /\ held[s] > 0
    /\ \/ held' = [held EXCEPT ![s] = @ - 1] /\ UNCHANGED made
       \/ made < MaxItems /\ made' = made + 1 /\ UNCHANGED held
    /\ Spawn(<<Thing("arrow", place, 0)>>)
    /\ Announce(nextId)
    /\ UNCHANGED <<rideVars, dying, playerVars, tickVars>>

\* use_item and use_item_on: an item is eaten or placed.
HandleUse(s) ==
    /\ Alive /\ held[s] > 0
    /\ held' = [held EXCEPT ![s] = @ - 1] /\ made' = made - 1
    /\ UNCHANGED <<spawnVars, rideVars, viewVars, dying, playerVars, tickVars>>

-----------------------------------------------------------------------------
(* A game tick, which runs once the teleport is acknowledged *)

\* survival.tick, at the head of a tick, may kill the player.  The tick goes on
\* with Simulate; that it may also be put off changes nothing that a kill
\* command before the tick does not.
SurvivalKills ==
    /\ phase = "loop" /\ confirmed /\ ~dead
    /\ KillPlayer
    /\ UNCHANGED <<viewVars, dying, visible, confirmed, place, tickVars, made>>

\* The places an entity may be in after a tick: an orb has no velocity.
Reach(i) ==
    IF ents[i].kind = "orb" THEN {ents[i].at}
    ELSE {p \in Places : Distance(p, ents[i].at) <= 1}

\* Other mobs, daylight or a fall mark a living entity, at the head of a tick.
MobsKill(i) ==
    /\ phase = "loop" /\ confirmed
    /\ i \in Ids \ dying /\ ents[i].kind \in Living
    /\ dying' = dying \cup {i}
    /\ UNCHANGED <<spawnVars, rideVars, viewVars, playerVars, held, tickVars, made>>

\* ids() before the tick, and entities.tick: everything moves; the marked are
\* removed and leave a death event.
Simulate ==
    /\ phase = "loop" /\ confirmed
    /\ LET left == Ids \ dying IN
       \E step \in [left -> Places] :
          /\ \A i \in left : step[i] \in Reach(i)
          /\ ents' = [i \in left |-> [kind |-> ents[i].kind, at |-> step[i]]]
    /\ dying' = {}
    /\ carriers' = carriers \ dying
    /\ deaths' = {[id |-> i, at |-> ents[i].at] : i \in dying}
    /\ phase' = "arrows" /\ before' = Ids
    /\ UNCHANGED <<nextId, stacks, orbs, vehicle, viewVars, playerVars, held,
                   pickups, made>>

\* projectiles.tick: an arrow lands and can be picked up again...
ArrowLands(i) ==
    /\ phase = "arrows" /\ i \in OfKind("arrow")
    /\ nextId <= MaxEntities /\ nextId' = nextId + 1
    /\ ents' = [j \in (Ids \ {i}) \cup {nextId} |->
                   IF j = nextId THEN [kind |-> "item", at |-> ents[i].at] ELSE ents[j]]
    /\ stacks' = [j \in DOMAIN stacks \cup {nextId} |->
                     IF j = nextId THEN 1 ELSE stacks[j]]
    /\ UNCHANGED <<orbs, rideVars, viewVars, dying, playerVars, held, tickVars, made>>

\* ... or hits a living entity, perhaps a deadly hit, and is used up.
ArrowHits(i) ==
    /\ phase = "arrows" /\ i \in OfKind("arrow")
    /\ \E t \in At(ents[i].at) \ dying :
          /\ ents[t].kind \in Living
          /\ dying' \in {dying, dying \cup {t}}
    /\ ents' = Restrict(ents, Ids \ {i})
    /\ made' = made - 1
    /\ UNCHANGED <<nextId, stacks, orbs, rideVars, viewVars, playerVars, held, tickVars>>

\* dropped_items.tick: a stack takes what it has room for from one close by.
Merge(i, j) ==
    /\ phase \in {"arrows", "merge"}
    /\ i \in OfKind("item") /\ j \in OfKind("item") /\ i < j
    /\ ents[i].at = ents[j].at /\ stacks[i] < MaxStack
    /\ LET moved == Smaller(stacks[j], MaxStack - stacks[i])
           left == stacks[j] - moved
           gone == IF left = 0 THEN {j} ELSE {}
       IN  /\ stacks' = Restrict([stacks EXCEPT ![i] = @ + moved, ![j] = left],
                                 DOMAIN stacks \ gone)
           /\ ents' = Restrict(ents, Ids \ gone)
    /\ phase' = "merge"
    /\ UNCHANGED <<nextId, orbs, rideVars, viewVars, dying, playerVars, held,
                   before, deaths, pickups, made>>

\* The same: stacks expire, and the player takes those it can touch.
Collect ==
    /\ phase \in {"arrows", "merge"}
    /\ \E expired, taken \in SUBSET (OfKind("item") \cap before) :
          LET gone == expired \cup taken IN
          /\ expired \cap taken = {}
          /\ taken # {} => ~dead
          /\ \A i \in taken : ents[i].at = place
          /\ ents' = Restrict(ents, Ids \ gone)
          /\ stacks' = Restrict(stacks, (DOMAIN stacks \cap Ids) \ gone)
          /\ pickups' = Restrict(stacks, taken)
          /\ made' = made - SumFunction(Restrict(stacks, expired))
    /\ phase' = "pickups"
    /\ UNCHANGED <<nextId, orbs, rideVars, viewVars, dying, playerVars, held,
                   before, deaths>>

\* A stack that was taken goes into the hotbar.
PickUp(i) ==
    /\ phase = "pickups" /\ i \in DOMAIN pickups
    /\ PutAway(pickups[i])
    /\ pickups' = Restrict(pickups, DOMAIN pickups \ {i})
    /\ UNCHANGED <<rideVars, viewVars, dying, playerVars, phase, before, deaths, made>>

\* drain_deaths: an orb, and for some kinds loot.
Die(d) ==
    /\ phase = "pickups" /\ DOMAIN pickups = {} /\ d \in deaths
    /\ \E n \in 0..1 :
          /\ made + n <= MaxItems
          /\ Spawn(<<Thing("orb", d.at, 0)>>
                   \o (IF n = 0 THEN <<>> ELSE <<Thing("item", d.at, n)>>))
          /\ made' = made + n
    /\ deaths' = deaths \ {d}
    /\ UNCHANGED <<rideVars, viewVars, dying, playerVars, held, phase, before, pickups>>

\* What has gone since the tick began is taken from the client, and a vehicle
\* that has gone is left.  Then the tracker is updated for every entity: those
\* that enter are sent, those that leave are removed.  The rider is where its
\* vehicle is.
Track ==
    /\ phase = "pickups" /\ DOMAIN pickups = {} /\ deaths = {}
    /\ vehicle' = IF vehicle \in Ids THEN vehicle ELSE NoEntity
    /\ IF visible
       THEN LET gone == before \ Ids IN
            /\ tracker' = Updated(tracker \ gone)
            /\ known' = (known \ (tracker \cap (gone \cup (Ids \ InRange))))
                        \cup (InRange \ tracker)
       ELSE UNCHANGED viewVars
    /\ place' = IF vehicle' = NoEntity THEN place ELSE ents[vehicle'].at
    /\ orbs' = orbs \cap Ids
    /\ phase' = "orbs" /\ before' = {}
    /\ UNCHANGED <<ents, nextId, stacks, carriers, dying, visible, confirmed, dead,
                   held, deaths, pickups, made>>

\* The player takes an orb it can touch.
TakeOrb(i) ==
    /\ phase = "orbs" /\ i \in orbs \cap At(place)
    /\ tracker' = tracker \ {i}
    /\ known' = IF visible THEN known \ {i} ELSE known
    /\ ents' = Restrict(ents, Ids \ {i})
    /\ orbs' = orbs \ {i}
    /\ UNCHANGED <<nextId, stacks, rideVars, dying, playerVars, held, tickVars, made>>

EndTick ==
    /\ phase = "orbs" /\ phase' = "loop"
    /\ UNCHANGED <<spawnVars, rideVars, viewVars, dying, playerVars, held, before,
                   deaths, pickups, made>>

\* Every 200 ticks: a mob spawns...
NaturalSpawn ==
    /\ phase = "orbs"
    /\ \/ UNCHANGED spawnVars
       \/ \E kind \in Living, p \in Places :
             Distance(p, place) <= 1 /\ Spawn(<<Thing(kind, p, 0)>>)
    /\ phase' = "despawn" /\ before' = Ids
    /\ UNCHANGED <<rideVars, viewVars, dying, playerVars, held, deaths, pickups, made>>

\* ... and despawn_distant removes those too far away.
DespawnDistant ==
    /\ phase = "despawn"
    /\ LET far == {i \in OfKind("monster") : Distance(ents[i].at, place) > Despawn} IN
       /\ RemoveAll(far)
       /\ Forget(before \ (Ids \ far))
    /\ phase' = "loop" /\ before' = {}
    /\ UNCHANGED <<nextId, stacks, orbs, vehicle, playerVars, held, deaths, pickups,
                   made>>

-----------------------------------------------------------------------------
\* The session begins with what spawned around its home, a mob or none, and
\* the first teleport still to be acknowledged.
Init ==
    /\ \E mobs \in {{}} \cup {{[kind |-> kind, at |-> p]} :
                               kind \in Living, p \in {q \in Places : Distance(q, Home) = 1}} :
          ents = [i \in 2 .. (1 + Cardinality(mobs)) |-> CHOOSE mob \in mobs : TRUE]
    /\ nextId = 2 + Cardinality(DOMAIN ents)
    /\ dying = {} /\ stacks = <<>> /\ orbs = {}
    /\ carriers = {} /\ vehicle = NoEntity
    /\ tracker = {} /\ known = {}
    /\ visible = FALSE /\ confirmed = FALSE /\ dead = FALSE /\ place = Home
    /\ held = [s \in Slots |-> 0]
    /\ phase = "loop" /\ before = {} /\ deaths = {} /\ pickups = <<>>
    /\ made = 0

Packet ==
    \/ HandleAccept \/ HandleKill \/ HandleRespawn \/ HandlePeaceful
    \/ HandleSpectate \/ HandleDismount
    \/ \E p \in Places : HandleMove(p) \/ HandleTp(p)
    \/ \E kind \in Living : HandleSummon(kind)
    \/ \E n \in 1..MaxStack : HandleGive(n)
    \/ \E i \in Ids : HandleAttack(i) \/ HandleMount(i)
    \/ \E s \in Hotbar : HandleDrop(s) \/ HandleSwap(s) \/ HandleShoot(s) \/ HandleUse(s) \/ HandleFeed(s)

GameTick ==
    \/ SurvivalKills \/ Simulate \/ Collect \/ Track \/ EndTick
    \/ NaturalSpawn \/ DespawnDistant
    \/ \E i \in Ids : MobsKill(i) \/ ArrowLands(i) \/ ArrowHits(i) \/ TakeOrb(i)
    \/ \E i, j \in Ids : Merge(i, j)
    \/ \E i \in DOMAIN pickups : PickUp(i)
    \/ \E d \in deaths : Die(d)

Next == Packet \/ GameTick

Spec == Init /\ [][Next]_vars

-----------------------------------------------------------------------------
(* Properties *)

Phases == {"loop", "arrows", "merge", "pickups", "orbs", "despawn"}

TypeOK ==
    /\ Ids \subseteq 2..MaxEntities
    /\ \A i \in Ids : ents[i].kind \in Kinds /\ ents[i].at \in Places
    /\ nextId \in 2..(MaxEntities + 1)
    /\ \A i \in dying : i \in Ids /\ ents[i].kind \in Living
    /\ \A i \in DOMAIN stacks : stacks[i] \in 1..MaxStack
    /\ vehicle \in (2..MaxEntities) \cup {NoEntity}
    /\ {visible, confirmed, dead} \subseteq BOOLEAN
    /\ place \in Places
    /\ DOMAIN held = Slots /\ \A s \in Slots : held[s] \in 0..MaxStack
    /\ phase \in Phases
    /\ made \in 0..MaxItems

\* Between ticks the tables beside EntityManager agree with it, whichever of
\* the many ways an entity left by: each item has its stack and each orb its
\* value, the tracker holds no entity that is gone, and the client has all
\* that the tracker believes it has.
TablesAgree ==
    phase = "loop" =>
        /\ DOMAIN stacks = OfKind("item")
        /\ orbs = OfKind("orb")
        /\ tracker \subseteq Ids
        /\ tracker \subseteq known

\* Between ticks the player is a passenger of exactly the entity it rides,
\* which exists: dying, teleports, a change of mount and the death of the mount
\* leave no entity with a rider that is elsewhere.
RiderExact ==
    phase = "loop" =>
        carriers = IF vehicle = NoEntity THEN {} ELSE {vehicle} \cap Ids

\* Items are neither lost nor doubled on their way between the hotbar, the
\* offhand, the ground, the air and a death: what exists is what was made.
ItemsConserved ==
    made = SumFunction(held) + SumFunction(stacks) + SumFunction(pickups)
           + Cardinality(OfKind("arrow"))

\* The client keeps an entity that the tracker has forgotten only when a
\* teleport's acknowledgement made the tracker forget it.
GhostsOnlyFromAccept ==
    [][(known' \ tracker') \subseteq (known \ tracker) \/ (~confirmed /\ confirmed')]_vars

\* "Visibility enter/leave transitions" (TODO.md:202): between ticks the client
\* has exactly the entities the tracker holds.
ClientSeesTracked == phase = "loop" => known = tracker
=============================================================================
