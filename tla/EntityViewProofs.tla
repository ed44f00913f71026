-------------------------- MODULE EntityViewProofs --------------------------
(***************************************************************************)
(* Proofs about EntityView, for every set of places, range, stack size and *)
(* number of slots: between ticks the tables beside EntityManager agree    *)
(* with it, the player is a passenger of exactly what it rides, no item is *)
(* lost or doubled on its way between hotbar, ground, air and death, and   *)
(* every variable keeps its type.                                          *)
(*                                                                         *)
(* Two of these speak of the loop between ticks; what makes them inductive *)
(* is what holds within a tick.  Items and orbs leave with their entry at  *)
(* every step (Entries), the passenger follows the vehicle because only a  *)
(* creature is ridden and no id is used twice (Rider), and the tracker may *)
(* hold what is gone, but only if it was there when the tick, or the       *)
(* despawning, began (Tracked).  The count of items rests on sums over the *)
(* slots and stacks, which are shown by induction on the subsets of a      *)
(* finite set: see Sums.                                                   *)
(***************************************************************************)
EXTENDS EntityView, FiniteSetTheorems, WellFoundedInduction, TLAPS

\* Each item has its stack and each orb its value; what is dying is alive.
Entries ==
    /\ DOMAIN stacks = OfKind("item")
    /\ orbs = OfKind("orb")
    /\ nextId \in Nat
    /\ Ids \subseteq Nat /\ \A i \in Ids : i < nextId
    /\ \A i \in dying : i \in Ids /\ ents[i].kind \in Living

\* Only a creature is ridden, and an id is not used again.
Rider ==
    /\ vehicle # NoEntity => vehicle \in Nat /\ vehicle < nextId
    /\ vehicle \in Ids => ents[vehicle].kind = "creature"
    /\ carriers = IF vehicle = NoEntity THEN {} ELSE {vehicle} \cap Ids

\* What is tracked and gone was there when the tick, or its despawning, began.
Tracked ==
    /\ phase \in Phases
    /\ ~visible => tracker = {}
    /\ tracker \subseteq known
    /\ phase \in {"loop", "orbs", "despawn"} => tracker \subseteq Ids
    /\ phase \in {"arrows", "merge", "pickups", "despawn"} => tracker \subseteq before

Tables == Entries /\ Rider /\ Tracked

-----------------------------------------------------------------------------
(* What the operations do to the entities *)

\* Things may be spawned, and nothing else happens to the entities.
Spawns ==
    \/ UNCHANGED spawnVars
    \/ \E things : Len(things) \in Nat /\ Spawn(things)

\* What was there keeps its kind, and what is new has an id not used before.
Grown ==
    /\ nextId' \in Nat /\ nextId <= nextId'
    /\ Ids \subseteq Ids'
    /\ \A i \in Ids : ents'[i] = ents[i]
    /\ \A i \in Ids' \ Ids : i \in Nat /\ nextId <= i /\ i < nextId'

\* Spawning gives each thing a fresh id, an item its stack and an orb its value.
LEMMA SpawnGrows ==
    ASSUME Entries, NEW things, Len(things) \in Nat, Spawn(things)
    PROVE  /\ Grown
           /\ DOMAIN stacks' = OfKind("item")' /\ orbs' = OfKind("orb")'
<1> DEFINE new == nextId .. (nextId + Len(things) - 1)
           thing(i) == things[i - nextId + 1]
<1>1. /\ nextId' = nextId + Len(things)
      /\ ents' = [i \in Ids \cup new |->
                     IF i \in Ids THEN ents[i]
                     ELSE [kind |-> thing(i).kind, at |-> thing(i).at]]
      /\ DOMAIN stacks' = DOMAIN stacks \cup {i \in new : thing(i).kind = "item"}
      /\ orbs' = orbs \cup {i \in new : thing(i).kind = "orb"}
  BY DEF Spawn
<1>2. Ids' = Ids \cup new
  BY <1>1 DEF Ids
<1>3. nextId \in Nat /\ new \cap Ids = {}
  BY DEF Entries
<1>4. \A i \in new : i \in Nat /\ nextId <= i /\ i < nextId'
  BY <1>1, <1>3
<1>5. Grown
  <2>1. \A i \in Ids : ents'[i] = ents[i]
    BY <1>1
  <2>2. nextId' \in Nat /\ nextId <= nextId'
    BY <1>1, <1>3
  <2> QED
    BY <1>2, <1>4, <2>1, <2>2 DEF Grown
<1>6. \A kind : OfKind(kind)' = OfKind(kind) \cup {i \in new : thing(i).kind = kind}
  <2> SUFFICES ASSUME NEW kind
               PROVE  OfKind(kind)' = OfKind(kind) \cup {i \in new : thing(i).kind = kind}
    OBVIOUS
  <2>1. \A i \in Ids : ents'[i] = ents[i]
    BY <1>1
  <2>2. \A i \in new : ents'[i].kind = thing(i).kind
    BY <1>1, <1>3
  <2> HIDE DEF new, thing
  <2> QED
    BY <1>2, <1>3, <2>1, <2>2 DEF OfKind
<1> QED
  BY <1>1, <1>5, <1>6 DEF Entries

LEMMA SpawnsGrow ==
    ASSUME Entries, Spawns
    PROVE  Grown /\ DOMAIN stacks' = OfKind("item")' /\ orbs' = OfKind("orb")'
<1>1. CASE UNCHANGED spawnVars
  BY <1>1 DEF Entries, Grown, OfKind, Ids, spawnVars
<1>2. ASSUME NEW things, Len(things) \in Nat, Spawn(things)
      PROVE  Grown /\ DOMAIN stacks' = OfKind("item")' /\ orbs' = OfKind("orb")'
  BY <1>2, SpawnGrows
<1> QED
  BY <1>1, <1>2 DEF Spawns

\* One thing is spawned, and its id is the next one.
LEMMA SpawnsOne ==
    ASSUME Entries, NEW thing, Spawn(<<thing>>)
    PROVE  Spawns /\ nextId \in Ids'
<1>1. Len(<<thing>>) = 1 /\ nextId \in nextId .. (nextId + 1 - 1)
  BY DEF Entries
<1> QED
  BY <1>1 DEF Spawn, Spawns, Ids

LEMMA DropSpawns ==
    ASSUME NEW n, Spawn(Drop(n))
    PROVE  Spawns
BY DEF Drop, Spawns

LEMMA KillSpawns ==
    ASSUME ViewAssumption, KillPlayer
    PROVE  Spawns
<1>1. CASE UNCHANGED spawnVars
  BY <1>1 DEF Spawns
<1>2. CASE ~UNCHANGED spawnVars
  <2>1. PICK orb \in {<<>>, <<Thing("orb", place, 0)>>},
             slots \in [1..Cardinality(Filled) -> Filled] :
             Spawn(orb \o DropAll(slots))
    BY <1>2 DEF KillPlayer
  <2>2. Cardinality(Filled) \in Nat
    <3>1. IsFiniteSet(Slots)
      BY FS_Interval DEF ViewAssumption, Slots, Offhand
    <3> QED
      BY <3>1, FS_Subset, FS_CardinalityType DEF Filled
  <2>3. DropAll(slots) \in Seq({DropAll(slots)[k] : k \in 1..Cardinality(Filled)})
    BY <2>2 DEF DropAll
  <2>4. Len(orb \o DropAll(slots)) \in Nat
    BY <2>3
  <2> QED
    BY <2>1, <2>4 DEF Spawns
<1> QED
  BY <1>1, <1>2

LEMMA PutAwaySpawns ==
    ASSUME NEW n, PutAway(n)
    PROVE  Spawns
BY DropSpawns DEF PutAway

\* The actions that may spawn, and do nothing else to the entities.
Spawning ==
    \/ HandleKill \/ SurvivalKills \/ NaturalSpawn
    \/ \E kind \in Living : HandleSummon(kind)
    \/ \E n \in 1..MaxStack : HandleGive(n)
    \/ \E s \in Hotbar : HandleDrop(s) \/ HandleShoot(s) \/ HandleFeed(s)
    \/ \E i \in DOMAIN pickups : PickUp(i)
    \/ \E d \in deaths : Die(d)

LEMMA SpawningSpawns ==
    ASSUME ViewAssumption, Entries, Spawning
    PROVE  Spawns /\ UNCHANGED dying
<1>1. CASE HandleKill \/ SurvivalKills
  BY <1>1, KillSpawns DEF HandleKill, SurvivalKills
<1>2. CASE NaturalSpawn
  BY <1>2, SpawnsOne DEF NaturalSpawn, Spawns
<1>3. ASSUME NEW kind \in Living, HandleSummon(kind) PROVE Spawns /\ UNCHANGED dying
  BY <1>3, SpawnsOne DEF HandleSummon
<1>4. ASSUME NEW n \in 1..MaxStack, HandleGive(n) PROVE Spawns /\ UNCHANGED dying
  BY <1>4, PutAwaySpawns DEF HandleGive
<1>5. ASSUME NEW s \in Hotbar, HandleDrop(s) PROVE Spawns /\ UNCHANGED dying
  BY <1>5, DropSpawns DEF HandleDrop
<1>6. ASSUME NEW s \in Hotbar, HandleShoot(s) PROVE Spawns /\ UNCHANGED dying
  BY <1>6, SpawnsOne DEF HandleShoot
<1>7. ASSUME NEW s \in Hotbar, HandleFeed(s) PROVE Spawns /\ UNCHANGED dying
  BY <1>7, SpawnsOne DEF HandleFeed, Spawns
<1>8. ASSUME NEW i \in DOMAIN pickups, PickUp(i) PROVE Spawns /\ UNCHANGED dying
  BY <1>8, PutAwaySpawns DEF PickUp
<1>9. ASSUME NEW d \in deaths, Die(d) PROVE Spawns /\ UNCHANGED dying
  <2>1. PICK n \in 0..1 :
           Spawn(<<Thing("orb", d.at, 0)>>
                 \o (IF n = 0 THEN <<>> ELSE <<Thing("item", d.at, n)>>))
    BY <1>9 DEF Die
  <2>2. Len(<<Thing("orb", d.at, 0)>>
            \o (IF n = 0 THEN <<>> ELSE <<Thing("item", d.at, n)>>)) \in Nat
    OBVIOUS
  <2> QED
    BY <1>9, <2>1, <2>2 DEF Die, Spawns
<1> QED
  BY <1>1, <1>2, <1>3, <1>4, <1>5, <1>6, <1>7, <1>8, <1>9 DEF Spawning

\* The actions that leave every entity and its entries as they are.
Quiet ==
    \/ HandleAccept \/ HandleRespawn \/ HandleSpectate \/ HandleDismount
    \/ \E p \in Places : HandleMove(p) \/ HandleTp(p)
    \/ \E i \in Ids : HandleMount(i)
    \/ \E s \in Hotbar : HandleSwap(s) \/ HandleUse(s)
    \/ EndTick

LEMMA QuietKeeps ==
    ASSUME Quiet
    PROVE  UNCHANGED <<spawnVars, dying>>
<1>1. CASE HandleAccept \/ HandleRespawn \/ HandleSpectate \/ HandleDismount \/ EndTick
  BY <1>1 DEF HandleAccept, HandleRespawn, HandleSpectate, HandleDismount, EndTick,
              spawnVars
<1>2. ASSUME NEW p \in Places, HandleMove(p) \/ HandleTp(p)
      PROVE  UNCHANGED <<spawnVars, dying>>
  BY <1>2 DEF HandleMove, HandleTp
<1>3. ASSUME NEW i \in Ids, HandleMount(i) PROVE UNCHANGED <<spawnVars, dying>>
  BY <1>3 DEF HandleMount
<1>4. ASSUME NEW s \in Hotbar, HandleSwap(s) \/ HandleUse(s)
      PROVE  UNCHANGED <<spawnVars, dying>>
  BY <1>4 DEF HandleSwap, HandleUse
<1> QED
  BY <1>1, <1>2, <1>3, <1>4 DEF Quiet

\* An entity keeps its kind, and what is new has an id not used before.
Kept ==
    /\ nextId' \in Nat /\ nextId <= nextId'
    /\ \A i \in Ids' \cap Ids : ents'[i].kind = ents[i].kind
    /\ \A i \in Ids' \ Ids : i \in Nat /\ nextId <= i

\* All but what has gone is as it was, with the entries of what is left.
LEMMA RemovalKeeps ==
    ASSUME Entries, NEW gone, gone \subseteq Ids,
           Ids' = Ids \ gone, \A i \in Ids' : ents'[i].kind = ents[i].kind,
           UNCHANGED nextId,
           DOMAIN stacks' = DOMAIN stacks \ gone, orbs' = orbs \ gone,
           \A i \in dying' : i \in Ids' /\ ents[i].kind \in Living
    PROVE  Entries' /\ Kept
<1>1. /\ OfKind("item")' = OfKind("item") \ gone
      /\ OfKind("orb")' = OfKind("orb") \ gone
  BY DEF OfKind
<1>2. DOMAIN stacks' = OfKind("item")' /\ orbs' = OfKind("orb")'
  BY <1>1 DEF Entries
<1>3. /\ nextId \in Nat /\ Ids' \subseteq Nat /\ Ids' \subseteq Ids
      /\ \A i \in Ids' : i < nextId
  BY DEF Entries
<1>4. \A i \in dying' : i \in Ids' /\ ents'[i].kind \in Living
  OBVIOUS
<1>5. Kept
  BY <1>3 DEF Kept
<1> QED
  BY <1>2, <1>3, <1>4, <1>5 DEF Entries

LEMMA OfKindIn ==
    ASSUME NEW kind
    PROVE  OfKind(kind) \subseteq Ids /\ \A i \in OfKind(kind) : ents[i].kind = kind
BY DEF OfKind

LEMMA EntriesStep ==
    ASSUME ViewAssumption, Entries, [Next]_vars
    PROVE  Entries' /\ Kept
<1>1. CASE UNCHANGED <<spawnVars, dying>>
  BY <1>1 DEF Entries, Kept, OfKind, Ids, spawnVars
<1>2. CASE Spawning
  <2>1. /\ Grown /\ UNCHANGED dying
        /\ DOMAIN stacks' = OfKind("item")' /\ orbs' = OfKind("orb")'
    BY <1>2, SpawningSpawns, SpawnsGrow
  <2>2. \A i \in Ids' : i \in Nat /\ i < nextId'
    BY <2>1 DEF Grown, Entries
  <2>3. \A i \in dying' : i \in Ids' /\ ents'[i].kind \in Living
    BY <2>1 DEF Grown, Entries
  <2> QED
    BY <2>1, <2>2, <2>3 DEF Entries, Kept, Grown
<1>3. CASE HandlePeaceful
  <2>1. /\ Ids' = Ids \ OfKind("monster") /\ dying' = dying \ OfKind("monster")
        /\ \A i \in Ids' : ents'[i] = ents[i]
        /\ UNCHANGED <<nextId, stacks, orbs>>
    BY <1>3 DEF HandlePeaceful, RemoveAll, Restrict, Ids
  <2>2. DOMAIN stacks' = DOMAIN stacks \ OfKind("monster")
        /\ orbs' = orbs \ OfKind("monster")
    BY <2>1 DEF Entries, OfKind
  <2>3. \A i \in dying' : i \in Ids' /\ ents[i].kind \in Living
    BY <2>1 DEF Entries
  <2> QED
    BY <2>1, <2>2, <2>3, OfKindIn, RemovalKeeps
<1>4. CASE DespawnDistant
  <2> DEFINE far == {i \in OfKind("monster") : Distance(ents[i].at, place) > Despawn}
  <2>1. /\ Ids' = Ids \ far /\ dying' = dying \ far
        /\ \A i \in Ids' : ents'[i] = ents[i]
        /\ UNCHANGED <<nextId, stacks, orbs>>
    BY <1>4 DEF DespawnDistant, RemoveAll, Restrict, Ids
  <2>2. far \subseteq OfKind("monster")
    OBVIOUS
  <2> HIDE DEF far
  <2>3. DOMAIN stacks' = DOMAIN stacks \ far /\ orbs' = orbs \ far
    BY <2>1, <2>2 DEF Entries, OfKind
  <2>4. \A i \in dying' : i \in Ids' /\ ents[i].kind \in Living
    BY <2>1 DEF Entries
  <2> QED
    BY <2>1, <2>2, <2>3, <2>4, OfKindIn, RemovalKeeps
<1>5. ASSUME NEW i \in Ids, HandleAttack(i) \/ MobsKill(i) PROVE Entries' /\ Kept
  <2>1. /\ UNCHANGED spawnVars /\ dying' = dying \cup {i} /\ ents[i].kind \in Living
    BY <1>5 DEF HandleAttack, MobsKill
  <2> QED
    BY <2>1 DEF Entries, Kept, OfKind, Ids, spawnVars
<1>6. CASE Simulate
  <2> DEFINE left == Ids \ dying
  <2>1. PICK step \in [left -> Places] :
           ents' = [i \in left |-> [kind |-> ents[i].kind, at |-> step[i]]]
    BY <1>6 DEF Simulate
  <2>2. /\ dying' = {} /\ UNCHANGED <<nextId, stacks, orbs>>
    BY <1>6 DEF Simulate
  <2>3. Ids' = left
    BY <2>1 DEF Ids
  <2>4. \A i \in left : ents'[i].kind = ents[i].kind
    BY <2>1
  <2>5. DOMAIN stacks' = DOMAIN stacks \ dying /\ orbs' = orbs \ dying
    BY <2>2 DEF Entries, OfKind, Living
  <2>6. dying \subseteq Ids
    BY DEF Entries
  <2> QED
    BY <2>2, <2>3, <2>4, <2>5, <2>6, RemovalKeeps
<1>7. ASSUME NEW i \in Ids, ArrowLands(i) PROVE Entries' /\ Kept
  <2>1. /\ ents[i].kind = "arrow" /\ nextId' = nextId + 1
        /\ ents' = [j \in (Ids \ {i}) \cup {nextId} |->
                   IF j = nextId THEN [kind |-> "item", at |-> ents[i].at] ELSE ents[j]]
        /\ DOMAIN stacks' = DOMAIN stacks \cup {nextId}
        /\ UNCHANGED <<orbs, dying>>
    BY <1>7 DEF ArrowLands, OfKind
  <2>2. Ids' = (Ids \ {i}) \cup {nextId} /\ nextId \notin Ids /\ nextId \in Nat
    BY <2>1 DEF Ids, Entries
  <2>3. ents'[nextId].kind = "item" /\ \A j \in Ids \ {i} : ents'[j] = ents[j]
    BY <2>1, <2>2
  <2>4. OfKind("item")' = OfKind("item") \cup {nextId} /\ OfKind("orb")' = OfKind("orb")
    BY <2>1, <2>2, <2>3 DEF OfKind
  <2>5. \A j \in dying' : j \in Ids' /\ ents'[j].kind \in Living
    BY <2>1, <2>2, <2>3 DEF Entries, Living
  <2>6. nextId' \in Nat /\ \A j \in Ids' : j \in Nat /\ j < nextId'
    BY <2>1, <2>2 DEF Entries
  <2>7. DOMAIN stacks' = OfKind("item")' /\ orbs' = OfKind("orb")'
    BY <2>1, <2>4 DEF Entries
  <2>8. Kept
    BY <2>1, <2>2, <2>3 DEF Kept
  <2> QED
    BY <2>5, <2>6, <2>7, <2>8 DEF Entries
<1>8. ASSUME NEW i \in Ids, ArrowHits(i) PROVE Entries' /\ Kept
  <2>1. /\ ents[i].kind = "arrow" /\ UNCHANGED <<nextId, stacks, orbs>>
        /\ Ids' = Ids \ {i} /\ \A j \in Ids' : ents'[j] = ents[j]
    BY <1>8 DEF ArrowHits, OfKind, Restrict, Ids
  <2>2. PICK t \in At(ents[i].at) \ dying :
           ents[t].kind \in Living /\ dying' \in {dying, dying \cup {t}}
    BY <1>8 DEF ArrowHits
  <2>3. \A j \in dying' : j \in Ids' /\ ents[j].kind \in Living
    BY <2>1, <2>2 DEF Entries, Living, At
  <2>4. DOMAIN stacks' = DOMAIN stacks \ {i} /\ orbs' = orbs \ {i}
    BY <2>1 DEF Entries, OfKind
  <2> QED
    BY <2>1, <2>3, <2>4, RemovalKeeps
<1>9. ASSUME NEW i \in Ids, NEW j \in Ids, Merge(i, j) PROVE Entries' /\ Kept
  <2>1. PICK gone \in {{}, {j}} :
           /\ DOMAIN stacks' = DOMAIN stacks \ gone
           /\ Ids' = Ids \ gone /\ \A k \in Ids' : ents'[k] = ents[k]
    BY <1>9 DEF Merge, Restrict, Ids
  <2>2. /\ ents[j].kind = "item" /\ UNCHANGED <<nextId, orbs, dying>>
    BY <1>9 DEF Merge, OfKind
  <2>3. \A k \in dying' : k \in Ids' /\ ents[k].kind \in Living
    BY <2>1, <2>2 DEF Entries, Living
  <2>4. orbs' = orbs \ gone
    BY <2>1, <2>2 DEF Entries, OfKind
  <2> QED
    BY <2>1, <2>2, <2>3, <2>4, RemovalKeeps
<1>10. CASE Collect
  <2>1. PICK expired \in SUBSET (OfKind("item") \cap before),
             taken \in SUBSET (OfKind("item") \cap before) :
           /\ ents' = Restrict(ents, Ids \ (expired \cup taken))
           /\ stacks' = Restrict(stacks, (DOMAIN stacks \cap Ids) \ (expired \cup taken))
    BY <1>10 DEF Collect
  <2> DEFINE gone == expired \cup taken
  <2>2. /\ Ids' = Ids \ gone /\ \A k \in Ids' : ents'[k] = ents[k]
        /\ DOMAIN stacks' = (DOMAIN stacks \cap Ids) \ gone
    BY <2>1 DEF Restrict, Ids
  <2>3. gone \subseteq OfKind("item")
    OBVIOUS
  <2> HIDE DEF gone
  <2>4. UNCHANGED <<nextId, orbs, dying>>
    BY <1>10 DEF Collect
  <2>5. DOMAIN stacks' = DOMAIN stacks \ gone /\ orbs' = orbs \ gone
    BY <2>2, <2>3, <2>4 DEF Entries, OfKind
  <2>6. \A k \in dying' : k \in Ids' /\ ents[k].kind \in Living
    BY <2>2, <2>3, <2>4 DEF Entries, Living, OfKind
  <2> QED
    BY <2>2, <2>3, <2>4, <2>5, <2>6, OfKindIn, RemovalKeeps
<1>11. CASE Track
  <2>1. /\ UNCHANGED <<ents, nextId, stacks, dying>> /\ orbs' = orbs \cap Ids
    BY <1>11 DEF Track
  <2>2. orbs' = orbs
    BY <2>1 DEF Entries, OfKind
  <2> QED
    BY <1>1, <2>1, <2>2 DEF spawnVars
<1>12. ASSUME NEW i \in Ids, TakeOrb(i) PROVE Entries' /\ Kept
  <2>1. /\ i \in orbs /\ UNCHANGED <<nextId, stacks, dying>> /\ orbs' = orbs \ {i}
        /\ Ids' = Ids \ {i} /\ \A j \in Ids' : ents'[j] = ents[j]
    BY <1>12 DEF TakeOrb, Restrict, Ids
  <2>2. ents[i].kind = "orb"
    BY <2>1 DEF Entries, OfKind
  <2>3. \A j \in dying' : j \in Ids' /\ ents[j].kind \in Living
    BY <2>1, <2>2 DEF Entries, Living
  <2>4. DOMAIN stacks' = DOMAIN stacks \ {i}
    BY <2>1, <2>2 DEF Entries, OfKind
  <2> QED
    BY <2>1, <2>3, <2>4, RemovalKeeps
<1>13. CASE Quiet \/ UNCHANGED vars
  BY <1>1, <1>13, QuietKeeps DEF vars, spawnVars
<1> QED
  BY <1>2, <1>3, <1>4, <1>5, <1>6, <1>7, <1>8, <1>9, <1>10, <1>11, <1>12, <1>13
  DEF Next, Packet, GameTick, Quiet, Spawning

-----------------------------------------------------------------------------
(* The rider *)

\* A ridden creature that stays keeps its rider, and one that goes loses it.
LEMMA RiderStays ==
    ASSUME ViewAssumption, Entries, Entries', Kept, Rider,
           UNCHANGED vehicle, carriers' = carriers \cap Ids'
    PROVE  Rider'
<1>1. vehicle \in Ids' => vehicle # NoEntity
  BY DEF ViewAssumption, Entries
<1>2. vehicle \in Ids' => vehicle \in Ids
  BY <1>1 DEF Rider, Entries, Kept
<1>3. vehicle \in Ids' => ents'[vehicle].kind = "creature"
  BY <1>2 DEF Rider, Kept
<1>4. vehicle # NoEntity => vehicle \in Nat /\ vehicle < nextId'
  BY DEF Rider, Kept, Entries
<1>5. carriers' = IF vehicle = NoEntity THEN {} ELSE {vehicle} \cap Ids'
  BY <1>2 DEF Rider
<1> QED
  BY <1>3, <1>4, <1>5 DEF Rider

\* The same when only what is not ridden goes.
LEMMA OthersGo ==
    ASSUME ViewAssumption, Entries, Entries', Kept, Rider, UNCHANGED rideVars,
           \A i \in Ids \ Ids' : ents[i].kind # "creature"
    PROVE  Rider'
<1>1. carriers \subseteq Ids' /\ UNCHANGED <<vehicle, carriers>>
  BY DEF Rider, rideVars
<1> QED
  BY <1>1, RiderStays

LEMMA RiderLeaves ==
    ASSUME ViewAssumption, Rider, Entries', Dismount
    PROVE  Rider'
<1>1. vehicle' = NoEntity /\ carriers' = {}
  BY DEF Dismount, Rider
<1>2. NoEntity \notin Ids'
  BY DEF ViewAssumption, Entries
<1> QED
  BY <1>1, <1>2 DEF Rider

LEMMA RiderStep ==
    ASSUME ViewAssumption, Entries, Rider, [Next]_vars
    PROVE  Rider'
<1>1. Entries' /\ Kept
  BY EntriesStep
<1>2. ASSUME UNCHANGED spawnVars PROVE Ids' = Ids
  BY <1>2 DEF Ids, spawnVars
<1>3. CASE Dismount
  BY <1>1, <1>3, RiderLeaves
<1>4. CASE HandleAccept \/ HandleRespawn \/ EndTick \/ UNCHANGED vars
  <2>1. UNCHANGED rideVars /\ UNCHANGED spawnVars
    BY <1>4 DEF HandleAccept, HandleRespawn, EndTick, vars, rideVars, spawnVars
  <2> QED
    BY <1>1, <1>2, <2>1, OthersGo
<1>5. CASE HandleSpectate \/ HandleDismount \/ HandleKill \/ SurvivalKills
  BY <1>3, <1>5 DEF HandleSpectate, HandleDismount, HandleKill, SurvivalKills, KillPlayer
<1>6. ASSUME NEW p \in Places, HandleMove(p) \/ HandleTp(p) PROVE Rider'
  <2>1. Dismount \/ (UNCHANGED rideVars /\ UNCHANGED spawnVars)
    BY <1>6 DEF HandleMove, HandleTp
  <2> QED
    BY <1>1, <1>2, <1>3, <2>1, OthersGo
<1>7. ASSUME NEW i \in Ids, HandleMount(i) PROVE Rider'
  <2>1. /\ ents[i].kind = "creature" /\ vehicle' = i /\ carriers' = {i}
        /\ UNCHANGED <<ents, nextId>>
    BY <1>7 DEF HandleMount, spawnVars
  <2>2. i # NoEntity /\ i \in Nat /\ i < nextId
    BY DEF ViewAssumption, Entries
  <2>3. Ids' = Ids /\ i \in Ids
    BY <2>1 DEF Ids
  <2> QED
    BY <2>1, <2>2, <2>3 DEF Rider
<1>8. ASSUME NEW s \in Hotbar, HandleSwap(s) \/ HandleUse(s) PROVE Rider'
  <2>1. UNCHANGED rideVars /\ UNCHANGED spawnVars
    BY <1>8 DEF HandleSwap, HandleUse
  <2> QED
    BY <1>1, <1>2, <2>1, OthersGo
<1>9. CASE /\ Spawning /\ ~HandleKill /\ ~SurvivalKills
  <2>1. UNCHANGED rideVars
    BY <1>9 DEF Spawning, NaturalSpawn, HandleSummon, HandleGive, HandleDrop,
                HandleShoot, HandleFeed, PickUp, Die
  <2>2. Ids \subseteq Ids'
    BY <1>9, SpawningSpawns, SpawnsGrow DEF Grown
  <2> QED
    BY <1>1, <2>1, <2>2, OthersGo
<1>10. ASSUME NEW i \in Ids, HandleAttack(i) \/ MobsKill(i) PROVE Rider'
  <2>1. UNCHANGED rideVars /\ UNCHANGED spawnVars
    BY <1>10 DEF HandleAttack, MobsKill
  <2> QED
    BY <1>1, <1>2, <2>1, OthersGo
<1>11. CASE HandlePeaceful
  <2>1. /\ Ids' = Ids \ OfKind("monster") /\ carriers' = carriers \ OfKind("monster")
        /\ UNCHANGED vehicle
    BY <1>11 DEF HandlePeaceful, RemoveAll, Restrict, Ids
  <2>2. carriers \subseteq Ids
    BY DEF Rider
  <2> QED
    BY <1>1, <2>1, <2>2, RiderStays
<1>12. CASE DespawnDistant
  <2>1. PICK far \in SUBSET Ids :
           /\ Ids' = Ids \ far /\ carriers' = carriers \ far /\ UNCHANGED vehicle
    BY <1>12 DEF DespawnDistant, RemoveAll, Restrict, Ids, OfKind
  <2>2. carriers \subseteq Ids
    BY DEF Rider
  <2> QED
    BY <1>1, <2>1, <2>2, RiderStays
<1>13. CASE Simulate
  <2>1. /\ Ids' = Ids \ dying /\ carriers' = carriers \ dying /\ UNCHANGED vehicle
    BY <1>13 DEF Simulate, Ids
  <2>2. carriers \subseteq Ids
    BY DEF Rider
  <2> QED
    BY <1>1, <2>1, <2>2, RiderStays
<1>14. ASSUME NEW i \in Ids, ArrowLands(i) \/ ArrowHits(i) PROVE Rider'
  <2>1. /\ ents[i].kind = "arrow" /\ UNCHANGED rideVars /\ Ids \ {i} \subseteq Ids'
    BY <1>14 DEF ArrowLands, ArrowHits, OfKind, Restrict, Ids
  <2> QED
    BY <1>1, <2>1, OthersGo
<1>15. ASSUME NEW i \in Ids, NEW j \in Ids, Merge(i, j) PROVE Rider'
  <2>1. /\ ents[j].kind = "item" /\ UNCHANGED rideVars /\ Ids \ {j} \subseteq Ids'
    BY <1>15 DEF Merge, OfKind, Restrict, Ids
  <2> QED
    BY <1>1, <2>1, OthersGo
<1>16. CASE Collect
  <2>1. UNCHANGED rideVars /\ Ids \ OfKind("item") \subseteq Ids'
    BY <1>16 DEF Collect, Restrict, Ids
  <2> QED
    BY <1>1, <2>1, OthersGo DEF OfKind
<1>17. CASE Track
  <2>1. /\ vehicle' = IF vehicle \in Ids THEN vehicle ELSE NoEntity
        /\ UNCHANGED <<ents, nextId, carriers>>
    BY <1>17 DEF Track
  <2>2. NoEntity \notin Ids
    BY DEF ViewAssumption, Entries
  <2> QED
    BY <2>1, <2>2 DEF Rider, Ids
<1>18. ASSUME NEW i \in Ids, TakeOrb(i) PROVE Rider'
  <2>1. /\ i \in orbs /\ UNCHANGED rideVars /\ Ids \ {i} \subseteq Ids'
    BY <1>18 DEF TakeOrb, Restrict, Ids
  <2>2. ents[i].kind = "orb"
    BY <2>1 DEF Entries, OfKind
  <2> QED
    BY <1>1, <2>1, <2>2, OthersGo
<1> QED
  BY <1>4, <1>5, <1>6, <1>7, <1>8, <1>9, <1>10, <1>11, <1>12, <1>13, <1>14, <1>15,
     <1>16, <1>17, <1>18
  DEF Next, Packet, GameTick, Spawning

-----------------------------------------------------------------------------
(* The tracker and the client *)

\* Steps that leave the tracker and the phase alone and remove nothing.
LEMMA TrackedStays ==
    ASSUME Tracked, Ids \subseteq Ids', UNCHANGED <<tracker, known, visible, phase, before>>
    PROVE  Tracked'
BY DEF Tracked

\* A new entity beside the player is tracked as it is sent.
LEMMA TrackedAnnounce ==
    ASSUME Tracked, NEW i, Announce(i), i \in Ids', Ids \subseteq Ids', phase = "loop",
           UNCHANGED <<visible, phase, before>>
    PROVE  Tracked'
<1>1. CASE visible
  BY <1>1 DEF Tracked, Announce
<1>2. CASE ~visible
  BY <1>2 DEF Tracked, Announce, viewVars
<1> QED
  BY <1>1, <1>2

LEMMA TrackedStep ==
    ASSUME ViewAssumption, Entries, Tracked, [Next]_vars
    PROVE  Tracked'
<1>1. ASSUME UNCHANGED spawnVars PROVE Ids' = Ids
  BY <1>1 DEF Ids, spawnVars
<1>2. ASSUME Spawning PROVE Ids \subseteq Ids'
  BY <1>2, SpawningSpawns, SpawnsGrow DEF Grown
<1>3. CASE \/ HandleRespawn \/ HandleSpectate \/ HandleDismount \/ UNCHANGED vars
           \/ \E p \in Places : HandleMove(p) \/ HandleTp(p)
           \/ \E i \in Ids : HandleMount(i) \/ HandleAttack(i) \/ MobsKill(i)
           \/ \E s \in Hotbar : HandleSwap(s) \/ HandleUse(s)
  <2>1. UNCHANGED spawnVars /\ UNCHANGED <<tracker, known, visible, phase, before>>
    BY <1>3 DEF HandleRespawn, HandleSpectate, HandleDismount, vars, HandleMove,
                HandleTp, HandleMount, HandleAttack, MobsKill, HandleSwap, HandleUse,
                viewVars, tickVars, playerVars, spawnVars
  <2> QED
    BY <1>1, <2>1, TrackedStays
<1>4. CASE \/ HandleKill \/ SurvivalKills
           \/ \E n \in 1..MaxStack : HandleGive(n)
           \/ \E s \in Hotbar : HandleFeed(s)
           \/ \E i \in DOMAIN pickups : PickUp(i)
           \/ \E d \in deaths : Die(d)
  <2>1. UNCHANGED <<tracker, known, visible, phase, before>>
    BY <1>4 DEF HandleKill, SurvivalKills, HandleGive, HandleFeed, PickUp, Die,
                viewVars, tickVars, playerVars
  <2> QED
    BY <1>2, <1>4, <2>1, TrackedStays DEF Spawning
<1>5. ASSUME NEW kind \in Living, HandleSummon(kind) PROVE Tracked'
  <2>1. nextId \in Ids' /\ Announce(nextId)
    BY <1>5, SpawnsOne DEF HandleSummon
  <2>2. phase = "loop" /\ UNCHANGED <<visible, phase, before>>
    BY <1>5 DEF HandleSummon, Alive, playerVars, tickVars
  <2>3. Ids \subseteq Ids'
    BY <1>2, <1>5 DEF Spawning
  <2> QED
    BY <2>1, <2>2, <2>3, TrackedAnnounce
<1>6. ASSUME NEW s \in Hotbar, HandleDrop(s) PROVE Tracked'
  <2>1. PICK n \in {1, held[s]} \ {0} : Spawn(Drop(n))
    BY <1>6 DEF HandleDrop
  <2>2. nextId \in Ids' /\ Announce(nextId)
    BY <1>6, <2>1, SpawnsOne DEF HandleDrop, Drop
  <2>3. phase = "loop" /\ UNCHANGED <<visible, phase, before>>
    BY <1>6 DEF HandleDrop, Alive, playerVars, tickVars
  <2>4. Ids \subseteq Ids'
    BY <1>2, <1>6 DEF Spawning
  <2> QED
    BY <2>2, <2>3, <2>4, TrackedAnnounce
<1>7. ASSUME NEW s \in Hotbar, HandleShoot(s) PROVE Tracked'
  <2>1. nextId \in Ids' /\ Announce(nextId)
    BY <1>7, SpawnsOne DEF HandleShoot
  <2>2. phase = "loop" /\ UNCHANGED <<visible, phase, before>>
    BY <1>7 DEF HandleShoot, Alive, playerVars, tickVars
  <2>3. Ids \subseteq Ids'
    BY <1>2, <1>7 DEF Spawning
  <2> QED
    BY <2>1, <2>2, <2>3, TrackedAnnounce
<1>8. CASE HandleAccept
  <2>1. /\ phase = "loop" /\ visible' = TRUE /\ UNCHANGED <<phase, before>>
        /\ tracker' = Updated(tracker) /\ known' = known \cup (InRange \ tracker)
        /\ Ids' = Ids
    BY <1>1, <1>8 DEF HandleAccept, Alive, tickVars
  <2>2. InRange \subseteq Ids
    BY DEF InRange
  <2>3. tracker' = InRange
    BY <2>1 DEF Updated, Tracked
  <2> QED
    BY <2>1, <2>2, <2>3 DEF Tracked
<1>9. CASE HandlePeaceful
  <2>1. /\ phase = "loop" /\ UNCHANGED <<visible, phase, before>>
        /\ Ids' = Ids \ OfKind("monster") /\ Forget(OfKind("monster"))
    BY <1>9 DEF HandlePeaceful, Alive, RemoveAll, Restrict, Ids, playerVars, tickVars
  <2> QED
    BY <2>1 DEF Tracked, Forget
<1>10. CASE Simulate
  <2>1. /\ phase = "loop" /\ phase' = "arrows" /\ before' = Ids
        /\ UNCHANGED <<tracker, known, visible>>
    BY <1>10 DEF Simulate, viewVars, playerVars
  <2> QED
    BY <2>1 DEF Tracked, Phases
<1>11. ASSUME NEW i \in Ids, ArrowLands(i) \/ ArrowHits(i) PROVE Tracked'
  <2>1. phase = "arrows" /\ UNCHANGED <<tracker, known, visible, phase, before>>
    BY <1>11 DEF ArrowLands, ArrowHits, viewVars, playerVars, tickVars
  <2> QED
    BY <2>1 DEF Tracked
<1>12. ASSUME NEW i \in Ids, NEW j \in Ids, Merge(i, j) PROVE Tracked'
  <2>1. /\ phase \in {"arrows", "merge"} /\ phase' = "merge"
        /\ UNCHANGED <<tracker, known, visible, before>>
    BY <1>12 DEF Merge, viewVars, playerVars
  <2> QED
    BY <2>1 DEF Tracked, Phases
<1>13. CASE Collect
  <2>1. /\ phase \in {"arrows", "merge"} /\ phase' = "pickups"
        /\ UNCHANGED <<tracker, known, visible, before>>
    BY <1>13 DEF Collect, viewVars, playerVars
  <2> QED
    BY <2>1 DEF Tracked, Phases
<1>14. CASE Track
  <2>1. /\ phase = "pickups" /\ phase' = "orbs" /\ UNCHANGED visible /\ Ids' = Ids
    BY <1>14 DEF Track, Ids
  <2>2. CASE visible
    <3> DEFINE gone == before \ Ids
    <3>1. /\ tracker' = Updated(tracker \ gone)
          /\ known' = (known \ (tracker \cap (gone \cup (Ids \ InRange))))
                      \cup (InRange \ tracker)
      BY <1>14, <2>2 DEF Track
    <3>2. InRange \subseteq Ids /\ tracker \subseteq before /\ tracker \subseteq known
      BY <2>1 DEF InRange, Tracked
    <3>3. tracker' = InRange
      BY <3>1, <3>2 DEF Updated
    <3>4. InRange \subseteq known'
      BY <3>1, <3>2
    <3> QED
      BY <2>1, <2>2, <3>2, <3>3, <3>4 DEF Tracked, Phases
  <2>3. CASE ~visible
    <3>1. UNCHANGED <<tracker, known>> /\ tracker = {}
      BY <1>14, <2>3 DEF Track, Tracked, viewVars
    <3> QED
      BY <2>1, <3>1 DEF Tracked, Phases
  <2> QED
    BY <2>2, <2>3
<1>15. ASSUME NEW i \in Ids, TakeOrb(i) PROVE Tracked'
  <2>1. /\ phase = "orbs" /\ UNCHANGED <<visible, phase, before>>
        /\ Ids' = Ids \ {i} /\ tracker' = tracker \ {i}
        /\ known' = IF visible THEN known \ {i} ELSE known
    BY <1>15 DEF TakeOrb, Restrict, Ids, playerVars, tickVars
  <2> QED
    BY <2>1 DEF Tracked
<1>16. CASE EndTick
  <2>1. /\ phase = "orbs" /\ phase' = "loop" /\ Ids' = Ids
        /\ UNCHANGED <<tracker, known, visible>>
    BY <1>1, <1>16 DEF EndTick, viewVars, playerVars
  <2> QED
    BY <2>1 DEF Tracked, Phases
<1>17. CASE NaturalSpawn
  <2>1. /\ phase = "orbs" /\ phase' = "despawn" /\ before' = Ids /\ Ids \subseteq Ids'
        /\ UNCHANGED <<tracker, known, visible>>
    BY <1>2, <1>17 DEF NaturalSpawn, Spawning, viewVars, playerVars
  <2> QED
    BY <2>1 DEF Tracked, Phases
<1>18. CASE DespawnDistant
  <2>1. PICK far \in SUBSET Ids :
           Ids' = Ids \ far /\ Forget(before \ (Ids \ far))
    BY <1>18 DEF DespawnDistant, RemoveAll, Restrict, Ids, OfKind
  <2>2. phase = "despawn" /\ phase' = "loop" /\ UNCHANGED visible
    BY <1>18 DEF DespawnDistant, playerVars
  <2> QED
    BY <2>1, <2>2 DEF Tracked, Forget, Phases
<1> QED
  BY <1>3, <1>4, <1>5, <1>6, <1>7, <1>8, <1>9, <1>10, <1>11, <1>12, <1>13, <1>14,
     <1>15, <1>16, <1>17, <1>18
  DEF Next, Packet, GameTick

-----------------------------------------------------------------------------
(* The theorems *)

LEMMA OneOrNone ==
    ASSUME NEW S, S = {} \/ \E x : S = {x}
    PROVE  (S = {} => Cardinality(S) = 0) /\ (S # {} => Cardinality(S) = 1)
BY FS_EmptySet, FS_Singleton

LEMMA EntriesInit ==
    ASSUME ViewAssumption, Init
    PROVE  /\ Entries /\ nextId \in {2, 3}
           /\ \A i \in Ids : i = 2 /\ ents[i].kind \in Living /\ ents[i].at \in Places
<1>1. \E mobs :
         /\ mobs = {} \/ \E kind \in Living, p \in Places : mobs = {[kind |-> kind, at |-> p]}
         /\ ents = [i \in 2 .. (1 + Cardinality(mobs)) |-> CHOOSE mob \in mobs : TRUE]
  BY DEF Init
<1>2. PICK mobs :
         /\ mobs = {} \/ \E kind \in Living, p \in Places : mobs = {[kind |-> kind, at |-> p]}
         /\ ents = [i \in 2 .. (1 + Cardinality(mobs)) |-> CHOOSE mob \in mobs : TRUE]
  BY <1>1
<1> DEFINE size == Cardinality(mobs)
<1>3. (mobs = {} => size = 0) /\ (mobs # {} => size = 1)
  <2>1. mobs = {} \/ \E mob : mobs = {mob}
    BY <1>2
  <2> QED
    BY <2>1, OneOrNone
<1>4. Ids = 2 .. (1 + size) /\ size \in Nat
  BY <1>2, <1>3 DEF Ids
<1>5. Cardinality(Ids) = size
  BY <1>4, FS_Interval
<1>6. \A i \in Ids : ents[i].kind \in Living /\ ents[i].at \in Places
  <2> SUFFICES ASSUME NEW i \in Ids
               PROVE  ents[i].kind \in Living /\ ents[i].at \in Places
    OBVIOUS
  <2>1. mobs # {}
    BY <1>3, <1>4
  <2>2. ents[i] \in mobs
    BY <1>2, <1>4, <2>1
  <2> QED
    BY <1>2, <2>1, <2>2
<1>7. OfKind("item") = {} /\ OfKind("orb") = {}
  BY <1>6 DEF OfKind, Living
<1>8. /\ nextId = 2 + Cardinality(Ids) /\ DOMAIN stacks = {} /\ orbs = {} /\ dying = {}
  BY DEF Init, Ids
<1>9. /\ nextId \in {2, 3} /\ Ids \subseteq Nat
      /\ \A i \in Ids : i = 2 /\ i < nextId
  <2>1. size \in {0, 1}
    BY <1>3
  <2> HIDE DEF size
  <2> QED
    BY <1>4, <1>5, <1>8, <2>1
<1> QED
  BY <1>6, <1>7, <1>8, <1>9 DEF Entries

LEMMA TablesInit ==
    ASSUME ViewAssumption, Init
    PROVE  Tables
<1>1. Entries
  BY EntriesInit
<1>2. Rider
  <2>1. vehicle = NoEntity /\ carriers = {}
    BY DEF Init
  <2>2. NoEntity \notin Ids
    BY <1>1 DEF ViewAssumption, Entries
  <2> QED
    BY <2>1, <2>2 DEF Rider
<1>3. Tracked
  BY DEF Init, Tracked, Phases
<1> QED
  BY <1>1, <1>2, <1>3 DEF Tables

LEMMA TablesInvariant == Spec => []Tables
<1>1. Init => Tables
  BY TablesInit, ViewAssumption
<1>2. Tables /\ [Next]_vars => Tables'
  BY EntriesStep, RiderStep, TrackedStep, ViewAssumption DEF Tables
<1> QED
  BY <1>1, <1>2, PTL DEF Spec

\* Between ticks the tables beside EntityManager agree with it, whichever of
\* the many ways an entity left by: items have their stack, orbs their value,
\* the tracker holds nothing that is gone, and the client has all it holds.
THEOREM TablesAgreeCorrect == Spec => []TablesAgree
<1>1. Tables => TablesAgree
  BY DEF Tables, Entries, Tracked, TablesAgree
<1> QED
  BY <1>1, TablesInvariant, PTL

\* Between ticks the player is a passenger of exactly the entity it rides:
\* dying, teleports, a change of mount and the death of the mount leave no
\* entity with a rider that is elsewhere.
THEOREM RiderExactCorrect == Spec => []RiderExact
<1>1. Tables => RiderExact
  BY DEF Tables, Rider, RiderExact
<1> QED
  BY <1>1, TablesInvariant, PTL

LEMMA GhostStep ==
    ASSUME Tables, Next
    PROVE  (known' \ tracker') \subseteq (known \ tracker) \/ (~confirmed /\ confirmed')
<1> DEFINE NoGhost == (known' \ tracker') \subseteq (known \ tracker)
<1>1. CASE UNCHANGED viewVars
  BY <1>1 DEF viewVars
<1>2. ASSUME NEW i, Announce(i) PROVE NoGhost
  BY <1>2 DEF Announce, viewVars
<1>3. ASSUME NEW gone, Forget(gone) PROVE NoGhost
  BY <1>3 DEF Forget
<1>4. CASE HandleAccept
  BY <1>4 DEF HandleAccept
<1>5. CASE \/ HandleKill \/ HandleRespawn \/ HandleSpectate \/ HandleDismount
           \/ \E p \in Places : HandleMove(p) \/ HandleTp(p)
           \/ \E n \in 1..MaxStack : HandleGive(n)
           \/ \E i \in Ids : HandleAttack(i) \/ HandleMount(i)
           \/ \E s \in Hotbar : HandleSwap(s) \/ HandleUse(s) \/ HandleFeed(s)
  BY <1>1, <1>5 DEF HandleKill, HandleRespawn, HandleSpectate, HandleDismount,
     HandleMove, HandleTp, HandleGive, HandleAttack, HandleMount, HandleSwap,
     HandleUse, HandleFeed, viewVars
<1>6. CASE \/ SurvivalKills \/ Simulate \/ Collect \/ EndTick \/ NaturalSpawn
           \/ \E i \in Ids : MobsKill(i) \/ ArrowLands(i) \/ ArrowHits(i)
           \/ \E i, j \in Ids : Merge(i, j)
           \/ \E i \in DOMAIN pickups : PickUp(i)
           \/ \E d \in deaths : Die(d)
  BY <1>1, <1>6 DEF SurvivalKills, Simulate, Collect, EndTick, NaturalSpawn, MobsKill,
     ArrowLands, ArrowHits, Merge, PickUp, Die, viewVars
<1>7. CASE \/ \E kind \in Living : HandleSummon(kind)
           \/ \E s \in Hotbar : HandleDrop(s) \/ HandleShoot(s)
  BY <1>2, <1>7 DEF HandleSummon, HandleDrop, HandleShoot
<1>8. CASE HandlePeaceful \/ DespawnDistant
  BY <1>3, <1>8 DEF HandlePeaceful, DespawnDistant
<1>9. CASE Track
  <2>1. CASE visible
    <3> DEFINE gone == before \ Ids
    <3>1. /\ tracker' = Updated(tracker \ gone)
          /\ known' = (known \ (tracker \cap (gone \cup (Ids \ InRange))))
                      \cup (InRange \ tracker)
      BY <1>9, <2>1 DEF Track
    <3>2. tracker \subseteq before
      BY <1>9 DEF Track, Tables, Tracked
    <3> QED
      BY <3>1, <3>2 DEF Updated
  <2>2. CASE ~visible
    BY <1>1, <1>9, <2>2 DEF Track
  <2> QED
    BY <2>1, <2>2
<1>10. ASSUME NEW i \in Ids, TakeOrb(i) PROVE NoGhost
  <2>1. /\ tracker' = tracker \ {i}
        /\ known' = IF visible THEN known \ {i} ELSE known
        /\ ~visible => tracker = {}
    BY <1>10 DEF TakeOrb, Tables, Tracked
  <2> QED
    BY <2>1
<1> QED
  BY <1>4, <1>5, <1>6, <1>7, <1>8, <1>9, <1>10, <1>1 DEF Next, Packet, GameTick

\* The client keeps an entity that the tracker has forgotten only when a
\* teleport's acknowledgement made the tracker forget it.
THEOREM GhostsCorrect == Spec => GhostsOnlyFromAccept
<1>1. Tables /\ Next =>
        \/ (known' \ tracker') \subseteq (known \ tracker)
        \/ ~confirmed /\ confirmed'
  BY GhostStep
<1> QED
  BY <1>1, TablesInvariant, PTL DEF Spec, GhostsOnlyFromAccept

-----------------------------------------------------------------------------
(* Sums over finite sets *)

\* Induction over the subsets of a finite set: P holds of S when it holds of
\* each subset all of whose proper subsets it holds of.
LEMMA SubsetInduction ==
    ASSUME NEW S, IsFiniteSet(S), NEW P,
           \A T \in SUBSET S : (\A U \in SUBSET T : U # T => U \in P) => T \in P
    PROVE  \A T \in SUBSET S : T \in P
<1> DEFINE Rel == StrictSubsetOrdering(S)
           Bad == {T \in SUBSET S : T \notin P}
<1>1. IsWellFoundedOn(Rel, FiniteSubsetsOf(S))
  BY FS_StrictSubsetOrderingWellFounded
<1>2. Bad \subseteq FiniteSubsetsOf(S)
  BY FS_Subset DEF FiniteSubsetsOf
<1>3. ASSUME Bad # {} PROVE FALSE
  <2>1. PICK T \in Bad : \A U \in Bad : ~(<<U, T>> \in Rel)
    <3> HIDE DEF Rel, Bad
    <3> QED
      BY <1>1, <1>2, <1>3, WFMin
  <2>2. \A U \in SUBSET T : U # T => U \in P
    BY <2>1 DEF StrictSubsetOrdering
  <2> QED
    BY <2>1, <2>2
<1> QED
  BY <1>3

\* The recursion that a sum is computed by.
First(s) == CHOOSE x \in s : TRUE
Unrolled(f, S, g) ==
    [s \in SUBSET S |-> IF s = {} THEN 0 ELSE f[First(s)] + g[s \ {First(s)}]]

LEMMA SumIsRecursive ==
    ASSUME NEW f, NEW S
    PROVE  SumFunctionOnSet(f, S) = (CHOOSE g : g = Unrolled(f, S, g))[S]
BY Zenon DEF SumFunctionOnSet, FoldFunctionOnSet, MapThenFoldSet, Unrolled, First

LEMMA FirstIn ==
    ASSUME NEW s, s # {}
    PROVE  First(s) \in s /\ s \ {First(s)} # s
BY DEF First

\* Two solutions of the recursion agree.
LEMMA OneSolution ==
    ASSUME NEW f, NEW S, IsFiniteSet(S),
           NEW g, g = Unrolled(f, S, g), NEW h, h = Unrolled(f, S, h)
    PROVE  \A T \in SUBSET S : g[T] = h[T]
<1> DEFINE P == {T \in SUBSET S : g[T] = h[T]}
<1>1. ASSUME NEW T \in SUBSET S, \A U \in SUBSET T : U # T => U \in P
      PROVE  T \in P
  <2>1. CASE T = {}
    <3>1. g[T] = 0 /\ h[T] = 0
      BY <2>1 DEF Unrolled
    <3> QED
      BY <3>1
  <2>2. CASE T # {}
    <3>1. T \ {First(T)} \in P
      BY <1>1, <2>2, FirstIn
    <3>2. g[T] = f[First(T)] + g[T \ {First(T)}] /\ h[T] = f[First(T)] + h[T \ {First(T)}]
      BY <2>2 DEF Unrolled
    <3> QED
      BY <3>1, <3>2
  <2> QED
    BY <2>1, <2>2
<1> HIDE DEF P
<1>2. \A T \in SUBSET S : T \in P
  BY <1>1, SubsetInduction
<1> QED
  BY <1>2 DEF P

\* A sum is that of what is left when the first element is taken, and it.
Unrolls(f, T) ==
    SumFunctionOnSet(f, T)
        = IF T = {} THEN 0 ELSE f[First(T)] + SumFunctionOnSet(f, T \ {First(T)})

LEMMA SumUnrolls ==
    ASSUME NEW f, NEW S, IsFiniteSet(S)
    PROVE  Unrolls(f, S)
<1> DEFINE P == {T \in SUBSET S : Unrolls(f, T)}
           Sum(T) == SumFunctionOnSet(f, T)
           Rhs(T) == IF T = {} THEN 0 ELSE f[First(T)] + Sum(T \ {First(T)})
<1>1. ASSUME NEW T \in SUBSET S, \A U \in SUBSET T : U # T => U \in P
      PROVE  T \in P
  <2> DEFINE h == [U \in SUBSET T |-> IF U = T THEN Rhs(T) ELSE Sum(U)]
             g == CHOOSE k : k = Unrolled(f, T, k)
  <2>1. ASSUME NEW U \in SUBSET T
        PROVE  h[U] = IF U = {} THEN 0 ELSE f[First(U)] + h[U \ {First(U)}]
    <3>1. CASE U = {}
      <4>1. U # T => Sum(U) = 0
        BY <1>1, <3>1 DEF Unrolls
      <4> QED
        BY <3>1, <4>1
    <3>2. CASE U # {}
      <4>1. U \ {First(U)} \in SUBSET T /\ U \ {First(U)} # T
        BY <3>2, FirstIn
      <4>2. h[U \ {First(U)}] = Sum(U \ {First(U)})
        BY <4>1
      <4>3. U # T => Sum(U) = f[First(U)] + Sum(U \ {First(U)})
        BY <1>1, <3>2 DEF Unrolls
      <4>4. h[U] = f[First(U)] + Sum(U \ {First(U)})
        BY <3>2, <4>3
      <4> QED
        BY <3>2, <4>2, <4>4
    <3> QED
      BY <3>1, <3>2
  <2>2. h = Unrolled(f, T, h)
    <3>1. h = [U \in SUBSET T |-> h[U]]
      OBVIOUS
    <3> HIDE DEF h
    <3> QED
      BY <2>1, <3>1 DEF Unrolled
  <2>3. g = Unrolled(f, T, g)
    <3> HIDE DEF h
    <3> QED
      BY <2>2
  <2>4. IsFiniteSet(T)
    BY FS_Subset
  <2>5. g[T] = h[T]
    <3> HIDE DEF g, h
    <3>1. \A U \in SUBSET T : g[U] = h[U]
      BY <2>2, <2>3, <2>4, OneSolution
    <3> QED
      BY <3>1
  <2>6. Sum(T) = g[T]
    BY SumIsRecursive
  <2>7. Sum(T) = Rhs(T)
    BY <2>5, <2>6
  <2> QED
    BY <2>7 DEF Unrolls
<1> HIDE DEF P
<1>2. \A T \in SUBSET S : T \in P
  BY <1>1, SubsetInduction
<1> QED
  BY <1>2 DEF P

LEMMA SumEmpty ==
    ASSUME NEW f
    PROVE  SumFunctionOnSet(f, {}) = 0
BY SumUnrolls, FS_EmptySet DEF Unrolls

LEMMA SumFirst ==
    ASSUME NEW f, NEW S, IsFiniteSet(S), S # {}
    PROVE  SumFunctionOnSet(f, S) = f[First(S)] + SumFunctionOnSet(f, S \ {First(S)})
BY SumUnrolls DEF Unrolls

LEMMA SumType ==
    ASSUME NEW f, NEW S, IsFiniteSet(S), \A x \in S : f[x] \in Int
    PROVE  /\ SumFunctionOnSet(f, S) \in Int
           /\ (\A x \in S : f[x] >= 0) => SumFunctionOnSet(f, S) >= 0
<1> DEFINE P == {T \in SUBSET S :
                    /\ SumFunctionOnSet(f, T) \in Int
                    /\ (\A x \in S : f[x] >= 0) => SumFunctionOnSet(f, T) >= 0}
<1>1. ASSUME NEW T \in SUBSET S, \A U \in SUBSET T : U # T => U \in P
      PROVE  T \in P
  <2>1. CASE T = {}
    BY <2>1, SumEmpty
  <2>2. CASE T # {}
    <3>1. T \ {First(T)} \in P /\ First(T) \in S
      BY <1>1, <2>2, FirstIn
    <3>2. SumFunctionOnSet(f, T) = f[First(T)] + SumFunctionOnSet(f, T \ {First(T)})
      BY <2>2, SumFirst, FS_Subset
    <3>3. f[First(T)] \in Int /\ SumFunctionOnSet(f, T \ {First(T)}) \in Int
      BY <3>1
    <3>4. SumFunctionOnSet(f, T) \in Int
      BY <3>2, <3>3
    <3>5. (\A x \in S : f[x] >= 0) => SumFunctionOnSet(f, T) >= 0
      BY <3>1, <3>2, <3>3
    <3> QED
      BY <3>4, <3>5
  <2> QED
    BY <2>1, <2>2
<1> HIDE DEF P
<1>2. \A T \in SUBSET S : T \in P
  BY <1>1, SubsetInduction
<1> QED
  BY <1>2 DEF P

\* The sum of functions that agree is the same...
LEMMA SumAgrees ==
    ASSUME NEW f, NEW g, NEW S, IsFiniteSet(S), \A x \in S : f[x] = g[x]
    PROVE  SumFunctionOnSet(f, S) = SumFunctionOnSet(g, S)
<1> DEFINE P == {T \in SUBSET S : SumFunctionOnSet(f, T) = SumFunctionOnSet(g, T)}
<1>1. ASSUME NEW T \in SUBSET S, \A U \in SUBSET T : U # T => U \in P
      PROVE  T \in P
  <2>1. CASE T = {}
    BY <2>1, SumEmpty
  <2>2. CASE T # {}
    <3>1. T \ {First(T)} \in P /\ f[First(T)] = g[First(T)]
      BY <1>1, <2>2, FirstIn
    <3>2. /\ SumFunctionOnSet(f, T) = f[First(T)] + SumFunctionOnSet(f, T \ {First(T)})
          /\ SumFunctionOnSet(g, T) = g[First(T)] + SumFunctionOnSet(g, T \ {First(T)})
      BY <2>2, SumFirst, FS_Subset
    <3> QED
      BY <3>1, <3>2
  <2> QED
    BY <2>1, <2>2
<1> HIDE DEF P
<1>2. \A T \in SUBSET S : T \in P
  BY <1>1, SubsetInduction
<1> QED
  BY <1>2 DEF P

\* ... and the elements may be taken in any order.
LEMMA SumTakes ==
    ASSUME NEW f, NEW S, IsFiniteSet(S), \A x \in S : f[x] \in Int, NEW y \in S
    PROVE  SumFunctionOnSet(f, S) = f[y] + SumFunctionOnSet(f, S \ {y})
<1> DEFINE Sum(T) == SumFunctionOnSet(f, T)
           P == {T \in SUBSET S : \A x \in T : Sum(T) = f[x] + Sum(T \ {x})}
<1>1. ASSUME NEW T \in SUBSET S, \A U \in SUBSET T : U # T => U \in P
      PROVE  T \in P
  <2> SUFFICES ASSUME NEW x \in T PROVE Sum(T) = f[x] + Sum(T \ {x})
    OBVIOUS
  <2> DEFINE z == First(T)
  <2>1. IsFiniteSet(T) /\ IsFiniteSet(T \ {x}) /\ IsFiniteSet(T \ {z}) /\ z \in T
    BY FS_Subset, FirstIn
  <2>2. Sum(T) = f[z] + Sum(T \ {z})
    BY <2>1, SumFirst
  <2> HIDE DEF z
  <2>3. CASE x = z
    BY <2>2, <2>3
  <2>4. CASE x # z
    <3>1. (T \ {z}) \ {x} = (T \ {x}) \ {z}
      OBVIOUS
    <3>2. Sum(T \ {z}) = f[x] + Sum((T \ {z}) \ {x})
      BY <1>1, <2>1, <2>4
    <3>3. Sum(T \ {x}) = f[z] + Sum((T \ {x}) \ {z})
      BY <1>1, <2>1, <2>4
    <3>4. Sum((T \ {x}) \ {z}) \in Int
      BY SumType, FS_Subset, (T \ {x}) \ {z} \in SUBSET S
    <3>5. f[x] \in Int /\ f[z] \in Int
      BY <2>1
    <3> DEFINE rest == Sum((T \ {x}) \ {z})
    <3>6. Sum(T) = f[z] + (f[x] + rest)
      BY <2>2, <3>1, <3>2
    <3>7. Sum(T \ {x}) = f[z] + rest /\ rest \in Int
      BY <3>3, <3>4
    <3> HIDE DEF Sum, rest
    <3> QED
      BY <3>5, <3>6, <3>7
  <2> QED
    BY <2>3, <2>4
<1> HIDE DEF P
<1>2. \A T \in SUBSET S : T \in P
  BY <1>1, SubsetInduction
<1> QED
  BY <1>2 DEF P

LEMMA SumOne ==
    ASSUME NEW f, NEW x, f[x] \in Int
    PROVE  SumFunctionOnSet(f, {x}) = f[x]
<1>1. IsFiniteSet({x}) /\ {x} \ {x} = {}
  BY FS_Singleton, FS_EmptySet, FS_AddElement
<1>2. SumFunctionOnSet(f, {x}) = f[x] + SumFunctionOnSet(f, {x} \ {x})
  BY <1>1, SumTakes
<1> QED
  BY <1>1, <1>2, SumEmpty

\* A sum splits at a subset.
LEMMA SumSplits ==
    ASSUME NEW f, NEW S, IsFiniteSet(S), \A x \in S : f[x] \in Int, NEW R \in SUBSET S
    PROVE  SumFunctionOnSet(f, S) = SumFunctionOnSet(f, R) + SumFunctionOnSet(f, S \ R)
<1> DEFINE Sum(T) == SumFunctionOnSet(f, T)
           P == {T \in SUBSET S : Sum(S) = Sum(T) + Sum(S \ T)}
<1>1. ASSUME NEW T \in SUBSET S PROVE IsFiniteSet(T) /\ Sum(T) \in Int
  BY SumType, FS_Subset
<1>2. ASSUME NEW T \in SUBSET S, \A U \in SUBSET T : U # T => U \in P
      PROVE  T \in P
  <2>1. CASE T = {}
    <3>1. Sum(T) = 0 /\ Sum(S) \in Int
      BY <1>1, <2>1, SumEmpty
    <3>2. Sum(S \ T) = Sum(S)
      BY <2>1
    <3> HIDE DEF Sum
    <3>3. Sum(S) = Sum(T) + Sum(S \ T)
      BY <3>1, <3>2
    <3> QED
      BY <3>3
  <2>2. CASE T # {}
    <3> DEFINE x == First(T)
               U == T \ {First(T)}
    <3>1. x \in T /\ U # T /\ U \in SUBSET T
      BY <2>2, FirstIn
    <3>2. Sum(S) = Sum(U) + Sum(S \ U)
      BY <1>2, <3>1
    <3>3. Sum(T) = f[x] + Sum(U)
      BY <1>1, <3>1, SumTakes
    <3>4. (S \ U) \ {x} = S \ T /\ x \in S \ U
      BY <3>1
    <3>5. Sum(S \ U) = f[x] + Sum((S \ U) \ {x})
      BY <1>1, <3>4, SumTakes
    <3>6. Sum(S \ U) = f[x] + Sum(S \ T)
      BY <3>4, <3>5
    <3>7. f[x] \in Int /\ Sum(U) \in Int /\ Sum(S \ T) \in Int
      BY <1>1, <3>1
    <3> HIDE DEF Sum, x, U
    <3>8. Sum(S) = Sum(T) + Sum(S \ T)
      BY <3>2, <3>3, <3>6, <3>7
    <3> QED
      BY <3>8
  <2> QED
    BY <2>1, <2>2
<1> HIDE DEF P
<1>3. \A T \in SUBSET S : T \in P
  BY <1>2, SubsetInduction
<1> QED
  BY <1>3 DEF P

\* The sum of a pointwise sum.
LEMMA SumAdds ==
    ASSUME NEW f, NEW g, NEW h, NEW S, IsFiniteSet(S),
           \A x \in S : f[x] \in Int /\ g[x] \in Int /\ h[x] = f[x] + g[x]
    PROVE  SumFunctionOnSet(h, S) = SumFunctionOnSet(f, S) + SumFunctionOnSet(g, S)
<1> DEFINE P == {T \in SUBSET S : SumFunctionOnSet(h, T)
                                  = SumFunctionOnSet(f, T) + SumFunctionOnSet(g, T)}
<1>1. ASSUME NEW T \in SUBSET S, \A U \in SUBSET T : U # T => U \in P
      PROVE  T \in P
  <2>1. CASE T = {}
    BY <2>1, SumEmpty
  <2>2. CASE T # {}
    <3> DEFINE x == First(T)
               U == T \ {First(T)}
               F == SumFunctionOnSet(f, U)
               G == SumFunctionOnSet(g, U)
    <3>1. x \in S /\ U \in P /\ IsFiniteSet(T) /\ IsFiniteSet(U)
      BY <1>1, <2>2, FirstIn, FS_Subset
    <3>2. /\ SumFunctionOnSet(h, T) = h[x] + SumFunctionOnSet(h, U)
          /\ SumFunctionOnSet(f, T) = f[x] + F
          /\ SumFunctionOnSet(g, T) = g[x] + G
      BY <2>2, <3>1, SumFirst
    <3>3. SumFunctionOnSet(h, U) = F + G
      BY <3>1
    <3>4. F \in Int /\ G \in Int
      BY <3>1, SumType
    <3>5. f[x] \in Int /\ g[x] \in Int /\ h[x] = f[x] + g[x]
      BY <3>1
    <3> HIDE DEF x, U, F, G
    <3>6. SumFunctionOnSet(h, T) = SumFunctionOnSet(f, T) + SumFunctionOnSet(g, T)
      BY <3>2, <3>3, <3>4, <3>5
    <3> QED
      BY <3>6
  <2> QED
    BY <2>1, <2>2
<1> HIDE DEF P
<1>2. \A T \in SUBSET S : T \in P
  BY <1>1, SubsetInduction
<1> QED
  BY <1>2 DEF P

\* A sum over the image of an injection.
LEMMA SumReindexed ==
    ASSUME NEW f, NEW g, NEW b, NEW S, IsFiniteSet(S),
           \A x \in S : f[x] = g[b[x]] /\ f[x] \in Int,
           \A x, y \in S : b[x] = b[y] => x = y
    PROVE  SumFunctionOnSet(f, S) = SumFunctionOnSet(g, {b[x] : x \in S})
<1> DEFINE Img(T) == {b[x] : x \in T}
           P == {T \in SUBSET S : /\ IsFiniteSet(Img(T))
                                  /\ SumFunctionOnSet(f, T) = SumFunctionOnSet(g, Img(T))}
<1>1. ASSUME NEW T \in SUBSET S, \A U \in SUBSET T : U # T => U \in P
      PROVE  T \in P
  <2>1. CASE T = {}
    <3>1. Img(T) = {}
      BY <2>1
    <3> HIDE DEF Img
    <3> QED
      BY <2>1, <3>1, SumEmpty, FS_EmptySet
  <2>2. CASE T # {}
    <3> DEFINE x == First(T)
               U == T \ {First(T)}
    <3>1. x \in T /\ U \in P /\ IsFiniteSet(T)
      BY <1>1, <2>2, FirstIn, FS_Subset
    <3>2. SumFunctionOnSet(f, T) = f[x] + SumFunctionOnSet(f, U)
      BY <2>2, <3>1, SumFirst
    <3>3. Img(T) = Img(U) \cup {b[x]} /\ b[x] \in Img(T)
      BY <3>1
    <3>4. Img(T) \ {b[x]} = Img(U)
      BY <3>1, <3>3
    <3>5. \A y \in Img(T) : g[y] \in Int
      OBVIOUS
    <3>6. IsFiniteSet(Img(U)) /\ SumFunctionOnSet(f, U) = SumFunctionOnSet(g, Img(U))
      BY <3>1
    <3>7. f[x] = g[b[x]]
      BY <3>1
    <3> HIDE DEF x, U, Img
    <3>8. IsFiniteSet(Img(T))
      <4>1. IsFiniteSet(Img(U) \cup {b[x]})
        BY <3>6, FS_AddElement
      <4> QED
        BY <3>3, <4>1
    <3>9. SumFunctionOnSet(g, Img(T)) = g[b[x]] + SumFunctionOnSet(g, Img(T) \ {b[x]})
      BY <3>3, <3>5, <3>8, SumTakes
    <3>10. SumFunctionOnSet(f, T) = SumFunctionOnSet(g, Img(T))
      BY <3>2, <3>4, <3>6, <3>7, <3>9
    <3> QED
      BY <3>8, <3>10
  <2> QED
    BY <2>1, <2>2
<1> HIDE DEF P
<1>2. \A T \in SUBSET S : T \in P
  BY <1>1, SubsetInduction
<1>3. S \in P
  BY <1>2
<1> QED
  BY <1>3 DEF P

-----------------------------------------------------------------------------
(* The items *)

\* What is held, lies on the ground or is being picked up is a stack or less,
\* and stacks are picked up in one phase of the tick only.
Counts ==
    /\ DOMAIN held = Slots /\ \A s \in Slots : held[s] \in 0..MaxStack
    /\ \A i \in DOMAIN stacks : stacks[i] \in 1..MaxStack
    /\ IsFiniteSet(DOMAIN pickups) /\ \A i \in DOMAIN pickups : pickups[i] \in 1..MaxStack
    /\ phase # "pickups" => DOMAIN pickups = {}
    /\ made \in Int

LEMMA FiniteEntities ==
    ASSUME Entries
    PROVE  IsFiniteSet(Ids) /\ \A kind : IsFiniteSet(OfKind(kind))
<1>1. \A i \in Ids : i <= nextId
  BY DEF Entries
<1>2. IsFiniteSet(Ids)
  BY <1>1, FS_BoundedSetOfNaturals DEF Entries
<1> QED
  BY <1>2, FS_Subset, OfKindIn

LEMMA FiniteSlots ==
    ASSUME ViewAssumption
    PROVE  /\ IsFiniteSet(Slots) /\ Slots = Hotbar \cup {Offhand} /\ Offhand \notin Hotbar
           /\ MaxStack \in Nat \ {0} /\ HotbarSlots \in Nat \ {0}
<1>1. HotbarSlots \in Nat \ {0} /\ MaxStack \in Nat \ {0}
  BY DEF ViewAssumption
<1>2. IsFiniteSet(1..(HotbarSlots + 1))
  BY <1>1, FS_Interval
<1> QED
  BY <1>1, <1>2 DEF Slots, Offhand, Hotbar

\* The amounts are naturals.
LEMMA Totals ==
    ASSUME ViewAssumption, Entries, Counts
    PROVE  /\ SumFunction(held) \in Nat
           /\ SumFunction(stacks) \in Nat
           /\ SumFunction(pickups) \in Nat
           /\ Cardinality(OfKind("arrow")) \in Nat
<1>1. IsFiniteSet(Slots) /\ IsFiniteSet(DOMAIN stacks) /\ MaxStack \in Nat
  BY FiniteSlots, FiniteEntities DEF Entries
<1>2. SumFunctionOnSet(held, Slots) \in Nat
  BY <1>1, SumType DEF Counts
<1>3. SumFunctionOnSet(stacks, DOMAIN stacks) \in Nat
  BY <1>1, SumType DEF Counts
<1>4. SumFunctionOnSet(pickups, DOMAIN pickups) \in Nat
  BY <1>1, SumType DEF Counts
<1>5. Cardinality(OfKind("arrow")) \in Nat
  BY FiniteEntities, FS_CardinalityType
<1> QED
  BY <1>2, <1>3, <1>4, <1>5 DEF SumFunction, Counts

\* A function changed at one place.
LEMMA SumExcept ==
    ASSUME NEW S, IsFiniteSet(S), NEW f, NEW g, DOMAIN f = S, DOMAIN g = S,
           \A x \in S : f[x] \in Int, NEW y \in S, NEW n \in Int,
           g[y] = n, \A x \in S \ {y} : g[x] = f[x]
    PROVE  SumFunction(g) = SumFunction(f) - f[y] + n
<1> DEFINE rest == SumFunctionOnSet(f, S \ {y})
<1>1. IsFiniteSet(S \ {y})
  BY FS_RemoveElement
<1>2. SumFunctionOnSet(f, S) = f[y] + rest
  BY SumTakes
<1>3. SumFunctionOnSet(g, S) = g[y] + SumFunctionOnSet(g, S \ {y})
  BY SumTakes
<1>4. SumFunctionOnSet(g, S \ {y}) = rest
  BY <1>1, SumAgrees
<1>5. rest \in Int /\ f[y] \in Int
  BY <1>1, SumType
<1> HIDE DEF rest
<1> QED
  BY <1>2, <1>3, <1>4, <1>5 DEF SumFunction

\* The ids that the things of a kind get.
NewOf(things, kind) ==
    {i \in nextId .. (nextId + Len(things) - 1) : things[i - nextId + 1].kind = kind}

LEMMA SpawnCounts ==
    ASSUME ViewAssumption, Entries, Counts, NEW things, Len(things) \in Nat, Spawn(things),
           \A k \in 1..Len(things) :
              things[k].kind = "item" => things[k].count \in 1..MaxStack
    PROVE  /\ \A i \in DOMAIN stacks' : stacks'[i] \in 1..MaxStack
           /\ \A i \in NewOf(things, "item") : stacks'[i] = things[i - nextId + 1].count
           /\ SumFunction(stacks')
                = SumFunction(stacks) + SumFunctionOnSet(stacks', NewOf(things, "item"))
           /\ OfKind("arrow")' = OfKind("arrow") \cup NewOf(things, "arrow")
           /\ OfKind("arrow") \cap NewOf(things, "arrow") = {}
<1> DEFINE new == nextId .. (nextId + Len(things) - 1)
           items == NewOf(things, "item")
<1>1. /\ ents' = [i \in Ids \cup new |->
                     IF i \in Ids THEN ents[i]
                     ELSE [kind |-> things[i - nextId + 1].kind,
                           at |-> things[i - nextId + 1].at]]
      /\ stacks' = [i \in DOMAIN stacks \cup items |->
                       IF i \in Ids THEN stacks[i] ELSE things[i - nextId + 1].count]
  BY DEF Spawn, NewOf
<1>2. new \cap Ids = {} /\ nextId \in Nat
  BY DEF Entries
<1>3. items \subseteq new /\ DOMAIN stacks \subseteq Ids
  BY DEF NewOf, Entries, OfKind
<1>4. DOMAIN stacks' = DOMAIN stacks \cup items
  BY <1>1
<1>5. \A i \in items : stacks'[i] = things[i - nextId + 1].count
  <2> HIDE DEF new, items
  <2> QED
    BY <1>1, <1>2, <1>3
<1>6. \A i \in DOMAIN stacks : stacks'[i] = stacks[i]
  <2> HIDE DEF new, items
  <2> QED
    BY <1>1, <1>3
<1>7. \A i \in items : stacks'[i] \in 1..MaxStack
  <2> SUFFICES ASSUME NEW i \in items PROVE stacks'[i] \in 1..MaxStack
    OBVIOUS
  <2>1. i - nextId + 1 \in 1..Len(things) /\ things[i - nextId + 1].kind = "item"
    BY <1>2 DEF NewOf
  <2> QED
    BY <1>5, <2>1
<1>8. \A i \in DOMAIN stacks' : stacks'[i] \in 1..MaxStack
  <2> HIDE DEF items
  <2> QED
    BY <1>4, <1>6, <1>7 DEF Counts
<1>9. SumFunction(stacks') = SumFunction(stacks) + SumFunctionOnSet(stacks', items)
  <2>1. IsFiniteSet(DOMAIN stacks) /\ IsFiniteSet(items)
    <3>1. IsFiniteSet(new)
      BY <1>2, FS_Interval
    <3> QED
      BY <1>3, <3>1, FiniteEntities, FS_Subset DEF Entries
  <2>2. IsFiniteSet(DOMAIN stacks')
    <3> HIDE DEF items
    <3>1. IsFiniteSet(DOMAIN stacks \cup items)
      BY <2>1, FS_Union
    <3> QED
      BY <1>4, <3>1
  <2>3. DOMAIN stacks' \ DOMAIN stacks = items
    BY <1>2, <1>3, <1>4
  <2>4. SumFunctionOnSet(stacks', DOMAIN stacks')
          = SumFunctionOnSet(stacks', DOMAIN stacks)
            + SumFunctionOnSet(stacks', DOMAIN stacks' \ DOMAIN stacks)
    <3>1. DOMAIN stacks \in SUBSET DOMAIN stacks' /\ \A i \in DOMAIN stacks' : stacks'[i] \in Int
      BY <1>4, <1>8, FiniteSlots
    <3> QED
      BY <2>2, <3>1, SumSplits
  <2>5. SumFunctionOnSet(stacks', DOMAIN stacks) = SumFunctionOnSet(stacks, DOMAIN stacks)
    BY <1>6, <2>1, SumAgrees
  <2> QED
    BY <2>3, <2>4, <2>5 DEF SumFunction
<1>10. Ids' = Ids \cup new
  BY <1>1 DEF Ids
<1>11. \A i \in Ids : ents'[i] = ents[i]
  BY <1>1
<1>12. \A i \in new : ents'[i].kind = things[i - nextId + 1].kind
  BY <1>1, <1>2
<1>13. OfKind("arrow")' = OfKind("arrow") \cup NewOf(things, "arrow")
  BY <1>2, <1>10, <1>11, <1>12 DEF OfKind, NewOf
<1>14. OfKind("arrow") \cap NewOf(things, "arrow") = {}
  BY <1>2 DEF OfKind, NewOf
<1> QED
  BY <1>5, <1>8, <1>9, <1>13, <1>14

\* One thing is spawned: an item adds its count, an arrow adds itself.
LEMMA SpawnOneCounts ==
    ASSUME ViewAssumption, Entries, Counts, NEW kind, NEW at, NEW n,
           Spawn(<<Thing(kind, at, n)>>), kind = "item" => n \in 1..MaxStack
    PROVE  /\ \A i \in DOMAIN stacks' : stacks'[i] \in 1..MaxStack
           /\ SumFunction(stacks') = SumFunction(stacks) + (IF kind = "item" THEN n ELSE 0)
           /\ Cardinality(OfKind("arrow"))'
                = Cardinality(OfKind("arrow")) + (IF kind = "arrow" THEN 1 ELSE 0)
<1> DEFINE things == <<Thing(kind, at, n)>>
<1>1. Len(things) = 1 /\ things[1].kind = kind /\ things[1].count = n
  BY DEF Thing
<1>2. nextId \in Nat /\ nextId .. (nextId + 1 - 1) = {nextId} /\ nextId - nextId + 1 = 1
  BY DEF Entries
<1> HIDE DEF things
<1>3. \A k : NewOf(things, k) = IF kind = k THEN {nextId} ELSE {}
  BY <1>1, <1>2 DEF NewOf
<1>4. \A k \in 1..Len(things) :
         things[k].kind = "item" => things[k].count \in 1..MaxStack
  BY <1>1
<1>5. /\ \A i \in DOMAIN stacks' : stacks'[i] \in 1..MaxStack
      /\ \A i \in NewOf(things, "item") : stacks'[i] = things[i - nextId + 1].count
      /\ SumFunction(stacks')
           = SumFunction(stacks) + SumFunctionOnSet(stacks', NewOf(things, "item"))
      /\ OfKind("arrow")' = OfKind("arrow") \cup NewOf(things, "arrow")
      /\ OfKind("arrow") \cap NewOf(things, "arrow") = {}
  BY <1>1, <1>4, SpawnCounts DEF things
<1>6. SumFunctionOnSet(stacks', NewOf(things, "item")) = IF kind = "item" THEN n ELSE 0
  <2>1. CASE kind = "item"
    <3>1. stacks'[nextId] = n /\ n \in Int
      BY <1>1, <1>2, <1>3, <1>5, <2>1, FiniteSlots
    <3> QED
      BY <1>3, <2>1, <3>1, SumOne
  <2>2. CASE kind # "item"
    BY <1>3, <2>2, SumEmpty
  <2> QED
    BY <2>1, <2>2
<1>7. Cardinality(OfKind("arrow")')
        = Cardinality(OfKind("arrow")) + (IF kind = "arrow" THEN 1 ELSE 0)
  <2>1. CASE kind = "arrow"
    <3>1. OfKind("arrow")' = OfKind("arrow") \cup {nextId} /\ nextId \notin OfKind("arrow")
      BY <1>3, <1>5, <2>1
    <3> QED
      BY <2>1, <3>1, FiniteEntities, FS_AddElement
  <2>2. CASE kind # "arrow"
    <3>1. OfKind("arrow")' = OfKind("arrow") /\ Cardinality(OfKind("arrow")) \in Nat
      BY <1>3, <1>5, <2>2, Totals
    <3> QED
      BY <2>2, <3>1
  <2> QED
    BY <2>1, <2>2
<1> QED
  BY <1>5, <1>6, <1>7

LEMMA SmallerIs ==
    ASSUME NEW a \in Int, NEW b \in Int
    PROVE  Smaller(a, b) \in Int /\ Smaller(a, b) <= a /\ Smaller(a, b) <= b
           /\ (Smaller(a, b) = a \/ Smaller(a, b) = b)
BY DEF Smaller

\* The room in the slots before s, and what each slot takes of n items.
Taken(s) == SumFunctionOnSet([t \in Hotbar |-> MaxStack - held[t]], 1..(s - 1))
Gain(n) ==
    [s \in Slots |-> IF s = Offhand \/ Taken(s) >= n THEN 0
                     ELSE Smaller(n - Taken(s), MaxStack - held[s])]

LEMMA TakenIs ==
    ASSUME ViewAssumption, Counts, NEW s \in Hotbar
    PROVE  /\ Taken(s) \in Nat /\ Taken(1) = 0
           /\ Taken(s + 1) = Taken(s) + (MaxStack - held[s]) /\ MaxStack - held[s] \in Nat
<1> DEFINE room == [t \in Hotbar |-> MaxStack - held[t]]
<1>1. /\ s \in Nat \ {0} /\ s <= HotbarSlots /\ HotbarSlots \in Nat
      /\ 1..s \subseteq Hotbar /\ 1..(s - 1) \subseteq Hotbar
  BY FiniteSlots DEF Hotbar
<1>2. \A t \in Hotbar : room[t] \in Nat
  <2> SUFFICES ASSUME NEW t \in Hotbar PROVE MaxStack - held[t] \in Nat
    OBVIOUS
  <2>1. held[t] \in 0..MaxStack /\ MaxStack \in Nat
    BY FiniteSlots DEF Counts
  <2> QED
    BY <2>1
<1>3. IsFiniteSet(1..s) /\ IsFiniteSet(1..(s - 1))
  BY <1>1, FS_Interval
<1>4. SumFunctionOnSet(room, 1..(s - 1)) \in Nat
  <2> DEFINE S == 1..(s - 1)
  <2>1. (\A t \in S : room[t] \in Int) /\ (\A t \in S : room[t] >= 0) /\ IsFiniteSet(S)
    BY <1>1, <1>2, <1>3
  <2> HIDE DEF room, S
  <2>2. SumFunctionOnSet(room, S) \in Int /\ SumFunctionOnSet(room, S) >= 0
    BY <2>1, SumType
  <2> QED
    BY <2>2 DEF S
<1>5. SumFunctionOnSet(room, 1..s) = room[s] + SumFunctionOnSet(room, (1..s) \ {s})
  <2>1. \A t \in 1..s : room[t] \in Int
    BY <1>1, <1>2
  <2>2. s \in 1..s
    BY <1>1
  <2> HIDE DEF room
  <2> QED
    BY <1>3, <2>1, <2>2, SumTakes
<1>6. (1..s) \ {s} = 1..(s - 1) /\ (s + 1) - 1 = s /\ 1..(1 - 1) = {}
  BY <1>1
<1>7. Taken(s) = SumFunctionOnSet(room, 1..(s - 1)) /\ Taken(s + 1) = SumFunctionOnSet(room, 1..s)
  BY <1>6 DEF Taken
<1>8. Taken(1) = 0
  BY <1>6, SumEmpty DEF Taken
<1>9. room[s] = MaxStack - held[s] /\ room[s] \in Nat
  BY <1>2
<1> HIDE DEF room
<1>10. Taken(s + 1) = room[s] + SumFunctionOnSet(room, 1..(s - 1))
  BY <1>5, <1>6, <1>7
<1>11. Taken(s + 1) = Taken(s) + room[s]
  BY <1>4, <1>7, <1>9, <1>10
<1> QED
  BY <1>4, <1>7, <1>8, <1>9, <1>11

LEMMA GainIs ==
    ASSUME ViewAssumption, Counts, NEW n \in Nat, NEW s \in Slots
    PROVE  Gain(n)[s] \in 0..(MaxStack - held[s])
<1>1. held[s] \in 0..MaxStack /\ MaxStack \in Nat
  BY FiniteSlots DEF Counts
<1>2. CASE s = Offhand \/ Taken(s) >= n
  BY <1>1, <1>2 DEF Gain
<1>3. CASE ~(s = Offhand \/ Taken(s) >= n)
  <2>1. Taken(s) \in Nat
    BY <1>3, FiniteSlots, TakenIs
  <2>2. Gain(n)[s] = Smaller(n - Taken(s), MaxStack - held[s])
    BY <1>3 DEF Gain
  <2> QED
    BY <1>1, <1>3, <2>1, <2>2 DEF Smaller
<1> QED
  BY <1>2, <1>3

\* The first k slots take what they have room for, and no more than n.
LEMMA GainsSum ==
    ASSUME ViewAssumption, Counts, NEW n \in Nat
    PROVE  \A k \in 0..HotbarSlots :
              SumFunctionOnSet(Gain(n), 1..k) = Smaller(n, Taken(k + 1))
<1> DEFINE Right(k) == SumFunctionOnSet(Gain(n), 1..k) = Smaller(n, Taken(k + 1))
           P == {T \in SUBSET Hotbar : \A k \in 0..HotbarSlots : T = 1..k => Right(k)}
<1>1. HotbarSlots \in Nat /\ IsFiniteSet(Hotbar)
  BY FiniteSlots, FS_Interval DEF Hotbar
<1>2. ASSUME NEW T \in SUBSET Hotbar, \A U \in SUBSET T : U # T => U \in P
      PROVE  T \in P
  <2> SUFFICES ASSUME NEW k \in 0..HotbarSlots, T = 1..k PROVE Right(k)
    OBVIOUS
  <2>1. CASE k = 0
    <3>1. 1..k = {} /\ Taken(k + 1) = 0
      <4>1. 1 \in Hotbar /\ 0 + 1 = 1
        BY FiniteSlots DEF Hotbar
      <4> QED
        BY <2>1, <4>1, TakenIs
    <3>2. SumFunctionOnSet(Gain(n), 1..k) = 0
      BY <3>1, SumEmpty
    <3> QED
      BY <3>1, <3>2 DEF Smaller
  <2>2. CASE k # 0
    <3>1. /\ k \in Hotbar /\ k - 1 \in 0..HotbarSlots /\ k \in Int
          /\ 1..(k - 1) \in SUBSET T /\ 1..(k - 1) # T /\ (1..k) \ {k} = 1..(k - 1)
          /\ k \in 1..k /\ (k - 1) + 1 = k
      BY <1>1, <2>2 DEF Hotbar
    <3>2. SumFunctionOnSet(Gain(n), 1..(k - 1)) = Smaller(n, Taken(k))
      BY <1>2, <3>1
    <3>3. SumFunctionOnSet(Gain(n), 1..k)
            = Gain(n)[k] + SumFunctionOnSet(Gain(n), (1..k) \ {k})
      <4>1. \A s \in 1..k : s \in Slots
        BY <1>1 DEF Slots, Offhand
      <4>2. \A s \in 1..k : Gain(n)[s] \in Int
        <5> SUFFICES ASSUME NEW s \in 1..k PROVE Gain(n)[s] \in Int
          OBVIOUS
        <5>1. held[s] \in Int /\ MaxStack \in Int
          BY <4>1, FiniteSlots DEF Counts
        <5> QED
          BY <4>1, <5>1, GainIs
      <4>3. IsFiniteSet(1..k)
        BY <1>1, FS_Interval
      <4> QED
        BY <3>1, <4>2, <4>3, SumTakes
    <3>4. /\ Taken(k) \in Nat /\ MaxStack - held[k] \in Nat
          /\ Taken(k + 1) = Taken(k) + (MaxStack - held[k])
      BY <3>1, TakenIs
    <3>5. Gain(n)[k] = IF Taken(k) >= n THEN 0 ELSE Smaller(n - Taken(k), MaxStack - held[k])
      BY <3>1, FiniteSlots DEF Gain
    <3>6. SumFunctionOnSet(Gain(n), 1..k) = Gain(n)[k] + Smaller(n, Taken(k))
      BY <3>1, <3>2, <3>3
    <3> QED
      BY <3>4, <3>5, <3>6 DEF Smaller
  <2> QED
    BY <2>1, <2>2
<1> HIDE DEF P
<1>3. \A T \in SUBSET Hotbar : T \in P
  BY <1>1, <1>2, SubsetInduction
<1>4. \A k \in 0..HotbarSlots : 1..k \in SUBSET Hotbar
  BY <1>1 DEF Hotbar
<1> QED
  BY <1>3, <1>4 DEF P

\* What is put into the hotbar fits, and is n items less what is left over.
LEMMA InsertedIs ==
    ASSUME ViewAssumption, Counts, NEW n \in 1..MaxStack
    PROVE  /\ DOMAIN Inserted(n) = Slots
           /\ \A s \in Slots : Inserted(n)[s] \in 0..MaxStack
           /\ Rest(n) \in 0..n
           /\ SumFunction(Inserted(n)) = SumFunction(held) + n - Rest(n)
<1>1. /\ IsFiniteSet(Slots) /\ Slots = Hotbar \cup {Offhand} /\ Offhand \notin Hotbar
      /\ MaxStack \in Nat /\ HotbarSlots \in Nat /\ n \in Nat
  BY FiniteSlots
<1>2. DOMAIN Inserted(n) = Slots
  BY DEF Inserted
<1>3. \A s \in Slots : held[s] \in 0..MaxStack
  BY DEF Counts
<1>4. ASSUME NEW s \in Slots
      PROVE  /\ Gain(n)[s] \in 0..(MaxStack - held[s])
             /\ Inserted(n)[s] = held[s] + Gain(n)[s]
  <2>1. Gain(n)[s] \in 0..(MaxStack - held[s]) /\ held[s] \in Int
    BY <1>1, <1>3, GainIs
  <2>2. CASE s = Offhand
    <3>1. Inserted(n)[s] = held[s] /\ Gain(n)[s] = 0
      BY <2>2 DEF Inserted, Gain
    <3> QED
      BY <2>1, <3>1
  <2>3. CASE s # Offhand
    <3>1. s \in Hotbar
      BY <1>1, <2>3
    <3>2. [t \in Hotbar |-> MaxStack - held[t]][s] = MaxStack - held[s]
      BY <3>1
    <3>3. Inserted(n)[s] = IF Taken(s) >= n THEN held[s]
                           ELSE held[s] + Smaller(n - Taken(s), MaxStack - held[s])
      BY <2>3 DEF Inserted, Taken
    <3>4. Gain(n)[s] = IF Taken(s) >= n THEN 0
                       ELSE Smaller(n - Taken(s), MaxStack - held[s])
      BY <2>3 DEF Gain
    <3> QED
      BY <2>1, <3>3, <3>4
  <2> QED
    BY <2>2, <2>3
<1>5. \A s \in Slots : Inserted(n)[s] \in 0..MaxStack
  <2> SUFFICES ASSUME NEW s \in Slots PROVE Inserted(n)[s] \in 0..MaxStack
    OBVIOUS
  <2>1. held[s] \in 0..MaxStack /\ Gain(n)[s] \in 0..(MaxStack - held[s])
        /\ Inserted(n)[s] = held[s] + Gain(n)[s]
    BY <1>3, <1>4
  <2> QED
    BY <1>1, <2>1
<1>6. \A s \in Slots : held[s] \in Int /\ Gain(n)[s] \in Int
  <2> SUFFICES ASSUME NEW s \in Slots PROVE held[s] \in Int /\ Gain(n)[s] \in Int
    OBVIOUS
  <2>1. held[s] \in Int /\ Gain(n)[s] \in 0..(MaxStack - held[s])
    BY <1>1, <1>3, <1>4
  <2> QED
    BY <1>1, <2>1
<1>7. SumFunctionOnSet(Inserted(n), Slots)
        = SumFunctionOnSet(held, Slots) + SumFunctionOnSet(Gain(n), Slots)
  BY <1>1, <1>4, <1>6, SumAdds
<1>8. SumFunctionOnSet(Gain(n), Slots) = SumFunctionOnSet(Gain(n), Hotbar)
  <2>1. SumFunctionOnSet(Gain(n), Slots)
          = Gain(n)[Offhand] + SumFunctionOnSet(Gain(n), Slots \ {Offhand})
    BY <1>1, <1>6, SumTakes
  <2>2. Gain(n)[Offhand] = 0
    BY <1>1 DEF Gain
  <2>3. Slots \ {Offhand} = Hotbar
    BY <1>1
  <2>4. SumFunctionOnSet(Gain(n), Hotbar) \in Int
    BY <1>1, <1>6, SumType, FS_Subset
  <2> QED
    BY <2>1, <2>2, <2>3, <2>4
<1>9. SumFunctionOnSet(Gain(n), Hotbar) \in 0..n
  <2>1. SumFunctionOnSet(Gain(n), Hotbar) = Smaller(n, Taken(HotbarSlots + 1))
    BY <1>1, GainsSum DEF Hotbar
  <2>2. Taken(HotbarSlots + 1) \in Nat
    <3>1. HotbarSlots \in Hotbar
      BY FiniteSlots DEF Hotbar
    <3>2. /\ Taken(HotbarSlots) \in Nat /\ MaxStack - held[HotbarSlots] \in Nat
          /\ Taken(HotbarSlots + 1) = Taken(HotbarSlots) + (MaxStack - held[HotbarSlots])
      BY <3>1, TakenIs
    <3> QED
      BY <3>2
  <2> QED
    BY <1>1, <2>1, <2>2 DEF Smaller
<1>10. SumFunction(Inserted(n)) = SumFunction(held) + SumFunctionOnSet(Gain(n), Hotbar)
  BY <1>2, <1>7, <1>8 DEF SumFunction, Counts
<1>11. SumFunction(held) \in Int
  BY <1>1, <1>6, SumType DEF SumFunction, Counts
<1>12. Rest(n) = n - (SumFunction(Inserted(n)) - SumFunction(held))
  BY DEF Rest
<1>13. Rest(n) \in 0..n /\ SumFunction(Inserted(n)) = SumFunction(held) + n - Rest(n)
  BY <1>1, <1>9, <1>10, <1>11, <1>12
<1> QED
  BY <1>2, <1>5, <1>13

LEMMA SumZero ==
    ASSUME NEW f, NEW S, IsFiniteSet(S), \A x \in S : f[x] = 0
    PROVE  SumFunctionOnSet(f, S) = 0
<1>1. \A x \in S : f[x] \in Int /\ f[x] = f[x] + f[x]
  OBVIOUS
<1> DEFINE sum == SumFunctionOnSet(f, S)
<1>2. sum = sum + sum
  BY <1>1, SumAdds
<1>3. sum \in Int
  BY <1>1, SumType
<1> HIDE DEF sum
<1>4. sum = 0
  BY <1>2, <1>3
<1> QED
  BY <1>4 DEF sum

\* A stack that is dropped, if any, is on the ground.
LEMMA DropCounts ==
    ASSUME ViewAssumption, Entries, Counts, NEW n \in 0..MaxStack, Spawn(Drop(n))
    PROVE  /\ \A i \in DOMAIN stacks' : stacks'[i] \in 1..MaxStack
           /\ SumFunction(stacks') = SumFunction(stacks) + n
           /\ Cardinality(OfKind("arrow"))' = Cardinality(OfKind("arrow"))
<1>1. SumFunction(stacks) \in Nat /\ Cardinality(OfKind("arrow")) \in Nat /\ MaxStack \in Nat
  BY Totals, FiniteSlots
<1>2. CASE n = 0
  <2> DEFINE none == <<>>
  <2>1. Len(none) = 0 /\ Spawn(none) /\ Len(none) \in Nat
    BY <1>2 DEF Drop
  <2> HIDE DEF none
  <2>2. \A kind : NewOf(none, kind) = {}
    BY <2>1 DEF NewOf, Entries
  <2>3. /\ \A i \in DOMAIN stacks' : stacks'[i] \in 1..MaxStack
        /\ SumFunction(stacks')
             = SumFunction(stacks) + SumFunctionOnSet(stacks', NewOf(none, "item"))
        /\ OfKind("arrow")' = OfKind("arrow") \cup NewOf(none, "arrow")
    BY <2>1, SpawnCounts
  <2>4. SumFunctionOnSet(stacks', NewOf(none, "item")) = 0
    BY <2>2, SumEmpty
  <2>5. Cardinality(OfKind("arrow"))' = Cardinality(OfKind("arrow"))
    BY <2>2, <2>3
  <2> QED
    BY <1>1, <1>2, <2>3, <2>4, <2>5
<1>3. CASE n # 0
  <2>1. Spawn(<<Thing("item", place, n)>>) /\ n \in 1..MaxStack
    BY <1>1, <1>3 DEF Drop
  <2> QED
    BY <1>1, <2>1, SpawnOneCounts
<1> QED
  BY <1>2, <1>3

\* A stack put away is in the hotbar or on the ground.
LEMMA PutAwayCounts ==
    ASSUME ViewAssumption, Entries, Counts, NEW n \in 1..MaxStack, PutAway(n)
    PROVE  /\ DOMAIN held' = Slots /\ \A s \in Slots : held'[s] \in 0..MaxStack
           /\ \A i \in DOMAIN stacks' : stacks'[i] \in 1..MaxStack
           /\ SumFunction(held') + SumFunction(stacks')
                = SumFunction(held) + SumFunction(stacks) + n
           /\ Cardinality(OfKind("arrow"))' = Cardinality(OfKind("arrow"))
<1>1. held' = Inserted(n) /\ Spawn(Drop(Rest(n)))
  BY DEF PutAway
<1>2. /\ DOMAIN Inserted(n) = Slots
      /\ \A s \in Slots : Inserted(n)[s] \in 0..MaxStack
      /\ Rest(n) \in 0..n
      /\ SumFunction(Inserted(n)) = SumFunction(held) + n - Rest(n)
  BY InsertedIs
<1>3. /\ MaxStack \in Nat /\ SumFunction(held) \in Nat /\ SumFunction(stacks) \in Nat
      /\ n \in Nat /\ n <= MaxStack
  BY Totals, FiniteSlots
<1>4. Rest(n) \in 0..MaxStack
  BY <1>2, <1>3
<1>5. /\ \A i \in DOMAIN stacks' : stacks'[i] \in 1..MaxStack
      /\ SumFunction(stacks') = SumFunction(stacks) + Rest(n)
      /\ Cardinality(OfKind("arrow"))' = Cardinality(OfKind("arrow"))
  BY <1>1, <1>4, DropCounts
<1>6. SumFunction(held') + SumFunction(stacks') = SumFunction(held) + SumFunction(stacks) + n
  <2>1. SumFunction(held') = SumFunction(held) + n - Rest(n)
    BY <1>1, <1>2
  <2> QED
    BY <1>2, <1>3, <1>5, <2>1
<1> QED
  BY <1>1, <1>2, <1>5, <1>6

LEMMA OrbFirst ==
    ASSUME NEW t, NEW orb, orb = <<>> \/ orb = <<t>>, NEW E, NEW D \in Seq(E)
    PROVE  /\ Len(orb) \in {0, 1} /\ \A k \in 1..Len(orb) : orb[k] = t
           /\ Len(orb \o D) = Len(orb) + Len(D)
           /\ \A k \in 1..Len(orb) : (orb \o D)[k] = orb[k]
           /\ \A k \in 1..Len(D) : (orb \o D)[Len(orb) + k] = D[k]
<1>1. D \in Seq(E \cup {t}) /\ t \in E \cup {t}
  OBVIOUS
<1>2. CASE orb = <<>>
  <2>1. <<>> \o D = D
    OBVIOUS
  <2> QED
    BY <1>2, <2>1
<1>3. CASE orb = <<t>>
  <2>1. <<t>> \in Seq(E \cup {t})
    BY <1>1
  <2> QED
    BY <1>1, <1>3, <2>1
<1> QED
  BY <1>2, <1>3

\* The things spawned are some that are no items, and then a stack for each slot
\* that is filled.
DropsAll(slots, things, L) ==
    /\ slots \in [1..Cardinality(Filled) -> Filled] /\ InOrder(slots)
    /\ L \in Nat /\ Len(things) = L + Cardinality(Filled)
    /\ \A n \in 1..L : things[n].kind = "orb"
    /\ \A n \in 1..Cardinality(Filled) :
          things[L + n].kind = "item" /\ things[L + n].count = held[slots[n]]

\* What a killed player held lies on the ground, each slot in a stack of its own.
LEMMA DropAllCounts ==
    ASSUME ViewAssumption, Entries, Counts,
           NEW slots, NEW things, NEW L, DropsAll(slots, things, L), Spawn(things)
    PROVE  /\ \A i \in DOMAIN stacks' : stacks'[i] \in 1..MaxStack
           /\ SumFunction(stacks') = SumFunction(stacks) + SumFunction(held)
           /\ Cardinality(OfKind("arrow"))' = Cardinality(OfKind("arrow"))
<1> DEFINE C == Cardinality(Filled)
           items == NewOf(things, "item")
           b == [i \in items |-> slots[(i - nextId + 1) - L]]
<1>1. /\ IsFiniteSet(Slots) /\ MaxStack \in Nat /\ HotbarSlots \in Nat
      /\ Slots = 1..(HotbarSlots + 1)
  BY FiniteSlots DEF Slots, Offhand
<1>2. IsFiniteSet(Filled) /\ C \in Nat /\ Filled \in SUBSET Slots
  BY <1>1, FS_Subset, FS_CardinalityType DEF Filled
<1>3. \A s \in Slots : held[s] \in 0..MaxStack
  BY DEF Counts
<1>4. \A s \in Filled : held[s] \in 1..MaxStack
  BY <1>1, <1>3 DEF Filled
<1>9. nextId \in Nat
  BY DEF Entries
<1>8. /\ Len(things) = L + C /\ slots \in [1..C -> Filled] /\ L \in Nat
      /\ \A k \in 1..L : things[k].kind = "orb"
      /\ \A k \in 1..C : things[L + k].kind = "item" /\ things[L + k].count = held[slots[k]]
  BY DEF DropsAll
<1> HIDE DEF C
<1>10. \A k \in 1..Len(things) :
          /\ k <= L => things[k].kind = "orb"
          /\ k > L => /\ k - L \in 1..C /\ things[k].kind = "item"
                      /\ things[k].count = held[slots[k - L]]
  <2> SUFFICES ASSUME NEW k \in 1..Len(things)
               PROVE  /\ k <= L => things[k].kind = "orb"
                      /\ k > L => /\ k - L \in 1..C /\ things[k].kind = "item"
                                  /\ things[k].count = held[slots[k - L]]
    OBVIOUS
  <2>1. CASE k <= L
    BY <1>2, <1>8, <2>1
  <2>2. CASE k > L
    <3> DEFINE l == k - L
    <3>1. l \in 1..C /\ L + l = k
      BY <1>2, <1>8, <2>2
    <3> HIDE DEF l
    <3>2. things[k].kind = "item" /\ things[k].count = held[slots[l]]
      BY <1>8, <3>1
    <3> QED
      BY <1>2, <1>8, <2>2, <3>1, <3>2 DEF l
  <2> QED
    BY <1>2, <1>8, <2>1, <2>2
<1>11. \A k \in 1..Len(things) :
          things[k].kind = "item" => things[k].count \in 1..MaxStack
  <2> SUFFICES ASSUME NEW k \in 1..Len(things), things[k].kind = "item"
               PROVE  things[k].count \in 1..MaxStack
    OBVIOUS
  <2>1. k \in Int
    BY <1>2, <1>8
  <2>2. k > L
    BY <1>8, <1>10, <2>1
  <2>3. k - L \in 1..C /\ things[k].count = held[slots[k - L]]
    BY <1>10, <2>2
  <2>4. slots[k - L] \in Filled
    BY <1>8, <2>3
  <2> QED
    BY <1>4, <2>3, <2>4
<1>12. /\ \A i \in DOMAIN stacks' : stacks'[i] \in 1..MaxStack
       /\ \A i \in items : stacks'[i] = things[i - nextId + 1].count
       /\ SumFunction(stacks') = SumFunction(stacks) + SumFunctionOnSet(stacks', items)
       /\ OfKind("arrow")' = OfKind("arrow") \cup NewOf(things, "arrow")
  <2>1. Len(things) \in Nat /\ Spawn(things)
    BY <1>2, <1>8
  <2> QED
    BY <1>11, <2>1, SpawnCounts
<1>13. ASSUME NEW i \in nextId .. (nextId + Len(things) - 1)
       PROVE  i - nextId + 1 \in 1..Len(things) /\ i \in Int
  BY <1>2, <1>8, <1>9
<1>14. NewOf(things, "arrow") = {}
  BY <1>2, <1>8, <1>10, <1>13 DEF NewOf
<1>15. \A i \in items : /\ i \in Int /\ (i - nextId + 1) - L \in 1..C
                        /\ stacks'[i] = held[b[i]]
  <2> SUFFICES ASSUME NEW i \in items
               PROVE  /\ i \in Int /\ (i - nextId + 1) - L \in 1..C
                      /\ stacks'[i] = held[b[i]]
    OBVIOUS
  <2>1. i - nextId + 1 \in 1..Len(things) /\ i \in Int /\ things[i - nextId + 1].kind = "item"
    BY <1>13 DEF NewOf
  <2> DEFINE k == i - nextId + 1
  <2>2. k - L \in 1..C /\ things[k].count = held[slots[k - L]]
    <3> HIDE DEF k
    <3>1. k \in Int /\ (k <= L \/ k > L)
      BY <1>8, <1>9, <2>1 DEF k
    <3>2. k \in 1..Len(things) /\ things[k].kind = "item"
      BY <2>1 DEF k
    <3>3. k > L
      BY <1>10, <3>1, <3>2
    <3> QED
      BY <1>10, <3>2, <3>3
  <2>3. b[i] = slots[k - L]
    OBVIOUS
  <2>4. stacks'[i] = things[k].count
    BY <1>12
  <2>5. (i - nextId + 1) - L = k - L
    OBVIOUS
  <2> HIDE DEF b, k, items
  <2> QED
    BY <2>1, <2>2, <2>3, <2>4, <2>5
<1>16. \A k, l \in 1..C : slots[k] = slots[l] => k = l
  <2>1. DOMAIN slots = 1..C
    BY <1>8
  <2>2. \A k \in 1..C : \A l \in 1..(k - 1) : slots[l] < slots[k]
    BY <2>1 DEF InOrder, DropsAll
  <2>3. \A k \in 1..C : slots[k] \in Int
    <3>1. \A k \in 1..C : slots[k] \in Filled
      BY <1>8
    <3>2. \A s \in Slots : s \in Int
      BY <1>1
    <3> QED
      BY <1>2, <3>1, <3>2
  <2> QED
    BY <1>2, <2>2, <2>3
<1>17. \A i, j \in items : b[i] = b[j] => i = j
  <2> SUFFICES ASSUME NEW i \in items, NEW j \in items, b[i] = b[j] PROVE i = j
    OBVIOUS
  <2>1. slots[(i - nextId + 1) - L] = slots[(j - nextId + 1) - L]
    OBVIOUS
  <2>2. (i - nextId + 1) - L = (j - nextId + 1) - L
    BY <1>15, <1>16, <2>1
  <2> QED
    BY <1>8, <1>9, <1>15, <2>2
<1>18. {b[i] : i \in items} = Filled
  <2>1. \A s \in Filled : \E k \in 1..C : slots[k] = s
    <3>1. IsFiniteSet(1..C) /\ Cardinality(1..C) = C
      BY <1>2, FS_Interval
    <3>2. slots \in Injection(1..C, Filled)
      BY <1>8, <1>16 DEF Injection, IsInjective
    <3>3. slots \in Surjection(1..C, Filled)
      <4>1. Cardinality(1..C) = Cardinality(Filled)
        BY <3>1 DEF C
      <4> QED
        BY <1>2, <3>2, <4>1, FS_Injection
    <3> QED
      BY <3>3 DEF Surjection
  <2>2. \A k \in 1..C : \E i \in items : b[i] = slots[k]
    <3> SUFFICES ASSUME NEW k \in 1..C PROVE \E i \in items : b[i] = slots[k]
      OBVIOUS
    <3> DEFINE i == nextId + L + k - 1
    <3>1. /\ i \in nextId .. (nextId + Len(things) - 1)
          /\ i - nextId + 1 = L + k /\ (i - nextId + 1) - L = k /\ L + k > L
          /\ L + k \in 1..Len(things)
      BY <1>2, <1>8, <1>9
    <3>2. things[i - nextId + 1].kind = "item"
      BY <1>10, <3>1
    <3> HIDE DEF i
    <3>3. i \in items
      BY <3>1, <3>2 DEF NewOf
    <3> QED
      BY <3>1, <3>3
  <2>3. \A i \in items : b[i] \in Filled
    BY <1>8, <1>15
  <2> HIDE DEF b, items
  <2> QED
    BY <2>1, <2>2, <2>3
<1>19. IsFiniteSet(items)
  <2>1. IsFiniteSet(nextId .. (nextId + Len(things) - 1))
    BY <1>2, <1>8, <1>9, FS_Interval
  <2> QED
    BY <2>1, FS_Subset DEF NewOf
<1>20. SumFunctionOnSet(stacks', items) = SumFunctionOnSet(held, Filled)
  <2>1. \A i \in items : stacks'[i] = held[b[i]] /\ stacks'[i] \in Int
    BY <1>2, <1>3, <1>15, <1>18
  <2> HIDE DEF b, items
  <2> QED
    BY <1>17, <1>18, <1>19, <2>1, SumReindexed
<1>21. SumFunctionOnSet(held, Slots) = SumFunctionOnSet(held, Filled)
  <2>1. SumFunctionOnSet(held, Slots)
          = SumFunctionOnSet(held, Filled) + SumFunctionOnSet(held, Slots \ Filled)
    <3>1. \A s \in Slots : held[s] \in Int
      BY <1>1, <1>3
    <3>2. IsFiniteSet(Slots) /\ Filled \in SUBSET Slots
      BY <1>1, <1>2
    <3> QED
      BY <3>1, <3>2, SumSplits
  <2>2. SumFunctionOnSet(held, Slots \ Filled) = 0
    <3>1. \A s \in Slots \ Filled : held[s] = 0
      BY <1>1, <1>3 DEF Filled
    <3>2. IsFiniteSet(Slots \ Filled)
      BY <1>1, FS_Difference
    <3> QED
      BY <3>1, <3>2, SumZero
  <2>3. SumFunctionOnSet(held, Filled) \in Int
    BY <1>2, <1>3, SumType
  <2> QED
    BY <2>1, <2>2, <2>3
<1>22. SumFunction(held) = SumFunctionOnSet(held, Slots)
  BY DEF SumFunction, Counts
<1>23. Cardinality(OfKind("arrow"))' = Cardinality(OfKind("arrow"))
  BY <1>12, <1>14
<1> QED
  BY <1>12, <1>20, <1>21, <1>22, <1>23

\* An orb perhaps, and what is held, each slot in a stack of its own, are spawned.
Scatters(orb, slots) ==
    /\ orb \in {<<>>, <<Thing("orb", place, 0)>>}
    /\ slots \in [1..Cardinality(Filled) -> Filled]
    /\ InOrder(slots)
    /\ Spawn(orb \o DropAll(slots))

LEMMA KillCounts ==
    ASSUME ViewAssumption, Entries, Counts, KillPlayer
    PROVE  /\ DOMAIN held' = Slots /\ \A s \in Slots : held'[s] \in 0..MaxStack
           /\ \A i \in DOMAIN stacks' : stacks'[i] \in 1..MaxStack
           /\ SumFunction(held') + SumFunction(stacks') = SumFunction(held) + SumFunction(stacks)
           /\ Cardinality(OfKind("arrow"))' = Cardinality(OfKind("arrow"))
<1>1. CASE UNCHANGED <<spawnVars, held>>
  <2>1. UNCHANGED <<ents, stacks, held>>
    BY <1>1 DEF spawnVars
  <2> QED
    BY <2>1 DEF Counts, OfKind, Ids
<1>2. CASE ~UNCHANGED <<spawnVars, held>>
  <2>1. PICK orb, slots : Scatters(orb, slots)
    <3>1. \E orb \in {<<>>, <<Thing("orb", place, 0)>>},
             slots \in [1..Cardinality(Filled) -> Filled] :
             InOrder(slots) /\ Spawn(orb \o DropAll(slots))
      BY <1>2 DEF KillPlayer
    <3>2. ASSUME NEW orb \in {<<>>, <<Thing("orb", place, 0)>>},
                 NEW slots \in [1..Cardinality(Filled) -> Filled],
                 InOrder(slots), Spawn(orb \o DropAll(slots))
          PROVE  Scatters(orb, slots)
      BY <3>2, Zenon DEF Scatters
    <3> QED
      BY <3>1, <3>2, Zenon
  <2>2. held' = [s \in Slots |-> 0]
    BY <1>2 DEF KillPlayer
  <2>3. IsFiniteSet(Slots) /\ MaxStack \in Nat
    BY FiniteSlots
  <2>4. DOMAIN held' = Slots /\ \A s \in Slots : held'[s] = 0
    BY <2>2
  <2>5. SumFunction(held') = 0
    BY <2>3, <2>4, SumZero DEF SumFunction
  <2>6. /\ \A i \in DOMAIN stacks' : stacks'[i] \in 1..MaxStack
        /\ SumFunction(stacks') = SumFunction(stacks) + SumFunction(held)
        /\ Cardinality(OfKind("arrow"))' = Cardinality(OfKind("arrow"))
    <3> DEFINE C == Cardinality(Filled)
               D == DropAll(slots)
               t == Thing("orb", place, 0)
               things == orb \o D
    <3>1. C \in Nat
      BY <2>3, FS_Subset, FS_CardinalityType DEF Filled
    <3>2. /\ D \in Seq({D[k] : k \in 1..C}) /\ Len(D) = C
          /\ \A k \in 1..C : D[k].kind = "item" /\ D[k].count = held[slots[k]]
      <4>1. DOMAIN slots = 1..C
        BY <2>1 DEF Scatters
      <4>2. D = [k \in 1..C |-> Thing("item", place, held[slots[k]])]
        BY <4>1 DEF DropAll
      <4>3. \A k \in 1..C : D[k] = Thing("item", place, held[slots[k]])
        BY <4>2
      <4>4. \A k \in 1..C : D[k].kind = "item" /\ D[k].count = held[slots[k]]
        <5>1. \A n : /\ Thing("item", place, n).kind = "item"
                     /\ Thing("item", place, n).count = n
          BY DEF Thing
        <5> HIDE DEF C, D
        <5> QED
          BY <4>3, <5>1
      <4> HIDE DEF C
      <4>5. D \in Seq({D[k] : k \in 1..C}) /\ Len(D) = C
        BY <3>1, <4>2
      <4> QED
        BY <4>4, <4>5
    <3>3. (orb = <<>> \/ orb = <<t>>) /\ t.kind = "orb"
      BY <2>1 DEF Thing, Scatters
    <3> DEFINE E == {D[k] : k \in 1..C}
    <3> HIDE DEF C, D, t, things, E
    <3>4. /\ Len(orb) \in {0, 1} /\ \A k \in 1..Len(orb) : orb[k] = t
          /\ Len(things) = Len(orb) + C
          /\ \A k \in 1..Len(orb) : things[k] = orb[k]
          /\ \A k \in 1..C : things[Len(orb) + k] = D[k]
      <4>1. D \in Seq(E) /\ Len(D) = C
        BY <3>2 DEF E
      <4>2. orb = <<>> \/ orb = <<t>>
        BY <3>3
      <4>3. /\ Len(orb) \in {0, 1} /\ \A k \in 1..Len(orb) : orb[k] = t
            /\ Len(orb \o D) = Len(orb) + Len(D)
            /\ \A k \in 1..Len(orb) : (orb \o D)[k] = orb[k]
            /\ \A k \in 1..Len(D) : (orb \o D)[Len(orb) + k] = D[k]
        BY <4>1, <4>2, OrbFirst
      <4> QED
        BY <4>1, <4>3 DEF things
    <3>5. Spawn(things)
      BY <2>1 DEF things, D, Scatters
    <3>6. \A k \in 1..Len(orb) : things[k].kind = "orb"
      BY <3>3, <3>4
    <3>7. \A k \in 1..C : things[Len(orb) + k].kind = "item"
                         /\ things[Len(orb) + k].count = held[slots[k]]
      BY <3>2, <3>4
    <3>8. Len(orb) \in Nat
      BY <3>4
    <3> QED
      <4>1. DropsAll(slots, things, Len(orb))
        BY <2>1, <3>4, <3>6, <3>7, <3>8 DEF DropsAll, C, Scatters
      <4> QED
        BY <3>5, <4>1, DropAllCounts
  <2>7. SumFunction(held) \in Nat /\ SumFunction(stacks) \in Nat
    BY Totals
  <2> QED
    BY <2>3, <2>4, <2>5, <2>6, <2>7
<1> QED
  BY <1>1, <1>2

Items == Counts /\ ItemsConserved

\* Steps that leave the items, the arrows and the count of what was made alone.
LEMMA ItemsStay ==
    ASSUME Items, UNCHANGED <<held, stacks, pickups, made>>,
           OfKind("arrow")' = OfKind("arrow"),
           UNCHANGED phase \/ phase # "pickups" \/ DOMAIN pickups = {}
    PROVE  Items'
BY DEF Items, Counts, ItemsConserved

\* Steps that move items, or make or use up some: h more are held or lie on the
\* ground, p more are being picked up, a more are in the air.
LEMMA ItemsChange ==
    ASSUME ViewAssumption, Entries, Items, Counts', NEW h \in Int, NEW p \in Int, NEW a \in Int,
           SumFunction(held') + SumFunction(stacks') = SumFunction(held) + SumFunction(stacks) + h,
           SumFunction(pickups') = SumFunction(pickups) + p,
           Cardinality(OfKind("arrow"))' = Cardinality(OfKind("arrow")) + a,
           made' = made + h + p + a
    PROVE  Items'
<1>1. /\ SumFunction(held) \in Int /\ SumFunction(stacks) \in Int
      /\ SumFunction(pickups) \in Int /\ Cardinality(OfKind("arrow")) \in Int
      /\ made = SumFunction(held) + SumFunction(stacks) + SumFunction(pickups)
                + Cardinality(OfKind("arrow"))
  BY Totals DEF Items, ItemsConserved
<1>2. /\ SumFunction(held)' + SumFunction(stacks)'
           = SumFunction(held) + SumFunction(stacks) + h
      /\ SumFunction(pickups)' = SumFunction(pickups) + p
  OBVIOUS
<1>3. ItemsConserved'
  BY <1>1, <1>2 DEF ItemsConserved
<1> QED
  BY <1>3 DEF Items

\* The same, of steps that pick nothing up.
LEMMA ItemsMove ==
    ASSUME ViewAssumption, Entries, Items,
           DOMAIN held' = Slots, \A s \in Slots : held'[s] \in 0..MaxStack,
           \A i \in DOMAIN stacks' : stacks'[i] \in 1..MaxStack,
           UNCHANGED pickups, UNCHANGED phase \/ phase # "pickups",
           NEW h \in Int, NEW a \in Int,
           SumFunction(held') + SumFunction(stacks') = SumFunction(held) + SumFunction(stacks) + h,
           Cardinality(OfKind("arrow"))' = Cardinality(OfKind("arrow")) + a,
           made' = made + h + a
    PROVE  Items'
<1>1. SumFunction(pickups') = SumFunction(pickups) + 0
  BY Totals DEF Items
<1>2. made' = made + h + 0 + a
  BY DEF Items, Counts
<1>3. Counts'
  BY DEF Items, Counts
<1> QED
  BY <1>1, <1>2, <1>3, ItemsChange

\* One slot changes.
LEMMA SlotChanges ==
    ASSUME ViewAssumption, Counts, NEW s \in Hotbar, NEW n \in 0..MaxStack,
           held' = [held EXCEPT ![s] = n]
    PROVE  /\ DOMAIN held' = Slots /\ \A t \in Slots : held'[t] \in 0..MaxStack
           /\ held[s] \in 0..MaxStack
           /\ SumFunction(held') = SumFunction(held) + (n - held[s])
<1>1. /\ IsFiniteSet(Slots) /\ MaxStack \in Nat /\ s \in Slots
  BY FiniteSlots
<1>2. /\ DOMAIN held = Slots /\ DOMAIN held' = Slots /\ held'[s] = n
      /\ \A t \in Slots \ {s} : held'[t] = held[t]
  BY <1>1 DEF Counts
<1>3. \A t \in Slots : held[t] \in 0..MaxStack
  BY DEF Counts
<1>4. /\ \A t \in Slots : held[t] \in Int
      /\ n \in Int
  BY <1>1, <1>3
<1>5. SumFunction(held') = SumFunction(held) - held[s] + n
  <2> DEFINE new == held'
  <2>1. /\ DOMAIN new = Slots /\ new[s] = n
        /\ \A t \in Slots \ {s} : new[t] = held[t]
    BY <1>2
  <2> HIDE DEF new
  <2>2. SumFunction(new) = SumFunction(held) - held[s] + n
    BY <1>1, <1>2, <1>4, <2>1, SumExcept
  <2> QED
    BY <2>2 DEF new
<1>6. SumFunction(held) \in Int
  BY <1>1, <1>2, <1>4, SumType DEF SumFunction
<1>7. SumFunction(held') = SumFunction(held) + (n - held[s])
  BY <1>1, <1>4, <1>5, <1>6
<1> QED
  BY <1>1, <1>2, <1>3, <1>7

\* Items are taken from a slot.
LEMMA SlotLess ==
    ASSUME ViewAssumption, Counts, NEW s \in Hotbar, NEW n \in Nat, n <= held[s],
           held' = [held EXCEPT ![s] = @ - n]
    PROVE  /\ DOMAIN held' = Slots /\ \A t \in Slots : held'[t] \in 0..MaxStack
           /\ SumFunction(held') = SumFunction(held) + (0 - n)
<1>1. held[s] \in 0..MaxStack /\ MaxStack \in Nat
  BY FiniteSlots DEF Counts
<1> DEFINE m == held[s] - n
<1>2. m \in 0..MaxStack /\ held' = [held EXCEPT ![s] = m]
  BY <1>1
<1>3. m - held[s] = 0 - n
  BY <1>1
<1> HIDE DEF m
<1> QED
  BY <1>2, <1>3, SlotChanges

LEMMA OneLess ==
    ASSUME ViewAssumption, Counts, NEW s \in Hotbar, held[s] > 0,
           held' = [held EXCEPT ![s] = @ - 1]
    PROVE  /\ DOMAIN held' = Slots /\ \A t \in Slots : held'[t] \in 0..MaxStack
           /\ SumFunction(held') = SumFunction(held) - 1
<1>1. held[s] \in 0..MaxStack /\ MaxStack \in Nat /\ IsFiniteSet(Slots)
  BY FiniteSlots DEF Counts
<1> DEFINE m == held[s] - 1
<1>2. m \in 0..MaxStack /\ held' = [held EXCEPT ![s] = m]
  BY <1>1
<1>3. m - held[s] = -1
  BY <1>1
<1>4. SumFunction(held) \in Int
  BY <1>1, SumType DEF SumFunction, Counts
<1> HIDE DEF m
<1>5. /\ DOMAIN held' = Slots /\ \A t \in Slots : held'[t] \in 0..MaxStack
      /\ SumFunction(held') = SumFunction(held) + (m - held[s])
  BY <1>2, SlotChanges
<1> QED
  BY <1>3, <1>4, <1>5

\* The same items are in other slots.
LEMMA SwapKeeps ==
    ASSUME ViewAssumption, Counts, NEW s \in Hotbar,
           held' = [held EXCEPT ![s] = held[Offhand], ![Offhand] = held[s]]
    PROVE  /\ DOMAIN held' = Slots /\ \A t \in Slots : held'[t] \in 0..MaxStack
           /\ SumFunction(held') = SumFunction(held)
<1>1. /\ IsFiniteSet(Slots) /\ MaxStack \in Nat /\ s \in Slots /\ Offhand \in Slots
      /\ s # Offhand
  BY FiniteSlots
<1>2. DOMAIN held = Slots /\ \A t \in Slots : held[t] \in 0..MaxStack
  BY DEF Counts
<1>3. \A t \in Slots : held[t] \in Int
  BY <1>1, <1>2
<1> DEFINE mid == [held EXCEPT ![s] = held[Offhand]]
<1>4. /\ DOMAIN mid = Slots /\ mid[s] = held[Offhand] /\ mid[Offhand] = held[Offhand]
      /\ \A t \in Slots \ {s} : mid[t] = held[t]
  BY <1>1, <1>2
<1>5. /\ DOMAIN held' = Slots /\ held'[Offhand] = held[s] /\ held'[s] = mid[s]
      /\ \A t \in Slots \ {Offhand} : held'[t] = mid[t]
  BY <1>1, <1>2
<1>6. SumFunction(mid) = SumFunction(held) - held[s] + held[Offhand]
  <2> HIDE DEF mid
  <2> QED
    BY <1>1, <1>2, <1>3, <1>4, SumExcept
<1>7. SumFunction(held') = SumFunction(mid) - mid[Offhand] + held[s]
  <2> DEFINE new == held'
  <2>1. /\ DOMAIN new = Slots /\ new[Offhand] = held[s]
        /\ \A t \in Slots \ {Offhand} : new[t] = mid[t]
    BY <1>5
  <2> HIDE DEF mid, new
  <2>2. \A t \in Slots : mid[t] \in Int
    BY <1>1, <1>3, <1>4
  <2>3. SumFunction(new) = SumFunction(mid) - mid[Offhand] + held[s]
    BY <1>1, <1>3, <1>4, <2>1, <2>2, SumExcept
  <2> QED
    BY <2>3 DEF new
<1>8. SumFunction(held) \in Int
  BY <1>1, <1>2, <1>3, SumType DEF SumFunction
<1>9. held[s] \in Int /\ held[Offhand] \in Int
  BY <1>1, <1>3
<1>10. SumFunction(held') = SumFunction(held)
  <2> HIDE DEF mid
  <2> QED
    BY <1>4, <1>6, <1>7, <1>8, <1>9
<1>11. \A t \in Slots : held'[t] \in 0..MaxStack
  <2> HIDE DEF mid
  <2> QED
    BY <1>1, <1>2, <1>4, <1>5
<1> QED
  BY <1>5, <1>10, <1>11

\* A sum over part of a function.
LEMMA SumRestrict ==
    ASSUME NEW f, IsFiniteSet(DOMAIN f), \A x \in DOMAIN f : f[x] \in Int,
           NEW S \in SUBSET DOMAIN f
    PROVE  /\ DOMAIN Restrict(f, S) = S /\ \A x \in S : Restrict(f, S)[x] = f[x]
           /\ IsFiniteSet(S) /\ SumFunctionOnSet(f, S) \in Int
           /\ SumFunction(Restrict(f, S)) = SumFunctionOnSet(f, S)
<1> DEFINE g == Restrict(f, S)
<1>1. DOMAIN g = S /\ \A x \in S : g[x] = f[x]
  BY DEF Restrict
<1>2. IsFiniteSet(S)
  BY FS_Subset
<1>3. SumFunctionOnSet(f, S) \in Int
  BY <1>2, SumType
<1> HIDE DEF g
<1>4. SumFunctionOnSet(g, S) = SumFunctionOnSet(f, S)
  BY <1>1, <1>2, SumAgrees
<1> QED
  BY <1>1, <1>2, <1>3, <1>4 DEF SumFunction, g

\* Entities that are no arrows are removed.
LEMMA ArrowsStay ==
    ASSUME NEW gone, \A i \in gone : ents[i].kind # "arrow",
           Ids' = Ids \ gone, \A i \in Ids' : ents'[i].kind = ents[i].kind
    PROVE  OfKind("arrow")' = OfKind("arrow")
BY DEF OfKind

LEMMA UseItems ==
    ASSUME ViewAssumption, Entries, Items, NEW s \in Hotbar, HandleUse(s)
    PROVE  Items'
<1> DEFINE h == -1
           a == 0
<1>1. /\ held[s] > 0 /\ held' = [held EXCEPT ![s] = @ - 1] /\ made' = made - 1
      /\ UNCHANGED <<ents, stacks, pickups, phase>>
  BY DEF HandleUse, spawnVars, tickVars
<1>2. Counts
  BY DEF Items
<1>3. /\ DOMAIN held' = Slots /\ \A t \in Slots : held'[t] \in 0..MaxStack
      /\ SumFunction(held') = SumFunction(held) - 1
  BY <1>1, <1>2, OneLess
<1>4. /\ SumFunction(held) \in Int /\ SumFunction(stacks) \in Int
      /\ Cardinality(OfKind("arrow")) \in Int /\ made \in Int
  BY <1>2, Totals DEF Counts
<1>5. /\ h \in Int /\ a \in Int
      /\ SumFunction(held') + SumFunction(stacks') = SumFunction(held) + SumFunction(stacks) + h
      /\ made' = made + h + a
  BY <1>1, <1>3, <1>4
<1>6. Cardinality(OfKind("arrow"))' = Cardinality(OfKind("arrow")) + a
  BY <1>1, <1>4 DEF OfKind, Ids
<1>7. \A i \in DOMAIN stacks' : stacks'[i] \in 1..MaxStack
  BY <1>1, <1>2 DEF Counts
<1> HIDE DEF h, a
<1> QED
  BY <1>1, <1>3, <1>5, <1>6, <1>7, ItemsMove

LEMMA SwapItems ==
    ASSUME ViewAssumption, Entries, Items, NEW s \in Hotbar, HandleSwap(s)
    PROVE  Items'
<1>1. /\ held' = [held EXCEPT ![s] = held[Offhand], ![Offhand] = held[s]]
      /\ UNCHANGED <<ents, stacks, pickups, phase, made>>
  BY DEF HandleSwap, spawnVars, tickVars
<1>2. Counts /\ OfKind("arrow")' = OfKind("arrow")
  BY <1>1 DEF Items, OfKind, Ids
<1>3. /\ DOMAIN held' = Slots /\ \A t \in Slots : held'[t] \in 0..MaxStack
      /\ SumFunction(held') = SumFunction(held)
  BY <1>1, <1>2, SwapKeeps
<1> QED
  BY <1>1, <1>2, <1>3 DEF Items, Counts, ItemsConserved

LEMMA KillItems ==
    ASSUME ViewAssumption, Entries, Items, KillPlayer, UNCHANGED <<pickups, phase, made>>
    PROVE  Items'
<1>1. /\ DOMAIN held' = Slots /\ \A s \in Slots : held'[s] \in 0..MaxStack
      /\ \A i \in DOMAIN stacks' : stacks'[i] \in 1..MaxStack
      /\ SumFunction(held') + SumFunction(stacks') = SumFunction(held) + SumFunction(stacks)
      /\ Cardinality(OfKind("arrow"))' = Cardinality(OfKind("arrow"))
  BY KillCounts DEF Items
<1>2. /\ SumFunction(held) \in Int /\ SumFunction(stacks) \in Int
      /\ Cardinality(OfKind("arrow")) \in Int /\ made \in Int
  BY Totals DEF Items, Counts
<1>3. /\ SumFunction(held') + SumFunction(stacks') = SumFunction(held) + SumFunction(stacks) + 0
      /\ Cardinality(OfKind("arrow"))' = Cardinality(OfKind("arrow")) + 0
      /\ made' = made + 0 + 0
  BY <1>1, <1>2
<1> QED
  BY <1>1, <1>3, ItemsMove

LEMMA GiveItems ==
    ASSUME ViewAssumption, Entries, Items, NEW n \in 1..MaxStack, HandleGive(n)
    PROVE  Items'
<1>1. PutAway(n) /\ made' = made + n /\ UNCHANGED <<pickups, phase>>
  BY DEF HandleGive, tickVars
<1>2. /\ DOMAIN held' = Slots /\ \A s \in Slots : held'[s] \in 0..MaxStack
      /\ \A i \in DOMAIN stacks' : stacks'[i] \in 1..MaxStack
      /\ SumFunction(held') + SumFunction(stacks') = SumFunction(held) + SumFunction(stacks) + n
      /\ Cardinality(OfKind("arrow"))' = Cardinality(OfKind("arrow"))
  BY <1>1, PutAwayCounts DEF Items
<1>3. /\ Cardinality(OfKind("arrow")) \in Int /\ made \in Int /\ n \in Int
  BY Totals DEF Items, Counts
<1>4. /\ Cardinality(OfKind("arrow"))' = Cardinality(OfKind("arrow")) + 0
      /\ made' = made + n + 0
  BY <1>1, <1>2, <1>3
<1> QED
  BY <1>1, <1>2, <1>3, <1>4, ItemsMove

LEMMA PickUpItems ==
    ASSUME ViewAssumption, Entries, Items, NEW i \in DOMAIN pickups, PickUp(i)
    PROVE  Items'
<1> DEFINE n == pickups[i]
           rest == DOMAIN pickups \ {i}
<1>1. /\ phase = "pickups" /\ PutAway(n) /\ pickups' = Restrict(pickups, rest)
      /\ UNCHANGED <<phase, made>>
  BY DEF PickUp
<1>2. Counts /\ n \in 1..MaxStack /\ MaxStack \in Nat
  BY FiniteSlots DEF Items, Counts
<1>3. /\ DOMAIN held' = Slots /\ \A s \in Slots : held'[s] \in 0..MaxStack
      /\ \A j \in DOMAIN stacks' : stacks'[j] \in 1..MaxStack
      /\ SumFunction(held') + SumFunction(stacks') = SumFunction(held) + SumFunction(stacks) + n
      /\ Cardinality(OfKind("arrow"))' = Cardinality(OfKind("arrow"))
  BY <1>1, <1>2, PutAwayCounts
<1>4. IsFiniteSet(DOMAIN pickups) /\ \A j \in DOMAIN pickups : pickups[j] \in Int
  BY <1>2 DEF Counts
<1>5. /\ DOMAIN pickups' = rest /\ \A j \in rest : pickups'[j] = pickups[j]
      /\ IsFiniteSet(rest) /\ SumFunctionOnSet(pickups, rest) \in Int
      /\ SumFunction(pickups') = SumFunctionOnSet(pickups, rest)
  <2>1. rest \in SUBSET DOMAIN pickups
    OBVIOUS
  <2> HIDE DEF rest
  <2> QED
    BY <1>1, <1>4, <2>1, SumRestrict
<1>6. SumFunction(pickups) = n + SumFunctionOnSet(pickups, rest)
  BY <1>4, SumTakes DEF SumFunction
<1>7. /\ SumFunction(pickups') = SumFunction(pickups) + (0 - n)
      /\ Cardinality(OfKind("arrow"))' = Cardinality(OfKind("arrow")) + 0
      /\ made' = made + n + (0 - n) + 0
      /\ n \in Int /\ 0 - n \in Int
  <2>1. Cardinality(OfKind("arrow")) \in Int /\ made \in Int /\ n \in Int
    BY <1>2, Totals DEF Counts
  <2>2. SumFunctionOnSet(pickups, rest) \in Int
    BY <1>5
  <2> HIDE DEF n, rest
  <2> QED
    BY <1>1, <1>3, <1>5, <1>6, <2>1, <2>2
<1>8. \A j \in DOMAIN pickups' : pickups'[j] \in 1..MaxStack
  BY <1>2, <1>5 DEF Counts
<1>9. Counts'
  <2>1. made' \in Int
    BY <1>1, <1>2 DEF Counts
  <2> HIDE DEF n, rest
  <2> QED
    BY <1>1, <1>3, <1>5, <1>8, <2>1 DEF Counts
<1> DEFINE p == 0 - n
           a == 0
<1>10. p \in Int /\ a \in Int /\ made' = made + n + p + a
  BY <1>7
<1> HIDE DEF n, rest, p, a
<1> QED
  BY <1>3, <1>7, <1>9, <1>10, ItemsChange DEF p, a

\* One thing is spawned that is no item and no arrow.
LEMMA SpawnMobCounts ==
    ASSUME ViewAssumption, Entries, Counts, NEW kind, kind \notin {"item", "arrow"},
           NEW at, NEW n, Spawn(<<Thing(kind, at, n)>>)
    PROVE  /\ \A i \in DOMAIN stacks' : stacks'[i] \in 1..MaxStack
           /\ SumFunction(stacks') = SumFunction(stacks)
           /\ Cardinality(OfKind("arrow"))' = Cardinality(OfKind("arrow"))
<1>1. /\ \A i \in DOMAIN stacks' : stacks'[i] \in 1..MaxStack
      /\ SumFunction(stacks') = SumFunction(stacks) + (IF kind = "item" THEN n ELSE 0)
      /\ Cardinality(OfKind("arrow"))'
           = Cardinality(OfKind("arrow")) + (IF kind = "arrow" THEN 1 ELSE 0)
  BY SpawnOneCounts
<1>2. SumFunction(stacks) \in Int /\ Cardinality(OfKind("arrow")) \in Int
  BY Totals
<1> QED
  BY <1>1, <1>2

LEMMA SpawnMobItems ==
    ASSUME ViewAssumption, Entries, Items, NEW kind, kind \notin {"item", "arrow"},
           NEW at, NEW n, Spawn(<<Thing(kind, at, n)>>),
           UNCHANGED <<held, pickups, made>>, UNCHANGED phase \/ phase # "pickups"
    PROVE  Items'
<1>1. /\ \A i \in DOMAIN stacks' : stacks'[i] \in 1..MaxStack
      /\ SumFunction(stacks') = SumFunction(stacks)
      /\ Cardinality(OfKind("arrow"))' = Cardinality(OfKind("arrow"))
  BY SpawnMobCounts DEF Items
<1>2. /\ SumFunction(held) \in Int /\ SumFunction(stacks) \in Int
      /\ Cardinality(OfKind("arrow")) \in Int /\ made \in Int
  BY Totals DEF Items, Counts
<1>3. /\ SumFunction(held') + SumFunction(stacks') = SumFunction(held) + SumFunction(stacks) + 0
      /\ Cardinality(OfKind("arrow"))' = Cardinality(OfKind("arrow")) + 0
      /\ made' = made + 0 + 0
  BY <1>1, <1>2
<1>4. DOMAIN held' = Slots /\ \A s \in Slots : held'[s] \in 0..MaxStack
  BY DEF Items, Counts
<1> QED
  BY <1>1, <1>3, <1>4, ItemsMove

LEMMA FeedItems ==
    ASSUME ViewAssumption, Entries, Items, NEW s \in Hotbar, HandleFeed(s)
    PROVE  Items'
<1> DEFINE h == -1
           a == 0
<1>1. /\ held[s] > 0 /\ held' = [held EXCEPT ![s] = @ - 1] /\ made' = made - 1
      /\ UNCHANGED <<pickups, phase>>
      /\ UNCHANGED spawnVars \/ Spawn(<<Thing("creature", place, 0)>>)
  BY DEF HandleFeed, tickVars
<1>2. Counts
  BY DEF Items
<1>3. /\ DOMAIN held' = Slots /\ \A t \in Slots : held'[t] \in 0..MaxStack
      /\ SumFunction(held') = SumFunction(held) - 1
  BY <1>1, <1>2, OneLess
<1>4. /\ \A i \in DOMAIN stacks' : stacks'[i] \in 1..MaxStack
      /\ SumFunction(stacks') = SumFunction(stacks)
      /\ Cardinality(OfKind("arrow"))' = Cardinality(OfKind("arrow"))
  <2>1. CASE UNCHANGED spawnVars
    BY <1>2, <2>1 DEF spawnVars, Counts, OfKind, Ids
  <2>2. CASE Spawn(<<Thing("creature", place, 0)>>)
    BY <1>2, <2>2, SpawnMobCounts
  <2> QED
    BY <1>1, <2>1, <2>2
<1>5. /\ SumFunction(held) \in Int /\ SumFunction(stacks) \in Int
      /\ Cardinality(OfKind("arrow")) \in Int /\ made \in Int
  BY <1>2, Totals DEF Counts
<1>6. /\ h \in Int /\ a \in Int
      /\ SumFunction(held') + SumFunction(stacks') = SumFunction(held) + SumFunction(stacks) + h
      /\ Cardinality(OfKind("arrow"))' = Cardinality(OfKind("arrow")) + a
      /\ made' = made + h + a
  BY <1>1, <1>3, <1>4, <1>5
<1> HIDE DEF h, a
<1> QED
  BY <1>1, <1>3, <1>4, <1>6, ItemsMove

LEMMA DropItems ==
    ASSUME ViewAssumption, Entries, Items, NEW s \in Hotbar, HandleDrop(s)
    PROVE  Items'
<1>1. UNCHANGED <<pickups, phase, made>>
  BY DEF HandleDrop, tickVars
<1>2. Counts /\ held[s] \in 0..MaxStack /\ MaxStack \in Nat
  BY FiniteSlots DEF Items, Counts
<1>3. PICK n \in {1, held[s]} \ {0} :
         n <= held[s] /\ held' = [held EXCEPT ![s] = @ - n] /\ Spawn(Drop(n))
  BY DEF HandleDrop
<1>4. n \in Nat /\ n \in 0..MaxStack
  BY <1>2, <1>3
<1>5. /\ DOMAIN held' = Slots /\ \A t \in Slots : held'[t] \in 0..MaxStack
      /\ SumFunction(held') = SumFunction(held) + (0 - n)
  BY <1>2, <1>3, <1>4, SlotLess
<1>6. /\ \A i \in DOMAIN stacks' : stacks'[i] \in 1..MaxStack
      /\ SumFunction(stacks') = SumFunction(stacks) + n
      /\ Cardinality(OfKind("arrow"))' = Cardinality(OfKind("arrow"))
  BY <1>2, <1>3, <1>4, DropCounts
<1>7. /\ SumFunction(held) \in Int /\ SumFunction(stacks) \in Int
      /\ Cardinality(OfKind("arrow")) \in Int /\ made \in Int
  BY <1>2, Totals DEF Counts
<1>8. /\ SumFunction(held') + SumFunction(stacks') = SumFunction(held) + SumFunction(stacks) + 0
      /\ Cardinality(OfKind("arrow"))' = Cardinality(OfKind("arrow")) + 0
      /\ made' = made + 0 + 0
  BY <1>1, <1>4, <1>5, <1>6, <1>7
<1> QED
  BY <1>1, <1>5, <1>6, <1>8, ItemsMove

LEMMA ShootItems ==
    ASSUME ViewAssumption, Entries, Items, NEW s \in Hotbar, HandleShoot(s)
    PROVE  Items'
<1> DEFINE h == -1
<1>1. /\ held[s] > 0 /\ UNCHANGED <<pickups, phase>>
      /\ Spawn(<<Thing("arrow", place, 0)>>)
      /\ \/ held' = [held EXCEPT ![s] = @ - 1] /\ UNCHANGED made
         \/ made' = made + 1 /\ UNCHANGED held
  BY DEF HandleShoot, tickVars
<1>2. Counts
  BY DEF Items
<1>3. /\ SumFunction(held) \in Int /\ SumFunction(stacks) \in Int
      /\ Cardinality(OfKind("arrow")) \in Int /\ made \in Int
  BY <1>2, Totals DEF Counts
<1>4. /\ \A i \in DOMAIN stacks' : stacks'[i] \in 1..MaxStack
      /\ SumFunction(stacks') = SumFunction(stacks)
      /\ Cardinality(OfKind("arrow"))' = Cardinality(OfKind("arrow")) + 1
  <2>1. /\ \A i \in DOMAIN stacks' : stacks'[i] \in 1..MaxStack
        /\ SumFunction(stacks') = SumFunction(stacks) + 0
        /\ Cardinality(OfKind("arrow"))' = Cardinality(OfKind("arrow")) + 1
    BY <1>1, <1>2, SpawnOneCounts
  <2> QED
    BY <1>3, <2>1
<1>5. CASE held' = [held EXCEPT ![s] = @ - 1] /\ UNCHANGED made
  <2>1. /\ DOMAIN held' = Slots /\ \A t \in Slots : held'[t] \in 0..MaxStack
        /\ SumFunction(held') = SumFunction(held) - 1
    BY <1>1, <1>2, <1>5, OneLess
  <2>2. /\ h \in Int
        /\ SumFunction(held') + SumFunction(stacks') = SumFunction(held) + SumFunction(stacks) + h
        /\ made' = made + h + 1
    BY <1>3, <1>4, <1>5, <2>1
  <2> HIDE DEF h
  <2> QED
    BY <1>1, <1>4, <2>1, <2>2, ItemsMove
<1>6. CASE made' = made + 1 /\ UNCHANGED held
  <2>1. DOMAIN held' = Slots /\ \A t \in Slots : held'[t] \in 0..MaxStack
    BY <1>2, <1>6 DEF Counts
  <2>2. /\ SumFunction(held') + SumFunction(stacks')
             = SumFunction(held) + SumFunction(stacks) + 0
        /\ made' = made + 0 + 1
    BY <1>3, <1>4, <1>6
  <2> QED
    BY <1>1, <1>4, <2>1, <2>2, ItemsMove
<1> QED
  BY <1>1, <1>5, <1>6

\* A death leaves an orb, and an item perhaps.
LEMMA DieItems ==
    ASSUME ViewAssumption, Entries, Items, NEW d \in deaths, Die(d)
    PROVE  Items'
<1>1. UNCHANGED <<held, pickups, phase>>
  BY DEF Die
<1>2. PICK n \in 0..1 :
         /\ Spawn(<<Thing("orb", d.at, 0)>>
                  \o (IF n = 0 THEN <<>> ELSE <<Thing("item", d.at, n)>>))
         /\ made' = made + n
  BY DEF Die
<1>3. CASE n = 0
  <2>1. <<Thing("orb", d.at, 0)>> \o (IF n = 0 THEN <<>> ELSE <<Thing("item", d.at, n)>>)
          = <<Thing("orb", d.at, 0)>>
    BY <1>3
  <2>2. Spawn(<<Thing("orb", d.at, 0)>>) /\ UNCHANGED made
    <3>1. made \in Int
      BY DEF Items, Counts
    <3>2. Spawn(<<Thing("orb", d.at, 0)>>)
      BY <1>2, <2>1
    <3>3. UNCHANGED made
      BY <1>2, <1>3, <3>1
    <3> QED
      BY <3>2, <3>3
  <2> QED
    BY <1>1, <2>2, SpawnMobItems
<1>4. CASE n = 1
  <2> DEFINE orb == <<Thing("orb", d.at, 0)>>
             item == <<Thing("item", d.at, 1)>>
             things == orb \o item
  <2>1. Spawn(things)
    <3>1. (IF n = 0 THEN <<>> ELSE <<Thing("item", d.at, n)>>) = item
      BY <1>4
    <3> QED
      BY <1>2, <3>1
  <2>2. /\ Len(things) = 2 /\ things[1].kind = "orb"
        /\ things[2].kind = "item" /\ things[2].count = 1
    <3> DEFINE o == Thing("orb", d.at, 0)
               t == Thing("item", d.at, 1)
    <3>1. o.kind = "orb" /\ t.kind = "item" /\ t.count = 1
      BY DEF Thing
    <3> HIDE DEF o, t
    <3>2. item = <<t>> /\ orb = <<o>>
      BY DEF o, t
    <3> HIDE DEF orb, item
    <3>3. /\ Len(item) = 1 /\ item[1] = t /\ item \in Seq({t})
          /\ Len(orb) = 1 /\ orb[1] = o
      BY <3>2
    <3>4. /\ Len(things) = Len(orb) + Len(item)
          /\ \A k \in 1..Len(orb) : things[k] = orb[k]
          /\ \A k \in 1..Len(item) : things[Len(orb) + k] = item[k]
      BY <3>2, <3>3, OrbFirst
    <3> HIDE DEF things
    <3>5. Len(things) = 2 /\ things[1] = o /\ things[1 + 1] = t
      BY <3>3, <3>4
    <3> QED
      BY <3>1, <3>5
  <2> HIDE DEF things
  <2>4. MaxStack \in Nat \ {0} /\ nextId \in Nat
    BY FiniteSlots DEF Entries
  <2>5. NewOf(things, "item") = {nextId + 1} /\ NewOf(things, "arrow") = {}
    <3>1. \A i \in nextId .. (nextId + 2 - 1) : i = nextId \/ i = nextId + 1
      BY <2>4
    <3>2. nextId - nextId + 1 = 1 /\ (nextId + 1) - nextId + 1 = 2
      BY <2>4
    <3>3. nextId + 1 \in nextId .. (nextId + 2 - 1)
      BY <2>4
    <3> QED
      BY <2>2, <3>1, <3>2, <3>3 DEF NewOf
  <2>6. /\ \A i \in DOMAIN stacks' : stacks'[i] \in 1..MaxStack
        /\ \A i \in NewOf(things, "item") : stacks'[i] = things[i - nextId + 1].count
        /\ SumFunction(stacks')
             = SumFunction(stacks) + SumFunctionOnSet(stacks', NewOf(things, "item"))
        /\ OfKind("arrow")' = OfKind("arrow") \cup NewOf(things, "arrow")
    <3>1. \A k \in 1..Len(things) :
             things[k].kind = "item" => things[k].count \in 1..MaxStack
      BY <2>2, <2>4
    <3> QED
      BY <2>1, <2>2, <3>1, SpawnCounts DEF Items
  <2>7. SumFunctionOnSet(stacks', NewOf(things, "item")) = 1
    <3> DEFINE x == nextId + 1
               new == stacks'
    <3>1. x - nextId + 1 = 2 /\ NewOf(things, "item") = {x} /\ x \in NewOf(things, "item")
      BY <2>4, <2>5
    <3> HIDE DEF x
    <3>2. new[x] = 1
      BY <2>2, <2>6, <3>1
    <3> HIDE DEF new
    <3>3. SumFunctionOnSet(new, {x}) = new[x]
      BY <3>2, SumOne
    <3> QED
      BY <3>1, <3>2, <3>3 DEF new
  <2>8. /\ SumFunction(held) \in Int /\ SumFunction(stacks) \in Int
        /\ Cardinality(OfKind("arrow")) \in Int /\ made \in Int
    BY Totals DEF Items, Counts
  <2>9. /\ SumFunction(held') + SumFunction(stacks') = SumFunction(held) + SumFunction(stacks) + 1
        /\ made' = made + 1 + 0
    BY <1>1, <1>2, <1>4, <2>6, <2>7, <2>8
  <2>10. Cardinality(OfKind("arrow"))' = Cardinality(OfKind("arrow")) + 0
    BY <2>5, <2>6, <2>8
  <2>11. DOMAIN held' = Slots /\ \A s \in Slots : held'[s] \in 0..MaxStack
    BY <1>1 DEF Items, Counts
  <2> QED
    BY <1>1, <2>6, <2>9, <2>10, <2>11, ItemsMove
<1> QED
  BY <1>3, <1>4

\* An arrow is taken out of the air.
LEMMA ArrowLess ==
    ASSUME ViewAssumption, Entries, NEW i \in OfKind("arrow"),
           OfKind("arrow")' = OfKind("arrow") \ {i}
    PROVE  Cardinality(OfKind("arrow"))' = Cardinality(OfKind("arrow")) - 1
<1>1. /\ Cardinality(OfKind("arrow"))' = Cardinality(OfKind("arrow") \ {i})
      /\ IsFiniteSet(OfKind("arrow"))
  BY FiniteEntities
<1>2. Cardinality(OfKind("arrow") \ {i}) = Cardinality(OfKind("arrow")) - 1
  BY <1>1, FS_RemoveElement
<1> QED
  BY <1>1, <1>2

LEMMA ArrowLandsItems ==
    ASSUME ViewAssumption, Entries, Items, NEW i, ArrowLands(i)
    PROVE  Items'
<1>1. /\ i \in OfKind("arrow")
      /\ ents' = [j \in (Ids \ {i}) \cup {nextId} |->
                     IF j = nextId THEN [kind |-> "item", at |-> ents[i].at] ELSE ents[j]]
      /\ stacks' = [j \in DOMAIN stacks \cup {nextId} |->
                       IF j = nextId THEN 1 ELSE stacks[j]]
      /\ UNCHANGED <<held, pickups, phase, made>>
  BY DEF ArrowLands, tickVars
<1>2. Counts /\ MaxStack \in Nat \ {0} /\ nextId \notin Ids /\ nextId \notin DOMAIN stacks
  BY FiniteSlots, OfKindIn DEF Items, Entries
<1>3. OfKind("arrow")' = OfKind("arrow") \ {i}
  <2>1. /\ Ids' = (Ids \ {i}) \cup {nextId} /\ ents'[nextId].kind = "item"
        /\ \A j \in Ids \ {i} : ents'[j] = ents[j]
    BY <1>1, <1>2 DEF Ids
  <2> QED
    BY <1>2, <2>1 DEF OfKind
<1>4. /\ DOMAIN stacks' = DOMAIN stacks \cup {nextId} /\ stacks'[nextId] = 1
      /\ \A j \in DOMAIN stacks : stacks'[j] = stacks[j]
  BY <1>1, <1>2
<1>5. \A j \in DOMAIN stacks' : stacks'[j] \in 1..MaxStack
  BY <1>2, <1>4 DEF Counts
<1>6. SumFunction(stacks') = 1 + SumFunction(stacks)
  <2> DEFINE new == stacks'
             D == DOMAIN stacks \cup {nextId}
  <2>1. /\ DOMAIN new = D /\ new[nextId] = 1 /\ \A j \in D : new[j] \in 1..MaxStack
        /\ \A j \in DOMAIN stacks : new[j] = stacks[j]
    BY <1>4, <1>5
  <2> HIDE DEF new
  <2>2. IsFiniteSet(DOMAIN stacks) /\ IsFiniteSet(D)
    <3>1. IsFiniteSet(DOMAIN stacks)
      BY FiniteEntities DEF Entries
    <3> QED
      BY <3>1, FS_AddElement
  <2>3. \A j \in D : new[j] \in Int
    BY <1>2, <2>1
  <2>4. D \ {nextId} = DOMAIN stacks /\ nextId \in D
    BY <1>2
  <2> HIDE DEF D
  <2>5. SumFunctionOnSet(new, D) = 1 + SumFunctionOnSet(new, DOMAIN stacks)
    BY <2>1, <2>2, <2>3, <2>4, SumTakes
  <2>6. SumFunctionOnSet(new, DOMAIN stacks) = SumFunctionOnSet(stacks, DOMAIN stacks)
    BY <2>1, <2>2, SumAgrees
  <2>7. SumFunction(new) = 1 + SumFunction(stacks)
    BY <2>1, <2>5, <2>6 DEF SumFunction
  <2> QED
    BY <2>7 DEF new
<1>7. Cardinality(OfKind("arrow"))' = Cardinality(OfKind("arrow")) - 1
  BY <1>1, <1>3, ArrowLess
<1>8. /\ SumFunction(held) \in Int /\ SumFunction(stacks) \in Int /\ made \in Int
      /\ Cardinality(OfKind("arrow")) \in Int
  BY <1>2, Totals DEF Counts
<1> DEFINE a == -1
           h == 1
<1>9. /\ a \in Int /\ h \in Int
      /\ SumFunction(held') + SumFunction(stacks') = SumFunction(held) + SumFunction(stacks) + h
      /\ Cardinality(OfKind("arrow"))' = Cardinality(OfKind("arrow")) + a
      /\ made' = made + h + a
  BY <1>1, <1>6, <1>7, <1>8
<1>10. DOMAIN held' = Slots /\ \A s \in Slots : held'[s] \in 0..MaxStack
  BY <1>1, <1>2 DEF Counts
<1>11. UNCHANGED pickups /\ UNCHANGED phase
  BY <1>1
<1> HIDE DEF a, h
<1> QED
  BY <1>5, <1>9, <1>10, <1>11, ItemsMove

LEMMA ArrowHitsItems ==
    ASSUME ViewAssumption, Entries, Items, NEW i, ArrowHits(i)
    PROVE  Items'
<1>1. /\ i \in OfKind("arrow") /\ ents' = Restrict(ents, Ids \ {i}) /\ made' = made - 1
      /\ UNCHANGED <<held, stacks, pickups, phase>>
  BY DEF ArrowHits, tickVars
<1>2. OfKind("arrow")' = OfKind("arrow") \ {i}
  BY <1>1 DEF OfKind, Restrict, Ids
<1>3. Cardinality(OfKind("arrow"))' = Cardinality(OfKind("arrow")) - 1
  BY <1>1, <1>2, ArrowLess
<1>4. /\ SumFunction(held) \in Int /\ SumFunction(stacks) \in Int /\ made \in Int
      /\ Cardinality(OfKind("arrow")) \in Int
  BY Totals DEF Items, Counts
<1> DEFINE a == -1
<1>5. /\ a \in Int
      /\ SumFunction(held') + SumFunction(stacks') = SumFunction(held) + SumFunction(stacks) + 0
      /\ Cardinality(OfKind("arrow"))' = Cardinality(OfKind("arrow")) + a
      /\ made' = made + 0 + a
  BY <1>1, <1>3, <1>4
<1>6. /\ DOMAIN held' = Slots /\ \A s \in Slots : held'[s] \in 0..MaxStack
      /\ \A j \in DOMAIN stacks' : stacks'[j] \in 1..MaxStack
  BY <1>1 DEF Items, Counts
<1> HIDE DEF a
<1> QED
  BY <1>1, <1>5, <1>6, ItemsMove

\* Moving items from one entry of a function to another keeps their sum.
LEMMA SumMoves ==
    ASSUME NEW S, IsFiniteSet(S), NEW f, NEW g, DOMAIN f = S, DOMAIN g = S,
           \A x \in S : f[x] \in Int, NEW i \in S, NEW j \in S, i # j, NEW m \in Int,
           g[i] = f[i] + m, g[j] = f[j] - m, \A x \in S \ {i, j} : g[x] = f[x]
    PROVE  SumFunctionOnSet(g, S) = SumFunctionOnSet(f, S)
<1> DEFINE R == S \ {i}
           Q == R \ {j}
<1>1. j \in R /\ IsFiniteSet(R) /\ IsFiniteSet(Q)
  BY FS_RemoveElement
<1>2. \A x \in S : g[x] \in Int
  <2>1. f[i] \in Int /\ f[j] \in Int
    OBVIOUS
  <2>2. f[i] + m \in Int /\ f[j] - m \in Int
    BY <2>1
  <2> QED
    BY <2>2
<1>3. /\ SumFunctionOnSet(f, S) = f[i] + SumFunctionOnSet(f, R)
      /\ SumFunctionOnSet(g, S) = g[i] + SumFunctionOnSet(g, R)
  BY <1>2, SumTakes
<1>4. \A x \in R : f[x] \in Int /\ g[x] \in Int
  BY <1>2
<1>5. \A x \in Q : f[x] \in Int /\ g[x] = f[x]
  OBVIOUS
<1> HIDE DEF R
<1>6. /\ SumFunctionOnSet(f, R) = f[j] + SumFunctionOnSet(f, Q)
      /\ SumFunctionOnSet(g, R) = g[j] + SumFunctionOnSet(g, Q)
  BY <1>1, <1>4, SumTakes
<1> HIDE DEF Q
<1>7. SumFunctionOnSet(g, Q) = SumFunctionOnSet(f, Q) /\ SumFunctionOnSet(f, Q) \in Int
  BY <1>1, <1>5, SumAgrees, SumType
<1>8. f[i] \in Int /\ f[j] \in Int
  OBVIOUS
<1> QED
  BY <1>3, <1>6, <1>7, <1>8

LEMMA MergeItems ==
    ASSUME ViewAssumption, Entries, Items, NEW i, NEW j, Merge(i, j)
    PROVE  Items'
<1> DEFINE D == DOMAIN stacks
           m == Smaller(stacks[j], MaxStack - stacks[i])
           left == stacks[j] - m
           gone == IF left = 0 THEN {j} ELSE {}
           mid == [stacks EXCEPT ![i] = @ + m, ![j] = left]
<1>1. /\ i \in OfKind("item") /\ j \in OfKind("item") /\ i < j /\ stacks[i] < MaxStack
      /\ stacks' = Restrict(mid, D \ gone) /\ ents' = Restrict(ents, Ids \ gone)
      /\ phase # "pickups" /\ UNCHANGED <<held, pickups, made>>
  BY DEF Merge
<1>2. Counts /\ MaxStack \in Nat \ {0} /\ i \in D /\ j \in D /\ i # j /\ IsFiniteSet(D)
  <2>1. i \in Nat /\ j \in Nat
    BY <1>1, OfKindIn DEF Entries
  <2> QED
    BY <1>1, <2>1, FiniteSlots, FiniteEntities DEF Items, Entries
<1>3. /\ stacks[i] \in 1..MaxStack /\ stacks[j] \in 1..MaxStack
      /\ \A x \in D : stacks[x] \in Int /\ stacks[x] \in 1..MaxStack
  BY <1>2 DEF Counts
<1>4. /\ m \in Int /\ left \in 0..MaxStack
      /\ stacks[i] + m \in 1..MaxStack
  <2>1. stacks[j] \in Int /\ MaxStack - stacks[i] \in Int
    BY <1>2, <1>3
  <2>2. m \in Int /\ m <= stacks[j] /\ m <= MaxStack - stacks[i]
        /\ (m = stacks[j] \/ m = MaxStack - stacks[i])
    BY <2>1, SmallerIs
  <2> HIDE DEF m
  <2> QED
    BY <1>1, <1>2, <1>3, <2>2
<1>5. /\ DOMAIN mid = D /\ mid[i] = stacks[i] + m /\ mid[j] = stacks[j] - m
      /\ \A x \in D \ {i, j} : mid[x] = stacks[x]
  <2> HIDE DEF m
  <2> QED
    BY <1>2
<1>6. gone = {} \/ (gone = {j} /\ mid[j] = 0)
  <2> HIDE DEF mid
  <2> QED
    BY <1>5
<1>7. gone # {j} => left \in 1..MaxStack
  BY <1>4
<1>8. mid[j] = left
  <2> HIDE DEF mid
  <2> QED
    BY <1>5
<1> HIDE DEF m, left, gone, mid
<1>9. SumFunctionOnSet(mid, D) = SumFunctionOnSet(stacks, D)
  BY <1>2, <1>3, <1>4, <1>5, SumMoves
<1>10. \A x \in D : mid[x] \in Int
  BY <1>2, <1>3, <1>4, <1>5, <1>8
<1>11. /\ DOMAIN stacks' = D \ gone /\ SumFunction(stacks') = SumFunctionOnSet(mid, D \ gone)
       /\ \A x \in D \ gone : stacks'[x] = mid[x]
  <2>1. D \ gone \in SUBSET DOMAIN mid
    BY <1>5
  <2> QED
    BY <1>1, <1>2, <1>5, <1>10, <2>1, SumRestrict
<1>12. SumFunctionOnSet(mid, D \ gone) = SumFunctionOnSet(mid, D)
  <2>1. CASE gone = {}
    <3>1. D \ gone = D
      BY <2>1
    <3> QED
      BY <3>1
  <2>2. CASE gone = {j} /\ mid[j] = 0
    <3>1. SumFunctionOnSet(mid, D) = mid[j] + SumFunctionOnSet(mid, D \ {j})
      BY <1>2, <1>10, SumTakes
    <3>2. SumFunctionOnSet(mid, D \ {j}) \in Int
      BY <1>2, <1>10, FS_RemoveElement, SumType
    <3> QED
      BY <2>2, <3>1, <3>2
  <2> QED
    BY <1>6, <2>1, <2>2
<1>13. \A x \in DOMAIN stacks' : stacks'[x] \in 1..MaxStack
  <2> SUFFICES ASSUME NEW x \in D \ gone PROVE mid[x] \in 1..MaxStack
    BY <1>11
  <2>1. CASE x = i
    BY <1>4, <1>5, <2>1
  <2>2. CASE x = j
    BY <1>6, <1>7, <1>8, <2>2
  <2>3. CASE x \notin {i, j}
    BY <1>3, <1>5, <2>3
  <2> QED
    BY <2>1, <2>2, <2>3
<1>14. OfKind("arrow")' = OfKind("arrow")
  <2>1. \A x \in gone : ents[x].kind # "arrow"
    BY <1>1, <1>6, OfKindIn
  <2>2. Ids' = Ids \ gone /\ \A x \in Ids' : ents'[x].kind = ents[x].kind
    BY <1>1 DEF Restrict, Ids
  <2> QED
    BY <2>1, <2>2, ArrowsStay
<1>15. /\ SumFunction(held) \in Int /\ SumFunction(stacks) \in Int
       /\ Cardinality(OfKind("arrow")) \in Int /\ made \in Int
  BY <1>2, Totals DEF Counts
<1>16. SumFunction(stacks') = SumFunction(stacks)
  BY <1>9, <1>11, <1>12 DEF SumFunction
<1> DEFINE h == 0
           a == 0
<1>17. /\ h \in Int /\ a \in Int
       /\ SumFunction(held') + SumFunction(stacks') = SumFunction(held) + SumFunction(stacks) + h
       /\ Cardinality(OfKind("arrow"))' = Cardinality(OfKind("arrow")) + a
       /\ made' = made + h + a
  BY <1>1, <1>14, <1>15, <1>16
<1>18. DOMAIN held' = Slots /\ \A s \in Slots : held'[s] \in 0..MaxStack
  BY <1>1, <1>2 DEF Counts
<1> HIDE DEF h, a
<1> QED
  BY <1>1, <1>13, <1>17, <1>18, ItemsMove

LEMMA CollectItems ==
    ASSUME ViewAssumption, Entries, Items, Collect
    PROVE  Items'
<1> DEFINE D == DOMAIN stacks
           Sum(T) == SumFunctionOnSet(stacks, T)
<1>1. phase # "pickups" /\ phase' = "pickups" /\ UNCHANGED held
  BY DEF Collect
<1>2. PICK expired \in SUBSET (OfKind("item") \cap before),
           taken \in SUBSET (OfKind("item") \cap before) :
         /\ expired \cap taken = {}
         /\ ents' = Restrict(ents, Ids \ (expired \cup taken))
         /\ stacks' = Restrict(stacks, (D \cap Ids) \ (expired \cup taken))
         /\ pickups' = Restrict(stacks, taken)
         /\ made' = made - SumFunction(Restrict(stacks, expired))
  BY DEF Collect
<1> DEFINE gone == expired \cup taken
<1>3. Counts /\ MaxStack \in Nat \ {0} /\ IsFiniteSet(D)
      /\ D = OfKind("item") /\ D \subseteq Ids
  BY FiniteSlots, FiniteEntities, OfKindIn DEF Items, Entries
<1>4. \A x \in D : stacks[x] \in Int /\ stacks[x] \in 1..MaxStack
  BY <1>3 DEF Counts
<1>5. /\ expired \in SUBSET D /\ taken \in SUBSET D /\ gone \in SUBSET D
      /\ D \ gone \in SUBSET D /\ gone \ expired = taken /\ expired \in SUBSET gone
      /\ (D \cap Ids) \ gone = D \ gone
  BY <1>2, <1>3
<1>6. /\ made' = made - Sum(expired) /\ Sum(expired) \in Int
  BY <1>2, <1>3, <1>4, <1>5, SumRestrict
<1>7. /\ DOMAIN pickups' = taken /\ \A x \in taken : pickups'[x] = stacks[x]
      /\ IsFiniteSet(taken) /\ Sum(taken) \in Int /\ SumFunction(pickups') = Sum(taken)
  BY <1>2, <1>3, <1>4, <1>5, SumRestrict
<1>8. /\ DOMAIN stacks' = D \ gone /\ \A x \in D \ gone : stacks'[x] = stacks[x]
      /\ Sum(D \ gone) \in Int /\ SumFunction(stacks') = Sum(D \ gone)
  BY <1>2, <1>3, <1>4, <1>5, SumRestrict
<1>9. \A x \in Ids \ gone : ents'[x] = ents[x]
  BY <1>2 DEF Restrict
<1>10. Ids' = Ids \ gone
  BY <1>2 DEF Restrict, Ids
<1> HIDE DEF gone
<1>11. Sum(D) = Sum(gone) + Sum(D \ gone)
  BY <1>3, <1>4, <1>5, SumSplits
<1>12. Sum(gone) = Sum(expired) + Sum(taken)
  <2>1. IsFiniteSet(gone) /\ \A x \in gone : stacks[x] \in Int
    BY <1>3, <1>4, <1>5, FS_Subset
  <2>2. Sum(gone) = Sum(expired) + Sum(gone \ expired)
    BY <1>5, <2>1, SumSplits
  <2> QED
    BY <1>5, <2>2
<1>13. SumFunction(stacks) = Sum(D)
  BY DEF SumFunction
<1>14. SumFunction(pickups) = 0
  BY <1>1, <1>3, SumEmpty DEF SumFunction, Counts
<1>15. OfKind("arrow")' = OfKind("arrow")
  <2>1. \A x \in gone : ents[x].kind # "arrow"
    BY <1>3, <1>5, OfKindIn
  <2>2. Ids' = Ids \ gone /\ \A x \in Ids' : ents'[x].kind = ents[x].kind
    BY <1>9, <1>10
  <2> QED
    BY <2>1, <2>2, ArrowsStay
<1>16. /\ SumFunction(held) \in Int /\ Cardinality(OfKind("arrow")) \in Int /\ made \in Int
  BY <1>3, Totals DEF Counts
<1> DEFINE h == (0 - Sum(expired)) - Sum(taken)
           p == Sum(taken)
<1>17. /\ h \in Int /\ p \in Int
       /\ SumFunction(held') + SumFunction(stacks') = SumFunction(held) + SumFunction(stacks) + h
       /\ SumFunction(pickups') = SumFunction(pickups) + p
       /\ Cardinality(OfKind("arrow"))' = Cardinality(OfKind("arrow")) + 0
       /\ made' = made + h + p + 0
  <2> HIDE DEF Sum, D
  <2> QED
    BY <1>1, <1>6, <1>7, <1>8, <1>11, <1>12, <1>13, <1>14, <1>15, <1>16
<1>18. /\ DOMAIN held' = Slots /\ \A s \in Slots : held'[s] \in 0..MaxStack
  BY <1>1, <1>3 DEF Counts
<1>19. \A x \in DOMAIN stacks' : stacks'[x] \in 1..MaxStack
  BY <1>4, <1>8
<1>20. \A x \in DOMAIN pickups' : pickups'[x] \in 1..MaxStack
  BY <1>4, <1>5, <1>7
<1>21. Counts'
  <2>1. made' \in Int /\ IsFiniteSet(DOMAIN pickups')
    BY <1>6, <1>7, <1>16
  <2> HIDE DEF h, p, Sum, D
  <2> QED
    BY <1>1, <1>18, <1>19, <1>20, <2>1 DEF Counts
<1> HIDE DEF h, p, Sum, D
<1> QED
  BY <1>17, <1>21, ItemsChange

\* Every action keeps the items.
LEMMA ItemsStep ==
    ASSUME ViewAssumption, Entries, Items, [Next]_vars
    PROVE  Items'
<1>1. CASE HandleAccept \/ HandleRespawn \/ HandleSpectate \/ HandleDismount
           \/ EndTick \/ Track \/ UNCHANGED vars
  <2>1. UNCHANGED <<ents, held, stacks, pickups, made>>
    BY <1>1 DEF HandleAccept, HandleRespawn, HandleSpectate, HandleDismount, EndTick,
                Track, vars, spawnVars, tickVars
  <2>2. UNCHANGED phase \/ phase # "pickups" \/ DOMAIN pickups = {}
    BY <1>1 DEF HandleAccept, HandleRespawn, HandleSpectate, HandleDismount, EndTick,
                Track, vars, tickVars
  <2>3. OfKind("arrow")' = OfKind("arrow")
    BY <2>1 DEF OfKind, Ids
  <2> QED
    BY <2>1, <2>2, <2>3, ItemsStay
<1>2. ASSUME NEW i, HandleMove(i) \/ HandleTp(i) \/ HandleMount(i) \/ HandleAttack(i)
                    \/ MobsKill(i)
      PROVE  Items'
  <2>1. UNCHANGED <<ents, held, stacks, pickups, made, phase>>
    BY <1>2 DEF HandleMove, HandleTp, HandleMount, HandleAttack, MobsKill, spawnVars, tickVars
  <2>2. OfKind("arrow")' = OfKind("arrow")
    BY <2>1 DEF OfKind, Ids
  <2> QED
    BY <2>1, <2>2, ItemsStay
<1>3. CASE HandlePeaceful \/ DespawnDistant
  <2>1. PICK gone \in SUBSET OfKind("monster") : ents' = Restrict(ents, Ids \ gone)
    <3>1. CASE HandlePeaceful
      BY <3>1 DEF HandlePeaceful, RemoveAll
    <3>2. CASE DespawnDistant
      <4> DEFINE far == {i \in OfKind("monster") : Distance(ents[i].at, place) > Despawn}
      <4>1. far \in SUBSET OfKind("monster")
        OBVIOUS
      <4>2. ents' = Restrict(ents, Ids \ far)
        BY <3>2 DEF DespawnDistant, RemoveAll
      <4> HIDE DEF far
      <4> QED
        BY <4>1, <4>2
    <3> QED
      BY <1>3, <3>1, <3>2
  <2>2. UNCHANGED <<held, stacks, pickups, made>>
        /\ (UNCHANGED phase \/ phase # "pickups")
    BY <1>3 DEF HandlePeaceful, DespawnDistant, tickVars
  <2>3. Ids' = Ids \ gone /\ \A i \in Ids' : ents'[i].kind = ents[i].kind
    BY <2>1 DEF Restrict, Ids
  <2>4. OfKind("arrow")' = OfKind("arrow")
    BY <2>1, <2>3, OfKindIn, ArrowsStay
  <2> QED
    BY <2>2, <2>4, ItemsStay
<1>4. CASE Simulate
  <2> DEFINE left == Ids \ dying
  <2>1. PICK step \in [left -> Places] :
           ents' = [i \in left |-> [kind |-> ents[i].kind, at |-> step[i]]]
    BY <1>4 DEF Simulate
  <2>2. Ids' = Ids \ dying /\ \A i \in Ids' : ents'[i].kind = ents[i].kind
    BY <2>1 DEF Ids
  <2>3. OfKind("arrow")' = OfKind("arrow")
    BY <2>2, ArrowsStay DEF Entries, Living
  <2>4. UNCHANGED <<held, stacks, pickups, made>> /\ phase # "pickups"
    BY <1>4 DEF Simulate
  <2> QED
    BY <2>3, <2>4, ItemsStay
<1>5. ASSUME NEW i, TakeOrb(i) PROVE Items'
  <2>1. /\ ents' = Restrict(ents, Ids \ {i}) /\ i \in OfKind("orb")
        /\ UNCHANGED <<held, stacks, pickups, made, phase>>
    BY <1>5 DEF TakeOrb, tickVars, Entries
  <2>2. Ids' = Ids \ {i} /\ \A j \in Ids' : ents'[j].kind = ents[j].kind
    BY <2>1 DEF Restrict, Ids
  <2>3. ents[i].kind # "arrow"
    BY <2>1, OfKindIn
  <2>4. OfKind("arrow")' = OfKind("arrow")
    BY <2>2, <2>3 DEF OfKind
  <2> QED
    BY <2>1, <2>4, ItemsStay
<1>6. CASE HandleKill \/ SurvivalKills
  BY <1>6, KillItems DEF HandleKill, SurvivalKills, tickVars
<1>7. ASSUME NEW kind \in Living, HandleSummon(kind) PROVE Items'
  <2>1. kind \notin {"item", "arrow"}
    BY DEF Living
  <2>2. /\ Spawn(<<Thing(kind, place, 0)>>)
        /\ UNCHANGED <<held, pickups, made, phase>>
    BY <1>7 DEF HandleSummon, tickVars
  <2> QED
    BY <2>1, <2>2, SpawnMobItems
<1>8. CASE NaturalSpawn
  <2>1. phase # "pickups" /\ UNCHANGED <<held, pickups, made>>
    BY <1>8 DEF NaturalSpawn
  <2>2. CASE UNCHANGED spawnVars
    <3>1. UNCHANGED stacks /\ OfKind("arrow")' = OfKind("arrow")
      BY <2>2 DEF spawnVars, OfKind, Ids
    <3> QED
      BY <2>1, <3>1, ItemsStay
  <2>3. CASE ~UNCHANGED spawnVars
    <3>1. PICK kind \in Living, p \in Places : Spawn(<<Thing(kind, p, 0)>>)
      BY <1>8, <2>3 DEF NaturalSpawn
    <3>2. kind \notin {"item", "arrow"}
      BY DEF Living
    <3> QED
      BY <2>1, <3>1, <3>2, SpawnMobItems
  <2> QED
    BY <2>2, <2>3
<1>9. ASSUME NEW n \in 1..MaxStack, HandleGive(n) PROVE Items'
  BY <1>9, GiveItems
<1>10. ASSUME NEW s \in Hotbar,
              HandleDrop(s) \/ HandleSwap(s) \/ HandleShoot(s) \/ HandleUse(s) \/ HandleFeed(s)
       PROVE  Items'
  BY <1>10, DropItems, SwapItems, ShootItems, UseItems, FeedItems
<1>11. ASSUME NEW i, ArrowLands(i) \/ ArrowHits(i) PROVE Items'
  BY <1>11, ArrowLandsItems, ArrowHitsItems
<1>12. ASSUME NEW i, NEW j, Merge(i, j) PROVE Items'
  BY <1>12, MergeItems
<1>13. CASE Collect
  BY <1>13, CollectItems
<1>14. ASSUME NEW i \in DOMAIN pickups, PickUp(i) PROVE Items'
  BY <1>14, PickUpItems
<1>15. ASSUME NEW d \in deaths, Die(d) PROVE Items'
  BY <1>15, DieItems
<1> QED
  BY <1>1, <1>2, <1>3, <1>4, <1>5, <1>6, <1>7, <1>8, <1>9, <1>10, <1>11, <1>12, <1>13,
     <1>14, <1>15 DEF Next, Packet, GameTick

LEMMA ItemsInit ==
    ASSUME ViewAssumption, Init
    PROVE  Items
<1>1. /\ stacks = <<>> /\ pickups = <<>> /\ made = 0 /\ phase = "loop"
      /\ held = [s \in Slots |-> 0]
  BY DEF Init
<1>2. IsFiniteSet(Slots) /\ MaxStack \in Nat
  BY FiniteSlots
<1>3. DOMAIN held = Slots /\ \A s \in Slots : held[s] = 0
  BY <1>1
<1>4. DOMAIN stacks = {} /\ DOMAIN pickups = {}
  BY <1>1
<1>5. Counts
  <2>1. IsFiniteSet(DOMAIN pickups)
    BY <1>4, FS_EmptySet
  <2> QED
    BY <1>1, <1>2, <1>3, <1>4, <2>1 DEF Counts
<1>6. SumFunction(held) = 0
  BY <1>2, <1>3, SumZero DEF SumFunction
<1>7. SumFunction(stacks) = 0 /\ SumFunction(pickups) = 0
  BY <1>4, SumEmpty DEF SumFunction
<1>8. Cardinality(OfKind("arrow")) = 0
  <2>1. OfKind("arrow") = {}
    BY EntriesInit DEF OfKind, Living
  <2> QED
    BY <2>1, FS_EmptySet
<1> QED
  BY <1>1, <1>5, <1>6, <1>7, <1>8 DEF Items, ItemsConserved

LEMMA ItemsInvariant == Spec => [](Entries /\ Items)
<1>1. Init => Entries /\ Items
  BY EntriesInit, ItemsInit, ViewAssumption
<1>2. Entries /\ Items /\ [Next]_vars => (Entries /\ Items)'
  BY EntriesStep, ItemsStep, ViewAssumption
<1> QED
  BY <1>1, <1>2, PTL DEF Spec

\* Items are neither lost nor doubled on their way between the hotbar, the
\* offhand, the ground, the air and a death: what exists is what was made.
THEOREM ItemsConservedCorrect == Spec => []ItemsConserved
<1>1. Items => ItemsConserved
  BY DEF Items
<1> QED
  BY <1>1, ItemsInvariant, PTL

-----------------------------------------------------------------------------
(* Types, and the entity that is ridden *)

\* The entities are of known kinds and at places, and ids stay within their bound.
EntsTyped ==
    /\ Ids \subseteq 2..MaxEntities
    /\ \A i \in Ids : ents[i].kind \in Kinds /\ ents[i].at \in Places
    /\ nextId \in 2..(MaxEntities + 1)

\* Outside the part of a tick in which it may have gone, a vehicle is there to
\* be looked up: handlers ask for its place and for what it is.
Mounted ==
    /\ vehicle \in (2..MaxEntities) \cup {NoEntity}
    /\ phase \in {"loop", "orbs", "despawn"} => vehicle \in Ids \cup {NoEntity}

Typed ==
    /\ EntsTyped /\ Mounted
    /\ visible \in BOOLEAN /\ confirmed \in BOOLEAN /\ dead \in BOOLEAN
    /\ place \in Places /\ \A d \in deaths : d.at \in Places
    /\ made <= MaxItems

LEMMA SpawnTypes ==
    ASSUME ViewAssumption, EntsTyped, NEW things, Len(things) \in Nat, Spawn(things),
           \A k \in 1..Len(things) : things[k].kind \in Kinds /\ things[k].at \in Places
    PROVE  EntsTyped' /\ Ids \subseteq Ids'
<1> DEFINE new == nextId .. (nextId + Len(things) - 1)
<1>1. /\ nextId + Len(things) - 1 <= MaxEntities /\ nextId' = nextId + Len(things)
      /\ ents' = [i \in Ids \cup new |->
                     IF i \in Ids THEN ents[i]
                     ELSE [kind |-> things[i - nextId + 1].kind,
                           at |-> things[i - nextId + 1].at]]
  BY DEF Spawn
<1>2. MaxEntities \in Nat /\ nextId \in Nat /\ nextId >= 2 /\ nextId <= MaxEntities + 1
  BY DEF ViewAssumption, EntsTyped
<1>3. nextId' \in 2..(MaxEntities + 1)
  BY <1>1, <1>2
<1>4. Ids' = Ids \cup new
  BY <1>1 DEF Ids
<1>5. new \subseteq 2..MaxEntities
  BY <1>1, <1>2
<1>6. \A i \in new : i - nextId + 1 \in 1..Len(things)
  BY <1>2
<1> HIDE DEF new
<1>7. \A i \in Ids' : ents'[i].kind \in Kinds /\ ents'[i].at \in Places
  BY <1>1, <1>4, <1>6 DEF EntsTyped
<1> QED
  BY <1>3, <1>4, <1>5, <1>7 DEF EntsTyped

LEMMA SpawnOneTypes ==
    ASSUME ViewAssumption, EntsTyped, NEW kind \in Kinds, NEW at \in Places, NEW n,
           Spawn(<<Thing(kind, at, n)>>)
    PROVE  EntsTyped' /\ Ids \subseteq Ids'
<1> DEFINE things == <<Thing(kind, at, n)>>
<1>1. Len(things) = 1 /\ things[1].kind = kind /\ things[1].at = at
  BY DEF Thing
<1>2. Spawn(things)
  OBVIOUS
<1> HIDE DEF things
<1> QED
  BY <1>1, <1>2, SpawnTypes

LEMMA DropTypes ==
    ASSUME ViewAssumption, EntsTyped, place \in Places, NEW n, Spawn(Drop(n))
    PROVE  EntsTyped' /\ Ids \subseteq Ids'
<1>1. CASE n = 0
  <2> DEFINE none == <<>>
  <2>1. Len(none) = 0 /\ Spawn(none) /\ Len(none) \in Nat
    BY <1>1 DEF Drop
  <2> HIDE DEF none
  <2> QED
    BY <2>1, SpawnTypes
<1>2. CASE n # 0
  <2>1. Spawn(<<Thing("item", place, n)>>) /\ "item" \in Kinds
    BY <1>2 DEF Drop, Kinds
  <2> QED
    BY <2>1, SpawnOneTypes
<1> QED
  BY <1>1, <1>2

LEMMA KillTypes ==
    ASSUME ViewAssumption, EntsTyped, place \in Places, KillPlayer
    PROVE  EntsTyped' /\ Ids \subseteq Ids'
<1>1. CASE UNCHANGED spawnVars
  BY <1>1 DEF spawnVars, EntsTyped, Ids
<1>2. CASE ~UNCHANGED spawnVars
  <2> DEFINE t == Thing("orb", place, 0)
             C == Cardinality(Filled)
  <2>1. PICK orb, slots : Scatters(orb, slots)
    <3>1. \E orb \in {<<>>, <<Thing("orb", place, 0)>>},
             slots \in [1..Cardinality(Filled) -> Filled] :
             InOrder(slots) /\ Spawn(orb \o DropAll(slots))
      BY <1>2 DEF KillPlayer
    <3>2. ASSUME NEW orb \in {<<>>, <<Thing("orb", place, 0)>>},
                 NEW slots \in [1..Cardinality(Filled) -> Filled],
                 InOrder(slots), Spawn(orb \o DropAll(slots))
          PROVE  Scatters(orb, slots)
      BY <3>2, Zenon DEF Scatters
    <3> QED
      BY <3>1, <3>2, Zenon
  <2> DEFINE D == DropAll(slots)
             things == orb \o D
             E == {D[k] : k \in 1..C}
  <2>2. C \in Nat
    <3>1. IsFiniteSet(Filled)
      BY FiniteSlots, FS_Subset DEF Filled
    <3> QED
      BY <3>1, FS_CardinalityType
  <2>3. D \in Seq(E) /\ Len(D) = C
        /\ \A k \in 1..C : D[k] = Thing("item", place, held[slots[k]])
    <3>1. DOMAIN slots = 1..C
      BY <2>1 DEF Scatters
    <3>2. D = [k \in 1..C |-> Thing("item", place, held[slots[k]])]
      BY <3>1 DEF DropAll
    <3> HIDE DEF C
    <3> QED
      BY <2>2, <3>2
  <2>4. \A k \in 1..C : D[k].kind \in Kinds /\ D[k].at \in Places
    <3>1. \A n : Thing("item", place, n).kind \in Kinds /\ Thing("item", place, n).at = place
      BY DEF Thing, Kinds
    <3> HIDE DEF C, D
    <3> QED
      BY <2>3, <3>1
  <2>5. /\ (orb = <<>> \/ orb = <<t>>) /\ t.kind \in Kinds /\ t.at \in Places
        /\ Spawn(things)
    BY <2>1 DEF Scatters, Thing, Kinds
  <2> HIDE DEF D, C, E, t
  <2>6. /\ Len(orb) \in {0, 1} /\ \A k \in 1..Len(orb) : orb[k] = t
        /\ Len(orb \o D) = Len(orb) + Len(D)
        /\ \A k \in 1..Len(orb) : (orb \o D)[k] = orb[k]
        /\ \A k \in 1..Len(D) : (orb \o D)[Len(orb) + k] = D[k]
    <3>1. (orb = <<>> \/ orb = <<t>>) /\ D \in Seq(E)
      BY <2>3, <2>5
    <3> QED
      BY <3>1, OrbFirst
  <2> HIDE DEF things
  <2>7. /\ Len(things) = Len(orb) + C /\ Len(orb) \in Nat /\ Len(things) \in Nat
        /\ \A k \in 1..Len(orb) : things[k] = t
        /\ \A k \in 1..C : things[Len(orb) + k] = D[k]
    BY <2>2, <2>3, <2>6 DEF things
  <2>8. \A k \in 1..Len(things) : things[k].kind \in Kinds /\ things[k].at \in Places
    <3> SUFFICES ASSUME NEW k \in 1..Len(things)
                 PROVE  things[k].kind \in Kinds /\ things[k].at \in Places
      OBVIOUS
    <3>1. CASE k <= Len(orb)
      BY <2>5, <2>7, <3>1
    <3>2. CASE k > Len(orb)
      <4>1. k - Len(orb) \in 1..C /\ Len(orb) + (k - Len(orb)) = k
        BY <2>2, <2>7, <3>2
      <4>2. things[k] = D[k - Len(orb)]
        BY <2>7, <4>1
      <4> QED
        BY <2>4, <4>1, <4>2
    <3> QED
      BY <2>7, <3>1, <3>2
  <2> QED
    BY <2>5, <2>7, <2>8, SpawnTypes
<1> QED
  BY <1>1, <1>2

\* The entities that are left are as they were.
LEMMA RemovalTypes ==
    ASSUME EntsTyped, NEW gone, ents' = Restrict(ents, Ids \ gone), UNCHANGED nextId
    PROVE  EntsTyped'
BY DEF EntsTyped, Restrict, Ids

LEMMA AtMostOne ==
    ASSUME NEW x, NEW seq, seq = <<>> \/ seq = <<x>>
    PROVE  seq \in Seq({x}) /\ Len(seq) \in {0, 1} /\ \A k \in 1..Len(seq) : seq[k] = x
<1>1. CASE seq = <<>>
  BY <1>1
<1>2. CASE seq = <<x>>
  BY <1>2
<1> QED
  BY <1>1, <1>2

LEMMA EntsTypedStep ==
    ASSUME ViewAssumption, Entries, Typed, [Next]_vars
    PROVE  EntsTyped'
<1> USE DEF Typed
<1>1. CASE UNCHANGED <<spawnVars, dying>>
  BY <1>1 DEF spawnVars, EntsTyped, Ids
<1>2. CASE HandleKill \/ SurvivalKills
  BY <1>2, KillTypes DEF HandleKill, SurvivalKills
<1>3. CASE NaturalSpawn
  <2>1. CASE UNCHANGED spawnVars
    BY <2>1 DEF spawnVars, EntsTyped, Ids
  <2>2. CASE ~UNCHANGED spawnVars
    <3>1. PICK kind \in Living, p \in Places : Spawn(<<Thing(kind, p, 0)>>)
      BY <1>3, <2>2 DEF NaturalSpawn
    <3>2. kind \in Kinds
      BY DEF Living, Kinds
    <3> QED
      BY <3>1, <3>2, SpawnOneTypes
  <2> QED
    BY <2>1, <2>2
<1>4. ASSUME NEW kind \in Living, HandleSummon(kind) PROVE EntsTyped'
  <2>1. Spawn(<<Thing(kind, place, 0)>>) /\ kind \in Kinds
    BY <1>4 DEF HandleSummon, Living, Kinds
  <2> QED
    BY <2>1, SpawnOneTypes
<1>5. ASSUME NEW n, PutAway(n) PROVE EntsTyped'
  BY <1>5, DropTypes DEF PutAway
<1>6. ASSUME NEW n \in 1..MaxStack, HandleGive(n) PROVE EntsTyped'
  BY <1>5, <1>6 DEF HandleGive
<1>7. ASSUME NEW i \in DOMAIN pickups, PickUp(i) PROVE EntsTyped'
  BY <1>5, <1>7 DEF PickUp
<1>8. ASSUME NEW s \in Hotbar, HandleDrop(s) PROVE EntsTyped'
  BY <1>8, DropTypes DEF HandleDrop
<1>9. ASSUME NEW s \in Hotbar, HandleShoot(s) PROVE EntsTyped'
  <2>1. Spawn(<<Thing("arrow", place, 0)>>) /\ "arrow" \in Kinds
    BY <1>9 DEF HandleShoot, Kinds
  <2> QED
    BY <2>1, SpawnOneTypes
<1>10. ASSUME NEW s \in Hotbar, HandleFeed(s) PROVE EntsTyped'
  <2>1. "creature" \in Kinds
    BY DEF Kinds
  <2>2. UNCHANGED spawnVars \/ Spawn(<<Thing("creature", place, 0)>>)
    BY <1>10 DEF HandleFeed
  <2>3. CASE UNCHANGED spawnVars
    BY <2>3 DEF spawnVars, EntsTyped, Ids
  <2>4. CASE Spawn(<<Thing("creature", place, 0)>>)
    BY <2>1, <2>4, SpawnOneTypes
  <2> QED
    BY <2>2, <2>3, <2>4
<1>11. ASSUME NEW d \in deaths, Die(d) PROVE EntsTyped'
  <2>1. PICK n \in 0..1 :
           Spawn(<<Thing("orb", d.at, 0)>>
                 \o (IF n = 0 THEN <<>> ELSE <<Thing("item", d.at, n)>>))
    BY <1>11 DEF Die
  <2> DEFINE orb == <<Thing("orb", d.at, 0)>>
             t == Thing("orb", d.at, 0)
             item == Thing("item", d.at, n)
             D == IF n = 0 THEN <<>> ELSE <<item>>
             things == orb \o D
  <2>2. /\ t.kind \in Kinds /\ t.at \in Places
        /\ item.kind \in Kinds /\ item.at \in Places
    BY DEF Thing, Kinds
  <2>3. Spawn(things)
    BY <2>1
  <2>4. orb = <<t>>
    OBVIOUS
  <2> HIDE DEF t, item, orb
  <2>5. D \in Seq({item}) /\ Len(D) \in {0, 1} /\ \A k \in 1..Len(D) : D[k] = item
    <3>1. D = <<>> \/ D = <<item>>
      OBVIOUS
    <3> HIDE DEF D
    <3> QED
      BY <3>1, AtMostOne
  <2> HIDE DEF D
  <2>6. /\ Len(orb) \in {0, 1} /\ \A k \in 1..Len(orb) : orb[k] = t
        /\ Len(orb \o D) = Len(orb) + Len(D)
        /\ \A k \in 1..Len(orb) : (orb \o D)[k] = orb[k]
        /\ \A k \in 1..Len(D) : (orb \o D)[Len(orb) + k] = D[k]
    <3>1. (orb = <<>> \/ orb = <<t>>) /\ D \in Seq({item})
      BY <2>4, <2>5
    <3> QED
      BY <3>1, OrbFirst
  <2> HIDE DEF things
  <2>7. /\ Len(things) = Len(orb) + Len(D) /\ Len(orb) \in Nat /\ Len(D) \in Nat
        /\ \A k \in 1..Len(orb) : things[k] = t
        /\ \A k \in 1..Len(D) : things[Len(orb) + k] = item
    BY <2>5, <2>6 DEF things
  <2>8. \A k \in 1..Len(things) : things[k].kind \in Kinds /\ things[k].at \in Places
    <3> SUFFICES ASSUME NEW k \in 1..Len(things)
                 PROVE  things[k].kind \in Kinds /\ things[k].at \in Places
      OBVIOUS
    <3>1. CASE k <= Len(orb)
      BY <2>2, <2>7, <3>1
    <3>2. CASE k > Len(orb)
      <4>1. k - Len(orb) \in 1..Len(D) /\ Len(orb) + (k - Len(orb)) = k
        BY <2>7, <3>2
      <4>2. things[k] = item
        BY <2>7, <4>1
      <4> QED
        BY <2>2, <4>2
    <3> QED
      BY <2>7, <3>1, <3>2
  <2>9. Len(things) \in Nat
    BY <2>7
  <2> QED
    BY <2>3, <2>8, <2>9, SpawnTypes
<1>12. CASE HandlePeaceful \/ DespawnDistant
  <2>1. UNCHANGED nextId /\ \E gone : ents' = Restrict(ents, Ids \ gone)
    BY <1>12 DEF HandlePeaceful, DespawnDistant, RemoveAll
  <2> QED
    BY <2>1, RemovalTypes
<1>13. ASSUME NEW i \in Ids, HandleAttack(i) \/ MobsKill(i) PROVE EntsTyped'
  BY <1>13 DEF HandleAttack, MobsKill, spawnVars, EntsTyped, Ids
<1>14. CASE Simulate
  <2> DEFINE left == Ids \ dying
  <2>1. PICK step \in [left -> Places] :
           ents' = [i \in left |-> [kind |-> ents[i].kind, at |-> step[i]]]
    BY <1>14 DEF Simulate
  <2>2. UNCHANGED nextId
    BY <1>14 DEF Simulate
  <2>3. Ids' = left
    BY <2>1 DEF Ids
  <2>4. \A i \in left : ents'[i].kind = ents[i].kind /\ ents'[i].at = step[i]
    BY <2>1
  <2>5. \A i \in left : step[i] \in Places
    OBVIOUS
  <2> QED
    BY <2>2, <2>3, <2>4, <2>5 DEF EntsTyped
<1>15. ASSUME NEW i \in Ids, ArrowLands(i) PROVE EntsTyped'
  <2>1. /\ nextId <= MaxEntities /\ nextId' = nextId + 1
        /\ ents' = [j \in (Ids \ {i}) \cup {nextId} |->
                   IF j = nextId THEN [kind |-> "item", at |-> ents[i].at] ELSE ents[j]]
    BY <1>15 DEF ArrowLands
  <2>2. Ids' = (Ids \ {i}) \cup {nextId} /\ MaxEntities \in Nat
    BY <2>1 DEF Ids, ViewAssumption
  <2>3. /\ ents'[nextId].kind = "item" /\ ents'[nextId].at = ents[i].at
        /\ \A j \in Ids' : j # nextId => ents'[j] = ents[j]
    BY <2>1, <2>2
  <2>4. nextId' \in 2..(MaxEntities + 1) /\ nextId \in 2..MaxEntities
    BY <2>1, <2>2 DEF EntsTyped
  <2> QED
    BY <2>2, <2>3, <2>4 DEF EntsTyped, Kinds
<1>16. ASSUME NEW i \in Ids, ArrowHits(i) \/ TakeOrb(i) PROVE EntsTyped'
  <2>1. UNCHANGED nextId /\ ents' = Restrict(ents, Ids \ {i})
    BY <1>16 DEF ArrowHits, TakeOrb
  <2> QED
    BY <2>1, RemovalTypes
<1>17. ASSUME NEW i \in Ids, NEW j \in Ids, Merge(i, j) PROVE EntsTyped'
  <2>1. UNCHANGED nextId /\ \E gone : ents' = Restrict(ents, Ids \ gone)
    BY <1>17 DEF Merge
  <2> QED
    BY <2>1, RemovalTypes
<1>18. CASE Collect
  <2>1. UNCHANGED nextId /\ \E gone : ents' = Restrict(ents, Ids \ gone)
    BY <1>18 DEF Collect
  <2> QED
    BY <2>1, RemovalTypes
<1>19. CASE Track
  BY <1>19 DEF Track, EntsTyped, Ids
<1>20. CASE Quiet \/ UNCHANGED vars
  BY <1>1, <1>20, QuietKeeps DEF vars, spawnVars
<1> QED
  BY <1>2, <1>3, <1>4, <1>6, <1>7, <1>8, <1>9, <1>10, <1>11, <1>12, <1>13, <1>14, <1>15,
     <1>16, <1>17, <1>18, <1>19, <1>20 DEF Next, Packet, GameTick, Quiet

\* The vehicle is what it was, and has not gone where handlers look it up.
LEMMA MountStays ==
    ASSUME Mounted, UNCHANGED vehicle,
           phase' \in {"loop", "orbs", "despawn"} =>
               /\ phase \in {"loop", "orbs", "despawn"}
               /\ vehicle \in Ids => vehicle \in Ids'
    PROVE  Mounted'
BY DEF Mounted

LEMMA MountedStep ==
    ASSUME ViewAssumption, Entries, Rider, Typed, [Next]_vars
    PROVE  Mounted'
<1>0. Mounted /\ Ids \subseteq 2..MaxEntities
  BY DEF Typed, EntsTyped
<1>1. CASE Dismount
  BY <1>1 DEF Dismount, Mounted
<1>2. CASE UNCHANGED <<vehicle, phase>> /\ UNCHANGED spawnVars
  <2>1. Ids' = Ids
    BY <1>2 DEF spawnVars, Ids
  <2> QED
    BY <1>0, <1>2, <2>1, MountStays
<1>3. CASE HandleAccept \/ HandleRespawn \/ UNCHANGED vars
  BY <1>2, <1>3 DEF HandleAccept, HandleRespawn, vars, rideVars, tickVars, spawnVars
<1>4. CASE HandleSpectate \/ HandleDismount \/ HandleKill \/ SurvivalKills
  BY <1>1, <1>4 DEF HandleSpectate, HandleDismount, HandleKill, SurvivalKills, KillPlayer
<1>5. ASSUME NEW p \in Places, HandleMove(p) \/ HandleTp(p) PROVE Mounted'
  BY <1>1, <1>2, <1>5 DEF HandleMove, HandleTp, rideVars, tickVars
<1>6. ASSUME NEW i \in Ids, HandleMount(i) PROVE Mounted'
  <2>1. vehicle' = i /\ Ids' = Ids
    BY <1>6 DEF HandleMount, spawnVars, Ids
  <2> QED
    BY <1>0, <2>1 DEF Mounted
<1>7. ASSUME NEW s \in Hotbar, HandleSwap(s) \/ HandleUse(s) PROVE Mounted'
  BY <1>2, <1>7 DEF HandleSwap, HandleUse, rideVars, tickVars
<1>8. ASSUME NEW i \in Ids, HandleAttack(i) \/ MobsKill(i) PROVE Mounted'
  BY <1>2, <1>8 DEF HandleAttack, MobsKill, rideVars, tickVars
<1>9. CASE Spawning /\ ~HandleKill /\ ~SurvivalKills
  <2>1. UNCHANGED vehicle
    BY <1>9 DEF Spawning, NaturalSpawn, HandleSummon, HandleGive, HandleDrop,
                HandleShoot, HandleFeed, PickUp, Die, rideVars
  <2>2. Ids \subseteq Ids'
    BY <1>9, SpawningSpawns, SpawnsGrow DEF Grown
  <2>3. UNCHANGED phase \/ (phase = "orbs" /\ phase' = "despawn")
    BY <1>9 DEF Spawning, NaturalSpawn, HandleSummon, HandleGive, HandleDrop,
                HandleShoot, HandleFeed, PickUp, Die, tickVars
  <2> QED
    BY <1>0, <2>1, <2>2, <2>3, MountStays
<1>10. CASE HandlePeaceful \/ DespawnDistant
  <2>1. PICK gone \in SUBSET OfKind("monster") : Ids' = Ids \ gone
    BY <1>10 DEF HandlePeaceful, DespawnDistant, RemoveAll, Restrict, Ids
  <2>2. vehicle \in Ids => vehicle \in Ids'
    BY <2>1 DEF Rider, OfKind
  <2>3. UNCHANGED vehicle /\ phase \in {"loop", "despawn"}
    BY <1>10 DEF HandlePeaceful, DespawnDistant, Alive
  <2> QED
    BY <1>0, <2>2, <2>3, MountStays
<1>11. CASE Simulate \/ Collect
  <2>1. UNCHANGED vehicle /\ phase' \notin {"loop", "orbs", "despawn"}
    BY <1>11 DEF Simulate, Collect, rideVars
  <2> QED
    BY <1>0, <2>1, MountStays
<1>12. ASSUME NEW i \in Ids, ArrowLands(i) \/ ArrowHits(i) PROVE Mounted'
  <2>1. UNCHANGED vehicle /\ phase' \notin {"loop", "orbs", "despawn"}
    BY <1>12 DEF ArrowLands, ArrowHits, rideVars, tickVars
  <2> QED
    BY <1>0, <2>1, MountStays
<1>13. ASSUME NEW i \in Ids, NEW j \in Ids, Merge(i, j) PROVE Mounted'
  <2>1. UNCHANGED vehicle /\ phase' \notin {"loop", "orbs", "despawn"}
    BY <1>13 DEF Merge, rideVars
  <2> QED
    BY <1>0, <2>1, MountStays
<1>14. CASE Track
  <2>1. vehicle' \in Ids \cup {NoEntity} /\ Ids' = Ids
    BY <1>14 DEF Track, Ids
  <2> QED
    BY <1>0, <2>1 DEF Mounted
<1>15. ASSUME NEW i \in Ids, TakeOrb(i) PROVE Mounted'
  <2>1. /\ i \in orbs /\ UNCHANGED vehicle /\ Ids \ {i} \subseteq Ids' /\ UNCHANGED phase
    BY <1>15 DEF TakeOrb, Restrict, Ids, rideVars, tickVars
  <2>2. vehicle # i \/ vehicle \notin Ids
    BY <2>1 DEF Rider, Entries, OfKind
  <2> QED
    BY <1>0, <2>1, <2>2, MountStays
<1>16. CASE EndTick
  <2>1. UNCHANGED vehicle /\ Ids' = Ids /\ phase = "orbs"
    BY <1>16 DEF EndTick, spawnVars, rideVars, Ids
  <2> QED
    BY <1>0, <2>1, MountStays
<1> QED
  BY <1>3, <1>4, <1>5, <1>6, <1>7, <1>8, <1>9, <1>10, <1>11, <1>12, <1>13, <1>14, <1>15,
     <1>16 DEF Next, Packet, GameTick, Spawning

\* The rider and the player stay on the line of places.
LEMMA PlayerTyped ==
    ASSUME ViewAssumption, Entries, Typed, [Next]_vars
    PROVE  /\ visible' \in BOOLEAN /\ confirmed' \in BOOLEAN /\ dead' \in BOOLEAN
           /\ place' \in Places
<1>0. /\ visible \in BOOLEAN /\ confirmed \in BOOLEAN /\ dead \in BOOLEAN
      /\ place \in Places /\ Mounted /\ \A i \in Ids : ents[i].at \in Places
  BY DEF Typed, EntsTyped
<1> DEFINE Goal == /\ visible' \in BOOLEAN /\ confirmed' \in BOOLEAN /\ dead' \in BOOLEAN
                   /\ place' \in Places
<1>1. CASE UNCHANGED playerVars
  BY <1>0, <1>1 DEF playerVars
<1>2. CASE \/ HandlePeaceful \/ HandleSpectate \/ Simulate \/ Collect \/ EndTick
           \/ NaturalSpawn \/ DespawnDistant \/ UNCHANGED vars
  BY <1>1, <1>2 DEF HandlePeaceful, HandleSpectate, Simulate, Collect, EndTick,
                    NaturalSpawn, DespawnDistant, vars, playerVars
<1>3. CASE HandleAccept \/ HandleKill \/ SurvivalKills
  BY <1>0, <1>3 DEF HandleAccept, HandleKill, SurvivalKills, KillPlayer
<1>4. CASE HandleRespawn
  BY <1>0, <1>4 DEF HandleRespawn, ViewAssumption
<1>5. CASE HandleDismount
  <2>1. vehicle \in Ids
    BY <1>0, <1>5 DEF HandleDismount, Alive, Mounted
  <2>2. place' = ents[vehicle].at /\ UNCHANGED <<visible, confirmed, dead>>
    BY <1>5 DEF HandleDismount
  <2> QED
    BY <1>0, <2>1, <2>2
<1>6. ASSUME NEW p \in Places, HandleMove(p) \/ HandleTp(p) PROVE Goal
  BY <1>0, <1>6 DEF HandleMove, HandleTp
<1>7. ASSUME NEW kind \in Living, HandleSummon(kind) PROVE Goal
  BY <1>1, <1>7 DEF HandleSummon
<1>8. ASSUME NEW n \in 1..MaxStack, HandleGive(n) PROVE Goal
  BY <1>1, <1>8 DEF HandleGive
<1>9. ASSUME NEW i \in Ids, \/ HandleAttack(i) \/ HandleMount(i) \/ MobsKill(i)
                            \/ ArrowLands(i) \/ ArrowHits(i) \/ TakeOrb(i)
      PROVE  Goal
  BY <1>1, <1>9 DEF HandleAttack, HandleMount, MobsKill, ArrowLands, ArrowHits, TakeOrb
<1>10. ASSUME NEW s \in Hotbar, \/ HandleDrop(s) \/ HandleSwap(s) \/ HandleShoot(s)
                                \/ HandleUse(s) \/ HandleFeed(s)
       PROVE  Goal
  BY <1>1, <1>10 DEF HandleDrop, HandleSwap, HandleShoot, HandleUse, HandleFeed
<1>11. ASSUME NEW i \in Ids, NEW j \in Ids, Merge(i, j) PROVE Goal
  BY <1>1, <1>11 DEF Merge
<1>12. ASSUME NEW i \in DOMAIN pickups, PickUp(i) PROVE Goal
  BY <1>1, <1>12 DEF PickUp
<1>13. ASSUME NEW d \in deaths, Die(d) PROVE Goal
  BY <1>1, <1>13 DEF Die
<1>14. CASE Track
  <2>1. /\ vehicle' \in Ids \cup {NoEntity} /\ UNCHANGED <<visible, confirmed, dead>>
        /\ place' = IF vehicle' = NoEntity THEN place ELSE ents[vehicle'].at
    BY <1>14 DEF Track
  <2> QED
    BY <1>0, <2>1
<1> QED
  BY <1>2, <1>3, <1>4, <1>5, <1>6, <1>7, <1>8, <1>9, <1>10, <1>11, <1>12, <1>13, <1>14
  DEF Next, Packet, GameTick

\* Whoever died did so at a place.
LEMMA DeathsTyped ==
    ASSUME ViewAssumption, Entries, Typed, [Next]_vars
    PROVE  \A d \in deaths' : d.at \in Places
<1>0. /\ \A d \in deaths : d.at \in Places
      /\ \A i \in Ids : ents[i].at \in Places
  BY DEF Typed, EntsTyped
<1> DEFINE Goal == \A d \in deaths' : d.at \in Places
<1>1. CASE deaths' \subseteq deaths
  BY <1>0, <1>1
<1>2. CASE Simulate
  <2>1. deaths' = {[id |-> i, at |-> ents[i].at] : i \in dying}
    BY <1>2 DEF Simulate
  <2>2. \A i \in dying : i \in Ids
    BY DEF Entries
  <2> QED
    BY <1>0, <2>1, <2>2
<1>3. CASE \/ HandleAccept \/ HandleKill \/ HandleRespawn \/ HandlePeaceful
           \/ HandleSpectate \/ HandleDismount \/ SurvivalKills \/ Collect \/ Track
           \/ EndTick \/ NaturalSpawn \/ DespawnDistant \/ UNCHANGED vars
  BY <1>1, <1>3 DEF HandleAccept, HandleKill, HandleRespawn, HandlePeaceful,
                    HandleSpectate, HandleDismount, SurvivalKills, Collect, Track,
                    EndTick, NaturalSpawn, DespawnDistant, vars, tickVars
<1>4. ASSUME NEW p \in Places, HandleMove(p) \/ HandleTp(p) PROVE Goal
  BY <1>1, <1>4 DEF HandleMove, HandleTp, tickVars
<1>5. ASSUME NEW kind \in Living, HandleSummon(kind) PROVE Goal
  BY <1>1, <1>5 DEF HandleSummon, tickVars
<1>6. ASSUME NEW n \in 1..MaxStack, HandleGive(n) PROVE Goal
  BY <1>1, <1>6 DEF HandleGive, tickVars
<1>7. ASSUME NEW i \in Ids, \/ HandleAttack(i) \/ HandleMount(i) \/ MobsKill(i)
                            \/ ArrowLands(i) \/ ArrowHits(i) \/ TakeOrb(i)
      PROVE  Goal
  BY <1>1, <1>7 DEF HandleAttack, HandleMount, MobsKill, ArrowLands, ArrowHits, TakeOrb,
                    tickVars
<1>8. ASSUME NEW s \in Hotbar, \/ HandleDrop(s) \/ HandleSwap(s) \/ HandleShoot(s)
                               \/ HandleUse(s) \/ HandleFeed(s)
      PROVE  Goal
  BY <1>1, <1>8 DEF HandleDrop, HandleSwap, HandleShoot, HandleUse, HandleFeed, tickVars
<1>9. ASSUME NEW i \in Ids, NEW j \in Ids, Merge(i, j) PROVE Goal
  BY <1>1, <1>9 DEF Merge
<1>10. ASSUME NEW i \in DOMAIN pickups, PickUp(i) PROVE Goal
  BY <1>1, <1>10 DEF PickUp
<1>11. ASSUME NEW d \in deaths, Die(d) PROVE Goal
  BY <1>1, <1>11 DEF Die
<1> QED
  BY <1>2, <1>3, <1>4, <1>5, <1>6, <1>7, <1>8, <1>9, <1>10, <1>11
  DEF Next, Packet, GameTick

\* No more is made than the bound allows.
LEMMA MadeTyped ==
    ASSUME ViewAssumption, Entries, Items, Typed, [Next]_vars
    PROVE  made' <= MaxItems
<1>0. made \in Int /\ made <= MaxItems /\ MaxItems \in Nat /\ MaxStack \in Nat
  BY DEF Items, Counts, Typed, ViewAssumption
<1> DEFINE Goal == made' <= MaxItems
<1>1. CASE UNCHANGED made \/ made' = made - 1 \/ (made < MaxItems /\ made' = made + 1)
  BY <1>0, <1>1
<1>2. CASE Collect
  <2>1. PICK expired \in SUBSET DOMAIN stacks :
           made' = made - SumFunction(Restrict(stacks, expired))
    BY <1>2 DEF Collect, Entries
  <2>2. IsFiniteSet(DOMAIN stacks) /\ \A i \in DOMAIN stacks : stacks[i] \in Nat
    BY <1>0, FiniteEntities DEF Entries, Items, Counts
  <2>3. SumFunctionOnSet(stacks, expired) \in Int /\ SumFunctionOnSet(stacks, expired) >= 0
    <3>1. /\ IsFiniteSet(expired)
          /\ \A x \in expired : stacks[x] \in Int /\ stacks[x] >= 0
      BY <2>2, FS_Subset
    <3> QED
      BY <3>1, SumType
  <2>4. SumFunction(Restrict(stacks, expired)) = SumFunctionOnSet(stacks, expired)
    BY <2>2, SumRestrict
  <2> QED
    BY <1>0, <2>1, <2>3, <2>4
<1>3. CASE \/ HandleAccept \/ HandleKill \/ HandleRespawn \/ HandlePeaceful
           \/ HandleSpectate \/ HandleDismount \/ SurvivalKills \/ Simulate \/ Track
           \/ EndTick \/ NaturalSpawn \/ DespawnDistant \/ UNCHANGED vars
  BY <1>1, <1>3 DEF HandleAccept, HandleKill, HandleRespawn, HandlePeaceful,
                    HandleSpectate, HandleDismount, SurvivalKills, Simulate, Track,
                    EndTick, NaturalSpawn, DespawnDistant, vars
<1>4. ASSUME NEW p \in Places, HandleMove(p) \/ HandleTp(p) PROVE Goal
  BY <1>1, <1>4 DEF HandleMove, HandleTp
<1>5. ASSUME NEW kind \in Living, HandleSummon(kind) PROVE Goal
  BY <1>1, <1>5 DEF HandleSummon
<1>6. ASSUME NEW n \in 1..MaxStack, HandleGive(n) PROVE Goal
  BY <1>6 DEF HandleGive
<1>7. ASSUME NEW i \in Ids, \/ HandleAttack(i) \/ HandleMount(i) \/ MobsKill(i)
                            \/ ArrowLands(i) \/ ArrowHits(i) \/ TakeOrb(i)
      PROVE  Goal
  BY <1>1, <1>7 DEF HandleAttack, HandleMount, MobsKill, ArrowLands, ArrowHits, TakeOrb
<1>8. ASSUME NEW s \in Hotbar, \/ HandleDrop(s) \/ HandleSwap(s) \/ HandleShoot(s)
                               \/ HandleUse(s) \/ HandleFeed(s)
      PROVE  Goal
  BY <1>1, <1>8 DEF HandleDrop, HandleSwap, HandleShoot, HandleUse, HandleFeed
<1>9. ASSUME NEW i \in Ids, NEW j \in Ids, Merge(i, j) PROVE Goal
  BY <1>1, <1>9 DEF Merge
<1>10. ASSUME NEW i \in DOMAIN pickups, PickUp(i) PROVE Goal
  BY <1>1, <1>10 DEF PickUp
<1>11. ASSUME NEW d \in deaths, Die(d) PROVE Goal
  BY <1>11 DEF Die
<1> QED
  BY <1>2, <1>3, <1>4, <1>5, <1>6, <1>7, <1>8, <1>9, <1>10, <1>11
  DEF Next, Packet, GameTick

LEMMA TypedStep ==
    ASSUME ViewAssumption, Entries, Rider, Items, Typed, [Next]_vars
    PROVE  Typed'
<1>1. EntsTyped' /\ Mounted'
  BY EntsTypedStep, MountedStep
<1>2. /\ visible' \in BOOLEAN /\ confirmed' \in BOOLEAN /\ dead' \in BOOLEAN
      /\ place' \in Places
  BY PlayerTyped
<1>3. (\A d \in deaths' : d.at \in Places) /\ made' <= MaxItems
  BY DeathsTyped, MadeTyped
<1> QED
  BY <1>1, <1>2, <1>3 DEF Typed

LEMMA TypedInit ==
    ASSUME ViewAssumption, Init
    PROVE  Typed
<1>1. /\ nextId \in {2, 3}
      /\ \A i \in Ids : i = 2 /\ ents[i].kind \in Living /\ ents[i].at \in Places
  BY EntriesInit
<1>2. EntsTyped
  <2>1. 2 \in 2..MaxEntities /\ 2..3 \subseteq 2..(MaxEntities + 1)
    BY DEF ViewAssumption
  <2> QED
    BY <1>1, <2>1 DEF EntsTyped, Living, Kinds
<1>3. Mounted
  BY DEF Init, Mounted
<1>4. /\ visible = FALSE /\ confirmed = FALSE /\ dead = FALSE /\ place \in Places
      /\ deaths = {} /\ made <= MaxItems
  BY DEF Init, ViewAssumption
<1> QED
  BY <1>2, <1>3, <1>4 DEF Typed

LEMMA TypedInvariant == Spec => []Typed
<1>1. Init => Typed
  BY TypedInit, ViewAssumption
<1>2. Tables /\ Entries /\ Items /\ Typed /\ [Next]_vars => Typed'
  BY TypedStep, ViewAssumption DEF Tables
<1> QED
  BY <1>1, <1>2, TablesInvariant, ItemsInvariant, PTL DEF Spec

\* Every variable has the type the code gives it: ids are within their bound,
\* what is dying is alive and there, a stack is never empty or more than full,
\* and the player stays at a place, also when it leaves a vehicle.
THEOREM EntityTypeCorrect == Spec => []TypeOK
<1>1. Tables /\ Entries /\ Items /\ Typed => TypeOK
  <2> SUFFICES ASSUME Tables, Entries, Items, Typed
               PROVE  TypeOK
    OBVIOUS
  <2>1. EntsTyped /\ Mounted /\ Counts /\ Tracked /\ ItemsConserved
    BY DEF Tables, Items, Typed
  <2>2. made \in 0..MaxItems
    <3>1. made \in Nat
      BY <2>1, ViewAssumption, Totals DEF ItemsConserved
    <3> QED
      BY <3>1, ViewAssumption DEF Typed, ViewAssumption
  <2>3. /\ DOMAIN held = Slots /\ \A s \in Slots : held[s] \in 0..MaxStack
        /\ \A i \in DOMAIN stacks : stacks[i] \in 1..MaxStack
        /\ vehicle \in (2..MaxEntities) \cup {NoEntity} /\ phase \in Phases
    BY <2>1 DEF Counts, Mounted, Tracked
  <2>4. {visible, confirmed, dead} \subseteq BOOLEAN /\ place \in Places
    BY DEF Typed
  <2>5. \A i \in dying : i \in Ids /\ ents[i].kind \in Living
    BY DEF Entries
  <2> QED
    BY <2>1, <2>2, <2>3, <2>4, <2>5 DEF TypeOK, EntsTyped
<1> QED
  BY <1>1, TablesInvariant, ItemsInvariant, TypedInvariant, PTL
=============================================================================
