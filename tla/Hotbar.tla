------------------------------- MODULE Hotbar -------------------------------
(***************************************************************************)
(* The items of a play session: the hotbar, the off hand and the stacks    *)
(* lying in the world, every operation of server.cpp that moves, makes or  *)
(* uses up an item, ItemStack (item.cpp), and the slots as the client was  *)
(* sent them, which show an item and a count and no wear.  Slot Off is the *)
(* off hand.  Where a stack lies, and the merging of stacks that lie       *)
(* together, are left to EntityView; an arrow that is shot is recovered    *)
(* where it lands or is lost.                                              *)
(***************************************************************************)
EXTENDS Integers, Sequences, Bags, Functions

CONSTANTS
  Off,              \* number of slots of the hotbar, and the index of the off hand
  Kit,              \* stacks of a new session, by slot of the hotbar
  Limit,            \* item -> max_stack_size
  Wears,            \* item -> max_damage, zero if it does not wear
  Foods, Treats,    \* items that feed the player, and the animals
  Placeable,        \* items that place a block
  Mined,            \* items that blocks drop
  Chosen,           \* the game modes the player chooses, of Modes
  MaxItems,         \* bound on the items of the model
  MaxGiven          \* bound on the count of one give command

VARIABLES
  items,      \* hotbar and offhand
  active,     \* active_hotbar_slot
  hand,       \* blocking_hand
  blocking,   \* SurvivalState::blocking
  mode,       \* game_mode
  dead,       \* player_dead
  ground,     \* bag of the stacks of DroppedItemSystem
  view,       \* slots the client was sent
  balance     \* items brought into the session less those used up

vars == <<items, active, hand, blocking, mode, dead, ground, view, balance>>

Items == DOMAIN Limit
Hotbar == 0..Off - 1
Slots == 0..Off
Hands == {"main", "off"}
Modes == {"survival", "creative", "adventure", "spectator"}

---------------------------------------------------------------------------
(* ItemStack.                                                              *)

Empty == [item |-> "air", count |-> 0, wear |-> 0]
Stack(i, n) == [item |-> i, count |-> n, wear |-> 0]
Stacks == {s \in [item : Items, count : 1..MaxItems, wear : 0..MaxItems] :
             s.count <= Limit[s.item] /\ s.wear <= Wears[s.item]}

\* There is a hotbar, air is not an item, and the kit, food and blocks are of items; bows
\* do not stack.
HotbarConstants ==
  /\ Off \in Nat \ {0} /\ MaxItems \in Nat /\ MaxGiven \in Nat
  /\ "air" \notin Items /\ Limit \in [Items -> Nat \ {0}] /\ Wears \in [Items -> Nat]
  /\ "bow" \in Items => Limit["bow"] = 1
  /\ DOMAIN Kit \subseteq Hotbar /\ \A k \in DOMAIN Kit : Kit[k] \in Stacks
  /\ Foods \cup Treats \cup Placeable \cup Mined \subseteq Items

\* normalize
Normal(s) == IF s.count = 0 THEN Empty ELSE s

CanMerge(s, t) == s # Empty /\ t # Empty /\ s.item = t.item /\ s.wear = t.wear

\* What insert_from moves from t to s.
Moved(s, t) ==
  LET room == IF s = Empty THEN Limit[t.item]
              ELSE IF CanMerge(s, t) THEN Limit[t.item] - s.count ELSE 0
  IN  IF room < t.count THEN room ELSE t.count

Less(s, n) == Normal([s EXCEPT !.count = @ - n])
Grown(s, t, n) == IF n = 0 THEN s ELSE [t EXCEPT !.count = s.count + n]

\* apply_damage
Worn(s, n) ==
  IF s = Empty \/ n = 0 \/ Wears[s.item] = 0 THEN s
  ELSE IF s.wear + n >= Wears[s.item] THEN Empty ELSE [s EXCEPT !.wear = @ + n]

\* One slot offered what is left of a stack.
Offered(acc, k) ==
  LET n == IF acc.rest = Empty THEN 0 ELSE Moved(acc.items[k], acc.rest)
  IN  [items |-> [acc.items EXCEPT ![k] = Grown(@, acc.rest, n)],
       rest |-> Less(acc.rest, n)]

\* The slots of the hotbar are offered a stack from the first to the last.
Inserted(its, s) ==
  LET upto[k \in -1..Off - 1] ==
        IF k = -1 THEN [items |-> its, rest |-> s] ELSE Offered(upto[k - 1], k)
  IN  upto[Off - 1]

Lay(g, s) == IF s = Empty THEN g ELSE g (+) SetToBag({s})

\* The stacks of the slots 0 to n are laid.
LaidTo(g, its, n) ==
  LET upto[k \in -1..Off] == IF k = -1 THEN g ELSE Lay(upto[k - 1], its[k])
  IN  upto[n]

---------------------------------------------------------------------------
(* What the client is sent.                                                *)

\* simple_stack
Simple(s) == <<s.item, s.count>>

\* sync_hotbar_slot and sync_offhand, for the slots ks
Synced(ks) == view' = [k \in Slots |-> IF k \in ks THEN Simple(items'[k]) ELSE view[k]]
Changed == {k \in Slots : items'[k] # items[k]}

Held == IF hand = "main" THEN active ELSE Off
InHand(h) == IF h = "main" THEN active ELSE Off

Earn(i, n) == balance' = [balance EXCEPT ![i] = @ + n]
Spend(i, n) == balance' = [balance EXCEPT ![i] = @ - n]

\* How many of an item a stack is, and the items in the slots and on the ground.
Of(s, i) == IF s.item = i THEN s.count ELSE 0
Amount(its, i) == SumFunction([k \in Slots |-> Of(its[k], i)])
Lying(g, i) == SumFunction([s \in DOMAIN g |-> g[s] * Of(s, i)])
Total(its, g, i) == Amount(its, i) + Lying(g, i)

\* The model has MaxItems at most.
Room(n) ==
  n + BagCardinality([i \in {j \in Items : balance[j] > 0} |-> balance[i]]) <= MaxItems

Init ==
  /\ items = [k \in Slots |-> IF k \in DOMAIN Kit THEN Kit[k] ELSE Empty]
  /\ active = 0 /\ hand = "none" /\ blocking = FALSE
  /\ mode = "survival" /\ dead = FALSE /\ ground = EmptyBag
  /\ view = [k \in Slots |-> Simple(items[k])]
  /\ balance = [i \in Items |-> Amount(items, i)]

---------------------------------------------------------------------------
(* The game tick.                                                          *)

\* A monster's hit is blocked: whatever the blocking hand holds now wears by n.
BlockedHit(n, lethal) ==
  /\ ~dead /\ blocking /\ hand # "none"
  /\ items' = [items EXCEPT ![Held] = Worn(@, n)]
  /\ Synced({Held})
  /\ blocking' = (~lethal /\ items'[Held] # Empty)
  /\ hand' = IF items'[Held] = Empty THEN "none" ELSE hand
  /\ IF items[Held] # Empty /\ items'[Held] = Empty
     THEN Spend(items[Held].item, items[Held].count) ELSE UNCHANGED balance
  /\ UNCHANGED <<active, mode, dead, ground>>

\* A stack comes within reach: what the hotbar does not take is dropped again.
Pickup(s) ==
  LET got == Inserted(items, s)
  IN  /\ ~dead /\ BagIn(s, ground)
      /\ items' = got.items
      /\ ground' = Lay(ground (-) SetToBag({s}), got.rest)
      /\ Synced(Changed \cap Hotbar)
      /\ UNCHANGED <<active, hand, blocking, mode, dead, balance>>

\* A drop outlives its time.
Expire(s) ==
  /\ BagIn(s, ground)
  /\ ground' = ground (-) SetToBag({s})
  /\ Spend(s.item, s.count)
  /\ UNCHANGED <<items, active, hand, blocking, mode, dead, view>>

\* kill_player: unless the rule keepInventory is set, everything is dropped.
MutKillPlayer(keep) ==
  /\ ~dead /\ dead' = TRUE /\ blocking' = FALSE
  /\ items' = IF keep THEN items ELSE [k \in Slots |-> Empty]
  /\ ground' = IF keep THEN ground
               ELSE LaidTo(ground, items, Off - 1)
  /\ Synced(IF keep THEN {} ELSE Slots)
  /\ UNCHANGED <<active, hand, mode, balance>>

KillPlayer(keep) ==
  /\ ~dead /\ dead' = TRUE /\ blocking' = FALSE
  /\ items' = IF keep THEN items ELSE [k \in Slots |-> Empty]
  /\ ground' = IF keep THEN ground
               ELSE LaidTo(ground, items, Off)
  /\ Synced(IF keep THEN {} ELSE Slots)
  /\ UNCHANGED <<active, hand, mode, balance>>

---------------------------------------------------------------------------
(* Packets of the player.                                                  *)

\* client_command perform_respawn: survival.reset lowers the shield and keeps blocking_hand.
Respawn ==
  /\ dead /\ dead' = FALSE /\ blocking' = FALSE
  /\ UNCHANGED <<items, active, hand, mode, ground, view, balance>>

Give(i, n) ==
  LET full == n \div Limit[i]
      batches == [b \in 1..full |-> Stack(i, Limit[i])]
                   \o (IF n % Limit[i] = 0 THEN <<>> ELSE <<Stack(i, n % Limit[i])>>)
      Batch(acc, s) == LET got == Inserted(acc.items, s)
                       IN  [items |-> got.items, ground |-> Lay(acc.ground, got.rest)]
      upto[b \in 0..Len(batches)] ==
        IF b = 0 THEN [items |-> items, ground |-> ground] ELSE Batch(upto[b - 1], batches[b])
      given == upto[Len(batches)]
  IN  /\ ~dead /\ Room(n)
      /\ items' = given.items /\ ground' = given.ground
      /\ Synced(Changed) /\ Earn(i, n)
      /\ UNCHANGED <<active, hand, blocking, mode, dead>>

\* clear of the items is, in the hotbar and the off hand
Clear(is) ==
  LET hit == {k \in Slots : items[k].item \in is}
  IN  /\ ~dead /\ hit # {}
      /\ items' = [k \in Slots |-> IF k \in hit THEN Empty ELSE items[k]]
      /\ Synced(hit)
      /\ balance' = [i \in Items |-> balance[i] - IF i \in is THEN Amount(items, i) ELSE 0]
      /\ UNCHANGED <<active, hand, blocking, mode, dead, ground>>

SetMode(m) ==
  /\ ~dead /\ mode' = m /\ blocking' = FALSE /\ hand' = "none"
  /\ UNCHANGED <<items, active, dead, ground, view, balance>>

\* An animal is tamed or fed with what the active slot holds.
UseOnAnimal ==
  /\ ~dead /\ mode # "spectator" /\ items[active].item \in Treats
  /\ items' = [items EXCEPT ![active] = Less(@, 1)]
  /\ Synced({active}) /\ Spend(items[active].item, 1)
  /\ UNCHANGED <<active, hand, blocking, mode, dead, ground>>

\* select_creative_item, for a block or an entity that is picked
Pick(i) ==
  LET has == {k \in Hotbar : items[k].item = i}
  IN  /\ ~dead /\ mode = "creative"
      /\ IF has # {}
         THEN /\ active' = CHOOSE k \in has : \A j \in has : k <= j
              /\ UNCHANGED <<items, view, balance>>
         ELSE /\ Room(1)
              /\ items' = [items EXCEPT ![active] = Stack(i, 1)]
              /\ balance' = [j \in Items |->
                   balance[j] + (IF j = i THEN 1 ELSE 0)
                     - (IF j = items[active].item THEN items[active].count ELSE 0)]
              /\ Synced({active}) /\ UNCHANGED active
      /\ UNCHANGED <<hand, blocking, mode, dead, ground>>

\* set_creative_mode_slot with a stack that validate accepts
CreativeSlot(k, s) ==
  /\ ~dead /\ mode = "creative" /\ Room(s.count)
  /\ items' = [items EXCEPT ![k] = s]
  /\ balance' = [j \in Items |-> balance[j] + (IF j = s.item THEN s.count ELSE 0)
                                   - (IF j = items[k].item THEN items[k].count ELSE 0)]
  /\ Synced({k})
  /\ UNCHANGED <<active, hand, blocking, mode, dead, ground>>

\* drop_item and drop_all_items
Drop(all) ==
  LET n == IF all THEN items[active].count ELSE 1
  IN  /\ ~dead /\ mode # "spectator" /\ items[active] # Empty
      /\ items' = [items EXCEPT ![active] = Less(@, n)]
      /\ ground' = Lay(ground, [items[active] EXCEPT !.count = n])
      /\ Synced({active})
      /\ UNCHANGED <<active, hand, blocking, mode, dead, balance>>

\* swap_item_with_offhand; the hand that blocks stays the same
Swap ==
  /\ ~dead /\ mode # "spectator"
  /\ items' = [items EXCEPT ![active] = items[Off], ![Off] = items[active]]
  /\ Synced({active, Off})
  /\ UNCHANGED <<active, hand, blocking, mode, dead, ground, balance>>

\* release_use_item; teleport_to_entity and the tp command lower the shield too
Lower ==
  /\ ~dead /\ blocking' = FALSE /\ hand' = "none"
  /\ UNCHANGED <<items, active, mode, dead, ground, view, balance>>

\* A block is mined (stop_destroy_block): the tool wears, then the hotbar takes the drop.
\* The client sees the tool only if it breaks, or if its slot takes the drop.
Mine(drop) ==
  LET worn == [items EXCEPT ![active] = Worn(@, 1)]
      broke == items[active] # Empty /\ worn[active] = Empty
      got == IF drop = Empty THEN [items |-> worn, rest |-> Empty] ELSE Inserted(worn, drop)
  IN  /\ ~dead /\ mode = "survival" /\ Room(drop.count)
      /\ items' = got.items /\ ground' = Lay(ground, got.rest)
      /\ Synced({k \in Hotbar : got.items[k] # worn[k]} \cup (IF broke THEN {active} ELSE {}))
      /\ balance' = [i \in Items |->
           balance[i] + (IF i = drop.item THEN drop.count ELSE 0)
             - (IF broke /\ i = items[active].item THEN items[active].count ELSE 0)]
      /\ UNCHANGED <<active, hand, blocking, mode, dead>>

\* set_carried_item
SetCarried(k) ==
  /\ ~dead /\ active' = k
  /\ UNCHANGED <<items, hand, blocking, mode, dead, ground, view, balance>>

\* use_item_on that places a block; in creative mode the stack is put back.
Place ==
  /\ ~dead /\ mode \in {"survival", "creative"} /\ items[active].item \in Placeable
  /\ IF mode = "creative" THEN UNCHANGED <<items, balance>>
     ELSE /\ items' = [items EXCEPT ![active] = Less(@, 1)]
          /\ Spend(items[active].item, 1)
  /\ Synced({active})
  /\ UNCHANGED <<active, hand, blocking, mode, dead, ground>>

\* use_item with a shield
Raise(h) ==
  /\ ~dead /\ mode # "spectator" /\ items[InHand(h)].item = "shield"
  /\ blocking' = TRUE /\ hand' = h
  /\ UNCHANGED <<items, active, mode, dead, ground, view, balance>>

\* use_item with food, which a player who is not hungry cannot eat
Eat(h) ==
  /\ ~dead /\ mode # "spectator" /\ items[InHand(h)].item \in Foods
  /\ items' = [items EXCEPT ![InHand(h)] = Less(@, 1)]
  /\ Synced({InHand(h)}) /\ Spend(items[InHand(h)].item, 1)
  /\ UNCHANGED <<active, hand, blocking, mode, dead, ground>>

\* use_item with a bow: the first arrow of the hotbar is shot, and the bow wears.
Shoot(h, recovered) ==
  LET has == {k \in Hotbar : items[k].item = "arrow"}
      arrow == CHOOSE k \in has : \A j \in has : k <= j
      uses == mode # "creative"
  IN  /\ ~dead /\ mode # "spectator" /\ items[InHand(h)].item = "bow" /\ has # {}
      /\ uses \/ Room(1)
      /\ items' = IF uses THEN [[items EXCEPT ![arrow] = Less(@, 1)]
                                  EXCEPT ![InHand(h)] = Worn(@, 1)]
                  ELSE items
      /\ ground' = IF recovered THEN Lay(ground, Stack("arrow", 1)) ELSE ground
      /\ Synced(IF uses THEN {arrow, InHand(h)} ELSE {})
      /\ balance' = [i \in Items |->
           balance[i] + (IF i = "arrow" /\ recovered THEN 1 ELSE 0)
             - (IF i = "arrow" /\ uses THEN 1 ELSE 0)
             - (IF i = "bow" /\ uses /\ items'[InHand(h)] = Empty THEN 1 ELSE 0)]
      /\ UNCHANGED <<active, hand, blocking, mode, dead>>

Next ==
  \/ \E n \in 1..2, lethal \in BOOLEAN : BlockedHit(n, lethal)
  \/ \E s \in BagToSet(ground) : Pickup(s)
  \/ \E s \in BagToSet(ground) : Expire(s)
  \/ \E keep \in BOOLEAN : KillPlayer(keep)
  \/ Respawn
  \/ \E i \in Items, n \in 1..MaxGiven : Give(i, n)
  \/ \E is \in {{i} : i \in Items} \cup {Items} : Clear(is)
  \/ \E m \in Chosen : SetMode(m)
  \/ UseOnAnimal
  \/ \E i \in Items : Pick(i)
  \/ \E k \in Slots, s \in {Empty} \cup {t \in Stacks : t.wear = 0} : CreativeSlot(k, s)
  \/ \E all \in BOOLEAN : Drop(all)
  \/ Swap
  \/ Lower
  \/ \E d \in {Empty} \cup {Stack(i, 1) : i \in Mined} : Mine(d)
  \/ \E k \in Hotbar : SetCarried(k)
  \/ Place
  \/ \E h \in Hands : Raise(h)
  \/ \E h \in Hands : Eat(h)
  \/ \E h \in Hands, recovered \in BOOLEAN : Shoot(h, recovered)

Spec == Init /\ [][Next]_vars

---------------------------------------------------------------------------

\* Every variable keeps its type (the stacks of item.cpp are valid or normalized).
TypeOK ==
  /\ items \in [Slots -> Stacks \cup {Empty}] /\ active \in Hotbar
  /\ hand \in {"none"} \cup Hands /\ blocking \in BOOLEAN
  /\ mode \in Modes /\ dead \in BOOLEAN /\ BagToSet(ground) \subseteq Stacks
  /\ view \in [Slots -> (Items \cup {"air"}) \X (0..MaxItems)]
  /\ balance \in [Items -> 0..MaxItems]

\* Every slot is on the client as it is on the server, although each operation sends only
\* the slots it believes it changed: a tool that breaks, a drop that goes into several
\* slots and the arrow and the bow of a shot all show (sync_hotbar_slot and sync_offhand).
ItemsShown == \A k \in Slots : view[k] = Simple(items[k])

\* No order of drops, pickups, deaths, swaps, shots, picks, commands and mining copies an
\* item or loses one: the slots and the ground hold what came in less what was used up.
ItemsKept == \A i \in Items : Total(items, ground, i) = balance[i]
=============================================================================
