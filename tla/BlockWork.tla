----------------------------- MODULE BlockWork -----------------------------
(***************************************************************************)
(* Breaking and placing blocks in a play session, and what the world does  *)
(* by itself afterwards: falling columns, water, grass (server.cpp,        *)
(* handle_login; block.cpp; ticks.cpp; world.cpp).                         *)
(*                                                                         *)
(* The world is a slab one block thick between solid walls, <<x, y>> with  *)
(* y = 0 for min_build_y.  The player stands before it: what it can reach  *)
(* and see is a constant, no body is in the way of a placement, and grass  *)
(* may grow in the biome.  A kind of falling block, of soil and of stone   *)
(* stand for their likes; what a stack does when it is picked up or runs   *)
(* out is Hotbar's matter, so the player holds so many of each kind.  Time *)
(* passes in game ticks.                                                   *)
(***************************************************************************)
EXTENDS Integers, Sequences, FiniteSets, SequencesExt

CONSTANTS
    Width, Top,    \* columns 1..Width, rows 0..Top
    Reachable,     \* cells for which within_reach holds
    StoneByHand,   \* break_ticks of stone by hand: 45
    FluidDelay,    \* of a tick scheduled by water that fell: 5
    RandomTicks,   \* random ticks of a chunk every 20th tick: 3
    Terrain,       \* the slabs a session may begin with
    Stock,         \* what the player has to begin with
    MaxScheduled   \* bound: scheduled ticks when the player acts

VARIABLES
    blocks,     \* the blocks of the chunk
    view,       \* what the client has been sent of them
    scheduled,  \* BlockTickSystem::scheduled_, ticks from now, in their order
    mining,     \* pending_break: the cell and the ticks left, or NotMining
    carried,    \* how many of each block the player has
    held,       \* the item in the active slot
    mode        \* game_mode

vars == <<blocks, view, scheduled, mining, carried, held, mode>>

Cells == (1..Width) \X (0..Top)
Kinds == {"air", "bedrock", "stone", "dirt", "grass_block", "sand", "water",
          "short_grass"}
Items == {"dirt", "sand"}
NotMining == [cell |-> <<0, 0>>, left |-> 0]
Above(c) == <<c[1], c[2] + 1>>
Below(c) == <<c[1], c[2] - 1>>

\* The slab is of blocks, and times are positive.
BlockConstants ==
    /\ Width \in Nat /\ Top \in Nat
    /\ StoneByHand \in Nat \ {0} /\ FluidDelay \in Nat \ {0} /\ RandomTicks \in Nat
    /\ Terrain \subseteq [Cells -> Kinds]
    /\ Stock \in [Items -> Nat]

\* The walls and what lies below the world are solid.
At(b, c) == IF c \in Cells THEN b[c] ELSE "stone"

\* World::solid, for what the slab is made of.
Solid(b, c) == At(b, c) \notin {"air", "water", "short_grass"}

\* Chunk::height: the top of a column that is not air.
Surface(b, x) ==
    LET filled == {y \in 0..Top : b[<<x, y>>] # "air"} IN
    IF filled = {} THEN 0 ELSE CHOOSE y \in filled : \A z \in filled : z <= y

Replaceable == {"air", "water", "short_grass"}

\* Mutant: what is broken turns into itself, grass into grass.
MutDrops(kind, tool) == IF kind \in Items THEN {kind} ELSE {}

\* The drops of a block broken with the tool.
Drops(kind, tool) ==
    CASE kind = "sand" -> {"sand"}
      [] kind \in {"dirt", "grass_block"} -> {"dirt"}
      [] OTHER -> {}  \* stone: cobblestone, with the tool, which no one places

\* break_ticks: none for air and for what cannot be broken.
BreakTicks(kind, tool) ==
    CASE kind \in {"air", "bedrock"} -> 0
      [] kind = "stone" /\ tool # "wooden_pickaxe" -> StoneByHand
      [] kind = "water" -> StoneByHand
      [] OTHER -> 1

\* A session begins.  Its BlockTickSystem is its own and empty; the blocks are
\* as generated or as an earlier session left them, which may have ended while
\* sand was still to fall.
Init ==
    /\ blocks \in Terrain /\ view = blocks
    /\ scheduled = <<>>
    /\ mining = NotMining
    /\ carried = Stock
    /\ held = "dirt"
    /\ mode \in {"survival", "creative"}

-----------------------------------------------------------------------------
(* Scheduled and random ticks *)

\* notify_neighbors: the cell and the six around it, in the slab.
Notified(c) ==
    LET x == c[1]
        y == c[2]
        around == <<c, Above(c), Below(c), <<x + 1, y>>, <<x - 1, y>>>>
    IN [i \in 1..5 |-> [due |-> 1, cell |-> around[i]]]

\* settle_falling_column, from the cell upwards: each falling block goes to the
\* lowest free cell under it.
Settled(b, c) ==
    LET x == c[1]
        Fall(a, y) ==
            IF a[<<x, y>>] # "sand" \/ a[<<x, y - 1>>] # "air" THEN a
            ELSE LET to == CHOOSE z \in 0..(y - 1) :
                              /\ \A w \in z..(y - 1) : a[<<x, w>>] = "air"
                              /\ z > 0 => a[<<x, z - 1>>] # "air"
                 IN [a EXCEPT ![<<x, y>>] = "air", ![<<x, to>>] = "sand"]
        from == IF c[2] > 1 THEN c[2] ELSE 1
        rows == [i \in 1..(Top - from + 1) |-> from + i - 1]
    IN IF \E y \in from..Top : b[<<x, y>>] = "sand" /\ b[<<x, y - 1>>] = "air"
       THEN FoldLeft(Fall, b, rows) ELSE b

\* fluid_tick_at: the cell that water at c flows into, if any.  Down first,
\* otherwise to one side, the second side when the first is taken.
Flow(b, c, first) ==
    IF c[2] <= 0 \/ c[2] > Top \/ At(b, c) # "water" THEN {}
    ELSE IF At(b, Below(c)) = "air" THEN {Below(c)}
    ELSE LET side(d) == <<c[1] + d, c[2]>>
         IN IF At(b, side(first)) = "air" THEN {side(first)}
            ELSE IF At(b, side(-first)) = "air" THEN {side(-first)} ELSE {}

Flooded(b, cells) ==
    IF cells = {} THEN b ELSE [c \in Cells |-> IF c \in cells THEN "water" ELSE b[c]]

\* Water at c spreads; where it fell, a tick is scheduled.  w: the blocks and
\* what has been scheduled meanwhile.
Spread(w, c, first) ==
    LET wet == Flow(w.blocks, c, first) IN
    [blocks |-> Flooded(w.blocks, wet),
     later |-> IF Below(c) \in wet
               THEN Append(w.later, [due |-> FluidDelay, cell |-> Below(c)]) ELSE w.later]

\* The tick of a cell.
ScheduledTick(w, c, first) ==
    IF c[2] <= 0 \/ c[2] > Top \/ c \notin Cells THEN w
    ELSE Spread([w EXCEPT !.blocks = Settled(@, c)], c, first)

\* random_tick_at the surface of a column.  grow: the one time in 32 that grass
\* grows.  A column of 0 is one outside the slab.
RandomTick(w, x, first, grow) ==
    LET c == <<x, Surface(w.blocks, x)>> IN
    IF x = 0 \/ c[2] = Top THEN w
    ELSE LET above == w.blocks[Above(c)] IN
         CASE w.blocks[c] = "water" -> Spread(w, c, first)
           [] w.blocks[c] = "dirt" /\ above = "air" ->
                  [w EXCEPT !.blocks[c] = "grass_block"]
           [] w.blocks[c] = "grass_block" /\ Solid(w.blocks, Above(c)) ->
                  [w EXCEPT !.blocks[c] = "dirt"]
           [] w.blocks[c] = "grass_block" /\ above = "air" /\ grow ->
                  [w EXCEPT !.blocks[Above(c)] = "short_grass"]
           [] OTHER -> w

\* Mutant: of a column that fell, the client is sent where it landed.
MutSent(before, after) ==
    [c \in Cells |-> IF after[c] = "air" THEN view[c] ELSE after[c]]

\* The updates for the cells a tick returns as changed.
Sent(before, after) ==
    [c \in Cells |-> IF before[c] # after[c] THEN after[c] ELSE view[c]]

\* An entry of scheduled_, whose time has come or who waits on.
Entry(w, s, first) ==
    IF s.due = 1 THEN ScheduledTick(w, s.cell, first)
    ELSE [w EXCEPT !.later = Append(@, [s EXCEPT !.due = @ - 1])]

\* BlockTickSystem::tick and the updates of what it changed.
BlockTick ==
    /\ \E first \in {1, -1} :
          LET start == [blocks |-> blocks, later |-> <<>>]
              ran == FoldLeft(LAMBDA w, s : Entry(w, s, first), start, scheduled)
          IN \E columns \in [1..RandomTicks -> 0..Width], grow \in BOOLEAN :
                LET end == FoldLeft(LAMBDA w, x : RandomTick(w, x, first, grow), ran, columns)
                IN /\ blocks' = end.blocks
                   /\ scheduled' = end.later
                   /\ view' = Sent(blocks, end.blocks)
    /\ mining' = IF mining.left > 0 THEN [mining EXCEPT !.left = @ - 1] ELSE mining
    /\ UNCHANGED <<carried, held, mode>>

-----------------------------------------------------------------------------
(* The player *)

\* Mutant: what was above a broken block is not told.
MutChanged(c, kind, told) ==
    /\ blocks' = [blocks EXCEPT ![c] = kind]
    /\ view' = [view EXCEPT ![c] = kind]
    /\ scheduled' = scheduled

\* set_block, send_block_update and settle_and_send.
Changed(c, kind, told) ==
    /\ blocks' = [blocks EXCEPT ![c] = kind]
    /\ view' = [view EXCEPT ![c] = kind]
    /\ scheduled' = scheduled \o Notified(told)

Acts == Len(scheduled) <= MaxScheduled

\* start_destroy_block: at once in creative mode; otherwise the time to be
\* waited is settled now, for the block and the tool there are now.  A block
\* that takes no time leaves an earlier pending_break as it is.
StartBreak(c) ==
    /\ Acts /\ c \in Reachable
    /\ IF mode = "creative" /\ blocks[c] # "bedrock"
       THEN Changed(c, "air", Above(c)) /\ UNCHANGED mining
       ELSE /\ mining' = IF BreakTicks(blocks[c], held) > 0
                         THEN [cell |-> c, left |-> BreakTicks(blocks[c], held)]
                         ELSE mining
            /\ UNCHANGED <<blocks, view, scheduled>>
    /\ UNCHANGED <<carried, held, mode>>

\* stop_destroy_block.
StopBreak(c) ==
    /\ Acts /\ c \in Reachable
    /\ mining' = NotMining
    /\ IF mining.cell = c /\ mining.left = 0 /\ BreakTicks(blocks[c], held) > 0
       THEN /\ Changed(c, "air", Above(c))
            /\ carried' = [k \in Items |-> carried[k]
                             + IF k \in Drops(blocks[c], held) THEN 1 ELSE 0]
       ELSE UNCHANGED <<blocks, view, scheduled, carried>>
    /\ UNCHANGED <<held, mode>>

AbortBreak(c) ==
    /\ c \in Reachable
    /\ mining' = NotMining
    /\ UNCHANGED <<blocks, view, scheduled, carried, held, mode>>

\* The stack after a placement: creative mode puts it back.
Consumed == IF mode = "creative" THEN carried ELSE [carried EXCEPT ![held] = @ - 1]

\* use_item_on, c being the cell clicked, or the one at its face.
Place(c) ==
    /\ Acts /\ c \in Reachable
    /\ held \in Items /\ carried[held] > 0
    /\ blocks[c] \in Replaceable
    /\ Changed(c, held, c)
    /\ carried' = Consumed
    /\ UNCHANGED <<mining, held, mode>>

\* set_carried_item.
Hold(item) ==
    /\ held' = item
    /\ UNCHANGED <<blocks, view, scheduled, mining, carried, mode>>

Next ==
    \/ BlockTick
    \/ \E c \in Cells : StartBreak(c)
    \/ \E c \in Cells : StopBreak(c)
    \/ \E c \in Cells : AbortBreak(c)
    \/ \E c \in Cells : Place(c)
    \/ \E item \in Items \cup {"wooden_pickaxe"} : Hold(item)

Spec == Init /\ [][Next]_vars

-----------------------------------------------------------------------------
TypeOK ==
    /\ blocks \in [Cells -> Kinds] /\ view \in [Cells -> Kinds]
    /\ \A i \in DOMAIN scheduled : scheduled[i].due \in 1..FluidDelay
    /\ mining.left \in 0..StoneByHand
    /\ carried \in [Items -> Nat]
    /\ held \in Items \cup {"wooden_pickaxe"}
    /\ mode \in {"survival", "creative"}

\* The falling blocks with air under them.
Floats(b) == {c \in Cells : c[2] > 0 /\ b[c] = "sand" /\ b[Below(c)] = "air"}

\* A tick of the next game tick is scheduled at or below the cell in its column.
Expected(c) ==
    \E i \in DOMAIN scheduled :
        /\ scheduled[i].due = 1
        /\ scheduled[i].cell[1] = c[1]
        /\ scheduled[i].cell[2] \in 1..c[2]

Hanging == {c \in Floats(blocks) : ~Expected(c)}

\* No step of a session leaves a falling block hanging, with air under it and
\* nothing scheduled that will let it fall, unless it hung like that before:
\* what a break, a placement, a fall or a flow takes the ground from is
\* expected (notify_neighbors), and what is expected falls with all that is
\* above it (settle_falling_column).  What an earlier session left hanging
\* stays so until something at or below it in its column changes.
NothingLeftHanging ==
    [][blocks' # blocks \/ scheduled' # scheduled => Hanging' \subseteq Hanging]_vars

\* Whatever the player, a falling column, water or grass changes, the client
\* has been sent the block that is there (send_block_update after a break or a
\* placement, and for what BlockTickSystem::tick returns).
ViewExact == view = blocks

Amount(b, kinds) == Cardinality({c \in Cells : b[c] \in kinds})
Owned(b, items) ==
    [sand |-> Amount(b, {"sand"}) + items["sand"],
     soil |-> Amount(b, {"dirt", "grass_block"}) + items["dirt"]]

\* In survival mode no block of sand or soil is gained or lost, broken, placed,
\* fallen or overgrown (break_block's drops, place's take, settle_falling_column).
MaterialKept ==
    [][mode = "survival" => Owned(blocks, carried)' = Owned(blocks, carried)]_vars
=============================================================================
