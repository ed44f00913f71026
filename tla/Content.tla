------------------------------ MODULE Content -------------------------------
(***************************************************************************)
(* The containers, the recipes and the crafting of inventory.cpp, used by  *)
(* several players at a table: a player looks at a container, moves stacks *)
(* between it and the cursor, or hands in a transaction computed from what *)
(* was seen.  Stacks carry an item and a count here; wear and components   *)
(* keep stacks from merging in the same way as another item does.          *)
(***************************************************************************)
EXTENDS Integers, Sequences, FiniteSets, Functions

CONSTANTS
  Players,
  Limit,         \* item -> max_stack_size
  Worth,         \* item -> what crafting preserves of it
  Accepted,      \* container -> items its validator accepts, by slot: 1..slot_count
  Width, Height, \* of the crafting grid, the container "grid"
  Known,         \* recipes registered by the constructor
  Streams,       \* normalized recipe streams: sequences of records
  Start,         \* player -> stack on the cursor at first
  MaxState       \* bound on state_id

VARIABLES
  box,       \* container -> its slots and its state_id
  cursor,    \* player -> stack
  seen,      \* player -> the container it looked at last, and what it saw
  recipes,   \* CraftingManager::recipes_
  stream,    \* records that are still to be read
  report     \* RecipeLoadReport, and whether the stream was abandoned

vars == <<box, cursor, seen, recipes, stream, report>>

Items == DOMAIN Limit
Boxes == DOMAIN Accepted
Slots(c) == DOMAIN Accepted[c]
Empty == [item |-> "air", count |-> 0]
Stack(i, n) == IF n = 0 THEN Empty ELSE [item |-> i, count |-> n]
Valid(s) == s = Empty \/ (s.item \in Items /\ s.count \in 1..Limit[s.item])
Fits(c, k, s) == s = Empty \/ s.item \in Accepted[c][k]

---------------------------------------------------------------------------
(* Container.                                                              *)

\* A container with the slots sl, its state_id moved if anything changed.
With(b, sl) == [slots |-> sl, id |-> IF sl = b.slots THEN b.id ELSE b.id + 1]

\* set_slot, which counts as a change even if the stack is the same
SetSlot(b, k, s) == [slots |-> [b.slots EXCEPT ![k] = s], id |-> b.id + 1]

\* The slot k takes what it can of the stack in hand.
Fill(c, acc, k, merging) ==
  LET s == acc.slots[k]
      room == IF acc.rest = Empty \/ ~Fits(c, k, acc.rest) THEN 0
              ELSE IF merging THEN (IF s.item = acc.rest.item THEN Limit[s.item] - s.count ELSE 0)
              ELSE (IF s = Empty THEN Limit[acc.rest.item] ELSE 0)
      n == IF room < acc.rest.count THEN room ELSE acc.rest.count
  IN  [slots |-> IF n = 0 THEN acc.slots
                 ELSE [acc.slots EXCEPT ![k] = Stack(acc.rest.item, s.count + n)],
       rest |-> Stack(acc.rest.item, acc.rest.count - n)]

\* insert: first into the stacks that merge, then into the empty slots
Insert(c, b, s) ==
  LET n == Cardinality(Slots(c))
      pass[k \in 0..2 * n] ==
        IF k = 0 THEN [slots |-> b.slots, rest |-> s]
        ELSE IF k <= n THEN Fill(c, pass[k - 1], k, TRUE)
        ELSE Fill(c, pass[k - 1], k - n, FALSE)
  IN  [box |-> With(b, pass[2 * n].slots), rest |-> pass[2 * n].rest]

Take(b, k, n) ==
  LET s == b.slots[k]
      m == IF n < s.count THEN n ELSE s.count
  IN  [box |-> With(b, [b.slots EXCEPT ![k] = Stack(s.item, s.count - m)]),
       taken |-> Stack(s.item, m)]

\* apply_transaction: all of the changes, a function of some slots, or none
Accepts(c, b, id, changes) ==
  /\ id = b.id
  /\ \A k \in DOMAIN changes : k \in Slots(c) /\ Valid(changes[k]) /\ Fits(c, k, changes[k])

Transacted(b, changes) ==
  With(b, [k \in DOMAIN b.slots |-> IF k \in DOMAIN changes THEN changes[k] ELSE b.slots[k]])

---------------------------------------------------------------------------
(* Recipe and CraftingManager.  A recipe's cells are sets of items; the     *)
(* empty set is a cell that must be empty.                                 *)

Matches(cell, s) == IF cell = {} THEN s = Empty ELSE s.item \in cell

\* Where a shaped recipe may lie in the grid, if it is not too large, and whether it is
\* mirrored.
Placements(r) ==
  {p \in (0..Width - r.width) \X (0..Height - r.height) \X BOOLEAN : TRUE}

\* The cell of the recipe that lies over the slot k of the grid.
CellAt(r, p, k) ==
  LET x == ((k - 1) % Width) - p[1]
      y == ((k - 1) \div Width) - p[2]
  IN  IF x \in 0..r.width - 1 /\ y \in 0..r.height - 1
      THEN r.cells[y * r.width + (IF p[3] THEN r.width - 1 - x ELSE x) + 1]
      ELSE {}

Filled(sl) == {k \in DOMAIN sl : sl[k] # Empty}

\* Where a shaped recipe lies so that each of its cells, and the empty ones around it, match.
Fitting(r, sl) ==
  {p \in Placements(r) : \A k \in DOMAIN sl : Matches(CellAt(r, p, k), sl[k])}

\* A shapeless recipe has a cell of its own for each slot that is filled.
Assignable(r, sl) ==
  /\ Cardinality(Filled(sl)) = Cardinality(DOMAIN r.cells)
  /\ \E f \in [Filled(sl) -> DOMAIN r.cells] :
        /\ \A j, k \in Filled(sl) : f[j] = f[k] => j = k
        /\ \A k \in Filled(sl) : Matches(r.cells[f[k]], sl[k])

\* match: whether the recipe is that of the grid.  A shaped recipe of empty cells only is one
\* that the code accepts, and an empty grid matches it.
Matched(r, sl) == IF r.kind = "shapeless" THEN Assignable(r, sl) ELSE Fitting(r, sl) # {}

\* The slots that one craft takes from, the consumption of match: none of an empty grid.
Use(r, sl) ==
  IF r.kind = "shapeless" THEN Filled(sl)
  ELSE UNION {{k \in DOMAIN sl : CellAt(r, p, k) # {}} : p \in Fitting(r, sl)}

\* The first recipe that matches, zero if none does.
Matching(sl) ==
  LET all == {n \in DOMAIN recipes : Matched(recipes[n], sl)}
  IN  IF all = {} THEN 0 ELSE CHOOSE n \in all : \A m \in all : n <= m

\* Recipe::shaped and Recipe::shapeless
WellShaped(r) ==
  IF r.kind = "shaped"
  THEN r.width \in 1..3 /\ r.height \in 1..3 /\ Len(r.cells) = r.width * r.height
  ELSE Len(r.cells) \in 1..9 /\ \A k \in DOMAIN r.cells : r.cells[k] # {}

\* load_normalized skips a record whose recipe is known, whose result is not an item or too
\* many, whose cells name no known item, or whose cells do not fill the shape.
Understood(r) == [r EXCEPT !.cells = [k \in DOMAIN r.cells |-> r.cells[k] \cap Items]]
Skipped(r) ==
  \/ \E n \in DOMAIN recipes : recipes[n].id = r.id
  \/ ~Valid(r.result) \/ r.result = Empty
  \/ \E k \in DOMAIN r.cells : /\ r.cells[k] \cap Items = {}
                               /\ r.cells[k] # {} \/ r.kind = "shapeless"
  \/ r.kind = "shaped" /\ Len(r.cells) # r.width * r.height

---------------------------------------------------------------------------
(* What the model asks of its constants.                                   *)

Stacks == {Empty} \cup UNION {[item : {i}, count : 1..Limit[i]] : i \in Items}
WorthOf(s) == IF s = Empty THEN 0 ELSE Worth[s.item] * s.count
WorthIn(sl) == SumFunction([k \in DOMAIN sl |-> WorthOf(sl[k])])

\* A recipe that can be made, of known items.
Makeable(r) ==
  r.kind \in {"shaped", "shapeless"} /\ WellShaped(r) /\ r.cells \in Seq(SUBSET Items)

\* Of any grid it matches, the recipe takes as much as its result is worth: nothing, if it
\* matches an empty grid, as it then makes something of nothing.
KeepsWorth(r) ==
  \A sl \in [Slots("grid") -> Stacks] : Matched(r, sl) =>
     /\ Valid(r.result)
     /\ SumFunction([k \in Use(r, sl) |-> Worth[sl[k].item]]) = WorthOf(r.result)

\* A normalized record, well shaped or not.
Record(r) ==
  /\ DOMAIN r = {"id", "kind", "width", "height", "cells", "result"}
  /\ r.kind \in {"shaped", "shapeless"} /\ r.cells \in Seq({r.cells[k] : k \in DOMAIN r.cells})

\* A grid and an output among containers of so many slots, valid stacks to begin with, and
\* recipes in their order; those that are known, or can be loaded, keep the worth.
ContentConstants ==
  /\ "air" \notin Items /\ Limit \in [Items -> Nat \ {0}] /\ Worth \in [Items -> Nat]
  /\ IsFiniteSet(Players) /\ Start \in [Players -> Stacks]
  /\ Width \in Nat \ {0} /\ Height \in Nat \ {0}
  /\ IsFiniteSet(Boxes) /\ {"grid", "output"} \subseteq Boxes
  /\ \A c \in Boxes : Accepted[c] \in Seq(SUBSET Items)
  /\ Known \in Seq({Known[n] : n \in DOMAIN Known})
  /\ \A n \in DOMAIN Known : Makeable(Known[n]) /\ KeepsWorth(Known[n])
  /\ \A q \in Streams :
        /\ q \in Seq({q[n] : n \in DOMAIN q})
        /\ \A n \in DOMAIN q :
              /\ Record(q[n])
              /\ Valid(q[n].result) /\ q[n].result # Empty /\ WellShaped(q[n])
                   => KeepsWorth(Understood(q[n]))

---------------------------------------------------------------------------

Init ==
  /\ box = [c \in Boxes |-> [slots |-> [k \in Slots(c) |-> Empty], id |-> 0]]
  /\ cursor = Start
  /\ seen = [p \in Players |-> [of |-> "grid", box |-> box["grid"]]]
  /\ recipes = Known /\ stream \in Streams
  /\ report = [encountered |-> 0, loaded |-> 0, skipped |-> 0, abandoned |-> FALSE]

\* Players act when the recipes are loaded, on a container whose state_id the model counts.
Counted(c) == stream = <<>> /\ ~report.abandoned /\ box[c].id < MaxState
Put(c, b) == box' = [box EXCEPT ![c] = b]
Hold(p, s) == cursor' = [cursor EXCEPT ![p] = s]

Look(p, c) ==
  /\ stream = <<>> /\ seen' = [seen EXCEPT ![p] = [of |-> c, box |-> box[c]]]
  /\ UNCHANGED <<box, cursor, recipes, stream, report>>

\* The cursor's stack and a slot change places (set_slot, set_cursor).
Exchange(p, c, k) ==
  /\ Counted(c) /\ Valid(cursor[p]) /\ Fits(c, k, cursor[p])
  /\ Put(c, SetSlot(box[c], k, cursor[p])) /\ Hold(p, box[c].slots[k])
  /\ UNCHANGED <<seen, recipes, stream, report>>

InsertCursor(p, c) ==
  LET got == Insert(c, box[c], cursor[p])
  IN  /\ Counted(c) /\ cursor[p] # Empty
      /\ Put(c, got.box) /\ Hold(p, got.rest)
      /\ UNCHANGED <<seen, recipes, stream, report>>

TakeToCursor(p, c, k, n) ==
  LET got == Take(box[c], k, n)
  IN  /\ Counted(c) /\ cursor[p] = Empty
      /\ Put(c, got.box) /\ Hold(p, got.taken)
      /\ UNCHANGED <<seen, recipes, stream, report>>

\* A player asks to exchange two slots as they were seen; the answer may be no.
Transact(p, j, k) ==
  LET c == seen[p].of
      was == seen[p].box
      changes == [i \in {j, k} |-> was.slots[IF i = j THEN k ELSE j]]
  IN  /\ Counted(c) /\ j \in Slots(c) /\ k \in Slots(c)
      /\ Accepts(c, box[c], was.id, changes)
      /\ Put(c, Transacted(box[c], changes))
      /\ UNCHANGED <<cursor, seen, recipes, stream, report>>

\* craft_once: the grid pays and the whole result goes to the output, or nothing happens.
CraftOnce ==
  LET n == Matching(box["grid"].slots)
      used == Use(recipes[n], box["grid"].slots)
      paid == [k \in Slots("grid") |-> IF k \in used THEN Take(box["grid"], k, 1).box.slots[k]
                                       ELSE box["grid"].slots[k]]
      got == Insert("output", box["output"], recipes[n].result)
  IN  /\ Counted("grid") /\ Counted("output") /\ n # 0
      /\ got.rest = Empty
      /\ box' = [box EXCEPT !["grid"] = [slots |-> paid, id |-> @.id + Cardinality(used)],
                            !["output"] = got.box]
      /\ UNCHANGED <<cursor, seen, recipes, stream, report>>

\* load_normalized reads a record: it is loaded, skipped, or ends the stream because the
\* recipe cannot be made.
Load ==
  LET r == Head(stream)
  IN  /\ stream # <<>> /\ ~report.abandoned /\ stream' = Tail(stream)
      /\ IF Skipped(r)
         THEN /\ report' = [report EXCEPT !.encountered = @ + 1, !.skipped = @ + 1]
              /\ UNCHANGED recipes
         ELSE IF WellShaped(r)
         THEN /\ report' = [report EXCEPT !.encountered = @ + 1, !.loaded = @ + 1]
              /\ recipes' = Append(recipes, Understood(r))
         ELSE /\ report' = [report EXCEPT !.encountered = @ + 1, !.abandoned = TRUE]
              /\ UNCHANGED recipes
      /\ UNCHANGED <<box, cursor, seen>>

Next ==
  \/ \E p \in Players, c \in Boxes : Look(p, c)
  \/ \E p \in Players, c \in Boxes : \E k \in Slots(c) : Exchange(p, c, k)
  \/ \E p \in Players, c \in Boxes : InsertCursor(p, c)
  \/ \E p \in Players, c \in Boxes : \E k \in Slots(c), n \in 1..2 : TakeToCursor(p, c, k, n)
  \/ \E p \in Players : \E j, k \in Slots(seen[p].of) : Transact(p, j, k)
  \/ CraftOnce
  \/ Load

Spec == Init /\ [][Next]_vars

---------------------------------------------------------------------------

\* Every variable keeps its type; every slot holds what the code's validate accepts.
TypeOK ==
  /\ \A c \in Boxes : /\ DOMAIN box[c].slots = Slots(c) /\ box[c].id \in Nat
                      /\ \A k \in Slots(c) : Valid(box[c].slots[k])
  /\ \A p \in Players : Valid(cursor[p])
  /\ \A p \in Players : seen[p].of \in Boxes

\* What a container holds is told by its state_id: a player whose state_id is accepted has
\* seen exactly the slots that the transaction replaces, whoever inserted, took, crafted or
\* exchanged since (apply_transaction compares nothing but the number).
SeenIsCurrent ==
  \A p \in Players : LET c == seen[p].of
                     IN  seen[p].box.id = box[c].id => seen[p].box.slots = box[c].slots

Wealth(b, h) ==
  SumFunction([c \in Boxes |-> WorthIn(b[c].slots)]) + SumFunction([p \in Players |-> WorthOf(h[p])])

\* Whatever measure of the items every single recipe keeps, their use keeps: no order of
\* inserts, takes, transactions and crafts of several players, with a full output or a slot
\* that accepts only some items, changes the worth of it all.  Crafting itself does not see
\* to it that a recipe costs anything: what one of empty cells only makes is worth nothing
\* under every such measure, and everything else is neither made of nothing nor lost.
WealthKept == Wealth(box, cursor) = SumFunction([p \in Players |-> WorthOf(Start[p])])
=============================================================================
