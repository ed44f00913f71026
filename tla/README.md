# Formal verification of mcsquared

TLA+ models of the C++20 Minecraft server in this repository, the TLC runs that
check them on small instances, and TLAPS proofs of the facts that matter most
for every size.  Every definition is a translation of code; `PROJECT.json`
("map") names the lines each one stands for.  Paths below are relative to the
repository; `server.cpp` is `src/server/server.cpp`, `storage.cpp` and
`world.cpp` are in `src/world/`.

    tlc -workers 2 -config MCAdmission.cfg MCAdmission.tla     # one run
    tlapm AdmissionProofs.tla                                  # one proof module

## 1. The system

One process serves one world to players that do not see one another.  A
listening thread (`Server::Impl::run`) accepts connections into a bounded queue;
worker threads take one connection each and run it to its end: status or login,
configuration, then the Play loop.  **Each Play session has its own** `World`,
`ChunkManager`, `LevelStorage`, `EntityManager`, tracker and output queue.
Sessions share only the admission state (mutex-protected), the set of profile
names in use, `stopping_`, and the files under `--world`.

| Component | State | Operations | Interacts with | Hard about it | Correct when |
|---|---|---|---|---|---|
| Connection admission (server.cpp 632-768, 806-837) | `pending_`, counters, attempts per host, `active_profiles_`, `stopping_` | accept, enqueue, take, release, lease a name, stop | workers, peers, sockets | threads, a condition variable, a stop flag outside the mutex, exits by exception | counters are exact, one owner per connection, one session per name, no lost wake-up, stop ends |
| Output queue, reader, poll loop (240-498, 2208-2244) | buffers, offset, byte count | enqueue, flush, partial `sendmsg`, wait, read | kernel buffer, peer | partial results, limits, the poll result judged after the queue changed | bytes in order and once, bounded, delivered before return |
| Play protocol (1456-2302, 2850-3102) | teleport id and deadline, keep-alive, centre, streamed chunks | teleport, acknowledge, move, keep-alive, respawn, stream | client over two streams | messages in flight both ways, three timers | server and client agree, an honest client is never disconnected |
| Region files (storage.cpp 125-420) | location table, sectors | open, read, write a record | World, the disk, other sessions | no journal, crash between writes, growing and shrinking | records disjoint, only a record's own rewrite may damage it |
| Chunk cache, World (world.cpp 60-440, storage.cpp 455-506) | LRU cache, dirty flags, held handles, `level.mcd` | load, edit, evict, unload, save, autosave, teardown | RegionFile, session | failing saves, crash, eviction of held or dirty chunks | no edit lost while up; a reopened world is not older than the last complete save |
| Entities and the tracker (entity/entity.cpp, tracking.cpp, server.cpp 1862-2186) | entities, death events, passengers; tracked ids | spawn, remove, mount, tick, update, forget | every packet handler, client | many ways to disappear, each with its own clean-up | tables agree with the manager; the client has what the tracker says |
| Dropped items, projectiles, spawner, animals (entity/*.cpp) | stacks, timers, arrows | spawn, merge, pick up, expire, hit, despawn, breed | EntityManager, hotbar | transfers between several owners in one tick | items conserved |
| Mob AI (entity/ai.cpp 62-420, server.cpp 1760-1800) | goals running, controls held, memories | tick, attach, tempt, suspend, damage | EntityManager, World | priorities, exclusive controls, pre-emption, suspension in the middle | controls exclusive; no startable goal is starved by a lower one; nothing is left behind by a stopped goal |
| Survival (player/player.cpp) | health, food, effects, shield | tick, damage, eat, effects, respawn | session, client | clamps, timers that expire in their own code, reports that are sent only when something is dirty | bounds, absorption only with its effect, the client shows what the server has |
| Items and the hotbar (item/, server.cpp) | slots, off hand, stacks on the ground | give, pick, drop, swap, mine, place, eat, shoot, die | client, EntityManager | every handler sends only the slots it believes it changed | items conserved, slots shown |
| Containers, recipes, crafting (inventory/) | slots, `state_id`, cursor, recipes | insert, take, transact, craft, load | tests (the server uses stacks only) | stale transactions, full outputs, skipped records | what every recipe keeps is neither made nor lost, a `state_id` names one content |
| Blocks and block ticks (server.cpp, block.cpp, world/ticks.cpp) | blocks, scheduled ticks, `pending_break` | break, place, tick, settle, flow | chunks, client | ticks that schedule ticks, cells changed twice in one tick | no step leaves a block hanging that nothing will let fall, the client is sent every change, material kept |
| World clock, weather, border, rules (world.cpp, storage.cpp 455-506) | scalars, `level.mcd` and its temporary | tick, commands, save, open | session, other sessions | fades and interpolation; a temporary name shared by sessions; crashes | the client knows them; what was saved last is resumed |
| Login and configuration (server.cpp 770-1325, session_auth.cpp) | stage, framing, counters | handshake, status, hello, encrypt, authenticate, packs, registries | client, session server | optional steps, packet limits, switches of the framing | a session plays only after every gate, an honest client passes, every login ends |
| Codecs, NBT, crypto (protocol/) | none | encode, decode | everything | layout | round trips |
| Light, generation (world/chunk.cpp, generation.cpp) | none of their own | compute | chunks | - | pure functions |
| Configuration, start-up (main.cpp) | none | parse | Server | - | - |

The hazards of this code, each at the line where it bites and with the
properties that would catch it, are the "hazards" of `PROJECT.json`.

## 2. Modules

    AdmissionContract <--implements-- Admission  <-- MCAdmission, AdmissionProofs
    ChunkStore        <--implements-- RegionFile <-- MCRegionFile
    WorldContract     <--implements-- WorldStore <-- MCWorldStore, WorldStoreProofs
                                      (its disk steps are ChunkStore's promise)
    EntityView <-- MCEntityView, EntityViewProofs
    OutputQueue <-- OutputQueueProofs PlaySession <-- MCPlaySession

    Storage = RegionFile + WorldState            <-- MCStorage, StorageProofs
    Session = LoginSequence + PlaySession + BlockWork + MobAi + Survival
              + Hotbar + Content                 <-- MCSession, LoginProofs, SurroundingsProofs;
                                                 PlayerProofs rests on the last two
    MCConnection = OutputQueue + LoginSequence + Admission        (with fairness)

The last three put parts side by side that share no state.  Storage and Session
INSTANCE them for any constants and name their properties, so that the same
statements are checked by TLC (MCStorage, MCSession) and proved (StorageProofs,
LoginProofs, SurroundingsProofs, PlayerProofs).  In the runs an initial state chooses the part that
moves and the others keep an initial state, so the states are the sum of the
parts' and not their product.  Nothing is lost by it, because none of these
modules has a variable of another; where components do share state (EntityView
with the hotbar and the tracker, WorldStore with its disk) one module has both.

**Admission.** One action for each stretch of code between two points where
another thread can interfere, i.e. a critical section under `queue_mutex_`, or a
step outside it.  `pc[w]` is the worker's control point; `lock` is the worker
that has evaluated the wait predicate and still holds the mutex, so that
`FindNoWork; Park` and `RequestStop; NotifyAll` interleave as the code lets
them.  `byHost`, `active` and `attempts` are the maps of the source, with ages
for time points.  `HandleConnection` is `Greet`, `Hello`, `EndSession`: what a
login does in between cannot touch the shared state.  `allowed` keeps every
connection that was queued with `rate_limited` clear, also after its end, so that
the rate limit is judged by all the logins of a second, the quick reconnects
included.  **AdmissionContract** is
what the server owes a peer: which connections are live, how many are allowed,
who holds a name.

**LoginSequence.** The stretch that Admission makes one step.  The worker's
position is the read it waits in (`at`); every read is one action with all that
is written before the next read.  A frame carries the framing its writer used,
so a switch of cipher or compression one packet early or late is a frame the
reader cannot read.  The client is external: one that follows the protocol
(`honest`, with choices of its own, e.g. no core pack, the resource pack
declined), one that sends any packet that decodes, and one that leaves.  The
session server may answer anything the code distinguishes.

**RegionFile.** A write is the code's sequence: read the location, choose the
place (in place if the record still fits, else the end of the file), write the
sectors one at a time, write the location.  `WriteFails` and `Crash` may come
between any two.  `Writers` is the set of RegionFile objects open on one path.
**ChunkStore** is a slot's promise: the old payload, the new one, or detectably
damaged.

**WorldStore.** The cache with its recency list, dirty flags and held handles,
the files (chunks, `level.mcd`, its temporary), a failing save at every save,
the two retries of teardown (`~World`, `~ChunkManager`), a crash at any write,
reopening.  **WorldContract** is what the session and the next session may see.

**WorldState.** What WorldStore treats as one value: clocks, weather with its
fades, the border and its interpolation, rules and difficulty, each command that
sets them and each packet that tells the client, and `level.mcd` for two
sessions.  Opening, writing and renaming the temporary file are three steps, and
a descriptor follows its file through a rename as POSIX has it.

**OutputQueue.** A byte is its position in the stream, so order, loss and
repetition can be told.  The thread is at one control point: handler, flush,
waiting, reading, polling.

**PlaySession.** Server, client and the two FIFO streams between them.  The
client answers at once and in order; time passes when nothing is in flight.

**BlockWork.** A slab of cells with what the player breaks and places, with
`pending_break`, and `BlockTickSystem::tick` as one step: the scheduled ticks in
their order, then the random ones, then the updates sent for what it returned.
The schedule begins empty, because each session has its own and none is saved; the
blocks may be as an earlier session left them, with sand hanging that nobody knows
of.

**MobAi.** A step is one goal considered, so what holds at every step holds in
the middle of a tick.  What a goal asks about positions is a set of `facts`
chosen afresh each tick; what it remembers is `memory`, and it is the memory that
goals disturb for each other.

**Survival.** `SurvivalState`'s member functions as operators on a record, the
session's handlers as actions, and `shown`, `shownEffects` for the client.
Timers may fire at any tick, which includes every tick at which they do.

**Hotbar.** Slots, off hand, the ground as a bag of stacks, and the slots as the
client was sent them.  `balance` counts what came in less what was used up.

**Content.** Containers with their `state_id`, cursors, the recipes as
`load_normalized` leaves them, matching and `craft_once`.  Whether a recipe is
matched and what it takes are two questions, as in the code: one whose cells are all
empty matches an empty grid and takes nothing.  The library is used by
the tests and by no handler, so players at a table are its environment.

**EntityView.** The session's entities beside all the tables that must agree
with them, and the set of entities the client has been sent.  Packets are one
action each; a tick is SurvivalKills and MobsKill, then the chain Simulate,
arrows, merges, Collect, PickUp, Die, Track, TakeOrb, then EndTick or
NaturalSpawn and DespawnDistant, in the order of the code.

## 3. Runs

| Run | Instance | Shows |
|---|---|---|
| admission_safety | 4 connections, 2 addresses, 2 names, 2 workers, limits 2 pending / 3 active / 2 per address / 1 attempt, window 2; 222 thousand states | OneOwner, QuotaExact, SocketsExact, LeaseExact, RateWindow, WakeupsCoverQueue, ContractSpec |
| admission_stop | 3 connections, 1 name, fair | **violated**: StopEndsWorkers |
| connection | frames of 1 and 2 bytes, queue limit 3, kernel buffer 2; a login with the strictest policy and limits of 2 packets; 3 connections and 2 workers; fair; 115 thousand states | QueueExact, ReturnDelivers, InputWaitsForOutput; QueueDrains, LoginEnds, AdmittedIsTaken (liveness) |
| output_poll | smaller, safety | **violated**: ClosedByPeer |
| storage | 1 object, 2 slots, payloads of 1, 2 and 3 sectors, counts to 2, offsets to 5; two sessions on `level.mcd`, 2 ticks, 1 command, 2 saves; 1.3 million states | SectorsDisjoint, OnlyRewritesDamage, StoreSpec; WorldShown, CrashSafe, Resumes |
| region_sharing | 2 objects | **violated**: PersistedStays |
| level_sharing | two sessions at once | **violated**: LevelReadable |
| world_store | 3 chunks, cache of 1, 2 changes; 896 thousand states | CacheSound, HandlesStayLoaded, OrderlyTeardownSaves, ContractSpec |
| entity_view | 2 places, 4 entities, 3 items, stacks of 2, one ghost; 4.8 million states | TablesAgree, RiderExact, ItemsConserved, GhostsOnlyFromAccept |
| entity_ghost | 2 entities, no items | **violated**: ClientSeesTracked |
| session | see below; 1.05 million states | FramesReadable, HonestNotRefused, PlayOnlyThroughGates, RegistriesComplete (login); HonestNotRefused, PlacesAgree (play); NothingLeftHanging, MaterialKept (blocks); Exclusive, NoInversion, CleanStops (mobs); SurvivalSound; NothingLost (hotbar, containers); ClientSees (blocks, survival, hotbar, containers) |
| play_acknowledge | 3 places, 3 teleports, 2 keep-alives, 4 messages | **violated**: HonestClientStays |

HonestNotRefused, PlacesAgree, NothingLost and ClientSees of `session` are each
the conjunction of the named invariants of the parts (for instance ClientSees is
BlockWork's ViewExact, Survival's ClientMirrors, Hotbar's ItemsShown and
Content's SeenIsCurrent), one sentence about the session each.

The instance of `session`.  Login: every pair of policies for encryption, query and resource pack
with one of the third, limits of 3, 3 and 4 packets.  Play: 3 places, 3 teleports, 2
keep-alives, 3 messages.  Blocks: two columns of four cells, in survival mode with
sand over stone, water and dirt, in creative mode with sand that hangs from the
start.  Mobs: a creature and a monster with every set of facts their goals ask for.
Survival: 2 points of health and food, absorption, two modes, two difficulties.
Hotbar: two slots and the off hand, four items, at most three of a kind.
Containers: two players at a grid of two cells, an output that takes no logs, and
recipe streams with good, skipped and impossible records and one of empty cells.

**Why the bounds are enough.**  Each limit of the code is reached with room to
spare on both sides: with two connections per address and three of one address
the per-address limit refuses what the others admit, and with four connections
the global one does.  Two workers are the least at which a notification can go
to the wrong one.  In a region, a record can shrink from two sectors to one and
grow back, be blocked by its neighbour, be appended, and meet the offset and
count limits.  A cache of one with a held chunk is always over its limit, which
is where eviction is delicate.  A queue of three bytes with two-byte frames has
whole, partial and refused frames.  Two windows of places that overlap in part
are the least at which streaming loads, keeps and unloads.  Two of three items
fill a slot, so a pick-up leaves a rest.  Entities are a rider's mount, one it
changes to, and two things on the ground.  The packet limits of a login are
above what an honest client sends and within what a misbehaving one sends.  A
column of four has room for a block to fall two cells and to have another above
it; two columns let water flow aside.  Two ticks of a fade, of an interpolation
and of a goal have a first, a middle and an end.  Two saves are what a stale
save needs; two players and four state ids what a stale transaction needs.

**Deadlock** is checked in the admission, region_sharing and world_store runs.
It is off in `connection` and `output_poll` (a session returns, a login is
closed), in `session`, `play_acknowledge` and `level_sharing` (a disconnected
session, or one at a bound, stops), in `storage` (no session starts on a torn
`level.mcd`), and in the entity runs (a tick that would
need an id beyond `MaxEntities` stops there).

**Fairness.**  Admission: the listener's loop, and each worker's steps, are
weakly fair because threads are scheduled and no step of theirs waits for a peer
except the ends of sessions.  `EndSession` is fair only once `stopping_` is set:
a healthy session may last for ever, and every loop in it tests the flag.
Taking the mutex (`TakeWork`, `FindNoWork`, `Release`) is strongly fair: the
mutex is free again and again and every contender gets it eventually.  Peers,
`request_stop` and spurious wake-ups have no fairness.  OutputQueue: the session
thread runs and a deadline expires (`Session`, `Expire`); the peer need never
read.  LoginSequence: the worker runs and a read ends with a packet or with its
timeout (`ServerStep`); the client need never send.  `connection` states these
same fairness conditions, each on its part.  The other modules are checked for
safety only.

**Types.**  Every module states TypeOK.  Those of Admission, RegionFile, WorldState,
WorldStore, OutputQueue, EntityView and MobAi are proved; those of Survival, LoginSequence
and PlaySession are proved, without the bounds of the instances, as part of an invariant
(LoginTypes, PlayTypes).  The others hold on the instances above and are not listed as
properties of their own.

## 4. What the violated runs show

Each of the six is a disagreement between the code and what it, or a document
of the repository, says; the quotations are in "findings".

1. *admission_stop*: `request_stop` (server.cpp:669) sets the flag and notifies
   without `queue_mutex_`.  A worker between its test of the predicate and its
   sleep misses it, and the destructor's join waits for ever.
2. *region_sharing*: two sessions with the same `--world` append to a region at
   the same offset, each under its own mutex, and a persisted chunk is lost.
3. *output_poll*: after poll the loop flushes, and then takes an empty event
   mask for a closed peer because the queue is empty *now* (server.cpp:2229).
4. *play_acknowledge*: acknowledging a teleport after the server has issued
   another ends the session, although the client did what it should.
5. *entity_ghost*: acknowledging a teleport forgets out-of-range entities
   without removing them at the client (server.cpp:2864); GhostsOnlyFromAccept
   says that this is the only way a ghost comes about.
6. *level_sharing*: two sessions save through one `level.mcd.tmp`; one truncates
   it (storage.cpp:494) when the other has written it and is about to rename it,
   and `level.mcd` becomes a file that `load_metadata` refuses.  CrashSafe says
   that without a second session no crash does that.

Also visible, without a property of its own: a chunk whose save fails takes with
it the chunks after it and `level.mcd`, at teardown too, since `save_dirty`
stops at the first exception and both retries take the same order (WorldStore);
`pending_break` outlives a change of tool and of the block, so a later stop breaks
at once (BlockWork); a session that ends while sand is still to fall leaves it
hanging in the saved world, where no later schedule knows of it (BlockWork); a
blocked hit wears whatever the hand holds now (Hotbar); a shaped recipe of empty
cells is accepted and makes its result of an empty grid (Content; the recipes
shipped have none); of two sessions at once, the last to save wins (WorldState).

## 5. Proofs

A theorem holds for every value of the constants that satisfies the named ASSUMEs of
its module: finite sets of connections, workers and chunks, limits that are positive
(the constructor refuses zero), stacks and slots of any size, sentinels outside the
sets.  TLC evaluates each ASSUME on the instances of section 3, and checks there every
property that is proved.

`AdmissionProofs` (any connections, addresses, names, workers, limits):

- `TypeCorrect`: `Spec => []TypeOK`.
- `ControlPointsCorrect`: which control point holds which connection, lease and
  lock.  Every later proof needs it: quotas and leases are released by code that
  runs at a control point, and only this says what it releases.
- `OneOwnerCorrect`: OneOwner with Unopened (a connection not yet opened is
  nowhere).  OneOwner alone is not inductive, since an arrival must be new.
- `QuotaCorrect`: from OneOwner, the set of live connections grows by one at
  Enqueue and shrinks by one at Release; cardinalities follow.
- `SocketsCorrect`: the descriptors follow the owners; that a stop strands at most
  one connection needs that the listener, once it has seen `stopping_`, accepts at
  most the one it is at, and that a worker leaves only when the queue is empty.
- `WakeupsCorrect`: a worker between its test and its sleep holds the mutex, so the
  queue is still as it saw it; each push wakes one sleeper or finds none, and a
  woken worker leaves with one connection at most.
- `LeaseCorrect`, `AttemptsKeptCorrect` (an attempt within the window stays in
  its host's record, whether or not its connection lives), `RateCorrect`: of a
  host's logins of any second, ended ones included, each is in the record, and
  `Enqueue` allows none beyond the limit; what is allowed later only grows older.
- `ImplementsContract`: `Spec => ContractSpec`, each step mapped to a step of
  AdmissionContract or to a stutter.

`StorageProofs` on RegionFile, from `SingleWriter` (at most one RegionFile object), the
very assumption that *region_sharing* shows to be needed:

- `RegionTypeCorrect` and `DisjointCorrect`, by `IInv == TypeOK /\ SectorsDisjoint
  /\ TargetSafe`; TargetSafe says that what a write in progress has chosen overlaps
  no other slot's record and lies within what the table can express, which is what
  Commit relies on several steps later.
- `OnlyRewritesDamageCorrect` and `ImplementsStore` (`Spec => StoreSpec`) need to
  know what is in the sectors: HeaderSafe (nothing is located before the header is
  whole) and RecordSafe (how many pieces of its record a job has written, and that
  the location is written over a whole record only).  What a slot reads as depends
  on the header, its location and its sectors alone (ReadLocal), so a step is
  looked at where it writes.

`StorageProofs` on WorldState (any number of sessions, durations, border sizes, with or
without hardcore), by `StateInv == StateTypes /\ WorldShown /\ (~shared => Orderly)`:

- `WorldShownCorrect` and `StateTypeCorrect` need no assumption on who shares
  `level.mcd`: what a session tells its client it has just read from its own world, and
  the fades and the interpolation of the border keep the client's knowledge equal, which
  is a case for each command, each phase of the weather and the last tick of a border.
- `CrashSafeCorrect` and `ResumesCorrect` hold while sessions follow one another
  (`shared` is false), as *level_sharing* shows they must.  Orderly is what makes them
  inductive: one session at most is not out, the descriptor is on the temporary file
  exactly while a save is between its open and its rename, what is under the name
  `level.mcd` is what was saved last and whole, and a session that is loading has what
  the file has, but for what Join reads.

`WorldStoreProofs` (any chunks, cache limit, number of changes), by `IInv == TypeOK
/\ Phases /\ ChunksRight /\ LevelRight /\ Bounded`: for each point of a call or a
teardown, what may be dirty, absent or damaged (Phases), and for each chunk and for
`level.mcd` the order of what was checkpointed, what is on disk and what is in the
cache (ChunksRight, LevelRight): `StoreTypeCorrect`, `CacheSoundCorrect`,
`HandlesStayLoadedCorrect`, `OrderlyTeardownCorrect`, and `ImplementsContract`
(`Spec => ContractSpec`: failing saves, retries and crashes are steps of
WorldContract or stutters).

`OutputQueueProofs` (any frame sizes, kernel buffer, scatter vector and limit), by
`QInv`: every buffer is a run of the stream, the runs follow one another from what
was sent to what was written, and the bytes gathered for `sendmsg` are the next ones:
`OutputTypeCorrect`, `QueueExactCorrect`, `ReturnDeliversCorrect`, `InputWaitsCorrect`.

`EntityViewProofs` (any places, ranges, stack size, number of slots):

- `TablesAgreeCorrect`, `RiderExactCorrect`, `GhostsCorrect`, by `Tables == Entries
  /\ Rider /\ Tracked`.  The properties speak of the loop between ticks; inductive is
  what holds inside a tick: an item or an orb leaves with its entry at every step, only
  a creature is ridden and no id is used twice, and what is tracked but gone was there
  when the tick, or the despawning, began.
- `ItemsConservedCorrect`, by `Items == Counts /\ ItemsConserved` together with Entries:
  each step moves h items to the hotbar and the ground, p to a pick-up and a to arrows,
  and makes h + p + a.  Insertion into the hotbar, dropping every slot at a death,
  merging and collecting stacks are sums over finite sets.
- `EntityTypeCorrect`, with `Typed`: a rider's vehicle is there whenever a handler looks
  its place up, in particular outside the part of a tick in which it may have gone.

`SurroundingsProofs` on MobAi (any durations, any sets of facts a tick may meet): `MobTypeCorrect`;
`ExclusiveCorrect`, which is inductive alone, since a goal that starts first stops
every running goal it overlaps; `NoInversionCorrect`, by the invariant Considered:
of the goals already passed in this tick, each that could start is running or
kept out by something of its priority or a higher one.  It survives the goals that
come later because the list is sorted (`SortedGoals`), so what a goal ousts lies
behind it in the list, and because a stop only makes the mob forget, and a goal
starts on what is remembered (`StartNeedsMemory`).  `CleanStopsCorrect` adds that a
suspended mob's goals are not considered (SuspendedRests) and that nothing takes the
body from a panic (`PanicBlocks`).

`SurroundingsProofs` on BlockWork, from `BlockConstants` (positive times, and slabs of
blocks, whatever hangs in them), by `BlockInv`: the types, and the blocks are what the
client was sent.  `NothingLeftHangingCorrect` and `MaterialKeptCorrect` are about steps.
A break or a placement keeps the entries there are and adds one for the cell above or
the cell itself, where alone something may have come to float.  A tick uses up the
entries that are due, so it must be that nothing floats afterwards but what hung before;
it is one step that runs a fold over the entries and another over the random columns:

- each function of a tick (settling a column, flooding, growing, fading) is Quiet: it
  keeps the amounts of sand and soil and makes nothing float that did not float before;
- a settled column floats nowhere from the settled cell upwards, because the loop goes on
  to the top and each block falls onto the one before it;
- so after n entries of the tick (RanQuiet), the work is Quiet with respect to the tick's
  start, and each entry that was due and has been run leaves nothing floating at or above
  its cell in its column.

`SurroundingsProofs` on Hotbar, from `HotbarConstants` (a hotbar, limits that are positive,
`air` not an item, bows that do not stack, item.cpp:56-57: a bow that breaks is then one
item less), by `BarInv`: ItemsShown and ItemsKept with the types of slots and ground.  One
lemma per handler says which slots it changed and what came or went of each item; insertion
(insert_from over the slots, twice) leaves the off hand alone, and what it puts in and what
it leaves are what it was offered; `give` runs it in batches that come to the whole gift;
death lays each slot on the ground.

On Content, from `ContentConstants`, by `TableInv`: a container's `state_id` never goes
back, and as long as it is the same the slots are the same, through the recursion of
`insert` and through a craft, which counts each slot it takes from and leaves a grid
it takes nothing from as it is; so SeenIsCurrent.  And WealthKept: every slot and hand holds a valid stack, a stack is worth as
much as the two it is split into, each operation moves worth between a container and one
hand or between two containers, and an accepted transaction exchanges two slots as they
are, not as they were seen.  A craft takes of the grid what its recipe uses (UsedIsThere:
what is used is there), and puts the whole result in the output.  `ContentConstants` asks
of a recipe that what it takes of any grid that it matches is worth its result
(KeepsWorth), with `Worth` any measure of items by natural numbers.  The code asks it of
no recipe, so the theorem is about the measures that a server's recipes keep, e.g. the
wood in logs, planks and sticks, with nothing for items without wood.  A recipe of empty
cells, which the code accepts, keeps only measures under which its result is worth
nothing: the theorem does not say that every craft costs something.

`NothingLostCorrect` joins the two.

`LoginProofs` (any accepted configurations, any packet limits that `LoginAssumption`
admits: the code's 16, 16 and 32 leave room for what a client sends of its own accord):

- `PlayOnlyThroughGatesCorrect`, by `GateInv`, about clients that may send anything.  A
  gate is passed at one read of the server and relied on at a later one, so the invariant
  says for each read what has been passed (Proved, Answered, Loaded), and for the frames
  under way what their sender had done when it sent them; at most one query and one push
  are ever on their way (Once), and none before its read, or an answer could be counted
  twice or before its question.
- `RegistriesCompleteCorrect`, `FramesReadableCorrect` and the login's half of
  `HonestNotRefusedCorrect`, by `GateInv /\ HonestInv`.  For an honest client HonestInv
  follows the conversation: at each read of the server it says which packets are under
  way in each direction and how they are framed (Talk), that each packet is framed as the
  one before it leaves its reader (Chained), where registries may still come from
  (Supplied), and how many packets a counted loop has left (`count + n <= ...`).

`PlayerProofs` on PlaySession, from `PlayConstants` (the timers as the constructor of
MinecraftServer accepts them, a place for Home), by `PlayInv`: `PlacesAgreeCorrect` and
the other half of `HonestNotRefusedCorrect`.  PlayInv relates both streams to both ends:

- Numbered: teleport ids increase along each stream, acknowledgements under way are older
  than teleports under way, so an acknowledgement that is accepted is the last one;
- Placed: every acknowledgement is followed by a report of the place, and the last report
  under way is where the client is, so moves sent before a teleport are overtaken;
- Windowed: for each chunk, the last batch under way that mentions it says whether the
  server counts it as loaded, and without one the client agrees with the server;
- Kept: exactly one keep-alive is under way when one is pending, and it is that one.

Each action of server and client is first summarised (Serves, Hears: what was read, what
was written, what changed), and each part of PlayInv is shown to survive the summaries.

`PlayerProofs` on Survival, from `SurvivalConstants` (the limits are natural, the
thresholds within them, as the code's 20, 18, 5 and 4 are): `SurvivalSoundCorrect`.  One
lemma per member function says that it keeps `Sound` (the record's types, saturation
within food, absorption only with its effect) and raises no shield; `TickSound`
chains them in the order of `SurvivalState::tick`, and the invariant adds that a
dead player has no health and a raised shield is in a hand.  ClientMirrors has an invariant
of the same make: every member function either Promises a report, by setting `dirty_`, or
changes nothing that a report would show, and each handler ends with the report.

`ClientSeesCorrect` joins the four: what was sent of the blocks, the body and the items is
what the server has, and a player who holds a container's `state_id` has seen its slots.

**Sums and loops.**  The folds of the community modules and the loops of the model are
recursive functions over sets or sequences, and the library's induction theorems take an
operator, which the provers cannot instantiate.  The proofs do without: the predicate is
given as a *set* (of lengths, or of the subsets of a finite set), and that this set is
everything follows from there being no least, or no smallest, exception
(WellFoundedInduction's WFMin; Upwards in SurroundingsProofs).  That a recursive function
exists, i.e. that the CHOOSE behind it is of a function with these equations, is shown the
same way (Recursion, FoldExists).  What is needed of sums (an element more or less, two
functions that agree, an exchange, what some elements have less) is a lemma each; SumsAre
says that they are the sums of the models.

**Only model-checked:** every safety property of a passing run has a theorem.  Out of the
prover's reach are liveness under fairness and ENABLED (AdmittedIsTaken, QueueDrains,
LoginEnds), and modules with RECURSIVE operators, of which this project has none.

## 6. Abstractions and what is not modelled

- Payloads, names, chunk contents and items are values; compression, encryption
  and NBT are transparent except for when they are switched on.  A damaged record
  is one that zlib's checksum or the position check rejects.
- Time is ticks and ages, capped where the code stops looking.
- The peer in OutputQueue and PlaySession is external and behaves as the
  protocol prescribes; in Admission and LoginSequence it may do anything.
- EntityView has one kind of item without wear, places on a line, and no physics;
  Hotbar has wear and kinds, and no places.
- BlockWork has a slab one block thick, one kind each of falling block, soil and
  stone, and a player that is alive; prediction sequences are left out.
- Statistics, advancements and experience of the player; Navigation of ai.cpp,
  which no goal calls; love timers and ages of animals; spectator teleports and
  the idle timer.
- The layout of packets, NBT and VarInt, light and generation are pure functions of
  their input without a state of their own: the repository's tests compare them with
  recorded bytes, and a model would repeat them.
- OpenSSL, zlib and the child process of session_auth.cpp are external.
- A world without `--world` (edits vanish on unload).

## 7. Plan

The order was that of what can go wrong; the modules of the plan are written, and the
components that own shared or persistent state are proved.  What would add most from
here:

1. Prediction sequences in BlockWork, with dead players and spectators.
2. Spectator teleports and the idle timer in PlaySession.
