----------------------------- MODULE WorldStore -----------------------------
(***************************************************************************)
(* A World over a storage path (world.cpp): ChunkManager's cache with its  *)
(* least-recently-used eviction, dirty flags, autosave and teardown, and   *)
(* level.mcd, written to a temporary file and renamed.                     *)
(*                                                                         *)
(* One session drives a World, one call at a time, so a call is cut only   *)
(* where it writes: a save may fail, throw and end the session, and the    *)
(* process may die between any two writes.  What one save does to the disk *)
(* is ChunkStore's promise for RegionFile.  A chunk's content is the       *)
(* number of changes made to it, 0 as generated.                           *)
(***************************************************************************)
EXTENDS Integers, Sequences, FiniteSets

CONSTANTS
    Chunks,           \* chunk positions
    Spawn,            \* the spawn chunk, whose handle a session holds
    Limit,            \* max_loaded_chunks_, at least 1
    MaxChanges,       \* bound: changes to a chunk
    MaxTicks,         \* bound: changes to the scalar state
    Level,            \* the scalar state, as an item
    Absent, Damaged, NoChunk

\* A chunk position is a pair of 32-bit numbers, and the constructor refuses a
\* cache of no chunks (world.cpp, ChunkManager::Impl::Impl).
ASSUME StoreAssumption ==
    /\ IsFiniteSet(Chunks) /\ Spawn \in Chunks
    /\ Limit \in Nat \ {0}
    /\ MaxChanges \in Nat /\ MaxTicks \in Nat
    /\ Level \notin Chunks /\ NoChunk \notin Chunks
    /\ Absent \notin Nat /\ Damaged \notin Nat /\ Absent # Damaged

VARIABLES
    disk,        \* what reading each chunk from its region returns
    level,       \* level.mcd
    temp,        \* level.mcd.tmp
    loaded,      \* keys of chunks_
    val,         \* content of the loaded chunks
    dirty,       \* the loaded chunks with dirty_ set
    recent,      \* the loaded chunks, least recently accessed first
    state,       \* the scalar state in memory
    job,         \* where the session is, and the chunk it asked for
    closing,     \* 0, or the destructor at work: 1 ~World, 2 ~ChunkManager
    failed,      \* items whose save failed since the world was opened
    checkpoint   \* history: every item at the last completed save_all

vars == <<disk, level, temp, loaded, val, dirty, recent, state, job, closing,
          failed, checkpoint>>
files == <<disk, level, temp>>
cache == <<loaded, val, dirty, recent>>

Items == Chunks \cup {Level}
Versions == 0..MaxChanges

Job(at, c) == [pc |-> at, chunk |-> c]
Idle == Job("idle", NoChunk)
Down == Job("down", NoChunk)

Init ==
    /\ disk = [c \in Chunks |-> Absent]
    /\ level = Absent /\ temp = Absent
    /\ loaded = {} /\ val = [c \in Chunks |-> 0] /\ dirty = {} /\ recent = <<>>
    /\ state = 0
    /\ job = Down /\ closing = 0 /\ failed = {}
    /\ checkpoint = [i \in Items |-> 0]

Content(x) == IF x = Absent THEN 0 ELSE x

\* What World::block and the scalar getters return; the disk when down.
View == [i \in Items |->
            IF i = Level
            THEN IF job = Down THEN Content(level) ELSE state
            ELSE IF i \in loaded THEN val[i] ELSE Content(disk[i])]

\* Handles outside the cache: the session's to the spawn chunk, and that of
\* the call in progress.
Held == {c \in loaded : c = Spawn \/ c = job.chunk}

-----------------------------------------------------------------------------
(* One save, and an exception *)

\* Mutant: the chunk is marked as saved and not saved.
MutSavedMarksOnly(c) ==
    /\ disk' = disk
    /\ dirty' = dirty \ {c}

\* storage_->save_chunk, then mark_saved.
Saved(c) ==
    /\ disk' = [disk EXCEPT ![c] = val[c]]
    /\ dirty' = dirty \ {c}

\* The save throws: the slot has its old record, the new one or neither.
\* While a region file is being created none of its slots can be read.  A
\* process that dies in the save leaves the same: SaveFails, then Crash.
SaveFails(c) ==
    /\ \/ disk' = disk
       \/ disk' = [disk EXCEPT ![c] = val[c]]
       \/ disk' = [disk EXCEPT ![c] = Damaged]
       \/ /\ \A d \in Chunks : disk[d] = Absent
          /\ disk' = [d \in Chunks |-> Damaged]
    /\ failed' = failed \cup {c}

GoDown ==
    /\ loaded' = {} /\ val' = [c \in Chunks |-> 0]
    /\ dirty' = {} /\ recent' = <<>>
    /\ state' = 0
    /\ job' = Down /\ closing' = 0

\* Control after an exception or the end of the session: ~World runs save_all,
\* ~ChunkManager save_dirty, and each swallows what its saves throw.
Unwind ==
    IF closing = 2
    THEN GoDown
    ELSE /\ job' = Job("chunks", NoChunk)
         /\ closing' = closing + 1
         /\ UNCHANGED <<cache, state>>

-----------------------------------------------------------------------------
(* ChunkManager *)

\* The order of access without chunk c.
Others(c) ==
    IF c \in loaded
    THEN LET k == CHOOSE i \in 1..Len(recent) : recent[i] = c
         IN  [i \in 1..(Len(recent) - 1) |-> recent[IF i < k THEN i ELSE i + 1]]
    ELSE recent

Touch(c) == recent' = Append(Others(c), c)

Insert(c, x) ==
    /\ loaded' = loaded \cup {c}
    /\ val' = [val EXCEPT ![c] = x]
    /\ Touch(c)
    /\ UNCHANGED dirty

\* chunks_.erase; a chunk that is not loaded has no dirty flag.
Erase(c) ==
    /\ loaded' = loaded \ {c}
    /\ val' = [val EXCEPT ![c] = 0]
    /\ recent' = Others(c)

\* load(): the cache, else the region, else the generator.
Request(c) ==
    /\ job = Idle
    /\ \/ /\ c \in loaded
          /\ Touch(c)
          /\ job' = Job("use", c)
          /\ UNCHANGED <<loaded, val, dirty, state, closing>>
       \/ /\ c \notin loaded /\ disk[c] \in Versions
          /\ Insert(c, disk[c])
          /\ job' = Job("evict", c)
          /\ UNCHANGED <<state, closing>>
       \/ /\ c \notin loaded /\ disk[c] = Absent
          /\ job' = Job("store", c)
          /\ UNCHANGED <<cache, state, closing>>
       \/ /\ c \notin loaded /\ disk[c] = Damaged
          /\ Unwind
    /\ UNCHANGED <<files, failed, checkpoint>>

\* A generated chunk is saved before it is entered.
Store ==
    /\ job.pc = "store"
    /\ \/ /\ disk' = [disk EXCEPT ![job.chunk] = 0]
          /\ Insert(job.chunk, 0)
          /\ job' = Job("evict", job.chunk)
          /\ UNCHANGED <<state, closing, failed>>
       \/ SaveFails(job.chunk) /\ Unwind
    /\ UNCHANGED <<level, temp, checkpoint>>

OverLimit == Cardinality(loaded) > Limit

\* Mutant: use_count is not asked: the session's handle does not protect.
MutVictims == {i \in 1..Len(recent) : recent[i] # job.chunk}

\* Places in the order of access of the chunks nobody else holds.
Victims == {i \in 1..Len(recent) : recent[i] \notin Held}

\* One turn of evict_to_limit: the oldest victim is saved and erased.
Evict ==
    /\ job.pc = "evict"
    /\ IF OverLimit /\ Victims # {}
       THEN \E oldest \in Victims :
               LET c == recent[oldest] IN
               /\ \A i \in Victims : oldest <= i
               /\ \/ /\ IF c \in dirty THEN Saved(c) ELSE UNCHANGED <<disk, dirty>>
                     /\ Erase(c)
                     /\ UNCHANGED <<state, job, closing, failed>>
                  \/ c \in dirty /\ SaveFails(c) /\ Unwind
       ELSE /\ job' = Job("use", job.chunk)
            /\ UNCHANGED <<disk, cache, state, closing, failed>>
    /\ UNCHANGED <<level, temp, checkpoint>>

\* The caller reads the chunk, or changes a block; then its handle is gone.
Use ==
    /\ job.pc = "use"
    /\ \/ UNCHANGED <<val, dirty>>
       \/ /\ val[job.chunk] < MaxChanges
          /\ val' = [val EXCEPT ![job.chunk] = @ + 1]
          /\ dirty' = dirty \cup {job.chunk}
    /\ job' = Idle
    /\ UNCHANGED <<files, loaded, recent, state, closing, failed, checkpoint>>

\* Mutant: unload does not save.
MutUnload(c) ==
    /\ job = Idle /\ c \in loaded \ Held
    /\ Erase(c) /\ dirty' = dirty \ {c}
    /\ UNCHANGED <<files, state, job, closing, failed, checkpoint>>

\* unload(), for a chunk that leaves the client's window.
Unload(c) ==
    /\ job = Idle /\ c \in loaded \ Held
    /\ \/ /\ IF c \in dirty THEN Saved(c) ELSE UNCHANGED <<disk, dirty>>
          /\ Erase(c)
          /\ UNCHANGED <<state, job, closing, failed>>
       \/ c \in dirty /\ SaveFails(c) /\ Unwind
    /\ UNCHANGED <<level, temp, checkpoint>>

-----------------------------------------------------------------------------
(* World *)

\* load_persisted_settings and the constructor.
Open ==
    /\ job = Down
    /\ job' = Idle /\ state' = Content(level) /\ failed' = {}
    /\ UNCHANGED <<files, cache, closing, checkpoint>>

\* Clocks, weather, border, rules.
Tick ==
    /\ job = Idle /\ state < MaxTicks
    /\ state' = state + 1
    /\ UNCHANGED <<files, cache, job, closing, failed, checkpoint>>

\* The autosave.
SaveAll ==
    /\ job = Idle
    /\ job' = Job("chunks", NoChunk)
    /\ UNCHANGED <<files, cache, state, closing, failed, checkpoint>>

\* save_dirty, in the order of the hash table; save_all goes on to level.mcd.
SaveDirty ==
    /\ job.pc = "chunks"
    /\ \/ \E c \in dirty :
             \/ /\ Saved(c)
                /\ UNCHANGED <<loaded, val, recent, state, job, closing, failed>>
             \/ SaveFails(c) /\ Unwind
       \/ /\ dirty = {}
          /\ IF closing = 2
             THEN GoDown
             ELSE job' = Job("level", NoChunk) /\ UNCHANGED <<cache, state, closing>>
          /\ UNCHANGED <<disk, failed>>
    /\ UNCHANGED <<level, temp, checkpoint>>

\* save_metadata writes level.mcd.tmp...
WriteTemp ==
    /\ job.pc = "level"
    /\ \/ /\ temp' = state
          /\ job' = Job("rename", NoChunk)
          /\ UNCHANGED <<cache, state, closing, failed>>
       \/ /\ temp' \in {temp, Damaged}
          /\ failed' = failed \cup {Level}
          /\ Unwind
    /\ UNCHANGED <<disk, level, checkpoint>>

\* ... and renames it, which completes save_all.
Rename ==
    /\ job.pc = "rename"
    /\ \/ /\ level' = temp /\ temp' = Absent
          /\ checkpoint' = View
          /\ IF closing = 0
             THEN job' = Idle /\ UNCHANGED <<cache, state, closing>>
             ELSE Unwind
          /\ UNCHANGED failed
       \/ /\ failed' = failed \cup {Level}
          /\ Unwind
          /\ UNCHANGED <<level, temp, checkpoint>>
    /\ UNCHANGED disk

\* Mutant: no destructor saves.
MutEndSession ==
    /\ job = Idle
    /\ GoDown
    /\ UNCHANGED <<files, failed, checkpoint>>

\* The session returns or throws.
EndSession ==
    /\ job = Idle
    /\ Unwind
    /\ UNCHANGED <<files, failed, checkpoint>>

\* The process dies: nothing more can be relied on to have been saved.
Crash ==
    /\ job # Down
    /\ GoDown
    /\ failed' = Items
    /\ UNCHANGED <<files, checkpoint>>

Next ==
    \/ \E c \in Chunks : Request(c) \/ Unload(c)
    \/ Store \/ Evict \/ Use
    \/ Open \/ Tick \/ SaveAll \/ SaveDirty \/ WriteTemp \/ Rename
    \/ EndSession \/ Crash

Spec == Init /\ [][Next]_vars

-----------------------------------------------------------------------------
(* Properties *)

Jobs ==
    [pc : {"down", "idle", "chunks", "level", "rename"}, chunk : {NoChunk}]
        \cup [pc : {"store", "evict", "use"}, chunk : Chunks]

TypeOK ==
    /\ disk \in [Chunks -> Versions \cup {Absent, Damaged}]
    /\ level \in 0..MaxTicks \cup {Absent}
    /\ temp \in 0..MaxTicks \cup {Absent, Damaged}
    /\ loaded \subseteq Chunks /\ dirty \subseteq loaded
    /\ val \in [Chunks -> Versions]
    /\ recent \in Seq(Chunks)
    /\ {recent[i] : i \in 1..Len(recent)} = loaded
    /\ \A i, j \in 1..Len(recent) : recent[i] = recent[j] => i = j
    /\ state \in 0..MaxTicks
    /\ job \in Jobs
    /\ closing \in 0..2
    /\ failed \subseteq Items
    /\ checkpoint \in [Items -> Nat \cup {Damaged}]

\* The dirty flag is exact enough to drop a clean chunk: what the cache holds
\* without the flag is what the region file holds, through failing saves and
\* evictions.  And between calls the cache is over its limit only with the held
\* chunk and the one that was asked for while nothing could be evicted.
CacheSound ==
    /\ \A c \in loaded \ dirty : disk[c] = val[c]
    /\ job = Idle => \/ Cardinality(loaded) <= Limit
                     \/ Cardinality(loaded \ {Spawn}) = 1

\* "Externally referenced chunks are never invalidated": while the session
\* lives, a chunk it holds a handle to keeps its entry, so no second object
\* for the same chunk can exist.
HandlesStayLoaded == [][\A c \in Held : job'.pc # "down" => c \in loaded']_vars

\* A session that ends with no save having failed leaves everything on disk as
\* it was in memory.
OrderlyTeardownSaves ==
    [][job # Down /\ job' = Down /\ failed' = {} => View' = View]_vars

Contract == INSTANCE WorldContract WITH view <- View, up <- job # Down

\* Caching, eviction, unloading, autosave, teardown, failing saves and crashes
\* together keep WorldContract's promise.
ContractSpec == Contract!Spec
=============================================================================
