-------------------------- MODULE WorldStoreProofs --------------------------
(***************************************************************************)
(* Proofs about WorldStore, for every set of chunks, every cache limit and *)
(* every number of changes: the chunk cache is sound through failing saves *)
(* and evictions, handles keep their entries, an orderly teardown loses    *)
(* nothing, and the world keeps WorldContract's promise.                   *)
(*                                                                         *)
(* CacheSound is not inductive: why a clean chunk is on disk depends on    *)
(* which chunks can be clean, dirty or damaged at each point of a call or  *)
(* of a teardown (Phases), and what a crash may lose depends on how the    *)
(* last checkpoint, the disk and the cache of each item are ordered        *)
(* (ChunksRight, LevelRight).                                              *)
(***************************************************************************)
EXTENDS WorldStore, FiniteSetTheorems, TLAPS

\* What is true of the session at each point.
Phases ==
    /\ closing # 0 => job.pc \in {"chunks", "level", "rename"}
    /\ job.pc \in {"level", "rename"} => closing # 2 /\ dirty = {}
    /\ job.pc = "down" => loaded = {} /\ closing = 0
    /\ job.pc = "store" => job.chunk \notin loaded /\ disk[job.chunk] = Absent
    /\ job.pc \in {"evict", "use"} => job.chunk \in loaded
    /\ job.pc = "rename" => temp = state
    /\ closing = 2 /\ failed = {} => level = state

\* One chunk: d is on disk, p was checkpointed, v is in the cache if it is
\* loaded (in), with the flag set (new).  From old to new they are p, d and v.
ChunkRight(d, p, in, new, v) ==
    /\ p = Damaged => d = Damaged /\ ~in
    /\ p # Damaged /\ d # Damaged => p <= Content(d)
    /\ p # Damaged /\ in => p <= v
    /\ p # Damaged /\ new => p < v
    /\ in /\ ~new => d = v
    /\ in => d # Absent
    /\ in /\ d # Damaged => d <= v
    /\ ~in => v = 0

ChunksRight ==
    \A c \in Chunks :
        ChunkRight(disk[c], checkpoint[c], c \in loaded, c \in dirty, val[c])

LevelRight ==
    /\ checkpoint[Level] # Damaged /\ checkpoint[Level] <= Content(level)
    /\ job.pc # "down" => Content(level) <= state

\* Within the limit, or just the held chunk and the one that was asked for.
WithinLimit ==
    \/ Cardinality(loaded) <= Limit
    \/ Cardinality(loaded \ {Spawn}) = 1

Bounded ==
    (\/ job.pc \in {"idle", "store", "use"}
     \/ job.pc \in {"chunks", "level", "rename"} /\ closing = 0)
    => WithinLimit

IInv == TypeOK /\ Phases /\ ChunksRight /\ LevelRight /\ Bounded

-----------------------------------------------------------------------------
(* The order of access *)

Listed(q) == {q[i] : i \in 1..Len(q)}
Once(q) == \A i, j \in 1..Len(q) : q[i] = q[j] => i = j

\* Taking a chunk out of the order leaves the others, once each.
LEMMA OthersRight ==
    ASSUME TypeOK, NEW c
    PROVE  /\ Others(c) \in Seq(Chunks)
           /\ Listed(Others(c)) = loaded \ {c}
           /\ Once(Others(c))
<1>0. /\ recent \in Seq(Chunks) /\ Len(recent) \in Nat
      /\ Listed(recent) = loaded /\ Once(recent)
  BY DEF TypeOK, Listed, Once
<1>1. CASE c \notin loaded
  BY <1>0, <1>1 DEF Others
<1>2. CASE c \in loaded
  <2> DEFINE k == CHOOSE i \in 1..Len(recent) : recent[i] = c
             q == [i \in 1..(Len(recent) - 1) |-> recent[IF i < k THEN i ELSE i + 1]]
  <2>1. k \in 1..Len(recent) /\ recent[k] = c
    BY <1>0, <1>2 DEF Listed
  <2>2. Others(c) = q
    BY <1>2 DEF Others
  <2> HIDE DEF k
  <2>3. Len(recent) - 1 \in Nat
    BY <1>0, <2>1
  <2>4. \A i \in 1..(Len(recent) - 1) :
           /\ (IF i < k THEN i ELSE i + 1) \in 1..Len(recent)
           /\ (IF i < k THEN i ELSE i + 1) # k
    BY <1>0, <2>1
  <2>5. \A i \in 1..(Len(recent) - 1) : q[i] \in Chunks
    BY <1>0, <2>4
  <2>6. q \in Seq(Chunks) /\ Len(q) = Len(recent) - 1
    BY <2>3, <2>5
  <2>7. Once(q)
    <3> SUFFICES ASSUME NEW i \in 1..Len(q), NEW j \in 1..Len(q), q[i] = q[j]
                 PROVE  i = j
      BY DEF Once
    <3>1. (IF i < k THEN i ELSE i + 1) = (IF j < k THEN j ELSE j + 1)
      BY <1>0, <2>4, <2>6 DEF Once
    <3> QED
      BY <2>1, <2>6, <3>1
  <2>8. Listed(q) \subseteq loaded \ {c}
    <3> SUFFICES ASSUME NEW i \in 1..Len(q) PROVE q[i] \in loaded \ {c}
      BY DEF Listed
    <3>1. q[i] \in loaded
      BY <1>0, <2>4, <2>6 DEF Listed
    <3>2. q[i] # c
      BY <1>0, <2>1, <2>4, <2>6 DEF Once
    <3> QED
      BY <3>1, <3>2
  <2>9. loaded \ {c} \subseteq Listed(q)
    <3> SUFFICES ASSUME NEW d \in loaded \ {c} PROVE \E i \in 1..Len(q) : q[i] = d
      BY DEF Listed
    <3>1. PICK m \in 1..Len(recent) : recent[m] = d
      BY <1>0 DEF Listed
    <3>2. m # k /\ m \in Int /\ k \in Int
      BY <1>0, <2>1, <3>1
    <3>3. CASE m < k
      <4>1. m \in 1..Len(q) /\ q[m] = d
        BY <1>0, <2>1, <2>6, <3>1, <3>3
      <4> QED
        BY <4>1
    <3>4. CASE m > k
      <4>1. m - 1 \in 1..Len(q) /\ ~(m - 1 < k) /\ m - 1 + 1 = m
        BY <1>0, <2>1, <2>6, <3>1, <3>4
      <4>2. q[m - 1] = d
        BY <2>6, <3>1, <4>1
      <4> QED
        BY <4>1, <4>2
    <3>5. m < k \/ m > k
      BY <3>2
    <3> QED
      BY <3>3, <3>4, <3>5
  <2> QED
    BY <2>2, <2>6, <2>7, <2>8, <2>9
<1> QED
  BY <1>1, <1>2

\* A chunk that is touched comes last, once.
LEMMA TouchRight ==
    ASSUME TypeOK, NEW c \in Chunks, Touch(c)
    PROVE  /\ recent' \in Seq(Chunks)
           /\ Listed(recent') = loaded \cup {c}
           /\ Once(recent')
<1> DEFINE q == Others(c)
<1>1. q \in Seq(Chunks) /\ Listed(q) = loaded \ {c} /\ Once(q) /\ Len(q) \in Nat
  BY OthersRight
<1>2. recent' = Append(q, c)
  BY DEF Touch
<1> HIDE DEF q
<1>3. /\ recent' \in Seq(Chunks) /\ Len(recent') = Len(q) + 1
      /\ \A i \in 1..Len(q) : recent'[i] = q[i]
      /\ recent'[Len(q) + 1] = c
  BY <1>1, <1>2
<1>4. \A i \in 1..Len(recent') : i \in 1..Len(q) \/ i = Len(q) + 1
  BY <1>1, <1>3
<1>5. \A i \in 1..Len(q) : i \in 1..Len(recent') /\ q[i] # c
  <2>1. \A i \in 1..Len(q) : i \in 1..Len(recent')
    BY <1>1, <1>3
  <2>2. \A i \in 1..Len(q) : q[i] \in Listed(q)
    BY DEF Listed
  <2> QED
    BY <1>1, <2>1, <2>2
<1>6. Len(q) + 1 \in 1..Len(recent')
  BY <1>1, <1>3
<1>7. Once(recent')
  BY <1>1, <1>3, <1>4, <1>5 DEF Once
<1>8. Listed(recent') = Listed(q) \cup {c}
  <2>1. Listed(recent') \subseteq Listed(q) \cup {c}
    BY <1>3, <1>4 DEF Listed
  <2>2. Listed(q) \cup {c} \subseteq Listed(recent')
    BY <1>3, <1>5, <1>6 DEF Listed
  <2> QED
    BY <2>1, <2>2
<1> QED
  BY <1>1, <1>3, <1>7, <1>8

-----------------------------------------------------------------------------
(* Types *)

\* What TypeOK says of the cache.
CacheOK ==
    /\ loaded \subseteq Chunks /\ dirty \subseteq loaded
    /\ val \in [Chunks -> Versions]
    /\ recent \in Seq(Chunks)
    /\ Listed(recent) = loaded
    /\ Once(recent)

\* TypeOK, with the cache apart.
Typed ==
    /\ disk \in [Chunks -> Versions \cup {Absent, Damaged}]
    /\ level \in 0..MaxTicks \cup {Absent}
    /\ temp \in 0..MaxTicks \cup {Absent, Damaged}
    /\ CacheOK
    /\ state \in 0..MaxTicks
    /\ job \in Jobs
    /\ closing \in 0..2
    /\ failed \subseteq Items
    /\ checkpoint \in [Items -> Nat \cup {Damaged}]

LEMMA TypeSplits == TypeOK <=> Typed
BY DEF TypeOK, Typed, CacheOK, Listed, Once

LEMMA GoDownTypes ==
    ASSUME GoDown
    PROVE  CacheOK' /\ state' \in 0..MaxTicks /\ job' \in Jobs /\ closing' \in 0..2
<1>1. loaded' = {} /\ dirty' = {} /\ val' \in [Chunks -> Versions] /\ state' = 0
  BY StoreAssumption DEF GoDown, Versions
<1>2. recent' = <<>>
  BY DEF GoDown
<1>3. recent' \in Seq(Chunks) /\ Len(recent') = 0
  BY <1>2
<1>4. Listed(recent') = {} /\ Once(recent')
  BY <1>3 DEF Listed, Once
<1> QED
  BY <1>1, <1>3, <1>4, StoreAssumption DEF CacheOK, GoDown, Down, Job, Jobs

LEMMA UnwindTypes ==
    ASSUME TypeOK, Unwind
    PROVE  CacheOK' /\ state' \in 0..MaxTicks /\ job' \in Jobs /\ closing' \in 0..2
<1>1. CASE closing = 2
  BY <1>1, GoDownTypes DEF Unwind
<1>2. CASE closing # 2
  BY <1>2, TypeSplits DEF Typed, Unwind, Job, Jobs, cache, CacheOK
<1> QED
  BY <1>1, <1>2

LEMMA SaveFailsTypes ==
    ASSUME TypeOK, NEW c \in Chunks, SaveFails(c)
    PROVE  /\ disk' \in [Chunks -> Versions \cup {Absent, Damaged}]
           /\ failed' \subseteq Items
BY DEF TypeOK, SaveFails, Items

LEMMA SavedTypes ==
    ASSUME TypeOK, NEW c \in Chunks, Saved(c)
    PROVE  /\ disk' \in [Chunks -> Versions \cup {Absent, Damaged}]
           /\ dirty' = dirty \ {c}
BY DEF TypeOK, Saved

LEMMA TouchTypes ==
    ASSUME TypeOK, NEW c \in Chunks, Touch(c), loaded' = loaded \cup {c},
           val' \in [Chunks -> Versions], dirty' = dirty
    PROVE  CacheOK'
<1>1. Listed(recent)' = loaded' /\ Once(recent)' /\ recent' \in Seq(Chunks)
  BY TouchRight DEF Listed, Once
<1> QED
  BY <1>1 DEF CacheOK, TypeOK

LEMMA EraseTypes ==
    ASSUME TypeOK, NEW c \in Chunks, Erase(c), dirty' = dirty \ {c}
    PROVE  CacheOK'
<1>1. Listed(recent)' = loaded' /\ Once(recent)' /\ recent' \in Seq(Chunks)
  BY OthersRight DEF Erase, Listed, Once
<1>2. val' \in [Chunks -> Versions]
  BY StoreAssumption DEF TypeOK, Erase, Versions
<1> QED
  BY <1>1, <1>2 DEF CacheOK, TypeOK, Erase

LEMMA ViewTypes ==
    ASSUME TypeOK
    PROVE  View \in [Items -> Nat \cup {Damaged}]
<1> SUFFICES ASSUME NEW i \in Items PROVE View[i] \in Nat \cup {Damaged}
  BY DEF View
<1>1. CASE i = Level
  BY <1>1, StoreAssumption DEF View, Content, TypeOK
<1>2. CASE i # Level
  <2>1. i \in Chunks
    BY <1>2 DEF Items
  <2> QED
    BY <1>2, <2>1, StoreAssumption DEF View, Content, TypeOK, Versions
<1> QED
  BY <1>1, <1>2

LEMMA TypeInit == Init => TypeOK
<1> SUFFICES ASSUME Init PROVE TypeOK
  OBVIOUS
<1>1. recent \in Seq(Chunks) /\ Len(recent) = 0
  BY DEF Init
<1>2. CacheOK
  BY <1>1, StoreAssumption DEF Init, CacheOK, Versions, Listed, Once
<1> QED
  BY <1>2, TypeSplits, StoreAssumption DEF Typed, Init, Down, Job, Jobs, Items

LEMMA TypeStep == TypeOK /\ Phases /\ [Next]_vars => TypeOK'
<1> SUFFICES ASSUME TypeOK, Phases, [Next]_vars PROVE TypeOK'
  OBVIOUS
<1> USE StoreAssumption
<1>0. /\ disk \in [Chunks -> Versions \cup {Absent, Damaged}]
      /\ level \in 0..MaxTicks \cup {Absent}
      /\ temp \in 0..MaxTicks \cup {Absent, Damaged}
      /\ CacheOK
      /\ state \in 0..MaxTicks
      /\ job \in Jobs
      /\ closing \in 0..2
      /\ failed \subseteq Items
      /\ checkpoint \in [Items -> Nat \cup {Damaged}]
  BY TypeSplits DEF Typed
<1>T. ASSUME /\ disk' \in [Chunks -> Versions \cup {Absent, Damaged}]
             /\ level' \in 0..MaxTicks \cup {Absent}
             /\ temp' \in 0..MaxTicks \cup {Absent, Damaged}
             /\ CacheOK'
             /\ state' \in 0..MaxTicks
             /\ job' \in Jobs
             /\ closing' \in 0..2
             /\ failed' \subseteq Items
             /\ checkpoint' \in [Items -> Nat \cup {Damaged}]
      PROVE  TypeOK'
  <2>1. TypeOK' <=> Typed'
    BY TypeSplits, PTL
  <2> QED
    BY <1>T, <2>1 DEF Typed
<1>J. /\ \A c \in Chunks : \A pc \in {"store", "evict", "use"} : Job(pc, c) \in Jobs
      /\ \A pc \in {"down", "idle", "chunks", "level", "rename"} : Job(pc, NoChunk) \in Jobs
      /\ Idle \in Jobs /\ Down \in Jobs
      /\ job.pc \in {"store", "evict", "use"} => job.chunk \in Chunks
  BY <1>0 DEF Job, Jobs, Idle, Down
<1>V. 0 \in Versions
  BY DEF Versions
<1>K. UNCHANGED cache => CacheOK'
  BY <1>0 DEF cache, CacheOK
<1>1. ASSUME NEW c \in Chunks, Request(c) PROVE TypeOK'
  <2>0. UNCHANGED <<disk, level, temp, failed, checkpoint>>
    BY <1>1 DEF Request, files
  <2>1. CASE c \in loaded /\ Touch(c) /\ job' = Job("use", c)
             /\ UNCHANGED <<loaded, val, dirty, state, closing>>
    <3>1. CacheOK'
      BY <1>0, <2>1, TouchTypes DEF CacheOK
    <3> QED
      BY <1>0, <1>T, <1>J, <2>0, <2>1, <3>1
  <2>2. CASE disk[c] \in Versions /\ Insert(c, disk[c]) /\ job' = Job("evict", c)
             /\ UNCHANGED <<state, closing>>
    <3>1. val' \in [Chunks -> Versions]
      BY <1>0, <2>2 DEF Insert, CacheOK
    <3>2. CacheOK'
      BY <2>2, <3>1, TouchTypes DEF Insert
    <3> QED
      BY <1>0, <1>T, <1>J, <2>0, <2>2, <3>2
  <2>3. CASE job' = Job("store", c) /\ UNCHANGED <<cache, state, closing>>
    BY <1>0, <1>T, <1>J, <1>K, <2>0, <2>3
  <2>4. CASE Unwind
    BY <1>0, <1>T, <2>0, <2>4, UnwindTypes
  <2> QED
    BY <1>1, <2>1, <2>2, <2>3, <2>4 DEF Request
<1>2. ASSUME NEW c \in Chunks, Unload(c) PROVE TypeOK'
  <2>0. UNCHANGED <<level, temp, checkpoint>>
    BY <1>2 DEF Unload
  <2>1. CASE (IF c \in dirty THEN Saved(c) ELSE UNCHANGED <<disk, dirty>>)
             /\ Erase(c) /\ UNCHANGED <<state, job, closing, failed>>
    <3>1. disk' \in [Chunks -> Versions \cup {Absent, Damaged}] /\ dirty' = dirty \ {c}
      BY <1>0, <2>1, SavedTypes
    <3>2. CacheOK'
      BY <2>1, <3>1, EraseTypes
    <3> QED
      BY <1>0, <1>T, <2>0, <2>1, <3>1, <3>2
  <2>2. CASE SaveFails(c) /\ Unwind
    BY <1>0, <1>T, <2>0, <2>2, UnwindTypes, SaveFailsTypes
  <2> QED
    BY <1>2, <2>1, <2>2 DEF Unload
<1>3. ASSUME Store PROVE TypeOK'
  <2>0. job.chunk \in Chunks /\ UNCHANGED <<level, temp, checkpoint>>
    BY <1>J, <1>3 DEF Store
  <2>1. CASE disk' = [disk EXCEPT ![job.chunk] = 0] /\ Insert(job.chunk, 0)
             /\ job' = Job("evict", job.chunk) /\ UNCHANGED <<state, closing, failed>>
    <3>1. val' \in [Chunks -> Versions]
      BY <1>0, <1>V, <2>1 DEF Insert, CacheOK
    <3>2. CacheOK'
      BY <2>0, <2>1, <3>1, TouchTypes DEF Insert
    <3>3. disk' \in [Chunks -> Versions \cup {Absent, Damaged}]
      BY <1>0, <1>V, <2>0, <2>1
    <3> QED
      BY <1>0, <1>T, <1>J, <2>0, <2>1, <3>2, <3>3
  <2>2. CASE SaveFails(job.chunk) /\ Unwind
    BY <1>0, <1>T, <2>0, <2>2, UnwindTypes, SaveFailsTypes
  <2> QED
    BY <1>3, <2>1, <2>2 DEF Store
<1>4. ASSUME Evict PROVE TypeOK'
  <2>0. job.chunk \in Chunks /\ UNCHANGED <<level, temp, checkpoint>>
    BY <1>J, <1>4 DEF Evict
  <2>1. ASSUME NEW c \in Chunks,
               IF c \in dirty THEN Saved(c) ELSE UNCHANGED <<disk, dirty>>,
               Erase(c), UNCHANGED <<state, job, closing, failed>>
        PROVE  TypeOK'
    <3>1. disk' \in [Chunks -> Versions \cup {Absent, Damaged}] /\ dirty' = dirty \ {c}
      BY <1>0, <2>1, SavedTypes
    <3>2. CacheOK'
      BY <2>1, <3>1, EraseTypes
    <3> QED
      BY <1>0, <1>T, <2>0, <2>1, <3>1, <3>2
  <2>2. ASSUME NEW c \in Chunks, SaveFails(c), Unwind PROVE TypeOK'
    BY <1>0, <1>T, <2>0, <2>2, UnwindTypes, SaveFailsTypes
  <2>3. CASE job' = Job("use", job.chunk) /\ UNCHANGED <<disk, cache, state, closing, failed>>
    BY <1>0, <1>T, <1>J, <1>K, <2>0, <2>3
  <2>4. \A i \in Victims : recent[i] \in Chunks
    BY <1>0 DEF Victims, CacheOK
  <2> QED
    BY <1>4, <2>1, <2>2, <2>3, <2>4 DEF Evict
<1>5. ASSUME Use PROVE TypeOK'
  <2>0. job.chunk \in Chunks /\ job' \in Jobs
        /\ UNCHANGED <<disk, level, temp, loaded, recent, state, closing, failed, checkpoint>>
    BY <1>J, <1>5 DEF Use, files
  <2>1. CASE UNCHANGED <<val, dirty>>
    BY <1>0, <1>T, <1>K, <2>0, <2>1 DEF cache
  <2>2. CASE val[job.chunk] < MaxChanges /\ val' = [val EXCEPT ![job.chunk] = @ + 1]
             /\ dirty' = dirty \cup {job.chunk} /\ job.chunk \in loaded
    <3>1. val' \in [Chunks -> Versions]
      BY <1>0, <2>0, <2>2 DEF CacheOK, Versions
    <3>2. CacheOK'
      BY <1>0, <2>0, <2>2, <3>1 DEF CacheOK, Listed, Once
    <3> QED
      BY <1>0, <1>T, <2>0, <3>2
  <2> QED
    BY <1>5, <2>1, <2>2 DEF Use, Phases
<1>6. ASSUME Open PROVE TypeOK'
  BY <1>0, <1>T, <1>J, <1>K, <1>6 DEF Open, files, Content, Items
<1>7. ASSUME Tick PROVE TypeOK'
  BY <1>0, <1>T, <1>K, <1>7 DEF Tick, files
<1>8. ASSUME SaveAll PROVE TypeOK'
  BY <1>0, <1>T, <1>J, <1>K, <1>8 DEF SaveAll, files
<1>9. ASSUME SaveDirty PROVE TypeOK'
  <2>0. UNCHANGED <<level, temp, checkpoint>>
    BY <1>9 DEF SaveDirty
  <2>1. ASSUME NEW c \in Chunks, c \in dirty, Saved(c),
               UNCHANGED <<loaded, val, recent, state, job, closing, failed>>
        PROVE  TypeOK'
    <3>1. disk' \in [Chunks -> Versions \cup {Absent, Damaged}] /\ dirty' = dirty \ {c}
      BY <2>1, SavedTypes
    <3>2. CacheOK'
      BY <1>0, <2>1, <3>1 DEF CacheOK, Listed, Once
    <3> QED
      BY <1>0, <1>T, <2>0, <2>1, <3>1, <3>2
  <2>2. ASSUME NEW c \in Chunks, SaveFails(c), Unwind PROVE TypeOK'
    BY <1>0, <1>T, <2>0, <2>2, UnwindTypes, SaveFailsTypes
  <2>3. CASE GoDown /\ UNCHANGED <<disk, failed>>
    BY <1>0, <1>T, <2>0, <2>3, GoDownTypes
  <2>4. CASE job' = Job("level", NoChunk) /\ UNCHANGED <<cache, state, closing, disk, failed>>
    BY <1>0, <1>T, <1>J, <1>K, <2>0, <2>4
  <2>5. dirty \subseteq Chunks
    BY <1>0 DEF CacheOK
  <2> QED
    BY <1>9, <2>1, <2>2, <2>3, <2>4, <2>5 DEF SaveDirty
<1>10. ASSUME WriteTemp PROVE TypeOK'
  <2>0. UNCHANGED <<disk, level, checkpoint>>
    BY <1>10 DEF WriteTemp
  <2>1. CASE temp' = state /\ job' = Job("rename", NoChunk)
             /\ UNCHANGED <<cache, state, closing, failed>>
    BY <1>0, <1>T, <1>J, <1>K, <2>0, <2>1
  <2>2. CASE temp' \in {temp, Damaged} /\ failed' = failed \cup {Level} /\ Unwind
    BY <1>0, <1>T, <2>0, <2>2, UnwindTypes DEF Items
  <2> QED
    BY <1>10, <2>1, <2>2 DEF WriteTemp
<1>11. ASSUME Rename PROVE TypeOK'
  <2>0. UNCHANGED disk /\ temp \in 0..MaxTicks
    BY <1>0, <1>11 DEF Rename, Phases
  <2>1. CASE level' = temp /\ temp' = Absent /\ checkpoint' = View /\ UNCHANGED failed
    <3>1. checkpoint' \in [Items -> Nat \cup {Damaged}]
      BY <2>1, ViewTypes
    <3>2. CASE Unwind
      BY <1>0, <1>T, <1>11, <2>0, <2>1, <3>1, <3>2, UnwindTypes
    <3>3. CASE job' = Idle /\ UNCHANGED <<cache, state, closing>>
      BY <1>0, <1>T, <1>J, <1>K, <1>11, <2>0, <2>1, <3>1, <3>3
    <3> QED
      BY <1>11, <2>1, <3>2, <3>3 DEF Rename
  <2>2. CASE failed' = failed \cup {Level} /\ Unwind /\ UNCHANGED <<level, temp, checkpoint>>
    BY <1>0, <1>T, <2>0, <2>2, UnwindTypes DEF Items
  <2> QED
    BY <1>11, <2>1, <2>2 DEF Rename
<1>12. ASSUME EndSession PROVE TypeOK'
  BY <1>0, <1>T, <1>12, UnwindTypes DEF EndSession, files
<1>13. ASSUME Crash PROVE TypeOK'
  BY <1>0, <1>T, <1>13, GoDownTypes DEF Crash, files
<1>14. ASSUME UNCHANGED vars PROVE TypeOK'
  BY <1>0, <1>T, <1>K, <1>14 DEF vars, cache
<1> QED
  BY <1>1, <1>2, <1>3, <1>4, <1>5, <1>6, <1>7, <1>8, <1>9, <1>10, <1>11, <1>12,
     <1>13, <1>14 DEF Next

-----------------------------------------------------------------------------
(* Phases *)

LEMMA UnwindPhases ==
    ASSUME TypeOK, Phases, Unwind, closing = 1 /\ failed' = {} => level' = state
    PROVE  Phases'
<1>1. closing \in 0..2
  BY DEF TypeOK
<1>2. CASE closing = 2
  BY <1>2 DEF Unwind, GoDown, Phases, Down, Job
<1>3. CASE closing # 2
  BY <1>1, <1>3 DEF Unwind, Phases, Job
<1> QED
  BY <1>2, <1>3

LEMMA PhasesStep == TypeOK /\ Phases /\ [Next]_vars => Phases'
<1> SUFFICES ASSUME TypeOK, Phases, [Next]_vars PROVE Phases'
  OBVIOUS
<1>0. closing \in 0..2 /\ failed \subseteq Items
  BY DEF TypeOK
<1>1. ASSUME NEW c \in Chunks, Request(c) PROVE Phases'
  <2>1. job = Idle /\ closing = 0 /\ UNCHANGED <<disk, level, temp, failed, checkpoint>>
    BY <1>1 DEF Request, Phases, files, Idle, Job
  <2>2. CASE Unwind
    BY <2>1, <2>2, UnwindPhases
  <2>3. CASE ~Unwind
    BY <1>1, <2>1, <2>3 DEF Request, Insert, Phases, Job, cache
  <2> QED
    BY <2>2, <2>3
<1>2. ASSUME NEW c \in Chunks, Unload(c) PROVE Phases'
  <2>1. job = Idle /\ closing = 0
    BY <1>2 DEF Unload, Phases, Idle, Job
  <2>2. CASE Unwind
    BY <2>1, <2>2, UnwindPhases
  <2>3. CASE UNCHANGED <<state, job, closing, failed>>
    BY <2>1, <2>3 DEF Phases, Idle, Job
  <2> QED
    BY <1>2, <2>2, <2>3 DEF Unload
<1>3. ASSUME Store PROVE Phases'
  <2>1. job.pc = "store" /\ closing = 0
    BY <1>3 DEF Store, Phases
  <2>2. CASE Unwind
    BY <2>1, <2>2, UnwindPhases
  <2>3. CASE Insert(job.chunk, 0) /\ job' = Job("evict", job.chunk) /\ UNCHANGED <<state, closing>>
    BY <2>1, <2>3 DEF Phases, Job, Insert
  <2> QED
    BY <1>3, <2>2, <2>3 DEF Store
<1>4. ASSUME Evict PROVE Phases'
  <2>1. job.pc = "evict" /\ closing = 0 /\ job.chunk \in loaded
    BY <1>4 DEF Evict, Phases
  <2>2. CASE Unwind
    BY <2>1, <2>2, UnwindPhases
  <2>3. CASE job' = Job("use", job.chunk) /\ UNCHANGED <<disk, cache, state, closing, failed>>
    BY <2>1, <2>3 DEF Phases, Job, cache
  <2>4. ASSUME NEW i \in Victims, Erase(recent[i]), UNCHANGED <<state, job, closing, failed>>
        PROVE  Phases'
    <3>1. recent[i] # job.chunk
      BY <2>1, <2>4 DEF Victims, Held
    <3> QED
      BY <2>1, <2>4, <3>1 DEF Phases, Erase
  <2> QED
    BY <1>4, <2>2, <2>3, <2>4 DEF Evict
<1>5. ASSUME Use PROVE Phases'
  BY <1>5 DEF Use, Phases, Idle, Job, files
<1>6. ASSUME Open PROVE Phases'
  BY <1>6 DEF Open, Phases, Idle, Job, Down, files, cache
<1>7. ASSUME Tick PROVE Phases'
  BY <1>7 DEF Tick, Phases, Idle, Job, files, cache
<1>8. ASSUME SaveAll PROVE Phases'
  BY <1>8 DEF SaveAll, Phases, Idle, Job, files, cache
<1>9. ASSUME SaveDirty PROVE Phases'
  <2>1. job.pc = "chunks" /\ UNCHANGED level
    BY <1>9 DEF SaveDirty
  <2>2. ASSUME NEW c \in dirty, SaveFails(c), Unwind PROVE Phases'
    <3>1. failed' # {}
      BY <2>2 DEF SaveFails
    <3> QED
      BY <2>2, <3>1, UnwindPhases
  <2>3. CASE UNCHANGED <<state, job, closing, failed>>
    BY <2>1, <2>3 DEF Phases
  <2>4. CASE GoDown
    BY <2>4 DEF GoDown, Phases, Down, Job
  <2>5. CASE dirty = {} /\ closing # 2 /\ job' = Job("level", NoChunk)
             /\ UNCHANGED <<cache, state, closing>>
    BY <2>1, <2>5 DEF Phases, Job, cache
  <2> QED
    BY <1>9, <2>2, <2>3, <2>4, <2>5 DEF SaveDirty
<1>10. ASSUME WriteTemp PROVE Phases'
  <2>1. job.pc = "level"
    BY <1>10 DEF WriteTemp
  <2>2. CASE failed' = failed \cup {Level} /\ Unwind
    BY <2>2, UnwindPhases
  <2>3. CASE temp' = state /\ job' = Job("rename", NoChunk)
             /\ UNCHANGED <<cache, state, closing, failed>>
    BY <2>1, <2>3 DEF Phases, Job, cache
  <2> QED
    BY <1>10, <2>2, <2>3 DEF WriteTemp
<1>11. ASSUME Rename PROVE Phases'
  <2>1. job.pc = "rename" /\ temp = state
    BY <1>11 DEF Rename, Phases
  <2>2. CASE failed' = failed \cup {Level} /\ Unwind
    BY <2>2, UnwindPhases
  <2>3. CASE level' = temp /\ Unwind
    BY <2>1, <2>3, UnwindPhases
  <2>4. CASE closing = 0 /\ job' = Idle /\ UNCHANGED <<cache, state, closing>>
    BY <2>1, <2>4 DEF Phases, Job, Idle, cache
  <2> QED
    BY <1>11, <2>2, <2>3, <2>4 DEF Rename
<1>12. ASSUME EndSession PROVE Phases'
  <2>1. closing = 0
    BY <1>12 DEF EndSession, Phases, Idle, Job
  <2> QED
    BY <1>12, <2>1, UnwindPhases DEF EndSession
<1>13. ASSUME Crash PROVE Phases'
  BY <1>13 DEF Crash, GoDown, Phases, Down, Job
<1>14. ASSUME UNCHANGED vars PROVE Phases'
  BY <1>14 DEF vars, Phases
<1> QED
  BY <1>1, <1>2, <1>3, <1>4, <1>5, <1>6, <1>7, <1>8, <1>9, <1>10, <1>11, <1>12,
     <1>13, <1>14 DEF Next

-----------------------------------------------------------------------------
(* Chunks *)

\* The parts of the type a step on a chunk needs.
LEMMA ChunkTypes ==
    TypeOK => /\ dirty \subseteq loaded /\ loaded \subseteq Chunks
              /\ \A c \in Chunks : val[c] \in Nat /\ val[c] \in Versions
              /\ \A c \in Chunks : disk[c] \in Nat \cup {Absent, Damaged}
              /\ \A c \in Chunks : checkpoint[c] \in Nat \cup {Damaged}
              /\ level \in Nat \cup {Absent} /\ state \in Nat
              /\ checkpoint[Level] \in Nat \cup {Damaged}
              /\ Absent # Damaged /\ Absent \notin Nat /\ Damaged \notin Nat
BY StoreAssumption DEF TypeOK, Versions, Items

LEMMA UnwindChunk ==
    ASSUME TypeOK, Unwind, NEW c \in Chunks, NEW d, NEW p,
           ChunkRight(d, p, c \in loaded, c \in dirty, val[c])
    PROVE  ChunkRight(d, p, c \in loaded', c \in dirty', val'[c])
BY DEF Unwind, GoDown, cache, ChunkRight

\* A save that fails leaves a clean chunk and one that is not loaded alone,
\* unless the latter has never been stored.
LEMMA FailedSave ==
    ASSUME TypeOK, ChunksRight, NEW c \in Chunks, SaveFails(c), NEW b \in Chunks,
           c \in dirty \/ (c \notin loaded /\ disk[c] = Absent)
    PROVE  \/ disk'[b] = disk[b]
           \/ b = c /\ disk'[b] = val[b]
           \/ b = c /\ disk'[b] = Damaged
           \/ /\ disk'[b] = Damaged
              /\ b \notin loaded /\ disk[b] = Absent /\ c \notin loaded
<1>1. disk \in [Chunks -> Versions \cup {Absent, Damaged}]
  BY DEF TypeOK
<1>2. \A a \in loaded : a \in Chunks /\ disk[a] # Absent
  BY DEF ChunksRight, ChunkRight, TypeOK
<1> QED
  BY <1>1, <1>2 DEF SaveFails

LEMMA FailedChunks ==
    ASSUME TypeOK, ChunksRight, NEW c \in Chunks, SaveFails(c), Unwind, UNCHANGED checkpoint,
           c \in dirty \/ (c \notin loaded /\ disk[c] = Absent)
    PROVE  ChunksRight'
<1> SUFFICES ASSUME NEW b \in Chunks
             PROVE  ChunkRight(disk[b], checkpoint[b], b \in loaded, b \in dirty, val[b])'
  BY DEF ChunksRight
<1>1. ChunkRight(disk[b], checkpoint[b], b \in loaded, b \in dirty, val[b])
  BY DEF ChunksRight
<1>2. ChunkRight(disk'[b], checkpoint[b], b \in loaded, b \in dirty, val[b])
  <2>1. CASE disk'[b] = disk[b]
    BY <1>1, <2>1
  <2>2. CASE b = c /\ disk'[b] = val[b]
    BY <1>1, <2>2, ChunkTypes DEF ChunkRight, Content
  <2>3. CASE disk'[b] = Damaged /\ (b = c \/ (b \notin loaded /\ disk[b] = Absent))
    BY <1>1, <2>3, ChunkTypes DEF ChunkRight
  <2> QED
    BY <2>1, <2>2, <2>3, FailedSave
<1> QED
  BY <1>2, UnwindChunk

\* A save that succeeds, whether or not the chunk is then erased.
LEMMA SavedChunks ==
    ASSUME TypeOK, ChunksRight, NEW c \in Chunks, UNCHANGED checkpoint,
           \/ c \in dirty /\ Saved(c)
           \/ c \notin dirty /\ UNCHANGED <<disk, dirty>>,
           UNCHANGED <<loaded, val>> \/ Erase(c)
    PROVE  ChunksRight'
<1> SUFFICES ASSUME NEW b \in Chunks
             PROVE  ChunkRight(disk[b], checkpoint[b], b \in loaded, b \in dirty, val[b])'
  BY DEF ChunksRight
<1>1. ChunkRight(disk[b], checkpoint[b], b \in loaded, b \in dirty, val[b])
  BY DEF ChunksRight
<1>2. disk \in [Chunks -> Versions \cup {Absent, Damaged}] /\ val \in [Chunks -> Versions]
  BY DEF TypeOK
<1>3. CASE b # c
  <2>1. UNCHANGED <<disk[b], b \in loaded, b \in dirty, val[b]>>
    BY <1>2, <1>3 DEF Saved, Erase
  <2> QED
    BY <1>1, <2>1
<1>4. CASE b = c
  <2>1. disk'[b] = (IF b \in dirty THEN val[b] ELSE disk[b]) /\ b \notin dirty'
    BY <1>2, <1>4 DEF Saved
  <2>2. CASE UNCHANGED <<loaded, val>>
    BY <1>1, <2>1, <2>2, ChunkTypes DEF ChunkRight, Content
  <2>3. CASE Erase(c)
    <3>1. b \notin loaded' /\ val'[b] = 0
      BY <1>2, <1>4, <2>3 DEF Erase
    <3> QED
      BY <1>1, <2>1, <3>1, ChunkTypes DEF ChunkRight, Content
  <2> QED
    BY <2>2, <2>3
<1> QED
  BY <1>3, <1>4

LEMMA SameChunks ==
    ChunksRight /\ UNCHANGED <<disk, checkpoint, loaded, dirty, val>> => ChunksRight'
BY DEF ChunksRight

LEMMA UnwoundChunks ==
    ASSUME TypeOK, ChunksRight, Unwind, UNCHANGED <<disk, checkpoint>>
    PROVE  ChunksRight'
BY UnwindChunk DEF ChunksRight

\* A chunk that is entered is on disk as it is entered.
LEMMA InsertedChunks ==
    ASSUME TypeOK, ChunksRight, NEW c \in Chunks, NEW x \in Versions,
           c \notin loaded, Insert(c, x), UNCHANGED checkpoint,
           \/ disk[c] = x /\ UNCHANGED disk
           \/ disk[c] = Absent /\ x = 0 /\ disk' = [disk EXCEPT ![c] = x]
    PROVE  ChunksRight'
<1> SUFFICES ASSUME NEW b \in Chunks
             PROVE  ChunkRight(disk[b], checkpoint[b], b \in loaded, b \in dirty, val[b])'
  BY DEF ChunksRight
<1>1. ChunkRight(disk[b], checkpoint[b], b \in loaded, b \in dirty, val[b])
  BY DEF ChunksRight
<1>2. disk \in [Chunks -> Versions \cup {Absent, Damaged}] /\ val \in [Chunks -> Versions]
  BY DEF TypeOK
<1>3. CASE b # c
  <2>1. UNCHANGED <<disk[b], b \in loaded, b \in dirty, val[b]>>
    BY <1>2, <1>3 DEF Insert
  <2> QED
    BY <1>1, <2>1
<1>4. CASE b = c
  <2>1. disk'[b] = x /\ val'[b] = x /\ b \in loaded' /\ b \notin dirty' /\ x \in Nat
    BY <1>2, <1>4, ChunkTypes DEF Insert, Versions
  <2>2. checkpoint[b] # Damaged /\ checkpoint[b] <= x
    BY <1>1, <1>4, <2>1, ChunkTypes DEF ChunkRight, Content
  <2> QED
    BY <2>1, <2>2, ChunkTypes DEF ChunkRight, Content
<1> QED
  BY <1>3, <1>4

LEMMA ChunksStep == TypeOK /\ Phases /\ ChunksRight /\ [Next]_vars => ChunksRight'
<1> SUFFICES ASSUME TypeOK, Phases, ChunksRight, [Next]_vars PROVE ChunksRight'
  OBVIOUS
<1>J. job.pc \in {"store", "evict", "use"} => job.chunk \in Chunks
  BY DEF TypeOK, Jobs
<1>1. ASSUME NEW c \in Chunks, Request(c) PROVE ChunksRight'
  <2>1. UNCHANGED <<disk, checkpoint>>
    BY <1>1 DEF Request, files
  <2>2. CASE UNCHANGED <<loaded, val, dirty>>
    BY <2>1, <2>2, SameChunks
  <2>3. CASE c \notin loaded /\ disk[c] \in Versions /\ Insert(c, disk[c])
    BY <2>1, <2>3, InsertedChunks
  <2>4. CASE Unwind
    BY <2>1, <2>4, UnwoundChunks
  <2> QED
    BY <1>1, <2>2, <2>3, <2>4 DEF Request, cache
<1>2. ASSUME NEW c \in Chunks, Unload(c) PROVE ChunksRight'
  <2>1. UNCHANGED checkpoint
    BY <1>2 DEF Unload
  <2>2. CASE c \in dirty /\ SaveFails(c) /\ Unwind
    BY <2>1, <2>2, FailedChunks
  <2>3. CASE (IF c \in dirty THEN Saved(c) ELSE UNCHANGED <<disk, dirty>>) /\ Erase(c)
    BY <2>1, <2>3, SavedChunks
  <2> QED
    BY <1>2, <2>2, <2>3 DEF Unload
<1>3. ASSUME Store PROVE ChunksRight'
  <2>1. /\ job.chunk \in Chunks /\ job.chunk \notin loaded /\ disk[job.chunk] = Absent
        /\ UNCHANGED checkpoint
    BY <1>J, <1>3 DEF Store, Phases
  <2>2. CASE SaveFails(job.chunk) /\ Unwind
    BY <2>1, <2>2, FailedChunks
  <2>3. CASE disk' = [disk EXCEPT ![job.chunk] = 0] /\ Insert(job.chunk, 0)
    <3>1. 0 \in Versions
      BY StoreAssumption DEF Versions
    <3> QED
      BY <2>1, <2>3, <3>1, InsertedChunks
  <2> QED
    BY <1>3, <2>2, <2>3 DEF Store
<1>4. ASSUME Evict PROVE ChunksRight'
  <2>1. UNCHANGED checkpoint
    BY <1>4 DEF Evict
  <2>2. \A i \in Victims : recent[i] \in Chunks
    BY DEF Victims, TypeOK
  <2>3. ASSUME NEW c \in Chunks, c \in dirty, SaveFails(c), Unwind PROVE ChunksRight'
    BY <2>1, <2>3, FailedChunks
  <2>4. ASSUME NEW c \in Chunks, Erase(c),
               IF c \in dirty THEN Saved(c) ELSE UNCHANGED <<disk, dirty>>
        PROVE  ChunksRight'
    BY <2>1, <2>4, SavedChunks
  <2>5. CASE UNCHANGED <<disk, cache>>
    BY <2>1, <2>5, SameChunks DEF cache
  <2> QED
    BY <1>4, <2>2, <2>3, <2>4, <2>5 DEF Evict
<1>5. ASSUME Use PROVE ChunksRight'
  <2>1. job.chunk \in loaded /\ UNCHANGED <<disk, checkpoint, loaded>>
    BY <1>5 DEF Use, Phases, files
  <2>2. CASE UNCHANGED <<val, dirty>>
    BY <2>1, <2>2, SameChunks
  <2>3. CASE val' = [val EXCEPT ![job.chunk] = @ + 1] /\ dirty' = dirty \cup {job.chunk}
    <3> SUFFICES ASSUME NEW b \in Chunks
                 PROVE  ChunkRight(disk[b], checkpoint[b], b \in loaded, b \in dirty, val[b])'
      BY DEF ChunksRight
    <3>1. ChunkRight(disk[b], checkpoint[b], b \in loaded, b \in dirty, val[b])
      BY DEF ChunksRight
    <3>2. val \in [Chunks -> Versions]
      BY DEF TypeOK
    <3>3. CASE b # job.chunk
      <4>1. UNCHANGED <<b \in dirty, val[b]>>
        BY <2>3, <3>2, <3>3
      <4> QED
        BY <2>1, <3>1, <4>1
    <3>4. CASE b = job.chunk
      <4>1. val'[b] = val[b] + 1 /\ b \in loaded /\ b \in dirty'
        BY <2>1, <2>3, <3>2, <3>4
      <4> QED
        BY <2>1, <3>1, <4>1, ChunkTypes DEF ChunkRight
    <3> QED
      BY <3>3, <3>4
  <2> QED
    BY <1>5, <2>2, <2>3 DEF Use
<1>6. ASSUME Open \/ Tick \/ SaveAll PROVE ChunksRight'
  BY <1>6, SameChunks DEF Open, Tick, SaveAll, files, cache
<1>7. ASSUME SaveDirty PROVE ChunksRight'
  <2>1. UNCHANGED checkpoint /\ dirty \subseteq Chunks
    BY <1>7 DEF SaveDirty, TypeOK
  <2>2. ASSUME NEW c \in dirty, SaveFails(c), Unwind PROVE ChunksRight'
    BY <2>1, <2>2, FailedChunks
  <2>3. ASSUME NEW c \in dirty, Saved(c), UNCHANGED <<loaded, val>> PROVE ChunksRight'
    BY <2>1, <2>3, SavedChunks
  <2>4. CASE dirty = {} /\ closing = 2 /\ GoDown /\ UNCHANGED disk
    BY <2>1, <2>4, UnwoundChunks DEF Unwind
  <2>5. CASE UNCHANGED <<cache, disk>>
    BY <2>1, <2>5, SameChunks DEF cache
  <2> QED
    BY <1>7, <2>2, <2>3, <2>4, <2>5 DEF SaveDirty
<1>8. ASSUME WriteTemp PROVE ChunksRight'
  BY <1>8, SameChunks, UnwoundChunks DEF WriteTemp, cache
<1>9. ASSUME Rename PROVE ChunksRight'
  <2>1. UNCHANGED disk
    BY <1>9 DEF Rename
  <2>2. CASE Unwind /\ UNCHANGED checkpoint
    BY <2>1, <2>2, UnwoundChunks
  <2>3. CASE checkpoint' = View /\ (Unwind \/ UNCHANGED cache)
    <3> SUFFICES ASSUME NEW b \in Chunks
                 PROVE  ChunkRight(disk[b], checkpoint[b], b \in loaded, b \in dirty, val[b])'
      BY DEF ChunksRight
    <3>1. ChunkRight(disk[b], checkpoint[b], b \in loaded, b \in dirty, val[b])
      BY DEF ChunksRight
    <3>2. dirty = {}
      BY <1>9 DEF Rename, Phases
    <3>3. checkpoint'[b] = (IF b \in loaded THEN val[b] ELSE Content(disk[b]))
      BY <2>3, StoreAssumption DEF View, Items
    <3>4. ChunkRight(disk[b], checkpoint'[b], b \in loaded, b \in dirty, val[b])
      BY <3>1, <3>2, <3>3, ChunkTypes DEF ChunkRight, Content
    <3>5. CASE Unwind
      BY <2>1, <3>4, <3>5, UnwindChunk
    <3>6. CASE UNCHANGED cache
      BY <2>1, <3>4, <3>6 DEF cache
    <3> QED
      BY <2>3, <3>5, <3>6
  <2> QED
    BY <1>9, <2>2, <2>3 DEF Rename
<1>10. ASSUME EndSession PROVE ChunksRight'
  BY <1>10, UnwoundChunks DEF EndSession, files
<1>11. ASSUME Crash PROVE ChunksRight'
  BY <1>11 DEF Crash, GoDown, files, ChunksRight, ChunkRight
<1>12. ASSUME UNCHANGED vars PROVE ChunksRight'
  BY <1>12, SameChunks DEF vars
<1> QED
  BY <1>1, <1>2, <1>3, <1>4, <1>5, <1>6, <1>7, <1>8, <1>9, <1>10, <1>11, <1>12 DEF Next

LEMMA LevelStep == TypeOK /\ Phases /\ LevelRight /\ [Next]_vars => LevelRight'
<1> SUFFICES ASSUME TypeOK, Phases, LevelRight, [Next]_vars PROVE LevelRight'
  OBVIOUS
<1>0. level \in Nat \cup {Absent} /\ state \in Nat /\ checkpoint[Level] \in Nat \cup {Damaged}
      /\ Absent \notin Nat /\ Damaged \notin Nat /\ (job.pc = "down" <=> job = Down)
  BY ChunkTypes DEF TypeOK, Jobs, Down, Job
<1>1. Unwind => job'.pc = "down" \/ UNCHANGED state
  BY DEF Unwind, GoDown, Down, Job
<1>2. CASE UNCHANGED <<level, checkpoint>>
  <2>1. CASE job # Down /\ (UNCHANGED state \/ state' = state + 1 \/ job'.pc = "down")
    BY <1>0, <1>2, <2>1 DEF LevelRight, Content
  <2>2. CASE UNCHANGED <<job, state>>
    BY <1>0, <1>2, <2>2 DEF LevelRight
  <2>3. CASE Open
    BY <1>0, <1>2, <2>3 DEF LevelRight, Open, Content
  <2>4. CASE Crash
    BY <1>0, <1>2, <2>4 DEF LevelRight, Crash, GoDown, Down, Job
  <2>5. ASSUME NEW c \in Chunks, Request(c) \/ Unload(c) PROVE LevelRight'
    BY <1>1, <2>1, <2>5 DEF Request, Unload, Idle, Down, Job
  <2>6. CASE Store \/ Evict \/ Use \/ Tick \/ SaveAll \/ SaveDirty \/ WriteTemp \/ Rename \/ EndSession
    <3>1. job # Down
      BY <2>6 DEF Store, Evict, Use, Tick, SaveAll, SaveDirty, WriteTemp, Rename, EndSession,
                  Idle, Down, Job
    <3>2. UNCHANGED state \/ state' = state + 1 \/ job'.pc = "down"
      BY <1>1, <2>6 DEF Store, Evict, Use, Tick, SaveAll, SaveDirty, WriteTemp, Rename,
                        EndSession, GoDown, cache, Down, Job
    <3> QED
      BY <2>1, <3>1, <3>2
  <2> QED
    BY <2>2, <2>3, <2>4, <2>5, <2>6 DEF Next, vars
<1>3. CASE Rename /\ level' = temp /\ checkpoint' = View
  <2>1. level' = state /\ checkpoint'[Level] = state
    BY <1>3, <1>0 DEF Rename, Phases, View, Items, Down, Job
  <2>2. UNCHANGED state \/ job'.pc = "down"
    BY <1>1, <1>3 DEF Rename
  <2> QED
    BY <1>0, <2>1, <2>2 DEF LevelRight, Content
<1>4. CASE UNCHANGED vars
  BY <1>4 DEF vars, LevelRight
<1> QED
  BY <1>2, <1>3, <1>4 DEF Next, Request, Unload, Store, Evict, Use, Open, Tick, SaveAll,
     SaveDirty, WriteTemp, Rename, EndSession, Crash, files

-----------------------------------------------------------------------------
(* The limit of the cache *)

LEMMA FewChunks ==
    ASSUME NEW S \in SUBSET Chunks, NEW x, S \subseteq {Spawn, x}
    PROVE  Cardinality(S) <= Limit \/ Cardinality(S \ {Spawn}) = 1
<1>1. CASE S \ {Spawn} = {}
  <2>1. S = {} \/ S = {Spawn}
    BY <1>1
  <2>2. Cardinality(S) \in {0, 1}
    BY <2>1, FS_EmptySet, FS_Singleton
  <2> QED
    BY <2>2, StoreAssumption
<1>2. CASE S \ {Spawn} # {}
  <2>1. S \ {Spawn} = {x}
    BY <1>2
  <2> QED
    BY <2>1, FS_Singleton
<1> QED
  BY <1>1, <1>2

LEMMA OneChunkLess ==
    ASSUME NEW S \in SUBSET Chunks, NEW c \in S, c # Spawn,
           Cardinality(S) <= Limit \/ Cardinality(S \ {Spawn}) = 1
    PROVE  Cardinality(S \ {c}) <= Limit \/ Cardinality((S \ {c}) \ {Spawn}) = 1
<1>1. IsFiniteSet(S) /\ IsFiniteSet(S \ {Spawn})
  BY StoreAssumption, FS_Subset
<1>2. CASE Cardinality(S) <= Limit
  <2>1. Cardinality(S \ {c}) = Cardinality(S) - 1 /\ Cardinality(S) \in Nat
    BY <1>1, FS_RemoveElement, FS_CardinalityType
  <2> QED
    BY <1>2, <2>1, StoreAssumption
<1>3. CASE Cardinality(S \ {Spawn}) = 1
  <2>1. PICK y : S \ {Spawn} = {y}
    BY <1>1, <1>3, FS_Singleton
  <2>2. S \ {c} \subseteq {Spawn, Spawn}
    BY <2>1
  <2> QED
    BY <2>2, FewChunks
<1> QED
  BY <1>2, <1>3

LEMMA BoundedStep == TypeOK /\ Phases /\ Bounded /\ [Next]_vars => Bounded'
<1> SUFFICES ASSUME TypeOK, Phases, Bounded, [Next]_vars PROVE Bounded'
  OBVIOUS
<1>0. loaded \subseteq Chunks /\ closing \in 0..2
  BY DEF TypeOK
<1>1. Unwind => Bounded'
  <2>1. CASE closing = 2 /\ Unwind
    BY <2>1 DEF Unwind, GoDown, Down, Job, Bounded
  <2>2. CASE closing # 2 /\ Unwind
    BY <1>0, <2>2 DEF Unwind, Job, Bounded
  <2> QED
    BY <2>1, <2>2
<1>2. WithinLimit /\ UNCHANGED loaded => Bounded'
  BY DEF Bounded, WithinLimit
<1>3. job'.pc \in {"evict", "down"} => Bounded'
  BY DEF Bounded
<1>4. UNCHANGED <<loaded, job, closing>> => Bounded'
  BY DEF Bounded, WithinLimit
<1>5. job = Idle => WithinLimit /\ closing = 0
  BY DEF Bounded, Idle, Job, Phases
<1>6. ASSUME NEW c \in Chunks, Request(c) PROVE Bounded'
  BY <1>1, <1>2, <1>3, <1>5, <1>6 DEF Request, cache, Job
<1>7. ASSUME NEW c \in Chunks, Unload(c) PROVE Bounded'
  <2>1. c \in loaded /\ c # Spawn /\ WithinLimit
    BY <1>5, <1>7 DEF Unload, Held
  <2>2. CASE Erase(c)
    <3>1. loaded' = loaded \ {c}
      BY <2>2 DEF Erase
    <3>2. WithinLimit'
      BY <1>0, <2>1, <3>1, OneChunkLess DEF WithinLimit
    <3> QED
      BY <3>2 DEF Bounded
  <2> QED
    BY <1>1, <1>7, <2>2 DEF Unload
<1>8. ASSUME Store PROVE Bounded'
  BY <1>1, <1>3, <1>8 DEF Store, Job
<1>9. ASSUME Evict PROVE Bounded'
  <2>1. job.pc = "evict"
    BY <1>9 DEF Evict
  <2>2. CASE UNCHANGED job
    BY <1>3, <2>1, <2>2
  <2>3. CASE ~(OverLimit /\ Victims # {}) /\ UNCHANGED cache
    <3>1. CASE ~OverLimit
      <4>1. Cardinality(loaded) <= Limit
        BY <1>0, <3>1, StoreAssumption, FS_Subset, FS_CardinalityType DEF OverLimit
      <4> QED
        BY <1>2, <2>3, <4>1 DEF WithinLimit, cache
    <3>2. CASE Victims = {}
      <4>1. loaded \subseteq {Spawn, job.chunk}
        BY <3>2 DEF Victims, Held, TypeOK
      <4>2. WithinLimit
        BY <1>0, <4>1, FewChunks DEF WithinLimit
      <4> QED
        BY <1>2, <2>3, <4>2 DEF cache
    <3> QED
      BY <2>3, <3>1, <3>2
  <2> QED
    BY <1>1, <1>9, <2>2, <2>3 DEF Evict
<1>10. ASSUME Use PROVE Bounded'
  <2>1. WithinLimit
    BY <1>10 DEF Use, Bounded
  <2> QED
    BY <1>2, <1>10, <2>1 DEF Use
<1>11. ASSUME Open PROVE Bounded'
  <2>1. loaded = {}
    BY <1>11 DEF Open, Phases, Down, Job
  <2>2. WithinLimit
    BY <2>1, StoreAssumption, FS_EmptySet DEF WithinLimit
  <2> QED
    BY <1>2, <1>11, <2>2 DEF Open, cache
<1>12. ASSUME Tick \/ SaveAll PROVE Bounded'
  BY <1>2, <1>5, <1>12 DEF Tick, SaveAll, cache
<1>13. ASSUME SaveDirty PROVE Bounded'
  <2>1. GoDown => Bounded'
    BY <1>3 DEF GoDown, Down, Job
  <2>2. CASE closing # 2 /\ job' = Job("level", NoChunk) /\ UNCHANGED <<cache, closing>>
    BY <1>13, <2>2 DEF SaveDirty, Bounded, WithinLimit, cache, Job
  <2> QED
    BY <1>1, <1>4, <1>13, <2>1, <2>2 DEF SaveDirty
<1>14. ASSUME WriteTemp PROVE Bounded'
  <2>1. CASE job' = Job("rename", NoChunk) /\ UNCHANGED <<cache, closing>>
    BY <1>14, <2>1 DEF WriteTemp, Bounded, WithinLimit, cache, Job
  <2> QED
    BY <1>1, <1>14, <2>1 DEF WriteTemp
<1>15. ASSUME Rename PROVE Bounded'
  <2>1. CASE closing = 0 /\ UNCHANGED cache
    BY <1>2, <1>15, <2>1 DEF Rename, Bounded, cache
  <2> QED
    BY <1>1, <1>15, <2>1 DEF Rename
<1>16. ASSUME EndSession PROVE Bounded'
  BY <1>1, <1>16 DEF EndSession
<1>17. ASSUME Crash PROVE Bounded'
  BY <1>3, <1>17 DEF Crash, GoDown, Down, Job
<1>18. ASSUME UNCHANGED vars PROVE Bounded'
  BY <1>4, <1>18 DEF vars
<1> QED
  BY <1>6, <1>7, <1>8, <1>9, <1>10, <1>11, <1>12, <1>13, <1>14, <1>15, <1>16,
     <1>17, <1>18 DEF Next

-----------------------------------------------------------------------------
(* The invariant, and what follows from it *)

LEMMA Initially == Init => IInv
<1> SUFFICES ASSUME Init PROVE Phases /\ ChunksRight /\ LevelRight /\ Bounded
  BY TypeInit DEF IInv
<1>1. Phases /\ Bounded
  BY DEF Init, Phases, Bounded, Down, Job
<1>2. ChunksRight /\ LevelRight
  BY StoreAssumption DEF Init, ChunksRight, ChunkRight, LevelRight, Content, Items, Down, Job
<1> QED
  BY <1>1, <1>2

LEMMA Inductive == IInv /\ [Next]_vars => IInv'
BY TypeStep, PhasesStep, ChunksStep, LevelStep, BoundedStep DEF IInv

LEMMA Invariant == Spec => []IInv
<1>1. Init => IInv
  BY Initially
<1>2. IInv /\ [Next]_vars => IInv'
  BY Inductive
<1> QED
  BY <1>1, <1>2, PTL DEF Spec

\* The type of a World's state, through failing saves and crashes.
THEOREM StoreTypeCorrect == Spec => []TypeOK
<1>1. IInv => TypeOK
  BY DEF IInv
<1> QED
  BY <1>1, Invariant, PTL

\* A chunk that is dropped because its dirty flag is clear is on disk as it is
\* in memory, whatever failed before; and between calls the cache is over its
\* limit only with the held chunk and the one last asked for.
THEOREM CacheSoundCorrect == Spec => []CacheSound
<1>1. IInv => CacheSound
  <2> SUFFICES ASSUME IInv PROVE CacheSound
    OBVIOUS
  <2>1. \A c \in loaded \ dirty : disk[c] = val[c]
    BY DEF IInv, TypeOK, ChunksRight, ChunkRight
  <2>2. job = Idle => WithinLimit
    BY DEF IInv, Bounded, Idle, Job
  <2> QED
    BY <2>1, <2>2 DEF CacheSound, WithinLimit
<1> QED
  BY <1>1, Invariant, PTL

\* Neither an eviction nor an unload drops a chunk someone holds a handle to;
\* only the teardown does.
THEOREM HandlesStayLoadedCorrect == Spec => HandlesStayLoaded
<1>1. IInv /\ [Next]_vars => [\A c \in Held : job'.pc # "down" => c \in loaded']_vars
  <2> SUFFICES ASSUME IInv, [Next]_vars, NEW c \in Held, job'.pc # "down" PROVE c \in loaded'
    OBVIOUS
  <2>0. c \in loaded
    BY DEF Held
  <2>1. GoDown => job'.pc = "down"
    BY DEF GoDown, Down, Job
  <2>2. Unwind => c \in loaded'
    BY <2>0, <2>1 DEF Unwind, cache
  <2>3. UNCHANGED loaded \/ UNCHANGED cache => c \in loaded'
    BY <2>0 DEF cache
  <2>4. ASSUME NEW b \in Chunks, Request(b) PROVE c \in loaded'
    BY <2>0, <2>2, <2>3, <2>4 DEF Request, Insert
  <2>5. ASSUME NEW b \in Chunks, Unload(b) PROVE c \in loaded'
    BY <2>0, <2>2, <2>5 DEF Unload, Erase
  <2>6. CASE Store
    BY <2>0, <2>2, <2>6 DEF Store, Insert
  <2>7. CASE Evict
    BY <2>0, <2>2, <2>3, <2>7 DEF Evict, Erase, Victims
  <2>8. CASE SaveDirty
    BY <2>1, <2>2, <2>3, <2>8 DEF SaveDirty
  <2>9. CASE WriteTemp \/ Rename \/ EndSession
    BY <2>2, <2>3, <2>9 DEF WriteTemp, Rename, EndSession
  <2>10. CASE Use \/ Open \/ Tick \/ SaveAll \/ UNCHANGED vars
    BY <2>3, <2>10 DEF Use, Open, Tick, SaveAll, vars
  <2>11. CASE Crash
    BY <2>1, <2>11 DEF Crash
  <2> QED
    BY <2>4, <2>5, <2>6, <2>7, <2>8, <2>9, <2>10, <2>11 DEF Next
<1> QED
  BY <1>1, Invariant, PTL DEF Spec, HandlesStayLoaded

-----------------------------------------------------------------------------
(* What the session sees *)

LEMMA ViewAt ==
    /\ View = [i \in Items |-> View[i]]
    /\ View[Level] = IF job = Down THEN Content(level) ELSE state
    /\ \A c \in Chunks : View[c] = IF c \in loaded THEN val[c] ELSE Content(disk[c])
BY StoreAssumption DEF View, Items

LEMMA ViewAtNext ==
    /\ View' = [i \in Items |-> View'[i]]
    /\ View'[Level] = IF job' = Down THEN Content(level') ELSE state'
    /\ \A c \in Chunks : View'[c] = IF c \in loaded' THEN val'[c] ELSE Content(disk'[c])
BY StoreAssumption DEF View, Items

LEMMA SameView ==
    ASSUME View'[Level] = View[Level], \A c \in Chunks : View'[c] = View[c]
    PROVE  View' = View
BY ViewAt, ViewAtNext DEF Items

LEMMA UnwindNotDown ==
    ASSUME Unwind, closing # 2, job # Down
    PROVE  job' # Down /\ UNCHANGED <<loaded, val, state>>
BY DEF Unwind, Job, Down, cache

\* Saving a chunk and dropping it do not show.
LEMMA SavedView ==
    ASSUME IInv, NEW c \in Chunks, c \in loaded,
           \/ c \in dirty /\ Saved(c)
           \/ c \notin dirty /\ UNCHANGED <<disk, dirty>>,
           UNCHANGED <<loaded, val>> \/ Erase(c),
           UNCHANGED <<job, state>>, job # Down
    PROVE  View' = View
<1>1. View'[Level] = View[Level]
  BY ViewAt, ViewAtNext
<1>2. ASSUME NEW b \in Chunks PROVE View'[b] = View[b]
  <2>1. ChunkRight(disk[b], checkpoint[b], b \in loaded, b \in dirty, val[b])
    BY DEF IInv, ChunksRight
  <2>2. disk \in [Chunks -> Versions \cup {Absent, Damaged}] /\ val \in [Chunks -> Versions]
        /\ val[b] \in Nat /\ Absent \notin Nat
    BY ChunkTypes DEF IInv, TypeOK
  <2>3. CASE b = c
    <3>1. disk'[b] = val[b]
      BY <2>1, <2>2, <2>3 DEF Saved, ChunkRight
    <3> QED
      BY <2>2, <2>3, <3>1, ViewAt, ViewAtNext DEF Erase, Content
  <2>4. CASE b # c
    <3>1. UNCHANGED <<disk[b], b \in loaded, val[b]>>
      BY <2>2, <2>4 DEF Saved, Erase
    <3> QED
      BY <3>1, ViewAt, ViewAtNext
  <2> QED
    BY <2>3, <2>4
<1> QED
  BY <1>1, <1>2, SameView

\* A save that fails while the session goes on shows only as chunks never
\* changed being damaged.
LEMMA FailedView ==
    ASSUME IInv, NEW c \in Chunks, SaveFails(c), Unwind, closing # 2, job # Down,
           c \in dirty \/ (c \notin loaded /\ disk[c] = Absent)
    PROVE  /\ View'[Level] = View[Level]
           /\ \A b \in Chunks : View'[b] = View[b] \/ (View[b] = 0 /\ View'[b] = Damaged)
<1>1. job' # Down /\ UNCHANGED <<loaded, val, state>>
  BY UnwindNotDown
<1>2. View'[Level] = View[Level]
  BY <1>1, ViewAt, ViewAtNext
<1>3. ASSUME NEW b \in Chunks
      PROVE  View'[b] = View[b] \/ (View[b] = 0 /\ View'[b] = Damaged)
  <2>0. TypeOK /\ ChunksRight /\ ChunkRight(disk[b], checkpoint[b], b \in loaded, b \in dirty, val[b])
    BY DEF IInv, ChunksRight
  <2>1. CASE b \in loaded
    BY <1>1, <2>1, ViewAt, ViewAtNext
  <2>2. CASE b \notin loaded
    <3>1. val[b] = 0 /\ Absent # 0 /\ Absent # Damaged /\ dirty \subseteq loaded
      BY <2>0, <2>2, ChunkTypes DEF ChunkRight
    <3>2. \/ disk'[b] = disk[b]
          \/ disk[b] = Absent /\ disk'[b] \in {0, Damaged}
      BY <2>0, <2>2, <3>1, FailedSave
    <3> QED
      BY <1>1, <2>2, <3>1, <3>2, ViewAt, ViewAtNext DEF Content
  <2> QED
    BY <2>1, <2>2
<1> QED
  BY <1>2, <1>3

\* The steps that take the session down, and what they leave on the disk.
LEMMA DownSteps ==
    ASSUME IInv, [Next]_vars, job # Down, job' = Down
    PROVE  /\ GoDown /\ UNCHANGED <<level, checkpoint>>
           /\ \/ UNCHANGED disk /\ Crash
              \/ UNCHANGED disk /\ closing = 2 /\ dirty = {} /\ UNCHANGED failed
              \/ \E c \in dirty : SaveFails(c)
<1>1. closing = 0 => ~Unwind
  BY DEF Unwind, Job, Down
<1>2. job.pc \in {"idle", "store", "evict", "use", "down"} => closing = 0
  BY DEF IInv, Phases
<1>3. job.pc \in {"level", "rename"} => ~Unwind
  BY DEF IInv, Phases, Unwind, Job, Down
<1>4. Idle # Down /\ Idle.pc = "idle" /\ \A pc, c : Job(pc, c) = Down => pc = "down"
  BY DEF Idle, Down, Job
<1>5. ASSUME NEW c \in Chunks PROVE ~Request(c) /\ ~Unload(c)
  BY <1>1, <1>2, <1>4 DEF Request, Unload
<1>6. ~Store /\ ~Evict /\ ~Use /\ ~Open /\ ~Tick /\ ~SaveAll /\ ~EndSession
  BY <1>1, <1>2, <1>4 DEF Store, Evict, Use, Open, Tick, SaveAll, EndSession
<1>7. ~WriteTemp /\ ~Rename
  BY <1>1, <1>3, <1>4 DEF WriteTemp, Rename
<1>8. CASE SaveDirty
  <2>1. UNCHANGED <<level, checkpoint>> /\ job.pc = "chunks"
    BY <1>8 DEF SaveDirty
  <2>2. Unwind => GoDown
    BY <1>1 DEF Unwind, Job, Down
  <2> QED
    BY <1>4, <1>8, <2>1, <2>2 DEF SaveDirty
<1>9. CASE Crash
  BY <1>9 DEF Crash, files
<1> QED
  BY <1>5, <1>6, <1>7, <1>8, <1>9 DEF Next, vars

\* A session that ends with no save having failed left everything on disk as it
\* was in memory: the flags and the order of the two destructors lose nothing.
THEOREM OrderlyTeardownCorrect == Spec => OrderlyTeardownSaves
<1>1. IInv /\ [Next]_vars => [job # Down /\ job' = Down /\ failed' = {} => View' = View]_vars
  <2> SUFFICES ASSUME IInv, [Next]_vars, job # Down, job' = Down, failed' = {}
               PROVE  View' = View
    OBVIOUS
  <2>1. ~Crash
    BY DEF Crash, Items
  <2>2. \A c : ~SaveFails(c)
    BY DEF SaveFails
  <2>3. GoDown /\ UNCHANGED <<disk, level>> /\ closing = 2 /\ dirty = {} /\ failed = {}
    BY <2>1, <2>2, DownSteps
  <2>4. level = state /\ state \in Nat /\ Absent \notin Nat
    BY <2>3, ChunkTypes DEF IInv, Phases
  <2>5. View'[Level] = View[Level]
    BY <2>3, <2>4, ViewAt, ViewAtNext DEF Content
  <2>6. ASSUME NEW c \in Chunks PROVE View'[c] = View[c]
    <3>1. c \in loaded => disk[c] = val[c] /\ val[c] \in Nat
      BY <2>3, ChunkTypes DEF IInv, ChunksRight, ChunkRight
    <3> QED
      BY <2>3, <2>4, <3>1, ViewAt, ViewAtNext DEF GoDown, Content
  <2> QED
    BY <2>5, <2>6, SameView
<1> QED
  BY <1>1, Invariant, PTL DEF Spec, OrderlyTeardownSaves

-----------------------------------------------------------------------------
(* The contract *)

LEMMA ContractInit == Init => Contract!Init
<1> SUFFICES ASSUME Init PROVE Contract!Init
  OBVIOUS
<1>1. View[Level] = 0 /\ \A c \in Chunks : View[c] = 0
  BY StoreAssumption, ViewAt DEF Init, Content
<1>2. View = [i \in Items |-> 0]
  BY <1>1, ViewAt DEF Items
<1> QED
  BY <1>2 DEF Init, Contract!Init

\* Going down, each item goes back to a version between the last checkpoint and
\* what was seen, or is damaged if it had changed since.
LEMMA CloseStep ==
    ASSUME IInv, [Next]_vars, job # Down, job' = Down
    PROVE  Contract!Close
<1>0. GoDown /\ UNCHANGED <<level, checkpoint>> /\ TypeOK /\ ChunksRight /\ LevelRight
  BY DownSteps DEF IInv
<1>1. ASSUME NEW b \in Chunks
      PROVE  \/ disk'[b] = disk[b]
             \/ b \in dirty /\ disk'[b] \in {val[b], Damaged}
  <2>1. ASSUME NEW c \in dirty, SaveFails(c)
        PROVE  disk'[b] = disk[b] \/ (b \in dirty /\ disk'[b] \in {val[b], Damaged})
    <3>1. c \in Chunks /\ c \in loaded
      BY <1>0, ChunkTypes
    <3> QED
      BY <1>0, <2>1, <3>1, FailedSave
  <2> QED
    BY <2>1, DownSteps
<1>2. ASSUME NEW b \in Chunks
      PROVE  \/ View'[b] = View[b]
             \/ View[b] # Damaged /\ View'[b] = Damaged /\ View[b] # checkpoint[b]
             \/ /\ Damaged \notin {View[b], View'[b]}
                /\ View'[b] <= View[b]
                /\ checkpoint[b] # Damaged => checkpoint[b] <= View'[b]
  <2>1. /\ ChunkRight(disk[b], checkpoint[b], b \in loaded, b \in dirty, val[b])
        /\ b \in dirty => b \in loaded
        /\ val[b] \in Nat /\ disk[b] \in Nat \cup {Absent, Damaged}
        /\ checkpoint[b] \in Nat \cup {Damaged}
        /\ Absent # Damaged /\ Absent \notin Nat /\ Damaged \notin Nat
    BY <1>0, ChunkTypes DEF ChunksRight
  <2>2. View[b] = (IF b \in loaded THEN val[b] ELSE Content(disk[b]))
    BY ViewAt
  <2>3. View'[b] = Content(disk'[b])
    BY <1>0, ViewAtNext DEF GoDown
  <2>4. CASE b \notin loaded
    BY <1>1, <2>1, <2>2, <2>3, <2>4
  <2>5. CASE b \in loaded /\ b \notin dirty
    BY <1>1, <2>1, <2>2, <2>3, <2>5 DEF ChunkRight, Content
  <2>6. CASE b \in dirty
    <3>1. /\ View[b] = val[b] /\ checkpoint[b] # Damaged /\ checkpoint[b] < val[b]
          /\ disk[b] # Absent
          /\ disk[b] # Damaged => checkpoint[b] <= disk[b] /\ disk[b] <= val[b]
      BY <2>1, <2>2, <2>6 DEF ChunkRight, Content
    <3>2. disk'[b] \in {val[b], Damaged, disk[b]}
      BY <1>1
    <3>3. CASE disk'[b] = val[b]
      BY <2>1, <2>3, <3>1, <3>3 DEF Content
    <3>4. CASE disk'[b] = Damaged
      BY <2>1, <2>3, <3>1, <3>4 DEF Content
    <3>5. CASE disk'[b] = disk[b] /\ disk[b] # Damaged
      BY <2>1, <2>3, <3>1, <3>5 DEF Content
    <3> QED
      BY <3>2, <3>3, <3>4, <3>5
  <2> QED
    BY <2>4, <2>5, <2>6
<1>3. /\ Damaged \notin {View[Level], View'[Level]}
      /\ View'[Level] <= View[Level]
      /\ checkpoint[Level] # Damaged => checkpoint[Level] <= View'[Level]
  <2>1. View[Level] = state /\ View'[Level] = Content(level)
    BY <1>0, ViewAt, ViewAtNext
  <2>2. job.pc # "down"
    BY DEF IInv, TypeOK, Jobs, Down, Job
  <2> QED
    BY <1>0, <2>1, <2>2, ChunkTypes DEF LevelRight, Content
<1>4. \A i \in Items :
         \/ View'[i] = View[i]
         \/ View[i] # Damaged /\ View'[i] = Damaged /\ View[i] # checkpoint[i]
         \/ /\ Damaged \notin {View[i], View'[i]}
            /\ View'[i] <= View[i]
            /\ checkpoint[i] # Damaged => checkpoint[i] <= View'[i]
  BY <1>2, <1>3 DEF Items
<1>5. DOMAIN View' = Items
  BY DEF View
<1> QED
  BY <1>0, <1>4, <1>5 DEF Contract!Close

\* A save that fails in a session that goes on.
LEMMA DamageStep ==
    ASSUME IInv, NEW c \in Chunks, SaveFails(c), Unwind, closing # 2, job # Down,
           c \in dirty \/ (c \notin loaded /\ disk[c] = Absent), UNCHANGED checkpoint
    PROVE  Contract!Damage
<1> DEFINE lost == {i \in Items : View[i] = 0 /\ View'[i] = Damaged}
<1>1. job' # Down
  BY UnwindNotDown
<1>2. \A i \in Items : View'[i] = IF i \in lost THEN Damaged ELSE View[i]
  BY FailedView DEF Items
<1>3. View' = [i \in Items |-> IF i \in lost THEN Damaged ELSE View[i]]
  BY <1>2, ViewAtNext
<1>4. lost \in SUBSET {i \in Items : View[i] = 0}
  OBVIOUS
<1> HIDE DEF lost
<1> QED
  BY <1>1, <1>3, <1>4 DEF Contract!Damage

\* Every step is one of the contract, or does not show.
LEMMA ContractStep ==
    IInv /\ [Next]_vars => [Contract!Next]_<<View, checkpoint, job # Down>>
<1> SUFFICES ASSUME IInv, [Next]_vars
             PROVE  [Contract!Next]_<<View, checkpoint, job # Down>>
  OBVIOUS
<1>S. View' = View /\ checkpoint' = checkpoint /\ (job' # Down) = (job # Down)
      => [Contract!Next]_<<View, checkpoint, job # Down>>
  OBVIOUS
<1>0. TypeOK /\ Phases /\ (job.pc = "down" <=> job = Down)
  BY DEF IInv, TypeOK, Jobs, Down, Job
<1>I. /\ Idle # Down /\ Idle.pc = "idle"
      /\ \A pc, c : Job(pc, c) = Down => pc = "down"
  BY DEF Idle, Down, Job
<1>1. CASE job # Down /\ job' = Down
  BY <1>1, CloseStep DEF Contract!Next
<1>2. CASE job = Down
  <2>1. CASE Open
    <3>1. loaded = {}
      BY <1>0, <1>2 DEF Phases
    <3>2. View'[Level] = View[Level] /\ \A c \in Chunks : View'[c] = View[c]
      BY <1>2, <1>I, <2>1, <3>1, ViewAt, ViewAtNext DEF Open, files, cache
    <3> QED
      BY <1>2, <1>I, <2>1, <3>2, SameView DEF Open, Contract!Open, Contract!Next
  <2>2. CASE UNCHANGED vars
    <3>1. View' = View
      BY <2>2 DEF vars, View
    <3> QED
      BY <1>S, <2>2, <3>1 DEF vars
  <2>3. ~Next \/ Open
    BY <1>0, <1>2, <1>I DEF Next, Request, Unload, Store, Evict, Use, Tick, SaveAll, SaveDirty,
       WriteTemp, Rename, EndSession, Crash
  <2> QED
    BY <2>1, <2>2, <2>3
<1>3. CASE job # Down /\ job' # Down
  <2>1. UNCHANGED <<disk, loaded, val, state, checkpoint>>
        => [Contract!Next]_<<View, checkpoint, job # Down>>
    BY <1>3, <1>S, ViewAt, ViewAtNext, SameView
  <2>2. Unwind => closing # 2 /\ UNCHANGED <<loaded, val, state>>
    BY <1>3, UnwindNotDown DEF Unwind, GoDown
  <2>3. ASSUME NEW c \in Chunks, SaveFails(c), Unwind, UNCHANGED checkpoint,
               c \in dirty \/ (c \notin loaded /\ disk[c] = Absent)
        PROVE  [Contract!Next]_<<View, checkpoint, job # Down>>
    BY <1>3, <2>2, <2>3, DamageStep DEF Contract!Next
  <2>4. ASSUME NEW c \in Chunks, c \in loaded,
               IF c \in dirty THEN Saved(c) ELSE UNCHANGED <<disk, dirty>>,
               UNCHANGED <<loaded, val>> \/ Erase(c),
               UNCHANGED <<job, state, checkpoint>>
        PROVE  [Contract!Next]_<<View, checkpoint, job # Down>>
    BY <1>3, <1>S, <2>4, SavedView
  <2>5. ASSUME NEW c \in Chunks, Request(c)
        PROVE  [Contract!Next]_<<View, checkpoint, job # Down>>
    <3>0. UNCHANGED <<disk, level, checkpoint>>
      BY <2>5 DEF Request, files
    <3>1. CASE c \notin loaded /\ disk[c] \in Versions /\ Insert(c, disk[c]) /\ UNCHANGED state
      <4>1. Content(disk[c]) = disk[c]
        BY <3>1, StoreAssumption DEF Content, Versions
      <4>2. ASSUME NEW b \in Chunks PROVE View'[b] = View[b]
        <5>1. val \in [Chunks -> Versions]
          BY <1>0 DEF TypeOK
        <5> QED
          BY <3>0, <3>1, <4>1, <5>1, ViewAt, ViewAtNext DEF Insert
      <4>3. View'[Level] = View[Level]
        BY <1>3, <3>1, ViewAt, ViewAtNext
      <4> QED
        BY <1>3, <1>S, <3>0, <4>2, <4>3, SameView
    <3> QED
      BY <2>1, <2>2, <2>5, <3>0, <3>1 DEF Request, cache
  <2>6. ASSUME NEW c \in Chunks, Unload(c)
        PROVE  [Contract!Next]_<<View, checkpoint, job # Down>>
    BY <2>3, <2>4, <2>6 DEF Unload
  <2>7. CASE Store
    <3>0. /\ job.chunk \in Chunks /\ job.chunk \notin loaded /\ disk[job.chunk] = Absent
          /\ UNCHANGED checkpoint
      BY <1>0, <2>7 DEF Store, Phases, TypeOK, Jobs
    <3>1. CASE disk' = [disk EXCEPT ![job.chunk] = 0] /\ Insert(job.chunk, 0) /\ UNCHANGED state
      <4>1. ASSUME NEW b \in Chunks PROVE View'[b] = View[b]
        <5>1. /\ val \in [Chunks -> Versions]
              /\ disk \in [Chunks -> Versions \cup {Absent, Damaged}]
          BY <1>0 DEF TypeOK
        <5> QED
          BY <3>0, <3>1, <5>1, ViewAt, ViewAtNext DEF Insert, Content
      <4>2. View'[Level] = View[Level]
        BY <1>3, <3>1, ViewAt, ViewAtNext
      <4> QED
        BY <1>3, <1>S, <3>0, <4>1, <4>2, SameView
    <3> QED
      BY <2>3, <2>7, <3>0, <3>1 DEF Store
  <2>8. CASE Evict
    <3>0. UNCHANGED checkpoint /\ \A i \in Victims : recent[i] \in loaded /\ recent[i] \in Chunks
      BY <1>0, <2>8 DEF Evict, Victims, TypeOK
    <3> QED
      BY <2>1, <2>3, <2>4, <2>8, <3>0 DEF Evict, cache
  <2>9. CASE Use
    <3>0. job.chunk \in Chunks /\ job.chunk \in loaded /\ val \in [Chunks -> Versions]
          /\ UNCHANGED <<disk, loaded, state, checkpoint>>
      BY <1>0, <2>9 DEF Use, Phases, TypeOK, Jobs, files
    <3>1. CASE val' = [val EXCEPT ![job.chunk] = @ + 1]
      <4>1. View[job.chunk] = val[job.chunk] /\ View[job.chunk] # Damaged
        BY <1>0, <3>0, ViewAt, ChunkTypes
      <4>2. \A i \in Items : View'[i] = IF i = job.chunk THEN View[i] + 1 ELSE View[i]
        BY <1>3, <3>0, <3>1, <4>1, ViewAt, ViewAtNext, StoreAssumption DEF Items
      <4>3. View' = [View EXCEPT ![job.chunk] = @ + 1]
        BY <4>2, ViewAt, ViewAtNext
      <4>4. job.chunk \in Items
        BY <3>0 DEF Items
      <4> QED
        BY <1>3, <3>0, <4>1, <4>3, <4>4 DEF Contract!Change, Contract!Next
    <3> QED
      BY <2>1, <2>9, <3>0, <3>1 DEF Use
  <2>10. CASE Tick
    <3>0. UNCHANGED <<disk, loaded, val, checkpoint>> /\ state' = state + 1
      BY <2>10 DEF Tick, files, cache
    <3>1. View[Level] = state /\ View[Level] # Damaged
      BY <1>0, <1>3, ViewAt, ChunkTypes
    <3>2. \A i \in Items : View'[i] = IF i = Level THEN View[i] + 1 ELSE View[i]
      BY <1>3, <3>0, <3>1, ViewAt, ViewAtNext, StoreAssumption DEF Items
    <3>3. View' = [View EXCEPT ![Level] = @ + 1]
      BY <3>2, ViewAt, ViewAtNext
    <3>4. Level \in Items
      BY DEF Items
    <3> QED
      BY <1>3, <3>0, <3>1, <3>3, <3>4 DEF Contract!Change, Contract!Next
  <2>11. CASE SaveDirty
    <3>0. UNCHANGED checkpoint /\ \A c \in dirty : c \in Chunks /\ c \in loaded
      BY <1>0, <2>11 DEF SaveDirty, TypeOK
    <3>1. ~GoDown
      BY <1>3 DEF GoDown
    <3> QED
      BY <2>1, <2>3, <2>4, <2>11, <3>0, <3>1 DEF SaveDirty, cache
  <2>12. CASE WriteTemp
    BY <2>1, <2>2, <2>12 DEF WriteTemp, cache
  <2>13. CASE Rename
    <3>0. UNCHANGED <<disk, loaded, val, state>>
      BY <2>2, <2>13 DEF Rename, cache
    <3>1. View' = View
      BY <1>3, <3>0, ViewAt, ViewAtNext, SameView
    <3> QED
      BY <1>3, <2>1, <2>13, <3>0, <3>1 DEF Rename, Contract!Checkpoint, Contract!Next
  <2>14. CASE SaveAll
    BY <2>1, <2>14 DEF SaveAll, files, cache
  <2>15. CASE EndSession
    BY <2>1, <2>2, <2>15 DEF EndSession, files
  <2>16. CASE UNCHANGED vars
    BY <2>1, <2>16 DEF vars
  <2>17. ~Open /\ ~Crash
    BY <1>3 DEF Open, Crash, GoDown
  <2> QED
    BY <2>5, <2>6, <2>7, <2>8, <2>9, <2>10, <2>11, <2>12, <2>13, <2>14, <2>15, <2>16,
       <2>17 DEF Next
<1> QED
  BY <1>1, <1>2, <1>3

\* Caching, eviction, unloading, autosave, teardown, failing saves and crashes
\* together keep WorldContract's promise, for every set of chunks, every limit
\* of the cache and every bound.
THEOREM ImplementsContract == Spec => ContractSpec
<1>1. IInv /\ [Next]_vars => [Contract!Next]_<<View, checkpoint, job # Down>>
  BY ContractStep
<1> QED
  BY <1>1, ContractInit, Invariant, PTL DEF Spec, ContractSpec, Contract!Spec
=============================================================================
