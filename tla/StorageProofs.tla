--------------------------- MODULE StorageProofs ----------------------------
(***************************************************************************)
(* Proofs about the files of a world.                                      *)
(*                                                                         *)
(* RegionFile: types for any number of writers, and, when one object has   *)
(* the file to itself, that no two slots share a sector, for every set of  *)
(* slots, every record size and every limit of the location table, through *)
(* crashes and failed writes.                                              *)
(*                                                                         *)
(* Disjointness alone is not inductive: a commit adds a location whose     *)
(* extent depends on where Locate sent the record and on how much of it    *)
(* has been written since.  TargetSafe says that the job's target is its   *)
(* slot's own extent or lies behind every other one, and that a commit's   *)
(* sectors are in the file.                                                *)
(***************************************************************************)
EXTENDS Storage, TLAPS

\* One RegionFile object for the path.
SingleWriter == \A u, w \in Writers : u = w

\* A job in progress has a slot and a payload; once located, its target is the
\* slot's own extent or starts after every extent, the sectors up to its next
\* output are in the file, and all of them are when the location is due.
JobSafe(j) ==
    /\ j.pc \notin {"idle", "failed"} => j.slot \in Slots /\ j.val \in Vals
    /\ j.pc \in {"open", "create", "locate"} => j.next = 0
    /\ j.pc \in {"data", "commit"} =>
          /\ j.offset >= 2
          /\ Need[j.val] <= MaxCount
          /\ \/ /\ j.offset = location[j.slot].offset
                /\ Need[j.val] <= location[j.slot].count
             \/ \A s \in Slots : Allocated(s) =>
                   location[s].offset + location[s].count <= j.offset
    /\ j.pc = "data" =>
          /\ j.next <= Need[j.val]
          /\ j.offset + j.next <= Size + (IF j.next = 0 THEN 0 ELSE 1)
    /\ j.pc = "commit" => j.offset + Need[j.val] <= Size

TargetSafe == \A w \in Writers : JobSafe(job[w])

-----------------------------------------------------------------------------
LEMMA WrittenType ==
    ASSUME TypeOK, NEW n \in Nat, n >= 2, n <= Size,
           NEW p \in [slot : Slots, val : Vals, part : Nat]
    PROVE  /\ Written(n, p) \in Seq([slot : Slots, val : Vals, part : Nat])
           /\ Len(Written(n, p)) = IF n = Size THEN Len(sectors) + 1 ELSE Len(sectors)
<1> DEFINE P == [slot : Slots, val : Vals, part : Nat]
<1>1. sectors \in Seq(P) /\ Len(sectors) \in Nat
  BY DEF TypeOK
<1>2. CASE n = Size
  <2>1. Written(n, p) = Append(sectors, p)
    BY <1>2 DEF Written
  <2> QED
    BY <1>1, <1>2, <2>1
<1>3. CASE n # Size
  <2>1. n - 1 \in 1..Len(sectors)
    BY <1>1, <1>3 DEF Size
  <2>2. Written(n, p) = sectors \/ Written(n, p) = [sectors EXCEPT ![n - 1] = p]
    BY <1>3 DEF Written
  <2>3. /\ [sectors EXCEPT ![n - 1] = p] \in Seq(P)
        /\ Len([sectors EXCEPT ![n - 1] = p]) = Len(sectors)
    BY <1>1, <2>1
  <2> QED
    BY <1>1, <1>3, <2>2, <2>3
<1> QED
  BY <1>2, <1>3

\* An interval that ends where another begins, or before, is disjoint from it.
LEMMA EarlierInterval ==
    ASSUME NEW a \in Nat, NEW n \in Nat, NEW b \in Nat, NEW m \in Nat, a + n <= b
    PROVE  (b .. (b + m - 1)) \cap (a .. (a + n - 1)) = {}
OBVIOUS

\* A record that needs no more sectors than its place has stays within it.
LEMMA ShorterInterval ==
    ASSUME NEW a \in Nat, NEW m \in Nat, NEW n \in Nat, m <= n
    PROVE  a .. (a + m - 1) \subseteq a .. (a + n - 1)
  OBVIOUS

IInv == TypeOK /\ SectorsDisjoint /\ TargetSafe

LEMMA InitIInv == Init => IInv
BY RegionAssumption
DEF Init, IInv, TypeOK, SectorsDisjoint, TargetSafe, JobSafe, Jobs, Idle, Job, Extent,
    Allocated

LEMMA JobType ==
    ASSUME TypeOK, NEW w \in Writers
    PROVE  /\ job[w].offset \in 0..MaxOffset /\ job[w].next \in Nat
           /\ \A s \in Slots : location[s].offset \in Nat /\ location[s].count \in Nat
           /\ Size \in Nat /\ Size >= 2
BY RegionAssumption DEF TypeOK, Jobs, Size

\* A step that only gives a writer another safe job preserves the invariant.
LEMMA JobStep ==
    ASSUME IInv, NEW w \in Writers, NEW j \in Jobs, JobSafe(j),
           job' = [job EXCEPT ![w] = j], UNCHANGED <<location, sectors>>,
           header' \in {"missing", "short", "whole"}
    PROVE  IInv'
<1>1. TypeOK'
  BY DEF IInv, TypeOK
<1>2. SectorsDisjoint'
  BY DEF IInv, SectorsDisjoint, Extent, Allocated, Size
<1>3. \A k : JobSafe(k)' = JobSafe(k)
  BY DEF JobSafe, Allocated, Size
<1>4. \A u \in Writers : job'[u] = j \/ job'[u] = job[u]
  BY DEF IInv, TypeOK
<1>5. \A u \in Writers : JobSafe(job'[u])
  BY <1>4 DEF IInv, TargetSafe
<1>6. \A u \in Writers : JobSafe(job[u])'
  BY <1>5 DEF JobSafe, Allocated, Size
<1> QED
  BY <1>1, <1>2, <1>6 DEF IInv, TargetSafe

LEMMA IdleSafe == \A j \in {Idle, Failed} : j \in Jobs /\ JobSafe(j)
BY RegionAssumption DEF Idle, Failed, Job, Jobs, JobSafe

\* The invariant survives every step of the only writer and every crash.
LEMMA IInvStep ==
    ASSUME SingleWriter, IInv, [Next]_vars
    PROVE  IInv'
<1> USE RegionAssumption
<1>1. ASSUME NEW w \in Writers, NEW s \in Slots, NEW v \in Vals, BeginSave(w, s, v)
      PROVE  IInv'
  <2> DEFINE j == Job("open", s, v)
  <2>1. j \in Jobs /\ JobSafe(j)
    BY DEF Job, Jobs, JobSafe
  <2> QED
    BY <1>1, <2>1, JobStep DEF BeginSave, IInv, TypeOK
<1>2. ASSUME NEW w \in Writers, Open(w) PROVE IInv'
  <2>1. job[w] \in Jobs /\ JobSafe(job[w]) /\ job[w].pc = "open"
    BY <1>2 DEF Open, IInv, TypeOK, TargetSafe
  <2>2. ASSUME NEW c \in {"create", "locate"}, job' = [job EXCEPT ![w].pc = c]
        PROVE  IInv'
    <3> DEFINE j == [job[w] EXCEPT !.pc = c]
    <3>1. j \in Jobs /\ JobSafe(j)
      BY <2>1 DEF Jobs, JobSafe
    <3> QED
      BY <1>2, <2>2, <3>1, JobStep DEF Open, IInv, TypeOK
  <2>3. CASE job' = [job EXCEPT ![w] = Failed]
    BY <1>2, <2>3, IdleSafe, JobStep DEF Open, IInv, TypeOK
  <2> QED
    BY <1>2, <2>2, <2>3 DEF Open
<1>3. ASSUME NEW w \in Writers, WriteHeader(w) PROVE IInv'
  <2>1. job[w] \in Jobs /\ JobSafe(job[w]) /\ job[w].pc = "create"
    BY <1>3 DEF WriteHeader, IInv, TypeOK, TargetSafe
  <2> DEFINE j == [job[w] EXCEPT !.pc = "locate"]
  <2>2. j \in Jobs /\ JobSafe(j)
    BY <2>1 DEF Jobs, JobSafe
  <2> QED
    BY <1>3, <2>2, JobStep DEF WriteHeader, IInv, TypeOK
<1>4. ASSUME NEW w \in Writers, Locate(w) PROVE IInv'
  <2> DEFINE s == job[w].slot
             v == job[w].val
             off == Target(s, v)
             j == [job[w] EXCEPT !.pc = "data", !.offset = off]
  <2>1. /\ job[w] \in Jobs /\ JobSafe(job[w]) /\ job[w].pc = "locate"
        /\ UNCHANGED <<header, location, sectors>>
    BY <1>4 DEF Locate, IInv, TypeOK, TargetSafe
  <2>2. s \in Slots /\ v \in Vals /\ Need[v] \in Nat \ {0} /\ job[w].next = 0
    BY <2>1 DEF JobSafe
  <2>3. CASE Refused(v, off)
    <3>1. job' = [job EXCEPT ![w] = Failed]
      BY <1>4, <2>3 DEF Locate
    <3> QED
      BY <2>1, <3>1, IdleSafe, JobStep DEF IInv, TypeOK
  <2>4. CASE ~Refused(v, off)
    <3>1. job' = [job EXCEPT ![w] = j]
      BY <1>4, <2>4 DEF Locate
    <3>2. /\ off \in 0..MaxOffset /\ off >= 2 /\ off <= Size
          /\ Need[v] <= MaxCount
      <4>1. off \in Nat /\ off >= 2 /\ off <= Size
        BY <2>2, JobType DEF Target, IInv, SectorsDisjoint, Allocated
      <4> QED
        BY <2>2, <2>4, <4>1 DEF Refused
    <3>3. \/ off = location[s].offset /\ Need[v] <= location[s].count
          \/ \A t \in Slots : Allocated(t) =>
                location[t].offset + location[t].count <= off
      BY <2>2, JobType DEF Target, IInv, SectorsDisjoint
    <3>4. j \in Jobs
      BY <2>1, <3>2 DEF Jobs
    <3>5. /\ j.pc = "data" /\ j.slot = s /\ j.val = v /\ j.offset = off
          /\ j.next = 0
      BY <2>1, <2>2 DEF Jobs
    <3>6. JobSafe(j)
      BY <2>2, <3>2, <3>3, <3>5, JobType DEF JobSafe, IInv
    <3> QED
      BY <2>1, <3>1, <3>4, <3>6, JobStep DEF IInv, TypeOK
  <2> QED
    BY <2>3, <2>4
<1>5. ASSUME NEW w \in Writers, WriteData(w) PROVE IInv'
  <2> DEFINE j == job[w]
             n == SectorOf(j.offset, j.next)
             p == Piece(j.slot, j.val, j.next)
  <2>1. /\ j.pc = "data" /\ sectors' = Written(n, p)
        /\ UNCHANGED <<header, location>>
        /\ job' = [job EXCEPT ![w].next = j.next + 1,
                              ![w].pc = IF j.next = Need[j.val] THEN "commit"
                                        ELSE "data"]
    BY <1>5 DEF WriteData
  <2>2. /\ j.slot \in Slots /\ j.val \in Vals /\ j.offset \in Nat /\ j.next \in Nat
        /\ Need[j.val] \in Nat \ {0} /\ j.next <= Need[j.val] /\ j.offset >= 2
        /\ j.offset + j.next <= Size + (IF j.next = 0 THEN 0 ELSE 1)
    BY <2>1, JobType DEF IInv, TargetSafe, JobSafe
  <2>3. /\ n \in Nat /\ n >= 2 /\ n <= Size
        /\ p \in [slot : Slots, val : Vals, part : Nat]
    BY <2>2, JobType DEF SectorOf, Piece, IInv
  <2>4. /\ sectors' \in Seq([slot : Slots, val : Vals, part : Nat])
        /\ Len(sectors') = IF n = Size THEN Len(sectors) + 1 ELSE Len(sectors)
    BY <2>1, <2>3, WrittenType DEF IInv
  <2>5. Size' = (IF n = Size THEN Size + 1 ELSE Size) /\ Size \in Nat /\ Size' >= Size
    BY <2>4, JobType DEF Size, IInv
  <2>6. SectorsDisjoint'
    <3>1. \A s \in Slots : /\ Extent(s)' = Extent(s) /\ Allocated(s)' = Allocated(s)
                           /\ location[s].offset \in Nat /\ location[s].count \in Nat
      BY <2>1, JobType DEF Extent, Allocated, IInv
    <3> QED
      BY <2>1, <2>5, <3>1 DEF IInv, SectorsDisjoint
  <2>7. TypeOK'
    <3> DEFINE c == IF j.next = Need[j.val] THEN "commit" ELSE "data"
               k == [j EXCEPT !.next = j.next + 1, !.pc = c]
    <3>0. j \in Jobs /\ c \in {"commit", "data"} /\ j.next + 1 \in Nat
      BY <2>2 DEF IInv, TypeOK
    <3>1. k \in Jobs
      BY <3>0 DEF Jobs
    <3>2. job' = [job EXCEPT ![w] = k]
      BY <2>1
    <3> QED
      BY <2>1, <2>4, <3>1, <3>2 DEF IInv, TypeOK
  <2>8. TargetSafe'
    <3>1. n < Size'
      BY <2>3, <2>5
    <3>2. \A u \in Writers : u = w
      BY DEF SingleWriter
    <3>3. /\ job'[w].slot = j.slot /\ job'[w].val = j.val
          /\ job'[w].offset = j.offset /\ job'[w].next = j.next + 1
          /\ job'[w].pc = IF j.next = Need[j.val] THEN "commit" ELSE "data"
      BY <2>1 DEF IInv, TypeOK, Jobs
    <3>4. j.offset + j.next <= Size'
      BY <2>2, <2>5, <3>1 DEF SectorOf
    <3>5. /\ Need[j.val] <= MaxCount
          /\ \/ /\ j.offset = location[j.slot].offset
                /\ Need[j.val] <= location[j.slot].count
             \/ \A s \in Slots : Allocated(s) =>
                   location[s].offset + location[s].count <= j.offset
      BY <2>1 DEF IInv, TargetSafe, JobSafe
    <3>6. location' = location /\ \A s \in Slots : Allocated(s)' = Allocated(s)
      BY <2>1 DEF Allocated
    <3> QED
      BY <2>2, <2>5, <3>2, <3>3, <3>4, <3>5, <3>6 DEF TargetSafe, JobSafe
  <2> QED
    BY <2>6, <2>7, <2>8 DEF IInv
<1>6. ASSUME NEW w \in Writers, Commit(w) PROVE IInv'
  <2>z. /\ job[w].slot \in Slots /\ job[w].val \in Vals
        /\ job[w].offset \in 0..MaxOffset /\ job[w].pc = "commit"
    BY <1>6, JobType DEF Commit, IInv, TargetSafe, JobSafe
  <2>a. PICK s \in Slots, v \in Vals, off \in 0..MaxOffset :
             s = job[w].slot /\ v = job[w].val /\ off = job[w].offset
    BY <2>z
  <2>1. /\ UNCHANGED <<header, sectors>>
        /\ location' = [location EXCEPT ![s] = [offset |-> off, count |-> Need[v]]]
        /\ job' = [job EXCEPT ![w].pc = "return"]
    BY <1>6, <2>a DEF Commit
  <2>2. /\ off \in Nat /\ off >= 2
        /\ Need[v] \in Nat \ {0} /\ Need[v] <= MaxCount
        /\ off + Need[v] <= Size
        /\ \/ off = location[s].offset /\ Need[v] <= location[s].count
           \/ \A t \in Slots : Allocated(t) =>
                 location[t].offset + location[t].count <= off
    BY <2>z, <2>a, JobType DEF IInv, TargetSafe, JobSafe
  <2>3. TypeOK'
    <3> DEFINE k == [job[w] EXCEPT !.pc = "return"]
               e == [offset |-> off, count |-> Need[v]]
    <3>1. job[w] \in Jobs /\ k \in Jobs
      BY DEF IInv, TypeOK, Jobs
    <3>2. e \in [offset : 0..MaxOffset, count : 0..MaxCount]
      BY <2>2
    <3> QED
      BY <2>1, <2>2, <3>1, <3>2 DEF IInv, TypeOK
  <2>4. TargetSafe'
    <3>1. \A u \in Writers : u = w
      BY DEF SingleWriter
    <3>2. job'[w].slot = s /\ job'[w].val = v /\ job'[w].pc = "return"
      BY <2>a, <2>1 DEF IInv, TypeOK, Jobs
    <3> QED
      BY <2>2, <3>1, <3>2 DEF TargetSafe, JobSafe
  <2>5. Size' = Size /\ Size \in Nat
    BY <2>1, JobType DEF Size, IInv
  <2>6. /\ location'[s].offset = off /\ location'[s].count = Need[v]
        /\ \A t \in Slots : t # s => location'[t] = location[t]
    BY <2>1, <2>2 DEF IInv, TypeOK
  <2>7. /\ Extent(s)' = off .. (off + Need[v] - 1)
        /\ \A t \in Slots : t # s => Extent(t)' = Extent(t) /\ Allocated(t)' = Allocated(t)
    <3>1. Allocated(s)'
      BY <2>2, <2>6 DEF Allocated
    <3>2. Extent(s)' = location'[s].offset .. (location'[s].offset + location'[s].count - 1)
      BY <3>1 DEF Extent
    <3>3. \A t \in Slots : t # s => Extent(t)' = Extent(t) /\ Allocated(t)' = Allocated(t)
      BY <2>6 DEF Extent, Allocated
    <3> QED
      BY <2>6, <3>2, <3>3
  <2>8. \A t \in Slots : t # s => Extent(s)' \cap Extent(t) = {}
    <3> SUFFICES ASSUME NEW t \in Slots, t # s PROVE Extent(s)' \cap Extent(t) = {}
      OBVIOUS
    <3>1. /\ location[s].offset \in Nat /\ location[s].count \in Nat
          /\ location[t].offset \in Nat /\ location[t].count \in Nat
      BY <2>2, JobType DEF IInv
    <3>2. CASE off = location[s].offset /\ Need[v] <= location[s].count
      <4>0. Extent(s) = location[s].offset .. (location[s].offset + location[s].count - 1)
        BY <2>2, <3>1, <3>2 DEF Extent, Allocated
      <4>1. Extent(s)' \subseteq Extent(s)
        <5>1. off .. (off + Need[v] - 1) \subseteq off .. (off + location[s].count - 1)
          BY <2>2, <3>1, <3>2, ShorterInterval
        <5> QED
          BY <2>7, <3>2, <4>0, <5>1
      <4> QED
        BY <2>2, <4>1 DEF IInv, SectorsDisjoint
    <3>3. CASE \A r \in Slots : Allocated(r) =>
                  location[r].offset + location[r].count <= off
      <4>1. CASE Allocated(t)
        <5>1. Extent(t) = location[t].offset .. (location[t].offset + location[t].count - 1)
          BY <4>1 DEF Extent
        <5>2. location[t].offset + location[t].count <= off
          BY <3>3, <4>1
        <5>3. (off .. (off + Need[v] - 1))
                \cap (location[t].offset .. (location[t].offset + location[t].count - 1)) = {}
          BY <2>2, <3>1, <5>2, EarlierInterval
        <5> QED
          BY <2>7, <5>1, <5>3
      <4>2. CASE ~Allocated(t)
        BY <4>2 DEF Extent
      <4> QED
        BY <4>1, <4>2
    <3> QED
      BY <2>2, <3>2, <3>3
  <2>9. SectorsDisjoint'
    <3>0. \A t, r \in Slots : t # r => Extent(t) \cap Extent(r) = {}
      BY DEF IInv, SectorsDisjoint
    <3>1. \A t, r \in Slots : t # r => Extent(t)' \cap Extent(r)' = {}
      <4> SUFFICES ASSUME NEW t \in Slots, NEW r \in Slots, t # r
                   PROVE  Extent(t)' \cap Extent(r)' = {}
        OBVIOUS
      <4>1. CASE t = s
        BY <2>7, <2>8, <4>1
      <4>2. CASE r = s
        BY <2>7, <2>8, <4>2
      <4>3. CASE t # s /\ r # s
        BY <2>7, <3>0, <4>3
      <4> QED
        BY <4>1, <4>2, <4>3
    <3>2. \A t \in Slots : Allocated(t)' =>
             /\ location'[t].offset >= 2
             /\ location'[t].offset + location'[t].count <= Size'
      BY <2>2, <2>5, <2>6, <2>7 DEF IInv, SectorsDisjoint
    <3> QED
      BY <3>1, <3>2 DEF SectorsDisjoint
  <2> QED
    BY <2>3, <2>4, <2>9 DEF IInv
<1>7. ASSUME NEW w \in Writers, Return(w) \/ WriteFails(w) PROVE IInv'
  BY <1>7, IdleSafe, JobStep DEF Return, WriteFails, IInv, TypeOK
<1>8. CASE Crash
  <2>1. TypeOK'
    BY <1>8, IdleSafe DEF Crash, IInv, TypeOK
  <2>2. SectorsDisjoint'
    BY <1>8 DEF Crash, IInv, SectorsDisjoint, Extent, Allocated, Size
  <2>3. TargetSafe'
    BY <1>8 DEF Crash, TargetSafe, JobSafe, Failed, Job
  <2> QED
    BY <2>1, <2>2, <2>3 DEF IInv
<1>9. CASE UNCHANGED vars
  BY <1>9 DEF vars, IInv, TypeOK, SectorsDisjoint, TargetSafe, JobSafe, Extent,
     Allocated, Size
<1> QED
  BY <1>1, <1>2, <1>3, <1>4, <1>5, <1>6, <1>7, <1>8, <1>9 DEF Next

\* With one RegionFile object on the file, its state keeps its types: every
\* offset fits a location and every sector is part of some record.
THEOREM RegionTypeCorrect == SingleWriter => (Spec => []TypeOK)
<1> SUFFICES ASSUME SingleWriter PROVE Spec => []TypeOK
  OBVIOUS
<1>1. IInv /\ [Next]_vars => IInv'
  BY IInvStep
<1>2. IInv => TypeOK
  BY DEF IInv
<1> QED
  BY InitIInv, <1>1, <1>2, PTL DEF Spec

\* With one RegionFile object on the file, the locations of the slots stay in
\* the file and share no sector, wherever writes fail or the process dies.
THEOREM DisjointCorrect == SingleWriter => (Spec => []SectorsDisjoint)
<1> SUFFICES ASSUME SingleWriter PROVE Spec => []SectorsDisjoint
  OBVIOUS
<1>1. IInv /\ [Next]_vars => IInv'
  BY IInvStep
<1>2. IInv => SectorsDisjoint
  BY DEF IInv
<1> QED
  BY InitIInv, <1>1, <1>2, PTL DEF Spec

-----------------------------------------------------------------------------
(* What a slot reads as *)

Pieces == [slot : Slots, val : Vals, part : Nat]

\* Nothing is located before the header is whole, and only its creator finds
\* it short.
HeaderSafe ==
    /\ header # "whole" => \A s \in Slots : ~Allocated(s)
    /\ \A w \in Writers :
          /\ job[w].pc = "create" => header = "short"
          /\ job[w].pc \in {"locate", "data", "commit", "return"} => header = "whole"

\* How much of a job's record is in its sectors: the first sector says whose it
\* is after the first output, the pieces written are there, and a location is
\* written over a whole record only.
JobRecorded(j) ==
    /\ j.pc \in {"idle", "failed"} => j \in {Idle, Failed}
    /\ j.pc = "data" /\ j.next # 0 =>
          /\ j.offset < Size
          /\ Sector(j.offset).slot = j.slot /\ Sector(j.offset).val = j.val
          /\ \A i \in 1..(j.next - 1) :
                Sector(j.offset + i - 1) = Piece(j.slot, j.val, i)
    /\ j.pc = "commit" =>
          \A i \in 1..Need[j.val] : Sector(j.offset + i - 1) = Piece(j.slot, j.val, i)
    /\ j.pc = "return" => Read(j.slot) = j.val

RecordSafe == \A w \in Writers : JobRecorded(job[w])

\* The sectors of a location are in the file.
LEMMA InFile ==
    ASSUME TypeOK, SectorsDisjoint, NEW s \in Slots, Allocated(s)
    PROVE  /\ location[s].offset \in Nat /\ location[s].count \in Nat \ {0}
           /\ location[s].offset >= 2
           /\ location[s].offset + location[s].count <= Size
           /\ \A i \in Nat : i < location[s].count =>
                 /\ location[s].offset + i \in Extent(s)
                 /\ location[s].offset + i < Size
                 /\ Sector(location[s].offset + i) \in Pieces
<1>1. /\ location[s].offset \in Nat /\ location[s].count \in Nat \ {0}
      /\ location[s].offset >= 2
      /\ location[s].offset + location[s].count <= Size
  BY DEF TypeOK, SectorsDisjoint, Allocated
<1>2. sectors \in Seq(Pieces) /\ Len(sectors) \in Nat
  BY DEF TypeOK, Pieces
<1>3. Extent(s) = location[s].offset .. (location[s].offset + location[s].count - 1)
  BY DEF Extent
<1>4. ASSUME NEW i \in Nat, i < location[s].count
      PROVE  /\ location[s].offset + i \in Extent(s)
             /\ location[s].offset + i < Size
             /\ Sector(location[s].offset + i) \in Pieces
  <2>1. location[s].offset + i \in Extent(s) /\ location[s].offset + i < Size
    BY <1>1, <1>2, <1>3, <1>4 DEF Size
  <2>2. location[s].offset + i - 1 \in 1..Len(sectors)
    BY <1>1, <1>2, <2>1 DEF Size
  <2>3. sectors[location[s].offset + i - 1] \in Pieces
    BY <1>2, <2>2
  <2> QED
    BY <1>1, <2>1, <2>3 DEF Sector
<1> QED
  BY <1>1, <1>4

\* What a slot reads as depends on the header, its location and its sectors.
LEMMA ReadLocal ==
    ASSUME TypeOK, SectorsDisjoint, NEW s \in Slots,
           header' = header, location'[s] = location[s],
           Size \in Nat, Size' \in Nat, Size <= Size',
           \A n \in Extent(s) : Sector(n)' = Sector(n)
    PROVE  Read(s)' = Read(s)
<1>1. CASE header # "whole" \/ ~Allocated(s)
  BY <1>1 DEF Read, Allocated, TypeOK
<1>2. CASE header = "whole" /\ Allocated(s)
  <2> DEFINE off == location[s].offset
             count == location[s].count
             first == Sector(off)
  <2>1. /\ off \in Nat /\ count \in Nat \ {0} /\ off < Size /\ off < Size'
        /\ off \in Extent(s) /\ first \in Pieces
    <3>1. off + 0 = off
      BY <1>2, InFile
    <3> QED
      BY <1>2, <3>1, InFile
  <2>2. first' = first /\ Need[first.val] \in Nat
    BY <2>1, RegionAssumption DEF Pieces
  <2>3. ASSUME NEW i \in 1..Need[first.val], Need[first.val] <= count
        PROVE  /\ off + i - 1 < Size /\ off + i - 1 < Size'
               /\ Sector(off + i - 1)' = Sector(off + i - 1)
    <3>1. /\ i - 1 \in Nat /\ i - 1 < count /\ off + (i - 1) = off + i - 1
      BY <2>1, <2>2, <2>3
    <3>2. off + (i - 1) \in Extent(s) /\ off + (i - 1) < Size
      BY <1>2, <3>1, InFile
    <3>3. off' = off
      OBVIOUS
    <3>4. off + i - 1 \in Extent(s) /\ off + i - 1 < Size
      BY <3>1, <3>2
    <3> HIDE DEF off, count, first
    <3> QED
      BY <2>1, <3>3, <3>4
  <2>4. Allocated(s)'
    BY <1>2 DEF Allocated
  <2> DEFINE Sound(i) == /\ off + i - 1 < Size
                         /\ Sector(off + i - 1) = Piece(s, first.val, i)
             Good == /\ off < Size /\ first.slot = s /\ first.part = 1
                     /\ Need[first.val] <= count
                     /\ \A i \in 1..Need[first.val] : Sound(i)
  <2>5. Read(s) = IF Good THEN first.val ELSE Damaged
    BY <1>2 DEF Read
  <2>6. Read(s)' = IF Good' THEN first'.val ELSE Damaged
    BY <1>2, <2>4 DEF Read
  <2>7. Good' <=> Good
    BY <2>1, <2>2, <2>3 DEF Piece
  <2> QED
    BY <2>2, <2>5, <2>6, <2>7
<1> QED
  BY <1>1, <1>2

-----------------------------------------------------------------------------
(* What a write does *)

\* An output changes its own sector only, which then holds that piece, or, for
\* a length field that says nothing new, the first piece.
LEMMA WriteEffect ==
    ASSUME IInv, NEW w \in Writers, WriteData(w),
           NEW n, n = SectorOf(job[w].offset, job[w].next),
           NEW p, p = Piece(job[w].slot, job[w].val, job[w].next)
    PROVE  /\ n \in Nat /\ n >= 2 /\ n <= Size
           /\ Size \in Nat /\ Size' = IF n = Size THEN Size + 1 ELSE Size
           /\ \A m \in Nat : m >= 2 /\ m < Size /\ m # n => Sector(m)' = Sector(m)
           /\ \/ Sector(n)' = p
              \/ job[w].next = 0 /\ Sector(n)' = Piece(job[w].slot, job[w].val, 1)
<1> DEFINE j == job[w]
<1>1. j.pc = "data" /\ sectors' = Written(n, p)
  BY DEF WriteData
<1>2. /\ j.slot \in Slots /\ j.val \in Vals /\ j.offset \in Nat /\ j.next \in Nat
      /\ Need[j.val] \in Nat \ {0} /\ j.next <= Need[j.val] /\ j.offset >= 2
      /\ j.offset + j.next <= Size + (IF j.next = 0 THEN 0 ELSE 1)
  BY <1>1, RegionAssumption, JobType DEF IInv, TargetSafe, JobSafe
<1>3. Size \in Nat /\ Size >= 2
  BY JobType DEF IInv
<1>4. n \in Nat /\ n >= 2 /\ n <= Size
  BY <1>2, <1>3 DEF SectorOf
<1>5. p \in Pieces
  BY <1>2 DEF Piece, Pieces
<1>6. Len(sectors') = IF n = Size THEN Len(sectors) + 1 ELSE Len(sectors)
  BY <1>1, <1>4, <1>5, WrittenType DEF IInv, Pieces
<1>7. sectors \in Seq(Pieces) /\ Len(sectors) \in Nat
  BY DEF IInv, TypeOK, Pieces
<1>8. Size' = IF n = Size THEN Size + 1 ELSE Size
  BY <1>6, <1>7 DEF Size
<1>9. CASE n = Size
  <2>1. sectors' = Append(sectors, p)
    BY <1>1, <1>9 DEF Written
  <2>2. sectors'[n - 1] = p
    BY <1>7, <1>9, <2>1 DEF Size
  <2>3. ASSUME NEW m \in Nat, m >= 2, m < Size PROVE sectors'[m - 1] = sectors[m - 1]
    BY <1>7, <2>1, <2>3 DEF Size
  <2> QED
    BY <1>3, <1>4, <1>8, <2>2, <2>3 DEF Sector
<1>10. CASE n # Size /\ p.part = 0 /\ Sector(n) = [p EXCEPT !.part = 1]
  <2>1. sectors' = sectors
    BY <1>1, <1>10 DEF Written
  <2>2. j.next = 0 /\ Sector(n) = Piece(j.slot, j.val, 1)
    BY <1>10 DEF Piece
  <2> QED
    BY <1>3, <1>4, <1>8, <2>1, <2>2 DEF Sector
<1>11. CASE n # Size /\ ~(p.part = 0 /\ Sector(n) = [p EXCEPT !.part = 1])
  <2>1. sectors' = [sectors EXCEPT ![n - 1] = p]
    BY <1>1, <1>11 DEF Written
  <2>2. n - 1 \in 1..Len(sectors) /\ n - 1 \in DOMAIN sectors
    BY <1>4, <1>7, <1>11 DEF Size
  <2>3. sectors'[n - 1] = p
    BY <2>1, <2>2
  <2>4. ASSUME NEW m \in Nat, m >= 2, m < Size, m # n
        PROVE  sectors'[m - 1] = sectors[m - 1]
    <3>1. m - 1 \in DOMAIN sectors /\ m - 1 # n - 1
      BY <1>4, <1>7, <2>4 DEF Size
    <3> QED
      BY <2>1, <3>1
  <2> QED
    BY <1>3, <1>4, <1>8, <2>3, <2>4 DEF Sector
<1> QED
  BY <1>9, <1>10, <1>11

\* An output changes what its own slot reads as, if it rewrites the record in
\* place, and nothing else: to the new payload, or to a damaged record.
LEMMA DataReads ==
    ASSUME IInv, HeaderSafe, RecordSafe, NEW w \in Writers, WriteData(w),
           NEW t \in Slots
    PROVE  \/ Read(t)' = Read(t)
           \/ /\ t = job[w].slot /\ job[w].offset = location[t].offset
              /\ Read(t)' \in {job[w].val, Damaged}
<1>0. /\ job[w].pc = "data" /\ UNCHANGED <<header, location>> /\ header = "whole"
      /\ job[w].slot \in Slots /\ job[w].val \in Vals
      /\ job[w].offset \in Nat /\ job[w].next \in Nat
      /\ location[t].offset \in Nat /\ location[t].count \in Nat
  BY JobType DEF WriteData, HeaderSafe, IInv, TargetSafe, JobSafe
<1>1. PICK s \in Slots, v \in Vals, off \in Nat, k \in Nat :
          s = job[w].slot /\ v = job[w].val /\ off = job[w].offset /\ k = job[w].next
  BY <1>0
<1>2. /\ off >= 2 /\ Need[v] \in Nat \ {0} /\ k <= Need[v]
      /\ \/ off = location[s].offset /\ Need[v] <= location[s].count
         \/ \A r \in Slots : Allocated(r) => location[r].offset + location[r].count <= off
  BY <1>0, <1>1, RegionAssumption DEF IInv, TargetSafe, JobSafe
<1> DEFINE n == SectorOf(off, k)
<1>3. n = IF k = 0 THEN off ELSE off + k - 1
  BY DEF SectorOf
<1>4. /\ Size \in Nat /\ Size' \in Nat /\ Size <= Size'
      /\ \A m \in Nat : m >= 2 /\ m < Size /\ m # n => Sector(m)' = Sector(m)
      /\ Sector(n)' = Piece(s, v, k) \/ (k = 0 /\ Sector(n)' = Piece(s, v, 1))
  BY <1>1, WriteEffect
<1> HIDE DEF n
<1>5. ASSUME n \notin Extent(t) PROVE Read(t)' = Read(t)
  <2>1. \A m \in Extent(t) : m \in Nat /\ m >= 2 /\ m < Size
    <3>1. CASE ~Allocated(t)
      BY <3>1 DEF Extent
    <3>2. CASE Allocated(t)
      <4>1. Extent(t) = location[t].offset .. (location[t].offset + location[t].count - 1)
        BY <3>2 DEF Extent
      <4>2. location[t].offset >= 2 /\ location[t].offset + location[t].count <= Size
        BY <3>2 DEF IInv, SectorsDisjoint
      <4> QED
        BY <1>0, <1>4, <4>1, <4>2
    <3> QED
      BY <3>1, <3>2
  <2>2. \A m \in Extent(t) : Sector(m)' = Sector(m)
    BY <1>4, <1>5, <2>1
  <2> QED
    BY <1>0, <1>4, <2>2, ReadLocal DEF IInv
<1>6. CASE off = location[s].offset /\ Need[v] <= location[s].count
  <2>0. /\ Allocated(s) /\ location[s].offset \in Nat /\ location[s].count \in Nat
    BY <1>2, <1>6, JobType DEF Allocated, IInv
  <2>1. n \in Extent(s)
    BY <1>2, <1>3, <1>6, <2>0 DEF Extent
  <2>2. CASE t # s
    BY <1>5, <2>1, <2>2 DEF IInv, SectorsDisjoint
  <2>3. CASE t = s
    <3>1. Sector(off)'.val = v
      <4>1. CASE n = off
        BY <1>4, <4>1 DEF Piece
      <4>2. CASE n # off
        <5>1. k # 0 /\ off < Size /\ Sector(off).val = v
          BY <1>0, <1>1, <1>3, <4>2 DEF RecordSafe, JobRecorded
        <5> QED
          BY <1>2, <1>4, <4>2, <5>1
      <4> QED
        BY <4>1, <4>2
    <3>2. header' = "whole" /\ Allocated(s)' /\ location'[s].offset = off
      BY <1>0, <1>6, <2>0 DEF Allocated
    <3>3. Read(s)' \in {Sector(location[s].offset).val', Damaged}
      BY <3>2 DEF Read
    <3>4. Sector(location[s].offset).val' = v
      BY <3>1, <3>2
    <3> QED
      BY <1>1, <1>6, <2>3, <3>3, <3>4
  <2> QED
    BY <2>2, <2>3
<1>7. CASE \A r \in Slots : Allocated(r) => location[r].offset + location[r].count <= off
  <2>1. n >= off /\ n \in Nat
    BY <1>2, <1>3
  <2>2. n \notin Extent(t)
    <3>1. CASE ~Allocated(t)
      BY <3>1 DEF Extent
    <3>2. CASE Allocated(t)
      BY <1>0, <1>7, <2>1, <3>2 DEF Extent
    <3> QED
      BY <3>1, <3>2
  <2> QED
    BY <1>5, <2>2
<1> QED
  BY <1>2, <1>6, <1>7

\* The location entry makes its slot read as the new payload.
LEMMA CommitReads ==
    ASSUME IInv, HeaderSafe, RecordSafe, NEW w \in Writers, Commit(w), NEW t \in Slots
    PROVE  Read(t)' = IF t = job[w].slot THEN job[w].val ELSE Read(t)
<1>0. /\ job[w].pc = "commit" /\ UNCHANGED <<header, sectors>> /\ header = "whole"
      /\ job[w].slot \in Slots /\ job[w].val \in Vals /\ job[w].offset \in Nat
      /\ job[w].offset \in 0..MaxOffset
  BY JobType DEF Commit, HeaderSafe, IInv, TargetSafe, JobSafe
<1>1. PICK s \in Slots, v \in Vals, off \in Nat :
          s = job[w].slot /\ v = job[w].val /\ off = job[w].offset
  BY <1>0
<1>2. /\ off >= 2 /\ Need[v] \in Nat \ {0} /\ off + Need[v] <= Size
      /\ \A i \in 1..Need[v] : Sector(off + i - 1) = Piece(s, v, i)
      /\ Size \in Nat /\ Size' = Size
  BY <1>0, <1>1, RegionAssumption, JobType
  DEF IInv, TargetSafe, JobSafe, RecordSafe, JobRecorded, Size
<1>3. location' = [location EXCEPT ![s] = [offset |-> off, count |-> Need[v]]]
  BY <1>1 DEF Commit
<1>4. /\ location'[s].offset = off /\ location'[s].count = Need[v]
      /\ \A u \in Slots : u # s => location'[u] = location[u]
  BY <1>3 DEF IInv, TypeOK
<1>5. Read(s)' = v
  <2>1. header' = "whole" /\ Allocated(s)'
    BY <1>0, <1>2, <1>4 DEF Allocated
  <2>2. \A m : Sector(m)' = sectors[m - 1] /\ Sector(m) = sectors[m - 1]
    BY <1>0 DEF Sector
  <2>3. Sector(off + 1 - 1) = Piece(s, v, 1) /\ off + 1 - 1 = off
    BY <1>2
  <2>4. /\ Sector(location[s].offset)' = Piece(s, v, 1)
        /\ location'[s].offset < Size'
        /\ Need[v] <= location'[s].count
        /\ \A i \in 1..Need[v] :
              /\ location'[s].offset + i - 1 < Size'
              /\ Sector(location[s].offset + i - 1)' = Piece(s, v, i)
    BY <1>0, <1>2, <1>4, <2>3 DEF Sector
  <2>5. Piece(s, v, 1).slot = s /\ Piece(s, v, 1).val = v /\ Piece(s, v, 1).part = 1
    BY DEF Piece
  <2> QED
    BY <2>1, <2>4, <2>5 DEF Read
<1>6. CASE t # s
  <2>1. \A m \in Extent(t) : Sector(m)' = Sector(m)
    BY <1>0 DEF Sector
  <2> QED
    BY <1>0, <1>1, <1>2, <1>4, <1>6, <2>1, ReadLocal DEF IInv
<1> QED
  BY <1>1, <1>5, <1>6

-----------------------------------------------------------------------------
(* The invariant of what slots read as *)

RInv == IInv /\ HeaderSafe /\ RecordSafe

LEMMA InitRInv == Init => RInv
<1> SUFFICES ASSUME Init PROVE RInv
  OBVIOUS
<1>1. HeaderSafe
  BY DEF Init, HeaderSafe, Allocated, Idle, Job
<1>2. RecordSafe
  BY DEF Init, RecordSafe, JobRecorded, Idle, Job
<1> QED
  BY <1>1, <1>2, InitIInv DEF RInv

LEMMA HeaderStep ==
    ASSUME SingleWriter, RInv, Next
    PROVE  HeaderSafe'
<1> USE DEF RInv, IInv, TypeOK, SingleWriter
<1>1. ASSUME NEW w \in Writers, NEW s \in Slots, NEW v \in Vals, BeginSave(w, s, v)
      PROVE  HeaderSafe'
  BY <1>1 DEF BeginSave, HeaderSafe, Allocated, Job
<1>2. ASSUME NEW w \in Writers, Open(w) PROVE HeaderSafe'
  <2>1. /\ UNCHANGED location
        /\ \/ header = "missing" /\ header' = "short" /\ job'[w].pc = "create"
           \/ header = "short" /\ header' = header /\ job'[w] = Failed
           \/ header = "whole" /\ header' = header /\ job'[w].pc = "locate"
    BY <1>2 DEF Open, Jobs
  <2> QED
    BY <2>1 DEF HeaderSafe, Allocated, Failed, Job
<1>3. ASSUME NEW w \in Writers, WriteHeader(w) PROVE HeaderSafe'
  BY <1>3 DEF WriteHeader, HeaderSafe, Allocated
<1>4. ASSUME NEW w \in Writers, Locate(w) PROVE HeaderSafe'
  <2>1. header = "whole" /\ header' = header
    BY <1>4 DEF Locate, HeaderSafe
  <2>2. job'[w].pc # "create" /\ \A u \in Writers : u = w
    BY <1>4 DEF Locate, Failed, Job, Jobs
  <2> QED
    BY <2>1, <2>2 DEF HeaderSafe
<1>5. ASSUME NEW w \in Writers, WriteData(w) \/ Commit(w) PROVE HeaderSafe'
  <2>1. header = "whole" /\ header' = header
    BY <1>5 DEF WriteData, Commit, HeaderSafe
  <2>2. job'[w].pc # "create" /\ \A u \in Writers : u = w
    BY <1>5 DEF WriteData, Commit, Jobs
  <2> QED
    BY <2>1, <2>2 DEF HeaderSafe
<1>6. ASSUME NEW w \in Writers, Return(w) \/ WriteFails(w) PROVE HeaderSafe'
  BY <1>6 DEF Return, WriteFails, HeaderSafe, Allocated, Idle, Failed, Job
<1>7. CASE Crash
  BY <1>7 DEF Crash, HeaderSafe, Allocated, Failed, Job
<1> QED
  BY <1>1, <1>2, <1>3, <1>4, <1>5, <1>6, <1>7 DEF Next

LEMMA DataRecorded ==
    ASSUME SingleWriter, RInv, NEW w \in Writers, WriteData(w)
    PROVE  RecordSafe'
<1>0. /\ job[w].pc = "data" /\ UNCHANGED <<header, location>>
      /\ job[w].slot \in Slots /\ job[w].val \in Vals
      /\ job[w].offset \in Nat /\ job[w].next \in Nat
      /\ job[w] \in Jobs
  <2>1. job[w].pc = "data" /\ UNCHANGED <<header, location>>
    BY DEF WriteData
  <2>2. JobSafe(job[w]) /\ job[w] \in Jobs
    BY DEF RInv, IInv, TypeOK, TargetSafe
  <2>3. job[w].offset \in Nat /\ job[w].next \in Nat
    BY JobType DEF RInv, IInv
  <2>4. job[w].slot \in Slots /\ job[w].val \in Vals
    BY <2>1, <2>2 DEF JobSafe
  <2> QED
    BY <2>1, <2>2, <2>3, <2>4
<1>1. PICK s \in Slots, v \in Vals, off \in Nat, k \in Nat :
          s = job[w].slot /\ v = job[w].val /\ off = job[w].offset /\ k = job[w].next
  BY <1>0
<1>2. /\ off >= 2 /\ Need[v] \in Nat \ {0} /\ k <= Need[v]
      /\ off + k <= Size + (IF k = 0 THEN 0 ELSE 1)
  BY <1>0, <1>1, RegionAssumption DEF RInv, IInv, TargetSafe, JobSafe
<1>3. k # 0 => /\ off < Size /\ Sector(off).slot = s /\ Sector(off).val = v
               /\ \A i \in 1..(k - 1) : Sector(off + i - 1) = Piece(s, v, i)
  BY <1>0, <1>1 DEF RInv, RecordSafe, JobRecorded
<1> DEFINE n == SectorOf(off, k)
<1>4. n = IF k = 0 THEN off ELSE off + k - 1
  BY DEF SectorOf
<1>5. /\ Size \in Nat /\ Size' \in Nat /\ Size <= Size' /\ n < Size'
      /\ \A m \in Nat : m >= 2 /\ m < Size /\ m # n => Sector(m)' = Sector(m)
      /\ Sector(n)' = Piece(s, v, k) \/ (k = 0 /\ Sector(n)' = Piece(s, v, 1))
  BY <1>1, WriteEffect DEF RInv
<1> HIDE DEF n
<1>6. /\ job'[w].slot = s /\ job'[w].val = v /\ job'[w].offset = off
      /\ job'[w].next = k + 1
      /\ job'[w].pc = IF k = Need[v] THEN "commit" ELSE "data"
  BY <1>0, <1>1 DEF WriteData, RInv, IInv, TypeOK, Jobs
<1>7. off < Size'
  BY <1>2, <1>4, <1>5
<1>8. Sector(off)'.slot = s /\ Sector(off)'.val = v
  <2>1. CASE n = off
    BY <1>5, <2>1 DEF Piece
  <2>2. CASE n # off
    BY <1>2, <1>3, <1>4, <1>5, <2>2
  <2> QED
    BY <2>1, <2>2
<1>9. \A i \in 1..k : Sector(off + i - 1)' = Piece(s, v, i)
  <2> SUFFICES ASSUME NEW i \in 1..k PROVE Sector(off + i - 1)' = Piece(s, v, i)
    OBVIOUS
  <2>0. k # 0 /\ off + i - 1 \in Nat /\ off + i - 1 >= 2 /\ i \in Nat
    BY <1>2
  <2>1. CASE i = k
    BY <1>4, <1>5, <2>0, <2>1
  <2>2. CASE i # k
    <3>1. i \in 1..(k - 1) /\ off + i - 1 < Size /\ off + i - 1 # n
      BY <1>2, <1>4, <1>5, <2>0, <2>2
    <3> QED
      BY <1>3, <1>5, <2>0, <3>1
  <2> QED
    BY <2>1, <2>2
<1>10. JobRecorded(job[w])'
  <2>1. job'[w].pc \notin {"idle", "failed", "return"}
    BY <1>6
  <2>2. Sector(job[w].offset)' = Sector(off)'
    BY <1>6 DEF Sector
  <2>3. \A i : Sector(job[w].offset + i - 1)' = Sector(off + i - 1)'
    BY <1>6 DEF Sector
  <2>4. job'[w].pc = "commit" => k = Need[v]
    BY <1>6
  <2>5. k + 1 - 1 = k
    OBVIOUS
  <2> QED
    BY <1>6, <1>7, <1>8, <1>9, <2>1, <2>2, <2>3, <2>4, <2>5 DEF JobRecorded
<1> QED
  BY <1>10 DEF SingleWriter, RecordSafe

\* What slots read as, and how far each record has come, survive every step.
LEMMA RInvStep ==
    ASSUME SingleWriter, RInv, [Next]_vars
    PROVE  RInv'
<1>0. IInv'
  BY IInvStep DEF RInv
<1>1. CASE UNCHANGED vars
  <2>1. HeaderSafe'
    BY <1>1 DEF vars, RInv, HeaderSafe, Allocated
  <2>2. RecordSafe'
    <3>1. /\ job' = job /\ Size' = Size
          /\ \A m : Sector(m)' = sectors[m - 1] /\ Sector(m) = sectors[m - 1]
      BY <1>1 DEF vars, Sector, Size
    <3>2. UNCHANGED <<header, location, sectors>>
      BY <1>1 DEF vars
    <3> SUFFICES ASSUME NEW w \in Writers PROVE JobRecorded(job[w])'
      BY DEF RecordSafe
    <3>3. JobRecorded(job[w])
      BY DEF RInv, RecordSafe
    <3>4. Read(job[w].slot)' = Read(job[w].slot)
      BY <3>1, <3>2 DEF Read, Allocated, Sector, Size, Piece
    <3>5. /\ Sector(job[w].offset)' = Sector(job[w].offset)
          /\ \A i : Sector(job[w].offset + i - 1)' = Sector(job[w].offset + i - 1)
      BY <3>1, <3>2 DEF Sector
    <3> QED
      BY <3>1, <3>3, <3>4, <3>5 DEF JobRecorded
  <2> QED
    BY <1>0, <2>1, <2>2 DEF RInv
<1>2. CASE Next
  <2> USE DEF SingleWriter
  <2>1. HeaderSafe'
    BY <1>2, HeaderStep
  <2>2. RecordSafe'
    <3>0. job \in [Writers -> Jobs]
      BY DEF RInv, IInv, TypeOK
    <3>1. ASSUME NEW w \in Writers, NEW s \in Slots, NEW v \in Vals, BeginSave(w, s, v)
          PROVE  RecordSafe'
      <4>1. job'[w].pc = "open"
        BY <3>0, <3>1 DEF BeginSave, Job
      <4> QED
        BY <4>1 DEF RecordSafe, JobRecorded
    <3>2. ASSUME NEW w \in Writers, Open(w) \/ WriteHeader(w) \/ Return(w) \/ WriteFails(w)
          PROVE  RecordSafe'
      <4>1. job'[w].pc \in {"create", "locate"} \/ job'[w] \in {Idle, Failed}
        BY <3>0, <3>2 DEF Open, WriteHeader, Return, WriteFails, Jobs
      <4> QED
        BY <4>1 DEF RecordSafe, JobRecorded, Idle, Failed, Job
    <3>3. ASSUME NEW w \in Writers, Locate(w) PROVE RecordSafe'
      <4>1. job[w].next = 0
        BY <3>3 DEF Locate, RInv, IInv, TargetSafe, JobSafe
      <4>2. (job'[w].pc = "data" /\ job'[w].next = 0) \/ job'[w] = Failed
        BY <3>0, <3>3, <4>1 DEF Locate, Jobs
      <4> QED
        BY <4>2 DEF RecordSafe, JobRecorded, Failed, Job
    <3>4. ASSUME NEW w \in Writers, WriteData(w) PROVE RecordSafe'
      BY <3>4, DataRecorded
    <3>5. ASSUME NEW w \in Writers, Commit(w) PROVE RecordSafe'
      <4>1. job[w].slot \in Slots /\ job[w].pc = "commit"
        BY <3>5 DEF Commit, RInv, IInv, TargetSafe, JobSafe
      <4>2. PICK s \in Slots : s = job[w].slot
        BY <4>1
      <4>3. Read(s)' = job[w].val
        BY <3>5, <4>2, CommitReads DEF RInv
      <4>4. job'[w].pc = "return" /\ job'[w].slot = s /\ job'[w].val = job[w].val
        BY <3>0, <3>5, <4>2 DEF Commit, Jobs
      <4>5. Read(job[w].slot)' = Read(s)'
        BY <4>4 DEF Read, Allocated, Sector, Piece
      <4> QED
        BY <4>3, <4>4, <4>5 DEF RecordSafe, JobRecorded
    <3>6. CASE Crash
      BY <3>6 DEF Crash, RecordSafe, JobRecorded, Failed, Job
    <3> QED
      BY <1>2, <3>1, <3>2, <3>3, <3>4, <3>5, <3>6 DEF Next
  <2> QED
    BY <1>0, <2>1, <2>2 DEF RInv
<1> QED
  BY <1>1, <1>2

LEMMA RInvCorrect == SingleWriter => (Spec => []RInv)
<1> SUFFICES ASSUME SingleWriter PROVE Spec => []RInv
  OBVIOUS
<1>1. RInv /\ [Next]_vars => RInv'
  BY RInvStep
<1> QED
  BY InitRInv, <1>1, PTL DEF Spec

-----------------------------------------------------------------------------
(* Damage *)

\* Steps that touch neither the file nor its header leave every slot alone.
LEMMA SameFile ==
    ASSUME UNCHANGED <<header, location, sectors>>, NEW s
    PROVE  Read(s)' = Read(s)
BY DEF Read, Allocated, Sector, Size, Piece

\* OnlyRewritesDamage: with one RegionFile object on the file, a payload turns
\* unreadable only while its own slot's record is rewritten in place; a record
\* that has outgrown its sectors stays readable until its copy is located.
THEOREM OnlyRewritesDamageCorrect == SingleWriter => (Spec => OnlyRewritesDamage)
<1> SUFFICES ASSUME SingleWriter PROVE Spec => OnlyRewritesDamage
  OBVIOUS
<1> DEFINE Careful == \A s \in Slots :
              Read(s) \in Vals /\ Read(s)' = Damaged =>
                 \E w \in Writers : /\ job[w].pc = "data" /\ job[w].slot = s
                                    /\ job[w].offset = location[s].offset
<1>1. RInv /\ [Next]_vars => [Careful]_vars
  <2> SUFFICES ASSUME RInv, Next, NEW s \in Slots, Read(s) \in Vals, Read(s)' = Damaged
               PROVE  \E w \in Writers : /\ job[w].pc = "data" /\ job[w].slot = s
                                         /\ job[w].offset = location[s].offset
    OBVIOUS
  <2>0. Read(s)' # Read(s)
    BY RegionAssumption
  <2>1. \E w \in Writers : Open(w) \/ WriteHeader(w) \/ WriteData(w) \/ Commit(w)
    <3>1. ASSUME ~UNCHANGED <<header, location, sectors>>
          PROVE  \E w \in Writers : Open(w) \/ WriteHeader(w) \/ WriteData(w) \/ Commit(w)
      BY <3>1 DEF Next, BeginSave, Locate, Return, WriteFails, Crash
    <3> QED
      BY <2>0, <3>1, SameFile
  <2>2. ASSUME NEW w \in Writers, Open(w) PROVE FALSE
    <3>1. header = "missing" \/ UNCHANGED <<header, location, sectors>>
      BY <2>2 DEF Open
    <3>2. header = "missing" => Read(s) = Absent
      BY DEF Read
    <3> QED
      BY <2>0, <3>1, <3>2, SameFile, RegionAssumption
  <2>3. ASSUME NEW w \in Writers, WriteHeader(w) PROVE FALSE
    <3>1. header = "short"
      BY <2>3 DEF WriteHeader, RInv, HeaderSafe
    <3> QED
      BY <3>1, RegionAssumption DEF Read
  <2>4. ASSUME NEW w \in Writers, WriteData(w)
        PROVE  /\ job[w].pc = "data" /\ job[w].slot = s
               /\ job[w].offset = location[s].offset
    BY <2>0, <2>4, DataReads DEF RInv, WriteData
  <2>5. ASSUME NEW w \in Writers, Commit(w) PROVE FALSE
    <3>1. job[w].val \in Vals
      BY <2>5 DEF Commit, RInv, IInv, TargetSafe, JobSafe
    <3>2. Read(s)' = Read(s) \/ Read(s)' = job[w].val
      BY <2>5, CommitReads DEF RInv
    <3> QED
      BY <2>0, <3>1, <3>2, RegionAssumption
  <2> QED
    BY <2>1, <2>2, <2>3, <2>4, <2>5
<1> QED
  BY <1>1, RInvCorrect, PTL DEF Spec, OnlyRewritesDamage

-----------------------------------------------------------------------------
(* RegionFile implements ChunkStore *)

Stored == [s \in Slots |-> Read(s)]
Saves == [w \in Writers |-> Save(w)]

\* How a writer's save stands, as its job tells it.
SaveIs(w, result, s, v) == Save(w) = [result |-> result, slot |-> s, val |-> v]

SaveStates ==
    \A w \in Writers :
        /\ job[w] = Idle => SaveIs(w, "returned", NoSlot, NoVal)
        /\ job[w] = Failed => SaveIs(w, "thrown", NoSlot, NoVal)
        /\ job[w].pc \notin {"idle", "failed"} =>
              SaveIs(w, "pending", job[w].slot, job[w].val)

LEMMA SaveStatesHold == SaveStates
<1> SUFFICES ASSUME NEW w \in Writers
             PROVE  /\ job[w] = Idle => SaveIs(w, "returned", NoSlot, NoVal)
                    /\ job[w] = Failed => SaveIs(w, "thrown", NoSlot, NoVal)
                    /\ job[w].pc \notin {"idle", "failed"} =>
                          SaveIs(w, "pending", job[w].slot, job[w].val)
  BY DEF SaveStates
<1>1. Idle.pc = "idle" /\ Failed.pc = "failed" /\ Idle # Failed
  BY DEF Idle, Failed, Job
<1>2. CASE job[w] = Idle
  BY <1>1, <1>2 DEF SaveIs, Save, Idle, Job
<1>3. CASE job[w] = Failed
  BY <1>1, <1>3 DEF SaveIs, Save, Failed, Job
<1>4. CASE job[w].pc \notin {"idle", "failed"}
  BY <1>1, <1>4 DEF SaveIs, Save
<1> QED
  BY <1>1, <1>2, <1>3, <1>4

\* A step in which the only writer's save begins, ends or goes on.
LEMMA SaveChange ==
    ASSUME SingleWriter, NEW w \in Writers, NEW r, Save(w)' = r
    PROVE  Saves' = [Saves EXCEPT ![w] = r]
BY DEF SingleWriter, Saves

LEMMA StoreStep ==
    ASSUME SingleWriter, RInv, [Next]_vars
    PROVE  [Store!Next]_<<Stored, Saves>>
<1>0. /\ job \in [Writers -> Jobs] /\ SaveStates /\ SaveStates'
      /\ \A w \in Writers : job[w].pc \notin {"idle", "failed"} =>
            job[w].slot \in Slots /\ job[w].val \in Vals
  <2>1. SaveStates'
    BY SaveStatesHold, PTL
  <2> QED
    BY <2>1, SaveStatesHold DEF RInv, IInv, TypeOK, TargetSafe, JobSafe
<1>a. Idle.pc = "idle" /\ Failed.pc = "failed"
  BY DEF Idle, Failed, Job
<1>b. ASSUME \A s \in Slots : Read(s)' = Read(s) PROVE Stored' = Stored
  BY <1>b DEF Stored
<1>c. ASSUME UNCHANGED <<header, location, sectors>> PROVE Stored' = Stored
  BY <1>b, <1>c, SameFile
\* A step between two points of the same save.
<1>d. ASSUME NEW w \in Writers, job[w].pc \notin {"idle", "failed"},
             job'[w].pc \notin {"idle", "failed"},
             job'[w].slot = job[w].slot, job'[w].val = job[w].val
      PROVE  /\ Saves' = Saves
             /\ Store!Pending(w, job[w].slot, job[w].val)
  <2>1. Save(w)' = Save(w)
    BY <1>0, <1>d DEF SaveStates, SaveIs
  <2>2. Saves' = Saves
    BY <2>1 DEF Saves, SingleWriter
  <2>3. Saves[w] = [result |-> "pending", slot |-> job[w].slot, val |-> job[w].val]
    BY <1>0, <1>d DEF SaveStates, SaveIs, Saves
  <2> QED
    BY <2>2, <2>3 DEF Store!Pending, Saves
\* A step that ends a save by an exception.
<1>e. ASSUME NEW w \in Writers, job[w].pc \notin {"idle", "failed"},
             job'[w] = Failed, UNCHANGED <<header, location, sectors>>
      PROVE  Store!Next
  <2>1. Saves[w] = [result |-> "pending", slot |-> job[w].slot, val |-> job[w].val]
    BY <1>0, <1>e DEF SaveStates, SaveIs, Saves
  <2>2. Save(w)' = [result |-> "thrown", slot |-> NoSlot, val |-> NoVal]
    BY <1>0, <1>e DEF SaveStates, SaveIs
  <2>3. Saves' = [Saves EXCEPT ![w] = [result |-> "thrown", slot |-> NoSlot, val |-> NoVal]]
    BY <2>2, SaveChange
  <2>4. Store!Throw(w, job[w].slot, job[w].val)
    BY <1>c, <1>e, <2>1, <2>3
    DEF Store!Throw, Store!Pending, Store!Ended, Stored, Saves
  <2> QED
    BY <1>0, <1>e, <2>4 DEF Store!Next
<1>1. ASSUME NEW w \in Writers, NEW s \in Slots, NEW v \in Vals, BeginSave(w, s, v)
      PROVE  Store!Next
  <2>1. /\ job[w] \in {Idle, Failed} /\ UNCHANGED <<header, location, sectors>>
        /\ job'[w] = Job("open", s, v)
    BY <1>0, <1>1 DEF BeginSave
  <2>2. Saves[w].result # "pending"
    BY <1>0, <2>1 DEF SaveStates, SaveIs, Saves
  <2>3. Save(w)' = [result |-> "pending", slot |-> s, val |-> v]
    BY <1>0, <2>1 DEF SaveStates, SaveIs, Job
  <2>4. Saves' = [Saves EXCEPT ![w] = [result |-> "pending", slot |-> s, val |-> v]]
    BY <2>3, SaveChange
  <2>5. Store!Begin(w, s, v)
    BY <1>c, <2>1, <2>2, <2>4 DEF Store!Begin, Stored, Saves
  <2> QED
    BY <2>5 DEF Store!Next
<1>2. ASSUME NEW w \in Writers, Open(w) PROVE [Store!Next]_<<Stored, Saves>>
  <2>1. CASE job' = [job EXCEPT ![w] = Failed] /\ header' = header
    <3>1. job[w].pc = "open" /\ UNCHANGED <<location, sectors>>
      BY <1>2 DEF Open
    <3> QED
      BY <1>0, <1>e, <2>1, <3>1
  <2>2. CASE job' = [job EXCEPT ![w].pc = "locate"] /\ header' = header
    <3>1. job[w].pc = "open" /\ UNCHANGED <<location, sectors>>
      BY <1>2 DEF Open
    <3>2. /\ job'[w].pc = "locate" /\ job'[w].slot = job[w].slot
          /\ job'[w].val = job[w].val
      BY <1>0, <2>2 DEF Jobs
    <3> QED
      BY <1>c, <1>d, <2>2, <3>1, <3>2
  <2>3. CASE /\ header = "missing" /\ header' = "short"
             /\ job' = [job EXCEPT ![w].pc = "create"]
    <3>1. job[w].pc = "open"
      BY <1>2 DEF Open
    <3>2. /\ job'[w].pc = "create" /\ job'[w].slot = job[w].slot
          /\ job'[w].val = job[w].val
      BY <1>0, <2>3 DEF Jobs
    <3>3. \A s \in Slots : Read(s) = Absent /\ Read(s)' = Damaged
      BY <2>3 DEF Read
    <3>4. /\ \A s \in Slots : Stored[s] \in {Absent, Damaged}
          /\ Stored' = [s \in Slots |-> Damaged]
      BY <3>3 DEF Stored
    <3>5. Store!Create
      BY <1>d, <3>1, <3>2, <3>4 DEF Store!Create, Stored, Saves
    <3> QED
      BY <3>5 DEF Store!Next
  <2> QED
    BY <1>2, <2>1, <2>2, <2>3 DEF Open
<1>3. ASSUME NEW w \in Writers, WriteHeader(w) PROVE Store!Next
  <2>1. /\ job[w].pc = "create" /\ header = "short" /\ header' = "whole"
        /\ UNCHANGED <<location, sectors>>
    BY <1>3 DEF WriteHeader, RInv, HeaderSafe
  <2>2. /\ job'[w].pc = "locate" /\ job'[w].slot = job[w].slot
        /\ job'[w].val = job[w].val
    BY <1>0, <1>3 DEF WriteHeader, Jobs
  <2>3. \A s \in Slots : Read(s) = Damaged /\ Read(s)' = Absent
    <3>1. \A s \in Slots : ~Allocated(s) /\ ~Allocated(s)'
      BY <2>1 DEF RInv, HeaderSafe, Allocated
    <3> QED
      BY <2>1, <3>1 DEF Read
  <2>4. /\ \A s \in Slots : Stored[s] \in {Absent, Damaged}
        /\ Stored' = [s \in Slots |-> Absent]
    BY <2>3 DEF Stored
  <2>5. Store!Create
    BY <1>d, <2>1, <2>2, <2>4 DEF Store!Create, Stored, Saves
  <2> QED
    BY <2>5 DEF Store!Next
<1>4. ASSUME NEW w \in Writers, Locate(w) PROVE [Store!Next]_<<Stored, Saves>>
  <2>1. job[w].pc = "locate" /\ UNCHANGED <<header, location, sectors>>
    BY <1>4 DEF Locate
  <2>2. \/ job'[w] = Failed
        \/ /\ job'[w].pc = "data" /\ job'[w].slot = job[w].slot
           /\ job'[w].val = job[w].val
    BY <1>0, <1>4 DEF Locate, Jobs
  <2> QED
    BY <1>c, <1>d, <1>e, <2>1, <2>2
<1>5. ASSUME NEW w \in Writers, WriteData(w) PROVE [Store!Next]_<<Stored, Saves>>
  <2>1. /\ job[w].pc = "data" /\ job'[w].pc \in {"data", "commit"}
        /\ job'[w].slot = job[w].slot /\ job'[w].val = job[w].val
    BY <1>0, <1>5 DEF WriteData, Jobs
  <2>2. PICK s \in Slots, v \in Vals : s = job[w].slot /\ v = job[w].val
    BY <1>0, <2>1
  <2>3. \A t \in Slots : Read(t)' = Read(t) \/ (t = s /\ Read(t)' \in {v, Damaged})
    BY <1>5, <2>2, DataReads DEF RInv
  <2>4. \/ Stored' = Stored
        \/ Stored' = [Stored EXCEPT ![s] = v]
        \/ Stored' = [Stored EXCEPT ![s] = Damaged]
    BY <2>3 DEF Stored
  <2>5. Saves' = Saves /\ Store!Pending(w, s, v)
    BY <1>d, <2>1, <2>2
  <2>6. Stored' = Stored \/ Store!Store(w, s, v) \/ Store!Damage(w, s, v)
    BY <2>4, <2>5 DEF Store!Store, Store!Damage, Stored, Saves
  <2> QED
    BY <2>5, <2>6 DEF Store!Next
<1>6. ASSUME NEW w \in Writers, Commit(w) PROVE Store!Next
  <2>1. /\ job[w].pc = "commit" /\ job'[w].pc = "return"
        /\ job'[w].slot = job[w].slot /\ job'[w].val = job[w].val
    BY <1>0, <1>6 DEF Commit, Jobs
  <2>2. PICK s \in Slots, v \in Vals : s = job[w].slot /\ v = job[w].val
    BY <1>0, <2>1
  <2>3. \A t \in Slots : Read(t)' = IF t = s THEN v ELSE Read(t)
    BY <1>6, <2>2, CommitReads DEF RInv
  <2>4. Stored' = [Stored EXCEPT ![s] = v]
    BY <2>3 DEF Stored
  <2>5. Store!Store(w, s, v)
    BY <1>d, <2>1, <2>2, <2>4 DEF Store!Store, Stored, Saves
  <2> QED
    BY <2>5 DEF Store!Next
<1>7. ASSUME NEW w \in Writers, Return(w) PROVE Store!Next
  <2>1. /\ job[w].pc = "return" /\ job'[w] = Idle
        /\ UNCHANGED <<header, location, sectors>>
    BY <1>0, <1>7 DEF Return
  <2>2. PICK s \in Slots, v \in Vals : s = job[w].slot /\ v = job[w].val
    BY <1>0, <2>1
  <2>3. Stored[s] = v
    BY <2>1, <2>2 DEF RInv, RecordSafe, JobRecorded, Stored
  <2>4. Saves[w] = [result |-> "pending", slot |-> s, val |-> v]
    BY <1>0, <2>1, <2>2 DEF SaveStates, SaveIs, Saves
  <2>5. Save(w)' = [result |-> "returned", slot |-> NoSlot, val |-> NoVal]
    BY <1>0, <2>1 DEF SaveStates, SaveIs
  <2>6. Saves' = [Saves EXCEPT ![w] = [result |-> "returned", slot |-> NoSlot, val |-> NoVal]]
    BY <2>5, SaveChange
  <2>7. Store!Return(w, s, v)
    BY <1>c, <2>1, <2>3, <2>4, <2>6
    DEF Store!Return, Store!Pending, Store!Ended, Stored, Saves
  <2> QED
    BY <2>7 DEF Store!Next
<1>8. ASSUME NEW w \in Writers, WriteFails(w) PROVE Store!Next
  <2>1. /\ job[w].pc \in {"create", "data", "commit", "return"} /\ job'[w] = Failed
        /\ UNCHANGED <<header, location, sectors>>
    BY <1>0, <1>8 DEF WriteFails
  <2> QED
    BY <1>e, <2>1
<1>9. CASE Crash
  <2>1. PICK w \in Writers : job[w] \notin {Idle, Failed}
    BY <1>9 DEF Crash
  <2>2. job[w].pc \notin {"idle", "failed"}
    BY <2>1 DEF RInv, RecordSafe, JobRecorded
  <2>3. job'[w] = Failed /\ UNCHANGED <<header, location, sectors>>
    BY <1>9 DEF Crash
  <2> QED
    BY <1>e, <2>2, <2>3
<1>10. CASE UNCHANGED vars
  <2>1. Stored' = Stored
    BY <1>10, <1>c DEF vars
  <2>2. Saves' = Saves
    BY <1>10 DEF vars, Saves, Save
  <2> QED
    BY <2>1, <2>2
<1> QED
  BY <1>1, <1>2, <1>3, <1>4, <1>5, <1>6, <1>7, <1>8, <1>9, <1>10 DEF Next

\* StoreSpec: with one RegionFile object on the file, the sequences of writes,
\* failed and cut short ones included, keep ChunkStore's promise.
THEOREM ImplementsStore == SingleWriter => (Spec => StoreSpec)
<1> SUFFICES ASSUME SingleWriter PROVE Spec => StoreSpec
  OBVIOUS
<1>1. Init => Store!Init
  <2> SUFFICES ASSUME Init PROVE Store!Init
    OBVIOUS
  <2>1. \A s \in Slots : Read(s) = Absent
    BY DEF Init, Read
  <2>2. \A w \in Writers : Save(w) = [result |-> "returned", slot |-> NoSlot, val |-> NoVal]
    BY SaveStatesHold DEF Init, SaveStates, SaveIs
  <2> QED
    BY <2>1, <2>2 DEF Store!Init, Store!Ended
<1>2. RInv /\ [Next]_vars => [Store!Next]_<<[s \in Slots |-> Read(s)],
                                          [w \in Writers |-> Save(w)]>>
  BY StoreStep DEF Stored, Saves
<1> QED
  BY <1>1, <1>2, RInvCorrect, PTL DEF Spec, StoreSpec, Store!Spec

-----------------------------------------------------------------------------
(* The scalar state of a world and level.mcd.                              *)
(*                                                                         *)
(* What a client was shown needs only types: every handler changes both    *)
(* sides.  CrashSafe and Resumes need to know what is in the two files at  *)
(* each point of a save (Orderly), as long as sessions follow one another. *)

\* A border moves for no longer than it was told to.
Borders ==
    {b \in [center : Int, size : Int, start : Int, target : Int, total : Nat,
            remaining : Nat, warning : Int] : b.remaining <= b.total}

Worlds ==
    [day : Nat, advance : BOOLEAN, raining : BOOLEAN, thundering : BOOLEAN, duration : Int,
     cycle : BOOLEAN, rainLevel : 0..FullRain, thunderLevel : 0..FullRain, difficulty : Nat,
     border : Borders, rules : [L!RuleNames -> BOOLEAN]]

Knowledge ==
    [rules : [L!RuleNames -> BOOLEAN], difficulty : Nat, raining : BOOLEAN,
     rainLevel : 0..FullRain, thunderLevel : 0..FullRain, center : Int, target : Int,
     warning : Int]

LevelFiles == [kind : {"absent", "torn", "whole"}, world : Worlds]

StateTypes ==
    /\ phase \in [Sessions -> {"out", "loading", "in", "opened", "written"}]
    /\ leaving \in [Sessions -> BOOLEAN] /\ shared \in BOOLEAN
    /\ world \in [Sessions -> Worlds] /\ client \in [Sessions -> Knowledge]
    /\ fd \in [Sessions -> {"none", "tmp", "level", "unnamed"}]
    /\ level \in LevelFiles /\ tmp \in LevelFiles /\ kept \in LevelFiles
    /\ ticks \in 0..MaxTicks /\ commands \in 0..MaxCommands /\ saves \in 0..MaxSaves

\* The flags of a world that two of its rules set, and the difficulty of hardcore.
InStep(w) ==
    /\ w.advance = w.rules["doDaylightCycle"] /\ w.cycle = w.rules["doWeatherCycle"]
    /\ Hardcore => w.difficulty = L!Hard

\* The session's client has been sent its world.
Playing(s) == phase[s] \in {"in", "opened", "written"}

\* While sessions follow one another: level.mcd holds what was saved last, and is written by
\* a rename of what the one session that runs has written whole; what was loaded is what is
\* in it, but for the border and the rules, which Join reads.
Orderly ==
    /\ \A s, t \in Sessions : phase[s] # "out" /\ phase[t] # "out" => s = t
    /\ \A s \in Sessions : fd[s] = IF phase[s] \in {"opened", "written"} THEN "tmp" ELSE "none"
    /\ level = kept /\ level.kind # "torn"
    /\ level.kind = "absent" => level = L!Missing
    /\ level.kind # "absent" => InStep(level.world)
    /\ \A s \in Sessions :
          /\ phase[s] = "opened" => tmp.kind = "torn"
          /\ phase[s] = "written" => tmp = L!File("whole", world[s])
          /\ Playing(s) => InStep(world[s])
          /\ phase[s] = "loading" /\ level.kind # "absent" =>
                world[s] = [level.world EXCEPT !.border = L!Fresh.border, !.rules = L!Fresh.rules]

StateInv == StateTypes /\ L!WorldShown /\ (~shared => Orderly)

LEMMA FreshWorld == L!Fresh \in Worlds
<1>1. L!Middle \in Int /\ (CHOOSE d \in Durations : TRUE) \in Int
  <2>1. (CHOOSE n \in Sizes : TRUE) \in Sizes /\ (CHOOSE d \in Durations : TRUE) \in Durations
    BY StateAssumption, Zenon DEF L!StateConstants
  <2> QED
    <3>1. Sizes \subseteq Int /\ \A d \in Durations : d \in Int
      BY StateAssumption DEF L!StateConstants
    <3> QED
      BY <2>1, <3>1, Zenon DEF L!Middle
<1>2. L!Fresh.border \in Borders
  BY <1>1 DEF L!Fresh, Borders
<1>3. L!Fresh.rules \in [L!RuleNames -> BOOLEAN]
  BY DEF L!Fresh
<1>4. 0 \in 0..FullRain
  BY StateAssumption DEF L!StateConstants
<1> QED
  BY <1>1, <1>2, <1>3, <1>4 DEF L!Fresh, Worlds

LEMMA KnowledgeSame ==
    ASSUME NEW k \in Knowledge, NEW m \in Knowledge,
           k.rules = m.rules, k.difficulty = m.difficulty, k.raining = m.raining,
           k.rainLevel = m.rainLevel, k.thunderLevel = m.thunderLevel, k.center = m.center,
           k.target = m.target, k.warning = m.warning
    PROVE  k = m
  BY DEF Knowledge

LEMMA KnownType == ASSUME NEW w \in Worlds PROVE L!Known(w) \in Knowledge
  BY DEF Worlds, Borders, L!Known, Knowledge

\* What a game tick or a command of the session s makes of its world and its client.
Plays(s, w, c) ==
    /\ phase[s] = "in"
    /\ world' = [world EXCEPT ![s] = w] /\ client' = [client EXCEPT ![s] = c]
    /\ UNCHANGED <<phase, leaving, shared, level, tmp, fd, kept, saves>>
    /\ ticks' \in 0..MaxTicks /\ commands' \in 0..MaxCommands

LEMMA PlaysStep ==
    ASSUME StateInv, NEW s \in Sessions, NEW w \in Worlds, NEW c, Plays(s, w, c),
           c = L!Known(w), InStep(world[s]) => InStep(w)
    PROVE  StateInv'
<1>1. StateTypes'
  BY KnownType DEF StateInv, StateTypes, Plays
<1>2. L!WorldShown'
  BY DEF StateInv, StateTypes, Plays, L!WorldShown
<1>3. (~shared => Orderly)'
  BY DEF StateInv, StateTypes, Plays, Orderly, Playing
<1> QED
  BY <1>1, <1>2, <1>3 DEF StateInv

\* The steps of WorldState's operators.
LEMMA TickBorderType ==
    ASSUME NEW b \in Borders
    PROVE  /\ L!TickBorder(b) \in Borders
           /\ L!TickBorder(b).center = b.center /\ L!TickBorder(b).target = b.target
           /\ L!TickBorder(b).warning = b.warning
<1> DEFINE left == b.remaining - 1
           size == b.start + ((b.target - b.start) * (b.total - left)) \div b.total
<1>1. CASE b.remaining = 0
  BY <1>1 DEF L!TickBorder
<1>2. CASE b.remaining # 0
  <2>1. left \in Nat /\ left <= b.total /\ b.total \in Nat \ {0}
    BY <1>2 DEF Borders
  <2>2. (b.target - b.start) * (b.total - left) \in Int
    BY <2>1 DEF Borders
  <2>3. \A m \in Int : m \div b.total \in Int
    BY <2>1
  <2>4. size \in Int
    BY <2>2, <2>3 DEF Borders
  <2>5. L!TickBorder(b) =
           IF left > 0 THEN [b EXCEPT !.remaining = left, !.size = size]
           ELSE [b EXCEPT !.remaining = 0, !.size = b.target, !.start = b.target, !.total = 0]
    BY <1>2 DEF L!TickBorder
  <2> HIDE DEF left, size
  <2>6. [b EXCEPT !.remaining = left, !.size = size] \in Borders
    BY <2>1, <2>4 DEF Borders
  <2>7. [b EXCEPT !.remaining = 0, !.size = b.target, !.start = b.target, !.total = 0] \in Borders
    <3>1. /\ b \in [center : Int, size : Int, start : Int, target : Int, total : Nat,
                    remaining : Nat, warning : Int]
          /\ b.target \in Int /\ 0 <= 0
      BY DEF Borders
    <3> QED
      BY <3>1 DEF Borders
  <2> QED
    BY <2>5, <2>6, <2>7 DEF Borders
<1> QED
  BY <1>1, <1>2

LEMMA FadedType ==
    ASSUME NEW x \in 0..FullRain, NEW up \in BOOLEAN PROVE L!Faded(x, up) \in 0..FullRain
  BY StateAssumption DEF L!StateConstants, L!Faded

LEMMA TickedWorld ==
    ASSUME NEW w \in Worlds, NEW thunder \in BOOLEAN, NEW d \in Durations
    PROVE  /\ L!Ticked(w, thunder, d) \in Worlds
           /\ InStep(w) => InStep(L!Ticked(w, thunder, d))
           /\ L!Known(L!Ticked(w, thunder, d)) =
                 [L!Known(w) EXCEPT !.raining = L!Ticked(w, thunder, d).raining,
                                    !.rainLevel = L!Ticked(w, thunder, d).rainLevel,
                                    !.thunderLevel = L!Ticked(w, thunder, d).thunderLevel]
<1> DEFINE turns == w.cycle /\ w.duration <= 1
           r == IF turns THEN ~w.raining ELSE w.raining
           t == IF turns THEN r /\ thunder ELSE w.thundering
           e == IF turns THEN d ELSE IF w.cycle THEN w.duration - 1 ELSE w.duration
           a == IF w.advance THEN w.day + 1 ELSE w.day
           b == L!TickBorder(w.border)
           x == L!Faded(w.rainLevel, r)
           y == L!Faded(w.thunderLevel, t)
           n == [w EXCEPT !.day = a, !.border = b, !.raining = r, !.thundering = t,
                          !.duration = e, !.rainLevel = x, !.thunderLevel = y]
<1>1. L!Ticked(w, thunder, d) = n
  BY DEF L!Ticked
<1>a. {w.raining, w.thundering, w.cycle} \subseteq BOOLEAN
  BY DEF Worlds
<1>b. r \in BOOLEAN /\ t \in BOOLEAN
  BY <1>a, Zenon
<1>c. x \in 0..FullRain /\ y \in 0..FullRain
  BY <1>b, FadedType DEF Worlds
<1>d. a \in Nat /\ e \in Int
  BY StateAssumption DEF L!StateConstants, Worlds
<1>e. /\ b \in Borders /\ b.center = w.border.center /\ b.target = w.border.target
      /\ b.warning = w.border.warning
  BY TickBorderType DEF Worlds
<1> HIDE DEF a, b, r, t, e, x, y
<1>3. n \in Worlds
  BY <1>b, <1>c, <1>d, <1>e DEF Worlds
<1>4. InStep(w) => InStep(n)
  BY DEF InStep, Worlds
<1>5. L!Known(n) = [L!Known(w) EXCEPT !.raining = n.raining, !.rainLevel = n.rainLevel,
                                      !.thunderLevel = n.thunderLevel]
  <2>1. /\ n.rules = w.rules /\ n.difficulty = w.difficulty
        /\ n.border.center = w.border.center /\ n.border.target = w.border.target
        /\ n.border.warning = w.border.warning
    BY <1>e DEF Worlds
  <2> HIDE DEF n
  <2> DEFINE k == L!Known(w)
  <2>2. /\ k \in Knowledge /\ k.rules = w.rules /\ k.difficulty = w.difficulty
        /\ k.center = w.border.center /\ k.target = w.border.target
        /\ k.warning = w.border.warning
    BY KnownType DEF L!Known
  <2>3. /\ L!Known(n) \in Knowledge /\ L!Known(n).rules = n.rules
        /\ L!Known(n).difficulty = n.difficulty
        /\ L!Known(n).center = n.border.center /\ L!Known(n).target = n.border.target
        /\ L!Known(n).warning = n.border.warning
        /\ L!Known(n).raining = n.raining /\ L!Known(n).rainLevel = n.rainLevel
        /\ L!Known(n).thunderLevel = n.thunderLevel
    BY <1>3, KnownType DEF L!Known
  <2> HIDE DEF k
  <2>4. [k EXCEPT !.raining = n.raining, !.rainLevel = n.rainLevel,
                  !.thunderLevel = n.thunderLevel] \in Knowledge
    BY <1>3, <2>2 DEF Knowledge, Worlds
  <2>5. L!Known(n) = [k EXCEPT !.raining = n.raining, !.rainLevel = n.rainLevel,
                               !.thunderLevel = n.thunderLevel]
    <3> DEFINE m == [k EXCEPT !.raining = n.raining, !.rainLevel = n.rainLevel,
                              !.thunderLevel = n.thunderLevel]
    <3>1. /\ m.rules = k.rules /\ m.difficulty = k.difficulty /\ m.raining = n.raining
          /\ m.rainLevel = n.rainLevel /\ m.thunderLevel = n.thunderLevel
          /\ m.center = k.center /\ m.target = k.target /\ m.warning = k.warning
      BY <2>2 DEF Knowledge
    <3>2. m \in Knowledge
      BY <2>4
    <3> HIDE DEF m
    <3>3. L!Known(n) = m
      BY <2>1, <2>2, <2>3, <3>1, <3>2, KnowledgeSame
    <3> QED
      BY <3>3 DEF m
  <2> QED
    BY <2>5 DEF k
<1> QED
  BY <1>1, <1>3, <1>4, <1>5

LEMMA WorldsSame ==
    ASSUME NEW v \in Worlds, NEW w \in Worlds,
           v.day = w.day, v.advance = w.advance, v.raining = w.raining,
           v.thundering = w.thundering, v.duration = w.duration, v.cycle = w.cycle,
           v.rainLevel = w.rainLevel, v.thunderLevel = w.thunderLevel,
           v.difficulty = w.difficulty, v.border = w.border, v.rules = w.rules
    PROVE  v = w
  BY DEF Worlds

\* The game tick and the commands.
LEMMA TickStep ==
    ASSUME StateInv, NEW s \in Sessions, NEW thunder \in BOOLEAN, NEW d \in Durations,
           L!Tick(s, thunder, d)
    PROVE  StateInv'
<1> DEFINE now == L!Ticked(world[s], thunder, d)
           c == [client[s] EXCEPT !.raining = now.raining, !.rainLevel = now.rainLevel,
                                  !.thunderLevel = now.thunderLevel]
<1>1. /\ world[s] \in Worlds /\ client[s] = L!Known(world[s])
      /\ client \in [Sessions -> Knowledge]
  BY DEF StateInv, StateTypes, L!WorldShown, L!Tick
<1>2. now \in Worlds /\ (InStep(world[s]) => InStep(now)) /\ L!Known(now) = c
  <2> DEFINE w == world[s]
  <2>1. w \in Worlds /\ client[s] = L!Known(w)
    BY <1>1
  <2> HIDE DEF w
  <2>2. /\ L!Ticked(w, thunder, d) \in Worlds
        /\ InStep(w) => InStep(L!Ticked(w, thunder, d))
        /\ L!Known(L!Ticked(w, thunder, d)) =
              [L!Known(w) EXCEPT !.raining = L!Ticked(w, thunder, d).raining,
                                 !.rainLevel = L!Ticked(w, thunder, d).rainLevel,
                                 !.thunderLevel = L!Ticked(w, thunder, d).thunderLevel]
    BY <2>1, TickedWorld, Zenon
  <2>3. L!Known(L!Ticked(w, thunder, d)) =
              [client[s] EXCEPT !.raining = L!Ticked(w, thunder, d).raining,
                                !.rainLevel = L!Ticked(w, thunder, d).rainLevel,
                                !.thunderLevel = L!Ticked(w, thunder, d).thunderLevel]
    BY <2>1, <2>2
  <2> QED
    BY <2>2, <2>3, Zenon DEF w, now, c
<1>3. client' = [client EXCEPT ![s] = c]
  BY <1>1 DEF L!Tick, Knowledge
<1>4. ticks' \in 0..MaxTicks /\ commands' \in 0..MaxCommands
  BY StateAssumption DEF StateInv, StateTypes, L!Tick, L!StateConstants
<1>5. Plays(s, now, c)
  BY <1>3, <1>4 DEF Plays, L!Tick, L!Files
<1> HIDE DEF now, c
<1> QED
  BY <1>2, <1>5, PlaysStep

LEMMA CommandStep ==
    ASSUME StateInv, NEW s \in Sessions, NEW w \in Worlds, NEW c, L!Commanded(s, w, c),
           c = L!Known(w), InStep(world[s]) => InStep(w)
    PROVE  StateInv'
<1>1. ticks' \in 0..MaxTicks /\ commands' \in 0..MaxCommands
  BY StateAssumption DEF StateInv, StateTypes, L!Commanded, L!StateConstants
<1>2. Plays(s, w, c)
  BY <1>1 DEF Plays, L!Commanded, L!Files
<1> QED
  BY <1>2, PlaysStep

LEMMA RuledWorld ==
    ASSUME NEW w \in Worlds, NEW r \in L!RuleNames, NEW on \in BOOLEAN
    PROVE  /\ L!Ruled(w, r, on) \in Worlds
           /\ InStep(w) => InStep(L!Ruled(w, r, on))
           /\ L!Known(L!Ruled(w, r, on)) = [L!Known(w) EXCEPT !.rules[r] = on]
<1> DEFINE rules == [w.rules EXCEPT ![r] = on]
           a == IF r = "doDaylightCycle" THEN on ELSE w.advance
           c == IF r = "doWeatherCycle" THEN on ELSE w.cycle
           n == [w EXCEPT !.rules = rules, !.advance = a, !.cycle = c]
<1>1. w.rules \in [L!RuleNames -> BOOLEAN] /\ w.advance \in BOOLEAN /\ w.cycle \in BOOLEAN
  BY DEF Worlds
<1>2. rules \in [L!RuleNames -> BOOLEAN] /\ a \in BOOLEAN /\ c \in BOOLEAN
  BY <1>1, Zenon
<1>3. L!Ruled(w, r, on) = n
  BY <1>1 DEF L!Ruled, Worlds
<1>4. /\ w.advance = w.rules["doDaylightCycle"] => a = rules["doDaylightCycle"]
      /\ w.cycle = w.rules["doWeatherCycle"] => c = rules["doWeatherCycle"]
  BY <1>1 DEF L!RuleNames
<1> HIDE DEF rules, a, c
<1>5. n \in Worlds /\ (InStep(w) => InStep(n))
  BY <1>2, <1>4 DEF InStep, Worlds
<1>6. L!Known(n) = [L!Known(w) EXCEPT !.rules = rules]
  BY <1>2, <1>5 DEF L!Known, Worlds
<1>7. [L!Known(w) EXCEPT !.rules = rules] = [L!Known(w) EXCEPT !.rules[r] = on]
  BY DEF rules, L!Known
<1> QED
  BY <1>3, <1>5, <1>6, <1>7

LEMMA CommandsStep ==
    ASSUME StateInv, NEW s \in Sessions,
           \/ \E day \in {0, 9} : L!TimeSet(s, day)
           \/ \E raining, thunder \in BOOLEAN, d \in Durations : L!Weather(s, raining, thunder, d)
           \/ \E r \in RulesSet, on \in BOOLEAN : L!GameRule(s, r, on)
           \/ \E d \in Difficulties : L!Difficulty(s, d)
           \/ \E n \in 0..1 : L!BorderCenter(s, n)
           \/ \E n \in Sizes : L!BorderSet(s, n)
           \/ \E n \in Sizes, d \in Durations : L!BorderLerp(s, n, d)
           \/ \E n \in 0..1 : L!BorderWarning(s, n)
    PROVE  StateInv'
<1> DEFINE v == world[s]
           b == world[s].border
<1>1. CASE \E day \in {0, 9} : L!TimeSet(s, day)
  <2>1. PICK day \in {0, 9} : L!TimeSet(s, day)
    BY <1>1
  <2> DEFINE w == [v EXCEPT !.day = day]
  <2>2. v \in Worlds /\ client[s] = L!Known(v) /\ L!Commanded(s, w, client[s])
    BY <2>1 DEF StateInv, StateTypes, L!WorldShown, L!TimeSet, L!Commanded
  <2>3. w \in Worlds /\ L!Known(w) = L!Known(v) /\ (InStep(v) => InStep(w))
    BY <2>2 DEF Worlds, InStep, L!Known
  <2> HIDE DEF w
  <2> QED
    BY <2>2, <2>3, CommandStep
<1>2. CASE \E raining, thunder \in BOOLEAN, d \in Durations : L!Weather(s, raining, thunder, d)
  <2>1. PICK raining, thunder \in BOOLEAN, d \in Durations : L!Weather(s, raining, thunder, d)
    BY <1>2
  <2> DEFINE t == raining /\ thunder
             w == [v EXCEPT !.raining = raining, !.thundering = t, !.duration = d]
             c == [client[s] EXCEPT !.raining = raining]
  <2>2. v \in Worlds /\ client[s] = L!Known(v) /\ L!Commanded(s, w, c)
    BY <2>1 DEF StateInv, StateTypes, L!WorldShown, L!Weather, L!Weathered, L!Commanded
  <2>3. t \in BOOLEAN
    BY Zenon
  <2>4. d \in Int
    BY StateAssumption DEF L!StateConstants
  <2> HIDE DEF t
  <2>5. w \in Worlds /\ (InStep(v) => InStep(w))
    BY <2>2, <2>3, <2>4 DEF Worlds, InStep
  <2>6. L!Known(w) = c
    BY <2>2 DEF Worlds, L!Known
  <2> HIDE DEF w, c
  <2> QED
    BY <2>2, <2>5, <2>6, CommandStep
<1>3. CASE \E r \in RulesSet, on \in BOOLEAN : L!GameRule(s, r, on)
  <2>1. PICK r \in RulesSet, on \in BOOLEAN : L!GameRule(s, r, on)
    BY <1>3
  <2>2. v \in Worlds /\ client[s] = L!Known(v)
        /\ L!Commanded(s, L!Ruled(v, r, on), [client[s] EXCEPT !.rules[r] = on])
    BY <2>1 DEF StateInv, StateTypes, L!WorldShown, L!GameRule, L!Commanded
  <2>3. r \in L!RuleNames
    BY StateAssumption DEF L!StateConstants
  <2> QED
    BY <2>2, <2>3, RuledWorld, CommandStep
<1>4. CASE \E d \in Difficulties : L!Difficulty(s, d)
  <2>1. PICK d \in Difficulties : L!Difficulty(s, d)
    BY <1>4
  <2> DEFINE w == [v EXCEPT !.difficulty = d]
             c == [client[s] EXCEPT !.difficulty = d]
  <2>2. v \in Worlds /\ client[s] = L!Known(v) /\ L!Commanded(s, w, c) /\ ~Hardcore
    BY <2>1 DEF StateInv, StateTypes, L!WorldShown, L!Difficulty, L!Commanded
  <2>3. d \in Nat
    BY StateAssumption DEF L!StateConstants
  <2>4. w \in Worlds /\ (InStep(v) => InStep(w))
    BY <2>2, <2>3 DEF Worlds, InStep
  <2>5. L!Known(w) = c
    BY <2>2 DEF Worlds, L!Known
  <2> HIDE DEF w, c
  <2> QED
    BY <2>2, <2>4, <2>5, CommandStep
<1>5. CASE \E n \in 0..1 : L!BorderCenter(s, n)
  <2>1. PICK n \in 0..1 : L!BorderCenter(s, n)
    BY <1>5
  <2> DEFINE e == [b EXCEPT !.center = n]
             w == [v EXCEPT !.border = e]
             c == [client[s] EXCEPT !.center = n]
  <2>2. v \in Worlds /\ client[s] = L!Known(v) /\ b \in Borders
    BY <2>1 DEF StateInv, StateTypes, L!WorldShown, L!BorderCenter, L!Commanded, Worlds
  <2>3. L!Commanded(s, w, c)
    BY <2>1, <2>2 DEF L!BorderCenter, Worlds
  <2>4. e \in Borders /\ e.center = n /\ e.target = b.target /\ e.warning = b.warning
    BY <2>2 DEF Borders
  <2> HIDE DEF e
  <2>5. w \in Worlds /\ (InStep(v) => InStep(w))
    BY <2>2, <2>4 DEF Worlds, InStep
  <2>6. L!Known(w) = c
    BY <2>2, <2>4 DEF Worlds, L!Known
  <2> HIDE DEF w, c
  <2> QED
    BY <2>2, <2>3, <2>5, <2>6, CommandStep
<1>6. CASE \E n \in Sizes : L!BorderSet(s, n)
  <2>1. PICK n \in Sizes : L!BorderSet(s, n)
    BY <1>6
  <2> DEFINE e == L!Resized(b, n)
             w == [v EXCEPT !.border = e]
             c == [client[s] EXCEPT !.target = n]
  <2>2. v \in Worlds /\ client[s] = L!Known(v) /\ b \in Borders /\ L!Commanded(s, w, c)
    BY <2>1 DEF StateInv, StateTypes, L!WorldShown, L!BorderSet, L!Commanded, Worlds
  <2>3. n \in Int
    BY StateAssumption DEF L!StateConstants
  <2>4. e \in Borders /\ e.center = b.center /\ e.target = n /\ e.warning = b.warning
    <3>1. b \in [center : Int, size : Int, start : Int, target : Int, total : Nat,
                  remaining : Nat, warning : Int] /\ 0 <= 0
      BY <2>2 DEF Borders
    <3> QED
      BY <2>3, <3>1 DEF Borders, L!Resized
  <2> HIDE DEF e
  <2>5. w \in Worlds /\ (InStep(v) => InStep(w))
    BY <2>2, <2>4 DEF Worlds, InStep
  <2>6. L!Known(w) = c
    BY <2>2, <2>4 DEF Worlds, L!Known
  <2> HIDE DEF w, c
  <2> QED
    BY <2>2, <2>5, <2>6, CommandStep
<1>7. CASE \E n \in Sizes, d \in Durations : L!BorderLerp(s, n, d)
  <2>1. PICK n \in Sizes, d \in Durations : L!BorderLerp(s, n, d)
    BY <1>7
  <2> DEFINE e == L!Lerping(b, n, d)
             w == [v EXCEPT !.border = e]
             c == [client[s] EXCEPT !.target = n]
  <2>2. v \in Worlds /\ client[s] = L!Known(v) /\ b \in Borders /\ L!Commanded(s, w, c)
    BY <2>1 DEF StateInv, StateTypes, L!WorldShown, L!BorderLerp, L!Commanded, Worlds
  <2>3. n \in Int /\ d \in Nat /\ d <= d
    BY StateAssumption DEF L!StateConstants
  <2>4. e \in Borders /\ e.center = b.center /\ e.target = n /\ e.warning = b.warning
    BY <2>2, <2>3 DEF Borders, L!Lerping
  <2> HIDE DEF e
  <2>5. w \in Worlds /\ (InStep(v) => InStep(w))
    BY <2>2, <2>4 DEF Worlds, InStep
  <2>6. L!Known(w) = c
    BY <2>2, <2>4 DEF Worlds, L!Known
  <2> HIDE DEF w, c
  <2> QED
    BY <2>2, <2>5, <2>6, CommandStep
<1>8. CASE \E n \in 0..1 : L!BorderWarning(s, n)
  <2>1. PICK n \in 0..1 : L!BorderWarning(s, n)
    BY <1>8
  <2> DEFINE e == [b EXCEPT !.warning = n]
             w == [v EXCEPT !.border = e]
             c == [client[s] EXCEPT !.warning = n]
  <2>2. v \in Worlds /\ client[s] = L!Known(v) /\ b \in Borders
    BY <2>1 DEF StateInv, StateTypes, L!WorldShown, L!BorderWarning, L!Commanded, Worlds
  <2>3. L!Commanded(s, w, c)
    BY <2>1, <2>2 DEF L!BorderWarning, Worlds
  <2>4. e \in Borders /\ e.center = b.center /\ e.target = b.target /\ e.warning = n
    BY <2>2 DEF Borders
  <2> HIDE DEF e
  <2>5. w \in Worlds /\ (InStep(v) => InStep(w))
    BY <2>2, <2>4 DEF Worlds, InStep
  <2>6. L!Known(w) = c
    BY <2>2, <2>4 DEF Worlds, L!Known
  <2> HIDE DEF w, c
  <2> QED
    BY <2>2, <2>3, <2>5, <2>6, CommandStep
<1> QED
  BY <1>1, <1>2, <1>3, <1>4, <1>5, <1>6, <1>7, <1>8

LEMMA LoadStep ==
    ASSUME StateInv, NEW s \in Sessions, L!LoadSettings(s)
    PROVE  StateInv'
<1> DEFINE w == [level.world EXCEPT !.border = L!Fresh.border, !.rules = L!Fresh.rules]
           v == IF level.kind = "absent" THEN L!Fresh ELSE w
<1>1. level.world \in Worlds
  BY DEF StateInv, StateTypes, LevelFiles
<1>2. w \in Worlds
  BY <1>1, FreshWorld DEF Worlds
<1>3. v \in Worlds
  BY <1>2, FreshWorld
<1>4. world' = [world EXCEPT ![s] = v]
  BY DEF L!LoadSettings
<1> HIDE DEF v
<1>5. StateTypes'
  BY <1>3, <1>4 DEF StateInv, StateTypes, L!LoadSettings, L!Files, L!Counts
<1>6. L!WorldShown'
  BY <1>4 DEF StateInv, StateTypes, L!WorldShown, L!LoadSettings
<1>7. (~shared => Orderly)'
  <2> SUFFICES ASSUME ~shared' PROVE Orderly'
    OBVIOUS
  <2>1. Orderly /\ \A t \in Sessions \ {s} : phase[t] = "out"
    BY DEF L!LoadSettings, StateInv, StateTypes
  <2>2. UNCHANGED <<level, tmp, fd, kept>> /\ phase' = [phase EXCEPT ![s] = "loading"]
        /\ phase[s] = "out"
    BY DEF L!LoadSettings, L!Files
  <2>3. level.kind # "absent" => world'[s] = w
    BY <1>4 DEF StateInv, StateTypes, v
  <2> HIDE DEF w
  <2>4. \A t \in Sessions : phase'[t] = (IF t = s THEN "loading" ELSE "out")
    BY <2>1, <2>2 DEF StateInv, StateTypes
  <2>5. /\ \A t \in Sessions : fd'[t] = "none"
        /\ level' = kept' /\ level'.kind # "torn"
        /\ level'.kind = "absent" => level' = L!Missing
        /\ level'.kind # "absent" => InStep(level'.world)
    BY <2>1, <2>2 DEF Orderly
  <2> QED
    BY <2>2, <2>3, <2>4, <2>5 DEF Orderly, Playing, w
<1> QED
  BY <1>5, <1>6, <1>7 DEF StateInv

LEMMA JoinWorld ==
    ASSUME StateInv, NEW s \in Sessions
    PROVE  LET rules == L!Read(s).rules
               joined == [world[s] EXCEPT !.border = L!Read(s).border, !.rules = rules,
                            !.advance = rules["doDaylightCycle"],
                            !.cycle = rules["doWeatherCycle"],
                            !.difficulty = IF Hardcore THEN L!Hard ELSE @]
           IN  /\ joined \in Worlds /\ InStep(joined)
               /\ (~shared /\ phase[s] = "loading" /\ level.kind # "absent") => joined = kept.world
<1> DEFINE rules == L!Read(s).rules
           border == L!Read(s).border
           advance == rules["doDaylightCycle"]
           cycle == rules["doWeatherCycle"]
           difficulty == IF Hardcore THEN L!Hard ELSE world[s].difficulty
           joined == [world[s] EXCEPT !.border = border, !.rules = rules, !.advance = advance,
                                      !.cycle = cycle, !.difficulty = difficulty]
<1>1. world[s] \in Worlds /\ level.world \in Worlds /\ L!Read(s) \in Worlds
  BY DEF StateInv, StateTypes, LevelFiles, L!Read
<1>2. rules \in [L!RuleNames -> BOOLEAN] /\ border \in Borders /\ difficulty \in Nat
  BY <1>1 DEF Worlds, L!Hard
<1>3. advance \in BOOLEAN /\ cycle \in BOOLEAN
  BY <1>2 DEF L!RuleNames
<1>4. Hardcore => difficulty = L!Hard
  OBVIOUS
<1>5. (~shared /\ phase[s] = "loading" /\ level.kind # "absent") =>
         /\ level = kept /\ InStep(level.world) /\ L!Read(s) = level.world
         /\ world[s] = [level.world EXCEPT !.border = L!Fresh.border, !.rules = L!Fresh.rules]
  BY DEF StateInv, Orderly, L!Read
<1>6. (~shared /\ phase[s] = "loading" /\ level.kind # "absent") =>
         difficulty = level.world.difficulty
  BY <1>1, <1>5 DEF InStep, Worlds
<1> HIDE DEF rules, border, advance, cycle, difficulty
<1>7. joined \in Worlds
  BY <1>1, <1>2, <1>3 DEF Worlds
<1>8. /\ joined.border = border /\ joined.rules = rules /\ joined.advance = advance
      /\ joined.cycle = cycle /\ joined.difficulty = difficulty
      /\ joined.day = world[s].day /\ joined.raining = world[s].raining
      /\ joined.thundering = world[s].thundering /\ joined.duration = world[s].duration
      /\ joined.rainLevel = world[s].rainLevel /\ joined.thunderLevel = world[s].thunderLevel
  BY <1>1 DEF Worlds
<1> HIDE DEF joined
<1>9. InStep(joined)
  BY <1>4, <1>8 DEF InStep, advance, cycle
<1>10. ASSUME ~shared, phase[s] = "loading", level.kind # "absent"
       PROVE  joined = kept.world
  <2> DEFINE m == level.world
  <2>1. /\ world[s].day = m.day /\ world[s].raining = m.raining
        /\ world[s].thundering = m.thundering /\ world[s].duration = m.duration
        /\ world[s].rainLevel = m.rainLevel /\ world[s].thunderLevel = m.thunderLevel
    BY <1>1, <1>5, <1>10 DEF Worlds
  <2>2. border = m.border /\ rules = m.rules /\ advance = m.advance /\ cycle = m.cycle
        /\ difficulty = m.difficulty
    BY <1>5, <1>6, <1>10 DEF InStep, border, rules, advance, cycle
  <2>3. joined = m
    BY <1>1, <1>7, <1>8, <2>1, <2>2, WorldsSame
  <2> QED
    BY <1>5, <1>10, <2>3
<1> QED
  BY <1>7, <1>9, <1>10 DEF joined, rules, border, advance, cycle, difficulty

LEMMA JoinStep ==
    ASSUME StateInv, NEW s \in Sessions, L!Join(s)
    PROVE  StateInv'
<1> DEFINE rules == L!Read(s).rules
           joined == [world[s] EXCEPT !.border = L!Read(s).border, !.rules = rules,
                        !.advance = rules["doDaylightCycle"], !.cycle = rules["doWeatherCycle"],
                        !.difficulty = IF Hardcore THEN L!Hard ELSE @]
<1>1. joined \in Worlds /\ InStep(joined)
  BY JoinWorld
<1>2. \/ /\ phase' = [phase EXCEPT ![s] = "in"] /\ world' = [world EXCEPT ![s] = joined]
         /\ client' = [client EXCEPT ![s] = L!Known(joined)]
      \/ /\ phase' = [phase EXCEPT ![s] = "out"] /\ world' = [world EXCEPT ![s] = L!Fresh]
         /\ UNCHANGED client
  BY DEF L!Join
<1>3. /\ phase[s] = "loading"
      /\ UNCHANGED <<leaving, shared, level, tmp, fd, kept, saves, ticks, commands>>
  BY DEF L!Join, L!Files, L!Counts
<1> HIDE DEF joined
<1>4. StateTypes'
  BY <1>1, <1>2, <1>3, FreshWorld, KnownType DEF StateInv, StateTypes
<1>5. L!WorldShown'
  BY <1>2, <1>3 DEF StateInv, StateTypes, L!WorldShown
<1>6. (~shared => Orderly)'
  BY <1>1, <1>2, <1>3 DEF StateInv, StateTypes, Orderly, Playing
<1> QED
  BY <1>4, <1>5, <1>6 DEF StateInv

LEMMA TornType == L!Torn \in LevelFiles /\ L!Missing \in LevelFiles
  BY FreshWorld DEF L!Torn, L!Missing, L!File, LevelFiles

LEMMA SaveStep ==
    ASSUME StateInv, NEW s \in Sessions, NEW last \in BOOLEAN, L!Save(s, last)
    PROVE  StateInv'
<1>1. StateTypes'
  BY TornType, StateAssumption
     DEF StateInv, StateTypes, L!Save, L!Open, L!Counts, L!StateConstants
<1>2. L!WorldShown'
  BY DEF StateInv, StateTypes, L!WorldShown, L!Save, L!Open
<1>3. (~shared => Orderly)'
  <2>1. L!Torn.kind = "torn"
    BY DEF L!Torn, L!File
  <2> QED
    BY <2>1 DEF StateInv, StateTypes, Orderly, Playing, L!Save, L!Open
<1> QED
  BY <1>1, <1>2, <1>3 DEF StateInv

LEMMA WriteStep ==
    ASSUME StateInv, NEW s \in Sessions, L!Write(s)
    PROVE  StateInv'
<1>1. PICK f \in {L!File("whole", L!Payload(s)), L!Torn} :
         /\ f = L!Torn => \/ fd[s] = "tmp" /\ tmp.kind = "whole"
                          \/ fd[s] = "level" /\ level.kind = "whole"
         /\ tmp' = IF fd[s] = "tmp" THEN f ELSE tmp
         /\ level' = IF fd[s] = "level" THEN f ELSE level
  BY DEF L!Write
<1>2. /\ phase[s] = "opened" /\ phase' = [phase EXCEPT ![s] = "written"]
      /\ UNCHANGED <<leaving, world, client, fd, kept, shared, saves, ticks, commands>>
  BY DEF L!Write, L!Counts
<1>3. f \in LevelFiles
  BY TornType DEF StateInv, StateTypes, L!Payload, L!File, LevelFiles
<1>4. StateTypes'
  BY <1>1, <1>2, <1>3 DEF StateInv, StateTypes
<1>5. L!WorldShown'
  BY <1>2 DEF StateInv, StateTypes, L!WorldShown
<1>6. (~shared => Orderly)'
  <2> SUFFICES ASSUME ~shared' PROVE Orderly'
    OBVIOUS
  <2>1. Orderly /\ fd[s] = "tmp" /\ tmp.kind = "torn" /\ Playing(s)
    BY <1>2 DEF StateInv, Orderly, Playing
  <2>2. f = L!File("whole", world[s])
    BY <1>1, <2>1 DEF L!Payload
  <2>3. level' = level /\ tmp' = L!File("whole", world[s])
    BY <1>1, <2>1, <2>2
  <2>4. \A t \in Sessions : t # s => phase[t] = "out" /\ phase'[t] = "out"
    BY <1>2, <2>1 DEF StateInv, StateTypes, Orderly
  <2>5. phase'[s] = "written"
    BY <1>2 DEF StateInv, StateTypes
  <2> QED
    BY <1>2, <2>1, <2>3, <2>4, <2>5 DEF Orderly, Playing
<1> QED
  BY <1>4, <1>5, <1>6 DEF StateInv

LEMMA RenameStep ==
    ASSUME StateInv, NEW s \in Sessions, L!Rename(s)
    PROVE  StateInv'
<1> DEFINE whole == L!File("whole", world[s])
<1>1. whole \in LevelFiles
  BY DEF StateInv, StateTypes, L!File, LevelFiles
<1>2. StateTypes'
  BY <1>1, TornType, FreshWorld DEF StateInv, StateTypes, L!Rename, L!Counts
<1>3. L!WorldShown'
  BY DEF StateInv, StateTypes, L!WorldShown, L!Rename
<1>4. (~shared => Orderly)'
  <2> SUFFICES ASSUME ~shared' PROVE Orderly'
    OBVIOUS
  <2>1. Orderly /\ phase[s] = "written" /\ tmp = whole /\ Playing(s)
    BY DEF L!Rename, StateInv, Orderly, Playing
  <2>2. level' = whole /\ kept' = whole
    BY <2>1 DEF L!Rename
  <2>3. whole.kind = "whole" /\ InStep(whole.world)
    BY <2>1 DEF L!File, Orderly
  <2>4. \A t \in Sessions : t # s => phase[t] = "out" /\ phase'[t] = "out" /\ fd'[t] = "none"
    BY <2>1 DEF StateInv, StateTypes, Orderly, L!Rename
  <2>5. /\ phase'[s] \in {"in", "out"} /\ fd'[s] = "none"
        /\ phase'[s] = "in" => world'[s] = world[s]
    BY DEF StateInv, StateTypes, L!Rename
  <2> HIDE DEF whole
  <2>6. InStep(world[s])
    BY <2>1 DEF Orderly
  <2>7. phase'[s] = "in" => InStep(world'[s])
    BY <2>5, <2>6
  <2> QED
    BY <2>2, <2>3, <2>4, <2>5, <2>7 DEF Orderly, Playing
<1> QED
  BY <1>2, <1>3, <1>4 DEF StateInv

LEMMA RenameFailsStep ==
    ASSUME StateInv, NEW s \in Sessions, L!RenameFails(s)
    PROVE  StateInv'
<1>1. StateTypes'
  BY TornType, FreshWorld DEF StateInv, StateTypes, L!RenameFails, L!Open, L!Counts
<1>2. L!WorldShown'
  BY DEF StateInv, StateTypes, L!WorldShown, L!RenameFails, L!Open
<1>3. shared /\ shared'
  BY DEF StateInv, StateTypes, Orderly, L!RenameFails, L!File
<1> QED
  BY <1>1, <1>2, <1>3 DEF StateInv

LEMMA CrashStep ==
    ASSUME StateInv, L!Crash
    PROVE  StateInv'
<1>1. StateTypes'
  BY FreshWorld DEF StateInv, StateTypes, L!Crash, L!Counts
<1>2. L!WorldShown'
  BY DEF L!WorldShown, L!Crash
<1>3. (~shared => Orderly)'
  BY DEF StateInv, StateTypes, Orderly, Playing, L!Crash
<1> QED
  BY <1>1, <1>2, <1>3 DEF StateInv

LEMMA StateInit == L!Init => StateInv
<1> SUFFICES ASSUME L!Init PROVE StateInv
  OBVIOUS
<1>1. StateTypes
  <2>1. L!Known(L!Fresh) \in Knowledge
    BY FreshWorld, KnownType
  <2>2. 0 \in 0..MaxTicks /\ 0 \in 0..MaxCommands /\ 0 \in 0..MaxSaves
    BY StateAssumption DEF L!StateConstants
  <2> QED
    BY <2>1, <2>2, FreshWorld, TornType DEF L!Init, StateTypes
<1>2. L!WorldShown
  BY DEF L!Init, L!WorldShown
<1>3. Orderly
  BY DEF L!Init, Orderly, Playing, L!Missing, L!File
<1> QED
  BY <1>1, <1>2, <1>3 DEF StateInv

LEMMA StateNext == StateInv /\ [L!Next]_stateVars => StateInv'
<1> SUFFICES ASSUME StateInv, [L!Next]_stateVars PROVE StateInv'
  OBVIOUS
<1>1. CASE UNCHANGED stateVars
  BY <1>1 DEF stateVars, StateInv, StateTypes, L!WorldShown, Orderly, Playing
<1>2. CASE \E s \in Sessions : L!LoadSettings(s) \/ L!Join(s)
  BY <1>2, LoadStep, JoinStep
<1>3. CASE \E s \in Sessions, thunder \in BOOLEAN, d \in Durations : L!Tick(s, thunder, d)
  BY <1>3, TickStep
<1>4. CASE \E s \in Sessions :
             \/ L!Write(s) \/ L!Rename(s) \/ L!RenameFails(s)
             \/ \E last \in BOOLEAN : L!Save(s, last)
  BY <1>4, SaveStep, WriteStep, RenameStep, RenameFailsStep
<1>5. CASE L!Crash
  BY <1>5, CrashStep
<1>6. CASE \E s \in Sessions :
           \/ \E day \in {0, 9} : L!TimeSet(s, day)
           \/ \E raining, thunder \in BOOLEAN, d \in Durations : L!Weather(s, raining, thunder, d)
           \/ \E r \in RulesSet, on \in BOOLEAN : L!GameRule(s, r, on)
           \/ \E d \in Difficulties : L!Difficulty(s, d)
           \/ \E n \in 0..1 : L!BorderCenter(s, n)
           \/ \E n \in Sizes : L!BorderSet(s, n)
           \/ \E n \in Sizes, d \in Durations : L!BorderLerp(s, n, d)
           \/ \E n \in 0..1 : L!BorderWarning(s, n)
  BY <1>6, CommandsStep
<1> QED
  BY <1>1, <1>2, <1>3, <1>4, <1>5, <1>6 DEF L!Next

\* Each client knows the rules, the difficulty, the weather and the border of its session's
\* world, for any number of sessions, also when they share level.mcd (join, tick, commands).
THEOREM WorldShownCorrect == L!Spec => []WorldShown
<1>1. StateInv => WorldShown
  BY DEF StateInv, WorldShown
<1> QED
  BY <1>1, StateInit, StateNext, PTL DEF L!Spec, L!vars, stateVars

\* While sessions follow one another, level.mcd can be read after a crash between any two
\* steps of a save (save_metadata).
THEOREM CrashSafeCorrect == L!Spec => []CrashSafe
<1>1. StateInv => CrashSafe
  BY DEF StateInv, CrashSafe, L!CrashSafe, L!LevelReadable, Orderly
<1> QED
  BY <1>1, StateInit, StateNext, PTL DEF L!Spec, L!vars, stateVars

\* The types of the scalar state: fades within their steps, a border's time left within
\* its total, every rule with a value, through loading, ticks and commands.
THEOREM StateTypeCorrect == L!Spec => []L!TypeOK
<1>1. StateInv => L!TypeOK
  BY DEF StateInv, StateTypes, L!TypeOK, L!Scalars, Worlds, Borders, LevelFiles
<1> QED
  BY <1>1, StateInit, StateNext, PTL DEF L!Spec, L!vars, stateVars

LEMMA ResumesStep == StateInv /\ [L!Next]_stateVars =>
    [\A s \in Sessions : phase[s] = "loading" /\ phase'[s] = "in" /\ ~shared /\ kept # L!Missing
        => world'[s] = kept.world]_stateVars
<1> SUFFICES ASSUME StateInv, L!Next, NEW s \in Sessions, phase[s] = "loading",
                    phase'[s] = "in", ~shared, kept # L!Missing
             PROVE  world'[s] = kept.world
  BY DEF stateVars
<1>1. L!Join(s)
  <2>1. \/ \E t \in Sessions : L!Join(t)
        \/ \E t \in Sessions : phase' = [phase EXCEPT ![t] = "loading"]
        \/ UNCHANGED phase
        \/ \E t \in Sessions : phase[t] = "in" /\ phase' = [phase EXCEPT ![t] = "opened"]
        \/ \E t \in Sessions : phase[t] = "opened" /\ phase' = [phase EXCEPT ![t] = "written"]
        \/ \E t \in Sessions, x \in {"in", "out", "opened"} :
              phase[t] = "written" /\ phase' = [phase EXCEPT ![t] = x]
        \/ phase' = [t \in Sessions |-> "out"]
    BY DEF L!Next, L!LoadSettings, L!Tick, L!TimeSet, L!Weather, L!GameRule, L!Difficulty,
           L!BorderCenter, L!BorderSet, L!BorderLerp, L!BorderWarning, L!Commanded, L!Save,
           L!Open, L!Write, L!Rename, L!RenameFails, L!Crash
  <2>2. \A t \in Sessions : L!Join(t) => t = s
    BY DEF StateInv, StateTypes, L!Join
  <2> QED
    BY <2>1, <2>2 DEF StateInv, StateTypes
<1>2. level.kind # "absent"
  BY DEF StateInv, Orderly
<1> DEFINE rules == L!Read(s).rules
           joined == [world[s] EXCEPT !.border = L!Read(s).border, !.rules = rules,
                        !.advance = rules["doDaylightCycle"], !.cycle = rules["doWeatherCycle"],
                        !.difficulty = IF Hardcore THEN L!Hard ELSE @]
<1>3. joined = kept.world
  BY <1>2, JoinWorld
<1>4. world' = [world EXCEPT ![s] = joined]
  BY <1>1, <1>2 DEF L!Join, StateInv, StateTypes
<1> HIDE DEF joined
<1> QED
  BY <1>3, <1>4 DEF StateInv, StateTypes

\* While sessions follow one another, each starts with the world that was saved last, whole
\* and not older, after an end or a crash (World::World, save_all).
THEOREM ResumesCorrect == L!Spec => Resumes
  BY StateInit, StateNext, ResumesStep, PTL DEF L!Spec, L!vars, stateVars, Resumes, L!Resumes
=============================================================================
