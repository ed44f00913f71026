----------------------------- MODULE RegionFile -----------------------------
(***************************************************************************)
(* A region file (storage.cpp, RegionFile::Impl): a header of locations    *)
(* and 4 KiB sectors of chunk records, written without a journal by a      *)
(* sequence of writes that a crash or an I/O error may cut anywhere.       *)
(*                                                                         *)
(* Each member of Writers is a RegionFile object open on the same path.    *)
(* Its mutex serialises its own reads and writes and nobody else's.  A     *)
(* record is what its sectors hold: sector i of slot s's payload v is the  *)
(* record [slot, val, part |-> i]; part 0 is a first sector whose length   *)
(* field is new and whose bytes are not.  zlib's checksum and              *)
(* LevelStorage::load_chunk's comparison of positions make a mixture of    *)
(* records or another slot's record unreadable.                            *)
(***************************************************************************)
EXTENDS Integers, Sequences

CONSTANTS
    Writers,    \* RegionFile objects open on the file
    Slots,      \* positions in the 32 x 32 location table
    Vals,       \* chunk payloads
    Need,       \* sectors each compressed payload takes
    MaxCount,   \* largest sector count a location holds (255)
    MaxOffset,  \* largest sector offset a location holds (0xFFFFFF)
    Absent, Damaged, NoSlot, NoVal

ASSUME RegionAssumption ==
    /\ Need \in [Vals -> Nat \ {0}]
    /\ MaxCount \in Nat \ {0}
    /\ MaxOffset \in Nat \ {0}
    /\ Absent \notin Vals /\ Damaged \notin Vals /\ Absent # Damaged
    /\ NoSlot \notin Slots /\ NoVal \notin Vals

VARIABLES
    header,    \* the 8 KiB header: not there, short, or whole
    location,  \* the location table: sector offset and count of each slot
    sectors,   \* the sectors after the header; sector n is sectors[n - 1]
    job        \* what each writer is doing

vars == <<header, location, sectors, job>>

\* File size in sectors, rounded up as write() does when it appends.
Size == Len(sectors) + 2

Sector(n) == sectors[n - 1]

Job(at, s, v) == [pc |-> at, slot |-> s, val |-> v, offset |-> 0, next |-> 0]

\* No save since the last one returned; or since one threw, or the process died.
Idle == Job("idle", NoSlot, NoVal)
Failed == Job("failed", NoSlot, NoVal)

Piece(s, v, i) == [slot |-> s, val |-> v, part |-> i]

Allocated(s) == location[s].offset # 0 /\ location[s].count # 0

\* The sectors of slot s's location.
Extent(s) ==
    IF Allocated(s)
    THEN location[s].offset .. (location[s].offset + location[s].count - 1)
    ELSE {}

\* read() followed by load_chunk's checks: the payload of slot s, Absent, or
\* Damaged for every exception on the way.
Read(s) ==
    LET off == location[s].offset
        first == Sector(off)
    IN  IF header = "short" THEN Damaged
        ELSE IF header = "missing" \/ ~Allocated(s) THEN Absent
        ELSE IF /\ off < Size
                /\ first.slot = s /\ first.part = 1
                /\ Need[first.val] <= location[s].count
                /\ \A i \in 1..Need[first.val] :
                      /\ off + i - 1 < Size
                      /\ Sector(off + i - 1) = Piece(s, first.val, i)
             THEN first.val
             ELSE Damaged

Jobs ==
    [pc : {"idle", "failed", "open", "create", "locate", "data", "commit", "return"},
     slot : Slots \cup {NoSlot}, val : Vals \cup {NoVal},
     offset : 0..MaxOffset, next : Nat]

TypeOK ==
    /\ header \in {"missing", "short", "whole"}
    /\ location \in [Slots -> [offset : 0..MaxOffset, count : 0..MaxCount]]
    /\ sectors \in Seq([slot : Slots, val : Vals, part : Nat])
    /\ job \in [Writers -> Jobs]

Init ==
    /\ header = "missing"
    /\ location = [s \in Slots |-> [offset |-> 0, count |-> 0]]
    /\ sectors = <<>>
    /\ job = [w \in Writers |-> Idle]

-----------------------------------------------------------------------------
\* LevelStorage::save_chunk.
BeginSave(w, s, v) ==
    /\ job[w] \in {Idle, Failed}
    /\ job' = [job EXCEPT ![w] = Job("open", s, v)]
    /\ UNCHANGED <<header, location, sectors>>

\* The RegionFile constructor, for a region not opened before: it creates a
\* file that is not there and throws on one whose header is short.
Open(w) ==
    /\ job[w].pc = "open"
    /\ \/ /\ header = "missing"
          /\ header' = "short"
          /\ job' = [job EXCEPT ![w].pc = "create"]
       \/ /\ header = "short"
          /\ job' = [job EXCEPT ![w] = Failed]
          /\ UNCHANGED header
       \/ /\ header = "whole"
          /\ job' = [job EXCEPT ![w].pc = "locate"]
          /\ UNCHANGED header
    /\ UNCHANGED <<location, sectors>>

\* The constructor writes the empty header.
WriteHeader(w) ==
    /\ job[w].pc = "create"
    /\ header' = "whole"
    /\ job' = [job EXCEPT ![w].pc = "locate"]
    /\ UNCHANGED <<location, sectors>>

\* Mutant: room for one sector fewer counts as room.
MutTargetTooSmall(s, v) ==
    IF location[s].offset < 2 \/ location[s].count + 1 < Need[v]
    THEN Size
    ELSE location[s].offset

\* Where write() puts the record: in place when the old location is large
\* enough, else at the end of the file.
Target(s, v) ==
    IF location[s].offset < 2 \/ location[s].count < Need[v]
    THEN Size
    ELSE location[s].offset

\* A payload too long, or a file too long for a location.
Refused(v, off) == Need[v] > MaxCount \/ off > MaxOffset

\* Mutant: the location is written before the record.
MutLocateCommits(w) ==
    LET s == job[w].slot
        v == job[w].val
    IN  /\ job[w].pc = "locate"
        /\ ~Refused(v, Target(s, v))
        /\ job' = [job EXCEPT ![w].pc = "data", ![w].offset = Target(s, v)]
        /\ location' = [location EXCEPT ![s] = [offset |-> Target(s, v),
                                               count |-> Need[v]]]
        /\ UNCHANGED <<header, sectors>>

\* write() up to the first output; a refused payload leaves no trace.
Locate(w) ==
    LET s == job[w].slot
        v == job[w].val
    IN  /\ job[w].pc = "locate"
        /\ IF Refused(v, Target(s, v))
           THEN job' = [job EXCEPT ![w] = Failed]
           ELSE job' = [job EXCEPT ![w].pc = "data",
                                   ![w].offset = Target(s, v)]
        /\ UNCHANGED <<header, location, sectors>>

\* The sector that output number i of a record goes to: the length field and
\* the first sector's bytes both go to the first sector.
SectorOf(off, i) == IF i = 0 THEN off ELSE off + i - 1

\* The file after writing piece p to sector n, at its end or inside it.  The
\* length field of a record that is there already changes nothing.
Written(n, p) ==
    IF n = Size THEN Append(sectors, p)
    ELSE IF p.part = 0 /\ Sector(n) = [p EXCEPT !.part = 1] THEN sectors
    ELSE [sectors EXCEPT ![n - 1] = p]

\* Mutant: the last sector of the record is not written.
MutWriteDataStopsShort(w) ==
    LET j == job[w] IN
    /\ j.pc = "data"
    /\ sectors' = Written(SectorOf(j.offset, j.next), Piece(j.slot, j.val, j.next))
    /\ job' = [job EXCEPT ![w].next = j.next + 1,
                          ![w].pc = IF j.next + 1 = Need[j.val] THEN "commit"
                                    ELSE "data"]
    /\ UNCHANGED <<header, location>>

\* Output number next of the record; after the last one comes the location.
WriteData(w) ==
    LET j == job[w] IN
    /\ j.pc = "data"
    /\ sectors' = Written(SectorOf(j.offset, j.next), Piece(j.slot, j.val, j.next))
    /\ job' = [job EXCEPT ![w].next = j.next + 1,
                          ![w].pc = IF j.next = Need[j.val] THEN "commit" ELSE "data"]
    /\ UNCHANGED <<header, location>>

\* The location entry is written last, with the count this payload needs.
Commit(w) ==
    LET j == job[w] IN
    /\ j.pc = "commit"
    /\ location' = [location EXCEPT ![j.slot] = [offset |-> j.offset,
                                                 count |-> Need[j.val]]]
    /\ job' = [job EXCEPT ![w].pc = "return"]
    /\ UNCHANGED <<header, sectors>>

\* Timestamp and flush.
Return(w) ==
    /\ job[w].pc = "return"
    /\ job' = [job EXCEPT ![w] = Idle]
    /\ UNCHANGED <<header, location, sectors>>

\* A write fails; the stream stays bad, nothing more is written, write() throws.
WriteFails(w) ==
    /\ job[w].pc \in {"create", "data", "commit", "return"}
    /\ job' = [job EXCEPT ![w] = Failed]
    /\ UNCHANGED <<header, location, sectors>>

\* The process dies and is started again.
Crash ==
    /\ \E w \in Writers : job[w] \notin {Idle, Failed}
    /\ job' = [w \in Writers |-> Failed]
    /\ UNCHANGED <<header, location, sectors>>

Next ==
    \/ \E w \in Writers :
          \/ \E s \in Slots, v \in Vals : BeginSave(w, s, v)
          \/ Open(w)
          \/ WriteHeader(w)
          \/ Locate(w)
          \/ WriteData(w)
          \/ Commit(w)
          \/ Return(w)
          \/ WriteFails(w)
    \/ Crash

Spec == Init /\ [][Next]_vars

-----------------------------------------------------------------------------
(* Properties *)

\* Locations point into the file, past the header, and no two slots share a
\* sector, so no save can overwrite another slot's record.
SectorsDisjoint ==
    /\ \A s \in Slots : Allocated(s) =>
          /\ location[s].offset >= 2
          /\ location[s].offset + location[s].count <= Size
    /\ \A s, t \in Slots : s # t => Extent(s) \cap Extent(t) = {}

\* A slot is damaged only by the rewrite, in place, of its own record: a
\* record that outgrew its sectors is copied to the end of the file first, and
\* the old one stays readable until the location points to the new one.
OnlyRewritesDamage ==
    [][\A s \in Slots :
          Read(s) \in Vals /\ Read(s)' = Damaged =>
             \E w \in Writers : /\ job[w].pc = "data" /\ job[w].slot = s
                                /\ job[w].offset = location[s].offset]_vars

\* What has been persisted stays so: a slot that reads as a payload and that
\* nobody is saving keeps that payload.
PersistedStays ==
    [][\A s \in Slots :
          Read(s) \in Vals /\ (\A w \in Writers : job[w].slot # s)
             => Read(s)' = Read(s)]_vars

Save(w) ==
    [result |-> CASE job[w] = Idle   -> "returned"
                  [] job[w] = Failed -> "thrown"
                  [] OTHER           -> "pending",
     slot |-> job[w].slot,
     val |-> job[w].val]

Store == INSTANCE ChunkStore WITH stored <- [s \in Slots |-> Read(s)],
                                  save <- [w \in Writers |-> Save(w)]

\* The sequence of writes keeps ChunkStore's promise.
StoreSpec == Store!Spec
=============================================================================
