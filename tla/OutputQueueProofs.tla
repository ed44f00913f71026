------------------------- MODULE OutputQueueProofs -------------------------
(***************************************************************************)
(* Proofs about OutputQueue, for every size of the frames, of the kernel's *)
(* buffer, of the scatter vector and of the limit: partial sends keep the  *)
(* stream exact, input waits for output, and a session that returns has    *)
(* handed over all it wrote.                                               *)
(*                                                                         *)
(* QueueExact is not inductive: that the bytes gathered are the next ones  *)
(* of the stream follows from every buffer being a run of the stream and   *)
(* the buffers following one another from what was sent to what was        *)
(* written (Runs).  The sums over the buffers are recursive; they are      *)
(* computed by induction, as the absence of a least counterexample.        *)
(***************************************************************************)
EXTENDS OutputQueue, SequenceTheorems, WellFoundedInduction, TLAPS

\* A set of naturals has a least element.
LEMMA Least ==
    ASSUME NEW S \in SUBSET Nat, S # {}
    PROVE  \E n \in S : \A m \in S : n <= m
<1> DEFINE R == {ss \in Nat \X Nat : ss[1] < ss[2]}
<1>1. IsWellFoundedOn(R, Nat)
  BY NatLessThanWellFounded DEF OpToRel
<1> HIDE DEF R
<1>2. PICK n \in S : \A m \in S : ~(<<m, n>> \in R)
  BY <1>1, WFMin
<1>3. ASSUME NEW m \in S PROVE n <= m
  <2>1. m \in Nat /\ n \in Nat /\ ~(m < n)
    BY <1>2 DEF R
  <2> QED
    BY <2>1
<1> QED
  BY <1>3

LEMMA SeqOf ==
    ASSUME NEW S, NEW T, NEW q \in Seq(S), \A i \in 1..Len(q) : q[i] \in T
    PROVE  q \in Seq(T)
<1>1. Len(q) \in Nat /\ q \in [1..Len(q) -> T]
  OBVIOUS
<1> QED
  BY <1>1, SeqDef

\* The places in the stream of buffer n's first byte and of the byte after it.
First(n) == buffers[n][1]
After(n) == buffers[n][1] + Len(buffers[n])

\* Each buffer is a run of the stream, and they follow one another.
Runs ==
    /\ buffers \in Seq(Seq(Nat))
    /\ \A n \in 1..Len(buffers) :
          /\ Len(buffers[n]) > 0
          /\ \A i \in 1..Len(buffers[n]) : buffers[n][i] = First(n) + i - 1
          /\ n > 1 => First(n) = After(n - 1)
          /\ \A m \in 1..(n - 1) : After(m) <= First(n)

\* What is queued goes from what was sent to what was written.
Stream ==
    /\ written \in Nat /\ frontOffset \in Nat /\ frontOffset <= Len(wire)
    /\ wire \in Seq(Nat) /\ \A i \in 1..Len(wire) : wire[i] = i
    /\ buffers = <<>> => frontOffset = 0 /\ written = Len(wire)
    /\ buffers # <<>> => /\ frontOffset < Len(buffers[1])
                         /\ First(1) = Len(wire) - frontOffset + 1
                         /\ After(Len(buffers)) = written + 1

Counted == pendingBytes = written - Len(wire) /\ pendingBytes <= MaxPending

\* Who waits for the queue to be empty.
Waiting ==
    /\ at \in {"read", "return"} => buffers = <<>>
    /\ at \in {"flush", "blocked"} /\ back \in {"read", "return"} => wait
    /\ at = "blocked" => wait
    /\ end = "returned" => buffers = <<>>
    /\ back \in {"top", "tick", "handle", "polled", "read", "return"}

\* The types of what is not the queue.
Control ==
    /\ kernel \in 0..SendBuffer
    /\ arrived \in 0..MaxPieces /\ inbound \in 0..arrived
    /\ {peerClosed, stopping, expired, wait} \subseteq BOOLEAN
    /\ got \in 0..(PacketPieces - 1)
    /\ revents \subseteq {"read", "write"}
    /\ at \in Points /\ end \in Ends
    /\ at = "ended" <=> end # "running"

QInv == Runs /\ Stream /\ Counted /\ Waiting /\ Control /\ written <= MaxWritten

-----------------------------------------------------------------------------
(* Sums over the buffers *)

\* The size of the first n buffers, from their places in the stream.
LEMMA BeforeIs ==
    ASSUME Runs
    PROVE  \A n \in 0..Len(buffers) :
              Before[n] = IF n = 0 THEN 0 ELSE After(n) - First(1)
<1> DEFINE W(n) == IF n = 0 THEN 0 ELSE After(n) - First(1)
           w == [n \in 0..Len(buffers) |-> W(n)]
<1>0. /\ Len(buffers) \in Nat
      /\ \A n \in 1..Len(buffers) : First(n) \in Nat /\ After(n) \in Nat /\ Len(buffers[n]) \in Nat
                                    /\ After(n) = First(n) + Len(buffers[n])
  BY DEF Runs, First, After
<1>1. ASSUME NEW n \in 1..Len(buffers) PROVE W(n) = W(n - 1) + Len(buffers[n])
  <2>1. CASE n = 1
    BY <1>0, <2>1
  <2>2. CASE n # 1
    <3>1. First(n) = After(n - 1) /\ n - 1 # 0 /\ n # 0 /\ n - 1 \in 1..Len(buffers)
      BY <1>0, <2>2 DEF Runs
    <3>2. After(n) = First(n) + Len(buffers[n]) /\ 1 \in 1..Len(buffers)
      BY <1>0
    <3> QED
      BY <1>0, <3>1, <3>2
  <2> QED
    BY <2>1, <2>2
<1>2. w = [n \in 0..Len(buffers) |-> IF n = 0 THEN 0 ELSE w[n - 1] + Len(buffers[n])]
  BY <1>0, <1>1
<1>3. Before = [n \in 0..Len(buffers) |-> IF n = 0 THEN 0 ELSE Before[n - 1] + Len(buffers[n])]
  <2> HIDE DEF w
  <2> QED
    BY <1>2, Zenon DEF Before
<1>4. SUFFICES ASSUME NEW b \in 0..Len(buffers), Before[b] # W(b) PROVE FALSE
  OBVIOUS
<1>5. PICK n \in 0..Len(buffers) : Before[n] # W(n) /\ \A m \in 0..(n - 1) : Before[m] = W(m)
  <2> DEFINE S == {n \in 0..Len(buffers) : Before[n] # W(n)}
  <2>1. S \in SUBSET Nat /\ b \in S
    BY <1>0, <1>4
  <2> HIDE DEF S
  <2>2. PICK n \in S : \A m \in S : n <= m
    BY <2>1, Least
  <2>3. n \in 0..Len(buffers) /\ Before[n] # W(n)
    BY DEF S
  <2>4. ASSUME NEW m \in 0..(n - 1) PROVE Before[m] = W(m)
    <3>1. m \in 0..Len(buffers) /\ ~(n <= m)
      BY <1>0, <2>3
    <3>2. m \notin S
      BY <2>2, <3>1
    <3> QED
      BY <3>1, <3>2 DEF S
  <2> QED
    BY <2>3, <2>4
<1>6. Before[n] = IF n = 0 THEN 0 ELSE Before[n - 1] + Len(buffers[n])
  BY <1>3
<1>7. CASE n = 0
  BY <1>5, <1>6, <1>7
<1>8. CASE n # 0
  <2>1. n \in 1..Len(buffers) /\ n - 1 \in 0..(n - 1)
    BY <1>0, <1>8
  <2> QED
    BY <1>1, <1>5, <1>6, <1>8, <2>1
<1> QED
  BY <1>7, <1>8

LEMMA RunTypes ==
    ASSUME Runs
    PROVE  /\ Len(buffers) \in Nat
           /\ \A n \in 1..Len(buffers) :
                 /\ First(n) \in Nat /\ After(n) \in Nat /\ Len(buffers[n]) \in Nat \ {0}
                 /\ After(n) = First(n) + Len(buffers[n])
                 /\ After(n) <= After(Len(buffers)) /\ First(1) <= First(n)
<1>1. Len(buffers) \in Nat
  BY DEF Runs
<1>2. ASSUME NEW n \in 1..Len(buffers)
      PROVE  /\ First(n) \in Nat /\ After(n) \in Nat /\ Len(buffers[n]) \in Nat \ {0}
             /\ After(n) = First(n) + Len(buffers[n])
  BY <1>1 DEF Runs, First, After
<1>3. ASSUME NEW n \in 1..Len(buffers)
      PROVE  After(n) <= After(Len(buffers)) /\ First(1) <= First(n)
  <2>1. 1 \in 1..Len(buffers) /\ Len(buffers) \in 1..Len(buffers)
    BY <1>1
  <2>4. n # 1 => First(1) <= First(n)
    <3> SUFFICES ASSUME n # 1 PROVE First(1) <= First(n)
      OBVIOUS
    <3>1. 1 \in 1..(n - 1)
      BY <1>1
    <3>2. After(1) <= First(n)
      BY <3>1 DEF Runs
    <3>3. First(1) \in Nat /\ First(n) \in Nat /\ After(1) \in Nat /\ After(1) >= First(1)
      BY <1>2, <2>1
    <3> QED
      BY <3>2, <3>3
  <2>5. After(n) <= After(Len(buffers))
    <3>1. After(Len(buffers)) \in Nat /\ First(Len(buffers)) \in Nat /\ After(n) \in Nat
          /\ First(Len(buffers)) <= After(Len(buffers))
      BY <1>2, <2>1
    <3>2. CASE n = Len(buffers)
      BY <3>1, <3>2
    <3>3. CASE n # Len(buffers)
      <4>1. n \in 1..(Len(buffers) - 1)
        BY <1>1, <3>3
      <4>2. After(n) <= First(Len(buffers))
        BY <2>1, <4>1 DEF Runs
      <4> QED
        BY <3>1, <4>2
    <3> QED
      BY <3>2, <3>3
  <2>6. First(1) <= First(n)
    BY <1>2, <2>4
  <2> QED
    BY <2>5, <2>6
<1> QED
  BY <1>1, <1>2, <1>3

\* The bytes of the queue, one after the other, are the stream's.
LEMMA ByteIs ==
    ASSUME Runs, NEW i \in 1..Before[Len(buffers)]
    PROVE  Byte(i) = First(1) + i - 1
<1> DEFINE InBuffer(n) == Before[n - 1] < i /\ i <= Before[n]
<1>0. Len(buffers) \in Nat
  BY RunTypes
<1>1. \A n \in 0..Len(buffers) : Before[n] = IF n = 0 THEN 0 ELSE After(n) - First(1)
  BY BeforeIs
<1>2. \A n \in 0..Len(buffers) : Before[n] \in Int
  <2>1. \A n \in 0..Len(buffers) : n = 0 \/ (n \in 1..Len(buffers) /\ 1 \in 1..Len(buffers))
    BY <1>0
  <2> QED
    BY <1>1, <2>1, RunTypes
<1>3. Len(buffers) \in 1..Len(buffers) /\ i \in Nat /\ i > 0
  <2>1. Len(buffers) # 0
    BY <1>1, <1>0
  <2> QED
    BY <1>0, <1>2, <2>1
<1>4. \E n \in 1..Len(buffers) : InBuffer(n)
  <2> DEFINE S == {n \in 1..Len(buffers) : i <= Before[n]}
  <2>1. S \in SUBSET Nat /\ Len(buffers) \in S
    BY <1>0, <1>2, <1>3
  <2> HIDE DEF S
  <2>2. PICK n \in S : \A m \in S : n <= m
    BY <2>1, Least
  <2>3. n \in 1..Len(buffers) /\ i <= Before[n]
    BY <2>2 DEF S
  <2>4. Before[n - 1] < i
    <3>1. CASE n = 1
      BY <1>0, <1>1, <1>3, <3>1
    <3>2. CASE n # 1
      <4>1. n - 1 \in 1..Len(buffers) /\ ~(n <= n - 1) /\ n - 1 \in 0..Len(buffers)
        BY <1>0, <2>3, <3>2
      <4>2. ~(i <= Before[n - 1])
        BY <2>2, <4>1 DEF S
      <4> QED
        BY <1>2, <1>3, <4>1, <4>2
    <3> QED
      BY <3>1, <3>2
  <2> QED
    BY <2>3, <2>4
<1> DEFINE n == CHOOSE n \in 1..Len(buffers) : InBuffer(n)
<1>5. n \in 1..Len(buffers) /\ InBuffer(n)
  BY <1>4
<1>6. Byte(i) = buffers[n][i - Before[n - 1]]
  BY DEF Byte
<1> HIDE DEF n
<1>7. Before[n - 1] = First(n) - First(1) /\ Before[n] = First(n) + Len(buffers[n]) - First(1)
  <2>1. n - 1 \in 0..Len(buffers) /\ n \in 0..Len(buffers) /\ n # 0
    BY <1>0, <1>5
  <2>2. First(n) \in Nat /\ First(1) \in Nat /\ After(n) = First(n) + Len(buffers[n])
        /\ Len(buffers[n]) \in Nat
    BY <1>3, <1>5, RunTypes
  <2>3. Before[n] = After(n) - First(1)
    BY <1>1, <2>1
  <2>4. Before[n - 1] = First(n) - First(1)
    <3>1. CASE n = 1
      BY <1>1, <2>1, <2>2, <3>1
    <3>2. CASE n # 1
      <4>1. First(n) = After(n - 1)
        BY <1>5, <3>2 DEF Runs
      <4>2. n - 1 # 0
        BY <1>0, <1>5, <3>2
      <4>3. Before[n - 1] = After(n - 1) - First(1)
        BY <1>1, <2>1, <4>2
      <4> QED
        BY <4>1, <4>3
    <3> QED
      BY <3>1, <3>2
  <2> QED
    BY <2>2, <2>3, <2>4
<1>8. First(n) \in Nat /\ First(1) \in Nat /\ Len(buffers[n]) \in Nat
  BY <1>3, <1>5, RunTypes
<1>9. i - Before[n - 1] \in 1..Len(buffers[n])
  BY <1>3, <1>5, <1>7, <1>8
<1>10. buffers[n][i - Before[n - 1]] = First(n) + (i - Before[n - 1]) - 1
  BY <1>5, <1>9 DEF Runs
<1> QED
  BY <1>3, <1>6, <1>7, <1>8, <1>10

\* What is left of the first n buffers are the next bytes to be sent.
LEMMA UnsentIs ==
    ASSUME Runs, Stream, NEW n \in 1..Len(buffers)
    PROVE  /\ Before[n] - frontOffset \in Nat
           /\ Before[n] - frontOffset <= written - Len(wire)
           /\ n = Len(buffers) => Before[n] - frontOffset = written - Len(wire)
           /\ Unsent(n) = [i \in 1..(Before[n] - frontOffset) |-> Len(wire) + i]
<1>0. Len(buffers) \in Nat /\ 1 \in 1..Len(buffers) /\ Len(buffers) \in 1..Len(buffers)
      /\ buffers # <<>>
  BY RunTypes
<1>1. /\ First(1) = Len(wire) - frontOffset + 1
      /\ After(Len(buffers)) = written + 1
      /\ frontOffset < Len(buffers[1]) /\ frontOffset \in Nat /\ written \in Nat
      /\ Len(wire) \in Nat
  BY <1>0 DEF Stream
<1>2. Before[n] = After(n) - First(1) /\ Before[Len(buffers)] = After(Len(buffers)) - First(1)
  <2>1. n \in 0..Len(buffers) /\ n # 0 /\ Len(buffers) \in 0..Len(buffers) /\ Len(buffers) # 0
    BY <1>0
  <2> QED
    BY <2>1, BeforeIs
<1>3. /\ First(1) \in Nat /\ After(n) \in Nat /\ After(n) <= After(Len(buffers))
      /\ After(n) = First(n) + Len(buffers[n]) /\ First(n) \in Nat /\ First(1) <= First(n)
      /\ Len(buffers[n]) \in Nat \ {0} /\ Len(buffers[1]) \in Nat
      /\ After(Len(buffers)) \in Nat
  BY <1>0, RunTypes
<1>4. After(1) <= After(n)
  <2>1. n = 1 \/ (n # 1 /\ 1 \in 1..(n - 1))
    BY <1>0
  <2>2. n # 1 => After(1) <= First(n)
    BY <2>1 DEF Runs
  <2>3. After(1) \in Nat
    BY <1>0, RunTypes
  <2> QED
    BY <1>3, <2>1, <2>2, <2>3
<1>5. After(1) = First(1) + Len(buffers[1])
  BY DEF First, After
<1>6. /\ Before[n] - frontOffset \in Nat
      /\ Before[n] - frontOffset <= written - Len(wire)
      /\ n = Len(buffers) => Before[n] - frontOffset = written - Len(wire)
  <2>1. Before[n] = After(n) - First(1) /\ After(n) >= First(1) + Len(buffers[1])
    BY <1>2, <1>3, <1>4, <1>5
  <2>2. Before[n] - frontOffset \in Nat
    <3>1. Before[n] \in Int /\ Before[n] >= Len(buffers[1])
      BY <1>3, <2>1
    <3> QED
      BY <1>1, <1>3, <3>1
  <2>3. Before[n] - frontOffset <= written - Len(wire)
    <3>1. After(n) <= written + 1
      BY <1>1, <1>3
    <3>2. Before[n] \in Int /\ Before[n] <= written + 1 - First(1)
      <4>1. First(1) \in Nat /\ After(n) \in Nat /\ written \in Nat
        BY <1>1, <1>3
      <4> QED
        BY <2>1, <3>1, <4>1
    <3> QED
      BY <1>1, <3>2
  <2>4. n = Len(buffers) => Before[n] - frontOffset = written - Len(wire)
    BY <1>1, <1>3, <2>1
  <2> QED
    BY <2>2, <2>3, <2>4
<1>7. ASSUME NEW i \in 1..(Before[n] - frontOffset) PROVE Byte(frontOffset + i) = Len(wire) + i
  <2>1. frontOffset + i \in 1..Before[Len(buffers)] /\ i \in Nat
    <3>1. Before[n] \in Int /\ Before[Len(buffers)] \in Int /\ Before[n] <= Before[Len(buffers)]
      <4>1. Before[n] \in Int /\ Before[Len(buffers)] \in Int
        BY <1>2, <1>3
      <4> QED
        BY <1>2, <1>3, <4>1
    <3> QED
      BY <1>1, <1>6, <3>1
  <2>2. Byte(frontOffset + i) = First(1) + (frontOffset + i) - 1
    BY <2>1, ByteIs
  <2> QED
    BY <1>1, <2>1, <2>2
<1> QED
  BY <1>6, <1>7 DEF Unsent

LEMMA ExactFollows ==
    ASSUME Runs, Stream, Counted
    PROVE  QueueExact
<1>0. Len(buffers) \in Nat /\ written \in Nat /\ wire \in Seq(Nat) /\ Len(wire) \in Nat
      /\ \A i \in 1..Len(wire) : wire[i] = i
  BY RunTypes DEF Stream
<1> DEFINE rest == Unsent(Len(buffers))
<1>1. /\ written - Len(wire) \in Nat
      /\ rest = [i \in 1..(written - Len(wire)) |-> Len(wire) + i]
  <2>1. CASE buffers = <<>>
    <3>1. Len(buffers) = 0 /\ frontOffset = 0 /\ written = Len(wire)
      BY <2>1 DEF Stream
    <3>2. Before[0] = 0
      BY <1>0, BeforeIs
    <3>3. rest = [i \in 1..0 |-> Byte(frontOffset + i)]
      BY <3>1, <3>2 DEF Unsent
    <3>4. 1..0 = {} /\ written - Len(wire) = 0
      BY <1>0, <3>1
    <3> QED
      BY <3>3, <3>4
  <2>2. CASE buffers # <<>>
    <3>1. Len(buffers) \in 1..Len(buffers)
      BY <1>0, <2>2 DEF Runs
    <3> QED
      BY <3>1, UnsentIs
  <2> QED
    BY <2>1, <2>2
<1> HIDE DEF rest
<1>2. rest \in Seq(Nat) /\ Len(rest) = written - Len(wire)
  BY <1>0, <1>1
<1>3. wire \o rest = [i \in 1..written |-> i]
  <2>1. wire \o rest \in Seq(Nat) /\ Len(wire \o rest) = written
    BY <1>0, <1>2
  <2>2. ASSUME NEW i \in 1..written PROVE (wire \o rest)[i] = i
    <3>1. CASE i <= Len(wire)
      BY <1>0, <1>2, <3>1
    <3>2. CASE i > Len(wire)
      <4>1. i - Len(wire) \in 1..(written - Len(wire)) /\ i \in Nat /\ i \in 1..written
        BY <1>0, <3>2
      <4>2. (wire \o rest)[i] = rest[i - Len(wire)]
        BY <1>0, <1>2, <3>2, <4>1
      <4> QED
        BY <1>0, <1>1, <4>1, <4>2
    <3>3. i <= Len(wire) \/ i > Len(wire)
      BY <1>0
    <3> QED
      BY <3>1, <3>2, <3>3
  <2> DEFINE all == wire \o rest
  <2>3. all \in Seq(Nat) /\ Len(all) = written /\ \A i \in 1..written : all[i] = i
    BY <2>1, <2>2
  <2> HIDE DEF all
  <2>4. all = [i \in 1..written |-> i]
    BY <1>0, <2>3
  <2> QED
    BY <2>4 DEF all
<1> QED
  BY <1>3 DEF QueueExact, Counted, rest

-----------------------------------------------------------------------------
(* The queue *)

LEMMA QueueInit == Init => Runs /\ Stream /\ Counted
<1> SUFFICES ASSUME Init PROVE Runs /\ Stream /\ Counted
  OBVIOUS
<1>1. buffers = <<>> /\ wire = <<>> /\ frontOffset = 0 /\ pendingBytes = 0 /\ written = 0
  BY DEF Init
<1>2. buffers \in Seq(Seq(Nat)) /\ Len(buffers) = 0 /\ wire \in Seq(Nat) /\ Len(wire) = 0
  BY <1>1
<1> QED
  <2>1. Runs
    BY <1>2 DEF Runs
  <2>2. Stream
    BY <1>1, <1>2 DEF Stream
  <2>3. MaxPending \in Nat
    BY OutputAssumption
  <2>4. Counted
    <3>1. pendingBytes = 0 /\ written = 0 /\ Len(wire) = 0
      BY <1>1, <1>2
    <3> QED
      BY <2>3, <3>1 DEF Counted
  <2> QED
    BY <2>1, <2>2, <2>4

LEMMA SameQueue ==
    Runs /\ Stream /\ Counted /\ UNCHANGED <<queue, written, wire>>
    => Runs' /\ Stream' /\ Counted'
BY DEF Runs, Stream, Counted, First, After, queue

\* enqueue: the new buffer is the next run of the stream.
LEMMA WriteQueue ==
    ASSUME Runs, Stream, Counted, NEW size \in FrameSizes, Write(size)
    PROVE  Runs' /\ Stream' /\ Counted'
<1>0. size \in Nat \ {0}
  BY OutputAssumption
<1>1. CASE UNCHANGED <<queue, written, wire>>
  BY <1>1, SameQueue
<1>2. CASE ~(size > MaxPending - pendingBytes)
  <2> DEFINE b == [i \in 1..size |-> written + i]
  <2>1. /\ buffers' = Append(buffers, b)
        /\ pendingBytes' = pendingBytes + size /\ written' = written + size
        /\ UNCHANGED <<frontOffset, wire>>
    BY <1>2 DEF Write
  <2>2. Len(buffers) \in Nat /\ buffers \in Seq(Seq(Nat)) /\ written \in Nat
    BY DEF Runs, Stream
  <2>3. b \in Seq(Nat) /\ Len(b) = size /\ b[1] = written + 1
        /\ \A i \in 1..Len(b) : b[i] = b[1] + i - 1
    BY <1>0, <2>2
  <2> HIDE DEF b
  <2>4. /\ buffers' \in Seq(Seq(Nat)) /\ Len(buffers') = Len(buffers) + 1
        /\ \A n \in 1..Len(buffers) : buffers'[n] = buffers[n]
        /\ buffers'[Len(buffers) + 1] = b
    BY <2>1, <2>2, <2>3
  <2>5. \A n \in 1..Len(buffers) : First(n)' = First(n) /\ After(n)' = After(n)
    BY <2>4 DEF First, After
  <2>l. PICK l \in Nat : l = Len(buffers) + 1
    BY <2>2
  <2>6. First(l)' = written + 1 /\ After(l)' = written + size + 1
    <3>1. buffers'[l] = b
      BY <2>4, <2>l
    <3>2. First(l)' = b[1] /\ After(l)' = b[1] + Len(b)
      BY <3>1 DEF First, After
    <3> QED
      BY <1>0, <2>2, <2>3, <3>2
  <2>7. \A n \in 1..Len(buffers) : After(n) <= written + 1
    <3> SUFFICES ASSUME NEW n \in 1..Len(buffers) PROVE After(n) <= written + 1
      OBVIOUS
    <3>1. buffers # <<>>
      BY <2>2
    <3>2. After(Len(buffers)) = written + 1
      BY <3>1 DEF Stream
    <3> QED
      BY <3>2, RunTypes
  <2>8. Runs'
    <3>1. ASSUME NEW n \in 1..Len(buffers')
          PROVE  /\ Len(buffers'[n]) > 0
                 /\ \A i \in 1..Len(buffers'[n]) : buffers'[n][i] = First(n)' + i - 1
                 /\ n > 1 => First(n)' = After(n - 1)'
                 /\ \A m \in 1..(n - 1) : After(m)' <= First(n)'
      <4>1. CASE n = l
        <5>1. Len(buffers'[n]) > 0
          BY <1>0, <2>3, <2>4, <2>l, <4>1
        <5>2. \A i \in 1..Len(buffers'[n]) : buffers'[n][i] = First(n)' + i - 1
          BY <2>3, <2>4, <2>l, <4>1 DEF First
        <5>3. n > 1 => First(n)' = After(n - 1)'
          <6> SUFFICES ASSUME n > 1 PROVE First(n)' = After(n - 1)'
            OBVIOUS
          <6>1. buffers # <<>> /\ n - 1 \in 1..Len(buffers) /\ n - 1 = Len(buffers)
            BY <2>2, <2>l, <4>1
          <6>2. After(n - 1)' = After(Len(buffers)) /\ After(Len(buffers)) = written + 1
            BY <2>5, <6>1 DEF Stream
          <6> QED
            BY <2>6, <4>1, <6>2
        <5>4. \A m \in 1..(n - 1) : After(m)' <= First(n)'
          BY <2>2, <2>5, <2>6, <2>7, <2>l, <4>1
        <5> QED
          BY <5>1, <5>2, <5>3, <5>4
      <4>2. CASE n # l
        <5>1. n \in 1..Len(buffers) /\ (n > 1 => n - 1 \in 1..Len(buffers))
              /\ \A m \in 1..(n - 1) : m \in 1..Len(buffers)
          BY <2>2, <2>4, <2>l, <4>2
        <5>2. First(n)' = First(n) /\ (n > 1 => After(n - 1)' = After(n - 1))
              /\ \A m \in 1..(n - 1) : After(m)' = After(m)
          BY <2>5, <5>1
        <5>3. buffers'[n] = buffers[n]
          BY <2>4, <5>1
        <5>4. \A m \in 1..(n - 1) : After(m)' <= First(n)'
          BY <5>1, <5>2 DEF Runs
        <5>5. n > 1 => First(n)' = After(n - 1)'
          BY <5>1, <5>2 DEF Runs
        <5>6. Len(buffers'[n]) > 0 /\ \A i \in 1..Len(buffers'[n]) : buffers'[n][i] = First(n)' + i - 1
          BY <5>1, <5>2, <5>3 DEF Runs
        <5> QED
          BY <5>4, <5>5, <5>6
      <4> QED
        BY <4>1, <4>2
    <3> QED
      BY <2>4, <3>1 DEF Runs
  <2>9. Stream'
    <3>1. buffers' # <<>> /\ l \in 1..Len(buffers') /\ 1 \in 1..Len(buffers')
      BY <2>2, <2>4, <2>l
    <3>2. l = Len(buffers')
      BY <2>4, <2>l
    <3>3. After(Len(buffers))' = written' + 1
      BY <1>0, <2>1, <2>2, <2>6, <3>2 DEF After
    <3>4. frontOffset < Len(buffers'[1]) /\ First(1)' = Len(wire) - frontOffset + 1
      <4>1. CASE buffers = <<>>
        <5>1. l = 1 /\ frontOffset = 0 /\ written = Len(wire)
          BY <2>2, <2>l, <4>1 DEF Stream
        <5>2. Len(buffers'[1]) = size
          BY <2>3, <2>4, <4>1, <5>1, <2>l
        <5> QED
          BY <1>0, <2>2, <2>6, <5>1, <5>2
      <4>2. CASE buffers # <<>>
        <5>1. 1 \in 1..Len(buffers)
          BY <2>2, <4>2
        <5> QED
          BY <2>4, <2>5, <4>2, <5>1 DEF Stream
      <4> QED
        BY <4>1, <4>2
    <3>5. written' \in Nat /\ frontOffset \in Nat /\ wire \in Seq(Nat) /\ \A i \in 1..Len(wire) : wire[i] = i
      BY <1>0, <2>1, <2>2 DEF Stream
    <3> QED
      BY <2>1, <3>1, <3>3, <3>4, <3>5 DEF Stream
  <2>10. Counted'
    <3>1. Len(wire) \in Nat /\ MaxPending \in Nat
      BY OutputAssumption DEF Stream
    <3> QED
      BY <1>0, <1>2, <2>1, <2>2, <3>1 DEF Counted
  <2> QED
    BY <2>8, <2>9, <2>10
<1> QED
  BY <1>1, <1>2 DEF Write, End

\* Buffers leave at the front: the others are still runs one after another.
LEMMA DropRuns ==
    ASSUME Runs, NEW k \in 0..Len(buffers), buffers' = Drop(buffers, k)
    PROVE  /\ Runs'
           /\ Len(buffers') = Len(buffers) - k
           /\ \A n \in 1..Len(buffers') : /\ n + k \in 1..Len(buffers)
                                          /\ buffers'[n] = buffers[n + k]
                                          /\ First(n)' = First(n + k)
                                          /\ After(n)' = After(n + k)
<1>0. buffers \in Seq(Seq(Nat)) /\ Len(buffers) \in Nat /\ k \in Nat
  BY DEF Runs
<1>1. /\ buffers' \in Seq(Seq(Nat)) /\ Len(buffers') = Len(buffers) - k
      /\ \A n \in 1..Len(buffers') : buffers'[n] = buffers[n + k]
  BY <1>0 DEF Drop
<1>2. \A n \in 1..Len(buffers') : /\ n + k \in 1..Len(buffers)
                                  /\ buffers'[n] = buffers[n + k]
  BY <1>0, <1>1
<1>3. \A n \in 1..Len(buffers') : First(n)' = First(n + k) /\ After(n)' = After(n + k)
  BY <1>2 DEF First, After
<1>4. ASSUME NEW n \in 1..Len(buffers')
      PROVE  /\ Len(buffers'[n]) > 0
             /\ \A i \in 1..Len(buffers'[n]) : buffers'[n][i] = First(n)' + i - 1
             /\ n > 1 => First(n)' = After(n - 1)'
             /\ \A m \in 1..(n - 1) : After(m)' <= First(n)'
  <2>1. n + k \in 1..Len(buffers) /\ buffers'[n] = buffers[n + k] /\ First(n)' = First(n + k)
    BY <1>2, <1>3
  <2>2. Len(buffers'[n]) > 0 /\ \A i \in 1..Len(buffers'[n]) : buffers'[n][i] = First(n)' + i - 1
    BY <2>1 DEF Runs
  <2>3. n > 1 => First(n)' = After(n - 1)'
    <3> SUFFICES ASSUME n > 1 PROVE First(n)' = After(n - 1)'
      OBVIOUS
    <3>1. n - 1 \in 1..Len(buffers') /\ (n - 1) + k = (n + k) - 1 /\ n + k > 1
      BY <1>0, <1>1
    <3>2. After(n - 1)' = After((n + k) - 1)
      BY <1>3, <3>1
    <3> QED
      BY <2>1, <3>1, <3>2 DEF Runs
  <2>4. ASSUME NEW m \in 1..(n - 1) PROVE After(m)' <= First(n)'
    <3>1. m \in 1..Len(buffers') /\ m + k \in 1..((n + k) - 1)
      BY <1>0, <1>1
    <3>2. After(m)' = After(m + k)
      BY <1>3, <3>1
    <3> QED
      BY <2>1, <3>1, <3>2 DEF Runs
  <2> QED
    BY <2>2, <2>3, <2>4
<1>5. Runs'
  BY <1>1, <1>4 DEF Runs
<1> QED
  BY <1>1, <1>2, <1>3, <1>5

\* The bytes a send takes are the next ones of the stream.
LEMMA SentBytes ==
    ASSUME Runs, Stream, buffers # <<>>, NEW count \in Nat, count <= Len(Gathered),
           wire' = wire \o SubSeq(Gathered, 1, count)
    PROVE  /\ wire' \in Seq(Nat) /\ Len(wire') = Len(wire) + count
           /\ \A i \in 1..Len(wire') : wire'[i] = i
           /\ count <= written - Len(wire)
<1>0. Len(buffers) \in Nat /\ wire \in Seq(Nat) /\ Len(wire) \in Nat /\ written \in Nat
      /\ \A i \in 1..Len(wire) : wire[i] = i
  BY RunTypes DEF Stream
<1>1. Len(buffers) # 0
  BY <1>0 DEF Runs
<1>2. PICK n \in 1..Len(buffers) : Gathered = Unsent(n)
  <2>1. MaxScatter \in Nat \ {0}
    BY OutputAssumption
  <2>2. CASE Len(buffers) < MaxScatter
    BY <1>0, <1>1, <2>2 DEF Gathered
  <2>3. CASE ~(Len(buffers) < MaxScatter)
    BY <1>0, <2>1, <2>3 DEF Gathered
  <2> QED
    BY <2>2, <2>3
<1> DEFINE size == Before[n] - frontOffset
<1>3. /\ size \in Nat /\ size <= written - Len(wire)
      /\ Gathered = [i \in 1..size |-> Len(wire) + i]
  BY <1>2, UnsentIs
<1> HIDE DEF size
<1>4. Gathered \in Seq(Nat) /\ Len(Gathered) = size
  BY <1>0, <1>3
<1> DEFINE sent == SubSeq(Gathered, 1, count)
<1>5. sent \in Seq(Nat) /\ Len(sent) = count /\ \A i \in 1..count : sent[i] = Gathered[i]
  BY <1>3, <1>4
<1>6. \A i \in 1..count : sent[i] = Len(wire) + i
  BY <1>3, <1>4, <1>5
<1> HIDE DEF sent
<1>7. /\ wire' \in Seq(Nat) /\ Len(wire') = Len(wire) + count
      /\ \A i \in 1..Len(wire) : wire'[i] = wire[i]
      /\ \A i \in 1..count : wire'[Len(wire) + i] = sent[i]
  BY <1>0, <1>5 DEF sent
<1>8. ASSUME NEW i \in 1..Len(wire') PROVE wire'[i] = i
  <2>1. i \in 1..Len(wire) \/ (i - Len(wire) \in 1..count /\ i = Len(wire) + (i - Len(wire)))
    BY <1>0, <1>7
  <2> QED
    BY <1>0, <1>6, <1>7, <2>1
<1>9. count <= written - Len(wire)
  BY <1>0, <1>3, <1>4
<1> QED
  BY <1>7, <1>8, <1>9

\* A send takes them off the front.
LEMMA SendQueue ==
    ASSUME Runs, Stream, Counted, NEW count \in 1..SendBuffer, Send(count)
    PROVE  Runs' /\ Stream' /\ Counted'
<1>0. /\ SendBuffer \in Nat /\ MaxPending \in Nat /\ count \in Nat /\ count >= 1
      /\ Len(buffers) \in Nat /\ written \in Nat /\ frontOffset \in Nat /\ Len(wire) \in Nat
  <2>1. SendBuffer \in Nat /\ MaxPending \in Nat
    BY OutputAssumption
  <2> QED
    BY <2>1, RunTypes DEF Stream
<1>1. /\ buffers # <<>> /\ count <= Len(Gathered) /\ UNCHANGED written
      /\ wire' = wire \o SubSeq(Gathered, 1, count)
      /\ pendingBytes' = pendingBytes - count
  BY DEF Send, Consume
<1>2. PICK k \in 0..Len(buffers) :
         /\ EndsAfter(k, count)
         /\ buffers' = Drop(buffers, k)
         /\ frontOffset' = frontOffset + count - Before[k]
  BY DEF Send, Consume
<1>3. /\ wire' \in Seq(Nat) /\ Len(wire') = Len(wire) + count
      /\ \A i \in 1..Len(wire') : wire'[i] = i
      /\ count <= written - Len(wire)
  BY <1>0, <1>1, SentBytes
<1>4. /\ Runs' /\ Len(buffers') = Len(buffers) - k
      /\ \A n \in 1..Len(buffers') : n + k \in 1..Len(buffers)
                                     /\ buffers'[n] = buffers[n + k]
                                     /\ First(n)' = First(n + k) /\ After(n)' = After(n + k)
  BY <1>2, DropRuns
<1>5. Counted'
  BY <1>0, <1>1, <1>3 DEF Counted
<1>6. /\ frontOffset < Len(buffers[1]) /\ First(1) = Len(wire) - frontOffset + 1
      /\ After(Len(buffers)) = written + 1
      /\ 1 \in 1..Len(buffers) /\ Len(buffers) \in 1..Len(buffers)
      /\ First(1) \in Nat
  <2>1. Len(buffers) # 0
    BY <1>0, <1>1 DEF Runs
  <2>2. 1 \in 1..Len(buffers) /\ Len(buffers) \in 1..Len(buffers)
    BY <1>0, <2>1
  <2> QED
    BY <1>1, <2>2, RunTypes DEF Stream
<1>7. Before[k] \in Nat /\ (k = 0 => Before[k] = 0) /\ (k # 0 => Before[k] = After(k) - First(1))
      /\ (k < Len(buffers) => First(k + 1) = First(1) + Before[k])
  <2>1. Before[k] = IF k = 0 THEN 0 ELSE After(k) - First(1)
    BY BeforeIs
  <2>2. CASE k = 0
    BY <1>6, <2>1, <2>2
  <2>3. CASE k # 0
    <3>1. k \in 1..Len(buffers)
      BY <1>0, <2>3
    <3>2. After(k) \in Nat /\ First(k) \in Nat /\ First(1) <= First(k) /\ First(k) <= After(k)
      BY <3>1, RunTypes
    <3>3. k < Len(buffers) => First(k + 1) = After(k)
      <4> SUFFICES ASSUME k < Len(buffers) PROVE First(k + 1) = After(k)
        OBVIOUS
      <4>1. k + 1 \in 1..Len(buffers) /\ k + 1 > 1 /\ (k + 1) - 1 = k
        BY <1>0, <3>1
      <4> QED
        BY <4>1 DEF Runs
    <3> QED
      BY <1>6, <2>1, <2>3, <3>2, <3>3
  <2> QED
    BY <2>2, <2>3
<1>8. frontOffset' \in Nat /\ frontOffset' <= Len(wire')
  <2>1. frontOffset' \in Nat
    BY <1>0, <1>2, <1>7 DEF EndsAfter
  <2>2. frontOffset <= Len(wire)
    BY DEF Stream
  <2> QED
    BY <1>0, <1>2, <1>3, <1>7, <2>1, <2>2
<1>9. CASE k = Len(buffers)
  <2>1. Len(buffers') = 0 /\ buffers' = <<>>
    BY <1>0, <1>4, <1>9 DEF Runs
  <2>2. Before[k] = written - Len(wire) + frontOffset
    BY <1>0, <1>6, <1>7, <1>9
  <2>3. Before[k] <= frontOffset + count
    BY <1>2 DEF EndsAfter
  <2>4. count = written - Len(wire)
    BY <1>0, <1>3, <2>2, <2>3
  <2>5. frontOffset' = 0 /\ written' = Len(wire')
    BY <1>0, <1>1, <1>2, <1>3, <2>2, <2>4
  <2> QED
    BY <1>0, <1>1, <1>3, <1>4, <1>5, <2>1, <2>5 DEF Stream
<1>10. CASE k # Len(buffers)
  <2>1. k < Len(buffers) /\ k + 1 \in 1..Len(buffers) /\ k \in Nat
    BY <1>0, <1>10
  <2>2. buffers' # <<>> /\ 1 \in 1..Len(buffers') /\ Len(buffers') \in 1..Len(buffers')
        /\ Len(buffers') + k = Len(buffers)
    BY <1>0, <1>4, <2>1
  <2>3. First(1)' = First(1 + k) /\ buffers'[1] = buffers[1 + k] /\ 1 + k = k + 1
    BY <1>4, <2>1, <2>2
  <2>4. Before[k + 1] = After(k + 1) - First(1)
    <3>1. k + 1 \in 0..Len(buffers) /\ k + 1 # 0
      BY <2>1
    <3> QED
      BY <3>1, BeforeIs
  <2>5. After(k + 1) = First(k + 1) + Len(buffers[k + 1]) /\ First(k + 1) \in Nat
        /\ Len(buffers[k + 1]) \in Nat
    BY <2>1, RunTypes
  <2>6. frontOffset + count < Before[k + 1]
    BY <1>2, <2>1 DEF EndsAfter
  <2>7. frontOffset' < Len(buffers'[1])
    <3>1. Before[k + 1] = Before[k] + Len(buffers[k + 1])
      BY <1>6, <1>7, <2>1, <2>4, <2>5
    <3>2. frontOffset' < Len(buffers[k + 1])
      BY <1>0, <1>2, <1>7, <2>5, <2>6, <3>1
    <3> QED
      BY <2>3, <3>2
  <2>8. First(1)' = Len(wire') - frontOffset' + 1
    <3>1. First(1)' = First(1) + Before[k]
      BY <1>7, <2>1, <2>3
    <3>2. First(1)' = Len(wire) - frontOffset + 1 + Before[k]
      BY <1>6, <3>1
    <3>3. Len(wire') - frontOffset' + 1 = Len(wire) - frontOffset + 1 + Before[k]
      <4>1. Before[k] \in Nat
        BY <1>7
      <4>2. Len(wire') = Len(wire) + count
        BY <1>3
      <4> QED
        BY <1>0, <1>2, <4>1, <4>2
    <3> QED
      BY <3>2, <3>3
  <2>9. After(Len(buffers))' = written' + 1
    <3>1. PICK l \in Nat : l = Len(buffers')
      <4>1. Len(buffers') \in Nat
        BY <1>0, <2>1, <2>2
      <4> QED
        BY <4>1
    <3>2. After(l)' = After(l + k) /\ l + k = Len(buffers)
      BY <1>4, <2>2, <3>1
    <3>3. After(Len(buffers))' = After(l)'
      BY <3>1 DEF After
    <3> QED
      BY <1>1, <1>6, <3>2, <3>3
  <2> QED
    BY <1>0, <1>1, <1>3, <1>4, <1>5, <1>8, <2>2, <2>7, <2>8, <2>9 DEF Stream
<1> QED
  BY <1>9, <1>10

-----------------------------------------------------------------------------
(* Where the session waits *)

\* The steps of the session that leave the queue alone.
QuietSteps ==
    \/ FlushReturns \/ WouldBlock \/ SendFails \/ WaitEnds
    \/ LoopTop \/ TickDone \/ Poll \/ Polled
    \/ ReadPiece \/ ReadFails \/ Handled \/ SessionReturns
    \/ (\E count \in 1..SendBuffer : PeerReads(count))
    \/ PeerSends \/ PeerCloses \/ Stop \/ Expire

LEMMA QuietKeeps == QuietSteps => UNCHANGED <<queue, written, wire>>
BY DEF QuietSteps, FlushReturns, WouldBlock, SendFails, WaitEnds, LoopTop, TickDone, Poll, Polled,
   ReadPiece, ReadFails, Handled, SessionReturns, PeerReads, PeerSends, PeerCloses, Stop, Expire

LEMMA NextSplits ==
    Next <=> \/ \E size \in FrameSizes : Write(size)
             \/ \E count \in 1..SendBuffer : Send(count)
             \/ QuietSteps
BY DEF Next, Session, QuietSteps

LEMMA WaitingStep == Waiting /\ Control /\ [Next]_vars => Waiting'
<1> SUFFICES ASSUME Waiting, Control, [Next]_vars PROVE Waiting'
  OBVIOUS
<1>1. ASSUME NEW size \in FrameSizes, Write(size) PROVE Waiting'
  <2>1. at \in {"tick", "handle"} /\ end = "running"
    BY <1>1 DEF Write, Control
  <2>2. CASE End("overflow") /\ UNCHANGED queue
    BY <2>1, <2>2 DEF End, Waiting, queue
  <2>3. CASE CallFlush(FALSE, at)
    BY <2>1, <2>3 DEF CallFlush, Waiting
  <2> QED
    BY <1>1, <2>2, <2>3 DEF Write
<1>2. ASSUME NEW count \in 1..SendBuffer, Send(count) PROVE Waiting'
  BY <1>2 DEF Send, Waiting, flow
<1>3. CASE FlushReturns
  BY <1>3 DEF FlushReturns, Waiting, Control, Goto, queue
<1>4. CASE WouldBlock
  BY <1>4 DEF WouldBlock, Waiting, Control, Goto, queue
<1>5. CASE SendFails \/ WaitEnds
  BY <1>5 DEF SendFails, WaitEnds, Waiting, Goto, End, queue
<1>6. CASE LoopTop \/ TickDone \/ Polled
  BY <1>6 DEF LoopTop, TickDone, Polled, Waiting, Goto, CallFlush, End, queue
<1>7. CASE Poll
  BY <1>7 DEF Poll, Waiting, Goto, CallFlush, queue
<1>8. CASE ReadPiece \/ ReadFails
  BY <1>8 DEF ReadPiece, ReadFails, Waiting, Goto, CallFlush, End, queue
<1>9. CASE Handled \/ SessionReturns
  BY <1>9 DEF Handled, SessionReturns, Waiting, Goto, End, queue
<1>10. CASE \/ \E count \in 1..SendBuffer : PeerReads(count)
            \/ PeerSends \/ PeerCloses \/ Stop \/ Expire
  BY <1>10 DEF PeerReads, PeerSends, PeerCloses, Stop, Expire, Waiting, flow, queue
<1>11. CASE UNCHANGED vars
  BY <1>11 DEF vars, queue, flow, Waiting
<1> QED
  BY <1>1, <1>2, <1>3, <1>4, <1>5, <1>6, <1>7, <1>8, <1>9, <1>10, <1>11 DEF Next, Session

LEMMA ControlInit == Init => Control /\ written <= MaxWritten
<1> SUFFICES ASSUME Init PROVE Control /\ written <= MaxWritten
  OBVIOUS
<1>1. SendBuffer \in Nat /\ MaxPieces \in Nat /\ PacketPieces \in Nat \ {0} /\ MaxWritten \in Nat
  BY OutputAssumption
<1>2. /\ kernel \in 0..SendBuffer /\ arrived \in 0..MaxPieces /\ inbound \in 0..arrived
      /\ got \in 0..(PacketPieces - 1) /\ written <= MaxWritten
  BY <1>1 DEF Init
<1>3. {peerClosed, stopping, expired, wait} \subseteq BOOLEAN /\ revents \subseteq {"read", "write"}
  BY DEF Init
<1>4. at \in Points /\ end \in Ends /\ (at = "ended" <=> end # "running")
  BY DEF Init, Points, Ends
<1> QED
  BY <1>2, <1>3, <1>4 DEF Control

LEMMA ControlStep == Control /\ Waiting /\ [Next]_vars => Control'
<1> SUFFICES ASSUME Control, Waiting, [Next]_vars PROVE Control'
  OBVIOUS
<1>0. SendBuffer \in Nat \ {0} /\ MaxPieces \in Nat /\ PacketPieces \in Nat \ {0}
  BY OutputAssumption
<1>1. ASSUME NEW size \in FrameSizes, Write(size) PROVE Control'
  BY <1>1 DEF Write, Control, CallFlush, End, peer, Points, Ends
<1>2. ASSUME NEW count \in 1..SendBuffer, Send(count) PROVE Control'
  BY <1>0, <1>2 DEF Send, Control, flow
<1>3. CASE FlushReturns
  BY <1>3 DEF FlushReturns, Control, Waiting, Goto, peer, Points
<1>4. CASE WouldBlock
  BY <1>4 DEF WouldBlock, Control, Waiting, Goto, peer, Points
<1>5. CASE SendFails \/ WaitEnds
  BY <1>5 DEF SendFails, WaitEnds, Control, Goto, End, peer, Points, Ends
<1>6. CASE LoopTop \/ TickDone \/ Polled
  BY <1>6 DEF LoopTop, TickDone, Polled, Control, Goto, CallFlush, End, peer, Points, Ends
<1>7. CASE Poll
  <2>1. revents' \subseteq {"read", "write"}
    BY <1>7 DEF Poll
  <2> QED
    BY <1>7, <2>1 DEF Poll, Control, Goto, CallFlush, peer, Points
<1>8. CASE ReadPiece
  <2>1. got' \in 0..(PacketPieces - 1)
    <3>1. got \in 0..(PacketPieces - 1)
      BY DEF Control
    <3>2. CASE got + 1 = PacketPieces
      BY <1>0, <1>8, <3>2 DEF ReadPiece
    <3>3. CASE got + 1 # PacketPieces
      <4>1. got' = got + 1
        BY <1>8, <3>3 DEF ReadPiece
      <4> QED
        BY <1>0, <3>1, <3>3, <4>1
    <3> QED
      BY <3>2, <3>3
  <2>2. inbound' \in 0..arrived
    BY <1>0, <1>8 DEF ReadPiece, Control
  <2> QED
    BY <1>8, <2>1, <2>2 DEF ReadPiece, Control, Goto, CallFlush, Points
<1>9. CASE ReadFails \/ Handled \/ SessionReturns
  BY <1>9 DEF ReadFails, Handled, SessionReturns, Control, Goto, End, peer, Points, Ends
<1>10. ASSUME NEW count \in 1..SendBuffer, PeerReads(count) PROVE Control'
  BY <1>0, <1>10 DEF PeerReads, Control, flow
<1>11. CASE PeerSends
  BY <1>0, <1>11 DEF PeerSends, Control, flow
<1>12. CASE PeerCloses \/ Stop \/ Expire
  BY <1>12 DEF PeerCloses, Stop, Expire, Control, flow, peer
<1>13. CASE UNCHANGED vars
  BY <1>13 DEF vars, flow, peer, Control
<1> QED
  BY <1>1, <1>2, <1>3, <1>4, <1>5, <1>6, <1>7, <1>8, <1>9, <1>10, <1>11, <1>12,
     <1>13 DEF Next, Session

LEMMA WrittenStep == written <= MaxWritten /\ [Next]_vars => written' <= MaxWritten
<1> SUFFICES ASSUME written <= MaxWritten, [Next]_vars PROVE written' <= MaxWritten
  OBVIOUS
<1>1. ASSUME NEW size \in FrameSizes, Write(size) PROVE written' <= MaxWritten
  BY <1>1 DEF Write
<1>2. ASSUME NEW count \in 1..SendBuffer, Send(count) PROVE written' <= MaxWritten
  BY <1>2 DEF Send
<1> QED
  BY <1>1, <1>2, QuietKeeps, NextSplits DEF vars

-----------------------------------------------------------------------------
(* The invariant, and what follows from it *)

LEMMA Initially == Init => QInv
BY QueueInit, ControlInit DEF QInv, Init, Waiting

LEMMA Inductive == QInv /\ [Next]_vars => QInv'
<1> SUFFICES ASSUME QInv, [Next]_vars PROVE Runs' /\ Stream' /\ Counted'
  BY WaitingStep, ControlStep, WrittenStep DEF QInv
<1>0. Runs /\ Stream /\ Counted
  BY DEF QInv
<1>1. ASSUME NEW size \in FrameSizes, Write(size) PROVE Runs' /\ Stream' /\ Counted'
  BY <1>0, <1>1, WriteQueue
<1>2. ASSUME NEW count \in 1..SendBuffer, Send(count) PROVE Runs' /\ Stream' /\ Counted'
  BY <1>0, <1>2, SendQueue
<1>3. CASE QuietSteps
  BY <1>0, <1>3, QuietKeeps, SameQueue
<1>4. CASE UNCHANGED vars
  BY <1>0, <1>4, SameQueue DEF vars, queue
<1> QED
  BY <1>1, <1>2, <1>3, <1>4, NextSplits

LEMMA Invariant == Spec => []QInv
<1>1. Init => QInv
  BY Initially
<1>2. QInv /\ [Next]_vars => QInv'
  BY Inductive
<1> QED
  BY <1>1, <1>2, PTL DEF Spec

\* The types of the queue and of the session around it, for every size of the
\* buffers and limits.
THEOREM OutputTypeCorrect == Spec => []TypeOK
<1>1. QInv => TypeOK
  <2> SUFFICES ASSUME QInv PROVE TypeOK
    OBVIOUS
  <2>0. Runs /\ Stream /\ Counted /\ Waiting /\ Control
        /\ written \in 0..MaxWritten /\ MaxPending \in Nat /\ MaxWritten \in Nat
    BY OutputAssumption DEF QInv, Stream
  <2>1. Len(buffers) \in Nat /\ Len(wire) \in Nat /\ frontOffset \in Nat
    BY <2>0, RunTypes DEF Stream
  <2>2. written - Len(wire) \in Nat /\ Len(wire) \in 0..MaxWritten
    <3>1. CASE buffers = <<>>
      BY <2>0, <2>1, <3>1 DEF Stream
    <3>2. CASE buffers # <<>>
      <4>1. Len(buffers) \in 1..Len(buffers)
        BY <2>0, <2>1, <3>2 DEF Runs
      <4>2. written - Len(wire) \in Nat
        BY <2>0, <4>1, UnsentIs
      <4> QED
        BY <2>0, <2>1, <4>2
    <3> QED
      BY <3>1, <3>2
  <2>3. pendingBytes \in 0..MaxPending
    BY <2>0, <2>2 DEF Counted
  <2>4. wire \in Seq(1..MaxWritten)
    <3>1. \A i \in 1..Len(wire) : wire[i] \in 1..MaxWritten
      BY <2>0, <2>1, <2>2 DEF Stream
    <3>2. wire \in Seq(Nat)
      BY <2>0 DEF Stream
    <3> QED
      BY <3>1, <3>2, SeqOf
  <2>5. ASSUME NEW n \in 1..Len(buffers) PROVE buffers[n] \in Seq(1..MaxWritten)
    <3>1. /\ buffers # <<>> /\ Len(buffers) \in 1..Len(buffers) /\ 1 \in 1..Len(buffers)
          /\ buffers[n] \in Seq(Nat)
      BY <2>0, <2>1 DEF Runs
    <3>2. First(1) = Len(wire) - frontOffset + 1 /\ After(Len(buffers)) = written + 1
          /\ First(1) \in Nat /\ First(1) <= First(n) /\ After(n) <= After(Len(buffers))
          /\ First(n) \in Nat /\ After(n) = First(n) + Len(buffers[n]) /\ Len(buffers[n]) \in Nat
          /\ After(n) \in Nat
      BY <2>0, <3>1, RunTypes DEF Stream
    <3>3. frontOffset <= Len(wire)
      BY <2>0 DEF Stream
    <3>4. First(n) >= 1 /\ First(n) + Len(buffers[n]) <= written + 1
      BY <2>0, <2>1, <3>2, <3>3
    <3>5. ASSUME NEW i \in 1..Len(buffers[n]) PROVE buffers[n][i] \in 1..MaxWritten
      <4>1. buffers[n][i] = First(n) + i - 1
        BY <2>0 DEF Runs
      <4> QED
        BY <2>0, <3>2, <3>4, <4>1
    <3> QED
      BY <3>1, <3>5, SeqOf
  <2>6. buffers \in Seq(Seq(1..MaxWritten))
    <3>1. buffers \in Seq(Seq(Nat))
      BY <2>0 DEF Runs
    <3> QED
      BY <2>5, <3>1, SeqOf
  <2>7. /\ frontOffset \in 0..MaxWritten
        /\ frontOffset > 0 => buffers # <<>> /\ frontOffset < Len(buffers[1])
    BY <2>0, <2>1, <2>2 DEF Stream
  <2>8. arrived \in 0..MaxPieces /\ inbound \in 0..MaxPieces
    BY <2>0, OutputAssumption DEF Control
  <2>9. back \in Points
    BY <2>0 DEF Waiting, Points
  <2> QED
    BY <2>0, <2>3, <2>4, <2>6, <2>7, <2>8, <2>9 DEF TypeOK, Control
<1> QED
  BY <1>1, Invariant, PTL

\* However the kernel splits what it takes, across buffers or inside one, no
\* byte of the stream is lost, repeated or sent out of order, and
\* pending_bytes_ is the number of bytes not sent.
THEOREM QueueExactCorrect == Spec => []QueueExact
<1>1. QInv => QueueExact
  BY ExactFollows DEF QInv
<1> QED
  BY <1>1, Invariant, PTL

\* A session that returns to its worker has given everything it wrote to the
\* kernel.
THEOREM ReturnDeliversCorrect == Spec => []ReturnDelivers
<1>1. QInv => ReturnDelivers
  BY DEF QInv, Waiting, Stream, ReturnDelivers
<1> QED
  BY <1>1, Invariant, PTL

\* No byte of a peer's next packet is taken while output is queued.
THEOREM InputWaitsCorrect == Spec => InputWaitsForOutput
<1>1. QInv /\ [Next]_vars => [inbound' < inbound => buffers = <<>>]_vars
  <2> SUFFICES ASSUME QInv, [Next]_vars, ~(UNCHANGED inbound), ~(inbound' = inbound + 1)
               PROVE  buffers = <<>>
    BY DEF QInv, Control
  <2>1. ReadPiece
    BY DEF Next, Session, Write, Send, FlushReturns, WouldBlock, SendFails, WaitEnds, LoopTop,
       TickDone, Poll, Polled, ReadFails, Handled, SessionReturns, PeerReads, PeerSends,
       PeerCloses, Stop, Expire, peer, vars
  <2> QED
    BY <2>1 DEF QInv, Waiting, ReadPiece
<1> QED
  BY <1>1, Invariant, PTL DEF Spec, InputWaitsForOutput
=============================================================================
