---------------------------- MODULE OutputQueue ----------------------------
(***************************************************************************)
(* One connection's output: OutputQueue (server.cpp) on a non-blocking     *)
(* socket, the packet reader, which empties the queue before it takes a    *)
(* byte, and the Play loop's poll that drives both.  The kernel's send     *)
(* buffer fills until the peer reads.                                      *)
(*                                                                         *)
(* A byte is its position in the stream of everything enqueued, so the     *)
(* order of the bytes on the wire can be told.  A packet of the peer       *)
(* arrives in PacketPieces pieces (its length, its payload).               *)
(***************************************************************************)
EXTENDS Integers, Sequences

CONSTANTS
    FrameSizes,    \* sizes of the frames the handlers write
    MaxPending,    \* max_pending_write_bytes
    MaxScatter,    \* max_scatter_buffers
    SendBuffer,    \* bytes the kernel holds until the peer reads them
    PacketPieces,  \* pieces of a peer's packet
    MaxWritten,    \* bound: bytes enqueued in a behaviour
    MaxPieces      \* bound: pieces the peer sends in a behaviour

ASSUME OutputAssumption ==
    /\ FrameSizes \subseteq Nat \ {0}
    /\ {MaxPending, MaxScatter, SendBuffer, PacketPieces} \subseteq Nat \ {0}
    /\ {MaxWritten, MaxPieces} \subseteq Nat

VARIABLES
    buffers,       \* buffers_
    frontOffset,   \* front_offset_
    pendingBytes,  \* pending_bytes_
    written,       \* bytes enqueued so far
    wire,          \* bytes the kernel has taken, in order
    kernel,        \* of these, the bytes the peer has not read
    inbound,       \* pieces received and not read
    arrived,       \* pieces the peer has sent so far
    peerClosed,    \* the peer has closed its side
    stopping,      \* stopping_
    expired,       \* the keep-alive or idle timer has run out
    got,           \* pieces of the current packet read
    revents,       \* what poll() reported
    at,            \* where the session's thread is
    wait,          \* flush()'s parameter
    back,          \* where flush() returns to
    end            \* how the session ended

vars == <<buffers, frontOffset, pendingBytes, written, wire, kernel, inbound,
          arrived, peerClosed, stopping, expired, got, revents, at, wait, back,
          end>>
queue == <<buffers, frontOffset, pendingBytes>>
peer == <<kernel, inbound, arrived, peerClosed>>
flow == <<at, wait, back, end>>

Points == {"top", "tick", "poll", "polled", "read", "handle", "return",
           "flush", "blocked", "ended"}
Ends == {"running", "returned", "overflow", "send failed", "write timed out",
         "read timed out", "expired", "peer closed", "refused"}

Init ==
    /\ buffers = <<>> /\ frontOffset = 0 /\ pendingBytes = 0
    /\ written = 0 /\ wire = <<>>
    /\ kernel = 0 /\ inbound = 0 /\ arrived = 0 /\ peerClosed = FALSE
    /\ stopping = FALSE /\ expired = FALSE
    /\ got = 0 /\ revents = {}
    /\ at = "top" /\ wait = FALSE /\ back = "top" /\ end = "running"

Goto(p) == at' = p /\ UNCHANGED <<wait, back, end>>
CallFlush(w, p) == at' = "flush" /\ wait' = w /\ back' = p /\ UNCHANGED end
End(reason) == at' = "ended" /\ end' = reason /\ UNCHANGED <<wait, back>>

-----------------------------------------------------------------------------
(* OutputQueue *)

Drop(s, n) == SubSeq(s, n + 1, Len(s))

\* The size of the first n buffers together.
Before[n \in 0..Len(buffers)] ==
    IF n = 0 THEN 0 ELSE Before[n - 1] + Len(buffers[n])

\* The byte at place i of the buffers, one after the other.
Byte(i) ==
    LET n == CHOOSE n \in 1..Len(buffers) : Before[n - 1] < i /\ i <= Before[n]
    IN  buffers[n][i - Before[n - 1]]

\* The bytes after the offset, as far as the first n buffers go.
Unsent(n) == [i \in 1..(Before[n] - frontOffset) |-> Byte(frontOffset + i)]

\* send_scattered: what one sendmsg is offered.
Gathered == Unsent(IF Len(buffers) < MaxScatter THEN Len(buffers) ELSE MaxScatter)

\* count bytes after the offset end in the buffer after the first n.
EndsAfter(n, count) ==
    /\ Before[n] <= frontOffset + count
    /\ n < Len(buffers) => frontOffset + count < Before[n + 1]

\* Mutant: the offset survives the buffer it was in.
MutConsumeKeepsOffset(count) ==
    \E whole \in 0..Len(buffers) :
        /\ EndsAfter(whole, count)
        /\ pendingBytes' = pendingBytes - count
        /\ buffers' = Drop(buffers, whole)
        /\ frontOffset' = IF whole = 0 THEN frontOffset + count ELSE frontOffset

\* consume: whole buffers leave the queue, the rest moves the offset.
Consume(count) ==
    \E whole \in 0..Len(buffers) :
        /\ EndsAfter(whole, count)
        /\ pendingBytes' = pendingBytes - count
        /\ buffers' = Drop(buffers, whole)
        /\ frontOffset' = frontOffset + count - Before[whole]

\* enqueue, then flush(false).
Write(size) ==
    /\ at \in {"tick", "handle"}
    /\ written + size <= MaxWritten
    /\ IF size > MaxPending - pendingBytes
       THEN End("overflow") /\ UNCHANGED <<queue, written>>
       ELSE /\ buffers' = Append(buffers, [i \in 1..size |-> written + i])
            /\ pendingBytes' = pendingBytes + size
            /\ written' = written + size
            /\ CallFlush(FALSE, at)
            /\ UNCHANGED frontOffset
    /\ UNCHANGED <<wire, peer, stopping, expired, got, revents>>

\* sendmsg takes as much as the kernel has room for, or less.
Send(count) ==
    /\ at = "flush" /\ buffers # <<>>
    /\ count <= Len(Gathered) /\ count <= SendBuffer - kernel
    /\ wire' = wire \o SubSeq(Gathered, 1, count)
    /\ kernel' = kernel + count
    /\ Consume(count)
    /\ UNCHANGED <<written, inbound, arrived, peerClosed, stopping, expired,
                   got, revents, flow>>

FlushReturns ==
    /\ at = "flush" /\ buffers = <<>>
    /\ Goto(back)
    /\ UNCHANGED <<queue, written, wire, peer, stopping, expired, got, revents>>

\* EWOULDBLOCK: wait for room, or leave the rest for later.
WouldBlock ==
    /\ at = "flush" /\ buffers # <<>> /\ kernel = SendBuffer
    /\ Goto(IF wait THEN "blocked" ELSE back)
    /\ UNCHANGED <<queue, written, wire, peer, stopping, expired, got, revents>>

\* A peer that has gone resets the connection.
SendFails ==
    /\ at = "flush" /\ buffers # <<>> /\ peerClosed
    /\ End("send failed")
    /\ UNCHANGED <<queue, written, wire, peer, stopping, expired, got, revents>>

\* Mutant: the wait for room has no time limit.
MutWaitEndsNeverTimesOut ==
    /\ at = "blocked"
    /\ \/ kernel < SendBuffer /\ Goto("flush")
       \/ peerClosed /\ End("peer closed")
    /\ UNCHANGED <<queue, written, wire, peer, stopping, expired, got, revents>>

\* wait_for_socket: room, a broken connection, or ten seconds without either.
WaitEnds ==
    /\ at = "blocked"
    /\ \/ kernel < SendBuffer /\ Goto("flush")
       \/ peerClosed /\ End("peer closed")
       \/ kernel = SendBuffer /\ End("write timed out")
    /\ UNCHANGED <<queue, written, wire, peer, stopping, expired, got, revents>>

-----------------------------------------------------------------------------
(* The Play loop *)

\* Mutant: the last flush is missing.
MutLoopTopReturnsAtOnce ==
    /\ at = "top"
    /\ IF stopping THEN Goto("return") ELSE CallFlush(FALSE, "tick")
    /\ UNCHANGED <<queue, written, wire, peer, stopping, expired, got, revents>>

\* while (!stopping_): flush(false); on the way out the worker flushes all.
LoopTop ==
    /\ at = "top"
    /\ IF stopping THEN CallFlush(TRUE, "return") ELSE CallFlush(FALSE, "tick")
    /\ UNCHANGED <<queue, written, wire, peer, stopping, expired, got, revents>>

\* After the game tick's packets, the keep-alive and idle timers.
TickDone ==
    /\ at = "tick"
    /\ IF expired THEN End("expired") ELSE Goto("poll")
    /\ UNCHANGED <<queue, written, wire, peer, stopping, expired, got, revents>>

Readable == inbound > 0 \/ peerClosed

\* Room to write is asked for only when something is queued, and reported
\* when there is enough of it, at the latest when the send buffer is empty.
Writable == IF buffers = <<>> \/ kernel = SendBuffer THEN {FALSE}
            ELSE IF kernel = 0 THEN {TRUE} ELSE BOOLEAN

Poll ==
    /\ at = "poll"
    /\ \E out \in Writable :
          /\ revents' = (IF Readable THEN {"read"} ELSE {})
                            \cup (IF out THEN {"write"} ELSE {})
          /\ \/ revents' = {} /\ Goto("top")
             \/ revents' # {} /\ out /\ CallFlush(FALSE, "polled")
             \/ revents' # {} /\ ~out /\ Goto("polled")
    /\ UNCHANGED <<queue, written, wire, peer, stopping, expired, got>>

\* Mutant: the reader does not flush first.
MutPolledReadsAtOnce ==
    /\ at = "polled"
    /\ \/ "read" \in revents /\ Goto("read")
       \/ "read" \notin revents /\ buffers # <<>> /\ Goto("top")
       \/ "read" \notin revents /\ buffers = <<>> /\ End("peer closed")
    /\ UNCHANGED <<queue, written, wire, peer, stopping, expired, got, revents>>

\* Without the read event the queue decides: something left means the peer is
\* slow, nothing left is taken to mean that it has closed.
Polled ==
    /\ at = "polled"
    /\ \/ "read" \in revents /\ CallFlush(TRUE, "read")
       \/ "read" \notin revents /\ buffers # <<>> /\ Goto("top")
       \/ "read" \notin revents /\ buffers = <<>> /\ End("peer closed")
    /\ UNCHANGED <<queue, written, wire, peer, stopping, expired, got, revents>>

\* read_compressed_packet: every receive is preceded by flush(true).
ReadPiece ==
    /\ at = "read" /\ inbound > 0
    /\ inbound' = inbound - 1
    /\ IF got + 1 = PacketPieces
       THEN got' = 0 /\ Goto("handle")
       ELSE got' = got + 1 /\ CallFlush(TRUE, "read")
    /\ UNCHANGED <<queue, written, wire, kernel, arrived, peerClosed, stopping,
                   expired, revents>>

\* End of file, or ten seconds without a byte inside a packet.
ReadFails ==
    /\ at = "read" /\ inbound = 0
    /\ End(IF peerClosed THEN "peer closed" ELSE "read timed out")
    /\ UNCHANGED <<queue, written, wire, peer, stopping, expired, got, revents>>

\* The handler, after the packets it writes: the packet may renew the idle
\* timer, and a malformed one ends the session.
Handled ==
    /\ at = "handle"
    /\ \/ Goto("top") /\ expired' \in {expired, FALSE}
       \/ End("refused") /\ UNCHANGED expired
    /\ UNCHANGED <<queue, written, wire, peer, stopping, got, revents>>

SessionReturns ==
    /\ at = "return"
    /\ End("returned")
    /\ UNCHANGED <<queue, written, wire, peer, stopping, expired, got, revents>>

-----------------------------------------------------------------------------
(* The peer, the clock, the operator *)

PeerReads(count) ==
    /\ ~peerClosed /\ count <= kernel
    /\ kernel' = kernel - count
    /\ UNCHANGED <<queue, written, wire, inbound, arrived, peerClosed, stopping,
                   expired, got, revents, flow>>

PeerSends ==
    /\ ~peerClosed /\ arrived < MaxPieces /\ at # "ended"
    /\ inbound' = inbound + 1 /\ arrived' = arrived + 1
    /\ UNCHANGED <<queue, written, wire, kernel, peerClosed, stopping, expired,
                   got, revents, flow>>

PeerCloses ==
    /\ ~peerClosed /\ at # "ended"
    /\ peerClosed' = TRUE
    /\ UNCHANGED <<queue, written, wire, kernel, inbound, arrived, stopping,
                   expired, got, revents, flow>>

Stop ==
    /\ ~stopping /\ at # "ended"
    /\ stopping' = TRUE
    /\ UNCHANGED <<queue, written, wire, peer, expired, got, revents, flow>>

Expire ==
    /\ ~expired /\ at # "ended"
    /\ expired' = TRUE
    /\ UNCHANGED <<queue, written, wire, peer, stopping, got, revents, flow>>

Session ==
    \/ \E size \in FrameSizes : Write(size)
    \/ \E count \in 1..SendBuffer : Send(count)
    \/ FlushReturns \/ WouldBlock \/ SendFails \/ WaitEnds
    \/ LoopTop \/ TickDone \/ Poll \/ Polled
    \/ ReadPiece \/ ReadFails \/ Handled \/ SessionReturns

Next ==
    \/ Session
    \/ \E count \in 1..SendBuffer : PeerReads(count)
    \/ PeerSends \/ PeerCloses \/ Stop \/ Expire

\* The thread runs and the timers run out; the peer and the operator need do
\* nothing.
Spec == Init /\ [][Next]_vars /\ WF_vars(Session) /\ WF_vars(Expire)

-----------------------------------------------------------------------------
(* Properties *)

TypeOK ==
    /\ buffers \in Seq(Seq(1..MaxWritten))
    /\ frontOffset \in 0..MaxWritten
    /\ frontOffset > 0 => buffers # <<>> /\ frontOffset < Len(buffers[1])
    /\ pendingBytes \in 0..MaxPending
    /\ written \in 0..MaxWritten
    /\ wire \in Seq(1..MaxWritten)
    /\ kernel \in 0..SendBuffer
    /\ inbound \in 0..MaxPieces /\ arrived \in 0..MaxPieces
    /\ {peerClosed, stopping, expired, wait} \subseteq BOOLEAN
    /\ got \in 0..(PacketPieces - 1)
    /\ revents \subseteq {"read", "write"}
    /\ at \in Points /\ back \in Points /\ end \in Ends
    /\ at = "ended" <=> end # "running"

\* Partial and scattered sends neither lose, repeat nor reorder a byte: what
\* the kernel has, followed by what is queued, is everything enqueued.  And
\* pending_bytes_, against which enqueue measures the limit, is exactly the
\* bytes queued and not sent, and never above it.
QueueExact ==
    /\ wire \o Unsent(Len(buffers)) = [i \in 1..written |-> i]
    /\ pendingBytes = written - Len(wire)
    /\ pendingBytes <= MaxPending

\* Backpressure: while a peer has not taken the answers to its earlier packets
\* no byte of its next one is taken, so it cannot make the queue grow.
InputWaitsForOutput == [][inbound' < inbound => buffers = <<>>]_vars

\* A session that returns has handed everything it wrote to the kernel.
ReturnDelivers == end = "returned" => Len(wire) = written

\* Whatever the peer does or does not do, queued output is sent in the end or
\* the session ends: no peer holds a queue, or a worker, for ever.
QueueDrains == buffers # <<>> ~> (buffers = <<>> \/ at = "ended")

\* The session says that the peer closed only if it did: "peer closed during
\* Play" (server.cpp:2233).
ClosedByPeer == end = "peer closed" => peerClosed
=============================================================================
