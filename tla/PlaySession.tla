---------------------------- MODULE PlaySession ----------------------------
(***************************************************************************)
(* The Play loop's agreement with its client (server.cpp, handle_login):   *)
(* teleports and their acknowledgements, keep-alives, movement and the     *)
(* window of chunks that follows it, death and respawn.  Each direction is *)
(* a FIFO stream with messages in flight.  The client answers every        *)
(* teleport and keep-alive as soon as it has it, and only steps from a     *)
(* place to one near it.                                                   *)
(*                                                                         *)
(* Time passes only when no message is in flight: the round trip is short  *)
(* beside the timers.  Riding, game modes and the idle timer are left out. *)
(***************************************************************************)
EXTENDS Integers, Sequences, SequencesExt

CONSTANTS
    Places,            \* where a player can stand
    Home,              \* initial_player_position, in the chunk (0, 0)
    Near,              \* pairs of places within 64 blocks of each other
    Window,            \* the chunks of the 5x5 window around each place
    TeleportTimeout,   \* ticks of the clock: 10 seconds
    KeepAliveInterval, \* keep_alive_interval, less than the timeout
    KeepAliveTimeout,  \* keep_alive_timeout
    MaxTeleports,      \* bound: teleport ids
    MaxKeepAlives,     \* bound: keep-alives sent
    MaxFlight          \* bound: messages in flight when the client sends

VARIABLES
    position,     \* player_position
    center,       \* player_center, as the place it was computed from
    streamed,     \* streamed_center
    chunks,       \* loaded_chunks
    nextId,       \* next_teleport_id
    pending,      \* pending_teleport, 0 for none
    confirmed,    \* teleport_confirmed
    dead,         \* player_dead
    keepSent,     \* keep-alives sent so far
    keepPending,  \* pending_keep_alive, 0 for none
    teleportAge,  \* since teleport_sent_at
    keepAge,      \* since last_keep_alive
    end,          \* why the session has ended
    client,       \* the client: its place, its chunks, whether it knows it died
    toClient, toServer

\* What the constructor of MinecraftServer asks of the timers, and a place for Home.
PlayConstants ==
    /\ Home \in Places
    /\ KeepAliveInterval \in Nat /\ KeepAliveTimeout \in Nat
    /\ KeepAliveTimeout > KeepAliveInterval

vars == <<position, center, streamed, chunks, nextId, pending, confirmed, dead,
          keepSent, keepPending, teleportAge, keepAge, end, client, toClient,
          toServer>>
where == <<position, center, streamed, chunks>>
teleports == <<nextId, pending, confirmed, teleportAge>>
keepAlive == <<keepSent, keepPending, keepAge>>

\* Messages to the client.
Teleport(id, p) == [kind |-> "teleport", id |-> id, place |-> p]
KeepAlive(id) == [kind |-> "keep_alive", id |-> id]
Batch(drop, add) == [kind |-> "batch", drop |-> drop, add |-> add]
Died == [kind |-> "died"]
Respawned == [kind |-> "respawned"]

\* Messages to the server.
Accept(id) == [kind |-> "accept_teleportation", id |-> id]
Move(p) == [kind |-> "move_player_pos", place |-> p]
TpCommand(p) == [kind |-> "tp", place |-> p]
KillCommand == [kind |-> "kill"]
Respawn == [kind |-> "perform_respawn"]

\* initial_player_position and the first teleport have been sent.
Init ==
    /\ position = Home /\ center = Home /\ streamed = Home
    /\ chunks = Window[Home]
    /\ nextId = 1 /\ pending = 1 /\ confirmed = FALSE /\ teleportAge = 0
    /\ dead = FALSE
    /\ keepSent = 0 /\ keepPending = 0 /\ keepAge = 0
    /\ end = "running"
    /\ client = [place |-> Home, chunks |-> {}, dead |-> FALSE]
    /\ toClient = <<Teleport(1, Home), Batch({}, Window[Home])>>
    /\ toServer = <<>>

End(reason) ==
    /\ end' = reason
    /\ UNCHANGED <<where, teleports, dead, keepAlive, client, toClient>>

-----------------------------------------------------------------------------
(* What the handlers are made of *)

\* stream_chunk_window: the chunks that leave the window are forgotten, those
\* that enter it are sent.
Stream(p) ==
    /\ streamed' = p
    /\ chunks' = Window[p]

\* Mutant: nothing is forgotten.
MutStreaming(p) == <<Batch({}, Window[p] \ chunks)>>

\* The packets of it.
Streaming(p) == <<Batch(chunks \ Window[p], Window[p] \ chunks)>>

\* What tp, respawn and a correction do last.
SendTeleport ==
    /\ nextId < MaxTeleports
    /\ nextId' = nextId + 1 /\ pending' = nextId + 1
    /\ confirmed' = FALSE /\ teleportAge' = 0

\* Put the player at p, stream the window there, and announce it.
Place(p, before) ==
    /\ SendTeleport
    /\ position' = p /\ center' = p
    /\ IF streamed # p THEN Stream(p) ELSE UNCHANGED <<streamed, chunks>>
    /\ toClient' = toClient \o before
                   \o (IF streamed # p THEN Streaming(p) ELSE <<>>)
                   \o <<Teleport(nextId + 1, p)>>

\* kill_player, and the health of zero that follows.
Kill ==
    /\ dead' = TRUE
    /\ toClient' = Append(toClient, Died)

-----------------------------------------------------------------------------
(* One packet of the client *)

Receive(kind) ==
    /\ end = "running"
    /\ toServer # <<>> /\ Head(toServer).kind = kind
    /\ toServer' = Tail(toServer)

\* The filter before the dispatch: a dead player's packets are dropped, apart
\* from client commands, keep-alives and two that change nothing.
DropFromDead ==
    /\ dead
    /\ \E kind \in {"accept_teleportation", "move_player_pos", "tp", "kill"} :
          Receive(kind)
    /\ UNCHANGED <<where, teleports, dead, keepAlive, end, client, toClient>>

HandleAccept ==
    /\ ~dead /\ Receive("accept_teleportation")
    /\ IF Head(toServer).id # pending
       THEN End("acknowledgement mismatch")
       ELSE /\ pending' = 0 /\ confirmed' = TRUE
            /\ IF center # streamed
               THEN Stream(center) /\ toClient' = toClient \o Streaming(center)
               ELSE UNCHANGED <<streamed, chunks, toClient>>
            /\ UNCHANGED <<position, center, nextId, teleportAge, dead,
                           keepAlive, end, client>>

\* A move out of reach is corrected; any other is taken, acknowledged teleport
\* or not, and the window follows once the teleport has been acknowledged.
HandleMove ==
    /\ ~dead /\ Receive("move_player_pos")
    /\ LET p == Head(toServer).place IN
       IF <<position, p>> \notin Near
       THEN /\ SendTeleport
            /\ toClient' = Append(toClient, Teleport(nextId + 1, position))
            /\ UNCHANGED where
       ELSE /\ position' = p /\ center' = p
            /\ IF confirmed /\ p # streamed
               THEN Stream(p) /\ toClient' = toClient \o Streaming(p)
               ELSE UNCHANGED <<streamed, chunks, toClient>>
            /\ UNCHANGED teleports
    /\ UNCHANGED <<dead, keepAlive, end, client>>

HandleTp ==
    /\ ~dead /\ Receive("tp")
    /\ Place(Head(toServer).place, <<>>)
    /\ UNCHANGED <<dead, keepAlive, end, client>>

HandleKill ==
    /\ ~dead /\ Receive("kill")
    /\ Kill
    /\ UNCHANGED <<where, teleports, keepAlive, end, client>>

HandleRespawn ==
    /\ Receive("perform_respawn")
    /\ IF dead
       THEN dead' = FALSE /\ Place(Home, <<Respawned>>)
       ELSE UNCHANGED <<where, teleports, dead, toClient>>
    /\ UNCHANGED <<keepAlive, end, client>>

HandleKeepAlive ==
    /\ Receive("keep_alive")
    /\ IF Head(toServer).id # keepPending
       THEN End("keep-alive mismatch")
       ELSE /\ keepPending' = 0
            /\ UNCHANGED <<where, teleports, dead, keepSent, keepAge, end,
                           client, toClient>>

-----------------------------------------------------------------------------
(* The loop without a packet *)

\* A game tick hurts the player, which it does only when the teleport has been
\* acknowledged.
Hurt ==
    /\ end = "running" /\ confirmed /\ ~dead
    /\ Kill
    /\ UNCHANGED <<where, teleports, keepAlive, end, client, toServer>>

\* Five seconds pass, and the loop looks at its timers.
Tick ==
    /\ end = "running" /\ toClient = <<>> /\ toServer = <<>>
    /\ keepSent < MaxKeepAlives
    /\ teleportAge' = IF confirmed THEN teleportAge ELSE teleportAge + 1
    /\ LET due == keepPending = 0 /\ keepAge + 1 >= KeepAliveInterval IN
       /\ keepAge' = IF due THEN 0 ELSE keepAge + 1
       /\ IF due
          THEN /\ keepSent' = keepSent + 1 /\ keepPending' = keepSent + 1
               /\ toClient' = Append(toClient, KeepAlive(keepSent + 1))
          ELSE UNCHANGED <<keepSent, keepPending, toClient>>
       /\ end' = IF keepPending' # 0 /\ keepAge' >= KeepAliveTimeout
                 THEN "keep-alive timed out"
                 ELSE IF ~confirmed /\ teleportAge' >= TeleportTimeout
                      THEN "acknowledgement timed out"
                      ELSE "running"
    /\ UNCHANGED <<where, nextId, pending, confirmed, dead, client, toServer>>

-----------------------------------------------------------------------------
(* The client *)

Answer(answers, c) ==
    /\ toClient' = Tail(toClient)
    /\ toServer' = toServer \o answers
    /\ client' = c
    /\ UNCHANGED <<where, teleports, dead, keepAlive, end>>

\* It is where a teleport puts it, acknowledges it and reports the place.
ClientReceives ==
    /\ end = "running" /\ toClient # <<>>
    /\ LET m == Head(toClient) IN
       \/ /\ m.kind = "teleport"
          /\ Answer(<<Accept(m.id), Move(m.place)>>, [client EXCEPT !.place = m.place])
       \/ m.kind = "keep_alive" /\ Answer(<<[kind |-> "keep_alive", id |-> m.id]>>, client)
       \/ /\ m.kind = "batch"
          /\ Answer(<<>>, [client EXCEPT !.chunks = (@ \ m.drop) \cup m.add])
       \/ m.kind = "died" /\ Answer(<<>>, [client EXCEPT !.dead = TRUE])
       \/ m.kind = "respawned" /\ Answer(<<>>, [client EXCEPT !.dead = FALSE])

Send(m) ==
    /\ end = "running" /\ Len(toServer) + Len(toClient) < MaxFlight
    /\ toServer' = Append(toServer, m)
    /\ UNCHANGED <<where, teleports, dead, keepAlive, end, toClient>>

ClientMoves(p) ==
    /\ ~client.dead /\ <<client.place, p>> \in Near /\ p # client.place
    /\ Send(Move(p))
    /\ client' = [client EXCEPT !.place = p]

\* Teleport commands and, when it knows that it is dead, a respawn.
ClientAsks ==
    /\ \/ \E p \in Places : ~client.dead /\ Send(TpCommand(p))
       \/ ~client.dead /\ Send(KillCommand)
       \/ client.dead /\ Send(Respawn)
    /\ UNCHANGED client

Next ==
    \/ DropFromDead \/ HandleAccept \/ HandleMove \/ HandleTp \/ HandleKill
    \/ HandleRespawn \/ HandleKeepAlive \/ Hurt \/ Tick
    \/ ClientReceives \/ ClientAsks
    \/ \E p \in Places : ClientMoves(p)

Spec == Init /\ [][Next]_vars

-----------------------------------------------------------------------------
(* Properties *)

Kinds(s) == {s[i].kind : i \in 1..Len(s)}

TypeOK ==
    /\ {position, center, streamed} \subseteq Places
    /\ chunks = Window[streamed]
    /\ nextId \in 1..MaxTeleports
    /\ pending \in {0, nextId} /\ (confirmed <=> pending = 0)
    /\ teleportAge \in 0..TeleportTimeout
    /\ dead \in BOOLEAN
    /\ keepSent \in 0..MaxKeepAlives /\ keepPending \in {0, keepSent}
    /\ keepAge \in 0..KeepAliveTimeout
    /\ client.place \in Places /\ client.dead \in BOOLEAN

\* A session whose client answers every keep-alive is not ended for one, dead
\* or alive, in the middle of teleports or not.
KeepAliveNeverFails == end \notin {"keep-alive mismatch", "keep-alive timed out"}

\* The world runs for a player only where the client has put itself: once a
\* teleport counts as acknowledged, none is on its way to the client and no
\* acknowledgement is on its way back.
ConfirmedMeansApplied ==
    confirmed => /\ "teleport" \notin Kinds(toClient)
                 /\ "accept_teleportation" \notin Kinds(toServer)

\* When nothing is in flight, server and client agree on where the living
\* player is and on the chunks the client has, and these are the chunks around
\* the player: moves sent before a teleport leave no trace behind it.
Agreement ==
    end = "running" /\ confirmed /\ ~dead /\ toClient = <<>> /\ toServer = <<>> =>
        /\ client.place = position
        /\ client.chunks = chunks
        /\ client.chunks = Window[client.place]

\* "Other legal Play traffic may arrive before teleport acknowledgement; the
\* acknowledgement is enforced by a 10-second deadline rather than packet
\* ordering" (docs/PROTOCOL_26_2.md:148): a client that answers every teleport
\* in order and at once is not disconnected for it.
HonestClientStays ==
    end \notin {"acknowledgement mismatch", "acknowledgement timed out"}
=============================================================================
