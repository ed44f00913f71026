--------------------------- MODULE LoginSequence ---------------------------
(***************************************************************************)
(* One connection from its handshake to Play: handle_connection,           *)
(* handle_status and handle_login, which read one packet after another     *)
(* from one worker thread, the codecs of the packets they exchange, the    *)
(* session server they ask, and the client.  A byte stream is a sequence   *)
(* of frames; a frame carries the framing it was written with, the set of  *)
(* transformations ("cipher", "compressed") its writer had switched on,    *)
(* because a frame read with another framing is noise.  The lease of the   *)
(* player's name is Admission's; here it may or may not be free.           *)
(***************************************************************************)
EXTENDS Integers, Sequences

CONSTANTS
  KnownPackPackets,   \* packets handle_login reads for the known packs; the code has 16
  PackResponses,      \* ... for a required resource pack; the code has 16
  FinishPackets,      \* ... for the end of the configuration; the code has 32
  Configs             \* the server configurations to start from

VARIABLES
  config,     \* the server's Config and the connection's intention
  at,         \* the read handle_login is blocked in
  count,      \* packets read by the loop at is in
  framing,    \* transformations the server reads and writes with
  core,       \* core_pack_accepted
  why,        \* why the connection was closed
  toServer,   \* frames on their way to the server
  toClient,   \* frames on their way to the client
  client      \* the client: what it is, has been told and has done

vars == <<config, at, count, framing, core, why, toServer, toClient, client>>

\* The configurations of a server for one connection, and what the limits have in common
\* with the code's: each leaves room for what a client sends of its own accord.
ServerConfigs ==
  [intention : {"status", "login", "transfer"}, rate_limited : BOOLEAN, online : BOOLEAN,
   encrypted_offline : BOOLEAN, query : BOOLEAN, require_query : BOOLEAN, pack : BOOLEAN,
   require_pack : BOOLEAN]

LoginConstants ==
  /\ KnownPackPackets \in Nat /\ KnownPackPackets > 2
  /\ PackResponses \in Nat /\ PackResponses > 2
  /\ FinishPackets \in Nat /\ FinishPackets > 3
  /\ Configs \subseteq ServerConfigs

Reading == {"handshake", "status", "ping", "hello", "cookie", "key", "answer",
            "acknowledged", "packs", "response", "finish"}

\* What the constructor of Impl accepts.
ConfigAccepted(c) ==
  /\ ~(c.online /\ c.encrypted_offline)
  /\ c.require_query => c.query
  /\ c.require_pack => c.pack

\* A brand that arrives before the known packs is refused.
MutAncillary == {"client_information", "cookie_response", "resource_pack"}

\* Packets that may arrive at any time in Configuration without effect.
Ancillary == {"client_information", "custom_payload", "cookie_response", "resource_pack",
              "accept_code_of_conduct", "custom_click_action"}

\* No argument, no choice and no reason.
Nothing == "nothing"

Packet(kind, arg) == [kind |-> kind, arg |-> arg]
Frame(p, f) == [kind |-> p.kind, arg |-> p.arg, framing |-> f]
Framed(ps, f) == [i \in DOMAIN ps |-> Frame(ps[i], f)]

Init ==
  /\ config \in {c \in Configs : ConfigAccepted(c)}
  /\ at = "handshake" /\ count = 0 /\ framing = {} /\ core = FALSE /\ why = Nothing
  /\ toServer = <<>> /\ toClient = <<>>
  /\ \E genuine \in {TRUE, ~config.online} :
       client = [open |-> TRUE, honest |-> TRUE, genuine |-> genuine, in |-> "start",
                 framing |-> {}, selected |-> Nothing, registries |-> Nothing, pushed |-> FALSE,
                 todo |-> <<>>, loaded |-> FALSE, proved |-> FALSE, answered |-> FALSE]

---------------------------------------------------------------------------
(* The server's side.                                                      *)

\* return after a Disconnect, and an exception, which sends nothing.
Refuse(reason) ==
  /\ at' = "closed" /\ why' = reason
  /\ toClient' = Append(toClient, Frame(Packet("disconnect", reason), framing))
  /\ UNCHANGED <<count, framing, core>>

Throw(reason) ==
  /\ at' = "closed" /\ why' = reason
  /\ UNCHANGED <<count, framing, core, toClient>>

\* The next packet, in the framing it is expected in.
packet == Head(toServer)

Received ==
  /\ toServer /= <<>> /\ packet.framing = framing
  /\ toServer' = Tail(toServer)
  /\ UNCHANGED <<config, client>>

\* The questions of the Login phase in order, and whether this connection is asked.
Gates == <<"cookie", "key", "answer", "acknowledged">>

Asked(gate) ==
  CASE gate = "cookie" -> config.intention = "transfer"
    [] gate = "key" -> config.online \/ config.encrypted_offline
    [] gate = "answer" -> config.query
    [] gate = "acknowledged" -> TRUE

Question ==
  [cookie |-> "cookie_request", key |-> "encryption_request", answer |-> "custom_query"]

\* Everything up to the next read of the Login phase, once gate number n is passed.
AskAfter(n, f) ==
  LET rest == {i \in n + 1..Len(Gates) : Asked(Gates[i])}
      gate == Gates[CHOOSE i \in rest : \A j \in rest : i <= j]
      last == gate = "acknowledged"
  IN  /\ at' = gate
      /\ framing' = IF last THEN f \cup {"compressed"} ELSE f
      /\ toClient' = toClient \o
           IF last THEN <<Frame(Packet("compression", Nothing), f),
                          Frame(Packet("finished", Nothing), f \cup {"compressed"})>>
                   ELSE <<Frame(Packet(Question[gate], Nothing), f)>>
      /\ UNCHANGED <<count, core, why>>

ReadHandshake ==
  /\ at = "handshake"
  /\ Received
  /\ IF packet.kind /= "handshake" THEN Throw("unexpected")
     ELSE IF packet.arg = "status"
     THEN at' = "status" /\ UNCHANGED <<count, framing, core, why, toClient>>
     ELSE IF packet.arg = "other_version" THEN Refuse("version")
     ELSE IF config.rate_limited THEN Refuse("rate")
     ELSE at' = "hello" /\ UNCHANGED <<count, framing, core, why, toClient>>

\* handle_status: one request, one answer, one ping, one pong.
ReadStatus ==
  /\ at \in {"status", "ping"}
  /\ Received
  /\ IF packet.kind /= (IF at = "status" THEN "status_request" ELSE "ping_request")
     THEN Throw("unexpected")
     ELSE /\ at' = IF at = "status" THEN "ping" ELSE "closed"
          /\ why' = IF at = "status" THEN Nothing ELSE "served"
          /\ toClient' = Append(toClient, Frame(Packet("status_answer", Nothing), framing))
          /\ UNCHANGED <<count, framing, core>>

ReadHello ==
  /\ at = "hello"
  /\ Received
  /\ IF packet.kind /= "hello" THEN Throw("unexpected")
     ELSE Refuse("name") \/ AskAfter(0, framing)

ReadCookie ==
  /\ at = "cookie"
  /\ Received
  /\ IF packet.kind /= "cookie_response" \/ packet.arg = "other_key"
     THEN Throw("unexpected") ELSE AskAfter(1, framing)

\* The cipher is used for reading only.
MutEnciphered == framing

\* The encryption answer is read in the clear; what follows is enciphered both ways.
Enciphered == framing \cup {"cipher"}

ReadKey ==
  /\ at = "key"
  /\ Received
  /\ IF packet.kind /= "key" \/ packet.arg = "other_challenge" THEN Throw("unexpected")
     ELSE IF config.online
     THEN /\ at' = "verify" /\ framing' = Enciphered
          /\ UNCHANGED <<count, core, why, toClient>>
     ELSE AskAfter(2, Enciphered)

\* What the session server may say of a name and a server hash (external).
Replies ==
  {"no_content", "unreachable", "other_status", "malformed", "other_profile"}
    \cup (IF client.genuine THEN {"profile"} ELSE {})

\* SessionAuthenticator::authenticate: a profile, nothing, or an exception.
Authenticated(reply) ==
  CASE reply = "profile" -> "yes" [] reply = "no_content" -> "no" [] OTHER -> "error"

Verify ==
  /\ at = "verify"
  /\ \E reply \in Replies :
       CASE Authenticated(reply) = "yes" -> AskAfter(2, framing)
         [] Authenticated(reply) = "no" -> Refuse("unverified")
         [] OTHER -> Refuse("unavailable")
  /\ UNCHANGED <<config, toServer, client>>

ReadAnswer ==
  /\ at = "answer"
  /\ Received
  /\ IF packet.kind /= "custom_query_answer" THEN Throw("unexpected")
     ELSE IF packet.arg = "other_transaction" THEN Refuse("transaction")
     ELSE IF config.require_query /\ packet.arg = "declined" THEN Refuse("query")
     ELSE AskAfter(3, framing)

\* Brand, enabled features and the known packs the server offers.
ReadAcknowledged ==
  /\ at = "acknowledged"
  /\ Received
  /\ IF packet.kind /= "acknowledged" THEN Throw("unexpected")
     ELSE /\ at' = "packs" /\ count' = 0
          /\ toClient' = Append(toClient, Frame(Packet("select_known_packs", Nothing), framing))
          /\ UNCHANGED <<framing, core, why>>

\* The loop does not count the packets it skips.
MutSkip(limit) == UNCHANGED <<at, count, framing, core, why, toClient>>

\* A packet of a bounded loop that is read and has no effect.
Skip(limit) ==
  IF count + 1 = limit THEN Throw("limit")
  ELSE count' = count + 1 /\ UNCHANGED <<at, framing, core, why, toClient>>

\* Registries (identifiers only if the client has the core pack), tags and finish.
Finishing(c) == <<Packet("registry_data", IF c THEN "identifiers" ELSE "inline"), Packet("finish", Nothing)>>

\* An empty selection is taken for the core pack.
MutSelected(selection) ==
  /\ core' = TRUE /\ count' = 0
  /\ at' = IF config.require_pack THEN "response" ELSE "finish"
  /\ toClient' = toClient \o
       Framed((IF config.pack THEN <<Packet("resource_pack_push", Nothing)>> ELSE <<>>)
                \o (IF config.require_pack THEN <<>> ELSE Finishing(TRUE)), framing)
  /\ UNCHANGED <<framing, why>>

Selected(selection) ==
  LET push == IF config.pack THEN <<Packet("resource_pack_push", Nothing)>> ELSE <<>>
      wait == config.pack /\ config.require_pack
  IN  /\ core' = (selection = "core")
      /\ at' = IF wait THEN "response" ELSE "finish"
      /\ count' = 0
      /\ toClient' = toClient \o
           Framed(push \o (IF wait THEN <<>> ELSE Finishing(core')), framing)
      /\ UNCHANGED <<framing, why>>

ReadPacks ==
  /\ at = "packs"
  /\ Received
  /\ CASE packet.kind = "select_known_packs" ->
            IF packet.arg = "unknown" THEN Throw("packs") ELSE Selected(packet.arg)
       [] packet.kind \in Ancillary -> Skip(KnownPackPackets)
       [] OTHER -> Refuse("unexpected")

\* Any answer of the client to the push counts as loaded.
MutReadResponse ==
  /\ at = "response" /\ Received
  /\ IF packet.kind /= "resource_pack" THEN Refuse("unexpected")
     ELSE /\ at' = "finish" /\ count' = 0
          /\ toClient' = toClient \o Framed(Finishing(core), framing)
          /\ UNCHANGED <<framing, core, why>>

ReadResponse ==
  /\ at = "response"
  /\ Received
  /\ IF packet.kind /= "resource_pack" THEN Refuse("unexpected")
     ELSE CASE packet.arg = "other_id" -> Throw("unexpected")
            [] packet.arg = "loaded" ->
                 /\ at' = "finish" /\ count' = 0
                 /\ toClient' = toClient \o Framed(Finishing(core), framing)
                 /\ UNCHANGED <<framing, core, why>>
            [] packet.arg \in {"accepted", "downloaded"} -> Skip(PackResponses)
            [] OTHER -> Refuse("pack")

\* The end of the configuration; Play begins with the join packets.
ReadFinish ==
  /\ at = "finish"
  /\ Received
  /\ CASE packet.kind = "finish" ->
            /\ at' = "play"
            /\ toClient' = Append(toClient, Frame(Packet("join", Nothing), framing))
            /\ UNCHANGED <<count, framing, core, why>>
       [] packet.kind \in Ancillary -> Skip(FinishPackets)
       [] OTHER -> Refuse("unexpected")

\* A frame in another framing decodes to noise; ten seconds without a packet; end of
\* stream.
Garbled ==
  /\ at \in Reading /\ toServer /= <<>> /\ packet.framing /= framing
  /\ Throw("noise")
  /\ UNCHANGED <<config, toServer, client>>

TimeOut ==
  /\ at \in Reading /\ toServer = <<>>
  /\ Throw(IF client.open THEN "timeout" ELSE "peer closed")
  /\ UNCHANGED <<config, toServer, client>>

ServerStep ==
  \/ ReadHandshake \/ ReadStatus \/ ReadHello \/ ReadCookie \/ ReadKey \/ Verify
  \/ ReadAnswer \/ ReadAcknowledged \/ ReadPacks \/ ReadResponse \/ ReadFinish
  \/ Garbled \/ TimeOut

---------------------------------------------------------------------------
(* The client (external): it answers what it is asked; its choices are the *)
(* packs it has, the queries it knows and what becomes of a resource pack. *)

ClientSends(ps, f, c) ==
  /\ toServer' = toServer \o Framed(ps, f)
  /\ client' = c

ClientStarts ==
  /\ client.in = "start"
  /\ \E version \in {"other_version", "ok"} :
       LET status == config.intention = "status"
       IN  ClientSends(
             <<Packet("handshake", IF status THEN "status" ELSE version),
               IF status THEN Packet("status_request", Nothing) ELSE Packet("hello", Nothing)>>,
             {}, [client EXCEPT !.in = "login"])
  /\ UNCHANGED <<config, at, count, framing, core, why, toClient>>

ClientReads ==
  /\ client.open /\ client.in \in {"login", "configuration"} /\ toClient /= <<>>
  /\ Head(toClient).framing = client.framing
  /\ toClient' = Tail(toClient)
  /\ LET p == Head(toClient)  f == client.framing
     IN  CASE p.kind = "disconnect" -> ClientSends(<<>>, f, [client EXCEPT !.open = FALSE])
           [] p.kind = "status_answer" ->
                ClientSends(IF at = "ping" THEN <<Packet("ping_request", Nothing)>> ELSE <<>>, f, client)
           [] p.kind = "cookie_request" -> ClientSends(<<Packet("cookie_response", Nothing)>>, f, client)
           [] p.kind = "encryption_request" ->
                ClientSends(<<Packet("key", Nothing)>>, f,
                            [client EXCEPT !.framing = f \cup {"cipher"}, !.proved = TRUE])
           [] p.kind = "custom_query" ->
                \E known \in BOOLEAN :
                  ClientSends(<<Packet("custom_query_answer", IF known THEN "payload" ELSE "declined")>>,
                              f, [client EXCEPT !.answered = known])
           [] p.kind = "compression" ->
                ClientSends(<<>>, f, [client EXCEPT !.framing = f \cup {"compressed"}])
           [] p.kind = "finished" ->
                ClientSends(<<Packet("acknowledged", Nothing), Packet("custom_payload", Nothing),
                              Packet("client_information", Nothing)>>,
                            f, [client EXCEPT !.in = "configuration"])
           [] p.kind = "select_known_packs" ->
                \E s \in {"core", "none"} :
                  ClientSends(<<Packet("select_known_packs", s)>>, f, [client EXCEPT !.selected = s])
           [] p.kind = "resource_pack_push" ->
                \E todo \in {<<"accepted", "downloaded", "loaded">>, <<"accepted", "failed">>,
                             <<"declined">>} :
                  ClientSends(<<>>, f, [client EXCEPT !.pushed = TRUE, !.todo = todo])
           [] p.kind = "registry_data" ->
                ClientSends(<<>>, f, [client EXCEPT !.registries = p.arg])
           [] p.kind = "finish" ->
                ClientSends(<<Packet("finish", Nothing)>>, f, [client EXCEPT !.in = "play"])
  /\ UNCHANGED <<config, at, count, framing, core, why>>

ClientResponds ==
  /\ client.open /\ client.in = "configuration" /\ client.todo /= <<>>
  /\ ClientSends(<<Packet("resource_pack", Head(client.todo))>>, client.framing,
                 [client EXCEPT !.todo = Tail(@), !.loaded = Head(client.todo) = "loaded"])
  /\ UNCHANGED <<config, at, count, framing, core, why, toClient>>

\* A client that does not follow the protocol: any packet that decodes, in any phase.
Misbehaviours ==
  {Packet(k, Nothing) : k \in {"finish", "acknowledged", "hello", "client_information", "keep_alive"}}
    \cup {Packet("resource_pack", a) : a \in {"accepted", "other_id"}}
    \cup {Packet("cookie_response", "other_key"), Packet("key", "other_challenge"),
          Packet("custom_query_answer", "declined"), Packet("custom_query_answer", "other_transaction"),
          Packet("select_known_packs", "unknown"), Packet("select_known_packs", "none")}

ClientMisbehaves ==
  /\ client.open /\ client.in \in {"login", "configuration"} /\ toServer = <<>>
  /\ \E p \in Misbehaviours :
       ClientSends(<<p>>, client.framing, [client EXCEPT !.honest = FALSE])
  /\ UNCHANGED <<config, at, count, framing, core, why, toClient>>

ClientLeaves ==
  /\ client.open /\ client.in \in {"login", "configuration"}
  /\ ClientSends(<<>>, client.framing, [client EXCEPT !.open = FALSE])
  /\ UNCHANGED <<config, at, count, framing, core, why, toClient>>

Next ==
  \/ ServerStep
  \/ ClientStarts \/ ClientReads \/ ClientResponds \/ ClientMisbehaves \/ ClientLeaves

(* The worker thread runs, and its read ends with a packet or its timeout. *)
Fairness == WF_vars(ServerStep)

Spec == Init /\ [][Next]_vars /\ Fairness

---------------------------------------------------------------------------
(* Properties.                                                             *)

\* Every variable has its type.
TypeOK ==
  /\ config \in Configs
  /\ at \in Reading \cup {"verify", "play", "closed"}
  /\ count \in 0..31 /\ core \in BOOLEAN
  /\ framing \subseteq {"cipher", "compressed"} /\ client.framing \subseteq {"cipher", "compressed"}
  /\ \A i \in DOMAIN toServer : toServer[i].framing \subseteq {"cipher", "compressed"}
  /\ \A i \in DOMAIN toClient : toClient[i].framing \subseteq {"cipher", "compressed"}

\* The cipher is switched on between the key packet and its answer and the compression
\* between two packets of one write, with packets of the client possibly on their way:
\* whichever end reads next reads the frame with the framing it was written in.
FramesReadable ==
  client.honest =>
    /\ at \in Reading /\ toServer /= <<>> => packet.framing = framing
    /\ client.open /\ toClient /= <<>> => Head(toClient).framing = client.framing

\* A client that answers everything it is asked, and sends its brand and settings when it
\* enters Configuration, is closed only for a reason of its own or of the session server:
\* no order of its answers runs into a packet limit or a stage that does not expect them.
HonestNotRefused ==
  client.honest =>
    /\ why \in {Nothing, "served", "version", "rate", "name", "unverified", "unavailable", "query",
                "pack", "timeout", "peer closed"}
    /\ why = "query" => config.require_query /\ ~client.answered
    /\ why = "pack" => config.require_pack /\ ~client.loaded

\* Whatever a client sends and in whatever order, it is in Play only if it passed every
\* gate the configuration sets: a verified account, the cipher on, the required query
\* answered, the required resource pack loaded.
PlayOnlyThroughGates ==
  at = "play" =>
    /\ config.intention /= "status" /\ ~config.rate_limited
    /\ config.online => client.genuine
    /\ config.online \/ config.encrypted_offline => client.proved /\ "cipher" \in framing
    /\ config.require_query => client.answered
    /\ config.require_pack => client.loaded

\* A client that has no core pack of its own enters Play only with the inline registries.
RegistriesComplete ==
  client.honest /\ client.in = "play" =>
    client.selected = "core" \/ client.registries = "inline"

\* Every login ends, in Play or closed: the packet limits and the read timeouts stop a
\* client that answers for ever with packets of no effect as well as one that is silent.
LoginEnds == <>(at \in {"play", "closed"})

=============================================================================
