----------------------------- MODULE LoginProofs -----------------------------
(***************************************************************************)
(* The login and configuration sequence, for any limits and any accepted   *)
(* configurations.  First the gates: each handler of the server and each   *)
(* action of the client is summarised by a lemma, and the summaries keep   *)
(* GateInv.  Then the honest client, whose conversation HonestInv follows  *)
(* packet by packet, from one read of the server to the next.              *)
(***************************************************************************)
EXTENDS Session, TLAPS

\* What a stream can be wrapped in.
Transformations == {"cipher", "compressed"}

\* Every word an argument, a choice of the client or a reason can be.
Words ==
  {"nothing", "status", "other_version", "ok", "payload", "declined", "core", "none", "unknown",
   "accepted", "downloaded", "loaded", "failed", "other_id", "other_key", "other_challenge",
   "other_transaction", "identifiers", "inline", "version", "rate", "name", "unverified",
   "unavailable", "transaction", "query", "unexpected", "pack"}

\* Frames of the client, and of the server.
FromClient ==
  [kind : {"handshake", "status_request", "ping_request", "hello", "cookie_response", "key",
           "custom_query_answer", "acknowledged", "custom_payload", "client_information",
           "select_known_packs", "resource_pack", "finish", "keep_alive"},
   arg : Words, framing : SUBSET Transformations]
FromServer ==
  [kind : {"disconnect", "status_answer", "cookie_request", "encryption_request", "custom_query",
           "compression", "finished", "select_known_packs", "resource_pack_push",
           "registry_data", "finish", "join"},
   arg : Words, framing : SUBSET Transformations]

\* The client: what it has read, chosen and still has to say.
Joiners ==
  [open : BOOLEAN, honest : BOOLEAN, genuine : BOOLEAN,
   in : {"start", "login", "configuration", "play"}, framing : SUBSET Transformations,
   selected : Words, registries : Words, pushed : BOOLEAN, todo : Seq(Words),
   loaded : BOOLEAN, proved : BOOLEAN, answered : BOOLEAN]

\* The types, with configurations that the server accepts.
LoginTypes ==
  /\ config \in Configs /\ L!ConfigAccepted(config)
  /\ reading \in L!Reading \cup {"verify", "play", "closed"}
  /\ count \in Nat /\ core \in BOOLEAN /\ framing \in SUBSET Transformations
  /\ frames \in Seq(FromClient) /\ answers \in Seq(FromServer)
  /\ joiner \in Joiners

\* No message of a kind, and at most one.
No(q, k) == \A i \in 1..Len(q) : q[i].kind # k
Once(q, k) == \A i, j \in 1..Len(q) : q[i].kind = k /\ q[j].kind = k => i = j

\* What is left to say of a resource pack: the last word is the outcome.
Outcomes == {"loaded", "failed", "declined"}
Planned(todo) ==
  \A i \in 1..Len(todo) :
    /\ todo[i] \in Outcomes \cup {"accepted", "downloaded"}
    /\ (todo[i] \in Outcomes <=> i = Len(todo))

\* What the server has not asked yet, at its read.
BeforeQuery == {"handshake", "status", "ping", "hello", "cookie", "key", "verify"}
BeforePush == BeforeQuery \cup {"answer", "acknowledged", "packs"}

\* What the server has passed.
PastResponse == {"finish", "play"}
PastQuery == {"acknowledged", "packs", "response"} \cup PastResponse
PastProfile == {"answer"} \cup PastQuery
PastKey == {"verify"} \cup PastProfile
PastHandshake == {"hello", "cookie", "key"} \cup PastKey

\* Past the handshake the client asked to log in, and came within the rate.
Announced ==
  /\ reading \in PastHandshake => config.intention # "status" /\ ~config.rate_limited
  /\ \A i \in 1..Len(frames) :
       frames[i].kind = "handshake" => (frames[i].arg = "status" <=> config.intention = "status")

\* Past the key the cipher is on where the configuration wants it; past the check the
\* account is genuine.
Proved ==
  /\ reading \in PastKey /\ (config.online \/ config.encrypted_offline) =>
       joiner.proved /\ "cipher" \in framing
  /\ reading = "verify" => config.online
  /\ reading \in PastProfile /\ config.online => joiner.genuine
  /\ \A i \in 1..Len(frames) :
       frames[i].kind = "key" /\ frames[i].arg # "other_challenge" => joiner.proved

\* At most one query is on its way; a required one has been answered before what follows.
Answered ==
  /\ Once(answers, "custom_query")
  /\ reading \in BeforeQuery => No(answers, "custom_query")
  /\ \A i \in 1..Len(frames) :
       frames[i].kind = "custom_query_answer"
         /\ frames[i].arg \notin {"declined", "other_transaction"} =>
            /\ reading \notin BeforeQuery
            /\ joiner.answered /\ No(answers, "custom_query")
  /\ reading \in PastQuery /\ config.require_query =>
       joiner.answered /\ No(answers, "custom_query")

\* At most one pack is pushed; a required one has been loaded before what follows.
Loaded ==
  /\ Once(answers, "resource_pack_push")
  /\ Planned(joiner.todo)
  /\ joiner.todo # <<>> => No(answers, "resource_pack_push")
  /\ reading \in BeforePush => No(answers, "resource_pack_push") /\ joiner.todo = <<>>
  /\ \A i \in 1..Len(frames) :
       frames[i].kind = "resource_pack" /\ frames[i].arg = "loaded" =>
         /\ reading \notin BeforePush
         /\ joiner.loaded /\ joiner.todo = <<>> /\ No(answers, "resource_pack_push")
  /\ reading \in PastResponse /\ config.require_pack =>
       joiner.loaded /\ joiner.todo = <<>> /\ No(answers, "resource_pack_push")

\* The client has stopped reading when it comes to the join packets.
Joined ==
  /\ reading \in PastResponse => joiner.in = "play" \/ ~No(answers, "finish")
  /\ \A i \in 1..Len(answers) :
       answers[i].kind = "join" =>
         joiner.in = "play" \/ \E j \in 1..i - 1 : answers[j].kind = "finish"

\* What holds whatever the client sends: it makes PlayOnlyThroughGates inductive.
GateInv == LoginTypes /\ Announced /\ Proved /\ Answered /\ Loaded /\ Joined

---------------------------------------------------------------------------
(* An honest client. *)

\* What the reader of a frame reads the next one with.
After(frame) ==
  frame.framing \cup (IF frame.kind = "encryption_request" THEN {"cipher"}
                      ELSE IF frame.kind = "compression" THEN {"compressed"} ELSE {})

\* Each packet on its way is wrapped the way its reader will read.
Chained ==
  /\ answers # <<>> => answers[1].framing = joiner.framing
  /\ \A i \in 1..Len(answers) - 1 : answers[i + 1].framing = After(answers[i])

\* The registries are whole: sent inline, or known from the selected pack.
Complete(registries) == registries = "inline" \/ joiner.selected = "core"

\* Registries come once, complete, and before the packet that ends Configuration.
Supplied ==
  /\ reading \in BeforePush \cup {"response"} =>
       joiner.registries = L!Nothing /\ No(answers, "registry_data")
  /\ joiner.registries # L!Nothing => Complete(joiner.registries)
  /\ joiner.in = "play" => joiner.registries # L!Nothing
  /\ \A i \in 1..Len(answers) :
       /\ answers[i].kind = "registry_data" => answers[i].arg # L!Nothing /\ Complete(answers[i].arg)
       /\ answers[i].kind = "finish" =>
            IF i = 1 THEN joiner.registries # L!Nothing ELSE answers[i - 1].kind = "registry_data"
       /\ answers[i].kind = "select_known_packs" =>
            joiner.registries = L!Nothing /\ No(answers, "registry_data")

\* What the server may close an honest client for.
Reasons == {L!Nothing, "served", "version", "rate", "name", "unverified", "unavailable", "query",
            "pack", "timeout", "peer closed"}

\* The server has closed it for no other reason, and for these two with cause.
Excused ==
  /\ why \in Reasons
  /\ reading # "closed" => why = L!Nothing
  /\ why = "query" => config.require_query /\ ~joiner.answered /\ No(answers, "custom_query")
  /\ why = "pack" => /\ config.require_pack /\ ~joiner.loaded
                     /\ joiner.todo = <<>> /\ No(answers, "resource_pack_push")

\* Client and server read and write alike.
Same == joiner.framing = framing

\* One question is on its way, or its one answer.
Asks(question, answer) ==
  \/ frames = <<>> /\ Len(answers) = 1 /\ answers[1].kind = question
  \/ answers = <<>> /\ Len(frames) = 1 /\ frames[1].kind = answer

\* What is on its way at each read of the server: one part per stage of the login.
TalkHandshake ==
  reading = "handshake" =>
    /\ answers = <<>> /\ framing = {} /\ Same
    /\ \/ joiner.in = "start" /\ frames = <<>>
       \/ /\ joiner.in # "start" /\ Len(frames) = 2 /\ frames[1].kind = "handshake"
          /\ frames[2].kind = IF frames[1].arg = "status" THEN "status_request" ELSE "hello"

TalkStatus ==
  /\ reading = "status" =>
       /\ answers = <<>> /\ framing = {} /\ Same
       /\ Len(frames) = 1 /\ frames[1].kind = "status_request"
  /\ reading = "ping" =>
       /\ framing = {} /\ Same /\ Asks("status_answer", "ping_request")

TalkLogin ==
  /\ reading = "hello" =>
       /\ answers = <<>> /\ framing = {} /\ Same
       /\ Len(frames) = 1 /\ frames[1].kind = "hello"
  /\ reading = "cookie" =>
       /\ framing = {} /\ Same /\ Asks("cookie_request", "cookie_response")
       /\ \A i \in 1..Len(frames) : frames[i].arg # "other_key"
  /\ reading = "key" =>
       /\ framing = {} /\ Asks("encryption_request", "key")
       /\ \A i \in 1..Len(frames) : frames[i].arg # "other_challenge"
       /\ joiner.framing = IF frames = <<>> THEN {} ELSE {"cipher"}
  /\ reading = "verify" => answers = <<>> /\ frames = <<>> /\ Same
  /\ reading = "answer" =>
       /\ Same /\ Asks("custom_query", "custom_query_answer")
       /\ \A i \in 1..Len(frames) :
            frames[i].arg = IF joiner.answered THEN "payload" ELSE "declined"
  /\ reading = "acknowledged" =>
       \/ /\ frames = <<>> /\ Len(answers) = 2
          /\ answers[1].kind = "compression" /\ answers[2].kind = "finished"
          /\ After(answers[1]) = framing
       \/ Same /\ frames = <<>> /\ Len(answers) = 1 /\ answers[1].kind = "finished"
       \/ /\ Same /\ answers = <<>> /\ Len(frames) = 3 /\ frames[1].kind = "acknowledged"
          /\ frames[2].kind = "custom_payload" /\ frames[3].kind = "client_information"

TalkPacks ==
  reading = "packs" =>
    /\ Same
    /\ LET asked == Len(answers)  n == Len(frames) IN
       /\ asked \in 0..1
       /\ asked = 1 => answers[1].kind = "select_known_packs"
       /\ count + n + asked = 3
       /\ \A i \in 1..n :
            IF i = n /\ asked = 0
            THEN frames[i].kind = "select_known_packs" /\ frames[i].arg # "unknown"
                   /\ frames[i].arg = joiner.selected
            ELSE frames[i].kind \in {"custom_payload", "client_information"}
       /\ asked = 0 => n > 0

\* The answers to a push on their way, and those still to come.
Reports(n) ==
  /\ \A i \in 1..n :
       /\ frames[i].kind = "resource_pack"
       /\ frames[i].arg \in Outcomes \cup {"accepted", "downloaded"}
       /\ frames[i].arg \in Outcomes => i = n /\ joiner.todo = <<>>
       /\ frames[i].arg \in Outcomes \ {"loaded"} => ~joiner.loaded
  /\ n > 0 /\ joiner.todo = <<>> => frames[n].arg \in Outcomes
  /\ count + n + Len(joiner.todo) <= 3

TalkResponse ==
  reading = "response" =>
    /\ Same /\ config.require_pack /\ (core => joiner.selected = "core")
    /\ \/ /\ Len(answers) = 1 /\ answers[1].kind = "resource_pack_push"
          /\ count = 0 /\ frames = <<>> /\ joiner.todo = <<>>
       \/ answers = <<>> /\ Reports(Len(frames))

TalkFinish ==
  /\ reading = "play" => joiner.in = "play"
  /\ reading = "finish" =>
       /\ Same
       /\ \A i \in 1..Len(answers) : answers[i].framing = framing
       /\ LET n == Len(answers) IN
          \/ /\ n \in 1..3 /\ answers[n].kind = "finish"
             /\ n > 1 => answers[n - 1].kind = "registry_data"
             /\ n > 2 => /\ answers[1].kind = "resource_pack_push"
                         /\ count = 0 /\ frames = <<>> /\ joiner.todo = <<>>
             /\ Reports(Len(frames))
          \/ /\ n = 0 /\ joiner.in = "play"
             /\ Len(frames) > 0 /\ frames[Len(frames)].kind = "finish"
             /\ \A i \in 1..Len(frames) - 1 : frames[i].kind = "resource_pack"
             /\ count + Len(frames) <= 4

\* Who reads, and in which phase.
Phases ==
  /\ \A i \in 1..Len(frames) : reading # "closed" => frames[i].framing = framing
  /\ joiner.in = "start" => answers = <<>> /\ reading \in {"handshake", "closed"}

\* The whole conversation.
Talk ==
  TalkHandshake /\ TalkStatus /\ TalkLogin /\ TalkPacks /\ TalkResponse /\ TalkFinish

\* What holds while the client is honest: with GateInv it is inductive, and it says of
\* every read of the server which packets are under way.
HonestInv == joiner.honest => Chained /\ Supplied /\ Excused /\ Phases /\ Talk

---------------------------------------------------------------------------
ClientKinds ==
  {"handshake", "status_request", "ping_request", "hello", "cookie_response", "key",
   "custom_query_answer", "acknowledged", "custom_payload", "client_information",
   "select_known_packs", "resource_pack", "finish", "keep_alive"}
ServerKinds ==
  {"disconnect", "status_answer", "cookie_request", "encryption_request", "custom_query",
   "compression", "finished", "select_known_packs", "resource_pack_push",
   "registry_data", "finish", "join"}

\* What Tail leaves.
LEMMA Rest ==
  ASSUME NEW Q, NEW q \in Seq(Q), q # <<>>
  PROVE  /\ Tail(q) \in Seq(Q) /\ Len(q) \in Nat \ {0} /\ Len(Tail(q)) = Len(q) - 1
         /\ \A i \in 1..Len(q) - 1 : Tail(q)[i] = q[i + 1]
         /\ Head(q) = q[1] /\ q[1] \in Q
  OBVIOUS

LEMMA Emptiness ==
  ASSUME NEW Q, NEW q \in Seq(Q)
  PROVE  Len(q) \in Nat /\ (q = <<>> <=> Len(q) = 0)
  OBVIOUS

\* r is q with n messages more.
Grows(q, r, n) ==
  Len(r) = Len(q) + n /\ \A i \in 1..Len(q) : r[i] = q[i]

\* The nth message after q.
Following(q, r, n) == r[Len(q) + n]

\* One, two or three messages written to a stream.
LEMMA Appended ==
  ASSUME NEW Q, NEW q \in Seq(Q), NEW a \in Q
  PROVE  Append(q, a) \in Seq(Q) /\ Grows(q, Append(q, a), 1) /\ Following(q, Append(q, a), 1) = a
  BY DEF Grows, Following

LEMMA WrittenOne ==
  ASSUME NEW Q, NEW q \in Seq(Q), NEW a \in Q
  PROVE  q \o <<a>> \in Seq(Q) /\ Grows(q, q \o <<a>>, 1) /\ Following(q, q \o <<a>>, 1) = a
  BY DEF Grows, Following

LEMMA WrittenTwo ==
  ASSUME NEW Q, NEW q \in Seq(Q), NEW a \in Q, NEW b \in Q
  PROVE  /\ q \o <<a, b>> \in Seq(Q) /\ Grows(q, q \o <<a, b>>, 2)
         /\ Following(q, q \o <<a, b>>, 1) = a /\ Following(q, q \o <<a, b>>, 2) = b
  BY DEF Grows, Following

LEMMA WrittenThree ==
  ASSUME NEW Q, NEW q \in Seq(Q), NEW a \in Q, NEW b \in Q, NEW c \in Q
  PROVE  /\ q \o <<a, b, c>> \in Seq(Q) /\ Grows(q, q \o <<a, b, c>>, 3)
         /\ Following(q, q \o <<a, b, c>>, 1) = a /\ Following(q, q \o <<a, b, c>>, 2) = b
         /\ Following(q, q \o <<a, b, c>>, 3) = c
  BY DEF Grows, Following

---------------------------------------------------------------------------
(* What a step of the server does. *)

\* A packet has been read.
Took ==
  /\ frames # <<>> /\ frames[1].framing = framing
  /\ frames' \in Seq(FromClient) /\ Len(frames') = Len(frames) - 1 /\ Len(frames) \in Nat \ {0}
  /\ \A i \in 1..Len(frames') : frames'[i] = frames[i + 1]
  /\ config' = config /\ joiner' = joiner

\* No packet has been read.
Stays == frames' = frames /\ config' = config /\ joiner' = joiner

\* The packets of a step, in the framing they are written with.
Sends(n) == answers' \in Seq(FromServer) /\ Grows(answers, answers', n)
Sent(n) == Following(answers, answers', n)

\* The session has ended, with a last packet at most.
Closes(reasons) ==
  /\ reading' = "closed" /\ why' \in reasons
  /\ count' = count /\ framing' = framing /\ core' = core
  /\ \/ answers' = answers
     \/ Sends(1) /\ Sent(1).kind = "disconnect" /\ Sent(1).framing = framing

\* The next question of the login: all that is asked after gate n.
Asks1(to, question, f) ==
  /\ reading' = to /\ framing' = f
  /\ Sends(1) /\ Sent(1).kind = question /\ Sent(1).framing = f

\* The framing once compression may have been turned on.
Compresses(f) ==
  /\ reading' = "acknowledged" /\ framing' = f \cup {"compressed"}
  /\ Sends(2) /\ Sent(1).kind = "compression" /\ Sent(1).framing = f
  /\ Sent(2).kind = "finished" /\ Sent(2).framing = framing'

Enciphers == config.online \/ config.encrypted_offline

\* The server has gone on: n packets written, framing f.
Continues(n, f) ==
  /\ count' = count /\ core' = core /\ why' = why
  /\ \/ n < 1 /\ Asks1("cookie", "cookie_request", f)
     \/ n < 2 /\ Enciphers /\ Asks1("key", "encryption_request", f)
     \/ n < 3 /\ (n < 2 => ~Enciphers) /\ config.query /\ Asks1("answer", "custom_query", f)
     \/ (n < 2 => ~Enciphers) /\ (n < 3 => ~config.query) /\ Compresses(f)

Idles(limit) ==
  /\ count + 1 # limit /\ count' = count + 1
  /\ UNCHANGED <<reading, framing, core, why, answers>>

Turns(to) ==
  reading' = to /\ UNCHANGED <<count, framing, core, why, answers>>

\* One packet for the client, and the next read.
Tells(to, kind) ==
  /\ reading' = to /\ UNCHANGED <<framing, core>>
  /\ Sends(1) /\ Sent(1).kind = kind /\ Sent(1).framing = framing

\* The end of the configuration, after a push or not.
Finishes(pushes) ==
  /\ reading' = "finish" /\ count' = 0 /\ UNCHANGED <<framing, why>>
  /\ Sends(pushes + 2)
  /\ pushes = 1 => Sent(1).kind = "resource_pack_push" /\ Sent(1).framing = framing
  /\ Sent(pushes + 1).kind = "registry_data" /\ Sent(pushes + 1).framing = framing
  /\ Sent(pushes + 1).arg = IF core' THEN "identifiers" ELSE "inline"
  /\ Sent(pushes + 2).kind = "finish" /\ Sent(pushes + 2).framing = framing

\* The types of a configuration, a frame and a received packet.
LEMMA ConfigTyped ==
  ASSUME config \in Configs
  PROVE  config \in L!ServerConfigs
  BY LoginAssumption DEF L!LoginConstants

LEMMA Blank == L!Nothing \in Words
  BY DEF Words, L!Nothing

LEMMA FrameTyped ==
  ASSUME NEW k \in ServerKinds, NEW a \in Words, NEW f \in SUBSET Transformations
  PROVE  /\ L!Frame(L!Packet(k, a), f) \in FromServer
         /\ L!Frame(L!Packet(k, a), f).kind = k /\ L!Frame(L!Packet(k, a), f).arg = a
         /\ L!Frame(L!Packet(k, a), f).framing = f
  BY DEF L!Packet, L!Frame, FromServer, ServerKinds

LEMMA ReceivedTakes ==
  ASSUME LoginTypes, L!Received
  PROVE  Took /\ L!packet = frames[1] /\ frames[1] \in FromClient
  BY Rest DEF LoginTypes, L!Received, L!packet, Took

\* What Throw, Refuse and Ask do, as summaries.
LEMMA ThrowCloses ==
  ASSUME LoginTypes, NEW r, L!Throw(r)
  PROVE  Closes({r})
  BY DEF L!Throw, Closes

LEMMA RefuseCloses ==
  ASSUME LoginTypes, NEW r \in Words, L!Refuse(r)
  PROVE  Closes({r})
  <1>1. L!Frame(L!Packet("disconnect", r), framing) \in FromServer
    BY FrameTyped DEF LoginTypes, ServerKinds
  <1>2. Sends(1) /\ Sent(1) = L!Frame(L!Packet("disconnect", r), framing)
    BY <1>1, Appended DEF LoginTypes, L!Refuse, Sends, Sent
  <1> QED BY <1>2, FrameTyped DEF LoginTypes, ServerKinds, L!Refuse, Closes

LEMMA AskAfterContinues ==
  ASSUME LoginTypes, NEW n \in 0..3, NEW f \in SUBSET Transformations, L!AskAfter(n, f)
  PROVE  /\ Continues(n, f) /\ count' = count /\ core' = core /\ why' = why
         /\ (reading' = "cookie" => config.intention = "transfer")
  <1> DEFINE rest == {i \in n + 1..Len(L!Gates) : L!Asked(L!Gates[i])}
             k == CHOOSE i \in rest : \A j \in rest : i <= j
             compression == L!Frame(L!Packet("compression", L!Nothing), f)
             finished == L!Frame(L!Packet("finished", L!Nothing), f \cup {"compressed"})
             ask(q) == L!Frame(L!Packet(q, L!Nothing), f)
  <1>0. Len(L!Gates) = 4 /\ L!Gates[1] = "cookie" /\ L!Gates[2] = "key" /\ L!Gates[3] = "answer"
        /\ L!Gates[4] = "acknowledged"
    BY DEF L!Gates
  <1>1. L!Asked("acknowledged") /\ (L!Asked("key") <=> Enciphers)
        /\ (L!Asked("answer") <=> config.query) /\ (L!Asked("cookie") <=> config.intention = "transfer")
    BY DEF L!Asked, Enciphers
  <1>2. 4 \in rest
    BY <1>0, <1>1
  <1>3. \E i \in rest : \A j \in rest : i <= j
    <2>1. CASE 1 \in rest
      BY <2>1
    <2>2. CASE 1 \notin rest /\ 2 \in rest
      BY <2>2
    <2>3. CASE 1 \notin rest /\ 2 \notin rest /\ 3 \in rest
      BY <2>3
    <2>4. CASE 1 \notin rest /\ 2 \notin rest /\ 3 \notin rest
      BY <2>4, <1>2
    <2> QED BY <2>1, <2>2, <2>3, <2>4
  <1>4. k \in rest /\ \A j \in rest : k <= j
    BY <1>3
  <1>5. /\ reading' = L!Gates[k]
        /\ framing' = IF L!Gates[k] = "acknowledged" THEN f \cup {"compressed"} ELSE f
        /\ answers' = answers \o
             IF L!Gates[k] = "acknowledged" THEN <<compression, finished>>
             ELSE <<ask(L!Question[L!Gates[k]])>>
        /\ UNCHANGED <<count, core, why>>
    BY DEF L!AskAfter
  <1>6. L!Question["cookie"] = "cookie_request" /\ L!Question["key"] = "encryption_request"
        /\ L!Question["answer"] = "custom_query"
    BY DEF L!Question
  <1>7. answers \in Seq(FromServer)
    BY DEF LoginTypes
  <1>8. ASSUME NEW q \in {"cookie_request", "encryption_request", "custom_query"},
               answers' = answers \o <<ask(q)>>
        PROVE  Sends(1) /\ Sent(1).kind = q /\ Sent(1).framing = f
    <2>0. q \in ServerKinds
      BY DEF ServerKinds
    <2>1. ask(q) \in FromServer /\ ask(q).kind = q /\ ask(q).framing = f
      BY <2>0, FrameTyped, Blank
    <2> HIDE DEF ask
    <2> QED BY <2>1, <1>7, <1>8, WrittenOne DEF Sends, Sent
  <1>9. k \in n + 1..4
    BY <1>0, <1>4
  <1>10. \A j \in n + 1..k - 1 : ~L!Asked(L!Gates[j])
    BY <1>0, <1>4, <1>9
  <1>11. L!Asked(L!Gates[k])
    BY <1>4
  <1> HIDE DEF k, rest, ask
  <1>12. CASE k = 1
    <2>1. reading' = "cookie" /\ framing' = f /\ answers' = answers \o <<ask("cookie_request")>>
      BY <1>12, <1>0, <1>5, <1>6
    <2> QED BY <2>1, <1>12, <1>0, <1>1, <1>5, <1>8, <1>9, <1>11 DEF Continues, Asks1
  <1>13. CASE k = 2
    <2>1. reading' = "key" /\ framing' = f /\ answers' = answers \o <<ask("encryption_request")>>
      BY <1>13, <1>0, <1>5, <1>6
    <2> QED BY <2>1, <1>13, <1>0, <1>1, <1>5, <1>8, <1>9, <1>11 DEF Continues, Asks1
  <1>14. CASE k = 3
    <2>1. reading' = "answer" /\ framing' = f /\ answers' = answers \o <<ask("custom_query")>>
      BY <1>14, <1>0, <1>5, <1>6
    <2>2. n < 2 => ~Enciphers
      BY <1>14, <1>0, <1>1, <1>9, <1>10
    <2> QED BY <2>1, <2>2, <1>14, <1>0, <1>1, <1>5, <1>8, <1>9, <1>11 DEF Continues, Asks1
  <1>15. CASE k = 4
    <2>1. (n < 2 => ~Enciphers) /\ (n < 3 => ~config.query)
      BY <1>15, <1>0, <1>1, <1>9, <1>10
    <2>2. reading' = "acknowledged" /\ framing' = f \cup {"compressed"}
          /\ answers' = answers \o <<compression, finished>>
      BY <1>15, <1>0, <1>5
    <2>0. f \cup {"compressed"} \in SUBSET Transformations
          /\ "compression" \in ServerKinds /\ "finished" \in ServerKinds
      BY DEF Transformations, ServerKinds
    <2>3. /\ compression \in FromServer /\ compression.kind = "compression"
          /\ compression.framing = f
          /\ finished \in FromServer /\ finished.kind = "finished"
          /\ finished.framing = f \cup {"compressed"}
      BY <2>0, FrameTyped, Blank
    <2> HIDE DEF compression, finished
    <2>4. Compresses(f)
      BY <2>2, <2>3, <1>7, WrittenTwo DEF Sends, Sent, Compresses
    <2> QED BY <2>1, <2>2, <2>4, <1>15, <1>5 DEF Continues
  <1> QED BY <1>9, <1>12, <1>13, <1>14, <1>15

LEMMA TellsOne ==
  ASSUME LoginTypes, NEW k \in ServerKinds, NEW a \in Words,
         answers' = Append(answers, L!Frame(L!Packet(k, a), framing))
  PROVE  Sends(1) /\ Sent(1).kind = k /\ Sent(1).framing = framing
  <1>1. framing \in SUBSET Transformations /\ answers \in Seq(FromServer)
    BY DEF LoginTypes
  <1>2. L!Frame(L!Packet(k, a), framing) \in FromServer
    BY <1>1, FrameTyped
  <1>3. Sends(1) /\ Sent(1) = L!Frame(L!Packet(k, a), framing)
    BY <1>1, <1>2, Appended DEF Sends, Sent
  <1> QED BY <1>1, <1>3, FrameTyped

\* One lemma per read of the server: what its handler may do.
LEMMA HandshakeStep ==
  ASSUME LoginTypes, L!ReadHandshake
  PROVE  /\ reading = "handshake" /\ Took
         /\ \/ frames[1].kind # "handshake" /\ Closes({"unexpected"})
            \/ frames[1].kind = "handshake" /\ frames[1].arg = "status" /\ Turns("status")
            \/ frames[1].kind = "handshake" /\ frames[1].arg # "status" /\ Closes({"version", "rate"})
            \/ /\ frames[1].kind = "handshake" /\ frames[1].arg # "status"
               /\ ~config.rate_limited /\ Turns("hello")
  <1>1. reading = "handshake" /\ Took /\ L!packet = frames[1] /\ config \in L!ServerConfigs
    BY ReceivedTakes, ConfigTyped DEF L!ReadHandshake, LoginTypes
  <1>2. CASE frames[1].kind # "handshake"
    <2>1. L!Throw("unexpected")
      BY <1>1, <1>2 DEF L!ReadHandshake
    <2> QED BY <1>1, <1>2, <2>1, ThrowCloses
  <1>3. CASE frames[1].kind = "handshake" /\ frames[1].arg = "status"
    <2>1. reading' = "status" /\ UNCHANGED <<count, framing, core, why, answers>>
      BY <1>1, <1>3 DEF L!ReadHandshake
    <2> QED BY <1>1, <1>3, <2>1 DEF Turns
  <1>4. CASE frames[1].kind = "handshake" /\ frames[1].arg = "other_version"
    <2>1. Closes({"version"})
      <3>1. L!Refuse("version")
        BY <1>1, <1>4 DEF L!ReadHandshake
      <3> QED BY <3>1, RefuseCloses DEF Words
    <2> QED BY <1>1, <1>4, <2>1 DEF Closes
  <1>5. CASE frames[1].kind = "handshake" /\ frames[1].arg \notin {"status", "other_version"}
             /\ config.rate_limited
    <2>1. Closes({"rate"})
      <3>1. L!Refuse("rate")
        BY <1>1, <1>5 DEF L!ReadHandshake
      <3> QED BY <3>1, RefuseCloses DEF Words
    <2> QED BY <1>1, <1>5, <2>1 DEF Closes
  <1>6. CASE frames[1].kind = "handshake" /\ frames[1].arg \notin {"status", "other_version"}
             /\ ~config.rate_limited
    BY <1>1, <1>6 DEF L!ReadHandshake, Turns
  <1> QED BY <1>2, <1>3, <1>4, <1>5, <1>6

LEMMA StatusStep ==
  ASSUME LoginTypes, L!ReadStatus
  PROVE  /\ reading \in {"status", "ping"} /\ Took
         /\ \/ /\ frames[1].kind # IF reading = "status" THEN "status_request" ELSE "ping_request"
               /\ Closes({"unexpected"})
            \/ /\ count' = count
               /\ \/ reading = "status" /\ Tells("ping", "status_answer") /\ why' = L!Nothing
                  \/ reading = "ping" /\ Tells("closed", "status_answer") /\ why' = "served"
  <1>1. reading \in {"status", "ping"} /\ Took /\ L!packet = frames[1]
    BY ReceivedTakes DEF L!ReadStatus
  <1>2. CASE frames[1].kind # IF reading = "status" THEN "status_request" ELSE "ping_request"
    BY <1>1, <1>2, ThrowCloses DEF L!ReadStatus
  <1>3. CASE frames[1].kind = IF reading = "status" THEN "status_request" ELSE "ping_request"
    <2>1. answers' = Append(answers, L!Frame(L!Packet("status_answer", L!Nothing), framing))
          /\ UNCHANGED <<count, framing, core>>
      BY <1>1, <1>3 DEF L!ReadStatus
    <2>2. Sends(1) /\ Sent(1).kind = "status_answer" /\ Sent(1).framing = framing
      BY <2>1, TellsOne, Blank DEF ServerKinds
    <2>3. reading' = (IF reading = "status" THEN "ping" ELSE "closed")
          /\ why' = (IF reading = "status" THEN L!Nothing ELSE "served")
      BY <1>1, <1>3 DEF L!ReadStatus
    <2> QED BY <1>1, <2>1, <2>2, <2>3 DEF Tells
  <1> QED BY <1>1, <1>2, <1>3

LEMMA HelloStep ==
  ASSUME LoginTypes, L!ReadHello
  PROVE  /\ reading = "hello" /\ Took
         /\ \/ frames[1].kind # "hello" /\ Closes({"unexpected"})
            \/ frames[1].kind = "hello" /\ Closes({"name"})
            \/ frames[1].kind = "hello" /\ Continues(0, framing)
  <1>1. reading = "hello" /\ Took /\ L!packet = frames[1] /\ framing \in SUBSET Transformations
    BY ReceivedTakes DEF L!ReadHello, LoginTypes
  <1>2. CASE frames[1].kind # "hello"
    BY <1>1, <1>2, ThrowCloses DEF L!ReadHello
  <1>3. CASE frames[1].kind = "hello" /\ L!Refuse("name")
    BY <1>1, <1>3, RefuseCloses DEF Words
  <1>4. CASE frames[1].kind = "hello" /\ L!AskAfter(0, framing)
    BY <1>1, <1>4, AskAfterContinues
  <1> QED BY <1>1, <1>2, <1>3, <1>4 DEF L!ReadHello

LEMMA CookieStep ==
  ASSUME LoginTypes, L!ReadCookie
  PROVE  /\ reading = "cookie" /\ Took
         /\ \/ /\ frames[1].kind # "cookie_response" \/ frames[1].arg = "other_key"
               /\ Closes({"unexpected"})
            \/ frames[1].kind = "cookie_response" /\ Continues(1, framing)
  <1>1. reading = "cookie" /\ Took /\ L!packet = frames[1] /\ framing \in SUBSET Transformations
    BY ReceivedTakes DEF L!ReadCookie, LoginTypes
  <1>2. CASE frames[1].kind # "cookie_response" \/ frames[1].arg = "other_key"
    BY <1>1, <1>2, ThrowCloses DEF L!ReadCookie
  <1>3. CASE ~(frames[1].kind # "cookie_response" \/ frames[1].arg = "other_key")
    BY <1>1, <1>3, AskAfterContinues DEF L!ReadCookie
  <1> QED BY <1>2, <1>3

LEMMA KeyStep ==
  ASSUME LoginTypes, L!ReadKey
  PROVE  /\ reading = "key" /\ Took
         /\ \/ /\ frames[1].kind # "key" \/ frames[1].arg = "other_challenge"
               /\ Closes({"unexpected"})
            \/ /\ frames[1].kind = "key" /\ frames[1].arg # "other_challenge"
               /\ \/ /\ config.online /\ reading' = "verify"
                     /\ framing' = framing \cup {"cipher"}
                     /\ UNCHANGED <<count, core, why, answers>>
                  \/ ~config.online /\ Continues(2, framing \cup {"cipher"})
  <1>1. reading = "key" /\ Took /\ L!packet = frames[1] /\ config \in L!ServerConfigs
        /\ framing \cup {"cipher"} \in SUBSET Transformations
    BY ReceivedTakes, ConfigTyped DEF L!ReadKey, LoginTypes, Transformations
  <1>2. CASE frames[1].kind # "key" \/ frames[1].arg = "other_challenge"
    <2>1. L!Throw("unexpected")
      BY <1>1, <1>2 DEF L!ReadKey
    <2> QED BY <1>1, <1>2, <2>1, ThrowCloses
  <1>3. CASE ~(frames[1].kind # "key" \/ frames[1].arg = "other_challenge") /\ config.online
    BY <1>1, <1>3 DEF L!ReadKey, L!Enciphered
  <1>4. CASE ~(frames[1].kind # "key" \/ frames[1].arg = "other_challenge") /\ ~config.online
    <2>1. L!AskAfter(2, framing \cup {"cipher"})
      BY <1>1, <1>4 DEF L!ReadKey, L!Enciphered
    <2> QED BY <1>1, <1>4, <2>1, AskAfterContinues
  <1> QED BY <1>2, <1>3, <1>4

LEMMA VerifyStep ==
  ASSUME LoginTypes, L!Verify
  PROVE  /\ reading = "verify" /\ Stays
         /\ \/ Closes({"unverified", "unavailable"})
            \/ joiner.genuine /\ Continues(2, framing)
  <1>1. reading = "verify" /\ Stays /\ framing \in SUBSET Transformations
    BY DEF L!Verify, Stays, LoginTypes
  <1>2. PICK reply \in L!Replies :
          CASE L!Authenticated(reply) = "yes" -> L!AskAfter(2, framing)
            [] L!Authenticated(reply) = "no" -> L!Refuse("unverified")
            [] OTHER -> L!Refuse("unavailable")
    BY DEF L!Verify
  <1>3. CASE L!Authenticated(reply) = "yes"
    <2>1. joiner.genuine
      BY <1>3 DEF L!Authenticated, L!Replies
    <2>2. L!AskAfter(2, framing)
      BY <1>2, <1>3
    <2> QED BY <1>1, <2>1, <2>2, AskAfterContinues
  <1>4. CASE L!Authenticated(reply) = "no"
    <2>1. Closes({"unverified"})
      BY <1>2, <1>4, RefuseCloses DEF Words
    <2> QED BY <1>1, <2>1 DEF Closes
  <1>5. CASE L!Authenticated(reply) \notin {"yes", "no"}
    <2>1. Closes({"unavailable"})
      BY <1>2, <1>5, RefuseCloses DEF Words
    <2> QED BY <1>1, <2>1 DEF Closes
  <1> QED BY <1>3, <1>4, <1>5

LEMMA AnswerStep ==
  ASSUME LoginTypes, L!ReadAnswer
  PROVE  /\ reading = "answer" /\ Took
         /\ \/ /\ frames[1].kind # "custom_query_answer" \/ frames[1].arg = "other_transaction"
               /\ Closes({"unexpected", "transaction"})
            \/ /\ frames[1].kind = "custom_query_answer" /\ frames[1].arg = "declined"
               /\ config.require_query /\ Closes({"query"})
            \/ /\ frames[1].kind = "custom_query_answer" /\ frames[1].arg # "other_transaction"
               /\ config.require_query => frames[1].arg # "declined"
               /\ Continues(3, framing)
  <1>1. reading = "answer" /\ Took /\ L!packet = frames[1] /\ framing \in SUBSET Transformations
    BY ReceivedTakes DEF L!ReadAnswer, LoginTypes
  <1> DEFINE p == frames[1]
  <1>2. CASE p.kind # "custom_query_answer"
    <2>1. Closes({"unexpected"})
      BY <1>1, <1>2, ThrowCloses DEF L!ReadAnswer
    <2> QED BY <1>1, <1>2, <2>1 DEF Closes
  <1>3. CASE p.kind = "custom_query_answer" /\ p.arg = "other_transaction"
    <2>1. L!Refuse("transaction")
      BY <1>1, <1>3 DEF L!ReadAnswer
    <2>2. Closes({"transaction"})
      BY <2>1, RefuseCloses DEF Words
    <2> QED BY <1>1, <1>3, <2>2 DEF Closes
  <1>4. CASE /\ p.kind = "custom_query_answer" /\ p.arg # "other_transaction"
             /\ config.require_query /\ p.arg = "declined"
    <2>1. L!Refuse("query")
      BY <1>1, <1>4 DEF L!ReadAnswer
    <2>2. Closes({"query"})
      BY <2>1, RefuseCloses DEF Words
    <2> QED BY <1>1, <1>4, <2>2
  <1>5. CASE /\ p.kind = "custom_query_answer" /\ p.arg # "other_transaction"
             /\ ~(config.require_query /\ p.arg = "declined")
    <2>1. L!AskAfter(3, framing)
      BY <1>1, <1>5 DEF L!ReadAnswer
    <2> QED BY <1>1, <1>5, <2>1, AskAfterContinues
  <1> QED BY <1>2, <1>3, <1>4, <1>5

LEMMA AcknowledgedStep ==
  ASSUME LoginTypes, L!ReadAcknowledged
  PROVE  /\ reading = "acknowledged" /\ Took
         /\ \/ frames[1].kind # "acknowledged" /\ Closes({"unexpected"})
            \/ /\ frames[1].kind = "acknowledged" /\ Tells("packs", "select_known_packs")
               /\ count' = 0 /\ why' = why
  <1>1. reading = "acknowledged" /\ Took /\ L!packet = frames[1]
    BY ReceivedTakes DEF L!ReadAcknowledged
  <1>2. CASE frames[1].kind # "acknowledged"
    BY <1>1, <1>2, ThrowCloses DEF L!ReadAcknowledged
  <1>3. CASE frames[1].kind = "acknowledged"
    <2>1. /\ reading' = "packs" /\ count' = 0
          /\ answers' = Append(answers, L!Frame(L!Packet("select_known_packs", L!Nothing), framing))
          /\ UNCHANGED <<framing, core, why>>
      BY <1>1, <1>3 DEF L!ReadAcknowledged
    <2>2. /\ Sends(1) /\ Sent(1).kind = "select_known_packs" /\ Sent(1).framing = framing
      BY <2>1, TellsOne, Blank DEF ServerKinds
    <2> QED BY <1>1, <1>3, <2>1, <2>2 DEF Tells
  <1> QED BY <1>2, <1>3

\* The packets that end the configuration.
LEMMA FinishingTyped ==
  ASSUME LoginTypes, NEW c \in BOOLEAN, NEW push, push \in {<<>>, <<L!Packet("resource_pack_push", L!Nothing)>>},
         answers' = answers \o L!Framed(push \o L!Finishing(c), framing)
  PROVE  LET n == Len(push) IN
         /\ Sends(n + 2) /\ n \in 0..1
         /\ n = 1 => Sent(1).kind = "resource_pack_push" /\ Sent(1).framing = framing
         /\ Sent(n + 1).kind = "registry_data" /\ Sent(n + 1).framing = framing
         /\ Sent(n + 1).arg = IF c THEN "identifiers" ELSE "inline"
         /\ Sent(n + 2).kind = "finish" /\ Sent(n + 2).framing = framing
  <1> DEFINE Ps == [kind : ClientKinds \cup ServerKinds, arg : Words]
             p == L!Packet("resource_pack_push", L!Nothing)
             a == L!Packet("registry_data", IF c THEN "identifiers" ELSE "inline")
             b == L!Packet("finish", L!Nothing)
             ps == push \o <<a, b>>
             n == Len(push)
  <1>0. "identifiers" \in Words /\ "inline" \in Words /\ L!Nothing \in Words
    BY DEF Words, L!Nothing
  <1>1. /\ p \in Ps /\ a \in Ps /\ b \in Ps
        /\ p.kind = "resource_pack_push" /\ a.kind = "registry_data" /\ b.kind = "finish"
        /\ a.arg = IF c THEN "identifiers" ELSE "inline"
    BY <1>0 DEF L!Packet, ServerKinds
  <1>2. /\ framing \in SUBSET Transformations /\ answers \in Seq(FromServer)
    BY DEF LoginTypes
  <1>3. ASSUME NEW x \in {p, a, b}
        PROVE  /\ L!Frame(x, framing) \in FromServer /\ L!Frame(x, framing).kind = x.kind
               /\ L!Frame(x, framing).arg = x.arg /\ L!Frame(x, framing).framing = framing
    BY <1>1, <1>2 DEF L!Frame, FromServer
  <1>4. L!Finishing(c) = <<a, b>>
    BY DEF L!Finishing
  <1> HIDE DEF p, a, b, Ps
  <1>5. CASE push = <<>>
    <2>1. ps = <<a, b>> /\ push \o L!Finishing(c) = <<a, b>> /\ n = 0
      BY <1>4, <1>5
    <2>2. answers' = answers \o <<L!Frame(a, framing), L!Frame(b, framing)>>
      <3>1. L!Framed(<<a, b>>, framing) = <<L!Frame(a, framing), L!Frame(b, framing)>>
        BY DEF L!Framed
      <3> QED BY <2>1, <3>1
    <2>3. Sends(2) /\ Sent(1) = L!Frame(a, framing) /\ Sent(2) = L!Frame(b, framing)
      BY <1>2, <1>3, <2>2, WrittenTwo DEF Sends, Sent
    <2> QED BY <1>1, <1>3, <2>1, <2>3
  <1>6. CASE push = <<p>>
    <2>1. push \o L!Finishing(c) = <<p>> \o <<a, b>> /\ n = 1
      BY <1>4, <1>6
    <2>2. answers' = answers \o <<L!Frame(p, framing), L!Frame(a, framing), L!Frame(b, framing)>>
      <3>1. L!Framed(<<p>> \o <<a, b>>, framing)
              = <<L!Frame(p, framing), L!Frame(a, framing), L!Frame(b, framing)>>
        BY DEF L!Framed
      <3> QED BY <2>1, <3>1
    <2>3. /\ Sends(3) /\ Sent(1) = L!Frame(p, framing) /\ Sent(2) = L!Frame(a, framing)
          /\ Sent(3) = L!Frame(b, framing)
      BY <1>2, <1>3, <2>2, WrittenThree DEF Sends, Sent
    <2> QED BY <1>1, <1>3, <2>1, <2>3
  <1> QED BY <1>5, <1>6 DEF p

LEMMA SkipStep ==
  ASSUME LoginTypes, NEW limit, L!Skip(limit)
  PROVE  Idles(limit) \/ (count + 1 = limit /\ Closes({"limit"}))
  BY ThrowCloses DEF L!Skip, Idles

\* What follows the selection of the packs: a push, the end, or both.
Selects ==
  /\ core' = (frames[1].arg = "core") /\ count' = 0
  /\ \/ /\ config.pack /\ config.require_pack
        /\ reading' = "response" /\ UNCHANGED <<framing, why>>
        /\ Sends(1) /\ Sent(1).kind = "resource_pack_push" /\ Sent(1).framing = framing
     \/ ~(config.pack /\ config.require_pack) /\ \E n \in 0..1 : Finishes(n)

LEMMA PacksStep ==
  ASSUME LoginTypes, L!ReadPacks
  PROVE  /\ reading = "packs" /\ Took
         /\ \/ frames[1].kind \in L!Ancillary /\ (Idles(KnownPackPackets)
                   \/ (count + 1 = KnownPackPackets /\ Closes({"limit"})))
            \/ frames[1].kind \notin L!Ancillary \cup {"select_known_packs"} /\ Closes({"unexpected"})
            \/ /\ frames[1].kind = "select_known_packs" /\ frames[1].arg = "unknown"
               /\ Closes({"packs"})
            \/ /\ frames[1].kind = "select_known_packs" /\ frames[1].arg # "unknown"
               /\ Selects
  <1> DEFINE p == frames[1]
             push == L!Packet("resource_pack_push", L!Nothing)
  <1>1. reading = "packs" /\ Took /\ L!packet = p /\ config \in L!ServerConfigs
        /\ p \in FromClient /\ "select_known_packs" \notin L!Ancillary
    BY ReceivedTakes, ConfigTyped DEF L!ReadPacks, LoginTypes, L!Ancillary
  <1>2. CASE p.kind = "select_known_packs" /\ p.arg = "unknown"
    <2>1. L!Throw("packs")
      BY <1>1, <1>2 DEF L!ReadPacks
    <2> QED BY <1>1, <1>2, <2>1, ThrowCloses
  <1>3. CASE p.kind = "select_known_packs" /\ p.arg # "unknown"
    <2>1. L!Selected(p.arg)
      BY <1>1, <1>3 DEF L!ReadPacks
    <2>2. core' = (p.arg = "core") /\ count' = 0 /\ UNCHANGED <<framing, why>>
      BY <2>1 DEF L!Selected
    <2>3. CASE config.pack /\ config.require_pack
      <3>1. reading' = "response" /\ answers' = answers \o L!Framed(<<push>> \o <<>>, framing)
        BY <2>1, <2>3 DEF L!Selected
      <3>2. L!Framed(<<push>> \o <<>>, framing) = <<L!Frame(push, framing)>>
        BY DEF L!Framed
      <3>3. /\ L!Frame(push, framing) \in FromServer
            /\ L!Frame(push, framing).kind = "resource_pack_push"
            /\ L!Frame(push, framing).framing = framing /\ answers \in Seq(FromServer)
        BY FrameTyped, Blank DEF LoginTypes, ServerKinds
      <3> HIDE DEF push
      <3>4. Sends(1) /\ Sent(1) = L!Frame(push, framing)
        BY <3>1, <3>2, <3>3, WrittenOne DEF Sends, Sent
      <3> QED BY <1>1, <1>3, <2>2, <2>3, <3>1, <3>3, <3>4 DEF Selects
    <2>4. CASE ~(config.pack /\ config.require_pack)
      <3> DEFINE before == IF config.pack THEN <<push>> ELSE <<>>
      <3>1. reading' = "finish" /\ answers' = answers \o L!Framed(before \o L!Finishing(core'), framing)
        BY <2>1, <2>4 DEF L!Selected
      <3>2. before \in {<<>>, <<push>>} /\ core' \in BOOLEAN
        BY <2>2
      <3> HIDE DEF before
      <3> DEFINE n == Len(before)
      <3>3. /\ Sends(n + 2) /\ n \in 0..1
            /\ n = 1 => Sent(1).kind = "resource_pack_push" /\ Sent(1).framing = framing
            /\ Sent(n + 1).kind = "registry_data" /\ Sent(n + 1).framing = framing
            /\ Sent(n + 1).arg = IF core' THEN "identifiers" ELSE "inline"
            /\ Sent(n + 2).kind = "finish" /\ Sent(n + 2).framing = framing
        BY <3>1, <3>2, FinishingTyped
      <3> HIDE DEF n
      <3>4. Finishes(n)
        BY <2>2, <3>1, <3>3 DEF Finishes
      <3> QED BY <1>1, <1>3, <2>2, <2>4, <3>3, <3>4 DEF Selects
    <2> QED BY <2>3, <2>4
  <1>4. CASE p.kind \in L!Ancillary
    <2>1. L!Skip(KnownPackPackets)
      BY <1>1, <1>4 DEF L!ReadPacks
    <2> QED BY <1>1, <1>4, <2>1, SkipStep
  <1>5. CASE p.kind \notin L!Ancillary \cup {"select_known_packs"}
    <2>1. L!Refuse("unexpected")
      BY <1>1, <1>5 DEF L!ReadPacks
    <2> QED BY <1>1, <1>5, <2>1, RefuseCloses DEF Words
  <1> QED BY <1>2, <1>3, <1>4, <1>5

LEMMA ResponseStep ==
  ASSUME LoginTypes, L!ReadResponse
  PROVE  /\ reading = "response" /\ Took
         /\ \/ /\ frames[1].kind # "resource_pack" \/ frames[1].arg = "other_id"
               /\ Closes({"unexpected"})
            \/ /\ frames[1].kind = "resource_pack" /\ frames[1].arg = "loaded"
               /\ core' = core /\ Finishes(0)
            \/ /\ frames[1].kind = "resource_pack" /\ frames[1].arg \in {"accepted", "downloaded"}
               /\ Idles(PackResponses) \/ (count + 1 = PackResponses /\ Closes({"limit"}))
            \/ /\ frames[1].kind = "resource_pack"
               /\ frames[1].arg \notin {"loaded", "accepted", "downloaded"} /\ Closes({"pack"})
  <1> DEFINE p == frames[1]
  <1>1. reading = "response" /\ Took /\ L!packet = p
    BY ReceivedTakes DEF L!ReadResponse
  <1>2. CASE p.kind # "resource_pack"
    <2>1. L!Refuse("unexpected")
      BY <1>1, <1>2 DEF L!ReadResponse
    <2> QED BY <1>1, <1>2, <2>1, RefuseCloses DEF Words
  <1>3. CASE p.kind = "resource_pack" /\ p.arg = "other_id"
    <2>1. L!Throw("unexpected")
      BY <1>1, <1>3 DEF L!ReadResponse
    <2> QED BY <1>1, <1>3, <2>1, ThrowCloses
  <1>4. CASE p.kind = "resource_pack" /\ p.arg = "loaded"
    <2>1. /\ reading' = "finish" /\ count' = 0 /\ UNCHANGED <<framing, core, why>>
          /\ answers' = answers \o L!Framed(L!Finishing(core), framing)
      BY <1>1, <1>4 DEF L!ReadResponse
    <2>2. <<>> \o L!Finishing(core) = L!Finishing(core)
      BY DEF L!Finishing
    <2>3. answers' = answers \o L!Framed(<<>> \o L!Finishing(core), framing) /\ core \in BOOLEAN
      BY <2>1, <2>2 DEF LoginTypes
    <2>4. /\ Sends(0 + 2)
          /\ Sent(0 + 1).kind = "registry_data" /\ Sent(0 + 1).framing = framing
          /\ Sent(0 + 1).arg = IF core THEN "identifiers" ELSE "inline"
          /\ Sent(0 + 2).kind = "finish" /\ Sent(0 + 2).framing = framing
      <3>1. Len(<<>>) = 0
        OBVIOUS
      <3> QED BY <2>3, <3>1, FinishingTyped
    <2>5. Finishes(0)
      BY <2>1, <2>4 DEF Finishes
    <2> QED BY <1>1, <1>4, <2>1, <2>5
  <1>5. CASE p.kind = "resource_pack" /\ p.arg \in {"accepted", "downloaded"}
    <2>1. L!Skip(PackResponses)
      BY <1>1, <1>5 DEF L!ReadResponse
    <2> QED BY <1>1, <1>5, <2>1, SkipStep
  <1>6. CASE p.kind = "resource_pack" /\ p.arg \notin {"other_id", "loaded", "accepted", "downloaded"}
    <2>1. L!Refuse("pack")
      BY <1>1, <1>6 DEF L!ReadResponse
    <2> QED BY <1>1, <1>6, <2>1, RefuseCloses DEF Words
  <1> QED BY <1>2, <1>3, <1>4, <1>5, <1>6

LEMMA FinishStep ==
  ASSUME LoginTypes, L!ReadFinish
  PROVE  /\ reading = "finish" /\ Took
         /\ \/ /\ frames[1].kind = "finish" /\ Tells("play", "join") /\ count' = count /\ why' = why
            \/ frames[1].kind \in L!Ancillary /\ (Idles(FinishPackets)
                   \/ (count + 1 = FinishPackets /\ Closes({"limit"})))
            \/ frames[1].kind \notin L!Ancillary \cup {"finish"} /\ Closes({"unexpected"})
  <1> DEFINE p == frames[1]
  <1>1. reading = "finish" /\ Took /\ L!packet = p /\ "finish" \notin L!Ancillary
    BY ReceivedTakes DEF L!ReadFinish, L!Ancillary
  <1>2. CASE p.kind = "finish"
    <2>1. /\ reading' = "play" /\ UNCHANGED <<count, framing, core, why>>
          /\ answers' = Append(answers, L!Frame(L!Packet("join", L!Nothing), framing))
      BY <1>1, <1>2 DEF L!ReadFinish
    <2>2. /\ Sends(1) /\ Sent(1).kind = "join" /\ Sent(1).framing = framing
      BY <2>1, TellsOne, Blank DEF ServerKinds
    <2> QED BY <1>1, <1>2, <2>1, <2>2 DEF Tells
  <1>3. CASE p.kind \in L!Ancillary
    <2>1. L!Skip(FinishPackets)
      BY <1>1, <1>3 DEF L!ReadFinish
    <2> QED BY <1>1, <1>3, <2>1, SkipStep
  <1>4. CASE p.kind \notin L!Ancillary \cup {"finish"}
    <2>1. L!Refuse("unexpected")
      BY <1>1, <1>4 DEF L!ReadFinish
    <2> QED BY <1>1, <1>4, <2>1, RefuseCloses DEF Words
  <1> QED BY <1>2, <1>3, <1>4

LEMMA SilenceStep ==
  ASSUME LoginTypes, L!Garbled \/ L!TimeOut
  PROVE  /\ Stays /\ reading \in L!Reading
         /\ \/ frames # <<>> /\ frames[1].framing # framing /\ Closes({"noise"})
            \/ frames = <<>> /\ Closes({"timeout", "peer closed"})
  <1>1. CASE L!Garbled
    BY <1>1, ThrowCloses, Rest DEF L!Garbled, L!packet, Stays, LoginTypes
  <1>2. CASE L!TimeOut
    <2>1. Stays /\ reading \in L!Reading /\ frames = <<>>
          /\ L!Throw(IF joiner.open THEN "timeout" ELSE "peer closed")
      BY <1>2 DEF L!TimeOut, Stays
    <2>2. Closes({IF joiner.open THEN "timeout" ELSE "peer closed"})
      BY <2>1, ThrowCloses
    <2> QED BY <2>1, <2>2 DEF Closes
  <1> QED BY <1>1, <1>2

---------------------------------------------------------------------------
(* The gates: what every step of the server keeps, for any client. *)

\* The next read is no earlier than it may be, and the packets are those of its stage.
Advances(n) ==
  /\ Took \/ Stays
  /\ reading' \in L!Reading \cup {"verify", "play", "closed"} /\ count' \in Nat /\ core' \in BOOLEAN
  /\ framing' \in SUBSET Transformations /\ framing \subseteq framing' /\ Sends(n)
  /\ reading' \in PastHandshake =>
       reading \in PastHandshake \/ (config.intention # "status" /\ ~config.rate_limited)
  /\ reading' \in PastKey /\ (config.online \/ config.encrypted_offline) =>
       reading \in PastKey \/ (joiner.proved /\ "cipher" \in framing')
  /\ reading' = "verify" => config.online
  /\ reading' \in PastProfile /\ config.online => reading \in PastProfile \/ joiner.genuine
  /\ reading' \in PastQuery /\ config.require_query =>
       reading \in PastQuery \/ (joiner.answered /\ No(answers, "custom_query"))
  /\ reading' \in PastResponse /\ config.require_pack =>
       \/ reading \in PastResponse
       \/ joiner.loaded /\ joiner.todo = <<>> /\ No(answers, "resource_pack_push")
  /\ reading' \in BeforeQuery => reading \in BeforeQuery
  /\ reading' \in BeforePush => reading \in BeforePush
  /\ reading' \in PastResponse => reading \in PastResponse \/ (n > 0 /\ Sent(n).kind = "finish")
  /\ \A i \in 1..n :
       /\ Sent(i).kind = "custom_query" => n = 1 /\ reading \in BeforeQuery /\ reading' = "answer"
       /\ Sent(i).kind = "resource_pack_push" =>
            /\ i = 1 /\ reading \in BeforePush /\ reading' \in {"response", "finish"}
            /\ reading' = "finish" => ~config.require_pack
       /\ Sent(i).kind = "join" => reading = "finish"

\* Every summarised step keeps the gates.
LEMMA AdvancesSafe ==
  ASSUME GateInv, NEW n \in 0..3, Advances(n)
  PROVE  GateInv'
  <1>1. LoginTypes'
    BY DEF GateInv, LoginTypes, Advances, Took, Stays, Sends, L!ConfigAccepted
  <1>2. /\ config' = config /\ joiner' = joiner
        /\ \A i \in 1..Len(frames') : \E j \in 1..Len(frames) : frames'[i] = frames[j]
    BY DEF Advances, Took, Stays
  <1>3. /\ Len(answers) \in Nat /\ Len(answers') = Len(answers) + n
        /\ \A i \in 1..Len(answers) : answers'[i] = answers[i]
        /\ \A i \in Len(answers) + 1..Len(answers') :
             i - Len(answers) \in 1..n /\ answers'[i] = Sent(i - Len(answers))
        /\ n > 0 => Sent(n) = answers'[Len(answers')]
    BY DEF GateInv, LoginTypes, Advances, Sends, Sent, Grows, Following
  <1>4. Announced'
    BY <1>2 DEF GateInv, Announced, Advances
  <1>5. Proved'
    <2>1. PastProfile \subseteq PastKey
      BY DEF PastKey
    <2> QED BY <1>2, <2>1 DEF GateInv, Proved, Advances
  <1>6. Answered'
    <2>1. No(answers, "custom_query") /\ (\A i \in 1..n : Sent(i).kind # "custom_query")
            => No(answers', "custom_query")
      BY <1>3 DEF No
    <2>2. Once(answers', "custom_query")
      <3>1. CASE \E i \in 1..n : Sent(i).kind = "custom_query"
        <4>1. n = 1 /\ No(answers, "custom_query")
          BY <3>1 DEF GateInv, Answered, Advances
        <4> QED BY <1>3, <4>1 DEF Once, No
      <3>2. CASE \A i \in 1..n : Sent(i).kind # "custom_query"
        BY <1>3, <3>2 DEF GateInv, Answered, Once
      <3> QED BY <3>1, <3>2
    <2>3. reading' \in BeforeQuery \cup PastQuery => \A i \in 1..n : Sent(i).kind # "custom_query"
      BY DEF Advances, BeforeQuery, PastQuery, PastResponse
    <2>4. reading' \in BeforeQuery => No(answers', "custom_query")
      BY <2>1, <2>3 DEF GateInv, Answered, Advances
    <2>5. reading' \in PastQuery /\ config.require_query =>
            joiner.answered /\ No(answers', "custom_query")
      BY <2>1, <2>3 DEF GateInv, Answered, Advances
    <2>6. reading \notin BeforeQuery => \A i \in 1..n : Sent(i).kind # "custom_query"
      BY DEF Advances
    <2>7. reading' \in BeforeQuery => reading \in BeforeQuery
      BY DEF Advances
    <2>8. \A i \in 1..Len(frames') :
            frames'[i].kind = "custom_query_answer"
              /\ frames'[i].arg \notin {"declined", "other_transaction"} =>
                 /\ reading' \notin BeforeQuery
                 /\ joiner.answered /\ No(answers', "custom_query")
      BY <1>2, <2>1, <2>6, <2>7 DEF GateInv, Answered
    <2> QED BY <1>2, <2>2, <2>4, <2>5, <2>8 DEF Answered
  <1>7. Loaded'
    <2>1. No(answers, "resource_pack_push") /\ (\A i \in 1..n : Sent(i).kind # "resource_pack_push")
            => No(answers', "resource_pack_push")
      BY <1>3 DEF No
    <2>2. Once(answers', "resource_pack_push")
      <3>1. CASE \E i \in 1..n : Sent(i).kind = "resource_pack_push"
        <4>1. No(answers, "resource_pack_push")
          BY <3>1 DEF GateInv, Loaded, Advances
        <4>2. \A i \in 1..n : Sent(i).kind = "resource_pack_push" => i = 1
          BY DEF Advances
        <4> QED BY <1>3, <4>1, <4>2 DEF Once, No
      <3>2. CASE \A i \in 1..n : Sent(i).kind # "resource_pack_push"
        BY <1>3, <3>2 DEF GateInv, Loaded, Once
      <3> QED BY <3>1, <3>2
    <2>3. reading' \in BeforePush => \A i \in 1..n : Sent(i).kind # "resource_pack_push"
      BY DEF Advances, BeforePush, BeforeQuery
    <2>4. reading \notin BeforePush => \A i \in 1..n : Sent(i).kind # "resource_pack_push"
      BY DEF Advances
    <2>5. reading' \in BeforePush => reading \in BeforePush
      BY DEF Advances
    <2>6. reading' \in PastResponse /\ config.require_pack =>
            joiner.loaded /\ joiner.todo = <<>> /\ No(answers', "resource_pack_push")
      <3> SUFFICES ASSUME reading' \in PastResponse, config.require_pack
                   PROVE  joiner.loaded /\ joiner.todo = <<>> /\ No(answers', "resource_pack_push")
        OBVIOUS
      <3>1. joiner.loaded /\ joiner.todo = <<>> /\ No(answers, "resource_pack_push")
        BY DEF GateInv, Loaded, Advances
      <3>2. \A i \in 1..n : Sent(i).kind # "resource_pack_push"
        BY DEF Advances, PastResponse
      <3> QED BY <2>1, <3>1, <3>2
    <2>7. \A i \in 1..Len(frames') :
            frames'[i].kind = "resource_pack" /\ frames'[i].arg = "loaded" =>
              /\ reading' \notin BeforePush
              /\ joiner.loaded /\ joiner.todo = <<>> /\ No(answers', "resource_pack_push")
      BY <1>2, <2>1, <2>4, <2>5 DEF GateInv, Loaded
    <2>8. reading' \in BeforePush => No(answers', "resource_pack_push") /\ joiner.todo = <<>>
      BY <2>1, <2>3, <2>5 DEF GateInv, Loaded
    <2>9. joiner.todo # <<>> => No(answers', "resource_pack_push")
      BY <2>1, <2>4 DEF GateInv, Loaded
    <2> QED BY <1>2, <2>2, <2>6, <2>7, <2>8, <2>9 DEF GateInv, Loaded
  <1>8. Joined'
    <2>1. reading' \in PastResponse => joiner.in = "play" \/ ~No(answers', "finish")
      <3>1. reading \in PastResponse => joiner.in = "play" \/ ~No(answers', "finish")
        BY <1>3 DEF GateInv, Joined, No
      <3>2. n > 0 /\ Sent(n).kind = "finish" => ~No(answers', "finish")
        BY <1>3 DEF No
      <3> QED BY <3>1, <3>2 DEF Advances
    <2>2. \A i \in 1..Len(answers') :
            answers'[i].kind = "join" =>
              joiner.in = "play" \/ \E j \in 1..i - 1 : answers'[j].kind = "finish"
      <3> SUFFICES ASSUME NEW i \in 1..Len(answers'), answers'[i].kind = "join", joiner.in # "play"
                   PROVE  \E j \in 1..i - 1 : answers'[j].kind = "finish"
        OBVIOUS
      <3>1. CASE i \in 1..Len(answers)
        BY <1>3, <3>1 DEF GateInv, Joined
      <3>2. CASE i \notin 1..Len(answers)
        <4>1. i \in Len(answers) + 1..Len(answers')
          BY <1>3, <3>2
        <4>2. reading = "finish"
          BY <1>3, <4>1 DEF Advances
        <4>3. ~No(answers, "finish")
          BY <4>2 DEF GateInv, Joined, PastResponse
        <4> QED BY <1>3, <4>1, <4>3 DEF No
      <3> QED BY <3>1, <3>2
    <2> QED BY <1>2, <2>1, <2>2 DEF Joined
  <1> QED BY <1>1, <1>4, <1>5, <1>6, <1>7, <1>8 DEF GateInv

LEMMA SilentSends ==
  ASSUME LoginTypes, answers' = answers
  PROVE  Sends(0)
  BY DEF LoginTypes, Sends, Grows

LEMMA ClosesAdvances ==
  ASSUME LoginTypes, Took \/ Stays, NEW reasons, Closes(reasons)
  PROVE  \E n \in 0..3 : Advances(n)
  <1> USE DEF PastHandshake, PastKey, PastProfile, PastQuery, PastResponse, BeforePush, BeforeQuery
  <1>1. /\ reading' = "closed" /\ count' = count /\ framing' = framing /\ core' = core
        /\ count' \in Nat /\ core' \in BOOLEAN /\ framing' \in SUBSET Transformations
    BY DEF LoginTypes, Closes
  <1>2. CASE answers' = answers
    <2>1. Advances(0)
      BY <1>1, <1>2, SilentSends DEF Advances
    <2> QED BY <2>1
  <1>3. CASE Sends(1) /\ Sent(1).kind = "disconnect"
    <2>1. Advances(1)
      BY <1>1, <1>3 DEF Advances
    <2> QED BY <2>1
  <1> QED BY <1>2, <1>3 DEF Closes

\* A read that changes no more than the count and the next read.
LEMMA QuietAdvances ==
  ASSUME LoginTypes, Took, answers' = answers, framing' = framing, core' = core, count' \in Nat,
         \/ reading' = reading /\ reading \notin {"closed", "verify"}
         \/ reading = "handshake" /\ reading' = "status"
         \/ /\ reading = "handshake" /\ reading' = "hello"
            /\ config.intention # "status" /\ ~config.rate_limited
  PROVE  \E n \in 0..3 : Advances(n)
  <1> USE DEF PastHandshake, PastKey, PastProfile, PastQuery, PastResponse, BeforePush, BeforeQuery
  <1>1. core' \in BOOLEAN /\ framing' \in SUBSET Transformations /\ Sends(0)
        /\ reading' \in L!Reading \cup {"verify", "play", "closed"}
    BY SilentSends DEF LoginTypes, L!Reading
  <1>2. Advances(0)
    BY <1>1 DEF Advances
  <1> QED BY <1>2

LEMMA ContinuesAdvances ==
  ASSUME GateInv, Took \/ Stays, NEW k \in 0..3, NEW f \in SUBSET Transformations, Continues(k, f),
         framing \subseteq f,
         \/ reading = "hello" /\ k = 0
         \/ reading = "cookie" /\ k = 1
         \/ reading = "answer" /\ k = 3
         \/ reading = "verify" /\ config.online /\ k = 2
         \/ reading = "key" /\ ~config.online /\ k = 2,
         k = 2 /\ reading = "key" => joiner.proved /\ "cipher" \in f,
         k = 2 /\ reading = "verify" => joiner.genuine,
         k = 3 /\ config.require_query => joiner.answered /\ No(answers, "custom_query")
  PROVE  \E n \in 0..3 : Advances(n)
  <1> USE DEF PastHandshake, PastKey, PastProfile, PastQuery, PastResponse, BeforePush, BeforeQuery
  <1>1. count' \in Nat /\ core' \in BOOLEAN /\ config \in L!ServerConfigs /\ L!ConfigAccepted(config)
        /\ count' = count /\ core' = core
    BY ConfigTyped DEF GateInv, LoginTypes, Continues
  <1>2. \/ reading = "hello" /\ k = 0
        \/ reading = "cookie" /\ k = 1
        \/ reading = "answer" /\ k = 3
        \/ reading = "verify" /\ config.online /\ k = 2
        \/ reading = "key" /\ ~config.online /\ k = 2
    OBVIOUS
  <1>3. /\ f \cup {"compressed"} \in SUBSET Transformations
        /\ framing \subseteq f \cup {"compressed"}
        /\ k = 2 /\ (config.online \/ config.encrypted_offline) =>
             reading \in PastKey \/ (joiner.proved /\ "cipher" \in f)
    BY <1>2 DEF Transformations
  <1>4. CASE k < 1 /\ Asks1("cookie", "cookie_request", f)
    <2>1. Advances(1)
      BY <1>1, <1>2, <1>3, <1>4 DEF Advances, Asks1, L!Reading
    <2> QED BY <2>1
  <1>5. CASE k < 2 /\ Enciphers /\ Asks1("key", "encryption_request", f)
    <2>1. Advances(1)
      BY <1>1, <1>2, <1>3, <1>5 DEF Advances, Asks1, L!Reading
    <2> QED BY <2>1
  <1>6. CASE k < 3 /\ (k < 2 => ~Enciphers) /\ Asks1("answer", "custom_query", f)
    <2>1. Advances(1)
      BY <1>1, <1>2, <1>3, <1>6 DEF Advances, Asks1, L!Reading, Enciphers
    <2> QED BY <2>1
  <1>7. CASE (k < 2 => ~Enciphers) /\ (k < 3 => ~config.query) /\ Compresses(f)
    <2>1. k < 3 => ~config.require_query
      BY <1>1, <1>7 DEF L!ConfigAccepted, L!ServerConfigs
    <2>2. /\ reading' = "acknowledged" /\ framing' = f \cup {"compressed"} /\ Sends(2)
          /\ \A i \in 1..2 : Sent(i).kind \in {"compression", "finished"}
      BY <1>7 DEF Compresses
    <2>3. Advances(2)
      BY <1>1, <1>2, <1>3, <1>7, <2>1, <2>2 DEF Advances, L!Reading, Enciphers
    <2> QED BY <2>3
  <1> QED BY <1>4, <1>5, <1>6, <1>7 DEF Continues

\* Every step of the server is such a step.
LEMMA ServerAdvances ==
  ASSUME GateInv, L!ServerStep
  PROVE  \E n \in 0..3 : Advances(n)
  <1> USE DEF PastHandshake, PastKey, PastProfile, PastQuery, PastResponse, BeforePush, BeforeQuery
  <1>1. /\ LoginTypes /\ framing \in SUBSET Transformations /\ count \in Nat
        /\ core \in BOOLEAN /\ config \in L!ServerConfigs /\ L!ConfigAccepted(config)
    BY ConfigTyped DEF GateInv, LoginTypes
  <1>2. ASSUME Took PROVE 1 \in 1..Len(frames)
    BY <1>2 DEF Took
  <1>3. CASE L!ReadHandshake
    <2>1. Took /\ reading = "handshake"
      BY <1>1, <1>3, HandshakeStep
    <2>2. frames[1].kind = "handshake" /\ frames[1].arg # "status" => config.intention # "status"
      BY <1>2, <2>1 DEF GateInv, Announced
    <2> QED BY <1>1, <1>3, <2>1, <2>2, HandshakeStep, ClosesAdvances, QuietAdvances DEF Turns
  <1>4. CASE L!ReadStatus
    <2>1. Took
      BY <1>1, <1>4, StatusStep
    <2>2. CASE Closes({"unexpected"})
      BY <1>1, <2>1, <2>2, ClosesAdvances
    <2>3. CASE count' = count /\ reading = "status" /\ Tells("ping", "status_answer")
      <3>1. Advances(1)
        BY <1>1, <2>1, <2>3 DEF Advances, Tells, L!Reading
      <3> QED BY <3>1
    <2>4. CASE count' = count /\ reading = "ping" /\ Tells("closed", "status_answer")
      <3>1. Advances(1)
        BY <1>1, <2>1, <2>4 DEF Advances, Tells, L!Reading
      <3> QED BY <3>1
    <2> QED BY <1>1, <1>4, <2>2, <2>3, <2>4, StatusStep
  <1>5. CASE L!ReadHello
    <2>1. Took /\ reading = "hello"
      BY <1>1, <1>5, HelloStep
    <2>2. CASE Continues(0, framing)
      BY <1>1, <2>1, <2>2, ContinuesAdvances
    <2> QED BY <1>1, <1>5, <2>1, <2>2, HelloStep, ClosesAdvances
  <1>6. CASE L!ReadCookie
    <2>1. Took /\ reading = "cookie"
      BY <1>1, <1>6, CookieStep
    <2>2. CASE Continues(1, framing)
      BY <1>1, <2>1, <2>2, ContinuesAdvances
    <2> QED BY <1>1, <1>6, <2>1, <2>2, CookieStep, ClosesAdvances
  <1>7. CASE L!ReadKey
    <2>1. Took /\ reading = "key"
      BY <1>1, <1>7, KeyStep
    <2>2. CASE Closes({"unexpected"})
      BY <1>1, <2>1, <2>2, ClosesAdvances
    <2>3. ASSUME frames[1].kind = "key" /\ frames[1].arg # "other_challenge"
          PROVE  joiner.proved
      BY <1>2, <2>1, <2>3 DEF GateInv, Proved
    <2>4. framing \cup {"cipher"} \in SUBSET Transformations
      BY <1>1 DEF Transformations
    <2>5. CASE /\ joiner.proved /\ config.online /\ reading' = "verify"
               /\ framing' = framing \cup {"cipher"} /\ UNCHANGED <<count, core, why, answers>>
      <3>1. Advances(0)
        BY <1>1, <2>1, <2>4, <2>5, SilentSends DEF Advances
      <3> QED BY <3>1
    <2>6. CASE joiner.proved /\ ~config.online /\ Continues(2, framing \cup {"cipher"})
      BY <2>1, <2>4, <2>6, ContinuesAdvances
    <2> QED BY <1>1, <1>7, <2>2, <2>3, <2>5, <2>6, KeyStep
  <1>8. CASE L!Verify
    <2>1. Stays /\ reading = "verify"
      BY <1>1, <1>8, VerifyStep
    <2>2. CASE Closes({"unverified", "unavailable"})
      BY <1>1, <2>1, <2>2, ClosesAdvances
    <2>3. CASE joiner.genuine /\ Continues(2, framing)
      <3>1. CASE config.online
        BY <1>1, <2>1, <2>3, <3>1, ContinuesAdvances
      <3>2. CASE ~config.online
        BY <2>1, <3>2 DEF GateInv, Proved
      <3> QED BY <3>1, <3>2
    <2> QED BY <1>1, <1>8, <2>2, <2>3, VerifyStep
  <1>9. CASE L!ReadAnswer
    <2>1. Took /\ reading = "answer"
      BY <1>1, <1>9, AnswerStep
    <2>2. CASE \E r : Closes(r)
      BY <1>1, <2>1, <2>2, ClosesAdvances
    <2>3. CASE /\ frames[1].kind = "custom_query_answer" /\ frames[1].arg # "other_transaction"
               /\ config.require_query => frames[1].arg # "declined"
               /\ Continues(3, framing)
      <3>1. config.require_query => joiner.answered /\ No(answers, "custom_query")
        BY <1>2, <2>1, <2>3 DEF GateInv, Answered
      <3> QED BY <1>1, <2>1, <2>3, <3>1, ContinuesAdvances
    <2> QED BY <1>1, <1>9, <2>2, <2>3, AnswerStep
  <1>10. CASE L!ReadAcknowledged
    <2>1. Took /\ reading = "acknowledged"
      BY <1>1, <1>10, AcknowledgedStep
    <2>2. CASE Closes({"unexpected"})
      BY <1>1, <2>1, <2>2, ClosesAdvances
    <2>3. CASE Tells("packs", "select_known_packs") /\ count' = 0
      <3>1. Advances(1)
        BY <1>1, <2>1, <2>3 DEF Advances, Tells, L!Reading
      <3> QED BY <3>1
    <2> QED BY <1>1, <1>10, <2>2, <2>3, AcknowledgedStep
  <1>11. CASE L!ReadPacks
    <2>1. Took /\ reading = "packs"
      BY <1>1, <1>11, PacksStep
    <2>2. CASE \E r : Closes(r)
      BY <1>1, <2>1, <2>2, ClosesAdvances
    <2>3. CASE Idles(KnownPackPackets)
      BY <1>1, <2>1, <2>3, QuietAdvances DEF Idles
    <2>4. CASE Selects
      <3>1. core' \in BOOLEAN /\ count' = 0
        BY <2>4 DEF Selects
      <3>2. CASE reading' = "response" /\ framing' = framing /\ Sends(1) /\ Sent(1).kind = "resource_pack_push"
        <4>1. Advances(1)
          BY <1>1, <2>1, <3>1, <3>2 DEF Advances, L!Reading
        <4> QED BY <4>1
      <3>3. ASSUME ~(config.pack /\ config.require_pack), NEW n \in 0..1, Finishes(n)
            PROVE  Advances(n + 2)
        <4>1. ~config.require_pack
          BY <1>1, <3>3 DEF L!ConfigAccepted, L!ServerConfigs
        <4>2. /\ reading' = "finish" /\ framing' = framing /\ Sends(n + 2) /\ Sent(n + 2).kind = "finish"
              /\ \A i \in 1..n + 2 : /\ Sent(i).kind \in {"resource_pack_push", "registry_data", "finish"}
                                     /\ Sent(i).kind = "resource_pack_push" => i = 1
          BY <3>3 DEF Finishes
        <4> QED BY <1>1, <2>1, <3>1, <4>1, <4>2 DEF Advances, L!Reading
      <3> QED BY <2>4, <3>2, <3>3 DEF Selects
    <2> QED BY <1>1, <1>11, <2>2, <2>3, <2>4, PacksStep
  <1>12. CASE L!ReadResponse
    <2>1. Took /\ reading = "response"
      BY <1>1, <1>12, ResponseStep
    <2>2. CASE \E r : Closes(r)
      BY <1>1, <2>1, <2>2, ClosesAdvances
    <2>3. CASE Idles(PackResponses)
      BY <1>1, <2>1, <2>3, QuietAdvances DEF Idles
    <2>4. CASE /\ frames[1].kind = "resource_pack" /\ frames[1].arg = "loaded"
               /\ core' = core /\ Finishes(0)
      <3>1. joiner.loaded /\ joiner.todo = <<>> /\ No(answers, "resource_pack_push")
        BY <1>2, <2>1, <2>4 DEF GateInv, Loaded
      <3>2. /\ reading' = "finish" /\ framing' = framing /\ Sends(2) /\ Sent(2).kind = "finish"
            /\ \A i \in 1..2 : Sent(i).kind \in {"registry_data", "finish"}
            /\ count' = 0
        BY <2>4 DEF Finishes
      <3>3. Advances(2)
        BY <1>1, <2>1, <2>4, <3>1, <3>2 DEF Advances, L!Reading
      <3> QED BY <3>3
    <2> QED BY <1>1, <1>12, <2>2, <2>3, <2>4, ResponseStep
  <1>13. CASE L!ReadFinish
    <2>1. Took /\ reading = "finish"
      BY <1>1, <1>13, FinishStep
    <2>2. CASE \E r : Closes(r)
      BY <1>1, <2>1, <2>2, ClosesAdvances
    <2>3. CASE Idles(FinishPackets)
      BY <1>1, <2>1, <2>3, QuietAdvances DEF Idles
    <2>4. CASE Tells("play", "join") /\ count' = count
      <3>1. Advances(1)
        BY <1>1, <2>1, <2>4 DEF Advances, Tells
      <3> QED BY <3>1
    <2> QED BY <1>1, <1>13, <2>2, <2>3, <2>4, FinishStep
  <1>14. CASE L!Garbled \/ L!TimeOut
    BY <1>1, <1>14, SilenceStep, ClosesAdvances
  <1> QED BY <1>3, <1>4, <1>5, <1>6, <1>7, <1>8, <1>9, <1>10, <1>11, <1>12, <1>13, <1>14
      DEF L!ServerStep

---------------------------------------------------------------------------
(* The gates: what every step of the client keeps. *)

\* The client has written n frames.
Speaks(n) == frames' \in Seq(FromClient) /\ Grows(frames, frames', n)
Said(n) == Following(frames, frames', n)

\* The client has read a packet of this kind.
Consumes(kind) ==
  /\ answers # <<>> /\ answers[1].kind = kind /\ answers[1].framing = joiner.framing
  /\ answers' \in Seq(FromServer) /\ Len(answers') = Len(answers) - 1 /\ Len(answers) \in Nat \ {0}
  /\ \A i \in 1..Len(answers') : answers'[i] = answers[i + 1]
Consumed == \E kind \in ServerKinds : Consumes(kind)

\* It has said one more word of a resource pack.
Reported ==
  /\ joiner.todo # <<>> /\ joiner'.todo = Tail(joiner.todo)
  /\ joiner'.loaded = (Head(joiner.todo) = "loaded") /\ answers' = answers

Talks(n) ==
  /\ UNCHANGED <<config, reading, count, framing, core, why>>
  /\ Speaks(n) /\ joiner' \in Joiners
  /\ answers' = answers \/ Consumed
  /\ joiner'.genuine = joiner.genuine /\ (joiner.proved => joiner'.proved)
  /\ joiner'.answered = joiner.answered \/ Consumes("custom_query")
  /\ \/ joiner'.loaded = joiner.loaded /\ joiner'.todo = joiner.todo
     \/ Consumes("resource_pack_push") /\ joiner'.loaded = joiner.loaded /\ Planned(joiner'.todo)
     \/ Reported
  /\ joiner.in = "play" \/ Consumes("finish") => joiner'.in = "play"
  /\ \A i \in 1..n :
       /\ Said(i).kind = "handshake" => (Said(i).arg = "status" <=> config.intention = "status")
       /\ Said(i).kind = "key" /\ Said(i).arg # "other_challenge" => joiner'.proved
       /\ Said(i).kind = "custom_query_answer" /\ Said(i).arg \notin {"declined", "other_transaction"} =>
            joiner'.answered /\ Consumes("custom_query")
       /\ Said(i).kind = "resource_pack" /\ Said(i).arg = "loaded" =>
            Reported /\ Head(joiner.todo) = "loaded"

LEMMA ConsumedOnce ==
  ASSUME answers \in Seq(FromServer), NEW k \in ServerKinds, Consumes(k), Once(answers, k)
  PROVE  No(answers', k)
  BY DEF Consumes, Once, No

\* Every summarised step of the client keeps the gates.
LEMMA TalksSafe ==
  ASSUME GateInv, NEW n \in 0..3, Talks(n)
  PROVE  GateInv'
  <1>1. LoginTypes'
    BY DEF GateInv, LoginTypes, Talks, Speaks, Consumed, Consumes, L!ConfigAccepted
  <1>2. /\ UNCHANGED <<config, reading, framing>> /\ answers \in Seq(FromServer)
        /\ \A i \in 1..Len(frames') :
             \/ i \in 1..Len(frames) /\ frames'[i] = frames[i]
             \/ i - Len(frames) \in 1..n /\ frames'[i] = Said(i - Len(frames))
    BY DEF GateInv, LoginTypes, Talks, Speaks, Said, Grows, Following
  <1>3. \A k : No(answers, k) => No(answers', k)
    BY DEF Talks, Consumed, Consumes, No
  <1>4. \A k : Once(answers, k) => Once(answers', k)
    <2>1. CASE answers' = answers
      BY <2>1
    <2>2. CASE Consumed
      <3>1. \A i \in 1..Len(answers') : i + 1 \in 1..Len(answers) /\ answers'[i] = answers[i + 1]
        BY <2>2 DEF Consumed, Consumes
      <3>2. ASSUME NEW k, Once(answers, k), NEW i \in 1..Len(answers'), NEW j \in 1..Len(answers'),
                   answers'[i].kind = k, answers'[j].kind = k
            PROVE  i = j
        <4>1. i + 1 = j + 1
          BY <3>1, <3>2 DEF Once
        <4> QED BY <4>1
      <3> QED BY <3>2 DEF Once
    <2> QED BY <2>1, <2>2 DEF Talks
  <1>5. /\ Consumes("custom_query") => No(answers', "custom_query") /\ ~No(answers, "custom_query")
        /\ Consumes("resource_pack_push") =>
             No(answers', "resource_pack_push") /\ ~No(answers, "resource_pack_push")
    <2>1. ASSUME NEW k, Consumes(k) PROVE ~No(answers, k)
      BY <2>1 DEF Consumes, No
    <2>2. "custom_query" \in ServerKinds /\ "resource_pack_push" \in ServerKinds
      BY DEF ServerKinds
    <2> QED BY <1>2, <2>1, <2>2, ConsumedOnce DEF GateInv, Answered, Loaded
  <1>6. Announced'
    BY <1>2 DEF GateInv, Announced, Talks
  <1>7. Proved'
    BY <1>2 DEF GateInv, Proved, Talks
  <1>8. Answered'
    <2>1. ASSUME NEW i \in 1..Len(frames'), frames'[i].kind = "custom_query_answer",
                 frames'[i].arg \notin {"declined", "other_transaction"}
          PROVE  reading' \notin BeforeQuery /\ joiner'.answered /\ No(answers', "custom_query")
      <3>1. CASE i \in 1..Len(frames) /\ frames'[i] = frames[i]
        <4>1. reading \notin BeforeQuery /\ joiner.answered /\ No(answers, "custom_query")
          BY <2>1, <3>1 DEF GateInv, Answered
        <4> QED BY <1>2, <1>3, <1>5, <4>1 DEF Talks
      <3>2. CASE i - Len(frames) \in 1..n /\ frames'[i] = Said(i - Len(frames))
        <4>1. joiner'.answered /\ Consumes("custom_query")
          BY <2>1, <3>2 DEF Talks
        <4>2. reading \notin BeforeQuery
          BY <1>5, <4>1 DEF GateInv, Answered
        <4> QED BY <1>2, <1>5, <4>1, <4>2
      <3> QED BY <1>2, <3>1, <3>2
    <2>2. reading \in PastQuery /\ config.require_query =>
            joiner'.answered /\ No(answers', "custom_query")
      <3> SUFFICES ASSUME reading \in PastQuery, config.require_query
                   PROVE  joiner'.answered /\ No(answers', "custom_query")
        OBVIOUS
      <3>1. joiner.answered /\ No(answers, "custom_query")
        BY DEF GateInv, Answered
      <3> QED BY <1>3, <1>5, <3>1 DEF Talks
    <2> QED BY <1>2, <1>3, <1>4, <2>1, <2>2 DEF GateInv, Answered
  <1>9. Loaded'
    <2>1. Planned(joiner'.todo)
      <3>1. CASE Reported
        BY <3>1 DEF GateInv, LoginTypes, Joiners, Loaded, Planned, Reported
      <3> QED BY <3>1 DEF Talks, GateInv, Loaded
    <2>2. joiner.todo # <<>> => reading \notin BeforePush /\ No(answers, "resource_pack_push")
      BY DEF GateInv, Loaded
    <2>3. joiner'.todo # <<>> => No(answers', "resource_pack_push")
      BY <1>3, <1>5, <2>2 DEF Talks, Reported
    <2>4. reading \in BeforePush => No(answers', "resource_pack_push") /\ joiner'.todo = <<>>
      BY <1>3, <1>5, <2>2 DEF Talks, Reported, GateInv, Loaded
    <2>5. ASSUME joiner.loaded, joiner.todo = <<>>, No(answers, "resource_pack_push")
          PROVE  joiner'.loaded /\ joiner'.todo = <<>> /\ No(answers', "resource_pack_push")
      BY <1>3, <1>5, <2>5 DEF Talks, Reported
    <2>6. ASSUME NEW i \in 1..Len(frames'), frames'[i].kind = "resource_pack", frames'[i].arg = "loaded"
          PROVE  /\ reading' \notin BeforePush /\ joiner'.loaded /\ joiner'.todo = <<>>
                 /\ No(answers', "resource_pack_push")
      <3>1. CASE i \in 1..Len(frames) /\ frames'[i] = frames[i]
        <4>1. /\ reading \notin BeforePush /\ joiner.loaded /\ joiner.todo = <<>>
              /\ No(answers, "resource_pack_push")
          BY <2>6, <3>1 DEF GateInv, Loaded
        <4> QED BY <1>2, <2>5, <4>1
      <3>2. CASE i - Len(frames) \in 1..n /\ frames'[i] = Said(i - Len(frames))
        <4>1. Reported /\ Head(joiner.todo) = "loaded"
          BY <2>6, <3>2 DEF Talks
        <4>2. joiner'.loaded /\ joiner'.todo = <<>>
          <5>1. /\ joiner.todo \in Seq(Words) /\ joiner.todo # <<>> /\ Planned(joiner.todo)
                /\ joiner'.loaded = TRUE /\ joiner'.todo = Tail(joiner.todo)
            BY <4>1 DEF Reported, GateInv, LoginTypes, Joiners, Loaded
          <5>2. 1 \in 1..Len(joiner.todo) /\ joiner.todo[1] = "loaded"
            BY <4>1, <5>1, Rest
          <5>3. 1 = Len(joiner.todo)
            BY <5>1, <5>2 DEF Planned, Outcomes
          <5>4. joiner'.todo \in Seq(Words) /\ Len(joiner'.todo) = 0
            BY <5>1, <5>3, Rest
          <5> QED BY <5>1, <5>4, Emptiness
        <4> QED BY <1>2, <1>3, <2>2, <4>1, <4>2 DEF Reported
      <3> QED BY <1>2, <3>1, <3>2
    <2> QED BY <1>2, <1>4, <2>1, <2>3, <2>4, <2>5, <2>6 DEF GateInv, Loaded
  <1>10. Joined'
    <2>1. CASE joiner'.in = "play"
      BY <2>1 DEF Joined
    <2>2. CASE joiner'.in # "play" /\ answers' = answers
      BY <1>2, <2>2 DEF GateInv, Joined, Talks
    <2>3. CASE joiner'.in # "play" /\ Consumed
      <3>1. /\ answers[1].kind # "finish" /\ joiner.in # "play"
            /\ Len(answers) \in Nat \ {0} /\ Len(answers') = Len(answers) - 1
            /\ \A i \in 1..Len(answers') : answers'[i] = answers[i + 1]
        BY <2>3 DEF Talks, Consumed, Consumes
      <3>2. reading \in PastResponse => ~No(answers', "finish")
        <4> SUFFICES ASSUME reading \in PastResponse PROVE ~No(answers', "finish")
          OBVIOUS
        <4>1. PICK i \in 1..Len(answers) : answers[i].kind = "finish"
          BY <3>1 DEF GateInv, Joined, No
        <4>2. i - 1 \in 1..Len(answers') /\ answers'[i - 1] = answers[i]
          BY <3>1, <4>1
        <4> QED BY <4>1, <4>2 DEF No
      <3>3. ASSUME NEW i \in 1..Len(answers'), answers'[i].kind = "join"
            PROVE  \E j \in 1..i - 1 : answers'[j].kind = "finish"
        <4>1. PICK j \in 1..i : answers[j].kind = "finish"
          <5>1. i + 1 \in 1..Len(answers) /\ answers[i + 1].kind = "join" /\ (i + 1) - 1 = i
            BY <3>1, <3>3
          <5> QED BY <3>1, <5>1 DEF GateInv, Joined
        <4>2. j - 1 \in 1..i - 1 /\ answers'[j - 1] = answers[j]
          BY <3>1, <4>1
        <4> QED BY <4>1, <4>2
      <3> QED BY <1>2, <3>2, <3>3 DEF Joined
    <2> QED BY <2>1, <2>2, <2>3 DEF Talks
  <1> QED BY <1>1, <1>6, <1>7, <1>8, <1>9, <1>10 DEF GateInv

---------------------------------------------------------------------------
---------------------------------------------------------------------------
(* What a step of the client does. *)

ClientOnly == UNCHANGED <<config, reading, count, framing, core, why>>

\* The client after a step, in all that the proofs speak of.
Becomes(f, phase, selected, registries, todo, loaded, proved, answered) ==
  /\ joiner' \in Joiners
  /\ joiner'.honest = joiner.honest /\ joiner'.genuine = joiner.genuine
  /\ joiner'.framing = f /\ joiner'.in = phase /\ joiner'.selected = selected
  /\ joiner'.registries = registries /\ joiner'.todo = todo /\ joiner'.loaded = loaded
  /\ joiner'.proved = proved /\ joiner'.answered = answered

Unmoved ==
  Becomes(joiner.framing, joiner.in, joiner.selected, joiner.registries, joiner.todo,
          joiner.loaded, joiner.proved, joiner.answered)

\* A packet that a step says.
Says(i, kind, arg, f) ==
  Said(i).kind = kind /\ Said(i).arg = arg /\ Said(i).framing = f

LEMMA SpeechTyped ==
  ASSUME NEW k \in ClientKinds, NEW a \in Words, NEW f \in SUBSET Transformations
  PROVE  /\ L!Frame(L!Packet(k, a), f) \in FromClient
         /\ L!Frame(L!Packet(k, a), f).kind = k /\ L!Frame(L!Packet(k, a), f).arg = a
         /\ L!Frame(L!Packet(k, a), f).framing = f
  BY DEF L!Packet, L!Frame, FromClient, ClientKinds

LEMMA SaysNothing ==
  ASSUME LoginTypes, NEW f, NEW c, L!ClientSends(<<>>, f, c)
  PROVE  Speaks(0) /\ frames' = frames /\ joiner' = c
  <1>1. L!Framed(<<>>, f) = <<>>
    BY DEF L!Framed
  <1>2. frames' = frames \o <<>> /\ joiner' = c /\ frames \in Seq(FromClient)
    BY <1>1 DEF L!ClientSends, LoginTypes
  <1>3. frames' = frames
    BY <1>2
  <1> QED BY <1>2, <1>3 DEF Speaks, Grows

LEMMA SaysOne ==
  ASSUME LoginTypes, NEW f \in SUBSET Transformations, NEW c, NEW k \in ClientKinds, NEW a \in Words,
         L!ClientSends(<<L!Packet(k, a)>>, f, c)
  PROVE  Speaks(1) /\ Says(1, k, a, f) /\ joiner' = c
  <1> DEFINE p == L!Packet(k, a)
  <1>1. L!Framed(<<p>>, f) = <<L!Frame(p, f)>>
    BY DEF L!Framed
  <1>2. frames' = frames \o <<L!Frame(p, f)>> /\ joiner' = c /\ frames \in Seq(FromClient)
    BY <1>1 DEF L!ClientSends, LoginTypes
  <1>3. Speaks(1) /\ Said(1) = L!Frame(p, f)
    BY <1>2, SpeechTyped, WrittenOne DEF Speaks, Said
  <1> QED BY <1>2, <1>3, SpeechTyped DEF Says

LEMMA SaysTwo ==
  ASSUME LoginTypes, NEW f \in SUBSET Transformations, NEW c,
         NEW k \in ClientKinds, NEW a \in Words, NEW l \in ClientKinds, NEW b \in Words,
         L!ClientSends(<<L!Packet(k, a), L!Packet(l, b)>>, f, c)
  PROVE  Speaks(2) /\ Says(1, k, a, f) /\ Says(2, l, b, f) /\ joiner' = c
  <1> DEFINE p == L!Packet(k, a)
             q == L!Packet(l, b)
  <1>1. L!Framed(<<p, q>>, f) = <<L!Frame(p, f), L!Frame(q, f)>>
    BY DEF L!Framed
  <1>2. frames' = frames \o <<L!Frame(p, f), L!Frame(q, f)>> /\ joiner' = c /\ frames \in Seq(FromClient)
    BY <1>1 DEF L!ClientSends, LoginTypes
  <1>3. Speaks(2) /\ Said(1) = L!Frame(p, f) /\ Said(2) = L!Frame(q, f)
    BY <1>2, SpeechTyped, WrittenTwo DEF Speaks, Said
  <1> QED BY <1>2, <1>3, SpeechTyped DEF Says

LEMMA SaysThree ==
  ASSUME LoginTypes, NEW f \in SUBSET Transformations, NEW c,
         NEW k \in ClientKinds, NEW l \in ClientKinds, NEW m \in ClientKinds, NEW a \in Words,
         L!ClientSends(<<L!Packet(k, a), L!Packet(l, a), L!Packet(m, a)>>, f, c)
  PROVE  Speaks(3) /\ Says(1, k, a, f) /\ Says(2, l, a, f) /\ Says(3, m, a, f) /\ joiner' = c
  <1> DEFINE p == L!Packet(k, a)
             q == L!Packet(l, a)
             r == L!Packet(m, a)
  <1>1. L!Framed(<<p, q, r>>, f) = <<L!Frame(p, f), L!Frame(q, f), L!Frame(r, f)>>
    BY DEF L!Framed
  <1>2. frames' = frames \o <<L!Frame(p, f), L!Frame(q, f), L!Frame(r, f)>>
        /\ joiner' = c /\ frames \in Seq(FromClient)
    BY <1>1 DEF L!ClientSends, LoginTypes
  <1>3. Speaks(3) /\ Said(1) = L!Frame(p, f) /\ Said(2) = L!Frame(q, f) /\ Said(3) = L!Frame(r, f)
    BY <1>2, SpeechTyped, WrittenThree DEF Speaks, Said
  <1> QED BY <1>2, <1>3, SpeechTyped DEF Says

Speech == {"status", "other_version", "ok", "nothing", "payload", "declined", "core", "none",
           "unknown", "accepted", "downloaded", "loaded", "failed", "other_id", "other_key",
           "other_challenge", "other_transaction"}
LEMMA Wording == Speech \subseteq Words
  BY DEF Speech, Words

\* One lemma per action of the client: what it may do.
LEMMA OpeningStep ==
  ASSUME LoginTypes, L!ClientStarts
  PROVE  /\ joiner.in = "start" /\ ClientOnly /\ answers' = answers /\ Speaks(2)
         /\ Said(1).kind = "handshake" /\ (Said(1).arg = "status" <=> config.intention = "status")
         /\ config.intention = "status" => Said(2).kind = "status_request"
         /\ config.intention # "status" => Said(2).kind = "hello"
         /\ Said(1).framing = {} /\ Said(2).framing = {}
         /\ Becomes(joiner.framing, "login", joiner.selected, joiner.registries, joiner.todo,
                    joiner.loaded, joiner.proved, joiner.answered)
  <1> DEFINE c == [joiner EXCEPT !.in = "login"]
  <1>1. /\ joiner.in = "start" /\ ClientOnly /\ answers' = answers /\ joiner \in Joiners
    BY DEF L!ClientStarts, ClientOnly, LoginTypes
  <1>2. {} \in SUBSET Transformations /\ "handshake" \in ClientKinds /\ "hello" \in ClientKinds
        /\ "status_request" \in ClientKinds /\ {"status", "other_version", "ok", L!Nothing} \subseteq Words
    BY Wording DEF ClientKinds, Speech, L!Nothing
  <1>3. CASE config.intention = "status"
    <2>1. L!ClientSends(<<L!Packet("handshake", "status"), L!Packet("status_request", L!Nothing)>>, {}, c)
      BY <1>3 DEF L!ClientStarts
    <2>2. /\ Speaks(2) /\ Says(1, "handshake", "status", {})
          /\ Says(2, "status_request", L!Nothing, {}) /\ joiner' = c
      BY <1>2, <2>1, SaysTwo
    <2>3. Becomes(joiner.framing, "login", joiner.selected, joiner.registries, joiner.todo,
                  joiner.loaded, joiner.proved, joiner.answered)
      BY <1>1, <2>2 DEF Becomes, Joiners
    <2> QED BY <1>1, <1>3, <2>2, <2>3 DEF Says
  <1>4. CASE config.intention # "status"
    <2>1. \E v \in {"other_version", "ok"} :
            L!ClientSends(<<L!Packet("handshake", v), L!Packet("hello", L!Nothing)>>, {}, c)
      BY <1>4 DEF L!ClientStarts
    <2>2. \E v \in {"other_version", "ok"} :
            /\ Speaks(2) /\ Says(1, "handshake", v, {})
            /\ Says(2, "hello", L!Nothing, {}) /\ joiner' = c
      BY <1>2, <2>1, SaysTwo
    <2>3. Becomes(joiner.framing, "login", joiner.selected, joiner.registries, joiner.todo,
                  joiner.loaded, joiner.proved, joiner.answered)
      BY <1>1, <2>2 DEF Becomes, Joiners
    <2> QED BY <1>1, <1>4, <2>2, <2>3 DEF Says
  <1>5. config.intention = "status" \/ config.intention # "status"
    OBVIOUS
  <1> QED BY <1>3, <1>4, <1>5

LEMMA RespondStep ==
  ASSUME LoginTypes, L!ClientResponds
  PROVE  /\ joiner.in = "configuration" /\ joiner.todo # <<>> /\ ClientOnly /\ answers' = answers /\ Speaks(1)
         /\ Says(1, "resource_pack", Head(joiner.todo), joiner.framing)
         /\ Becomes(joiner.framing, joiner.in, joiner.selected, joiner.registries, Tail(joiner.todo),
                    Head(joiner.todo) = "loaded", joiner.proved, joiner.answered)
  <1> DEFINE word == Head(joiner.todo)
             later == Tail(joiner.todo)
             done == (word = "loaded")
             c == [joiner EXCEPT !.todo = later, !.loaded = done]
  <1>1. /\ joiner.in = "configuration" /\ joiner.todo # <<>> /\ ClientOnly /\ answers' = answers
        /\ L!ClientSends(<<L!Packet("resource_pack", word)>>, joiner.framing, c)
    BY DEF L!ClientResponds, ClientOnly
  <1>2. joiner \in Joiners /\ joiner.todo \in Seq(Words) /\ joiner.framing \in SUBSET Transformations
    BY DEF LoginTypes, Joiners
  <1>3. word \in Words /\ later \in Seq(Words) /\ done \in BOOLEAN /\ "resource_pack" \in ClientKinds
    BY <1>1, <1>2, Rest DEF ClientKinds
  <1>4. Speaks(1) /\ Says(1, "resource_pack", word, joiner.framing) /\ joiner' = c
    BY <1>1, <1>2, <1>3, SaysOne
  <1> HIDE DEF word, later, done
  <1>5. Becomes(joiner.framing, joiner.in, joiner.selected, joiner.registries, later,
                done, joiner.proved, joiner.answered)
    BY <1>2, <1>3, <1>4 DEF Becomes, Joiners
  <1> QED BY <1>1, <1>4, <1>5 DEF word, later, done

LEMMA MisbehaveStep ==
  ASSUME LoginTypes, L!ClientMisbehaves
  PROVE  /\ ClientOnly /\ answers' = answers /\ Speaks(1) /\ joiner' \in Joiners /\ ~joiner'.honest
         /\ Said(1).kind # "handshake"
         /\ Said(1).kind = "key" => Said(1).arg = "other_challenge"
         /\ Said(1).kind = "custom_query_answer" => Said(1).arg \in {"declined", "other_transaction"}
         /\ Said(1).kind = "resource_pack" => Said(1).arg # "loaded"
         /\ joiner' = [joiner EXCEPT !.honest = FALSE]
  <1>1. PICK p \in L!Misbehaviours :
          L!ClientSends(<<p>>, joiner.framing, [joiner EXCEPT !.honest = FALSE])
    BY DEF L!ClientMisbehaves
  <1>2. joiner \in Joiners /\ joiner.framing \in SUBSET Transformations /\ ClientOnly /\ answers' = answers
    BY DEF LoginTypes, Joiners, L!ClientMisbehaves, ClientOnly
  <1>3. ASSUME NEW k \in ClientKinds, NEW a \in Speech, p = L!Packet(k, a), k # "handshake",
               k = "key" => a = "other_challenge",
               k = "custom_query_answer" => a \in {"declined", "other_transaction"},
               k = "resource_pack" => a # "loaded"
        PROVE  /\ Speaks(1) /\ Said(1).kind = k /\ Said(1).arg = a
               /\ joiner' = [joiner EXCEPT !.honest = FALSE]
               /\ Said(1).kind # "handshake"
               /\ Said(1).kind = "key" => Said(1).arg = "other_challenge"
               /\ Said(1).kind = "custom_query_answer" => Said(1).arg \in {"declined", "other_transaction"}
               /\ Said(1).kind = "resource_pack" => Said(1).arg # "loaded"
    <2>1. a \in Words
      BY Wording
    <2>2. L!ClientSends(<<L!Packet(k, a)>>, joiner.framing, [joiner EXCEPT !.honest = FALSE])
      BY <1>1, <1>3
    <2> QED BY <1>2, <1>3, <2>1, <2>2, SaysOne DEF Says
  <1>4. CASE \E k \in {"finish", "acknowledged", "hello", "client_information", "keep_alive"} :
               p = L!Packet(k, L!Nothing)
    BY <1>2, <1>3, <1>4 DEF ClientKinds, Speech, L!Nothing, Joiners
  <1>5. CASE \E a \in {"accepted", "other_id"} : p = L!Packet("resource_pack", a)
    BY <1>2, <1>3, <1>5 DEF ClientKinds, Speech, Joiners
  <1>6. CASE p = L!Packet("cookie_response", "other_key")
    BY <1>2, <1>3, <1>6 DEF ClientKinds, Speech, Joiners
  <1>7. CASE p = L!Packet("key", "other_challenge")
    BY <1>2, <1>3, <1>7 DEF ClientKinds, Speech, Joiners
  <1>8. CASE \E a \in {"declined", "other_transaction"} : p = L!Packet("custom_query_answer", a)
    BY <1>2, <1>3, <1>8 DEF ClientKinds, Speech, Joiners
  <1>9. CASE \E a \in {"unknown", "none"} : p = L!Packet("select_known_packs", a)
    BY <1>2, <1>3, <1>9 DEF ClientKinds, Speech, Joiners
  <1> QED BY <1>1, <1>2, <1>4, <1>5, <1>6, <1>7, <1>8, <1>9 DEF L!Misbehaviours

LEMMA LeaveStep ==
  ASSUME LoginTypes, L!ClientLeaves
  PROVE  ClientOnly /\ answers' = answers /\ frames' = frames /\ Speaks(0) /\ Unmoved
  <1>1. /\ ClientOnly /\ answers' = answers
        /\ L!ClientSends(<<>>, joiner.framing, [joiner EXCEPT !.open = FALSE])
    BY DEF L!ClientLeaves, ClientOnly
  <1>2. frames' = frames /\ Speaks(0) /\ joiner' = [joiner EXCEPT !.open = FALSE] /\ joiner \in Joiners
    BY <1>1, SaysNothing DEF LoginTypes
  <1> QED BY <1>1, <1>2 DEF Unmoved, Becomes, Joiners

\* The client has read a packet: what becomes of each kind.
LEMMA ReadTakes ==
  ASSUME LoginTypes, L!ClientReads
  PROVE  /\ ClientOnly /\ joiner.in \in {"login", "configuration"}
         /\ Consumes(answers[1].kind) /\ answers[1] = Head(answers)
         /\ answers[1] \in FromServer /\ answers[1].kind \in ServerKinds
         /\ answers[1].framing = joiner.framing
  <1>1. /\ joiner.in \in {"login", "configuration"} /\ answers # <<>> /\ answers \in Seq(FromServer)
        /\ Head(answers).framing = joiner.framing /\ answers' = Tail(answers) /\ ClientOnly
    BY DEF L!ClientReads, LoginTypes, ClientOnly
  <1>2. /\ answers[1] = Head(answers) /\ answers[1] \in FromServer
        /\ answers' \in Seq(FromServer) /\ Len(answers') = Len(answers) - 1 /\ Len(answers) \in Nat \ {0}
        /\ \A i \in 1..Len(answers) - 1 : answers'[i] = answers[i + 1]
    BY <1>1, Rest
  <1> QED BY <1>1, <1>2 DEF Consumes, FromServer, ServerKinds

---------------------------------------------------------------------------
\* What becomes of a packet of each kind.
Reads(kind) ==
  \/ kind = "disconnect" /\ frames' = frames /\ Speaks(0) /\ Unmoved
  \/ /\ kind = "status_answer" /\ Unmoved
     /\ \/ reading = "ping" /\ Speaks(1) /\ Says(1, "ping_request", L!Nothing, joiner.framing)
        \/ reading # "ping" /\ Speaks(0) /\ frames' = frames
  \/ /\ kind = "cookie_request" /\ Unmoved
     /\ Speaks(1) /\ Says(1, "cookie_response", L!Nothing, joiner.framing)
  \/ /\ kind = "encryption_request"
     /\ Speaks(1) /\ Says(1, "key", L!Nothing, joiner.framing)
     /\ Becomes(joiner.framing \cup {"cipher"}, joiner.in, joiner.selected, joiner.registries,
                joiner.todo, joiner.loaded, TRUE, joiner.answered)
  \/ /\ kind = "custom_query"
     /\ \E known \in BOOLEAN :
          /\ Speaks(1)
          /\ Says(1, "custom_query_answer", IF known THEN "payload" ELSE "declined", joiner.framing)
          /\ Becomes(joiner.framing, joiner.in, joiner.selected, joiner.registries,
                     joiner.todo, joiner.loaded, joiner.proved, known)
  \/ /\ kind = "compression" /\ frames' = frames /\ Speaks(0)
     /\ Becomes(joiner.framing \cup {"compressed"}, joiner.in, joiner.selected, joiner.registries,
                joiner.todo, joiner.loaded, joiner.proved, joiner.answered)
  \/ /\ kind = "finished" /\ Speaks(3)
     /\ Says(1, "acknowledged", L!Nothing, joiner.framing)
     /\ Says(2, "custom_payload", L!Nothing, joiner.framing)
     /\ Says(3, "client_information", L!Nothing, joiner.framing)
     /\ Becomes(joiner.framing, "configuration", joiner.selected, joiner.registries,
                joiner.todo, joiner.loaded, joiner.proved, joiner.answered)
  \/ /\ kind = "select_known_packs"
     /\ \E s \in {"core", "none"} :
          /\ Speaks(1) /\ Says(1, "select_known_packs", s, joiner.framing)
          /\ Becomes(joiner.framing, joiner.in, s, joiner.registries,
                     joiner.todo, joiner.loaded, joiner.proved, joiner.answered)
  \/ /\ kind = "resource_pack_push" /\ frames' = frames /\ Speaks(0)
     /\ \E todo \in {<<"accepted", "downloaded", "loaded">>, <<"accepted", "failed">>, <<"declined">>} :
          Becomes(joiner.framing, joiner.in, joiner.selected, joiner.registries,
                  todo, joiner.loaded, joiner.proved, joiner.answered)
  \/ /\ kind = "registry_data" /\ frames' = frames /\ Speaks(0)
     /\ Becomes(joiner.framing, joiner.in, joiner.selected, answers[1].arg,
                joiner.todo, joiner.loaded, joiner.proved, joiner.answered)
  \/ /\ kind = "finish" /\ Speaks(1) /\ Says(1, "finish", L!Nothing, joiner.framing)
     /\ Becomes(joiner.framing, "play", joiner.selected, joiner.registries,
                joiner.todo, joiner.loaded, joiner.proved, joiner.answered)

LEMMA ReadStep ==
  ASSUME LoginTypes, Joined, L!ClientReads
  PROVE  /\ ClientOnly /\ joiner.in \in {"login", "configuration"}
         /\ Consumes(answers[1].kind) /\ answers[1].kind \in ServerKinds \ {"join"}
         /\ answers[1].framing = joiner.framing
         /\ Reads(answers[1].kind)
  <1> DEFINE p == answers[1]
             f == joiner.framing
  <1>1. /\ ClientOnly /\ joiner.in \in {"login", "configuration"}
        /\ Consumes(p.kind) /\ p = Head(answers) /\ p \in FromServer /\ p.kind \in ServerKinds
        /\ p.framing = f
    BY ReadTakes
  <1>2. p.kind # "join"
    <2>1. 1 \in 1..Len(answers) /\ ~\E j \in 1..1 - 1 : answers[j].kind = "finish"
      BY <1>1 DEF Consumes
    <2> QED BY <1>1, <2>1 DEF Joined
  <1>3. /\ joiner \in Joiners /\ f \in SUBSET Transformations /\ L!Nothing \in Words
        /\ p.arg \in Words
        /\ f \cup {"cipher"} \in SUBSET Transformations
        /\ f \cup {"compressed"} \in SUBSET Transformations
    BY <1>1, Blank DEF LoginTypes, Joiners, FromServer, Transformations
  <1>4. {"ping_request", "cookie_response", "key", "custom_query_answer", "acknowledged",
         "custom_payload", "client_information", "select_known_packs", "finish"} \subseteq ClientKinds
    BY DEF ClientKinds
  <1>5. {"payload", "declined", "core", "none"} \subseteq Words
    BY DEF Words
  <1> HIDE DEF p, f
  <1>6. CASE p.kind = "disconnect"
    <2>1. L!ClientSends(<<>>, f, [joiner EXCEPT !.open = FALSE])
      BY <1>1, <1>6 DEF L!ClientReads, f
    <2>2. Speaks(0) /\ frames' = frames /\ joiner' = [joiner EXCEPT !.open = FALSE]
      BY <2>1, SaysNothing
    <2>3. Unmoved
      BY <1>3, <2>2 DEF Unmoved, Becomes, Joiners
    <2>4. Reads(p.kind)
      BY <1>6, <2>2, <2>3 DEF Reads
    <2> QED BY <1>1, <1>2, <2>4 DEF p, f
  <1>7. CASE p.kind = "status_answer"
    <2>1. L!ClientSends(IF reading = "ping" THEN <<L!Packet("ping_request", L!Nothing)>> ELSE <<>>, f, joiner)
      BY <1>1, <1>7 DEF L!ClientReads, f
    <2>2. CASE reading = "ping"
      <3>1. Speaks(1) /\ Says(1, "ping_request", L!Nothing, f) /\ joiner' = joiner
        BY <1>3, <1>4, <2>1, <2>2, SaysOne
      <3>2. Unmoved
        BY <1>3, <3>1 DEF Unmoved, Becomes
      <3>3. Reads(p.kind)
        BY <1>7, <2>2, <3>1, <3>2 DEF Reads, f
      <3> QED BY <1>1, <1>2, <3>3 DEF p, f
    <2>3. CASE reading # "ping"
      <3>1. Speaks(0) /\ frames' = frames /\ joiner' = joiner
        BY <2>1, <2>3, SaysNothing
      <3>2. Unmoved
        BY <1>3, <3>1 DEF Unmoved, Becomes
      <3>3. Reads(p.kind)
        BY <1>7, <2>3, <3>1, <3>2 DEF Reads
      <3> QED BY <1>1, <1>2, <3>3 DEF p, f
    <2> QED BY <2>2, <2>3
  <1>8. CASE p.kind = "cookie_request"
    <2>1. L!ClientSends(<<L!Packet("cookie_response", L!Nothing)>>, f, joiner)
      BY <1>1, <1>8 DEF L!ClientReads, f
    <2>2. Speaks(1) /\ Says(1, "cookie_response", L!Nothing, f) /\ joiner' = joiner
      BY <1>3, <1>4, <2>1, SaysOne
    <2>3. Unmoved
      BY <1>3, <2>2 DEF Unmoved, Becomes
    <2>4. Reads(p.kind)
      BY <1>8, <2>2, <2>3 DEF Reads, f
    <2> QED BY <1>1, <1>2, <2>4 DEF p, f
  <1>9. CASE p.kind = "encryption_request"
    <2> DEFINE c == [joiner EXCEPT !.framing = f \cup {"cipher"}, !.proved = TRUE]
    <2>1. L!ClientSends(<<L!Packet("key", L!Nothing)>>, f, c)
      BY <1>1, <1>9 DEF L!ClientReads, f
    <2>2. Speaks(1) /\ Says(1, "key", L!Nothing, f) /\ joiner' = c
      BY <1>3, <1>4, <2>1, SaysOne
    <2>3. Becomes(f \cup {"cipher"}, joiner.in, joiner.selected, joiner.registries,
                  joiner.todo, joiner.loaded, TRUE, joiner.answered)
      BY <1>3, <2>2 DEF Becomes, Joiners
    <2>4. Reads(p.kind)
      BY <1>9, <2>2, <2>3 DEF Reads, f
    <2> QED BY <1>1, <1>2, <2>4 DEF p, f
  <1>10. CASE p.kind = "custom_query"
    <2>1. PICK known \in BOOLEAN :
            L!ClientSends(<<L!Packet("custom_query_answer", IF known THEN "payload" ELSE "declined")>>,
                          f, [joiner EXCEPT !.answered = known])
      BY <1>1, <1>10 DEF L!ClientReads, f
    <2>2. (IF known THEN "payload" ELSE "declined") \in Words
      BY <1>5
    <2>3. /\ Speaks(1) /\ Says(1, "custom_query_answer", IF known THEN "payload" ELSE "declined", f)
          /\ joiner' = [joiner EXCEPT !.answered = known]
      BY <1>3, <1>4, <2>1, <2>2, SaysOne
    <2>4. Becomes(f, joiner.in, joiner.selected, joiner.registries,
                  joiner.todo, joiner.loaded, joiner.proved, known)
      BY <1>3, <2>3 DEF Becomes, Joiners, f
    <2>5. Reads(p.kind)
      BY <1>10, <2>3, <2>4 DEF Reads, f
    <2> QED BY <1>1, <1>2, <2>5 DEF p, f
  <1>11. CASE p.kind = "compression"
    <2> DEFINE c == [joiner EXCEPT !.framing = f \cup {"compressed"}]
    <2>1. L!ClientSends(<<>>, f, c)
      BY <1>1, <1>11 DEF L!ClientReads, f
    <2>2. Speaks(0) /\ frames' = frames /\ joiner' = c
      BY <2>1, SaysNothing
    <2>3. Becomes(f \cup {"compressed"}, joiner.in, joiner.selected, joiner.registries,
                  joiner.todo, joiner.loaded, joiner.proved, joiner.answered)
      BY <1>3, <2>2 DEF Becomes, Joiners
    <2>4. Reads(p.kind)
      BY <1>11, <2>2, <2>3 DEF Reads, f
    <2> QED BY <1>1, <1>2, <2>4 DEF p, f
  <1>12. CASE p.kind = "finished"
    <2> DEFINE c == [joiner EXCEPT !.in = "configuration"]
    <2>1. L!ClientSends(<<L!Packet("acknowledged", L!Nothing), L!Packet("custom_payload", L!Nothing),
                          L!Packet("client_information", L!Nothing)>>, f, c)
      BY <1>1, <1>12 DEF L!ClientReads, f
    <2>2. /\ Speaks(3) /\ Says(1, "acknowledged", L!Nothing, f)
          /\ Says(2, "custom_payload", L!Nothing, f) /\ Says(3, "client_information", L!Nothing, f)
          /\ joiner' = c
      BY <1>3, <1>4, <2>1, SaysThree
    <2>3. Becomes(f, "configuration", joiner.selected, joiner.registries,
                  joiner.todo, joiner.loaded, joiner.proved, joiner.answered)
      BY <1>3, <2>2 DEF Becomes, Joiners, f
    <2>4. Reads(p.kind)
      BY <1>12, <2>2, <2>3 DEF Reads, f
    <2> QED BY <1>1, <1>2, <2>4 DEF p, f
  <1>13. CASE p.kind = "select_known_packs"
    <2>1. PICK s \in {"core", "none"} :
            L!ClientSends(<<L!Packet("select_known_packs", s)>>, f, [joiner EXCEPT !.selected = s])
      BY <1>1, <1>13 DEF L!ClientReads, f
    <2>2. /\ Speaks(1) /\ Says(1, "select_known_packs", s, f)
          /\ joiner' = [joiner EXCEPT !.selected = s]
      BY <1>3, <1>4, <1>5, <2>1, SaysOne
    <2>3. Becomes(f, joiner.in, s, joiner.registries,
                  joiner.todo, joiner.loaded, joiner.proved, joiner.answered)
      BY <1>3, <1>5, <2>2 DEF Becomes, Joiners, f
    <2>4. Reads(p.kind)
      BY <1>13, <2>2, <2>3 DEF Reads, f
    <2> QED BY <1>1, <1>2, <2>4 DEF p, f
  <1>14. CASE p.kind = "resource_pack_push"
    <2>1. PICK todo \in {<<"accepted", "downloaded", "loaded">>, <<"accepted", "failed">>, <<"declined">>} :
            L!ClientSends(<<>>, f, [joiner EXCEPT !.pushed = TRUE, !.todo = todo])
      BY <1>1, <1>14 DEF L!ClientReads, f
    <2>2. Speaks(0) /\ frames' = frames /\ joiner' = [joiner EXCEPT !.pushed = TRUE, !.todo = todo]
      BY <2>1, SaysNothing
    <2>3. todo \in Seq(Words)
      <3>1. {"accepted", "downloaded", "loaded", "failed", "declined"} \subseteq Words
        BY DEF Words
      <3>2. <<"accepted", "downloaded", "loaded">> \in Seq(Words) /\ <<"accepted", "failed">> \in Seq(Words)
            /\ <<"declined">> \in Seq(Words)
        BY <3>1
      <3> QED BY <3>2
    <2>4. Becomes(f, joiner.in, joiner.selected, joiner.registries,
                  todo, joiner.loaded, joiner.proved, joiner.answered)
      BY <1>3, <2>2, <2>3 DEF Becomes, Joiners, f
    <2>5. Reads(p.kind)
      BY <1>14, <2>2, <2>4 DEF Reads, f
    <2> QED BY <1>1, <1>2, <2>5 DEF p, f
  <1>15. CASE p.kind = "registry_data"
    <2>1. L!ClientSends(<<>>, f, [joiner EXCEPT !.registries = p.arg])
      BY <1>1, <1>15 DEF L!ClientReads, f
    <2>2. Speaks(0) /\ frames' = frames /\ joiner' = [joiner EXCEPT !.registries = p.arg]
      BY <2>1, SaysNothing
    <2>3. Becomes(f, joiner.in, joiner.selected, p.arg,
                  joiner.todo, joiner.loaded, joiner.proved, joiner.answered)
      BY <1>3, <2>2 DEF Becomes, Joiners, f
    <2>4. Reads(p.kind)
      BY <1>15, <2>2, <2>3 DEF Reads, f, p
    <2> QED BY <1>1, <1>2, <2>4 DEF p, f
  <1>16. CASE p.kind = "finish"
    <2>1. L!ClientSends(<<L!Packet("finish", L!Nothing)>>, f, [joiner EXCEPT !.in = "play"])
      BY <1>1, <1>16 DEF L!ClientReads, f
    <2>2. /\ Speaks(1) /\ Says(1, "finish", L!Nothing, f)
          /\ joiner' = [joiner EXCEPT !.in = "play"]
      BY <1>3, <1>4, <2>1, SaysOne
    <2>3. Becomes(f, "play", joiner.selected, joiner.registries,
                  joiner.todo, joiner.loaded, joiner.proved, joiner.answered)
      BY <1>3, <2>2 DEF Becomes, Joiners, f
    <2>4. Reads(p.kind)
      BY <1>16, <2>2, <2>3 DEF Reads, f
    <2> QED BY <1>1, <1>2, <2>4 DEF p, f
  <1> QED BY <1>1, <1>2, <1>6, <1>7, <1>8, <1>9, <1>10, <1>11, <1>12, <1>13, <1>14, <1>15, <1>16
       DEF ServerKinds

---------------------------------------------------------------------------
LEMMA PlansAhead ==
  ASSUME NEW todo \in {<<"accepted", "downloaded", "loaded">>, <<"accepted", "failed">>, <<"declined">>}
  PROVE  Planned(todo)
  <1>1. CASE todo = <<"accepted", "downloaded", "loaded">>
    <2>1. Len(todo) = 3 /\ todo[1] = "accepted" /\ todo[2] = "downloaded" /\ todo[3] = "loaded"
      BY <1>1
    <2> QED BY <2>1 DEF Planned, Outcomes
  <1>2. CASE todo = <<"accepted", "failed">>
    <2>1. Len(todo) = 2 /\ todo[1] = "accepted" /\ todo[2] = "failed"
      BY <1>2
    <2> QED BY <2>1 DEF Planned, Outcomes
  <1>3. CASE todo = <<"declined">>
    <2>1. Len(todo) = 1 /\ todo[1] = "declined"
      BY <1>3
    <2> QED BY <2>1 DEF Planned, Outcomes
  <1> QED BY <1>1, <1>2, <1>3

\* Every step of the client is summarised.
LEMMA ClientTalks ==
  ASSUME GateInv, L!ClientStarts \/ L!ClientReads \/ L!ClientResponds \/ L!ClientMisbehaves \/ L!ClientLeaves
  PROVE  \E n \in 0..3 : Talks(n)
  <1>1. LoginTypes /\ Joined /\ joiner \in Joiners /\ joiner.todo \in Seq(Words)
    BY DEF GateInv, LoginTypes, Joiners
  <1>2. CASE L!ClientStarts
    <2>1. Talks(2)
      <3>1. /\ joiner.in = "start" /\ ClientOnly /\ answers' = answers /\ Speaks(2)
            /\ Said(1).kind = "handshake" /\ (Said(1).arg = "status" <=> config.intention = "status")
            /\ Said(2).kind \in {"status_request", "hello"}
            /\ Becomes(joiner.framing, "login", joiner.selected, joiner.registries, joiner.todo,
                       joiner.loaded, joiner.proved, joiner.answered)
        BY <1>1, <1>2, OpeningStep
      <3>2. joiner.in # "play" /\ ~Consumes("finish") /\ \A i \in 1..2 : i = 1 \/ i = 2
        BY <3>1, <1>1 DEF Consumes, LoginTypes
      <3> QED BY <3>1, <3>2 DEF Talks, Becomes, ClientOnly
    <2> QED BY <2>1
  <1>3. CASE L!ClientResponds
    <2>1. /\ joiner.in = "configuration" /\ joiner.todo # <<>> /\ ClientOnly /\ answers' = answers /\ Speaks(1)
          /\ Says(1, "resource_pack", Head(joiner.todo), joiner.framing)
          /\ Becomes(joiner.framing, joiner.in, joiner.selected, joiner.registries, Tail(joiner.todo),
                     Head(joiner.todo) = "loaded", joiner.proved, joiner.answered)
      BY <1>1, <1>3, RespondStep
    <2>2. Reported
      BY <2>1 DEF Reported, Becomes
    <2>3. ~Consumes("finish")
      BY <1>1, <2>1 DEF Consumes, LoginTypes
    <2>4. Talks(1)
      BY <2>1, <2>2, <2>3 DEF Talks, Becomes, ClientOnly, Says
    <2> QED BY <2>4
  <1>4. CASE L!ClientMisbehaves
    <2>1. /\ ClientOnly /\ answers' = answers /\ Speaks(1) /\ joiner' \in Joiners
          /\ Said(1).kind # "handshake"
          /\ Said(1).kind = "key" => Said(1).arg = "other_challenge"
          /\ Said(1).kind = "custom_query_answer" => Said(1).arg \in {"declined", "other_transaction"}
          /\ Said(1).kind = "resource_pack" => Said(1).arg # "loaded"
          /\ joiner' = [joiner EXCEPT !.honest = FALSE]
      BY <1>1, <1>4, MisbehaveStep
    <2>2. /\ joiner'.genuine = joiner.genuine /\ joiner'.proved = joiner.proved
          /\ joiner'.answered = joiner.answered /\ joiner'.loaded = joiner.loaded
          /\ joiner'.todo = joiner.todo /\ joiner'.in = joiner.in
      BY <1>1, <2>1 DEF Joiners
    <2>3. ~Consumes("finish")
      BY <1>1, <2>1 DEF Consumes, LoginTypes
    <2>4. Talks(1)
      BY <2>1, <2>2, <2>3 DEF Talks, ClientOnly
    <2> QED BY <2>4
  <1>5. CASE L!ClientLeaves
    <2>1. ClientOnly /\ answers' = answers /\ Speaks(0) /\ Unmoved
      BY <1>1, <1>5, LeaveStep
    <2>2. ~Consumes("finish")
      BY <1>1, <2>1 DEF Consumes, LoginTypes
    <2>3. Talks(0)
      BY <2>1, <2>2 DEF Talks, ClientOnly, Unmoved, Becomes
    <2> QED BY <2>3
  <1>6. CASE L!ClientReads
    <2> DEFINE kind == answers[1].kind
    <2>1. /\ ClientOnly /\ joiner.in \in {"login", "configuration"}
          /\ Consumes(kind) /\ Consumed /\ Reads(kind)
          /\ \A k : Consumes(k) => k = kind
      BY <1>1, <1>6, ReadStep DEF Consumed, Consumes
    <2> HIDE DEF kind
    <2>2. CASE kind = "disconnect"
      <3>1. Talks(0)
        BY <2>1, <2>2 DEF Talks, ClientOnly, Unmoved, Becomes, Reads
      <3> QED BY <3>1
    <2>3. CASE kind = "status_answer"
      <3>1. Talks(1) \/ Talks(0)
        BY <2>1, <2>3 DEF Talks, ClientOnly, Unmoved, Becomes, Reads, Says
      <3> QED BY <3>1
    <2>4. CASE kind = "cookie_request"
      <3>1. Talks(1)
        BY <2>1, <2>4 DEF Talks, ClientOnly, Unmoved, Becomes, Reads, Says
      <3> QED BY <3>1
    <2>5. CASE kind = "encryption_request"
      <3>1. Talks(1)
        BY <2>1, <2>5 DEF Talks, ClientOnly, Becomes, Reads, Says
      <3> QED BY <3>1
    <2>6. CASE kind = "custom_query"
      <3>1. Talks(1)
        BY <2>1, <2>6 DEF Talks, ClientOnly, Becomes, Reads, Says
      <3> QED BY <3>1
    <2>7. CASE kind = "compression"
      <3>1. Talks(0)
        BY <2>1, <2>7 DEF Talks, ClientOnly, Becomes, Reads, Says
      <3> QED BY <3>1
    <2>8. CASE kind = "finished"
      <3>1. Talks(3)
        BY <2>1, <2>8 DEF Talks, ClientOnly, Becomes, Reads, Says
      <3> QED BY <3>1
    <2>9. CASE kind = "select_known_packs"
      <3>1. Talks(1)
        BY <2>1, <2>9 DEF Talks, ClientOnly, Becomes, Reads, Says
      <3> QED BY <3>1
    <2>10. CASE kind = "resource_pack_push"
      <3>1. /\ joiner' \in Joiners /\ joiner'.genuine = joiner.genuine /\ joiner'.proved = joiner.proved
            /\ joiner'.answered = joiner.answered /\ joiner'.loaded = joiner.loaded
            /\ joiner'.in = joiner.in /\ Planned(joiner'.todo) /\ Speaks(0)
        BY <2>1, <2>10, PlansAhead DEF Reads, Becomes
      <3>2. Talks(0)
        BY <2>1, <2>10, <3>1 DEF Talks, ClientOnly
      <3> QED BY <3>2
    <2>11. CASE kind = "registry_data"
      <3>1. Talks(0)
        BY <2>1, <2>11 DEF Talks, ClientOnly, Becomes, Reads, Says
      <3> QED BY <3>1
    <2>12. CASE kind = "finish"
      <3>1. Talks(1)
        BY <2>1, <2>12 DEF Talks, ClientOnly, Becomes, Reads, Says
      <3> QED BY <3>1
    <2> QED BY <2>1, <2>2, <2>3, <2>4, <2>5, <2>6, <2>7, <2>8, <2>9, <2>10, <2>11, <2>12 DEF Reads
  <1> QED BY <1>2, <1>3, <1>4, <1>5, <1>6

\* The gates hold at the start and after every step.
LEMMA GateInit ==
  ASSUME L!Init
  PROVE  GateInv
  <1>1. /\ config \in Configs /\ L!ConfigAccepted(config) /\ config \in L!ServerConfigs
        /\ reading = "handshake" /\ count = 0 /\ framing = {} /\ core = FALSE
        /\ frames = <<>> /\ answers = <<>>
    BY ConfigTyped DEF L!Init
  <1>2. PICK genuine \in {TRUE, ~config.online} :
          joiner = [open |-> TRUE, honest |-> TRUE, genuine |-> genuine, in |-> "start",
                    framing |-> {}, selected |-> L!Nothing, registries |-> L!Nothing, pushed |-> FALSE,
                    todo |-> <<>>, loaded |-> FALSE, proved |-> FALSE, answered |-> FALSE]
    BY DEF L!Init
  <1>3. genuine \in BOOLEAN /\ <<>> \in Seq(Words) /\ L!Nothing \in Words
    <2>1. config.online \in BOOLEAN
      BY <1>1 DEF L!ServerConfigs
    <2>2. genuine \in BOOLEAN
      BY <2>1
    <2> QED BY <2>2, Blank
  <1>4. joiner \in Joiners /\ joiner.todo = <<>> /\ Len(joiner.todo) = 0
    BY <1>2, <1>3 DEF Joiners
  <1>5. Len(frames) = 0 /\ Len(answers) = 0
    BY <1>1
  <1>6. LoginTypes
    <2>1. frames \in Seq(FromClient) /\ answers \in Seq(FromServer)
      BY <1>1
    <2>2. /\ reading \in L!Reading \cup {"verify", "play", "closed"}
          /\ count \in Nat /\ core \in BOOLEAN /\ framing \in SUBSET Transformations
      BY <1>1 DEF L!Reading
    <2> QED BY <1>1, <1>4, <2>1, <2>2 DEF LoginTypes
  <1>7. Announced /\ Proved /\ Answered /\ Loaded /\ Joined
    <2> USE DEF PastHandshake, PastKey, PastProfile, PastQuery, PastResponse, BeforePush, BeforeQuery
    <2>1. No(answers, "custom_query") /\ No(answers, "resource_pack_push")
          /\ Once(answers, "custom_query") /\ Once(answers, "resource_pack_push")
          /\ Planned(joiner.todo)
      BY <1>4, <1>5 DEF No, Once, Planned
    <2> QED BY <1>1, <1>4, <1>5, <2>1 DEF Announced, Proved, Answered, Loaded, Joined
  <1> QED BY <1>6, <1>7 DEF GateInv

LEMMA GateStuttering ==
  ASSUME GateInv, UNCHANGED loginVars
  PROVE  GateInv'
  <1> USE DEF loginVars
  <1>1. LoginTypes' /\ Announced' /\ Proved'
    BY DEF GateInv, LoginTypes, L!ConfigAccepted, Announced, Proved
  <1>2. Answered'
    BY DEF GateInv, Answered, Once, No
  <1>3. Loaded'
    BY DEF GateInv, Loaded, Once, No, Planned
  <1>4. Joined'
    BY DEF GateInv, Joined, No
  <1> QED BY <1>1, <1>2, <1>3, <1>4 DEF GateInv

LEMMA GateNext ==
  ASSUME GateInv, [L!Next]_loginVars
  PROVE  GateInv'
  <1>1. CASE L!ServerStep
    BY <1>1, ServerAdvances, AdvancesSafe
  <1>2. CASE L!ClientStarts \/ L!ClientReads \/ L!ClientResponds \/ L!ClientMisbehaves \/ L!ClientLeaves
    BY <1>2, ClientTalks, TalksSafe
  <1>3. CASE UNCHANGED loginVars
    BY <1>3, GateStuttering
  <1> QED BY <1>1, <1>2, <1>3 DEF L!Next

\* The gates always hold.
LEMMA GateAlways == L!Spec => []GateInv
  <1>1. L!Init => GateInv
    BY GateInit
  <1>2. GateInv /\ [L!Next]_loginVars => GateInv'
    BY GateNext
  <1> QED BY <1>1, <1>2, PTL DEF L!Spec, L!vars, loginVars

\* Whatever a client sends and in whatever order, for any accepted configurations and any
\* packet limits: handle_login lets it play only past the account check, the cipher, the
\* required query and the required pack.
THEOREM PlayOnlyThroughGatesCorrect == L!Spec => []PlayOnlyThroughGates
  <1>1. GateInv => PlayOnlyThroughGates
    BY DEF GateInv, Announced, Proved, Answered, Loaded, PlayOnlyThroughGates, L!PlayOnlyThroughGates,
           PastHandshake, PastKey, PastProfile, PastQuery, PastResponse
  <1> QED BY <1>1, GateAlways, PTL

---------------------------------------------------------------------------
---------------------------------------------------------------------------
(* An honest client: what every step of the server keeps. *)

Honest == GateInv /\ joiner.honest /\ Chained /\ Supplied /\ Excused /\ Phases /\ Talk

\* Nothing is on its way to the client, who reads as the server writes.
Listening == answers = <<>> /\ joiner.framing = framing /\ joiner.in # "start"

\* What a step of the server that writes n packets leaves on its way.
LEMMA Written ==
  ASSUME answers \in Seq(FromServer), answers = <<>>, NEW n \in 0..3, Sends(n)
  PROVE  /\ Len(answers') = n /\ answers' \in Seq(FromServer)
         /\ \A i \in 1..n : answers'[i] = Sent(i)
         /\ n > 0 => answers' # <<>>
  BY DEF Sends, Sent, Grows, Following

LEMMA TookOne ==
  ASSUME LoginTypes, Took
  PROVE  /\ Len(frames) \in Nat \ {0} /\ frames' \in Seq(FromClient) /\ frames # <<>>
         /\ Len(frames') = Len(frames) - 1 /\ 1 \in 1..Len(frames)
         /\ \A i \in 1..Len(frames') : frames'[i] = frames[i + 1] /\ i + 1 \in 1..Len(frames)
         /\ (Len(frames) = 1 => frames' = <<>>)
  <1>1. /\ Len(frames) \in Nat \ {0} /\ frames' \in Seq(FromClient) /\ frames # <<>>
        /\ Len(frames') = Len(frames) - 1
        /\ \A i \in 1..Len(frames') : frames'[i] = frames[i + 1]
    BY DEF Took
  <1>2. Len(frames) = 1 => frames' = <<>>
    BY <1>1, Emptiness
  <1> QED BY <1>1, <1>2

\* The connection ends for a reason that the client knows.
LEMMA ClosingHonest ==
  ASSUME Honest, Took \/ Stays, reading' = "closed", why' \in Reasons, framing' = framing,
         why' = "query" => config.require_query /\ ~joiner.answered /\ No(answers, "custom_query"),
         why' = "pack" => /\ config.require_pack /\ ~joiner.loaded
                          /\ joiner.todo = <<>> /\ No(answers, "resource_pack_push"),
         \/ answers' = answers
         \/ /\ Listening /\ Sends(1) /\ Sent(1).framing = framing
            /\ Sent(1).kind \in {"disconnect", "status_answer"}
  PROVE  HonestInv'
  <1>1. joiner' = joiner /\ config' = config /\ answers \in Seq(FromServer)
    BY DEF Took, Stays, Honest, GateInv, LoginTypes
  <1>2. \/ answers' = answers
        \/ /\ Listening /\ Len(answers') = 1 /\ answers'[1].framing = framing
           /\ answers'[1].kind \in {"disconnect", "status_answer"}
    BY <1>1, Written DEF Listening
  <1>3. Chained'
    BY <1>1, <1>2 DEF Honest, Chained, Listening
  <1>4. Supplied'
    BY <1>1, <1>2 DEF Honest, Supplied, Complete, No, Listening, BeforePush, BeforeQuery
  <1>5. Excused'
    <2>1. \A k \in {"custom_query", "resource_pack_push"} : No(answers, k) => No(answers', k)
      BY <1>2 DEF No
    <2> QED BY <1>1, <2>1 DEF Excused
  <1>6. Phases'
    BY <1>1, <1>2 DEF Honest, Phases, Listening
  <1>7. Talk'
    BY DEF Talk, TalkHandshake, TalkStatus, TalkLogin, TalkPacks, TalkResponse, TalkFinish
  <1> QED BY <1>3, <1>4, <1>5, <1>6, <1>7 DEF HonestInv

\* The client is told at once, and will read what it is told.
LEMMA ClosesHonest ==
  ASSUME Honest, Took \/ Stays, Listening, NEW r \in Reasons, Closes({r}),
         r = "query" => config.require_query /\ ~joiner.answered,
         r = "pack" => config.require_pack /\ ~joiner.loaded /\ joiner.todo = <<>>
  PROVE  HonestInv'
  <1>1. No(answers, "custom_query") /\ No(answers, "resource_pack_push")
    BY DEF Listening, No
  <1> QED BY <1>1, ClosingHonest DEF Closes

\* A step of the server that goes on keeps what holds of an honest client.
LEMMA ContinuesHonest ==
  ASSUME Honest, Took \/ Stays, reading \in {"hello", "cookie", "key", "verify", "answer"},
         frames' = <<>>, answers = <<>>, joiner.in # "start",
         NEW k \in 0..3, NEW f \in SUBSET Transformations, Continues(k, f), joiner.framing = f,
         k < 2 => f = {}
  PROVE  HonestInv'
  <1>1. /\ joiner' = joiner /\ config' = config /\ answers \in Seq(FromServer)
        /\ why' = why /\ why = L!Nothing /\ L!Nothing # "query" /\ L!Nothing # "pack"
    BY DEF Took, Stays, Honest, GateInv, LoginTypes, Excused, Continues, L!Nothing
  <1>2. joiner.registries = L!Nothing
    BY DEF Honest, Supplied, BeforePush, BeforeQuery
  <1>3. Len(frames') = 0
    OBVIOUS
  <1>4. CASE \E q \in {"cookie_request", "encryption_request", "custom_query"} :
               \E to \in {"cookie", "key", "answer"} :
               /\ Asks1(to, q, f)
               /\ to = "cookie" => q = "cookie_request" /\ f = {}
               /\ to = "key" => q = "encryption_request" /\ f = {}
               /\ to = "answer" => q = "custom_query"
    <2>1. PICK q \in {"cookie_request", "encryption_request", "custom_query"},
               to \in {"cookie", "key", "answer"} :
               /\ Asks1(to, q, f)
               /\ to = "cookie" => q = "cookie_request" /\ f = {}
               /\ to = "key" => q = "encryption_request" /\ f = {}
               /\ to = "answer" => q = "custom_query"
      BY <1>4
    <2>2. reading' = to /\ framing' = f /\ Len(answers') = 1 /\ answers'[1].kind = q
          /\ answers'[1].framing = f
      BY <1>1, <2>1, Written DEF Asks1
    <2>3. Chained'
      BY <1>1, <2>2 DEF Chained
    <2>4. Supplied' /\ Excused' /\ Phases'
      BY <1>1, <1>2, <1>3, <2>2 DEF Honest, Supplied, Complete, Excused, Phases, No, BeforePush, BeforeQuery
    <2>5. Talk'
      BY <1>1, <1>3, <2>1, <2>2 DEF Talk, TalkHandshake, TalkStatus, TalkLogin, TalkPacks, TalkResponse,
         TalkFinish, Asks, Same
    <2> QED BY <2>3, <2>4, <2>5 DEF HonestInv
  <1>5. CASE Compresses(f)
    <2>1. /\ reading' = "acknowledged" /\ framing' = f \cup {"compressed"} /\ Len(answers') = 2
          /\ answers'[1].kind = "compression" /\ answers'[1].framing = f
          /\ answers'[2].kind = "finished" /\ answers'[2].framing = framing'
      BY <1>1, <1>5, Written DEF Compresses
    <2>2. Chained'
      BY <1>1, <2>1 DEF Chained, After
    <2>3. Supplied' /\ Excused' /\ Phases'
      BY <1>1, <1>2, <1>3, <2>1 DEF Honest, Supplied, Complete, Excused, Phases, No, BeforePush, BeforeQuery
    <2>4. Talk'
      BY <1>1, <1>3, <2>1 DEF Talk, TalkHandshake, TalkStatus, TalkLogin, TalkPacks, TalkResponse,
         TalkFinish, After
    <2> QED BY <2>2, <2>3, <2>4 DEF HonestInv
  <1>6. CASE k < 1 /\ Asks1("cookie", "cookie_request", f)
    BY <1>4, <1>6
  <1>7. CASE k < 2 /\ Asks1("key", "encryption_request", f)
    BY <1>4, <1>7
  <1>8. CASE Asks1("answer", "custom_query", f)
    BY <1>4, <1>8
  <1> QED BY <1>5, <1>6, <1>7, <1>8 DEF Continues

\* The parts of the invariant that a step without a word for the client leaves alone.
LEMMA QuietHonest ==
  ASSUME Honest, Took \/ Stays, answers' = answers, why' = why, reading' # "closed",
         joiner.in # "start", \A i \in 1..Len(frames') : frames'[i].framing = framing',
         reading # "closed",
         reading' \in BeforePush \cup {"response"} => reading \in BeforePush \cup {"response"},
         Talk'
  PROVE  HonestInv'
  <1>1. joiner' = joiner /\ config' = config
    BY DEF Took, Stays
  <1>2. Chained'
    BY <1>1 DEF Honest, Chained
  <1>3. Supplied'
    BY <1>1 DEF Honest, Supplied, Complete, No
  <1>4. Excused' /\ Phases'
    BY <1>1 DEF Honest, Excused, Phases, No
  <1> QED BY <1>2, <1>3, <1>4 DEF HonestInv

---------------------------------------------------------------------------
LEMMA SilenceQuiet ==
  ASSUME L!TimeOut
  PROVE  answers' = answers
  BY DEF L!TimeOut, L!Throw

\* The name is known, and the reason.
LEMMA Named == L!Nothing \notin {"served", "version", "rate", "name", "unverified", "unavailable",
                                 "query", "pack", "timeout", "peer closed"}
  BY DEF L!Nothing

\* One lemma per read of the server, from the handshake to the end of Configuration.
LEMMA HandshakeHonest ==
  ASSUME Honest, L!ReadHandshake
  PROVE  HonestInv'
  <1>1. LoginTypes /\ TalkHandshake /\ Phases
    BY DEF Honest, GateInv, Talk
  <1>2. reading = "handshake" /\ Took
    BY <1>1, HandshakeStep
  <1>3. /\ answers = <<>> /\ framing = {} /\ joiner.framing = framing /\ joiner.in # "start"
        /\ Len(frames) = 2 /\ frames[1].kind = "handshake"
        /\ frames[2].kind = IF frames[1].arg = "status" THEN "status_request" ELSE "hello"
        /\ \A i \in 1..Len(frames) : frames[i].framing = framing
    BY <1>1, <1>2 DEF TalkHandshake, Took, Same, Phases
  <1>4. /\ Listening /\ joiner' = joiner /\ Len(frames') = 1 /\ frames'[1] = frames[2]
        /\ frames'[1].framing = framing
    BY <1>1, <1>2, <1>3, TookOne DEF Listening, Took
  <1>5. CASE Closes({"version", "rate"})
    <2>1. Closes({"version"}) \/ Closes({"rate"})
      BY <1>5 DEF Closes
    <2> QED BY <1>2, <1>4, <2>1, ClosesHonest DEF Reasons
  <1>6. CASE frames[1].arg = "status" /\ Turns("status")
    <2>1. Talk'
      BY <1>3, <1>4, <1>6 DEF Talk, Turns, TalkHandshake, TalkStatus, TalkLogin, TalkPacks, TalkResponse,
         TalkFinish, Same
    <2> QED BY <1>2, <1>3, <1>4, <1>6, <2>1, QuietHonest DEF Turns, BeforePush, BeforeQuery
  <1>7. CASE frames[1].arg # "status" /\ Turns("hello")
    <2>1. Talk'
      BY <1>3, <1>4, <1>7 DEF Talk, Turns, TalkHandshake, TalkStatus, TalkLogin, TalkPacks, TalkResponse,
         TalkFinish, Same
    <2> QED BY <1>2, <1>3, <1>4, <1>7, <2>1, QuietHonest DEF Turns, BeforePush, BeforeQuery
  <1> QED BY <1>1, <1>3, <1>5, <1>6, <1>7, HandshakeStep

LEMMA StatusHonest ==
  ASSUME Honest, L!ReadStatus
  PROVE  HonestInv'
  <1>1. LoginTypes /\ TalkStatus /\ Phases /\ Supplied /\ Excused /\ answers \in Seq(FromServer)
    BY DEF Honest, GateInv, Talk, LoginTypes
  <1>2. reading \in {"status", "ping"} /\ Took
    BY <1>1, StatusStep
  <1>3. /\ answers = <<>> /\ framing = {} /\ joiner.framing = framing /\ joiner.in # "start"
        /\ Len(frames) = 1
        /\ frames[1].kind = IF reading = "status" THEN "status_request" ELSE "ping_request"
    BY <1>1, <1>2 DEF TalkStatus, Took, Same, Phases, Asks
  <1>4. Listening /\ joiner' = joiner /\ config' = config /\ frames' = <<>> /\ Len(frames') = 0
    BY <1>1, <1>2, <1>3, TookOne DEF Listening, Took
  <1>5. CASE reading = "status" /\ Tells("ping", "status_answer") /\ why' = L!Nothing
    <2>1. /\ reading' = "ping" /\ framing' = framing /\ Len(answers') = 1
          /\ answers'[1].kind = "status_answer" /\ answers'[1].framing = framing
      BY <1>1, <1>3, <1>5, Written DEF Tells
    <2>2. Chained'
      BY <1>3, <1>4, <2>1 DEF Chained
    <2>3. Supplied' /\ Phases'
      BY <1>1, <1>2, <1>3, <1>4, <2>1 DEF Supplied, Complete, No, Phases, BeforePush, BeforeQuery
    <2>4. Excused'
      BY <1>5, Named DEF Excused, Reasons
    <2>5. Talk'
      BY <1>3, <1>4, <2>1 DEF Talk, TalkHandshake, TalkStatus, TalkLogin, TalkPacks, TalkResponse,
         TalkFinish, Same, Asks
    <2> QED BY <2>2, <2>3, <2>4, <2>5 DEF HonestInv
  <1>6. CASE Tells("closed", "status_answer") /\ why' = "served"
    BY <1>2, <1>4, <1>6, ClosingHonest DEF Tells, Reasons
  <1> QED BY <1>1, <1>3, <1>5, <1>6, StatusStep

LEMMA HelloHonest ==
  ASSUME Honest, L!ReadHello
  PROVE  HonestInv'
  <1>1. LoginTypes /\ TalkLogin /\ Phases /\ framing \in SUBSET Transformations
    BY DEF Honest, GateInv, Talk, LoginTypes
  <1>2. reading = "hello" /\ Took
    BY <1>1, HelloStep
  <1>3. /\ answers = <<>> /\ framing = {} /\ joiner.framing = framing /\ joiner.in # "start"
        /\ Len(frames) = 1 /\ frames[1].kind = "hello"
    BY <1>1, <1>2 DEF TalkLogin, Took, Same, Phases
  <1>4. Listening /\ frames' = <<>>
    BY <1>1, <1>2, <1>3, TookOne DEF Listening
  <1>5. CASE Closes({"name"})
    BY <1>2, <1>4, <1>5, ClosesHonest DEF Reasons
  <1>6. CASE Continues(0, framing)
    BY <1>1, <1>2, <1>3, <1>4, <1>6, ContinuesHonest
  <1> QED BY <1>1, <1>3, <1>5, <1>6, HelloStep

LEMMA CookieHonest ==
  ASSUME Honest, L!ReadCookie
  PROVE  HonestInv'
  <1>1. LoginTypes /\ TalkLogin /\ Phases /\ framing \in SUBSET Transformations
    BY DEF Honest, GateInv, Talk, LoginTypes
  <1>2. reading = "cookie" /\ Took
    BY <1>1, CookieStep
  <1>3. /\ answers = <<>> /\ framing = {} /\ joiner.framing = framing /\ joiner.in # "start"
        /\ Len(frames) = 1 /\ frames[1].kind = "cookie_response" /\ frames[1].arg # "other_key"
    BY <1>1, <1>2 DEF TalkLogin, Took, Same, Phases, Asks
  <1>4. frames' = <<>>
    BY <1>1, <1>2, <1>3, TookOne
  <1>5. Continues(1, framing)
    BY <1>1, <1>3, CookieStep
  <1> QED BY <1>1, <1>2, <1>3, <1>4, <1>5, ContinuesHonest

LEMMA KeyHonest ==
  ASSUME Honest, L!ReadKey
  PROVE  HonestInv'
  <1>1. LoginTypes /\ TalkLogin /\ Phases
    BY DEF Honest, GateInv, Talk
  <1>2. reading = "key" /\ Took
    BY <1>1, KeyStep
  <1>3. /\ answers = <<>> /\ framing = {} /\ joiner.framing = framing \cup {"cipher"}
        /\ joiner.in # "start"
        /\ Len(frames) = 1 /\ frames[1].kind = "key" /\ frames[1].arg # "other_challenge"
    BY <1>1, <1>2 DEF TalkLogin, Took, Phases, Asks
  <1>4. frames' = <<>> /\ Len(frames') = 0 /\ joiner' = joiner
    BY <1>1, <1>2, <1>3, TookOne DEF Took
  <1>5. CASE /\ reading' = "verify" /\ framing' = framing \cup {"cipher"}
             /\ UNCHANGED <<count, core, why, answers>>
    <2>1. Talk'
      BY <1>3, <1>4, <1>5 DEF Talk, TalkHandshake, TalkStatus, TalkLogin, TalkPacks, TalkResponse,
         TalkFinish, Same
    <2> QED BY <1>2, <1>3, <1>4, <1>5, <2>1, QuietHonest DEF BeforePush, BeforeQuery
  <1>6. CASE Continues(2, framing \cup {"cipher"})
    <2>1. framing \cup {"cipher"} \in SUBSET Transformations
      BY <1>3 DEF Transformations
    <2> QED BY <1>2, <1>3, <1>4, <1>6, <2>1, ContinuesHonest
  <1> QED BY <1>1, <1>3, <1>5, <1>6, KeyStep

LEMMA VerifyHonest ==
  ASSUME Honest, L!Verify
  PROVE  HonestInv'
  <1>1. LoginTypes /\ TalkLogin /\ Phases /\ framing \in SUBSET Transformations
    BY DEF Honest, GateInv, Talk, LoginTypes
  <1>2. reading = "verify" /\ Stays
    BY <1>1, VerifyStep
  <1>3. /\ answers = <<>> /\ joiner.framing = framing /\ joiner.in # "start" /\ frames' = <<>>
    BY <1>1, <1>2 DEF TalkLogin, Stays, Same, Phases
  <1>4. CASE Closes({"unverified", "unavailable"})
    <2>1. Closes({"unverified"}) \/ Closes({"unavailable"})
      BY <1>4 DEF Closes
    <2>2. Listening
      BY <1>3 DEF Listening
    <2> QED BY <1>2, <2>1, <2>2, ClosesHonest DEF Reasons
  <1>5. CASE Continues(2, framing)
    BY <1>1, <1>2, <1>3, <1>5, ContinuesHonest
  <1> QED BY <1>1, <1>4, <1>5, VerifyStep

LEMMA AnswerHonest ==
  ASSUME Honest, L!ReadAnswer
  PROVE  HonestInv'
  <1>1. LoginTypes /\ TalkLogin /\ Phases /\ framing \in SUBSET Transformations
    BY DEF Honest, GateInv, Talk, LoginTypes
  <1>2. reading = "answer" /\ Took
    BY <1>1, AnswerStep
  <1>3. /\ answers = <<>> /\ joiner.framing = framing /\ joiner.in # "start"
        /\ Len(frames) = 1 /\ frames[1].kind = "custom_query_answer"
        /\ frames[1].arg = IF joiner.answered THEN "payload" ELSE "declined"
    BY <1>1, <1>2 DEF TalkLogin, Took, Same, Phases, Asks
  <1>4. Listening /\ frames' = <<>>
    BY <1>1, <1>2, <1>3, TookOne DEF Listening
  <1>5. CASE frames[1].arg = "declined" /\ config.require_query /\ Closes({"query"})
    BY <1>2, <1>3, <1>4, <1>5, ClosesHonest DEF Reasons
  <1>6. CASE Continues(3, framing)
    BY <1>1, <1>2, <1>3, <1>4, <1>6, ContinuesHonest
  <1>7. frames[1].arg # "other_transaction"
    BY <1>3
  <1> QED BY <1>1, <1>3, <1>5, <1>6, <1>7, AnswerStep

LEMMA AcknowledgedHonest ==
  ASSUME Honest, L!ReadAcknowledged
  PROVE  HonestInv'
  <1>1. LoginTypes /\ TalkLogin /\ Phases /\ Supplied /\ Excused /\ answers \in Seq(FromServer)
    BY DEF Honest, GateInv, Talk, LoginTypes
  <1>2. reading = "acknowledged" /\ Took
    BY <1>1, AcknowledgedStep
  <1>3. /\ answers = <<>> /\ joiner.framing = framing /\ joiner.in # "start"
        /\ Len(frames) = 3 /\ frames[1].kind = "acknowledged"
        /\ frames[2].kind = "custom_payload" /\ frames[3].kind = "client_information"
        /\ \A i \in 1..Len(frames) : frames[i].framing = framing
    BY <1>1, <1>2 DEF TalkLogin, Took, Same, Phases
  <1>4. /\ joiner' = joiner /\ config' = config /\ Len(frames') = 2
        /\ frames'[1] = frames[2] /\ frames'[2] = frames[3]
        /\ \A i \in 1..Len(frames') : frames'[i].framing = framing
    BY <1>1, <1>2, <1>3, TookOne DEF Took
  <1>5. Tells("packs", "select_known_packs") /\ count' = 0 /\ why' = why
    BY <1>1, <1>3, AcknowledgedStep
  <1>6. /\ reading' = "packs" /\ framing' = framing /\ Len(answers') = 1
        /\ answers'[1].kind = "select_known_packs" /\ answers'[1].framing = framing
    BY <1>1, <1>3, <1>5, Written DEF Tells
  <1>7. Chained'
    BY <1>3, <1>4, <1>6 DEF Chained
  <1>8. Supplied' /\ Phases'
    BY <1>1, <1>2, <1>3, <1>4, <1>6 DEF Supplied, Complete, No, Phases, BeforePush, BeforeQuery
  <1>9. Excused'
    BY <1>1, <1>2, <1>5, Named DEF Excused, Reasons
  <1>10. Talk'
    <2>1. TalkPacks'
      BY <1>3, <1>4, <1>5, <1>6 DEF TalkPacks, Same
    <2> QED BY <1>6, <2>1 DEF Talk, TalkHandshake, TalkStatus, TalkLogin, TalkResponse, TalkFinish
  <1> QED BY <1>7, <1>8, <1>9, <1>10 DEF HonestInv

---------------------------------------------------------------------------
\* The limits of the loops leave room for what a client sends of its own accord.
LEMMA Limits ==
  /\ KnownPackPackets \in Nat /\ KnownPackPackets > 2
  /\ PackResponses \in Nat /\ PackResponses > 2
  /\ FinishPackets \in Nat /\ FinishPackets > 3
  BY LoginAssumption DEF L!LoginConstants

\* Arithmetic of the packet limits.
LEMMA Room ==
  ASSUME NEW c \in Nat, NEW m \in Nat \ {0}, NEW t \in Nat, c + m + t <= 3
  PROVE  c + 1 < 4 /\ (c + 1) + (m - 1) + t <= 3
  OBVIOUS

LEMMA RoomForMore ==
  ASSUME NEW c \in Nat, NEW m \in Nat \ {0}, NEW t \in Nat, c + m + t <= 3, m > 1 \/ t > 0
  PROVE  c + 1 < 3
  OBVIOUS

LEMMA TwoOfThree ==
  ASSUME NEW m \in 1..3, ~(m > 2)
  PROVE  m \in 1..2
  OBVIOUS

\* The end of the configuration has been written; the client has nothing left to say.
LEMMA FinishesHonest ==
  ASSUME Honest, Took, NEW n \in 0..1, Finishes(n), answers = <<>>, joiner.framing = framing,
         frames' = <<>>, joiner.todo = <<>>, reading \in {"packs", "response"},
         joiner.in # "start", core' => joiner.selected = "core"
  PROVE  HonestInv'
  <1>1. /\ joiner' = joiner /\ config' = config /\ Supplied /\ Phases /\ Excused
        /\ answers \in Seq(FromServer) /\ why' = why /\ count' = 0 /\ framing' = framing
        /\ reading' = "finish" /\ Len(frames') = 0 /\ Len(joiner.todo) = 0
    BY DEF Took, Honest, GateInv, LoginTypes, Finishes
  <1>2. /\ Len(answers') = n + 2
        /\ n = 1 => answers'[1].kind = "resource_pack_push" /\ answers'[1].framing = framing
        /\ answers'[n + 1].kind = "registry_data" /\ answers'[n + 1].framing = framing
        /\ answers'[n + 1].arg = IF core' THEN "identifiers" ELSE "inline"
        /\ answers'[n + 2].kind = "finish" /\ answers'[n + 2].framing = framing
    <2>1. n + 2 \in 0..3 /\ Sends(n + 2)
      BY DEF Finishes
    <2>2. Len(answers') = n + 2 /\ \A i \in 1..n + 2 : answers'[i] = Sent(i)
      BY <1>1, <2>1, Written
    <2>3. /\ n + 1 \in 1..n + 2 /\ n + 2 \in 1..n + 2 /\ 1 \in 1..n + 2
      OBVIOUS
    <2> QED BY <2>2, <2>3 DEF Finishes
  <1>3. Chained'
    BY <1>1, <1>2 DEF Chained, After
  <1>4. Supplied'
    <2>1. answers'[n + 1].arg # L!Nothing /\ Complete(answers'[n + 1].arg)
      BY <1>2 DEF Complete, L!Nothing
    <2>2. joiner.registries = L!Nothing /\ joiner.in # "play"
      BY <1>1 DEF Supplied, BeforePush
    <2>3. \A i \in 1..Len(answers') :
            /\ answers'[i].kind = "registry_data" => i = n + 1
            /\ answers'[i].kind = "finish" => i = n + 2 /\ i # 1 /\ i - 1 = n + 1
            /\ answers'[i].kind # "select_known_packs"
      BY <1>2
    <2> QED BY <1>1, <1>2, <2>1, <2>2, <2>3 DEF Supplied, Complete, BeforePush, BeforeQuery
  <1>5. Excused' /\ Phases'
    <2>1. why' = L!Nothing
      BY <1>1 DEF Excused
    <2>2. Excused'
      BY <2>1, Named DEF Excused, Reasons
    <2>3. Phases'
      BY <1>1 DEF Phases
    <2> QED BY <2>2, <2>3
  <1>6. Talk'
    <2>1. Reports(0)'
      BY <1>1 DEF Reports
    <2>2. TalkFinish'
      BY <1>1, <1>2, <2>1 DEF TalkFinish, Same
    <2> QED BY <1>1, <2>2 DEF Talk, TalkHandshake, TalkStatus, TalkLogin, TalkPacks, TalkResponse
  <1> QED BY <1>3, <1>4, <1>5, <1>6 DEF HonestInv

LEMMA PacksHonest ==
  ASSUME Honest, L!ReadPacks
  PROVE  HonestInv'
  <1>1. LoginTypes /\ TalkPacks /\ Phases /\ Supplied /\ Excused /\ answers \in Seq(FromServer)
        /\ count \in Nat /\ config \in L!ServerConfigs
    BY ConfigTyped DEF Honest, GateInv, Talk, LoginTypes
  <1>2. reading = "packs" /\ Took
    BY <1>1, PacksStep
  <1> DEFINE asked == Len(answers)
             n == Len(frames)
  <1>3. /\ joiner.framing = framing /\ joiner.in # "start" /\ asked \in 0..1
        /\ (asked = 1 => answers[1].kind = "select_known_packs") /\ count + n + asked = 3
        /\ \A i \in 1..n :
             IF i = n /\ asked = 0
             THEN frames[i].kind = "select_known_packs" /\ frames[i].arg # "unknown"
                    /\ frames[i].arg = joiner.selected
             ELSE frames[i].kind \in {"custom_payload", "client_information"}
        /\ \A i \in 1..n : frames[i].framing = framing
    BY <1>1, <1>2 DEF TalkPacks, Same, Phases
  <1>4. /\ n \in Nat \ {0} /\ joiner' = joiner /\ config' = config /\ Len(frames') = n - 1
        /\ (\A i \in 1..n - 1 : frames'[i] = frames[i + 1] /\ i + 1 \in 1..n)
        /\ 1 \in 1..n /\ (n = 1 => frames' = <<>>)
    BY <1>1, <1>2, TookOne DEF Took
  <1>5. joiner.todo = <<>>
    BY <1>2 DEF Honest, GateInv, Loaded, BeforePush
  <1>6. CASE n = 1 /\ asked = 0
    <2>1. /\ frames[1].kind = "select_known_packs" /\ frames[1].arg # "unknown"
          /\ frames[1].arg = joiner.selected
      BY <1>3, <1>6
    <2>2. Selects
      BY <1>1, <2>1, PacksStep DEF L!Ancillary
    <2>3. answers = <<>> /\ frames' = <<>> /\ Len(frames') = 0 /\ (core' => joiner.selected = "core")
      BY <1>1, <1>4, <1>6, <2>1, <2>2, Emptiness DEF Selects
    <2>4. CASE \E m \in 0..1 : Finishes(m)
      BY <1>2, <1>3, <1>5, <2>3, <2>4, FinishesHonest
    <2>5. CASE /\ config.pack /\ config.require_pack
               /\ reading' = "response" /\ UNCHANGED <<framing, why>>
               /\ Sends(1) /\ Sent(1).kind = "resource_pack_push" /\ Sent(1).framing = framing
      <3>1. /\ Len(answers') = 1 /\ answers'[1].kind = "resource_pack_push"
            /\ answers'[1].framing = framing /\ count' = 0
        BY <1>1, <2>2, <2>3, <2>5, Written DEF Selects
      <3>2. Chained'
        BY <1>3, <1>4, <2>5, <3>1 DEF Chained
      <3>3. Supplied' /\ Phases'
        BY <1>1, <1>2, <1>3, <1>4, <2>3, <2>5, <3>1
           DEF Supplied, Complete, No, Phases, BeforePush, BeforeQuery
      <3>4. Excused'
        BY <1>1, <1>2, <2>5, Named DEF Excused, Reasons
      <3>5. TalkResponse'
        BY <1>3, <1>4, <1>5, <2>3, <2>5, <3>1 DEF TalkResponse, Same
      <3>6. Talk'
        BY <2>5, <3>5 DEF Talk, TalkHandshake, TalkStatus, TalkLogin, TalkPacks, TalkFinish
      <3> QED BY <3>2, <3>3, <3>4, <3>6 DEF HonestInv
    <2> QED BY <2>2, <2>4, <2>5 DEF Selects
  <1>7. CASE ~(n = 1 /\ asked = 0)
    <2>1. frames[1].kind \in {"custom_payload", "client_information"}
      BY <1>3, <1>4, <1>7
    <2>2. frames[1].kind \in L!Ancillary /\ frames[1].kind # "select_known_packs"
      BY <2>1 DEF L!Ancillary
    <2>3. count + 1 < 3
      BY <1>1, <1>3, <1>4, <1>7
    <2>4. count + 1 # KnownPackPackets
      BY <1>1, <2>3, Limits
    <2>5. Idles(KnownPackPackets)
      BY <1>1, <2>2, <2>4, PacksStep
    <2>6. TalkPacks'
      <3>1. /\ Len(answers') = asked /\ answers' = answers /\ count' = count + 1 /\ reading' = reading
            /\ framing' = framing
        BY <2>5 DEF Idles
      <3>2. \A i \in 1..n - 1 :
             IF i = n - 1 /\ asked = 0
             THEN frames'[i].kind = "select_known_packs" /\ frames'[i].arg # "unknown"
                    /\ frames'[i].arg = joiner.selected
             ELSE frames'[i].kind \in {"custom_payload", "client_information"}
        <4> SUFFICES ASSUME NEW i \in 1..n - 1
                     PROVE  IF i = n - 1 /\ asked = 0
                            THEN frames'[i].kind = "select_known_packs" /\ frames'[i].arg # "unknown"
                                   /\ frames'[i].arg = joiner.selected
                            ELSE frames'[i].kind \in {"custom_payload", "client_information"}
          OBVIOUS
        <4>1. frames'[i] = frames[i + 1] /\ i + 1 \in 1..n /\ (i = n - 1 <=> i + 1 = n)
          BY <1>4
        <4> QED BY <1>3, <4>1
      <3>3. count' + (n - 1) + asked = 3
        BY <1>1, <1>3, <1>4, <3>1
      <3>4. asked = 0 => n - 1 > 0
        BY <1>4, <1>7
      <3> QED BY <1>3, <1>4, <3>1, <3>2, <3>3, <3>4 DEF TalkPacks, Same
    <2>7. Talk'
      BY <1>2, <2>5, <2>6 DEF Talk, Idles, TalkHandshake, TalkStatus, TalkLogin, TalkResponse, TalkFinish
    <2> QED BY <1>2, <1>3, <1>4, <2>5, <2>7, QuietHonest DEF Idles, BeforePush
  <1>8. asked \in Nat
    BY <1>3
  <1> QED BY <1>6, <1>7

\* One report less to come.
LEMMA ReportsLess ==
  ASSUME LoginTypes, Took, Reports(Len(frames)), count' = count + 1
  PROVE  Reports(Len(frames))'
  <1> DEFINE n == Len(frames)
  <1>1. /\ n \in Nat \ {0} /\ Len(frames') = n - 1 /\ joiner' = joiner /\ count \in Nat
        /\ \A i \in 1..n - 1 : frames'[i] = frames[i + 1] /\ i + 1 \in 1..n
        /\ Len(joiner.todo) \in Nat
    BY TookOne DEF Took, LoginTypes, Joiners
  <1>2. ASSUME NEW i \in 1..n - 1
        PROVE  /\ frames'[i].kind = "resource_pack"
               /\ frames'[i].arg \in Outcomes \cup {"accepted", "downloaded"}
               /\ (frames'[i].arg \in Outcomes => i = n - 1 /\ joiner'.todo = <<>>)
               /\ (frames'[i].arg \in Outcomes \ {"loaded"} => ~joiner'.loaded)
    <2>1. i + 1 \in 1..n /\ frames'[i] = frames[i + 1] /\ (i = n - 1 <=> i + 1 = n)
      BY <1>1
    <2> QED BY <1>1, <2>1 DEF Reports
  <1>3. n - 1 > 0 /\ joiner'.todo = <<>> => frames'[n - 1].arg \in Outcomes
    <2> SUFFICES ASSUME n - 1 > 0, joiner.todo = <<>> PROVE frames'[n - 1].arg \in Outcomes
      BY <1>1
    <2>1. n - 1 \in 1..n - 1 /\ (n - 1) + 1 = n /\ n > 0
      BY <1>1
    <2>2. frames'[n - 1] = frames[n]
      BY <1>1, <2>1
    <2> QED BY <2>1, <2>2 DEF Reports
  <1>4. count' + (n - 1) + Len(joiner'.todo) <= 3
    <2>1. count + n + Len(joiner.todo) <= 3
      BY DEF Reports
    <2>2. Len(joiner'.todo) = Len(joiner.todo) /\ count' = count + 1
      BY <1>1
    <2>3. n \in Nat \ {0} /\ count \in Nat /\ Len(joiner.todo) \in Nat
      BY <1>1
    <2>4. (count + 1) + (n - 1) + Len(joiner.todo) <= 3
      BY <2>1, <2>3, Room
    <2> QED BY <2>2, <2>4
  <1> QED BY <1>1, <1>2, <1>3, <1>4 DEF Reports

LEMMA ResponseHonest ==
  ASSUME Honest, L!ReadResponse
  PROVE  HonestInv'
  <1>1. LoginTypes /\ TalkResponse /\ Phases /\ answers \in Seq(FromServer)
        /\ count \in Nat /\ Len(joiner.todo) \in Nat /\ core \in BOOLEAN
    BY DEF Honest, GateInv, Talk, LoginTypes, Joiners
  <1>2. reading = "response" /\ Took
    BY <1>1, ResponseStep
  <1> DEFINE n == Len(frames)
  <1>3. /\ joiner.framing = framing /\ joiner.in # "start" /\ answers = <<>> /\ config.require_pack
        /\ Reports(n) /\ (core => joiner.selected = "core")
        /\ \A i \in 1..n : frames[i].framing = framing
    BY <1>1, <1>2 DEF TalkResponse, Same, Phases, Took
  <1>4. /\ n \in Nat \ {0} /\ joiner' = joiner /\ config' = config /\ Len(frames') = n - 1
        /\ (\A i \in 1..n - 1 : frames'[i] = frames[i + 1] /\ i + 1 \in 1..n)
        /\ 1 \in 1..n /\ (n = 1 => frames' = <<>>) /\ Listening
    BY <1>1, <1>2, <1>3, TookOne DEF Took, Listening
  <1>5. /\ frames[1].kind = "resource_pack"
        /\ frames[1].arg \in Outcomes \cup {"accepted", "downloaded"}
        /\ (frames[1].arg \in Outcomes => n = 1 /\ joiner.todo = <<>>)
        /\ (frames[1].arg \in Outcomes \ {"loaded"} => ~joiner.loaded)
        /\ (joiner.todo = <<>> => frames[n].arg \in Outcomes)
        /\ count + n + Len(joiner.todo) <= 3
    BY <1>3, <1>4 DEF Reports
  <1>6. CASE frames[1].arg = "loaded" /\ core' = core /\ Finishes(0)
    <2>1. n = 1 /\ joiner.todo = <<>>
      BY <1>5, <1>6 DEF Outcomes
    <2> QED BY <1>2, <1>3, <1>4, <1>6, <2>1, FinishesHonest
  <1>7. CASE frames[1].arg \in {"accepted", "downloaded"}
    <2>1. n > 1 \/ joiner.todo # <<>>
      BY <1>4, <1>5, <1>7 DEF Outcomes
    <2>2. joiner.todo # <<>> => Len(joiner.todo) > 0
      BY <1>1, Emptiness DEF LoginTypes, Joiners
    <2>3. count + 1 < 3
      <3>1. n > 1 \/ Len(joiner.todo) > 0
        BY <2>1, <2>2
      <3> QED BY <1>1, <1>4, <1>5, <3>1, RoomForMore
    <2>4. count + 1 # PackResponses
      BY <1>1, <2>3, Limits
    <2>5. Idles(PackResponses)
      BY <1>1, <1>5, <1>7, <2>4, ResponseStep
    <2>6. Reports(Len(frames))'
      BY <1>1, <1>2, <1>3, <2>5, ReportsLess DEF Idles
    <2>7. TalkResponse'
      BY <1>3, <1>4, <2>5, <2>6 DEF Idles, TalkResponse, Same
    <2>8. Talk'
      BY <1>2, <2>5, <2>7 DEF Talk, Idles, TalkHandshake, TalkStatus, TalkLogin, TalkPacks, TalkFinish
    <2> QED BY <1>2, <1>3, <1>4, <2>5, <2>8, QuietHonest DEF Idles
  <1>8. CASE frames[1].arg \notin {"loaded", "accepted", "downloaded"} /\ Closes({"pack"})
    <2>1. ~joiner.loaded /\ joiner.todo = <<>>
      BY <1>5, <1>8 DEF Outcomes
    <2> QED BY <1>2, <1>3, <1>4, <1>8, <2>1, ClosesHonest DEF Reasons
  <1>9. frames[1].arg # "other_id"
    BY <1>5 DEF Outcomes
  <1> QED BY <1>1, <1>5, <1>6, <1>7, <1>8, <1>9, ResponseStep

---------------------------------------------------------------------------
LEMMA FinishHonest ==
  ASSUME Honest, L!ReadFinish
  PROVE  HonestInv'
  <1>1. LoginTypes /\ TalkFinish /\ Phases /\ answers \in Seq(FromServer) /\ Supplied /\ Excused
        /\ count \in Nat /\ Len(joiner.todo) \in Nat
    BY DEF Honest, GateInv, Talk, LoginTypes, Joiners
  <1>2. reading = "finish" /\ Took
    BY <1>1, FinishStep
  <1> DEFINE n == Len(answers)
             m == Len(frames)
  <1>3. /\ joiner.framing = framing /\ joiner.in # "start"
        /\ \A i \in 1..m : frames[i].framing = framing
        /\ \A i \in 1..n : answers[i].framing = framing
    BY <1>1, <1>2 DEF TalkFinish, Same, Phases
  <1>4. /\ m \in Nat \ {0} /\ joiner' = joiner /\ config' = config /\ Len(frames') = m - 1
        /\ (\A i \in 1..m - 1 : frames'[i] = frames[i + 1] /\ i + 1 \in 1..m)
        /\ 1 \in 1..m /\ (m = 1 => frames' = <<>>) /\ frames # <<>>
    BY <1>1, <1>2, TookOne DEF Took
  <1>5. CASE n \in 1..3
    <2>1. /\ n \in 1..2 /\ answers[n].kind = "finish" /\ (n > 1 => answers[n - 1].kind = "registry_data")
          /\ Reports(m)
      <3>1. /\ answers[n].kind = "finish" /\ (n > 1 => answers[n - 1].kind = "registry_data")
            /\ (n > 2 => frames = <<>>) /\ Reports(m)
        <4>1. \/ /\ answers[n].kind = "finish" /\ (n > 1 => answers[n - 1].kind = "registry_data")
                 /\ (n > 2 => frames = <<>>) /\ Reports(m)
              \/ n = 0
          BY <1>1, <1>2 DEF TalkFinish
        <4>2. n # 0
          BY <1>5
        <4> HIDE DEF n, m
        <4> QED BY <4>1, <4>2
      <3>2. ~(n > 2)
        BY <1>4, <3>1
      <3>3. n \in 1..2
        BY <1>5, <3>2, TwoOfThree
      <3> QED BY <3>1, <3>3
    <2>2. /\ frames[1].kind = "resource_pack" /\ count + m + Len(joiner.todo) <= 3
      BY <1>4, <2>1 DEF Reports
    <2>3. count + 1 < 4
      <3>1. count \in Nat /\ m \in Nat \ {0} /\ Len(joiner.todo) \in Nat
        BY <1>1, <1>4
      <3> QED BY <2>2, <3>1, Room
    <2>4. count + 1 # FinishPackets
      BY <1>1, <2>3, Limits
    <2>5. Idles(FinishPackets)
      BY <1>1, <2>2, <2>4, FinishStep DEF L!Ancillary
    <2>6. Reports(Len(frames))'
      BY <1>1, <1>2, <2>1, <2>5, ReportsLess DEF Idles
    <2>7. TalkFinish'
      <3>1. Len(answers') = n /\ answers' = answers /\ reading' = "finish" /\ framing' = framing
        BY <1>2, <2>5 DEF Idles
      <3> HIDE DEF n
      <3> QED BY <1>3, <1>4, <2>1, <2>6, <3>1 DEF TalkFinish, Same
    <2>8. Talk'
      BY <1>2, <2>5, <2>7 DEF Talk, Idles, TalkHandshake, TalkStatus, TalkLogin, TalkPacks, TalkResponse
    <2> QED BY <1>2, <1>3, <1>4, <2>5, <2>8, QuietHonest DEF Idles
  <1>6. CASE n \notin 1..3
    <2>1. /\ n = 0 /\ joiner.in = "play" /\ frames[m].kind = "finish"
          /\ \A i \in 1..m - 1 : frames[i].kind = "resource_pack"
          /\ count + m <= 4
      BY <1>1, <1>2, <1>4, <1>6 DEF TalkFinish
    <2>2. answers = <<>>
      BY <1>1, <2>1, Emptiness
    <2>3. CASE m = 1
      <3>1. Tells("play", "join") /\ count' = count /\ why' = why
        BY <1>1, <2>1, <2>3, FinishStep DEF L!Ancillary
      <3>2. /\ reading' = "play" /\ framing' = framing /\ Len(answers') = 1
            /\ answers'[1].kind = "join" /\ answers'[1].framing = framing
        BY <1>1, <2>2, <3>1, Written DEF Tells
      <3>3. Chained'
        BY <1>3, <1>4, <3>2 DEF Chained
      <3>4. Supplied'
        BY <1>1, <1>4, <3>2 DEF Supplied, Complete, No, BeforePush, BeforeQuery
      <3>5. Phases'
        BY <1>3, <1>4, <2>3, <3>2 DEF Phases
      <3>6. Excused'
        BY <1>1, <1>2, <3>1, Named DEF Excused, Reasons
      <3>7. Talk'
        BY <1>4, <2>1, <3>2 DEF Talk, TalkHandshake, TalkStatus, TalkLogin, TalkPacks, TalkResponse, TalkFinish
      <3> QED BY <3>3, <3>4, <3>5, <3>6, <3>7 DEF HonestInv
    <2>4. CASE m > 1
      <3>1. frames[1].kind = "resource_pack" /\ count + 1 < 4
        BY <1>1, <1>4, <2>1, <2>4
      <3>2. count + 1 # FinishPackets
        BY <1>1, <3>1, Limits
      <3>3. Idles(FinishPackets)
        BY <1>1, <3>1, <3>2, FinishStep DEF L!Ancillary
      <3>4. /\ Len(frames') > 0 /\ frames'[Len(frames')].kind = "finish"
            /\ count' + Len(frames') <= 4
            /\ \A i \in 1..Len(frames') - 1 : frames'[i].kind = "resource_pack"
        <4>1. m - 1 \in 1..m - 1 /\ (m - 1) + 1 = m
          BY <1>4, <2>4
        <4>2. frames'[m - 1] = frames[m]
          BY <1>4, <4>1
        <4>3. \A i \in 1..(m - 1) - 1 : i \in 1..m - 1 /\ i + 1 \in 1..m - 1
          BY <1>4
        <4>4. \A i \in 1..(m - 1) - 1 : frames'[i].kind = "resource_pack"
          BY <1>4, <2>1, <4>3
        <4>5. count' + (m - 1) <= 4
          BY <1>1, <1>4, <2>1, <3>3 DEF Idles
        <4> QED BY <1>4, <2>1, <2>4, <4>2, <4>4, <4>5
      <3>5. TalkFinish'
        BY <1>3, <1>4, <2>1, <3>3, <3>4 DEF Idles, TalkFinish, Same
      <3>6. Talk'
        BY <1>2, <3>3, <3>5 DEF Talk, Idles, TalkHandshake, TalkStatus, TalkLogin, TalkPacks, TalkResponse
      <3> QED BY <1>2, <1>3, <1>4, <3>3, <3>6, QuietHonest DEF Idles
    <2> QED BY <1>4, <2>3, <2>4
  <1> QED BY <1>5, <1>6

LEMMA SilenceHonest ==
  ASSUME Honest, L!Garbled \/ L!TimeOut
  PROVE  HonestInv'
  <1>1. LoginTypes /\ Phases
    BY DEF Honest, GateInv
  <1>2. Stays /\ reading \in L!Reading /\ reading # "closed"
    BY <1>1, SilenceStep DEF L!Reading
  <1>3. frames = <<>> \/ frames[1].framing = framing
    <2>1. frames # <<>> => 1 \in 1..Len(frames)
      BY <1>1, Rest DEF LoginTypes
    <2> QED BY <1>1, <1>2, <2>1 DEF Phases
  <1>4. frames = <<>> /\ Closes({"timeout", "peer closed"})
    BY <1>1, <1>3, SilenceStep
  <1>5. L!TimeOut
    <2>1. L!Garbled => frames # <<>>
      BY DEF L!Garbled
    <2> QED BY <1>4, <2>1
  <1>6. answers' = answers
    BY <1>5, SilenceQuiet
  <1> QED BY <1>2, <1>4, <1>6, ClosingHonest DEF Closes, Reasons

\* Every step of the server.
LEMMA ServerHonest ==
  ASSUME Honest, L!ServerStep
  PROVE  HonestInv'
  BY HandshakeHonest, StatusHonest, HelloHonest, CookieHonest, KeyHonest, VerifyHonest, AnswerHonest,
     AcknowledgedHonest, PacksHonest, ResponseHonest, FinishHonest, SilenceHonest DEF L!ServerStep

---------------------------------------------------------------------------
---------------------------------------------------------------------------
(* An honest client: what every step of its own keeps. *)

LEMMA Heard ==
  ASSUME LoginTypes, NEW k, Consumes(k)
  PROVE  /\ Len(answers) \in Nat \ {0} /\ 1 \in 1..Len(answers) /\ Len(answers') = Len(answers) - 1
         /\ answers' \in Seq(FromServer) /\ answers[1].kind = k /\ answers # <<>>
         /\ \A i \in 1..Len(answers') : answers'[i] = answers[i + 1] /\ i + 1 \in 1..Len(answers)
         /\ (Len(answers) = 1 => answers' = <<>>)
  <1>1. /\ Len(answers) \in Nat \ {0} /\ Len(answers') = Len(answers) - 1
        /\ answers' \in Seq(FromServer) /\ answers[1].kind = k /\ answers # <<>>
        /\ \A i \in 1..Len(answers') : answers'[i] = answers[i + 1]
    BY DEF Consumes, LoginTypes
  <1>2. Len(answers) = 1 => answers' = <<>>
    BY <1>1, Emptiness
  <1> QED BY <1>1, <1>2

LEMMA Spoken ==
  ASSUME LoginTypes, NEW n \in 0..3, Speaks(n)
  PROVE  /\ Len(frames) \in Nat /\ Len(frames') = Len(frames) + n
         /\ \A i \in 1..Len(frames) : frames'[i] = frames[i]
         /\ \A i \in 1..n : frames'[Len(frames) + i] = Said(i)
         /\ \A i \in 1..Len(frames') : i \in 1..Len(frames) \/ i - Len(frames) \in 1..n
  BY DEF LoginTypes, Speaks, Said, Grows, Following

\* The first words, when none is on its way.
LEMMA SpokenFirst ==
  ASSUME LoginTypes, frames = <<>>, NEW n \in 0..3, Speaks(n)
  PROVE  Len(frames') = n /\ \A i \in 1..n : frames'[i] = Said(i)
  BY DEF LoginTypes, Speaks, Said, Grows, Following

LEMMA ChainedOn ==
  ASSUME Honest, NEW k, Consumes(k), joiner'.framing = After(answers[1])
  PROVE  Chained'
  <1>1. /\ Len(answers) \in Nat \ {0} /\ Len(answers') = Len(answers) - 1
        /\ \A i \in 1..Len(answers') : answers'[i] = answers[i + 1] /\ i + 1 \in 1..Len(answers)
        /\ answers' \in Seq(FromServer)
    BY Heard DEF Honest, GateInv
  <1>2. \A i \in 1..Len(answers) - 1 : answers[i + 1].framing = After(answers[i])
    BY DEF Honest, Chained
  <1>3. answers' # <<>> => answers'[1].framing = joiner'.framing
    <2>1. answers' # <<>> => 1 \in 1..Len(answers') /\ 1 \in 1..Len(answers) - 1
      BY <1>1, Emptiness
    <2>2. 1 \in 1..Len(answers') => answers'[1] = answers[2]
      BY <1>1
    <2>3. 1 \in 1..Len(answers) - 1 => answers[2].framing = After(answers[1])
      <3>1. 1 \in 1..Len(answers) - 1 => answers[1 + 1].framing = After(answers[1])
        BY <1>2
      <3>2. 1 + 1 = 2
        OBVIOUS
      <3> QED BY <3>1, <3>2
    <2> QED BY <2>1, <2>2, <2>3
  <1>4. \A i \in 1..Len(answers') - 1 : answers'[i + 1].framing = After(answers'[i])
    <2> SUFFICES ASSUME NEW i \in 1..Len(answers') - 1
                 PROVE  answers'[i + 1].framing = After(answers'[i])
      OBVIOUS
    <2>1. i \in 1..Len(answers') /\ i + 1 \in 1..Len(answers') /\ i + 1 \in 1..Len(answers) - 1
      BY <1>1
    <2>2. answers'[i] = answers[i + 1] /\ answers'[i + 1] = answers[(i + 1) + 1]
      BY <1>1, <2>1
    <2> QED BY <1>2, <2>1, <2>2
  <1> QED BY <1>3, <1>4 DEF Chained

\* What the client reads changes the framing it reads the next packet with.
LEMMA ReadsFraming ==
  ASSUME Honest, L!ClientReads
  PROVE  joiner'.framing = After(answers[1])
  <1>1. /\ Reads(answers[1].kind) /\ answers[1].framing = joiner.framing
    BY ReadStep DEF Honest, GateInv
  <1> DEFINE k == answers[1].kind
  <1>2. \/ k = "encryption_request" /\ joiner'.framing = joiner.framing \cup {"cipher"}
        \/ k = "compression" /\ joiner'.framing = joiner.framing \cup {"compressed"}
        \/ k \notin {"encryption_request", "compression"} /\ joiner'.framing = joiner.framing
    BY <1>1 DEF Reads, Unmoved, Becomes
  <1> QED BY <1>1, <1>2 DEF After

\* What the client keeps of what it reads.
LEMMA ReadsKeep ==
  ASSUME Honest, L!ClientReads
  PROVE  LET k == answers[1].kind IN
         /\ joiner'.selected = joiner.selected \/ k = "select_known_packs"
         /\ joiner'.registries = IF k = "registry_data" THEN answers[1].arg ELSE joiner.registries
         /\ joiner'.in = IF k = "finished" THEN "configuration" ELSE IF k = "finish" THEN "play"
                         ELSE joiner.in
         /\ k # "custom_query" => joiner'.answered = joiner.answered
         /\ k # "resource_pack_push" => joiner'.todo = joiner.todo
         /\ joiner'.loaded = joiner.loaded /\ joiner'.honest = joiner.honest
  <1> DEFINE k == answers[1].kind
  <1>1. Reads(k)
    BY ReadStep DEF Honest, GateInv
  <1> HIDE DEF k
  <1>2. /\ joiner'.selected = joiner.selected \/ k = "select_known_packs"
        /\ k # "custom_query" => joiner'.answered = joiner.answered
        /\ k # "resource_pack_push" => joiner'.todo = joiner.todo
        /\ joiner'.loaded = joiner.loaded /\ joiner'.honest = joiner.honest
    BY <1>1 DEF Reads, Unmoved, Becomes
  <1>3. joiner'.registries = IF k = "registry_data" THEN answers[1].arg ELSE joiner.registries
    BY <1>1 DEF Reads, Unmoved, Becomes
  <1>4. joiner'.in = IF k = "finished" THEN "configuration" ELSE IF k = "finish" THEN "play"
                     ELSE joiner.in
    BY <1>1 DEF Reads, Unmoved, Becomes
  <1> QED BY <1>2, <1>3, <1>4 DEF k

---------------------------------------------------------------------------
\* What the client reads: the registries, the reasons, then one lemma per stage.
LEMMA ReadsSupplied ==
  ASSUME Honest, L!ClientReads
  PROVE  Supplied'
  <1> DEFINE k == answers[1].kind
  <1>1. /\ Consumes(k) /\ Supplied /\ ClientOnly /\ joiner.in \in {"login", "configuration"}
    BY ReadStep DEF Honest, GateInv
  <1>2. /\ joiner'.selected = joiner.selected \/ k = "select_known_packs"
        /\ joiner'.registries = IF k = "registry_data" THEN answers[1].arg ELSE joiner.registries
        /\ joiner'.in = IF k = "finished" THEN "configuration" ELSE IF k = "finish" THEN "play"
                        ELSE joiner.in
    BY ReadsKeep
  <1>3. /\ Len(answers) \in Nat \ {0} /\ 1 \in 1..Len(answers) /\ Len(answers') = Len(answers) - 1
        /\ \A i \in 1..Len(answers') : answers'[i] = answers[i + 1] /\ i + 1 \in 1..Len(answers)
    BY <1>1, Heard DEF Honest, GateInv
  <1>4. k = "registry_data" => ~No(answers, "registry_data")
    BY <1>3 DEF No
  <1>5. \A kind : No(answers, kind) => No(answers', kind)
    BY <1>3 DEF No
  <1>6. k = "registry_data" => answers[1].arg # L!Nothing /\ Complete(answers[1].arg)
    BY <1>1, <1>3 DEF Supplied
  <1>7. k = "select_known_packs" => joiner.registries = L!Nothing /\ No(answers, "registry_data")
    BY <1>1, <1>3 DEF Supplied
  <1>8. k = "finish" => joiner.registries # L!Nothing
    BY <1>1, <1>3 DEF Supplied
  <1>9. k = "select_known_packs" => k # "registry_data" /\ k # "finish" /\ k # "finished"
    OBVIOUS
  <1>10. ASSUME NEW r, Complete(r), k # "select_known_packs"
         PROVE  Complete(r)'
    BY <1>2, <1>10 DEF Complete
  <1> HIDE DEF k
  <1>11. reading' \in BeforePush \cup {"response"} =>
           joiner'.registries = L!Nothing /\ No(answers', "registry_data")
    BY <1>1, <1>2, <1>4, <1>5 DEF Supplied, ClientOnly
  <1>12. joiner'.registries # L!Nothing => Complete(joiner.registries)'
    <2>1. CASE k = "registry_data"
      <3>1. Complete(answers[1].arg) /\ joiner'.registries = answers[1].arg /\ joiner'.selected = joiner.selected
        BY <1>2, <1>6, <2>1
      <3> QED BY <3>1 DEF Complete
    <2>2. CASE k # "registry_data"
      <3>1. joiner'.registries = joiner.registries
        BY <1>2, <2>2
      <3>2. joiner'.registries # L!Nothing => k # "select_known_packs" /\ Complete(joiner.registries)
        BY <1>1, <1>7, <3>1 DEF Supplied
      <3> QED BY <1>2, <3>1, <3>2 DEF Complete
    <2> QED BY <2>1, <2>2
  <1>13. joiner'.in = "play" => joiner'.registries # L!Nothing
    BY <1>1, <1>2, <1>6, <1>8
  <1>14. ASSUME NEW i \in 1..Len(answers')
         PROVE  /\ answers'[i].kind = "registry_data" =>
                     answers'[i].arg # L!Nothing /\ Complete(answers[i].arg)'
                /\ answers'[i].kind = "finish" =>
                     IF i = 1 THEN joiner'.registries # L!Nothing ELSE answers'[i - 1].kind = "registry_data"
                /\ answers'[i].kind = "select_known_packs" =>
                     joiner'.registries = L!Nothing /\ No(answers', "registry_data")
    <2>1. answers'[i] = answers[i + 1] /\ i + 1 \in 1..Len(answers) /\ i + 1 # 1 /\ (i + 1) - 1 = i
      BY <1>3
    <2>2. /\ answers[i + 1].kind = "registry_data" =>
               /\ answers[i + 1].arg # L!Nothing /\ Complete(answers[i + 1].arg)
               /\ ~No(answers, "registry_data")
          /\ answers[i + 1].kind = "finish" => answers[i].kind = "registry_data"
          /\ answers[i + 1].kind = "select_known_packs" =>
               joiner.registries = L!Nothing /\ No(answers, "registry_data")
      BY <1>1, <2>1 DEF Supplied, No
    <2>3. answers'[i].kind = "registry_data" => answers'[i].arg # L!Nothing /\ Complete(answers[i].arg)'
      <3>1. answers'[i].kind = "registry_data" => k # "select_known_packs"
        BY <1>7, <2>1, <2>2
      <3> QED BY <1>2, <2>1, <2>2, <3>1 DEF Complete
    <2>4. answers'[i].kind = "finish" =>
            IF i = 1 THEN joiner'.registries # L!Nothing ELSE answers'[i - 1].kind = "registry_data"
      <3>1. CASE i = 1
        BY <1>2, <1>6, <2>1, <2>2, <3>1 DEF k
      <3>2. CASE i # 1
        <4>1. i - 1 \in 1..Len(answers') /\ (i - 1) + 1 = i
          BY <1>3, <3>2
        <4>2. answers'[i - 1] = answers[i]
          BY <1>3, <4>1
        <4> QED BY <2>1, <2>2, <3>2, <4>2
      <3> QED BY <3>1, <3>2
    <2>5. answers'[i].kind = "select_known_packs" =>
            joiner'.registries = L!Nothing /\ No(answers', "registry_data")
      BY <1>2, <1>4, <1>5, <2>1, <2>2
    <2> QED BY <2>3, <2>4, <2>5
  <1> QED BY <1>11, <1>12, <1>13, <1>14 DEF Supplied

LEMMA ReadsExcused ==
  ASSUME Honest, L!ClientReads
  PROVE  Excused'
  <1> DEFINE k == answers[1].kind
  <1>1. /\ Consumes(k) /\ Excused /\ ClientOnly
    BY ReadStep DEF Honest, GateInv
  <1>2. /\ k # "custom_query" => joiner'.answered = joiner.answered
        /\ k # "resource_pack_push" => joiner'.todo = joiner.todo
        /\ joiner'.loaded = joiner.loaded
    BY ReadsKeep
  <1>3. /\ 1 \in 1..Len(answers)
        /\ \A i \in 1..Len(answers') : answers'[i] = answers[i + 1] /\ i + 1 \in 1..Len(answers)
    BY <1>1, Heard DEF Honest, GateInv
  <1>4. \A kind : No(answers, kind) => k # kind /\ No(answers', kind)
    BY <1>3 DEF No
  <1> HIDE DEF k
  <1> QED BY <1>1, <1>2, <1>4 DEF Excused, ClientOnly

\* What is left of the proof for a packet that is read: the stages.
LEMMA ReadsHonest ==
  ASSUME Honest, L!ClientReads, Talk',
         reading # "closed" => \A i \in 1..Len(frames') : frames'[i].framing = framing
  PROVE  HonestInv'
  <1>1. /\ Consumes(answers[1].kind) /\ ClientOnly /\ joiner.in \in {"login", "configuration"}
    BY ReadStep DEF Honest, GateInv
  <1>2. Chained'
    BY <1>1, ChainedOn, ReadsFraming
  <1>3. joiner'.in # "start"
    BY <1>1, ReadsKeep
  <1>4. Phases'
    BY <1>1, <1>3 DEF Phases, ClientOnly
  <1> QED BY <1>2, <1>4, ReadsSupplied, ReadsExcused DEF HonestInv

---------------------------------------------------------------------------
\* What the client says to a packet, in a stage where one packet is on its way to it.
LEMMA ReadsPing ==
  ASSUME Honest, L!ClientReads, reading = "ping"
  PROVE  HonestInv'
  <1>1. LoginTypes /\ TalkStatus
    BY DEF Honest, GateInv, Talk
  <1>2. /\ ClientOnly /\ Consumes(answers[1].kind) /\ Reads(answers[1].kind)
    BY ReadStep DEF Honest, GateInv
  <1>3. /\ framing = {} /\ joiner.framing = {} /\ frames = <<>> /\ Len(answers) = 1
        /\ answers[1].kind = "status_answer"
    BY <1>1, <1>2 DEF TalkStatus, Same, Asks, Consumes
  <1>4. Speaks(1) /\ Says(1, "ping_request", L!Nothing, joiner.framing) /\ joiner'.framing = joiner.framing
    BY <1>2, <1>3 DEF Reads, Unmoved, Becomes
  <1>5. answers' = <<>> /\ Len(frames') = 1 /\ frames'[1] = Said(1)
    BY <1>1, <1>2, <1>3, <1>4, Heard, SpokenFirst
  <1>6. Talk'
    BY <1>2, <1>3, <1>4, <1>5 DEF ClientOnly, Says, Talk, TalkHandshake, TalkStatus, TalkLogin, TalkPacks,
       TalkResponse, TalkFinish, Same, Asks
  <1> QED BY <1>3, <1>4, <1>5, <1>6, ReadsHonest DEF Says

LEMMA ReadsCookie ==
  ASSUME Honest, L!ClientReads, reading = "cookie"
  PROVE  HonestInv'
  <1>1. LoginTypes /\ TalkLogin
    BY DEF Honest, GateInv, Talk
  <1>2. /\ ClientOnly /\ Consumes(answers[1].kind) /\ Reads(answers[1].kind)
    BY ReadStep DEF Honest, GateInv
  <1>3. /\ framing = {} /\ joiner.framing = {} /\ frames = <<>> /\ Len(answers) = 1
        /\ answers[1].kind = "cookie_request"
    BY <1>1, <1>2 DEF TalkLogin, Same, Asks, Consumes
  <1>4. Speaks(1) /\ Says(1, "cookie_response", L!Nothing, joiner.framing) /\ joiner'.framing = joiner.framing
    BY <1>2, <1>3 DEF Reads, Unmoved, Becomes
  <1>5. answers' = <<>> /\ Len(frames') = 1 /\ frames'[1] = Said(1) /\ L!Nothing # "other_key"
    BY <1>1, <1>2, <1>3, <1>4, Heard, SpokenFirst DEF L!Nothing
  <1>6. Talk'
    BY <1>2, <1>3, <1>4, <1>5 DEF ClientOnly, Says, Talk, TalkHandshake, TalkStatus, TalkLogin, TalkPacks,
       TalkResponse, TalkFinish, Same, Asks
  <1> QED BY <1>3, <1>4, <1>5, <1>6, ReadsHonest DEF Says

LEMMA ReadsKey ==
  ASSUME Honest, L!ClientReads, reading = "key"
  PROVE  HonestInv'
  <1>1. LoginTypes /\ TalkLogin
    BY DEF Honest, GateInv, Talk
  <1>2. /\ ClientOnly /\ Consumes(answers[1].kind) /\ Reads(answers[1].kind)
    BY ReadStep DEF Honest, GateInv
  <1>3. /\ framing = {} /\ joiner.framing = {} /\ frames = <<>> /\ Len(answers) = 1
        /\ answers[1].kind = "encryption_request"
    BY <1>1, <1>2 DEF TalkLogin, Asks, Consumes
  <1>4. Speaks(1) /\ Says(1, "key", L!Nothing, joiner.framing) /\ joiner'.framing = {"cipher"}
    BY <1>2, <1>3 DEF Reads, Becomes
  <1>5. answers' = <<>> /\ Len(frames') = 1 /\ frames'[1] = Said(1) /\ L!Nothing # "other_challenge"
        /\ frames' # <<>>
    BY <1>1, <1>2, <1>3, <1>4, Heard, SpokenFirst DEF L!Nothing
  <1>6. Talk'
    BY <1>2, <1>3, <1>4, <1>5 DEF ClientOnly, Says, Talk, TalkHandshake, TalkStatus, TalkLogin, TalkPacks,
       TalkResponse, TalkFinish, Asks
  <1> QED BY <1>3, <1>4, <1>5, <1>6, ReadsHonest DEF Says

LEMMA ReadsQuery ==
  ASSUME Honest, L!ClientReads, reading = "answer"
  PROVE  HonestInv'
  <1>1. LoginTypes /\ TalkLogin
    BY DEF Honest, GateInv, Talk
  <1>2. /\ ClientOnly /\ Consumes(answers[1].kind) /\ Reads(answers[1].kind)
    BY ReadStep DEF Honest, GateInv
  <1>3. /\ joiner.framing = framing /\ frames = <<>> /\ Len(answers) = 1
        /\ answers[1].kind = "custom_query"
    BY <1>1, <1>2 DEF TalkLogin, Same, Asks, Consumes
  <1>4. PICK known \in BOOLEAN :
          /\ Speaks(1)
          /\ Says(1, "custom_query_answer", IF known THEN "payload" ELSE "declined", joiner.framing)
          /\ joiner'.framing = joiner.framing /\ joiner'.answered = known
    BY <1>2, <1>3 DEF Reads, Becomes
  <1>5. answers' = <<>> /\ Len(frames') = 1 /\ frames'[1] = Said(1)
    BY <1>1, <1>2, <1>3, <1>4, Heard, SpokenFirst
  <1>6. Talk'
    BY <1>2, <1>3, <1>4, <1>5 DEF ClientOnly, Says, Talk, TalkHandshake, TalkStatus, TalkLogin, TalkPacks,
       TalkResponse, TalkFinish, Same, Asks
  <1> QED BY <1>3, <1>4, <1>5, <1>6, ReadsHonest DEF Says

\* The compression is switched on between the two packets of one write.
LEMMA ReadsFinished ==
  ASSUME Honest, L!ClientReads, reading = "acknowledged"
  PROVE  HonestInv'
  <1>1. LoginTypes /\ TalkLogin
    BY DEF Honest, GateInv, Talk
  <1>2. /\ ClientOnly /\ Consumes(answers[1].kind) /\ Reads(answers[1].kind)
        /\ answers[1].framing = joiner.framing
    BY ReadStep DEF Honest, GateInv
  <1>3. \/ /\ frames = <<>> /\ Len(answers) = 2
           /\ answers[1].kind = "compression" /\ answers[2].kind = "finished"
           /\ After(answers[1]) = framing
        \/ joiner.framing = framing /\ frames = <<>> /\ Len(answers) = 1 /\ answers[1].kind = "finished"
    BY <1>1, <1>2 DEF TalkLogin, Same, Consumes
  <1>4. CASE answers[1].kind = "compression"
    <2>1. /\ Speaks(0) /\ frames' = <<>> /\ joiner'.framing = framing /\ Len(frames') = 0
      BY <1>2, <1>3, <1>4, ReadsFraming DEF Reads
    <2>2. Len(answers') = 1 /\ answers'[1].kind = "finished"
      <3>1. Len(answers) = 2 /\ answers[2].kind = "finished"
        BY <1>3, <1>4
      <3>2. Len(answers') = 1 /\ 1 \in 1..Len(answers') /\ 1 + 1 = 2
        BY <1>1, <1>2, <3>1, Heard
      <3>3. answers'[1] = answers[2]
        BY <1>1, <1>2, <3>2, Heard
      <3> QED BY <3>1, <3>2, <3>3
    <2>3. Talk'
      BY <1>2, <2>1, <2>2 DEF ClientOnly, Talk, TalkHandshake, TalkStatus, TalkLogin, TalkPacks,
         TalkResponse, TalkFinish, Same
    <2> QED BY <2>1, <2>3, ReadsHonest
  <1>5. CASE answers[1].kind = "finished"
    <2>1. joiner.framing = framing /\ frames = <<>> /\ Len(answers) = 1
      BY <1>3, <1>5
    <2>2. /\ Speaks(3) /\ joiner'.framing = joiner.framing
          /\ Says(1, "acknowledged", L!Nothing, joiner.framing)
          /\ Says(2, "custom_payload", L!Nothing, joiner.framing)
          /\ Says(3, "client_information", L!Nothing, joiner.framing)
      BY <1>2, <1>5 DEF Reads, Becomes
    <2>3. /\ answers' = <<>> /\ Len(frames') = 3 /\ frames'[1] = Said(1) /\ frames'[2] = Said(2)
          /\ frames'[3] = Said(3)
      BY <1>1, <1>2, <2>1, <2>2, Heard, SpokenFirst
    <2>4. \A i \in 1..Len(frames') : frames'[i].framing = framing
      <3>1. \A i \in 1..3 : i = 1 \/ i = 2 \/ i = 3
        OBVIOUS
      <3> QED BY <2>1, <2>2, <2>3, <3>1 DEF Says
    <2>5. Talk'
      BY <1>2, <2>1, <2>2, <2>3 DEF ClientOnly, Says, Talk, TalkHandshake, TalkStatus, TalkLogin, TalkPacks,
         TalkResponse, TalkFinish, Same
    <2> QED BY <2>4, <2>5, ReadsHonest
  <1> QED BY <1>3, <1>4, <1>5

---------------------------------------------------------------------------
LEMMA ReadsPacks ==
  ASSUME Honest, L!ClientReads, reading = "packs"
  PROVE  HonestInv'
  <1>1. LoginTypes /\ TalkPacks /\ Phases /\ count \in Nat
    BY DEF Honest, GateInv, Talk, LoginTypes
  <1>2. /\ ClientOnly /\ Consumes(answers[1].kind) /\ Reads(answers[1].kind)
    BY ReadStep DEF Honest, GateInv
  <1> DEFINE n == Len(frames)
  <1>3. /\ joiner.framing = framing /\ Len(answers) \in 0..1
        /\ (Len(answers) = 1 => answers[1].kind = "select_known_packs")
        /\ count + n + Len(answers) = 3
        /\ \A i \in 1..n :
             IF i = n /\ Len(answers) = 0
             THEN frames[i].kind = "select_known_packs" /\ frames[i].arg # "unknown"
                    /\ frames[i].arg = joiner.selected
             ELSE frames[i].kind \in {"custom_payload", "client_information"}
    BY <1>1 DEF TalkPacks, Same, Consumes
  <1>4. Len(answers) = 1 /\ answers[1].kind = "select_known_packs" /\ answers' = <<>> /\ Len(answers') = 0
    BY <1>1, <1>2, <1>3, Heard
  <1>5. count + n + 1 = 3 /\ \A i \in 1..n : frames[i].kind \in {"custom_payload", "client_information"}
    BY <1>3, <1>4
  <1>6. PICK s \in {"core", "none"} :
          /\ Speaks(1) /\ Says(1, "select_known_packs", s, joiner.framing)
          /\ joiner'.framing = joiner.framing /\ joiner'.selected = s
    BY <1>2, <1>4 DEF Reads, Becomes
  <1>7. /\ n \in Nat /\ Len(frames') = n + 1 /\ frames'[n + 1] = Said(1)
        /\ \A i \in 1..n : frames'[i] = frames[i]
        /\ \A i \in 1..n + 1 : i \in 1..n \/ i = n + 1
    <2>1. Speaks(1) /\ 1 \in 1..1 /\ 1 \in 0..3
      BY <1>6
    <2>2. /\ n \in Nat /\ Len(frames') = n + 1
          /\ \A i \in 1..n : frames'[i] = frames[i]
          /\ \A i \in 1..1 : frames'[n + i] = Said(i)
      BY <1>1, <2>1, Spoken
    <2>3. frames'[n + 1] = Said(1)
      BY <2>1, <2>2
    <2>4. n \in Nat => \A i \in 1..n + 1 : i \in 1..n \/ i = n + 1
      <3> HIDE DEF n
      <3> QED OBVIOUS
    <2> QED BY <2>2, <2>3, <2>4
  <1>8. \A i \in 1..n + 1 : frames'[i].framing = framing
    <2>1. \A i \in 1..n : frames[i].framing = framing
      BY <1>1 DEF Phases
    <2> QED BY <1>3, <1>6, <1>7, <2>1 DEF Says
  <1>9. /\ \A i \in 1..n + 1 :
             IF i = n + 1
             THEN frames'[i].kind = "select_known_packs" /\ frames'[i].arg # "unknown"
                    /\ frames'[i].arg = joiner'.selected
             ELSE frames'[i].kind \in {"custom_payload", "client_information"}
        /\ count + (n + 1) + 0 = 3 /\ n + 1 > 0
    <2>1. count + (n + 1) + 0 = 3 /\ n + 1 > 0
      <3>1. count \in Nat /\ n \in Nat /\ count + n + 1 = 3
        BY <1>1, <1>5, <1>7
      <3> HIDE DEF n
      <3> QED BY <3>1
    <2> QED BY <1>5, <1>6, <1>7, <2>1 DEF Says
  <1>10. TalkPacks'
    BY <1>2, <1>3, <1>4, <1>6, <1>7, <1>9 DEF ClientOnly, TalkPacks, Same
  <1>11. Talk'
    BY <1>2, <1>10 DEF ClientOnly, Talk, TalkHandshake, TalkStatus, TalkLogin, TalkResponse, TalkFinish
  <1> QED BY <1>7, <1>8, <1>11, ReadsHonest

\* The longest plan for a resource pack has three words.
LEMMA PlanLength ==
  ASSUME NEW todo \in {<<"accepted", "downloaded", "loaded">>, <<"accepted", "failed">>, <<"declined">>}
  PROVE  Len(todo) \in 1..3
  OBVIOUS

LEMMA RoomForPlan ==
  ASSUME NEW c, c = 0, NEW t \in 1..3
  PROVE  c + 0 + t <= 3
  OBVIOUS

\* The push has been read: nothing is reported yet.
LEMMA ReportsBegin ==
  ASSUME LoginTypes, L!ClientReads, Honest, answers[1].kind = "resource_pack_push", frames = <<>>, count = 0
  PROVE  Reports(Len(frames))' /\ frames' = <<>> /\ joiner'.framing = joiner.framing
  <1>1. ClientOnly /\ Reads("resource_pack_push")
    BY ReadStep DEF Honest, GateInv
  <1>2. PICK todo \in {<<"accepted", "downloaded", "loaded">>, <<"accepted", "failed">>, <<"declined">>} :
          joiner'.todo = todo /\ joiner'.framing = joiner.framing
    BY <1>1 DEF Reads, Becomes
  <1>3. frames' = <<>> /\ count' = 0
    BY <1>1 DEF Reads, ClientOnly
  <1>4. Len(joiner'.todo) \in 1..3
    BY <1>2, PlanLength
  <1>5. Len(frames') = 0
    BY <1>3
  <1>6. count' + 0 + Len(joiner'.todo) <= 3
    BY <1>3, <1>4, RoomForPlan
  <1>7. Reports(Len(frames))'
    BY <1>5, <1>6 DEF Reports
  <1> QED BY <1>2, <1>3, <1>7

LEMMA ReadsPush ==
  ASSUME Honest, L!ClientReads, reading = "response"
  PROVE  HonestInv'
  <1>1. LoginTypes /\ TalkResponse
    BY DEF Honest, GateInv, Talk
  <1>2. /\ ClientOnly /\ Consumes(answers[1].kind)
    BY ReadStep DEF Honest, GateInv
  <1>3. /\ joiner.framing = framing /\ config.require_pack /\ (core => joiner.selected = "core")
        /\ Len(answers) = 1 /\ answers[1].kind = "resource_pack_push"
        /\ count = 0 /\ frames = <<>> /\ joiner.todo = <<>>
    BY <1>1, <1>2 DEF TalkResponse, Same, Consumes
  <1>4. answers' = <<>>
    BY <1>1, <1>2, <1>3, Heard
  <1>5. Reports(Len(frames))' /\ frames' = <<>> /\ joiner'.framing = joiner.framing
    BY <1>1, <1>3, ReportsBegin
  <1>6. joiner'.selected = joiner.selected
    BY <1>3, ReadsKeep
  <1>7. TalkResponse'
    BY <1>2, <1>3, <1>4, <1>5, <1>6 DEF ClientOnly, TalkResponse, Same
  <1>8. Talk'
    BY <1>2, <1>7 DEF ClientOnly, Talk, TalkHandshake, TalkStatus, TalkLogin, TalkPacks, TalkFinish
  <1>9. Len(frames') = 0
    BY <1>5
  <1> QED BY <1>8, <1>9, ReadsHonest

LEMMA ReadsEnd ==
  ASSUME Honest, L!ClientReads, reading = "finish"
  PROVE  HonestInv'
  <1>1. LoginTypes /\ TalkFinish /\ Phases /\ count \in Nat /\ Len(joiner.todo) \in Nat
    BY DEF Honest, GateInv, Talk, LoginTypes, Joiners
  <1>2. /\ ClientOnly /\ Consumes(answers[1].kind) /\ Reads(answers[1].kind)
        /\ answers[1].framing = joiner.framing
    BY ReadStep DEF Honest, GateInv
  <1> DEFINE n == Len(answers)
             m == Len(frames)
  <1>3. /\ n \in Nat \ {0} /\ Len(answers') = n - 1
        /\ \A i \in 1..n - 1 : answers'[i] = answers[i + 1] /\ i + 1 \in 1..n
    BY <1>1, <1>2, Heard
  <1>4. /\ joiner.framing = framing
        /\ \A i \in 1..n : answers[i].framing = framing
        /\ n \in 1..3 /\ answers[n].kind = "finish"
        /\ n > 1 => answers[n - 1].kind = "registry_data"
        /\ n > 2 => /\ answers[1].kind = "resource_pack_push"
                    /\ count = 0 /\ frames = <<>> /\ joiner.todo = <<>>
        /\ Reports(m)
    <2>1. n # 0
      BY <1>3
    <2> QED BY <1>1, <2>1 DEF TalkFinish, Same
  <1>5. \A i \in 1..m : frames[i].framing = framing
    BY <1>1 DEF Phases
  <1>6. \A i \in 1..n - 1 : answers'[i].framing = framing
    BY <1>3, <1>4
  <1>7. /\ Reads(answers[1].kind)
    BY <1>2
  <1>8. CASE n = 3
    <2>1. /\ answers[1].kind = "resource_pack_push" /\ answers[2].kind = "registry_data"
          /\ answers[3].kind = "finish" /\ count = 0 /\ frames = <<>>
      <3>1. 3 > 1 /\ 3 > 2 /\ 3 - 1 = 2
        OBVIOUS
      <3> QED BY <1>4, <1>8, <3>1
    <2>2. Reports(Len(frames))' /\ frames' = <<>> /\ joiner'.framing = joiner.framing
      BY <1>1, <2>1, ReportsBegin
    <2>3. Len(answers') = 2 /\ answers'[1].kind = "registry_data" /\ answers'[2].kind = "finish"
      <3>1. 3 - 1 = 2 /\ 1 + 1 = 2 /\ 2 + 1 = 3 /\ 1 \in 1..3 - 1 /\ 2 \in 1..3 - 1
        OBVIOUS
      <3>2. answers'[1] = answers[2] /\ answers'[2] = answers[3] /\ Len(answers') = 2
        BY <1>3, <1>8, <3>1
      <3> QED BY <2>1, <3>2
    <2>4. TalkFinish'
      BY <1>2, <1>3, <1>4, <1>6, <1>8, <2>2, <2>3 DEF ClientOnly, TalkFinish, Same
    <2>5. Talk'
      BY <1>2, <2>4 DEF ClientOnly, Talk, TalkHandshake, TalkStatus, TalkLogin, TalkPacks, TalkResponse
    <2>6. Len(frames') = 0
      BY <2>2
    <2> QED BY <2>5, <2>6, ReadsHonest
  <1>9. CASE n = 2
    <2>1. /\ answers[1].kind = "registry_data" /\ answers[2].kind = "finish"
      <3>1. 2 > 1 /\ 2 - 1 = 1
        OBVIOUS
      <3> QED BY <1>4, <1>9, <3>1
    <2>2. /\ frames' = frames /\ joiner'.framing = joiner.framing /\ joiner'.todo = joiner.todo
          /\ joiner'.loaded = joiner.loaded /\ count' = count
      BY <1>2, <2>1 DEF Reads, Becomes, ClientOnly
    <2>3. Reports(Len(frames))'
      BY <1>4, <2>2 DEF Reports
    <2>4. Len(answers') = 1 /\ answers'[1].kind = "finish"
      <3>1. 2 - 1 = 1 /\ 1 + 1 = 2 /\ 1 \in 1..2 - 1
        OBVIOUS
      <3> QED BY <1>3, <1>9, <2>1, <3>1
    <2>5. TalkFinish'
      BY <1>2, <1>3, <1>4, <1>6, <1>9, <2>2, <2>3, <2>4 DEF ClientOnly, TalkFinish, Same
    <2>6. Talk'
      BY <1>2, <2>5 DEF ClientOnly, Talk, TalkHandshake, TalkStatus, TalkLogin, TalkPacks, TalkResponse
    <2> QED BY <1>5, <2>2, <2>6, ReadsHonest
  <1>10. CASE n = 1
    <2>1. answers[1].kind = "finish"
      BY <1>4, <1>10
    <2>2. /\ Speaks(1) /\ Says(1, "finish", L!Nothing, joiner.framing) /\ joiner'.framing = joiner.framing
          /\ joiner'.in = "play" /\ count' = count
      BY <1>2, <2>1 DEF Reads, Becomes, ClientOnly
    <2>3. /\ m \in Nat /\ Len(frames') = m + 1 /\ frames'[m + 1] = Said(1)
          /\ \A i \in 1..m : frames'[i] = frames[i]
          /\ \A i \in 1..m + 1 : i \in 1..m \/ i = m + 1
      <3>1. 1 \in 1..1 /\ 1 \in 0..3
        OBVIOUS
      <3>2. /\ m \in Nat /\ Len(frames') = m + 1
            /\ \A i \in 1..m : frames'[i] = frames[i]
            /\ \A i \in 1..1 : frames'[m + i] = Said(i)
        BY <1>1, <2>2, <3>1, Spoken
      <3>3. frames'[m + 1] = Said(1)
        BY <3>1, <3>2
      <3>4. m \in Nat => \A i \in 1..m + 1 : i \in 1..m \/ i = m + 1
        <4> HIDE DEF m
        <4> QED OBVIOUS
      <3> QED BY <3>2, <3>3, <3>4
    <2>4. \A i \in 1..m + 1 : frames'[i].framing = framing
      BY <1>4, <1>5, <2>2, <2>3 DEF Says
    <2>5. /\ frames'[m + 1].kind = "finish"
          /\ \A i \in 1..m : frames'[i].kind = "resource_pack"
      BY <1>4, <2>2, <2>3 DEF Reports, Says
    <2>6. count + (m + 1) <= 4 /\ m + 1 > 0 /\ (m + 1) - 1 = m
      <3>1. count + m + Len(joiner.todo) <= 3
        BY <1>4 DEF Reports
      <3> DEFINE t == Len(joiner.todo)
      <3>2. count \in Nat /\ m \in Nat /\ t \in Nat /\ count + m + t <= 3
        BY <1>1, <2>3, <3>1
      <3> HIDE DEF m, t
      <3> QED BY <3>2
    <2>7. Len(answers') = 0
      BY <1>3, <1>10
    <2>8. TalkFinish'
      <3>1. Same'
        BY <1>2, <1>4, <2>2 DEF ClientOnly, Same
      <3>2. \A i \in 1..Len(frames') - 1 : frames'[i].kind = "resource_pack"
        BY <2>3, <2>5, <2>6
      <3>3. Len(frames') > 0 /\ frames'[Len(frames')].kind = "finish" /\ count' + Len(frames') <= 4
        BY <2>2, <2>3, <2>5, <2>6
      <3> QED BY <2>2, <2>7, <3>1, <3>2, <3>3 DEF TalkFinish
    <2>9. Talk'
      BY <1>2, <2>8 DEF ClientOnly, Talk, TalkHandshake, TalkStatus, TalkLogin, TalkPacks, TalkResponse
    <2> QED BY <2>3, <2>4, <2>9, ReadsHonest
  <1> QED
    <2>1. n \in 1..3
      BY <1>4
    <2> HIDE DEF n
    <2> QED BY <1>8, <1>9, <1>10, <2>1

---------------------------------------------------------------------------
\* The other actions of the client.
LEMMA StartsHonest ==
  ASSUME Honest, L!ClientStarts
  PROVE  HonestInv'
  <1>1. LoginTypes /\ TalkHandshake /\ Phases /\ Chained /\ Supplied /\ Excused
    BY DEF Honest, GateInv, Talk
  <1>2. /\ joiner.in = "start" /\ ClientOnly /\ answers' = answers /\ Speaks(2)
        /\ Said(1).kind = "handshake" /\ (Said(1).arg = "status" <=> config.intention = "status")
        /\ (config.intention = "status" => Said(2).kind = "status_request")
        /\ (config.intention # "status" => Said(2).kind = "hello")
        /\ Said(1).framing = {} /\ Said(2).framing = {}
        /\ Becomes(joiner.framing, "login", joiner.selected, joiner.registries, joiner.todo,
                   joiner.loaded, joiner.proved, joiner.answered)
    BY <1>1, OpeningStep
  <1>3. answers = <<>> /\ reading \in {"handshake", "closed"}
    BY <1>1, <1>2 DEF Phases
  <1>4. Chained' /\ Supplied' /\ Excused'
    BY <1>1, <1>2, <1>3 DEF Chained, Supplied, Complete, Excused, No, Becomes, ClientOnly
  <1>5. CASE reading = "closed"
    <2>1. Phases'
      BY <1>2, <1>5 DEF Phases, ClientOnly, Becomes
    <2>2. Talk'
      BY <1>2, <1>5 DEF ClientOnly, Talk, TalkHandshake, TalkStatus, TalkLogin, TalkPacks, TalkResponse,
         TalkFinish
    <2> QED BY <1>4, <2>1, <2>2 DEF HonestInv
  <1>6. CASE reading = "handshake"
    <2>1. framing = {} /\ joiner.framing = framing /\ frames = <<>>
      BY <1>1, <1>2, <1>6 DEF TalkHandshake, Same
    <2>2. Len(frames') = 2 /\ frames'[1] = Said(1) /\ frames'[2] = Said(2)
      BY <1>1, <1>2, <2>1, SpokenFirst
    <2>3. \A i \in 1..Len(frames') : frames'[i].framing = framing
      <3>1. \A i \in 1..2 : i = 1 \/ i = 2
        OBVIOUS
      <3> QED BY <1>2, <2>1, <2>2, <3>1
    <2>4. Phases'
      BY <1>2, <2>3 DEF Phases, ClientOnly, Becomes
    <2>5. TalkHandshake'
      BY <1>2, <1>3, <2>1, <2>2 DEF TalkHandshake, ClientOnly, Becomes, Same
    <2>6. Talk'
      BY <1>2, <1>6, <2>5 DEF ClientOnly, Talk, TalkStatus, TalkLogin, TalkPacks, TalkResponse, TalkFinish
    <2> QED BY <1>4, <2>4, <2>6 DEF HonestInv
  <1> QED BY <1>3, <1>5, <1>6

\* One report more on its way.
LEMMA ReportsMore ==
  ASSUME LoginTypes, L!ClientResponds, Reports(Len(frames)), Planned(joiner.todo)
  PROVE  Reports(Len(frames))'
  <1> DEFINE n == Len(frames)
             word == Head(joiner.todo)
             unsaid == Len(joiner.todo)
  <1>1. /\ joiner.todo # <<>> /\ ClientOnly /\ Speaks(1)
        /\ Says(1, "resource_pack", word, joiner.framing)
        /\ joiner'.todo = Tail(joiner.todo) /\ joiner'.loaded = (word = "loaded")
    BY RespondStep DEF Becomes
  <1>2. /\ unsaid \in Nat \ {0} /\ word = joiner.todo[1] /\ 1 \in 1..unsaid
        /\ Len(joiner'.todo) = unsaid - 1 /\ joiner'.todo \in Seq(Words)
        /\ (joiner'.todo = <<>> <=> unsaid = 1)
    <2>1. joiner.todo \in Seq(Words)
      BY DEF LoginTypes, Joiners
    <2>2. /\ unsaid \in Nat \ {0} /\ word = joiner.todo[1]
          /\ Len(joiner'.todo) = unsaid - 1 /\ joiner'.todo \in Seq(Words)
      BY <1>1, <2>1, Rest
    <2>3. joiner'.todo = <<>> <=> unsaid - 1 = 0
      BY <2>2, Emptiness
    <2>4. 1 \in 1..unsaid /\ (unsaid - 1 = 0 <=> unsaid = 1)
      BY <2>2
    <2> QED BY <2>2, <2>3, <2>4
  <1>3. /\ word \in Outcomes \cup {"accepted", "downloaded"}
        /\ (word \in Outcomes <=> joiner'.todo = <<>>)
    <2>1. joiner.todo[1] \in Outcomes \cup {"accepted", "downloaded"} /\ (joiner.todo[1] \in Outcomes <=> 1 = unsaid)
      BY <1>2 DEF Planned
    <2> QED BY <1>2, <2>1
  <1>4. /\ n \in Nat /\ Len(frames') = n + 1 /\ frames'[n + 1] = Said(1)
        /\ \A i \in 1..n : frames'[i] = frames[i]
        /\ \A i \in 1..n + 1 : i \in 1..n \/ i = n + 1
    <2>1. 1 \in 1..1 /\ 1 \in 0..3
      OBVIOUS
    <2>2. /\ n \in Nat /\ Len(frames') = n + 1
          /\ \A i \in 1..n : frames'[i] = frames[i]
          /\ \A i \in 1..1 : frames'[n + i] = Said(i)
      BY <1>1, <2>1, Spoken
    <2>3. frames'[n + 1] = Said(1)
      BY <2>1, <2>2
    <2>4. n \in Nat => \A i \in 1..n + 1 : i \in 1..n \/ i = n + 1
      <3> HIDE DEF n
      <3> QED OBVIOUS
    <2> QED BY <2>2, <2>3, <2>4
  <1>5. frames'[n + 1].kind = "resource_pack" /\ frames'[n + 1].arg = word
    BY <1>1, <1>4 DEF Says
  <1>6. \A i \in 1..n : /\ frames[i].kind = "resource_pack"
                        /\ frames[i].arg \in {"accepted", "downloaded"}
                        /\ frames[i].arg \notin Outcomes
    BY <1>1 DEF Reports, Outcomes
  <1>7. word \in Outcomes \ {"loaded"} => ~joiner'.loaded
    BY <1>1
  <1>8. ASSUME NEW i \in 1..n + 1
        PROVE  /\ frames'[i].kind = "resource_pack"
               /\ frames'[i].arg \in Outcomes \cup {"accepted", "downloaded"}
               /\ (frames'[i].arg \in Outcomes => i = n + 1 /\ joiner'.todo = <<>>)
               /\ (frames'[i].arg \in Outcomes \ {"loaded"} => ~joiner'.loaded)
    <2> HIDE DEF word, n
    <2>1. CASE i \in 1..n
      BY <1>4, <1>6, <2>1
    <2>2. CASE i = n + 1
      BY <1>3, <1>5, <1>7, <2>2
    <2> QED BY <1>4, <2>1, <2>2
  <1>9. joiner'.todo = <<>> => frames'[n + 1].arg \in Outcomes
    BY <1>3, <1>5
  <1>10. count' + (n + 1) + Len(joiner'.todo) <= 3
    <2>1. count + n + unsaid <= 3
      BY DEF Reports
    <2>2. count \in Nat /\ count' = count
      BY <1>1 DEF LoginTypes, ClientOnly
    <2>3. count + (n + 1) + (unsaid - 1) <= 3
      <3>1. count \in Nat /\ n \in Nat /\ unsaid \in Nat
        BY <1>2, <1>4, <2>2
      <3> HIDE DEF n, unsaid
      <3> QED BY <2>1, <3>1
    <2> QED BY <1>2, <2>2, <2>3
  <1> HIDE DEF word
  <1> QED BY <1>4, <1>8, <1>9, <1>10 DEF Reports

LEMMA RespondsHonest ==
  ASSUME Honest, L!ClientResponds
  PROVE  HonestInv'
  <1>1. LoginTypes /\ Loaded /\ Phases /\ Chained /\ Supplied /\ Excused /\ TalkResponse /\ TalkFinish
    BY DEF Honest, GateInv, Talk
  <1>2. /\ joiner.in = "configuration" /\ joiner.todo # <<>> /\ ClientOnly /\ answers' = answers /\ Speaks(1)
        /\ Says(1, "resource_pack", Head(joiner.todo), joiner.framing)
        /\ Becomes(joiner.framing, joiner.in, joiner.selected, joiner.registries, Tail(joiner.todo),
                   Head(joiner.todo) = "loaded", joiner.proved, joiner.answered)
    BY <1>1, RespondStep
  <1>3. /\ joiner'.framing = joiner.framing /\ joiner'.in = joiner.in /\ joiner'.selected = joiner.selected
        /\ joiner'.registries = joiner.registries /\ joiner'.answered = joiner.answered
    BY <1>2 DEF Becomes
  <1>4. Chained' /\ Supplied'
    BY <1>1, <1>2, <1>3 DEF Chained, Supplied, Complete, No, ClientOnly
  <1>5. Excused'
    BY <1>1, <1>2, <1>3 DEF Excused, No, ClientOnly
  <1>6. reading \in {"response", "finish", "closed"}
    BY <1>1, <1>2 DEF Loaded, BeforePush, BeforeQuery, LoginTypes, L!Reading, TalkFinish
  <1>7. CASE reading \in {"response", "finish"}
    <2>1. joiner.framing = framing /\ Reports(Len(frames))
      BY <1>1, <1>2, <1>7 DEF TalkResponse, TalkFinish, Same
    <2>2. Reports(Len(frames))'
      BY <1>1, <2>1, ReportsMore DEF Loaded
    <2>3. Phases'
      <3>1. \A i \in 1..Len(frames') :
              (i \in 1..Len(frames) /\ frames'[i] = frames[i]) \/ (frames'[i] = Said(1))
        <4>1. 1 \in 0..3
          OBVIOUS
        <4>2. /\ Len(frames) \in Nat
              /\ \A i \in 1..Len(frames) : frames'[i] = frames[i]
              /\ \A i \in 1..1 : frames'[Len(frames) + i] = Said(i)
              /\ \A i \in 1..Len(frames') : i \in 1..Len(frames) \/ i - Len(frames) \in 1..1
          BY <1>1, <1>2, <4>1, Spoken
        <4> DEFINE n == Len(frames)
        <4>3. \A i \in Int : i - n \in 1..1 => i = n + 1
          <5>1. n \in Nat
            BY <4>2
          <5> HIDE DEF n
          <5> QED BY <5>1
        <4>4. frames'[n + 1] = Said(1)
          BY <4>2
        <4> QED BY <4>2, <4>3, <4>4
      <3>2. Said(1).framing = framing
        BY <1>2, <2>1 DEF Says
      <3>3. \A i \in 1..Len(frames) : frames[i].framing = framing
        BY <1>1, <1>7 DEF Phases
      <3> QED BY <1>2, <1>3, <3>1, <3>2, <3>3 DEF Phases, ClientOnly
    <2>4. Talk'
      <3>1. CASE reading = "response"
        <4>1. /\ config.require_pack /\ (core => joiner.selected = "core") /\ answers = <<>>
          BY <1>1, <1>2, <3>1 DEF TalkResponse
        <4>2. TalkResponse'
          BY <1>2, <1>3, <2>1, <2>2, <4>1 DEF TalkResponse, Same, ClientOnly
        <4> QED BY <1>2, <3>1, <4>2 DEF ClientOnly, Talk, TalkHandshake, TalkStatus, TalkLogin, TalkPacks,
               TalkFinish
      <3>2. CASE reading = "finish"
        <4> DEFINE n == Len(answers)
        <4>1. /\ \A i \in 1..n : answers[i].framing = framing
              /\ n \in 1..3 /\ answers[n].kind = "finish"
              /\ n > 1 => answers[n - 1].kind = "registry_data"
              /\ ~(n > 2)
          BY <1>1, <1>2, <3>2 DEF TalkFinish
        <4>2. TalkFinish'
          <5>1. Len(answers') = n /\ answers' = answers /\ reading' = "finish" /\ framing' = framing
            BY <1>2, <3>2 DEF ClientOnly
          <5>2. Same'
            BY <1>3, <2>1, <5>1 DEF Same
          <5> HIDE DEF n
          <5> QED BY <2>2, <4>1, <5>1, <5>2 DEF TalkFinish
        <4> QED BY <1>2, <3>2, <4>2 DEF ClientOnly, Talk, TalkHandshake, TalkStatus, TalkLogin, TalkPacks,
               TalkResponse
      <3> QED BY <1>7, <3>1, <3>2
    <2> QED BY <1>4, <1>5, <2>3, <2>4 DEF HonestInv
  <1>8. CASE reading = "closed"
    <2>1. Talk'
      BY <1>2, <1>8 DEF ClientOnly, Talk, TalkHandshake, TalkStatus, TalkLogin, TalkPacks, TalkResponse,
         TalkFinish
    <2>2. reading = "closed" => Phases'
      BY <1>2, <1>3 DEF Phases, ClientOnly
    <2> QED BY <1>4, <1>5, <1>8, <2>1, <2>2 DEF HonestInv
  <1> QED BY <1>6, <1>7, <1>8

---------------------------------------------------------------------------
LEMMA LeavesHonest ==
  ASSUME Honest, L!ClientLeaves
  PROVE  HonestInv'
  <1>1. LoginTypes /\ Phases /\ Chained /\ Supplied /\ Excused /\ Talk
    BY DEF Honest, GateInv
  <1>2. /\ config' = config /\ reading' = reading /\ count' = count /\ framing' = framing
        /\ core' = core /\ why' = why /\ answers' = answers /\ frames' = frames
        /\ joiner'.framing = joiner.framing /\ joiner'.in = joiner.in /\ joiner'.selected = joiner.selected
        /\ joiner'.registries = joiner.registries /\ joiner'.todo = joiner.todo
        /\ joiner'.loaded = joiner.loaded /\ joiner'.answered = joiner.answered
    BY <1>1, LeaveStep DEF ClientOnly, Unmoved, Becomes
  <1>3. Chained' /\ Supplied'
    BY <1>1, <1>2 DEF Chained, Supplied, Complete, No
  <1>4. Excused' /\ Phases'
    BY <1>1, <1>2 DEF Excused, Phases, No
  <1>5. TalkHandshake' /\ TalkStatus' /\ TalkPacks'
    BY <1>1, <1>2 DEF Talk, TalkHandshake, TalkStatus, TalkPacks, Same, Asks
  <1>6. TalkLogin'
    BY <1>1, <1>2 DEF Talk, TalkLogin, Same, Asks
  <1>7. Reports(Len(frames)) => Reports(Len(frames))'
    BY <1>2 DEF Reports
  <1>8. TalkResponse'
    BY <1>1, <1>2, <1>7 DEF Talk, TalkResponse, Same
  <1>9. TalkFinish'
    BY <1>1, <1>2, <1>7 DEF Talk, TalkFinish, Same
  <1> QED BY <1>3, <1>4, <1>5, <1>6, <1>8, <1>9 DEF HonestInv, Talk

LEMMA ClientReadsHonest ==
  ASSUME Honest, L!ClientReads
  PROVE  HonestInv'
  <1>1. /\ ClientOnly /\ Consumes(answers[1].kind) /\ joiner.in \in {"login", "configuration"}
    BY ReadStep DEF Honest, GateInv
  <1>2. reading \in {"ping", "cookie", "key", "answer", "acknowledged", "packs", "response", "finish", "closed"}
    BY <1>1 DEF Honest, GateInv, LoginTypes, L!Reading, Talk, TalkHandshake, TalkStatus, TalkLogin, TalkFinish,
       Consumes
  <1>3. CASE reading = "closed"
    <2>1. Talk'
      BY <1>1, <1>3 DEF ClientOnly, Talk, TalkHandshake, TalkStatus, TalkLogin, TalkPacks, TalkResponse,
         TalkFinish
    <2> QED BY <1>3, <2>1, ReadsHonest
  <1> QED BY <1>2, <1>3, ReadsPing, ReadsCookie, ReadsKey, ReadsQuery, ReadsFinished, ReadsPacks,
             ReadsPush, ReadsEnd

\* What holds of an honest client holds at the start and after every step.
LEMMA HonestInit ==
  ASSUME L!Init
  PROVE  HonestInv
  <1>1. /\ reading = "handshake" /\ framing = {} /\ frames = <<>> /\ answers = <<>> /\ why = L!Nothing
    BY DEF L!Init
  <1>2. PICK genuine \in {TRUE, ~config.online} :
          joiner = [open |-> TRUE, honest |-> TRUE, genuine |-> genuine, in |-> "start",
                    framing |-> {}, selected |-> L!Nothing, registries |-> L!Nothing, pushed |-> FALSE,
                    todo |-> <<>>, loaded |-> FALSE, proved |-> FALSE, answered |-> FALSE]
    BY DEF L!Init
  <1>3. joiner.in = "start" /\ joiner.framing = {} /\ joiner.registries = L!Nothing
    BY <1>2
  <1>4. Len(frames) = 0 /\ Len(answers) = 0
    BY <1>1
  <1>5. Chained /\ Supplied /\ Phases
    BY <1>1, <1>3, <1>4 DEF Chained, Supplied, Phases, No
  <1>6. Excused
    BY <1>1, Named DEF Excused, Reasons
  <1>7. Talk
    BY <1>1, <1>3, <1>4 DEF Talk, TalkHandshake, TalkStatus, TalkLogin, TalkPacks, TalkResponse, TalkFinish, Same
  <1> QED BY <1>5, <1>6, <1>7 DEF HonestInv

LEMMA HonestStuttering ==
  ASSUME Honest, UNCHANGED loginVars
  PROVE  HonestInv'
  <1>1. /\ config' = config /\ reading' = reading /\ count' = count /\ framing' = framing
        /\ core' = core /\ why' = why /\ answers' = answers /\ frames' = frames /\ joiner' = joiner
    BY DEF loginVars
  <1>2. Chained /\ Supplied /\ Excused /\ Phases /\ Talk
    BY DEF Honest
  <1>3. Chained' /\ Supplied'
    BY <1>1, <1>2 DEF Chained, Supplied, Complete, No
  <1>4. Excused' /\ Phases'
    BY <1>1, <1>2 DEF Excused, Phases, No
  <1>5. TalkHandshake' /\ TalkStatus' /\ TalkPacks'
    BY <1>1, <1>2 DEF Talk, TalkHandshake, TalkStatus, TalkPacks, Same, Asks
  <1>6. TalkLogin'
    BY <1>1, <1>2 DEF Talk, TalkLogin, Same, Asks
  <1>7. Reports(Len(frames)) => Reports(Len(frames))'
    BY <1>1 DEF Reports
  <1>8. TalkResponse' /\ TalkFinish'
    BY <1>1, <1>2, <1>7 DEF Talk, TalkResponse, TalkFinish, Same
  <1> QED BY <1>3, <1>4, <1>5, <1>6, <1>8 DEF HonestInv, Talk

\* An honest client is one that has been honest.
LEMMA HonestyKept ==
  ASSUME GateInv, [L!Next]_loginVars, joiner'.honest
  PROVE  joiner.honest /\ ~L!ClientMisbehaves
  <1>1. LoginTypes /\ Joined
    BY DEF GateInv
  <1>2. ~L!ClientMisbehaves
    BY <1>1, MisbehaveStep
  <1>3. ASSUME L!ServerStep PROVE joiner'.honest = joiner.honest
    <2>1. PICK n \in 0..3 : Advances(n)
      BY <1>3, ServerAdvances
    <2>2. Took \/ Stays
      BY <2>1 DEF Advances
    <2> QED BY <2>2 DEF Took, Stays
  <1>4. ASSUME L!ClientStarts PROVE joiner'.honest = joiner.honest
    BY <1>1, <1>4, OpeningStep DEF Becomes
  <1>5. ASSUME L!ClientReads PROVE joiner'.honest = joiner.honest
    <2>1. Reads(answers[1].kind)
      BY <1>1, <1>5, ReadStep
    <2> QED BY <2>1 DEF Reads, Unmoved, Becomes
  <1>6. ASSUME L!ClientResponds PROVE joiner'.honest = joiner.honest
    BY <1>1, <1>6, RespondStep DEF Becomes
  <1>7. ASSUME L!ClientLeaves PROVE joiner'.honest = joiner.honest
    BY <1>1, <1>7, LeaveStep DEF Unmoved, Becomes
  <1>8. ASSUME UNCHANGED loginVars PROVE joiner'.honest = joiner.honest
    BY <1>8 DEF loginVars
  <1> QED BY <1>2, <1>3, <1>4, <1>5, <1>6, <1>7, <1>8 DEF L!Next

LEMMA HonestNext ==
  ASSUME GateInv, HonestInv, [L!Next]_loginVars
  PROVE  HonestInv'
  <1>1. CASE ~joiner'.honest
    BY <1>1 DEF HonestInv
  <1>2. CASE joiner'.honest
    <2>1. Honest /\ ~L!ClientMisbehaves
      BY <1>2, HonestyKept DEF Honest, HonestInv
    <2> QED BY <2>1, ServerHonest, StartsHonest, ClientReadsHonest, RespondsHonest, LeavesHonest,
               HonestStuttering DEF L!Next
  <1> QED BY <1>1, <1>2

\* Of an honest client everything above always holds.
LEMMA HonestAlways == L!Spec => [](GateInv /\ HonestInv)
  <1>1. L!Init => GateInv /\ HonestInv
    BY GateInit, HonestInit
  <1>2. GateInv /\ HonestInv /\ [L!Next]_loginVars => (GateInv /\ HonestInv)'
    BY GateNext, HonestNext
  <1> QED BY <1>1, <1>2, PTL DEF L!Spec, L!vars, loginVars

\* An honest client that plays has got complete registries: inline, or from the pack that
\* it selected when the server asked.
THEOREM RegistriesCompleteCorrect == L!Spec => []RegistriesComplete
  <1>1. GateInv /\ HonestInv => RegistriesComplete
    BY DEF HonestInv, Supplied, Complete, RegistriesComplete, L!RegistriesComplete
  <1> QED BY <1>1, HonestAlways, PTL

\* Turning on the cipher and the compression never leaves a packet on the stream that its
\* reader would read with the other framing.
THEOREM FramesReadableCorrect == L!Spec => []FramesReadable
  <1>1. GateInv /\ HonestInv => FramesReadable
    <2> SUFFICES ASSUME GateInv, HonestInv, joiner.honest
                 PROVE  /\ reading \in L!Reading /\ frames # <<>> => Head(frames).framing = framing
                        /\ answers # <<>> => Head(answers).framing = joiner.framing
      BY DEF FramesReadable, L!FramesReadable, L!packet
    <2>1. Chained /\ Phases /\ LoginTypes
      BY DEF HonestInv, GateInv
    <2>2. frames # <<>> => Head(frames) = frames[1] /\ 1 \in 1..Len(frames)
      BY <2>1, Rest DEF LoginTypes
    <2>3. answers # <<>> => Head(answers) = answers[1]
      BY <2>1, Rest DEF LoginTypes
    <2>4. "closed" \notin L!Reading
      BY DEF L!Reading
    <2> QED BY <2>1, <2>2, <2>3, <2>4 DEF Chained, Phases
  <1> QED BY <1>1, HonestAlways, PTL
=============================================================================
