---------------------------- MODULE MCConnection ----------------------------
(***************************************************************************)
(* A connection from the listener to its end, checked in one run with the  *)
(* fairness of each part: the output queue of a session, its login, and    *)
(* the admission of connections to workers.  Each behaviour is that of one *)
(* part, chosen at first; the others keep an initial state.                *)
(***************************************************************************)
EXTENDS OutputQueue, TLC

CONSTANTS h1, h2, c1, c2, c3, n1, w1, w2, NoConn, NoName, NoThread

VARIABLES
  part,
  config, reading, count, framing, core, why, toServer, toClient, client,
  listener, stopped, notifier, lock, pending, allowed, active, byHost, attempts, age, new,
  sockets, pc, held, lease, profiles

outputVars == vars
loginVars == <<config, reading, count, framing, core, why, toServer, toClient, client>>
admissionVars == <<listener, stopped, notifier, lock, pending, allowed, active, byHost,
                   attempts, age, new, sockets, pc, held, lease, profiles>>
allVars == <<part, outputVars, loginVars, admissionVars>>

\* The strictest policy, with limits of two packets: a client that does not answer in two
\* reaches them.
MCConfigs == {[intention |-> "login", rate_limited |-> FALSE, online |-> TRUE,
               encrypted_offline |-> FALSE, query |-> TRUE, require_query |-> TRUE,
               pack |-> TRUE, require_pack |-> TRUE]}

L == INSTANCE LoginSequence WITH
       at <- reading, KnownPackPackets <- 2, PackResponses <- 2, FinishPackets <- 2,
       Configs <- MCConfigs

\* Two connections of one address and one of another.
MCConns == {c1, c2, c3}
MCHosts == {h1, h2}
MCWorkers == {w1, w2}
MCNames == {n1}
MCHostOf == c1 :> h1 @@ c2 :> h1 @@ c3 :> h2

A == INSTANCE Admission WITH
       stopping <- stopped, Conns <- MCConns, Hosts <- MCHosts, HostOf <- MCHostOf,
       Names <- MCNames, Workers <- MCWorkers, MaxPending <- 2, MaxActive <- 3, MaxPerIp <- 2,
       MaxAttempts <- 1, Window <- 1

MCInit ==
  /\ part \in {"output", "login", "admission"}
  /\ Init /\ L!Init /\ A!Init
  /\ part # "login" => client.genuine

Output(step) == part = "output" /\ step /\ UNCHANGED <<part, loginVars, admissionVars>>
Login(step) == part = "login" /\ step /\ UNCHANGED <<part, outputVars, admissionVars>>
Admit(step) == part = "admission" /\ step /\ UNCHANGED <<part, outputVars, loginVars>>

MCNext ==
  \/ \E size \in FrameSizes : Output(Write(size))
  \/ \E n \in 1..SendBuffer : Output(Send(n))
  \/ Output(FlushReturns)
  \/ Output(WouldBlock)
  \/ Output(SendFails)
  \/ Output(WaitEnds)
  \/ Output(LoopTop)
  \/ Output(TickDone)
  \/ Output(Poll)
  \/ Output(Polled)
  \/ Output(ReadPiece)
  \/ Output(ReadFails)
  \/ Output(Handled)
  \/ Output(SessionReturns)
  \/ \E n \in 1..SendBuffer : Output(PeerReads(n))
  \/ Output(PeerSends)
  \/ Output(PeerCloses)
  \/ Output(Stop)
  \/ Output(Expire)
  \/ Login(L!ServerStep)
  \/ Login(L!ClientStarts)
  \/ Login(L!ClientReads)
  \/ Login(L!ClientResponds)
  \/ Login(L!ClientMisbehaves)
  \/ Login(L!ClientLeaves)
  \/ Admit(A!ListenerLoop)
  \/ Admit(A!PollTimeout)
  \/ Admit(A!ListenerFails)
  \/ \E c \in MCConns : Admit(A!Enqueue(c))
  \/ Admit(A!Join)
  \/ Admit(A!RequestStop)
  \/ Admit(A!NotifyAll)
  \/ \E w \in MCWorkers : Admit(A!WorkerStep(w))
  \/ Admit(A!Tick)
  \/ Admit(A!Terminated)

\* The fairness of each part, as its module states it.
MCFairness ==
  /\ WF_allVars(Output(Session)) /\ WF_allVars(Output(Expire))
  /\ WF_allVars(Login(L!ServerStep))
  /\ WF_allVars(Admit(A!ListenerLoop))
  /\ WF_allVars(Admit(A!PollTimeout \/ A!ListenerFails \/ \E c \in MCConns : A!Enqueue(c)))
  /\ WF_allVars(Admit(A!Join))
  /\ WF_allVars(Admit(A!NotifyAll))
  /\ \A w \in MCWorkers :
        /\ SF_allVars(Admit(A!TakeWork(w) \/ A!FindNoWork(w)))
        /\ WF_allVars(Admit(A!Park(w)))
        /\ WF_allVars(Admit(A!Greet(w)))
        /\ WF_allVars(Admit(A!HelloFails(w) \/ \E n \in MCNames : A!Hello(w, n)))
        /\ WF_allVars(Admit(stopped /\ A!EndSession(w)))
        /\ SF_allVars(Admit(A!Release(w)))

MCSpec == MCInit /\ [][MCNext]_allVars /\ MCFairness

---------------------------------------------------------------------------
(* The properties of the login and of admission, each stated in its        *)
(* module; those of the output queue come with it.                         *)

LoginEnds == part = "login" => L!LoginEnds
AdmittedIsTaken == A!AdmittedIsTaken
=============================================================================
