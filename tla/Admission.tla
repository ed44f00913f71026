------------------------------ MODULE Admission ------------------------------
(***************************************************************************)
(* Connection admission of mc::server::Server: the accept loop             *)
(* (Server::Impl::run), the pending queue and its quotas (enqueue,         *)
(* release_connection), the worker threads that wait on queue_ready_       *)
(* (worker_loop), the per-name profile lease of handle_login, and          *)
(* request_stop, which sets stopping_ without taking queue_mutex_.         *)
(*                                                                         *)
(* A connection is a value of Conns and is accepted at most once.  Time is *)
(* the age of each attempt in ticks; an age of Window stands for "one      *)
(* second or older", the cut-off of the rate limiter.  What happens inside *)
(* a login beyond the lease is one step: it may end at any time, by any    *)
(* return or exception.                                                    *)
(***************************************************************************)
EXTENDS Integers, Sequences, FiniteSets

CONSTANTS
    Conns,        \* the connections peers may open
    Hosts,        \* peer addresses
    HostOf,       \* the address each connection comes from
    Names,        \* login names
    Workers,      \* the worker threads
    MaxPending,   \* Config::max_pending_connections
    MaxActive,    \* Config::max_active_connections
    MaxPerIp,     \* Config::max_connections_per_ip
    MaxAttempts,  \* Config::max_connection_attempts_per_second
    Window,       \* ticks in the rate limiter's second
    NoConn, NoName, NoThread

ASSUME ConstantsAssumption ==
    /\ IsFiniteSet(Conns)
    /\ HostOf \in [Conns -> Hosts]
    /\ NoConn \notin Conns
    /\ NoName \notin Names
    /\ NoThread \notin Workers

\* The constructor refuses a zero limit and no workers (server.cpp, Impl::Impl).
ASSUME LimitsAssumption ==
    /\ {MaxPending, MaxActive, MaxPerIp, MaxAttempts, Window} \subseteq Nat \ {0}
    /\ IsFiniteSet(Workers) /\ Workers # {}

VARIABLES
    listener,   \* control point of the thread in Server::run
    stopping,   \* stopping_
    notifier,   \* which thread still has to call notify_all
    lock,       \* worker that keeps queue_mutex_ between two steps
    pending,    \* pending_, oldest first
    allowed,    \* connections queued with rate_limited clear, the ended ones too
    active,     \* active_connections_
    byHost,     \* active_by_host_
    attempts,   \* connection_attempts_by_host_; its order is that of age
    age,        \* ticks since each connection's attempt, capped at Window
    new,        \* connections no peer has opened yet
    sockets,    \* descriptors the server has open
    pc,         \* control point of each worker
    held,       \* connection each worker took from the queue
    lease,      \* name each worker's login holds
    profiles    \* active_profiles_

vars == <<listener, stopping, notifier, lock, pending, allowed, active, byHost,
          attempts, age, new, sockets, pc, held, lease, profiles>>

quotaVars == <<active, byHost>>
rateVars == <<attempts, age>>
stopVars == <<stopping, notifier>>

-----------------------------------------------------------------------------
Queued == {pending[i] : i \in 1..Len(pending)}

Held == {held[w] : w \in Workers} \ {NoConn}

\* The connections the quota counters stand for.
Live == Queued \cup Held

LiveFrom(h) == {c \in Live : HostOf[c] = h}

\* active_by_host_[h], where a missing entry reads as zero.
HostCount(h) == IF h \in DOMAIN byHost THEN byHost[h] ELSE 0

\* The attempts of host h that enqueue keeps after popping the expired ones.
Recent(h) ==
    {c \in attempts[h] : age[c] < Window}

Asleep == {w \in Workers : pc[w] = "asleep"}

ListenerPoints == {"loop", "accept", "join", "destroyed"}
WorkerPoints == {"test", "park", "asleep", "greet", "login", "session",
                 "release", "exited"}

TypeOK ==
    /\ listener \in ListenerPoints
    /\ stopping \in BOOLEAN
    /\ notifier \in {"none", "caller", "listener", "done"}
    /\ lock \in Workers \cup {NoThread}
    /\ pending \in Seq(Conns)
    /\ allowed \subseteq Conns
    /\ active \in Nat
    /\ DOMAIN byHost \subseteq Hosts
    /\ \A h \in DOMAIN byHost : byHost[h] \in Nat \ {0}
    /\ attempts \in [Hosts -> SUBSET Conns]
    /\ age \in [Conns -> 0..Window]
    /\ new \subseteq Conns
    /\ sockets \subseteq Conns
    /\ pc \in [Workers -> WorkerPoints]
    /\ held \in [Workers -> Conns \cup {NoConn}]
    /\ lease \in [Workers -> Names \cup {NoName}]
    /\ profiles \subseteq Names

Init ==
    /\ listener = "loop"
    /\ stopping = FALSE
    /\ notifier = "none"
    /\ lock = NoThread
    /\ pending = <<>>
    /\ allowed = {}
    /\ active = 0
    /\ byHost = [h \in {} |-> 0]
    /\ attempts = [h \in Hosts |-> {}]
    /\ age = [c \in Conns |-> 0]
    /\ new = Conns
    /\ sockets = {}
    /\ pc = [w \in Workers |-> "test"]
    /\ held = [w \in Workers |-> NoConn]
    /\ lease = [w \in Workers |-> NoName]
    /\ profiles = {}

-----------------------------------------------------------------------------
(* The listener thread *)

\* while (!stopping_.load()): another turn of the loop, or request_stop (a
\* no-op by now), return, and the Server's destructor joining the workers.
ListenerLoop ==
    /\ listener = "loop"
    /\ listener' = IF stopping THEN "join" ELSE "accept"
    /\ UNCHANGED <<stopVars, lock, pending, allowed, quotaVars, rateVars, new,
                   sockets, pc, held, lease, profiles>>

\* poll timed out or accept was interrupted: continue.
PollTimeout ==
    /\ listener = "accept"
    /\ listener' = "loop"
    /\ UNCHANGED <<stopVars, lock, pending, allowed, quotaVars, rateVars, new,
                   sockets, pc, held, lease, profiles>>

\* poll or accept failed: run() throws and the destructor calls request_stop.
ListenerFails ==
    /\ listener = "accept"
    /\ listener' = "join"
    /\ stopping' = TRUE
    /\ notifier' = IF stopping THEN notifier ELSE "listener"
    /\ UNCHANGED <<lock, pending, allowed, quotaVars, rateVars, new, sockets,
                   pc, held, lease, profiles>>

\* Mutant: the per-address limit is one too generous.
MutOverQuotaOffByOne(h) ==
    \/ Len(pending) >= MaxPending
    \/ active >= MaxActive
    \/ HostCount(h) > MaxPerIp

OverQuota(h) ==
    \/ Len(pending) >= MaxPending
    \/ active >= MaxActive
    \/ HostCount(h) >= MaxPerIp

\* Mutant: the push is not announced.
MutNotifyNobody == UNCHANGED pc

\* queue_ready_.notify_one(): one sleeping worker, if any, wakes up.
NotifyOne ==
    IF Asleep = {}
    THEN UNCHANGED pc
    ELSE \E w \in Asleep : pc' = [pc EXCEPT ![w] = "test"]

\* enqueue: the attempt is recorded whatever becomes of it.
Enqueue(c) ==
    LET h == HostOf[c] IN
    /\ listener = "accept"
    /\ lock = NoThread
    /\ c \in new
    /\ listener' = "loop"
    /\ new' = new \ {c}
    /\ attempts' = [attempts EXCEPT ![h] = Recent(h) \cup {c}]
    /\ age' = [age EXCEPT ![c] = 0]
    /\ IF OverQuota(h)
       THEN UNCHANGED <<pending, allowed, quotaVars, sockets, pc>>
       ELSE /\ pending' = Append(pending, c)
            /\ allowed' = IF Cardinality(Recent(h)) >= MaxAttempts
                          THEN allowed ELSE allowed \cup {c}
            /\ active' = active + 1
            /\ byHost' = [g \in DOMAIN byHost \cup {h} |->
                             IF g = h THEN HostCount(h) + 1 ELSE byHost[g]]
            /\ sockets' = sockets \cup {c}
            /\ NotifyOne
    /\ UNCHANGED <<stopVars, lock, held, lease, profiles>>

\* The destructor's join of workers_ returns.
Join ==
    /\ listener = "join"
    /\ notifier # "listener"
    /\ \A w \in Workers : pc[w] = "exited"
    /\ listener' = "destroyed"
    /\ UNCHANGED <<stopVars, lock, pending, allowed, quotaVars, rateVars, new,
                   sockets, pc, held, lease, profiles>>

-----------------------------------------------------------------------------
(* request_stop: the exchange and the notification are two steps, neither  *)
(* of them under queue_mutex_.                                             *)

RequestStop ==
    /\ ~stopping
    /\ listener \in {"loop", "accept"}
    /\ stopping' = TRUE
    /\ notifier' = "caller"
    /\ UNCHANGED <<listener, lock, pending, allowed, quotaVars, rateVars, new,
                   sockets, pc, held, lease, profiles>>

NotifyAll ==
    /\ notifier \in {"caller", "listener"}
    /\ notifier' = "done"
    /\ pc' = [w \in Workers |-> IF w \in Asleep THEN "test" ELSE pc[w]]
    /\ UNCHANGED <<listener, stopping, lock, pending, allowed, quotaVars,
                   rateVars, new, sockets, held, lease, profiles>>

-----------------------------------------------------------------------------
(* A worker thread *)

\* Mutant: the front of the queue is read and not popped.
MutTakeWithoutPop(w) ==
    /\ pc[w] = "test"
    /\ lock = NoThread
    /\ pending # <<>>
    /\ held' = [held EXCEPT ![w] = Head(pending)]
    /\ pc' = [pc EXCEPT ![w] = "greet"]
    /\ UNCHANGED <<listener, stopVars, lock, pending, allowed, quotaVars,
                   rateVars, new, sockets, lease, profiles>>

\* queue_ready_.wait tests its predicate with queue_mutex_ held.  When it is
\* true the worker takes the oldest connection, or exits if there is none.
TakeWork(w) ==
    /\ pc[w] = "test"
    /\ lock = NoThread
    /\ \/ /\ pending # <<>>
          /\ held' = [held EXCEPT ![w] = Head(pending)]
          /\ pending' = Tail(pending)
          /\ pc' = [pc EXCEPT ![w] = "greet"]
       \/ /\ pending = <<>>
          /\ stopping
          /\ pc' = [pc EXCEPT ![w] = "exited"]
          /\ UNCHANGED <<held, pending>>
    /\ UNCHANGED <<listener, stopVars, lock, allowed, quotaVars, rateVars, new,
                   sockets, lease, profiles>>

\* The predicate was false; the mutex stays locked until Park.
FindNoWork(w) ==
    /\ pc[w] = "test"
    /\ lock = NoThread
    /\ pending = <<>>
    /\ ~stopping
    /\ lock' = w
    /\ pc' = [pc EXCEPT ![w] = "park"]
    /\ UNCHANGED <<listener, stopVars, pending, allowed, quotaVars, rateVars,
                   new, sockets, held, lease, profiles>>

\* The wait releases the mutex and blocks, atomically.
Park(w) ==
    /\ pc[w] = "park"
    /\ lock' = NoThread
    /\ pc' = [pc EXCEPT ![w] = "asleep"]
    /\ UNCHANGED <<listener, stopVars, pending, allowed, quotaVars, rateVars,
                   new, sockets, held, lease, profiles>>

\* A condition variable may wake without a notification.
SpuriousWake(w) ==
    /\ pc[w] = "asleep"
    /\ pc' = [pc EXCEPT ![w] = "test"]
    /\ UNCHANGED <<listener, stopVars, lock, pending, allowed, quotaVars,
                   rateVars, new, sockets, held, lease, profiles>>

\* Mutant: the way out of the try block skips release_connection.
MutCloseSkipsRelease(w) ==
    /\ pc' = [pc EXCEPT ![w] = "test"]
    /\ sockets' = sockets \ {held[w]}

\* Mutant: the raw descriptor is not owned by a Socket.
MutCloseLeaksSocket(w) ==
    /\ pc' = [pc EXCEPT ![w] = "release"]
    /\ UNCHANGED sockets

\* The connection's Socket goes out of scope on every way out of the try block.
CloseSocket(w) ==
    /\ pc' = [pc EXCEPT ![w] = "release"]
    /\ sockets' = sockets \ {held[w]}

\* handle_connection: a status exchange, a refused version, a rate-limited
\* login or a failed read end here; a login in time goes on.
Greet(w) ==
    /\ pc[w] = "greet"
    /\ \/ CloseSocket(w)
       \/ /\ held[w] \in allowed
          /\ pc' = [pc EXCEPT ![w] = "login"]
          /\ UNCHANGED sockets
    /\ UNCHANGED <<listener, stopVars, lock, pending, allowed, quotaVars,
                   rateVars, new, held, lease, profiles>>

\* Mutant: the lease's clean-up is armed before the insertion is tested.
MutHelloFreesDuplicate(w, n) ==
    /\ pc[w] = "login"
    /\ IF n \in profiles
       THEN /\ CloseSocket(w)
            /\ profiles' = profiles \ {n}
            /\ UNCHANGED lease
       ELSE /\ profiles' = profiles \cup {n}
            /\ lease' = [lease EXCEPT ![w] = n]
            /\ pc' = [pc EXCEPT ![w] = "session"]
            /\ UNCHANGED sockets
    /\ UNCHANGED <<listener, stopVars, lock, pending, allowed, quotaVars,
                   rateVars, new, held>>

\* handle_login reads the hello and inserts its name in active_profiles_; a
\* name already there ends the login without touching the set.
Hello(w, n) ==
    /\ pc[w] = "login"
    /\ IF n \in profiles
       THEN /\ CloseSocket(w)
            /\ UNCHANGED <<lease, profiles>>
       ELSE /\ profiles' = profiles \cup {n}
            /\ lease' = [lease EXCEPT ![w] = n]
            /\ pc' = [pc EXCEPT ![w] = "session"]
            /\ UNCHANGED sockets
    /\ UNCHANGED <<listener, stopVars, lock, pending, allowed, quotaVars,
                   rateVars, new, held>>

\* The hello cannot be read or names nobody.
HelloFails(w) ==
    /\ pc[w] = "login"
    /\ CloseSocket(w)
    /\ UNCHANGED <<listener, stopVars, lock, pending, allowed, quotaVars,
                   rateVars, new, held, lease, profiles>>

\* Any return or exception after the lease: profile_lease erases the name.
EndSession(w) ==
    /\ pc[w] = "session"
    /\ profiles' = profiles \ {lease[w]}
    /\ lease' = [lease EXCEPT ![w] = NoName]
    /\ CloseSocket(w)
    /\ UNCHANGED <<listener, stopVars, lock, pending, allowed, quotaVars,
                   rateVars, new, held>>

\* active_by_host_ after one connection of h leaves: no entry stays at zero.
HostReleased(h) ==
    IF HostCount(h) = 1
    THEN [g \in DOMAIN byHost \ {h} |-> byHost[g]]
    ELSE [g \in DOMAIN byHost |-> IF g = h THEN byHost[g] - 1 ELSE byHost[g]]

\* Mutant: with a host's last connection its attempts are forgotten.
MutReleaseForgetsHost(w) ==
    LET h == HostOf[held[w]] IN
    /\ pc[w] = "release"
    /\ lock = NoThread
    /\ active' = IF active > 0 THEN active - 1 ELSE active
    /\ byHost' = HostReleased(h)
    /\ attempts' = IF HostCount(h) = 1 THEN [attempts EXCEPT ![h] = {}] ELSE attempts
    /\ held' = [held EXCEPT ![w] = NoConn]
    /\ pc' = [pc EXCEPT ![w] = "test"]
    /\ UNCHANGED <<listener, stopVars, lock, pending, allowed, age, new, sockets,
                   lease, profiles>>

\* release_connection; connection_attempts_by_host_ keeps what it has.
Release(w) ==
    LET h == HostOf[held[w]] IN
    /\ pc[w] = "release"
    /\ lock = NoThread
    /\ active' = IF active > 0 THEN active - 1 ELSE active
    /\ byHost' = HostReleased(h)
    /\ held' = [held EXCEPT ![w] = NoConn]
    /\ pc' = [pc EXCEPT ![w] = "test"]
    /\ UNCHANGED <<listener, stopVars, lock, pending, allowed, rateVars, new,
                   sockets, lease, profiles>>

-----------------------------------------------------------------------------
\* A tick of steady_clock.
Tick ==
    /\ \E c \in Conns \ new : age[c] < Window
    /\ age' = [c \in Conns |-> IF c \in new \/ age[c] = Window
                               THEN age[c] ELSE age[c] + 1]
    /\ UNCHANGED <<listener, stopVars, lock, pending, allowed, quotaVars,
                   attempts, new, sockets, pc, held, lease, profiles>>

\* Everything is torn down; nothing is left to happen.
Terminated ==
    /\ listener = "destroyed"
    /\ UNCHANGED vars

WorkerStep(w) ==
    \/ TakeWork(w)
    \/ FindNoWork(w)
    \/ Park(w)
    \/ SpuriousWake(w)
    \/ Greet(w)
    \/ \E n \in Names : Hello(w, n)
    \/ HelloFails(w)
    \/ EndSession(w)
    \/ Release(w)

Next ==
    \/ ListenerLoop
    \/ PollTimeout
    \/ ListenerFails
    \/ \E c \in Conns : Enqueue(c)
    \/ Join
    \/ RequestStop
    \/ NotifyAll
    \/ \E w \in Workers : WorkerStep(w)
    \/ Tick
    \/ Terminated

Spec == Init /\ [][Next]_vars

(***************************************************************************)
(* Threads run: poll returns within 250 ms, a mutex is not withheld from a *)
(* waiting thread for ever, handle_connection's reads time out, and a      *)
(* session whose loop tests stopping_ ends after a stop.  Peers owe the    *)
(* server nothing, and a session may last for ever while it is running.    *)
(***************************************************************************)
Fairness ==
    /\ WF_vars(ListenerLoop)
    /\ WF_vars(PollTimeout \/ ListenerFails \/ \E c \in Conns : Enqueue(c))
    /\ WF_vars(Join)
    /\ WF_vars(NotifyAll)
    /\ \A w \in Workers :
          /\ SF_vars(TakeWork(w) \/ FindNoWork(w))
          /\ WF_vars(Park(w))
          /\ WF_vars(Greet(w))
          /\ WF_vars(HelloFails(w) \/ \E n \in Names : Hello(w, n))
          /\ WF_vars(stopping /\ EndSession(w))
          /\ SF_vars(Release(w))

FairSpec == Spec /\ Fairness

-----------------------------------------------------------------------------
(* Properties *)

\* No connection is queued or served twice: a queued one is in the queue once
\* and with no worker, and no two workers have the same one.
OneOwner ==
    /\ \A i, j \in 1..Len(pending) : pending[i] = pending[j] => i = j
    /\ Queued \cap Held = {}
    /\ \A v, w \in Workers : held[v] = held[w] /\ held[v] # NoConn => v = w

\* The counters enqueue tests count exactly the connections queued or in a
\* worker's hands, in total and per host, and no host keeps an entry without
\* one: every admission is paid back once, on every path out of a worker.
QuotaExact ==
    /\ active = Cardinality(Live)
    /\ \A h \in Hosts : HostCount(h) = Cardinality(LiveFrom(h))

\* An admitted connection keeps its descriptor open until its worker closes
\* it, and no descriptor outlives its worker: refused and finished connections
\* leave none behind.  After a stop the listener tests stopping_ before each
\* accept, so the last worker to go strands at most one in the queue.
SocketsExact ==
    /\ sockets = Queued \cup {held[w] : w \in {v \in Workers :
                                   pc[v] \in {"greet", "login", "session"}}}
    /\ (\A w \in Workers : pc[w] = "exited") => Len(pending) <= 1

\* active_profiles_ holds exactly the names of the logins in progress, one
\* each: a refused duplicate never frees the name of the session it collided
\* with, and a finished session never leaves its name taken.
LeaseExact ==
    /\ profiles = {lease[w] : w \in Workers} \ {NoName}
    /\ \A v, w \in Workers : lease[v] = lease[w] /\ lease[v] # NoName => v = w

\* The rolling limit: of the attempts of one host within any second, at most
\* MaxAttempts may log in, those whose login has ended since counted with the
\* others: a client that leaves and comes back at once gains nothing by it.
RateWindow ==
    \A h \in Hosts :
        Cardinality({c \in allowed : HostOf[c] = h /\ age[c] < Window}) <= MaxAttempts

\* While some worker sleeps, every queued connection has a woken worker coming
\* for it: enqueue's single notification is never lost or spent twice.
WakeupsCoverQueue ==
    Asleep # {} => Len(pending) <= Cardinality({w \in Workers : pc[w] = "test"})

\* A queued connection is taken by a worker unless every worker is occupied
\* with another one or the server is stopping.
AdmittedIsTaken ==
    \A c \in Conns :
        (c \in Queued) ~> \/ c \notin Queued
                          \/ stopping
                          \/ \A w \in Workers : held[w] # NoConn

\* The wait's predicate names stopping_ (server.cpp:750): once it is set, no
\* worker goes on waiting and every worker returns.
StopEndsWorkers ==
    stopping ~> \A w \in Workers : pc[w] = "exited"

\* The login name of each connection whose worker holds a lease.
ClientLease ==
    [c \in {held[w] : w \in {v \in Workers : lease[v] # NoName}} |->
        lease[CHOOSE w \in Workers : held[w] = c]]

Contract == INSTANCE AdmissionContract WITH live <- Live, lease <- ClientLease

\* Threads, queue, locks and counters together do what AdmissionContract says:
\* live connections within both quotas, names unique among the logged-in ones,
\* a name given back before its connection's place is.
ContractSpec == Contract!Spec
=============================================================================
