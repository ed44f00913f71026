--------------------------- MODULE AdmissionProofs ---------------------------
(***************************************************************************)
(* Proofs about Admission, for every number of connections, hosts, names   *)
(* and workers and every value of the limits.                              *)
(*                                                                         *)
(* The invariants are proved one on top of the other: types, then the      *)
(* agreement of a worker's control point with what it holds, then          *)
(* ownership of connections, and from these the quota counters, the leases *)
(* and the rate window.  Most steps leave the queue and the workers' hands *)
(* alone; OwnershipSteps singles out the three that do not.                *)
(***************************************************************************)
EXTENDS Admission, FiniteSetTheorems, TLAPS

\* A worker has a connection exactly from taking it to releasing it, and a
\* name exactly while its login holds the lease.
ControlPoints ==
    \A w \in Workers :
        /\ held[w] # NoConn <=> pc[w] \in {"greet", "login", "session", "release"}
        /\ lease[w] # NoName <=> pc[w] = "session"

\* A connection nobody has opened is nowhere in the server.
Unopened == new \cap Live = {}

\* The rate limiter remembers every attempt younger than the window.
AttemptsKept ==
    \A c \in Conns \ new : age[c] < Window => c \in attempts[HostOf[c]]

-----------------------------------------------------------------------------
(* Types *)

LEMMA HostEntryTypes ==
    ASSUME TypeOK, NEW h
    PROVE  /\ DOMAIN HostReleased(h) \subseteq Hosts
           /\ \A g \in DOMAIN HostReleased(h) : HostReleased(h)[g] \in Nat \ {0}
BY DEF TypeOK, HostReleased, HostCount

\* Every step preserves the types.
LEMMA TypeStep ==
    ASSUME TypeOK, [Next]_vars
    PROVE  TypeOK'
<1> USE DEF TypeOK, ListenerPoints, WorkerPoints, quotaVars, rateVars, stopVars
<1>1. CASE ListenerLoop BY <1>1 DEF ListenerLoop
<1>2. CASE PollTimeout BY <1>2 DEF PollTimeout
<1>3. CASE ListenerFails BY <1>3 DEF ListenerFails
<1>4. ASSUME NEW c \in Conns, Enqueue(c) PROVE TypeOK'
  <2> DEFINE h == HostOf[c]
  <2>1. h \in Hosts
    BY ConstantsAssumption
  <2>2. HostCount(h) \in Nat
    BY DEF HostCount
  <2>3. attempts' \in [Hosts -> SUBSET Conns]
    BY <1>4, <2>1 DEF Enqueue, Recent
  <2>4. age' \in [Conns -> 0..Window]
    BY <1>4, LimitsAssumption DEF Enqueue
  <2>5. pc' \in [Workers -> WorkerPoints]
    BY <1>4 DEF Enqueue, NotifyOne, Asleep
  <2>6. CASE OverQuota(h)
    BY <1>4, <2>3, <2>4, <2>6 DEF Enqueue
  <2>7. CASE ~OverQuota(h)
    <3>1. pending' \in Seq(Conns)
      <4>1. pending' = Append(pending, c)
        BY <1>4, <2>7 DEF Enqueue
      <4> QED
        BY <4>1
    <3>2. /\ DOMAIN byHost' \subseteq Hosts
          /\ \A g \in DOMAIN byHost' : byHost'[g] \in Nat \ {0}
      BY <1>4, <2>1, <2>2, <2>7 DEF Enqueue
    <3>3. active' \in Nat /\ allowed' \subseteq Conns /\ sockets' \subseteq Conns
      BY <1>4, <2>7 DEF Enqueue
    <3> QED
      BY <1>4, <2>3, <2>4, <2>5, <3>1, <3>2, <3>3 DEF Enqueue
  <2> QED
    BY <2>6, <2>7
<1>5. CASE Join BY <1>5 DEF Join
<1>6. CASE RequestStop BY <1>6 DEF RequestStop
<1>7. CASE NotifyAll BY <1>7 DEF NotifyAll
<1>8. ASSUME NEW w \in Workers, WorkerStep(w) PROVE TypeOK'
  <2>1. CASE TakeWork(w)
    <3>1. CASE pending # <<>>
      <4>1. Head(pending) \in Conns /\ Tail(pending) \in Seq(Conns)
        BY <3>1
      <4> QED
        BY <2>1, <3>1, <4>1 DEF TakeWork
    <3>2. CASE pending = <<>>
      BY <2>1, <3>2 DEF TakeWork
    <3> QED
      BY <3>1, <3>2
  <2>2. CASE FindNoWork(w) BY <2>2 DEF FindNoWork
  <2>3. CASE Park(w) BY <2>3 DEF Park
  <2>4. CASE SpuriousWake(w) BY <2>4 DEF SpuriousWake
  <2>5. CASE Greet(w) BY <2>5 DEF Greet, CloseSocket
  <2>6. ASSUME NEW n \in Names, Hello(w, n) PROVE TypeOK'
    BY <2>6 DEF Hello, CloseSocket
  <2>7. CASE HelloFails(w) BY <2>7 DEF HelloFails, CloseSocket
  <2>8. CASE EndSession(w) BY <2>8 DEF EndSession, CloseSocket
  <2>9. CASE Release(w)
    <3>1. /\ DOMAIN byHost' \subseteq Hosts
          /\ \A g \in DOMAIN byHost' : byHost'[g] \in Nat \ {0}
      BY <2>9, HostEntryTypes DEF Release
    <3> QED
      BY <2>9, <3>1 DEF Release
  <2> QED
    BY <1>8, <2>1, <2>2, <2>3, <2>4, <2>5, <2>6, <2>7, <2>8, <2>9 DEF WorkerStep
<1>9. CASE Tick
  BY <1>9, LimitsAssumption DEF Tick
<1>10. CASE UNCHANGED vars
  BY <1>10 DEF vars
<1> QED
  BY <1>1, <1>2, <1>3, <1>4, <1>5, <1>6, <1>7, <1>8, <1>9, <1>10
  DEF Next, Terminated

\* Type correctness: the control points, queue, counters and maps of the
\* server keep their types; in particular active_by_host_ never holds a zero.
THEOREM TypeCorrect == Spec => []TypeOK
<1>1. Init => TypeOK
  <2> SUFFICES ASSUME Init PROVE TypeOK
    OBVIOUS
  <2> USE DEF Init
  <2>1. DOMAIN byHost = {}
    OBVIOUS
  <2>2. age \in [Conns -> 0..Window]
    BY LimitsAssumption
  <2>3. pending \in Seq(Conns)
    OBVIOUS
  <2> QED
    BY <2>1, <2>2, <2>3 DEF TypeOK, ListenerPoints, WorkerPoints
<1>2. TypeOK /\ [Next]_vars => TypeOK'
  BY TypeStep
<1> QED
  BY <1>1, <1>2, PTL DEF Spec

-----------------------------------------------------------------------------
(* Control points *)

\* A worker's control point agrees with the connection and the name it has.
THEOREM ControlPointsCorrect == Spec => []ControlPoints
<1>1. Init => ControlPoints
  BY DEF Init, ControlPoints
<1>2. TypeOK /\ ControlPoints /\ [Next]_vars => ControlPoints'
  <2> SUFFICES ASSUME TypeOK, ControlPoints, [Next]_vars PROVE ControlPoints'
    OBVIOUS
  <2> USE DEF TypeOK, ControlPoints
  <2>1. CASE ListenerLoop BY <2>1 DEF ListenerLoop
  <2>2. CASE PollTimeout BY <2>2 DEF PollTimeout
  <2>3. CASE ListenerFails BY <2>3 DEF ListenerFails
  <2>4. ASSUME NEW c \in Conns, Enqueue(c) PROVE ControlPoints'
    <3>1. held' = held /\ lease' = lease
      BY <2>4 DEF Enqueue
    <3>2. \/ pc' = pc
          \/ \E v \in Asleep : pc' = [pc EXCEPT ![v] = "test"]
      BY <2>4 DEF Enqueue, NotifyOne
    <3> QED
      BY <3>1, <3>2 DEF Asleep
  <2>5. CASE Join BY <2>5 DEF Join
  <2>6. CASE RequestStop BY <2>6 DEF RequestStop
  <2>7. CASE NotifyAll BY <2>7 DEF NotifyAll, Asleep
  <2>8. ASSUME NEW w \in Workers, WorkerStep(w) PROVE ControlPoints'
    <3>1. CASE TakeWork(w)
      <4>1. CASE pending # <<>>
        <5>1. Head(pending) # NoConn
          BY <4>1, ConstantsAssumption
        <5> QED
          BY <3>1, <4>1, <5>1 DEF TakeWork
      <4>2. CASE pending = <<>>
        BY <3>1, <4>2 DEF TakeWork
      <4> QED
        BY <4>1, <4>2
    <3>2. CASE FindNoWork(w) BY <3>2 DEF FindNoWork
    <3>3. CASE Park(w) BY <3>3 DEF Park
    <3>4. CASE SpuriousWake(w) BY <3>4 DEF SpuriousWake
    <3>5. CASE Greet(w) BY <3>5 DEF Greet, CloseSocket
    <3>6. ASSUME NEW n \in Names, Hello(w, n) PROVE ControlPoints'
      BY <3>6, ConstantsAssumption DEF Hello, CloseSocket
    <3>7. CASE HelloFails(w) BY <3>7 DEF HelloFails, CloseSocket
    <3>8. CASE EndSession(w) BY <3>8 DEF EndSession, CloseSocket
    <3>9. CASE Release(w) BY <3>9 DEF Release
    <3> QED
      BY <2>8, <3>1, <3>2, <3>3, <3>4, <3>5, <3>6, <3>7, <3>8, <3>9 DEF WorkerStep
  <2>9. CASE Tick BY <2>9 DEF Tick
  <2>10. CASE UNCHANGED vars BY <2>10 DEF vars
  <2> QED
    BY <2>1, <2>2, <2>3, <2>4, <2>5, <2>6, <2>7, <2>8, <2>9, <2>10
    DEF Next, Terminated
<1> QED
  BY <1>1, <1>2, TypeCorrect, PTL DEF Spec

-----------------------------------------------------------------------------
(* Ownership *)

\* Appending to a queue adds one owner-less connection and keeps it distinct.
LEMMA QueueAppend ==
    ASSUME NEW q \in Seq(Conns), NEW c \in Conns, NEW r, r = Append(q, c)
    PROVE  /\ {r[i] : i \in 1..Len(r)} = {q[i] : i \in 1..Len(q)} \cup {c}
           /\ (/\ c \notin {q[i] : i \in 1..Len(q)}
               /\ \A i, j \in 1..Len(q) : q[i] = q[j] => i = j)
              => \A i, j \in 1..Len(r) : r[i] = r[j] => i = j
<1>1. Len(r) = Len(q) + 1 /\ Len(q) \in Nat
  OBVIOUS
<1>2. \A i \in 1..Len(q) : r[i] = q[i]
  OBVIOUS
<1>3. r[Len(q) + 1] = c
  OBVIOUS
<1>4. 1..Len(r) = (1..Len(q)) \cup {Len(q) + 1}
  BY <1>1
<1> QED
  BY <1>1, <1>2, <1>3, <1>4

\* Popping the front of a queue without repetitions removes just that one.
LEMMA QueueTail ==
    ASSUME NEW q \in Seq(Conns), q # <<>>, NEW r, r = Tail(q),
           \A i, j \in 1..Len(q) : q[i] = q[j] => i = j
    PROVE  /\ {r[i] : i \in 1..Len(r)} = {q[i] : i \in 1..Len(q)} \ {Head(q)}
           /\ Head(q) \in {q[i] : i \in 1..Len(q)}
           /\ \A i, j \in 1..Len(r) : r[i] = r[j] => i = j
<1>1. Len(r) = Len(q) - 1 /\ Len(q) \in Nat \ {0}
  OBVIOUS
<1>2. \A i \in 1..Len(r) : r[i] = q[i + 1]
  OBVIOUS
<1>3. Head(q) = q[1]
  OBVIOUS
<1>4. \A i \in 1..Len(r) : i + 1 \in 1..Len(q) /\ i + 1 # 1
  BY <1>1
<1>5. \A k \in 1..Len(q) : k # 1 => k - 1 \in 1..Len(r) /\ r[k - 1] = q[k]
  BY <1>1, <1>2
<1>6. {r[i] : i \in 1..Len(r)} \subseteq {q[i] : i \in 1..Len(q)} \ {Head(q)}
  <2> SUFFICES ASSUME NEW i \in 1..Len(r)
               PROVE  r[i] \in {q[k] : k \in 1..Len(q)} \ {Head(q)}
    OBVIOUS
  <2> QED
    BY <1>1, <1>2, <1>3, <1>4
<1>7. {q[i] : i \in 1..Len(q)} \ {Head(q)} \subseteq {r[i] : i \in 1..Len(r)}
  <2> SUFFICES ASSUME NEW k \in 1..Len(q), q[k] # Head(q)
               PROVE  q[k] \in {r[i] : i \in 1..Len(r)}
    OBVIOUS
  <2> QED
    BY <1>3, <1>5
<1>8. \A i, j \in 1..Len(r) : r[i] = r[j] => i = j
  <2> SUFFICES ASSUME NEW i \in 1..Len(r), NEW j \in 1..Len(r), r[i] = r[j]
               PROVE  i = j
    OBVIOUS
  <2>1. i + 1 = j + 1
    BY <1>2, <1>4
  <2> QED
    BY <2>1
<1> QED
  BY <1>1, <1>3, <1>6, <1>7, <1>8

Admitting(c) == Enqueue(c) /\ ~OverQuota(HostOf[c])

\* Only an admission, a worker taking the front of the queue and a release
\* change who has which connection or what the quota counters say.
LEMMA OwnershipSteps ==
    ASSUME [Next]_vars
    PROVE  \/ \E c \in Conns : Admitting(c)
           \/ \E w \in Workers : TakeWork(w) /\ pending # <<>>
           \/ \E w \in Workers : Release(w)
           \/ /\ UNCHANGED <<pending, held, active, byHost, allowed>>
              /\ new' \subseteq new
<1> USE DEF stopVars, rateVars, quotaVars
<1>1. CASE ListenerLoop BY <1>1 DEF ListenerLoop
<1>2. CASE PollTimeout BY <1>2 DEF PollTimeout
<1>3. CASE ListenerFails BY <1>3 DEF ListenerFails
<1>4. ASSUME NEW c \in Conns, Enqueue(c), ~Admitting(c)
      PROVE  UNCHANGED <<pending, held, active, byHost, allowed>> /\ new' \subseteq new
  BY <1>4 DEF Enqueue, Admitting
<1>5. CASE Join BY <1>5 DEF Join
<1>6. CASE RequestStop BY <1>6 DEF RequestStop
<1>7. CASE NotifyAll BY <1>7 DEF NotifyAll
<1>8. ASSUME NEW w \in Workers, WorkerStep(w), ~Release(w),
             ~(TakeWork(w) /\ pending # <<>>)
      PROVE  UNCHANGED <<pending, held, active, byHost, allowed>> /\ new' \subseteq new
  <2>1. CASE TakeWork(w) BY <1>8, <2>1 DEF TakeWork
  <2>2. CASE FindNoWork(w) BY <2>2 DEF FindNoWork
  <2>3. CASE Park(w) BY <2>3 DEF Park
  <2>4. CASE SpuriousWake(w) BY <2>4 DEF SpuriousWake
  <2>5. CASE Greet(w) BY <2>5 DEF Greet
  <2>6. ASSUME NEW n \in Names, Hello(w, n)
        PROVE  UNCHANGED <<pending, held, active, byHost, allowed>> /\ new' \subseteq new
    BY <2>6 DEF Hello
  <2>7. CASE HelloFails(w) BY <2>7 DEF HelloFails
  <2>8. CASE EndSession(w) BY <2>8 DEF EndSession
  <2> QED
    BY <1>8, <2>1, <2>2, <2>3, <2>4, <2>5, <2>6, <2>7, <2>8 DEF WorkerStep
<1>9. CASE Tick BY <1>9 DEF Tick
<1>10. CASE UNCHANGED vars BY <1>10 DEF vars
<1> QED
  BY <1>1, <1>2, <1>3, <1>4, <1>5, <1>6, <1>7, <1>8, <1>9, <1>10
  DEF Next, Terminated

LEMMA AdmissionEffect ==
    ASSUME TypeOK, NEW c \in Conns, Admitting(c)
    PROVE  /\ Queued' = Queued \cup {c} /\ Held' = Held /\ Live' = Live \cup {c}
           /\ held' = held /\ pending' = Append(pending, c)
           /\ c \in new /\ new' = new \ {c}
           /\ active' = active + 1
<1>1. pending' = Append(pending, c) /\ held' = held
  BY DEF Admitting, Enqueue
<1>2. pending \in Seq(Conns)
  BY DEF TypeOK
<1>3. Queued' = Queued \cup {c}
  BY <1>1, <1>2, QueueAppend DEF Queued
<1>4. Held' = Held
  BY <1>1 DEF Held
<1> QED
  BY <1>1, <1>3, <1>4 DEF Live, Admitting, Enqueue, quotaVars

LEMMA TakeEffect ==
    ASSUME TypeOK, ControlPoints, OneOwner,
           NEW w \in Workers, TakeWork(w), pending # <<>>
    PROVE  /\ Queued' = Queued \ {Head(pending)}
           /\ Held' = Held \cup {Head(pending)}
           /\ Head(pending) \in Queued /\ Head(pending) # NoConn
           /\ Live' = Live
           /\ UNCHANGED <<active, byHost, allowed, new, age>>
           /\ \A i, j \in 1..Len(pending') : pending'[i] = pending'[j] => i = j
           /\ held' = [held EXCEPT ![w] = Head(pending)]
           /\ held[w] = NoConn
<1>1. pending' = Tail(pending) /\ held' = [held EXCEPT ![w] = Head(pending)]
  BY DEF TakeWork
<1>2. pending \in Seq(Conns) /\ held \in [Workers -> Conns \cup {NoConn}]
  BY DEF TypeOK
<1>3. /\ Queued' = Queued \ {Head(pending)} /\ Head(pending) \in Queued
      /\ \A i, j \in 1..Len(pending') : pending'[i] = pending'[j] => i = j
  <2>1. \A i, j \in 1..Len(pending) : pending[i] = pending[j] => i = j
    BY DEF OneOwner
  <2>2. /\ {Tail(pending)[i] : i \in 1..Len(Tail(pending))} = Queued \ {Head(pending)}
        /\ Head(pending) \in Queued
        /\ \A i, j \in 1..Len(Tail(pending)) :
              Tail(pending)[i] = Tail(pending)[j] => i = j
    BY <1>2, <2>1, QueueTail DEF Queued
  <2> QED
    BY <1>1, <2>2 DEF Queued
<1>4. Head(pending) \in Conns /\ Head(pending) # NoConn
  BY <1>2, ConstantsAssumption
<1>5. held[w] = NoConn
  BY DEF TakeWork, ControlPoints
<1>6. Held' = Held \cup {Head(pending)}
  BY <1>1, <1>2, <1>4, <1>5 DEF Held
<1>7. Live' = Live
  BY <1>3, <1>6 DEF Live
<1> QED
  BY <1>1, <1>3, <1>4, <1>5, <1>6, <1>7 DEF TakeWork, quotaVars, rateVars

LEMMA ReleaseEffect ==
    ASSUME TypeOK, ControlPoints, OneOwner, NEW w \in Workers, Release(w)
    PROVE  /\ held[w] \in Conns /\ held[w] \in Live
           /\ Queued' = Queued /\ pending' = pending
           /\ Held' = Held \ {held[w]} /\ Live' = Live \ {held[w]}
           /\ held' = [held EXCEPT ![w] = NoConn]
           /\ UNCHANGED <<allowed, new, age>>
<1>1. held[w] # NoConn /\ held[w] \in Conns
  BY DEF Release, ControlPoints, TypeOK
<1>2. held' = [held EXCEPT ![w] = NoConn] /\ pending' = pending
  BY DEF Release
<1>3. Queued' = Queued
  BY <1>2 DEF Queued
<1>4. Held' = Held \ {held[w]}
  BY <1>1, <1>2 DEF Held, TypeOK, OneOwner
<1>5. held[w] \in Held /\ Held \cap Queued = {}
  BY <1>1 DEF Held, OneOwner
<1> QED
  BY <1>1, <1>2, <1>3, <1>4, <1>5 DEF Live, Release, rateVars

\* No connection is queued twice, queued while served, served twice, or
\* admitted again after it was opened once.
THEOREM OneOwnerCorrect == Spec => [](OneOwner /\ Unopened)
<1>1. Init => OneOwner /\ Unopened
  <2> SUFFICES ASSUME Init PROVE OneOwner /\ Unopened
    OBVIOUS
  <2>1. pending = <<>> /\ \A w \in Workers : held[w] = NoConn
    BY DEF Init
  <2>2. Queued = {} /\ Held = {}
    BY <2>1 DEF Queued, Held
  <2> QED
    BY <2>1, <2>2 DEF OneOwner, Unopened, Live
<1>2. /\ TypeOK /\ ControlPoints /\ OneOwner /\ Unopened /\ [Next]_vars
      => (OneOwner /\ Unopened)'
  <2> SUFFICES ASSUME TypeOK, ControlPoints, OneOwner, Unopened, [Next]_vars
               PROVE  OneOwner' /\ Unopened'
    OBVIOUS
  <2>1. ASSUME NEW c \in Conns, Admitting(c) PROVE OneOwner' /\ Unopened'
    <3>1. c \notin Queued /\ c \notin Held
      BY <2>1, AdmissionEffect DEF Unopened, Live
    <3>2. \A i, j \in 1..Len(pending') : pending'[i] = pending'[j] => i = j
      <4>1. pending \in Seq(Conns) /\ pending' = Append(pending, c)
        BY <2>1, AdmissionEffect DEF TypeOK
      <4>2. c \notin {pending[i] : i \in 1..Len(pending)}
        BY <3>1 DEF Queued
      <4>3. \A i, j \in 1..Len(pending) : pending[i] = pending[j] => i = j
        BY DEF OneOwner
      <4> QED
        BY <4>1, <4>2, <4>3, QueueAppend
    <3> QED
      BY <2>1, <3>1, <3>2, AdmissionEffect DEF OneOwner, Unopened
  <2>2. ASSUME NEW w \in Workers, TakeWork(w), pending # <<>>
        PROVE  OneOwner' /\ Unopened'
    <3>1. \A v \in Workers : held[v] # Head(pending)
      BY <2>2, TakeEffect DEF OneOwner, Held
    <3>2. \A u, v \in Workers : held'[u] = held'[v] /\ held'[u] # NoConn => u = v
      BY <2>2, <3>1, TakeEffect DEF OneOwner, TypeOK
    <3> QED
      BY <2>2, <3>2, TakeEffect DEF OneOwner, Unopened
  <2>3. ASSUME NEW w \in Workers, Release(w) PROVE OneOwner' /\ Unopened'
    <3>1. \A u, v \in Workers : held'[u] = held'[v] /\ held'[u] # NoConn => u = v
      BY <2>3, ReleaseEffect DEF OneOwner, TypeOK
    <3> QED
      BY <2>3, <3>1, ReleaseEffect DEF OneOwner, Unopened
  <2>4. CASE UNCHANGED <<pending, held>> /\ new' \subseteq new
    BY <2>4 DEF OneOwner, Unopened, Live, Queued, Held
  <2> QED
    BY <2>1, <2>2, <2>3, <2>4, OwnershipSteps
<1> QED
  BY <1>1, <1>2, TypeCorrect, ControlPointsCorrect, PTL DEF Spec

-----------------------------------------------------------------------------
(* Quotas *)

LEMMA LiveFinite ==
    ASSUME TypeOK
    PROVE  /\ Live \subseteq Conns /\ IsFiniteSet(Live)
           /\ \A h : IsFiniteSet(LiveFrom(h))
<1>1. Live \subseteq Conns
  BY DEF TypeOK, Live, Queued, Held
<1>2. \A S \in SUBSET Conns : IsFiniteSet(S)
  BY FS_Subset, ConstantsAssumption
<1> QED
  BY <1>1, <1>2 DEF LiveFrom

\* The quota counters are exact: active_connections_ and every entry of
\* active_by_host_ count the connections queued or in a worker's hands.
THEOREM QuotaCorrect == Spec => []QuotaExact
<1>1. Init => QuotaExact
  <2> SUFFICES ASSUME Init PROVE QuotaExact
    OBVIOUS
  <2>1. Live = {}
    BY DEF Init, Live, Queued, Held
  <2>2. \A h \in Hosts : LiveFrom(h) = {} /\ HostCount(h) = 0
    BY <2>1 DEF LiveFrom, HostCount, Init
  <2>3. active = 0
    BY DEF Init
  <2> QED
    BY <2>1, <2>2, <2>3, FS_EmptySet DEF QuotaExact
<1>2. /\ TypeOK /\ ControlPoints /\ OneOwner /\ Unopened /\ QuotaExact
      /\ [Next]_vars
      => QuotaExact'
  <2> SUFFICES ASSUME TypeOK, ControlPoints, OneOwner, Unopened, QuotaExact,
                      [Next]_vars
               PROVE  QuotaExact'
    OBVIOUS
  <2>0. IsFiniteSet(Live) /\ \A h : IsFiniteSet(LiveFrom(h))
    BY LiveFinite
  <2>1. ASSUME NEW c \in Conns, Admitting(c) PROVE QuotaExact'
    <3> DEFINE g == HostOf[c]
    <3>1. c \notin Live /\ Live' = Live \cup {c}
      BY <2>1, AdmissionEffect DEF Unopened
    <3>2. active' = Cardinality(Live')
      BY <2>0, <2>1, <3>1, AdmissionEffect, FS_AddElement DEF QuotaExact
    <3>3. \A h \in Hosts : LiveFrom(h)' = IF h = g THEN LiveFrom(h) \cup {c}
                                          ELSE LiveFrom(h)
      BY <3>1 DEF LiveFrom
    <3>4. byHost' = [h \in DOMAIN byHost \cup {g} |->
                        IF h = g THEN HostCount(g) + 1 ELSE byHost[h]]
      BY <2>1 DEF Admitting, Enqueue
    <3>5. \A h \in Hosts : HostCount(h)' = IF h = g THEN HostCount(h) + 1
                                           ELSE HostCount(h)
      BY <3>4 DEF HostCount
    <3>6. \A h \in Hosts : HostCount(h)' = Cardinality(LiveFrom(h)')
      <4> SUFFICES ASSUME NEW h \in Hosts
                   PROVE  HostCount(h)' = Cardinality(LiveFrom(h)')
        OBVIOUS
      <4>1. c \notin LiveFrom(h)
        BY <3>1 DEF LiveFrom
      <4>2. Cardinality(LiveFrom(h) \cup {c}) = Cardinality(LiveFrom(h)) + 1
        BY <2>0, <4>1, FS_AddElement
      <4> QED
        BY <3>3, <3>5, <4>2 DEF QuotaExact
    <3> QED
      BY <3>2, <3>6 DEF QuotaExact
  <2>2. ASSUME NEW w \in Workers, TakeWork(w), pending # <<>> PROVE QuotaExact'
    BY <2>2, TakeEffect DEF QuotaExact, LiveFrom, HostCount
  <2>3. ASSUME NEW w \in Workers, Release(w) PROVE QuotaExact'
    <3> DEFINE c == held[w]
               g == HostOf[c]
    <3>1. c \in Conns /\ c \in Live /\ Live' = Live \ {c}
      BY <2>3, ReleaseEffect
    <3>2. active' = Cardinality(Live')
      <4>1. Cardinality(Live \ {c}) = Cardinality(Live) - 1
        BY <2>0, <3>1, FS_RemoveElement
      <4>2. Cardinality(Live) \in Nat /\ Cardinality(Live \ {c}) \in Nat
        BY <2>0, FS_RemoveElement, FS_CardinalityType
      <4>3. active > 0
        BY <4>1, <4>2 DEF QuotaExact
      <4> QED
        BY <2>3, <3>1, <4>1, <4>3 DEF Release, QuotaExact
    <3>3. \A h \in Hosts : LiveFrom(h)' = IF h = g THEN LiveFrom(h) \ {c}
                                          ELSE LiveFrom(h)
      BY <3>1 DEF LiveFrom
    <3>4. g \in Hosts /\ c \in LiveFrom(g)
      BY <3>1, ConstantsAssumption DEF LiveFrom
    <3>5. HostCount(g) \in Nat /\ HostCount(g) >= 1
      <4>1. Cardinality(LiveFrom(g) \ {c}) = Cardinality(LiveFrom(g)) - 1
        BY <2>0, <3>4, FS_RemoveElement
      <4>2. Cardinality(LiveFrom(g)) \in Nat /\ Cardinality(LiveFrom(g) \ {c}) \in Nat
        BY <2>0, FS_RemoveElement, FS_CardinalityType
      <4> QED
        BY <3>4, <4>1, <4>2 DEF QuotaExact
    <3>6. byHost' = HostReleased(g)
      BY <2>3 DEF Release
    <3>7. \A h \in Hosts : HostCount(h)' = IF h = g THEN HostCount(h) - 1
                                           ELSE HostCount(h)
      <4>1. g \in DOMAIN byHost
        BY <3>5 DEF HostCount
      <4>2. CASE HostCount(g) = 1
        BY <3>6, <4>1, <4>2 DEF HostReleased, HostCount
      <4>3. CASE HostCount(g) # 1
        BY <3>6, <4>1, <4>3 DEF HostReleased, HostCount
      <4> QED
        BY <4>2, <4>3
    <3>8. \A h \in Hosts : HostCount(h)' = Cardinality(LiveFrom(h)')
      <4>1. Cardinality(LiveFrom(g) \ {c}) = Cardinality(LiveFrom(g)) - 1
        BY <2>0, <3>4, FS_RemoveElement
      <4> QED
        BY <3>3, <3>7, <4>1 DEF QuotaExact
    <3> QED
      BY <3>2, <3>8 DEF QuotaExact
  <2>4. CASE UNCHANGED <<pending, held, active, byHost>>
    BY <2>4 DEF QuotaExact, Live, LiveFrom, Queued, Held, HostCount
  <2> QED
    BY <2>1, <2>2, <2>3, <2>4, OwnershipSteps
<1> QED
  BY <1>1, <1>2, TypeCorrect, ControlPointsCorrect, OneOwnerCorrect, PTL DEF Spec


-----------------------------------------------------------------------------
(* Leases *)

\* active_profiles_ is exactly the set of names of the logins in progress, and
\* no two of them have the same name.
THEOREM LeaseCorrect == Spec => []LeaseExact
<1>1. Init => LeaseExact
  BY DEF Init, LeaseExact
<1>2. TypeOK /\ ControlPoints /\ LeaseExact /\ [Next]_vars => LeaseExact'
  <2> SUFFICES ASSUME TypeOK, ControlPoints, LeaseExact, [Next]_vars
               PROVE  LeaseExact'
    OBVIOUS
  <2>1. CASE UNCHANGED <<lease, profiles>>
    BY <2>1 DEF LeaseExact
  <2>2. ASSUME NEW w \in Workers, NEW n \in Names, Hello(w, n)
        PROVE  LeaseExact'
    <3>1. CASE n \in profiles
      BY <2>1, <2>2, <3>1 DEF Hello
    <3>2. CASE n \notin profiles
      <4>1. lease[w] = NoName
        BY <2>2 DEF Hello, ControlPoints
      <4>2. lease' = [lease EXCEPT ![w] = n] /\ profiles' = profiles \cup {n}
        BY <2>2, <3>2 DEF Hello
      <4>3. \A v \in Workers : lease[v] # n
        BY <3>2, ConstantsAssumption DEF LeaseExact
      <4>4. profiles' = {lease'[v] : v \in Workers} \ {NoName}
        BY <4>1, <4>2, ConstantsAssumption DEF LeaseExact, TypeOK
      <4> QED
        BY <4>2, <4>3, <4>4 DEF LeaseExact, TypeOK
    <3> QED
      BY <3>1, <3>2
  <2>3. ASSUME NEW w \in Workers, EndSession(w) PROVE LeaseExact'
    <3>1. lease[w] # NoName
      BY <2>3 DEF EndSession, ControlPoints
    <3>2. lease' = [lease EXCEPT ![w] = NoName] /\ profiles' = profiles \ {lease[w]}
      BY <2>3 DEF EndSession
    <3>3. profiles' = {lease'[v] : v \in Workers} \ {NoName}
      BY <3>1, <3>2 DEF LeaseExact, TypeOK
    <3> QED
      BY <3>2, <3>3 DEF LeaseExact, TypeOK
  <2>4. \/ UNCHANGED <<lease, profiles>>
        \/ \E w \in Workers, n \in Names : Hello(w, n)
        \/ \E w \in Workers : EndSession(w)
    <3>1. ASSUME NEW w \in Workers, WorkerStep(w), ~EndSession(w),
                 \A n \in Names : ~Hello(w, n)
          PROVE  UNCHANGED <<lease, profiles>>
      BY <3>1 DEF WorkerStep, TakeWork, FindNoWork, Park, SpuriousWake, Greet,
         HelloFails, Release
    <3>2. ASSUME Next, ~ \E w \in Workers : WorkerStep(w)
          PROVE  UNCHANGED <<lease, profiles>>
      BY <3>2 DEF Next, ListenerLoop, PollTimeout, ListenerFails, Enqueue, Join,
         RequestStop, NotifyAll, Tick, Terminated, vars
    <3> QED
      BY <3>1, <3>2 DEF vars
  <2> QED
    BY <2>1, <2>2, <2>3, <2>4
<1> QED
  BY <1>1, <1>2, TypeCorrect, ControlPointsCorrect, PTL DEF Spec

-----------------------------------------------------------------------------
(* The rate window *)

\* The attempts of host h that may log in and are younger than the window.
Unlimited(h) == {c \in allowed : HostOf[c] = h /\ age[c] < Window}

\* No attempt is forgotten while it counts.
THEOREM AttemptsKeptCorrect == Spec => []AttemptsKept
<1>1. Init => AttemptsKept
  BY DEF Init, AttemptsKept
<1>2. TypeOK /\ AttemptsKept /\ [Next]_vars => AttemptsKept'
  <2> SUFFICES ASSUME TypeOK, AttemptsKept, [Next]_vars PROVE AttemptsKept'
    OBVIOUS
  <2>1. CASE UNCHANGED <<attempts, age, new>>
    BY <2>1 DEF AttemptsKept
  <2>2. ASSUME NEW c \in Conns, Enqueue(c) PROVE AttemptsKept'
    <3>1. /\ new' = new \ {c}
          /\ attempts' = [attempts EXCEPT ![HostOf[c]] = Recent(HostOf[c]) \cup {c}]
          /\ age' = [age EXCEPT ![c] = 0]
      BY <2>2 DEF Enqueue
    <3> SUFFICES ASSUME NEW d \in Conns \ new', age'[d] < Window
                 PROVE  d \in attempts'[HostOf[d]]
      BY DEF AttemptsKept
    <3>2. HostOf[c] \in Hosts /\ HostOf[d] \in Hosts
      BY ConstantsAssumption
    <3>3. CASE d = c
      BY <3>1, <3>2, <3>3 DEF TypeOK
    <3>4. CASE d # c
      <4>1. d \in Conns \ new /\ age[d] < Window
        BY <3>1, <3>4 DEF TypeOK
      <4>2. d \in attempts[HostOf[d]]
        BY <4>1 DEF AttemptsKept
      <4> QED
        BY <3>1, <3>2, <4>1, <4>2 DEF TypeOK, Recent
    <3> QED
      BY <3>3, <3>4
  <2>3. CASE Tick
    <3>1. attempts' = attempts /\ new' = new
      BY <2>3 DEF Tick
    <3>2. \A c \in Conns : age'[c] < Window => age[c] < Window
      <4>1. \A c \in Conns : age'[c] = age[c] \/ age'[c] = age[c] + 1
        BY <2>3 DEF Tick
      <4>2. \A c \in Conns : age[c] \in Nat
        BY DEF TypeOK
      <4> QED
        BY <4>1, <4>2, LimitsAssumption
    <3> QED
      BY <3>1, <3>2 DEF AttemptsKept
  <2>4. UNCHANGED <<attempts, age, new>> \/ Tick \/ \E c \in Conns : Enqueue(c)
    <3>1. ASSUME NEW w \in Workers, WorkerStep(w)
          PROVE  UNCHANGED <<attempts, age, new>>
      BY <3>1 DEF WorkerStep, TakeWork, FindNoWork, Park, SpuriousWake, Greet,
         Hello, HelloFails, EndSession, Release, rateVars
    <3> QED
      BY <3>1 DEF Next, ListenerLoop, PollTimeout, ListenerFails, Join,
         RequestStop, NotifyAll, Terminated, vars, rateVars
  <2> QED
    BY <2>1, <2>2, <2>3, <2>4
<1> QED
  BY <1>1, <1>2, TypeCorrect, PTL DEF Spec

\* Attempts only grow older, and only an admission allows one more.
LEMMA AllowedSteps ==
    ASSUME TypeOK, allowed \cap new = {}, [Next]_vars
    PROVE  /\ \A c \in Conns \ new : age'[c] \in Nat /\ age[c] \in Nat /\ age'[c] >= age[c]
           /\ new' \subseteq new
           /\ \/ allowed' = allowed
              \/ \E c \in new :
                    /\ new' = new \ {c} /\ allowed' = allowed \cup {c} /\ c \in Conns
                    /\ Cardinality(Recent(HostOf[c])) < MaxAttempts
<1>1. ASSUME NEW c \in Conns, Enqueue(c)
      PROVE  /\ age' = [age EXCEPT ![c] = 0] /\ c \in new /\ new' = new \ {c}
             /\ \/ allowed' = allowed
                \/ allowed' = allowed \cup {c} /\ Cardinality(Recent(HostOf[c])) < MaxAttempts
  <2>1. IsFiniteSet(Recent(HostOf[c]))
    BY ConstantsAssumption, FS_Subset DEF Recent, TypeOK
  <2>2. Cardinality(Recent(HostOf[c])) \in Nat /\ MaxAttempts \in Nat
    BY <2>1, FS_CardinalityType, LimitsAssumption
  <2> QED
    BY <1>1, <2>2 DEF Enqueue
<1>2. CASE Tick
  <2>1. \A c \in Conns : age[c] \in Nat
    BY DEF TypeOK
  <2>2. \A c \in Conns : age'[c] = age[c] \/ age'[c] = age[c] + 1
    BY <1>2 DEF Tick
  <2>3. allowed' = allowed /\ new' = new
    BY <1>2 DEF Tick
  <2> QED
    BY <2>1, <2>2, <2>3
<1>3. CASE UNCHANGED <<age, allowed>> /\ new' = new
  BY <1>3 DEF TypeOK
<1>4. CASE \E c \in Conns : Enqueue(c)
  <2>1. PICK c \in Conns : Enqueue(c)
    BY <1>4
  <2>2. \A d \in Conns \ new : age'[d] = age[d] /\ age[d] \in Nat
    BY <1>1, <2>1 DEF TypeOK
  <2> QED
    BY <1>1, <2>1, <2>2
<1>5. Tick \/ (UNCHANGED <<age, allowed>> /\ new' = new) \/ \E c \in Conns : Enqueue(c)
  <2>1. ASSUME NEW w \in Workers, WorkerStep(w)
        PROVE  UNCHANGED <<age, allowed>> /\ new' = new
    BY <2>1 DEF WorkerStep, TakeWork, FindNoWork, Park, SpuriousWake, Greet,
       Hello, HelloFails, EndSession, Release, rateVars
  <2> QED
    BY <2>1 DEF Next, ListenerLoop, PollTimeout, ListenerFails, Join,
       RequestStop, NotifyAll, Terminated, vars, rateVars
<1> QED
  BY <1>2, <1>3, <1>4, <1>5

\* Nobody is allowed to log in who has not come.
AllowedCame == allowed \cap new = {}

\* Of one host's attempts within any second, at most MaxAttempts may log in,
\* whether or not the logins last: enqueue's limit, with no need of what
\* release_connection does.
THEOREM RateCorrect == Spec => []RateWindow
<1> DEFINE Inv == AllowedCame /\ RateWindow
<1>0. RateWindow <=> \A h \in Hosts : Cardinality(Unlimited(h)) <= MaxAttempts
  BY DEF RateWindow, Unlimited
<1>1. Init => Inv
  <2> SUFFICES ASSUME Init PROVE Inv
    OBVIOUS
  <2>1. allowed = {}
    BY DEF Init
  <2>2. \A h : Unlimited(h) = {}
    BY <2>1 DEF Unlimited
  <2>3. RateWindow
    BY <1>0, <2>2, FS_EmptySet, LimitsAssumption
  <2> QED
    BY <2>1, <2>3 DEF AllowedCame
<1>2. TypeOK /\ AttemptsKept /\ Inv /\ [Next]_vars => Inv'
  <2> SUFFICES ASSUME TypeOK, AttemptsKept, Inv, [Next]_vars PROVE Inv'
    OBVIOUS
  <2>1. AllowedCame'
    BY AllowedSteps DEF AllowedCame
  <2>2. \A c \in allowed : c \in Conns \ new
    BY DEF AllowedCame, TypeOK
  <2>3. ASSUME NEW h \in Hosts PROVE Cardinality(Unlimited(h)') <= MaxAttempts
    <3>0. IsFiniteSet(Unlimited(h)) /\ IsFiniteSet(Recent(h))
      BY <2>2, ConstantsAssumption, FS_Subset DEF Unlimited, Recent, TypeOK
    <3>1. CASE Unlimited(h)' \subseteq Unlimited(h)
      <4>1. Cardinality(Unlimited(h)') <= Cardinality(Unlimited(h))
        BY <3>0, <3>1, FS_Subset
      <4>2. /\ Cardinality(Unlimited(h)) \in Nat
            /\ Cardinality(Unlimited(h)') \in Nat
        BY <3>0, <3>1, FS_Subset, FS_CardinalityType
      <4> QED
        BY <1>0, <4>1, <4>2, LimitsAssumption
    <3>2. ASSUME NEW c \in new, c \in Conns, HostOf[c] = h,
                 Unlimited(h)' \subseteq Recent(h) \cup {c},
                 Cardinality(Recent(h)) < MaxAttempts
          PROVE  Cardinality(Unlimited(h)') <= MaxAttempts
      <4>1. IsFiniteSet(Recent(h) \cup {c})
        BY <3>0, FS_AddElement
      <4>2. Cardinality(Unlimited(h)') <= Cardinality(Recent(h) \cup {c})
        BY <3>2, <4>1, FS_Subset
      <4>3. \/ Cardinality(Recent(h) \cup {c}) = Cardinality(Recent(h))
            \/ Cardinality(Recent(h) \cup {c}) = Cardinality(Recent(h)) + 1
        BY <3>0, FS_AddElement
      <4>4. /\ Cardinality(Recent(h)) \in Nat
            /\ Cardinality(Recent(h) \cup {c}) \in Nat
            /\ Cardinality(Unlimited(h)') \in Nat
        BY <3>0, <3>2, <4>1, FS_Subset, FS_CardinalityType
      <4> QED
        BY <3>2, <4>2, <4>3, <4>4, LimitsAssumption
    <3>3. \A c \in allowed : age'[c] < Window => age[c] < Window
      <4>1. \A c \in allowed : age'[c] \in Nat /\ age[c] \in Nat /\ age'[c] >= age[c]
        BY <2>2, AllowedSteps DEF AllowedCame
      <4> QED
        BY <4>1, LimitsAssumption
    <3>4. Unlimited(h) \subseteq Recent(h)
      BY <2>2 DEF Unlimited, Recent, AttemptsKept
    <3>5. CASE allowed' = allowed
      BY <3>1, <3>3, <3>5 DEF Unlimited
    <3>6. ASSUME NEW c \in new, c \in Conns, allowed' = allowed \cup {c},
                 Cardinality(Recent(HostOf[c])) < MaxAttempts
          PROVE  Cardinality(Unlimited(h)') <= MaxAttempts
      <4>1. CASE HostOf[c] = h
        <5>1. Unlimited(h)' \subseteq Recent(h) \cup {c}
          BY <3>3, <3>4, <3>6 DEF Unlimited
        <5> QED
          BY <3>2, <3>6, <4>1, <5>1
      <4>2. CASE HostOf[c] # h
        BY <3>1, <3>3, <3>6, <4>2 DEF Unlimited
      <4> QED
        BY <4>1, <4>2
    <3> QED
      BY <3>5, <3>6, AllowedSteps DEF AllowedCame
  <2> QED
    BY <1>0, <2>1, <2>3 DEF Unlimited, RateWindow
<1> QED
  BY <1>1, <1>2, TypeCorrect, AttemptsKeptCorrect, PTL DEF Spec

-----------------------------------------------------------------------------
(* Descriptors *)

\* The connections whose worker has not closed them yet.
Open == {held[w] : w \in {v \in Workers : pc[v] \in {"greet", "login", "session"}}}

\* Closing one worker's connection takes that descriptor away and no other.
LEMMA CloseEffect ==
    ASSUME TypeOK, ControlPoints, OneOwner, sockets = Queued \cup Open,
           NEW w \in Workers, pc[w] \in {"greet", "login", "session"},
           CloseSocket(w), UNCHANGED <<pending, held>>
    PROVE  (sockets = Queued \cup Open)'
<1>1. pc' = [pc EXCEPT ![w] = "release"] /\ sockets' = sockets \ {held[w]}
  BY DEF CloseSocket
<1>2. Queued' = Queued
  BY DEF Queued
<1>3. held[w] # NoConn /\ held[w] \notin Queued
  BY DEF ControlPoints, OneOwner, Held
<1>4. \A v \in Workers : v # w => held[v] # held[w]
  BY <1>3 DEF OneOwner
<1>5. \A v \in Workers : pc'[v] = IF v = w THEN "release" ELSE pc[v]
  BY <1>1 DEF TypeOK
<1>6. Open' = Open \ {held[w]}
  BY <1>4, <1>5 DEF Open
<1> QED
  BY <1>1, <1>2, <1>3, <1>6

\* Workers that move between control points on the same side of the close
\* leave the open descriptors as they are.
LEMMA OpenUnchanged ==
    ASSUME sockets = Queued \cup Open, UNCHANGED <<pending, held, sockets>>,
           \A w \in Workers : pc'[w] \in {"greet", "login", "session"}
                               <=> pc[w] \in {"greet", "login", "session"}
    PROVE  (sockets = Queued \cup Open)'
<1>1. Queued' = Queued
  BY DEF Queued
<1>2. Open' = Open
  BY DEF Open
<1> QED
  BY <1>1, <1>2

\* A worker leaves only after a stop; when all have left, the queue holds at
\* most the connection of an accept that was already under way.
Stranded ==
    /\ \A w \in Workers : pc[w] = "exited" => stopping
    /\ (\A w \in Workers : pc[w] = "exited") =>
          Len(pending) <= (IF listener = "accept" THEN 0 ELSE 1)

\* What the steps other than an exit, a take and an admission do to Stranded.
LEMMA StrandedUnchanged ==
    ASSUME Stranded, TypeOK, pending' = pending, stopping => stopping',
           listener' = "accept" => listener = "accept",
           \A w \in Workers : pc'[w] = "exited" => pc[w] = "exited"
    PROVE  Stranded'
<1>1. Len(pending) \in Nat
  BY DEF TypeOK
<1> QED
  BY <1>1 DEF Stranded

\* The server's descriptors are those of the queued connections and of the
\* ones in a worker's try block, and a stop strands at most one.
THEOREM SocketsCorrect == Spec => []SocketsExact
<1> DEFINE Inv == sockets = Queued \cup Open /\ Stranded
<1>1. Init => Inv
  <2> SUFFICES ASSUME Init PROVE Inv
    OBVIOUS
  <2>1. Queued = {} /\ Open = {} /\ sockets = {}
    BY DEF Init, Queued, Open
  <2>2. \A w \in Workers : pc[w] # "exited"
    BY DEF Init
  <2> QED
    BY <2>1, <2>2, LimitsAssumption DEF Stranded
<1>2. TypeOK /\ ControlPoints /\ OneOwner /\ Inv /\ [Next]_vars => Inv'
  <2> SUFFICES ASSUME TypeOK, ControlPoints, OneOwner, Inv, [Next]_vars
               PROVE  Inv'
    OBVIOUS
  <2>0. /\ pending \in Seq(Conns) /\ Len(pending) \in Nat
        /\ pc \in [Workers -> WorkerPoints]
    BY DEF TypeOK
  <2>1. CASE ListenerLoop
    <3>1. UNCHANGED <<pending, held, sockets, pc>>
      BY <2>1 DEF ListenerLoop
    <3>2. Stranded'
      <4>1. CASE stopping
        <5>1. listener' = "join" /\ stopping'
          BY <2>1, <4>1 DEF ListenerLoop, stopVars
        <5> QED
          BY <3>1, <4>1, <5>1, StrandedUnchanged
      <4>2. CASE ~stopping
        <5>1. \A w \in Workers : pc'[w] # "exited"
          BY <3>1, <4>2 DEF Stranded
        <5> QED
          BY <5>1, LimitsAssumption DEF Stranded
      <4> QED
        BY <4>1, <4>2
    <3> QED
      BY <3>1, <3>2, OpenUnchanged
  <2>2. ASSUME PollTimeout \/ ListenerFails \/ Join \/ RequestStop
               \/ Tick \/ UNCHANGED vars
        PROVE  Inv'
    <3>1. /\ UNCHANGED <<pending, held, sockets, pc>>
          /\ stopping => stopping'
          /\ listener' = "accept" => listener = "accept"
      BY <2>2 DEF PollTimeout, ListenerFails, Join, RequestStop, Tick, vars, stopVars
    <3> QED
      BY <3>1, OpenUnchanged, StrandedUnchanged
  <2>3. ASSUME NEW c \in Conns, Enqueue(c) PROVE Inv'
    <3>1. /\ listener = "accept" /\ listener' = "loop"
          /\ held' = held /\ stopping' = stopping
      BY <2>3 DEF Enqueue, stopVars
    <3>2. \A w \in Workers : pc'[w] = pc[w] \/ (pc[w] = "asleep" /\ pc'[w] = "test")
      BY <2>0, <2>3 DEF Enqueue, NotifyOne, Asleep
    <3>3. Open' = Open
      BY <3>1, <3>2 DEF Open
    <3>4. CASE OverQuota(HostOf[c])
      <4>1. UNCHANGED <<pending, sockets>>
        BY <2>3, <3>4 DEF Enqueue
      <4>2. Queued' = Queued
        BY <4>1 DEF Queued
      <4> QED
        BY <3>1, <3>2, <3>3, <4>1, <4>2, StrandedUnchanged
    <3>5. CASE ~OverQuota(HostOf[c])
      <4>1. sockets' = sockets \cup {c} /\ pending' = Append(pending, c)
        BY <2>3, <3>5 DEF Enqueue
      <4>2. Queued' = Queued \cup {c}
        BY <2>3, <3>5, AdmissionEffect DEF Admitting
      <4>3. Len(pending') = Len(pending) + 1
        BY <2>0, <4>1
      <4>4. \A w \in Workers : pc'[w] = "exited" => pc[w] = "exited"
        BY <3>2
      <4>5. (\A w \in Workers : pc'[w] = "exited") => Len(pending') <= 1
        BY <2>0, <3>1, <4>3, <4>4 DEF Stranded
      <4>6. Stranded'
        BY <3>1, <4>4, <4>5 DEF Stranded
      <4> QED
        BY <3>3, <4>1, <4>2, <4>6
    <3> QED
      BY <3>4, <3>5
  <2>4. CASE NotifyAll
    <3>1. UNCHANGED <<pending, held, sockets, stopping, listener>>
      BY <2>4 DEF NotifyAll
    <3>2. \A w \in Workers : pc'[w] = pc[w] \/ (pc[w] = "asleep" /\ pc'[w] = "test")
      BY <2>4 DEF NotifyAll, Asleep
    <3> QED
      BY <3>1, <3>2, OpenUnchanged, StrandedUnchanged
  <2>5. ASSUME NEW w \in Workers, TakeWork(w) PROVE Inv'
    <3>1. CASE pending # <<>>
      <4>1. /\ pc' = [pc EXCEPT ![w] = "greet"] /\ pc[w] = "test"
            /\ sockets' = sockets /\ pending' = Tail(pending)
            /\ listener' = listener /\ stopping' = stopping
        BY <2>5, <3>1 DEF TakeWork, stopVars
      <4>2. /\ Queued' = Queued \ {Head(pending)} /\ Head(pending) \in Queued
            /\ held' = [held EXCEPT ![w] = Head(pending)]
        BY <2>5, <3>1, TakeEffect
      <4>3. /\ pc'[w] = "greet" /\ held'[w] = Head(pending)
            /\ \A v \in Workers : v # w => pc'[v] = pc[v] /\ held'[v] = held[v]
        BY <2>0, <4>1, <4>2 DEF TypeOK
      <4>4. Open' = Open \cup {Head(pending)}
        BY <4>1, <4>3 DEF Open
      <4>5. Stranded'
        BY <4>1, <4>3 DEF Stranded
      <4> QED
        BY <4>1, <4>2, <4>4, <4>5
    <3>2. CASE pending = <<>>
      <4>1. /\ pc' = [pc EXCEPT ![w] = "exited"] /\ pc[w] = "test" /\ stopping
            /\ UNCHANGED <<sockets, pending, held, listener, stopping>>
        BY <2>5, <3>2 DEF TakeWork, stopVars
      <4>2. \A v \in Workers : pc'[v] = IF v = w THEN "exited" ELSE pc[v]
        BY <2>0, <4>1
      <4>3. (sockets = Queued \cup Open)'
        BY <4>1, <4>2, OpenUnchanged
      <4>4. Len(pending') = 0
        BY <3>2, <4>1
      <4>5. Stranded'
        BY <4>1, <4>4 DEF Stranded
      <4> QED
        BY <4>3, <4>5
    <3> QED
      BY <3>1, <3>2
  <2>6. ASSUME NEW w \in Workers, FindNoWork(w) \/ Park(w) \/ SpuriousWake(w) \/ Release(w)
        PROVE  Inv'
    <3>1. /\ UNCHANGED <<pending, sockets, stopping, listener>>
          /\ pc[w] \in {"test", "park", "asleep", "release"}
          /\ \E p \in {"park", "asleep", "test"} : pc' = [pc EXCEPT ![w] = p]
          /\ held' = held \/ held' = [held EXCEPT ![w] = NoConn]
      BY <2>6 DEF FindNoWork, Park, SpuriousWake, Release, stopVars
    <3>2. /\ pc'[w] \in {"park", "asleep", "test"}
          /\ \A v \in Workers : v # w => pc'[v] = pc[v] /\ held'[v] = held[v]
      BY <2>0, <3>1 DEF TypeOK
    <3>3. Open' = Open
      BY <3>1, <3>2 DEF Open
    <3>4. Queued' = Queued
      BY <3>1 DEF Queued
    <3> QED
      BY <3>1, <3>2, <3>3, <3>4, StrandedUnchanged
  <2>7. ASSUME NEW w \in Workers,
               Greet(w) \/ (\E n \in Names : Hello(w, n)) \/ HelloFails(w) \/ EndSession(w)
        PROVE  Inv'
    <3>1. /\ UNCHANGED <<pending, held, stopping, listener>>
          /\ pc[w] \in {"greet", "login", "session"}
          /\ \/ CloseSocket(w)
             \/ /\ \E p \in {"login", "session"} : pc' = [pc EXCEPT ![w] = p]
                /\ sockets' = sockets
      BY <2>7 DEF Greet, Hello, HelloFails, EndSession, stopVars
    <3>2. \A v \in Workers : pc'[v] = "exited" => pc[v] = "exited"
      BY <2>0, <3>1 DEF CloseSocket
    <3>3. (sockets = Queued \cup Open)'
      <4>1. CASE CloseSocket(w)
        BY <3>1, <4>1, CloseEffect
      <4>2. ASSUME NEW p \in {"login", "session"}, pc' = [pc EXCEPT ![w] = p],
                   sockets' = sockets
            PROVE  (sockets = Queued \cup Open)'
        <5>1. \A v \in Workers : pc'[v] = IF v = w THEN p ELSE pc[v]
          BY <2>0, <4>2
        <5> QED
          BY <3>1, <4>2, <5>1, OpenUnchanged
      <4> QED
        BY <3>1, <4>1, <4>2
    <3> QED
      BY <3>1, <3>2, <3>3, StrandedUnchanged
  <2> QED
    BY <2>1, <2>2, <2>3, <2>4, <2>5, <2>6, <2>7 DEF Next, WorkerStep, Terminated
<1>3. Inv => SocketsExact
  <2> SUFFICES ASSUME Inv, \A w \in Workers : pc[w] = "exited"
               PROVE  Len(pending) <= 1
    BY DEF SocketsExact, Open
  <2> QED
    BY DEF Stranded
<1> QED
  BY <1>1, <1>2, <1>3, TypeCorrect, ControlPointsCorrect, OneOwnerCorrect,
     PTL DEF Spec

-----------------------------------------------------------------------------
(* Wake-ups *)

\* The workers on their way to the queue.
Coming == {w \in Workers : pc[w] = "test"}

\* A worker about to sleep has the mutex, and found the queue empty.
ParkedAlone ==
    /\ \A w \in Workers : pc[w] = "park" <=> lock = w
    /\ lock # NoThread => pending = <<>>

LEMMA ComingFinite ==
    TypeOK => /\ IsFiniteSet(Coming) /\ Cardinality(Coming) \in Nat
              /\ Len(pending) \in Nat
BY LimitsAssumption, FS_Subset, FS_CardinalityType DEF Coming, TypeOK

\* A step that sends nobody away and queues nothing keeps the queue covered.
LEMMA MoreComing ==
    ASSUME TypeOK, TypeOK', WakeupsCoverQueue, Asleep' \subseteq Asleep,
           Coming \subseteq Coming', pending' = pending
    PROVE  WakeupsCoverQueue'
<1>1. (IsFiniteSet(Coming) /\ Cardinality(Coming) \in Nat)'
  BY ComingFinite, PTL
<1>2. Cardinality(Coming) <= Cardinality(Coming')
  BY <1>1, FS_Subset
<1> QED
  BY <1>1, <1>2, ComingFinite DEF WakeupsCoverQueue, Coming

\* While a worker sleeps, every queued connection has a worker coming for it:
\* the mutex is held from the empty queue to the sleep, a push wakes one
\* sleeper, and a worker that takes one connection leaves with just that one.
THEOREM WakeupsCorrect == Spec => []WakeupsCoverQueue
<1> DEFINE Inv == ParkedAlone /\ WakeupsCoverQueue
<1>1. Init => Inv
  BY ConstantsAssumption DEF Init, ParkedAlone, WakeupsCoverQueue, Asleep
<1>2. TypeOK /\ TypeOK' /\ Inv /\ [Next]_vars => Inv'
  <2> SUFFICES ASSUME TypeOK, TypeOK', Inv, [Next]_vars PROVE Inv'
    OBVIOUS
  <2>0. /\ pc \in [Workers -> WorkerPoints] /\ lock \in Workers \cup {NoThread}
        /\ NoThread \notin Workers /\ pending \in Seq(Conns)
    BY ConstantsAssumption DEF TypeOK
  <2>1. CASE UNCHANGED <<pending, pc, lock>>
    BY <2>1 DEF ParkedAlone, WakeupsCoverQueue, Asleep
  <2>2. ASSUME NEW c \in Conns, Enqueue(c) PROVE Inv'
    <3>1. lock = NoThread /\ lock' = lock
      BY <2>2 DEF Enqueue
    <3>2. CASE OverQuota(HostOf[c])
      BY <2>1, <2>2, <3>2 DEF Enqueue
    <3>3. CASE ~OverQuota(HostOf[c])
      <4>1. pending' = Append(pending, c) /\ NotifyOne
        BY <2>2, <3>3 DEF Enqueue
      <4>2. CASE Asleep = {}
        <5>1. pc' = pc
          BY <4>1, <4>2 DEF NotifyOne
        <5>2. Asleep' = {}
          BY <4>2, <5>1 DEF Asleep
        <5> QED
          BY <3>1, <5>1, <5>2 DEF ParkedAlone, WakeupsCoverQueue
      <4>3. CASE Asleep # {}
        <5>1. PICK w \in Asleep : pc' = [pc EXCEPT ![w] = "test"]
          BY <4>1, <4>3 DEF NotifyOne
        <5>2. /\ w \in Workers /\ w \notin Coming
              /\ \A v \in Workers : pc'[v] = IF v = w THEN "test" ELSE pc[v]
          BY <2>0, <5>1 DEF Asleep, Coming
        <5>3. Coming' = Coming \cup {w}
          BY <5>2 DEF Coming
        <5>4. Cardinality(Coming') = Cardinality(Coming) + 1
          BY <5>2, <5>3, ComingFinite, FS_AddElement
        <5>5. Len(pending') = Len(pending) + 1
          BY <2>0, <4>1
        <5>6. Len(pending) <= Cardinality(Coming)
          BY <4>3 DEF WakeupsCoverQueue, Coming
        <5>7. Len(pending') <= Cardinality(Coming')
          BY <5>4, <5>5, <5>6, ComingFinite
        <5>8. ParkedAlone'
          BY <3>1, <5>1, <5>2 DEF ParkedAlone, Asleep
        <5> QED
          BY <5>7, <5>8 DEF WakeupsCoverQueue, Coming
      <4> QED
        BY <4>2, <4>3
    <3> QED
      BY <3>2, <3>3
  <2>3. CASE NotifyAll
    <3>1. UNCHANGED <<pending, lock>>
      BY <2>3 DEF NotifyAll
    <3>2. \A w \in Workers : pc'[w] = IF pc[w] = "asleep" THEN "test" ELSE pc[w]
      BY <2>3 DEF NotifyAll, Asleep
    <3>3. Asleep' \subseteq Asleep /\ Coming \subseteq Coming'
      BY <3>2 DEF Asleep, Coming
    <3>4. ParkedAlone'
      BY <3>1, <3>2 DEF ParkedAlone
    <3> QED
      BY <3>1, <3>3, <3>4, MoreComing
  <2>4. ASSUME NEW w \in Workers, TakeWork(w), pending # <<>> PROVE Inv'
    <3>1. /\ pc' = [pc EXCEPT ![w] = "greet"] /\ pc[w] = "test"
          /\ pending' = Tail(pending) /\ lock = NoThread /\ lock' = lock
      BY <2>4 DEF TakeWork
    <3>2. \A v \in Workers : pc'[v] = IF v = w THEN "greet" ELSE pc[v]
      BY <2>0, <3>1
    <3>3. Asleep' = Asleep /\ Coming' = Coming \ {w} /\ w \in Coming
      BY <3>1, <3>2 DEF Asleep, Coming
    <3>4. Cardinality(Coming') = Cardinality(Coming) - 1
      BY <3>3, ComingFinite, FS_RemoveElement
    <3>5. Len(pending') = Len(pending) - 1
      BY <2>0, <2>4, <3>1
    <3>6. Asleep # {} => Len(pending') <= Cardinality(Coming')
      BY <3>4, <3>5, ComingFinite DEF WakeupsCoverQueue, Coming
    <3>7. ParkedAlone'
      BY <3>1, <3>2 DEF ParkedAlone
    <3> QED
      BY <3>3, <3>6, <3>7 DEF WakeupsCoverQueue, Coming
  <2>5. ASSUME NEW w \in Workers,
               \/ TakeWork(w) /\ pending = <<>>
               \/ FindNoWork(w)
               \/ Park(w)
        PROVE  Inv'
    <3>1. /\ pending = <<>> /\ pending' = pending
          /\ \/ lock' = lock /\ lock = NoThread /\ pc' = [pc EXCEPT ![w] = "exited"]
             \/ lock' = w /\ lock = NoThread /\ pc' = [pc EXCEPT ![w] = "park"]
             \/ lock' = NoThread /\ lock = w /\ pc' = [pc EXCEPT ![w] = "asleep"]
      BY <2>0, <2>5 DEF TakeWork, FindNoWork, Park, ParkedAlone
    <3>2. ParkedAlone'
      BY <2>0, <3>1 DEF ParkedAlone
    <3>3. Len(pending') = 0
      BY <3>1
    <3>4. (Cardinality(Coming) \in Nat)'
      BY ComingFinite, PTL
    <3> QED
      BY <3>2, <3>3, <3>4 DEF WakeupsCoverQueue, Coming
  <2>6. ASSUME NEW w \in Workers,
               \/ SpuriousWake(w) \/ Release(w) \/ Greet(w) \/ HelloFails(w)
               \/ EndSession(w) \/ \E n \in Names : Hello(w, n)
        PROVE  Inv'
    <3>1. /\ UNCHANGED <<pending, lock>>
          /\ pc[w] \in {"asleep", "release", "greet", "login", "session"}
          /\ \E p \in {"test", "login", "release", "session"} : pc' = [pc EXCEPT ![w] = p]
      BY <2>6 DEF SpuriousWake, Release, Greet, HelloFails, EndSession, Hello, CloseSocket
    <3>2. /\ pc'[w] \in {"test", "login", "release", "session"}
          /\ \A v \in Workers : v # w => pc'[v] = pc[v]
      BY <2>0, <3>1
    <3>3. Asleep' \subseteq Asleep /\ Coming \subseteq Coming'
      BY <3>1, <3>2 DEF Asleep, Coming
    <3>4. ParkedAlone'
      BY <3>1, <3>2 DEF ParkedAlone
    <3> QED
      BY <3>1, <3>3, <3>4, MoreComing
  <2>7. ListenerLoop \/ PollTimeout \/ ListenerFails \/ Join \/ RequestStop \/ Tick
        \/ Terminated \/ UNCHANGED vars => UNCHANGED <<pending, pc, lock>>
    BY DEF ListenerLoop, PollTimeout, ListenerFails, Join, RequestStop, Tick,
       Terminated, vars
  <2> QED
    BY <2>1, <2>2, <2>3, <2>4, <2>5, <2>6, <2>7 DEF Next, WorkerStep
<1> QED
  BY <1>1, <1>2, TypeCorrect, PTL DEF Spec

-----------------------------------------------------------------------------
(* Admission implements its contract *)

\* What ClientLease says about the workers, and that it is a function.
LeaseDescribed ==
    /\ DOMAIN ClientLease \subseteq Live
    /\ \A w \in Workers : lease[w] # NoName =>
          held[w] \in DOMAIN ClientLease /\ ClientLease[held[w]] = lease[w]
    /\ \A c \in DOMAIN ClientLease :
          \E w \in Workers : lease[w] # NoName /\ held[w] = c
    /\ ClientLease = [c \in DOMAIN ClientLease |-> ClientLease[c]]

LEMMA ClientLeaseValues == TypeOK /\ ControlPoints /\ OneOwner => LeaseDescribed
<1> SUFFICES ASSUME TypeOK, ControlPoints, OneOwner PROVE LeaseDescribed
  OBVIOUS
<1>1. \A w \in Workers : lease[w] # NoName => held[w] # NoConn
  BY DEF ControlPoints
<1>2. ASSUME NEW w \in Workers, lease[w] # NoName
      PROVE  held[w] \in DOMAIN ClientLease /\ ClientLease[held[w]] = lease[w]
  <2>1. (CHOOSE v \in Workers : held[v] = held[w]) = w
    BY <1>1, <1>2 DEF OneOwner
  <2> QED
    BY <1>2, <2>1 DEF ClientLease
<1>3. \A c \in DOMAIN ClientLease : \E w \in Workers : lease[w] # NoName /\ held[w] = c
  BY DEF ClientLease
<1>4. DOMAIN ClientLease \subseteq Live
  BY <1>1, <1>3 DEF Live, Held
<1>5. ClientLease = [c \in DOMAIN ClientLease |-> ClientLease[c]]
  BY DEF ClientLease
<1> QED
  BY <1>2, <1>3, <1>4, <1>5 DEF LeaseDescribed

\* Equal descriptions of two lease maps make them equal.
LEMMA ClientLeaseUnchanged ==
    ASSUME TypeOK, ControlPoints, OneOwner,
           TypeOK', ControlPoints', OneOwner',
           UNCHANGED lease,
           \A w \in Workers : lease[w] # NoName => held'[w] = held[w]
    PROVE  ClientLease' = ClientLease
<1>1. DOMAIN ClientLease' = DOMAIN ClientLease
  BY DEF ClientLease
<1>2. ASSUME NEW c \in DOMAIN ClientLease PROVE ClientLease'[c] = ClientLease[c]
  <2>1. PICK w \in Workers : lease[w] # NoName /\ held[w] = c
    BY ClientLeaseValues DEF LeaseDescribed
  <2>2. ClientLease[c] = lease[w]
    BY <2>1, ClientLeaseValues DEF LeaseDescribed
  <2>3. (CHOOSE v \in Workers : held'[v] = c) = w
    <3>1. held'[w] = c /\ held'[w] # NoConn
      BY <2>1 DEF ControlPoints
    <3> QED
      BY <3>1 DEF OneOwner
  <2> QED
    BY <1>1, <2>1, <2>2, <2>3 DEF ClientLease
<1> QED
  BY <1>1, <1>2 DEF ClientLease


\* Steps that do not touch ownership or leases are invisible to the contract.
LEMMA VisibleSteps ==
    ASSUME [Next]_vars
    PROVE  \/ \E c \in Conns : Admitting(c)
           \/ \E w \in Workers : TakeWork(w) /\ pending # <<>>
           \/ \E w \in Workers : Release(w)
           \/ \E w \in Workers, n \in Names : Hello(w, n) /\ n \notin profiles
           \/ \E w \in Workers : EndSession(w)
           \/ UNCHANGED <<pending, held, lease>>
<1>1. ASSUME NEW w \in Workers, WorkerStep(w), ~EndSession(w), ~Release(w),
             ~(TakeWork(w) /\ pending # <<>>),
             \A n \in Names : ~(Hello(w, n) /\ n \notin profiles)
      PROVE  UNCHANGED <<pending, held, lease>>
  BY <1>1 DEF WorkerStep, TakeWork, FindNoWork, Park, SpuriousWake, Greet,
     Hello, HelloFails
<1>2. ASSUME Next, ~ \E w \in Workers : WorkerStep(w),
             ~ \E c \in Conns : Admitting(c)
      PROVE  UNCHANGED <<pending, held, lease>>
  BY <1>2 DEF Next, ListenerLoop, PollTimeout, ListenerFails, Enqueue, Admitting,
     Join, RequestStop, NotifyAll, Tick, Terminated, vars
<1> QED
  BY <1>1, <1>2 DEF vars

\* The instance's cardinality is the one of FiniteSets.
LEMMA SameCardinality == \A S : Contract!Cardinality(S) = Cardinality(S)
BY DEF Contract!Cardinality, Cardinality

Safe == TypeOK /\ ControlPoints /\ OneOwner /\ Unopened /\ QuotaExact /\ LeaseExact

\* Every step of the threads, seen through Live and ClientLease, is a step of
\* AdmissionContract or changes nothing.
LEMMA ContractStep ==
    ASSUME Safe, Safe', [Next]_vars
    PROVE  [Contract!Next]_<<Live, ClientLease>>
<1> USE DEF Safe
<1>0. LeaseDescribed /\ LeaseDescribed'
  BY ClientLeaseValues, PTL
<1>1. ASSUME NEW c \in Conns, Admitting(c) PROVE Contract!Next
  <2> DEFINE h == HostOf[c]
  <2>1. c \notin Live /\ Live' = Live \cup {c}
    BY <1>1, AdmissionEffect DEF Unopened
  <2>2. h \in Hosts /\ ~OverQuota(h)
    BY <1>1, ConstantsAssumption DEF Admitting
  <2>3. LiveFrom(h) = {d \in Live : HostOf[d] = HostOf[c]}
    BY DEF LiveFrom
  <2>4. Cardinality(Live) < MaxActive /\ Cardinality(LiveFrom(h)) < MaxPerIp
    <3>1. Cardinality(Live) \in Nat /\ Cardinality(LiveFrom(h)) \in Nat
      BY LiveFinite, FS_CardinalityType
    <3> QED
      BY <2>2, <3>1, LimitsAssumption DEF OverQuota, QuotaExact
  <2>5. ClientLease' = ClientLease
    <3>1. held' = held /\ lease' = lease
      BY <1>1 DEF Admitting, Enqueue
    <3> QED
      BY <3>1, ClientLeaseUnchanged
  <2>6. Cardinality({d \in Live : HostOf[d] = HostOf[c]}) < MaxPerIp
    BY <2>3, <2>4
  <2>7. Contract!Admit(c)
    BY <2>1, <2>4, <2>5, <2>6, SameCardinality DEF Contract!Admit
  <2> QED
    BY <2>7 DEF Contract!Next
<1>2. ASSUME NEW w \in Workers, TakeWork(w), pending # <<>>
      PROVE  UNCHANGED <<Live, ClientLease>>
  <2>1. lease' = lease /\ held' = [held EXCEPT ![w] = Head(pending)] /\ pc[w] = "test"
    BY <1>2 DEF TakeWork
  <2>2. \A v \in Workers : lease[v] # NoName => held'[v] = held[v]
    BY <2>1 DEF ControlPoints, TypeOK
  <2> QED
    BY <1>2, <2>1, <2>2, TakeEffect, ClientLeaseUnchanged
<1>3. ASSUME NEW w \in Workers, Release(w) PROVE Contract!Next
  <2> DEFINE c == held[w]
  <2>1. c \in Conns /\ c \in Live /\ Live' = Live \ {c}
    BY <1>3, ReleaseEffect
  <2>2. lease' = lease /\ held' = [held EXCEPT ![w] = NoConn] /\ pc[w] = "release"
    BY <1>3 DEF Release
  <2>3. lease[w] = NoName
    BY <2>2 DEF ControlPoints
  <2>4. c \notin DOMAIN ClientLease
    BY <2>1, <2>3, <1>0, ConstantsAssumption DEF OneOwner, LeaseDescribed
  <2>5. ClientLease' = ClientLease
    BY <2>2, <2>3, ClientLeaseUnchanged DEF TypeOK
  <2>6. Contract!Leave(c)
    BY <2>1, <2>4, <2>5 DEF Contract!Leave
  <2> QED
    BY <2>1, <2>6 DEF Contract!Next
<1>4. ASSUME NEW w \in Workers, NEW n \in Names, Hello(w, n), n \notin profiles
      PROVE  Contract!Next
  <2> DEFINE c == held[w]
  <2>1. /\ lease' = [lease EXCEPT ![w] = n] /\ held' = held /\ pending' = pending
        /\ pc[w] = "login"
    BY <1>4 DEF Hello
  <2>2. c # NoConn /\ lease[w] = NoName
    BY <2>1 DEF ControlPoints
  <2>3. c \in Conns /\ c \in Live /\ Live' = Live
    BY <2>1, <2>2 DEF TypeOK, Live, Held, Queued
  <2>4. c \notin DOMAIN ClientLease
    BY <2>2, <1>0 DEF OneOwner, LeaseDescribed
  <2>5. \A d \in DOMAIN ClientLease : ClientLease[d] # n
    BY <1>4, <1>0 DEF LeaseExact, LeaseDescribed
  <2>6. n # NoName
    BY ConstantsAssumption
  <2>7. DOMAIN ClientLease' = DOMAIN ClientLease \cup {c}
    BY <2>1, <2>2, <2>6 DEF ClientLease, TypeOK
  <2>8. \A d \in DOMAIN ClientLease' :
           ClientLease'[d] = IF d = c THEN n ELSE ClientLease[d]
    <3> SUFFICES ASSUME NEW d \in DOMAIN ClientLease'
                 PROVE  ClientLease'[d] = IF d = c THEN n ELSE ClientLease[d]
      OBVIOUS
    <3>1. PICK v \in Workers : lease'[v] # NoName /\ held'[v] = d
      BY <1>0 DEF LeaseDescribed
    <3>2. ClientLease'[d] = lease'[v]
      BY <3>1, <1>0 DEF LeaseDescribed
    <3>3. CASE v = w
      BY <2>1, <3>1, <3>2, <3>3 DEF TypeOK
    <3>4. CASE v # w
      <4>1. lease'[v] = lease[v] /\ held[v] = d
        BY <2>1, <3>1, <3>4 DEF TypeOK
      <4>2. ClientLease[d] = lease[v]
        BY <3>1, <4>1, <1>0 DEF LeaseDescribed
      <4>3. d # c
        BY <2>2, <3>4, <4>1 DEF OneOwner
      <4> QED
        BY <3>2, <4>1, <4>2, <4>3
    <3> QED
      BY <3>3, <3>4
  <2>9. ClientLease' = [d \in DOMAIN ClientLease \cup {c} |->
                           IF d = c THEN n ELSE ClientLease[d]]
    BY <1>0, <2>7, <2>8 DEF LeaseDescribed
  <2>10. Contract!Login(c, n)
    BY <2>3, <2>4, <2>5, <2>9 DEF Contract!Login
  <2> QED
    BY <2>3, <2>10 DEF Contract!Next
<1>5. ASSUME NEW w \in Workers, EndSession(w) PROVE Contract!Next
  <2> DEFINE c == held[w]
  <2>1. /\ lease' = [lease EXCEPT ![w] = NoName] /\ held' = held
        /\ pending' = pending /\ pc[w] = "session"
    BY <1>5 DEF EndSession
  <2>2. c # NoConn /\ lease[w] # NoName
    BY <2>1 DEF ControlPoints
  <2>3. c \in Conns /\ Live' = Live
    BY <2>1, <2>2 DEF TypeOK, Live, Held, Queued
  <2>4. c \in DOMAIN ClientLease
    BY <2>2, <1>0 DEF LeaseDescribed
  <2>5. DOMAIN ClientLease' = DOMAIN ClientLease \ {c}
    <3>1. \A v \in Workers : lease'[v] # NoName <=> lease[v] # NoName /\ v # w
      BY <2>1 DEF TypeOK
    <3>2. \A v \in Workers : v # w => held[v] # c
      BY <2>2 DEF OneOwner
    <3> QED
      BY <2>1, <3>1, <3>2 DEF ClientLease
  <2>6. \A d \in DOMAIN ClientLease' : ClientLease'[d] = ClientLease[d]
    <3> SUFFICES ASSUME NEW d \in DOMAIN ClientLease'
                 PROVE  ClientLease'[d] = ClientLease[d]
      OBVIOUS
    <3>1. PICK v \in Workers : lease'[v] # NoName /\ held'[v] = d
      BY <1>0 DEF LeaseDescribed
    <3>2. lease'[v] = lease[v] /\ held[v] = d
      BY <2>1, <3>1 DEF TypeOK
    <3> QED
      BY <1>0, <3>1, <3>2 DEF LeaseDescribed
  <2>7. ClientLease' = [d \in DOMAIN ClientLease \ {c} |-> ClientLease[d]]
    BY <1>0, <2>5, <2>6 DEF LeaseDescribed
  <2>8. Contract!Logout(c)
    BY <2>3, <2>4, <2>7 DEF Contract!Logout
  <2> QED
    BY <2>3, <2>8 DEF Contract!Next
<1>6. CASE UNCHANGED <<pending, held, lease>>
  BY <1>6 DEF Live, Queued, Held, ClientLease
<1> QED
  BY <1>1, <1>2, <1>3, <1>4, <1>5, <1>6, VisibleSteps

\* Admission implements AdmissionContract.
THEOREM ImplementsContract == Spec => ContractSpec
<1>1. Init => Contract!Init
  <2> SUFFICES ASSUME Init PROVE Contract!Init
    OBVIOUS
  <2>1. Live = {}
    BY DEF Init, Live, Queued, Held
  <2>2. ClientLease = [c \in {} |-> 0]
    BY DEF Init, ClientLease
  <2> QED
    BY <2>1, <2>2 DEF Contract!Init
<1>2. Safe /\ Safe' /\ [Next]_vars => [Contract!Next]_<<Live, ClientLease>>
  BY ContractStep
<1>3. Spec => []Safe
  BY TypeCorrect, ControlPointsCorrect, OneOwnerCorrect, QuotaCorrect,
     LeaseCorrect, PTL DEF Safe
<1> QED
  BY <1>1, <1>2, <1>3, PTL DEF Spec, ContractSpec, Contract!Spec
=============================================================================
