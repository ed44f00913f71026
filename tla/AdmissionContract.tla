-------------------------- MODULE AdmissionContract --------------------------
(***************************************************************************)
(* What connection admission promises, with no threads, queue, counters or *)
(* locks: a set of live connections that never exceeds the global and the  *)
(* per-address quota, and for some of them a login name that no other live *)
(* connection has.  A connection is admitted once, logs in at most once at *)
(* a time, and gives its name back before its place.                       *)
(***************************************************************************)
EXTENDS Integers, FiniteSets

CONSTANTS Conns, Hosts, HostOf, Names, MaxActive, MaxPerIp

VARIABLES live,   \* connections admitted and not yet released
          lease   \* the login name of each live connection that has one

Init ==
    /\ live = {}
    /\ lease = [c \in {} |-> 0]

Admit(c) ==
    /\ c \notin live
    /\ Cardinality(live) < MaxActive
    /\ Cardinality({d \in live : HostOf[d] = HostOf[c]}) < MaxPerIp
    /\ live' = live \cup {c}
    /\ UNCHANGED lease

Login(c, n) ==
    /\ c \in live
    /\ c \notin DOMAIN lease
    /\ \A d \in DOMAIN lease : lease[d] # n
    /\ lease' = [d \in DOMAIN lease \cup {c} |-> IF d = c THEN n ELSE lease[d]]
    /\ UNCHANGED live

Logout(c) ==
    /\ c \in DOMAIN lease
    /\ lease' = [d \in DOMAIN lease \ {c} |-> lease[d]]
    /\ UNCHANGED live

Leave(c) ==
    /\ c \in live
    /\ c \notin DOMAIN lease
    /\ live' = live \ {c}
    /\ UNCHANGED lease

Next == \E c \in Conns :
    \/ Admit(c)
    \/ \E n \in Names : Login(c, n)
    \/ Logout(c)
    \/ Leave(c)

Spec == Init /\ [][Next]_<<live, lease>>
=============================================================================
