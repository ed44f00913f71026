----------------------------- MODULE ChunkStore -----------------------------
(***************************************************************************)
(* What a region file promises its LevelStorage: each slot holds nothing,  *)
(* the payload of a save, or is damaged.  A save that returns has stored   *)
(* its payload; only the slots being saved change; a save that throws or   *)
(* is cut short may leave its own slot damaged, never another one's.       *)
(***************************************************************************)
CONSTANTS Writers, Slots, Vals, Absent, Damaged, NoSlot, NoVal

VARIABLES stored,  \* what reading each slot returns
          save     \* each writer's current save, or how its last one ended

Ended(result) == [result |-> result, slot |-> NoSlot, val |-> NoVal]

Pending(w, s, v) == save[w] = [result |-> "pending", slot |-> s, val |-> v]

Init ==
    /\ stored = [s \in Slots |-> Absent]
    /\ save = [w \in Writers |-> Ended("returned")]

Begin(w, s, v) ==
    /\ save[w].result # "pending"
    /\ save' = [save EXCEPT ![w] = [result |-> "pending", slot |-> s, val |-> v]]
    /\ UNCHANGED stored

Store(w, s, v) ==
    /\ Pending(w, s, v)
    /\ stored' = [stored EXCEPT ![s] = v]
    /\ UNCHANGED save

Damage(w, s, v) ==
    /\ Pending(w, s, v)
    /\ stored' = [stored EXCEPT ![s] = Damaged]
    /\ UNCHANGED save

Return(w, s, v) ==
    /\ Pending(w, s, v) /\ stored[s] = v
    /\ save' = [save EXCEPT ![w] = Ended("returned")]
    /\ UNCHANGED stored

Throw(w, s, v) ==
    /\ Pending(w, s, v)
    /\ save' = [save EXCEPT ![w] = Ended("thrown")]
    /\ UNCHANGED stored

\* The process dies with a save in progress.
Crash ==
    /\ \E w \in Writers, s \in Slots, v \in Vals : Pending(w, s, v)
    /\ save' = [w \in Writers |-> Ended("thrown")]
    /\ UNCHANGED stored

\* The file itself is being created: while nothing is stored in it, an
\* unreadable header makes every slot unreadable, until the header is whole.
Create ==
    /\ \A s \in Slots : stored[s] \in {Absent, Damaged}
    /\ \/ stored' = [s \in Slots |-> Damaged]
       \/ stored' = [s \in Slots |-> Absent]
    /\ UNCHANGED save

Next ==
    \/ \E w \in Writers, s \in Slots, v \in Vals :
          \/ Begin(w, s, v)
          \/ Store(w, s, v)
          \/ Damage(w, s, v)
          \/ Return(w, s, v)
          \/ Throw(w, s, v)
    \/ Crash
    \/ Create

Spec == Init /\ [][Next]_<<stored, save>>
=============================================================================
