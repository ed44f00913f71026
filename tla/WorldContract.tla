--------------------------- MODULE WorldContract ---------------------------
(***************************************************************************)
(* What a persistent World promises the session that plays in it.  An item *)
(* is a chunk or the scalar state of level.mcd, and its content is the     *)
(* number of changes made to it.  While the world is up only a change      *)
(* changes an item: loading, eviction, unloading and saving never show.  A *)
(* checkpoint is a completed save_all; when the world is opened again each *)
(* item is at least as new as at the checkpoint and no newer than it was.  *)
(* An item that had changed since may be damaged instead, and so may one   *)
(* that had never been changed.                                            *)
(***************************************************************************)
EXTENDS Integers

CONSTANTS Items, Damaged

VARIABLES view,        \* what the session reads; what the disk has when down
          checkpoint,  \* view at the last completed save_all
          up

Init ==
    /\ view = [i \in Items |-> 0]
    /\ checkpoint = view
    /\ up = FALSE

Open == ~up /\ up' = TRUE /\ UNCHANGED <<view, checkpoint>>

Change(i) ==
    /\ up /\ view[i] # Damaged
    /\ view' = [view EXCEPT ![i] = @ + 1]
    /\ UNCHANGED <<checkpoint, up>>

Checkpoint ==
    /\ up
    /\ checkpoint' = view
    /\ UNCHANGED <<view, up>>

\* Items never changed are stored for the first time, and that fails.
Damage ==
    /\ up
    /\ \E lost \in SUBSET {i \in Items : view[i] = 0} :
          view' = [i \in Items |-> IF i \in lost THEN Damaged ELSE view[i]]
    /\ UNCHANGED <<checkpoint, up>>

\* The session ends, or the process dies.
Close ==
    /\ up /\ up' = FALSE
    /\ \A i \in Items :
          \/ view'[i] = view[i]
          \/ view[i] # Damaged /\ view'[i] = Damaged /\ view[i] # checkpoint[i]
          \/ /\ Damaged \notin {view[i], view'[i]}
             /\ view'[i] <= view[i]
             /\ checkpoint[i] # Damaged => checkpoint[i] <= view'[i]
    /\ DOMAIN view' = Items
    /\ UNCHANGED checkpoint

Next ==
    \/ Open
    \/ \E i \in Items : Change(i)
    \/ Damage
    \/ Checkpoint
    \/ Close

Spec == Init /\ [][Next]_<<view, checkpoint, up>>
=============================================================================
