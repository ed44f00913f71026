---------------------------- MODULE MCPlaySession ----------------------------
(***************************************************************************)
(* A row of three places whose windows overlap: the ends are too far apart *)
(* to walk in one step.                                                    *)
(***************************************************************************)
EXTENDS PlaySession, TLC

CONSTANTS home, mid, far

MCNear == {<<p, p>> : p \in Places}
            \cup {<<home, mid>>, <<mid, home>>, <<mid, far>>, <<far, mid>>}
MCWindow == home :> {1, 2, 3} @@ mid :> {2, 3, 4} @@ far :> {4, 5, 6}
=============================================================================
