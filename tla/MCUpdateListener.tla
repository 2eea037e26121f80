--------------------------- MODULE MCUpdateListener ---------------------------
(***************************************************************************)
(* Small worlds for UpdateListener.  Peers p1 and p2 share the address a1, *)
(* and p2 also has the address a2: a ban by address and a count by peer id *)
(* can disagree in both directions.                                        *)
(***************************************************************************)
EXTENDS UpdateListener, TLC

CONSTANTS p1, p2, a1, a2

At(p, a) == [id |-> p, address |-> a]

NoRecords == {}
OneRecord == {At(p1, a1)}
Neighbour == {At(p2, a1)}
AllRecords == {At(p1, a1), At(p2, a1), At(p2, a2)}

TaskSymmetry == Permutations(Tasks)
NodeAndTaskSymmetry == Permutations(Nodes) \union Permutations(Tasks)

=============================================================================
