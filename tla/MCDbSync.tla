------------------------------- MODULE MCDbSync -------------------------------
(* Short periods: a sync every two or three instants, several in a behaviour. *)
EXTENDS DbSync, TLC

PeerSymmetry == Permutations(Peers)

=============================================================================
