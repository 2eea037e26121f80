----------------------------- MODULE SnapshotCopy -----------------------------
(***************************************************************************)
(* What the database sync promises to the readers of the API server: a     *)
(* copy brings the replica, row by row, to what the origin was at one      *)
(* instant, and a copy that completes has left out none of its rows.       *)
(* Readers see the replica meanwhile, and a copy that is stopped keeps the *)
(* rows it has replaced.                                                   *)
(***************************************************************************)
CONSTANTS Keys,      \* peer ids
          Items,     \* rows, as their readers see them
          Absent     \* no row

VARIABLES origin,    \* the crawler's row of each peer
          replica,   \* the API server's
          status,    \* the replica: a "whole" snapshot, "copying" one, or "stale"
          snapshot   \* the origin as of the beginning of the copy under way
copyVars == <<origin, replica, status, snapshot>>

Nothing == [k \in Keys |-> Absent]

CopyInit ==
  /\ origin = Nothing
  /\ replica = Nothing
  /\ status = "stale"
  /\ snapshot = Nothing

\* The crawler replaces a row; it removes none.
Write(k) ==
  /\ origin' = [origin EXCEPT ![k] = origin'[k]]
  /\ origin'[k] \in Items
  /\ UNCHANGED <<replica, status, snapshot>>

Begin ==
  /\ status # "copying"
  /\ status' = "copying"
  /\ snapshot' = origin
  /\ UNCHANGED <<origin, replica>>

Replace(k) ==
  /\ status = "copying"
  /\ replica' = [replica EXCEPT ![k] = snapshot[k]]
  /\ UNCHANGED <<origin, status, snapshot>>

\* Every row of the replica is the snapshot's, also those not replaced.
Complete ==
  /\ status = "copying"
  /\ replica = snapshot
  /\ status' = "whole"
  /\ snapshot' = Nothing
  /\ UNCHANGED <<origin, replica>>

Stop ==
  /\ status' = "stale"
  /\ snapshot' = Nothing
  /\ UNCHANGED <<origin, replica>>

CopyNext ==
  \/ \E k \in Keys : Write(k) \/ Replace(k)
  \/ Begin
  \/ Complete
  \/ Stop

CopySpec == CopyInit /\ [][CopyNext]_copyVars

=============================================================================
