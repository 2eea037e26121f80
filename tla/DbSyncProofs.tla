----------------------------- MODULE DbSyncProofs -----------------------------
(***************************************************************************)
(* The incremental sync misses nothing that the slack covers, for every    *)
(* period, slack and set of peers, and however late writes and syncs are.  *)
(***************************************************************************)
EXTENDS DbSync, TLAPS

-----------------------------------------------------------------------------
(* The inductive invariant                                                 *)

\* A sighting is stamped with a time that is past.
SightingsFresh == \A s \in sightings : s.last_seen > 0 /\ s.last_seen <= now

\* Rows are replaced and never removed, and what was copied had been there.
RowsRemain ==
  \A p \in Peers : copy[p] # 0 \/ scanned[p] # 0 => source[p] # 0

\* Whether a whole scan has been taken by a handler that is still running.
Primed == handler # "dead" /\ ~first

\* No deadline is further away than one period, and a sync does not begin early.
Deadlines ==
  /\ now > 0
  /\ Primed \/ handler \in {"scan", "copy"} => nextTick <= now + Period
  /\ handler = "scan" => began <= now /\ nextTick <= began + Period

\* While rows are copied, a row differs from the scan only if it is still to come, or
\* if the slack did not cover a sync.
CopyAdvances ==
  handler = "copy" =>
    /\ \A r \in rows : r.last_seen = scanned[r.id]
    /\ covered => \A p \in Peers :
         copy[p] = scanned[p] \/ [id |-> p, last_seen |-> scanned[p]] \in rows

\* Between two copies the API server has what was scanned.
CopyHolds == covered /\ ~first /\ handler \in {"tick", "scan"} => copy = scanned

\* What the crawler wrote after the last scan is no older than the wait of the slowest
\* of these writes and the time from that scan to the deadline of the next one.
ChangesRecent ==
  \A p \in Peers : source[p] # scanned[p] =>
    /\ handler = "copy" \/ (handler = "tick" /\ ~first)
         => source[p] + delay + Period >= nextTick
    /\ handler = "scan" /\ ~first
         => source[p] + delay + Period + Period >= nextTick

SyncInv ==
  /\ TypeOK
  /\ SightingsFresh
  /\ RowsRemain
  /\ Deadlines
  /\ CopyAdvances
  /\ CopyHolds
  /\ ChangesRecent

-----------------------------------------------------------------------------
(* The steps                                                               *)

USE PeriodAssumption, SlackAssumption

LEMMA InitSyncInv == Init => SyncInv
<1> SUFFICES ASSUME Init PROVE SyncInv
  OBVIOUS
<1>1. TypeOK
  BY DEF Init, TypeOK, RowOf
<1>2. SightingsFresh /\ RowsRemain /\ Deadlines
  BY DEF Init, SightingsFresh, RowsRemain, Deadlines, Primed
<1>3. CopyAdvances /\ CopyHolds /\ ChangesRecent
  BY DEF Init, CopyAdvances, CopyHolds, ChangesRecent, Primed
<1> QED
  BY <1>1, <1>2, <1>3 DEF SyncInv

LEMMA SeePreserves ==
  ASSUME SyncInv, NEW p \in Peers, See(p)
  PROVE  SyncInv'
<1> USE DEF SyncInv, See, crawler, sync
<1>1. TypeOK'
  BY DEF TypeOK, RowOf
<1>2. SightingsFresh'
  <2> SUFFICES ASSUME NEW s \in sightings'
               PROVE  s.last_seen > 0 /\ s.last_seen <= now
    BY DEF SightingsFresh
  <2>1. CASE s \in sightings
    BY <2>1 DEF SightingsFresh
  <2>2. CASE s = [id |-> p, last_seen |-> now]
    BY <2>2 DEF TypeOK, Deadlines
  <2> QED
    BY <2>1, <2>2
<1>3. RowsRemain'
  BY DEF TypeOK, RowOf, SightingsFresh, RowsRemain, CopyAdvances
<1>4. Deadlines'
  BY DEF TypeOK, RowOf, Deadlines, Primed
<1>5. CopyAdvances'
  BY DEF TypeOK, RowOf, CopyAdvances
<1>6. CopyHolds'
  BY DEF TypeOK, RowOf, CopyHolds, CopyAdvances
<1>7. ChangesRecent'
  BY DEF TypeOK, RowOf, SightingsFresh, Deadlines, Primed, ChangesRecent
<1> QED
  BY <1>1, <1>2, <1>3, <1>4, <1>5, <1>6, <1>7 DEF SyncInv

LEMMA SavePreserves ==
  ASSUME SyncInv, NEW s \in sightings, Save(s)
  PROVE  SyncInv'
<1> USE DEF SyncInv, Save, sync
<1>1. TypeOK'
  BY DEF TypeOK, RowOf
<1>2. SightingsFresh'
  BY DEF TypeOK, RowOf, SightingsFresh
<1>3. RowsRemain'
  BY DEF TypeOK, RowOf, SightingsFresh, RowsRemain, CopyAdvances
<1>4. Deadlines'
  BY DEF TypeOK, RowOf, Deadlines, Primed
<1>5. CopyAdvances'
  BY DEF TypeOK, RowOf, CopyAdvances
<1>6. CopyHolds'
  BY DEF TypeOK, RowOf, CopyHolds, CopyAdvances
<1>7. ChangesRecent'
  BY DEF TypeOK, RowOf, SightingsFresh, Deadlines, Primed, ChangesRecent
<1> QED
  BY <1>1, <1>2, <1>3, <1>4, <1>5, <1>6, <1>7 DEF SyncInv

LEMMA PassPreserves ==
  ASSUME SyncInv, Pass
  PROVE  SyncInv'
<1> USE DEF SyncInv, Pass, crawler, sync
<1>1. TypeOK'
  BY DEF TypeOK, RowOf
<1>2. SightingsFresh'
  BY DEF TypeOK, RowOf, SightingsFresh
<1>3. RowsRemain'
  BY DEF TypeOK, RowOf, SightingsFresh, RowsRemain, CopyAdvances
<1>4. Deadlines'
  BY DEF TypeOK, RowOf, Deadlines, Primed
<1>5. CopyAdvances'
  BY DEF TypeOK, RowOf, CopyAdvances
<1>6. CopyHolds'
  BY DEF TypeOK, RowOf, CopyHolds, CopyAdvances
<1>7. ChangesRecent'
  BY DEF TypeOK, RowOf, SightingsFresh, Deadlines, Primed, ChangesRecent
<1> QED
  BY <1>1, <1>2, <1>3, <1>4, <1>5, <1>6, <1>7 DEF SyncInv

LEMMA TickPreserves ==
  ASSUME SyncInv, Tick
  PROVE  SyncInv'
<1> USE DEF SyncInv, Tick, crawler
<1>1. TypeOK'
  BY DEF TypeOK, RowOf
<1>2. SightingsFresh'
  BY DEF TypeOK, RowOf, SightingsFresh
<1>3. RowsRemain'
  BY DEF TypeOK, RowOf, SightingsFresh, RowsRemain, CopyAdvances
<1>4. Deadlines'
  BY DEF TypeOK, RowOf, Deadlines, Primed
<1>5. CopyAdvances'
  BY DEF TypeOK, RowOf, CopyAdvances
<1>6. CopyHolds'
  BY DEF TypeOK, RowOf, CopyHolds, CopyAdvances
<1>7. ChangesRecent'
  BY DEF TypeOK, RowOf, SightingsFresh, Deadlines, Primed, ChangesRecent
<1> QED
  BY <1>1, <1>2, <1>3, <1>4, <1>5, <1>6, <1>7 DEF SyncInv

LEMMA ScanAllPreserves ==
  ASSUME SyncInv, ScanAll
  PROVE  SyncInv'
<1> USE DEF SyncInv, ScanAll, AllRows, Collect, crawler
<1>1. TypeOK'
  BY DEF TypeOK, RowOf
<1>2. SightingsFresh'
  BY DEF TypeOK, RowOf, SightingsFresh
<1>3. RowsRemain'
  BY DEF TypeOK, RowOf, SightingsFresh, RowsRemain, CopyAdvances
<1>4. Deadlines'
  BY DEF TypeOK, RowOf, Deadlines, Primed
<1>5. CopyAdvances'
  <2>1. \A r \in rows' : r.last_seen = scanned'[r.id]
    OBVIOUS
  <2>2. ASSUME NEW p \in Peers, source[p] # 0
        PROVE  [id |-> p, last_seen |-> scanned'[p]] \in rows'
    BY <2>2
  <2>3. ASSUME NEW p \in Peers, source[p] = 0
        PROVE  copy'[p] = scanned'[p]
    BY <2>3 DEF RowsRemain
  <2> QED
    BY <2>1, <2>2, <2>3 DEF CopyAdvances
<1>6. CopyHolds'
  BY DEF TypeOK, RowOf, CopyHolds, CopyAdvances
<1>7. ChangesRecent'
  BY DEF TypeOK, RowOf, SightingsFresh, Deadlines, Primed, ChangesRecent
<1> QED
  BY <1>1, <1>2, <1>3, <1>4, <1>5, <1>6, <1>7 DEF SyncInv

LEMMA ScanActivePreserves ==
  ASSUME SyncInv, ScanActive
  PROVE  SyncInv'
<1> USE DEF SyncInv, ScanActive, AllRows, RecentRows, Collect, crawler
<1>1. TypeOK'
  BY DEF TypeOK, RowOf
<1>2. SightingsFresh'
  BY DEF TypeOK, RowOf, SightingsFresh
<1>3. RowsRemain'
  BY DEF TypeOK, RowOf, SightingsFresh, RowsRemain, CopyAdvances
<1>4. Deadlines'
  BY DEF TypeOK, RowOf, Deadlines, Primed
<1>5. CopyAdvances'
  <2>1. \A r \in rows' : r.last_seen = scanned'[r.id]
    OBVIOUS
  <2>2. ASSUME NEW p \in Peers, source[p] # scanned[p], covered'
        PROVE  source[p] # 0 => [id |-> p, last_seen |-> source[p]] \in rows'
    <3>1. source[p] + delay + Period + Period >= nextTick
      BY <2>2 DEF ChangesRecent
    <3>2. delay + ((began + Period) - nextTick) < Slack
      BY <2>2 DEF Late
    <3>3. source[p] + Period + Slack > began
      BY <3>1, <3>2 DEF TypeOK
    <3> QED
      BY <3>3
  <2>3. ASSUME NEW p \in Peers, source[p] = 0
        PROVE  copy'[p] = scanned'[p]
    BY <2>3 DEF RowsRemain
  <2>4. ASSUME NEW p \in Peers, source[p] = scanned[p], covered'
        PROVE  copy'[p] = scanned'[p]
    BY <2>4 DEF CopyHolds
  <2> QED
    BY <2>1, <2>2, <2>3, <2>4 DEF CopyAdvances
<1>6. CopyHolds'
  BY DEF TypeOK, RowOf, CopyHolds, CopyAdvances
<1>7. ChangesRecent'
  BY DEF TypeOK, RowOf, SightingsFresh, Deadlines, Primed, ChangesRecent
<1> QED
  BY <1>1, <1>2, <1>3, <1>4, <1>5, <1>6, <1>7 DEF SyncInv

LEMMA CopyRowPreserves ==
  ASSUME SyncInv, NEW r \in rows, CopyRow(r)
  PROVE  SyncInv'
<1> USE DEF SyncInv, CopyRow, crawler
<1>1. TypeOK'
  BY DEF TypeOK, RowOf
<1>2. SightingsFresh'
  BY DEF TypeOK, RowOf, SightingsFresh
<1>3. RowsRemain'
  BY DEF TypeOK, RowOf, SightingsFresh, RowsRemain, CopyAdvances
<1>4. Deadlines'
  BY DEF TypeOK, RowOf, Deadlines, Primed
<1>5. CopyAdvances'
  BY DEF TypeOK, RowOf, CopyAdvances
<1>6. CopyHolds'
  BY DEF TypeOK, RowOf, CopyHolds, CopyAdvances
<1>7. ChangesRecent'
  BY DEF TypeOK, RowOf, SightingsFresh, Deadlines, Primed, ChangesRecent
<1> QED
  BY <1>1, <1>2, <1>3, <1>4, <1>5, <1>6, <1>7 DEF SyncInv

LEMMA FinishPreserves ==
  ASSUME SyncInv, Finish
  PROVE  SyncInv'
<1> USE DEF SyncInv, Finish, crawler
<1>1. TypeOK'
  BY DEF TypeOK, RowOf
<1>2. SightingsFresh'
  BY DEF TypeOK, RowOf, SightingsFresh
<1>3. RowsRemain'
  BY DEF TypeOK, RowOf, SightingsFresh, RowsRemain, CopyAdvances
<1>4. Deadlines'
  BY DEF TypeOK, RowOf, Deadlines, Primed
<1>5. CopyAdvances'
  BY DEF TypeOK, RowOf, CopyAdvances
<1>6. CopyHolds'
  BY DEF TypeOK, RowOf, CopyHolds, CopyAdvances
<1>7. ChangesRecent'
  BY DEF TypeOK, RowOf, SightingsFresh, Deadlines, Primed, ChangesRecent
<1> QED
  BY <1>1, <1>2, <1>3, <1>4, <1>5, <1>6, <1>7 DEF SyncInv

LEMMA StopPreserves ==
  ASSUME SyncInv, Die, faulted' \in BOOLEAN
  PROVE  SyncInv'
<1> USE DEF SyncInv, Die, crawler
<1>1. TypeOK'
  BY DEF TypeOK, RowOf
<1>2. SightingsFresh'
  BY DEF TypeOK, RowOf, SightingsFresh
<1>3. RowsRemain'
  BY DEF TypeOK, RowOf, SightingsFresh, RowsRemain, CopyAdvances
<1>4. Deadlines'
  BY DEF TypeOK, RowOf, Deadlines, Primed
<1>5. CopyAdvances'
  BY DEF TypeOK, RowOf, CopyAdvances
<1>6. CopyHolds'
  BY DEF TypeOK, RowOf, CopyHolds, CopyAdvances
<1>7. ChangesRecent'
  BY DEF TypeOK, RowOf, SightingsFresh, Deadlines, Primed, ChangesRecent
<1> QED
  BY <1>1, <1>2, <1>3, <1>4, <1>5, <1>6, <1>7 DEF SyncInv

LEMMA RestartPreserves ==
  ASSUME SyncInv, Restart
  PROVE  SyncInv'
<1> USE DEF SyncInv, Restart, crawler
<1>1. TypeOK'
  BY DEF TypeOK, RowOf
<1>2. SightingsFresh'
  BY DEF TypeOK, RowOf, SightingsFresh
<1>3. RowsRemain'
  BY DEF TypeOK, RowOf, SightingsFresh, RowsRemain, CopyAdvances
<1>4. Deadlines'
  BY DEF TypeOK, RowOf, Deadlines, Primed
<1>5. CopyAdvances'
  BY DEF TypeOK, RowOf, CopyAdvances
<1>6. CopyHolds'
  BY DEF TypeOK, RowOf, CopyHolds, CopyAdvances
<1>7. ChangesRecent'
  BY DEF TypeOK, RowOf, SightingsFresh, Deadlines, Primed, ChangesRecent
<1> QED
  BY <1>1, <1>2, <1>3, <1>4, <1>5, <1>6, <1>7 DEF SyncInv

LEMMA StutterPreserves ==
  ASSUME SyncInv, UNCHANGED vars
  PROVE  SyncInv'
BY DEF SyncInv, vars, crawler, sync, TypeOK, RowOf, SightingsFresh, RowsRemain, Primed,
       Deadlines, CopyAdvances, CopyHolds, ChangesRecent

-----------------------------------------------------------------------------
(* The theorems                                                            *)

LEMMA NextSyncInv ==
  ASSUME SyncInv, [Next]_vars
  PROVE  SyncInv'
<1>1. CASE \E p \in Peers : See(p)
  BY <1>1, SeePreserves
<1>2. CASE \E s \in sightings : Save(s)
  BY <1>2, SavePreserves
<1>3. CASE Pass
  BY <1>3, PassPreserves
<1>4. CASE Tick
  BY <1>4, TickPreserves
<1>5. CASE ScanAll
  BY <1>5, ScanAllPreserves
<1>6. CASE ScanActive
  BY <1>6, ScanActivePreserves
<1>7. CASE ActiveQueryFails
  BY <1>7, StopPreserves DEF ActiveQueryFails, SyncInv, TypeOK
<1>8. CASE \E r \in rows : CopyRow(r)
  BY <1>8, CopyRowPreserves
<1>9. CASE Finish
  BY <1>9, FinishPreserves
<1>10. CASE DatabaseFails
  BY <1>10, StopPreserves DEF DatabaseFails
<1>11. CASE Restart
  BY <1>11, RestartPreserves
<1>12. CASE UNCHANGED vars
  BY <1>12, StutterPreserves
<1> QED
  BY <1>1, <1>2, <1>3, <1>4, <1>5, <1>6, <1>7, <1>8, <1>9, <1>10, <1>11, <1>12 DEF Next

LEMMA SyncInvHolds == Spec => []SyncInv
<1>1. SyncInv /\ [Next]_vars => SyncInv'
  BY NextSyncInv
<1> QED
  BY <1>1, InitSyncInv, PTL DEF Spec

LEMMA NextTypeOK == TypeOK /\ [Next]_vars => TypeOK'
<1> SUFFICES ASSUME TypeOK, [Next]_vars PROVE TypeOK'
  OBVIOUS
<1> USE DEF TypeOK, RowOf, crawler, sync
<1>1. ASSUME NEW p \in Peers, See(p) PROVE TypeOK'
  BY <1>1 DEF See
<1>2. ASSUME NEW s \in sightings, Save(s) PROVE TypeOK'
  BY <1>2 DEF Save
<1>3. CASE Pass
  BY <1>3 DEF Pass
<1>4. CASE Tick
  BY <1>4 DEF Tick
<1>5. CASE ScanAll
  BY <1>5 DEF ScanAll, Collect, AllRows
<1>6. CASE ScanActive
  BY <1>6 DEF ScanActive, Collect, RecentRows, AllRows
<1>7. CASE ActiveQueryFails
  BY <1>7 DEF ActiveQueryFails, Die
<1>8. ASSUME NEW r \in rows, CopyRow(r) PROVE TypeOK'
  BY <1>8 DEF CopyRow
<1>9. CASE Finish
  BY <1>9 DEF Finish
<1>10. CASE DatabaseFails
  BY <1>10 DEF DatabaseFails, Die
<1>11. CASE Restart
  BY <1>11 DEF Restart
<1>12. CASE UNCHANGED vars
  BY <1>12 DEF vars
<1> QED
  BY <1>1, <1>2, <1>3, <1>4, <1>5, <1>6, <1>7, <1>8, <1>9, <1>10, <1>11, <1>12 DEF Next

\* Type correctness of the sync.
THEOREM TypeCorrect == Spec => []TypeOK
<1>1. Init => TypeOK
  BY InitSyncInv DEF SyncInv
<1> QED
  BY <1>1, NextTypeOK, PTL DEF Spec

\* The copy of the recent rows only is a whole copy: between two syncs the API server
\* has exactly the rows that the crawler had at the last scan, if each sync since the
\* last whole one was no later than the slack covers.
THEOREM SyncMissesNothing == Spec => []CopyComplete
<1>1. SyncInv => CopyComplete
  BY DEF SyncInv, CopyHolds, CopyComplete
<1> QED
  BY <1>1, SyncInvHolds, PTL

\* It is the statement of all_active_peers alone that stops the handler while the
\* databases work: where the statement runs, only a fault of a database does.
THEOREM OnlyFaultsStop ==
  ASSUME "fails" \notin ActiveQuery
  PROVE  Spec => []KeepsUpdating
<1>1. Init => KeepsUpdating
  BY DEF Init, KeepsUpdating
<1>2. KeepsUpdating /\ [Next]_vars => KeepsUpdating'
  <2> SUFFICES ASSUME KeepsUpdating, [Next]_vars PROVE KeepsUpdating'
    OBVIOUS
  <2> USE DEF KeepsUpdating
  <2>1. CASE \/ Pass \/ UNCHANGED vars
             \/ \E p \in Peers : See(p)
             \/ \E s \in sightings : Save(s)
             \/ \E r \in rows : CopyRow(r)
    <3>1. UNCHANGED <<handler, faulted>>
      BY <2>1 DEF Pass, See, Save, CopyRow, vars, sync
    <3> QED BY <3>1
  <2>2. CASE Tick \/ ScanAll \/ ScanActive \/ Finish \/ Restart
    <3>1. handler' # "dead"
      BY <2>2 DEF Tick, ScanAll, ScanActive, Collect, Finish, Restart
    <3> QED BY <3>1
  <2>3. CASE DatabaseFails
    BY <2>3 DEF DatabaseFails
  <2>4. ~ActiveQueryFails
    BY DEF ActiveQueryFails
  <2> QED BY <2>1, <2>2, <2>3, <2>4 DEF Next
<1> QED BY <1>1, <1>2, PTL DEF Spec

-----------------------------------------------------------------------------
(* The sync copies snapshots                                               *)

copyState == <<source, copy, CopyStatus, Snapshot>>

\* What a step that the sync does not take leaves.
LEMMA CopyKept ==
  ASSUME UNCHANGED <<copy, handler, first, scanned, covered>>
  PROVE  UNCHANGED <<copy, CopyStatus, Snapshot>>
BY DEF CopyStatus, Snapshot

\* A row written by the crawler.
LEMMA SaveWrites ==
  ASSUME SyncInv, NEW s \in sightings, Save(s)
  PROVE  Copying!Write(s.id)
<1>1. /\ s.id \in Peers /\ s.last_seen \in Nat /\ s.last_seen > 0
      /\ source \in [Peers -> Nat]
  BY DEF SyncInv, TypeOK, RowOf, SightingsFresh
<1>2. /\ source' = [source EXCEPT ![s.id] = s.last_seen]
      /\ UNCHANGED <<copy, CopyStatus, Snapshot>>
  BY CopyKept DEF Save, sync
<1>3. source'[s.id] = s.last_seen
  BY <1>1, <1>2
<1>4. source' = [source EXCEPT ![s.id] = source'[s.id]]
  BY <1>2, <1>3
<1>5. source'[s.id] \in Nat \ {0}
  BY <1>1, <1>3
<1> QED BY <1>2, <1>4, <1>5 DEF Copying!Write

\* A scan begins a copy, of all rows although it reads the recent ones only.
LEMMA ScanBegins ==
  ASSUME ScanAll \/ ScanActive
  PROVE  Copying!Begin
<1>1. /\ handler = "scan" /\ handler' = "copy" /\ scanned' = source
      /\ UNCHANGED <<source, copy>>
  BY DEF ScanAll, ScanActive, Collect, crawler
<1> QED BY <1>1 DEF Copying!Begin, CopyStatus, Snapshot

\* A row copied is the one scanned.
LEMMA CopyRowReplaces ==
  ASSUME SyncInv, NEW r \in rows, CopyRow(r)
  PROVE  r.id \in Peers /\ Copying!Replace(r.id)
<1>1. r.id \in Peers /\ handler = "copy" /\ r.last_seen = scanned[r.id]
  BY DEF SyncInv, TypeOK, RowOf, CopyAdvances, CopyRow
<1>2. /\ copy' = [copy EXCEPT ![r.id] = r.last_seen]
      /\ UNCHANGED <<source, handler, first, scanned, covered>>
  BY DEF CopyRow, crawler
<1>3. CopyStatus = "copying" /\ Snapshot = scanned
  BY <1>1 DEF CopyStatus, Snapshot
<1>4. UNCHANGED <<CopyStatus, Snapshot>>
  BY <1>2 DEF CopyStatus, Snapshot
<1> QED BY <1>1, <1>2, <1>3, <1>4 DEF Copying!Replace

\* A sync that is through has the whole snapshot, as a row it did not read was there,
\* or was not covered and leaves none.
LEMMA FinishCompletes ==
  ASSUME SyncInv, Finish
  PROVE  Copying!Complete \/ Copying!Stop
<1>1. /\ handler = "copy" /\ rows = {} /\ handler' = "tick" /\ first' = FALSE
      /\ UNCHANGED <<source, copy, covered>>
  BY DEF Finish, crawler
<1>2. copy \in [Peers -> Nat] /\ scanned \in [Peers -> Nat]
  BY DEF SyncInv, TypeOK
<1>3. CASE covered
  <2>1. \A p \in Peers : copy[p] = scanned[p]
    BY <1>1, <1>3 DEF SyncInv, CopyAdvances
  <2>2. copy = scanned
    BY <1>2, <2>1
  <2> QED BY <1>1, <1>3, <2>2 DEF Copying!Complete, CopyStatus, Snapshot, Copying!Nothing
<1>4. CASE ~covered
  BY <1>1, <1>4 DEF Copying!Stop, CopyStatus, Snapshot, Copying!Nothing
<1> QED BY <1>3, <1>4

\* A handler that dies leaves the rows it has copied.
LEMMA DeathStops ==
  ASSUME Die
  PROVE  Copying!Stop
<1>1. handler' = "dead" /\ UNCHANGED <<source, copy>>
  BY DEF Die, crawler
<1> QED BY <1>1 DEF Copying!Stop, CopyStatus, Snapshot, Copying!Nothing

\* Every step of the sync is one of a snapshot copy, or none.
LEMMA NextCopies ==
  SyncInv /\ [Next]_vars => [Copying!CopyNext]_copyState
<1> SUFFICES ASSUME SyncInv, [Next]_vars
             PROVE  Copying!CopyNext \/ UNCHANGED copyState
  BY DEF copyState
<1>1. ASSUME NEW s \in sightings, Save(s) PROVE Copying!CopyNext
  <2>1. s.id \in Peers
    BY DEF SyncInv, TypeOK, RowOf
  <2> QED BY <1>1, <2>1, SaveWrites DEF Copying!CopyNext
<1>2. CASE ScanAll \/ ScanActive
  BY <1>2, ScanBegins DEF Copying!CopyNext
<1>3. ASSUME NEW r \in rows, CopyRow(r) PROVE Copying!CopyNext
  BY <1>3, CopyRowReplaces DEF Copying!CopyNext
<1>4. CASE Finish
  BY <1>4, FinishCompletes DEF Copying!CopyNext
<1>5. CASE ActiveQueryFails \/ DatabaseFails
  BY <1>5, DeathStops DEF ActiveQueryFails, DatabaseFails, Copying!CopyNext
<1>6. CASE Pass \/ UNCHANGED vars \/ \E p \in Peers : See(p)
  <2>1. UNCHANGED <<source, copy, handler, first, scanned, covered>>
    BY <1>6 DEF Pass, See, vars, crawler, sync
  <2> QED BY <2>1, CopyKept DEF copyState
<1>7. CASE Tick
  <2>1. handler = "tick" /\ handler' = "scan" /\ UNCHANGED <<source, copy, first, scanned, covered>>
    BY <1>7 DEF Tick, crawler
  <2> QED BY <2>1 DEF copyState, CopyStatus, Snapshot
<1>8. CASE Restart
  <2>1. handler = "dead" /\ handler' = "tick" /\ first' /\ UNCHANGED <<source, copy, scanned>>
    BY <1>8 DEF Restart, crawler
  <2> QED BY <2>1 DEF copyState, CopyStatus, Snapshot
<1> QED BY <1>1, <1>2, <1>3, <1>4, <1>5, <1>6, <1>7, <1>8 DEF Next

\* The sync, which copies the recent rows only, implements a copy of the whole source
\* as of its scan, also over failures and restarts, while the slack covers what is late.
THEOREM SyncCopiesSnapshots == Spec => CopiesSnapshots
<1>1. Init => Copying!CopyInit
  BY DEF Init, Copying!CopyInit, Copying!Nothing, CopyStatus, Snapshot
<1>2. SyncInv /\ [Next]_vars => [Copying!CopyNext]_copyState
  BY NextCopies
<1> QED
  BY <1>1, <1>2, SyncInvHolds, PTL
  DEF Spec, CopiesSnapshots, Copying!CopySpec, Copying!copyVars, copyState

=============================================================================
