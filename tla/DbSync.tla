-------------------------------- MODULE DbSync --------------------------------
(***************************************************************************)
(* How the rows of the crawler's PostgreSQL database reach the SQLite      *)
(* database that the API server reads.  Every Period the server copies the *)
(* rows whose last_seen is at most Period + Slack old; the first copy of a *)
(* process takes all of them.  The crawler stamps last_seen when it sees a *)
(* peer and writes the row later, after the awaits in between.  Nothing    *)
(* limits how much later, nor how long a sync takes: time passes at every  *)
(* point of both.                                                          *)
(*                                                                         *)
(* Time is discrete.  A row is its last_seen; 0 stands for no row.         *)
(***************************************************************************)
EXTENDS Naturals, FiniteSets

CONSTANTS
  Peers,           \* peer ids
  Period,          \* UPDATE_TIME
  Slack,           \* the 60 seconds that db_sync adds
  ActiveQuery,     \* what the statement of all_active_peers may do at the source
  MaxTime,         \* bound on the time of a behaviour
  MaxSightings     \* bound on the sightings that wait to be written

ASSUME PeriodAssumption == Period \in Nat \ {0}
ASSUME SlackAssumption == Slack \in Nat
\* PostgreSQL numbers parameters $1 and refuses the statement, which says ?1: it
\* "fails".  What the window of the sync is worth shows only where it "runs", as it
\* would with $1 or on a database that takes ?1.
ASSUME QueryAssumption == ActiveQuery \subseteq {"runs", "fails"}

VARIABLES
  now,        \* the clock
  sightings,  \* peers the crawler has seen and not written yet
  source,     \* the crawler's rows
  copy,       \* the API server's rows
  handler,    \* db_sync_handler: "tick", "scan", "copy" or "dead"
  first,      \* first_sync
  nextTick,   \* the interval's next deadline
  began,      \* when the sync under way took the time its cutoff counts from
  rows,       \* the rows it still has to copy
  scanned,    \* history: the source as of the last scan
  delay,      \* history: the longest a row written since then had waited
  covered,    \* history: the slack covered each sync since the last scan of all rows
  faulted     \* history: it was a database that stopped the handler

crawler == <<sightings, source, delay>>
sync    == <<handler, first, nextTick, began, rows>>
vars    == <<now, crawler, copy, sync, scanned, covered, faulted>>

RowOf == [id: Peers, last_seen: Nat]

TypeOK ==
  /\ now \in Nat
  /\ sightings \subseteq RowOf
  /\ source \in [Peers -> Nat]
  /\ copy \in [Peers -> Nat]
  /\ handler \in {"tick", "scan", "copy", "dead"}
  /\ first \in BOOLEAN
  /\ nextTick \in Nat
  /\ began \in Nat
  /\ rows \subseteq RowOf
  /\ scanned \in [Peers -> Nat]
  /\ delay \in Nat
  /\ covered \in BOOLEAN
  /\ faulted \in BOOLEAN
  /\ rows # {} => handler = "copy"

\* The first tick of an interval is immediate.
Init ==
  /\ now = 1
  /\ sightings = {}
  /\ source = [p \in Peers |-> 0]
  /\ copy = [p \in Peers |-> 0]
  /\ handler = "tick"
  /\ first = TRUE
  /\ nextTick = 1
  /\ began = 0
  /\ rows = {}
  /\ scanned = [p \in Peers |-> 0]
  /\ delay = 0
  /\ covered = FALSE
  /\ faulted = FALSE

-----------------------------------------------------------------------------
(* External: the crawler                                                   *)

\* Bound: at most MaxSightings wait to be written.
See(p) ==
  /\ Cardinality(sightings) < MaxSightings
  /\ sightings' = sightings \union {[id |-> p, last_seen |-> now]}
  /\ UNCHANGED <<now, source, delay, copy, sync, scanned, covered, faulted>>

\* The upsert: a row is replaced also by an older sighting.
Save(s) ==
  /\ s \in sightings
  /\ sightings' = sightings \ {s}
  /\ source' = [source EXCEPT ![s.id] = s.last_seen]
  /\ delay' = IF delay < now - s.last_seen THEN now - s.last_seen ELSE delay
  /\ UNCHANGED <<now, copy, sync, scanned, covered, faulted>>

\* Time passes, whatever waits.  Bound: up to MaxTime.
Pass ==
  /\ now < MaxTime
  /\ now' = now + 1
  /\ UNCHANGED <<crawler, copy, sync, scanned, covered, faulted>>

-----------------------------------------------------------------------------
(* db_sync_handler and db_sync                                             *)

\* interval.tick() returns and the cutoff is computed.  A late tick does not
\* move the next deadline (MissedTickBehavior::Burst).
Tick ==
  /\ handler = "tick"
  /\ now >= nextTick
  /\ nextTick' = nextTick + Period
  /\ began' = now
  /\ handler' = "scan"
  /\ UNCHANGED <<now, crawler, copy, first, rows, scanned, covered, faulted>>

AllRows == {[id |-> p, last_seen |-> source[p]] : p \in {q \in Peers : source[q] # 0}}

\* Mutant: the cutoff without the slack.
RowsOfOnePeriod == {r \in AllRows : r.last_seen + Period > began}

\* The statement: last_seen > now - (update_time + 60).
RecentRows == {r \in AllRows : r.last_seen + Period + Slack > began}

Collect(found) ==
  /\ rows' = found
  /\ handler' = "copy"
  /\ scanned' = source
  /\ delay' = 0
  /\ began' = 0
  /\ UNCHANGED <<now, sightings, source, copy, first, nextTick, faulted>>

ScanAll ==
  /\ handler = "scan" /\ first
  /\ Collect(AllRows)
  /\ covered' = TRUE

\* How long after its deadline the sync took the time.
Late == (began + Period) - nextTick

ScanActive ==
  /\ handler = "scan" /\ ~first /\ "runs" \in ActiveQuery
  /\ Collect(RecentRows)
  /\ covered' = (covered /\ delay + Late < Slack)

\* The error leaves db_sync, the loop and, through try_join!, the server.
Die ==
  /\ handler' = "dead"
  /\ rows' = {}
  /\ began' = 0
  /\ UNCHANGED <<now, crawler, copy, first, nextTick, scanned, covered>>

ActiveQueryFails ==
  /\ handler = "scan" /\ ~first /\ "fails" \in ActiveQuery
  /\ Die
  /\ UNCHANGED faulted

CopyRow(r) ==
  /\ handler = "copy"
  /\ r \in rows
  /\ rows' = rows \ {r}
  /\ copy' = [copy EXCEPT ![r.id] = r.last_seen]
  /\ UNCHANGED <<now, crawler, handler, first, nextTick, began, scanned, covered, faulted>>

\* Mutant: a sync ends with the rows it has got to.
FinishEarly ==
  /\ handler = "copy"
  /\ handler' = "tick"
  /\ first' = FALSE
  /\ UNCHANGED <<now, crawler, copy, nextTick, began, rows, scanned, covered, faulted>>

Finish ==
  /\ handler = "copy"
  /\ rows = {}
  /\ handler' = "tick"
  /\ first' = FALSE
  /\ UNCHANGED <<now, crawler, copy, nextTick, began, rows, scanned, covered, faulted>>

\* A connection, the scan or the write of a row fails: the rows copied stay.
DatabaseFails ==
  /\ handler \in {"scan", "copy"}
  /\ Die
  /\ faulted' = TRUE

\* External: the operator starts the server again.
Restart ==
  /\ handler = "dead"
  /\ handler' = "tick"
  /\ first' = TRUE
  /\ nextTick' = now
  /\ faulted' = FALSE
  /\ UNCHANGED <<now, crawler, copy, began, rows, scanned, covered>>

-----------------------------------------------------------------------------
Next ==
  \/ \E p \in Peers : See(p)
  \/ \E s \in sightings : Save(s)
  \/ Pass
  \/ Tick
  \/ ScanAll
  \/ ScanActive
  \/ ActiveQueryFails
  \/ \E r \in rows : CopyRow(r)
  \/ Finish
  \/ DatabaseFails
  \/ Restart

Spec == Init /\ [][Next]_vars

-----------------------------------------------------------------------------
(* Properties                                                              *)

\* Between two syncs the API server has exactly the rows that the crawler had at
\* the last scan, although a sync copies only the recent ones, also after a sync that
\* failed halfway and a restart: as long as, at every sync since the last whole scan,
\* the wait of the slowest row written since the scan before and the sync's own
\* lateness were together shorter than the slack.  Nothing in the code limits either,
\* and beyond that rows are missed for good.
CopyComplete == handler = "tick" /\ ~first /\ covered => copy = scanned

\* A sync that copies only the recent rows copies the source as it was at its scan:
\* the rows it leaves out are those the API server has already, while the slack covers
\* what is late.  A sync that it does not cover leaves no snapshot.
CopyStatus ==
  IF handler = "copy" THEN "copying"
  ELSE IF handler = "dead" \/ first \/ ~covered THEN "stale" ELSE "whole"
Snapshot == IF handler = "copy" THEN scanned ELSE [p \in Peers |-> 0]
Copying == INSTANCE SnapshotCopy WITH
  Keys <- Peers, Items <- Nat \ {0}, Absent <- 0,
  origin <- source, replica <- copy, status <- CopyStatus, snapshot <- Snapshot
CopiesSnapshots == Copying!CopySpec

\* The handler keeps updating the SQLite database: it stops only if a database
\* fails.
KeepsUpdating == handler = "dead" => faulted

=============================================================================
