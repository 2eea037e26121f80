---------------------------- MODULE UpdateListener ----------------------------
(***************************************************************************)
(* The listeners of every crawler node.  A node learns of peers from three *)
(* streams: discv4 updates, DNS node records and inbound sessions.  Each   *)
(* event spawns a task that contacts the peer (or looks at the session),   *)
(* counts failed p2p handshakes in a map shared by the node's tasks, bans  *)
(* addresses through discv4, and finally writes one row to the database    *)
(* that all the nodes share.  The network's side of a session, from its    *)
(* opening until remove_peer closes it, is in module Crawler.              *)
(*                                                                         *)
(* Tasks run in parallel on the tokio pool and give way at every await, so *)
(* a task is one step per stretch of code between two awaits or two        *)
(* accesses to shared state.                                               *)
(***************************************************************************)
EXTENDS Naturals, FiniteSets

CONSTANTS
  Nodes,            \* the UpdateListeners, one per crawler node
  Peers,            \* peer ids
  Addrs,            \* IP addresses
  Discoverable,     \* records discv4 may announce
  Listed,           \* records the DNS list publishes
  Inbound,          \* records of the peers that dial the crawler
  Versions,         \* client versions that are not empty
  Empty,            \* the empty client version
  Tasks,            \* slots for the tasks that are alive at the same time
  Threshold,        \* P2P_FAILURE_THRESHOLD
  MaxObservations,  \* bound on the peers observed in one behaviour
  None              \* absent value

Record == [id: Peers, address: Addrs]

ASSUME RecordsAssumption == Discoverable \union Listed \union Inbound \subseteq Record
ASSUME ThresholdAssumption == Threshold \in Nat \ {0}
ASSUME VersionsAssumption == Empty \notin Versions

VARIABLES
  pc,            \* where each task is
  task,          \* the locals of each task, None for a free slot
  p2p_failures,  \* the node's count of p2p failures per peer id
  updates,       \* discv4's announcements the node has not read yet
  commands,      \* ban_ip commands discv4 has not handled yet
  banned,        \* addresses discv4 has banned
  db,            \* the row of each peer id
  clock,         \* the last time stamped
  failures,      \* history: p2p failures counted so far, up to Threshold
  sinceReset,    \* history: those since the count was last reset, up to Threshold
  failedAt,      \* history: records that failed a p2p handshake
  offences,      \* history: records refused on the eth handshake or the client version
  overlapped     \* history: peer ids two counting tasks ever shared

discv4  == <<updates, commands, banned>>
store   == <<db, clock>>
history == <<failures, sinceReset, failedAt, offences, overlapped>>
vars    == <<pc, task, p2p_failures, discv4, store, history>>

-----------------------------------------------------------------------------
(* Types                                                                   *)

Locations == {"idle", "start", "p2p", "reset", "eth", "session", "geo", "sync", "save"}

\* The part of a counting task between its read of the count and its last write.
Counting == {"p2p", "reset"}

\* Locations of a task that holds a complete sighting.
Observing == {"geo", "sync", "save"}

Clients == Versions \union {Empty}

Row == [address: Addrs, client: Clients, last_seen: Nat]

Locals == [node: Nodes, peer: Record, count: Nat, client: Clients, last_seen: Nat]

TypeOK ==
  /\ pc \in [Tasks -> Locations]
  /\ task \in [Tasks -> Locals \union {None}]
  /\ \A t \in Tasks : pc[t] # "idle" => task[t] \in Locals
  /\ p2p_failures \in [Nodes -> [Peers -> 0 .. Threshold - 1]]
  /\ updates \in [Nodes -> SUBSET Record]
  /\ commands \in [Nodes -> SUBSET Addrs]
  /\ banned \in [Nodes -> SUBSET Addrs]
  /\ db \in [Peers -> Row \union {None}]
  /\ clock \in Nat
  /\ failures \in [Nodes -> [Peers -> 0 .. Threshold]]
  /\ sinceReset \in [Nodes -> [Peers -> 0 .. Threshold]]
  /\ failedAt \in [Nodes -> SUBSET Record]
  /\ offences \in [Nodes -> SUBSET Record]
  /\ overlapped \in [Nodes -> SUBSET Peers]

Init ==
  /\ pc = [t \in Tasks |-> "idle"]
  /\ task = [t \in Tasks |-> None]
  /\ p2p_failures = [n \in Nodes |-> [p \in Peers |-> 0]]
  /\ updates = [n \in Nodes |-> {}]
  /\ commands = [n \in Nodes |-> {}]
  /\ banned = [n \in Nodes |-> {}]
  /\ db = [p \in Peers |-> None]
  /\ clock = 0
  /\ failures = [n \in Nodes |-> [p \in Peers |-> 0]]
  /\ sinceReset = [n \in Nodes |-> [p \in Peers |-> 0]]
  /\ failedAt = [n \in Nodes |-> {}]
  /\ offences = [n \in Nodes |-> {}]
  /\ overlapped = [n \in Nodes |-> {}]

-----------------------------------------------------------------------------
(* Tasks                                                                   *)

Spawn(t, n, r, client, entry) ==
  /\ pc[t] = "idle"
  /\ pc' = [pc EXCEPT ![t] = entry]
  /\ task' = [task EXCEPT ![t] =
       [node |-> n, peer |-> r, count |-> 0, client |-> client, last_seen |-> 0]]

Goto(t, from, to) ==
  /\ pc[t] = from
  /\ pc' = [pc EXCEPT ![t] = to]

\* The future is dropped, on a return or on a panic.
Finish(t, from) ==
  /\ Goto(t, from, "idle")
  /\ task' = [task EXCEPT ![t] = None]

\* Bound: a peer is accepted only while the observations stay within MaxObservations.
WithinBound ==
  clock + Cardinality({t \in Tasks : pc[t] \in {"eth", "session"}}) < MaxObservations

\* Mutant: the ban is only logged.
LogBan(n, a) == UNCHANGED commands

BanIp(n, a) == commands' = [commands EXCEPT ![n] = @ \union {a}]

UpTo(limit, k) == IF k < limit THEN k ELSE limit

\* Mutant: the count is inserted only for an id that has none.
InsertFailuresOnce(n, p, k) ==
  p2p_failures' = [p2p_failures EXCEPT ![n][p] = IF @ = 0 THEN k ELSE @]

\* Mutant: the task counts on its copy and does not store it.
CountOnCopy(n, p, k) == UNCHANGED p2p_failures

SetFailures(n, p, k) == p2p_failures' = [p2p_failures EXCEPT ![n][p] = k]

\* Mutant: one failure more than the threshold.
PassedThreshold(count) == count > Threshold

\* Mutant: one failure less.
NearThreshold(count) == count + 1 >= Threshold

ReachedThreshold(count) == count >= Threshold

\* Mutant: nobody is skipped.
NeverSkipped(client) == FALSE

\* An empty client version: the peer is skipped.
Skipped(client) == client = Empty

\* Utc::now().to_string(): two stamps never coincide.
StampLastSeen(t) ==
  /\ clock' = clock + 1
  /\ task' = [task EXCEPT ![t].last_seen = clock']

-----------------------------------------------------------------------------
(* The streams                                                             *)

\* External: discv4 announces a peer whose address it has not banned.
Announce(n, r) ==
  /\ r.address \notin banned[n]
  /\ updates' = [updates EXCEPT ![n] = @ \union {r}]
  /\ UNCHANGED <<pc, task, p2p_failures, commands, banned, store, history>>

\* External: discv4 handles a ban_ip command.
HandleBan(n, a) ==
  /\ a \in commands[n]
  /\ commands' = [commands EXCEPT ![n] = @ \ {a}]
  /\ banned' = [banned EXCEPT ![n] = @ \union {a}]
  /\ UNCHANGED <<pc, task, p2p_failures, updates, store, history>>

\* start_discv4: Added and DiscoveredAtCapacity spawn a task; the loop skips other updates.
Discv4Update(t, n, r) ==
  /\ r \in updates[n]
  /\ updates' = [updates EXCEPT ![n] = @ \ {r}]
  /\ Spawn(t, n, r, Empty, "start")
  /\ UNCHANGED <<p2p_failures, commands, banned, store, history>>

\* start_dnsdisc: every record spawns a task, whatever discv4 has banned.
DnsUpdate(t, n, r) ==
  /\ Spawn(t, n, r, Empty, "start")
  /\ UNCHANGED <<p2p_failures, discv4, store, history>>

\* start_network: a SessionEstablished event, however long after the session was opened,
\* spawns a task; the loop only logs other events.
SessionEstablished(t, n, r, client) ==
  /\ WithinBound
  /\ Spawn(t, n, r, client, "session")
  /\ UNCHANGED <<p2p_failures, discv4, store, history>>

-----------------------------------------------------------------------------
(* handshake_and_save_peer                                                 *)

\* The read lock: the count this task will add one to.
ReadFailures(t) ==
  LET n == task[t].node
      p == task[t].peer.id
  IN  /\ Goto(t, "start", "p2p")
      /\ task' = [task EXCEPT ![t].count = p2p_failures[n][p]]
      /\ overlapped' = IF \E u \in Tasks \ {t} :
                             /\ pc[u] \in Counting
                             /\ task[u].node = n
                             /\ task[u].peer.id = p
                       THEN [overlapped EXCEPT ![n] = @ \union {p}]
                       ELSE overlapped
      /\ UNCHANGED <<p2p_failures, discv4, store, failures, sinceReset, failedAt, offences>>

\* The p2p handshake succeeds; the count stays what it was.
HandshakeP2pOk(t, client) ==
  /\ WithinBound
  /\ Goto(t, "p2p", "eth")
  /\ task' = [task EXCEPT ![t].client = client]
  /\ UNCHANGED <<p2p_failures, discv4, store, history>>

\* "Too many peers" is not counted.
TooManyPeers(t) ==
  /\ Finish(t, "p2p")
  /\ UNCHANGED <<p2p_failures, discv4, store, history>>

\* A failed handshake adds one to the history of its peer id.
NoteFailure(n, r) ==
  /\ failures' = [failures EXCEPT ![n][r.id] = UpTo(Threshold, @ + 1)]
  /\ sinceReset' = [sinceReset EXCEPT ![n][r.id] = UpTo(Threshold, @ + 1)]
  /\ failedAt' = [failedAt EXCEPT ![n] = @ \union {r}]

\* Any other failure below the threshold: the new count replaces the stored one.
CountFailure(t) ==
  LET n == task[t].node
      p == task[t].peer.id
      count == task[t].count + 1
  IN  /\ Finish(t, "p2p")
      /\ ~ReachedThreshold(count)
      /\ SetFailures(n, p, count)
      /\ NoteFailure(n, task[t].peer)
      /\ UNCHANGED <<discv4, store, offences, overlapped>>

\* The failure that reaches the threshold: the ban comes first, the reset later.
BanForFailures(t) ==
  LET n == task[t].node
  IN  /\ Goto(t, "p2p", "reset")
      /\ ReachedThreshold(task[t].count + 1)
      /\ BanIp(n, task[t].peer.address)
      /\ NoteFailure(n, task[t].peer)
      /\ UNCHANGED <<task, p2p_failures, updates, banned, store, offences, overlapped>>

ResetFailures(t) ==
  LET n == task[t].node
      p == task[t].peer.id
  IN  /\ Finish(t, "reset")
      /\ SetFailures(n, p, 0)
      /\ sinceReset' = [sinceReset EXCEPT ![n][p] = 0]
      /\ UNCHANGED <<discv4, store, failures, failedAt, offences, overlapped>>

\* The peer is refused for good: its address is banned and the task returns.
Refuse(t) ==
  LET n == task[t].node
  IN  /\ Finish(t, "eth")
      /\ BanIp(n, task[t].peer.address)
      /\ offences' = [offences EXCEPT ![n] = @ \union {task[t].peer}]
      /\ UNCHANGED <<p2p_failures, updates, banned, store, failures, sinceReset, failedAt, overlapped>>

HandshakeEthFails(t) == Refuse(t)

\* The eth handshake succeeds but the hello had no client version.
AnonymousHello(t) ==
  /\ Refuse(t)
  /\ Skipped(task[t].client)

\* The peer is accepted; last_seen is stamped here, before the row is complete.
HandshakeEthOk(t) ==
  /\ Goto(t, "eth", "geo")
  /\ ~Skipped(task[t].client)
  /\ StampLastSeen(t)
  /\ UNCHANGED <<p2p_failures, discv4, db, history>>

-----------------------------------------------------------------------------
(* The task of an inbound session                                          *)

\* An empty client version returns at once: the session stays open.
SkipSession(t) ==
  /\ Finish(t, "session")
  /\ Skipped(task[t].client)
  /\ UNCHANGED <<p2p_failures, discv4, store, history>>

\* remove_peer is asked for and last_seen is stamped in one stretch.
HandleSession(t) ==
  /\ Goto(t, "session", "geo")
  /\ ~Skipped(task[t].client)
  /\ StampLastSeen(t)
  /\ UNCHANGED <<p2p_failures, discv4, db, history>>

-----------------------------------------------------------------------------
(* From the sighting to the database, for both kinds of task               *)

\* Locator::get answers or fails: either way the task goes on.
Geolocate(t) ==
  /\ Goto(t, "geo", "sync")
  /\ UNCHANGED <<task, p2p_failures, discv4, store, history>>

\* is_block_hash_present answers or fails: either way the task goes on.
IsSynced(t) ==
  /\ Goto(t, "sync", "save")
  /\ UNCHANGED <<task, p2p_failures, discv4, store, history>>

\* Mutant: the upsert forgets the address column.
PeerDataKeepsAddress(t) ==
  [address   |-> IF db[task[t].peer.id] = None
                 THEN task[t].peer.address ELSE db[task[t].peer.id].address,
   client    |-> task[t].client,
   last_seen |-> task[t].last_seen]

PeerData(t) == [address   |-> task[t].peer.address,
                client    |-> task[t].client,
                last_seen |-> task[t].last_seen]

\* INSERT OR REPLACE in SQLite, ON CONFLICT DO UPDATE in PostgreSQL.
SavePeer(t) ==
  /\ Finish(t, "save")
  /\ db' = [db EXCEPT ![task[t].peer.id] = PeerData(t)]
  /\ UNCHANGED <<p2p_failures, discv4, clock, history>>

\* add_peer fails and the unwrap in save_peer panics: the task dies with its row.
SaveFails(t) ==
  /\ Finish(t, "save")
  /\ UNCHANGED <<p2p_failures, discv4, store, history>>

-----------------------------------------------------------------------------
(* The specification                                                       *)

P2pReply(t) ==
  \/ \E client \in Clients : HandshakeP2pOk(t, client)
  \/ TooManyPeers(t)
  \/ CountFailure(t)
  \/ BanForFailures(t)

EthReply(t) == HandshakeEthFails(t) \/ AnonymousHello(t) \/ HandshakeEthOk(t)

Step(t) ==
  \/ ReadFailures(t)
  \/ P2pReply(t)
  \/ ResetFailures(t)
  \/ EthReply(t)
  \/ SkipSession(t)
  \/ HandleSession(t)
  \/ Geolocate(t)
  \/ IsSynced(t)
  \/ SavePeer(t)
  \/ SaveFails(t)

Next ==
  \/ \E n \in Nodes, r \in Discoverable : Announce(n, r)
  \/ \E n \in Nodes, a \in Addrs : HandleBan(n, a)
  \/ \E t \in Tasks, n \in Nodes, r \in Discoverable : Discv4Update(t, n, r)
  \/ \E t \in Tasks, n \in Nodes, r \in Listed : DnsUpdate(t, n, r)
  \/ \E t \in Tasks, n \in Nodes, r \in Inbound, client \in Clients :
       SessionEstablished(t, n, r, client)
  \/ \E t \in Tasks : Step(t)

Spec == Init /\ [][Next]_vars

\* Code that waits for nobody: tokio polls the task until it is through.
RunsAlone(t) == ReadFailures(t) \/ ResetFailures(t) \/ SkipSession(t) \/ HandleSession(t)

(***************************************************************************)
(* Fairness.  A task that waits for nobody goes on, and discv4 drains its  *)
(* commands.  Nothing else is promised: a peer that never answers a        *)
(* handshake, a locator or a database that hangs keeps its task for ever   *)
(* (no await has a timeout here), and no new event need come.              *)
(***************************************************************************)
Fairness ==
  /\ \A t \in Tasks : WF_vars(RunsAlone(t))
  /\ \A n \in Nodes, a \in Addrs : WF_vars(HandleBan(n, a))

FairSpec == Spec /\ Fairness

-----------------------------------------------------------------------------
(* Properties                                                              *)

CountingFor(n, p) ==
  {t \in Tasks : pc[t] \in Counting /\ task[t].node = n /\ task[t].peer.id = p}

\* Every address a node bans is the address of a record that it refused on the
\* eth handshake or the client version, or of a record that failed a p2p
\* handshake and whose peer id failed Threshold of them with that node.  Stale
\* counts, lost increments and resets in between never ban on less.
Deserved(n, a) ==
  \E r \in Record :
    /\ r.address = a
    /\ \/ r \in offences[n]
       \/ r \in failedAt[n] /\ failures[n][r.id] >= Threshold
BansJustified == \A n \in Nodes : \A a \in commands[n] \union banned[n] : Deserved(n, a)

\* As long as no two tasks of a node count for the same peer id at the same
\* time, the stored count is exact: it is the number of failures since the
\* last reset, whatever the tasks of other peers and nodes do in between.
SequentialCountsExact ==
  \A n \in Nodes, p \in Peers :
    p \notin overlapped[n] /\ CountingFor(n, p) = {}
      => p2p_failures[n][p] = sinceReset[n][p]

\* As long as no two tasks count for the same peer id at the same time, an id does not
\* get past Threshold failures: by then one of the addresses where it failed is banned
\* or its ban is on its way, and no reset or other task has undone it.
SequentialFailuresBanned ==
  \A n \in Nodes, p \in Peers :
    p \notin overlapped[n] /\ failures[n][p] >= Threshold =>
      \E r \in failedAt[n] : r.id = p /\ r.address \in commands[n] \union banned[n]

\* An address whose ban is deserved by a refused record ends up banned.
OffendersBanned ==
  \A n \in Nodes, r \in Record : r \in offences[n] ~> r.address \in banned[n]

\* A peer id that keeps failing p2p handshakes with a node does not get away
\* with it: increments may be lost and the count may be written back stale, but
\* in the end one of the addresses where it failed is banned.
FailsAgain(n, p) ==
  \E t \in Tasks : /\ task[t] # None
                   /\ task[t].node = n
                   /\ task[t].peer.id = p
                   /\ CountFailure(t) \/ BanForFailures(t)
PersistentFailureBanned ==
  \A n \in Nodes, p \in Peers :
    \/ <>[][~FailsAgain(n, p)]_vars
    \/ <>(\E r \in failedAt[n] : r.id = p /\ r.address \in banned[n])

\* A peer that has been seen Threshold times failing has been banned (the
\* comment on P2P_FAILURE_THRESHOLD), except while the ban is under way.
BannedWithinThreshold ==
  \A n \in Nodes, p \in Peers :
    sinceReset[n][p] >= Threshold =>
      \E r \in failedAt[n] : r.id = p /\ r.address \in commands[n] \union banned[n]

\* last_seen is the last time the row was updated (PeerData): a write never
\* takes it back.
LastSeenNeverGoesBack ==
  [][\A p \in Peers : db[p] # None /\ db'[p] # db[p]
                        => db'[p].last_seen > db[p].last_seen]_db

-----------------------------------------------------------------------------
(* The crawler as a catalog of sightings                                   *)

SightingOf(t) == [id        |-> task[t].peer.id,
                  address   |-> task[t].peer.address,
                  client    |-> task[t].client,
                  last_seen |-> task[t].last_seen]

Sightings == {SightingOf(t) : t \in {u \in Tasks : pc[u] \in Observing}}

Catalog == INSTANCE PeerCatalog WITH catalog <- db, pending <- Sightings

\* The listeners implement the catalog: rows are whole sightings of accepted peers.
PublishesSightings == Catalog!CatalogSpec

=============================================================================
