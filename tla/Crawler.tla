-------------------------------- MODULE Crawler --------------------------------
(***************************************************************************)
(* The crawler process, composed of what its parts promise: the listeners  *)
(* of its nodes as far as they publish sightings (PeerCatalog, which       *)
(* UpdateListener implements) and the block service they share             *)
(* (SyncOracle, which BlockHashNum implements), with the life cycle that   *)
(* CrawlerBuilder and CrawlerService give them.  The networks, discv4 and  *)
(* the block service run from the start; a node subscribes to its streams  *)
(* after a sleep of SLEEP_TIME only, and each stream ends by itself.  The  *)
(* network opens sessions and queues an event for each, which the listener *)
(* reads when it comes to it.                                              *)
(***************************************************************************)
EXTENDS Naturals, Sequences, FiniteSets

CONSTANTS
  Nodes,          \* the crawler nodes
  Records,        \* records of the peers: what the streams announce and who dials
  Peers,          \* their peer ids
  Addrs,          \* their addresses
  Versions,       \* client versions that are not empty
  Empty,          \* the empty client version
  Tasks,          \* slots for the tasks that are alive at the same time
  Capacity,       \* SYNCED_THRESHOLD
  MaxInbound,     \* max_inbound
  Base,           \* the height of the provider's tip when the crawler first starts
  MaxEvents,      \* bound on the events of the network that wait for a listener
  MaxBlocks,      \* bound on the blocks of the provider
  MaxSightings,   \* bound on the sightings
  None            \* no row, no task

ASSUME RecordAssumption == Records \subseteq [id: Peers, address: Addrs]
ASSUME CapacityAssumption == Capacity \in Nat \ {0}
ASSUME BoundAssumption == MaxBlocks \in Nat /\ Base \in Nat

VARIABLES
  running,    \* whether the process is alive
  streams,    \* the streams of every node
  sessions,   \* the inbound session each peer has with each node
  events,     \* the SessionEstablished events each listener has not read
  unseen,     \* history: sessions opened when nobody listened
  pc,         \* where each task is
  task,       \* its locals
  clock,      \* the last time stamped
  db,         \* the row of each peer id
  heights,    \* the height of every block, in the order of production
  feed,       \* announcements the StateListener has not passed on
  open,       \* whether the subscription is alive
  learned,    \* the hashes the service knows, the latest first
  query       \* the question of each task

network  == <<streams, sessions, events, unseen>>
tasks    == <<pc, task, clock, db>>
provider == <<heights, feed, open>>
oracle   == <<learned, query>>
vars     == <<running, network, tasks, provider, oracle>>

\* Block k is the k-th produced and the last one is the tip; 0 was the tip before.
Hashes == 0 .. MaxBlocks
Tip == Len(heights)
HeightOf(h) == IF h = 0 THEN Base ELSE heights[h]

\* Mutant: one slot more than the code asks for.
OneMore == Capacity + 1

Window == Capacity

Oracle == INSTANCE SyncOracle WITH Askers <- Tasks

\* start_discv4 and start_dnsdisc, which are alike here, and start_network.
Streams == {"discovery", "network"}

Clients == Versions \union {Empty}

\* What an event says of the peer that has dialled.
Event == [id: Peers, address: Addrs, client: Clients, best_block: Hashes]

\* known is history: the last block learned when last_seen was stamped, 0 for none.
Locals == [node: Nodes, id: Peers, address: Addrs, client: Clients, last_seen: Nat,
           best_block: Hashes, synced: BOOLEAN, known: Hashes]

Locations == {"idle", "contact", "session", "geo", "sync", "save"}

ASSUME NoneAssumption == None \notin Locals

TypeOK ==
  /\ running \in BOOLEAN
  /\ streams \in [Nodes -> [Streams -> {"asleep", "listening", "ended"}]]
  /\ sessions \in [Nodes -> [Peers -> {"none", "named", "anonymous", "closing"}]]
  /\ events \in [Nodes -> Seq(Event)]
  /\ unseen \in [Nodes -> SUBSET Peers]
  /\ pc \in [Tasks -> Locations]
  /\ task \in [Tasks -> Locals \union {None}]
  /\ \A t \in Tasks : pc[t] # "idle" => task[t] \in Locals
  /\ \A t \in Tasks : query[t].status # "idle" => pc[t] = "sync"
  /\ clock \in Nat
  /\ db \in [Peers -> Locals \union {None}]
  /\ heights \in Seq(Nat) /\ Tip <= MaxBlocks
  /\ feed \in Seq(1 .. Tip)
  /\ open \in BOOLEAN
  /\ learned \in Seq(1 .. Tip)
  /\ query \in [Tasks -> [status: {"idle", "asked", "answered"}, hash: Hashes, answer: BOOLEAN]]

\* What a process has when it starts.
Asleep == [n \in Nodes |-> [s \in Streams |-> "asleep"]]
NoSessions == [n \in Nodes |-> [p \in Peers |-> "none"]]
NoEvents == [n \in Nodes |-> <<>>]

Init ==
  /\ running = TRUE
  /\ streams = Asleep
  /\ sessions = NoSessions
  /\ events = NoEvents
  /\ unseen = [n \in Nodes |-> {}]
  /\ pc = [t \in Tasks |-> "idle"]
  /\ task = [t \in Tasks |-> None]
  /\ clock = 0
  /\ db = [p \in Peers |-> None]
  /\ heights = <<>>
  /\ feed = <<>>
  /\ open = TRUE
  /\ Oracle!OracleInit

-----------------------------------------------------------------------------
(* The life cycle                                                          *)

\* The sleep is over and the stream is subscribed to.
Subscribe(n, s) ==
  /\ streams[n][s] = "asleep"
  /\ streams' = [streams EXCEPT ![n][s] = "listening"]
  /\ UNCHANGED <<running, sessions, events, unseen, tasks, provider, oracle>>

\* The subscription fails or the stream ends, read to its last event: join! lets the
\* others go on.
StreamEnds(n, s) ==
  /\ streams[n][s] # "ended"
  /\ s = "network" => events[n] = <<>>
  /\ streams' = [streams EXCEPT ![n][s] = "ended"]
  /\ UNCHANGED <<running, sessions, events, unseen, tasks, provider, oracle>>

\* The process is stopped, or run() and main return since everything joined has
\* ended: all that is left is the database.
Exit ==
  /\ running' = FALSE
  /\ streams' = Asleep
  /\ sessions' = NoSessions
  /\ events' = NoEvents
  /\ unseen' = [n \in Nodes |-> {}]
  /\ pc' = [t \in Tasks |-> "idle"]
  /\ task' = [t \in Tasks |-> None]
  /\ feed' = <<>>
  /\ open' = FALSE
  /\ learned' = <<>>
  /\ query' = [t \in Tasks |-> Oracle!Idle]
  /\ UNCHANGED <<clock, db, heights>>

\* Mutant: the table is created anew.
StartAfresh ==
  /\ ~running
  /\ running' = TRUE
  /\ open' = TRUE
  /\ db' = [p \in Peers |-> None]
  /\ UNCHANGED <<network, pc, task, clock, heights, feed, oracle>>

\* The operator starts it again: new() keeps the table that exists, and the
\* subscription begins at the tip.
Start ==
  /\ ~running
  /\ running' = TRUE
  /\ open' = TRUE
  /\ UNCHANGED <<network, tasks, heights, feed, oracle>>

-----------------------------------------------------------------------------
(* The block service                                                       *)

\* External: a block of height h extends the provider's chain or begins, or goes on
\* with, a reorganisation of any depth.
\* Bound: at most MaxBlocks, and none that was reorganised away comes back.
Produce(h) ==
  /\ Tip < MaxBlocks
  /\ heights' = Append(heights, h)
  /\ feed' = IF open THEN Append(feed, Len(heights')) ELSE feed
  /\ UNCHANGED <<running, network, tasks, open, oracle>>

SubscriptionEnds ==
  /\ open
  /\ open' = FALSE
  /\ UNCHANGED <<running, network, tasks, heights, feed, oracle>>

\* The StateListener passes on the blocks in their order.
NewBlock ==
  /\ feed # <<>>
  /\ feed' = Tail(feed)
  /\ Oracle!Learn(Head(feed))
  /\ UNCHANGED <<running, network, tasks, heights, open>>

\* Mutant: the service ends with the subscription.
AnswerOpen(t) ==
  /\ open
  /\ Oracle!Answer(t)
  /\ UNCHANGED <<running, network, tasks, provider>>

\* The service answers: the instant is the one SyncOracle speaks of.
Answer(t) ==
  /\ Oracle!Answer(t)
  /\ UNCHANGED <<running, network, tasks, provider>>

-----------------------------------------------------------------------------
(* Events                                                                  *)

Hears(n, s) == streams[n][s] = "listening"

\* last_seen, best_block and synced come later.
Spawn(t, n, r, client, h, entry) ==
  /\ pc[t] = "idle"
  /\ pc' = [pc EXCEPT ![t] = entry]
  /\ task' = [task EXCEPT ![t] =
       [node |-> n, id |-> r.id, address |-> r.address, client |-> client, last_seen |-> 0,
        best_block |-> h, synced |-> FALSE, known |-> 0]]
  /\ UNCHANGED <<clock, db>>

\* discv4 announces or DNS lists a peer.
Discovered(t, n, r) ==
  /\ Hears(n, "discovery")
  /\ Spawn(t, n, r, Empty, 0, "contact")
  /\ UNCHANGED <<running, network, provider, oracle>>

\* The network accepts an inbound peer as long as it has a slot.
Establish(n, p, client) ==
  /\ sessions[n][p] = "none"
  /\ Cardinality({q \in Peers : sessions[n][q] # "none"}) < MaxInbound
  /\ sessions' = [sessions EXCEPT ![n][p] = IF client = Empty THEN "anonymous" ELSE "named"]

\* The network queues an event for the listener; nobody reads the head of a peer
\* without a client version.  Bound: at most MaxEvents wait.
SessionOpens(n, r, client, h) ==
  /\ Hears(n, "network")
  /\ h \in 0 .. Tip
  /\ Len(events[n]) < MaxEvents
  /\ Establish(n, r.id, client)
  /\ events' = [events EXCEPT ![n] = Append(@,
       [id |-> r.id, address |-> r.address, client |-> client,
        best_block |-> IF client = Empty THEN 0 ELSE h])]
  /\ UNCHANGED <<running, streams, unseen, tasks, provider, oracle>>

\* Nobody listens to the events of the network, which keeps no event for later.
SessionUnseen(n, p, client) ==
  /\ ~Hears(n, "network")
  /\ Establish(n, p, client)
  /\ unseen' = [unseen EXCEPT ![n] = @ \union {p}]
  /\ UNCHANGED <<running, streams, events, tasks, provider, oracle>>

\* start_network comes to the next event: the session may be over by now, or another
\* one of the same peer.
SessionEstablished(t, n) ==
  LET e == Head(events[n])
  IN  /\ Hears(n, "network")
      /\ events[n] # <<>>
      /\ events' = [events EXCEPT ![n] = Tail(@)]
      /\ Spawn(t, n, e, e.client, e.best_block, "session")
      /\ UNCHANGED <<running, streams, sessions, unseen, provider, oracle>>

\* The remote side hangs up, or the network closes a removed peer.
SessionClosed(n, p) ==
  /\ sessions[n][p] # "none"
  /\ sessions' = [sessions EXCEPT ![n][p] = "none"]
  /\ unseen' = [unseen EXCEPT ![n] = @ \ {p}]
  /\ UNCHANGED <<running, streams, events, tasks, provider, oracle>>

-----------------------------------------------------------------------------
(* Tasks                                                                   *)

Goto(t, from, to) ==
  /\ pc[t] = from
  /\ pc' = [pc EXCEPT ![t] = to]

Finish(t, from) ==
  /\ Goto(t, from, "idle")
  /\ task' = [task EXCEPT ![t] = None]

\* The peer is accepted: from here on the task holds a sighting.
\* Bound: at most MaxSightings.
Sight(t, from, client, h) ==
  /\ Goto(t, from, "geo")
  /\ clock < MaxSightings
  /\ client # Empty
  /\ clock' = clock + 1
  /\ task' = [task EXCEPT
       ![t].client = client,
       ![t].last_seen = clock',
       ![t].best_block = h,
       ![t].known = IF learned = <<>> THEN 0 ELSE Head(learned)]
  /\ UNCHANGED <<running, streams, events, unseen, db, provider, oracle>>

\* handshake_and_save_peer: both handshakes succeed.
Accept(t, client, h) ==
  /\ h \in 0 .. Tip
  /\ Sight(t, "contact", client, h)
  /\ UNCHANGED sessions

\* A handshake fails or the peer has no client version; the bans are UpdateListener's.
Refuse(t) ==
  /\ Finish(t, "contact")
  /\ UNCHANGED <<running, network, clock, db, provider, oracle>>

SkipSession(t) ==
  /\ Finish(t, "session")
  /\ task[t].client = Empty
  /\ UNCHANGED <<running, network, clock, db, provider, oracle>>

\* Mutant: the session is kept.
KeepPeer(n, p) == UNCHANGED sessions

RemovePeer(n, p) ==
  sessions' = [sessions EXCEPT ![n][p] = IF @ = "none" THEN "none" ELSE "closing"]

HandleSession(t) ==
  /\ Sight(t, "session", task[t].client, task[t].best_block)
  /\ RemovePeer(task[t].node, task[t].id)

\* geolocate answers or fails: either way the task goes on.
Geolocate(t) ==
  /\ Goto(t, "geo", "sync")
  /\ UNCHANGED <<running, network, task, clock, db, provider, oracle>>

\* Mutant: nobody waits for the answer.
AskOnly(t) ==
  /\ Goto(t, "sync", "save")
  /\ Oracle!Ask(t, task[t].best_block)
  /\ UNCHANGED <<running, network, task, clock, db, provider>>

\* is_synced sends its question...
AskSynced(t) ==
  /\ pc[t] = "sync"
  /\ Oracle!Ask(t, task[t].best_block)
  /\ UNCHANGED <<running, network, tasks, provider>>

\* ...and has the answer.
IsSynced(t) ==
  /\ Oracle!Return(t)
  /\ Goto(t, "sync", "save")
  /\ task' = [task EXCEPT ![t].synced = query[t].answer]
  /\ UNCHANGED <<running, network, clock, db, provider>>

SavePeer(t) ==
  /\ Finish(t, "save")
  /\ db' = [db EXCEPT ![task[t].id] = task[t]]
  /\ UNCHANGED <<running, network, clock, provider, oracle>>

\* add_peer fails: the task dies with its row.
SaveFails(t) ==
  /\ Finish(t, "save")
  /\ UNCHANGED <<running, network, clock, db, provider, oracle>>

-----------------------------------------------------------------------------
(* The specification                                                       *)

LifeCycle == Exit \/ \E n \in Nodes, s \in Streams : Subscribe(n, s) \/ StreamEnds(n, s)

BlockService == SubscriptionEnds \/ NewBlock \/ \E t \in Tasks : Answer(t)

Events ==
  \E n \in Nodes :
    \/ \E t \in Tasks, r \in Records : Discovered(t, n, r)
    \/ \E r \in Records, client \in Clients, h \in Hashes : SessionOpens(n, r, client, h)
    \/ \E t \in Tasks : SessionEstablished(t, n)
    \/ \E p \in Peers, client \in Clients : SessionUnseen(n, p, client)
    \/ \E p \in Peers : SessionClosed(n, p)

Step(t) ==
  \/ \E client \in Clients, h \in Hashes : Accept(t, client, h)
  \/ Refuse(t)
  \/ SkipSession(t)
  \/ HandleSession(t)
  \/ Geolocate(t)
  \/ AskSynced(t)
  \/ IsSynced(t)
  \/ SavePeer(t)
  \/ SaveFails(t)

Next ==
  \/ running /\ (LifeCycle \/ BlockService \/ Events \/ \E t \in Tasks : Step(t))
  \/ Start
  \/ \E h \in 0 .. HeightOf(Tip) + 1 : Produce(h)

Spec == Init /\ [][Next]_vars

\* tokio polls a task that waits for nobody but the block service, and that answers.
\* Nothing is promised of a peer, the locator or the database.
Fairness ==
  \A t \in Tasks : /\ WF_vars(running /\ (AskSynced(t) \/ IsSynced(t)))
                   /\ WF_vars(running /\ Answer(t))

FairSpec == Spec /\ Fairness

-----------------------------------------------------------------------------
(* Properties                                                              *)

\* A row that says synced carries a head that lagged less than SYNCED_THRESHOLD
\* blocks behind the last block the crawler knew when it stamped last_seen, or one that
\* is newer than that block: although the service answers later, learns blocks
\* meanwhile, of other forks too, and starts empty after a restart.
SyncedWhenSeen ==
  \A p \in Peers :
    db[p] # None /\ db[p].synced =>
      \/ db[p].best_block > db[p].known
      \/ HeightOf(db[p].known) < HeightOf(db[p].best_block) + Capacity

\* A listener gives back every inbound slot it hears of: such a session of a peer
\* with a client version is named only until the listener has come to its event and
\* the task of the event has run, although peers hang up and dial again meanwhile.
HeardSessionsDropped ==
  \A n \in Nodes, p \in Peers :
    sessions[n][p] = "named" /\ p \notin unseen[n] =>
      \/ \E k \in 1 .. Len(events[n]) : events[n][k].id = p /\ events[n][k].client # Empty
      \/ \E t \in Tasks : /\ pc[t] = "session"
                          /\ task[t].node = n /\ task[t].id = p
                          /\ task[t].client # Empty

\* A task that asks whether its peer is synced gets an answer, also before the first
\* block, after the subscription has ended and whatever the streams do.  Before that,
\* a locator that hangs keeps it for ever.
SyncedAnswered == \A t \in Tasks : pc[t] = "sync" ~> pc[t] # "sync"

\* Sightings are pending in the tasks that have stamped last_seen.
RowOf(l) == [address |-> l.address, client |-> l.client, last_seen |-> l.last_seen]
SightingOf(l) == [id |-> l.id, address |-> l.address, client |-> l.client, last_seen |-> l.last_seen]
Observers == {t \in Tasks : pc[t] \in {"geo", "sync", "save"}}
Rows == [p \in Peers |-> IF db[p] = None THEN None ELSE RowOf(db[p])]
Sightings == {SightingOf(task[t]) : t \in Observers}
Catalog == INSTANCE PeerCatalog WITH catalog <- Rows, pending <- Sightings

\* The process publishes whole sightings only, also across restarts.
PublishesSightings == Catalog!CatalogSpec

\* The warm-up initialises the block service: once it knows a block, a row that says
\* not synced carries a head at least SYNCED_THRESHOLD blocks behind that block, if not
\* one the crawler has yet to learn.
NotSyncedMeansBehind ==
  \A p \in Peers :
    db[p] # None /\ ~db[p].synced /\ db[p].known > 0 /\ db[p].best_block <= db[p].known =>
      HeightOf(db[p].best_block) + Capacity <= HeightOf(db[p].known)

=============================================================================
