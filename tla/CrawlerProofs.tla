----------------------------- MODULE CrawlerProofs -----------------------------
(***************************************************************************)
(* Proofs about the crawler process: what a row that says synced means,    *)
(* that inbound slots are given back, and that the process publishes whole *)
(* sightings, for all nodes, peers, tasks, capacities and bounds.          *)
(***************************************************************************)
EXTENDS Crawler, RecencyListProofs, LeastElement

-----------------------------------------------------------------------------
(* Types                                                                   *)

\* The operators of the oracle's instance are those of RecencyList.
LEMMA SameLists ==
  /\ \A s, x : Oracle!Touch(s, x) = Touch(s, x)
  /\ \A s, n : Oracle!Firsts(s, n) = Firsts(s, n)
  /\ \A s, x : Oracle!In(s, x) <=> In(s, x)
BY DEF Touch, Oracle!Touch, Slot, Oracle!Slot, In, Oracle!In, Firsts, Oracle!Firsts

Query == [status: {"idle", "asked", "answered"}, hash: Hashes, answer: BOOLEAN]

\* What a task is given is within its types.
LEMMA SpawnType ==
  ASSUME TypeOK, NEW t \in Tasks, NEW n \in Nodes, NEW r, r.id \in Peers, r.address \in Addrs,
         NEW client \in Clients, NEW h \in Hashes, NEW entry \in {"contact", "session"},
         Spawn(t, n, r, client, h, entry)
  PROVE  /\ pc' \in [Tasks -> Locations]
         /\ task' \in [Tasks -> Locals \union {None}]
         /\ \A u \in Tasks : pc'[u] # "idle" => task'[u] \in Locals
         /\ \A u \in Tasks : pc[u] = "sync" => pc'[u] = "sync"
<1> DEFINE l == [node |-> n, id |-> r.id, address |-> r.address, client |-> client,
                 last_seen |-> 0, best_block |-> h, synced |-> FALSE, known |-> 0]
<1>2. l \in Locals
  BY BoundAssumption DEF Locals, Hashes
<1> HIDE DEF l
<1>3. pc' = [pc EXCEPT ![t] = entry] /\ task' = [task EXCEPT ![t] = l] /\ pc[t] = "idle"
  BY DEF Spawn, l
<1> QED BY <1>2, <1>3 DEF TypeOK, Locations

\* The listener reads the event at the head of its queue.
LEMMA EstablishedEffect ==
  ASSUME TypeOK, NEW t \in Tasks, NEW n \in Nodes, SessionEstablished(t, n)
  PROVE  \E e \in Event :
           /\ Len(events[n]) > 0 /\ e = events[n][1]
           /\ e.id \in Peers /\ e.address \in Addrs /\ e.client \in Clients
           /\ e.best_block \in Hashes
           /\ events' = [events EXCEPT ![n] = Tail(@)] /\ events[n] \in Seq(Event)
           /\ Spawn(t, n, e, e.client, e.best_block, "session")
           /\ UNCHANGED <<running, streams, sessions, unseen, provider, oracle>>
<1>1. events[n] # <<>> /\ events[n] \in Seq(Event)
  BY DEF SessionEstablished, TypeOK
<1>2. PICK e \in Event : e = Head(events[n]) /\ e = events[n][1] /\ Len(events[n]) > 0
  BY <1>1
<1>3. /\ events' = [events EXCEPT ![n] = Tail(@)]
      /\ Spawn(t, n, e, e.client, e.best_block, "session")
      /\ UNCHANGED <<running, streams, sessions, unseen, provider, oracle>>
  BY <1>2 DEF SessionEstablished, Spawn
<1>4. /\ e.id \in Peers /\ e.address \in Addrs /\ e.client \in Clients
      /\ e.best_block \in Hashes
  BY DEF Event
<1> QED BY <1>1, <1>2, <1>3, <1>4

\* A task that has finished.
LEMMA FinishType ==
  ASSUME TypeOK, NEW t \in Tasks, NEW from \in {"contact", "session", "save"}, Finish(t, from)
  PROVE  /\ pc' \in [Tasks -> Locations]
         /\ task' \in [Tasks -> Locals \union {None}]
         /\ \A u \in Tasks : pc'[u] # "idle" => task'[u] \in Locals
         /\ \A u \in Tasks : pc[u] = "sync" => pc'[u] = "sync"
BY DEF TypeOK, Finish, Goto, Locations

\* The locals of a task that is not idle.
LEMMA TaskType ==
  ASSUME TypeOK, NEW t \in Tasks, pc[t] # "idle"
  PROVE  /\ task[t] \in Locals
         /\ task[t].node \in Nodes /\ task[t].id \in Peers /\ task[t].address \in Addrs
         /\ task[t].client \in Clients /\ task[t].last_seen \in Nat
         /\ task[t].best_block \in Hashes /\ task[t].synced \in BOOLEAN
         /\ task[t].known \in Hashes
BY DEF TypeOK, Locals

\* The latest block learned.
Known == IF learned = <<>> THEN 0 ELSE Head(learned)

\* Heights are numbers.
LEMMA HeightType ==
  ASSUME TypeOK
  PROVE  /\ \A h \in 0 .. Tip : HeightOf(h) \in Nat
         /\ Tip \in Nat
         /\ 0 .. Tip \subseteq Hashes
         /\ Known \in 0 .. Tip
<1>1. heights \in Seq(Nat) /\ Len(heights) <= MaxBlocks /\ learned \in Seq(1 .. Tip)
  BY DEF TypeOK, Tip
<1>2. Tip \in Nat /\ 0 .. Tip \subseteq Hashes
  BY <1>1, BoundAssumption DEF Tip, Hashes
<1>3. \A h \in 0 .. Tip : HeightOf(h) \in Nat
  BY <1>1, BoundAssumption DEF Tip, HeightOf
<1>4. learned # <<>> => Head(learned) \in 1 .. Tip
  <2> DEFINE S == 1 .. Tip
  <2>1. learned \in Seq(S)
    BY <1>1
  <2> HIDE DEF S
  <2>2. learned # <<>> => Head(learned) \in S
    BY <2>1
  <2> QED BY <2>2 DEF S
<1>5. Known \in 0 .. Tip
  BY <1>2, <1>4 DEF Known
<1> QED BY <1>2, <1>3, <1>5

\* What a sighting does to its task.
LEMMA SightEffect ==
  ASSUME TypeOK, NEW t \in Tasks, NEW from \in {"contact", "session"}, NEW client \in Clients,
         NEW h \in Hashes, Sight(t, from, client, h)
  PROVE  /\ pc[t] = from /\ pc' = [pc EXCEPT ![t] = "geo"]
         /\ task'[t] \in Locals
         /\ task'[t].node = task[t].node /\ task'[t].id = task[t].id
         /\ task'[t].address = task[t].address /\ task'[t].client = client
         /\ task'[t].last_seen = clock' /\ task'[t].best_block = h
         /\ task'[t].known = Known
         /\ task' \in [Tasks -> Locals \union {None}]
         /\ \A u \in Tasks \ {t} : task'[u] = task[u]
         /\ client \in Versions /\ clock' = clock + 1 /\ clock' \in Nat
         /\ UNCHANGED <<running, streams, events, unseen, db, heights, feed, open, learned, query>>
<1>1. /\ pc[t] = from /\ pc' = [pc EXCEPT ![t] = "geo"]
      /\ client \in Versions /\ clock' = clock + 1 /\ clock' \in Nat
      /\ UNCHANGED <<running, streams, events, unseen, db, heights, feed, open, learned, query>>
  BY DEF Sight, Goto, Clients, provider, oracle, TypeOK
<1>2. task[t] \in Locals
  BY <1>1, TaskType
<1>3. Known \in Hashes
  BY HeightType
<1>4. task' = [task EXCEPT ![t].client = client, ![t].last_seen = clock',
                           ![t].best_block = h, ![t].known = Known]
  BY DEF Sight, Known
<1> HIDE DEF Known
<1>5. /\ task'[t] \in Locals
      /\ task'[t].node = task[t].node /\ task'[t].id = task[t].id
      /\ task'[t].address = task[t].address /\ task'[t].client = client
      /\ task'[t].last_seen = clock' /\ task'[t].best_block = h
      /\ task'[t].known = Known
      /\ \A u \in Tasks \ {t} : task'[u] = task[u]
  BY <1>1, <1>2, <1>3, <1>4 DEF TypeOK, Locals
<1>6. task' \in [Tasks -> Locals \union {None}]
  BY <1>4, <1>5 DEF TypeOK
<1> QED BY <1>1, <1>5, <1>6

\* What an answer does to its task.
LEMMA IsSyncedEffect ==
  ASSUME TypeOK, NEW t \in Tasks, IsSynced(t)
  PROVE  /\ pc[t] = "sync" /\ pc' = [pc EXCEPT ![t] = "save"]
         /\ task'[t] \in Locals
         /\ task'[t].node = task[t].node /\ task'[t].id = task[t].id
         /\ task'[t].address = task[t].address /\ task'[t].client = task[t].client
         /\ task'[t].last_seen = task[t].last_seen
         /\ task'[t].best_block = task[t].best_block /\ task'[t].known = task[t].known
         /\ task'[t].synced = query[t].answer
         /\ task' \in [Tasks -> Locals \union {None}]
         /\ \A u \in Tasks \ {t} : task'[u] = task[u]
         /\ query[t].status = "answered" /\ query' = [query EXCEPT ![t] = Oracle!Idle]
         /\ UNCHANGED <<running, streams, sessions, events, unseen, clock, db, heights, feed, open, learned>>
<1>1. /\ pc[t] = "sync" /\ pc' = [pc EXCEPT ![t] = "save"]
      /\ query[t].status = "answered" /\ query' = [query EXCEPT ![t] = Oracle!Idle]
      /\ UNCHANGED <<running, streams, sessions, events, unseen, clock, db, heights, feed, open, learned>>
  BY DEF IsSynced, Goto, Oracle!Return, network, provider
<1>2. task[t] \in Locals
  BY <1>1, TaskType
<1>3. task' = [task EXCEPT ![t].synced = query[t].answer] /\ query[t].answer \in BOOLEAN
  BY DEF IsSynced, TypeOK
<1>4. /\ task'[t] \in Locals
      /\ task'[t].node = task[t].node /\ task'[t].id = task[t].id
      /\ task'[t].address = task[t].address /\ task'[t].client = task[t].client
      /\ task'[t].last_seen = task[t].last_seen
      /\ task'[t].best_block = task[t].best_block /\ task'[t].known = task[t].known
      /\ task'[t].synced = query[t].answer
      /\ \A u \in Tasks \ {t} : task'[u] = task[u]
  BY <1>2, <1>3 DEF TypeOK, Locals
<1>5. task' \in [Tasks -> Locals \union {None}]
  BY <1>3, <1>4 DEF TypeOK
<1> QED BY <1>1, <1>4, <1>5

\* The initial state.
LEMMA TypeOKInit == Init => TypeOK
<1> SUFFICES ASSUME Init PROVE TypeOK
  OBVIOUS
<1>1. heights = <<>> /\ Tip = 0 /\ feed = <<>> /\ learned = <<>>
  BY DEF Init, Tip, Oracle!OracleInit
<1>2. \A S : <<>> \in Seq(S)
  OBVIOUS
<1>3. Oracle!Idle \in Query /\ Oracle!Idle.status = "idle"
  BY BoundAssumption DEF Oracle!Idle, Query, Hashes
<1>4. query = [t \in Tasks |-> Oracle!Idle]
  BY DEF Init, Oracle!OracleInit
<1> QED BY <1>1, <1>2, <1>3, <1>4, BoundAssumption
        DEF Init, TypeOK, Asleep, NoSessions, NoEvents, Streams, Query, Locations

\* The parts of TypeOK.
TasksOK ==
  /\ pc \in [Tasks -> Locations]
  /\ task \in [Tasks -> Locals \union {None}]
  /\ \A t \in Tasks : pc[t] # "idle" => task[t] \in Locals
  /\ query \in [Tasks -> Query]
  /\ \A t \in Tasks : query[t].status # "idle" => pc[t] = "sync"
  /\ clock \in Nat
  /\ db \in [Peers -> Locals \union {None}]
BlocksOK ==
  /\ heights \in Seq(Nat) /\ Tip <= MaxBlocks
  /\ feed \in Seq(1 .. Tip)
  /\ open \in BOOLEAN
  /\ learned \in Seq(1 .. Tip)
NetworkOK ==
  /\ running \in BOOLEAN
  /\ streams \in [Nodes -> [Streams -> {"asleep", "listening", "ended"}]]
  /\ sessions \in [Nodes -> [Peers -> {"none", "named", "anonymous", "closing"}]]
  /\ events \in [Nodes -> Seq(Event)]
  /\ unseen \in [Nodes -> SUBSET Peers]

Parts == TasksOK /\ BlocksOK /\ NetworkOK

LEMMA TypeParts == TypeOK <=> Parts
BY DEF Parts, TypeOK, TasksOK, BlocksOK, NetworkOK, Query

\* Steps that leave the blocks or the network alone.
LEMMA BlocksKept ==
  ASSUME BlocksOK, UNCHANGED <<heights, feed, open, learned>>
  PROVE  BlocksOK'
BY DEF BlocksOK, Tip

LEMMA NetworkKept ==
  ASSUME NetworkOK, UNCHANGED <<running, streams, sessions, events, unseen>>
  PROVE  NetworkOK'
BY DEF NetworkOK

LEMMA TasksKept ==
  ASSUME TasksOK, UNCHANGED <<pc, task, query, clock, db>>
  PROVE  TasksOK'
BY DEF TasksOK

\* Every step keeps the types.
LEMMA TypeOKNext == TypeOK /\ [Next]_vars => TypeOK'
<1> SUFFICES ASSUME TypeOK, [Next]_vars PROVE Parts'
  BY DEF Parts, TypeOK, TasksOK, BlocksOK, NetworkOK, Query
<1>0. TasksOK /\ BlocksOK /\ NetworkOK
  BY TypeParts DEF Parts
<1> USE DEF network, tasks, provider, oracle
<1>q. Oracle!Idle \in Query /\ Oracle!Idle.status = "idle"
  BY BoundAssumption DEF Oracle!Idle, Query, Hashes
<1>1. CASE Exit
  <2>1. TasksOK'
    BY <1>0, <1>1, <1>q DEF Exit, TasksOK, Locations
  <2>2. BlocksOK'
    <3>1. \A S : <<>> \in Seq(S)
      OBVIOUS
    <3> QED BY <1>0, <1>1, <3>1 DEF Exit, BlocksOK, Tip
  <2>3. NetworkOK'
    <3>1. \A S : <<>> \in Seq(S)
      OBVIOUS
    <3> QED BY <1>1, <3>1 DEF Exit, NetworkOK, Asleep, NoSessions, NoEvents, Streams
  <2> QED BY <2>1, <2>2, <2>3 DEF Parts
<1>2. ASSUME NEW n \in Nodes, NEW s \in Streams, Subscribe(n, s) \/ StreamEnds(n, s)
      PROVE  Parts'
  <2>1. TasksOK' /\ BlocksOK'
    BY <1>0, <1>2, TasksKept, BlocksKept DEF Subscribe, StreamEnds
  <2>2. NetworkOK'
    <3>1. /\ UNCHANGED <<running, sessions, events, unseen>>
          /\ \/ streams' = [streams EXCEPT ![n][s] = "listening"]
             \/ streams' = [streams EXCEPT ![n][s] = "ended"]
      BY <1>2 DEF Subscribe, StreamEnds
    <3>2. \A v \in {"listening", "ended"} :
            [streams EXCEPT ![n][s] = v] \in
              [Nodes -> [Streams -> {"asleep", "listening", "ended"}]]
      BY <1>0 DEF NetworkOK
    <3> QED BY <1>0, <3>1, <3>2 DEF NetworkOK
  <2> QED BY <2>1, <2>2 DEF Parts
<1>3. CASE SubscriptionEnds
  <2>1. TasksOK' /\ NetworkOK'
    BY <1>0, <1>3, TasksKept, NetworkKept DEF SubscriptionEnds
  <2>2. BlocksOK'
    BY <1>0, <1>3 DEF SubscriptionEnds, BlocksOK, Tip
  <2> QED BY <2>1, <2>2 DEF Parts
<1>4. CASE NewBlock
  <2>1. /\ feed # <<>> /\ feed' = Tail(feed) /\ learned' = Touch(learned, Head(feed))
        /\ UNCHANGED <<running, network, tasks, heights, open, query>>
    BY <1>4, SameLists DEF NewBlock, Oracle!Learn
  <2>2. TasksOK' /\ NetworkOK'
    BY <1>0, <2>1, TasksKept, NetworkKept
  <2>3. BlocksOK'
    <3> DEFINE S == 1 .. Tip
    <3>1. feed \in Seq(S) /\ learned \in Seq(S)
      BY <1>0 DEF BlocksOK
    <3> HIDE DEF S
    <3>2. Tail(feed) \in Seq(S) /\ Head(feed) \in S
      BY <2>1, <3>1
    <3>3. Touch(learned, Head(feed)) \in Seq(S)
      BY <3>1, <3>2, TouchType
    <3>4. feed' \in Seq(S) /\ learned' \in Seq(S)
      BY <2>1, <3>2, <3>3
    <3> QED BY <1>0, <2>1, <3>4 DEF BlocksOK, Tip, S
  <2> QED BY <2>2, <2>3 DEF Parts
<1>5. ASSUME NEW t \in Tasks, Answer(t) PROVE Parts'
  <2>1. /\ query[t].status = "asked"
        /\ query' = [query EXCEPT ![t] = Oracle!Answered(
                       Oracle!In(Oracle!Firsts(learned, Window), query[t].hash))]
        /\ UNCHANGED <<running, network, tasks, provider, learned>>
    BY <1>5 DEF Answer, Oracle!Answer
  <2>3. \A b \in BOOLEAN : Oracle!Answered(b) \in Query
    BY BoundAssumption DEF Oracle!Answered, Query, Hashes
  <2>4. Oracle!In(Oracle!Firsts(learned, Window), query[t].hash) \in BOOLEAN
    BY DEF Oracle!In
  <2>5. TasksOK'
    BY <1>0, <2>1, <2>3, <2>4 DEF TasksOK
  <2> QED BY <1>0, <2>1, <2>5, BlocksKept, NetworkKept DEF Parts
<1>6. ASSUME NEW n \in Nodes, NEW t \in Tasks, NEW r \in Records, Discovered(t, n, r)
      PROVE  Parts'
  <2>1. /\ Spawn(t, n, r, Empty, 0, "contact") /\ Empty \in Clients /\ 0 \in Hashes
        /\ UNCHANGED <<running, network, provider, oracle>>
    BY <1>6, BoundAssumption DEF Discovered, Clients, Hashes
  <2>2. r.id \in Peers /\ r.address \in Addrs
    BY RecordAssumption
  <2>3. TasksOK'
    BY <1>0, <2>1, <2>2, SpawnType DEF Spawn, TasksOK
  <2> QED BY <1>0, <2>1, <2>3, BlocksKept, NetworkKept DEF Parts
<1>7. ASSUME NEW n \in Nodes, NEW t \in Tasks, SessionEstablished(t, n) PROVE Parts'
  <2>1. PICK e \in Event :
          /\ Len(events[n]) > 0
          /\ e.id \in Peers /\ e.address \in Addrs /\ e.client \in Clients
          /\ e.best_block \in Hashes
          /\ events' = [events EXCEPT ![n] = Tail(@)] /\ events[n] \in Seq(Event)
          /\ Spawn(t, n, e, e.client, e.best_block, "session")
          /\ UNCHANGED <<running, streams, sessions, unseen, provider, oracle>>
    BY <1>7, EstablishedEffect
  <2>2. Tail(events[n]) \in Seq(Event)
    BY <2>1
  <2>4. TasksOK'
    BY <1>0, <2>1, SpawnType DEF Spawn, TasksOK
  <2>5. NetworkOK'
    BY <1>0, <2>1, <2>2 DEF NetworkOK
  <2> QED BY <1>0, <2>1, <2>4, <2>5, BlocksKept DEF Parts
<1>21. ASSUME NEW n \in Nodes, NEW r \in Records, NEW client \in Clients, NEW h \in Hashes,
              SessionOpens(n, r, client, h)
       PROVE  Parts'
  <2> DEFINE e == [id |-> r.id, address |-> r.address, client |-> client,
                   best_block |-> IF client = Empty THEN 0 ELSE h]
  <2>1. /\ events' = [events EXCEPT ![n] = Append(@, e)] /\ Establish(n, r.id, client)
        /\ UNCHANGED <<running, streams, unseen, tasks, provider, oracle>>
    BY <1>21 DEF SessionOpens
  <2>2. e \in Event
    BY RecordAssumption, BoundAssumption DEF Event, Hashes
  <2> HIDE DEF e
  <2>3. TasksOK' /\ BlocksOK'
    BY <1>0, <2>1, TasksKept, BlocksKept
  <2>4. NetworkOK'
    <3>1. events' \in [Nodes -> Seq(Event)]
      BY <1>0, <2>1, <2>2 DEF NetworkOK
    <3>2. sessions' \in [Nodes -> [Peers -> {"none", "named", "anonymous", "closing"}]]
      BY <1>0, <2>1 DEF Establish, NetworkOK
    <3> QED BY <1>0, <2>1, <3>1, <3>2 DEF NetworkOK
  <2> QED BY <2>3, <2>4 DEF Parts
<1>8. ASSUME NEW n \in Nodes, NEW p \in Peers, NEW client \in Clients, SessionUnseen(n, p, client)
      PROVE  Parts'
  <2>1. TasksOK' /\ BlocksOK'
    BY <1>0, <1>8, TasksKept, BlocksKept DEF SessionUnseen
  <2>2. NetworkOK'
    BY <1>0, <1>8 DEF SessionUnseen, Establish, NetworkOK
  <2> QED BY <2>1, <2>2 DEF Parts
<1>9. ASSUME NEW n \in Nodes, NEW p \in Peers, SessionClosed(n, p) PROVE Parts'
  <2>1. TasksOK' /\ BlocksOK'
    BY <1>0, <1>9, TasksKept, BlocksKept DEF SessionClosed
  <2>2. NetworkOK'
    BY <1>0, <1>9 DEF SessionClosed, NetworkOK
  <2> QED BY <2>1, <2>2 DEF Parts
<1>10. ASSUME NEW t \in Tasks, NEW client \in Clients, NEW h \in Hashes, Accept(t, client, h)
       PROVE  Parts'
  <2>1. Sight(t, "contact", client, h) /\ sessions' = sessions
    BY <1>10 DEF Accept
  <2>2. TasksOK'
    BY <1>0, <2>1, SightEffect DEF TasksOK, Locations
  <2> QED BY <1>0, <2>1, <2>2, SightEffect, BlocksKept, NetworkKept DEF Parts
<1>11. ASSUME NEW t \in Tasks, NEW from \in {"contact", "session", "save"}, Finish(t, from),
              UNCHANGED <<running, network, clock, provider, oracle>>, db' = db
       PROVE  Parts'
  <2>1. TasksOK'
    BY <1>0, <1>11, FinishType DEF TasksOK
  <2> QED BY <1>0, <1>11, <2>1, BlocksKept, NetworkKept DEF Parts
<1>12. ASSUME NEW t \in Tasks, HandleSession(t) PROVE Parts'
  <2>1. /\ Sight(t, "session", task[t].client, task[t].best_block)
        /\ RemovePeer(task[t].node, task[t].id)
        /\ pc[t] = "session"
    BY <1>12 DEF HandleSession, Sight, Goto
  <2>2. task[t].client \in Clients /\ task[t].best_block \in Hashes
    BY <2>1, TaskType
  <2>3. TasksOK'
    BY <1>0, <2>1, <2>2, SightEffect DEF TasksOK, Locations
  <2>4. /\ UNCHANGED <<running, streams, events, unseen, heights, feed, open, learned>>
        /\ BlocksOK'
    BY <1>0, <2>1, <2>2, SightEffect, BlocksKept
  <2>5. NetworkOK'
    BY <1>0, <2>1, <2>4 DEF RemovePeer, NetworkOK
  <2> QED BY <2>3, <2>4, <2>5 DEF Parts
<1>22. ASSUME NEW t \in Tasks, Geolocate(t) PROVE Parts'
  <2>1. /\ pc[t] = "geo" /\ pc' = [pc EXCEPT ![t] = "sync"]
        /\ UNCHANGED <<running, network, task, clock, db, provider, oracle>>
    BY <1>22 DEF Geolocate, Goto
  <2>2. TasksOK'
    BY <1>0, <2>1 DEF TasksOK, Locations
  <2> QED BY <1>0, <2>1, <2>2, BlocksKept, NetworkKept DEF Parts
<1>13. ASSUME NEW t \in Tasks, AskSynced(t) PROVE Parts'
  <2>1. /\ pc[t] = "sync" /\ query' = [query EXCEPT ![t] = Oracle!Asked(task[t].best_block)]
        /\ UNCHANGED <<running, network, tasks, provider, learned>>
    BY <1>13 DEF AskSynced, Oracle!Ask
  <2>2. Oracle!Asked(task[t].best_block) \in Query
    BY <2>1, TaskType DEF Oracle!Asked, Query
  <2>3. TasksOK'
    BY <1>0, <2>1, <2>2 DEF TasksOK
  <2> QED BY <1>0, <2>1, <2>3, BlocksKept, NetworkKept DEF Parts
<1>14. ASSUME NEW t \in Tasks, IsSynced(t) PROVE Parts'
  <2>1. TasksOK'
    BY <1>0, <1>14, <1>q, IsSyncedEffect DEF TasksOK, Locations
  <2> QED BY <1>0, <1>14, <2>1, IsSyncedEffect, BlocksKept, NetworkKept DEF Parts
<1>15. ASSUME NEW t \in Tasks, SavePeer(t) PROVE Parts'
  <2>1. /\ Finish(t, "save") /\ db' = [db EXCEPT ![task[t].id] = task[t]] /\ pc[t] = "save"
        /\ UNCHANGED <<running, network, clock, provider, oracle>>
    BY <1>15 DEF SavePeer, Finish, Goto
  <2>2. task[t] \in Locals
    BY <2>1, TaskType
  <2>3. TasksOK'
    BY <1>0, <2>1, <2>2, FinishType DEF TasksOK
  <2> QED BY <1>0, <2>1, <2>3, BlocksKept, NetworkKept DEF Parts
<1>16. CASE Start
  <2>1. TasksOK'
    BY <1>0, <1>16, TasksKept DEF Start
  <2>2. BlocksOK' /\ NetworkOK'
    BY <1>0, <1>16 DEF Start, BlocksOK, NetworkOK, Tip
  <2> QED BY <2>1, <2>2 DEF Parts
<1>17. ASSUME NEW h \in 0 .. HeightOf(Tip) + 1, Produce(h) PROVE Parts'
  <2>1. TasksOK' /\ NetworkOK'
    BY <1>0, <1>17, TasksKept, NetworkKept DEF Produce
  <2>2. h \in Nat /\ Tip \in Nat
    BY HeightType
  <2>3. /\ heights' \in Seq(Nat) /\ Tip' = Tip + 1 /\ Tip' <= MaxBlocks
    BY <1>0, <1>17, <2>2, BoundAssumption DEF Produce, BlocksOK, Tip
  <2>4. \A s \in Seq(1 .. Tip) : s \in Seq(1 .. Tip') /\ Append(s, Tip') \in Seq(1 .. Tip')
    BY <2>2, <2>3
  <2>5. /\ feed' = IF open THEN Append(feed, Tip') ELSE feed
        /\ learned' = learned /\ open' = open
    BY <1>17 DEF Produce, Tip
  <2>6. feed' \in Seq(1 .. Tip') /\ learned' \in Seq(1 .. Tip')
    BY <1>0, <2>4, <2>5 DEF BlocksOK
  <2>7. BlocksOK'
    BY <1>0, <2>3, <2>5, <2>6 DEF BlocksOK
  <2> QED BY <2>1, <2>7 DEF Parts
<1>18. CASE UNCHANGED vars
  BY <1>0, <1>18, TasksKept, BlocksKept, NetworkKept DEF vars, Parts
<1>19. ASSUME NEW t \in Tasks, Step(t) PROVE Parts'
  BY <1>19, <1>10, <1>11, <1>12, <1>13, <1>14, <1>15, <1>22
  DEF Step, Refuse, SkipSession, SaveFails
<1>20. CASE Events
  BY <1>20, <1>6, <1>7, <1>8, <1>9, <1>21 DEF Events
<1> QED
  BY <1>1, <1>2, <1>3, <1>4, <1>5, <1>16, <1>17, <1>18, <1>19, <1>20
  DEF Next, LifeCycle, BlockService

\* The variables of the process keep their types.
THEOREM TypeCorrect == Spec => []TypeOK
BY TypeOKInit, TypeOKNext, PTL DEF Spec

-----------------------------------------------------------------------------
(* What synced means                                                       *)

\* A block is at most one higher than the one before it.
Chain == \A k \in 1 .. Tip : HeightOf(k) <= HeightOf(k - 1) + 1

\* What the service has learned and what is on its way are consecutive blocks.
Contiguous ==
  /\ \A i \in 1 .. Len(learned) : learned[i] + i = learned[1] + 1
  /\ \A i \in 1 .. Len(feed) : feed[i] + 1 = feed[1] + i
  /\ Len(learned) > 0 /\ Len(feed) > 0 => feed[1] = learned[1] + 1
  /\ open /\ Len(feed) > 0 => feed[Len(feed)] = Tip
  /\ open /\ Len(feed) = 0 /\ Len(learned) > 0 => learned[1] = Tip

\* A process that is down has none of them.
Down == ~running => ~open /\ Len(feed) = 0 /\ Len(learned) = 0

BlocksInv == Chain /\ Contiguous /\ Down

LEMMA BlocksInit == Init => BlocksInv
<1> SUFFICES ASSUME Init PROVE BlocksInv
  OBVIOUS
<1>1. Len(heights) = 0 /\ Len(feed) = 0 /\ Len(learned) = 0
  BY DEF Init, Oracle!OracleInit
<1> QED BY <1>1 DEF Init, BlocksInv, Chain, Contiguous, Down, Tip

\* Steps that leave the blocks alone.
LEMMA BlocksInvKept ==
  ASSUME BlocksInv, UNCHANGED <<running, heights, feed, open, learned>>
  PROVE  BlocksInv'
BY DEF BlocksInv, Chain, Contiguous, Down, Tip, HeightOf

\* The steps that do not.
LEMMA BlocksSteps ==
  ASSUME TypeOK, [Next]_vars
  PROVE  \/ UNCHANGED <<running, heights, feed, open, learned>>
         \/ Exit \/ Start \/ SubscriptionEnds \/ NewBlock
         \/ \E h \in 0 .. HeightOf(Tip) + 1 : Produce(h)
<1> USE DEF network, tasks, provider, oracle
<1>1. ASSUME NEW t \in Tasks, Step(t) PROVE UNCHANGED <<running, heights, feed, open, learned>>
  <2>1. ASSUME NEW client \in Clients, NEW h \in Hashes, Accept(t, client, h)
        PROVE  UNCHANGED <<running, heights, feed, open, learned>>
    BY <2>1 DEF Accept, Sight
  <2>2. CASE Refuse(t) \/ SkipSession(t) \/ SavePeer(t) \/ SaveFails(t) \/ Geolocate(t)
    BY <2>2 DEF Refuse, SkipSession, SavePeer, SaveFails, Geolocate
  <2>3. CASE HandleSession(t)
    BY <2>3 DEF HandleSession, Sight
  <2>4. CASE AskSynced(t) \/ IsSynced(t)
    BY <2>4 DEF AskSynced, IsSynced, Oracle!Ask, Oracle!Return
  <2> QED BY <1>1, <2>1, <2>2, <2>3, <2>4 DEF Step
<1>2. CASE Events
  <2>1. ASSUME NEW n \in Nodes, NEW t \in Tasks, SessionEstablished(t, n)
        PROVE  UNCHANGED <<running, heights, feed, open, learned>>
    BY <2>1 DEF SessionEstablished
  <2>2. ASSUME NEW n \in Nodes, NEW t \in Tasks, NEW r \in Records, Discovered(t, n, r)
        PROVE  UNCHANGED <<running, heights, feed, open, learned>>
    BY <2>2 DEF Discovered
  <2>3. ASSUME NEW n \in Nodes, NEW r \in Records, NEW client \in Clients, NEW h \in Hashes,
               SessionOpens(n, r, client, h)
        PROVE  UNCHANGED <<running, heights, feed, open, learned>>
    BY <2>3 DEF SessionOpens
  <2>4. ASSUME NEW n \in Nodes, NEW p \in Peers,
               SessionClosed(n, p) \/ \E client \in Clients : SessionUnseen(n, p, client)
        PROVE  UNCHANGED <<running, heights, feed, open, learned>>
    BY <2>4 DEF SessionUnseen, SessionClosed
  <2> QED BY <1>2, <2>1, <2>2, <2>3, <2>4 DEF Events
<1>3. CASE UNCHANGED vars
  BY <1>3 DEF vars
<1>4. CASE LifeCycle
  BY <1>4 DEF LifeCycle, Subscribe, StreamEnds
<1>5. CASE BlockService
  BY <1>5 DEF BlockService, Answer, Oracle!Answer
<1> QED BY <1>1, <1>2, <1>3, <1>4, <1>5 DEF Next

\* From one block to a later one the height grows by no more than the blocks between.
LEMMA Rising ==
  ASSUME TypeOK, Chain, NEW j \in 0 .. Tip, NEW k \in 0 .. Tip, j <= k
  PROVE  HeightOf(k) <= HeightOf(j) + (k - j)
<1> DEFINE T == {n \in j .. Tip : ~(HeightOf(n) <= HeightOf(j) + (n - j))}
<1>1. \A h \in 0 .. Tip : HeightOf(h) \in Nat
  BY HeightType
<1>2. Tip \in Nat
  BY HeightType
<1>3. SUFFICES ASSUME T # {} PROVE FALSE
  BY <1>2
<1>4. T \subseteq Nat
  BY <1>2
<1>5. PICK n \in T : \A m \in T : n <= m
  <2> HIDE DEF T
  <2> QED BY <1>3, <1>4, LeastNatural
<1>6. n # j
  BY <1>1, <1>2, <1>5
<1>7. n - 1 \in j .. Tip /\ n - 1 \notin T
  BY <1>2, <1>5, <1>6
<1>8. HeightOf(n - 1) <= HeightOf(j) + (n - 1 - j)
  BY <1>7
<1>9. HeightOf(n) <= HeightOf(n - 1) + 1
  BY <1>2, <1>5, <1>6 DEF Chain
<1>10. /\ HeightOf(j) \in Nat /\ HeightOf(n - 1) \in Nat /\ HeightOf(n) \in Nat
       /\ n \in Nat /\ j \in Nat
  BY <1>1, <1>2, <1>5, <1>7
<1> QED BY <1>5, <1>8, <1>9, <1>10

\* Every step keeps the blocks consecutive.
LEMMA BlocksInvNext ==
  ASSUME TypeOK, BlocksInv, [Next]_vars
  PROVE  BlocksInv'
<1>0. /\ heights \in Seq(Nat) /\ Len(heights) = Tip /\ Tip \in Nat
      /\ feed \in Seq(1 .. Tip) /\ learned \in Seq(1 .. Tip)
  BY HeightType DEF TypeOK, Tip
<1>1. /\ Len(feed) \in Nat /\ Len(learned) \in Nat
      /\ \A i \in 1 .. Len(feed) : feed[i] \in 1 .. Tip
      /\ \A i \in 1 .. Len(learned) : learned[i] \in 1 .. Tip
  BY <1>0
<1>2. Chain /\ Contiguous /\ Down
  BY DEF BlocksInv
<1>3. ASSUME heights' = heights PROVE Chain'
  BY <1>2, <1>3 DEF Chain, Tip, HeightOf
<1>4. CASE UNCHANGED <<running, heights, feed, open, learned>>
  BY <1>4, BlocksInvKept
<1>5. CASE Exit
  <2>1. heights' = heights /\ ~open' /\ Len(feed') = 0 /\ Len(learned') = 0
    BY <1>5 DEF Exit
  <2> QED BY <1>3, <2>1 DEF BlocksInv, Contiguous, Down
<1>6. CASE Start
  <2>1. /\ heights' = heights /\ running' /\ UNCHANGED <<feed, learned>>
        /\ Len(feed) = 0 /\ Len(learned) = 0
    BY <1>2, <1>6 DEF Start, Down, oracle
  <2> QED BY <1>3, <2>1 DEF BlocksInv, Contiguous, Down
<1>7. CASE SubscriptionEnds
  <2>1. ~open' /\ UNCHANGED <<running, heights, feed, learned>>
    BY <1>7 DEF SubscriptionEnds, oracle
  <2> QED BY <1>2, <1>3, <2>1 DEF BlocksInv, Contiguous, Down
<1>8. CASE NewBlock
  <2> DEFINE x == feed[1]
  <2>1. /\ Len(feed) > 0 /\ feed' = Tail(feed)
        /\ learned' = Touch(learned, x) /\ UNCHANGED <<running, heights, open>>
    BY <1>0, <1>1, <1>8, SameLists DEF NewBlock, Oracle!Learn
  <2>2. x \in 1 .. Tip /\ ~In(learned, x)
    BY <1>1, <1>2, <2>1 DEF In, Contiguous
  <2>3. /\ Len(learned') = Len(learned) + 1
        /\ \A k \in 1 .. Len(learned') : learned'[k] = IF k = 1 THEN x ELSE learned[k - 1]
    <3>1. Slot(learned, x) = Len(learned) + 1
      BY <2>2 DEF Slot
    <3> HIDE DEF x
    <3>2. Touch(learned, x) = [k \in 1 .. Len(learned) + 1 |-> IF k = 1 THEN x ELSE learned[k - 1]]
      BY <1>1, <2>2, <3>1 DEF Touch
    <3> QED BY <1>1, <2>1, <3>2
  <2>4. /\ Len(feed') = Len(feed) - 1
        /\ \A k \in 1 .. Len(feed') : feed'[k] = feed[k + 1]
    BY <1>0, <1>1, <2>1
  <2>5. \A i \in 1 .. Len(learned') : learned'[i] + i = learned'[1] + 1
    <3> TAKE i \in 1 .. Len(learned')
    <3>1. CASE i = 1
      BY <1>1, <2>3, <3>1
    <3>2. CASE i # 1
      <4>1. learned'[i] = learned[i - 1] /\ i - 1 \in 1 .. Len(learned) /\ learned'[1] = x
        BY <1>1, <2>3, <3>2
      <4>2. learned[i - 1] + (i - 1) = learned[1] + 1 /\ x = learned[1] + 1
        BY <1>2, <2>1, <4>1 DEF Contiguous
      <4>3. i \in Nat /\ learned[1] \in Nat /\ learned[i - 1] \in Nat
        BY <1>1, <2>3, <4>1
      <4> HIDE DEF x
      <4> QED BY <4>1, <4>2, <4>3
    <3> QED BY <3>1, <3>2
  <2>6. \A i \in 1 .. Len(feed') : feed'[i] + 1 = feed'[1] + i
    <3> TAKE i \in 1 .. Len(feed')
    <3>1. feed'[i] = feed[i + 1] /\ feed'[1] = feed[2] /\ i + 1 \in 1 .. Len(feed) /\ 2 \in 1 .. Len(feed)
      <4>1. /\ 1 \in 1 .. Len(feed') /\ Len(feed) \in Nat /\ i \in Nat
            /\ i + 1 \in 1 .. Len(feed) /\ 2 \in 1 .. Len(feed)
        BY <1>1, <2>4
      <4>2. feed'[i] = feed[i + 1] /\ feed'[1] = feed[1 + 1]
        BY <2>4, <4>1
      <4> QED BY <4>1, <4>2
    <3>2. feed[i + 1] + 1 = feed[1] + (i + 1) /\ feed[2] + 1 = feed[1] + 2
      BY <1>2, <3>1 DEF Contiguous
    <3> QED BY <1>1, <2>2, <3>1, <3>2, SMTT(30)
  <2>7. Len(feed') > 0 => feed'[1] = learned'[1] + 1 /\ feed'[Len(feed')] = feed[Len(feed)]
    <3> SUFFICES ASSUME Len(feed') > 0
                 PROVE  feed'[1] = learned'[1] + 1 /\ feed'[Len(feed')] = feed[Len(feed)]
      OBVIOUS
    <3>1. feed'[1] = feed[2] /\ 2 \in 1 .. Len(feed) /\ feed'[Len(feed')] = feed[Len(feed)]
      BY <1>1, <2>4
    <3>2. feed[2] + 1 = feed[1] + 2
      BY <1>2, <3>1 DEF Contiguous
    <3> QED BY <1>1, <2>2, <2>3, <3>1, <3>2
  <2>8. Len(feed') = 0 => learned'[1] = feed[Len(feed)]
    <3>1. 1 \in 1 .. Len(learned') /\ learned'[1] = feed[1]
      BY <1>1, <2>3
    <3> QED BY <1>1, <2>1, <2>4, <3>1
  <2>9. open => feed[Len(feed)] = Tip
    BY <1>2, <2>1 DEF Contiguous
  <2>10. Contiguous'
    BY <2>1, <2>5, <2>6, <2>7, <2>8, <2>9 DEF Contiguous, Tip
  <2>11. Down'
    BY <1>2, <2>1 DEF Down
  <2> QED BY <1>3, <2>1, <2>10, <2>11 DEF BlocksInv
<1>9. ASSUME NEW h \in 0 .. HeightOf(Tip) + 1, Produce(h) PROVE BlocksInv'
  <2>1. /\ heights' = Append(heights, h) /\ h \in Nat /\ HeightOf(Tip) \in Nat
        /\ feed' = IF open THEN Append(feed, Len(heights')) ELSE feed
        /\ UNCHANGED <<running, open, learned>>
    BY <1>9, HeightType DEF Produce, oracle
  <2>2. /\ Tip' = Tip + 1 /\ heights'[Tip + 1] = h
        /\ \A k \in 1 .. Tip : heights'[k] = heights[k]
    BY <1>0, <2>1 DEF Tip
  <2>3. Chain'
    <3> SUFFICES ASSUME NEW k \in 1 .. Tip + 1
                 PROVE  HeightOf(k)' <= HeightOf(k - 1)' + 1
      BY <2>2 DEF Chain
    <3>1. CASE k = Tip + 1
      BY <1>0, <2>1, <2>2, <3>1 DEF HeightOf
    <3>2. CASE k # Tip + 1
      <4>1. k \in 1 .. Tip /\ HeightOf(k)' = HeightOf(k) /\ HeightOf(k - 1)' = HeightOf(k - 1)
        BY <1>0, <2>2, <3>2 DEF HeightOf
      <4> QED BY <1>2, <4>1 DEF Chain
    <3> QED BY <3>1, <3>2
  <2>4. CASE ~open
    BY <1>2, <2>1, <2>3, <2>4 DEF BlocksInv, Contiguous, Down
  <2>5. CASE open
    <3>1. /\ Len(feed') = Len(feed) + 1 /\ feed'[Len(feed) + 1] = Tip + 1
          /\ \A i \in 1 .. Len(feed) : feed'[i] = feed[i]
      <4>1. feed \in Seq(Nat) /\ feed' = Append(feed, Tip + 1)
        BY <1>0, <2>1, <2>2, <2>5 DEF Tip
      <4> QED BY <1>0, <4>1
    <3>2. \A i \in 1 .. Len(feed') : feed'[i] + 1 = feed'[1] + i
      <4> TAKE i \in 1 .. Len(feed')
      <4>1. CASE Len(feed) = 0
        BY <1>0, <3>1, <4>1
      <4>2. CASE Len(feed) > 0 /\ i <= Len(feed)
        BY <1>1, <1>2, <3>1, <4>2 DEF Contiguous
      <4>3. CASE Len(feed) > 0 /\ i = Len(feed) + 1
        <5>1. feed[Len(feed)] = Tip /\ feed[Len(feed)] + 1 = feed[1] + Len(feed)
          BY <1>1, <1>2, <2>5, <4>3 DEF Contiguous
        <5>2. /\ feed[1] \in Nat /\ feed'[1] = feed[1]
              /\ feed'[i] = Tip + 1
          BY <1>1, <3>1, <4>3
        <5>3. /\ Tip + 1 = feed[1] + Len(feed) /\ i = Len(feed) + 1
              /\ Tip \in Nat /\ Len(feed) \in Nat
          BY <1>0, <1>1, <4>3, <5>1
        <5> QED BY <5>2, <5>3
      <4> QED BY <1>1, <3>1, <4>1, <4>2, <4>3
    <3>3. Len(learned) > 0 => feed'[1] = learned[1] + 1
      BY <1>1, <1>2, <2>5, <3>1 DEF Contiguous
    <3>4. Contiguous'
      BY <1>1, <1>2, <2>1, <2>2, <3>1, <3>2, <3>3 DEF Contiguous
    <3> QED BY <1>2, <2>1, <2>3, <2>5, <3>4 DEF BlocksInv, Down
  <2> QED BY <2>4, <2>5
<1> QED BY <1>4, <1>5, <1>6, <1>7, <1>8, <1>9, BlocksSteps

\* Less than SYNCED_THRESHOLD blocks behind the last block known then, or newer than it.
Recent(l) ==
  l.best_block > l.known \/ HeightOf(l.known) < HeightOf(l.best_block) + Capacity

\* What a task has found out so far.
Honest(t) ==
  /\ pc[t] # "idle" => task[t].best_block \in 0 .. Tip /\ task[t].known \in 0 .. Tip
  /\ pc[t] \in {"geo", "sync"} => task[t].known <= Known
  /\ query[t].status = "asked" => query[t].hash = task[t].best_block
  /\ query[t].status = "answered" /\ query[t].answer => Recent(task[t])
  /\ pc[t] = "save" /\ task[t].synced => Recent(task[t])

\* What a row says.
HonestRow(p) ==
  db[p] # None =>
    /\ db[p].best_block \in 0 .. Tip /\ db[p].known \in 0 .. Tip
    /\ db[p].synced => Recent(db[p])

\* The heads that wait in the queues of the listeners exist.
EventsHonest ==
  \A n \in Nodes : \A k \in 1 .. Len(events[n]) : events[n][k].best_block \in 0 .. Tip

SyncedInv ==
  /\ TypeOK
  /\ BlocksInv
  /\ EventsHonest
  /\ \A t \in Tasks : Honest(t)
  /\ \A p \in Peers : HonestRow(p)

LEMMA SyncedInit == Init => SyncedInv
<1> SUFFICES ASSUME Init PROVE SyncedInv
  OBVIOUS
<1>1. \A t \in Tasks : Honest(t)
  BY DEF Init, Oracle!OracleInit, Oracle!Idle, Honest
<1>2. \A p \in Peers : HonestRow(p)
  BY DEF Init, HonestRow
<1>3. EventsHonest
  BY DEF Init, EventsHonest, NoEvents
<1> QED BY <1>1, <1>2, <1>3, TypeOKInit, BlocksInit DEF SyncedInv

\* Blocks keep their heights, and unless the process ends it knows no less.
LEMMA HeightsKept ==
  ASSUME TypeOK, BlocksInv, [Next]_vars
  PROVE  /\ Tip \in Nat /\ Tip' \in Nat /\ Tip <= Tip'
         /\ \A h \in 0 .. Tip : HeightOf(h)' = HeightOf(h)
         /\ Exit \/ (Known' \in Nat /\ Known <= Known')
<1>0. /\ heights \in Seq(Nat) /\ Len(heights) = Tip /\ Tip \in Nat
      /\ feed \in Seq(1 .. Tip) /\ learned \in Seq(1 .. Tip)
  BY HeightType DEF TypeOK, Tip
<1>1. /\ Len(feed) \in Nat /\ Len(learned) \in Nat
      /\ \A i \in 1 .. Len(feed) : feed[i] \in 1 .. Tip
      /\ \A i \in 1 .. Len(learned) : learned[i] \in 1 .. Tip
      /\ learned # <<>> => Len(learned) > 0 /\ Head(learned) = learned[1]
  BY <1>0
<1>2. Known \in Nat
  BY HeightType
<1>3. CASE UNCHANGED <<heights, learned>>
  BY <1>0, <1>2, <1>3 DEF Tip, HeightOf, Known
<1>4. CASE Exit
  <2>1. heights' = heights
    BY <1>4 DEF Exit
  <2> QED BY <1>0, <1>4, <2>1 DEF Tip, HeightOf
<1>5. CASE NewBlock
  <2>1. /\ Len(feed) > 0 /\ heights' = heights /\ learned' = Touch(learned, feed[1])
    BY <1>0, <1>1, <1>5, SameLists DEF NewBlock, Oracle!Learn
  <2>2. Tip' = Tip /\ \A h \in 0 .. Tip : HeightOf(h)' = HeightOf(h)
    BY <2>1 DEF Tip, HeightOf
  <2>3. feed[1] \in 1 .. Tip /\ learned \in Seq(1 .. Tip)
    BY <1>0, <1>1, <2>1
  <2>4. learned' # <<>> /\ Head(learned') = feed[1]
    <3> DEFINE S == 1 .. Tip
               x == feed[1]
    <3>1. learned \in Seq(S) /\ x \in S /\ learned' = Touch(learned, x)
      BY <2>1, <2>3
    <3> HIDE DEF S, x
    <3> QED BY <3>1, TouchHead DEF x
  <2>5. learned # <<>> => learned[1] <= feed[1]
    BY <1>1, <2>1, <2>3 DEF BlocksInv, Contiguous
  <2>7. Known' = feed[1] /\ feed[1] \in Nat
    BY <1>0, <2>3, <2>4 DEF Known
  <2>8. Known <= Known'
    BY <1>1, <2>5, <2>7 DEF Known
  <2> QED BY <1>0, <2>2, <2>7, <2>8
<1>6. ASSUME NEW h \in 0 .. HeightOf(Tip) + 1, Produce(h)
      PROVE  /\ Tip' \in Nat /\ Tip <= Tip'
             /\ \A k \in 0 .. Tip : HeightOf(k)' = HeightOf(k)
             /\ Known' \in Nat /\ Known <= Known'
  <2>1. heights' = Append(heights, h) /\ h \in Nat /\ learned' = learned
    BY <1>6, HeightType DEF Produce, oracle
  <2>2. Tip' = Tip + 1 /\ \A k \in 1 .. Tip : heights'[k] = heights[k]
    BY <1>0, <2>1 DEF Tip
  <2>3. \A k \in 0 .. Tip : HeightOf(k)' = HeightOf(k)
    BY <2>2 DEF HeightOf
  <2>4. Known' = Known
    BY <1>0, <1>1, <2>1, <2>3 DEF Known
  <2> QED BY <1>0, <1>2, <2>2, <2>3, <2>4
<1>7. CASE Start \/ SubscriptionEnds
  BY <1>3, <1>7 DEF Start, SubscriptionEnds, oracle
<1> QED BY <1>0, <1>3, <1>4, <1>5, <1>6, <1>7, BlocksSteps

\* A step that leaves a task alone leaves it honest.
LEMMA HonestKept ==
  ASSUME TypeOK, BlocksInv, [Next]_vars, NEW t \in Tasks, Honest(t), ~Exit,
         UNCHANGED <<pc[t], task[t], query[t]>>
  PROVE  Honest(t)'
<1>1. /\ Tip \in Nat /\ Tip' \in Nat /\ Tip <= Tip' /\ Known <= Known'
      /\ \A h \in 0 .. Tip : HeightOf(h)' = HeightOf(h)
  BY HeightsKept
<1>2. Known \in Nat /\ Known' \in Nat
  BY HeightType, HeightsKept
<1>3. \A h \in 0 .. Tip : h \in 0 .. Tip'
  BY <1>1
<1>4. query[t].status # "idle" => pc[t] = "sync"
  BY DEF TypeOK
<1>5. pc[t] # "idle" => task[t].known \in 0 .. Tip
  BY DEF Honest
<1>6. pc[t] # "idle" => Recent(task[t])' = Recent(task[t])
  BY <1>1 DEF Recent, Honest
<1> HIDE DEF Known
<1> QED BY <1>1, <1>2, <1>3, <1>4, <1>5, <1>6 DEF Honest

\* A step that leaves a row alone leaves it honest.
LEMMA HonestRowKept ==
  ASSUME TypeOK, BlocksInv, [Next]_vars, NEW p \in Peers, HonestRow(p), db'[p] = db[p]
  PROVE  HonestRow(p)'
<1>1. /\ Tip \in Nat /\ Tip' \in Nat /\ Tip <= Tip'
      /\ \A h \in 0 .. Tip : HeightOf(h)' = HeightOf(h)
  BY HeightsKept
<1>2. \A h \in 0 .. Tip : h \in 0 .. Tip'
  BY <1>1
<1> QED BY <1>1, <1>2 DEF HonestRow, Recent

\* The answer: a block among the Capacity learned last is recent.
LEMMA AnswerHonest ==
  ASSUME SyncedInv, NEW t \in Tasks, Answer(t)
  PROVE  query'[t].status = "answered" /\ (query'[t].answer => Recent(task[t]))
<1> DEFINE h == query[t].hash
           k == task[t].known
<1>1. /\ query[t].status = "asked"
      /\ query'[t] = Oracle!Answered(In(Firsts(learned, Capacity), h))
  BY SameLists DEF Answer, Oracle!Answer, Window, SyncedInv, TypeOK
<1>2. /\ pc[t] = "sync" /\ h = task[t].best_block /\ h \in 0 .. Tip
      /\ k \in 0 .. Tip /\ k <= Known
  BY <1>1 DEF SyncedInv, TypeOK, Honest
<1>4. query'[t].status = "answered" /\ query'[t].answer = In(Firsts(learned, Capacity), h)
  BY <1>1 DEF Oracle!Answered
<1>r. Recent(task[t]) <=> h > k \/ HeightOf(k) < HeightOf(h) + Capacity
  BY <1>2 DEF Recent
<1> HIDE DEF h, k
<1>5. ASSUME In(Firsts(learned, Capacity), h) PROVE Recent(task[t])
  <2>0. /\ Tip \in Nat /\ learned \in Seq(1 .. Tip) /\ Capacity \in Nat
        /\ \A b \in 0 .. Tip : HeightOf(b) \in Nat
    BY HeightType, CapacityAssumption DEF SyncedInv, TypeOK
  <2>1. PICK i \in 1 .. Len(Firsts(learned, Capacity)) : Firsts(learned, Capacity)[i] = h
    BY <1>5 DEF In
  <2>2. /\ Firsts(learned, Capacity)[i] = learned[i] /\ i \in 1 .. Len(learned) /\ i <= Capacity
    <3> DEFINE S == 1 .. Tip
    <3>1. learned \in Seq(S) /\ Len(learned) \in Nat
      BY <2>0
    <3> HIDE DEF S
    <3> DEFINE firsts == Firsts(learned, Capacity)
    <3>2. /\ Len(firsts) = IF Len(learned) <= Capacity THEN Len(learned) ELSE Capacity
          /\ \A j \in 1 .. Len(firsts) : firsts[j] = learned[j]
      BY <2>0, <3>1, FirstsType
    <3>3. i \in 1 .. Len(firsts)
      BY <2>1
    <3> HIDE DEF firsts
    <3>4. firsts[i] = learned[i]
      BY <3>2, <3>3
    <3>5. Len(firsts) \in Nat /\ Len(firsts) <= Len(learned) /\ Len(firsts) <= Capacity
      BY <2>0, <3>1, <3>2
    <3>6. i \in 1 .. Len(learned) /\ i <= Capacity
      BY <2>0, <3>1, <3>3, <3>5
    <3> QED BY <3>4, <3>6 DEF firsts
  <2>3. learned[1] \in 1 .. Tip /\ Known = learned[1]
    BY <2>0, <2>2 DEF Known
  <2>4. h + i = learned[1] + 1
    BY <2>1, <2>2 DEF SyncedInv, BlocksInv, Contiguous
  <2>5. h \in Nat /\ i \in Nat /\ k \in Nat /\ k - h < Capacity
    <3>1. h \in Nat /\ k \in Nat /\ learned[1] \in Nat /\ k <= learned[1]
      BY <1>2, <2>0, <2>3
    <3>2. i \in Nat /\ i <= Capacity
      BY <2>2
    <3> QED BY <2>0, <2>4, <3>1, <3>2
  <2>6. CASE h > k
    BY <1>r, <2>6
  <2>7. CASE h <= k
    <3>1. HeightOf(k) <= HeightOf(h) + (k - h)
      BY <1>2, <2>7, Rising DEF SyncedInv, BlocksInv
    <3>2. HeightOf(k) \in Nat /\ HeightOf(h) \in Nat
      BY <1>2, <2>0
    <3> QED BY <1>r, <2>0, <2>5, <3>1, <3>2
  <2> QED BY <2>5, <2>6, <2>7
<1> QED BY <1>4, <1>5

\* A listener's queue holds heads that exist.
LEMMA EventsHonestNext ==
  ASSUME SyncedInv, [Next]_vars
  PROVE  EventsHonest'
<1> USE DEF network, tasks, provider, oracle
<1>0. TypeOK /\ EventsHonest /\ events \in [Nodes -> Seq(Event)]
  BY DEF SyncedInv, TypeOK
<1>h. Tip \in Nat /\ \A h \in 0 .. Tip : h \in 0 .. Tip'
  BY HeightsKept DEF SyncedInv
<1>1. CASE UNCHANGED events
  BY <1>0, <1>1, <1>h DEF EventsHonest
<1>2. CASE Exit
  BY <1>2 DEF Exit, NoEvents, EventsHonest
<1>3. ASSUME NEW n \in Nodes, NEW t \in Tasks, SessionEstablished(t, n) PROVE EventsHonest'
  <2>1. /\ Len(events[n]) > 0 /\ events[n] \in Seq(Event)
        /\ events' = [events EXCEPT ![n] = Tail(@)]
    BY <1>0, <1>3, EstablishedEffect
  <2>2. /\ Len(events'[n]) = Len(events[n]) - 1
        /\ \A k \in 1 .. Len(events'[n]) : events'[n][k] = events[n][k + 1]
    BY <1>0, <2>1
  <2>3. \A k \in 1 .. Len(events'[n]) : events'[n][k].best_block \in 0 .. Tip
    BY <1>0, <2>1, <2>2 DEF EventsHonest
  <2>4. \A m \in Nodes \ {n} : events'[m] = events[m]
    BY <1>0, <2>1
  <2> QED BY <1>0, <1>h, <2>3, <2>4 DEF EventsHonest
<1>4. ASSUME NEW n \in Nodes, NEW r \in Records, NEW client \in Clients, NEW h \in Hashes,
             SessionOpens(n, r, client, h)
      PROVE  EventsHonest'
  <2>1. PICK e : /\ e = [id |-> r.id, address |-> r.address, client |-> client,
                          best_block |-> IF client = Empty THEN 0 ELSE h]
                 /\ events' = [events EXCEPT ![n] = Append(@, e)]
    BY <1>4 DEF SessionOpens
  <2>2. e.best_block \in 0 .. Tip
    BY <1>4, <1>h, <2>1 DEF SessionOpens
  <2>3. /\ Len(events'[n]) = Len(events[n]) + 1 /\ Len(events[n]) \in Nat
        /\ events'[n][Len(events[n]) + 1] = e
        /\ \A k \in 1 .. Len(events[n]) : events'[n][k] = events[n][k]
    BY <1>0, <2>1
  <2>4. \A k \in 1 .. Len(events'[n]) : events'[n][k].best_block \in 0 .. Tip
    BY <1>0, <2>2, <2>3 DEF EventsHonest
  <2>5. \A m \in Nodes \ {n} : events'[m] = events[m]
    BY <1>0, <2>1
  <2> QED BY <1>0, <1>h, <2>4, <2>5 DEF EventsHonest
<1>5. ASSUME NEW t \in Tasks, Step(t) PROVE EventsHonest'
  BY <1>1, <1>5 DEF Step, Accept, Refuse, SkipSession, HandleSession, Sight, AskSynced, IsSynced,
                    SavePeer, SaveFails, Geolocate
<1>6. CASE Events
  BY <1>1, <1>3, <1>4, <1>6 DEF Events, Discovered, SessionUnseen, SessionClosed
<1>7. CASE Start \/ SubscriptionEnds \/ NewBlock \/ UNCHANGED vars
           \/ (\E t \in Tasks : Answer(t))
           \/ (\E n \in Nodes, s \in Streams : Subscribe(n, s) \/ StreamEnds(n, s))
           \/ (\E h \in 0 .. HeightOf(Tip) + 1 : Produce(h))
  BY <1>1, <1>7 DEF Start, SubscriptionEnds, NewBlock, Answer, Subscribe, StreamEnds, Produce, vars
<1> QED BY <1>2, <1>5, <1>6, <1>7 DEF Next, LifeCycle, BlockService

\* Every step keeps tasks and rows honest.
LEMMA SyncedNext ==
  ASSUME SyncedInv, [Next]_vars
  PROVE  SyncedInv'
<1>0. TypeOK /\ BlocksInv /\ TypeOK' /\ BlocksInv'
  BY TypeOKNext, BlocksInvNext DEF SyncedInv
<1>h. /\ Tip \in Nat /\ Tip' \in Nat /\ Tip <= Tip'
      /\ \A h \in 0 .. Tip : h \in 0 .. Tip' /\ HeightOf(h)' = HeightOf(h)
  BY <1>0, HeightsKept
<1>d. ASSUME db' = db PROVE \A p \in Peers : HonestRow(p)'
  BY <1>0, <1>d, HonestRowKept DEF SyncedInv
<1>e. EventsHonest'
  BY EventsHonestNext
<1> USE DEF network, tasks, provider, oracle
<1> SUFFICES (\A t \in Tasks : Honest(t)') /\ (\A p \in Peers : HonestRow(p)')
  BY <1>0, <1>e DEF SyncedInv
<1>1. CASE Exit
  <2>1. db' = db /\ \A t \in Tasks : pc'[t] = "idle" /\ query'[t].status = "idle"
    BY <1>1 DEF Exit, Oracle!Idle
  <2>2. \A t \in Tasks : Honest(t)'
    BY <2>1 DEF Honest
  <2> QED BY <1>d, <2>1, <2>2
<1>2. ASSUME ~Exit, NEW t \in Tasks, \A u \in Tasks \ {t} : UNCHANGED <<pc[u], task[u], query[u]>>
      PROVE  \A u \in Tasks \ {t} : Honest(u)'
  BY <1>0, <1>2, HonestKept DEF SyncedInv
<1>3. ASSUME ~Exit, UNCHANGED <<pc, task, query, db>>
      PROVE  (\A t \in Tasks : Honest(t)') /\ (\A p \in Peers : HonestRow(p)')
  BY <1>0, <1>3, <1>d, HonestKept DEF SyncedInv
<1>4. ASSUME ~Exit, NEW t \in Tasks, NEW n \in Nodes, NEW r, NEW client \in Clients,
             NEW h \in 0 .. Tip, NEW entry \in {"contact", "session"},
             Spawn(t, n, r, client, h, entry), query' = query
      PROVE  (\A u \in Tasks : Honest(u)') /\ (\A p \in Peers : HonestRow(p)')
  <2>1. /\ pc[t] = "idle" /\ pc'[t] = entry /\ db' = db
        /\ task'[t].best_block = h /\ task'[t].known = 0
        /\ \A u \in Tasks \ {t} : UNCHANGED <<pc[u], task[u], query[u]>>
    BY <1>0, <1>4 DEF Spawn, TypeOK
  <2>2. query'[t].status = "idle"
    BY <1>0, <1>4, <2>1 DEF TypeOK
  <2>3. Honest(t)'
    BY <1>h, <1>4, <2>1, <2>2 DEF Honest
  <2> QED BY <1>2, <1>4, <1>d, <2>1, <2>3
<1>5. ASSUME ~Exit, NEW t \in Tasks, NEW from \in {"contact", "session"}, NEW client \in Clients,
             NEW h \in 0 .. Tip, Sight(t, from, client, h)
      PROVE  (\A u \in Tasks : Honest(u)') /\ (\A p \in Peers : HonestRow(p)')
  <2>0. h \in Hashes
    BY <1>0, HeightType
  <2>1. /\ pc[t] = from /\ pc' = [pc EXCEPT ![t] = "geo"] /\ db' = db
        /\ task'[t].best_block = h /\ task'[t].known = Known
        /\ \A u \in Tasks \ {t} : task'[u] = task[u]
        /\ UNCHANGED <<heights, learned, query>>
    BY <1>0, <1>5, <2>0, SightEffect
  <2>2. /\ pc'[t] = "geo" /\ \A u \in Tasks \ {t} : UNCHANGED <<pc[u], task[u], query[u]>>
        /\ query'[t].status = "idle"
    BY <1>0, <2>1 DEF TypeOK
  <2>3. Known' = Known /\ Known \in 0 .. Tip /\ Tip' = Tip /\ Tip \in Nat
    BY <1>0, <2>1, HeightType DEF Known, Tip
  <2> HIDE DEF Known
  <2>4. Honest(t)'
    BY <1>5, <2>1, <2>2, <2>3 DEF Honest
  <2> QED BY <1>2, <1>5, <1>d, <2>1, <2>2, <2>4
<1>6. ASSUME ~Exit, NEW t \in Tasks, NEW from \in {"contact", "session"}, Finish(t, from),
             UNCHANGED <<query, db>>
      PROVE  (\A u \in Tasks : Honest(u)') /\ (\A p \in Peers : HonestRow(p)')
  <2>1. /\ pc'[t] = "idle" /\ pc[t] = from
        /\ \A u \in Tasks \ {t} : UNCHANGED <<pc[u], task[u], query[u]>>
    BY <1>0, <1>6 DEF Finish, Goto, TypeOK
  <2>2. Honest(t)'
    BY <1>0, <1>6, <2>1 DEF Honest, TypeOK
  <2> QED BY <1>2, <1>6, <1>d, <2>1, <2>2
<1>7. ASSUME ~Exit, NEW t \in Tasks, Finish(t, "save"), query' = query,
             db' = db \/ db' = [db EXCEPT ![task[t].id] = task[t]]
      PROVE  (\A u \in Tasks : Honest(u)') /\ (\A p \in Peers : HonestRow(p)')
  <2>1. /\ pc'[t] = "idle" /\ pc[t] = "save"
        /\ \A u \in Tasks \ {t} : UNCHANGED <<pc[u], task[u], query[u]>>
    BY <1>0, <1>7 DEF Finish, Goto, TypeOK
  <2>2. Honest(t)'
    BY <1>0, <1>7, <2>1 DEF Honest, TypeOK
  <2>3. /\ task[t].best_block \in 0 .. Tip /\ task[t].known \in 0 .. Tip
        /\ task[t].synced => Recent(task[t])
    BY <2>1 DEF SyncedInv, Honest
  <2>4. ASSUME NEW p \in Peers PROVE HonestRow(p)'
    <3>1. db'[p] = db[p] \/ db'[p] = task[t]
      BY <1>0, <1>7 DEF TypeOK
    <3>2. CASE db'[p] = db[p]
      BY <1>0, <3>2, HonestRowKept DEF SyncedInv
    <3>3. CASE db'[p] = task[t]
      BY <1>h, <2>3, <3>3 DEF HonestRow, Recent
    <3> QED BY <3>1, <3>2, <3>3
  <2> QED BY <1>2, <1>7, <2>1, <2>2, <2>4
<1>8. ASSUME ~Exit, NEW t \in Tasks, AskSynced(t)
      PROVE  (\A u \in Tasks : Honest(u)') /\ (\A p \in Peers : HonestRow(p)')
  <2>1. /\ pc[t] = "sync" /\ query' = [query EXCEPT ![t] = Oracle!Asked(task[t].best_block)]
        /\ UNCHANGED <<pc, task, db, heights, learned>>
    BY <1>8 DEF AskSynced, Oracle!Ask
  <2>2. /\ query'[t].status = "asked" /\ query'[t].hash = task[t].best_block
        /\ \A u \in Tasks \ {t} : UNCHANGED <<pc[u], task[u], query[u]>>
    BY <1>0, <2>1 DEF Oracle!Asked, TypeOK
  <2>3. Honest(t)'
    BY <2>1, <2>2 DEF SyncedInv, Honest, Known, Tip, HeightOf
  <2> QED BY <1>2, <1>8, <1>d, <2>1, <2>2, <2>3
<1>9. ASSUME ~Exit, NEW t \in Tasks, Answer(t)
      PROVE  (\A u \in Tasks : Honest(u)') /\ (\A p \in Peers : HonestRow(p)')
  <2>1. /\ query[t].status = "asked" /\ UNCHANGED <<pc, task, db, heights, learned>>
        /\ \A u \in Tasks \ {t} : UNCHANGED <<pc[u], task[u], query[u]>>
    BY <1>0, <1>9 DEF Answer, Oracle!Answer, TypeOK
  <2>2. query'[t].status = "answered" /\ (query'[t].answer => Recent(task[t]))
    BY <1>9, AnswerHonest
  <2>3. Recent(task[t])' = Recent(task[t])
    BY <2>1 DEF Recent, HeightOf
  <2>4. pc[t] = "sync"
    BY <1>0, <2>1 DEF TypeOK
  <2>5. Honest(t)'
    BY <2>1, <2>2, <2>3, <2>4 DEF SyncedInv, Honest, Known, Tip, HeightOf
  <2> QED BY <1>2, <1>9, <1>d, <2>1, <2>5
<1>10. ASSUME ~Exit, NEW t \in Tasks, IsSynced(t)
       PROVE  (\A u \in Tasks : Honest(u)') /\ (\A p \in Peers : HonestRow(p)')
  <2>1. /\ pc[t] = "sync" /\ pc' = [pc EXCEPT ![t] = "save"]
        /\ task'[t].best_block = task[t].best_block /\ task'[t].known = task[t].known
        /\ task'[t].synced = query[t].answer
        /\ \A u \in Tasks \ {t} : task'[u] = task[u]
        /\ query[t].status = "answered" /\ query' = [query EXCEPT ![t] = Oracle!Idle]
        /\ UNCHANGED <<db, heights, learned>>
    BY <1>0, <1>10, IsSyncedEffect
  <2>2. /\ pc'[t] = "save" /\ query'[t].status = "idle"
        /\ \A u \in Tasks \ {t} : UNCHANGED <<pc[u], task[u], query[u]>>
    BY <1>0, <2>1 DEF TypeOK, Oracle!Idle
  <2>3. query[t].answer => Recent(task[t])
    BY <2>1 DEF SyncedInv, Honest
  <2>4. Honest(t)'
    BY <2>1, <2>2, <2>3 DEF SyncedInv, Honest, Recent, Tip, HeightOf
  <2> QED BY <1>2, <1>10, <1>d, <2>1, <2>2, <2>4
<1>14. ASSUME ~Exit, NEW t \in Tasks, Geolocate(t)
       PROVE  (\A u \in Tasks : Honest(u)') /\ (\A p \in Peers : HonestRow(p)')
  <2>1. /\ pc[t] = "geo" /\ pc' = [pc EXCEPT ![t] = "sync"]
        /\ UNCHANGED <<task, query, db, heights, learned>>
    BY <1>14 DEF Geolocate, Goto
  <2>2. /\ pc'[t] = "sync" /\ query'[t].status = "idle"
        /\ \A u \in Tasks \ {t} : UNCHANGED <<pc[u], task[u], query[u]>>
    BY <1>0, <2>1 DEF TypeOK
  <2>3. Known' = Known /\ Tip' = Tip
    BY <2>1 DEF Known, Tip
  <2> HIDE DEF Known
  <2>4. Honest(t)'
    BY <2>1, <2>2, <2>3 DEF SyncedInv, Honest
  <2> QED BY <1>2, <1>14, <1>d, <2>1, <2>2, <2>4
<1>11. ASSUME ~Exit, NEW t \in Tasks, Step(t)
       PROVE  (\A u \in Tasks : Honest(u)') /\ (\A p \in Peers : HonestRow(p)')
  <2>1. ASSUME NEW client \in Clients, NEW h \in Hashes, Accept(t, client, h)
        PROVE  (\A u \in Tasks : Honest(u)') /\ (\A p \in Peers : HonestRow(p)')
    BY <1>5, <1>11, <2>1 DEF Accept
  <2>2. CASE Refuse(t) \/ SkipSession(t)
    BY <1>6, <1>11, <2>2 DEF Refuse, SkipSession
  <2>3. CASE HandleSession(t)
    <3>1. Sight(t, "session", task[t].client, task[t].best_block) /\ pc[t] = "session"
      BY <2>3 DEF HandleSession, Sight, Goto
    <3>2. task[t].client \in Clients /\ task[t].best_block \in 0 .. Tip
      BY <1>0, <3>1, TaskType DEF SyncedInv, Honest
    <3> QED BY <1>5, <1>11, <3>1, <3>2
  <2>4. CASE SavePeer(t) \/ SaveFails(t)
    BY <1>7, <1>11, <2>4 DEF SavePeer, SaveFails
  <2> QED BY <1>8, <1>10, <1>11, <1>14, <2>1, <2>2, <2>3, <2>4 DEF Step
<1>12. ASSUME ~Exit, Events
       PROVE  (\A u \in Tasks : Honest(u)') /\ (\A p \in Peers : HonestRow(p)')
  <2>1. PICK n \in Nodes :
          \/ \E t \in Tasks, r \in Records : Discovered(t, n, r)
          \/ \E r \in Records, client \in Clients, h \in Hashes : SessionOpens(n, r, client, h)
          \/ \E t \in Tasks : SessionEstablished(t, n)
          \/ \E p \in Peers, client \in Clients : SessionUnseen(n, p, client)
          \/ \E p \in Peers : SessionClosed(n, p)
    BY <1>12 DEF Events
  <2>2. ASSUME NEW t \in Tasks, NEW r \in Records, Discovered(t, n, r)
        PROVE  (\A u \in Tasks : Honest(u)') /\ (\A p \in Peers : HonestRow(p)')
    <3>1. Empty \in Clients /\ 0 \in 0 .. Tip
      BY <1>h DEF Clients
    <3> QED BY <1>4, <1>12, <2>2, <3>1 DEF Discovered
  <2>3. ASSUME NEW t \in Tasks, SessionEstablished(t, n)
        PROVE  (\A u \in Tasks : Honest(u)') /\ (\A p \in Peers : HonestRow(p)')
    <3>1. PICK e \in Event :
            /\ Len(events[n]) > 0 /\ e = events[n][1] /\ e.client \in Clients
            /\ Spawn(t, n, e, e.client, e.best_block, "session") /\ query' = query
      BY <1>0, <2>3, EstablishedEffect
    <3>2. e.best_block \in 0 .. Tip
      <4>1. Len(events[n]) \in Nat
        BY <1>0 DEF TypeOK
      <4> QED BY <3>1, <4>1 DEF SyncedInv, EventsHonest
    <3> QED BY <1>4, <1>12, <3>1, <3>2
  <2>4. ASSUME NEW p \in Peers,
               SessionClosed(n, p) \/ \E client \in Clients : SessionUnseen(n, p, client)
        PROVE  (\A u \in Tasks : Honest(u)') /\ (\A q \in Peers : HonestRow(q)')
    BY <1>3, <1>12, <2>4 DEF SessionClosed, SessionUnseen
  <2>5. ASSUME NEW r \in Records, NEW client \in Clients, NEW h \in Hashes,
               SessionOpens(n, r, client, h)
        PROVE  (\A u \in Tasks : Honest(u)') /\ (\A p \in Peers : HonestRow(p)')
    BY <1>3, <1>12, <2>5 DEF SessionOpens
  <2> QED BY <2>1, <2>2, <2>3, <2>4, <2>5
<1>13. ASSUME ~Exit, LifeCycle \/ SubscriptionEnds \/ NewBlock \/ Start \/ UNCHANGED vars
                       \/ \E h \in 0 .. HeightOf(Tip) + 1 : Produce(h)
       PROVE  (\A u \in Tasks : Honest(u)') /\ (\A p \in Peers : HonestRow(p)')
  BY <1>3, <1>13 DEF LifeCycle, Subscribe, StreamEnds, SubscriptionEnds, NewBlock, Oracle!Learn,
                     Start, Produce, vars
<1> QED BY <1>1, <1>9, <1>11, <1>12, <1>13 DEF Next, BlockService

\* A row that says synced was less than SYNCED_THRESHOLD blocks behind the last block
\* the crawler knew when it stamped last_seen, or newer than it, however deep the
\* reorganisations of the chain.
THEOREM SyncedIsRecent == Spec => []SyncedWhenSeen
<1>1. SyncedInv /\ [Next]_vars => SyncedInv'
  BY SyncedNext
<1>2. SyncedInv => SyncedWhenSeen
  BY DEF SyncedInv, HonestRow, Recent, SyncedWhenSeen
<1> QED BY <1>1, <1>2, SyncedInit, PTL DEF Spec

-----------------------------------------------------------------------------
(* Inbound slots                                                           *)

\* The task that will give the slot back: SkipSession would not.
Remover(t, n, p) ==
  pc[t] = "session" /\ task[t].node = n /\ task[t].id = p /\ task[t].client # Empty

\* The event that will have such a task.
Queued(n, p) ==
  \E k \in 1 .. Len(events[n]) : events[n][k].id = p /\ events[n][k].client # Empty

HeardInv ==
  \A n \in Nodes, p \in Peers :
    sessions[n][p] = "named" /\ p \notin unseen[n] =>
      Queued(n, p) \/ \E t \in Tasks : Remover(t, n, p)

\* The tasks of a session keep their locals until they have run.
LEMMA RemoverKept ==
  ASSUME TypeOK, HeardInv, UNCHANGED <<sessions, events, unseen>>,
         \A t \in Tasks : pc[t] = "session" /\ task[t].client # Empty =>
                            UNCHANGED <<pc[t], task[t]>>
  PROVE  HeardInv'
BY DEF HeardInv, Remover, Queued

LEMMA HeardInvNext ==
  ASSUME TypeOK, HeardInv, [Next]_vars
  PROVE  HeardInv'
<1> USE DEF network, tasks, provider, oracle
<1>1. CASE Exit
  BY <1>1 DEF Exit, HeardInv, NoSessions
<1>2. ASSUME UNCHANGED <<sessions, events, unseen, pc, task>> PROVE HeardInv'
  BY <1>2, RemoverKept
<1>3. ASSUME NEW n \in Nodes, NEW t \in Tasks, NEW r \in Records, Discovered(t, n, r)
      PROVE  HeardInv'
  BY <1>3, RemoverKept DEF Discovered, Spawn, TypeOK
<1>4. ASSUME NEW n \in Nodes, NEW t \in Tasks, SessionEstablished(t, n) PROVE HeardInv'
  <2>1. PICK e \in Event :
          /\ Len(events[n]) > 0 /\ e = events[n][1]
          /\ events' = [events EXCEPT ![n] = Tail(@)] /\ events[n] \in Seq(Event)
          /\ Spawn(t, n, e, e.client, e.best_block, "session")
          /\ UNCHANGED <<sessions, unseen>>
    BY <1>4, EstablishedEffect
  <2>2. /\ pc[t] = "idle" /\ pc'[t] = "session"
        /\ task'[t].node = n /\ task'[t].id = e.id /\ task'[t].client = e.client
        /\ \A u \in Tasks \ {t} : UNCHANGED <<pc[u], task[u]>>
    BY <2>1 DEF Spawn, TypeOK
  <2>3. /\ Len(events'[n]) = Len(events[n]) - 1 /\ Len(events[n]) \in Nat
        /\ \A k \in 1 .. Len(events'[n]) : events'[n][k] = events[n][k + 1]
    BY <2>1 DEF TypeOK
  <2>4. \A m \in Nodes \ {n} : events'[m] = events[m]
    BY <2>1 DEF TypeOK
  <2> SUFFICES ASSUME NEW m \in Nodes, NEW p \in Peers,
                      sessions'[m][p] = "named", p \notin unseen'[m]
               PROVE  Queued(m, p)' \/ \E u \in Tasks : Remover(u, m, p)'
    BY DEF HeardInv
  <2>5. CASE \E u \in Tasks : Remover(u, m, p)
    BY <2>2, <2>5 DEF Remover
  <2>6. CASE Queued(m, p) /\ m # n
    BY <2>4, <2>6 DEF Queued
  <2>7. CASE Queued(m, p) /\ m = n
    <3>1. PICK k \in 1 .. Len(events[n]) : events[n][k].id = p /\ events[n][k].client # Empty
      BY <2>7 DEF Queued
    <3>2. CASE k = 1
      BY <2>1, <2>2, <2>7, <3>1, <3>2 DEF Remover
    <3>3. CASE k # 1
      <4>1. k - 1 \in 1 .. Len(events'[n]) /\ events'[n][k - 1] = events[n][k]
        BY <2>3, <3>3
      <4> QED BY <2>7, <3>1, <4>1 DEF Queued
    <3> QED BY <3>2, <3>3
  <2> QED BY <2>1, <2>5, <2>6, <2>7 DEF HeardInv
<1>16. ASSUME NEW n \in Nodes, NEW r \in Records, NEW client \in Clients, NEW h \in Hashes,
              SessionOpens(n, r, client, h)
       PROVE  HeardInv'
  <2>1. PICK e : /\ e = [id |-> r.id, address |-> r.address, client |-> client,
                          best_block |-> IF client = Empty THEN 0 ELSE h]
                 /\ events' = [events EXCEPT ![n] = Append(@, e)]
    BY <1>16 DEF SessionOpens
  <2>2. /\ Len(events'[n]) = Len(events[n]) + 1 /\ Len(events[n]) \in Nat
        /\ events'[n][Len(events[n]) + 1] = e
        /\ \A k \in 1 .. Len(events[n]) : events'[n][k] = events[n][k]
        /\ \A m \in Nodes \ {n} : events'[m] = events[m]
    BY <2>1 DEF TypeOK
  <2>3. /\ UNCHANGED <<unseen, pc, task>> /\ r.id \in Peers
        /\ sessions'[n][r.id] = "named" => client # Empty
        /\ \A m \in Nodes, p \in Peers :
             m # n \/ p # r.id => sessions'[m][p] = sessions[m][p]
    BY <1>16, RecordAssumption DEF SessionOpens, Establish, TypeOK
  <2> SUFFICES ASSUME NEW m \in Nodes, NEW p \in Peers,
                      sessions'[m][p] = "named", p \notin unseen'[m]
               PROVE  Queued(m, p)' \/ \E u \in Tasks : Remover(u, m, p)'
    BY DEF HeardInv
  <2>4. CASE m = n /\ p = r.id
    <3>1. e.id = p /\ e.client # Empty
      BY <2>1, <2>3, <2>4
    <3>2. Len(events[n]) + 1 \in 1 .. Len(events'[n])
      BY <2>2
    <3> QED BY <2>2, <2>4, <3>1, <3>2 DEF Queued
  <2>5. CASE m # n \/ p # r.id
    <3>1. Queued(m, p) \/ \E u \in Tasks : Remover(u, m, p)
      BY <2>3, <2>5 DEF HeardInv
    <3>2. Queued(m, p) => Queued(m, p)'
      BY <2>2 DEF Queued
    <3>3. \A u \in Tasks : Remover(u, m, p) => Remover(u, m, p)'
      BY <2>3 DEF Remover
    <3> QED BY <3>1, <3>2, <3>3
  <2> QED BY <2>4, <2>5
<1>5. ASSUME NEW n \in Nodes, NEW q \in Peers, NEW client \in Clients, SessionUnseen(n, q, client)
      PROVE  HeardInv'
  <2>1. /\ UNCHANGED <<events, pc, task>> /\ q \in unseen'[n]
        /\ \A m \in Nodes, p \in Peers :
             m # n \/ p # q => sessions'[m][p] = sessions[m][p] /\ (p \in unseen'[m] <=> p \in unseen[m])
    BY <1>5 DEF SessionUnseen, Establish, TypeOK
  <2>2. \A m \in Nodes, p \in Peers : Queued(m, p) => Queued(m, p)'
    BY <2>1 DEF Queued
  <2>3. \A u \in Tasks, m \in Nodes, p \in Peers : Remover(u, m, p) => Remover(u, m, p)'
    BY <2>1 DEF Remover
  <2> QED BY <2>1, <2>2, <2>3 DEF HeardInv
<1>6. ASSUME NEW n \in Nodes, NEW q \in Peers, SessionClosed(n, q) PROVE HeardInv'
  <2>1. /\ UNCHANGED <<events, pc, task>> /\ sessions'[n][q] = "none"
        /\ \A m \in Nodes, p \in Peers :
             m # n \/ p # q => sessions'[m][p] = sessions[m][p] /\ (p \in unseen'[m] <=> p \in unseen[m])
    BY <1>6 DEF SessionClosed, TypeOK
  <2>2. \A m \in Nodes, p \in Peers : Queued(m, p) => Queued(m, p)'
    BY <2>1 DEF Queued
  <2>3. \A u \in Tasks, m \in Nodes, p \in Peers : Remover(u, m, p) => Remover(u, m, p)'
    BY <2>1 DEF Remover
  <2> QED BY <2>1, <2>2, <2>3 DEF HeardInv
<1>7. ASSUME NEW t \in Tasks, HandleSession(t) PROVE HeardInv'
  <2>1. pc[t] = "session" /\ pc' = [pc EXCEPT ![t] = "geo"]
        /\ Sight(t, "session", task[t].client, task[t].best_block)
    BY <1>7 DEF HandleSession, Sight, Goto
  <2>2. task[t].client \in Clients /\ task[t].best_block \in Hashes
        /\ task[t].node \in Nodes /\ task[t].id \in Peers
    BY <2>1, TaskType
  <2>3. UNCHANGED <<events, unseen>> /\ \A u \in Tasks \ {t} : UNCHANGED <<pc[u], task[u]>>
    <3>1. UNCHANGED <<events, unseen>> /\ \A u \in Tasks \ {t} : task'[u] = task[u]
      BY <2>1, <2>2, SightEffect
    <3>2. \A u \in Tasks \ {t} : pc'[u] = pc[u]
      BY <2>1 DEF TypeOK
    <3> QED BY <3>1, <3>2
  <2>4. /\ sessions'[task[t].node][task[t].id] # "named"
        /\ \A m \in Nodes, p \in Peers :
             m # task[t].node \/ p # task[t].id => sessions'[m][p] = sessions[m][p]
    BY <1>7, <2>2 DEF HandleSession, RemovePeer, TypeOK
  <2> SUFFICES ASSUME NEW m \in Nodes, NEW p \in Peers,
                      sessions'[m][p] = "named", p \notin unseen'[m]
               PROVE  Queued(m, p)' \/ \E u \in Tasks : Remover(u, m, p)'
    BY DEF HeardInv
  <2>5. m # task[t].node \/ p # task[t].id
    BY <2>4
  <2>6. Queued(m, p) \/ \E u \in Tasks : Remover(u, m, p)
    BY <2>3, <2>4, <2>5 DEF HeardInv
  <2>7. Queued(m, p) => Queued(m, p)'
    BY <2>3 DEF Queued
  <2>8. \A u \in Tasks : Remover(u, m, p) => Remover(u, m, p)'
    BY <2>3, <2>5 DEF Remover
  <2> QED BY <2>6, <2>7, <2>8
<1>8. ASSUME NEW t \in Tasks, NEW client \in Clients, NEW h \in Hashes, Accept(t, client, h)
      PROVE  HeardInv'
  <2>1. Sight(t, "contact", client, h) /\ sessions' = sessions
    BY <1>8 DEF Accept
  <2>2. /\ pc[t] = "contact" /\ UNCHANGED <<events, unseen>>
        /\ \A u \in Tasks \ {t} : UNCHANGED <<pc[u], task[u]>>
    BY <2>1, SightEffect DEF TypeOK
  <2> QED BY <2>1, <2>2, RemoverKept
<1>9. ASSUME NEW t \in Tasks,
             Refuse(t) \/ SkipSession(t) \/ SavePeer(t) \/ SaveFails(t) \/ Geolocate(t)
      PROVE  HeardInv'
  <2>1. /\ pc[t] = "session" => task[t].client = Empty
        /\ UNCHANGED <<sessions, events, unseen>>
        /\ \A u \in Tasks \ {t} : UNCHANGED <<pc[u], task[u]>>
    BY <1>9 DEF Refuse, SkipSession, SavePeer, SaveFails, Geolocate, Finish, Goto, TypeOK
  <2> QED BY <2>1, RemoverKept
<1>10. ASSUME NEW t \in Tasks, IsSynced(t) PROVE HeardInv'
  <2>1. /\ pc[t] = "sync" /\ UNCHANGED <<sessions, events, unseen>>
        /\ \A u \in Tasks \ {t} : UNCHANGED <<pc[u], task[u]>>
    BY <1>10, IsSyncedEffect DEF TypeOK
  <2> QED BY <2>1, RemoverKept
<1>11. ASSUME NEW t \in Tasks, AskSynced(t) \/ Answer(t) PROVE HeardInv'
  BY <1>2, <1>11 DEF AskSynced, Answer
<1>12. CASE Start \/ SubscriptionEnds \/ NewBlock \/ UNCHANGED vars
            \/ \E h \in 0 .. HeightOf(Tip) + 1 : Produce(h)
  BY <1>2, <1>12 DEF Start, SubscriptionEnds, NewBlock, Produce, vars
<1>13. ASSUME NEW n \in Nodes, NEW s \in Streams, Subscribe(n, s) \/ StreamEnds(n, s)
       PROVE  HeardInv'
  BY <1>2, <1>13 DEF Subscribe, StreamEnds
<1>14. ASSUME NEW t \in Tasks, Step(t) PROVE HeardInv'
  BY <1>7, <1>8, <1>9, <1>10, <1>11, <1>14 DEF Step
<1>15. CASE Events
  BY <1>3, <1>4, <1>5, <1>6, <1>15, <1>16 DEF Events
<1> QED BY <1>1, <1>11, <1>12, <1>13, <1>14, <1>15 DEF Next, LifeCycle, BlockService

\* Every session a listener hears of that is still named has an event ahead of it, in
\* the queue of its listener, or the task of one, that will disconnect the peer.
THEOREM HeardSessionsGone == Spec => []HeardSessionsDropped
<1>1. Init => HeardInv
  BY DEF Init, HeardInv, NoSessions
<1>2. TypeOK /\ HeardInv /\ [Next]_vars => TypeOK' /\ HeardInv'
  BY TypeOKNext, HeardInvNext
<1>3. HeardInv => HeardSessionsDropped
  BY DEF HeardInv, Queued, Remover, HeardSessionsDropped
<1> QED BY <1>1, <1>2, <1>3, TypeOKInit, PTL DEF Spec

-----------------------------------------------------------------------------
(* The process implements the catalog                                      *)

(***************************************************************************)
(* As for the listeners: a write takes one sighting out of the pending set *)
(* because the stamps of the sightings the tasks hold are distinct.        *)
(***************************************************************************)
SightingsDistinct ==
  /\ \A t \in Observers : task[t].last_seen <= clock /\ task[t].client \in Versions
  /\ \A t, u \in Observers : task[t].last_seen = task[u].last_seen => t = u

SightingInv == TypeOK /\ SightingsDistinct

\* A step after which the same tasks hold the same sightings...
SameSightings ==
  /\ UNCHANGED <<db, clock>>
  /\ Observers' = Observers
  /\ \A u \in Observers : SightingOf(task[u])' = SightingOf(task[u])

\* ...one of t that accepts a peer, and one that lets go of a sighting.
Accepts(t) ==
  /\ t \notin Observers /\ Observers' = Observers \union {t} /\ UNCHANGED db
  /\ task[t] \in Locals /\ clock' = clock + 1
  /\ task'[t].client \in Versions /\ task'[t].last_seen = clock'
  /\ task'[t].id = task[t].id /\ task'[t].address = task[t].address
  /\ \A u \in Tasks \ {t} : task'[u] = task[u]
LetsGo(t) ==
  /\ t \in Observers /\ Observers' = Observers \ {t} /\ UNCHANGED clock
  /\ db' = db \/ db' = [db EXCEPT ![task[t].id] = task[t]]
  /\ \A u \in Tasks \ {t} : task'[u] = task[u]

\* Every step is one of the three or ends the process.
LEMMA SightingSteps ==
  ASSUME TypeOK, [Next]_vars
  PROVE  SameSightings \/ Exit \/ \E t \in Tasks : Accepts(t) \/ LetsGo(t)
<1> USE DEF network, tasks, provider, oracle
<1>1. ASSUME UNCHANGED <<pc, task, db, clock>> PROVE SameSightings
  BY <1>1 DEF SameSightings, Observers, SightingOf
<1>2. ASSUME NEW t \in Tasks, NEW n, NEW r, NEW client, NEW h,
             NEW entry \in {"contact", "session"}, Spawn(t, n, r, client, h, entry)
      PROVE  SameSightings
  BY <1>2 DEF TypeOK, Spawn, SameSightings, Observers, SightingOf
<1>3. ASSUME NEW t \in Tasks, NEW from \in {"contact", "session"}, NEW client \in Clients,
             NEW h \in Hashes, Sight(t, from, client, h)
      PROVE  Accepts(t)
  <2>1. /\ pc[t] = from /\ pc' = [pc EXCEPT ![t] = "geo"] /\ db' = db
        /\ client \in Versions /\ clock' = clock + 1
        /\ task'[t].id = task[t].id /\ task'[t].address = task[t].address
        /\ task'[t].client = client /\ task'[t].last_seen = clock'
        /\ \A u \in Tasks \ {t} : task'[u] = task[u]
    BY <1>3, SightEffect
  <2>2. t \notin Observers /\ Observers' = Observers \union {t}
    BY <2>1 DEF Observers, TypeOK
  <2>3. task[t] \in Locals
    BY <2>1, TaskType
  <2> QED BY <2>1, <2>2, <2>3 DEF Accepts
<1>4. ASSUME NEW t \in Tasks, NEW from \in {"contact", "session"}, Finish(t, from),
             UNCHANGED <<db, clock>>
      PROVE  SameSightings
  BY <1>4 DEF TypeOK, Finish, Goto, SameSightings, Observers, SightingOf
<1>5. ASSUME NEW t \in Tasks, SavePeer(t) \/ SaveFails(t) PROVE LetsGo(t)
  BY <1>5 DEF TypeOK, SavePeer, SaveFails, Finish, Goto, LetsGo, Observers
<1>6. ASSUME NEW t \in Tasks, IsSynced(t) PROVE SameSightings
  <2>1. /\ pc[t] = "sync" /\ pc' = [pc EXCEPT ![t] = "save"] /\ UNCHANGED <<db, clock>>
        /\ task'[t].id = task[t].id /\ task'[t].address = task[t].address
        /\ task'[t].client = task[t].client /\ task'[t].last_seen = task[t].last_seen
        /\ \A u \in Tasks \ {t} : task'[u] = task[u]
    BY <1>6, IsSyncedEffect
  <2>2. Observers' = Observers
    BY <2>1 DEF Observers, TypeOK
  <2> QED BY <2>1, <2>2 DEF SameSightings, SightingOf, Observers
<1>10. ASSUME NEW t \in Tasks, Geolocate(t) PROVE SameSightings
  <2>1. pc[t] = "geo" /\ pc' = [pc EXCEPT ![t] = "sync"] /\ UNCHANGED <<db, clock, task>>
    BY <1>10 DEF Geolocate, Goto
  <2>2. Observers' = Observers
    BY <2>1 DEF Observers, TypeOK
  <2> QED BY <2>1, <2>2 DEF SameSightings, SightingOf
<1>7. ASSUME NEW t \in Tasks, Step(t) PROVE SameSightings \/ Accepts(t) \/ LetsGo(t)
  <2>1. CASE HandleSession(t)
    <3>1. Sight(t, "session", task[t].client, task[t].best_block) /\ pc[t] = "session"
      BY <2>1 DEF HandleSession, Sight, Goto
    <3>2. task[t].client \in Clients /\ task[t].best_block \in Hashes
      BY <3>1, TaskType
    <3> QED BY <1>3, <3>1, <3>2
  <2>2. CASE Refuse(t) \/ SkipSession(t)
    BY <1>4, <2>2 DEF Refuse, SkipSession
  <2>3. CASE AskSynced(t)
    BY <1>1, <2>3 DEF AskSynced
  <2>4. ASSUME NEW client \in Clients, NEW h \in Hashes, Accept(t, client, h) PROVE Accepts(t)
    BY <1>3, <2>4 DEF Accept
  <2> QED BY <1>5, <1>6, <1>7, <1>10, <2>1, <2>2, <2>3, <2>4 DEF Step
<1>8. CASE Events
  <2>1. ASSUME NEW t \in Tasks, NEW n \in Nodes, NEW r \in Records, Discovered(t, n, r)
        PROVE  SameSightings
    BY <1>2, <2>1 DEF Discovered
  <2>2. ASSUME NEW t \in Tasks, NEW n \in Nodes, SessionEstablished(t, n)
        PROVE  SameSightings
    <3>1. PICK e \in Event : Spawn(t, n, e, e.client, e.best_block, "session")
      BY <2>2, EstablishedEffect
    <3> QED BY <1>2, <3>1
  <2>3. ASSUME NEW n \in Nodes, NEW p \in Peers,
               SessionClosed(n, p) \/ \E client \in Clients : SessionUnseen(n, p, client)
        PROVE  SameSightings
    BY <1>1, <2>3 DEF SessionClosed, SessionUnseen
  <2>4. ASSUME NEW n \in Nodes, NEW r, NEW client, NEW h, SessionOpens(n, r, client, h)
        PROVE  SameSightings
    BY <1>1, <2>4 DEF SessionOpens
  <2> QED BY <1>8, <2>1, <2>2, <2>3, <2>4 DEF Events
<1>9. CASE Start \/ SubscriptionEnds \/ NewBlock \/ UNCHANGED vars
           \/ (\E t \in Tasks : Answer(t))
           \/ (\E n \in Nodes, s \in Streams : Subscribe(n, s) \/ StreamEnds(n, s))
           \/ \E h \in 0 .. HeightOf(Tip) + 1 : Produce(h)
  BY <1>1, <1>9 DEF Start, SubscriptionEnds, NewBlock, Answer, Subscribe, StreamEnds, Produce, vars
<1> QED BY <1>7, <1>8, <1>9 DEF Next, LifeCycle, BlockService

\* The locals of the tasks that hold a sighting.
LEMMA ObserverType ==
  ASSUME TypeOK, NEW t \in Observers
  PROVE  /\ t \in Tasks /\ task[t] \in Locals /\ task[t].id \in Peers
         /\ task[t].last_seen \in Nat /\ clock \in Nat
<1>1. t \in Tasks /\ pc[t] # "idle"
  BY DEF Observers
<1> QED BY <1>1, TaskType DEF TypeOK

LEMMA SightingsDistinctNext ==
  ASSUME SightingInv, [Next]_vars
  PROVE  SightingsDistinct'
<1>0. TypeOK /\ SightingsDistinct /\ clock \in Nat
  BY DEF SightingInv, TypeOK
<1>1. \A u \in Observers : task[u].last_seen \in Nat
  BY <1>0, ObserverType
<1>2. CASE SameSightings
  <2>1. \A u \in Observers :
          task'[u].last_seen = task[u].last_seen /\ task'[u].client = task[u].client
    BY <1>2 DEF SameSightings, SightingOf
  <2> QED BY <1>0, <1>2, <2>1 DEF SameSightings, SightingsDistinct
<1>3. ASSUME NEW t \in Tasks, Accepts(t) PROVE SightingsDistinct'
  <2>1. /\ clock' = clock + 1
        /\ task'[t].last_seen = clock + 1
        /\ task'[t].client \in Versions
        /\ Observers' = Observers \union {t}
        /\ t \notin Observers
        /\ \A u \in Observers : task'[u] = task[u]
    BY <1>3 DEF Accepts, Observers
  <2>2. \A u \in Observers' : task'[u].last_seen <= clock' /\ task'[u].client \in Versions
    BY <1>0, <1>1, <2>1 DEF SightingsDistinct
  <2>3. \A u \in Observers : task'[u].last_seen < task'[t].last_seen
    BY <1>0, <1>1, <2>1 DEF SightingsDistinct
  <2>4. \A u, v \in Observers' : task'[u].last_seen = task'[v].last_seen => u = v
    BY <1>0, <1>1, <2>1, <2>3 DEF SightingsDistinct
  <2> QED BY <2>2, <2>4 DEF SightingsDistinct
<1>4. ASSUME NEW t \in Tasks, LetsGo(t) PROVE SightingsDistinct'
  <2>1. /\ Observers' = Observers \ {t}
        /\ clock' = clock
        /\ \A u \in Observers' : task'[u] = task[u]
    BY <1>4 DEF LetsGo, Observers
  <2> QED BY <1>0, <2>1 DEF SightingsDistinct
<1>5. CASE Exit
  BY <1>5 DEF Exit, SightingsDistinct, Observers
<1> QED BY <1>0, <1>2, <1>3, <1>4, <1>5, SightingSteps

\* Every step is a step of the catalog or changes nothing in it.
LEMMA CatalogStepRefined ==
  ASSUME SightingInv, [Next]_vars
  PROVE  [Catalog!CatalogNext]_<<Rows, Sightings, clock>>
<1>0. TypeOK /\ SightingsDistinct
  BY DEF SightingInv
<1>1. ASSUME db' = db PROVE Rows' = Rows
  BY <1>1 DEF Rows
<1>2. CASE SameSightings
  <2>1. Sightings' = Sightings
    BY <1>2 DEF SameSightings, Sightings
  <2> QED BY <1>1, <1>2, <2>1 DEF SameSightings
<1>3. ASSUME NEW t \in Tasks, Accepts(t) PROVE Catalog!CatalogNext
  <2> DEFINE p == task[t].id
             a == task[t].address
             v == task'[t].client
  <2>1. p \in Peers /\ a \in Addrs /\ v \in Versions
    BY <1>3 DEF Accepts, Locals
  <2>2. SightingOf(task[t])' = [id |-> p, address |-> a, client |-> v, last_seen |-> clock']
    BY <1>3 DEF Accepts, SightingOf
  <2>3. \A u \in Observers : SightingOf(task[u])' = SightingOf(task[u])
    BY <1>3 DEF Accepts, SightingOf, Observers
  <2>4. Sightings' = Sightings \union {SightingOf(task[t])'}
    BY <1>3, <2>3 DEF Accepts, Sightings
  <2>5. Catalog!See(p, a, v)
    BY <1>1, <1>3, <2>2, <2>4 DEF Accepts, Catalog!See
  <2> QED BY <2>1, <2>5 DEF Catalog!CatalogNext
<1>4. ASSUME NEW t \in Tasks, LetsGo(t) PROVE Catalog!CatalogNext
  <2> DEFINE s == SightingOf(task[t])
  <2>0. task[t] \in Locals /\ task[t].id \in Peers /\ task[t] # None
    BY <1>0, <1>4, ObserverType, NoneAssumption DEF LetsGo
  <2>1. \A u \in Observers \ {t} : SightingOf(task[u])' = SightingOf(task[u])
    BY <1>4 DEF LetsGo, Observers, SightingOf
  <2>2. \A u \in Observers \ {t} : SightingOf(task[u]) # s
    BY <1>0, <1>4 DEF LetsGo, SightingsDistinct, SightingOf
  <2>3. Sightings' = Sightings \ {s} /\ s \in Sightings
    BY <1>4, <2>1, <2>2 DEF LetsGo, Sightings
  <2>4. CASE db' = db
    <3>1. Catalog!Lose({s}) /\ {s} \in SUBSET Sightings
      BY <1>1, <1>4, <2>3, <2>4 DEF LetsGo, Catalog!Lose
    <3> QED BY <3>1 DEF Catalog!CatalogNext
  <2>5. CASE db' = [db EXCEPT ![task[t].id] = task[t]]
    <3>1. s.id = task[t].id /\ Catalog!RowOf(s) = RowOf(task[t])
      BY DEF SightingOf, RowOf, Catalog!RowOf
    <3>2. \A p \in Peers : db'[p] = IF p = s.id THEN task[t] ELSE db[p]
      BY <1>0, <2>5, <3>1 DEF TypeOK
    <3>3. Rows' = [Rows EXCEPT ![s.id] = Catalog!RowOf(s)]
      BY <2>0, <3>1, <3>2 DEF Rows, RowOf
    <3>4. Catalog!Store(s)
      BY <1>4, <2>3, <3>3 DEF LetsGo, Catalog!Store
    <3> QED BY <2>3, <3>4 DEF Catalog!CatalogNext
  <2> QED BY <1>4, <2>4, <2>5 DEF LetsGo
<1>5. CASE Exit
  <2>1. Sightings' = {} /\ db' = db /\ clock' = clock
    BY <1>5 DEF Exit, Sightings, Observers
  <2>2. Catalog!Lose(Sightings) /\ Sightings \in SUBSET Sightings
    BY <1>1, <2>1 DEF Catalog!Lose
  <2> QED BY <2>2 DEF Catalog!CatalogNext
<1> QED BY <1>0, <1>2, <1>3, <1>4, <1>5, SightingSteps

\* However often the process stops and starts, the database holds for each peer id
\* nothing or one whole sighting, and every change of it stores one such sighting.
THEOREM ProcessPublishesSightings == Spec => PublishesSightings
<1>1. Init => SightingInv /\ Catalog!CatalogInit
  <2>1. Init => SightingsDistinct /\ Catalog!CatalogInit
    BY DEF Init, SightingsDistinct, Observers, Catalog!CatalogInit, Rows, Sightings
  <2> QED BY <2>1, TypeOKInit DEF SightingInv
<1>2. SightingInv /\ [Next]_vars => SightingInv'
  BY TypeOKNext, SightingsDistinctNext DEF SightingInv
<1>3. SightingInv /\ [Next]_vars => [Catalog!CatalogNext]_<<Rows, Sightings, clock>>
  BY CatalogStepRefined
<1> QED
  BY <1>1, <1>2, <1>3, PTL
  DEF Spec, PublishesSightings, Catalog!CatalogSpec, Catalog!catalogVars

=============================================================================
