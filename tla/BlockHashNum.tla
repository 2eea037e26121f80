----------------------------- MODULE BlockHashNum -----------------------------
(***************************************************************************)
(* How the crawler tells whether a peer is synced.  The StateListener      *)
(* follows the provider's newHeads subscription and sends every block to   *)
(* the BlockHashNum service, which keeps the latest ones in an LRU cache;  *)
(* the peer tasks ask the service whether a peer's head is in there.       *)
(*                                                                         *)
(* The service is one future with two queues.  A poll answers the queued   *)
(* requests first and applies the queued blocks after; tokio's cooperative *)
(* budget, which both receivers spend, ends a poll that goes on for long.  *)
(***************************************************************************)
EXTENDS RecencyList, FiniteSets

CONSTANTS
  Askers,             \* tasks that query the service
  Capacity,           \* SYNCED_THRESHOLD
  Budget,             \* tokio's cooperative budget for one poll
  Known,              \* blocks of the provider's chain when the crawler starts
  MaxAnnouncements    \* bound on the heads the provider announces

ASSUME CapacityAssumption == Capacity \in Nat \ {0}
ASSUME BudgetAssumption == Budget \in Nat \ {0}
ASSUME BoundAssumption == Known \in Nat \ {0} /\ MaxAnnouncements \in Nat

\* Blocks are numbered in the order in which they are produced; 0 is the head
\* of a peer on some other chain.
Hashes == 0 .. Known + MaxAnnouncements

VARIABLES
  branch,      \* the chain that ends in each block, empty for those not produced yet
  tip,         \* the head the provider announced last
  produced,    \* how many blocks exist: their hashes are 1 .. produced
  announced,   \* how many heads the provider has announced
  feed,        \* announcements the listener has not read
  open,        \* whether the subscription is alive
  listener,    \* the StateListener: "next", "await" or "ended"
  updates,     \* block_subscription_rx
  requests,    \* command_rx, by asker
  phase,       \* the service: "parked", "commands" or "updates"
  budget,      \* what is left of the poll's budget
  cache,       \* blocks_hash_to_number, the most recently put first
  query,       \* the query of each asker
  learned      \* history: every hash put, the most recently put first

provider == <<branch, tip, produced, announced>>
stream   == <<feed, open>>
vars     == <<provider, stream, listener, updates, requests, phase, budget, cache, query, learned>>

Oracle == INSTANCE SyncOracle WITH Window <- Capacity

TypeOK ==
  /\ branch \in [Hashes -> Seq(Hashes)]
  /\ announced \in 0 .. MaxAnnouncements
  /\ produced \in Known .. Known + announced
  /\ tip \in 1 .. produced
  /\ feed \in Seq(Hashes)
  /\ open \in BOOLEAN
  /\ listener \in {"next", "await", "ended"}
  /\ updates \in Seq(Hashes)
  /\ requests \in Seq(Askers)
  /\ phase \in {"parked", "commands", "updates"}
  /\ budget \in 0 .. Budget
  /\ cache \in Seq(Hashes)
  /\ query \in [Askers -> [status: {"idle", "asked", "answered"}, hash: Hashes, answer: BOOLEAN]]
  /\ learned \in Seq(Hashes)

Init ==
  /\ branch = [h \in Hashes |-> [k \in 1 .. (IF h <= Known THEN h ELSE 0) |-> k]]
  /\ tip = Known
  /\ produced = Known
  /\ announced = 0
  /\ feed = <<>>
  /\ open = TRUE
  /\ listener = "next"
  /\ updates = <<>>
  /\ requests = <<>>
  /\ phase = "parked"
  /\ budget = 0
  /\ cache = <<>>
  /\ query = [i \in Askers |-> Oracle!Idle]
  /\ learned = <<>>

-----------------------------------------------------------------------------
(* External: the provider                                                  *)

Chain == branch[tip]
Height(h) == Len(branch[h])
Fresh == produced + 1

\* Bound: the provider announces at most MaxAnnouncements heads.
Announce(h) ==
  /\ announced < MaxAnnouncements
  /\ announced' = announced + 1
  /\ tip' = h
  /\ feed' = IF open THEN Append(feed, h) ELSE feed
  /\ UNCHANGED <<open, listener, updates, requests, phase, budget, cache, query, learned>>

\* A new block on top of the first k of the chain.
Produce(k) ==
  /\ Announce(Fresh)
  /\ produced' = Fresh
  /\ branch' = [branch EXCEPT ![Fresh] = Append(SubSeq(Chain, 1, k), Fresh)]

Extend == Produce(Len(Chain))

\* The chain forks off after k blocks.  A reorganisation of several blocks is announced
\* head by head from the fork on, so the chain is shorter for some announcements.
Reorg(k) ==
  /\ k < Len(Chain)
  /\ Produce(k)

\* A block that was reorganised away is back, on the parent it has always had.
ReorgBack(h) ==
  /\ h \in 1 .. produced
  /\ Height(h) <= Len(Chain) + 1
  /\ branch[h] = Append(SubSeq(Chain, 1, Height(h) - 1), h)
  /\ ~In(Chain, h)
  /\ Announce(h)
  /\ UNCHANGED <<branch, produced>>

\* The websocket fails: what was received can still be read, nothing follows.
SubscriptionEnds ==
  /\ open
  /\ open' = FALSE
  /\ UNCHANGED <<provider, feed, listener, updates, requests, phase, budget, cache, query, learned>>

-----------------------------------------------------------------------------
(* block_subscription_manager                                              *)

\* One block at a time: new_block waits for the service before the next one.
NewBlock ==
  /\ listener = "next"
  /\ feed # <<>>
  /\ feed' = Tail(feed)
  /\ updates' = Append(updates, Head(feed))
  /\ listener' = "await"
  /\ UNCHANGED <<provider, open, requests, phase, budget, cache, query, learned>>

\* The stream is over: the listener returns and nobody starts it again.
ListenerEnds ==
  /\ listener = "next"
  /\ feed = <<>> /\ ~open
  /\ listener' = "ended"
  /\ UNCHANGED <<provider, stream, updates, requests, phase, budget, cache, query, learned>>

-----------------------------------------------------------------------------
(* is_block_hash_present                                                   *)

IsBlockHashPresent(i, h) ==
  /\ query[i].status = "idle"
  /\ query' = [query EXCEPT ![i] = Oracle!Asked(h)]
  /\ requests' = Append(requests, i)
  /\ UNCHANGED <<provider, stream, listener, updates, phase, budget, cache, learned>>

Return(i) ==
  /\ query[i].status = "answered"
  /\ query' = [query EXCEPT ![i] = Oracle!Idle]
  /\ UNCHANGED <<provider, stream, listener, updates, requests, phase, budget, cache, learned>>

-----------------------------------------------------------------------------
(* The service: Future::poll                                               *)

\* LruCache::contains does not refresh the key.
IsPresent(h) == In(cache, h)

\* Mutant: a key that is there keeps its place.
PutInPlace(h) == cache' = IF In(cache, h) THEN cache ELSE Firsts(Touch(cache, h), Capacity)

\* Mutant: one slot more than SYNCED_THRESHOLD.
PutOneMore(h) == cache' = Firsts(Touch(cache, h), Capacity + 1)

\* Mutant: one slot less.
PutOneLess(h) == cache' = Firsts(Touch(cache, h), Capacity - 1)

\* LruCache::put: the key becomes the most recent; the least recent is evicted.
Put(h) == cache' = Firsts(Touch(cache, h), Capacity)

\* Mutant: the queues do not spend the budget.
EmptyOnly(queue) == queue = <<>>

Exhausted(queue) == queue = <<>> \/ budget = 0

\* Mutant: only blocks wake the service.
WakeOnUpdates ==
  /\ phase = "parked"
  /\ updates # <<>>
  /\ phase' = "commands"
  /\ budget' = Budget
  /\ UNCHANGED <<provider, stream, listener, updates, requests, cache, query, learned>>

\* Mutant: only requests wake the service.
WakeOnRequests ==
  /\ phase = "parked"
  /\ requests # <<>>
  /\ phase' = "commands"
  /\ budget' = Budget
  /\ UNCHANGED <<provider, stream, listener, updates, requests, cache, query, learned>>

\* A message in either queue wakes the service, as does a spent budget.
Wake ==
  /\ phase = "parked"
  /\ requests # <<>> \/ updates # <<>>
  /\ phase' = "commands"
  /\ budget' = Budget
  /\ UNCHANGED <<provider, stream, listener, updates, requests, cache, query, learned>>

AnswerRequest ==
  LET i == Head(requests)
  IN  /\ phase = "commands"
      /\ ~Exhausted(requests)
      /\ requests' = Tail(requests)
      /\ query' = [query EXCEPT ![i] = Oracle!Answered(IsPresent(@.hash))]
      /\ budget' = budget - 1
      /\ UNCHANGED <<provider, stream, listener, updates, phase, cache, learned>>

CommandsDone ==
  /\ phase = "commands"
  /\ Exhausted(requests)
  /\ phase' = "updates"
  /\ UNCHANGED <<provider, stream, listener, updates, requests, budget, cache, query, learned>>

ApplyUpdate ==
  LET h == Head(updates)
  IN  /\ phase = "updates"
      /\ ~Exhausted(updates)
      /\ updates' = Tail(updates)
      /\ Put(h)
      /\ learned' = Touch(learned, h)
      /\ listener' = "next"
      /\ budget' = budget - 1
      /\ UNCHANGED <<provider, stream, requests, phase, query>>

Park ==
  /\ phase = "updates"
  /\ Exhausted(updates)
  /\ phase' = "parked"
  /\ UNCHANGED <<provider, stream, listener, updates, requests, budget, cache, query, learned>>

Poll == Wake \/ AnswerRequest \/ CommandsDone \/ ApplyUpdate \/ Park

-----------------------------------------------------------------------------
(* The specification                                                       *)

Next ==
  \/ Extend
  \/ \E k \in Hashes : Reorg(k)
  \/ \E h \in Hashes : ReorgBack(h)
  \/ SubscriptionEnds
  \/ NewBlock
  \/ ListenerEnds
  \/ \E i \in Askers, h \in Hashes : IsBlockHashPresent(i, h)
  \/ \E i \in Askers : Return(i)
  \/ Poll

Spec == Init /\ [][Next]_vars

\* tokio polls a future that was woken, and the listener reads what the socket
\* received; neither the provider nor the peers promise anything.
Fairness == WF_vars(Poll) /\ WF_vars(NewBlock)

FairSpec == Spec /\ Fairness

-----------------------------------------------------------------------------
(* Properties                                                              *)

\* The cache holds the Capacity hashes announced last and nothing else, in
\* the order of their last announcement: queries never refresh a key, and a
\* block announced again is not evicted before older ones.
CacheIsRecent == cache = Firsts(learned, Capacity)

\* A hash in the cache is less than Capacity blocks behind the last block applied, however
\* many blocks were reorganised and in the middle of it: no lagging peer is called synced.
SyncedMeansClose ==
  \A k \in 1 .. Len(cache) : Height(cache[1]) < Height(cache[k]) + Capacity

\* A block on the chain of the last block learned is in the cache, if it was learned, as
\* long as its lag and the blocks reorganised away fit in Capacity together: stale blocks
\* take slots, but no more than one each.
LastChain == branch[learned[1]]
StaleHashes == {h \in 1 .. produced : In(learned, h) /\ ~In(LastChain, h)}
CanonicalKept ==
  learned # <<>> =>
    \A k \in 1 .. Len(LastChain) :
      In(learned, LastChain[k]) /\ (Len(LastChain) - k) + Cardinality(StaleHashes) < Capacity
        => In(cache, LastChain[k])

\* On a chain never reorganised the answer is exact: of the blocks learned, present
\* are those less than Capacity behind the last one.
NeverReorganised == Len(Chain) = produced
ExactWithoutReorgs ==
  NeverReorganised =>
    \A k \in 1 .. Len(learned) :
      In(cache, learned[k]) <=> Height(learned[1]) < Height(learned[k]) + Capacity

\* The service answers as the oracle does, and answers every query.
ImplementsOracle == Oracle!OracleSpec

\* A block the listener received is learned, unless queries take the whole
\* budget of one poll after another and no poll gets to the blocks.
Starved == phase = "updates" /\ budget = 0 /\ updates # <<>>
BlocksLearned == []<>Starved \/ \A h \in Hashes : In(feed, h) ~> In(learned, h)

\* SYNCED_THRESHOLD is how many blocks a node may lag and still be synced: a
\* block learned is recognised at that distance, on a chain never reorganised.
ThresholdLagIsSynced ==
  NeverReorganised =>
    \A k \in 1 .. Len(learned) :
      Height(learned[1]) <= Height(learned[k]) + Capacity => In(cache, learned[k])

=============================================================================
