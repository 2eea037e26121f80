-------------------------- MODULE BlockHashNumProofs --------------------------
(***************************************************************************)
(* Theorems about the block service, for any capacity, budget and number   *)
(* of askers.                                                              *)
(***************************************************************************)
EXTENDS BlockHashNum, RecencyListProofs, FiniteSetTheorems, SequenceTheorems

-----------------------------------------------------------------------------
(* Type correctness                                                        *)

Query == [status: {"idle", "asked", "answered"}, hash: Hashes, answer: BOOLEAN]

LEMMA QueryTypes ==
  ASSUME NEW h \in Hashes, NEW b \in BOOLEAN
  PROVE  Oracle!Idle \in Query /\ Oracle!Asked(h) \in Query /\ Oracle!Answered(b) \in Query
BY BoundAssumption DEF Oracle!Idle, Oracle!Asked, Oracle!Answered, Query, Hashes

LEMMA TypeOKInit == Init => TypeOK
<1> SUFFICES ASSUME Init PROVE TypeOK
  OBVIOUS
<1>1. 0 \in Hashes /\ Known \in Nat /\ Known >= 1 /\ 1 .. Known \subseteq Hashes
  BY BoundAssumption DEF Hashes
<1>2. Oracle!Idle \in Query
  BY <1>1 DEF Oracle!Idle, Query
<1>3. query \in [Askers -> Query]
  BY <1>2 DEF Init
<1>4. branch \in [Hashes -> Seq(Hashes)]
  <2>1. ASSUME NEW n \in 0 .. Known PROVE [k \in 1 .. n |-> k] \in Seq(Hashes)
    <3>1. n \in Nat /\ \A k \in 1 .. n : k \in Hashes
      BY <1>1
    <3> QED BY <3>1
  <2>2. \A h \in Hashes : (IF h <= Known THEN h ELSE 0) \in 0 .. Known
    BY <1>1 DEF Hashes
  <2>3. \A h \in Hashes : [k \in 1 .. (IF h <= Known THEN h ELSE 0) |-> k] \in Seq(Hashes)
    BY <2>1, <2>2
  <2> QED BY <2>3 DEF Init
<1> QED BY <1>1, <1>3, <1>4, BoundAssumption, BudgetAssumption DEF Init, TypeOK, Query

\* Announcing a head keeps the types of what the provider and the feed hold.
LEMMA AnnounceType ==
  ASSUME TypeOK, NEW h \in Hashes, Announce(h)
  PROVE  announced' \in 0 .. MaxAnnouncements /\ announced' = announced + 1 /\ feed' \in Seq(Hashes)
BY BoundAssumption DEF TypeOK, Announce

\* The branch of a new block on top of the first k of the chain.
LEMMA ProduceEffect ==
  ASSUME TypeOK, NEW k \in Nat, k <= Len(Chain), Produce(k)
  PROVE  /\ Fresh \in Hashes /\ Fresh = produced + 1 /\ Chain \in Seq(Hashes)
         /\ branch' \in [Hashes -> Seq(Hashes)]
         /\ \A h \in Hashes \ {Fresh} : branch'[h] = branch[h]
         /\ Len(branch'[Fresh]) = k + 1 /\ branch'[Fresh][k + 1] = Fresh
         /\ \A i \in 1 .. k : branch'[Fresh][i] = Chain[i]
<1>1. Fresh \in Hashes /\ Fresh = produced + 1
  BY BoundAssumption DEF TypeOK, Produce, Announce, Fresh, Hashes
<1>2. tip \in Hashes /\ Chain \in Seq(Hashes)
  BY BoundAssumption DEF TypeOK, Chain, Hashes
<1> DEFINE kept == SubSeq(Chain, 1, k)
<1>3. kept \in Seq(Hashes) /\ Len(kept) = k /\ \A i \in 1 .. k : kept[i] = Chain[i]
  <2>1. \A i \in 1 .. k : Chain[i] \in Hashes
    BY <1>2
  <2>2. /\ kept \in Seq(Hashes) /\ Len(kept) = IF 1 <= k THEN k - 1 + 1 ELSE 0
        /\ \A i \in 1 .. k - 1 + 1 : kept[i] = Chain[1 + i - 1]
    BY <2>1, SubSeqProperties
  <2> QED BY <2>2
<1> HIDE DEF kept
<1>4. /\ Append(kept, Fresh) \in Seq(Hashes)
      /\ Len(Append(kept, Fresh)) = k + 1 /\ Append(kept, Fresh)[k + 1] = Fresh
      /\ \A i \in 1 .. k : Append(kept, Fresh)[i] = Chain[i]
  BY <1>1, <1>3
<1>5. branch' = [branch EXCEPT ![Fresh] = Append(kept, Fresh)]
  BY DEF Produce, kept
<1> QED BY <1>1, <1>2, <1>4, <1>5 DEF TypeOK

LEMMA ProduceType ==
  ASSUME TypeOK, NEW k \in Nat, k <= Len(Chain), Produce(k)
  PROVE  TypeOK'
<1>1. Fresh \in Hashes /\ Fresh = produced + 1 /\ branch' \in [Hashes -> Seq(Hashes)]
  BY ProduceEffect
<1>2. announced' \in 0 .. MaxAnnouncements /\ announced' = announced + 1 /\ feed' \in Seq(Hashes)
  BY <1>1, AnnounceType DEF Produce
<1>3. produced' = produced + 1 /\ tip' = produced + 1
  BY <1>1 DEF Produce, Announce
<1>4. produced' \in Known .. Known + announced' /\ tip' \in 1 .. produced'
  BY <1>2, <1>3, BoundAssumption DEF TypeOK
<1> QED BY <1>1, <1>2, <1>4 DEF Produce, Announce, TypeOK

LEMMA TypeOKNext == TypeOK /\ [Next]_vars => TypeOK'
<1> SUFFICES ASSUME TypeOK, [Next]_vars PROVE TypeOK'
  OBVIOUS
<1> USE DEF provider, stream
<1>0. query \in [Askers -> Query]
  BY DEF TypeOK, Query
<1>1. CASE UNCHANGED vars
  BY <1>1 DEF TypeOK, vars
<1>2. CASE Extend
  <2>1. Len(Chain) \in Nat
    BY BoundAssumption DEF TypeOK, Chain, Hashes
  <2> QED BY <1>2, <2>1, ProduceType DEF Extend
<1>3. ASSUME NEW k \in Hashes, Reorg(k) PROVE TypeOK'
  <2>1. Len(Chain) \in Nat /\ k \in Nat
    BY BoundAssumption DEF TypeOK, Chain, Hashes
  <2> QED BY <1>3, <2>1, ProduceType DEF Reorg
<1>3a. ASSUME NEW h \in Hashes, ReorgBack(h) PROVE TypeOK'
  <2>1. announced' \in 0 .. MaxAnnouncements /\ announced' = announced + 1 /\ feed' \in Seq(Hashes)
    BY <1>3a, AnnounceType DEF ReorgBack
  <2>2. tip' = h /\ h \in 1 .. produced /\ produced' = produced /\ branch' = branch
    BY <1>3a DEF ReorgBack, Announce
  <2> QED BY <1>3a, <2>1, <2>2, BoundAssumption DEF ReorgBack, Announce, TypeOK
<1>4. CASE SubscriptionEnds
  BY <1>4 DEF TypeOK, SubscriptionEnds
<1>5. CASE NewBlock
  <2>1. feed' \in Seq(Hashes) /\ updates' \in Seq(Hashes)
    BY <1>5 DEF TypeOK, NewBlock
  <2> QED BY <1>5, <2>1 DEF TypeOK, NewBlock
<1>6. CASE ListenerEnds
  BY <1>6 DEF TypeOK, ListenerEnds
<1>7. ASSUME NEW i \in Askers, NEW h \in Hashes, IsBlockHashPresent(i, h) PROVE TypeOK'
  <2>1. query' \in [Askers -> Query]
    BY <1>0, <1>7, QueryTypes DEF IsBlockHashPresent
  <2>2. requests' \in Seq(Askers)
    BY <1>7 DEF TypeOK, IsBlockHashPresent
  <2> QED BY <1>7, <2>1, <2>2 DEF TypeOK, IsBlockHashPresent, Query
<1>8. ASSUME NEW i \in Askers, Return(i) PROVE TypeOK'
  <2>1. 0 \in Hashes
    BY BoundAssumption DEF Hashes
  <2>2. query' \in [Askers -> Query]
    BY <1>0, <1>8, <2>1, QueryTypes DEF Return
  <2> QED BY <1>8, <2>2 DEF TypeOK, Return, Query
<1>9. CASE Wake
  BY <1>9, BudgetAssumption DEF TypeOK, Wake
<1>10. CASE AnswerRequest
  <2>1. requests # <<>> /\ budget # 0
    BY <1>10 DEF AnswerRequest, Exhausted
  <2>2. Head(requests) \in Askers /\ Tail(requests) \in Seq(Askers)
    BY <2>1 DEF TypeOK
  <2>3. query[Head(requests)].hash \in Hashes
    BY <1>0, <2>2 DEF Query
  <2>4. IsPresent(query[Head(requests)].hash) \in BOOLEAN
    BY DEF IsPresent, In
  <2>5. query' \in [Askers -> Query]
    BY <1>0, <1>10, <2>2, <2>3, <2>4, QueryTypes DEF AnswerRequest
  <2>6. budget' \in 0 .. Budget
    BY <1>10, <2>1, BudgetAssumption DEF TypeOK, AnswerRequest
  <2> QED BY <1>10, <2>2, <2>5, <2>6 DEF TypeOK, AnswerRequest, Query
<1>11. CASE CommandsDone
  BY <1>11 DEF TypeOK, CommandsDone
<1>12. CASE ApplyUpdate
  <2>1. updates # <<>> /\ budget # 0
    BY <1>12 DEF ApplyUpdate, Exhausted
  <2>2. Head(updates) \in Hashes /\ Tail(updates) \in Seq(Hashes)
    BY <2>1 DEF TypeOK
  <2>3. cache \in Seq(Hashes) /\ learned \in Seq(Hashes) /\ Capacity \in Nat
    BY CapacityAssumption DEF TypeOK
  <2>4. Touch(cache, Head(updates)) \in Seq(Hashes)
    BY <2>2, <2>3, TouchType
  <2>5. cache' \in Seq(Hashes)
    BY <1>12, <2>3, <2>4, FirstsType DEF ApplyUpdate, Put
  <2>6. learned' \in Seq(Hashes)
    BY <1>12, <2>2, <2>3, TouchType DEF ApplyUpdate
  <2>7. budget' \in 0 .. Budget
    BY <1>12, <2>1, BudgetAssumption DEF TypeOK, ApplyUpdate
  <2> QED BY <1>12, <2>2, <2>5, <2>6, <2>7 DEF TypeOK, ApplyUpdate
<1>13. CASE Park
  BY <1>13 DEF TypeOK, Park
<1> QED
  BY <1>1, <1>2, <1>3, <1>4, <1>5, <1>6, <1>7, <1>8, <1>9, <1>10, <1>11, <1>12, <1>13, <1>3a
  DEF Next, Poll

\* The variables keep their types.
THEOREM TypeCorrect == Spec => []TypeOK
BY TypeOKInit, TypeOKNext, PTL DEF Spec

-----------------------------------------------------------------------------
(* The cache                                                               *)

(***************************************************************************)
(* The cache is cut to its capacity at every put, the history never.  That *)
(* the one is always the beginning of the other needs the items of the     *)
(* history to be distinct, which Touch preserves (FirstsTouch,             *)
(* TouchDistinct).                                                         *)
(***************************************************************************)
CacheInv == TypeOK /\ Distinct(learned) /\ CacheIsRecent

LEMMA CacheInvInit == Init => CacheInv
<1> SUFFICES ASSUME Init PROVE CacheInv
  OBVIOUS
<1>1. TypeOK
  BY TypeOKInit
<1>2. learned = <<>> /\ cache = <<>>
  BY DEF Init
<1>3. Distinct(learned)
  BY <1>2 DEF Distinct
<1>4. /\ learned \in Seq(Hashes) /\ Capacity \in Nat
      /\ cache \in Seq(Hashes) /\ Len(cache) = 0 /\ Len(learned) = 0
  BY <1>1, <1>2, CapacityAssumption DEF TypeOK
<1>5. Firsts(learned, Capacity) \in Seq(Hashes) /\ Len(Firsts(learned, Capacity)) = 0
  <2>1. Len(Firsts(learned, Capacity)) = IF Len(learned) <= Capacity THEN Len(learned) ELSE Capacity
    BY <1>4, FirstsType
  <2>2. Firsts(learned, Capacity) \in Seq(Hashes)
    BY <1>4, FirstsType
  <2> QED BY <1>4, <2>1, <2>2, CapacityAssumption
<1>6. CacheIsRecent
  BY <1>4, <1>5, SeqEqual DEF CacheIsRecent
<1> QED BY <1>1, <1>3, <1>6 DEF CacheInv

LEMMA CacheInvNext == CacheInv /\ [Next]_vars => CacheInv'
<1> SUFFICES ASSUME CacheInv, [Next]_vars PROVE CacheInv'
  OBVIOUS
<1>1. TypeOK'
  BY TypeOKNext DEF CacheInv
<1>2. CASE UNCHANGED <<cache, learned>>
  BY <1>1, <1>2 DEF CacheInv, CacheIsRecent
<1>3. CASE ApplyUpdate
  <2> DEFINE h == Head(updates)
  <2>1. h \in Hashes
    BY <1>3 DEF CacheInv, TypeOK, ApplyUpdate, Exhausted
  <2>2. learned \in Seq(Hashes) /\ Distinct(learned) /\ cache = Firsts(learned, Capacity)
    BY DEF CacheInv, TypeOK, CacheIsRecent
  <2>3. learned' = Touch(learned, h) /\ cache' = Firsts(Touch(cache, h), Capacity)
    BY <1>3 DEF ApplyUpdate, Put
  <2>4. Distinct(learned')
    BY <2>1, <2>2, <2>3, TouchDistinct
  <2>5. cache' = Firsts(learned', Capacity)
    BY <2>1, <2>2, <2>3, FirstsTouch, CapacityAssumption
  <2> QED BY <1>1, <2>4, <2>5 DEF CacheInv, CacheIsRecent
<1> QED
  BY <1>2, <1>3
  DEF Next, vars, Extend, Reorg, ReorgBack, Produce, Announce, SubscriptionEnds, NewBlock, ListenerEnds,
      IsBlockHashPresent, Return, Poll, Wake, AnswerRequest, CommandsDone, Park

\* The cache is at all times the Capacity blocks announced last, in order,
\* however queries and blocks interleave.
THEOREM CacheHoldsMostRecent == Spec => []CacheIsRecent
<1>1. CacheInv => CacheIsRecent
  BY DEF CacheInv
<1> QED BY <1>1, CacheInvInit, CacheInvNext, PTL DEF Spec

-----------------------------------------------------------------------------
(* The service implements the oracle                                       *)

(***************************************************************************)
(* An answer must go to an asker that waits for it: the queue holds each   *)
(* asker at most once and only while its query is open.                    *)
(***************************************************************************)
QueueInv ==
  /\ Distinct(requests)
  /\ \A k \in 1 .. Len(requests) : query[requests[k]].status = "asked"

OracleInv == CacheInv /\ QueueInv

LEMMA QueueInvNext == TypeOK /\ QueueInv /\ [Next]_vars => QueueInv'
<1> SUFFICES ASSUME TypeOK, QueueInv, [Next]_vars PROVE QueueInv'
  OBVIOUS
<1>0. /\ requests \in Seq(Askers)
      /\ query \in [Askers -> Query]
      /\ \A k \in 1 .. Len(requests) : requests[k] \in Askers
  BY DEF TypeOK, Query
<1>1. CASE UNCHANGED <<requests, query>>
  BY <1>1 DEF QueueInv, Distinct
<1>2. ASSUME NEW i \in Askers, NEW h \in Hashes, IsBlockHashPresent(i, h) PROVE QueueInv'
  <2>1. /\ requests' = Append(requests, i)
        /\ query' = [query EXCEPT ![i] = Oracle!Asked(h)]
        /\ query[i].status = "idle"
    BY <1>2 DEF IsBlockHashPresent
  <2>2. \A k \in 1 .. Len(requests) : requests[k] # i
    BY <2>1 DEF QueueInv
  <2>3. /\ Len(requests') = Len(requests) + 1 /\ Len(requests) \in Nat
        /\ \A k \in 1 .. Len(requests) : requests'[k] = requests[k]
        /\ requests'[Len(requests) + 1] = i
    BY <1>0, <2>1
  <2>4. query'[i].status = "asked" /\ \A j \in Askers \ {i} : query'[j] = query[j]
    BY <1>0, <2>1 DEF Oracle!Asked
  <2>5. Distinct(requests')
    BY <2>2, <2>3 DEF QueueInv, Distinct
  <2>6. \A k \in 1 .. Len(requests') : query'[requests'[k]].status = "asked"
    BY <1>0, <2>2, <2>3, <2>4 DEF QueueInv
  <2> QED BY <2>5, <2>6 DEF QueueInv
<1>3. ASSUME NEW i \in Askers, Return(i) PROVE QueueInv'
  <2>1. /\ requests' = requests
        /\ \A j \in Askers \ {i} : query'[j] = query[j]
        /\ query[i].status = "answered"
    BY <1>0, <1>3 DEF Return, stream, provider
  <2> QED BY <1>0, <2>1 DEF QueueInv, Distinct
<1>4. CASE AnswerRequest
  <2>1. /\ requests # <<>> /\ requests' = Tail(requests)
        /\ \A j \in Askers \ {Head(requests)} : query'[j] = query[j]
    BY <1>0, <1>4 DEF AnswerRequest, Exhausted
  <2>2. /\ Len(requests) \in Nat /\ Len(requests) > 0 /\ Head(requests) = requests[1]
        /\ Len(requests') = Len(requests) - 1
        /\ \A k \in 1 .. Len(requests') : requests'[k] = requests[k + 1]
    BY <1>0, <2>1
  <2>3. \A k \in 1 .. Len(requests') : requests'[k] # Head(requests)
    BY <2>2 DEF QueueInv, Distinct
  <2>4. Distinct(requests')
    BY <2>2 DEF QueueInv, Distinct
  <2>5. \A k \in 1 .. Len(requests') : query'[requests'[k]].status = "asked"
    BY <1>0, <2>1, <2>2, <2>3 DEF QueueInv
  <2> QED BY <2>4, <2>5 DEF QueueInv
<1> QED
  BY <1>1, <1>2, <1>3, <1>4
  DEF Next, vars, Extend, Reorg, ReorgBack, Produce, Announce, SubscriptionEnds, NewBlock, ListenerEnds, Poll, Wake,
      CommandsDone, ApplyUpdate, Park

LEMMA OracleInvInit == Init => OracleInv
<1> SUFFICES ASSUME Init PROVE OracleInv
  OBVIOUS
<1>1. CacheInv
  BY CacheInvInit
<1>2. requests = <<>>
  BY DEF Init
<1> QED BY <1>1, <1>2 DEF OracleInv, QueueInv, Distinct

LEMMA OracleStep == OracleInv /\ [Next]_vars => [Oracle!OracleNext]_<<learned, query>>
<1> SUFFICES ASSUME OracleInv, [Next]_vars
             PROVE  [Oracle!OracleNext]_<<learned, query>>
  OBVIOUS
<1>0. TypeOK /\ CacheIsRecent /\ QueueInv
  BY DEF OracleInv, CacheInv
<1>1. CASE UNCHANGED <<learned, query>>
  BY <1>1
<1>2. ASSUME NEW i \in Askers, NEW h \in Hashes, IsBlockHashPresent(i, h)
      PROVE  Oracle!OracleNext
  BY <1>2 DEF IsBlockHashPresent, Oracle!OracleNext, Oracle!Ask
<1>3. ASSUME NEW i \in Askers, Return(i) PROVE Oracle!OracleNext
  BY <1>3 DEF Return, Oracle!OracleNext, Oracle!Return
<1>4. CASE AnswerRequest
  <2> DEFINE i == Head(requests)
  <2>1. requests # <<>>
    BY <1>4 DEF AnswerRequest, Exhausted
  <2>2. i \in Askers /\ i = requests[1] /\ Len(requests) > 0 /\ Len(requests) \in Nat
    BY <1>0, <2>1 DEF TypeOK
  <2>3. query[i].status = "asked"
    BY <1>0, <2>2 DEF QueueInv
  <2>4. /\ query' = [query EXCEPT ![i] = Oracle!Answered(In(cache, query[i].hash))]
        /\ UNCHANGED learned
    BY <1>4 DEF AnswerRequest, IsPresent
  <2>5. Oracle!Answer(i)
    BY <1>0, <2>3, <2>4 DEF Oracle!Answer, CacheIsRecent, In, Oracle!In, Firsts, Oracle!Firsts
  <2> QED BY <2>2, <2>5 DEF Oracle!OracleNext
<1>5. CASE ApplyUpdate
  <2>1. Head(updates) \in Hashes
    BY <1>0, <1>5 DEF TypeOK, ApplyUpdate, Exhausted
  <2>2. Oracle!Learn(Head(updates))
    BY <1>5 DEF ApplyUpdate, Oracle!Learn, Touch, Oracle!Touch, Slot, Oracle!Slot, In, Oracle!In
  <2> QED BY <2>1, <2>2 DEF Oracle!OracleNext
<1> QED
  BY <1>1, <1>2, <1>3, <1>4, <1>5
  DEF Next, vars, Extend, Reorg, ReorgBack, Produce, Announce, SubscriptionEnds, NewBlock, ListenerEnds, Poll, Wake,
      CommandsDone, Park

\* Every answer is the one that the oracle gives at that instant: a query is
\* answered once, and exactly by whether the hash is one of the Capacity
\* blocks learned last.
THEOREM ServiceImplementsOracle == Spec => Oracle!OracleSafe
<1>1. OracleInv /\ [Next]_vars => OracleInv'
  BY CacheInvNext, QueueInvNext DEF OracleInv, CacheInv
<1>2. Init => Oracle!OracleInit
  BY DEF Init, Oracle!OracleInit
<1> QED
  BY <1>1, <1>2, OracleInvInit, OracleStep, PTL
  DEF Spec, Oracle!OracleSafe, Oracle!oracleVars

-----------------------------------------------------------------------------
(* What a hit and a miss mean                                              *)

(***************************************************************************)
(* A head that is announced is no block of the chain before it, and every  *)
(* block it is built on is one.  This holds from head to head on the whole *)
(* way through the feed and the queue into the list of blocks learned, and *)
(* it gives that list two properties that Touch preserves: each height     *)
(* between a block's and the first one's occurs before that block, and no  *)
(* ancestor of a block of the last chain comes before it.                  *)
(***************************************************************************)
Blocks == 1 .. produced

\* b is h or a block that h is built on.
Under(b, h) == In(branch[h], b)

BranchInv ==
  \A h \in Blocks :
    /\ Height(h) \in 1 .. produced /\ branch[h][Height(h)] = h
    /\ \A i \in 1 .. Height(h) :
         /\ branch[h][i] \in Blocks /\ Height(branch[h][i]) = i
         /\ \A m \in 1 .. i : branch[branch[h][i]][m] = branch[h][m]

\* Only the tip can have all blocks below it; then they are there in order.
PathInv ==
  /\ \A h \in Blocks : Height(h) = produced => h = tip
  /\ NeverReorganised => \A b \in Blocks : Chain[b] = b

Follows(p, x) == ~Under(x, p) /\ \A i \in 1 .. Height(x) - 1 : Under(branch[x][i], p)

FeedInv ==
  /\ \A k \in 1 .. Len(updates) : updates[k] \in Blocks
  /\ \A k \in 1 .. Len(feed) : feed[k] \in Blocks
  /\ Len(updates) = IF listener = "await" THEN 1 ELSE 0
  /\ \A k \in 1 .. Len(feed) - 1 : Follows(feed[k], feed[k + 1])
  /\ Len(learned) > 0 /\ Len(updates) > 0 => Follows(learned[1], updates[1])
  /\ Len(updates) > 0 /\ Len(feed) > 0 => Follows(updates[1], feed[1])
  /\ Len(updates) = 0 /\ Len(learned) > 0 /\ Len(feed) > 0 => Follows(learned[1], feed[1])

\* The block that was announced last is the tip, as long as the subscription is alive.
ReachInv ==
  open =>
    /\ Len(feed) > 0 => feed[Len(feed)] = tip
    /\ Len(feed) = 0 /\ Len(updates) > 0 => updates[1] = tip
    /\ Len(feed) = 0 /\ Len(updates) = 0 /\ Len(learned) > 0 => learned[1] = tip

Covered(s) ==
  \A k \in 1 .. Len(s) : \A g \in Height(s[k]) + 1 .. Height(s[1]) :
    \E j \in 1 .. k - 1 : Height(s[j]) = g

Ordered(s) ==
  \A j \in 1 .. Len(s) : Under(s[j], s[1]) => \A i \in 1 .. j - 1 : ~Under(s[i], s[j])

ListInv ==
  /\ \A k \in 1 .. Len(learned) : learned[k] \in Blocks
  /\ Covered(learned)
  /\ Ordered(learned)
  /\ NeverReorganised => \A k \in 1 .. Len(learned) : learned[k] <= learned[1]

HeadsInv == BranchInv /\ PathInv /\ FeedInv /\ ReachInv /\ ListInv

LEMMA HeadsInit == Init => HeadsInv
<1> SUFFICES ASSUME Init PROVE HeadsInv
  OBVIOUS
<1>1. /\ Len(feed) = 0 /\ Len(updates) = 0 /\ Len(learned) = 0 /\ listener = "next"
      /\ tip = Known /\ produced = Known /\ Known \in Nat /\ Known >= 1
  BY BoundAssumption DEF Init
<1>2. \A h \in Blocks : Height(h) = h /\ \A k \in 1 .. h : branch[h][k] = k
  <2> SUFFICES ASSUME NEW h \in Blocks PROVE Height(h) = h /\ \A k \in 1 .. h : branch[h][k] = k
    OBVIOUS
  <2>1. h \in Hashes /\ h <= Known /\ h \in Nat
    BY <1>1, BoundAssumption DEF Blocks, Hashes
  <2>2. branch[h] = [k \in 1 .. h |-> k]
    BY <2>1 DEF Init
  <2> QED BY <2>1, <2>2 DEF Height
<1>3. BranchInv
  BY <1>1, <1>2 DEF BranchInv, Blocks
<1>4. PathInv
  BY <1>1, <1>2 DEF PathInv, Blocks, Chain
<1> QED BY <1>1, <1>3, <1>4 DEF HeadsInv, FeedInv, ReachInv, ListInv, Covered, Ordered

LEMMA BlocksAreHashes ==
  ASSUME TypeOK
  PROVE  /\ Blocks \subseteq Hashes /\ tip \in Blocks /\ produced \in Nat
         /\ \A h \in Hashes : branch[h] \in Seq(Hashes) /\ Height(h) \in Nat
         /\ Chain \in Seq(Hashes)
<1>1. Blocks \subseteq Hashes /\ tip \in Blocks /\ produced \in Nat
  BY BoundAssumption DEF TypeOK, Blocks, Hashes
<1>2. \A h \in Hashes : branch[h] \in Seq(Hashes) /\ Height(h) \in Nat
  BY DEF TypeOK, Height
<1> QED BY <1>1, <1>2 DEF Chain

LEMMA UnderSlot ==
  ASSUME TypeOK, BranchInv, NEW h \in Blocks, NEW b, Under(b, h)
  PROVE  /\ b \in Blocks /\ Height(b) \in 1 .. Height(h) /\ branch[h][Height(b)] = b
         /\ \A m \in 1 .. Height(b) : branch[b][m] = branch[h][m]
<1>1. PICK i \in 1 .. Height(h) : branch[h][i] = b
  BY DEF Under, In, Height
<1> QED BY <1>1 DEF BranchInv

LEMMA UnderTransitive ==
  ASSUME TypeOK, BranchInv, NEW h \in Blocks, NEW b, NEW c, Under(b, h), Under(c, b)
  PROVE  Under(c, h)
<1>1. /\ b \in Blocks /\ Height(b) \in 1 .. Height(h)
      /\ \A m \in 1 .. Height(b) : branch[b][m] = branch[h][m]
  BY UnderSlot
<1>2. PICK m \in 1 .. Height(b) : branch[b][m] = c
  BY DEF Under, In, Height
<1>3. m \in 1 .. Height(h) /\ branch[h][m] = c
  <2>1. Height(b) \in Nat /\ Height(h) \in Nat
    BY <1>1, BlocksAreHashes
  <2> QED BY <1>1, <1>2, <2>1
<1> QED BY <1>3 DEF Under, In, Height

LEMMA UnderLinear ==
  ASSUME TypeOK, BranchInv, NEW h \in Blocks, NEW b, NEW c, Under(b, h), Under(c, h),
         Height(b) <= Height(c)
  PROVE  Under(b, c)
<1>1. /\ Height(b) \in 1 .. Height(h) /\ branch[h][Height(b)] = b
      /\ Height(c) \in 1 .. Height(h) /\ \A m \in 1 .. Height(c) : branch[c][m] = branch[h][m]
  BY UnderSlot
<1>2. Height(b) \in 1 .. Height(c) /\ branch[c][Height(b)] = b
  BY <1>1
<1> QED BY <1>2 DEF Under, In, Height

\* A head is at most one higher than the one it follows.
LEMMA FollowsHeight ==
  ASSUME TypeOK, BranchInv, NEW p \in Blocks, NEW x \in Blocks, Follows(p, x)
  PROVE  Height(x) <= Height(p) + 1
<1>1. Height(x) \in Nat /\ Height(p) \in Nat /\ Height(p) >= 1
  BY BlocksAreHashes DEF BranchInv
<1>2. CASE Height(x) > 1
  <2> DEFINE i == Height(x) - 1
  <2>1. i \in 1 .. Height(x) - 1 /\ i \in 1 .. Height(x)
    BY <1>1, <1>2
  <2>2. Under(branch[x][i], p) /\ Height(branch[x][i]) = i
    BY <2>1 DEF Follows, BranchInv
  <2>3. i <= Height(p)
    BY <1>1, <2>2, UnderSlot
  <2> QED BY <1>1, <2>3
<1> QED BY <1>1, <1>2

\* What the provider does when it announces h after the head p.
NewHead(p, h) ==
  /\ h \in Blocks' /\ Blocks \subseteq Blocks'
  /\ \A b \in Blocks : branch'[b] = branch[b]
  /\ p = tip /\ tip' = h /\ Follows(p, h)'
  /\ BranchInv' /\ PathInv' /\ (NeverReorganised' => NeverReorganised)
  /\ feed' = IF open THEN Append(feed, h) ELSE feed
  /\ UNCHANGED <<open, listener, updates, learned>>

LEMMA ProduceAnnounces ==
  ASSUME TypeOK, HeadsInv, NEW k \in Nat, k <= Len(Chain), Produce(k),
         NEW p, p = tip, NEW h, h = Fresh
  PROVE  NewHead(p, h)
<1>1. /\ h = produced + 1 /\ tip' = h /\ produced' = produced + 1
      /\ feed' = IF open THEN Append(feed, h) ELSE feed
      /\ UNCHANGED <<open, listener, updates, learned>>
  BY DEF Produce, Announce, Fresh
<1>2. /\ produced \in Nat /\ p \in Blocks /\ Blocks \subseteq Hashes /\ Chain = branch[p]
      /\ Blocks' = Blocks \union {h} /\ h \notin Blocks
  <2>1. produced \in Nat /\ p \in Blocks /\ Blocks \subseteq Hashes /\ Chain = branch[p]
    BY BlocksAreHashes DEF Chain
  <2>2. 1 .. produced + 1 = Blocks \union {produced + 1} /\ produced + 1 \notin Blocks
    BY <2>1 DEF Blocks
  <2>3. Blocks' = 1 .. produced + 1
    BY <1>1 DEF Blocks
  <2> QED BY <1>1, <2>1, <2>2, <2>3
<1>3. \A b \in Blocks : branch'[b] = branch[b]
  BY <1>2, ProduceEffect
<1>4. /\ Len(branch'[h]) = k + 1 /\ branch'[h][k + 1] = h
      /\ \A i \in 1 .. k : branch'[h][i] = Chain[i]
  BY ProduceEffect
<1>5. Len(Chain) \in 1 .. produced /\ k \in 0 .. produced
  <2>1. Height(p) \in 1 .. produced
    BY <1>2 DEF HeadsInv, BranchInv
  <2> QED BY <1>2, <2>1 DEF Height
<1>6. \A i \in 1 .. k : /\ i \in 1 .. Len(Chain) /\ Chain[i] \in Blocks /\ Height(Chain[i]) = i
                        /\ \A m \in 1 .. i : branch[Chain[i]][m] = Chain[m]
  <2> SUFFICES ASSUME NEW i \in 1 .. k
               PROVE  /\ i \in 1 .. Len(Chain) /\ Chain[i] \in Blocks /\ Height(Chain[i]) = i
                      /\ \A m \in 1 .. i : branch[Chain[i]][m] = Chain[m]
    OBVIOUS
  <2>1. i \in 1 .. Len(Chain)
    BY <1>5
  <2>2. Height(p) = Len(Chain)
    BY <1>2 DEF Height
  <2> QED BY <1>2, <2>1, <2>2 DEF HeadsInv, BranchInv
<1>7. BranchInv'
  <2> SUFFICES ASSUME NEW b \in Blocks'
               PROVE  /\ Len(branch'[b]) \in 1 .. produced' /\ branch'[b][Len(branch'[b])] = b
                      /\ \A i \in 1 .. Len(branch'[b]) :
                           /\ branch'[b][i] \in Blocks' /\ Len(branch'[branch'[b][i]]) = i
                           /\ \A m \in 1 .. i : branch'[branch'[b][i]][m] = branch'[b][m]
    BY DEF BranchInv, Height
  <2>1. CASE b = h
    <3>1. Len(branch'[b]) \in 1 .. produced' /\ branch'[b][Len(branch'[b])] = b
      BY <1>1, <1>2, <1>4, <1>5, <2>1
    <3>2. ASSUME NEW i \in 1 .. k
          PROVE  /\ branch'[b][i] \in Blocks' /\ Len(branch'[branch'[b][i]]) = i
                 /\ \A m \in 1 .. i : branch'[branch'[b][i]][m] = branch'[b][m]
      <4>1. branch'[b][i] = Chain[i] /\ Chain[i] \in Blocks /\ Len(branch[Chain[i]]) = i
        BY <1>4, <1>6, <2>1 DEF Height
      <4>2. \A m \in 1 .. i : m \in 1 .. k /\ branch[Chain[i]][m] = Chain[m]
        BY <1>5, <1>6
      <4>3. branch'[Chain[i]] = branch[Chain[i]]
        BY <1>3, <4>1
      <4> QED BY <1>2, <1>4, <2>1, <4>1, <4>2, <4>3
    <3>3. ASSUME NEW i \in 1 .. k + 1, i \notin 1 .. k
          PROVE  /\ branch'[b][i] \in Blocks' /\ Len(branch'[branch'[b][i]]) = i
                 /\ \A m \in 1 .. i : branch'[branch'[b][i]][m] = branch'[b][m]
      <4>1. i = k + 1
        BY <3>3
      <4> QED BY <1>2, <1>4, <2>1, <4>1
    <3> QED BY <1>4, <2>1, <3>1, <3>2, <3>3
  <2>2. CASE b \in Blocks
    <3>1. /\ Len(branch[b]) \in 1 .. produced /\ branch[b][Len(branch[b])] = b
          /\ \A i \in 1 .. Len(branch[b]) :
               /\ branch[b][i] \in Blocks /\ Len(branch[branch[b][i]]) = i
               /\ \A m \in 1 .. i : branch[branch[b][i]][m] = branch[b][m]
      BY <2>2 DEF HeadsInv, BranchInv, Height
    <3>2. branch'[b] = branch[b]
      BY <1>3, <2>2
    <3>3. \A i \in 1 .. Len(branch[b]) : branch'[branch[b][i]] = branch[branch[b][i]]
      BY <1>3, <3>1
    <3>4. Len(branch[b]) \in 1 .. produced'
      BY <1>1, <1>2, <3>1
    <3> QED BY <1>2, <3>1, <3>2, <3>3, <3>4
  <2> QED BY <1>2, <2>1, <2>2
<1>8. NeverReorganised' => NeverReorganised /\ k = produced
  <2>1. Len(Chain') = k + 1
    BY <1>1, <1>4 DEF Chain
  <2> QED BY <1>1, <1>2, <1>5, <2>1 DEF NeverReorganised
<1>9. PathInv'
  <2>1. ASSUME NEW b \in Blocks', Len(branch'[b]) = produced' PROVE b = tip'
    <3>1. CASE b \in Blocks
      <4>1. Len(branch'[b]) \in 1 .. produced
        BY <1>3, <3>1 DEF HeadsInv, BranchInv, Height
      <4> QED BY <1>1, <1>2, <2>1, <4>1
    <3> QED BY <1>1, <1>2, <3>1
  <2>2. ASSUME NeverReorganised', NEW b \in Blocks' PROVE Chain'[b] = b
    <3>1. k = produced /\ \A c \in Blocks : Chain[c] = c
      BY <1>8, <2>2 DEF HeadsInv, PathInv
    <3>2. Chain' = branch'[h]
      BY <1>1 DEF Chain
    <3>3. CASE b \in Blocks
      BY <1>4, <3>1, <3>2, <3>3 DEF Blocks
    <3>4. CASE b = h
      BY <1>1, <1>4, <3>1, <3>2, <3>4
    <3> QED BY <1>2, <3>3, <3>4
  <2> QED BY <2>1, <2>2 DEF PathInv, Height
<1>10. Follows(p, h)'
  <2>1. ~In(branch'[p], h)
    <3>1. branch'[p] = branch[p] /\ \A i \in 1 .. Len(branch[p]) : branch[p][i] \in Blocks
      BY <1>2, <1>3 DEF HeadsInv, BranchInv, Height
    <3> QED BY <1>2, <3>1 DEF In
  <2>2. ASSUME NEW i \in 1 .. Len(branch'[h]) - 1 PROVE In(branch'[p], branch'[h][i])
    <3>1. i \in 1 .. k
      BY <1>4, <2>2
    <3>2. branch'[h][i] = Chain[i] /\ i \in 1 .. Len(Chain) /\ branch'[p] = Chain
      BY <1>2, <1>3, <1>4, <1>6, <3>1
    <3> QED BY <3>2 DEF In
  <2> QED BY <1>1, <2>1, <2>2 DEF Follows, Under, Height
<1> QED BY <1>1, <1>2, <1>3, <1>7, <1>8, <1>9, <1>10 DEF NewHead

LEMMA ReorgBackAnnounces ==
  ASSUME TypeOK, HeadsInv, NEW h \in Hashes, ReorgBack(h), NEW p, p = tip
  PROVE  NewHead(p, h)
<1>1. /\ tip' = h /\ h \in Blocks /\ UNCHANGED <<branch, produced, open, listener, updates, learned>>
      /\ feed' = IF open THEN Append(feed, h) ELSE feed
      /\ ~In(Chain, h) /\ Height(h) <= Len(Chain) + 1
      /\ branch[h] = Append(SubSeq(Chain, 1, Height(h) - 1), h)
  BY DEF ReorgBack, Announce, Blocks
<1>2. /\ produced \in Nat /\ p \in Blocks /\ Chain = branch[p] /\ Chain \in Seq(Hashes)
      /\ Height(h) \in 1 .. produced
  BY <1>1, BlocksAreHashes DEF Chain, HeadsInv, BranchInv
<1>3. \A i \in 1 .. Height(h) - 1 : i \in 1 .. Len(Chain) /\ branch[h][i] = Chain[i]
  <2> DEFINE n == Height(h) - 1
             kept == SubSeq(Chain, 1, n)
  <2>1. n \in Nat /\ n <= Len(Chain)
    BY <1>1, <1>2
  <2>2. \A i \in 1 .. n : Chain[i] \in Hashes
    BY <1>2, <2>1
  <2>3. kept \in Seq(Hashes) /\ Len(kept) = n /\ \A i \in 1 .. n : kept[i] = Chain[i]
    <3> HIDE DEF n
    <3>1. /\ kept \in Seq(Hashes) /\ Len(kept) = IF 1 <= n THEN n - 1 + 1 ELSE 0
          /\ \A i \in 1 .. n - 1 + 1 : kept[i] = Chain[1 + i - 1]
      BY <2>1, <2>2, SubSeqProperties
    <3> QED BY <2>1, <3>1
  <2>4. branch[h] = Append(kept, h)
    BY <1>1
  <2> HIDE DEF n, kept
  <2>5. \A i \in 1 .. n : i \in 1 .. Len(Chain) /\ branch[h][i] = Chain[i]
    BY <1>2, <2>1, <2>3, <2>4
  <2> QED BY <2>5 DEF n
<1>4. Follows(p, h)
  <2>1. \A i \in 1 .. Height(h) - 1 : In(branch[p], branch[h][i])
    BY <1>2, <1>3 DEF In
  <2> QED BY <1>1, <1>2, <2>1 DEF Follows, Under
<1>5. ~NeverReorganised
  <2> SUFFICES ASSUME NeverReorganised PROVE FALSE
    OBVIOUS
  <2>1. Len(Chain) = produced /\ Chain[h] = h
    BY <1>1 DEF NeverReorganised, HeadsInv, PathInv
  <2> QED BY <1>1, <2>1 DEF In, Blocks
<1>6. \A b \in Blocks : Height(b) # produced
  BY <1>5 DEF HeadsInv, PathInv, NeverReorganised, Chain, Height
<1>7. ~NeverReorganised'
  BY <1>1, <1>6 DEF NeverReorganised, Chain, Height
<1>8. PathInv'
  BY <1>1, <1>6, <1>7 DEF PathInv, Height, Blocks
<1>9. BranchInv'
  BY <1>1 DEF HeadsInv, BranchInv, Blocks, Height
<1>10. Follows(p, h)' /\ Blocks' = Blocks
  BY <1>1, <1>4 DEF Follows, Under, Height, Blocks
<1> QED BY <1>1, <1>7, <1>8, <1>9, <1>10 DEF NewHead

\* A head announced goes to the end of the feed, and follows what is there.
LEMMA HeadsAnnounced ==
  ASSUME TypeOK, HeadsInv, NEW p, NEW h, NewHead(p, h)
  PROVE  HeadsInv'
<1>0. /\ feed \in Seq(Hashes) /\ Len(feed) \in Nat /\ Len(updates) \in Nat /\ Len(learned) \in Nat
  BY DEF TypeOK
<1>1. /\ UNCHANGED <<open, listener, updates, learned>> /\ tip' = h /\ p = tip
      /\ Blocks \subseteq Blocks' /\ h \in Blocks' /\ \A b \in Blocks : branch'[b] = branch[b]
      /\ BranchInv' /\ PathInv' /\ Follows(p, h)'
  BY DEF NewHead
<1>2. /\ open => Len(feed') = Len(feed) + 1 /\ feed'[Len(feed) + 1] = h
      /\ ~open => feed' = feed
      /\ Len(feed') \in {Len(feed), Len(feed) + 1}
      /\ \A k \in 1 .. Len(feed) : feed'[k] = feed[k]
  BY <1>0 DEF NewHead
<1>3. /\ \A k \in 1 .. Len(learned) : learned[k] \in Blocks
      /\ \A k \in 1 .. Len(updates) : updates[k] \in Blocks
      /\ \A k \in 1 .. Len(feed) : feed[k] \in Blocks
  BY DEF HeadsInv, FeedInv, ListInv
<1>4. ASSUME NEW b \in Blocks, NEW c \in Blocks, Follows(b, c) PROVE Follows(b, c)'
  BY <1>1, <1>4 DEF Follows, Under, Height
<1>5. ListInv'
  <2>1. \A b \in Blocks : Height(b)' = Height(b) /\ \A c : Under(c, b)' <=> Under(c, b)
    BY <1>1 DEF Height, Under
  <2>2. Len(learned) > 0 => learned[1] \in Blocks
    BY <1>0, <1>3
  <2>3. \A k \in 1 .. Len(learned') : learned'[k] \in Blocks'
    BY <1>1, <1>3
  <2>4. Covered(learned)'
    <3>1. ASSUME NEW k \in 1 .. Len(learned)
          PROVE  Len(branch'[learned[k]]) = Len(branch[learned[k]])
      BY <1>1, <1>3
    <3>2. \A k \in 1 .. Len(learned) :
            1 \in 1 .. Len(learned) /\ \A j \in 1 .. k - 1 : j \in 1 .. Len(learned)
      BY <1>0
    <3>3. \A k \in 1 .. Len(learned) :
            \A g \in Len(branch[learned[k]]) + 1 .. Len(branch[learned[1]]) :
              \E j \in 1 .. k - 1 : Len(branch[learned[j]]) = g
      BY DEF HeadsInv, ListInv, Covered, Height
    <3>4. \A k \in 1 .. Len(learned) :
            \A g \in Len(branch'[learned[k]]) + 1 .. Len(branch'[learned[1]]) :
              \E j \in 1 .. k - 1 : Len(branch'[learned[j]]) = g
      <4> SUFFICES ASSUME NEW k \in 1 .. Len(learned),
                          NEW g \in Len(branch'[learned[k]]) + 1 .. Len(branch'[learned[1]])
                   PROVE  \E j \in 1 .. k - 1 : Len(branch'[learned[j]]) = g
        OBVIOUS
      <4>1. g \in Len(branch[learned[k]]) + 1 .. Len(branch[learned[1]])
        BY <3>1, <3>2
      <4>2. PICK j \in 1 .. k - 1 : Len(branch[learned[j]]) = g
        BY <3>3, <4>1
      <4> QED BY <3>1, <3>2, <4>2
    <3> QED BY <1>1, <3>4 DEF Covered, Height
  <2>5. Ordered(learned)'
    <3>1. \A j \in 1 .. Len(learned) :
            In(branch'[learned[1]], learned[j]) =>
              \A i \in 1 .. j - 1 : ~In(branch'[learned[j]], learned[i])
      BY <1>1, <1>3, <2>2 DEF HeadsInv, ListInv, Ordered, Under
    <3> QED BY <1>1, <3>1 DEF Ordered, Under
  <2>6. NeverReorganised' => \A k \in 1 .. Len(learned') : learned'[k] <= learned'[1]
    BY <1>1 DEF NewHead, HeadsInv, ListInv
  <2> QED BY <2>3, <2>4, <2>5, <2>6 DEF ListInv
<1>6. (\A k \in 1 .. Len(feed) - 1 : Follows(feed[k], feed[k + 1]))'
  <2> SUFFICES ASSUME NEW k \in 1 .. Len(feed') - 1 PROVE Follows(feed[k], feed[k + 1])'
    OBVIOUS
  <2>1. CASE k + 1 <= Len(feed)
    <3>1. Follows(feed[k], feed[k + 1]) /\ feed[k] \in Blocks /\ feed[k + 1] \in Blocks
      BY <1>0, <1>3, <2>1 DEF HeadsInv, FeedInv
    <3>2. feed'[k] = feed[k] /\ feed'[k + 1] = feed[k + 1]
      BY <1>0, <1>2, <2>1
    <3>3. PICK b \in Blocks, c \in Blocks : b = feed[k] /\ c = feed[k + 1]
      BY <3>1
    <3>4. Follows(b, c)'
      BY <1>4, <3>1, <3>3
    <3> QED BY <3>2, <3>3, <3>4 DEF Follows, Under, Height
  <2>2. CASE k = Len(feed)
    <3>1. open /\ feed'[k + 1] = h /\ feed'[k] = feed[k]
      BY <1>0, <1>2, <2>2
    <3>2. feed[k] = p
      BY <1>0, <1>1, <2>2, <3>1 DEF HeadsInv, ReachInv
    <3> QED BY <1>1, <3>1, <3>2 DEF Follows, Under, Height
  <2> QED BY <1>0, <1>2, <2>1, <2>2
<1>7. ASSUME NEW b \in Blocks, Len(feed') > 0, Len(feed) > 0 => Follows(b, feed[1]),
             open /\ Len(feed) = 0 => b = tip
      PROVE  Follows(b, feed[1])'
  <2>1. CASE Len(feed) > 0
    <3>1. PICK c \in Blocks : c = feed[1] /\ c = feed'[1]
      BY <1>0, <1>2, <1>3, <2>1
    <3>2. Follows(b, c)'
      BY <1>4, <1>7, <2>1, <3>1
    <3> QED BY <3>1, <3>2 DEF Follows, Under, Height
  <2>2. CASE Len(feed) = 0
    <3>1. open /\ b = p /\ feed'[1] = h
      BY <1>0, <1>1, <1>2, <1>7, <2>2
    <3> QED BY <1>1, <3>1 DEF Follows, Under, Height
  <2> QED BY <1>0, <2>1, <2>2
<1>8. FeedInv'
  <2>1. \A k \in 1 .. Len(feed') : feed'[k] \in Blocks'
    BY <1>0, <1>1, <1>2, <1>3
  <2>2. \A k \in 1 .. Len(updates') : updates'[k] \in Blocks'
    BY <1>1, <1>3
  <2>3. Len(updates') = IF listener' = "await" THEN 1 ELSE 0
    BY <1>1 DEF HeadsInv, FeedInv
  <2>4. Len(learned') > 0 /\ Len(updates') > 0 => Follows(learned[1], updates[1])'
    <3> SUFFICES ASSUME Len(learned) > 0, Len(updates) > 0 PROVE Follows(learned[1], updates[1])'
      BY <1>1
    <3>1. PICK b \in Blocks, c \in Blocks : b = learned[1] /\ c = updates[1] /\ Follows(b, c)
      BY <1>0, <1>3 DEF HeadsInv, FeedInv
    <3>2. Follows(b, c)'
      BY <1>4, <3>1
    <3> QED BY <1>1, <3>1, <3>2 DEF Follows, Under, Height
  <2>5. Len(updates') > 0 /\ Len(feed') > 0 => Follows(updates[1], feed[1])'
    <3> SUFFICES ASSUME Len(updates) > 0, Len(feed') > 0 PROVE Follows(updates[1], feed[1])'
      BY <1>1
    <3>1. PICK b \in Blocks : b = updates[1]
      BY <1>0, <1>3
    <3>2. /\ Len(feed) > 0 => Follows(b, feed[1])
          /\ open /\ Len(feed) = 0 => b = tip
      BY <3>1 DEF HeadsInv, FeedInv, ReachInv, Follows
    <3>3. Follows(b, feed[1])'
      BY <1>7, <3>2
    <3> QED BY <1>1, <3>1, <3>3 DEF Follows, Under, Height
  <2>6. Len(updates') = 0 /\ Len(learned') > 0 /\ Len(feed') > 0 => Follows(learned[1], feed[1])'
    <3> SUFFICES ASSUME Len(updates) = 0, Len(learned) > 0, Len(feed') > 0
                 PROVE  Follows(learned[1], feed[1])'
      BY <1>1
    <3>1. PICK b \in Blocks : b = learned[1]
      BY <1>0, <1>3
    <3>2. /\ Len(feed) > 0 => Follows(b, feed[1])
          /\ open /\ Len(feed) = 0 => b = tip
      BY <3>1 DEF HeadsInv, FeedInv, ReachInv, Follows
    <3>3. Follows(b, feed[1])'
      BY <1>7, <3>2
    <3> QED BY <1>1, <3>1, <3>3 DEF Follows, Under, Height
  <2> QED BY <1>6, <2>1, <2>2, <2>3, <2>4, <2>5, <2>6 DEF FeedInv
<1>9. ReachInv'
  BY <1>0, <1>1, <1>2 DEF NewHead, ReachInv
<1> QED BY <1>1, <1>5, <1>8, <1>9 DEF HeadsInv

\* The listener passes a block on.
LEMMA HeadsPassedOn ==
  ASSUME TypeOK, HeadsInv, NewBlock
  PROVE  HeadsInv'
<1>1. /\ Len(feed) > 0 /\ feed' = Tail(feed) /\ updates' = Append(updates, Head(feed))
      /\ listener = "next" /\ listener' = "await"
      /\ UNCHANGED <<branch, tip, produced, open, learned>>
  BY DEF NewBlock, provider, TypeOK
<1>2. /\ Len(feed) \in Nat /\ Len(feed') = Len(feed) - 1
      /\ \A k \in 1 .. Len(feed') : feed'[k] = feed[k + 1]
  BY <1>1 DEF TypeOK
<1>3. Len(updates) = 0 /\ Len(updates') = 1 /\ updates'[1] = feed[1]
  BY <1>1 DEF TypeOK, HeadsInv, FeedInv
<1>4. BranchInv' /\ PathInv' /\ ListInv'
  BY <1>1 DEF HeadsInv, BranchInv, PathInv, ListInv, Blocks, Height, NeverReorganised, Chain,
              Covered, Ordered, Under
<1>5. FeedInv'
  <2>1. (\A k \in 1 .. Len(feed) - 1 : Follows(feed[k], feed[k + 1]))'
    <3> SUFFICES ASSUME NEW k \in 1 .. Len(feed') - 1 PROVE Follows(feed[k], feed[k + 1])'
      OBVIOUS
    <3>1. k + 1 \in 1 .. Len(feed) - 1 /\ k \in 1 .. Len(feed') /\ k + 1 \in 1 .. Len(feed')
      BY <1>2
    <3>2. Follows(feed[k + 1], feed[(k + 1) + 1])
      BY <3>1 DEF HeadsInv, FeedInv
    <3> QED BY <1>1, <1>2, <3>1, <3>2 DEF Follows, Under, Height
  <2>2. Len(feed') > 0 => Follows(updates[1], feed[1])'
    <3> SUFFICES ASSUME Len(feed') > 0 PROVE Follows(updates[1], feed[1])'
      OBVIOUS
    <3>1. Follows(feed[1], feed[1 + 1]) /\ feed'[1] = feed[1 + 1]
      BY <1>2 DEF HeadsInv, FeedInv
    <3> QED BY <1>1, <1>3, <3>1 DEF Follows, Under, Height
  <2>3. Len(learned') > 0 => Follows(learned[1], updates[1])'
    BY <1>1, <1>3 DEF HeadsInv, FeedInv, Follows, Under, Height
  <2>4. /\ \A k \in 1 .. Len(updates') : updates'[k] \in Blocks'
        /\ \A k \in 1 .. Len(feed') : feed'[k] \in Blocks'
    BY <1>1, <1>2, <1>3 DEF HeadsInv, FeedInv, Blocks
  <2> QED BY <1>1, <1>3, <2>1, <2>2, <2>3, <2>4 DEF FeedInv
<1>6. ReachInv'
  BY <1>1, <1>2, <1>3 DEF HeadsInv, ReachInv
<1> QED BY <1>4, <1>5, <1>6 DEF HeadsInv

\* Touching a block that follows the first one of the list, in a tree that stays.
LEMMA ListTouch ==
  ASSUME TypeOK, BranchInv, ListInv, NEW x \in Blocks, NEW t \in Seq(Hashes), NEW p,
         Distinct(t), Moved(t, Len(t), learned, Len(learned), x, p),
         Len(learned) > 0 => Follows(learned[1], x)
  PROVE  /\ \A k \in 1 .. Len(t) : t[k] \in Blocks
         /\ Covered(t) /\ Ordered(t)
<1> DEFINE s == learned
           n == Len(learned)
           m == Len(t)
<1>1. /\ n \in Nat /\ m \in Nat /\ m > 0 /\ p \in 1 .. n + 1 /\ t[1] = x
      /\ \A k \in 2 .. m : k <= p => k - 1 \in 1 .. n /\ t[k] = s[k - 1]
      /\ \A k \in 2 .. m : p < k => k \in p .. n /\ p \in 1 .. n /\ s[p] = x /\ t[k] = s[k]
  <2>1. Shifted(t, m, s, n, x, p)
    BY MovedSlots
  <2>2. n \in Nat /\ m \in Nat
    BY DEF TypeOK
  <2> QED BY <2>1, <2>2 DEF Shifted
<1>2. \A k \in 1 .. n : s[k] \in Blocks
  BY DEF ListInv
<1>3. m = IF p = n + 1 THEN n + 1 ELSE n
  BY DEF Moved
<1> HIDE DEF n, m, s
<1>4. ASSUME NEW k \in 2 .. m
      PROVE  \E q \in 1 .. n : t[k] = s[q] /\ ((q = k - 1 /\ k <= p) \/ (q = k /\ p < k))
  <2>1. k \in Nat /\ p \in Nat
    BY <1>1, <1>4
  <2>2. CASE k <= p
    <3>1. k - 1 \in 1 .. n /\ t[k] = s[k - 1]
      BY <1>1, <1>4, <2>2
    <3>2. PICK q \in 1 .. n : q = k - 1
      BY <3>1
    <3>3. t[k] = s[q] /\ q = k - 1 /\ k <= p
      BY <2>2, <3>1, <3>2
    <3> QED BY <3>3
  <2>3. CASE p < k
    <3>1. k \in p .. n /\ p \in 1 .. n /\ t[k] = s[k]
      BY <1>1, <1>4, <2>3
    <3>2. k \in 1 .. n
      BY <1>1, <2>1, <3>1
    <3> QED BY <2>3, <3>1, <3>2
  <2> QED BY <2>1, <2>2, <2>3
<1>5. \A k \in 1 .. m : t[k] \in Blocks
  <2> SUFFICES ASSUME NEW k \in 1 .. m PROVE t[k] \in Blocks
    OBVIOUS
  <2>1. CASE k = 1
    BY <1>1, <2>1
  <2>2. CASE k # 1
    BY <1>1, <1>2, <1>4, <2>2
  <2> QED BY <2>1, <2>2
<1>6. n > 0 => s[1] \in Blocks /\ Follows(s[1], x)
  BY <1>1, <1>2 DEF s, n
<1>7. Covered(t)
  <2> SUFFICES ASSUME NEW k \in 1 .. m, NEW g \in Height(t[k]) + 1 .. Height(t[1])
               PROVE  \E j \in 1 .. k - 1 : Height(t[j]) = g
    BY DEF Covered, m
  <2>0. Height(t[k]) \in Nat /\ Height(x) \in Nat
    BY <1>5, BlocksAreHashes
  <2>1. k \in 2 .. m
    BY <1>1, <2>0
  <2>2. CASE g = Height(x)
    <3>1. 1 \in 1 .. k - 1
      BY <2>1
    <3> QED BY <1>1, <2>2, <3>1
  <2>3. CASE g # Height(x)
    <3>1. PICK q \in 1 .. n : t[k] = s[q] /\ ((q = k - 1 /\ k <= p) \/ (q = k /\ p < k))
      BY <1>4, <2>1
    <3>2. n > 0 /\ Height(x) <= Height(s[1]) + 1 /\ Height(s[1]) \in Nat
      BY <1>1, <1>6, <3>1, FollowsHeight, BlocksAreHashes
    <3>3. g \in Height(s[q]) + 1 .. Height(s[1])
      BY <1>1, <2>0, <2>3, <3>1, <3>2
    <3>4. PICK j \in 1 .. q - 1 : Height(s[j]) = g
      BY <3>1, <3>3 DEF ListInv, Covered, s, n
    <3>0. j \in Nat /\ j >= 1 /\ k \in Nat /\ k <= m /\ p \in Nat /\ p >= 1 /\ j < k
      BY <1>1, <2>1, <3>1, <3>4
    <3>5. CASE j < p
      <4>1. j + 1 \in 2 .. m /\ j + 1 <= p /\ j + 1 \in 1 .. k - 1 /\ j \in Nat
        BY <1>1, <2>1, <3>1, <3>5
      <4>2. t[j + 1] = s[(j + 1) - 1]
        BY <1>1, <4>1
      <4>3. t[j + 1] = s[j]
        BY <4>1, <4>2
      <4> QED BY <3>4, <4>1, <4>3
    <3>6. CASE j = p
      <4>1. s[p] = x
        <5>1. p < k
          BY <3>0, <3>6
        <5> QED BY <1>1, <2>1, <5>1
      <4> QED BY <2>3, <3>4, <3>6, <4>1
    <3>7. CASE p < j
      <4>1. j \in 2 .. m /\ j \in 1 .. k - 1
        BY <1>1, <3>0, <3>7
      <4>2. t[j] = s[j]
        BY <1>1, <3>7, <4>1
      <4> QED BY <3>4, <4>1, <4>2
    <3> QED BY <1>1, <3>5, <3>6, <3>7
  <2> QED BY <2>2, <2>3
<1>8. Ordered(t)
  <2> SUFFICES ASSUME NEW j \in 1 .. m, Under(t[j], t[1]), NEW i \in 1 .. j - 1
               PROVE  ~Under(t[i], t[j])
    BY DEF Ordered, m
  <2>1. j \in 2 .. m /\ i \in 1 .. m /\ i # j /\ t[j] # x
    <3>1. j \in 2 .. m /\ i \in 1 .. m /\ i # j /\ 1 \in 1 .. m /\ j # 1
      BY <1>1
    <3> QED BY <1>1, <3>1 DEF Distinct, m
  <2>2. PICK q \in 1 .. n : t[j] = s[q] /\ ((q = j - 1 /\ j <= p) \/ (q = j /\ p < j))
    BY <1>4, <2>1
  <2>3. n > 0 /\ s[1] \in Blocks /\ Follows(s[1], x) /\ t[j] \in Blocks
    BY <1>1, <1>5, <1>6, <2>2
  <2>4. Under(s[q], s[1])
    <3>1. Under(t[j], x)
      BY <1>1
    <3>2. Height(t[j]) \in 1 .. Height(x) /\ branch[x][Height(t[j])] = t[j]
      BY <3>1, UnderSlot
    <3>3. Height(t[j]) # Height(x)
      BY <2>1, <3>2 DEF BranchInv
    <3>4. Height(t[j]) \in 1 .. Height(x) - 1
      BY <3>2, <3>3, BlocksAreHashes
    <3>5. Under(branch[x][Height(t[j])], s[1])
      BY <2>3, <3>4 DEF Follows
    <3> QED BY <2>2, <3>2, <3>5
  <2>5. CASE i = 1
    <3>1. ~Under(x, s[1])
      BY <2>3 DEF Follows
    <3> QED BY <1>1, <2>2, <2>3, <2>4, <2>5, <3>1, UnderTransitive
  <2>6. CASE i # 1
    <3>1. PICK r \in 1 .. n : t[i] = s[r] /\ ((r = i - 1 /\ i <= p) \/ (r = i /\ p < i))
      BY <1>4, <2>1, <2>6
    <3>2. r \in 1 .. q - 1
      BY <1>1, <2>1, <2>2, <3>1
    <3> QED BY <2>2, <2>4, <3>1, <3>2 DEF ListInv, Ordered, s, n
  <2> QED BY <2>5, <2>6
<1> QED BY <1>5, <1>7, <1>8 DEF m

\* The service learns the block: it had followed the latest one.
LEMMA HeadsLearned ==
  ASSUME CacheInv, HeadsInv, ApplyUpdate
  PROVE  HeadsInv'
<1>0. TypeOK
  BY DEF CacheInv
<1>1. PICK x \in Blocks :
         /\ x = updates[1] /\ Len(updates) = 1 /\ Len(updates') = 0
         /\ learned' = Touch(learned, x) /\ listener' = "next"
         /\ UNCHANGED <<branch, tip, produced, open, feed>>
  <2>1. updates # <<>> /\ updates' = Tail(updates) /\ updates \in Seq(Hashes)
    BY <1>0 DEF ApplyUpdate, Exhausted, TypeOK
  <2>2. Len(updates) = 1
    BY <2>1 DEF HeadsInv, FeedInv
  <2>3. updates[1] \in Blocks /\ Head(updates) = updates[1] /\ Len(updates') = 0
    BY <2>1, <2>2 DEF HeadsInv, FeedInv
  <2> QED BY <2>2, <2>3 DEF ApplyUpdate, provider, stream
<1>2. /\ learned \in Seq(Hashes) /\ Len(learned) \in Nat /\ x \in Hashes
      /\ \A k \in 1 .. Len(learned) : learned[k] \in Blocks
  BY <1>0, BlocksAreHashes DEF TypeOK, HeadsInv, ListInv
<1>3. PICK t \in Seq(Hashes) :
         /\ t = learned' /\ Distinct(t)
         /\ \E p : Moved(t, Len(t), learned, Len(learned), x, p)
  <2>1. PICK t \in Seq(Hashes) : t = learned'
    BY <1>1, <1>2, TouchMoves
  <2>2. Distinct(t)
    BY <1>1, <1>2, <2>1, TouchDistinct DEF CacheInv
  <2>3. Moved(t, Len(t), learned, Len(learned), x, Slot(learned, x))
    BY <1>1, <1>2, <2>1, TouchMoves
  <2> QED BY <2>1, <2>2, <2>3
<1>m. PICK p : Moved(t, Len(t), learned, Len(learned), x, p)
  BY <1>3
<1>4. Len(learned) > 0 => Follows(learned[1], x)
  <2>1. Len(updates) > 0
    BY <1>1
  <2>2. Len(learned) > 0 => Follows(learned[1], updates[1])
    BY <2>1 DEF HeadsInv, FeedInv
  <2> QED BY <1>1, <2>2
<1>5. Covered(t) /\ Ordered(t) /\ \A k \in 1 .. Len(t) : t[k] \in Blocks
  BY <1>0, <1>2, <1>3, <1>m, <1>4, ListTouch DEF HeadsInv
<1>6. /\ t[1] = x /\ p \in Nat
      /\ \A k \in 2 .. Len(t) : k <= p => k - 1 \in 1 .. Len(learned) /\ t[k] = learned[k - 1]
      /\ \A k \in 2 .. Len(t) : p < k => k \in p .. Len(learned) /\ p >= 1 /\ t[k] = learned[k]
  <2>1. Shifted(t, Len(t), learned, Len(learned), x, p)
    BY <1>m, MovedSlots
  <2> QED BY <1>2, <2>1 DEF Shifted
<1>7. NeverReorganised => \A k \in 1 .. Len(t) : t[k] <= t[1]
  <2> SUFFICES ASSUME NeverReorganised, NEW k \in 1 .. Len(t), k # 1 PROVE t[k] <= x
    BY <1>1, <1>5, <1>6 DEF Blocks
  <2>1. PICK q \in 1 .. Len(learned) : t[k] = learned[q]
    <3>1. k \in 2 .. Len(t) /\ k \in Nat
      BY <1>3
    <3>2. CASE k <= p
      BY <1>6, <3>1, <3>2
    <3>3. CASE p < k
      <4>1. k \in p .. Len(learned) /\ p >= 1 /\ t[k] = learned[k]
        BY <1>6, <3>1, <3>3
      <4>2. k \in 1 .. Len(learned)
        BY <1>2, <1>6, <3>1, <4>1
      <4> QED BY <4>1, <4>2
    <3> QED BY <1>6, <3>1, <3>2, <3>3
  <2> DEFINE l == learned[1]
  <2>2. l \in Blocks /\ learned[q] \in Blocks /\ learned[q] <= l /\ ~Under(x, l)
    BY <1>2, <1>4, <2>1 DEF HeadsInv, ListInv, Follows
  <2>3. Height(l) = l /\ \A b \in 1 .. l : branch[l][b] = b
    <3>1. Chain[l] = l /\ l \in 1 .. Height(tip) /\ tip \in Blocks
      BY <1>0, <2>2, BlocksAreHashes DEF HeadsInv, PathInv, NeverReorganised, Blocks, Chain, Height
    <3>2. Height(Chain[l]) = l /\ \A b \in 1 .. l : branch[Chain[l]][b] = Chain[b]
      BY <3>1 DEF HeadsInv, BranchInv, Chain
    <3>3. \A b \in 1 .. l : b \in Blocks
      BY <1>0, <2>2, BlocksAreHashes DEF Blocks
    <3> QED BY <3>1, <3>2, <3>3 DEF HeadsInv, PathInv
  <2>4. ~(x <= l)
    <3> SUFFICES ASSUME x <= l PROVE Under(x, l)
      BY <2>2
    <3>1. x \in 1 .. l
      BY <2>2 DEF Blocks
    <3> QED BY <2>3, <3>1 DEF Under, In, Height
  <2> QED BY <1>0, <2>1, <2>2, <2>4, BlocksAreHashes DEF Blocks
<1>8. ListInv'
  <2>1. \A k \in 1 .. Len(learned') : learned'[k] \in Blocks'
    BY <1>1, <1>3, <1>5 DEF Blocks
  <2>2. Covered(learned)'
    BY <1>1, <1>3, <1>5 DEF Covered, Height
  <2>3. Ordered(learned)'
    BY <1>1, <1>3, <1>5 DEF Ordered, Under
  <2>4. NeverReorganised' => \A k \in 1 .. Len(learned') : learned'[k] <= learned'[1]
    BY <1>1, <1>3, <1>7 DEF NeverReorganised, Chain
  <2> QED BY <2>1, <2>2, <2>3, <2>4 DEF ListInv
<1>9. FeedInv'
  <2>1. (\A k \in 1 .. Len(feed) - 1 : Follows(feed[k], feed[k + 1]))'
    BY <1>1 DEF HeadsInv, FeedInv, Follows, Under, Height
  <2>2. (Len(learned) > 0 /\ Len(feed) > 0 => Follows(learned[1], feed[1]))'
    <3>0. Len(updates) > 0
      BY <1>1
    <3>1. Len(feed) > 0 => Follows(updates[1], feed[1])
      BY <3>0 DEF HeadsInv, FeedInv
    <3>2. learned'[1] = x
      BY <1>3, <1>6
    <3> QED BY <1>1, <3>1, <3>2 DEF Follows, Under, Height
  <2>3. \A k \in 1 .. Len(feed') : feed'[k] \in Blocks'
    BY <1>1 DEF HeadsInv, FeedInv, Blocks
  <2> QED BY <1>1, <2>1, <2>2, <2>3 DEF FeedInv
<1>10. BranchInv' /\ PathInv'
  BY <1>1 DEF HeadsInv, BranchInv, PathInv, Blocks, Height, NeverReorganised, Chain
<1>11. ReachInv'
  BY <1>1, <1>3, <1>6 DEF HeadsInv, ReachInv
<1> QED BY <1>8, <1>9, <1>10, <1>11 DEF HeadsInv

LEMMA HeadsInvNext ==
  ASSUME CacheInv, HeadsInv, [Next]_vars
  PROVE  HeadsInv'
<1>0. TypeOK /\ Len(Chain) \in Nat
  BY BlocksAreHashes DEF CacheInv
<1>1. ASSUME NEW k \in Nat, k <= Len(Chain), Produce(k) PROVE HeadsInv'
  <2>1. PICK p, h : p = tip /\ h = Fresh
    OBVIOUS
  <2>2. NewHead(p, h)
    BY <1>0, <1>1, <2>1, ProduceAnnounces
  <2> QED BY <1>0, <2>2, HeadsAnnounced
<1>2. CASE Extend
  BY <1>0, <1>1, <1>2 DEF Extend
<1>3. ASSUME NEW k \in Hashes, Reorg(k) PROVE HeadsInv'
  <2>1. k \in Nat /\ k <= Len(Chain) /\ Produce(k)
    BY <1>0, <1>3 DEF Reorg, Hashes
  <2> QED BY <1>1, <2>1
<1>4. ASSUME NEW h \in Hashes, ReorgBack(h) PROVE HeadsInv'
  <2>1. PICK p : p = tip
    OBVIOUS
  <2>2. NewHead(p, h)
    BY <1>0, <1>4, <2>1, ReorgBackAnnounces
  <2> QED BY <1>0, <2>2, HeadsAnnounced
<1>5. CASE NewBlock
  BY <1>0, <1>5, HeadsPassedOn
<1>6. CASE ApplyUpdate
  BY <1>6, HeadsLearned
<1>7. ASSUME UNCHANGED <<branch, tip, produced, updates, feed, learned>>,
             Len(updates) = 0 \/ listener' = listener, listener' = "await" <=> listener = "await",
             open' => open
      PROVE  HeadsInv'
  <2>1. BranchInv' /\ PathInv' /\ ReachInv'
    BY <1>7 DEF HeadsInv, BranchInv, PathInv, Blocks, Height, NeverReorganised, Chain, ReachInv
  <2>2. ListInv'
    BY <1>7 DEF HeadsInv, ListInv, Blocks, Height, NeverReorganised, Chain, Covered, Ordered, Under
  <2>3. FeedInv'
    BY <1>7 DEF HeadsInv, FeedInv, Blocks, Height, Follows, Under
  <2> QED BY <2>1, <2>2, <2>3 DEF HeadsInv
<1>8. CASE SubscriptionEnds
  BY <1>7, <1>8 DEF SubscriptionEnds, provider
<1>9. CASE ListenerEnds
  <2>1. Len(updates) = 0
    BY <1>9 DEF ListenerEnds, HeadsInv, FeedInv
  <2> QED BY <1>7, <1>9, <2>1 DEF ListenerEnds, provider, stream
<1>10. CASE UNCHANGED <<provider, stream, listener, updates, learned>>
  BY <1>7, <1>10 DEF provider, stream
<1> QED
  BY <1>2, <1>3, <1>4, <1>5, <1>6, <1>8, <1>9, <1>10
  DEF Next, vars, IsBlockHashPresent, Return, Poll, Wake, AnswerRequest, CommandsDone, Park

-----------------------------------------------------------------------------

\* The heights between a block's and the first one's take a slot each before the block.
LEMMA HitsAreClose ==
  ASSUME CacheInv, HeadsInv
  PROVE  SyncedMeansClose
<1> SUFFICES ASSUME NEW k \in 1 .. Len(cache)
             PROVE  Height(cache[1]) < Height(cache[k]) + Capacity
  BY DEF SyncedMeansClose
<1>1. /\ learned \in Seq(Hashes) /\ Len(learned) \in Nat /\ TypeOK
      /\ Capacity \in Nat /\ cache = Firsts(learned, Capacity) /\ cache \in Seq(Hashes)
  BY CapacityAssumption DEF CacheInv, TypeOK, CacheIsRecent
<1>2. Len(cache) = (IF Len(learned) <= Capacity THEN Len(learned) ELSE Capacity)
  BY <1>1, FirstsType
<1>3. \A i \in 1 .. Len(cache) : cache[i] = learned[i]
  BY <1>1, FirstsType
<1>4. /\ 1 \in 1 .. Len(learned) /\ k \in 1 .. Len(learned) /\ k <= Capacity
      /\ 1 \in 1 .. Len(cache) /\ k \in Nat /\ k >= 1
  BY <1>1, <1>2
<1> DEFINE low == Height(learned[k])
           high == Height(learned[1])
           between == low + 1 .. high
           slots == 1 .. k - 1
           f == [g \in between |-> CHOOSE j \in slots : Height(learned[j]) = g]
<1>5. low \in Nat /\ high \in Nat
  BY <1>1, <1>4, BlocksAreHashes
<1>6. \A g \in between : \E j \in slots : Height(learned[j]) = g
  BY <1>4 DEF HeadsInv, ListInv, Covered
<1> HIDE DEF low, high
<1>7. f \in Injection(between, slots)
  <2>1. \A g \in between : f[g] \in slots /\ Height(learned[f[g]]) = g
    BY <1>6
  <2>2. f \in [between -> slots]
    BY <2>1
  <2> HIDE DEF f, between, slots
  <2>3. \A a, b \in between : f[a] = f[b] => a = b
    BY <2>1
  <2> QED BY <2>2, <2>3 DEF Injection, IsInjective
<1> HIDE DEF f
<1>8. IsFiniteSet(slots) /\ Cardinality(slots) = k - 1
  <2>1. IsFiniteSet(1 .. (k - 1)) /\ Cardinality(1 .. (k - 1)) = IF 1 > k - 1 THEN 0 ELSE (k - 1) - 1 + 1
    BY <1>4, FS_Interval
  <2> QED BY <1>4, <2>1
<1>9. IsFiniteSet(between) /\ Cardinality(between) = IF low < high THEN high - low ELSE 0
  <2>1. /\ IsFiniteSet((low + 1) .. high)
        /\ Cardinality((low + 1) .. high) = IF low + 1 > high THEN 0 ELSE high - (low + 1) + 1
    BY <1>5, FS_Interval
  <2> QED BY <1>5, <2>1
<1> HIDE DEF between, slots
<1>10. Cardinality(between) <= Cardinality(slots)
  BY <1>7, <1>8, FS_Injection
<1>11. high < low + Capacity
  BY <1>1, <1>4, <1>5, <1>8, <1>9, <1>10, CapacityAssumption
<1> QED BY <1>3, <1>4, <1>11 DEF low, high

\* Before a block of the last chain the list has only higher blocks of that chain
\* and stale ones, each of them once.
LEMMA CanonicalStays ==
  ASSUME CacheInv, HeadsInv
  PROVE  CanonicalKept
<1> SUFFICES ASSUME learned # <<>>, NEW k \in 1 .. Len(LastChain), In(learned, LastChain[k]),
                    (Len(LastChain) - k) + Cardinality(StaleHashes) < Capacity
             PROVE  In(cache, LastChain[k])
  BY DEF CanonicalKept
<1> DEFINE chain == LastChain
<1>1. /\ learned \in Seq(Hashes) /\ Len(learned) \in Nat /\ TypeOK
      /\ Capacity \in Nat /\ cache = Firsts(learned, Capacity) /\ cache \in Seq(Hashes)
      /\ produced \in Nat /\ Distinct(learned)
  <2>1. TypeOK
    BY DEF CacheInv
  <2>2. produced \in Nat
    BY <2>1, BlocksAreHashes
  <2> QED BY <2>1, <2>2, CapacityAssumption DEF CacheInv, TypeOK, CacheIsRecent
<1>2. Len(cache) = (IF Len(learned) <= Capacity THEN Len(learned) ELSE Capacity)
  BY <1>1, FirstsType
<1>3. \A i \in 1 .. Len(cache) : cache[i] = learned[i]
  BY <1>1, FirstsType
<1>4. PICK j \in 1 .. Len(learned) : learned[j] = chain[k]
  BY DEF In
<1>5. /\ 1 \in 1 .. Len(learned) /\ learned[1] \in Blocks /\ chain = branch[learned[1]]
      /\ Len(chain) = Height(learned[1]) /\ Len(chain) \in Nat /\ k \in 1 .. Len(chain)
  <2>1. 1 \in 1 .. Len(learned) /\ learned[1] \in Blocks
    BY <1>1, <1>4 DEF HeadsInv, ListInv
  <2> QED BY <1>1, <2>1, BlocksAreHashes DEF LastChain, Height
<1> HIDE DEF chain
<1> DEFINE before == 1 .. (j - 1)
           higher == (k + 1) .. Len(chain)
           canonical == {chain[m] : m \in higher}
           f == [i \in before |-> learned[i]]
           g == [m \in higher |-> chain[m]]
<1>6. IsFiniteSet(before) /\ Cardinality(before) = j - 1
  <2>1. 1 \in Int /\ j \in Int /\ j - 1 \in Int /\ j >= 1
    BY <1>1
  <2>2. IsFiniteSet(1 .. (j - 1)) /\ Cardinality(1 .. (j - 1)) = IF 1 > j - 1 THEN 0 ELSE (j - 1) - 1 + 1
    BY <2>1, FS_Interval
  <2> QED BY <2>1, <2>2
<1>7. IsFiniteSet(higher) /\ Cardinality(higher) = Len(chain) - k
  <2>1. k + 1 \in Int /\ Len(chain) \in Int /\ k \in Int /\ k <= Len(chain)
    BY <1>5
  <2>2. /\ IsFiniteSet((k + 1) .. Len(chain))
        /\ Cardinality((k + 1) .. Len(chain)) =
             IF k + 1 > Len(chain) THEN 0 ELSE Len(chain) - (k + 1) + 1
    BY <2>1, FS_Interval
  <2> QED BY <2>1, <2>2
<1>8. IsFiniteSet(canonical) /\ Cardinality(canonical) <= Len(chain) - k
  <2>1. g \in Surjection(higher, canonical)
    BY DEF Surjection
  <2> HIDE DEF g, canonical, higher
  <2> QED BY <1>7, <2>1, FS_Surjection
<1>9. IsFiniteSet(StaleHashes)
  <2>1. IsFiniteSet(1 .. produced)
    BY <1>1, FS_Interval
  <2>2. StaleHashes \in SUBSET (1 .. produced)
    BY DEF StaleHashes
  <2> QED BY <2>1, <2>2, FS_Subset
<1>10. ASSUME NEW i \in before PROVE learned[i] \in StaleHashes \union canonical
  <2>1. i \in 1 .. Len(learned) /\ i \in 1 .. j - 1
    BY <1>1
  <2>2. learned[i] \in 1 .. produced /\ In(learned, learned[i])
    BY <2>1 DEF HeadsInv, ListInv, Blocks, In
  <2>3. Under(learned[j], learned[1]) /\ ~Under(learned[i], learned[j])
    <3>1. Under(learned[j], learned[1])
      BY <1>4, <1>5 DEF Under, In
    <3> QED BY <2>1, <3>1 DEF HeadsInv, ListInv, Ordered
  <2>4. CASE Under(learned[i], learned[1])
    <3>1. /\ Height(learned[i]) \in 1 .. Len(chain) /\ chain[Height(learned[i])] = learned[i]
      BY <1>1, <1>5, <2>4, UnderSlot DEF HeadsInv
    <3>2. ~(Height(learned[i]) <= Height(learned[j]))
      BY <1>1, <1>5, <2>3, <2>4, UnderLinear DEF HeadsInv
    <3>3. Height(learned[j]) = k
      BY <1>4, <1>5 DEF HeadsInv, BranchInv, Height
    <3>4. Height(learned[i]) \in higher
      BY <1>5, <3>1, <3>2, <3>3
    <3> QED BY <3>1, <3>4
  <2>5. CASE ~Under(learned[i], learned[1])
    BY <1>5, <2>2, <2>5 DEF StaleHashes, Under, LastChain
  <2> QED BY <2>4, <2>5
<1>11. f \in Injection(before, StaleHashes \union canonical)
  <2>1. f \in [before -> StaleHashes \union canonical]
    BY <1>10
  <2>2. ASSUME NEW a \in before, NEW b \in before, f[a] = f[b] PROVE a = b
    <3>1. a \in 1 .. Len(learned) /\ b \in 1 .. Len(learned) /\ learned[a] = learned[b]
      BY <1>1, <2>2
    <3> QED BY <1>1, <3>1 DEF Distinct
  <2> QED BY <2>1, <2>2 DEF Injection, IsInjective
<1> HIDE DEF f, g, before, higher, canonical
<1>12. IsFiniteSet(StaleHashes \union canonical)
  BY <1>8, <1>9, FS_Union
<1>13. Cardinality(StaleHashes \union canonical) <= Cardinality(StaleHashes) + Cardinality(canonical)
  <2>1. Cardinality(StaleHashes \union canonical)
          = Cardinality(StaleHashes) + Cardinality(canonical) - Cardinality(StaleHashes \cap canonical)
    BY <1>8, <1>9, FS_Union
  <2>2. Cardinality(StaleHashes \cap canonical) \in Nat
    BY <1>9, FS_Intersection, FS_CardinalityType
  <2>3. Cardinality(StaleHashes) \in Nat /\ Cardinality(canonical) \in Nat
    BY <1>8, <1>9, FS_CardinalityType
  <2> QED BY <2>1, <2>2, <2>3
<1>14. j - 1 <= Cardinality(StaleHashes \union canonical)
  BY <1>6, <1>11, <1>12, FS_Injection
<1>15. /\ Cardinality(StaleHashes) \in Nat /\ Cardinality(canonical) \in Nat
       /\ Cardinality(StaleHashes \union canonical) \in Nat
  BY <1>8, <1>9, <1>12, FS_CardinalityType
<1>16. (Len(chain) - k) + Cardinality(StaleHashes) < Capacity
  BY DEF chain
<1>17. j \in Nat /\ j >= 1 /\ j <= Capacity
  BY <1>1, <1>5, <1>8, <1>13, <1>14, <1>15, <1>16
<1>18. j \in 1 .. Len(cache)
  BY <1>1, <1>2, <1>17
<1>19. cache[j] = LastChain[k]
  BY <1>3, <1>4, <1>18 DEF chain
<1> QED BY <1>18, <1>19 DEF In

\* Without reorganisations every block learned is on the last chain, so that the two
\* properties above are each other's converse.
LEMMA UnreorganisedExact ==
  ASSUME CacheInv, HeadsInv
  PROVE  ExactWithoutReorgs
<1> SUFFICES ASSUME NeverReorganised, NEW j \in 1 .. Len(learned)
             PROVE  In(cache, learned[j]) <=> Height(learned[1]) < Height(learned[j]) + Capacity
  BY DEF ExactWithoutReorgs
<1>1. /\ learned \in Seq(Hashes) /\ Len(learned) \in Nat /\ TypeOK
      /\ Capacity \in Nat /\ cache = Firsts(learned, Capacity)
  BY CapacityAssumption DEF CacheInv, TypeOK, CacheIsRecent
<1>2. Len(cache) = (IF Len(learned) <= Capacity THEN Len(learned) ELSE Capacity)
  BY <1>1, FirstsType
<1>3. \A i \in 1 .. Len(cache) : cache[i] = learned[i]
  BY <1>1, FirstsType
<1>4. 1 \in 1 .. Len(learned) /\ learned # <<>>
  BY <1>1
<1> DEFINE l == learned[1]
<1>5. /\ l \in Blocks /\ Height(l) = l /\ \A b \in 1 .. l : branch[l][b] = b
      /\ \A b \in Blocks : Height(b) = b
  <2>1. \A b \in Blocks : b \in 1 .. Len(Chain) /\ Chain[b] = b
    BY DEF HeadsInv, PathInv, NeverReorganised, Blocks
  <2>2. tip \in Blocks /\ produced \in Nat
    BY <1>1, BlocksAreHashes
  <2>3. \A b \in Blocks : Height(b) = b /\ \A m \in 1 .. b : branch[b][m] = Chain[m]
    BY <2>1, <2>2 DEF HeadsInv, BranchInv, Chain, Height
  <2>4. l \in Blocks
    BY <1>4 DEF HeadsInv, ListInv
  <2>5. \A b \in 1 .. l : b \in Blocks
    BY <2>2, <2>4 DEF Blocks
  <2> QED BY <2>1, <2>3, <2>4, <2>5
<1>6. ASSUME NEW i \in 1 .. Len(learned) PROVE learned[i] \in 1 .. l /\ LastChain[learned[i]] = learned[i]
  <2>1. learned[i] \in Blocks /\ learned[i] <= l
    BY DEF HeadsInv, ListInv
  <2>2. learned[i] \in 1 .. l
    BY <1>5, <2>1 DEF Blocks
  <2> QED BY <1>5, <2>2 DEF LastChain
<1>7. l \in Nat /\ Len(LastChain) = l
  BY <1>5 DEF LastChain, Height, Blocks
<1>8. Cardinality(StaleHashes) = 0
  <2>1. \A h : In(learned, h) => In(LastChain, h)
    BY <1>6, <1>7 DEF In
  <2>2. StaleHashes = {}
    BY <2>1 DEF StaleHashes
  <2> QED BY <2>2, FS_EmptySet
<1> DEFINE b == learned[j]
<1>9. b \in 1 .. l /\ LastChain[b] = b /\ b \in Blocks /\ Height(b) = b
  BY <1>5, <1>6 DEF HeadsInv, ListInv
<1>10. ASSUME In(cache, b)
       PROVE  Height(l) < Height(b) + Capacity
  <2>1. PICK i \in 1 .. Len(cache) : cache[i] = b
    BY <1>10 DEF In
  <2>2. 1 \in 1 .. Len(cache) /\ cache[1] = l
    BY <1>1, <1>2, <1>3, <2>1
  <2>3. Height(cache[1]) < Height(cache[i]) + Capacity
    BY HitsAreClose DEF SyncedMeansClose
  <2> QED BY <2>1, <2>2, <2>3
<1>11. ASSUME Height(l) < Height(b) + Capacity
       PROVE  In(cache, b)
  <2>1. (Len(LastChain) - b) + Cardinality(StaleHashes) < Capacity
    <3> HIDE DEF l, b
    <3>1. l < b + Capacity /\ b \in Nat
      BY <1>5, <1>7, <1>9, <1>11
    <3> QED BY <1>1, <1>7, <1>8, <3>1
  <2>2. b \in 1 .. Len(LastChain) /\ In(learned, LastChain[b])
    BY <1>7, <1>9 DEF In
  <2>3. In(cache, LastChain[b])
    BY <1>4, <2>1, <2>2, CanonicalStays DEF CanonicalKept
  <2> QED BY <1>9, <2>3
<1> QED BY <1>10, <1>11

\* A peer whose head is found in the cache is less than Capacity blocks behind
\* the last block applied: through reorganisations of any depth, and in the middle
\* of one, when only the first of its blocks have been announced.
THEOREM SyncedPeersAreClose == Spec => []SyncedMeansClose
<1>1. CacheInv /\ HeadsInv /\ [Next]_vars => (CacheInv /\ HeadsInv)'
  BY CacheInvNext, HeadsInvNext
<1> QED BY <1>1, CacheInvInit, HeadsInit, HitsAreClose, PTL DEF Spec

\* A block of the chain that ends in the last block learned is found in the cache, if
\* it was learned, while its lag and the stale blocks learned fit in Capacity.
THEOREM CloseBlocksAreKept == Spec => []CanonicalKept
<1>1. CacheInv /\ HeadsInv /\ [Next]_vars => (CacheInv /\ HeadsInv)'
  BY CacheInvNext, HeadsInvNext
<1> QED BY <1>1, CacheInvInit, HeadsInit, CanonicalStays, PTL DEF Spec

\* Of the blocks of a chain never reorganised exactly those that lag less than
\* Capacity are found.
THEOREM ExactOnOneChain == Spec => []ExactWithoutReorgs
<1>1. CacheInv /\ HeadsInv /\ [Next]_vars => (CacheInv /\ HeadsInv)'
  BY CacheInvNext, HeadsInvNext
<1> QED BY <1>1, CacheInvInit, HeadsInit, UnreorganisedExact, PTL DEF Spec

=============================================================================
