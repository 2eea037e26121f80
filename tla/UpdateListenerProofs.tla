------------------------- MODULE UpdateListenerProofs -------------------------
(***************************************************************************)
(* Theorems about UpdateListener, for any number of nodes, peers, tasks    *)
(* and any threshold.                                                      *)
(***************************************************************************)
EXTENDS UpdateListener, TLAPS

-----------------------------------------------------------------------------
(* Type correctness                                                        *)

\* UpTo keeps a counter within its limit.
LEMMA UpToType ==
  ASSUME NEW k \in Nat
  PROVE  UpTo(Threshold, k) \in 0 .. Threshold
BY ThresholdAssumption DEF UpTo

\* The variables a task keeps to itself stay well typed when it starts, moves
\* on or ends.
LocalTypeOK ==
  /\ pc \in [Tasks -> Locations]
  /\ task \in [Tasks -> Locals \union {None}]
  /\ \A t \in Tasks : pc[t] # "idle" => task[t] \in Locals

LEMMA SpawnLocal ==
  ASSUME LocalTypeOK, NEW t \in Tasks, NEW n \in Nodes, NEW r \in Record,
         NEW client \in Clients, NEW entry \in Locations, Spawn(t, n, r, client, entry)
  PROVE  LocalTypeOK'
BY DEF LocalTypeOK, Spawn, Locals

LEMMA FinishLocal ==
  ASSUME LocalTypeOK, NEW t \in Tasks, NEW from \in Locations, Finish(t, from)
  PROVE  LocalTypeOK'
BY DEF LocalTypeOK, Finish, Goto, Locations

LEMMA GotoLocal ==
  ASSUME LocalTypeOK, NEW t \in Tasks, NEW from \in Locations \ {"idle"},
         NEW to \in Locations, Goto(t, from, to), UNCHANGED task
  PROVE  LocalTypeOK'
BY DEF LocalTypeOK, Goto, Locations

LEMMA UpdateLocal ==
  ASSUME LocalTypeOK, NEW t \in Tasks, NEW from \in Locations \ {"idle"},
         NEW to \in Locations, Goto(t, from, to),
         NEW l \in Locals, task' = [task EXCEPT ![t] = l]
  PROVE  LocalTypeOK'
BY DEF LocalTypeOK, Goto, Locations

\* The locals of a task that is not idle.
LEMMA TaskType ==
  ASSUME TypeOK, NEW t \in Tasks, pc[t] # "idle"
  PROVE  /\ task[t] \in Locals
         /\ task[t].node \in Nodes
         /\ task[t].peer \in Record
         /\ task[t].peer.id \in Peers
         /\ task[t].peer.address \in Addrs
         /\ task[t].count \in Nat
         /\ task[t].client \in Clients
         /\ task[t].last_seen \in Nat
BY DEF TypeOK, Locals, Record

LEMMA TypeOKInit == Init => TypeOK
BY ThresholdAssumption DEF Init, TypeOK, Locations

\* Every step keeps the variables in their types: one step of the proof per action.
LEMMA TypeOKNext == TypeOK /\ [Next]_vars => TypeOK'
<1> SUFFICES ASSUME TypeOK, [Next]_vars PROVE TypeOK'
  OBVIOUS
<1> USE DEF discv4, store, history
<1>0. LocalTypeOK
  BY DEF TypeOK, LocalTypeOK
<1>1. CASE UNCHANGED vars
  BY <1>1 DEF TypeOK, vars
<1>2. ASSUME NEW n \in Nodes, NEW r \in Discoverable, Announce(n, r) PROVE TypeOK'
  BY <1>2, RecordsAssumption DEF TypeOK, Announce
<1>3. ASSUME NEW n \in Nodes, NEW a \in Addrs, HandleBan(n, a) PROVE TypeOK'
  BY <1>3 DEF TypeOK, HandleBan
<1>4. ASSUME NEW t \in Tasks, NEW n \in Nodes, NEW r \in Discoverable, Discv4Update(t, n, r)
      PROVE  TypeOK'
  <2>1. LocalTypeOK'
    BY <1>0, <1>4, SpawnLocal, RecordsAssumption DEF Discv4Update, Locations, Clients
  <2> QED BY <1>4, <2>1 DEF TypeOK, LocalTypeOK, Discv4Update
<1>5. ASSUME NEW t \in Tasks, NEW n \in Nodes, NEW r \in Listed, DnsUpdate(t, n, r)
      PROVE  TypeOK'
  <2>1. LocalTypeOK'
    BY <1>0, <1>5, SpawnLocal, RecordsAssumption DEF DnsUpdate, Locations, Clients
  <2> QED BY <1>5, <2>1 DEF TypeOK, LocalTypeOK, DnsUpdate
<1>6. ASSUME NEW t \in Tasks, NEW n \in Nodes, NEW r \in Inbound, NEW client \in Clients,
             SessionEstablished(t, n, r, client)
      PROVE  TypeOK'
  <2>1. LocalTypeOK'
    BY <1>0, <1>6, SpawnLocal, RecordsAssumption DEF SessionEstablished, Locations
  <2> QED BY <1>6, <2>1 DEF TypeOK, LocalTypeOK, SessionEstablished
<1>7. ASSUME NEW t \in Tasks, Step(t) PROVE TypeOK'
  <2>1. CASE ReadFailures(t)
    <3>1. pc[t] # "idle"
      BY <2>1 DEF ReadFailures, Goto
    <3>2. [task[t] EXCEPT !.count = p2p_failures[task[t].node][task[t].peer.id]] \in Locals
      <4>1. p2p_failures[task[t].node][task[t].peer.id] \in Nat
        BY <3>1, TaskType, ThresholdAssumption DEF TypeOK
      <4> QED BY <3>1, <4>1, TaskType DEF Locals
    <3>3. LocalTypeOK'
      BY <1>0, <2>1, <3>2, UpdateLocal DEF ReadFailures, Locations
    <3>4. overlapped' \in [Nodes -> SUBSET Peers]
      BY <2>1, <3>1, TaskType DEF TypeOK, ReadFailures
    <3> QED BY <2>1, <3>3, <3>4 DEF TypeOK, LocalTypeOK, ReadFailures
  <2>2. ASSUME NEW client \in Clients, HandshakeP2pOk(t, client) PROVE TypeOK'
    <3>1. pc[t] # "idle"
      BY <2>2 DEF HandshakeP2pOk, Goto
    <3>2. [task[t] EXCEPT !.client = client] \in Locals
      BY <3>1, TaskType DEF Locals
    <3>3. LocalTypeOK'
      BY <1>0, <2>2, <3>2, UpdateLocal DEF HandshakeP2pOk, Locations
    <3> QED BY <2>2, <3>3 DEF TypeOK, LocalTypeOK, HandshakeP2pOk
  <2>3. CASE TooManyPeers(t)
    <3>1. LocalTypeOK'
      BY <1>0, <2>3, FinishLocal DEF TooManyPeers, Locations
    <3> QED BY <2>3, <3>1 DEF TypeOK, LocalTypeOK, TooManyPeers
  <2>4. CASE CountFailure(t)
    <3>1. pc[t] # "idle"
      BY <2>4 DEF CountFailure, Finish, Goto
    <3>2. LocalTypeOK'
      BY <1>0, <2>4, FinishLocal DEF CountFailure, Locations
    <3>3. p2p_failures' \in [Nodes -> [Peers -> 0 .. Threshold - 1]]
      BY <2>4, <3>1, TaskType, ThresholdAssumption
      DEF TypeOK, CountFailure, ReachedThreshold, SetFailures
    <3>4. NoteFailure(task[t].node, task[t].peer)
      BY <2>4 DEF CountFailure
    <3>5. /\ failures' \in [Nodes -> [Peers -> 0 .. Threshold]]
          /\ sinceReset' \in [Nodes -> [Peers -> 0 .. Threshold]]
          /\ failedAt' \in [Nodes -> SUBSET Record]
      BY <3>1, <3>4, TaskType, UpToType, ThresholdAssumption DEF TypeOK, NoteFailure
    <3> QED BY <2>4, <3>2, <3>3, <3>5 DEF TypeOK, LocalTypeOK, CountFailure
  <2>5. CASE BanForFailures(t)
    <3>1. pc[t] # "idle"
      BY <2>5 DEF BanForFailures, Goto
    <3>2. LocalTypeOK'
      BY <1>0, <2>5, GotoLocal DEF BanForFailures, Locations
    <3>3. commands' \in [Nodes -> SUBSET Addrs]
      BY <2>5, <3>1, TaskType DEF TypeOK, BanForFailures, BanIp
    <3>4. NoteFailure(task[t].node, task[t].peer)
      BY <2>5 DEF BanForFailures
    <3>5. /\ failures' \in [Nodes -> [Peers -> 0 .. Threshold]]
          /\ sinceReset' \in [Nodes -> [Peers -> 0 .. Threshold]]
          /\ failedAt' \in [Nodes -> SUBSET Record]
      BY <3>1, <3>4, TaskType, UpToType, ThresholdAssumption DEF TypeOK, NoteFailure
    <3> QED BY <2>5, <3>2, <3>3, <3>5 DEF TypeOK, LocalTypeOK, BanForFailures
  <2>6. CASE ResetFailures(t)
    <3>1. pc[t] # "idle"
      BY <2>6 DEF ResetFailures, Finish, Goto
    <3>2. LocalTypeOK'
      BY <1>0, <2>6, FinishLocal DEF ResetFailures, Locations
    <3>3. /\ p2p_failures' \in [Nodes -> [Peers -> 0 .. Threshold - 1]]
          /\ sinceReset' \in [Nodes -> [Peers -> 0 .. Threshold]]
      BY <2>6, <3>1, TaskType, ThresholdAssumption DEF TypeOK, ResetFailures, SetFailures
    <3> QED BY <2>6, <3>2, <3>3 DEF TypeOK, LocalTypeOK, ResetFailures
  <2>7. CASE Refuse(t)
    <3>1. pc[t] # "idle"
      BY <2>7 DEF Refuse, Finish, Goto
    <3>2. LocalTypeOK'
      BY <1>0, <2>7, FinishLocal DEF Refuse, Locations
    <3>3. /\ commands' \in [Nodes -> SUBSET Addrs]
          /\ offences' \in [Nodes -> SUBSET Record]
      BY <2>7, <3>1, TaskType DEF TypeOK, Refuse, BanIp
    <3> QED BY <2>7, <3>2, <3>3 DEF TypeOK, LocalTypeOK, Refuse
  <2>8. CASE HandshakeEthOk(t)
    <3>1. pc[t] # "idle"
      BY <2>8 DEF HandshakeEthOk, Goto
    <3>2. /\ clock' \in Nat
          /\ [task[t] EXCEPT !.last_seen = clock'] \in Locals
      <4>1. clock' \in Nat
        BY <2>8 DEF TypeOK, HandshakeEthOk, StampLastSeen
      <4> QED BY <3>1, <4>1, TaskType DEF Locals
    <3>3. LocalTypeOK'
      BY <1>0, <2>8, <3>2, UpdateLocal DEF HandshakeEthOk, StampLastSeen, Locations
    <3> QED BY <2>8, <3>2, <3>3 DEF TypeOK, LocalTypeOK, HandshakeEthOk
  <2>9. CASE SkipSession(t)
    <3>1. LocalTypeOK'
      BY <1>0, <2>9, FinishLocal DEF SkipSession, Locations
    <3> QED BY <2>9, <3>1 DEF TypeOK, LocalTypeOK, SkipSession
  <2>10. CASE HandleSession(t)
    <3>1. pc[t] # "idle"
      BY <2>10 DEF HandleSession, Goto
    <3>2. /\ clock' \in Nat
          /\ [task[t] EXCEPT !.last_seen = clock'] \in Locals
      <4>1. clock' \in Nat
        BY <2>10 DEF TypeOK, HandleSession, StampLastSeen
      <4> QED BY <3>1, <4>1, TaskType DEF Locals
    <3>3. LocalTypeOK'
      BY <1>0, <2>10, <3>2, UpdateLocal DEF HandleSession, StampLastSeen, Locations
    <3> QED BY <2>10, <3>2, <3>3 DEF TypeOK, LocalTypeOK, HandleSession
  <2>11. CASE Geolocate(t)
    <3>1. LocalTypeOK'
      BY <1>0, <2>11, GotoLocal DEF Geolocate, Locations
    <3> QED BY <2>11, <3>1 DEF TypeOK, LocalTypeOK, Geolocate
  <2>12. CASE IsSynced(t)
    <3>1. LocalTypeOK'
      BY <1>0, <2>12, GotoLocal DEF IsSynced, Locations
    <3> QED BY <2>12, <3>1 DEF TypeOK, LocalTypeOK, IsSynced
  <2>13. CASE SavePeer(t)
    <3>1. pc[t] # "idle"
      BY <2>13 DEF SavePeer, Finish, Goto
    <3>2. LocalTypeOK'
      BY <1>0, <2>13, FinishLocal DEF SavePeer, Locations
    <3>3. PeerData(t) \in Row
      BY <3>1, TaskType DEF PeerData, Row
    <3>4. db' \in [Peers -> Row \union {None}]
      BY <2>13, <3>1, <3>3, TaskType DEF TypeOK, SavePeer
    <3> QED BY <2>13, <3>2, <3>4 DEF TypeOK, LocalTypeOK, SavePeer
  <2>14. CASE SaveFails(t)
    <3>1. LocalTypeOK'
      BY <1>0, <2>14, FinishLocal DEF SaveFails, Locations
    <3> QED BY <2>14, <3>1 DEF TypeOK, LocalTypeOK, SaveFails
  <2> QED
    BY <1>7, <2>1, <2>2, <2>3, <2>4, <2>5, <2>6, <2>7, <2>8, <2>9, <2>10, <2>11, <2>12,
       <2>13, <2>14
    DEF Step, P2pReply, EthReply, HandshakeEthFails, AnonymousHello
<1> QED
  BY <1>1, <1>2, <1>3, <1>4, <1>5, <1>6, <1>7 DEF Next

\* The variables keep their types: in particular a stored count never reaches
\* the threshold, whatever the interleaving of reads, writes and resets.
THEOREM TypeCorrect == Spec => []TypeOK
BY TypeOKInit, TypeOKNext, PTL DEF Spec

-----------------------------------------------------------------------------
(* Bans are justified                                                      *)

(***************************************************************************)
(* BansJustified is not inductive: a task bans on the count it holds, so   *)
(* what it holds must be backed by failures that happened.  A count is     *)
(* backed when the history has at least as many failures; the stored       *)
(* counts and the ones that tasks hold across the handshake both are, and  *)
(* remain so because the history only grows, while a count is only ever    *)
(* copied, reset, or increased by a failure that the history sees too.     *)
(***************************************************************************)
CountsBacked ==
  /\ \A n \in Nodes, p \in Peers : p2p_failures[n][p] <= failures[n][p]
  /\ \A t \in Tasks :
       pc[t] = "p2p" => task[t].count <= failures[task[t].node][task[t].peer.id]

BansInv == TypeOK /\ CountsBacked /\ BansJustified

LEMMA UpToGrows ==
  ASSUME NEW k \in 0 .. Threshold
  PROVE  /\ k <= UpTo(Threshold, k + 1)
         /\ \A c \in Nat : c <= k /\ c + 1 <= Threshold => c + 1 <= UpTo(Threshold, k + 1)
BY ThresholdAssumption DEF UpTo

\* What a counted failure does to the history.
LEMMA NoteFailureEffect ==
  ASSUME TypeOK, NEW n \in Nodes, NEW r \in Record, NoteFailure(n, r)
  PROVE  /\ \A m \in Nodes, p \in Peers :
              failures'[m][p] = IF m = n /\ p = r.id THEN UpTo(Threshold, failures[n][p] + 1)
                                ELSE failures[m][p]
         /\ \A m \in Nodes, p \in Peers : failures[m][p] <= failures'[m][p]
         /\ \A m \in Nodes : failedAt[m] \subseteq failedAt'[m]
         /\ r \in failedAt'[n]
<1>1. r.id \in Peers
  BY DEF Record
<1>2. \A m \in Nodes, p \in Peers :
        failures'[m][p] = IF m = n /\ p = r.id THEN UpTo(Threshold, failures[n][p] + 1)
                          ELSE failures[m][p]
  BY <1>1 DEF TypeOK, NoteFailure
<1>3. \A m \in Nodes, p \in Peers : failures[m][p] \in 0 .. Threshold
  BY DEF TypeOK
<1>4. \A m \in Nodes, p \in Peers : failures[m][p] <= failures'[m][p]
  BY <1>2, <1>3, UpToGrows, ThresholdAssumption
<1>5. (\A m \in Nodes : failedAt[m] \subseteq failedAt'[m]) /\ r \in failedAt'[n]
  BY DEF TypeOK, NoteFailure
<1> QED BY <1>2, <1>4, <1>5

\* The history never forgets.
HistoryGrows ==
  \A n \in Nodes :
    /\ \A p \in Peers : failures[n][p] <= failures'[n][p]
    /\ failedAt[n] \subseteq failedAt'[n]
    /\ offences[n] \subseteq offences'[n]

LEMMA HistoryGrowsNext == TypeOK /\ [Next]_vars => HistoryGrows
<1> SUFFICES ASSUME TypeOK, [Next]_vars PROVE HistoryGrows
  OBVIOUS
<1> USE DEF discv4, store, history
<1>1. \A n \in Nodes, p \in Peers : failures[n][p] \in Nat
  BY ThresholdAssumption DEF TypeOK
<1>2. CASE UNCHANGED <<failures, failedAt, offences>>
  BY <1>1, <1>2 DEF HistoryGrows
<1>3. ASSUME NEW t \in Tasks, CountFailure(t) \/ BanForFailures(t) PROVE HistoryGrows
  <2>1. /\ task[t].node \in Nodes
        /\ task[t].peer \in Record
    BY <1>3, TaskType DEF CountFailure, BanForFailures, Finish, Goto
  <2>2. NoteFailure(task[t].node, task[t].peer) /\ UNCHANGED offences
    BY <1>3 DEF CountFailure, BanForFailures
  <2> QED BY <2>1, <2>2, NoteFailureEffect DEF HistoryGrows
<1>4. ASSUME NEW t \in Tasks, Refuse(t) PROVE HistoryGrows
  <2>1. UNCHANGED <<failures, failedAt>>
    BY <1>4 DEF Refuse
  <2>2. \A n \in Nodes : offences[n] \subseteq offences'[n]
    BY <1>4 DEF Refuse, TypeOK
  <2> QED BY <1>1, <2>1, <2>2 DEF HistoryGrows
<1>5. ASSUME NEW t \in Tasks, Step(t) PROVE HistoryGrows
  BY <1>2, <1>3, <1>4, <1>5
  DEF Step, P2pReply, EthReply, HandshakeEthFails, AnonymousHello, ReadFailures,
      HandshakeP2pOk, TooManyPeers, ResetFailures, HandshakeEthOk, SkipSession,
      HandleSession, Geolocate, IsSynced, SavePeer, SaveFails
<1> QED
  BY <1>2, <1>5
  DEF Next, vars, Announce, HandleBan, Discv4Update, DnsUpdate, SessionEstablished

\* A ban that was deserved stays deserved.
LEMMA DeservedStable ==
  ASSUME TypeOK, TypeOK', HistoryGrows, NEW n \in Nodes, NEW a \in Addrs, Deserved(n, a)
  PROVE  Deserved(n, a)'
<1>1. PICK r \in Record : /\ r.address = a
                          /\ \/ r \in offences[n]
                             \/ r \in failedAt[n] /\ failures[n][r.id] >= Threshold
  BY DEF Deserved
<1>2. r.id \in Peers
  BY DEF Record
<1>3. /\ failures[n][r.id] \in Nat
      /\ failures'[n][r.id] \in Nat
      /\ failures[n][r.id] <= failures'[n][r.id]
  BY <1>2, ThresholdAssumption DEF TypeOK, HistoryGrows
<1>4. r \in offences'[n] \/ (r \in failedAt'[n] /\ failures'[n][r.id] >= Threshold)
  BY <1>1, <1>3, ThresholdAssumption DEF HistoryGrows
<1> QED BY <1>1, <1>4 DEF Deserved

LEMMA BansInvInit == Init => BansInv
BY TypeOKInit DEF Init, BansInv, CountsBacked, BansJustified

\* Counts stay backed: the steps that matter read, increase, reset or move a count.
LEMMA CountsBackedNext == TypeOK /\ TypeOK' /\ CountsBacked /\ [Next]_vars => CountsBacked'
<1> SUFFICES ASSUME TypeOK, TypeOK', CountsBacked, [Next]_vars PROVE CountsBacked'
  OBVIOUS
<1> USE DEF discv4, store, history
<1>1. HistoryGrows
  BY HistoryGrowsNext
<1>2. \A n \in Nodes, p \in Peers : /\ failures[n][p] \in Nat
                                    /\ failures'[n][p] \in Nat
                                    /\ failures[n][p] <= failures'[n][p]
                                    /\ p2p_failures[n][p] \in Nat
  BY <1>1, ThresholdAssumption DEF TypeOK, HistoryGrows
<1>3. \A u \in Tasks : pc[u] = "p2p" => /\ task[u].node \in Nodes
                                        /\ task[u].peer.id \in Peers
                                        /\ task[u].count \in Nat
  BY TaskType
<1>4. ASSUME UNCHANGED p2p_failures,
             \A u \in Tasks : pc'[u] = "p2p" => pc[u] = "p2p" /\ task'[u] = task[u]
      PROVE  CountsBacked'
  <2>1. \A n \in Nodes, p \in Peers : p2p_failures'[n][p] <= failures'[n][p]
    BY <1>2, <1>4 DEF CountsBacked
  <2>2. ASSUME NEW u \in Tasks, pc'[u] = "p2p"
        PROVE  task'[u].count <= failures'[task'[u].node][task'[u].peer.id]
    BY <1>2, <1>3, <1>4, <2>2 DEF CountsBacked
  <2> QED BY <2>1, <2>2 DEF CountsBacked
<1>5. ASSUME NEW t \in Tasks, Step(t) PROVE CountsBacked'
  <2>1. CASE ReadFailures(t)
    <3>1. pc[t] = "start"
      BY <2>1 DEF ReadFailures, Goto
    <3>2. /\ task[t] \in Locals
          /\ task[t].node \in Nodes
          /\ task[t].peer.id \in Peers
      BY <3>1, TaskType
    <3>3. task' = [task EXCEPT ![t].count = p2p_failures[task[t].node][task[t].peer.id]]
      BY <2>1 DEF ReadFailures
    <3>4. /\ task'[t].count = p2p_failures[task[t].node][task[t].peer.id]
          /\ task'[t].node = task[t].node
          /\ task'[t].peer = task[t].peer
      BY <3>2, <3>3 DEF TypeOK, Locals
    <3>5. \A u \in Tasks \ {t} : pc'[u] = pc[u] /\ task'[u] = task[u]
      BY <2>1, <3>3 DEF TypeOK, ReadFailures, Goto
    <3>6. UNCHANGED <<p2p_failures, failures>>
      BY <2>1 DEF ReadFailures
    <3> QED BY <3>2, <3>4, <3>5, <3>6 DEF CountsBacked
  <2>2. CASE CountFailure(t)
    <3>1. /\ pc[t] = "p2p"
          /\ \A u \in Tasks : pc'[u] = "p2p" => u # t /\ pc[u] = "p2p" /\ task'[u] = task[u]
      BY <2>2 DEF TypeOK, CountFailure, Finish, Goto
    <3> DEFINE n == task[t].node
               p == task[t].peer.id
    <3>2. /\ n \in Nodes
          /\ p \in Peers
          /\ task[t].peer \in Record
          /\ task[t].count \in Nat
      BY <3>1, TaskType
    <3>3. /\ NoteFailure(n, task[t].peer)
          /\ SetFailures(n, p, task[t].count + 1)
          /\ task[t].count + 1 < Threshold
      BY <2>2, <3>2, ThresholdAssumption DEF CountFailure, ReachedThreshold
    <3>4. failures'[n][p] = UpTo(Threshold, failures[n][p] + 1)
      BY <3>2, <3>3, NoteFailureEffect
    <3>5. task[t].count <= failures[n][p] /\ failures[n][p] \in 0 .. Threshold
      BY <3>1, <3>2 DEF CountsBacked, TypeOK
    <3>6. task[t].count + 1 <= failures'[n][p]
      BY <3>2, <3>3, <3>4, <3>5, UpToGrows, ThresholdAssumption
    <3>7. \A m \in Nodes, q \in Peers :
            p2p_failures'[m][q] = IF m = n /\ q = p THEN task[t].count + 1
                                  ELSE p2p_failures[m][q]
      BY <3>2, <3>3 DEF TypeOK, SetFailures
    <3>8. \A m \in Nodes, q \in Peers : p2p_failures'[m][q] <= failures'[m][q]
      BY <1>2, <3>6, <3>7 DEF CountsBacked
    <3>9. ASSUME NEW u \in Tasks, pc'[u] = "p2p"
          PROVE  task'[u].count <= failures'[task'[u].node][task'[u].peer.id]
      BY <1>2, <1>3, <3>1, <3>9 DEF CountsBacked
    <3> QED BY <3>8, <3>9 DEF CountsBacked
  <2>3. CASE ResetFailures(t)
    <3>1. /\ pc[t] = "reset"
          /\ \A u \in Tasks : pc'[u] = "p2p" => pc[u] = "p2p" /\ task'[u] = task[u]
      BY <2>3 DEF TypeOK, ResetFailures, Finish, Goto
    <3>2. task[t].node \in Nodes /\ task[t].peer.id \in Peers
      BY <3>1, TaskType
    <3>3. SetFailures(task[t].node, task[t].peer.id, 0)
      BY <2>3 DEF ResetFailures
    <3>4. \A m \in Nodes, q \in Peers :
            p2p_failures'[m][q] = 0 \/ p2p_failures'[m][q] = p2p_failures[m][q]
      BY <3>2, <3>3 DEF TypeOK, SetFailures
    <3>5. \A m \in Nodes, q \in Peers : p2p_failures'[m][q] <= failures'[m][q]
      BY <1>2, <3>4 DEF CountsBacked
    <3>6. ASSUME NEW u \in Tasks, pc'[u] = "p2p"
          PROVE  task'[u].count <= failures'[task'[u].node][task'[u].peer.id]
      BY <1>2, <1>3, <3>1, <3>6 DEF CountsBacked
    <3> QED BY <3>5, <3>6 DEF CountsBacked
  <2>4. CASE \/ TooManyPeers(t) \/ BanForFailures(t) \/ Refuse(t) \/ SkipSession(t)
             \/ SavePeer(t) \/ SaveFails(t) \/ Geolocate(t) \/ IsSynced(t)
    BY <1>4, <2>4
    DEF TypeOK, TooManyPeers, BanForFailures, Refuse, SkipSession, SavePeer, SaveFails,
        Geolocate, IsSynced, Finish, Goto
  <2>5. CASE (\E client \in Clients : HandshakeP2pOk(t, client)) \/ HandshakeEthOk(t)
             \/ HandleSession(t)
    BY <1>4, <2>5
    DEF TypeOK, HandshakeP2pOk, HandshakeEthOk, HandleSession, StampLastSeen, Goto
  <2> QED
    BY <1>5, <2>1, <2>2, <2>3, <2>4, <2>5
    DEF Step, P2pReply, EthReply, HandshakeEthFails, AnonymousHello
<1>6. CASE UNCHANGED vars
  BY <1>4, <1>6 DEF vars
<1>7. ASSUME NEW t \in Tasks, NEW n \in Nodes, NEW r, NEW client, NEW entry,
             entry # "p2p", UNCHANGED p2p_failures, Spawn(t, n, r, client, entry)
      PROVE  CountsBacked'
  BY <1>4, <1>7 DEF TypeOK, Spawn
<1> QED
  BY <1>4, <1>5, <1>6, <1>7
  DEF Next, Announce, HandleBan, Discv4Update, DnsUpdate, SessionEstablished

\* Bans stay justified: the only new ones come from a threshold reached on a
\* backed count and from a refusal that the history records.
LEMMA BansJustifiedNext == BansInv /\ TypeOK' /\ [Next]_vars => BansJustified'
<1> SUFFICES ASSUME BansInv, TypeOK', [Next]_vars,
                    NEW n \in Nodes, NEW a \in commands'[n] \union banned'[n]
             PROVE  Deserved(n, a)'
  BY DEF BansJustified
<1> USE DEF discv4, store, history
<1>1. TypeOK /\ CountsBacked /\ BansJustified
  BY DEF BansInv
<1>2. HistoryGrows
  BY <1>1, HistoryGrowsNext
<1>3. a \in Addrs
  BY DEF TypeOK
<1>4. CASE a \in commands[n] \union banned[n]
  BY <1>1, <1>2, <1>3, <1>4, DeservedStable DEF BansJustified
<1>5. ASSUME NEW t \in Tasks, BanForFailures(t), a \notin commands[n] \union banned[n]
      PROVE  Deserved(n, a)'
  <2>1. pc[t] = "p2p"
    BY <1>5 DEF BanForFailures, Goto
  <2>2. /\ task[t].node \in Nodes
        /\ task[t].peer \in Record
        /\ task[t].peer.id \in Peers
        /\ task[t].count \in Nat
    BY <1>1, <2>1, TaskType
  <2>3. n = task[t].node /\ a = task[t].peer.address
    BY <1>1, <1>5, <2>2 DEF TypeOK, BanForFailures, BanIp
  <2>4. /\ NoteFailure(n, task[t].peer)
        /\ task[t].count + 1 >= Threshold
    BY <1>5, <2>3 DEF BanForFailures, ReachedThreshold
  <2>5. /\ failures'[n][task[t].peer.id] = UpTo(Threshold, failures[n][task[t].peer.id] + 1)
        /\ task[t].peer \in failedAt'[n]
    BY <1>1, <2>2, <2>4, NoteFailureEffect
  <2>6. /\ task[t].count <= failures[n][task[t].peer.id]
        /\ failures[n][task[t].peer.id] \in 0 .. Threshold
    BY <1>1, <2>1, <2>2, <2>3 DEF CountsBacked, TypeOK
  <2>7. failures'[n][task[t].peer.id] >= Threshold
    BY <2>2, <2>4, <2>5, <2>6, ThresholdAssumption DEF UpTo
  <2> QED BY <2>2, <2>3, <2>5, <2>7 DEF Deserved
<1>6. ASSUME NEW t \in Tasks, Refuse(t), a \notin commands[n] \union banned[n]
      PROVE  Deserved(n, a)'
  <2>1. task[t].node \in Nodes /\ task[t].peer \in Record
    BY <1>1, <1>6, TaskType DEF Refuse, Finish, Goto
  <2>2. n = task[t].node /\ a = task[t].peer.address
    BY <1>1, <1>6, <2>1 DEF TypeOK, Refuse, BanIp
  <2>3. task[t].peer \in offences'[n]
    BY <1>1, <1>6, <2>2 DEF TypeOK, Refuse
  <2> QED BY <2>1, <2>2, <2>3 DEF Deserved
<1>7. ASSUME NEW m \in Nodes, NEW b \in Addrs, HandleBan(m, b) PROVE Deserved(n, a)'
  <2>1. a \in commands[n] \union banned[n]
    BY <1>1, <1>7 DEF TypeOK, HandleBan
  <2> QED BY <1>4, <2>1
<1>8. CASE UNCHANGED <<commands, banned>>
  BY <1>4, <1>8
<1>9. ASSUME NEW t \in Tasks, Step(t) PROVE Deserved(n, a)'
  BY <1>4, <1>5, <1>6, <1>8, <1>9
  DEF Step, P2pReply, EthReply, HandshakeEthFails, AnonymousHello, ReadFailures,
      HandshakeP2pOk, TooManyPeers, CountFailure, ResetFailures, HandshakeEthOk,
      SkipSession, HandleSession, Geolocate, IsSynced, SavePeer, SaveFails
<1> QED
  BY <1>7, <1>8, <1>9
  DEF Next, vars, Announce, Discv4Update, DnsUpdate, SessionEstablished

LEMMA BansInvNext == BansInv /\ [Next]_vars => BansInv'
<1> SUFFICES ASSUME BansInv, [Next]_vars PROVE BansInv'
  OBVIOUS
<1>1. TypeOK'
  BY TypeOKNext DEF BansInv
<1>2. CountsBacked'
  BY <1>1, CountsBackedNext DEF BansInv
<1>3. BansJustified'
  BY <1>1, BansJustifiedNext
<1> QED BY <1>1, <1>2, <1>3 DEF BansInv

\* No address is banned on less than Threshold failures of a peer id that
\* failed there, or a refusal: races on the count can delay a ban, never cause one.
THEOREM BansAreJustified == Spec => []BansJustified
<1>1. BansInv => BansJustified
  BY DEF BansInv
<1> QED BY <1>1, BansInvInit, BansInvNext, PTL DEF Spec

-----------------------------------------------------------------------------
(* Counts without overlap are exact                                        *)

(***************************************************************************)
(* The induction needs what holds while a task counts: it is the only one  *)
(* of its peer, and until the handshake ends it holds the stored count,    *)
(* which is the number of failures since the last reset.                   *)
(***************************************************************************)
ExactFor(n, p) ==
  /\ \A t, u \in CountingFor(n, p) : t = u
  /\ CountingFor(n, p) = {} => p2p_failures[n][p] = sinceReset[n][p]
  /\ \A t \in CountingFor(n, p) :
       pc[t] = "p2p" => /\ p2p_failures[n][p] = sinceReset[n][p]
                        /\ task[t].count = p2p_failures[n][p]

Exact == \A n \in Nodes, p \in Peers : p \notin overlapped[n] => ExactFor(n, p)

ExactInv == TypeOK /\ Exact

LEMMA ExactInvInit == Init => ExactInv
<1> SUFFICES ASSUME Init PROVE ExactInv
  OBVIOUS
<1>1. TypeOK
  BY TypeOKInit
<1>2. ASSUME NEW n \in Nodes, NEW p \in Peers PROVE ExactFor(n, p)
  <2>1. CountingFor(n, p) = {}
    BY DEF Init, CountingFor, Counting
  <2>2. p2p_failures[n][p] = sinceReset[n][p]
    BY DEF Init
  <2> QED BY <2>1, <2>2 DEF ExactFor
<1> QED BY <1>1, <1>2 DEF ExactInv, Exact

\* A step that leaves alone the counts, the history and the tasks counting for (n, p).
LEMMA ExactUntouched ==
  ASSUME NEW n \in Nodes, NEW p \in Peers, ExactFor(n, p),
         p2p_failures'[n][p] = p2p_failures[n][p],
         sinceReset'[n][p] = sinceReset[n][p],
         CountingFor(n, p)' = CountingFor(n, p),
         \A u \in CountingFor(n, p) : pc'[u] = pc[u] /\ task'[u] = task[u]
  PROVE  ExactFor(n, p)'
BY DEF ExactFor

LEMMA ExactNext == TypeOK /\ TypeOK' /\ Exact /\ [Next]_vars => Exact'
<1> SUFFICES ASSUME TypeOK, TypeOK', Exact, [Next]_vars,
                    NEW n \in Nodes, NEW p \in Peers, p \notin overlapped'[n]
             PROVE  ExactFor(n, p)'
  BY DEF Exact
<1> USE DEF discv4, store, history
<1>1. ASSUME UNCHANGED <<p2p_failures, sinceReset, overlapped>>,
             \A u \in Tasks : /\ pc[u] \in Counting <=> pc'[u] \in Counting
                              /\ pc[u] \in Counting => pc'[u] = pc[u] /\ task'[u] = task[u]
      PROVE  ExactFor(n, p)'
  <2>1. ExactFor(n, p)
    BY <1>1 DEF Exact
  <2>2. CountingFor(n, p)' = CountingFor(n, p)
    <3>1. ASSUME NEW u \in Tasks
          PROVE  u \in CountingFor(n, p)' <=> u \in CountingFor(n, p)
      BY <1>1 DEF CountingFor
    <3> QED BY <3>1 DEF CountingFor
  <2> QED BY <1>1, <2>1, <2>2, ExactUntouched DEF CountingFor
<1>2. ASSUME NEW t \in Tasks, Step(t) PROVE ExactFor(n, p)'
  <2>0. pc[t] # "idle" => /\ task[t] \in Locals
                          /\ task[t].node \in Nodes
                          /\ task[t].peer \in Record
                          /\ task[t].peer.id \in Peers
                          /\ task[t].count \in Nat
    BY TaskType
  <2>1. CASE ReadFailures(t)
    <3> DEFINE m == task[t].node
               q == task[t].peer.id
    <3>1. /\ pc[t] = "start"
          /\ pc' = [pc EXCEPT ![t] = "p2p"]
          /\ task' = [task EXCEPT ![t].count = p2p_failures[m][q]]
          /\ UNCHANGED <<p2p_failures, sinceReset>>
      BY <2>1 DEF ReadFailures, Goto
    <3>2. /\ pc'[t] = "p2p"
          /\ task'[t].node = m /\ task'[t].peer = task[t].peer
          /\ task'[t].count = p2p_failures[m][q]
          /\ \A u \in Tasks \ {t} : pc'[u] = pc[u] /\ task'[u] = task[u]
      BY <2>0, <3>1 DEF TypeOK, Locals
    <3>3. p \notin overlapped[n]
      BY <2>0, <2>1, <3>1 DEF TypeOK, ReadFailures
    <3>4. ExactFor(n, p)
      BY <3>3 DEF Exact
    <3>5. t \notin CountingFor(n, p)
      BY <3>1 DEF CountingFor, Counting
    <3>6. CASE m = n /\ q = p
      <4>1. CountingFor(n, p) = {}
        <5> SUFFICES ASSUME CountingFor(n, p) # {} PROVE FALSE
          OBVIOUS
        <5>1. PICK u \in Tasks \ {t} : /\ pc[u] \in Counting
                                       /\ task[u].node = n /\ task[u].peer.id = p
          BY <3>5 DEF CountingFor
        <5>2. overlapped' = [overlapped EXCEPT ![n] = @ \union {p}]
          BY <2>1, <3>6, <5>1 DEF ReadFailures
        <5> QED BY <5>2 DEF TypeOK
      <4>2. CountingFor(n, p)' = {t}
        BY <3>2, <3>6, <4>1 DEF CountingFor, Counting
      <4> QED BY <3>1, <3>2, <3>4, <3>6, <4>1, <4>2 DEF ExactFor
    <3>7. CASE ~(m = n /\ q = p)
      <4>1. CountingFor(n, p)' = CountingFor(n, p)
        BY <3>2, <3>5, <3>7 DEF CountingFor
      <4> QED BY <3>1, <3>2, <3>4, <3>5, <4>1, ExactUntouched DEF CountingFor
    <3> QED BY <3>6, <3>7
  <2>2. CASE TooManyPeers(t) \/ (\E client \in Clients : HandshakeP2pOk(t, client))
    <3>1. /\ pc[t] = "p2p"
          /\ pc'[t] \notin Counting
          /\ \A u \in Tasks \ {t} : pc'[u] = pc[u] /\ task'[u] = task[u]
          /\ UNCHANGED <<p2p_failures, sinceReset, overlapped>>
      BY <2>2 DEF TypeOK, TooManyPeers, HandshakeP2pOk, Finish, Goto, Counting
    <3>2. ExactFor(n, p)
      BY <3>1 DEF Exact
    <3>3. CountingFor(n, p)' = CountingFor(n, p) \ {t}
      BY <3>1 DEF CountingFor
    <3>4. t \in CountingFor(n, p) => p2p_failures[n][p] = sinceReset[n][p]
      BY <3>1, <3>2 DEF ExactFor
    <3>5. \A u \in CountingFor(n, p)' : pc'[u] = pc[u] /\ task'[u] = task[u]
      BY <3>1, <3>3 DEF CountingFor
    <3> QED BY <3>1, <3>2, <3>3, <3>4, <3>5 DEF ExactFor
  <2>3. CASE CountFailure(t) \/ BanForFailures(t) \/ ResetFailures(t)
    <3> DEFINE m == task[t].node
               q == task[t].peer.id
    <3>1. /\ pc[t] \in Counting
          /\ m \in Nodes /\ q \in Peers /\ task[t].peer \in Record /\ task[t].count \in Nat
          /\ \A u \in Tasks \ {t} : pc'[u] = pc[u] /\ task'[u] = task[u]
          /\ UNCHANGED overlapped
      BY <2>0, <2>3
      DEF TypeOK, CountFailure, BanForFailures, ResetFailures, Finish, Goto, Counting
    <3>2. ExactFor(n, p)
      BY <3>1 DEF Exact
    <3>3. /\ \A i \in Nodes, j \in Peers :
               ~(i = m /\ j = q) => /\ p2p_failures'[i][j] = p2p_failures[i][j]
                                    /\ sinceReset'[i][j] = sinceReset[i][j]
      BY <2>3, <3>1
      DEF TypeOK, CountFailure, BanForFailures, ResetFailures, SetFailures, NoteFailure
    <3>4. CASE ~(m = n /\ q = p)
      <4>1. t \notin CountingFor(n, p)
        BY <3>4 DEF CountingFor
      <4>2. pc'[t] \in Counting => task'[t] = task[t]
        BY <2>3 DEF TypeOK, CountFailure, BanForFailures, ResetFailures, Finish, Goto, Counting
      <4>3. CountingFor(n, p)' = CountingFor(n, p)
        BY <3>1, <3>4, <4>1, <4>2 DEF CountingFor
      <4> QED BY <3>1, <3>2, <3>3, <3>4, <4>1, <4>3, ExactUntouched DEF CountingFor
    <3>5. CASE m = n /\ q = p
      <4>1. CountingFor(n, p) = {t}
        BY <3>1, <3>2, <3>5 DEF ExactFor, CountingFor
      <4>2. CASE CountFailure(t)
        <5>1. CountingFor(n, p)' = {}
          BY <3>1, <4>1, <4>2 DEF TypeOK, CountingFor, CountFailure, Finish, Goto, Counting
        <5>2. pc[t] = "p2p" /\ task[t].count + 1 < Threshold
          BY <3>1, <4>2, ThresholdAssumption
          DEF CountFailure, Finish, Goto, ReachedThreshold
        <5>3. task[t].count = sinceReset[n][p]
          BY <3>2, <4>1, <5>2 DEF ExactFor
        <5>4. p2p_failures'[n][p] = task[t].count + 1
          BY <3>1, <3>5, <4>2 DEF TypeOK, CountFailure, SetFailures
        <5>5. sinceReset'[n][p] = UpTo(Threshold, sinceReset[n][p] + 1)
          BY <3>1, <3>5, <4>2 DEF TypeOK, CountFailure, NoteFailure
        <5>6. p2p_failures'[n][p] = sinceReset'[n][p]
          BY <3>1, <5>2, <5>3, <5>4, <5>5, ThresholdAssumption DEF UpTo
        <5> QED BY <5>1, <5>6 DEF ExactFor
      <4>3. CASE BanForFailures(t)
        <5>1. pc'[t] = "reset" /\ UNCHANGED task
          BY <4>3 DEF TypeOK, BanForFailures, Goto
        <5>2. CountingFor(n, p)' = {t}
          BY <3>1, <4>1, <5>1 DEF CountingFor, Counting
        <5> QED BY <5>1, <5>2 DEF ExactFor
      <4>4. CASE ResetFailures(t)
        <5>1. CountingFor(n, p)' = {}
          BY <3>1, <4>1, <4>4 DEF TypeOK, CountingFor, ResetFailures, Finish, Goto, Counting
        <5>2. p2p_failures'[n][p] = 0 /\ sinceReset'[n][p] = 0
          BY <3>1, <3>5, <4>4 DEF TypeOK, ResetFailures, SetFailures
        <5> QED BY <5>1, <5>2 DEF ExactFor
      <4> QED BY <2>3, <4>2, <4>3, <4>4
    <3> QED BY <3>4, <3>5
  <2>4. CASE Refuse(t) \/ HandshakeEthOk(t) \/ SkipSession(t) \/ HandleSession(t)
            \/ Geolocate(t) \/ IsSynced(t) \/ SavePeer(t) \/ SaveFails(t)
    <3>1. /\ pc[t] \notin Counting /\ pc'[t] \notin Counting
          /\ \A u \in Tasks \ {t} : pc'[u] = pc[u] /\ task'[u] = task[u]
          /\ UNCHANGED <<p2p_failures, sinceReset, overlapped>>
      BY <2>4
      DEF TypeOK, Refuse, HandshakeEthOk, SkipSession, HandleSession, Geolocate, IsSynced,
          SavePeer, SaveFails, StampLastSeen, Finish, Goto, Counting
    <3> QED BY <1>1, <3>1
  <2> QED
    BY <1>2, <2>1, <2>2, <2>3, <2>4
    DEF Step, P2pReply, EthReply, HandshakeEthFails, AnonymousHello
<1>3. CASE UNCHANGED vars
  BY <1>1, <1>3 DEF vars
<1>4. ASSUME NEW t \in Tasks, NEW i, NEW r, NEW client, NEW entry \in {"start", "session"},
             UNCHANGED <<p2p_failures, sinceReset, overlapped>>, Spawn(t, i, r, client, entry)
      PROVE  ExactFor(n, p)'
  BY <1>1, <1>4 DEF TypeOK, Spawn, Counting
<1> QED
  BY <1>1, <1>2, <1>3, <1>4
  DEF Next, Announce, HandleBan, Discv4Update, DnsUpdate, SessionEstablished

\* Without overlap the count of a peer id is exact, whatever the other peers
\* and nodes do and however its own tasks end.
THEOREM SequentialCounts == Spec => []SequentialCountsExact
<1>1. ExactInv => SequentialCountsExact
  BY DEF ExactInv, Exact, ExactFor, SequentialCountsExact
<1>2. ExactInv /\ [Next]_vars => ExactInv'
  BY TypeOKNext, ExactNext DEF ExactInv
<1> QED BY <1>1, <1>2, ExactInvInit, PTL DEF Spec

-----------------------------------------------------------------------------
(* Counts without overlap ban in time                                      *)

(***************************************************************************)
(* A reset forgets failures, so the count alone does not show that a peer  *)
(* was banned in time.  Either a ban is under way, and bans are never      *)
(* undone, or the count has never been reset and is the number of all      *)
(* failures, which by the exactness above bans at the threshold.           *)
(***************************************************************************)
BanUnderWay(n, p) ==
  \E r \in failedAt[n] : r.id = p /\ r.address \in commands[n] \union banned[n]

NeverReset(n, p) ==
  /\ failures[n][p] = sinceReset[n][p]
  /\ failures[n][p] < Threshold
  /\ \A t \in CountingFor(n, p) : pc[t] # "reset"

BanInTime ==
  \A n \in Nodes, p \in Peers : p \notin overlapped[n] => BanUnderWay(n, p) \/ NeverReset(n, p)

BanInv == ExactInv /\ BanInTime

LEMMA BanInvInit == Init => BanInv
<1> SUFFICES ASSUME Init PROVE BanInTime
  BY ExactInvInit DEF BanInv
<1>1. ASSUME NEW n \in Nodes, NEW p \in Peers PROVE NeverReset(n, p)
  <2>1. failures[n][p] = 0 /\ sinceReset[n][p] = 0 /\ \A t \in Tasks : pc[t] = "idle"
    BY DEF Init
  <2> QED BY <2>1, ThresholdAssumption DEF NeverReset, CountingFor
<1> QED BY <1>1 DEF BanInTime

\* discv4 moves an address from its commands to its bans, and drops none.
LEMMA BansGrow ==
  ASSUME TypeOK, [Next]_vars, NEW n \in Nodes
  PROVE  commands[n] \union banned[n] \subseteq commands'[n] \union banned'[n]
<1> USE DEF discv4
<1>1. CASE UNCHANGED <<commands, banned>>
  BY <1>1
<1>2. ASSUME NEW m \in Nodes, NEW a \in Addrs, HandleBan(m, a)
      PROVE  commands[n] \union banned[n] \subseteq commands'[n] \union banned'[n]
  BY <1>2 DEF TypeOK, HandleBan
<1>3. ASSUME NEW m, NEW a, BanIp(m, a), UNCHANGED banned
      PROVE  commands[n] \union banned[n] \subseteq commands'[n] \union banned'[n]
  <2>1. commands[n] \subseteq commands'[n]
    BY <1>3 DEF TypeOK, BanIp
  <2> QED BY <1>3, <2>1
<1>4. ASSUME NEW t \in Tasks, Step(t)
      PROVE  commands[n] \union banned[n] \subseteq commands'[n] \union banned'[n]
  <2>1. CASE BanForFailures(t)
    BY <1>3, <2>1 DEF BanForFailures
  <2>2. CASE Refuse(t)
    BY <1>3, <2>2 DEF Refuse
  <2> QED
    BY <1>1, <1>4, <2>1, <2>2
    DEF Step, P2pReply, EthReply, HandshakeEthFails, AnonymousHello, ReadFailures,
        HandshakeP2pOk, TooManyPeers, CountFailure, ResetFailures, HandshakeEthOk,
        SkipSession, HandleSession, Geolocate, IsSynced, SavePeer, SaveFails
<1> QED
  BY <1>1, <1>2, <1>4
  DEF Next, vars, Announce, Discv4Update, DnsUpdate, SessionEstablished

\* A ban under way stays so.
LEMMA BanStays ==
  ASSUME TypeOK, [Next]_vars, NEW n \in Nodes, NEW p \in Peers, BanUnderWay(n, p)
  PROVE  BanUnderWay(n, p)'
<1>1. PICK r \in failedAt[n] : r.id = p /\ r.address \in commands[n] \union banned[n]
  BY DEF BanUnderWay
<1>2. failedAt[n] \subseteq failedAt'[n]
  BY HistoryGrowsNext DEF HistoryGrows
<1>3. commands[n] \union banned[n] \subseteq commands'[n] \union banned'[n]
  BY BansGrow
<1> QED BY <1>1, <1>2, <1>3 DEF BanUnderWay

\* A step that counts nothing for the peer and brings no task of it to a reset.
LEMMA NeverResetKept ==
  ASSUME NEW n \in Nodes, NEW p \in Peers, NeverReset(n, p),
         failures'[n][p] = failures[n][p],
         sinceReset'[n][p] = sinceReset[n][p],
         \A u \in CountingFor(n, p)' :
           pc'[u] = "reset" => u \in CountingFor(n, p) /\ pc[u] = "reset"
  PROVE  NeverReset(n, p)'
BY DEF NeverReset

\* Overlaps are remembered.
LEMMA OverlapsGrow ==
  ASSUME TypeOK, [Next]_vars, NEW n \in Nodes
  PROVE  overlapped[n] \subseteq overlapped'[n]
<1> USE DEF discv4, store, history
<1>1. ASSUME NEW t \in Tasks, ReadFailures(t) PROVE overlapped[n] \subseteq overlapped'[n]
  BY <1>1 DEF TypeOK, ReadFailures
<1>2. CASE UNCHANGED overlapped
  BY <1>2
<1> QED
  BY <1>1, <1>2
  DEF Next, vars, Announce, HandleBan, Discv4Update, DnsUpdate, SessionEstablished,
      Step, P2pReply, EthReply, HandshakeEthFails, AnonymousHello,
      HandshakeP2pOk, TooManyPeers, CountFailure, BanForFailures, ResetFailures, Refuse,
      HandshakeEthOk, SkipSession, HandleSession, Geolocate, IsSynced, SavePeer, SaveFails

LEMMA BanInTimeNext == TypeOK /\ Exact /\ BanInTime /\ [Next]_vars => BanInTime'
<1> SUFFICES ASSUME TypeOK, Exact, BanInTime, [Next]_vars,
                    NEW n \in Nodes, NEW p \in Peers, p \notin overlapped'[n]
             PROVE  BanUnderWay(n, p)' \/ NeverReset(n, p)'
  BY DEF BanInTime
<1> USE DEF discv4, store, history
<1>1. CASE BanUnderWay(n, p)
  BY <1>1, BanStays
<1>2. CASE ~BanUnderWay(n, p) /\ p \notin overlapped[n]
  <2>1. NeverReset(n, p) /\ ExactFor(n, p)
    BY <1>2 DEF BanInTime, Exact
  <2>2. ASSUME UNCHANGED <<failures, sinceReset>>,
               \A u \in Tasks : pc'[u] = "reset" => pc[u] = "reset" /\ task'[u] = task[u]
        PROVE  NeverReset(n, p)'
    <3>1. ASSUME NEW u \in CountingFor(n, p)', pc'[u] = "reset"
          PROVE  u \in CountingFor(n, p) /\ pc[u] = "reset"
      BY <2>2, <3>1 DEF CountingFor, Counting
    <3> QED BY <2>1, <2>2, <3>1, NeverResetKept
  <2>3. ASSUME NEW t \in Tasks, CountFailure(t) \/ BanForFailures(t) \/ ResetFailures(t)
        PROVE  BanUnderWay(n, p)' \/ NeverReset(n, p)'
    <3> DEFINE m == task[t].node
               q == task[t].peer.id
    <3>1. /\ pc[t] \in Counting
          /\ \A u \in Tasks \ {t} : pc'[u] = pc[u] /\ task'[u] = task[u]
          /\ pc'[t] = "reset" => task'[t] = task[t]
      BY <2>3
      DEF TypeOK, CountFailure, BanForFailures, ResetFailures, Finish, Goto, Counting
    <3>2. m \in Nodes /\ q \in Peers /\ task[t].peer \in Record /\ task[t].count \in Nat
      BY <3>1, TaskType DEF Counting
    <3>3. CASE ~(m = n /\ q = p)
      <4>1. failures'[n][p] = failures[n][p] /\ sinceReset'[n][p] = sinceReset[n][p]
        BY <2>3, <3>2, <3>3
        DEF TypeOK, CountFailure, BanForFailures, ResetFailures, NoteFailure
      <4>2. ASSUME NEW u \in CountingFor(n, p)', pc'[u] = "reset"
            PROVE  u \in CountingFor(n, p) /\ pc[u] = "reset"
        <5>1. u \in Tasks /\ task'[u].node = n /\ task'[u].peer.id = p
          BY DEF CountingFor
        <5>2. u # t
          BY <3>1, <3>3, <4>2, <5>1
        <5> QED BY <3>1, <4>2, <5>1, <5>2 DEF CountingFor, Counting
      <4> QED BY <2>1, <4>1, <4>2, NeverResetKept
    <3>4. CASE m = n /\ q = p
      <4>1. t \in CountingFor(n, p)
        BY <3>1, <3>4 DEF CountingFor
      <4>2. pc[t] = "p2p"
        BY <2>1, <3>1, <4>1 DEF NeverReset, Counting
      <4>3. task[t].count = failures[n][p] /\ failures[n][p] = sinceReset[n][p]
        BY <2>1, <4>1, <4>2 DEF NeverReset, ExactFor
      <4>4. CASE CountFailure(t)
        <5>1. task[t].count + 1 < Threshold
          BY <3>2, <4>4, ThresholdAssumption DEF CountFailure, ReachedThreshold
        <5>2. /\ failures'[n][p] = UpTo(Threshold, failures[n][p] + 1)
              /\ sinceReset'[n][p] = UpTo(Threshold, sinceReset[n][p] + 1)
          BY <3>2, <3>4, <4>4 DEF TypeOK, CountFailure, NoteFailure
        <5>3. failures'[n][p] = sinceReset'[n][p] /\ failures'[n][p] < Threshold
          BY <3>2, <4>3, <5>1, <5>2, ThresholdAssumption DEF UpTo
        <5>4. ASSUME NEW u \in CountingFor(n, p)' PROVE pc'[u] # "reset"
          <6>1. pc'[t] = "idle"
            BY <4>4 DEF TypeOK, CountFailure, Finish, Goto
          <6>2. u \in Tasks /\ pc'[u] \in Counting
            BY DEF CountingFor
          <6>3. u # t
            BY <6>1, <6>2 DEF Counting
          <6>4. u \in CountingFor(n, p) /\ pc'[u] = pc[u]
            BY <3>1, <6>2, <6>3 DEF CountingFor
          <6> QED BY <2>1, <6>4 DEF NeverReset
        <5> QED BY <5>3, <5>4 DEF NeverReset
      <4>5. CASE BanForFailures(t)
        <5>1. BanIp(n, task[t].peer.address) /\ NoteFailure(n, task[t].peer)
          BY <3>4, <4>5 DEF BanForFailures
        <5>2. task[t].peer \in failedAt'[n]
          BY <5>1 DEF TypeOK, NoteFailure
        <5>3. task[t].peer.address \in commands'[n]
          BY <5>1 DEF TypeOK, BanIp
        <5> QED BY <3>4, <5>2, <5>3 DEF BanUnderWay
      <4>6. CASE ResetFailures(t)
        BY <4>2, <4>6 DEF ResetFailures, Finish, Goto
      <4> QED BY <2>3, <4>4, <4>5, <4>6
    <3> QED BY <3>3, <3>4
  <2>4. ASSUME NEW t \in Tasks, Step(t) PROVE BanUnderWay(n, p)' \/ NeverReset(n, p)'
    <3>1. CASE CountFailure(t) \/ BanForFailures(t) \/ ResetFailures(t)
      BY <2>3, <3>1
    <3>2. CASE ~(CountFailure(t) \/ BanForFailures(t) \/ ResetFailures(t))
      <4>1. UNCHANGED <<failures, sinceReset>>
        BY <2>4, <3>2
        DEF Step, P2pReply, EthReply, HandshakeEthFails, AnonymousHello, ReadFailures,
            HandshakeP2pOk, TooManyPeers, Refuse, HandshakeEthOk, SkipSession,
            HandleSession, Geolocate, IsSynced, SavePeer, SaveFails
      <4>2. /\ pc'[t] # "reset"
            /\ \A u \in Tasks \ {t} : pc'[u] = pc[u] /\ task'[u] = task[u]
        BY <2>4, <3>2
        DEF TypeOK, Step, P2pReply, EthReply, HandshakeEthFails, AnonymousHello, ReadFailures,
            HandshakeP2pOk, TooManyPeers, Refuse, HandshakeEthOk, SkipSession,
            HandleSession, Geolocate, IsSynced, SavePeer, SaveFails, StampLastSeen, Finish, Goto
      <4> QED BY <2>2, <4>1, <4>2
    <3> QED BY <3>1, <3>2
  <2>5. CASE UNCHANGED <<pc, task, failures, sinceReset>>
    BY <2>2, <2>5
  <2>6. ASSUME NEW t \in Tasks, NEW i, NEW r, NEW client, NEW entry \in {"start", "session"},
               UNCHANGED <<failures, sinceReset>>, Spawn(t, i, r, client, entry)
        PROVE  NeverReset(n, p)'
    BY <2>2, <2>6 DEF TypeOK, Spawn
  <2> QED
    BY <2>4, <2>5, <2>6
    DEF Next, vars, Announce, HandleBan, Discv4Update, DnsUpdate, SessionEstablished
<1>3. p \notin overlapped[n]
  BY OverlapsGrow
<1> QED BY <1>1, <1>2, <1>3

\* Without overlap a peer id that fails Threshold times is banned at one of the
\* addresses where it failed, resets and the tasks of other peers notwithstanding.
THEOREM SequentialBans == Spec => []SequentialFailuresBanned
<1>1. BanInv => SequentialFailuresBanned
  <2> SUFFICES ASSUME BanInv, NEW n \in Nodes, NEW p \in Peers,
                      p \notin overlapped[n], failures[n][p] >= Threshold
               PROVE  BanUnderWay(n, p)
    BY DEF SequentialFailuresBanned, BanUnderWay
  <2>1. failures[n][p] \in Nat
    BY ThresholdAssumption DEF BanInv, ExactInv, TypeOK
  <2> QED BY <2>1, ThresholdAssumption DEF BanInv, BanInTime, NeverReset
<1>2. BanInv /\ [Next]_vars => BanInv'
  BY TypeOKNext, ExactNext, BanInTimeNext DEF BanInv, ExactInv
<1> QED BY <1>1, <1>2, BanInvInit, PTL DEF Spec

-----------------------------------------------------------------------------
(* The listeners implement the catalog                                     *)

(***************************************************************************)
(* A write must take one sighting and no other out of the pending set, so  *)
(* the sightings that tasks hold must be distinct: their stamps are, since *)
(* each was taken later than all the ones before it.                       *)
(***************************************************************************)
Observers == {t \in Tasks : pc[t] \in Observing}

SightingsDistinct ==
  /\ \A t \in Observers : task[t].last_seen <= clock /\ task[t].client \in Versions
  /\ \A t, u \in Observers : task[t].last_seen = task[u].last_seen => t = u

SightingInv == TypeOK /\ SightingsDistinct

LEMMA SightingInvInit == Init => SightingInv
BY TypeOKInit DEF Init, SightingInv, SightingsDistinct, Observers, Observing

\* A step after which the same tasks hold the same sightings.
SameSightings ==
  /\ UNCHANGED <<db, clock>>
  /\ \A u \in Tasks : (pc[u] \in Observing) = (pc'[u] \in Observing)
  /\ \A u \in Tasks : pc[u] \in Observing => task'[u] = task[u]

\* A step of t that accepts a peer, and one that lets go of a sighting.
Accepts(t) ==
  /\ pc[t] \notin Observing \union {"idle"} /\ pc'[t] = "geo" /\ UNCHANGED db
  /\ task[t].client # Empty
  /\ StampLastSeen(t)
  /\ \A u \in Tasks \ {t} : pc'[u] = pc[u]
LetsGo(t) ==
  /\ pc[t] = "save" /\ pc'[t] = "idle" /\ UNCHANGED clock
  /\ \/ UNCHANGED db
     \/ db' = [db EXCEPT ![task[t].peer.id] = PeerData(t)]
  /\ \A u \in Tasks \ {t} : pc'[u] = pc[u] /\ task'[u] = task[u]

\* Every step is one of the three.
LEMMA SightingSteps ==
  ASSUME TypeOK, [Next]_vars
  PROVE  SameSightings \/ \E t \in Tasks : Accepts(t) \/ LetsGo(t)
<1> USE DEF discv4, store, history
<1>1. CASE UNCHANGED vars
  BY <1>1 DEF vars, SameSightings
<1>2. ASSUME NEW t \in Tasks, NEW n, NEW r, NEW client, NEW entry \in {"start", "session"},
             UNCHANGED <<db, clock>>, Spawn(t, n, r, client, entry)
      PROVE  SameSightings
  BY <1>2 DEF TypeOK, Spawn, SameSightings, Observing
<1>3. ASSUME NEW t \in Tasks, Step(t)
      PROVE  SameSightings \/ Accepts(t) \/ LetsGo(t)
  <2>1. CASE HandshakeEthOk(t) \/ HandleSession(t)
    BY <2>1
    DEF TypeOK, HandshakeEthOk, HandleSession, Skipped, Goto, Accepts, StampLastSeen, Observing
  <2>2. CASE SavePeer(t) \/ SaveFails(t)
    BY <2>2 DEF TypeOK, SavePeer, SaveFails, Finish, Goto, LetsGo
  <2>3. CASE \/ ReadFailures(t) \/ TooManyPeers(t) \/ CountFailure(t) \/ BanForFailures(t)
             \/ ResetFailures(t) \/ Refuse(t) \/ SkipSession(t)
             \/ \E client \in Clients : HandshakeP2pOk(t, client)
    BY <2>3
    DEF TypeOK, ReadFailures, TooManyPeers, CountFailure, BanForFailures, ResetFailures, Refuse,
        SkipSession, HandshakeP2pOk, Finish, Goto, SameSightings, Observing
  <2>4. CASE Geolocate(t) \/ IsSynced(t)
    BY <2>4 DEF TypeOK, Geolocate, IsSynced, Goto, SameSightings, Observing
  <2> QED
    BY <1>3, <2>1, <2>2, <2>3, <2>4
    DEF Step, P2pReply, EthReply, HandshakeEthFails, AnonymousHello
<1>4. CASE UNCHANGED <<pc, task, db, clock>>
  BY <1>4 DEF SameSightings
<1> QED
  BY <1>1, <1>2, <1>3, <1>4
  DEF Next, Announce, HandleBan, Discv4Update, DnsUpdate, SessionEstablished

\* What accepting a peer does to its task.
LEMMA AcceptsEffect ==
  ASSUME TypeOK, NEW t \in Tasks, Accepts(t)
  PROVE  /\ clock' = clock + 1
         /\ task'[t].last_seen = clock + 1
         /\ task'[t].client = task[t].client
         /\ task'[t].peer = task[t].peer
         /\ task[t].client \in Versions
         /\ \A u \in Tasks \ {t} : pc'[u] = pc[u] /\ task'[u] = task[u]
         /\ Observers' = Observers \union {t}
<1>1. task[t] \in Locals /\ task[t].client \in Clients
  BY TaskType DEF Accepts
<1>2. clock' = clock + 1 /\ task' = [task EXCEPT ![t].last_seen = clock']
  BY DEF Accepts, StampLastSeen
<1>3. /\ task'[t].last_seen = clock + 1
      /\ task'[t].client = task[t].client
      /\ task'[t].peer = task[t].peer
  BY <1>1, <1>2 DEF TypeOK, Locals
<1>4. \A u \in Tasks \ {t} : pc'[u] = pc[u] /\ task'[u] = task[u]
  BY <1>2 DEF Accepts, TypeOK
<1>5. Observers' = Observers \union {t}
  BY <1>4 DEF Accepts, Observers, Observing
<1> QED BY <1>1, <1>2, <1>3, <1>4, <1>5 DEF Accepts, Clients

LEMMA SightingsDistinctNext == SightingInv /\ [Next]_vars => SightingsDistinct'
<1> SUFFICES ASSUME SightingInv, [Next]_vars PROVE SightingsDistinct'
  OBVIOUS
<1>0. TypeOK /\ SightingsDistinct /\ clock \in Nat
  BY DEF SightingInv, TypeOK
<1>1. \A u \in Observers : task[u].last_seen \in Nat
  BY <1>0, TaskType DEF Observers, Observing
<1>2. CASE SameSightings
  <2>1. Observers' = Observers
    BY <1>2 DEF SameSightings, Observers
  <2>2. clock' = clock /\ \A u \in Observers : task'[u] = task[u]
    BY <1>2 DEF SameSightings, Observers
  <2> QED BY <1>0, <2>1, <2>2 DEF SightingsDistinct
<1>3. ASSUME NEW t \in Tasks, Accepts(t) PROVE SightingsDistinct'
  <2>1. /\ clock' = clock + 1
        /\ task'[t].last_seen = clock + 1
        /\ task'[t].client \in Versions
        /\ Observers' = Observers \union {t}
        /\ t \notin Observers
        /\ \A u \in Observers : task'[u] = task[u]
    BY <1>0, <1>3, AcceptsEffect DEF Accepts, Observers
  <2>2. \A u \in Observers' : task'[u].last_seen <= clock' /\ task'[u].client \in Versions
    BY <1>0, <1>1, <2>1 DEF SightingsDistinct
  <2>3. \A u \in Observers : task'[u].last_seen < task'[t].last_seen
    BY <1>0, <1>1, <2>1 DEF SightingsDistinct
  <2>4. \A u, v \in Observers' : task'[u].last_seen = task'[v].last_seen => u = v
    BY <1>0, <1>1, <2>1, <2>3 DEF SightingsDistinct
  <2> QED BY <2>2, <2>4 DEF SightingsDistinct
<1>4. ASSUME NEW t \in Tasks, LetsGo(t) PROVE SightingsDistinct'
  <2>1. /\ Observers' = Observers \ {t}
        /\ clock' = clock
        /\ \A u \in Observers' : task'[u] = task[u]
    BY <1>4 DEF LetsGo, Observers, Observing
  <2> QED BY <1>0, <2>1 DEF SightingsDistinct
<1> QED BY <1>0, <1>2, <1>3, <1>4, SightingSteps

\* The initial states are the catalog's.
LEMMA CatalogInitRefined == Init => Catalog!CatalogInit
BY DEF Init, Catalog!CatalogInit, Sightings, Observing

\* Every step is a step of the catalog or changes nothing in it.
LEMMA CatalogStepRefined ==
  SightingInv /\ [Next]_vars => [Catalog!CatalogNext]_<<db, Sightings, clock>>
<1> SUFFICES ASSUME SightingInv, [Next]_vars
             PROVE  [Catalog!CatalogNext]_<<db, Sightings, clock>>
  OBVIOUS
<1>0. TypeOK /\ SightingsDistinct
  BY DEF SightingInv
<1>1. Sightings = {SightingOf(t) : t \in Observers}
  BY DEF Sightings, Observers
<1>2. Sightings' = {SightingOf(t)' : t \in Observers'}
  BY DEF Sightings, Observers
<1>3. CASE SameSightings
  <2>1. Observers' = Observers
    BY <1>3 DEF SameSightings, Observers
  <2>2. \A u \in Observers : SightingOf(u)' = SightingOf(u)
    BY <1>3 DEF SameSightings, Observers, SightingOf
  <2>3. Sightings' = Sightings
    BY <1>1, <1>2, <2>1, <2>2
  <2> QED BY <1>3, <2>3 DEF SameSightings
<1>4. ASSUME NEW t \in Tasks, Accepts(t) PROVE Catalog!CatalogNext
  <2> DEFINE p == task[t].peer.id
             a == task[t].peer.address
             v == task[t].client
  <2>1. p \in Peers /\ a \in Addrs /\ v \in Versions
    BY <1>0, <1>4, TaskType, AcceptsEffect DEF Accepts
  <2>2. SightingOf(t)' = [id |-> p, address |-> a, client |-> v, last_seen |-> clock']
    BY <1>0, <1>4, AcceptsEffect DEF SightingOf
  <2>3. Observers' = Observers \union {t} /\ t \notin Observers
    BY <1>0, <1>4, AcceptsEffect DEF Accepts, Observers
  <2>4. \A u \in Observers : SightingOf(u)' = SightingOf(u)
    BY <1>0, <1>4, <2>3, AcceptsEffect DEF SightingOf, Observers
  <2>5. Sightings' = Sightings \union {SightingOf(t)'}
    BY <1>1, <1>2, <2>3, <2>4
  <2>6. Catalog!See(p, a, v)
    BY <1>0, <1>4, <2>2, <2>5, AcceptsEffect DEF Accepts, Catalog!See
  <2> QED BY <2>1, <2>6 DEF Catalog!CatalogNext
<1>5. ASSUME NEW t \in Tasks, LetsGo(t) PROVE Catalog!CatalogNext
  <2>1. Observers' = Observers \ {t} /\ t \in Observers
    BY <1>5 DEF LetsGo, Observers, Observing
  <2>2. \A u \in Observers \ {t} : SightingOf(u)' = SightingOf(u)
    BY <1>5 DEF LetsGo, Observers, SightingOf
  <2>3. \A u \in Observers \ {t} : SightingOf(u) # SightingOf(t)
    BY <1>0, <2>1 DEF SightingsDistinct, SightingOf
  <2>4. Sightings' = Sightings \ {SightingOf(t)}
    BY <1>1, <1>2, <2>1, <2>2, <2>3
  <2>5. SightingOf(t) \in Sightings
    BY <1>1, <2>1
  <2>6. PeerData(t) = Catalog!RowOf(SightingOf(t)) /\ SightingOf(t).id = task[t].peer.id
    BY DEF PeerData, Catalog!RowOf, SightingOf
  <2>7. Catalog!Store(SightingOf(t)) \/ Catalog!Lose({SightingOf(t)})
    BY <1>5, <2>4, <2>6 DEF LetsGo, Catalog!Store, Catalog!Lose
  <2>8. {SightingOf(t)} \in SUBSET Sightings
    BY <2>5
  <2> QED BY <2>5, <2>7, <2>8 DEF Catalog!CatalogNext
<1> QED BY <1>0, <1>3, <1>4, <1>5, SightingSteps

\* The database holds, for each peer id, nothing or one whole sighting of that
\* id with a client version, and every change of it stores one such sighting.
THEOREM ListenersPublishSightings == Spec => PublishesSightings
<1>1. SightingInv /\ [Next]_vars => SightingInv'
  BY TypeOKNext, SightingsDistinctNext DEF SightingInv
<1> QED
  BY <1>1, SightingInvInit, CatalogInitRefined, CatalogStepRefined, PTL
  DEF Spec, PublishesSightings, Catalog!CatalogSpec, Catalog!catalogVars

=============================================================================
