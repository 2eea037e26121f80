---------------------------- MODULE ApiServerProofs ----------------------------
(***************************************************************************)
(* Proofs that the REST API serves what the crawler saw: every invariant   *)
(* and the action property of ApiServer, for all peers, contacts, times,   *)
(* parameters and bounds.                                                  *)
(***************************************************************************)
EXTENDS ApiServer, PeerRowsProofs

\* The row of a sighting as the sync reads it.
Copied(s) == FromPostgresRow(RowOf(s))

\* The PostgreSQL row of a peer is its last sighting.
SourceIsLast ==
  /\ \A p \in Peers : \A i \in 1 .. Len(written[p]) : written[p][i].contact.id = p
  /\ source = [p \in Peers |->
                 IF Len(written[p]) = 0 THEN None ELSE RowOf(written[p][Len(written[p])])]

\* A row in flight is a sighting of its peer, no older than the one served.
Current(r) ==
  LET p == r.data.id IN
  /\ p \in Peers
  /\ r.version \in 1 .. Len(written[p])
  /\ served[p] <= r.version
  /\ r.data = Copied(written[p][r.version])
RowsCurrent == \A r \in rows : Current(r)

\* A sync has one row of a peer: the next one would otherwise be an older one.
OneRowEach == \A r, q \in rows : r.data.id = q.data.id => r = q

\* The SQLite row of a peer is a copy of the sighting served.
TableServed ==
  table = [p \in Peers |->
             IF served[p] = 0 THEN None ELSE Row(Copied(written[p][served[p]]))]

Consistent == TypeOK /\ SourceIsLast /\ RowsCurrent /\ OneRowEach /\ TableServed

-----------------------------------------------------------------------------
\* What a row in flight is, in terms of the contact.
LEMMA CopiedKept ==
  ASSUME NEW s \in Sighting
  PROVE  /\ Copied(s) = Kept(PeerDataOf(s))
         /\ Copied(s).id = s.contact.id
         /\ s.contact.id \in Peers
<1>1. s.contact \in Contacts
  BY DEF Sighting
<1>2. /\ PeerDataOf(s).tcp_port = s.contact.tcp_port
      /\ PeerDataOf(s).eth_version = s.contact.eth_version
      /\ PeerDataOf(s).id = s.contact.id
  BY DEF PeerDataOf
<1>3. U16(PeerDataOf(s).tcp_port) /\ U8(PeerDataOf(s).eth_version) /\ s.contact.id \in Peers
  BY <1>1, <1>2, ContactsAssumption
<1>4. Copied(s) = Kept(PeerDataOf(s))
  BY <1>3, PostgresRoundTrip DEF Copied, RowOf
<1>5. Kept(PeerDataOf(s)).id = PeerDataOf(s).id
  BY DEF Kept, PeerData
<1> QED BY <1>2, <1>3, <1>4, <1>5

\* What the invariant says of the initial state.
LEMMA ConsistentInit ==
  ASSUME Init
  PROVE  Consistent
<1>1. 1 \in DOMAIN Times
  BY TimesAssumption
<1>2. TypeOK
  BY <1>1 DEF Init, TypeOK
<1>3. SourceIsLast /\ RowsCurrent /\ OneRowEach /\ TableServed
  BY DEF Init, SourceIsLast, RowsCurrent, OneRowEach, TableServed
<1> QED BY <1>2, <1>3 DEF Consistent

\* What a step other than AddPeer leaves of the sightings.
LEMMA WrittenKept ==
  ASSUME SourceIsLast, UNCHANGED <<source, written>>
  PROVE  SourceIsLast'
BY DEF SourceIsLast

\* What a step that changes neither rows nor SQLite leaves.
LEMMA RowsKept ==
  ASSUME RowsCurrent, OneRowEach, TableServed, UNCHANGED <<written, rows, table, served>>
  PROVE  RowsCurrent' /\ OneRowEach' /\ TableServed'
BY DEF RowsCurrent, Current, OneRowEach, TableServed

\* A sighting written.
LEMMA AddPeerStep ==
  ASSUME Consistent, NEW s \in gathered, AddPeer(s)
  PROVE  Consistent'
<1> DEFINE id == s.contact.id
<1>0. TypeOK /\ s \in Sighting
  BY DEF Consistent, TypeOK
<1>1. id \in Peers
  BY <1>0, CopiedKept
<1>2. /\ written[id] \in Seq(Sighting)
      /\ written' = [written EXCEPT ![id] = Append(@, s)]
      /\ source' = [source EXCEPT ![id] = RowOf(s)]
      /\ UNCHANGED <<now, handler, rows, table, served>>
      /\ gathered' \subseteq gathered
  BY <1>0, <1>1 DEF AddPeer, TypeOK, sqlite
<1> HIDE DEF id
<1>3. \A p \in Peers : written'[p] = IF p = id THEN Append(written[id], s) ELSE written[p]
  BY <1>0, <1>2 DEF TypeOK
<1>4. /\ written'[id] \in Seq(Sighting) /\ Len(written'[id]) = Len(written[id]) + 1
      /\ written'[id][Len(written[id]) + 1] = s
      /\ \A i \in 1 .. Len(written[id]) : written'[id][i] = written[id][i]
  <2> DEFINE w == written[id]
  <2>1. w \in Seq(Sighting) /\ written'[id] = Append(w, s)
    BY <1>1, <1>2, <1>3
  <2> HIDE DEF w
  <2>2. /\ Append(w, s) \in Seq(Sighting) /\ Len(Append(w, s)) = Len(w) + 1
        /\ Append(w, s)[Len(w) + 1] = s
        /\ \A i \in 1 .. Len(w) : Append(w, s)[i] = w[i]
    BY <1>0, <2>1
  <2> QED BY <2>1, <2>2 DEF w
<1>5. \A p \in Peers : /\ Len(written[p]) \in Nat /\ Len(written[p]) <= Len(written'[p])
                       /\ \A i \in 1 .. Len(written[p]) : written'[p][i] = written[p][i]
  BY <1>0, <1>1, <1>2, <1>3, <1>4 DEF TypeOK
<1>6. TypeOK'
  <2>1. written' \in [Peers -> Seq(Sighting)]
    BY <1>0, <1>1, <1>2 DEF TypeOK
  <2>2. \A p \in Peers : served'[p] <= Len(written'[p])
    BY <1>0, <1>2, <1>5 DEF TypeOK
  <2> QED BY <1>0, <1>2, <2>1, <2>2 DEF TypeOK
<1>7. SourceIsLast'
  <2>1. \A p \in Peers : \A i \in 1 .. Len(written'[p]) : written'[p][i].contact.id = p
    <3> TAKE p \in Peers
    <3>1. CASE p = id
      <4>1. \A i \in 1 .. Len(written[id]) : written[id][i].contact.id = id
        BY <1>1 DEF Consistent, SourceIsLast
      <4>2. s.contact.id = id
        BY DEF id
      <4> QED BY <1>1, <1>4, <1>5, <3>1, <4>1, <4>2
    <3>2. CASE p # id
      BY <1>3, <3>2 DEF Consistent, SourceIsLast
    <3> QED BY <3>1, <3>2
  <2>2. source' = [p \in Peers |-> IF p = id THEN RowOf(s) ELSE source[p]]
    BY <1>2 DEF Consistent, SourceIsLast
  <2>3. \A p \in Peers : source'[p] =
          IF Len(written'[p]) = 0 THEN None ELSE RowOf(written'[p][Len(written'[p])])
    <3> TAKE p \in Peers
    <3>1. CASE p = id
      BY <1>1, <1>4, <1>5, <2>2, <3>1
    <3>2. CASE p # id
      BY <1>3, <2>2, <3>2 DEF Consistent, SourceIsLast
    <3> QED BY <3>1, <3>2
  <2> QED BY <2>1, <2>2, <2>3 DEF SourceIsLast
<1>8. RowsCurrent'
  <2> SUFFICES ASSUME NEW r \in rows PROVE Current(r)'
    BY <1>2 DEF RowsCurrent
  <2>1. Current(r)
    BY DEF Consistent, RowsCurrent
  <2> QED BY <1>2, <1>5, <2>1 DEF Current
<1>9. OneRowEach'
  BY <1>2 DEF Consistent, OneRowEach
<1>10. TableServed'
  <2>1. \A p \in Peers : served[p] # 0 => written'[p][served[p]] = written[p][served[p]]
    BY <1>0, <1>5 DEF TypeOK
  <2> QED BY <1>2, <2>1 DEF Consistent, TableServed
<1> QED BY <1>6, <1>7, <1>8, <1>9, <1>10 DEF Consistent

\* The rows a sync reads.
LEMMA ScanStep ==
  ASSUME Consistent, Scan
  PROVE  Consistent'
<1>1. /\ handler' = "copy" /\ rows' = Snapshot
      /\ UNCHANGED <<now, gathered, source, written, table, served>>
  BY DEF Scan, crawler, sqlite
<1>2. TypeOK /\ TypeOK'
  BY <1>1 DEF Consistent, TypeOK
<1>3. \A r \in rows' : \E p \in Peers :
        /\ r = [data |-> Copied(written[p][Len(written[p])]), version |-> Len(written[p])]
        /\ Len(written[p]) \in Nat /\ Len(written[p]) >= 1
        /\ written[p][Len(written[p])] \in Sighting
        /\ written[p][Len(written[p])].contact.id = p
  <2> SUFFICES ASSUME NEW r \in Snapshot
               PROVE  \E p \in Peers :
                 /\ r = [data |-> Copied(written[p][Len(written[p])]),
                         version |-> Len(written[p])]
                 /\ Len(written[p]) \in Nat /\ Len(written[p]) >= 1
                 /\ written[p][Len(written[p])] \in Sighting
                 /\ written[p][Len(written[p])].contact.id = p
    BY <1>1
  <2>1. PICK p \in Peers : /\ source[p] # None
                           /\ r = [data |-> FromPostgresRow(source[p]),
                                   version |-> Len(written[p])]
    BY DEF Snapshot
  <2>2. written[p] \in Seq(Sighting)
    BY <1>2 DEF TypeOK
  <2>3. Len(written[p]) # 0 /\ source[p] = RowOf(written[p][Len(written[p])])
    BY <2>1 DEF Consistent, SourceIsLast
  <2>4. Len(written[p]) \in Nat /\ Len(written[p]) >= 1
    BY <2>2, <2>3
  <2>5. written[p][Len(written[p])].contact.id = p
    BY <2>4 DEF Consistent, SourceIsLast
  <2> QED BY <2>1, <2>2, <2>3, <2>4, <2>5 DEF Copied
<1>4. \A r \in rows' : /\ r.data.id \in Peers
                       /\ r = [data |-> Copied(written[r.data.id][Len(written[r.data.id])]),
                               version |-> Len(written[r.data.id])]
                       /\ Len(written[r.data.id]) \in Nat /\ Len(written[r.data.id]) >= 1
  <2> TAKE r \in rows'
  <2>1. PICK p \in Peers :
          /\ r = [data |-> Copied(written[p][Len(written[p])]), version |-> Len(written[p])]
          /\ Len(written[p]) \in Nat /\ Len(written[p]) >= 1
          /\ written[p][Len(written[p])] \in Sighting
          /\ written[p][Len(written[p])].contact.id = p
    BY <1>3
  <2>2. r.data.id = p
    BY <2>1, CopiedKept
  <2> QED BY <2>1, <2>2
<1>5. RowsCurrent'
  <2> SUFFICES ASSUME NEW r \in rows' PROVE Current(r)'
    BY DEF RowsCurrent
  <2>1. served[r.data.id] <= Len(written[r.data.id])
    BY <1>2, <1>4 DEF TypeOK
  <2> QED BY <1>1, <1>4, <2>1 DEF Current
<1>6. OneRowEach'
  BY <1>4 DEF OneRowEach
<1>7. SourceIsLast' /\ TableServed'
  BY <1>1 DEF Consistent, SourceIsLast, TableServed
<1> QED BY <1>2, <1>5, <1>6, <1>7 DEF Consistent

\* A row copied.
LEMMA CopyRowStep ==
  ASSUME Consistent, NEW r \in rows, CopyRow(r)
  PROVE  /\ Consistent'
         /\ \A p \in Peers : served'[p] >= served[p]
<1> DEFINE id == r.data.id
<1>1. TypeOK /\ Current(r)
  BY DEF Consistent, RowsCurrent
<1>2. /\ id \in Peers /\ r.version \in 1 .. Len(written[id]) /\ served[id] <= r.version
      /\ r.data = Copied(written[id][r.version])
  BY <1>1 DEF Current
<1>3. /\ handler = "copy" /\ rows' = rows \ {r}
      /\ table' = [table EXCEPT ![id] = Row(r.data)]
      /\ served' = [served EXCEPT ![id] = r.version]
      /\ UNCHANGED <<now, gathered, source, written, handler>>
  BY DEF CopyRow, crawler
<1> HIDE DEF id
<1>4. /\ served' \in [Peers -> Nat]
      /\ \A p \in Peers : served'[p] = IF p = id THEN r.version ELSE served[p]
  BY <1>1, <1>2, <1>3 DEF TypeOK
<1>5. TypeOK'
  <2>1. \A p \in Peers : served'[p] <= Len(written'[p])
    BY <1>1, <1>2, <1>3, <1>4 DEF TypeOK
  <2> QED BY <1>1, <1>3, <1>4, <2>1 DEF TypeOK
<1>6. SourceIsLast'
  BY <1>3 DEF Consistent, SourceIsLast
<1>7. RowsCurrent'
  <2> SUFFICES ASSUME NEW q \in rows, q # r PROVE Current(q)'
    BY <1>3 DEF RowsCurrent
  <2>1. Current(q) /\ q.data.id # id
    BY DEF Consistent, RowsCurrent, OneRowEach, id
  <2> QED BY <1>3, <1>4, <2>1 DEF Current
<1>8. OneRowEach'
  BY <1>3 DEF Consistent, OneRowEach
<1>9. TableServed'
  <2>1. table' = [p \in Peers |-> IF p = id THEN Row(r.data) ELSE table[p]]
    BY <1>3 DEF Consistent, TableServed
  <2>2. \A p \in Peers : table'[p] =
          IF served'[p] = 0 THEN None ELSE Row(Copied(written'[p][served'[p]]))
    <3> TAKE p \in Peers
    <3>1. CASE p = id
      <4>1. r.version # 0 /\ served'[p] = r.version
        BY <1>2, <1>4, <3>1
      <4> QED BY <1>2, <1>3, <2>1, <3>1, <4>1
    <3>2. CASE p # id
      BY <1>3, <1>4, <2>1, <3>2 DEF Consistent, TableServed
    <3> QED BY <3>1, <3>2
  <2> QED BY <2>1, <2>2 DEF TableServed
<1>10. \A p \in Peers : served'[p] >= served[p]
  <2>1. \A p \in Peers : served[p] \in Nat
    BY <1>1 DEF TypeOK
  <2> QED BY <1>2, <1>4, <2>1
<1> QED BY <1>5, <1>6, <1>7, <1>8, <1>9, <1>10 DEF Consistent

\* Every step.
LEMMA ConsistentStep ==
  ASSUME Consistent, [Next]_vars
  PROVE  /\ Consistent'
         /\ \A p \in Peers : served'[p] >= served[p]
<1>0. TypeOK /\ \A p \in Peers : served[p] \in Nat
  BY DEF Consistent, TypeOK
<1>1. CASE Pass
  <2>1. UNCHANGED <<gathered, source, written, handler, rows, table, served>>
    BY <1>1 DEF Pass, sqlite
  <2>2. now' \in DOMAIN Times
    BY <1>0, <1>1, TimesAssumption DEF Pass, TypeOK
  <2>3. TypeOK'
    BY <1>0, <2>1, <2>2 DEF TypeOK
  <2> QED BY <1>0, <2>1, <2>3, WrittenKept, RowsKept DEF Consistent
<1>2. ASSUME NEW c \in Contacts, Gather(c)
      PROVE  Consistent' /\ \A p \in Peers : served'[p] >= served[p]
  <2>1. /\ UNCHANGED <<now, source, written, handler, rows, table, served>>
        /\ gathered' = gathered \union {[contact |-> c, at |-> now]}
    BY <1>2 DEF Gather, sqlite
  <2>2. TypeOK'
    <3>1. [contact |-> c, at |-> now] \in Sighting
      BY <1>0 DEF TypeOK, Sighting
    <3> QED BY <1>0, <2>1, <3>1 DEF TypeOK
  <2> QED BY <1>0, <2>1, <2>2, WrittenKept, RowsKept DEF Consistent
<1>3. ASSUME NEW s \in gathered, AddPeer(s)
      PROVE  Consistent' /\ \A p \in Peers : served'[p] >= served[p]
  <2>1. served' = served
    BY <1>3 DEF AddPeer, sqlite
  <2> QED BY <1>0, <1>3, <2>1, AddPeerStep
<1>4. CASE Scan
  <2>1. served' = served
    BY <1>4 DEF Scan, sqlite
  <2> QED BY <1>0, <1>4, <2>1, ScanStep
<1>5. ASSUME NEW r \in rows, CopyRow(r)
      PROVE  Consistent' /\ \A p \in Peers : served'[p] >= served[p]
  BY <1>5, CopyRowStep
<1>6. CASE Finish \/ Restart
  <2>1. UNCHANGED <<now, gathered, source, written, rows, table, served>>
    BY <1>6 DEF Finish, Restart, crawler, sqlite
  <2>2. TypeOK'
    BY <1>0, <1>6, <2>1 DEF TypeOK, Finish, Restart
  <2> QED BY <1>0, <2>1, <2>2, WrittenKept, RowsKept DEF Consistent
<1>7. CASE Stop
  <2>1. UNCHANGED <<now, gathered, source, written, table, served>> /\ rows' = {}
        /\ handler' = "down"
    BY <1>7 DEF Stop, crawler, sqlite
  <2>2. TypeOK'
    BY <1>0, <2>1 DEF TypeOK
  <2>3. RowsCurrent' /\ OneRowEach' /\ TableServed'
    BY <2>1 DEF Consistent, RowsCurrent, OneRowEach, TableServed
  <2> QED BY <1>0, <2>1, <2>2, <2>3, WrittenKept DEF Consistent
<1>8. CASE UNCHANGED vars
  <2>1. UNCHANGED <<now, gathered, source, written, handler, rows, table, served>>
    BY <1>8 DEF vars, crawler, sqlite
  <2>2. TypeOK'
    BY <1>0, <2>1 DEF TypeOK
  <2> QED BY <1>0, <2>1, <2>2, WrittenKept, RowsKept DEF Consistent
<1> QED BY <1>1, <1>2, <1>3, <1>4, <1>5, <1>6, <1>7, <1>8 DEF Next

\* Consistent is an invariant.
THEOREM AlwaysConsistent == Spec => []Consistent
<1>1. Consistent /\ [Next]_vars => Consistent'
  BY ConsistentStep
<1> QED BY <1>1, ConsistentInit, PTL DEF Spec

\* The variables keep their types.
THEOREM TypeCorrect == Spec => []TypeOK
<1>1. Consistent => TypeOK
  BY DEF Consistent
<1> QED BY <1>1, AlwaysConsistent, PTL

\* A client that asks again never gets a row of a peer that the crawler had replaced
\* already when it wrote the one read before.
THEOREM ServesInWriteOrder == Spec => NeverServesReplaced
<1>1. Consistent /\ [Next]_vars => [\A p \in Peers : served'[p] >= served[p]]_vars
  BY ConsistentStep
<1> QED BY <1>1, AlwaysConsistent, PTL DEF Spec, NeverServesReplaced

-----------------------------------------------------------------------------
(* What is served                                                          *)

\* The sighting behind a peer that is served.
LEMMA ServedIsSighting ==
  ASSUME Consistent, NEW p \in Served
  PROVE  /\ p \in Peers
         /\ ServedSighting(p) \in Sighting
         /\ ServedSighting(p).contact \in Contacts
         /\ ServedSighting(p).at \in DOMAIN Times
         /\ ServedSighting(p).contact.id = p
<1>1. p \in Peers /\ served[p] # 0
  BY DEF Served
<1>2. served[p] \in 1 .. Len(written[p]) /\ written[p] \in Seq(Sighting)
  BY <1>1 DEF Consistent, TypeOK
<1>3. ServedSighting(p) \in Sighting
  BY <1>2 DEF ServedSighting
<1>4. ServedSighting(p).contact.id = p
  BY <1>1, <1>2 DEF ServedSighting, Consistent, SourceIsLast
<1> QED BY <1>1, <1>3, <1>4 DEF Sighting

\* Its row and what a statement makes of it.
LEMMA ServedRow ==
  ASSUME Consistent, NEW p \in Served
  PROVE  LET s == ServedSighting(p) IN
         /\ table[p] # None
         /\ FromRow(table[p]) = Answer(p)
         /\ table[p].id = p
         /\ table[p].ip = s.contact.address
         /\ table[p].last_seen = Stamp(Times[s.at])
<1> DEFINE s == ServedSighting(p)
           P == PeerDataOf(s)
<1>1. p \in Peers /\ s \in Sighting /\ s.contact.id = p
  BY ServedIsSighting
<1>2. table[p] = Row(Copied(s))
  BY <1>1 DEF Consistent, TableServed, Served, ServedSighting
<1> HIDE DEF s
<1>3. Copied(s) = Kept(P)
  BY <1>1, CopiedKept
<1>4. table[p] # None
  BY <1>1, <1>2, <1>3, NoneAssumption
<1>5. FromRow(Row(Kept(P))) = Kept(Kept(P))
  <2> HIDE DEF P
  <2> QED BY SqliteRoundTrip
<1>6. FromRow(table[p]) = Answer(p)
  BY <1>2, <1>3, <1>5 DEF Answer, s
<1>7. /\ P.id = s.contact.id /\ P.address = s.contact.address
      /\ P.last_seen = Stamp(Times[s.at])
  BY DEF PeerDataOf
<1>8. /\ Row(Kept(P)).id = P.id /\ Row(Kept(P)).ip = P.address
      /\ Row(Kept(P)).last_seen = P.last_seen
  <2> HIDE DEF P
  <2> QED BY DEF Row, Kept, PeerData
<1> HIDE DEF P
<1> QED BY <1>1, <1>2, <1>3, <1>4, <1>6, <1>7, <1>8 DEF s

\* The rows of the table are those of the peers served.
LEMMA RowsServed ==
  ASSUME Consistent
  PROVE  Rows = {table[p] : p \in Served}
<1>1. \A p \in Peers : p \notin Served => table[p] = None
  BY DEF Consistent, TableServed, Served
<1>2. \A p \in Served : p \in Peers /\ table[p] # None
  BY ServedIsSighting, ServedRow
<1> QED BY <1>1, <1>2 DEF Rows

\* A condition on rows selects peers.
LEMMA AnswersWhere ==
  ASSUME Consistent, NEW C, NEW D,
         C \subseteq Rows, D \subseteq Served, \A p \in Served : table[p] \in C <=> p \in D
  PROVE  /\ C = {table[p] : p \in D}
         /\ {FromRow(r) : r \in C} = {Answer(p) : p \in D}
<1>1. C = {table[p] : p \in D}
  BY RowsServed
<1>2. \A p \in D : FromRow(table[p]) = Answer(p)
  BY ServedRow
<1> QED BY <1>1, <1>2, Zenon

\* A plain PeerData survives both rows.
LEMMA PlainAnswer ==
  ASSUME Consistent, NEW p \in Served, Plain(ServedSighting(p).contact.capabilities)
  PROVE  Answer(p) = PeerDataOf(ServedSighting(p))
<1> DEFINE s == ServedSighting(p)
           P == PeerDataOf(s)
<1>1. s.contact.capabilities \in Seq(Seq(Texts))
  BY ServedIsSighting, ContactsAssumption
<1> HIDE DEF s
<1>2. P.capabilities = s.contact.capabilities
  BY DEF PeerDataOf
<1>3. P = PeerData(P, P.capabilities, P.client_arch)
  BY DEF PeerDataOf, PeerData
<1>4. Plain(P.capabilities)
  BY <1>2 DEF s
<1> HIDE DEF P
<1>5. Kept(P) = PeerData(P, P.capabilities, P.client_arch)
  BY <1>1, <1>2, <1>4, PlainKept
<1>6. Kept(P) = P
  BY <1>3, <1>5
<1>7. Answer(p) = Kept(Kept(P))
  BY DEF Answer, P, s
<1> QED BY <1>6, <1>7 DEF P, s

\* What a client reads is what the crawler wrote.
LEMMA AnswersStated ==
  ASSUME Consistent
  PROVE  AnswersAreSightings
<1>1. ASSUME NEW p \in Served,
             ServedSighting(p).contact.capabilities # <<>>,
             \A i \in DOMAIN ServedSighting(p).contact.capabilities :
               Len(ServedSighting(p).contact.capabilities[i]) = 1
      PROVE  Answer(p) = PeerDataOf(ServedSighting(p))
  BY <1>1, PlainAnswer DEF Plain
<1>2. AllPeers = {Answer(p) : p \in Served}
  <2>1. \A p \in Served : table[p] \in Rows <=> p \in Served
    BY RowsServed
  <2> QED BY <2>1, AnswersWhere DEF AllPeers
<1>3. ASSUME NEW p \in Peers
      PROVE  NodeById(p) = {Answer(q) : q \in {p} \intersect Served}
  <2> DEFINE C == {q \in Rows : q.id = p}
             D == {p} \intersect Served
  <2>1. \A q \in Served : table[q] \in C <=> q \in D
    BY RowsServed, ServedRow
  <2>2. C \subseteq Rows /\ D \subseteq Served
    OBVIOUS
  <2>3. NodeById(p) = {FromRow(r) : r \in C}
    BY DEF NodeById
  <2> HIDE DEF C, D
  <2>4. {FromRow(r) : r \in C} = {Answer(q) : q \in D}
    BY <2>1, <2>2, AnswersWhere
  <2> QED BY <2>3, <2>4 DEF D
<1>4. ASSUME NEW c \in Contacts
      PROVE  NodeByIp(c.address) =
               {Answer(p) : p \in {q \in Served : ServedSighting(q).contact.address = c.address}}
  <2> DEFINE C == {q \in Rows : q.ip = c.address}
             D == {q \in Served : ServedSighting(q).contact.address = c.address}
  <2>1. \A q \in Served : table[q] \in C <=> q \in D
    BY RowsServed, ServedRow
  <2>2. C \subseteq Rows /\ D \subseteq Served
    OBVIOUS
  <2>3. NodeByIp(c.address) = {FromRow(r) : r \in C}
    BY DEF NodeByIp
  <2> HIDE DEF C, D
  <2>4. {FromRow(r) : r \in C} = {Answer(q) : q \in D}
    BY <2>1, <2>2, AnswersWhere
  <2> QED BY <2>3, <2>4 DEF D
<1> QED BY <1>1, <1>2, <1>3, <1>4 DEF AnswersAreSightings

\* The active routes select by time.
LEMMA ActiveStated ==
  ASSUME Consistent
  PROVE  ActiveByTime
<1> SUFFICES ASSUME NEW param \in Params, InCalendar(param)
             PROVE  LET active == {p \in Served :
                                     Earlier(Cutoff(param), Times[ServedSighting(p).at])} IN
                    /\ GetActiveNodes(param) = {Answer(p) : p \in active}
                    /\ GetActiveClients(param) =
                         [r \in {table[p] : p \in active} |-> FromRow(r).client_version]
  BY DEF ActiveByTime
<1> DEFINE D == {p \in Served : Earlier(Cutoff(param), Times[ServedSighting(p).at])}
           C == ActiveRows(Stamp(Cutoff(param)))
<1>1. Cutoff(param) \in Time
  <2>1. now \in DOMAIN Times
    BY DEF Consistent, TypeOK
  <2>2. Times[now] \in Time
    BY <2>1, TimesAssumption
  <2>3. Days(param) \in Nat
    BY ParamsAssumption DEF Days, MAX_LAST_SEEN
  <2>4. Days(param) * Day \in Int
    BY <2>3, CalendarAssumption
  <2> QED BY <2>2, <2>4 DEF Cutoff, Time
<1>2. \A p \in Served : table[p] \in C <=> p \in D
  <2> TAKE p \in Served
  <2> DEFINE t == Times[ServedSighting(p).at]
  <2>1. t \in Time /\ t.s >= 0
    BY ServedIsSighting, TimesAssumption
  <2>2. table[p] \in Rows /\ table[p].last_seen = Stamp(t)
    BY RowsServed, ServedRow
  <2> HIDE DEF t
  <2>3. Less(Stamp(Cutoff(param)), Stamp(t)) <=> Earlier(Cutoff(param), t)
    BY <1>1, <2>1, StampOrder
  <2> QED BY <2>2, <2>3 DEF ActiveRows, t
<1>3. C \subseteq Rows /\ D \subseteq Served
  BY DEF ActiveRows
<1>4. /\ GetActiveNodes(param) = {FromRow(r) : r \in C}
      /\ GetActiveClients(param) = [r \in C |-> FromRow(r).client_version]
  BY DEF GetActiveNodes, GetActiveClients, AllActivePeers, ActiveClients
<1> HIDE DEF C, D
<1>5. C = {table[p] : p \in D} /\ {FromRow(r) : r \in C} = {Answer(p) : p \in D}
  BY <1>2, <1>3, AnswersWhere
<1> QED BY <1>4, <1>5 DEF D

\* The words of a part are spelled by its two fields.
LEMMA PartSpelled ==
  ASSUME NEW part \in Seq(Texts)
  PROVE  Spells(part, SplitAtDashOrPlus(part)[1], SplitAtDashOrPlus(part)[2])
<1>1. CASE Has(part, "-")
  <2> DEFINE words == SplitOnce(part, "-")
  <2>1. part = words[1] \o <<"-">> \o words[2] /\ ~Has(words[1], "-")
    BY <1>1, SplitOnceWhole
  <2> QED BY <1>1, <2>1 DEF SplitAtDashOrPlus, Spells
<1>2. CASE ~Has(part, "-") /\ Has(part, "+")
  <2> DEFINE words == SplitOnce(part, "+")
  <2>1. part = words[1] \o <<"+">> \o words[2] /\ ~Has(words[1], "+")
    BY <1>2, SplitOnceWhole
  <2> QED BY <1>2, <2>1 DEF SplitAtDashOrPlus, Spells
<1>3. CASE ~Has(part, "-") /\ ~Has(part, "+")
  BY <1>3 DEF SplitAtDashOrPlus, Spells
<1> QED BY <1>1, <1>2, <1>3

\* No word of a hello is lost.
LEMMA ClientsStated ==
  ASSUME Consistent
  PROVE  ClientsSpelled
<1> SUFFICES ASSUME NEW p \in Served
             PROVE  LET hello == ServedSighting(p).contact.hello IN
                    IF Len(hello) = 4
                    THEN /\ hello[1] = Answer(p).client_name[1]
                         /\ hello[4] = Answer(p).client_language
                         /\ Spells(hello[2], Answer(p).client_version, Answer(p).client_build)
                         /\ Spells(hello[3], Answer(p).os, Answer(p).client_arch)
                    ELSE hello = Answer(p).client_name
  BY DEF ClientsSpelled
<1> DEFINE s == ServedSighting(p)
           hello == s.contact.hello
           v == SplitVersion(hello)
           P == PeerDataOf(s)
<1>1. hello \in Seq(Seq(Texts))
  BY ServedIsSighting, ContactsAssumption
<1>2. /\ P.client_name = v.name /\ P.client_version = v.version /\ P.client_build = v.build
      /\ P.client_arch = v.arch /\ P.os = v.os /\ P.client_language = v.language
  BY DEF PeerDataOf
<1> HIDE DEF P, v
<1>3. /\ Answer(p).client_name = v.name /\ Answer(p).client_version = v.version
      /\ Answer(p).client_build = v.build /\ Answer(p).client_arch = v.arch
      /\ Answer(p).os = v.os /\ Answer(p).client_language = v.language
  <2>1. Answer(p) = Kept(Kept(P))
    BY DEF Answer, P
  <2> QED BY <1>2, <2>1 DEF Kept, PeerData
<1> HIDE DEF hello
<1>4. CASE Len(hello) = 4
  <2>1. hello[2] \in Seq(Texts) /\ hello[3] \in Seq(Texts)
    <3> DEFINE X == Seq(Texts)
    <3>1. hello \in Seq(X)
      BY <1>1
    <3> HIDE DEF X
    <3>2. hello[2] \in X /\ hello[3] \in X
      BY <1>4, <3>1
    <3> QED BY <3>2 DEF X
  <2>2. /\ v.name = <<hello[1]>> /\ v.language = hello[4]
        /\ v.version = SplitAtDashOrPlus(hello[2])[1]
        /\ v.build = SplitAtDashOrPlus(hello[2])[2]
        /\ v.os = SplitAtDashOrPlus(hello[3])[1] /\ v.arch = SplitAtDashOrPlus(hello[3])[2]
    BY <1>4 DEF v, SplitVersion
  <2>3. /\ Spells(hello[2], v.version, v.build)
        /\ Spells(hello[3], v.os, v.arch)
    BY <2>1, <2>2, PartSpelled
  <2> QED BY <1>3, <1>4, <2>2, <2>3 DEF hello
<1>5. CASE Len(hello) # 4
  <2>1. v.name = hello
    BY <1>5 DEF v, SplitVersion
  <2> QED BY <1>3, <1>5, <2>1 DEF hello
<1> QED BY <1>4, <1>5

\* DynamoDB would lose client_arch only.
LEMMA ItemsStated ==
  ASSUME Consistent
  PROVE  ItemsLoseArchOnly
<1> SUFFICES ASSUME NEW s \in gathered
             PROVE  FromItem(Item(PeerDataOf(s)), None) =
                      PeerData(PeerDataOf(s), PeerDataOf(s).capabilities, <<>>)
  BY DEF ItemsLoseArchOnly
<1> DEFINE P == PeerDataOf(s)
<1>1. s.contact \in Contacts
  BY DEF Consistent, TypeOK, Sighting
<1>2. /\ P.tcp_port = s.contact.tcp_port /\ P.eth_version = s.contact.eth_version
      /\ P.capabilities = s.contact.capabilities /\ P.synced = s.contact.synced
  BY DEF PeerDataOf
<1> HIDE DEF P
<1>3. /\ U16(P.tcp_port) /\ U8(P.eth_version) /\ P.capabilities \in Seq(Seq(Texts))
      /\ P.synced \in BOOLEAN \union {None} /\ None \notin BOOLEAN
  BY <1>1, <1>2, ContactsAssumption, NoneAssumption
<1>4. FromItem(Item(P), None) = PeerData(P, P.capabilities, <<>>)
  BY <1>3, ItemRoundTrip
<1> QED BY <1>4 DEF P

\* Every row served is one sighting of its peer in every field.
THEOREM ServesSightings == Spec => []AnswersAreSightings
<1>1. Consistent => AnswersAreSightings
  BY AnswersStated
<1> QED BY <1>1, AlwaysConsistent, PTL

\* The active routes select what is later than the cutoff.
THEOREM ServesByTime == Spec => []ActiveByTime
<1>1. Consistent => ActiveByTime
  BY ActiveStated
<1> QED BY <1>1, AlwaysConsistent, PTL

\* The six fields of a client spell its hello.
THEOREM ServesClients == Spec => []ClientsSpelled
<1>1. Consistent => ClientsSpelled
  BY ClientsStated
<1> QED BY <1>1, AlwaysConsistent, PTL

\* An item of DynamoDB loses client_arch and nothing else.
THEOREM StoresItems == Spec => []ItemsLoseArchOnly
<1>1. Consistent => ItemsLoseArchOnly
  BY ItemsStated
<1> QED BY <1>1, AlwaysConsistent, PTL

-----------------------------------------------------------------------------
(* The sync copies snapshots                                               *)

copyState == <<Origin, table, CopyStatus, Taken>>

\* The copy of a row that the source has.
LEMMA CopyOfRow ==
  ASSUME NEW s \in Sighting
  PROVE  /\ RowOf(s) # None
         /\ CopyOf[RowOf(s)] = Row(FromPostgresRow(RowOf(s)))
         /\ CopyOf[RowOf(s)] \in CopiedRows
<1>1. RowOf(s) # None
  BY NoneAssumption
<1>2. RowOf(s) \in SourceRows
  BY DEF SourceRows
<1> HIDE DEF RowOf
<1> QED BY <1>1, <1>2 DEF CopyOf, CopiedRows

\* What a peer has at the source, and its copy.
LEMMA OriginRow ==
  ASSUME Consistent, NEW p \in Peers, source[p] # None
  PROVE  /\ Origin[p] = Row(FromPostgresRow(source[p]))
         /\ FromPostgresRow(source[p]).id = p
<1>1. written[p] \in Seq(Sighting)
  BY DEF Consistent, TypeOK
<1>2. Len(written[p]) # 0 /\ source[p] = RowOf(written[p][Len(written[p])])
  BY DEF Consistent, SourceIsLast
<1>3. Len(written[p]) \in 1 .. Len(written[p])
  BY <1>1, <1>2
<1>4. written[p][Len(written[p])] \in Sighting
  BY <1>1, <1>3
<1>5. written[p][Len(written[p])].contact.id = p
  BY <1>3 DEF Consistent, SourceIsLast
<1>6. CopyOf[source[p]] = Row(FromPostgresRow(source[p]))
  BY <1>2, <1>4, CopyOfRow
<1>7. FromPostgresRow(source[p]).id = p
  BY <1>2, <1>4, <1>5, CopiedKept DEF Copied
<1> QED BY <1>6, <1>7 DEF Origin

\* A peer that was never written has no row on either side.
LEMMA NoRow ==
  ASSUME Consistent, NEW p \in Peers, source[p] = None
  PROVE  Origin[p] = None /\ table[p] = None
<1>1. Origin[p] = None
  BY DEF Origin
<1>2. written[p] \in Seq(Sighting) /\ served[p] \in Nat /\ served[p] <= Len(written[p])
  BY DEF Consistent, TypeOK
<1>3. CASE Len(written[p]) = 0
  <2>1. served[p] = 0
    BY <1>2, <1>3
  <2> QED BY <1>1, <2>1 DEF Consistent, TableServed
<1>4. CASE Len(written[p]) # 0
  <2>1. source[p] = RowOf(written[p][Len(written[p])])
    BY <1>4 DEF Consistent, SourceIsLast
  <2>2. Len(written[p]) \in 1 .. Len(written[p])
    BY <1>2, <1>4
  <2>3. written[p][Len(written[p])] \in Sighting
    BY <1>2, <2>2
  <2> QED BY <2>1, <2>3, CopyOfRow
<1> QED BY <1>3, <1>4

\* The one row in flight of a peer.
LEMMA OnlyRow ==
  ASSUME OneRowEach, NEW r \in rows
  PROVE  (CHOOSE q \in rows : q.data.id = r.data.id) = r
<1> DEFINE c == CHOOSE q \in rows : q.data.id = r.data.id
<1>1. c \in rows /\ c.data.id = r.data.id
  OBVIOUS
<1> HIDE DEF c
<1>2. c = r
  BY <1>1 DEF OneRowEach
<1> QED BY <1>2 DEF c

\* A row written by the crawler.
LEMMA AddPeerWrites ==
  ASSUME Consistent, NEW s \in gathered, AddPeer(s)
  PROVE  s.contact.id \in Peers /\ Copying!Write(s.contact.id)
<1> DEFINE id == s.contact.id
<1>1. s \in Sighting /\ id \in Peers
  BY CopiedKept DEF Consistent, TypeOK
<1>2. /\ source' = [source EXCEPT ![id] = RowOf(s)]
      /\ UNCHANGED <<table, handler, rows>>
  BY DEF AddPeer, sqlite
<1>3. \A p \in Peers : source'[p] = IF p = id THEN RowOf(s) ELSE source[p]
  BY <1>2 DEF Consistent, SourceIsLast
<1> HIDE DEF id
<1>4. Origin'[id] = CopyOf[RowOf(s)] /\ CopyOf[RowOf(s)] \in CopiedRows
  <2>1. source'[id] = RowOf(s) /\ RowOf(s) # None
    BY <1>1, <1>3, CopyOfRow
  <2>2. CopyOf[RowOf(s)] \in CopiedRows
    BY <1>1, CopyOfRow
  <2>3. Origin'[id] = IF source'[id] = None THEN None ELSE CopyOf[source'[id]]
    BY <1>1 DEF Origin
  <2> QED BY <2>1, <2>2, <2>3
<1>5. Origin' = [Origin EXCEPT ![id] = Origin'[id]]
  <2>1. \A p \in Peers : p # id => Origin'[p] = Origin[p]
    BY <1>3 DEF Origin
  <2>2. Origin' = [p \in Peers |-> Origin'[p]] /\ Origin = [p \in Peers |-> Origin[p]]
    BY DEF Origin
  <2> HIDE DEF Origin
  <2> QED BY <2>1, <2>2
<1>6. UNCHANGED <<table, CopyStatus, Taken>>
  BY <1>2 DEF CopyStatus, Taken
<1>7. Copying!Write(id)
  BY <1>4, <1>5, <1>6 DEF Copying!Write
<1> QED BY <1>1, <1>7 DEF id

\* A scan takes the whole table of the crawler.
LEMMA ScanBegins ==
  ASSUME Consistent, Scan
  PROVE  Copying!Begin
<1>1. /\ handler = "scan" /\ handler' = "copy" /\ rows' = Snapshot
      /\ UNCHANGED <<source, table>>
  BY DEF Scan, crawler, sqlite
<1>2. UNCHANGED <<Origin, table>>
  BY <1>1 DEF Origin
<1>3. ASSUME NEW r \in rows'
      PROVE  /\ r.data.id \in Peers /\ source[r.data.id] # None
             /\ r.data = FromPostgresRow(source[r.data.id])
  <2>1. PICK p \in Peers : /\ source[p] # None
                           /\ r.data = FromPostgresRow(source[p])
    BY <1>1 DEF Snapshot
  <2>2. r.data.id = p
    BY <2>1, OriginRow
  <2> QED BY <2>1, <2>2
<1>4. ASSUME NEW p \in Peers
      PROVE  Origin[p] = IF \E r \in rows' : r.data.id = p
                         THEN Row((CHOOSE r \in rows' : r.data.id = p).data)
                         ELSE table'[p]
  <2>1. CASE \E r \in rows' : r.data.id = p
    <3> DEFINE c == CHOOSE r \in rows' : r.data.id = p
    <3>1. c \in rows' /\ c.data.id = p
      BY <2>1
    <3> HIDE DEF c
    <3>2. source[p] # None /\ c.data = FromPostgresRow(source[p])
      BY <1>3, <3>1
    <3>3. Origin[p] = Row(c.data)
      BY <3>2, OriginRow
    <3> QED BY <2>1, <3>3 DEF c
  <2>2. CASE ~\E r \in rows' : r.data.id = p
    <3>1. source[p] = None
      <4> SUFFICES ASSUME source[p] # None PROVE FALSE
        OBVIOUS
      <4> DEFINE r == [data |-> FromPostgresRow(source[p]), version |-> Len(written[p])]
      <4>1. r \in rows'
        BY <1>1 DEF Snapshot
      <4>2. r.data.id = p
        BY OriginRow
      <4> QED BY <2>2, <4>1, <4>2
    <3>2. Origin[p] = None /\ table[p] = None
      BY <3>1, NoRow
    <3> QED BY <1>1, <2>2, <3>2
  <2> QED BY <2>1, <2>2
<1>5. Taken' = Origin
  <2>1. Origin = [p \in Peers |-> Origin[p]]
    BY DEF Origin
  <2>2. Taken' = [p \in Peers |-> IF \E r \in rows' : r.data.id = p
                                  THEN Row((CHOOSE r \in rows' : r.data.id = p).data)
                                  ELSE table'[p]]
    BY <1>1 DEF Taken
  <2> QED BY <1>4, <2>1, <2>2
<1> QED BY <1>1, <1>2, <1>5 DEF Copying!Begin, CopyStatus

\* A row copied is the one taken.
LEMMA CopyRowReplaces ==
  ASSUME Consistent, NEW r \in rows, CopyRow(r)
  PROVE  r.data.id \in Peers /\ Copying!Replace(r.data.id)
<1> DEFINE id == r.data.id
<1>1. id \in Peers /\ OneRowEach
  BY DEF Consistent, RowsCurrent, Current
<1>2. /\ handler = "copy" /\ rows' = rows \ {r}
      /\ table' = [table EXCEPT ![id] = Row(r.data)]
      /\ UNCHANGED <<source, handler>>
  BY DEF CopyRow, crawler
<1>3. \A p \in Peers : table'[p] = IF p = id THEN Row(r.data) ELSE table[p]
  BY <1>2 DEF Consistent, TableServed
<1>4. Taken[id] = Row(r.data)
  <2>1. (CHOOSE q \in rows : q.data.id = id) = r
    BY <1>1, OnlyRow
  <2> QED BY <1>1, <1>2, <2>1 DEF Taken
<1>5. ASSUME NEW p \in Peers PROVE Taken'[p] = Taken[p]
  <2>1. Taken'[p] = IF \E q \in rows' : q.data.id = p
                    THEN Row((CHOOSE q \in rows' : q.data.id = p).data)
                    ELSE table'[p]
    BY <1>2 DEF Taken
  <2>2. Taken[p] = IF \E q \in rows : q.data.id = p
                   THEN Row((CHOOSE q \in rows : q.data.id = p).data)
                   ELSE table[p]
    BY <1>2 DEF Taken
  <2>3. CASE p = id
    <3>1. ~\E q \in rows' : q.data.id = p
      BY <1>1, <1>2, <2>3 DEF OneRowEach
    <3> QED BY <1>3, <1>4, <2>1, <2>3, <3>1
  <2>4. CASE p # id /\ \E q \in rows : q.data.id = p
    <3>1. PICK q \in rows : q.data.id = p
      BY <2>4
    <3>2. (CHOOSE z \in rows : z.data.id = p) = q
      BY <1>1, <3>1, OnlyRow
    <3>3. q \in rows' /\ \A z \in rows' : z.data.id = p => z = q
      BY <1>1, <1>2, <2>4, <3>1 DEF OneRowEach
    <3>4. (CHOOSE z \in rows' : z.data.id = p) = q
      <4> DEFINE c == CHOOSE z \in rows' : z.data.id = p
      <4>1. c \in rows' /\ c.data.id = p
        BY <3>1, <3>3
      <4> HIDE DEF c
      <4>2. c = q
        BY <3>3, <4>1
      <4> QED BY <4>2 DEF c
    <3> QED BY <2>1, <2>2, <3>1, <3>2, <3>3, <3>4
  <2>5. CASE p # id /\ ~\E q \in rows : q.data.id = p
    BY <1>2, <1>3, <2>1, <2>2, <2>5
  <2> QED BY <2>3, <2>4, <2>5
<1> HIDE DEF id
<1>6. UNCHANGED <<Origin, CopyStatus, Taken>>
  <2>1. Taken' = [p \in Peers |-> Taken'[p]] /\ Taken = [p \in Peers |-> Taken[p]]
    BY DEF Taken
  <2>2. Taken' = Taken
    BY <1>5, <2>1
  <2> QED BY <1>2, <2>2 DEF Origin, CopyStatus
<1>7. table' = [table EXCEPT ![id] = Taken[id]]
  BY <1>2, <1>4
<1>8. CopyStatus = "copying"
  BY <1>2 DEF CopyStatus
<1>9. Copying!Replace(id)
  BY <1>6, <1>7, <1>8 DEF Copying!Replace
<1> QED BY <1>1, <1>9 DEF id

\* A sync that is through has replaced every row.
LEMMA FinishCompletes ==
  ASSUME Consistent, Finish
  PROVE  Copying!Complete
<1>1. /\ handler = "copy" /\ rows = {} /\ handler' = "idle"
      /\ UNCHANGED <<source, table>>
  BY DEF Finish, crawler, sqlite
<1>2. table = [p \in Peers |-> table[p]]
  BY DEF Consistent, TableServed
<1>3. Taken = table
  <2>1. Taken = [p \in Peers |-> table[p]]
    BY <1>1 DEF Taken
  <2> QED BY <1>2, <2>1
<1>4. CopyStatus = "copying" /\ CopyStatus' = "whole"
  BY <1>1 DEF CopyStatus
<1>5. Taken' = [p \in Peers |-> None] /\ Origin' = Origin
  BY <1>1 DEF Taken, Origin
<1> QED BY <1>1, <1>3, <1>4, <1>5 DEF Copying!Complete, Copying!Nothing

\* A process that ends leaves the rows it has copied.
LEMMA StopStops ==
  ASSUME Stop
  PROVE  Copying!Stop
<1>1. handler' = "down" /\ UNCHANGED <<source, table>>
  BY DEF Stop, crawler, sqlite
<1>2. CopyStatus' = "stale" /\ Taken' = [p \in Peers |-> None] /\ Origin' = Origin
  BY <1>1 DEF CopyStatus, Taken, Origin
<1> QED BY <1>1, <1>2 DEF Copying!Stop, Copying!Nothing

\* Every step is one of a snapshot copy, or none.
LEMMA NextCopies ==
  Consistent /\ [Next]_vars => [Copying!CopyNext]_copyState
<1> SUFFICES ASSUME Consistent, [Next]_vars
             PROVE  Copying!CopyNext \/ UNCHANGED copyState
  BY DEF copyState
<1>1. ASSUME NEW s \in gathered, AddPeer(s) PROVE Copying!CopyNext
  BY <1>1, AddPeerWrites DEF Copying!CopyNext
<1>2. CASE Scan
  BY <1>2, ScanBegins DEF Copying!CopyNext
<1>3. ASSUME NEW r \in rows, CopyRow(r) PROVE Copying!CopyNext
  BY <1>3, CopyRowReplaces DEF Copying!CopyNext
<1>4. CASE Finish
  BY <1>4, FinishCompletes DEF Copying!CopyNext
<1>5. CASE Stop
  BY <1>5, StopStops DEF Copying!CopyNext
<1>6. CASE Pass \/ UNCHANGED vars \/ \E c \in Contacts : Gather(c)
  <2>1. UNCHANGED <<source, table, handler, rows>>
    BY <1>6 DEF Pass, Gather, vars, crawler, sqlite
  <2> QED BY <2>1 DEF copyState, Origin, CopyStatus, Taken
<1>7. CASE Restart
  <2>1. handler = "down" /\ handler' = "scan" /\ UNCHANGED <<source, table>>
    BY <1>7 DEF Restart, crawler, sqlite
  <2> QED BY <2>1 DEF copyState, Origin, CopyStatus, Taken
<1> QED BY <1>1, <1>2, <1>3, <1>4, <1>5, <1>6, <1>7 DEF Next

\* Both databases together implement a snapshot copy: what SQLite holds is the
\* crawler's table of one instant where the sync has got to, and all of it when it is
\* through, also over syncs that were stopped and servers started again.
THEOREM SyncCopiesSnapshots == Spec => CopiesSnapshots
<1>1. Init => Copying!CopyInit
  BY DEF Init, Copying!CopyInit, Copying!Nothing, Origin, CopyStatus, Taken
<1>2. Consistent /\ [Next]_vars => [Copying!CopyNext]_copyState
  BY NextCopies
<1> QED
  BY <1>1, <1>2, AlwaysConsistent, PTL
  DEF Spec, CopiesSnapshots, Copying!CopySpec, Copying!copyVars, copyState

=============================================================================
