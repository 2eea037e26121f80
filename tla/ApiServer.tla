------------------------------ MODULE ApiServer ------------------------------
(***************************************************************************)
(* The way of a peer from the crawler to a client of the REST API: the     *)
(* crawler gathers a PeerData and writes it to PostgreSQL, the sync of the *)
(* API server copies the rows to SQLite one by one, and the routes read    *)
(* SQLite meanwhile through a connection of their own.  DbSync says when a *)
(* sync begins and which rows its cutoff takes; here every sync is the     *)
(* first of its process and takes all of them.                             *)
(***************************************************************************)
EXTENDS PeerRows, FiniteSets

CONSTANTS
  Peers,          \* peer ids
  Texts,          \* words and separators
  Contacts,       \* what a contact with a peer tells, apart from the time
  Times,          \* the instants of a behaviour, in their order
  Params,         \* cutoff parameters of requests: a number of days or None
  Day,            \* the seconds of a day
  FirstSecond,    \* the first second of the calendar
  MaxSightings,   \* bound on the sightings
  None            \* no row, no parameter, no answer

ASSUME TimesAssumption ==
  /\ Times \in Seq(Time)
  /\ Times # <<>>
  /\ \A i \in DOMAIN Times : Times[i].s >= 0
ASSUME ParamsAssumption == Params \subseteq Nat \union {None} /\ None \notin Nat
ASSUME CalendarAssumption == Day \in Nat /\ FirstSecond \in Int
\* The types of PeerData.
ASSUME ContactsAssumption ==
  \A c \in Contacts :
    /\ c.id \in Peers
    /\ U16(c.tcp_port) /\ U8(c.eth_version) /\ c.synced \in BOOLEAN \union {None}
    /\ c.hello \in Seq(Seq(Texts)) /\ c.capabilities \in Seq(Seq(Texts))

VARIABLES
  now,        \* the current instant
  gathered,   \* sightings the crawler has not written yet
  source,     \* the PostgreSQL row of each peer
  written,    \* history: the sightings written of each peer
  handler,    \* db_sync_handler: "scan", "copy", "idle" or, with its process, "down"
  rows,       \* what the sync under way has read and not copied yet
  table,      \* the SQLite row of each peer
  served      \* history: which of the sightings written the SQLite row is

crawler == <<now, gathered, source, written>>
sqlite  == <<table, served>>
vars    == <<crawler, handler, rows, sqlite>>

Sighting == [contact: Contacts, at: DOMAIN Times]

\* The six fields that come from the hello, last_seen, and what the contact has as
\* it is: the eth status, the place and the answer of the block service.
PeerDataOf(s) ==
  LET c == s.contact
      version == SplitVersion(c.hello)
  IN [ enode_url |-> c.enode_url, id |-> c.id, address |-> c.address,
       tcp_port |-> c.tcp_port, client_name |-> version.name,
       client_version |-> version.version, client_build |-> version.build,
       client_arch |-> version.arch, os |-> version.os,
       client_language |-> version.language, capabilities |-> c.capabilities,
       last_seen |-> Stamp(Times[s.at]), country |-> c.country, city |-> c.city,
       genesis_block_hash |-> c.genesis_block_hash, best_block |-> c.best_block,
       total_difficulty |-> c.total_difficulty, chain |-> c.chain,
       eth_version |-> c.eth_version, synced |-> c.synced, isp |-> c.isp ]

RowOf(s) == Row(PeerDataOf(s))

ASSUME NoneAssumption ==
  /\ None \notin BOOLEAN
  /\ \A s \in Sighting : RowOf(s) # None /\ Row(Kept(PeerDataOf(s))) # None

Init ==
  /\ now = 1
  /\ gathered = {}
  /\ source = [p \in Peers |-> None]
  /\ written = [p \in Peers |-> <<>>]
  /\ handler = "scan"
  /\ rows = {}
  /\ table = [p \in Peers |-> None]
  /\ served = [p \in Peers |-> 0]

-----------------------------------------------------------------------------
(* The crawler                                                             *)

Pass ==
  /\ now < Len(Times)
  /\ now' = now + 1
  /\ UNCHANGED <<gathered, source, written, handler, rows, sqlite>>

\* Bound: at most MaxSightings, gathered or written.
Gather(c) ==
  /\ Cardinality(gathered) + Cardinality(UNION {{p} \X DOMAIN written[p] : p \in Peers})
       < MaxSightings
  /\ gathered' = gathered \union {[contact |-> c, at |-> now]}
  /\ UNCHANGED <<now, source, written, handler, rows, sqlite>>

\* PostgreSQLPeerDb::add_peer: a row that exists is updated in every column.
AddPeer(s) ==
  /\ gathered' = gathered \ {s}
  /\ source' = [source EXCEPT ![s.contact.id] = RowOf(s)]
  /\ written' = [written EXCEPT ![s.contact.id] = Append(@, s)]
  /\ UNCHANGED <<now, handler, rows, sqlite>>

-----------------------------------------------------------------------------
(* The sync                                                                *)

\* The rows of one statement.
Snapshot ==
  {[data |-> FromPostgresRow(source[p]), version |-> Len(written[p])] :
     p \in {q \in Peers : source[q] # None}}

\* Mutant: a sync is spawned while another one still copies.
ScanAgain ==
  /\ handler \in {"scan", "copy"}
  /\ handler' = "copy"
  /\ rows' = rows \union Snapshot
  /\ UNCHANGED <<crawler, sqlite>>

Scan ==
  /\ handler = "scan"
  /\ handler' = "copy"
  /\ rows' = Snapshot
  /\ UNCHANGED <<crawler, sqlite>>

\* Mutant: INSERT OR IGNORE.
InsertOrIgnore(r) ==
  /\ handler = "copy"
  /\ rows' = rows \ {r}
  /\ IF table[r.data.id] # None THEN UNCHANGED sqlite
     ELSE /\ table' = [table EXCEPT ![r.data.id] = Row(r.data)]
          /\ served' = [served EXCEPT ![r.data.id] = r.version]
  /\ UNCHANGED <<crawler, handler>>

\* SqlPeerDB::add_peer: INSERT OR REPLACE.
CopyRow(r) ==
  /\ handler = "copy"
  /\ rows' = rows \ {r}
  /\ table' = [table EXCEPT ![r.data.id] = Row(r.data)]
  /\ served' = [served EXCEPT ![r.data.id] = r.version]
  /\ UNCHANGED <<crawler, handler>>

\* Mutant: a sync ends with the rows it has got to.
FinishEarly ==
  /\ handler = "copy"
  /\ handler' = "idle"
  /\ UNCHANGED <<crawler, rows, sqlite>>

Finish ==
  /\ handler = "copy"
  /\ rows = {}
  /\ handler' = "idle"
  /\ UNCHANGED <<crawler, rows, sqlite>>

\* A database fails, the next sync is refused its statement, or the server is
\* stopped: the process ends, what is in SQLite stays.
Stop ==
  /\ handler # "down"
  /\ handler' = "down"
  /\ rows' = {}
  /\ UNCHANGED <<crawler, sqlite>>

\* External: the operator starts the server again.
Restart ==
  /\ handler = "down"
  /\ handler' = "scan"
  /\ UNCHANGED <<crawler, rows, sqlite>>

-----------------------------------------------------------------------------
(* The statements of SqlPeerDB, each a snapshot of the table               *)

Rows == {table[p] : p \in Peers} \ {None}

AllPeers == {FromRow(r) : r \in Rows}

\* Mutant: the cutoff itself is active.
ActiveFrom(last_seen) == {r \in Rows : ~Less(r.last_seen, last_seen)}

ActiveRows(last_seen) == {r \in Rows : Less(last_seen, r.last_seen)}

AllActivePeers(last_seen) == {FromRow(r) : r \in ActiveRows(last_seen)}

NodeById(id) == {FromRow(r) : r \in {q \in Rows : q.id = id}}

NodeByIp(ip) == {FromRow(r) : r \in {q \in Rows : q.ip = ip}}

\* One ClientData for each row.
Clients == [r \in Rows |-> FromRow(r).client_version]

ActiveClients(last_seen) == [r \in ActiveRows(last_seen) |-> FromRow(r).client_version]

-----------------------------------------------------------------------------
(* The routes                                                              *)

MAX_LAST_SEEN == 1

Days(param) == IF param = None THEN MAX_LAST_SEEN ELSE param

\* checked_sub_days
Cutoff(param) ==
  LET t == Times[now]
  IN [s |-> t.s - Days(param) * Day, ms |-> t.ms, us |-> t.us, ns |-> t.ns]

\* Outside the calendar the handler panics and its client gets no answer.
InCalendar(param) == Cutoff(param).s >= FirstSecond

GetActiveNodes(param) ==
  IF InCalendar(param) THEN AllActivePeers(Stamp(Cutoff(param))) ELSE None

GetActiveClients(param) ==
  IF InCalendar(param) THEN ActiveClients(Stamp(Cutoff(param))) ELSE None

-----------------------------------------------------------------------------
Next ==
  \/ Pass
  \/ \E c \in Contacts : Gather(c)
  \/ \E s \in gathered : AddPeer(s)
  \/ Scan
  \/ \E r \in rows : CopyRow(r)
  \/ Finish
  \/ Stop
  \/ Restart

Spec == Init /\ [][Next]_vars

-----------------------------------------------------------------------------
(* Properties                                                              *)

TypeOK ==
  /\ now \in DOMAIN Times
  /\ gathered \subseteq Sighting
  /\ written \in [Peers -> Seq(Sighting)]
  /\ handler \in {"scan", "copy", "idle", "down"}
  /\ rows # {} => handler = "copy"
  /\ served \in [Peers -> Nat]
  /\ \A p \in Peers : served[p] <= Len(written[p])

Served == {p \in Peers : served[p] # 0}
ServedSighting(p) == written[p][served[p]]
\* What two rows keep of it.
Answer(p) == Kept(Kept(PeerDataOf(ServedSighting(p))))

\* What a client reads is what the crawler wrote: every row, on its way through two
\* databases, is in every field one sighting of its peer, found under its id and its
\* address, whatever syncs have been interrupted.  Only capabilities with a comma,
\* and no capabilities, read otherwise.
AnswersAreSightings ==
  /\ \A p \in Served :
       LET capabilities == ServedSighting(p).contact.capabilities IN
       capabilities # <<>> /\ (\A i \in DOMAIN capabilities : Len(capabilities[i]) = 1) =>
         Answer(p) = PeerDataOf(ServedSighting(p))
  /\ AllPeers = {Answer(p) : p \in Served}
  /\ \A p \in Peers : NodeById(p) = {Answer(q) : q \in {p} \intersect Served}
  /\ \A c \in Contacts :
       NodeByIp(c.address) =
         {Answer(p) : p \in {q \in Served : ServedSighting(q).contact.address = c.address}}

\* The active routes select by time although they compare texts whose fractions have
\* different lengths and whose years may have a sign.
ActiveByTime ==
  \A param \in Params :
    LET active == {p \in Served : Earlier(Cutoff(param), Times[ServedSighting(p).at])} IN
    InCalendar(param) =>
      /\ GetActiveNodes(param) = {Answer(p) : p \in active}
      /\ GetActiveClients(param) =
           [r \in {table[p] : p \in active} |-> FromRow(r).client_version]

\* The words of a hello are not lost nor put in another's field: the second field
\* begins after the first dash or, without any, after the first plus sign.
Spells(part, before, after) ==
  \/ part = before /\ after = <<>> /\ ~Has(part, "-") /\ ~Has(part, "+")
  \/ part = before \o <<"-">> \o after /\ ~Has(before, "-")
  \/ part = before \o <<"+">> \o after /\ ~Has(before, "+") /\ ~Has(part, "-")
ClientsSpelled ==
  \A p \in Served :
    LET hello == ServedSighting(p).contact.hello IN
    IF Len(hello) = 4
    THEN /\ hello[1] = Answer(p).client_name[1] /\ hello[4] = Answer(p).client_language
         /\ Spells(hello[2], Answer(p).client_version, Answer(p).client_build)
         /\ Spells(hello[3], Answer(p).os, Answer(p).client_arch)
    ELSE hello = Answer(p).client_name

\* DynamoDB would return every sighting but its client_arch, which it reads under
\* another key than it writes.
ItemsLoseArchOnly ==
  \A s \in gathered :
    LET p == PeerDataOf(s) IN FromItem(Item(p), None) = PeerData(p, p.capabilities, <<>>)

\* A client that asks again never gets a row of a peer that the crawler had replaced
\* already when it wrote the one read before: what is served of a peer follows the order
\* of the crawler's writes, through syncs interrupted and begun again.  An older sighting
\* that the crawler writes last is served last: this order is not that of last_seen.
NeverServesReplaced == [][\A p \in Peers : served'[p] >= served[p]]_vars

\* SQLite is the crawler's table as of one instant, copied row by row: all of it when
\* a sync is through, what it was before where a sync has not got to.
SourceRows == {RowOf(s) : s \in Sighting}
CopyOf == [row \in SourceRows |-> Row(FromPostgresRow(row))]
CopiedRows == {CopyOf[row] : row \in SourceRows}
Origin == [p \in Peers |-> IF source[p] = None THEN None ELSE CopyOf[source[p]]]
CopyStatus ==
  CASE handler = "copy" -> "copying"
    [] handler = "idle" -> "whole"
    [] OTHER -> "stale"
\* A peer that the sync has not in flight has its row already, or never had one.
Taken ==
  [p \in Peers |-> IF handler # "copy" THEN None
                   ELSE IF \E r \in rows : r.data.id = p
                   THEN Row((CHOOSE r \in rows : r.data.id = p).data)
                   ELSE table[p]]
Copying == INSTANCE SnapshotCopy WITH
  Keys <- Peers, Items <- CopiedRows, Absent <- None,
  origin <- Origin, replica <- table, status <- CopyStatus, snapshot <- Taken
CopiesSnapshots == Copying!CopySpec

\* As long as syncs complete again and again, what the crawler has written, or
\* something later, is served.
WrittenIsServed ==
  []<><<Finish>>_vars =>
    \A p \in Peers, n \in 1 .. MaxSightings : Len(written[p]) >= n ~> served[p] >= n

=============================================================================
