# Verification of reth-crawler

TLA+ models of the reth crawler: the node that finds Ethereum peers and records
them (`bins/reth-crawler`), the database layer (`db`), and the API server that
serves a copy of the records (`bins/api-server`). Paths below are relative to
the repository. `PROJECT.json` lists the runs, the mutants, the source lines of
every definition, the hazards, the findings and the theorems.

## The system

| component | state | operations | modelled by |
|---|---|---|---|
| `UpdateListener` (one per crawler node) | `p2p_failures`, a map from peer id to a count behind an `RwLock`; handles to discv4, DNS discovery, the network, the block service and the database | `start_discv4`, `start_dnsdisc`, `start_network`: streams that spawn a task per event; `handshake_and_save_peer` and the task of an inbound session | `UpdateListener`, the sessions in `Crawler` |
| `BlockHashNum` service | LRU cache of `SYNCED_THRESHOLD` block hashes, two unbounded queues | `poll`, `is_block_hash_present`, `new_block` | `BlockHashNum` |
| `StateListener` | the newHeads subscription | `block_subscription_manager` | `BlockHashNum` |
| `CrawlerService`, `CrawlerBuilder` | the nodes, one block service and one database for all | `build`, `run` (joins all streams) | `Crawler` |
| handshakes (`p2p.rs`) | a TCP stream | `handshake_p2p`, `handshake_eth` | their outcomes, in `UpdateListener` |
| `PeerDB` backends (`db/src/db.rs`) | one row per peer id | `add_peer`, `all_peers`, `all_active_peers`, lookups and client lists | the rows in `PeerRows`; SQLite's operations in `ApiServer`, PostgreSQL's in `UpdateListener`, `DbSync` and `ApiServer` |
| `PeerData` (`db/src/types.rs`) | | conversions for DynamoDB | `PeerRows` |
| `split_version` | | pure function on a string | `PeerRows` |
| `db_sync_handler` | `first_sync`, the interval, the SQLite copy | `db_sync` every five minutes | `DbSync` (when, which rows), `ApiServer` (row by row, all columns) |
| REST routes and their state | a connection to SQLite | six stateless reads, a cutoff in days | `ApiServer` |
| command lines | | `main` of both programs | start and end of the process in `Crawler` and `ApiServer` |

How they interact: discv4, DNS and the network send events to a listener, whose
tasks share the listener's map, send `ban_ip` to discv4 and `remove_peer` to the
network (both are messages, handled later), ask the block service over a queue
and a oneshot, and write to one database shared by all nodes. The block
subscription feeds the service through a second queue. The API server copies
the rows of the PostgreSQL database to SQLite on a timer, and its routes read
SQLite through a connection of their own while it does.

What is hard, and what makes each part correct:

* **Listener.** Tasks give way at every await, so a count is read before a
  handshake and written after it; failures are counted per peer id and bans go
  by address; sightings are stamped before two awaits and written after them.
  Correct: no ban without its reason, no lasting escape from a deserved ban,
  rows that are whole sightings.
* **Block service.** One future serves two queues, requests first, under tokio's
  budget; a reorganisation of any depth is announced block by block from the fork on;
  the subscription may end. Correct:
  the cache is the recent window, hits mean closeness, every query is answered
  as of one instant, blocks get learned.
* **Crawler process.** The networks accept peers from the start, the streams
  subscribe thirty seconds later, read the events of a session when it may be over and
  end one by one, the service may be empty or stand still, and a restart keeps nothing but the table. Correct: what a row says of
  `synced` was true when the row was stamped, a question asked is answered at all
  times, slots of sessions heard of are given back.
* **Database sync.** Windows measured on `last_seen`, rows written later than
  their stamp, syncs that are late, failures halfway, restarts, and no timeout on any of
  it. Correct: nothing is missed that the 60 seconds of slack cover. That a row is served
  soon is not promised: the code limits neither delay.
* **Rows and routes.** Columns read by position, numbers cast, capabilities
  joined with commas, times compared as texts, reads in the middle of a copy.
  Correct: a client reads one sighting, in the right fields, the active peers are
  those of the time asked for, and what a client reads of a peer follows the order of
  the crawler's writes.

## Modules

| module | what it is |
|---|---|
| `PeerCatalog` | abstract: a catalog of whole sightings (`See`, `Store`, `Lose`) |
| `UpdateListener`, `MCUpdateListener` | the listeners, their tasks, discv4's bans, the events of inbound sessions, the database; implements `PeerCatalog`; small worlds: ids that share an address, an id with two |
| `UpdateListenerProofs` | theorems about `UpdateListener` |
| `RecencyList` | lists of distinct items, latest first: what an LRU cache keeps |
| `SyncOracle` | abstract: a query is answered from the last `Window` hashes learned, as of one instant |
| `BlockHashNum`, `MCBlockHashNum` | provider, subscription, service and askers; implements `SyncOracle` |
| `RecencyListProofs`, `BlockHashNumProofs` | lemmas on the lists, theorems about the service |
| `Crawler`, `MCCrawler`, `CrawlerProofs` | the composition and its life cycle; its instance; its theorems |
| `SnapshotCopy` | abstract: a replica is brought, row by row, to what its origin was at one instant |
| `DbSync`, `MCDbSync`, `DbSyncProofs` | the timed sync, its instance, its theorems; implements `SnapshotCopy` |
| `PeerRows`, `PeerRowsProofs` | pure: rows, items, client versions, stamps; round trips and orders |
| `ApiServer`, `MCApiServer`, `ApiServerProofs` | from a contact to a response; its instance; its theorems; implements `SnapshotCopy` |
| `LeastElement` | the least element of a set of naturals, which the other proofs use for induction |

### UpdateListener

A task is a slot with a `pc`; its steps are the stretches of code between two
awaits or two accesses to shared state:
`start` (`ReadFailures`, the read lock) → `p2p` (the handshake: `TooManyPeers`,
`CountFailure`, `BanForFailures` then `ResetFailures` at `reset`, or
`HandshakeP2pOk`) → `eth` (`HandshakeEthFails`, `AnonymousHello`, `Refuse`,
`HandshakeEthOk`, which stamps `last_seen`) → `geo` → `sync` → `save`
(`SavePeer` or `SaveFails`). The event of an inbound session
starts a task at `session` (`SkipSession` or `HandleSession`); what the network does with
the session before and after is in `Crawler`. Slots are reused: `Tasks` bounds how many
tasks are alive at once, not how many there ever are. `p2p_failures` is the map,
with 0 for a missing key. discv4 is external: `Announce` (what its stream
yields) and `HandleBan` (it drains its commands). The clock ticks at each stamp;
two stamps never coincide. History variables count the failures really seen
(`failures`, `sinceReset`, both saturating at the threshold, where no property
tells larger numbers apart), where they happened and which ids two tasks ever
counted for at once.

Abstracted: a client version is `Empty` or not, geolocation and `is_synced`
are awaits whose result no property here reads (`Crawler` reads the second), and
the other columns, which follow the sighting, are `ApiServer`'s.

### BlockHashNum

`branch` has the chain that ends in each block. The provider extends its chain (`Extend`),
lets it fork off after any number of blocks (`Reorg`), or goes back to a block that was
reorganised away (`ReorgBack`). newHeads announces every block of a reorganisation from the
fork on, so in the middle of a deep one the head announced last is lower than the one before it.
The subscription may end at any time. `NewBlock` is one turn of
`block_subscription_manager`, which waits for the service's answer before the
next. A poll of the service is several steps (`Wake`, `AnswerRequest`\*,
`CommandsDone`, `ApplyUpdate`\*, `Park`), since other threads send messages while it
runs; a receiver that finds the budget spent returns pending and wakes the task
again. `learned` is history: every hash put, the latest first.

### Crawler

The composition does not repeat its parts: it takes what they are shown to
promise. A listener's tasks are there as far as `PeerCatalog` speaks of them, plus
the sessions and the place in the code where the service is asked; the service is
`SyncOracle` itself (`Learn`, `Ask`, `Answer`, `Return` are the oracle's actions), fed
by `NewBlock` in the provider's order. What is new is the life cycle. `Subscribe` is the end
of a stream's sleep, `StreamEnds` its failure or end (before the subscription as
well: `run` joins, so the others go on), `Exit` the end of the process by a
signal or because everything joined has ended, `Start` the next one, which finds the
table (`CREATE TABLE IF NOT EXISTS`) and an empty cache.

The network opens sessions from the start. While a stream of the node listens it queues an
event for each (`SessionOpens`), and the listener spawns a task when it comes to the event
(`SessionEstablished`): the session may be over by then, or another one of the same peer
may be open. Otherwise nobody hears of the session (`SessionUnseen`); `unseen` is history and marks those.
A task with a sighting is at `geo` until the locator has answered or failed (`Geolocate`)
and only then asks the service.

The provider's chain is the list of the heights of its blocks, in the order in which they are
announced; `Produce` appends any height up to one above the last, which is a block on top or
one of a reorganisation of any depth. `Base` is the height of the tip at the first start.
A block that was reorganised away does not come back here: this is `BlockHashNum`'s.
`known` in a row is history: the last block learned when `last_seen` was stamped. The counts and
bans are left to `UpdateListener`: here `Refuse` covers every contact that ends early.

### DbSync

A row is its `last_seen`. `See` stamps and `Save` writes, any time later; `Tick` is the
moment a sync takes the time its cutoff counts from, any time after its deadline. `Pass` has
no guard but the bound of the run: time goes on at every point of a sync and of a sighting's
way to the table, since no await there has a timeout. Deadlines are `Period` apart
whatever the lateness, since tokio's interval bursts by default. `ScanAll` is the
first sync's scan, `ScanActive` the later ones', with the cutoff the code
computes. What lateness the slack covers is measured and not assumed: `delay` is the longest that a
row written since the last scan had waited, `Late` how long after its deadline the sync took
the time, and `covered` says that `delay + Late < Slack` held at every sync since the last
scan of all rows. `delay` and `covered` are history.

`ActiveQuery` says what the source may do with the statement of `all_active_peers`. It is
`"fails"` (`ActiveQueryFails`) in the code as it is: PostgreSQL refuses `?1`, and no second sync copies
a row. `"runs"` is what the window would be worth with a placeholder that PostgreSQL
accepts; everything said of later syncs is said of that case.
A failure ends the process (`try_join!`), `Restart` is the operator.

`SnapshotCopy` is what both models of the sync implement, each with a half of the
difficulty. Its `Complete` asks that the whole replica is the snapshot, also the rows that
were not replaced: `DbSync`, whose later scans take the recent rows only, has to show that
the others are there. Its `Replace` writes the row as of the scan and nothing else:
`ApiServer`, whose rows go through every conversion and whose crawler writes meanwhile, has
to show that the row it has in flight is that one. There the snapshot is not stored
(`Taken` reads it off the rows in flight and the table), so each step shows that it stays.

### PeerRows

A text that no code takes apart is any value. A text that is taken apart is a sequence of
pieces: a capability of those between commas, a client version of its parts
between slashes, a part of words and separators. `Row` is the `INSERT` (and the upsert),
`ReadRow` the `get(0)`, `get(1)`, ... of the readers over a table's columns. SQLite's are in the
order of the `CREATE TABLE` (`Columns`). The program creates no table in PostgreSQL, so that
its columns are in the same order is an assumption (`PostgresColumns`), as it is in the code; `FromRow` is SQLite's and `FromPostgresRow` has the casts `as u16` and
`as u8` as remainders. `Item` and `FromItem` are the two directions of DynamoDB, with
the defaults of a missing key or a wrong type. A stamp is a sequence of the characters
that decide a comparison: the date and time is one "digit" because its width is
fixed as long as years have four digits, the fraction has no group, or one, two or three of them,
and years before 0 begin with a sign.

### ApiServer

`Gather` is a contact with its time, `AddPeer` the upsert in PostgreSQL, `Scan` the
statement of a sync, `CopyRow` one `INSERT OR REPLACE` in SQLite, `Finish` the end of the
sync, `Stop` and `Restart` as in `DbSync`. `DbSync` covers the timing and the incremental
scans; here every sync is the first of its process and takes the whole table, which is all
that ever completes against PostgreSQL (see `SyncStops`). A route is an operator over the
current table, and each property is about all routes in all states, so a request may come
between any two rows of a copy. `written` and `served` are history: the
sightings written of each peer, and which of them SQLite has.

## Runs

| run | checks | bounds and why they are enough |
|---|---|---|
| `Discovery` | `TypeOK`, `BansJustified`, `SequentialCountsExact`, `SequentialFailuresBanned`, `PublishesSightings` | two ids at one address, one by discv4 and one by DNS; two tasks, threshold 2, one accepted peer: counts, bans and resets of both ids interleave |
| `Catalog` | `PublishesSightings` | two nodes, three tasks, three sightings, two addresses of one id: a row can be mixed or taken back |
| `Liveness` | `OffendersBanned`, `PersistentFailureBanned`, and the two count invariants | three tasks and threshold 3, so that a task can hold a count two writes old while others ban and reset |
| `LostIncrement` | `BannedWithinThreshold` (violated) | two tasks are enough to lose an increment |
| `StaleLastSeen` | `LastSeenNeverGoesBack` (violated) | two sightings of one id |
| `Cache` | `TypeOK`, `CacheIsRecent`, `SyncedMeansClose`, `CanonicalKept`, `ExactWithoutReorgs`, `ImplementsOracle`, `BlocksLearned` | two askers, capacity 2 and three announcements: the cache overflows, the chain forks up to three blocks deep and a block comes back; budget 2, which two askers can use up in one poll |
| `LagAtThreshold` | `ThresholdLagIsSynced` (violated) | a chain longer than the cache |
| `Crawler` | `TypeOK`, `SyncedWhenSeen`, `HeardSessionsDropped`, `PublishesSightings`, `SyncedAnswered` | one node, peer, task, slot and queued event, a window of one block, two blocks of any heights, two sightings: a head falls out of the window between stamp and answer, a session is over and another open before its event is read, the slot is taken by a session unseen, a restart finds an old row |
| `NotSynced` | `NotSyncedMeansBehind` (violated) | a window of two blocks of which one is known |
| `SyncWindow` | `TypeOK`, `CopyComplete`, `CopiesSnapshots` | period 1 and slack 2: four instants are a whole scan and three deadlines, and room for a write or a sync later than the slack. The condition is exact: with `delay + Late <= Slack` in `covered` TLC finds a row that is missed. The statement may run or fail |
| `SyncStops` | `KeepsUpdating` (violated) | two syncs |
| `Api` | `TypeOK`, `AnswersAreSightings`, `ActiveByTime`, `ClientsSpelled`, `ItemsLoseArchOnly`, `NeverServesReplaced`, `CopiesSnapshots`, `WrittenIsServed` | two peers, one of which moves to another address and client; the two largest numbers a port and an eth version can be; four instants whose stamps have no, one and three groups of a fraction; cutoffs on both sides of the year 0 and before the calendar begins |

Symmetry: tasks (and nodes) are interchangeable in `Discovery` and `Catalog`,
peers in the `DbSync` runs; the runs with liveness properties use none, nor do
those whose peers differ.
Deadlock is not checked where the system may stop: all task slots are
waiting in a bounded world (`UpdateListener`, `Crawler`), time or the number of
sightings has reached its bound (`DbSync`, `ApiServer`).

### What the violated properties say

* `BannedWithinThreshold`: `P2P_FAILURE_THRESHOLD` is how many failures are
  accepted before a ban, but concurrent tasks lose increments
  (`update_listener.rs` 277 and 308). `PersistentFailureBanned` bounds the damage:
  a peer that goes on failing is banned in the end. `SequentialFailuresBanned`
  is the half that holds: where no two tasks count for one id at once, the ban is never late.
* `LastSeenNeverGoesBack`: an older sighting may overwrite a newer row. It is then served
  in its place: `NeverServesReplaced` is about the order of writes, which is all the API server can keep.
* `ThresholdLagIsSynced`: the tip takes one of the hundred slots, so a lag of
  exactly `SYNCED_THRESHOLD` is not synced. `ExactWithoutReorgs` says where the line is:
  below `SYNCED_THRESHOLD`, exactly, as long as nothing is reorganised.
* `NotSyncedMeansBehind`: thirty seconds of warm-up know two or three blocks, and a
  miss is recorded as `Some(false)` and not as `None`: until a hundred blocks have
  been announced, peers that lag less are called not synced. `SyncedWhenSeen` is the
  half that holds.
* `KeepsUpdating`: `all_active_peers` says `?1` to PostgreSQL; the first sync
  works, the second one ends the server. `OnlyFaultsStop` shows that nothing else of the
  code does: without that refusal only a fault of a database ends the handler.

`ItemsLoseArchOnly` holds and states a defect exactly: `add_peer` writes
`client_arch` to DynamoDB (`db/src/db.rs` 105) and the conversion reads
`client_architecture` (`db/src/types.rs` 122). Everything else survives.

## Fairness

`UpdateListener!FairSpec`: weak fairness of the steps of a task that wait for
nobody (`RunsAlone`) and of discv4's handling of a command. Nothing is assumed of
the handshakes, the locator, the block service and the database: the code
sets no timeout on these awaits, so a task may hang at any of them.
`PersistentFailureBanned` is conditional: it holds of a behaviour in which
handshakes with the id go on failing.

`BlockHashNum!FairSpec`: weak fairness of `Poll` (tokio polls a task that was
woken, also one that woke itself on a spent budget) and of `NewBlock`. The
provider and the peers promise nothing. `BlocksLearned` excludes behaviours in
which queries use up the whole budget before the blocks in infinitely many polls: the
code, which drains requests first, does not rule them out.

`Crawler!FairSpec`: weak fairness, while the process runs, of a task that can ask
or take its answer, and of the service's answer, which is what
`ImplementsOracle` shows of the service. Nothing is assumed of `Geolocate`: `SyncedAnswered` is about the
tasks that ask, and a locator that hangs keeps the others from asking. `Exit` may still end the question with the task.

`ApiServer` has no fairness: `WrittenIsServed` is conditional on syncs that
complete again and again, which with PostgreSQL takes an operator who restarts the server.

`DbSync` has no fairness: its properties are safety properties, and nothing in the code
makes a sync or a write happen in time.

## Proofs

For all values of the constants that meet the named assumptions (records are well
formed; threshold, capacity, budget and period are positive; contacts have the
types of `PeerData`):

* `UpdateListenerProofs`
  * `TypeCorrect`. The stored counts are below the threshold because a
    task's count is at most what was stored and is written only below it.
  * `BansAreJustified`. `BansJustified` is not inductive: a task bans on a count
    it holds. The strengthening `CountsBacked` says that every stored count and
    every count held by a task is at most the failures of that id so far; it
    survives stale writes because `failures` only grows. `BansInv` adds it and types.
  * `SequentialCounts`. The strengthening `ExactInv` speaks also of the time
    while the only counting task is under way: what it holds is what is stored.
  * `SequentialBans`. `BanInTime` follows an id that no two tasks ever counted for: either
    it was never reset (`NeverReset`), and then the stored count is all its failures, so that
    the failure that reaches the threshold bans at once; or a ban was sent for one of its
    failures. From there `BanStays`: failures, bans and commands only grow, but for the
    addresses discv4 moves from the commands to the bans.
  * `ListenersPublishSightings`. Refinement: every step maps to `See`, `Store`,
    `Lose` or a stutter. `SightingInv` (a task that observes has a non-empty client
    and a stamp that no other task has) makes the pending set lose exactly the
    sighting that is stored.
* `RecencyListProofs`: lemmas on the slot, type, distinctness and prefix of a touched list.
  `FirstsTouch` is the one the cache rests on: evicting at every put gives the same
  as cutting the whole history once.
* `BlockHashNumProofs`
  * `TypeCorrect`, and `CacheHoldsMostRecent` from `FirstsTouch`.
  * `ServiceImplementsOracle`, the safety half of `ImplementsOracle`.
  * `SyncedPeersAreClose` and `CloseBlocksAreKept`. The cache alone does not carry
    these: `HeadsInv` follows a head from the provider to the list. A head that is announced
    is no block of the chain before it, and every block it is built on is one (`Follows`,
    `FeedInv`), which says of reorganisations of any depth all that is needed. Branches are chains
    (`BranchInv`), and the last head is the tip while the subscription is alive (`ReachInv`).
    Touching a head that follows the first one of the list keeps two properties of the list
    (`ListTouch`): each height between a block's and the first one's occurs before that block
    (`Covered`), and no ancestor of a block of the last chain comes before it (`Ordered`). The
    first makes a hit within `Capacity` slots a lag below `Capacity` (`HitsAreClose`). By the
    second, before a block of the last chain the list holds only higher blocks of that chain
    and stale ones, once each, which is a count of an injection (`CanonicalStays`).
  * `ExactOnOneChain`. One half is `SyncedPeersAreClose`. For the other, on a chain never
    reorganised every block learned is on the last chain (`PathInv`) and nothing is stale, so
    that `CanonicalKept` is its converse (`UnreorganisedExact`).
* `CrawlerProofs`
  * `TypeCorrect`.
  * `SyncedIsRecent`, from `BlocksInv`: the list, then the feed, are consecutive blocks of the
    provider, up to the tip while the subscription is alive (`Contiguous`; `Down` when
    the process is not running), and a block is at most one higher than the one announced
    before it (`Chain`), so that heights grow by no more than the blocks between (`Rising`),
    however far they fall. A head that waits in a queue exists (`EventsHonest`), and a task that
    has its answer, like a row, is as honest as `SyncedWhenSeen` asks (`Honest`, `HonestRow`).
  * `HeardSessionsGone`. The property is inductive with the types (`HeardInv`): a named session has
    an event in the queue (`Queued`) or a task (`Remover`); reading an event turns the one into the
    other, and the steps that end such a task are `HandleSession`, which removes the session,
    and `SkipSession`, whose client is empty. The sessions unseen are set aside.
  * `ProcessPublishesSightings`. The composition implements `PeerCatalog` as the listeners do; `Exit` is `Lose`
    of all that is pending.
* `DbSyncProofs`: `TypeCorrect` and `SyncMissesNothing`, for any slack and any delays.
  `CopyComplete` is not inductive: the strengthening `SyncInv` says that a row changed after a
  scan is no older than `delay` and the time from that scan to the next deadline
  (`ChangesRecent`), that deadlines are near (`Deadlines`), and that while the slack has
  covered every sync a row not copied yet is still to come (`CopyAdvances`) and the copy is
  the last scan between two copies (`CopyHolds`). A sync that is covered then finds every changed
  row above its cutoff; one that is not resets `covered`, and only the scan of all rows that
  follows a restart sets it again. `SyncCopiesSnapshots` is the refinement: `CopyAdvances` says that a row not in
  flight is already the scan's, so that `Finish` is a `Complete` (`FinishCompletes`), and a
  copy that was not covered stops short of one. `OnlyFaultsStop` assumes a source that never
  refuses the statement of `all_active_peers`.
* `PeerRowsProofs`: `SqliteRoundTrip`, `PostgresRoundTrip` (the casts keep every port and
  eth version), `PlainKept` (at least one capability and none with a comma: nothing is lost),
  `KeptTwice` (what is lost otherwise is lost once: the second database loses nothing more),
  `ItemRoundTrip`, `SplitOnceWhole` (nothing but the first separator is lost), and `StampOrder`: texts compare as their times if
  the later year has no sign, whatever groups the fractions have.
* `ApiServerProofs`: `ServesInWriteOrder`, `ServesSightings`, `ServesByTime`, `ServesClients`,
  `StoresItems`, for any contacts, times and bounds. They rest on one inductive invariant,
  `Consistent`: the PostgreSQL row of a peer is its last sighting written (`SourceIsLast`),
  what a sync has read is what some sighting gives, written no earlier than what SQLite has
  (`RowsCurrent`), once per peer (`OneRowEach`), and the table has the row of the sighting
  `served` names (`TableServed`). The round trips of `PeerRowsProofs` do the rest.
  `SyncCopiesSnapshots` is the refinement, from the same invariant: `OneRowEach` makes the row
  in flight of a peer the only one (`OnlyRow`), and a peer that has none in flight has its
  row in the table already, or never had one.

Inductions over lists and chains are arguments by a least counterexample (`LeastElement`):
the library's induction theorems take an operator and cannot be instantiated.

Model-checked only: the liveness properties (`OffendersBanned`,
`PersistentFailureBanned`, `BlocksLearned`, the liveness of `ImplementsOracle`,
`SyncedAnswered`, `WrittenIsServed`), which are beyond the proof system. Every invariant,
action property and refinement (its safety part) of the passing runs has a theorem.

## Plan

Done, in this order: `UpdateListener` over `PeerCatalog`; `BlockHashNum` over
`SyncOracle` and `RecencyList`; `DbSync`; `PeerRows`, with `split_version`; `ApiServer`;
`Crawler`; the proofs of each.

Left: a `Crawler` whose parts are the detailed modules and not their abstract
specifications (its states are beyond TLC; the refinements proved of the parts are the reason
it was not needed), and a run of `ApiServer` with incremental syncs, for the day the
statement of `all_active_peers` is one PostgreSQL accepts.

## Not modelled

* The wire protocols, discv4, DNS discovery and the network manager: external
  crates; the model keeps what the listener sees of them.
* Argument parsing, logging, CORS and routing, the wording of times and hashes, the
  error types (`db/src/types.rs`), which only name what failed.
* `append_to_file` and `_snoop`, which nothing calls.
* PostgreSQL's lookups by id, address and client, and DynamoDB's scans, queries and
  paging: no program of the repository calls them. `limit` and the page, which SQLite ignores,
  and `source_region`.
* A lost PostgreSQL connection: its task prints the error and every write fails from
  then on, which `SaveFails` covers one row at a time; the code promises
  nothing of it that could be checked.
* The table in PostgreSQL, which no code creates: its columns are taken to be in SQLite's order.
* `Utc::now()` is taken to be monotonic, and years to have four digits.
