----------------------------- MODULE PeerCatalog -----------------------------
(***************************************************************************)
(* What the crawler promises about the peers it publishes, apart from how  *)
(* it finds them.  A sighting is one accepted contact with a peer: where   *)
(* it was, the client version it announced and when.  The catalog keeps    *)
(* at most one row per peer id, and a row is always one whole sighting of  *)
(* that very id: never half of one and half of another, never a peer that  *)
(* announced no client version.                                            *)
(***************************************************************************)
EXTENDS Naturals

CONSTANTS Peers,        \* peer ids
          Addrs,        \* IP addresses
          Versions,     \* client versions that are not empty
          None          \* no row

VARIABLES catalog,      \* the row of each peer id, or None
          pending,      \* sightings gathered and not written yet
          clock         \* the time of the last sighting
catalogVars == <<catalog, pending, clock>>

Row      == [address: Addrs, client: Versions, last_seen: Nat]
Sighting == [id: Peers, address: Addrs, client: Versions, last_seen: Nat]

RowOf(s) == [address |-> s.address, client |-> s.client, last_seen |-> s.last_seen]

CatalogTypeOK ==
  /\ catalog \in [Peers -> Row \union {None}]
  /\ pending \subseteq Sighting
  /\ clock \in Nat

CatalogInit ==
  /\ catalog = [p \in Peers |-> None]
  /\ pending = {}
  /\ clock = 0

\* A peer was contacted and said who it is: the sighting carries this instant.
See(p, a, v) ==
  /\ clock' = clock + 1
  /\ pending' = pending \union {[id |-> p, address |-> a, client |-> v, last_seen |-> clock']}
  /\ UNCHANGED catalog

\* The sighting replaces whatever row the peer had, an older or a newer one.
Store(s) ==
  /\ pending' = pending \ {s}
  /\ catalog' = [catalog EXCEPT ![s.id] = RowOf(s)]
  /\ UNCHANGED clock

\* The database refused a row, or the process stopped: the sightings are gone.
Lose(S) ==
  /\ pending' = pending \ S
  /\ UNCHANGED <<catalog, clock>>

CatalogNext ==
  \/ \E p \in Peers, a \in Addrs, v \in Versions : See(p, a, v)
  \/ \E s \in pending : Store(s)
  \/ \E S \in SUBSET pending : Lose(S)

\* A row is replaced by a sighting of the same peer or not at all.
CatalogSpec == CatalogInit /\ [][CatalogNext]_catalogVars

=============================================================================
