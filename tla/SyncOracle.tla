------------------------------ MODULE SyncOracle ------------------------------
(***************************************************************************)
(* What the block service promises: a peer's head is synced when it is one *)
(* of the Window blocks learned last, as of one instant between the query  *)
(* and its answer, and every query is answered.                            *)
(***************************************************************************)
EXTENDS RecencyList

CONSTANTS Askers,     \* tasks that query the service
          Hashes,     \* block hashes
          Window      \* how many blocks count as recent

VARIABLES learned,    \* every hash learned, the latest first
          query       \* the query of each asker
oracleVars == <<learned, query>>

Idle == [status |-> "idle", hash |-> 0, answer |-> FALSE]
Asked(h) == [status |-> "asked", hash |-> h, answer |-> FALSE]
Answered(b) == [status |-> "answered", hash |-> 0, answer |-> b]

OracleInit ==
  /\ learned = <<>>
  /\ query = [i \in Askers |-> Idle]

Ask(i, h) ==
  /\ query[i].status = "idle"
  /\ query' = [query EXCEPT ![i] = Asked(h)]
  /\ UNCHANGED learned

Answer(i) ==
  /\ query[i].status = "asked"
  /\ query' = [query EXCEPT ![i] = Answered(In(Firsts(learned, Window), @.hash))]
  /\ UNCHANGED learned

\* The asker goes on with the answer.
Return(i) ==
  /\ query[i].status = "answered"
  /\ query' = [query EXCEPT ![i] = Idle]
  /\ UNCHANGED learned

Learn(h) ==
  /\ learned' = Touch(learned, h)
  /\ UNCHANGED query

OracleNext ==
  \/ \E i \in Askers : Answer(i) \/ Return(i) \/ \E h \in Hashes : Ask(i, h)
  \/ \E h \in Hashes : Learn(h)

OracleSafe == OracleInit /\ [][OracleNext]_oracleVars

OracleSpec == OracleSafe /\ \A i \in Askers : WF_oracleVars(Answer(i))

=============================================================================
