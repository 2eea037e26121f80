------------------------------- MODULE MCCrawler -------------------------------
(* One node and one peer, a few blocks and sightings.                        *)
EXTENDS Crawler

CONSTANTS p1, a1

OneRecord == {[id |-> p1, address |-> a1]}

=============================================================================
