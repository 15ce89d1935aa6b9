------------------------------ MODULE MCTraffic ------------------------------
(***************************************************************************)
(* A small instance of Traffic: one server, one peer, an hour and a day of *)
(* two minutes, so that a cutoff falls in the middle of one.               *)
(***************************************************************************)
EXTENDS Traffic

CONSTANTS s1, a

MCHome == [p \in Peer |-> s1]
MCCarried == [p \in Peer |-> 3]

=============================================================================
