----------------------------- MODULE MCManager -----------------------------
(***************************************************************************)
(* A small instance of Manager: one server, two exit nodes that were marked *)
(* before there were links, and a peer that may choose either.             *)
(***************************************************************************)
EXTENDS Manager

CONSTANTS s1, e1, e2, c1

MCHome == [p \in Peer |-> s1]
MCInitialPort == [s \in Server |-> 8]

Ask(role, via) == [role |-> role, via |-> via, port |-> Keep]
MCRequest == {Ask("plain", Keep), Ask(Keep, e1)}

=============================================================================
