----------------------------- MODULE MCConverge -----------------------------
(***************************************************************************)
(* Small instances of Converge.  Any peer may be marked as an exit node;   *)
(* e1 and e2 may be chosen as one.                                         *)
(***************************************************************************)
EXTENDS Converge

CONSTANTS s1, s2, e1, e2, c1

MCInitialPort == [s \in Server |-> IF s = s1 THEN 8 ELSE 9]

Ask(role, via, port) == [role |-> role, via |-> via, port |-> port]

Mark == {Ask("exit", Keep, Keep), Ask("plain", Keep, Keep)}
Choose == {Ask(Keep, v, Keep) : v \in {e1, e2} \cap Peer} \cup {Ask(Keep, None, Keep)}
Pins == {Ask(Keep, Keep, port) : port \in PinPort}
ClearPort == {Ask(Keep, Keep, None)}

MarkChoose == Mark \cup Choose
MarkClear == Mark \cup Choose \cup ClearPort
MarkChoosePin == Mark \cup Choose \cup Pins

MCOneServer == [p \in Peer |-> s1]
MCTwoServers == [p \in Peer |-> IF p = e2 THEN s2 ELSE s1]

=============================================================================
