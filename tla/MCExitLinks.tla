----------------------------- MODULE MCExitLinks -----------------------------
(***************************************************************************)
(* Small instances of ExitLinks: two peers that may become exit nodes and  *)
(* a third that may also be created while the system runs.                 *)
(***************************************************************************)
EXTENDS ExitLinks

CONSTANT s1

MCHome == [p \in Peer |-> s1]
MCInitialPort == [s \in Server |-> 9]

Ask(role, via, port) == [role |-> role, via |-> via, port |-> port]

\* Mark and unmark an exit node, choose one.
RoleRequests == {Ask("exit", Keep, Keep), Ask("plain", Keep, Keep)}
ChoiceRequests == {Ask(Keep, v, Keep) : v \in Peer \cup {None}}
PinRequests == {Ask(r, Keep, port) : r \in {"exit", Keep}, port \in PinPort \cup {None}}

MCChoice == RoleRequests \cup ChoiceRequests
MCPins == RoleRequests \cup PinRequests
MCAll == RoleRequests \cup ChoiceRequests \cup PinRequests

=============================================================================
