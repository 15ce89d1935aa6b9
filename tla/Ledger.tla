------------------------------- MODULE Ledger -------------------------------
(***************************************************************************)
(* What the traffic statistics promise, whatever the counters of wireguard *)
(* do: a byte is counted at most once, and once it is counted the total of *)
(* its peer, that of its server and the graph all hold it, until a reset   *)
(* or old age takes it out of one of them and of that one alone.           *)
(***************************************************************************)
EXTENDS Integers, Sums

CONSTANTS Peer, Server, Home

VARIABLES
  owed,      \* bytes that a peer carried and that nobody counted
  gone,      \* deleted peers
  lifetime,  \* total of a peer
  total,     \* total of a server
  kept       \* bytes of a peer in the graph

vars == <<owed, gone, lifetime, total, kept>>

Init ==
  /\ owed = [p \in Peer |-> 0] /\ gone = {}
  /\ lifetime = [p \in Peer |-> 0] /\ total = [s \in Server |-> 0] /\ kept = [p \in Peer |-> 0]

Carry(p) ==
  /\ owed' = [owed EXCEPT ![p] = @ + 1]
  /\ UNCHANGED <<gone, lifetime, total, kept>>

\* n[p] bytes of every peer p of a server are counted at once; a deleted peer has no total.
Count(s, n) ==
  /\ \A p \in Peer : n[p] <= owed[p] /\ (Home[p] # s => n[p] = 0)
  /\ owed' = [p \in Peer |-> owed[p] - n[p]]
  /\ kept' = [p \in Peer |-> kept[p] + n[p]]
  /\ lifetime' = [p \in Peer |-> IF p \in gone THEN lifetime[p] ELSE lifetime[p] + n[p]]
  /\ total' = [total EXCEPT ![s] = @ + SumOf(n, Peer)]
  /\ UNCHANGED gone

ResetPeer(p) ==
  /\ lifetime' = [lifetime EXCEPT ![p] = 0]
  /\ UNCHANGED <<owed, gone, total, kept>>

ResetServer(s) ==
  /\ total' = [total EXCEPT ![s] = 0]
  /\ UNCHANGED <<owed, gone, lifetime, kept>>

Delete(p) ==
  /\ gone' = gone \cup {p}
  /\ lifetime' = [lifetime EXCEPT ![p] = 0]
  /\ UNCHANGED <<owed, total, kept>>

Expire(rest) ==
  /\ \A p \in Peer : rest[p] <= kept[p]
  /\ kept' = rest
  /\ UNCHANGED <<owed, gone, lifetime, total>>

\* The bytes that are left, and those that are counted, are bounded by what there is.
UpTo(f) == {n \in [Peer -> 0 .. Max({f[p] : p \in Peer})] : \A p \in Peer : n[p] <= f[p]}

Next ==
  \/ \E p \in Peer : Carry(p) \/ ResetPeer(p) \/ Delete(p)
  \/ \E s \in Server : ResetServer(s) \/ \E n \in UpTo(owed) : Count(s, n)
  \/ \E rest \in UpTo(kept) : Expire(rest)

Spec == Init /\ [][Next]_vars

=============================================================================
