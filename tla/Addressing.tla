----------------------------- MODULE Addressing -----------------------------
(***************************************************************************)
(* Addresses and prefixes (lib/validation.ts, wg/addressing.ts).  An       *)
(* address is a number.  A prefix is an address, host bits included as the *)
(* regex admits them, and the number of addresses of its block: [base,     *)
(* size].  Everything is decided on the aligned block.                     *)
(***************************************************************************)
EXTENDS Integers, Sequences, FiniteSets

Cidr == [base : Nat, size : Nat \ {0}]

NetworkAddress(c) == c.base - (c.base % c.size)
BroadcastAddress(c) == NetworkAddress(c) + c.size - 1
NormalizeCidr(c) == [c EXCEPT !.base = NetworkAddress(c)]

CidrContains(c, ip) == NetworkAddress(c) <= ip /\ ip <= BroadcastAddress(c)
Block(c) == NetworkAddress(c) .. BroadcastAddress(c)

CidrsOverlap(a, b) == CidrContains(a, NetworkAddress(b)) \/ CidrContains(b, NetworkAddress(a))

(***************************************************************************)
(* resolvePeerAddress: the addresses a request may end up with.  Asked     *)
(* for, any address of the range that is not taken; allocated, the lowest  *)
(* free one above the reserved ones that is neither end of the range.      *)
(***************************************************************************)
RequestedAddress(range, taken, ip) == {ip} \cap (Block(range) \ taken)

AllocatedAddress(range, reserved, taken) ==
  LET free == (NetworkAddress(range) + reserved .. BroadcastAddress(range) - 1)
                \ (taken \cup {NetworkAddress(range)})
  IN {ip \in free : \A other \in free : ip <= other}

(***************************************************************************)
(* resolveAdvertisedRoutes: entries is the list as typed, range the        *)
(* server's own, reserved the prefixes that the rest of the host owns.     *)
(***************************************************************************)
IsDefaultRoute(c, space) == c.size = space

RoutesAccepted(entries, range, reserved, space) ==
  /\ \A i \in DOMAIN entries :
       /\ ~IsDefaultRoute(entries[i], space)
       /\ ~CidrsOverlap(NormalizeCidr(entries[i]), range)
       /\ \A j \in 1..(i - 1) : ~CidrsOverlap(NormalizeCidr(entries[j]), NormalizeCidr(entries[i]))
  /\ \A i \in DOMAIN entries, c \in reserved : ~CidrsOverlap(c, NormalizeCidr(entries[i]))

ResolvedRoutes(entries) == {NormalizeCidr(entries[i]) : i \in DOMAIN entries}

=============================================================================
