------------------------------ MODULE Routing ------------------------------
(***************************************************************************)
(* The way of a packet through the host (lib/exitTopology.ts,              *)
(* wg/exitRouting.ts, wg/config.ts): the routing tables decide the         *)
(* interface it leaves by, the AllowedIPs of that interface the peer it is *)
(* encrypted for.  Converge says how the tables are put in place; here     *)
(* they are what a complete pass writes, as operators over rows r and the  *)
(* exit nodes whose link is provisioned, links.  A pass drains the static  *)
(* routes of the main table; the table of an exit node that has clients it *)
(* only writes over, so routes of earlier passes may be left: Leftovers.   *)
(***************************************************************************)
EXTENDS Policy

Uplink == Null      \* the interface of the host's own default route
Loopback == "lo"    \* of the host's own addresses
Oif == Server \cup Gateway \cup {Uplink, Loopback}
Ip == 0..(Space - 1)

DefaultRoute == [base |-> 0, size |-> Space]
HostRoute(addr) == [base |-> addr, size |-> 1]

(***************************************************************************)
(* exitTopologyOf: an exit node is not a peer of its server's interface.   *)
(***************************************************************************)
AddrOf(r, peers) == {r.row[p].addr : p \in peers}
AdvertisedBy(r, peers) == UNION {r.row[p].routes : p \in peers}

ExitNodes(r, s, links) == PeersOf(r, s) \cap links
PlainPeers(r, s) == PeersOf(r, s) \ Gateway
ExitClients(r, p) == {q \in PeersOf(r, r.row[p].home) \ {p} : r.row[q].via = p}
AdvertisedRoutes(r, s) == AdvertisedBy(r, PeersOf(r, s))

(***************************************************************************)
(* buildExitRouting.                                                       *)
(***************************************************************************)
Dev(cidrs, dev) == {[cidr |-> c, dev |-> dev] : c \in cidrs}

StaticRoutesOf(r, p) == {HostRoute(r.row[p].addr)} \cup r.row[p].routes

StaticRoutes(r, s, links) ==
  Dev(AdvertisedBy(r, PlainPeers(r, s)), s) \cup UNION {Dev(StaticRoutesOf(r, p), p) : p \in ExitNodes(r, s, links)}

\* The connected route that the Address of the interface brings.
Connected(r, s) == Dev({r.srv[s].range}, s)

\* Without `Table = off` wg-quick routes the peers that the connected route does not cover, at the
\* next start of the interface.
QuickRoutes(r, s) ==
  IF AdvertisedBy(r, PlainPeers(r, s)) # {} THEN {}
  ELSE Dev({HostRoute(a) : a \in AddrOf(r, PlainPeers(r, s)) \ Block(r.srv[s].range)}, s)

MainTable(r, links) ==
  Dev({DefaultRoute}, Uplink) \cup UNION {Connected(r, s) \cup StaticRoutes(r, s, links) : s \in r.servers}

\* Mutant: the table of an exit node is its default and the range, without the routes of the interfaces.
PolicyTable_NoStatic(r, g, links) == Dev({DefaultRoute}, g) \cup Connected(r, r.row[g].home)
PolicyTable(r, g, links) ==
  Dev({DefaultRoute}, g) \cup Connected(r, r.row[g].home) \cup StaticRoutes(r, r.row[g].home, links)

\* One rule per client, by address; which of two rules for one address comes first is left open.
RuledInto(r, src, links) == {g \in links : src \in AddrOf(r, ExitClients(r, g))}

LongestMatch(table, dst) ==
  LET hits == {x \in table : CidrContains(x.cidr, dst)}
  IN {x.dev : x \in {h \in hits : \A k \in hits : h.cidr.size <= k.cidr.size}}

HubAddrs(r) == {r.srv[s].addr : s \in r.servers}

\* The tables that may decide about a packet with this source.
TablesFor(r, links, src) ==
  LET main == MainTable(r, links)
  IN IF RuledInto(r, src, links) # {} THEN {PolicyTable(r, g, links) : g \in RuledInto(r, src, links)}
     ELSE {main, main \cup UNION {QuickRoutes(r, s) : s \in r.servers}}

\* The interfaces by which it may leave: the local table comes before any rule.
Oifs(r, tables, dst) ==
  IF dst \in HubAddrs(r) THEN {Loopback} ELSE UNION {LongestMatch(t, dst) : t \in tables}

\* Where routes left in its table may lead a client: the interfaces an earlier pass may have named.
Leftovers(r, links, src) ==
  UNION {{r.row[g].home} \cup ExitNodes(r, r.row[g].home, links) : g \in RuledInto(r, src, links)}

(***************************************************************************)
(* buildServerConfig, generateExitLinkConfig: who is on an interface, with *)
(* which AllowedIPs.                                                       *)
(***************************************************************************)
MembersOf(r, dev, links) == IF dev \in Gateway THEN {dev} \cap links ELSE PlainPeers(r, dev)

AllowedIps(r, p) == StaticRoutesOf(r, p) \cup (IF p \in Gateway THEN {DefaultRoute} ELSE {})

Recipients(r, dev, dst, links) ==
  LongestMatch(UNION {Dev(AllowedIps(r, p), p) : p \in MembersOf(r, dev, links)}, dst)

(***************************************************************************)
(* For the property of Firewall.                                           *)
(***************************************************************************)
\* Prefixes do not collide: what the checks of peers see to, and what nothing sees to when a range
\* is written or a POST is overtaken.  A range of 0.0.0.0/0 collides with everything.
PrefixesApart(r) ==
  /\ \A s \in r.servers : r.srv[s].range.size # Space
  /\ \A s \in r.servers : AddrOf(r, PeersOf(r, s)) \subseteq Block(r.srv[s].range)
  /\ \A s, t \in r.servers : s # t => ~CidrsOverlap(r.srv[s].range, r.srv[t].range)
  /\ \A s \in r.servers, p \in r.live : \A c \in r.row[p].routes : ~CidrsOverlap(c, r.srv[s].range)
  /\ \A p, q \in r.live : p # q => \A c \in r.row[p].routes, d \in r.row[q].routes : ~CidrsOverlap(c, d)

\* The peers of the sender's server that own a destination.
Owners(r, s, dst) == {q \in PeersOf(r, s) : \E c \in StaticRoutesOf(r, q) : CidrContains(c, dst)}

=============================================================================
