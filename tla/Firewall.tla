------------------------------ MODULE Firewall ------------------------------
(***************************************************************************)
(* What is derived from the policy tables (db/policyGraph.ts,              *)
(* wg/firewall.ts): the nftables ruleset, the AllowedIPs of a client and   *)
(* the exported document.  Everything is an operator over rows r and the   *)
(* exit nodes whose link is provisioned, links; the properties quantify    *)
(* over both.                                                              *)
(*                                                                         *)
(* A rule is the sets of source and destination addresses, outgoing        *)
(* interfaces and protocols that it matches, and its verdict.              *)
(***************************************************************************)
EXTENDS Routing, SequencesExt

CONSTANTS
  L4,          \* [protocol, port] of the packets looked at
  Internet     \* an address outside of everything

\* The names of the interfaces differ.
ASSUME InterfacesOK ==
  /\ ({Uplink, Loopback} \cup Server) \cap Gateway = {}
  /\ Uplink \notin Server /\ Uplink # Loopback

\* The addresses of a request are addresses (IPv4), and Internet is outside of its prefixes.
Outside(c) == BroadcastAddress(c) < Space /\ ~CidrContains(c, Internet)

ASSUME AddressesOK ==
  /\ Internet \in Ip
  /\ \A i \in DOMAIN PeerWrites :
       /\ Given(PeerWrites[i].addr) => PeerWrites[i].addr \in Ip
       /\ Given(PeerWrites[i].routes) => \A j \in DOMAIN PeerWrites[i].routes : Outside(PeerWrites[i].routes[j])
  /\ \A i \in DOMAIN ServerWrites :
       /\ Given(ServerWrites[i].addr) => ServerWrites[i].addr \in Ip
       /\ Given(ServerWrites[i].range) => Outside(ServerWrites[i].range)

(***************************************************************************)
(* The projection (policyGraphOf, toFirewallServer).                       *)
(***************************************************************************)
ServerExitClients(r, s) == IF r.srv[s].offers THEN {p \in PeersOf(r, s) : r.row[p].viaServer} ELSE {}

Members(r, id) ==
  UNION {{p \in PeersOf(r, t.home) : <<p, id>> \in r.assigned} : t \in {u \in r.tags : u.id = id}}

RefPeers(r, s, ref) ==
  CASE ref.kind = "tag" -> Members(r, ref.of)
    [] ref.kind = "peer" -> {ref.of} \cap PeersOf(r, s)
    [] OTHER -> {}

Enabled(r, s) == {i \in GrantsOf(r, s) : r.grants[s][i].enabled}

Governed(r, s) ==
  {p \in PeersOf(r, s) :
     \/ TagIdsOfPeer(r, p) \cap TagIdsOf(r, s) # {}
     \/ \E i \in Enabled(r, s) : Names(r.grants[s][i].src, "peer", p)}

(***************************************************************************)
(* The chains of a server (emitRuleset).                                   *)
(***************************************************************************)
NoRule == [src |-> {}, dst |-> {}, oif |-> {}, l4 |-> {}, verdict |-> "drop"]

RenderDst(r, s, ref) ==
  CASE ref.kind = "cidr" -> Block(ref.of) \cap Ip
    [] ref.kind \in {"server", "any"} -> Ip
    [] OTHER -> AddrOf(r, RefPeers(r, s, ref))

RenderL4(g) ==
  {x \in L4 : g.protocol # "any" =>
     x.protocol = g.protocol /\ (g.ports = {} \/ \E e \in g.ports : e[1] <= x.port /\ x.port <= e[2])}

RenderGrantRule(r, s, i, kinds) ==
  LET g == r.grants[s][i]
  IN IF i \in Enabled(r, s) /\ g.dst.kind \in kinds
     THEN [src |-> AddrOf(r, RefPeers(r, s, g.src)), dst |-> RenderDst(r, s, g.dst), oif |-> Oif,
           l4 |-> RenderL4(g), verdict |-> IF g.action = "allow" THEN "accept" ELSE "drop"]
     ELSE NoRule

GrantRules(r, s, kinds) == [i \in Position |-> RenderGrantRule(r, s, i, kinds)]

\* Mutant: only the range of the server is excluded.
Excluded_Range(r, s) == Block(r.srv[s].range)
Excluded(r, s) == Block(r.srv[s].range) \cup UNION {Block(c) : c \in AdvertisedRoutes(r, s)}

ExitRule(r, s, p) ==
  [src |-> AddrOf(r, ExitClients(r, p)), dst |-> Ip \ Excluded(r, s), oif |-> {p}, l4 |-> L4, verdict |-> "accept"]

ServerExitRule(r, s) ==
  [src |-> AddrOf(r, ServerExitClients(r, s)), dst |-> Ip, oif |-> {Uplink}, l4 |-> L4, verdict |-> "accept"]

DefaultDeny(r, s) ==
  [src |-> AddrOf(r, Governed(r, s)), dst |-> Ip, oif |-> Oif, l4 |-> L4, verdict |-> "drop"]

ForwardChain(r, s, links) ==
  GrantRules(r, s, {"tag", "peer", "cidr", "any"})
    \o SetToSeq({ExitRule(r, s, p) : p \in ExitNodes(r, s, links)})
    \o <<ServerExitRule(r, s), DefaultDeny(r, s)>>

InputChain(r, s) == GrantRules(r, s, {"server", "any"}) \o <<DefaultDeny(r, s)>>

\* Nothing to enforce: no chain is emitted for the server.
Enforces(r, s, links) ==
  \/ TagsOf(r, s) # {} \/ Enabled(r, s) # {} \/ ServerExitClients(r, s) # {}
  \/ \E p \in ExitNodes(r, s, links) : ExitClients(r, p) # {}

\* buildRuleset: the chains of each server and the addresses of its sets that the hooks look at.
BuildRuleset(r, links) ==
  [s \in r.servers |->
     IF Enforces(r, s, links)
     THEN [governed |-> AddrOf(r, Governed(r, s)), uplink |-> AddrOf(r, ServerExitClients(r, s)),
           forward |-> ForwardChain(r, s, links), input |-> InputChain(r, s)]
     ELSE [governed |-> {}, uplink |-> {}, forward |-> <<>>, input |-> <<>>]]

FirstMatch(chain, pkt) ==
  LET hits == {i \in DOMAIN chain : /\ pkt.src \in chain[i].src /\ pkt.dst \in chain[i].dst
                                    /\ pkt.oif \in chain[i].oif /\ pkt.l4 \in chain[i].l4}
  IN IF hits = {} THEN "accept" ELSE chain[CHOOSE i \in hits : \A j \in hits : i <= j].verdict

(***************************************************************************)
(* A packet of a peer: its address, where it goes and the interface the    *)
(* routes of the host send it through.                                     *)
(***************************************************************************)
Senders(r, links) == r.live \ (Gateway \ links)

Destinations(r) ==
  HubAddrs(r) \cup AddrOf(r, r.live) \cup {Internet} \cup {NetworkAddress(c) : c \in AdvertisedBy(r, r.live)}

PacketsOf(r, links, p) ==
  LET tables == TablesFor(r, links, r.row[p].addr)
      leftovers == Leftovers(r, links, r.row[p].addr)
      Ways(d) == Oifs(r, tables, d) \cup (IF d \in HubAddrs(r) THEN {} ELSE leftovers)
  IN UNION {{[from |-> p, src |-> r.row[p].addr, dst |-> d, oif |-> o, l4 |-> x] :
               o \in Ways(d), x \in L4} : d \in Destinations(r)}

Packets(r, links) == UNION {PacketsOf(r, links, p) : p \in Senders(r, links)}

\* The postrouting chain is one for the host: it looks at the address and at no incoming interface.
Masquerades(ruleset, r, pkt) == pkt.oif = Uplink /\ \E s \in r.servers : pkt.src \in ruleset[s].uplink

\* What the hooks do with it: drop, accept, or accept with the source address of the host.
Verdict(ruleset, r, pkt) ==
  LET own == ruleset[r.row[pkt.from].home]
      forwarded == FirstMatch(own.forward, pkt)
  IN IF pkt.dst \in HubAddrs(r)
     THEN IF pkt.src \in own.governed THEN FirstMatch(own.input, pkt) ELSE "accept"
     ELSE IF forwarded = "accept" /\ Masquerades(ruleset, r, pkt) THEN "masquerade" ELSE forwarded

(***************************************************************************)
(* The other projections: AllowedIPs and the exported document.            *)
(***************************************************************************)
Applicable(r, p) ==
  {i \in Enabled(r, r.row[p].home) :
     LET g == r.grants[r.row[p].home][i]
     IN g.action = "allow" /\ (Names(g.src, "peer", p) \/ (g.src.kind = "tag" /\ <<p, g.src.of>> \in r.assigned))}

\* Mutant: a grant to any names nothing.
Reachable_Cidrs(r, p) ==
  {r.grants[r.row[p].home][i].dst.of : i \in {j \in Applicable(r, p) : r.grants[r.row[p].home][j].dst.kind = "cidr"}}
Reachable(r, p) ==
  LET s == r.row[p].home
      dst == {r.grants[s][i].dst : i \in {j \in Applicable(r, p) : r.grants[s][j].dst.kind = "cidr"}}
  IN {d.of : d \in dst} \cup
     (IF \E i \in Applicable(r, p) : r.grants[s][i].dst.kind = "any" THEN AdvertisedRoutes(r, s) ELSE {})

AllowedIpsForPeer(r, p) == {r.srv[r.row[p].home].range} \cup (Reachable(r, p) \ r.row[p].routes)

NameOf(r, s, id) ==
  LET named == {t \in TagsOf(r, s) : t.id = id}
  IN IF named = {} THEN Null ELSE (CHOOSE t \in named : TRUE).name

\* Mutant: the grants of the document are all enabled.
DocGrant_Enabled(r, s, g) ==
  [g EXCEPT !.enabled = TRUE,
            !.src = IF @.kind = "tag" THEN Ref("tag", NameOf(r, s, @.of)) ELSE @,
            !.dst = IF @.kind = "tag" THEN Ref("tag", NameOf(r, s, @.of)) ELSE @]
DocGrant(r, s, g) ==
  [g EXCEPT !.src = IF @.kind = "tag" THEN Ref("tag", NameOf(r, s, @.of)) ELSE @,
            !.dst = IF @.kind = "tag" THEN Ref("tag", NameOf(r, s, @.of)) ELSE @]

DocTags(r, s, p) == {NameOf(r, s, id) : id \in TagIdsOfPeer(r, p)} \ {Null}

ToPolicyDocument(r, s) ==
  LET list == SelectSeq(r.grants[s], IsGrant)
  IN [tags |-> SetToSeq({t.name : t \in TagsOf(r, s)}),
      grants |-> [i \in DOMAIN list |-> DocGrant(r, s, list[i])],
      peerTags |-> SetToSeq({[peer |-> p, tags |-> SetToSeq(DocTags(r, s, p))] :
                              p \in {q \in PeersOf(r, s) : DocTags(r, s, q) # {}}})]

(***************************************************************************)
(* The policy as its rules state it (wg/firewall.ts 9-16, 45-49, 228-235,  *)
(* 269-271): by peers and tags, not by addresses and sets.                 *)
(***************************************************************************)
Covers(r, s, ref, p) ==
  \/ Names(ref, "peer", p)
  \/ ref.kind = "tag" /\ <<p, ref.of>> \in r.assigned /\ ref.of \in TagIdsOf(r, s)

Reaches(r, s, ref, dst) ==
  IF dst \in HubAddrs(r) THEN ref.kind \in {"server", "any"}
  ELSE \/ ref.kind = "any"
       \/ ref.kind = "cidr" /\ CidrContains(ref.of, dst)
       \/ \E q \in PeersOf(r, s) : r.row[q].addr = dst /\ Covers(r, s, ref, q)

Deciding(r, s, pkt) ==
  LET decides == {i \in Enabled(r, s) : LET g == r.grants[s][i]
                                        IN Covers(r, s, g.src, pkt.from) /\ Reaches(r, s, g.dst, pkt.dst)
                                           /\ pkt.l4 \in RenderL4(g)}
  IN {i \in decides : \A j \in decides : i <= j}

InternetBound(r, s, pkt) ==
  \A c \in {r.srv[s].range} \cup AdvertisedRoutes(r, s) : ~CidrContains(c, pkt.dst)

OnUplink(r, s, pkt) == pkt.oif = Uplink /\ r.row[pkt.from].viaServer /\ r.srv[s].offers

\* It leaves by the uplink with an address that belongs to a client of another server's uplink too.
AddressOfAnotherClient(r, pkt) ==
  /\ pkt.oif = Uplink
  /\ \E s \in r.servers \ {r.row[pkt.from].home} : \E q \in PeersOf(r, s) :
       r.row[q].addr = pkt.src /\ r.row[q].viaServer /\ r.srv[s].offers

\* The exit the sender chose, if it is the way this packet takes.
ThroughChosenExit(r, s, pkt) ==
  \/ pkt.oif \in Gateway /\ pkt.oif = r.row[pkt.from].via /\ InternetBound(r, s, pkt)
  \/ OnUplink(r, s, pkt)

PolicyVerdict(r, pkt) ==
  LET s == r.row[pkt.from].home
      governed == \/ \E t \in TagsOf(r, s) : <<pkt.from, t.id>> \in r.assigned
                  \/ \E i \in Enabled(r, s) : Names(r.grants[s][i].src, "peer", pkt.from)
      allowed == IF Deciding(r, s, pkt) # {}
                 THEN \A i \in Deciding(r, s, pkt) : r.grants[s][i].action = "allow"
                 ELSE governed => ThroughChosenExit(r, s, pkt)
  IN IF allowed THEN IF OnUplink(r, s, pkt) THEN "masquerade" ELSE "accept" ELSE "drop"

(***************************************************************************)
(* Properties.                                                             *)
(***************************************************************************)
\* The ruleset decides every packet as the policy does: the first grant that covers it, then the
\* exit its sender chose, then the default deny of a governed sender; and it lends the address of
\* the host to the clients of an uplink, and beside them only to a peer that an overlap of ranges
\* has given the address of one on another server (wg/firewall.ts emitRuleset).
RulesetMatchesPolicy ==
  \A links \in SUBSET (Gateway \cap live) :
    LET ruleset == BuildRuleset(Rows, links)
    IN \A pkt \in Packets(Rows, links) :
         \/ Verdict(ruleset, Rows, pkt) = PolicyVerdict(Rows, pkt)
         \/ /\ AddressOfAnotherClient(Rows, pkt) /\ PolicyVerdict(Rows, pkt) = "accept"
            /\ Verdict(ruleset, Rows, pkt) = "masquerade"

\* Where no route of an earlier pass is in the way, a packet to the address or the LAN of a peer of
\* the same server is encrypted for that peer and no other, whether the main table or the table of an exit node led it; one bound for the internet goes
\* to the exit node its sender chose, or to the uplink (wg/exitRouting.ts, wg/config.ts).
PacketsReachOwner ==
  PrefixesApart(Rows) =>
  \A links \in SUBSET (Gateway \cap live) : \A p \in Senders(Rows, links) :
    LET tables == TablesFor(Rows, links, row[p].addr)
        exit == {row[p].via} \cap links
    IN \A d \in Destinations(Rows) \ HubAddrs(Rows) : \A oif \in Oifs(Rows, tables, d) :
         LET owners == Owners(Rows, row[p].home, d)
         IN /\ owners # {} /\ owners \cap Gateway \subseteq links => Recipients(Rows, oif, d, links) = owners
            /\ d = Internet => IF exit # {} THEN Recipients(Rows, oif, d, links) = exit ELSE oif = Uplink

\* A LAN of the server that a grant opens to a peer, by a prefix or with everything else, is in the
\* AllowedIPs of its config, unless it is behind the peer itself (db/policyGraph.ts allowedIpsForPeer).
HintCoversGrants ==
  \A pkt \in Packets(Rows, Gateway) :
    LET p == pkt.from
        s == row[p].home
    IN (/\ \E c \in AdvertisedRoutes(Rows, s) : CidrContains(c, pkt.dst)
        /\ \A c \in row[p].routes : ~CidrContains(c, pkt.dst)
        /\ \E i \in Deciding(Rows, s, pkt) : grants[s][i].action = "allow" /\ grants[s][i].dst.kind \in {"cidr", "any"})
       => \E c \in AllowedIpsForPeer(Rows, p) : CidrContains(c, pkt.dst)

\* An exported document is accepted by the import, which then changes the verdict of no packet
\* (GET and PUT policy).
ExportImportKeepsPolicy ==
  \A s \in servers :
    LET doc == ToPolicyDocument(Rows, s)
        imported == [Rows EXCEPT !.tags = ImportedTags(s, doc), !.assigned = ImportedAssigned(s, doc),
                                 !.grants = ImportedGrants(s, doc)]
        before == BuildRuleset(Rows, Gateway)
        after == BuildRuleset(imported, Gateway)
    IN /\ DocumentOK(s, doc)
       /\ \A pkt \in {x \in Packets(Rows, Gateway) : row[x.from].home = s} :
            Verdict(after, imported, pkt) = Verdict(before, Rows, pkt)

=============================================================================
