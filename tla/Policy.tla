------------------------------- MODULE Policy -------------------------------
(***************************************************************************)
(* The policy tables and the handlers that write them: tags, assignments,  *)
(* ordered grants (api/policy.ts), the columns of the peers that policy    *)
(* and routing read (api/serversPeers.ts, wg/peerIntake.ts) and the ranges *)
(* of the servers (api/servers.ts).  The roles and links of exit nodes are *)
(* ExitLinks's: here a peer of Gateway is one, for as long as it lives.    *)
(*                                                                         *)
(* The database is synchronous, so a handler is one step between two waits *)
(* on the outside: the keys of POST /peers and the teardown of DELETE.     *)
(***************************************************************************)
EXTENDS Addressing

CONSTANTS
  Peer,          \* ids a row may ever get; a deleted id never comes back
  Gateway,       \* those of exit nodes
  Server,
  Name,          \* names of tags
  Handler,       \* POST /peers requests in flight at once
  Null, Keep,    \* a null column; a field that a PATCH or POST leaves out
  Space,         \* number of addresses: the size of the default route
  MaxGrants,     \* bound: grants in one list
  MaxOps,        \* bound: requests
  PeerWrites,    \* the requests, each a sequence of bodies:
  ServerWrites,  \*   POST and PATCH of peers and servers,
  GrantLists,    \*   PUT grants, tags given by name
  Documents      \*   and PUT policy

Position == 1..MaxGrants

TagId == Nat \X Name

SrcKind == {"tag", "peer"}
DstKind == {"tag", "peer", "cidr", "server", "any"}

Given(x) == x # Keep

\* A reference of a body names a tag by its name.
RefBody(ref, kinds) == ref.kind \in kinds /\ (ref.kind = "tag" => ref.of \in Name) /\ (ref.kind = "peer" => ref.of \in Peer)
GrantBody(g) == RefBody(g.src, SrcKind) /\ RefBody(g.dst, DstKind)

ASSUME ConstantsOK ==
  /\ Gateway \subseteq Peer
  /\ Null \notin Peer \cup TagId /\ Keep \notin Peer \cup {Null} \cup Nat \cup BOOLEAN \cup Cidr
  /\ MaxGrants \in Nat /\ Space \in Nat \ {0}

\* What the schemas of the bodies let through.
ASSUME RequestsOK ==
  /\ \A i \in DOMAIN PeerWrites : LET q == PeerWrites[i] IN
       /\ q.addr \in Nat \cup {Keep} /\ q.via \in Peer \cup {Null, Keep}
       /\ q.viaServer \in BOOLEAN \cup {Keep} /\ q.exit \in BOOLEAN
       /\ Given(q.routes) => \A j \in DOMAIN q.routes : q.routes[j] \in Cidr
       /\ Given(q.tags) => \A j \in DOMAIN q.tags : q.tags[j] \in Name
  /\ \A i \in DOMAIN ServerWrites : LET q == ServerWrites[i] IN
       q.range \in Cidr \cup {Keep} /\ q.addr \in Nat \cup {Keep} /\ q.reserved \in Nat \cup {Keep}
  /\ \A i \in DOMAIN GrantLists : \A j \in DOMAIN GrantLists[i] : GrantBody(GrantLists[i][j])
  /\ \A i \in DOMAIN Documents :
       /\ \A j \in DOMAIN Documents[i].grants : GrantBody(Documents[i].grants[j])
       /\ \A j \in DOMAIN Documents[i].tags : Documents[i].tags[j] \in Name
       /\ \A j \in DOMAIN Documents[i].peerTags : Documents[i].peerTags[j].peer \in Peer

(***************************************************************************)
(* Rows.  An assignment is a pair <<peer, tag id>>, unique in its table.   *)
(***************************************************************************)
VARIABLES
  servers, srv,     \* servers: range, own address, reserved ips, uplink
  live, fresh, row, \* peers: server, address, routes, the two exit columns
  tags, assigned, grants,
  post,             \* what a POST /peers resolved before its keys were made
  deleting,         \* exit nodes whose DELETE waits for the teardown
  overtaken,        \* peers whose POST wrote what its check would now refuse (history)
  serial, ops

rowVars == <<servers, srv, live, fresh, row, tags, assigned, grants>>
vars == <<rowVars, post, deleting, overtaken, serial, ops>>

Rows == [servers |-> servers, srv |-> srv, live |-> live, row |-> row,
         tags |-> tags, assigned |-> assigned, grants |-> grants]

ServerRow == [range : Cidr, addr : Nat, reserved : Nat, offers : BOOLEAN]
PeerRow == [home : Server, addr : Nat, routes : SUBSET Cidr, via : Peer \cup {Null}, viaServer : BOOLEAN]

Tag == [id : TagId, home : Server, name : Name]

NoGrant == [enabled |-> FALSE]
IsGrant(g) == g # NoGrant
Ref(kind, of) == [kind |-> kind, of |-> of]

PeersOf(r, s) == {p \in r.live : r.row[p].home = s}
TagsOf(r, s) == {t \in r.tags : t.home = s}
TagIdsOf(r, s) == {t.id : t \in TagsOf(r, s)}
TagIdsOfPeer(r, p) == {a[2] : a \in {x \in r.assigned : x[1] = p}}
GrantsOf(r, s) == {i \in Position : IsGrant(r.grants[s][i])}

\* The id a client knows a name by, or one that no tag has.
IdOf(s, name) ==
  LET named == {t \in TagsOf(Rows, s) : t.name = name}
  IN IF named = {} THEN Null ELSE (CHOOSE t \in named : TRUE).id

Step == ops < MaxOps /\ ops' = ops + 1

(***************************************************************************)
(* lib/grantInvariants.ts                                                  *)
(***************************************************************************)
MAX_PORT_ENTRIES == 32

CheckRef(ref, tagIds, peerIds) ==
  CASE ref.kind = "tag" -> ref.of \in tagIds
    [] ref.kind = "peer" -> ref.of \in peerIds
    [] OTHER -> TRUE

\* ports is a set of ranges <<lo, hi>>; a single port is a range of one.
CheckGrantPorts(protocol, ports) ==
  ports # {} => /\ protocol \in {"tcp", "udp"}
                /\ Cardinality(ports) <= MAX_PORT_ENTRIES
                /\ \A e \in ports : 1 <= e[1] /\ e[1] <= e[2] /\ e[2] <= 65535

CheckGrantInvariants(g, tagIds, peerIds) ==
  /\ CheckRef(g.src, tagIds, peerIds) /\ CheckRef(g.dst, tagIds, peerIds)
  /\ CheckGrantPorts(g.protocol, g.ports)

Placed(list) == [i \in Position |-> IF i \in DOMAIN list THEN list[i] ELSE NoGrant]

\* The list with the id of each tag in the place of its name.
Resolve(list, id) ==
  LET Resolved(ref) == IF ref.kind = "tag" THEN Ref("tag", id[ref.of]) ELSE ref
  IN [i \in DOMAIN list |->
       [enabled |-> list[i].enabled, action |-> list[i].action, src |-> Resolved(list[i].src),
        dst |-> Resolved(list[i].dst), protocol |-> list[i].protocol, ports |-> list[i].ports]]

\* The lists of grants once every grant that names ref is deleted.
Names(ref, kind, of) == ref.kind = kind /\ ref.of = of

\* Mutant: only the sources are looked at.
GrantsWithout_Sources(kind, of) ==
  [s \in Server |-> [i \in Position |->
    LET g == grants[s][i] IN IF IsGrant(g) /\ Names(g.src, kind, of) THEN NoGrant ELSE g]]
GrantsWithout(kind, of) ==
  [s \in Server |-> [i \in Position |->
    LET g == grants[s][i]
    IN IF IsGrant(g) /\ (Names(g.src, kind, of) \/ Names(g.dst, kind, of)) THEN NoGrant ELSE g]]

(***************************************************************************)
(* Tags.                                                                   *)
(***************************************************************************)
NameFree(s, name, id) == \A t \in TagsOf(Rows, s) : t.id # id => t.name # name

PostTag(s, name) ==
  /\ Step
  /\ s \in servers
  /\ NameFree(s, name, Null)
  /\ tags' = tags \cup {[id |-> <<serial, name>>, home |-> s, name |-> name]}
  /\ serial' = serial + 1
  /\ UNCHANGED <<servers, srv, live, fresh, row, assigned, grants, post, deleting, overtaken>>

PatchTag(t, name) ==
  /\ Step
  /\ NameFree(t.home, name, t.id)
  /\ tags' = (tags \ {t}) \cup {[t EXCEPT !.name = name]}
  /\ UNCHANGED <<servers, srv, live, fresh, row, assigned, grants, post, deleting, overtaken, serial>>

DeleteTag(t) ==
  /\ Step
  /\ tags' = tags \ {t}
  /\ assigned' = {a \in assigned : a[2] # t.id}
  /\ grants' = GrantsWithout("tag", t.id)
  /\ UNCHANGED <<servers, srv, live, fresh, row, post, deleting, overtaken, serial>>

PutGrants(s, list) ==
  LET body == Resolve(list, [name \in Name |-> IdOf(s, name)])
  IN /\ Step
     /\ s \in servers
     /\ \A i \in DOMAIN body : CheckGrantInvariants(body[i], TagIdsOf(Rows, s), PeersOf(Rows, s))
     /\ grants' = [grants EXCEPT ![s] = Placed(body)]
     /\ UNCHANGED <<servers, srv, live, fresh, row, tags, assigned, post, deleting, overtaken, serial>>

(***************************************************************************)
(* PUT policy replaces the tags, the assignments and the grants of a       *)
(* server.  A document names tags; they get new ids.                       *)
(***************************************************************************)
Elements(seq) == {seq[i] : i \in DOMAIN seq}
Distinct(seq) == \A i, j \in DOMAIN seq : seq[i] = seq[j] => i = j

\* An assignment of the document: peer entry i, its tag k.
Entries(doc) == UNION {{i} \X DOMAIN doc.peerTags[i].tags : i \in DOMAIN doc.peerTags}
Entry(doc, e) == <<doc.peerTags[e[1]].peer, doc.peerTags[e[1]].tags[e[2]]>>

DocumentOK(s, doc) ==
  /\ Distinct(doc.tags)
  /\ \A i \in DOMAIN doc.peerTags :
       /\ doc.peerTags[i].peer \in PeersOf(Rows, s)
       /\ Elements(doc.peerTags[i].tags) \subseteq Elements(doc.tags)
  /\ \A i \in DOMAIN doc.grants :
       CheckGrantInvariants(doc.grants[i], Elements(doc.tags), PeersOf(Rows, s))
  \* The table refuses a pair given twice and the transaction is rolled back.
  /\ \A d, e \in Entries(doc) : Entry(doc, d) = Entry(doc, e) => d = e

NewId(name) == <<serial, name>>

ImportedTags(s, doc) ==
  (tags \ TagsOf(Rows, s)) \cup {[id |-> NewId(n), home |-> s, name |-> n] : n \in Elements(doc.tags)}

\* Mutant: the assignments of before are left in place.
ImportedAssigned_Kept(s, doc) ==
  assigned \cup {<<Entry(doc, e)[1], NewId(Entry(doc, e)[2])>> : e \in Entries(doc)}
ImportedAssigned(s, doc) ==
  {a \in assigned : a[1] \notin PeersOf(Rows, s)}
    \cup {<<Entry(doc, e)[1], NewId(Entry(doc, e)[2])>> : e \in Entries(doc)}

ImportedGrants(s, doc) ==
  [grants EXCEPT ![s] = Placed(Resolve(doc.grants, [n \in Name |-> NewId(n)]))]

PutPolicy(s, doc) ==
  /\ Step
  /\ s \in servers
  /\ DocumentOK(s, doc)
  /\ tags' = ImportedTags(s, doc)
  /\ assigned' = ImportedAssigned(s, doc)
  /\ grants' = ImportedGrants(s, doc)
  /\ serial' = serial + 1
  /\ UNCHANGED <<servers, srv, live, fresh, row, post, deleting, overtaken>>

(***************************************************************************)
(* resolvePeerWrite: the rows a write of peer p (Null creates one) may     *)
(* leave behind; none when it is refused.                                  *)
(***************************************************************************)
Blank(s) == [home |-> s, addr |-> 0, routes |-> {}, via |-> Null, viaServer |-> FALSE]
Ask(field, current) == IF Given(field) THEN field ELSE current

ResolvedAddress(s, p, q) ==
  LET taken == {row[o].addr : o \in PeersOf(Rows, s) \ {p}} \cup {srv[s].addr}
  IN CASE Given(q.addr) -> RequestedAddress(srv[s].range, taken, q.addr)
       [] ~Given(q.addr) /\ p = Null -> AllocatedAddress(srv[s].range, srv[s].reserved, taken)
       [] OTHER -> {row[p].addr}

\* Mutant: only the routes of the peers of the same server are looked at.
Reserved_OwnServer(s, p) == UNION {row[o].routes : o \in PeersOf(Rows, s) \ {p}}
Reserved(s, p) ==
  {srv[o].range : o \in servers \ {s}} \cup UNION {row[o].routes : o \in live \ {p}}

\* Mutant: the two arms of the choice are not compared.
OneExit_Node(exit, r) == exit => r.via = Null /\ ~r.viaServer
OneExit(exit, r) == /\ exit => r.via = Null /\ ~r.viaServer
                    /\ ~(r.viaServer /\ r.via # Null)

CheckPeerInvariants(s, p, q, exit, next) ==
  /\ Given(q.tags) => \A name \in Elements(q.tags) : IdOf(s, name) # Null
  /\ OneExit(exit, next)
  /\ next.viaServer => srv[s].offers
  /\ Given(q.via) /\ q.via # Null => q.via \in (PeersOf(Rows, s) \cap Gateway) \ {p}

ResolvePeerWrite(s, p, q, exit) ==
  LET current == IF p = Null THEN Blank(s) ELSE row[p]
      Next_(addr) == [home |-> s, addr |-> addr,
                      routes |-> IF Given(q.routes) THEN ResolvedRoutes(q.routes) ELSE current.routes,
                      via |-> Ask(q.via, current.via),
                      viaServer |-> Ask(q.viaServer, current.viaServer)]
  IN {next \in {Next_(addr) : addr \in ResolvedAddress(s, p, q)} :
        /\ CheckPeerInvariants(s, p, q, exit, next)
        /\ Given(q.routes) => RoutesAccepted(q.routes, srv[s].range, Reserved(s, p), Space)}

TagIdsAsked(s, q) == IF Given(q.tags) THEN [i \in DOMAIN q.tags |-> IdOf(s, q.tags[i])] ELSE Keep

\* setPeerTags: a transaction; one tag named twice breaks UNIQUE and rolls it back.
SetPeerTags(p, ids) ==
  IF Distinct(ids) THEN {a \in assigned : a[1] # p} \cup {<<p, id>> : id \in Elements(ids)} ELSE assigned

(***************************************************************************)
(* Peers.                                                                  *)
(***************************************************************************)
NoPost == [pc |-> "idle"]

PostCheck(h, s, q) ==
  /\ Step
  /\ s \in servers
  /\ post[h] = NoPost
  /\ \E r \in ResolvePeerWrite(s, Null, q, q.exit) :
       post' = [post EXCEPT ![h] = [pc |-> "keys", row |-> r, exit |-> q.exit, tags |-> TagIdsAsked(s, q)]]
  /\ UNCHANGED <<rowVars, deleting, overtaken, serial>>

\* Mutant: UNIQUE(serverPeerId, wgAddress) is not there.
AddressFree_Always(s, addr) == TRUE
AddressFree(s, addr) == \A o \in PeersOf(Rows, s) : row[o].addr # addr

StillAccepted(new) ==
  /\ Given(new.tags) => Elements(new.tags) \subseteq TagIdsOf(Rows, new.row.home)
  /\ \A o \in live : \A c \in row[o].routes, d \in new.row.routes : ~CidrsOverlap(c, d)

\* The insert.  It is not reached when wg genkey, pubkey or genpsk fails, and it throws when the
\* address was taken meanwhile; the tags are written as they were asked.
PostInsert(h) ==
  LET new == post[h]
  IN /\ new # NoPost
     /\ post' = [post EXCEPT ![h] = NoPost]
     /\ \/ UNCHANGED <<live, fresh, row, assigned, overtaken>>
        \/ /\ AddressFree(new.row.home, new.row.addr)
           /\ \E p \in fresh :
                /\ new.exit <=> p \in Gateway
                /\ live' = live \cup {p}
                /\ fresh' = fresh \ {p}
                /\ row' = [row EXCEPT ![p] = new.row]
                /\ assigned' = IF Given(new.tags) THEN SetPeerTags(p, new.tags) ELSE assigned
                /\ overtaken' = overtaken \cup (IF StillAccepted(new) THEN {} ELSE {p})
     /\ UNCHANGED <<servers, srv, tags, grants, deleting, serial, ops>>

PatchPeer(p, q) ==
  /\ Step
  /\ p \in live
  /\ \E r \in ResolvePeerWrite(row[p].home, p, q, p \in Gateway) : row' = [row EXCEPT ![p] = r]
  /\ assigned' = IF Given(q.tags) THEN SetPeerTags(p, TagIdsAsked(row[p].home, q)) ELSE assigned
  /\ UNCHANGED <<servers, srv, live, fresh, tags, grants, post, deleting, overtaken, serial>>

RemovePeer(p) ==
  /\ live' = live \ {p}
  /\ row' = [o \in Peer |-> IF o \in live \ {p} /\ row[o].via = p THEN [row[o] EXCEPT !.via = Null] ELSE row[o]]
  /\ assigned' = {a \in assigned : a[1] # p}
  /\ grants' = GrantsWithout("peer", p)
  /\ UNCHANGED <<servers, srv, fresh, tags, post, overtaken, serial>>

\* A peer without a link of its own goes in one step.
DeletePeer(p) ==
  /\ Step
  /\ p \in live \ deleting
  /\ RemovePeer(p)
  /\ UNCHANGED deleting

DeleteLinked(p) ==
  /\ Step
  /\ p \in (live \cap Gateway) \ deleting
  /\ deleting' = deleting \cup {p}
  /\ UNCHANGED <<rowVars, post, overtaken, serial>>

DeleteCommit(p) ==
  /\ p \in deleting
  /\ deleting' = deleting \ {p}
  /\ RemovePeer(p)
  /\ UNCHANGED ops

(***************************************************************************)
(* Servers.  Nothing compares a range with the peers or the routes.        *)
(***************************************************************************)
WriteServer(s, q) ==
  LET next == [range |-> Ask(q.range, srv[s].range), addr |-> Ask(q.addr, srv[s].addr),
               reserved |-> Ask(q.reserved, srv[s].reserved), offers |-> srv[s].offers]
  IN /\ Step
     /\ CidrContains(next.range, next.addr)
     /\ srv' = [srv EXCEPT ![s] = next]

PatchServer(s, q) ==
  /\ s \in servers
  /\ WriteServer(s, q)
  /\ UNCHANGED <<servers, live, fresh, row, tags, assigned, grants, post, deleting, overtaken, serial>>

PostServer(s, q, offers) ==
  /\ s \notin servers
  /\ Step
  /\ Given(q.range) /\ Given(q.addr) /\ Given(q.reserved)
  /\ CidrContains(q.range, q.addr)
  /\ servers' = servers \cup {s}
  /\ srv' = [srv EXCEPT ![s] = [range |-> q.range, addr |-> q.addr, reserved |-> q.reserved, offers |-> offers]]
  /\ UNCHANGED <<live, fresh, row, tags, assigned, grants, post, deleting, overtaken, serial>>

(***************************************************************************)
(* The state after the first start: no rows at all.                        *)
(***************************************************************************)
Init ==
  /\ servers = {}
  /\ srv = [s \in Server |-> [range |-> [base |-> 0, size |-> 1], addr |-> 0, reserved |-> 0, offers |-> FALSE]]
  /\ live = {} /\ fresh = Peer
  /\ row \in [Peer -> {Blank(s) : s \in Server}]
  /\ tags = {} /\ assigned = {}
  /\ grants = [s \in Server |-> Placed(<<>>)]
  /\ post = [h \in Handler |-> NoPost]
  /\ deleting = {} /\ overtaken = {}
  /\ serial = 0 /\ ops = 0

Next ==
  \/ \E s \in Server, name \in Name : PostTag(s, name)
  \/ \E t \in tags, name \in Name : PatchTag(t, name)
  \/ \E t \in tags : DeleteTag(t)
  \/ \E s \in Server, i \in DOMAIN GrantLists : PutGrants(s, GrantLists[i])
  \/ \E s \in Server, i \in DOMAIN Documents : PutPolicy(s, Documents[i])
  \/ \E h \in Handler, s \in Server, i \in DOMAIN PeerWrites : PostCheck(h, s, PeerWrites[i])
  \/ \E h \in Handler : PostInsert(h)
  \/ \E p \in Peer, i \in DOMAIN PeerWrites : PatchPeer(p, PeerWrites[i])
  \/ \E p \in Peer : DeletePeer(p) \/ DeleteLinked(p) \/ DeleteCommit(p)
  \/ \E s \in Server, i \in DOMAIN ServerWrites :
       PatchServer(s, ServerWrites[i]) \/ \E offers \in BOOLEAN : PostServer(s, ServerWrites[i], offers)

Spec == Init /\ [][Next]_vars

(***************************************************************************)
(* Properties.                                                             *)
(***************************************************************************)
RefOK(ref, kinds) ==
  /\ ref.kind \in kinds
  /\ CASE ref.kind = "tag" -> ref.of \in TagId
       [] ref.kind = "peer" -> ref.of \in Peer
       [] OTHER -> TRUE

PostOK(new) == /\ new.row \in PeerRow /\ new.exit \in BOOLEAN
               /\ OneExit(new.exit, new.row)
               /\ Given(new.tags) => Elements(new.tags) \subseteq TagId

\* The types of the tables and of what is in flight, and the rule about the two exit columns of
\* peers, which no constraint of the table states (lib/peerInvariants.ts 88-103).
PolicyTypeOK ==
  /\ servers \subseteq Server /\ srv \in [Server -> ServerRow]
  /\ live \subseteq Peer /\ fresh \subseteq Peer \ live /\ row \in [Peer -> PeerRow]
  /\ \A p \in live : ~(row[p].via # Null /\ (row[p].viaServer \/ p \in Gateway))
  /\ \A p \in live \cap Gateway : ~row[p].viaServer
  /\ tags \subseteq Tag /\ assigned \subseteq Peer \X TagId
  /\ DOMAIN grants = Server
  /\ \A s \in Server : DOMAIN grants[s] = Position
  /\ \A s \in Server : \A i \in GrantsOf(Rows, s) :
       RefOK(grants[s][i].src, SrcKind) /\ RefOK(grants[s][i].dst, DstKind)
  /\ \A h \in Handler : post[h] # NoPost => PostOK(post[h])
  /\ deleting \subseteq Peer /\ overtaken \subseteq Peer
  /\ serial \in Nat /\ ops \in Nat

\* A grant never names a tag or a peer that is not on its server: the cascades are code, not
\* foreign keys, and a DELETE of an exit node runs its own only after the teardown, whatever grants
\* were put meanwhile (policyGrantsTable, DELETE of tags and peers, PUT grants and policy).
GrantsResolve ==
  \A s \in Server : \A i \in GrantsOf(Rows, s) :
    /\ CheckRef(grants[s][i].src, TagIdsOf(Rows, s), PeersOf(Rows, s))
    /\ CheckRef(grants[s][i].dst, TagIdsOf(Rows, s), PeersOf(Rows, s))

\* An assignment belongs to a live peer and to a tag of its server, after renames, deletions and
\* imports; only the rows of a POST that was overtaken may name a tag that is gone
\* (peerTagAssignmentsTable, setPeerTags).
AssignmentsResolve ==
  \A a \in assigned :
    /\ a[1] \in live
    /\ a[1] \notin overtaken => a[2] \in TagIdsOf(Rows, row[a[1]].home)

\* Two peers of a server never have one address, though a POST checks it long before it inserts
\* (peersTable UNIQUE(serverPeerId, wgAddress), resolvePeerAddress).
AddressesDistinct ==
  \A p, q \in live : p # q /\ row[p].home = row[q].home => row[p].addr # row[q].addr

\* No two peers of the host advertise prefixes that share an address, except for a POST that was
\* overtaken (resolveAdvertisedRoutesFor, wg/config.ts's AllowedIPs of an interface).
RoutesDisjoint ==
  \A p, q \in live \ overtaken : p # q =>
    \A c \in row[p].routes, d \in row[q].routes : Block(c) \cap Block(d) = {}

=============================================================================
