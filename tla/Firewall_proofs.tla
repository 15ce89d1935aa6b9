--------------------------- MODULE Firewall_proofs ---------------------------
(***************************************************************************)
(* The ruleset, the routes and the AllowedIPs against the policy, for all  *)
(* rows that the handlers of Policy can leave behind and every choice of   *)
(* provisioned links.  First the facts about rows that the projections     *)
(* rely on, RowsOK, and that they are an invariant; then, for any rows     *)
(* with these facts, each chain is read rule by rule.                      *)
(***************************************************************************)
EXTENDS Firewall, Policy_proofs, SequenceTheorems

(***************************************************************************)
(* What the tables keep besides the invariants of Policy.                  *)
(***************************************************************************)
HomesExist ==
  /\ \A p \in live : row[p].home \in servers
  /\ \A h \in Handler : post[h] # NoPost => post[h].row.home \in servers

\* The serial of a tag's id was used for one tag of that name.
TagIdsUnique == \A t \in tags : t.id[1] < serial /\ \A u \in tags : t.id = u.id => t = u

\* The exit node of a row may be gone, but was one of the row's own server.
Chosen(new) == new.via # Null => new.via \in Gateway \ fresh /\ row[new.via].home = new.home

ExitsChosen ==
  /\ \A p \in live : Chosen(row[p]) /\ row[p].via # p
  /\ \A h \in Handler : post[h] # NoPost => Chosen(post[h].row)

Located(new) == new.addr \in Ip /\ \A c \in new.routes : Outside(c) /\ c.size # Space

InSpace ==
  /\ \A s \in Server : /\ BroadcastAddress(srv[s].range) < Space /\ srv[s].addr \in Ip
                       /\ s \in servers => Outside(srv[s].range) /\ CidrContains(srv[s].range, srv[s].addr)
  /\ \A p \in live : Located(row[p])
  /\ \A h \in Handler : post[h] # NoPost => Located(post[h].row)

RowsInv == IsFiniteSet(live) /\ HomesExist /\ TagIdsUnique /\ ExitsChosen /\ InSpace

LEMMA InitRows == Init => RowsInv
<1> SUFFICES ASSUME Init PROVE RowsInv
  OBVIOUS
<1>1. IsFiniteSet(live)
  BY FS_EmptySet DEF Init
<1>2. HomesExist /\ TagIdsUnique /\ ExitsChosen
  BY DEF Init, HomesExist, TagIdsUnique, ExitsChosen
<1>3. InSpace
  <2>1. \A s \in Server : BroadcastAddress(srv[s].range) = 0 /\ srv[s].addr = 0
    BY DEF Init, BroadcastAddress, NetworkAddress
  <2> QED
    BY <2>1, ConstantsOK DEF Init, InSpace, Ip
<1> QED
  BY <1>1, <1>2, <1>3 DEF RowsInv

(***************************************************************************)
(* Rows that are written.                                                  *)
(***************************************************************************)
LEMMA NormalizedOutside ==
  ASSUME NEW c \in Cidr, Outside(c)
  PROVE  Outside(NormalizeCidr(c)) /\ NormalizeCidr(c).size = c.size
BY NormalizeKeepsBlock DEF Outside, CidrContains

\* Of the rows resolvePeerWrite may leave behind.
LEMMA WrittenLocated ==
  ASSUME PolicyTypeOK, RowsInv, NEW s \in Server, NEW p \in Peer \cup {Null}, NEW i \in DOMAIN PeerWrites,
         p # Null => p \in live /\ row[p].home = s, NEW exit \in BOOLEAN,
         NEW r \in ResolvePeerWrite(s, p, PeerWrites[i], exit)
  PROVE  Located(r) /\ Chosen(r) /\ r.home = s /\ (p # Null => r.via # p)
<1> DEFINE q == PeerWrites[i]
           current == IF p = Null THEN Blank(s) ELSE row[p]
<1>1. current \in PeerRow /\ current.home = s /\ (p # Null => Located(current) /\ Chosen(current) /\ current.via # p)
      /\ (p = Null => current.routes = {} /\ current.via = Null)
  BY DEF PolicyTypeOK, PeerRow, Blank, RowsInv, InSpace, ExitsChosen
<1>2. PICK ip \in ResolvedAddress(s, p, q) :
        r = [home |-> s, addr |-> ip,
             routes |-> IF Given(q.routes) THEN ResolvedRoutes(q.routes) ELSE current.routes,
             via |-> Ask(q.via, current.via), viaServer |-> Ask(q.viaServer, current.viaServer)]
  BY DEF ResolvePeerWrite
<1>3. CheckPeerInvariants(s, p, q, exit, r) /\ (Given(q.routes) => RoutesAccepted(q.routes, srv[s].range, Reserved(s, p), Space))
  BY DEF ResolvePeerWrite
<1>4. ip \in Ip
  <2>1. ip \in Nat
    BY WrittenAddress
  <2>2. srv[s].range \in Cidr /\ srv[s].reserved \in Nat /\ BroadcastAddress(srv[s].range) < Space
    BY DEF PolicyTypeOK, ServerRow, RowsInv, InSpace
  <2>3. CASE Given(q.addr)
    BY <2>3, AddressesOK DEF ResolvedAddress, RequestedAddress
  <2>4. CASE ~Given(q.addr) /\ p = Null
    <3> DEFINE taken == {row[o].addr : o \in PeersOf(Rows, s) \ {p}} \cup {srv[s].addr}
    <3>1. ip \in AllocatedAddress(srv[s].range, srv[s].reserved, taken)
      BY <2>4 DEF ResolvedAddress
    <3> HIDE DEF taken
    <3>2. ip \in Block(srv[s].range)
      BY <2>2, <3>1, AllocatedAddressFree
    <3> QED
      BY <2>1, <2>2, <3>2, ConstantsOK, NetworkAddressOK DEF Block, Ip
  <2>5. CASE ~Given(q.addr) /\ p # Null
    <3>1. ip = row[p].addr
      BY <2>5 DEF ResolvedAddress
    <3> QED
      BY <1>1, <2>5, <3>1 DEF Located
  <2> QED
    BY <2>3, <2>4, <2>5
<1>5. \A c \in r.routes : Outside(c) /\ c.size # Space
  <2>1. CASE Given(q.routes)
    <3> SUFFICES ASSUME NEW j \in DOMAIN q.routes
                 PROVE  Outside(NormalizeCidr(q.routes[j])) /\ NormalizeCidr(q.routes[j]).size # Space
      BY <1>2, <2>1 DEF ResolvedRoutes
    <3>1. q.routes[j] \in Cidr /\ Outside(q.routes[j])
      BY <2>1, RequestsOK, AddressesOK
    <3>2. q.routes[j].size # Space
      BY <1>3, <2>1 DEF RoutesAccepted, IsDefaultRoute
    <3> HIDE DEF q
    <3> QED
      BY <3>1, <3>2, NormalizedOutside
  <2>2. CASE ~Given(q.routes)
    BY <1>1, <1>2, <2>2 DEF Located
  <2> QED
    BY <2>1, <2>2
<1>6. Chosen(r) /\ (p # Null => r.via # p)
  <2>1. CASE Given(q.via) /\ q.via # Null
    <3>1. q.via \in (PeersOf(Rows, s) \cap Gateway) \ {p}
      BY <1>3, <2>1 DEF CheckPeerInvariants
    <3>2. q.via \in Gateway \ fresh /\ row[q.via].home = s /\ q.via # p
      BY <3>1 DEF PeersOf, Rows, PolicyTypeOK
    <3> QED
      BY <1>2, <2>1, <3>2 DEF Chosen, Ask
  <2>2. CASE Given(q.via) /\ q.via = Null
    BY <1>2, <2>2, ConstantsOK DEF Chosen, Ask
  <2>3. CASE ~Given(q.via)
    BY <1>1, <1>2, <2>3, ConstantsOK DEF Chosen, Ask
  <2> QED
    BY <2>1, <2>2, <2>3
<1> QED
  BY <1>2, <1>4, <1>5, <1>6 DEF Located

(***************************************************************************)
(* Every step keeps RowsInv.                                               *)
(***************************************************************************)
\* Steps that change neither peers, servers nor requests in flight, and tags as the disjunct says.
LEMMA SameRows ==
  ASSUME RowsInv, UNCHANGED <<servers, srv, live, fresh, row, post>>, TagIdsUnique'
  PROVE  RowsInv'
<1>1. HomesExist' /\ ExitsChosen' /\ InSpace'
  BY DEF RowsInv, HomesExist, ExitsChosen, Chosen, InSpace, Located
<1> QED
  BY <1>1 DEF RowsInv

LEMMA TagIdsKept ==
  ASSUME RowsInv, PolicyTypeOK, tags' \subseteq tags, serial' = serial
  PROVE  TagIdsUnique'
BY DEF RowsInv, TagIdsUnique

LEMMA PostTagRows ==
  ASSUME RowsInv, PolicyTypeOK, NEW s \in Server, NEW name \in Name, PostTag(s, name)
  PROVE  RowsInv'
<1>1. TagIdsUnique'
  BY DEF RowsInv, TagIdsUnique, PostTag, PolicyTypeOK, Tag, TagId
<1> QED
  BY <1>1, SameRows DEF PostTag

LEMMA PatchTagRows ==
  ASSUME RowsInv, PolicyTypeOK, NEW t \in tags, NEW name \in Name, PatchTag(t, name)
  PROVE  RowsInv'
<1> DEFINE new == [t EXCEPT !.name = name]
<1>1. new.id = t.id /\ tags' = (tags \ {t}) \cup {new} /\ serial' = serial
  BY DEF PatchTag, PolicyTypeOK, Tag
<1> HIDE DEF new
<1>2. TagIdsUnique'
  BY <1>1 DEF RowsInv, TagIdsUnique
<1> QED
  BY <1>2, SameRows DEF PatchTag

LEMMA PutPolicyRows ==
  ASSUME RowsInv, PolicyTypeOK, NEW s \in Server, NEW k \in DOMAIN Documents, PutPolicy(s, Documents[k])
  PROVE  RowsInv'
<1> DEFINE made == {[id |-> NewId(n), home |-> s, name |-> n] : n \in Elements(Documents[k].tags)}
<1>1. tags' \subseteq tags \cup made /\ serial' = serial + 1 /\ serial \in Nat
  BY DEF PutPolicy, ImportedTags, PolicyTypeOK
<1>2. \A t \in made : t.id[1] = serial
  BY DEF NewId
<1>3. \A t, u \in made : t.id = u.id => t = u
  BY DEF NewId
<1>4. \A t \in tags : t.id[1] \in Nat /\ t.id[1] < serial
  BY DEF RowsInv, TagIdsUnique, PolicyTypeOK, Tag, TagId
<1> HIDE DEF made
<1>5. TagIdsUnique'
  BY <1>1, <1>2, <1>3, <1>4 DEF RowsInv, TagIdsUnique
<1> QED
  BY <1>5, SameRows DEF PutPolicy

LEMMA PostCheckRows ==
  ASSUME RowsInv, PolicyTypeOK, NEW h \in Handler, NEW s \in Server, NEW i \in DOMAIN PeerWrites,
         PostCheck(h, s, PeerWrites[i])
  PROVE  RowsInv'
<1> DEFINE q == PeerWrites[i]
<1>1. PICK r \in ResolvePeerWrite(s, Null, q, q.exit) :
        post' = [post EXCEPT ![h] = [pc |-> "keys", row |-> r, exit |-> q.exit, tags |-> TagIdsAsked(s, q)]]
  BY DEF PostCheck
<1>2. UNCHANGED <<servers, srv, live, fresh, row, tags, serial>> /\ s \in servers
  BY DEF PostCheck, rowVars
<1>3. Located(r) /\ Chosen(r) /\ r.home = s
  <2>1. q.exit \in BOOLEAN
    BY RequestsOK
  <2> QED
    BY <1>1, <2>1, WrittenLocated
<1>4. \A g \in Handler : post'[g] # NoPost => post'[g].row = r \/ (post[g] # NoPost /\ post'[g] = post[g])
  <2> DEFINE new == [pc |-> "keys", row |-> r, exit |-> q.exit, tags |-> TagIdsAsked(s, q)]
  <2>1. post' = [post EXCEPT ![h] = new] /\ new.row = r
    BY <1>1
  <2>2. post[h] = NoPost
    BY DEF PostCheck
  <2> HIDE DEF new
  <2>3. CASE h \in DOMAIN post
    BY <2>1, <2>3
  <2>4. CASE h \notin DOMAIN post
    BY <2>1, <2>4
  <2> QED
    BY <2>3, <2>4
<1>5. HomesExist' /\ TagIdsUnique' /\ ExitsChosen' /\ InSpace'
  BY <1>2, <1>3, <1>4 DEF RowsInv, HomesExist, TagIdsUnique, ExitsChosen, Chosen, InSpace, Located
<1> QED
  BY <1>2, <1>5 DEF RowsInv

LEMMA PostInsertRows ==
  ASSUME RowsInv, PolicyTypeOK, NEW h \in Handler, PostInsert(h)
  PROVE  RowsInv'
<1> DEFINE new == post[h]
<1>1. new # NoPost /\ Located(new.row) /\ Chosen(new.row) /\ new.row.home \in servers
  BY DEF PostInsert, RowsInv, HomesExist, ExitsChosen, InSpace
<1>2. UNCHANGED <<servers, srv, tags, serial>> /\ TagIdsUnique'
  BY DEF PostInsert, RowsInv, TagIdsUnique
<1>3. \A g \in Handler : post'[g] # NoPost => post[g] # NoPost /\ post'[g] = post[g]
  BY DEF PostInsert
<1>4. CASE UNCHANGED <<live, fresh, row>>
  <2>1. HomesExist' /\ ExitsChosen' /\ InSpace'
    BY <1>2, <1>3, <1>4 DEF RowsInv, HomesExist, ExitsChosen, Chosen, InSpace, Located
  <2> QED
    BY <1>2, <1>4, <2>1 DEF RowsInv
<1>5. ASSUME NEW p \in fresh, live' = live \cup {p}, fresh' = fresh \ {p}, row' = [row EXCEPT ![p] = new.row]
      PROVE  RowsInv'
  <2>1. IsFiniteSet(live')
    BY <1>5, FS_AddElement DEF RowsInv
  <2>2. p \in Peer \ live /\ row'[p] = new.row /\ \A o \in Peer \ {p} : row'[o] = row[o]
    BY <1>5 DEF PolicyTypeOK
  <2>3. live \subseteq Peer /\ Gateway \subseteq Peer
    BY ConstantsOK DEF PolicyTypeOK
  <2> HIDE DEF new
  <2>4. HomesExist' /\ InSpace'
    BY <1>1, <1>2, <1>3, <1>5, <2>2, <2>3 DEF RowsInv, HomesExist, InSpace, Located
  <2>5. \A r : Chosen(r) => Chosen(r)' /\ r.via # p
    BY <1>5, <2>2, <2>3, ConstantsOK DEF Chosen
  <2>6. ExitsChosen'
    <3>1. \A o \in live : Chosen(row[o]) /\ row[o].via # o /\ row'[o] = row[o]
      BY <2>2, <2>3 DEF RowsInv, ExitsChosen
    <3>2. \A g \in Handler : post[g] # NoPost => Chosen(post[g].row)
      BY DEF RowsInv, ExitsChosen
    <3>3. \A o \in live' : (Chosen(row[o]) /\ row[o].via # o)'
      BY <1>1, <1>5, <2>2, <2>5, <3>1
    <3>4. \A g \in Handler : (post[g] # NoPost => Chosen(post[g].row))'
      BY <1>3, <2>5, <3>2
    <3> QED
      BY <3>3, <3>4 DEF ExitsChosen
  <2> QED
    BY <1>2, <2>1, <2>4, <2>6 DEF RowsInv
<1> QED
  BY <1>4, <1>5 DEF PostInsert

LEMMA PatchPeerRows ==
  ASSUME RowsInv, PolicyTypeOK, NEW p \in Peer, NEW i \in DOMAIN PeerWrites, PatchPeer(p, PeerWrites[i])
  PROVE  RowsInv'
<1> DEFINE s == row[p].home
           exit == p \in Gateway
<1>1. p \in live /\ s \in Server /\ exit \in BOOLEAN /\ p # Null
  BY ConstantsOK DEF PatchPeer, PolicyTypeOK, PeerRow
<1>2. PICK r \in ResolvePeerWrite(s, p, PeerWrites[i], exit) : row' = [row EXCEPT ![p] = r]
  BY DEF PatchPeer
<1>3. UNCHANGED <<servers, srv, live, fresh, tags, serial, post>>
  BY DEF PatchPeer
<1>4. Located(r) /\ Chosen(r) /\ r.home = s /\ r.via # p
  <2>1. s = row[p].home
    OBVIOUS
  <2> HIDE DEF s, exit
  <2> QED
    BY <1>1, <1>2, <2>1, WrittenLocated
<1>5. row'[p] = r /\ (\A o \in Peer \ {p} : row'[o] = row[o]) /\ \A o \in Peer : row'[o].home = row[o].home
  BY <1>1, <1>2, <1>4 DEF PolicyTypeOK
<1>6. live \subseteq Peer /\ Gateway \subseteq Peer
  BY ConstantsOK DEF PolicyTypeOK
<1> HIDE DEF s, exit
<1>7. HomesExist' /\ TagIdsUnique' /\ InSpace'
  BY <1>3, <1>4, <1>5, <1>6 DEF RowsInv, HomesExist, TagIdsUnique, InSpace, Located
<1>8. \A new : Chosen(new) => Chosen(new)'
  BY <1>3, <1>5, <1>6 DEF Chosen
<1>9. ExitsChosen'
  BY <1>3, <1>4, <1>5, <1>6, <1>8 DEF RowsInv, ExitsChosen
<1> QED
  BY <1>3, <1>7, <1>9 DEF RowsInv

LEMMA RemovePeerRows ==
  ASSUME RowsInv, PolicyTypeOK, NEW p \in Peer, RemovePeer(p)
  PROVE  RowsInv'
<1>1. live' = live \ {p} /\ UNCHANGED <<servers, srv, fresh, tags, post, serial>>
  BY DEF RemovePeer
<1>2. \A o \in Peer : /\ row'[o].home = row[o].home /\ row'[o].addr = row[o].addr
                      /\ row'[o].routes = row[o].routes /\ row'[o].via \in {row[o].via, Null}
  BY DEF RemovePeer, PolicyTypeOK, PeerRow
<1>3. live \subseteq Peer /\ Gateway \subseteq Peer /\ Null \notin Peer
  BY ConstantsOK DEF PolicyTypeOK
<1>4. IsFiniteSet(live')
  BY <1>1, FS_RemoveElement DEF RowsInv
<1>5. HomesExist' /\ TagIdsUnique' /\ InSpace'
  BY <1>1, <1>2, <1>3 DEF RowsInv, HomesExist, TagIdsUnique, InSpace, Located
<1>6. \A new : Chosen(new) => Chosen(new)'
  BY <1>1, <1>2, <1>3 DEF Chosen
<1>7. \A o \in live' : (Chosen(row[o]) /\ row[o].via # o)'
  <2> SUFFICES ASSUME NEW o \in live' PROVE (Chosen(row[o]) /\ row[o].via # o)'
    OBVIOUS
  <2>1. o \in live /\ Chosen(row[o]) /\ row[o].via # o
    BY <1>1 DEF RowsInv, ExitsChosen
  <2> QED
    BY <1>1, <1>2, <1>3, <2>1 DEF Chosen
<1>8. ExitsChosen'
  BY <1>1, <1>6, <1>7 DEF RowsInv, ExitsChosen
<1> QED
  BY <1>4, <1>5, <1>8 DEF RowsInv

\* A server written by a request: its range and address are those of the request or of before.
LEMMA ServerRows ==
  ASSUME RowsInv, PolicyTypeOK, NEW s \in Server, NEW new, srv' = [srv EXCEPT ![s] = new],
         BroadcastAddress(new.range) < Space, new.addr \in Ip, s \in servers' => Outside(new.range) /\ CidrContains(new.range, new.addr),
         servers \subseteq servers', servers' \subseteq servers \cup {s},
         UNCHANGED <<live, fresh, row, tags, post, serial>>
  PROVE  RowsInv'
<1>1. srv'[s] = new /\ \A o \in Server \ {s} : srv'[o] = srv[o] /\ (o \in servers' => o \in servers)
  BY DEF PolicyTypeOK
<1>2. InSpace'
  BY <1>1 DEF RowsInv, InSpace, Located
<1>3. HomesExist' /\ TagIdsUnique' /\ ExitsChosen'
  BY DEF RowsInv, HomesExist, TagIdsUnique, ExitsChosen, Chosen
<1> QED
  BY <1>2, <1>3 DEF RowsInv

LEMMA PatchServerRows ==
  ASSUME RowsInv, PolicyTypeOK, NEW s \in Server, NEW i \in DOMAIN ServerWrites, PatchServer(s, ServerWrites[i])
  PROVE  RowsInv'
<1> DEFINE q == ServerWrites[i]
           next == [range |-> Ask(q.range, srv[s].range), addr |-> Ask(q.addr, srv[s].addr),
                    reserved |-> Ask(q.reserved, srv[s].reserved), offers |-> srv[s].offers]
<1>1. srv' = [srv EXCEPT ![s] = next] /\ CidrContains(next.range, next.addr) /\ s \in servers /\ UNCHANGED <<servers, live, fresh, row, tags, post, serial>>
  BY DEF PatchServer, WriteServer
<1>2. Outside(srv[s].range) /\ srv[s].addr \in Ip
  BY <1>1 DEF RowsInv, InSpace
<1>3. Outside(next.range) /\ next.addr \in Ip
  BY <1>2, AddressesOK DEF Ask
<1> HIDE DEF next
<1> QED
  BY <1>1, <1>3, ServerRows DEF Outside

LEMMA PostServerRows ==
  ASSUME RowsInv, PolicyTypeOK, NEW s \in Server, NEW i \in DOMAIN ServerWrites, NEW offers \in BOOLEAN,
         PostServer(s, ServerWrites[i], offers)
  PROVE  RowsInv'
<1> DEFINE q == ServerWrites[i]
           new == [range |-> q.range, addr |-> q.addr, reserved |-> q.reserved, offers |-> offers]
<1>1. /\ srv' = [srv EXCEPT ![s] = new] /\ servers' = servers \cup {s} /\ Given(q.range) /\ Given(q.addr)
      /\ CidrContains(new.range, new.addr) /\ UNCHANGED <<live, fresh, row, tags, post, serial>>
  BY DEF PostServer
<1>2. Outside(new.range) /\ new.addr \in Ip
  BY <1>1, AddressesOK
<1> HIDE DEF new
<1> QED
  BY <1>1, <1>2, ServerRows DEF Outside

LEMMA NextRows == PolicyInv /\ RowsInv /\ [Next]_vars => RowsInv'
<1> SUFFICES ASSUME PolicyTypeOK, RowsInv, [Next]_vars PROVE RowsInv'
  BY DEF PolicyInv
<1>1. ASSUME NEW t \in tags, DeleteTag(t) PROVE RowsInv'
  BY <1>1, TagIdsKept, SameRows DEF DeleteTag
<1>2. ASSUME NEW s \in Server, NEW i \in DOMAIN GrantLists, PutGrants(s, GrantLists[i]) PROVE RowsInv'
  BY <1>2, TagIdsKept, SameRows DEF PutGrants
<1>3. ASSUME NEW p \in Peer, DeletePeer(p) \/ DeleteCommit(p) PROVE RowsInv'
  BY <1>3, RemovePeerRows DEF DeletePeer, DeleteCommit
<1>4. ASSUME NEW p \in Peer, DeleteLinked(p) PROVE RowsInv'
  BY <1>4, TagIdsKept, SameRows DEF DeleteLinked, rowVars
<1>5. CASE UNCHANGED vars
  BY <1>5, TagIdsKept, SameRows DEF vars, rowVars
<1>6. CASE Next
  BY <1>1, <1>2, <1>3, <1>4, <1>6, PostTagRows, PatchTagRows, PutPolicyRows, PostCheckRows, PostInsertRows,
     PatchPeerRows, PatchServerRows, PostServerRows DEF Next
<1> QED
  BY <1>5, <1>6

\* The rows of every reachable state: homes that exist, tag ids used once, exits of the same server,
\* addresses and prefixes inside the address space.
THEOREM RowsSafe == Spec => [](PolicyInv /\ RowsInv)
<1>1. PolicyInv /\ RowsInv /\ [Next]_vars => (PolicyInv /\ RowsInv)'
  BY NextInv, NextRows
<1> QED
  BY <1>1, InitInv, InitRows, PTL DEF Spec

(***************************************************************************)
(* The facts about any rows r that the ruleset relies on.                  *)
(***************************************************************************)
\* Servers and addresses.
PeersOK(r) ==
  /\ IsFiniteSet(r.live) /\ r.live \subseteq Peer /\ r.servers \subseteq Server
  /\ \A p \in r.live : r.row[p].home \in r.servers /\ r.row[p].addr \in Ip
  /\ \A p, q \in r.live : p # q /\ r.row[p].home = r.row[q].home => r.row[p].addr # r.row[q].addr
  /\ HubAddrs(r) \subseteq Ip
  /\ \A c \in AdvertisedBy(r, r.live) : c \in Cidr /\ NetworkAddress(c) \in Ip

\* Exit nodes that are chosen.
ViasOK(r) ==
  \A p \in r.live : r.row[p].via # Null =>
    r.row[p].via \in Gateway \ {p} /\ (r.row[p].via \in r.live => r.row[r.row[p].via].home = r.row[p].home)

\* Tags, assignments and the references of grants.
GrantsOK(r) ==
  /\ \A t, u \in r.tags : t.id = u.id => t = u
  /\ \A x \in r.assigned : x = <<x[1], x[2]>>
  /\ \A s \in r.servers : \A i \in GrantsOf(r, s) :
       /\ r.grants[s][i].src.kind \in SrcKind /\ r.grants[s][i].dst.kind \in DstKind
       /\ CheckRef(r.grants[s][i].src, TagIdsOf(r, s), PeersOf(r, s))
       /\ CheckRef(r.grants[s][i].dst, TagIdsOf(r, s), PeersOf(r, s))

RowsOK(r) == PeersOK(r) /\ ViasOK(r) /\ GrantsOK(r)

LEMMA RowsAreOK == PolicyInv /\ RowsInv => RowsOK(Rows)
<1> SUFFICES ASSUME PolicyInv, RowsInv PROVE RowsOK(Rows)
  OBVIOUS
<1>1. /\ Rows.live = live /\ Rows.servers = servers /\ Rows.row = row /\ Rows.srv = srv
      /\ Rows.tags = tags /\ Rows.assigned = assigned /\ Rows.grants = grants
  BY DEF Rows
<1>2. PeersOK(Rows)
  <2>1. /\ IsFiniteSet(live) /\ live \subseteq Peer /\ servers \subseteq Server
        /\ \A p \in live : row[p].home \in servers /\ row[p].addr \in Ip
    BY DEF PolicyInv, PolicyTypeOK, RowsInv, HomesExist, InSpace, Located
  <2>2. \A p, q \in live : p # q /\ row[p].home = row[q].home => row[p].addr # row[q].addr
    BY DEF PolicyInv, AddressesDistinct
  <2>3. HubAddrs(Rows) \subseteq Ip
    BY <1>1, <2>1 DEF HubAddrs, RowsInv, InSpace
  <2>4. \A c \in AdvertisedBy(Rows, live) : c \in Cidr /\ NetworkAddress(c) \in Ip
    <3> SUFFICES ASSUME NEW p \in live, NEW c \in row[p].routes PROVE c \in Cidr /\ NetworkAddress(c) \in Ip
      BY <1>1 DEF AdvertisedBy
    <3>1. c \in Cidr /\ BroadcastAddress(c) < Space
      BY DEF PolicyInv, PolicyTypeOK, PeerRow, RowsInv, InSpace, Located, Outside
    <3> QED
      BY <3>1, ConstantsOK, NetworkAddressOK DEF Ip
  <2> QED
    BY <1>1, <2>1, <2>2, <2>3, <2>4 DEF PeersOK
<1>3. ViasOK(Rows)
  BY <1>1 DEF ViasOK, RowsInv, ExitsChosen, Chosen
<1>4. GrantsOK(Rows)
  <2>1. \A t, u \in tags : t.id = u.id => t = u
    BY DEF RowsInv, TagIdsUnique
  <2>2. \A x \in assigned : x = <<x[1], x[2]>>
    BY DEF PolicyInv, PolicyTypeOK
  <2>3. \A s \in servers : \A i \in GrantsOf(Rows, s) :
          /\ grants[s][i].src.kind \in SrcKind /\ grants[s][i].dst.kind \in DstKind
          /\ CheckRef(grants[s][i].src, TagIdsOf(Rows, s), PeersOf(Rows, s))
          /\ CheckRef(grants[s][i].dst, TagIdsOf(Rows, s), PeersOf(Rows, s))
    BY DEF PolicyInv, PolicyTypeOK, RefOK, GrantsResolve
  <2> QED
    BY <1>1, <2>1, <2>2, <2>3 DEF GrantsOK
<1> QED
  BY <1>2, <1>3, <1>4 DEF RowsOK

(***************************************************************************)
(* Sets as sequences, and the first rule that matches.                     *)
(***************************************************************************)
LEMMA SetToSeqOf ==
  ASSUME NEW S, IsFiniteSet(S)
  PROVE  /\ Cardinality(S) \in Nat /\ SetToSeq(S) \in [1..Cardinality(S) -> S]
         /\ \A x \in S : \E i \in 1..Cardinality(S) : SetToSeq(S)[i] = x
<1>1. Cardinality(S) \in Nat /\ ExistsBijection(1..Cardinality(S), S)
  BY FS_CardinalityType
<1>2. PICK f \in Bijection(1..Cardinality(S), S) : TRUE
  BY <1>1 DEF ExistsBijection
<1>3. f \in [1..Cardinality(S) -> S] /\ IsInjective(f)
  BY <1>2 DEF Bijection, Injection, IsInjective
<1> DEFINE g == SetToSeq(S)
<1>4. g \in [1..Cardinality(S) -> S] /\ IsInjective(g)
  BY <1>3 DEF SetToSeq
<1>5. g \in Injection(1..Cardinality(S), S)
  BY <1>4 DEF Injection, IsInjective
<1>6. Cardinality(1..Cardinality(S)) = Cardinality(S)
  BY <1>1, FS_Interval
<1>7. g \in Surjection(1..Cardinality(S), S)
  <2> HIDE DEF g
  <2> QED
    BY <1>5, <1>6, FS_Injection
<1> QED
  BY <1>1, <1>4, <1>7 DEF Surjection

Matches(rule, pkt) == pkt.src \in rule.src /\ pkt.dst \in rule.dst /\ pkt.oif \in rule.oif /\ pkt.l4 \in rule.l4

\* A packet is decided by the first rule that matches; if they all accept, or there is none, it passes.
LEMMA FirstRule ==
  ASSUME NEW n \in Nat, NEW chain, DOMAIN chain = 1..n, NEW pkt
  PROVE  /\ \A i \in 1..n : Matches(chain[i], pkt) /\ (\A j \in 1..(i - 1) : ~Matches(chain[j], pkt))
              => FirstMatch(chain, pkt) = chain[i].verdict
         /\ (\A i \in 1..n : Matches(chain[i], pkt) => chain[i].verdict = "accept") => FirstMatch(chain, pkt) = "accept"
<1> DEFINE hits == {i \in DOMAIN chain : Matches(chain[i], pkt)}
           first == CHOOSE i \in hits : \A j \in hits : i <= j
<1>1. FirstMatch(chain, pkt) = IF hits = {} THEN "accept" ELSE chain[first].verdict
  BY DEF FirstMatch, Matches
<1>2. hits \subseteq 1..n /\ \A i \in hits : Matches(chain[i], pkt)
  OBVIOUS
<1>3. hits # {} => first \in hits /\ \A j \in hits : first <= j
  <2> HIDE DEF hits
  <2>1. hits # {} => \E i \in hits : \A j \in hits : i <= j
    BY <1>2, Smallest
  <2> QED
    BY <2>1
<1>4. ASSUME NEW i \in 1..n, Matches(chain[i], pkt), \A j \in 1..(i - 1) : ~Matches(chain[j], pkt)
      PROVE  FirstMatch(chain, pkt) = chain[i].verdict
  <2>1. i \in hits
    BY <1>4
  <2> HIDE DEF hits, first
  <2>2. first \in 1..n /\ first <= i /\ first \notin 1..(i - 1)
    BY <1>2, <1>3, <1>4, <2>1
  <2>3. first = i
    BY <2>2
  <2> QED
    BY <1>1, <2>1, <2>3
<1>5. ASSUME \A i \in 1..n : Matches(chain[i], pkt) => chain[i].verdict = "accept"
      PROVE  FirstMatch(chain, pkt) = "accept"
  <2> HIDE DEF hits, first
  <2> QED
    BY <1>1, <1>2, <1>3, <1>5
<1> QED
  BY <1>4, <1>5

(***************************************************************************)
(* The chains, rule by rule.                                               *)
(***************************************************************************)
LEMMA Appended ==
  ASSUME NEW R, NEW a \in Seq(R), NEW b \in Seq(R)
  PROVE  a \o b \in Seq(R) /\ Len(a \o b) = Len(a) + Len(b) /\ DOMAIN (a \o b) = 1..(Len(a) + Len(b))
<1>1. a \o b \in Seq(R) /\ Len(a \o b) = Len(a) + Len(b)
  BY ConcatProperties
<1> QED
  BY <1>1, LenProperties

LEMMA AppendedFront ==
  ASSUME NEW R, NEW a \in Seq(R), NEW b \in Seq(R)
  PROVE  \A i \in 1..Len(a) : (a \o b)[i] = a[i]
BY ConcatProperties, LenProperties

LEMMA AppendedBack ==
  ASSUME NEW R, NEW a \in Seq(R), NEW b \in Seq(R)
  PROVE  \A i \in 1..Len(b) : (a \o b)[Len(a) + i] = b[i]
BY ConcatProperties, LenProperties

Exits(r, s, links) == {ExitRule(r, s, p) : p \in ExitNodes(r, s, links)}

LEMMA ForwardShape ==
  ASSUME NEW r, RowsOK(r), NEW s, NEW links,
         NEW n, n = Cardinality(Exits(r, s, links)), NEW chain, chain = ForwardChain(r, s, links)
  PROVE  /\ n \in Nat /\ DOMAIN chain = 1..(MaxGrants + n + 2)
         /\ \A i \in Position : chain[i] = RenderGrantRule(r, s, i, {"tag", "peer", "cidr", "any"})
         /\ \A i \in 1..n : chain[MaxGrants + i] \in Exits(r, s, links)
         /\ \A x \in Exits(r, s, links) : \E i \in 1..n : chain[MaxGrants + i] = x
         /\ chain[MaxGrants + n + 1] = ServerExitRule(r, s) /\ chain[MaxGrants + n + 2] = DefaultDeny(r, s)
<1> DEFINE exits == Exits(r, s, links)
           grants_ == GrantRules(r, s, {"tag", "peer", "cidr", "any"})
           middle == SetToSeq(exits)
           last == <<ServerExitRule(r, s), DefaultDeny(r, s)>>
           R == {grants_[i] : i \in Position} \cup exits \cup {ServerExitRule(r, s), DefaultDeny(r, s)}
<1>1. IsFiniteSet(exits)
  <2>1. IsFiniteSet(ExitNodes(r, s, links))
    <3>1. ExitNodes(r, s, links) \in SUBSET r.live
      BY DEF ExitNodes, PeersOf
    <3> QED
      BY <3>1, FS_Subset DEF RowsOK, PeersOK
  <2> DEFINE f == [p \in ExitNodes(r, s, links) |-> ExitRule(r, s, p)]
  <2>2. f \in Surjection(ExitNodes(r, s, links), exits)
    BY DEF Surjection, Exits
  <2> QED
    BY <2>1, <2>2, FS_Surjection
<1>2. grants_ \in Seq(R) /\ Len(grants_) = MaxGrants
      /\ \A i \in Position : grants_[i] = RenderGrantRule(r, s, i, {"tag", "peer", "cidr", "any"})
  BY ConstantsOK DEF GrantRules, Position
<1>3. /\ n \in Nat /\ middle \in [1..n -> exits]
      /\ \A x \in exits : \E i \in 1..n : middle[i] = x
  <2> HIDE DEF exits
  <2> QED
    BY <1>1, SetToSeqOf DEF exits
<1>4. last \in Seq(R) /\ Len(last) = 2 /\ last[1] = ServerExitRule(r, s) /\ last[2] = DefaultDeny(r, s)
  OBVIOUS
<1>5. chain = (grants_ \o middle) \o last
  BY DEF ForwardChain, Exits
<1>6. exits \subseteq R
  OBVIOUS
<1> HIDE DEF exits, grants_, middle, last, R
<1>7. middle \in Seq(R) /\ Len(middle) = n
  <2>1. middle \in [1..n -> R]
    BY <1>3, <1>6
  <2> QED
    BY <1>3, <2>1
<1> DEFINE front == grants_ \o middle
<1>8. MaxGrants \in Nat
  BY ConstantsOK
<1>9. /\ front \in Seq(R) /\ Len(front) = MaxGrants + n
      /\ \A i \in 1..MaxGrants : front[i] = grants_[i]
      /\ \A i \in 1..n : front[MaxGrants + i] = middle[i]
  <2>1. grants_ \in Seq(R) /\ middle \in Seq(R)
    BY <1>2, <1>7
  <2>2. front \in Seq(R) /\ Len(front) = Len(grants_) + Len(middle)
    BY <2>1, Appended
  <2>3. \A i \in 1..Len(grants_) : front[i] = grants_[i]
    BY <2>1, AppendedFront
  <2>4. \A i \in 1..Len(middle) : front[Len(grants_) + i] = middle[i]
    BY <2>1, AppendedBack
  <2> QED
    BY <1>2, <1>7, <2>2, <2>3, <2>4
<1>10. chain = front \o last
  BY <1>5
<1> HIDE DEF front
<1>11. /\ DOMAIN chain = 1..(MaxGrants + n + 2)
       /\ \A i \in 1..(MaxGrants + n) : chain[i] = front[i]
       /\ \A i \in 1..2 : chain[MaxGrants + n + i] = last[i]
  <2>1. front \in Seq(R) /\ last \in Seq(R)
    BY <1>4, <1>9
  <2>2. DOMAIN (front \o last) = 1..(Len(front) + Len(last))
    BY <2>1, Appended
  <2>3. \A i \in 1..Len(front) : (front \o last)[i] = front[i]
    BY <2>1, AppendedFront
  <2>4. \A i \in 1..Len(last) : (front \o last)[Len(front) + i] = last[i]
    BY <2>1, AppendedBack
  <2> QED
    BY <1>4, <1>9, <1>10, <2>2, <2>3, <2>4
<1>12. \A i \in Position : chain[i] = grants_[i]
  BY <1>3, <1>8, <1>9, <1>11 DEF Position
<1>13. \A i \in 1..n : chain[MaxGrants + i] = middle[i]
  BY <1>3, <1>8, <1>9, <1>11
<1>14. chain[MaxGrants + n + 1] = last[1] /\ chain[MaxGrants + n + 2] = last[2]
  BY <1>11
<1>15. \A i \in Position : chain[i] = RenderGrantRule(r, s, i, {"tag", "peer", "cidr", "any"})
  BY <1>2, <1>12
<1>16. \A i \in 1..n : chain[MaxGrants + i] \in exits
  BY <1>3, <1>13
<1>17. \A x \in exits : \E i \in 1..n : chain[MaxGrants + i] = x
  BY <1>3, <1>13
<1>18. chain[MaxGrants + n + 1] = ServerExitRule(r, s) /\ chain[MaxGrants + n + 2] = DefaultDeny(r, s)
  BY <1>4, <1>14
<1> QED
  BY <1>3, <1>11, <1>15, <1>16, <1>17, <1>18 DEF exits

LEMMA InputShape ==
  ASSUME NEW r, NEW s, NEW chain, chain = InputChain(r, s)
  PROVE  /\ DOMAIN chain = 1..(MaxGrants + 1)
         /\ \A i \in Position : chain[i] = RenderGrantRule(r, s, i, {"server", "any"})
         /\ chain[MaxGrants + 1] = DefaultDeny(r, s)
<1> DEFINE rules == GrantRules(r, s, {"server", "any"})
           last == <<DefaultDeny(r, s)>>
           R == {rules[i] : i \in Position} \cup {DefaultDeny(r, s)}
<1>1. rules \in Seq(R) /\ Len(rules) = MaxGrants
      /\ \A i \in Position : rules[i] = RenderGrantRule(r, s, i, {"server", "any"})
  BY ConstantsOK DEF GrantRules, Position
<1>2. last \in Seq(R) /\ Len(last) = 1 /\ last[1] = DefaultDeny(r, s)
  OBVIOUS
<1>3. chain = rules \o last
  BY DEF InputChain
<1> HIDE DEF rules, last, R
<1>4. MaxGrants \in Nat
  BY ConstantsOK
<1>5. /\ DOMAIN chain = 1..(MaxGrants + 1)
      /\ \A i \in 1..MaxGrants : chain[i] = rules[i]
      /\ \A i \in 1..1 : chain[MaxGrants + i] = last[i]
  <2>1. rules \in Seq(R) /\ last \in Seq(R)
    BY <1>1, <1>2
  <2>2. DOMAIN (rules \o last) = 1..(Len(rules) + Len(last))
    BY <2>1, Appended
  <2>3. \A i \in 1..Len(rules) : (rules \o last)[i] = rules[i]
    BY <2>1, AppendedFront
  <2>4. \A i \in 1..Len(last) : (rules \o last)[Len(rules) + i] = last[i]
    BY <2>1, AppendedBack
  <2> QED
    BY <1>1, <1>2, <1>3, <1>4, <2>2, <2>3, <2>4
<1>6. chain[MaxGrants + 1] = last[1]
  BY <1>5
<1> QED
  BY <1>1, <1>2, <1>5, <1>6 DEF Position

(***************************************************************************)
(* Packets: who sends them and by which interfaces they may leave.         *)
(***************************************************************************)
Devices(r, links) == r.servers \cup links \cup {Uplink}

LEMMA TableDevices ==
  ASSUME NEW r, RowsOK(r), NEW links \in SUBSET (Gateway \cap r.live), NEW src,
         NEW table \in TablesFor(r, links, src), NEW dst
  PROVE  LongestMatch(table, dst) \subseteq Devices(r, links)
<1>1. \A s \in r.servers : \A x \in Connected(r, s) \cup StaticRoutes(r, s, links) \cup QuickRoutes(r, s) :
        x.dev \in Devices(r, links)
  <2> SUFFICES ASSUME NEW s \in r.servers, NEW x \in Connected(r, s) \cup StaticRoutes(r, s, links) \cup QuickRoutes(r, s)
               PROVE  x.dev \in {s} \cup links
    BY DEF Devices
  <2>1. x \in Connected(r, s) \cup QuickRoutes(r, s) => x.dev = s
    BY DEF Connected, QuickRoutes, Dev
  <2>2. x \in StaticRoutes(r, s, links) => x.dev \in {s} \cup links
    BY DEF StaticRoutes, Dev, ExitNodes
  <2> QED
    BY <2>1, <2>2
<1>2. \A x \in MainTable(r, links) : x.dev \in Devices(r, links)
  <2> SUFFICES ASSUME NEW x \in MainTable(r, links) PROVE x.dev \in Devices(r, links)
    OBVIOUS
  <2>1. x \in Dev({DefaultRoute}, Uplink) \/ \E s \in r.servers : x \in Connected(r, s) \cup StaticRoutes(r, s, links)
    BY DEF MainTable
  <2>2. x \in Dev({DefaultRoute}, Uplink) => x.dev = Uplink
    BY DEF Dev
  <2> QED
    BY <1>1, <2>1, <2>2 DEF Devices
<1>3. \A g \in links : \A x \in PolicyTable(r, g, links) : x.dev \in Devices(r, links)
  <2> SUFFICES ASSUME NEW g \in links, NEW x \in PolicyTable(r, g, links) PROVE x.dev \in Devices(r, links)
    OBVIOUS
  <2>1. r.row[g].home \in r.servers
    BY DEF RowsOK, PeersOK
  <2>2. x \in Dev({DefaultRoute}, g) \/ x \in Connected(r, r.row[g].home) \cup StaticRoutes(r, r.row[g].home, links)
    BY DEF PolicyTable
  <2>3. x \in Dev({DefaultRoute}, g) => x.dev = g
    BY DEF Dev
  <2> QED
    BY <1>1, <2>1, <2>2, <2>3 DEF Devices
<1>4. \A x \in table : x.dev \in Devices(r, links)
  <2>1. CASE RuledInto(r, src, links) # {}
    <3>1. PICK g \in RuledInto(r, src, links) : table = PolicyTable(r, g, links)
      BY <2>1 DEF TablesFor
    <3> QED
      BY <1>3, <3>1 DEF RuledInto
  <2>2. CASE RuledInto(r, src, links) = {}
    <3>1. table \subseteq MainTable(r, links) \cup UNION {QuickRoutes(r, s) : s \in r.servers}
      BY <2>2 DEF TablesFor
    <3> QED
      BY <1>1, <1>2, <3>1
  <2> QED
    BY <2>1, <2>2
<1> QED
  BY <1>4 DEF LongestMatch

LEMMA PacketFacts ==
  ASSUME NEW r, RowsOK(r), NEW links \in SUBSET (Gateway \cap r.live), NEW pkt \in Packets(r, links)
  PROVE  /\ pkt.from \in r.live /\ r.row[pkt.from].home \in r.servers
         /\ pkt.src = r.row[pkt.from].addr /\ pkt.dst \in Ip /\ pkt.oif \in Oif /\ pkt.l4 \in L4
         /\ pkt.dst \in HubAddrs(r) => pkt.oif \notin Gateway \cup {Uplink}
         /\ pkt.oif \in Gateway => pkt.oif \in links
<1>1. PICK p \in Senders(r, links) : pkt \in PacketsOf(r, links, p)
  BY DEF Packets
<1> DEFINE tables == TablesFor(r, links, r.row[p].addr)
           leftovers == Leftovers(r, links, r.row[p].addr)
           Ways(to) == Oifs(r, tables, to) \cup (IF to \in HubAddrs(r) THEN {} ELSE leftovers)
<1>2. PICK d \in Destinations(r) : \E o \in Ways(d), x \in L4 :
        pkt = [from |-> p, src |-> r.row[p].addr, dst |-> d, oif |-> o, l4 |-> x]
  <2>1. PacketsOf(r, links, p) =
          UNION {{[from |-> p, src |-> r.row[p].addr, dst |-> d, oif |-> o, l4 |-> x] : o \in Ways(d), x \in L4} :
                   d \in Destinations(r)}
    BY DEF PacketsOf
  <2> HIDE DEF Ways
  <2> QED
    BY <1>1, <2>1
<1>3. PICK o \in Ways(d), x \in L4 : pkt = [from |-> p, src |-> r.row[p].addr, dst |-> d, oif |-> o, l4 |-> x]
  BY <1>2
<1>4. p \in r.live /\ r.row[p].home \in r.servers
  BY DEF Senders, RowsOK, PeersOK
<1>5. d \in Ip
  <2>1. d \in HubAddrs(r) \/ d \in AddrOf(r, r.live) \/ d = Internet \/ \E c \in AdvertisedBy(r, r.live) : d = NetworkAddress(c)
    BY DEF Destinations
  <2> QED
    BY <2>1, AddressesOK DEF AddrOf, RowsOK, PeersOK
<1>6. CASE d \in HubAddrs(r)
  <2>1. o = Loopback
    BY <1>6 DEF Oifs
  <2> QED
    BY <1>3, <1>4, <1>5, <1>6, <2>1, InterfacesOK DEF Oif
<1>7. CASE d \notin HubAddrs(r)
  <2>1. o \in leftovers => o \in Devices(r, links)
    <3>1. \A g \in links : r.row[g].home \in r.servers /\ ExitNodes(r, r.row[g].home, links) \subseteq links
      BY DEF RowsOK, PeersOK, ExitNodes
    <3> QED
      BY <3>1 DEF Leftovers, RuledInto, Devices
  <2>2. o \in Oifs(r, tables, d) => o \in Devices(r, links)
    <3> SUFFICES ASSUME o \in Oifs(r, tables, d) PROVE o \in Devices(r, links)
      OBVIOUS
    <3>1. PICK table \in tables : o \in LongestMatch(table, d)
      BY <1>7 DEF Oifs
    <3> QED
      BY <3>1, TableDevices
  <2>3. o \in Devices(r, links)
    BY <2>1, <2>2
  <2>4. r.servers \subseteq Server
    BY DEF RowsOK, PeersOK
  <2> QED
    BY <1>3, <1>4, <1>5, <1>7, <2>3, <2>4, InterfacesOK DEF Oif, Devices
<1> QED
  BY <1>6, <1>7

\* Addresses stand for peers: among the peers of a server, a set of addresses is one of peers.
LEMMA AddressIsPeer ==
  ASSUME NEW r, RowsOK(r), NEW p \in r.live, NEW S, S \subseteq PeersOf(r, r.row[p].home)
  PROVE  r.row[p].addr \in AddrOf(r, S) <=> p \in S
BY DEF AddrOf, PeersOf, RowsOK, PeersOK

\* A reference renders to the peers it covers.
LEMMA RefPeersCovered ==
  ASSUME NEW r, RowsOK(r), NEW s \in r.servers, NEW ref, ref.kind \in DstKind,
         CheckRef(ref, TagIdsOf(r, s), PeersOf(r, s))
  PROVE  RefPeers(r, s, ref) = {p \in PeersOf(r, s) : Covers(r, s, ref, p)}
<1>1. CASE ref.kind = "tag"
  <2>1. PICK t \in r.tags : t.home = s /\ t.id = ref.of
    BY <1>1 DEF CheckRef, TagIdsOf, TagsOf
  <2>2. {u \in r.tags : u.id = ref.of} = {t}
    BY <2>1 DEF RowsOK, GrantsOK
  <2>3. Members(r, ref.of) = {p \in PeersOf(r, s) : <<p, ref.of>> \in r.assigned}
    BY <2>1, <2>2 DEF Members
  <2> QED
    BY <1>1, <2>3 DEF RefPeers, Covers, Names, CheckRef
<1>2. CASE ref.kind = "peer"
  BY <1>2 DEF RefPeers, Covers, Names, CheckRef
<1>3. CASE ref.kind \in {"cidr", "server", "any"}
  BY <1>3 DEF RefPeers, Covers, Names
<1> QED
  BY <1>1, <1>2, <1>3 DEF DstKind

(***************************************************************************)
(* The ruleset and the policy.                                             *)
(***************************************************************************)
\* The enabled grants that cover a packet, of which Deciding is the first.
Decides(r, s, pkt) ==
  {i \in Enabled(r, s) : /\ Covers(r, s, r.grants[s][i].src, pkt.from)
                         /\ Reaches(r, s, r.grants[s][i].dst, pkt.dst) /\ pkt.l4 \in RenderL4(r.grants[s][i])}

HookKinds(r, pkt) == IF pkt.dst \in HubAddrs(r) THEN {"server", "any"} ELSE {"tag", "peer", "cidr", "any"}

\* The rule of a grant matches the packets that the grant covers.
LEMMA GrantRuleMatches ==
  ASSUME NEW r, RowsOK(r), NEW links \in SUBSET (Gateway \cap r.live), NEW pkt \in Packets(r, links),
         NEW s, s = r.row[pkt.from].home, NEW i \in Position
  PROVE  Matches(RenderGrantRule(r, s, i, HookKinds(r, pkt)), pkt) <=> i \in Decides(r, s, pkt)
<1> DEFINE g == r.grants[s][i]
           rule == RenderGrantRule(r, s, i, HookKinds(r, pkt))
<1>1. /\ pkt.from \in r.live /\ s \in r.servers /\ pkt.src = r.row[pkt.from].addr
      /\ pkt.dst \in Ip /\ pkt.oif \in Oif /\ pkt.l4 \in L4
  BY PacketFacts
<1>2. CASE i \notin Enabled(r, s)
  <2>1. rule = NoRule
    BY <1>2 DEF RenderGrantRule
  <2> QED
    BY <1>2, <2>1 DEF Matches, NoRule, Decides
<1>3. CASE i \in Enabled(r, s)
  <2>1. /\ g.src.kind \in SrcKind /\ g.dst.kind \in DstKind
        /\ CheckRef(g.src, TagIdsOf(r, s), PeersOf(r, s)) /\ CheckRef(g.dst, TagIdsOf(r, s), PeersOf(r, s))
    BY <1>1, <1>3 DEF Enabled, RowsOK, GrantsOK
  <2> HIDE DEF g
  <2>2. pkt.src \in AddrOf(r, RefPeers(r, s, g.src)) <=> Covers(r, s, g.src, pkt.from)
    <3>1. RefPeers(r, s, g.src) = {p \in PeersOf(r, s) : Covers(r, s, g.src, p)}
      BY <1>1, <2>1, RefPeersCovered DEF SrcKind, DstKind
    <3>2. pkt.from \in PeersOf(r, s)
      BY <1>1 DEF PeersOf
    <3> QED
      BY <1>1, <3>1, <3>2, AddressIsPeer
  <2>3. (g.dst.kind \in HookKinds(r, pkt) /\ pkt.dst \in RenderDst(r, s, g.dst)) <=> Reaches(r, s, g.dst, pkt.dst)
    <3>1. CASE g.dst.kind \in {"tag", "peer"}
      <4>1. RefPeers(r, s, g.dst) = {p \in PeersOf(r, s) : Covers(r, s, g.dst, p)}
        BY <1>1, <2>1, RefPeersCovered
      <4>2. RenderDst(r, s, g.dst) = {r.row[p].addr : p \in {q \in PeersOf(r, s) : Covers(r, s, g.dst, q)}}
        BY <3>1, <4>1 DEF RenderDst, AddrOf
      <4> QED
        BY <3>1, <4>2 DEF HookKinds, Reaches
    <3>2. CASE g.dst.kind = "cidr"
      <4>1. pkt.dst \in RenderDst(r, s, g.dst) <=> CidrContains(g.dst.of, pkt.dst)
        BY <1>1, <3>2 DEF RenderDst, Block, CidrContains, Ip
      <4>2. \A q : ~Covers(r, s, g.dst, q)
        BY <3>2 DEF Covers, Names
      <4> QED
        BY <3>2, <4>1, <4>2 DEF HookKinds, Reaches
    <3>3. CASE g.dst.kind \in {"server", "any"}
      <4>1. \A q : ~Covers(r, s, g.dst, q)
        BY <3>3 DEF Covers, Names
      <4> QED
        BY <1>1, <3>3, <4>1 DEF HookKinds, Reaches, RenderDst
    <3> QED
      BY <2>1, <3>1, <3>2, <3>3 DEF DstKind
  <2>4. i \in Decides(r, s, pkt) <=>
          Covers(r, s, g.src, pkt.from) /\ Reaches(r, s, g.dst, pkt.dst) /\ pkt.l4 \in RenderL4(g)
    BY <1>3 DEF Decides, g
  <2>5. CASE g.dst.kind \in HookKinds(r, pkt)
    <3>1. /\ rule.src = AddrOf(r, RefPeers(r, s, g.src)) /\ rule.dst = RenderDst(r, s, g.dst)
          /\ rule.oif = Oif /\ rule.l4 = RenderL4(g)
      BY <1>3, <2>5 DEF RenderGrantRule, g
    <3> QED
      BY <1>1, <2>2, <2>3, <2>4, <2>5, <3>1 DEF Matches
  <2>6. CASE g.dst.kind \notin HookKinds(r, pkt)
    <3>1. rule = NoRule
      BY <2>6 DEF RenderGrantRule, g
    <3> QED
      BY <2>3, <2>4, <2>6, <3>1 DEF Matches, NoRule
  <2> QED
    BY <2>5, <2>6
<1> QED
  BY <1>2, <1>3

\* Who is governed, by address and by peer.
IsGoverned(r, s, p) ==
  \/ \E t \in TagsOf(r, s) : <<p, t.id>> \in r.assigned
  \/ \E i \in Enabled(r, s) : Names(r.grants[s][i].src, "peer", p)

LEMMA GovernedAddress ==
  ASSUME NEW r, RowsOK(r), NEW p \in r.live, NEW s, s = r.row[p].home
  PROVE  r.row[p].addr \in AddrOf(r, Governed(r, s)) <=> IsGoverned(r, s, p)
<1>1. Governed(r, s) \subseteq PeersOf(r, s)
  BY DEF Governed
<1>2. p \in PeersOf(r, s)
  BY DEF PeersOf
<1>3. TagIdsOfPeer(r, p) \cap TagIdsOf(r, s) # {} <=> \E t \in TagsOf(r, s) : <<p, t.id>> \in r.assigned
  <2>1. \A t \in TagsOf(r, s) : <<p, t.id>> \in r.assigned => t.id \in TagIdsOfPeer(r, p) \cap TagIdsOf(r, s)
    BY DEF TagIdsOfPeer, TagIdsOf
  <2>2. \A id \in TagIdsOfPeer(r, p) : <<p, id>> \in r.assigned
    BY DEF TagIdsOfPeer, RowsOK, GrantsOK
  <2>3. \A id \in TagIdsOf(r, s) : \E t \in TagsOf(r, s) : t.id = id
    BY DEF TagIdsOf
  <2> QED
    BY <2>1, <2>2, <2>3
<1>4. p \in Governed(r, s) <=> IsGoverned(r, s, p)
  BY <1>2, <1>3 DEF Governed, IsGoverned
<1> QED
  BY <1>1, <1>4, AddressIsPeer

\* The rules of the exits match the packets that take the exit their sender chose.
LEMMA ExitRuleMatches ==
  ASSUME NEW r, RowsOK(r), NEW links \in SUBSET (Gateway \cap r.live), NEW pkt \in Packets(r, links),
         NEW s, s = r.row[pkt.from].home
  PROVE  (\E rule \in Exits(r, s, links) : Matches(rule, pkt)) <=>
           pkt.oif \in Gateway /\ pkt.oif = r.row[pkt.from].via /\ InternetBound(r, s, pkt)
<1>1. /\ pkt.from \in r.live /\ s \in r.servers /\ pkt.src = r.row[pkt.from].addr
      /\ pkt.dst \in Ip /\ pkt.l4 \in L4 /\ (pkt.oif \in Gateway => pkt.oif \in links)
  BY PacketFacts
<1>2. pkt.dst \in Ip \ Excluded(r, s) <=> InternetBound(r, s, pkt)
  <2>1. \A c : pkt.dst \in Block(c) <=> CidrContains(c, pkt.dst)
    BY <1>1 DEF Block, CidrContains, Ip
  <2> QED
    BY <1>1, <2>1 DEF Excluded, InternetBound
<1>3. \A g \in links : g \in ExitNodes(r, s, links) /\ pkt.src \in AddrOf(r, ExitClients(r, g)) <=> r.row[pkt.from].via = g
  <2> SUFFICES ASSUME NEW g \in links
               PROVE  g \in ExitNodes(r, s, links) /\ pkt.src \in AddrOf(r, ExitClients(r, g)) <=> r.row[pkt.from].via = g
    OBVIOUS
  <2>1. g \in r.live /\ g # Null
    BY ConstantsOK
  <2>2. ASSUME r.row[pkt.from].via = g
        PROVE  g \in ExitNodes(r, s, links) /\ pkt.from \in ExitClients(r, g) /\ ExitClients(r, g) \subseteq PeersOf(r, s)
    <3>1. r.row[g].home = s /\ g # pkt.from
      BY <1>1, <2>1, <2>2 DEF RowsOK, ViasOK
    <3> QED
      BY <1>1, <2>1, <2>2, <3>1 DEF ExitNodes, ExitClients, PeersOf
  <2>3. ASSUME g \in ExitNodes(r, s, links), pkt.src \in AddrOf(r, ExitClients(r, g))
        PROVE  r.row[pkt.from].via = g
    <3>1. ExitClients(r, g) \subseteq PeersOf(r, s)
      BY <2>3 DEF ExitClients, ExitNodes, PeersOf
    <3>2. pkt.from \in ExitClients(r, g)
      BY <1>1, <2>3, <3>1, AddressIsPeer
    <3> QED
      BY <3>2 DEF ExitClients
  <2>4. r.row[pkt.from].via = g => pkt.src \in AddrOf(r, ExitClients(r, g))
    BY <1>1, <2>2 DEF AddrOf
  <2> QED
    BY <2>2, <2>3, <2>4
<1>4. ExitNodes(r, s, links) \subseteq links
  BY DEF ExitNodes
<1>5. \A g \in ExitNodes(r, s, links) :
        Matches(ExitRule(r, s, g), pkt) <=>
          pkt.src \in AddrOf(r, ExitClients(r, g)) /\ pkt.dst \in Ip \ Excluded(r, s) /\ pkt.oif = g
  BY <1>1 DEF Matches, ExitRule
<1>6. (\E rule \in Exits(r, s, links) : Matches(rule, pkt)) <=> \E g \in ExitNodes(r, s, links) : Matches(ExitRule(r, s, g), pkt)
  BY DEF Exits
<1> QED
  BY <1>1, <1>2, <1>3, <1>4, <1>5, <1>6

LEMMA UplinkRuleMatches ==
  ASSUME NEW r, RowsOK(r), NEW links \in SUBSET (Gateway \cap r.live), NEW pkt \in Packets(r, links),
         NEW s, s = r.row[pkt.from].home
  PROVE  /\ Matches(ServerExitRule(r, s), pkt) <=> OnUplink(r, s, pkt)
         /\ pkt.oif = Uplink /\ pkt.src \in AddrOf(r, ServerExitClients(r, s)) <=> OnUplink(r, s, pkt)
<1>1. /\ pkt.from \in r.live /\ pkt.src = r.row[pkt.from].addr /\ pkt.dst \in Ip /\ pkt.l4 \in L4
  BY PacketFacts
<1>2. ServerExitClients(r, s) \subseteq PeersOf(r, s) /\ pkt.from \in PeersOf(r, s)
  BY <1>1 DEF ServerExitClients, PeersOf
<1>3. pkt.src \in AddrOf(r, ServerExitClients(r, s)) <=> pkt.from \in ServerExitClients(r, s)
  BY <1>1, <1>2, AddressIsPeer
<1>4. pkt.from \in ServerExitClients(r, s) <=> r.row[pkt.from].viaServer /\ r.srv[s].offers
  BY <1>2 DEF ServerExitClients
<1> QED
  BY <1>1, <1>3, <1>4 DEF Matches, ServerExitRule, OnUplink

\* The grant that decides is the first one that covers the packet.
LEMMA FirstDecides ==
  ASSUME NEW r, NEW s, NEW pkt
  PROVE  /\ Decides(r, s, pkt) = {} => Deciding(r, s, pkt) = {}
         /\ Decides(r, s, pkt) # {} =>
              \E k \in Decides(r, s, pkt) : Deciding(r, s, pkt) = {k} /\ \A j \in Decides(r, s, pkt) : k <= j
<1> DEFINE decides == Decides(r, s, pkt)
<1>1. Deciding(r, s, pkt) = {i \in decides : \A j \in decides : i <= j}
  BY DEF Deciding, Decides
<1>2. decides \in SUBSET Nat
  BY ConstantsOK DEF Decides, Enabled, GrantsOf, Position
<1> HIDE DEF decides
<1>3. ASSUME decides # {} PROVE \E k \in decides : \A j \in decides : k <= j
  BY <1>2, <1>3, Smallest
<1>4. \A k, i \in decides : k <= i /\ i <= k => i = k
  BY <1>2
<1> QED
  BY <1>1, <1>3, <1>4 DEF decides

\* A chain that starts with the rules of the grants.
GrantsFirst(r, s, pkt, chain) ==
  /\ \E n \in Nat : DOMAIN chain = 1..n /\ MaxGrants <= n
  /\ \A i \in Position : chain[i] = RenderGrantRule(r, s, i, HookKinds(r, pkt))

LEMMA DecidedByGrant ==
  ASSUME NEW r, RowsOK(r), NEW links \in SUBSET (Gateway \cap r.live), NEW pkt \in Packets(r, links),
         NEW s, s = r.row[pkt.from].home, NEW chain, GrantsFirst(r, s, pkt, chain),
         NEW k \in Decides(r, s, pkt), \A j \in Decides(r, s, pkt) : k <= j
  PROVE  FirstMatch(chain, pkt) = IF r.grants[s][k].action = "allow" THEN "accept" ELSE "drop"
<1> PICK n \in Nat : DOMAIN chain = 1..n /\ MaxGrants <= n
  BY DEF GrantsFirst
<1>1. k \in Position /\ k \in 1..n /\ \A j \in 1..(k - 1) : j \in Position
  <2>1. k \in Position
    BY DEF Decides, Enabled, GrantsOf
  <2>2. MaxGrants \in Nat
    BY ConstantsOK
  <2> QED
    BY <2>1, <2>2 DEF Position
<1>2. \A i \in Position : Matches(chain[i], pkt) <=> i \in Decides(r, s, pkt)
  BY GrantRuleMatches DEF GrantsFirst
<1>3. \A j \in 1..(k - 1) : ~Matches(chain[j], pkt)
  BY <1>1, <1>2
<1>4. FirstMatch(chain, pkt) = chain[k].verdict
  BY <1>1, <1>2, <1>3, FirstRule
<1>5. chain[k] # NoRule
  BY <1>1, <1>2 DEF Matches, NoRule
<1> QED
  <2>1. chain[k] = RenderGrantRule(r, s, k, HookKinds(r, pkt))
    BY <1>1 DEF GrantsFirst
  <2> DEFINE ruled == IF r.grants[s][k].action = "allow" THEN "accept" ELSE "drop"
             from == AddrOf(r, RefPeers(r, s, r.grants[s][k].src))
             to == RenderDst(r, s, r.grants[s][k].dst)
             l4 == RenderL4(r.grants[s][k])
  <2>2. chain[k] = [src |-> from, dst |-> to, oif |-> Oif, l4 |-> l4, verdict |-> ruled]
    BY <1>5, <2>1 DEF RenderGrantRule
  <2> HIDE DEF ruled, from, to, l4
  <2>3. chain[k].verdict = ruled
    BY <2>2
  <2> QED
    BY <1>4, <2>3 DEF ruled

\* Without such a grant: the exit that the sender chose, then the default deny.
LEMMA Forwarded ==
  ASSUME NEW r, RowsOK(r), NEW links \in SUBSET (Gateway \cap r.live), NEW pkt \in Packets(r, links),
         NEW s, s = r.row[pkt.from].home, pkt.dst \notin HubAddrs(r), Decides(r, s, pkt) = {}
  PROVE  FirstMatch(ForwardChain(r, s, links), pkt) =
           IF IsGoverned(r, s, pkt.from) => ThroughChosenExit(r, s, pkt) THEN "accept" ELSE "drop"
<1> DEFINE chain == ForwardChain(r, s, links)
           n == Cardinality(Exits(r, s, links))
<1>1. /\ n \in Nat /\ DOMAIN chain = 1..(MaxGrants + n + 2)
      /\ \A i \in Position : chain[i] = RenderGrantRule(r, s, i, {"tag", "peer", "cidr", "any"})
      /\ \A i \in 1..n : chain[MaxGrants + i] \in Exits(r, s, links)
      /\ \A x \in Exits(r, s, links) : \E i \in 1..n : chain[MaxGrants + i] = x
      /\ chain[MaxGrants + n + 1] = ServerExitRule(r, s) /\ chain[MaxGrants + n + 2] = DefaultDeny(r, s)
  BY ForwardShape
<1> HIDE DEF chain, n
<1>2. MaxGrants \in Nat /\ Position = 1..MaxGrants
  BY ConstantsOK DEF Position
<1>3. \A i \in Position : ~Matches(chain[i], pkt)
  BY <1>1, GrantRuleMatches DEF HookKinds
<1>4. \A i \in 1..n : chain[MaxGrants + i].verdict = "accept"
  <2>1. \A x \in Exits(r, s, links) : x.verdict = "accept"
    BY DEF Exits, ExitRule
  <2> QED
    BY <1>1, <2>1
<1>5. chain[MaxGrants + n + 1].verdict = "accept" /\ chain[MaxGrants + n + 2].verdict = "drop"
  BY <1>1 DEF ServerExitRule, DefaultDeny
<1>6. Matches(chain[MaxGrants + n + 1], pkt) <=> OnUplink(r, s, pkt)
  BY <1>1, UplinkRuleMatches
<1>7. (\E i \in 1..n : Matches(chain[MaxGrants + i], pkt)) <=>
        pkt.oif \in Gateway /\ pkt.oif = r.row[pkt.from].via /\ InternetBound(r, s, pkt)
  BY <1>1, ExitRuleMatches
<1>8. Matches(chain[MaxGrants + n + 2], pkt) <=> IsGoverned(r, s, pkt.from)
  <2>1. /\ pkt.from \in r.live /\ pkt.src = r.row[pkt.from].addr /\ pkt.dst \in Ip /\ pkt.oif \in Oif /\ pkt.l4 \in L4
    BY PacketFacts
  <2>2. Matches(DefaultDeny(r, s), pkt) <=> pkt.src \in AddrOf(r, Governed(r, s))
    BY <2>1 DEF Matches, DefaultDeny
  <2> QED
    BY <1>1, <2>1, <2>2, GovernedAddress
<1>9. \A i \in 1..(MaxGrants + n + 2) :
        i \in Position \/ (\E j \in 1..n : i = MaxGrants + j) \/ i = MaxGrants + n + 1 \/ i = MaxGrants + n + 2
  <2> SUFFICES ASSUME NEW i \in 1..(MaxGrants + n + 2), i \notin Position, i # MaxGrants + n + 1, i # MaxGrants + n + 2
               PROVE  \E j \in 1..n : i = MaxGrants + j
    OBVIOUS
  <2>1. i - MaxGrants \in 1..n /\ i = MaxGrants + (i - MaxGrants)
    BY <1>1, <1>2
  <2> QED
    BY <2>1
<1>10. ThroughChosenExit(r, s, pkt) <=> \E i \in 1..(MaxGrants + n + 1) : Matches(chain[i], pkt)
  <2>1. \A j \in 1..n : MaxGrants + j \in 1..(MaxGrants + n + 1)
    BY <1>1, <1>2
  <2>2. MaxGrants + n + 1 \in 1..(MaxGrants + n + 1)
    BY <1>1, <1>2
  <2>3. \A i \in 1..(MaxGrants + n + 1) : i \in 1..(MaxGrants + n + 2) /\ i # MaxGrants + n + 2
    BY <1>1, <1>2
  <2> QED
    BY <1>3, <1>6, <1>7, <1>9, <2>1, <2>2, <2>3 DEF ThroughChosenExit
<1>11. \A i \in 1..(MaxGrants + n + 1) : i \in 1..(MaxGrants + n + 2) /\ (i \in Position \/ chain[i].verdict = "accept")
  <2> SUFFICES ASSUME NEW i \in 1..(MaxGrants + n + 1), i \notin Position
               PROVE  i \in 1..(MaxGrants + n + 2) /\ chain[i].verdict = "accept"
    BY <1>1, <1>2
  <2>1. i \in 1..(MaxGrants + n + 2) /\ i # MaxGrants + n + 2
    BY <1>1, <1>2
  <2> QED
    BY <1>4, <1>5, <1>9, <2>1
<1> DEFINE size == MaxGrants + n + 2
<1>12. size \in Nat /\ DOMAIN chain = 1..size
  BY <1>1, <1>2
<1>13. CASE ThroughChosenExit(r, s, pkt)
  <2> DEFINE hits == {i \in 1..(MaxGrants + n + 1) : Matches(chain[i], pkt)}
  <2>1. hits \in SUBSET Nat /\ hits # {}
    BY <1>10, <1>13
  <2>2. PICK k \in hits : \A j \in hits : k <= j
    <3> HIDE DEF hits
    <3> QED
      BY <2>1, Smallest
  <2>3. k \in 1..(MaxGrants + n + 1) /\ Matches(chain[k], pkt) /\ k \in 1..size /\ chain[k].verdict = "accept"
    BY <1>3, <1>11
  <2>4. \A j \in 1..(k - 1) : ~Matches(chain[j], pkt)
    <3> SUFFICES ASSUME NEW j \in 1..(k - 1) PROVE ~Matches(chain[j], pkt)
      OBVIOUS
    <3>1. j \in 1..(MaxGrants + n + 1) /\ ~(k <= j)
      BY <1>1, <1>2, <2>3
    <3> QED
      BY <2>2, <3>1
  <2>5. FirstMatch(chain, pkt) = chain[k].verdict
    <3> HIDE DEF size, hits
    <3> QED
      BY <1>12, <2>3, <2>4, FirstRule
  <2> QED
    BY <1>13, <2>3, <2>5 DEF chain
<1>14. CASE ~ThroughChosenExit(r, s, pkt)
  <2>1. \A i \in 1..(MaxGrants + n + 1) : ~Matches(chain[i], pkt)
    BY <1>10, <1>14
  <2>2. \A i \in 1..size : Matches(chain[i], pkt) => i = size
    <3> SUFFICES ASSUME NEW i \in 1..size, i # size PROVE ~Matches(chain[i], pkt)
      OBVIOUS
    <3>1. i \in 1..(MaxGrants + n + 1)
      BY <1>1, <1>2
    <3> QED
      BY <2>1, <3>1
  <2>3. size \in 1..size /\ (Matches(chain[size], pkt) <=> IsGoverned(r, s, pkt.from)) /\ chain[size].verdict = "drop"
    BY <1>1, <1>2, <1>5, <1>8
  <2>4. \A j \in 1..(size - 1) : j \in 1..size /\ j # size
    BY <1>12
  <2> HIDE DEF size
  <2>5. CASE IsGoverned(r, s, pkt.from)
    <3>1. FirstMatch(chain, pkt) = chain[size].verdict
      BY <1>12, <2>2, <2>3, <2>4, <2>5, FirstRule
    <3> QED
      BY <1>14, <2>3, <2>5, <3>1 DEF chain
  <2>6. CASE ~IsGoverned(r, s, pkt.from)
    <3>1. FirstMatch(chain, pkt) = "accept"
      BY <1>12, <2>2, <2>3, <2>6, FirstRule
    <3> QED
      BY <2>6, <3>1 DEF chain
  <2> QED
    BY <2>5, <2>6
<1> QED
  BY <1>13, <1>14

LEMMA Received ==
  ASSUME NEW r, RowsOK(r), NEW links \in SUBSET (Gateway \cap r.live), NEW pkt \in Packets(r, links),
         NEW s, s = r.row[pkt.from].home, pkt.dst \in HubAddrs(r), Decides(r, s, pkt) = {}, IsGoverned(r, s, pkt.from)
  PROVE  FirstMatch(InputChain(r, s), pkt) = "drop"
<1> DEFINE chain == InputChain(r, s)
           size == MaxGrants + 1
<1>1. /\ DOMAIN chain = 1..size
      /\ \A i \in Position : chain[i] = RenderGrantRule(r, s, i, {"server", "any"})
      /\ chain[size] = DefaultDeny(r, s)
  BY InputShape
<1> HIDE DEF chain
<1>2. size \in Nat /\ size \in 1..size /\ \A j \in 1..(size - 1) : j \in Position
  BY ConstantsOK DEF Position
<1> HIDE DEF size
<1>3. \A i \in Position : ~Matches(chain[i], pkt)
  BY <1>1, GrantRuleMatches DEF HookKinds
<1>4. Matches(chain[size], pkt)
  <2>1. /\ pkt.from \in r.live /\ pkt.src = r.row[pkt.from].addr /\ pkt.dst \in Ip /\ pkt.oif \in Oif /\ pkt.l4 \in L4
    BY PacketFacts
  <2>2. pkt.src \in AddrOf(r, Governed(r, s))
    BY <2>1, GovernedAddress
  <2> QED
    BY <1>1, <2>1, <2>2 DEF Matches, DefaultDeny
<1>5. FirstMatch(chain, pkt) = chain[size].verdict
  BY <1>1, <1>2, <1>3, <1>4, FirstRule
<1> QED
  BY <1>1, <1>5 DEF chain, DefaultDeny

\* The verdict of the chains of the server the packet came in by, with the set of that server alone.
OwnVerdict(own, r, pkt) ==
  IF pkt.dst \in HubAddrs(r)
  THEN IF pkt.src \in own.governed THEN FirstMatch(own.input, pkt) ELSE "accept"
  ELSE IF FirstMatch(own.forward, pkt) = "accept" /\ pkt.oif = Uplink /\ pkt.src \in own.uplink
       THEN "masquerade" ELSE FirstMatch(own.forward, pkt)

\* For any rows with these facts the chains and the set of a server decide as the policy does.
LEMMA OwnVerdictIsPolicy ==
  ASSUME NEW r, RowsOK(r), NEW links \in SUBSET (Gateway \cap r.live), NEW pkt \in Packets(r, links)
  PROVE  OwnVerdict(BuildRuleset(r, links)[r.row[pkt.from].home], r, pkt) = PolicyVerdict(r, pkt)
<1> DEFINE s == r.row[pkt.from].home
           own == BuildRuleset(r, links)[s]
<1> SUFFICES OwnVerdict(own, r, pkt) = PolicyVerdict(r, pkt)
  OBVIOUS
<1>1. /\ pkt.from \in r.live /\ s \in r.servers /\ pkt.src = r.row[pkt.from].addr
      /\ (pkt.dst \in HubAddrs(r) => pkt.oif \notin Gateway \cup {Uplink})
  BY PacketFacts
<1>2. OwnVerdict(own, r, pkt) =
        IF pkt.dst \in HubAddrs(r)
        THEN IF pkt.src \in own.governed THEN FirstMatch(own.input, pkt) ELSE "accept"
        ELSE IF FirstMatch(own.forward, pkt) = "accept" /\ pkt.oif = Uplink /\ pkt.src \in own.uplink
             THEN "masquerade" ELSE FirstMatch(own.forward, pkt)
  BY DEF OwnVerdict
<1>3. own = IF Enforces(r, s, links)
            THEN [governed |-> AddrOf(r, Governed(r, s)), uplink |-> AddrOf(r, ServerExitClients(r, s)),
                  forward |-> ForwardChain(r, s, links), input |-> InputChain(r, s)]
            ELSE [governed |-> {}, uplink |-> {}, forward |-> <<>>, input |-> <<>>]
  BY <1>1 DEF BuildRuleset
<1>4. PolicyVerdict(r, pkt) =
        IF (IF Deciding(r, s, pkt) # {} THEN \A i \in Deciding(r, s, pkt) : r.grants[s][i].action = "allow"
            ELSE IsGoverned(r, s, pkt.from) => ThroughChosenExit(r, s, pkt))
        THEN IF OnUplink(r, s, pkt) THEN "masquerade" ELSE "accept" ELSE "drop"
  BY DEF PolicyVerdict, IsGoverned
<1>5. pkt.dst \in HubAddrs(r) => ~OnUplink(r, s, pkt) /\ ~ThroughChosenExit(r, s, pkt)
  BY <1>1 DEF OnUplink, ThroughChosenExit
<1>6. Decides(r, s, pkt) # {} => IsGoverned(r, s, pkt.from)
  BY DEF Decides, Covers, IsGoverned, TagIdsOf
<1>7. pkt.src \in AddrOf(r, Governed(r, s)) <=> IsGoverned(r, s, pkt.from)
  BY <1>1, GovernedAddress
<1>8. pkt.oif = Uplink /\ pkt.src \in AddrOf(r, ServerExitClients(r, s)) <=> OnUplink(r, s, pkt)
  BY UplinkRuleMatches
<1>9. OnUplink(r, s, pkt) => ServerExitClients(r, s) # {}
  BY <1>1 DEF OnUplink, ServerExitClients, PeersOf
<1> HIDE DEF s, own
<1>10. CASE ~Enforces(r, s, links)
  <2>1. TagsOf(r, s) = {} /\ Enabled(r, s) = {} /\ ServerExitClients(r, s) = {}
    BY <1>10 DEF Enforces
  <2>2. Decides(r, s, pkt) = {} /\ ~IsGoverned(r, s, pkt.from) /\ ~OnUplink(r, s, pkt)
    BY <1>9, <2>1 DEF Decides, IsGoverned
  <2>3. Deciding(r, s, pkt) = {}
    BY <2>2, FirstDecides
  <2>4. PolicyVerdict(r, pkt) = "accept"
    BY <1>4, <2>2, <2>3
  <2>5. own.governed = {} /\ own.uplink = {} /\ own.forward = <<>>
    BY <1>3, <1>10
  <2>6. FirstMatch(own.forward, pkt) = "accept"
    BY <2>5 DEF FirstMatch
  <2> QED
    BY <1>2, <2>4, <2>5, <2>6
<1>11. CASE Enforces(r, s, links)
  <2>1. /\ own.governed = AddrOf(r, Governed(r, s)) /\ own.uplink = AddrOf(r, ServerExitClients(r, s))
        /\ own.forward = ForwardChain(r, s, links) /\ own.input = InputChain(r, s)
    BY <1>3, <1>11
  <2>2. s = r.row[pkt.from].home
    BY DEF s
  <2>3. CASE Decides(r, s, pkt) # {}
    <3>1. PICK k \in Decides(r, s, pkt) : Deciding(r, s, pkt) = {k} /\ \A j \in Decides(r, s, pkt) : k <= j
      BY <2>3, FirstDecides
    <3> DEFINE ruled == IF r.grants[s][k].action = "allow" THEN "accept" ELSE "drop"
    <3>9. \A j \in Decides(r, s, pkt) : k <= j
      BY <3>1
    <3>2. CASE pkt.dst \in HubAddrs(r)
      <4> DEFINE chain == InputChain(r, s)
                 n == MaxGrants + 1
      <4>1. DOMAIN chain = 1..n /\ \A i \in Position : chain[i] = RenderGrantRule(r, s, i, HookKinds(r, pkt))
        BY <3>2, InputShape DEF HookKinds
      <4>2. n \in Nat /\ MaxGrants <= n
        BY ConstantsOK
      <4> HIDE DEF chain, n
      <4>3. GrantsFirst(r, s, pkt, chain)
        BY <4>1, <4>2 DEF GrantsFirst
      <4>4. FirstMatch(chain, pkt) = ruled
        BY <2>2, <3>9, <4>3, DecidedByGrant
      <4> QED
        BY <1>2, <1>4, <1>5, <1>6, <1>7, <2>1, <2>3, <3>1, <3>2, <4>4 DEF chain
    <3>3. CASE pkt.dst \notin HubAddrs(r)
      <4> DEFINE chain == ForwardChain(r, s, links)
                 m == Cardinality(Exits(r, s, links))
                 n == MaxGrants + m + 2
      <4>1. m \in Nat /\ DOMAIN chain = 1..n
        BY ForwardShape
      <4>2. \A i \in Position : chain[i] = RenderGrantRule(r, s, i, HookKinds(r, pkt))
        BY <3>3, ForwardShape DEF HookKinds
      <4> HIDE DEF chain, m
      <4>3. n \in Nat /\ MaxGrants <= n
        BY <4>1, ConstantsOK
      <4> HIDE DEF n
      <4>4. GrantsFirst(r, s, pkt, chain)
        BY <4>1, <4>2, <4>3 DEF GrantsFirst
      <4>5. FirstMatch(chain, pkt) = ruled
        BY <2>2, <3>9, <4>4, DecidedByGrant
      <4> QED
        BY <1>2, <1>4, <1>8, <2>1, <3>1, <3>3, <4>5 DEF chain
    <3> QED
      BY <3>2, <3>3
  <2>4. CASE Decides(r, s, pkt) = {}
    <3>1. Deciding(r, s, pkt) = {}
      BY <2>4, FirstDecides
    <3>2. CASE pkt.dst \in HubAddrs(r)
      <4>1. IsGoverned(r, s, pkt.from) => FirstMatch(InputChain(r, s), pkt) = "drop"
        BY <2>2, <2>4, <3>2, Received
      <4> QED
        BY <1>2, <1>4, <1>5, <1>7, <2>1, <3>1, <3>2, <4>1
    <3>3. CASE pkt.dst \notin HubAddrs(r)
      <4>1. FirstMatch(ForwardChain(r, s, links), pkt) =
              IF IsGoverned(r, s, pkt.from) => ThroughChosenExit(r, s, pkt) THEN "accept" ELSE "drop"
        BY <2>2, <2>4, <3>3, Forwarded
      <4>2. OnUplink(r, s, pkt) => ThroughChosenExit(r, s, pkt)
        BY DEF ThroughChosenExit
      <4> QED
        BY <1>2, <1>4, <1>8, <2>1, <3>1, <3>3, <4>1, <4>2
    <3> QED
      BY <3>2, <3>3
  <2> QED
    BY <2>3, <2>4
<1> QED
  BY <1>10, <1>11

\* An address in the set of another server is the address of a client of its uplink.
LEMMA AnotherSet ==
  ASSUME NEW r, NEW links, NEW pkt, NEW s \in r.servers \ {r.row[pkt.from].home}, pkt.oif = Uplink,
         pkt.src \in BuildRuleset(r, links)[s].uplink
  PROVE  AddressOfAnotherClient(r, pkt)
<1>1. BuildRuleset(r, links)[s].uplink \subseteq AddrOf(r, ServerExitClients(r, s))
  BY DEF BuildRuleset
<1>2. PICK q \in ServerExitClients(r, s) : pkt.src = r.row[q].addr
  BY <1>1 DEF AddrOf
<1>3. q \in PeersOf(r, s) /\ r.row[q].viaServer /\ r.srv[s].offers
  BY <1>2 DEF ServerExitClients
<1> QED
  BY <1>2, <1>3 DEF AddressOfAnotherClient

\* For any rows with these facts the ruleset of the host decides as the policy does, but for the
\* masquerade of an address that is in the set of another server.
LEMMA VerdictIsPolicy ==
  ASSUME NEW r, RowsOK(r), NEW links \in SUBSET (Gateway \cap r.live), NEW pkt \in Packets(r, links)
  PROVE  \/ Verdict(BuildRuleset(r, links), r, pkt) = PolicyVerdict(r, pkt)
         \/ /\ AddressOfAnotherClient(r, pkt) /\ PolicyVerdict(r, pkt) = "accept"
            /\ Verdict(BuildRuleset(r, links), r, pkt) = "masquerade"
<1> DEFINE s == r.row[pkt.from].home
           ruleset == BuildRuleset(r, links)
           own == ruleset[s]
<1>1. s \in r.servers
  BY PacketFacts
<1>2. OwnVerdict(own, r, pkt) = PolicyVerdict(r, pkt)
  BY OwnVerdictIsPolicy
<1>3. ASSUME NEW t \in r.servers \ {s}, pkt.oif = Uplink, pkt.src \in ruleset[t].uplink
      PROVE  AddressOfAnotherClient(r, pkt)
  BY <1>3, AnotherSet
<1> HIDE DEF s, ruleset
<1>4. CASE ~Masquerades(ruleset, r, pkt) \/ pkt.src \in own.uplink
  <2>1. pkt.oif = Uplink => (Masquerades(ruleset, r, pkt) <=> pkt.src \in own.uplink)
    BY <1>1, <1>4 DEF Masquerades
  <2>2. Masquerades(ruleset, r, pkt) => pkt.oif = Uplink
    BY DEF Masquerades
  <2>3. Verdict(ruleset, r, pkt) = OwnVerdict(own, r, pkt)
    BY <2>1, <2>2 DEF Verdict, OwnVerdict, s
  <2> QED
    BY <1>2, <2>3 DEF ruleset
<1>5. CASE Masquerades(ruleset, r, pkt) /\ pkt.src \notin own.uplink
  <2>1. PICK t \in r.servers : pkt.src \in ruleset[t].uplink
    BY <1>5 DEF Masquerades
  <2>2. pkt.oif = Uplink /\ t # s
    BY <1>5, <2>1 DEF Masquerades
  <2>3. AddressOfAnotherClient(r, pkt)
    BY <1>3, <2>1, <2>2
  <2>4. \/ Verdict(ruleset, r, pkt) = OwnVerdict(own, r, pkt)
        \/ OwnVerdict(own, r, pkt) = "accept" /\ Verdict(ruleset, r, pkt) = "masquerade"
    BY <1>5 DEF Verdict, OwnVerdict, s
  <2> QED
    BY <1>2, <2>3, <2>4 DEF ruleset
<1> QED
  BY <1>4, <1>5

\* In every reachable state, and for every choice of links that are provisioned, the nftables chains
\* decide each packet as the grants, the chosen exits and the default deny do.  The one exception: the
\* host masquerades what the policy lets out by the uplink under an address that a client of another
\* server's uplink has as well, since its postrouting chain looks at addresses only.
THEOREM RulesetAlwaysMatches == Spec => []RulesetMatchesPolicy
<1>1. ASSUME PolicyInv, RowsInv PROVE RulesetMatchesPolicy
  <2>1. RowsOK(Rows) /\ Rows.live = live
    BY <1>1, RowsAreOK DEF Rows
  <2> QED
    BY <2>1, VerdictIsPolicy DEF RulesetMatchesPolicy
<1>2. PolicyInv /\ RowsInv => RulesetMatchesPolicy
  BY <1>1
<1> QED
  BY <1>2, RowsSafe, PTL

(***************************************************************************)
(* The AllowedIPs of a client.                                             *)
(***************************************************************************)
\* What a grant opens to a peer is in its AllowedIPs: this holds for any rows.
THEOREM HintAlwaysCovers == Spec => []HintCoversGrants
<1>1. HintCoversGrants
  <2> SUFFICES ASSUME NEW pkt \in Packets(Rows, Gateway), NEW p, p = pkt.from, NEW s, s = row[p].home,
                      NEW own \in AdvertisedRoutes(Rows, s), CidrContains(own, pkt.dst),
                      \A c \in row[p].routes : ~CidrContains(c, pkt.dst),
                      NEW i \in Deciding(Rows, s, pkt), grants[s][i].action = "allow",
                      grants[s][i].dst.kind \in {"cidr", "any"}
               PROVE  \E c \in AllowedIpsForPeer(Rows, p) : CidrContains(c, pkt.dst)
    BY DEF HintCoversGrants
  <2>1. Rows.row = row /\ Rows.grants = grants /\ Rows.assigned = assigned
    BY DEF Rows
  <2>2. i \in Enabled(Rows, s) /\ Covers(Rows, s, grants[s][i].src, p) /\ Reaches(Rows, s, grants[s][i].dst, pkt.dst)
    BY <2>1 DEF Deciding
  <2>3. i \in Applicable(Rows, p)
    BY <2>1, <2>2 DEF Applicable, Covers
  <2>4. \E c \in Reachable(Rows, p) : CidrContains(c, pkt.dst)
    <3>1. CASE grants[s][i].dst.kind = "cidr"
      <4>1. CidrContains(grants[s][i].dst.of, pkt.dst)
        BY <2>2, <3>1 DEF Reaches, Covers, Names
      <4>2. grants[s][i].dst.of \in Reachable(Rows, p)
        BY <2>1, <2>3, <3>1 DEF Reachable
      <4> QED
        BY <4>1, <4>2
    <3>2. CASE grants[s][i].dst.kind = "any"
      BY <2>1, <2>3, <3>2 DEF Reachable
    <3> QED
      BY <3>1, <3>2
  <2> QED
    BY <2>1, <2>4 DEF AllowedIpsForPeer
<1> QED
  BY <1>1, PTL

-----------------------------------------------------------------------------
(***************************************************************************)
(* Where the routing tables and the AllowedIPs lead a packet, for all rows *)
(* whose prefixes are apart.  An address then has one owner on the whole   *)
(* host; every route that matches it names the interface of that owner,    *)
(* but for the default and the range of a server, which are shorter; and   *)
(* on the interface only the owner's AllowedIPs match it.                  *)
(***************************************************************************)

(***************************************************************************)
(* Prefixes and longest matches.                                           *)
(***************************************************************************)
LEMMA Apart ==
  ASSUME NEW a \in Cidr, NEW b \in Cidr, ~CidrsOverlap(a, b), NEW d \in Nat
  PROVE  ~(CidrContains(a, d) /\ CidrContains(b, d))
<1>1. \A c \in {a, b} : CidrContains(c, d) => d \in Block(c)
  BY NetworkAddressOK DEF CidrContains, Block
<1>2. Block(a) \cap Block(b) = {}
  BY OverlapIsShared
<1> QED
  BY <1>1, <1>2

LEMMA Sizes ==
  ASSUME NEW c \in Cidr
  PROVE  /\ c.size \in Nat \ {0}
         /\ Outside(c) /\ c.size # Space => c.size < Space
         /\ \A a, d \in Nat : CidrContains(c, a) /\ CidrContains(c, d) /\ a # d => c.size > 1
<1>1. c.size \in Nat \ {0} /\ NetworkAddress(c) \in Nat
  BY NetworkAddressOK DEF Cidr
<1>2. Space \in Nat
  BY ConstantsOK
<1> QED
  BY <1>1, <1>2 DEF Outside, CidrContains, BroadcastAddress

LEMMA HostRouteHas ==
  ASSUME NEW a \in Nat, NEW d \in Nat
  PROVE  HostRoute(a) \in Cidr /\ HostRoute(a).size = 1 /\ (CidrContains(HostRoute(a), d) <=> d = a)
<1>1. a % 1 = 0
  OBVIOUS
<1> QED
  BY <1>1 DEF HostRoute, Cidr, CidrContains, NetworkAddress, BroadcastAddress

LEMMA DefaultRouteHas ==
  ASSUME NEW d \in Ip
  PROVE  DefaultRoute \in Cidr /\ DefaultRoute.size = Space /\ CidrContains(DefaultRoute, d)
<1>1. Space \in Nat \ {0} /\ 0 % Space = 0
  BY ConstantsOK
<1> QED
  BY <1>1 DEF DefaultRoute, Cidr, CidrContains, NetworkAddress, BroadcastAddress, Ip

\* If a matching route is at least as long as all that lead elsewhere, and longer, its interface is the way.
LEMMA Longest ==
  ASSUME NEW table, NEW dst, \A x \in table : CidrContains(x.cidr, dst) => x.cidr.size \in Nat,
         NEW dev, NEW h \in table, CidrContains(h.cidr, dst), h.dev = dev,
         \A k \in table : CidrContains(k.cidr, dst) => k.dev = dev \/ k.cidr.size > h.cidr.size
  PROVE  LongestMatch(table, dst) = {dev}
<1> DEFINE hits == {x \in table : CidrContains(x.cidr, dst)}
           sizes == {x.cidr.size : x \in hits}
<1>1. sizes \in SUBSET Nat /\ sizes # {}
  OBVIOUS
<1>2. PICK n \in sizes : \A m \in sizes : n <= m
  <2> HIDE DEF sizes
  <2> QED
    BY <1>1, Smallest
<1>3. PICK x \in hits : \A k \in hits : x.cidr.size <= k.cidr.size
  BY <1>2
<1>4. \A y \in hits : (\A k \in hits : y.cidr.size <= k.cidr.size) => y.dev = dev
  OBVIOUS
<1>5. LongestMatch(table, dst) = {y.dev : y \in {z \in hits : \A k \in hits : z.cidr.size <= k.cidr.size}}
  BY DEF LongestMatch
<1> HIDE DEF hits, sizes
<1> QED
  BY <1>3, <1>4, <1>5

(***************************************************************************)
(* Rows whose prefixes are apart.                                          *)
(***************************************************************************)
PrefixesOK(r) ==
  /\ \A s \in r.servers : /\ r.srv[s].range \in Cidr /\ Outside(r.srv[s].range)
                          /\ CidrContains(r.srv[s].range, r.srv[s].addr)
  /\ \A p \in r.live : \A c \in r.row[p].routes : c \in Cidr /\ Outside(c) /\ c.size # Space

ApartOK(r) == RowsOK(r) /\ PrefixesOK(r) /\ PrefixesApart(r)

LEMMA PrefixesAreOK == PolicyInv /\ RowsInv => PrefixesOK(Rows)
<1> SUFFICES ASSUME PolicyInv, RowsInv PROVE PrefixesOK(Rows)
  OBVIOUS
<1>1. Rows.live = live /\ Rows.servers = servers /\ Rows.row = row /\ Rows.srv = srv
  BY DEF Rows
<1>2. \A s \in servers : /\ srv[s].range \in Cidr /\ Outside(srv[s].range)
                         /\ CidrContains(srv[s].range, srv[s].addr)
  BY DEF PolicyInv, PolicyTypeOK, ServerRow, RowsInv, InSpace
<1>3. \A p \in live : \A c \in row[p].routes : c \in Cidr /\ Outside(c) /\ c.size # Space
  BY DEF PolicyInv, PolicyTypeOK, PeerRow, RowsInv, InSpace, Located
<1> QED
  BY <1>1, <1>2, <1>3 DEF PrefixesOK

Owns(r, q, d) == \E c \in StaticRoutesOf(r, q) : CidrContains(c, d)

\* An owned address is that of the owner, in the range of its server, or in a LAN of it, in no range.
LEMMA OwnedAddress ==
  ASSUME NEW r, ApartOK(r), NEW d \in Ip, NEW q \in r.live, Owns(r, q, d)
  PROVE  \/ d = r.row[q].addr /\ CidrContains(r.srv[r.row[q].home].range, d)
            /\ \A p \in r.live : \A c \in r.row[p].routes : ~CidrContains(c, d)
         \/ /\ \E c \in r.row[q].routes : CidrContains(c, d)
            /\ \A s \in r.servers : ~CidrContains(r.srv[s].range, d)
<1>1. /\ d \in Nat /\ r.row[q].addr \in Nat /\ r.row[q].home \in r.servers
      /\ \A s \in r.servers : r.srv[s].range \in Cidr
      /\ \A p \in r.live : \A c \in r.row[p].routes : c \in Cidr
  BY DEF ApartOK, RowsOK, PeersOK, PrefixesOK, Ip
<1>2. \A s \in r.servers, p \in r.live : \A c \in r.row[p].routes : ~(CidrContains(c, d) /\ CidrContains(r.srv[s].range, d))
  BY <1>1, Apart DEF ApartOK, PrefixesApart
<1>3. CASE d = r.row[q].addr
  <2>1. q \in PeersOf(r, r.row[q].home)
    BY DEF PeersOf
  <2>2. d \in Block(r.srv[r.row[q].home].range)
    BY <1>1, <1>3, <2>1 DEF ApartOK, PrefixesApart, AddrOf
  <2>3. CidrContains(r.srv[r.row[q].home].range, d)
    BY <1>1, <2>2, NetworkAddressOK DEF Block, CidrContains
  <2> QED
    BY <1>1, <1>2, <1>3, <2>3
<1>4. CASE d # r.row[q].addr
  <2>1. PICK c \in r.row[q].routes : CidrContains(c, d)
    BY <1>1, <1>4, HostRouteHas DEF Owns, StaticRoutesOf
  <2> QED
    BY <1>2, <2>1
<1> QED
  BY <1>3, <1>4

\* No two peers of the host own an address, and a range that has it is that of the owner's server.
LEMMA OneOwner ==
  ASSUME NEW r, ApartOK(r), NEW d \in Ip, NEW q \in r.live, Owns(r, q, d)
  PROVE  /\ \A o \in r.live : Owns(r, o, d) => o = q
         /\ \A s \in r.servers : CidrContains(r.srv[s].range, d) => s = r.row[q].home /\ d = r.row[q].addr
<1>1. /\ d \in Nat /\ r.row[q].home \in r.servers /\ \A o \in r.live : r.row[o].home \in r.servers
      /\ \A s \in r.servers : r.srv[s].range \in Cidr
      /\ \A p \in r.live : \A c \in r.row[p].routes : c \in Cidr
  BY DEF ApartOK, RowsOK, PeersOK, PrefixesOK, Ip
<1>2. \A s, t \in r.servers : CidrContains(r.srv[s].range, d) /\ CidrContains(r.srv[t].range, d) => s = t
  BY <1>1, Apart DEF ApartOK, PrefixesApart
<1>3. \A o, p \in r.live : \A c \in r.row[o].routes, e \in r.row[p].routes :
        CidrContains(c, d) /\ CidrContains(e, d) => o = p
  BY <1>1, Apart DEF ApartOK, PrefixesApart
<1>4. ASSUME NEW o \in r.live, Owns(r, o, d) PROVE o = q
  <2>1. CASE d = r.row[q].addr /\ d = r.row[o].addr /\ CidrContains(r.srv[r.row[q].home].range, d)
             /\ CidrContains(r.srv[r.row[o].home].range, d)
    BY <1>1, <1>2, <2>1 DEF ApartOK, RowsOK, PeersOK
  <2> QED
    BY <1>1, <1>3, <1>4, <2>1, OwnedAddress
<1>5. ASSUME NEW s \in r.servers, CidrContains(r.srv[s].range, d) PROVE s = r.row[q].home /\ d = r.row[q].addr
  BY <1>1, <1>2, <1>5, OwnedAddress
<1> QED
  BY <1>4, <1>5

(***************************************************************************)
(* The tables.                                                             *)
(***************************************************************************)
\* The interface of a peer.
Way(r, q) == IF q \in Gateway THEN q ELSE r.row[q].home

LEMMA StaticRoute ==
  ASSUME NEW r, NEW s \in r.servers, NEW links \in SUBSET Gateway
  PROVE  /\ \A x \in StaticRoutes(r, s, links) :
              \E q \in PeersOf(r, s) : x.dev = Way(r, q) /\ x.cidr \in StaticRoutesOf(r, q)
         /\ \A q \in PeersOf(r, s) : \A c \in r.row[q].routes :
              (q \in Gateway => q \in links) => [cidr |-> c, dev |-> Way(r, q)] \in StaticRoutes(r, s, links)
         /\ \A q \in PeersOf(r, s) \cap Gateway \cap links :
              [cidr |-> HostRoute(r.row[q].addr), dev |-> q] \in StaticRoutes(r, s, links)
<1>1. ASSUME NEW x \in StaticRoutes(r, s, links)
      PROVE  \E q \in PeersOf(r, s) : x.dev = Way(r, q) /\ x.cidr \in StaticRoutesOf(r, q)
  <2>1. CASE x \in Dev(AdvertisedBy(r, PlainPeers(r, s)), s)
    <3>1. PICK q \in PlainPeers(r, s) : \E c \in r.row[q].routes : x = [cidr |-> c, dev |-> s]
      BY <2>1 DEF Dev, AdvertisedBy
    <3> QED
      BY <3>1 DEF PlainPeers, PeersOf, Way, StaticRoutesOf
  <2>2. CASE x \in UNION {Dev(StaticRoutesOf(r, p), p) : p \in ExitNodes(r, s, links)}
    <3>1. PICK q \in ExitNodes(r, s, links) : \E c \in StaticRoutesOf(r, q) : x = [cidr |-> c, dev |-> q]
      BY <2>2 DEF Dev
    <3> QED
      BY <3>1 DEF ExitNodes, Way
  <2> QED
    BY <2>1, <2>2 DEF StaticRoutes
<1>2. ASSUME NEW q \in PeersOf(r, s), NEW c \in r.row[q].routes, q \in Gateway => q \in links
      PROVE  [cidr |-> c, dev |-> Way(r, q)] \in StaticRoutes(r, s, links)
  <2>1. CASE q \in Gateway
    BY <1>2, <2>1 DEF StaticRoutes, ExitNodes, Dev, StaticRoutesOf, Way
  <2>2. CASE q \notin Gateway
    BY <2>2 DEF StaticRoutes, PlainPeers, PeersOf, Dev, AdvertisedBy, Way
  <2> QED
    BY <2>1, <2>2
<1>3. ASSUME NEW q \in PeersOf(r, s) \cap Gateway \cap links
      PROVE  [cidr |-> HostRoute(r.row[q].addr), dev |-> q] \in StaticRoutes(r, s, links)
  BY DEF StaticRoutes, ExitNodes, Dev, StaticRoutesOf
<1> QED
  BY <1>1, <1>2, <1>3

\* The interface by which what nobody owns leaves: the exit node a sender chose, or the uplink.
Gate(r, links, p) == IF r.row[p].via \in links THEN r.row[p].via ELSE Uplink

\* With prefixes apart a sender's packets are led by one table: routes of earlier passes and of the
\* wg-quick defaults are not in it, and no other peer's rule takes it.
LEMMA Tables ==
  ASSUME NEW r, ApartOK(r), NEW links \in SUBSET (Gateway \cap r.live), NEW p \in r.live,
         NEW table \in TablesFor(r, links, r.row[p].addr)
  PROVE  /\ [cidr |-> DefaultRoute, dev |-> Gate(r, links, p)] \in table
         /\ Connected(r, r.row[p].home) \cup StaticRoutes(r, r.row[p].home, links) \subseteq table
         /\ \A x \in table : \/ x = [cidr |-> DefaultRoute, dev |-> Gate(r, links, p)]
                            \/ \E t \in r.servers : x \in Connected(r, t) \cup StaticRoutes(r, t, links)
<1> DEFINE s == r.row[p].home
<1>1. /\ s \in r.servers /\ \A o \in r.live : r.row[o].home \in r.servers /\ r.row[o].addr \in Ip
      /\ Null \notin Gateway
  BY ConstantsOK DEF ApartOK, RowsOK, PeersOK
<1>2. \A o \in r.live : r.row[o].addr = r.row[p].addr => o = p
  <2> SUFFICES ASSUME NEW o \in r.live, r.row[o].addr = r.row[p].addr PROVE o = p
    OBVIOUS
  <2>1. r.row[p].addr \in Ip /\ r.row[p].addr \in Nat /\ r.row[o].addr \in Nat
    BY <1>1 DEF Ip
  <2>2. Owns(r, p, r.row[p].addr) /\ Owns(r, o, r.row[p].addr)
    BY <2>1, HostRouteHas DEF Owns, StaticRoutesOf
  <2> QED
    BY <2>1, <2>2, OneOwner
<1>3. RuledInto(r, r.row[p].addr, links) = {r.row[p].via} \cap links
  <2>1. ASSUME NEW g \in links, r.row[p].via = g PROVE p \in ExitClients(r, g)
    BY <1>1, <2>1 DEF ApartOK, RowsOK, ViasOK, ExitClients, PeersOf
  <2>2. ASSUME NEW g \in links, r.row[p].addr \in AddrOf(r, ExitClients(r, g)) PROVE r.row[p].via = g
    <3>1. PICK o \in ExitClients(r, g) : r.row[p].addr = r.row[o].addr
      BY <2>2 DEF AddrOf
    <3>2. o = p
      BY <1>2, <3>1 DEF ExitClients, PeersOf
    <3> QED
      BY <3>1, <3>2 DEF ExitClients
  <2> QED
    BY <2>1, <2>2 DEF RuledInto, AddrOf
<1>4. CASE r.row[p].via \in links
  <2>1. TablesFor(r, links, r.row[p].addr) = {PolicyTable(r, r.row[p].via, links)}
    BY <1>3, <1>4 DEF TablesFor
  <2>2. r.row[r.row[p].via].home = s
    BY <1>1, <1>4 DEF ApartOK, RowsOK, ViasOK
  <2>3. table = Dev({DefaultRoute}, r.row[p].via) \cup Connected(r, s) \cup StaticRoutes(r, s, links)
    BY <2>1, <2>2 DEF PolicyTable
  <2> QED
    BY <1>1, <1>4, <2>3 DEF Dev, Gate
<1>5. CASE r.row[p].via \notin links
  <2>1. \A t \in r.servers : QuickRoutes(r, t) = {}
    <3> SUFFICES ASSUME NEW t \in r.servers PROVE QuickRoutes(r, t) = {}
      OBVIOUS
    <3>1. AddrOf(r, PlainPeers(r, t)) \subseteq Block(r.srv[t].range)
      BY DEF ApartOK, PrefixesApart, AddrOf, PlainPeers
    <3> QED
      BY <3>1 DEF QuickRoutes, Dev
  <2>2. UNION {QuickRoutes(r, t) : t \in r.servers} = {}
    BY <2>1
  <2>3. table = MainTable(r, links)
    <3>1. RuledInto(r, r.row[p].addr, links) = {}
      BY <1>3, <1>5
    <3> DEFINE main == MainTable(r, links)
               quick == UNION {QuickRoutes(r, t) : t \in r.servers}
    <3>2. TablesFor(r, links, r.row[p].addr) = {main, main \cup quick}
      BY <3>1 DEF TablesFor
    <3>3. quick = {}
      BY <2>2
    <3> HIDE DEF main, quick
    <3> QED
      BY <3>2, <3>3 DEF main
  <2>4. table = Dev({DefaultRoute}, Uplink) \cup UNION {Connected(r, t) \cup StaticRoutes(r, t, links) : t \in r.servers}
    BY <2>3 DEF MainTable
  <2> QED
    BY <1>1, <1>5, <2>4 DEF Dev, Gate
<1> QED
  BY <1>4, <1>5

\* A route that matches is the default, the range of a server, or one of a peer that owns the address.
Leads(r, links, p, d, x) ==
  /\ x.cidr.size \in Nat
  /\ \/ x.cidr.size = Space /\ x.dev = Gate(r, links, p)
     \/ \E t \in r.servers : x.cidr = r.srv[t].range /\ x.dev = t
     \/ \E q \in r.live : Owns(r, q, d) /\ x.dev = Way(r, q)

LEMMA RouteThatMatches ==
  ASSUME NEW r, ApartOK(r), NEW links \in SUBSET (Gateway \cap r.live), NEW p \in r.live,
         NEW table \in TablesFor(r, links, r.row[p].addr), NEW d \in Ip
  PROVE  \A x \in table : CidrContains(x.cidr, d) => Leads(r, links, p, d, x)
<1> SUFFICES ASSUME NEW x \in table, CidrContains(x.cidr, d)
             PROVE  /\ x.cidr.size \in Nat
                    /\ \/ x.cidr.size = Space /\ x.dev = Gate(r, links, p)
                       \/ \E t \in r.servers : x.cidr = r.srv[t].range /\ x.dev = t
                       \/ \E q \in r.live : Owns(r, q, d) /\ x.dev = Way(r, q)
  BY DEF Leads
<1>1. /\ \A q \in r.live : r.row[q].addr \in Nat /\ \A c \in r.row[q].routes : c \in Cidr
      /\ \A t \in r.servers : r.srv[t].range \in Cidr
  BY DEF ApartOK, RowsOK, PeersOK, PrefixesOK, Ip
<1>2. CASE x = [cidr |-> DefaultRoute, dev |-> Gate(r, links, p)]
  BY <1>2, DefaultRouteHas, ConstantsOK
<1>3. ASSUME NEW t \in r.servers, x \in Connected(r, t)
      PROVE  x.cidr.size \in Nat /\ x.cidr = r.srv[t].range /\ x.dev = t
  BY <1>1, <1>3, Sizes DEF Connected, Dev
<1>4. ASSUME NEW t \in r.servers, x \in StaticRoutes(r, t, links)
      PROVE  x.cidr.size \in Nat /\ \E q \in r.live : Owns(r, q, d) /\ x.dev = Way(r, q)
  <2>1. PICK q \in PeersOf(r, t) : x.dev = Way(r, q) /\ x.cidr \in StaticRoutesOf(r, q)
    BY <1>4, StaticRoute
  <2>2. q \in r.live /\ Owns(r, q, d)
    BY <2>1 DEF Owns, PeersOf
  <2>3. x.cidr \in Cidr
    BY <1>1, <2>1, <2>2, HostRouteHas, 0 \in Nat DEF StaticRoutesOf
  <2> QED
    BY <2>1, <2>2, <2>3, Sizes
<1> QED
  <2>1. \/ x = [cidr |-> DefaultRoute, dev |-> Gate(r, links, p)]
        \/ \E t \in r.servers : x \in Connected(r, t) \cup StaticRoutes(r, t, links)
    BY Tables
  <2> QED
    BY <1>2, <1>3, <1>4, <2>1

\* The route to an owned address names the interface of its owner.
LEMMA RouteToOwner ==
  ASSUME NEW r, ApartOK(r), NEW links \in SUBSET (Gateway \cap r.live), NEW p \in r.live,
         NEW table \in TablesFor(r, links, r.row[p].addr), NEW d \in Ip, d \notin HubAddrs(r),
         NEW q \in PeersOf(r, r.row[p].home), Owns(r, q, d), q \in Gateway => q \in links
  PROVE  LongestMatch(table, d) = {Way(r, q)}
<1> DEFINE s == r.row[p].home
<1>1. /\ q \in r.live /\ r.row[q].home = s /\ s \in r.servers /\ d \in Nat
      /\ \A t \in r.servers : r.srv[t].addr \in Nat /\ r.srv[t].addr # d
  BY DEF ApartOK, RowsOK, PeersOK, HubAddrs, PeersOf, Ip
<1>2. /\ \A o \in r.live : Owns(r, o, d) => o = q
      /\ \A t \in r.servers : CidrContains(r.srv[t].range, d) => t = s /\ d = r.row[q].addr
  BY <1>1, OneOwner
<1>3. \A t \in r.servers : /\ CidrContains(r.srv[t].range, d) => r.srv[t].range.size > 1
                           /\ r.srv[t].range.size \in Nat /\ r.srv[t].range.size < Space
  <2> SUFFICES ASSUME NEW t \in r.servers
               PROVE  /\ CidrContains(r.srv[t].range, d) => r.srv[t].range.size > 1
                      /\ r.srv[t].range.size \in Nat /\ r.srv[t].range.size < Space
    OBVIOUS
  <2>1. /\ r.srv[t].range \in Cidr /\ Outside(r.srv[t].range) /\ CidrContains(r.srv[t].range, r.srv[t].addr)
        /\ r.srv[t].range.size # Space
    BY DEF ApartOK, PrefixesOK, PrefixesApart
  <2> QED
    BY <1>1, <2>1, Sizes
<1>4. \A x \in table : CidrContains(x.cidr, d) =>
        /\ x.cidr.size \in Nat
        /\ x.cidr.size = Space \/ (x.cidr = r.srv[s].range /\ x.dev = s) \/ x.dev = Way(r, q)
  <2>1. \A x \in table : CidrContains(x.cidr, d) => Leads(r, links, p, d, x)
    BY RouteThatMatches
  <2> QED
    BY <1>2, <2>1 DEF Leads
<1>5. Connected(r, s) \cup StaticRoutes(r, s, links) \subseteq table
  BY Tables
<1> HIDE DEF s
<1>6. ASSUME NEW c \in r.row[q].routes, CidrContains(c, d) PROVE LongestMatch(table, d) = {Way(r, q)}
  <2>1. [cidr |-> c, dev |-> Way(r, q)] \in table
    <3>1. q \in PeersOf(r, s)
      BY <1>1 DEF PeersOf
    <3>2. [cidr |-> c, dev |-> Way(r, q)] \in StaticRoutes(r, s, links)
      BY <1>1, <3>1, StaticRoute
    <3> QED
      BY <1>5, <3>2
  <2>2. ~CidrContains(r.srv[s].range, d)
    BY <1>1, <1>6, OwnedAddress
  <2>3. c.size \in Nat /\ c.size < Space
    BY <1>1, Sizes DEF ApartOK, PrefixesOK
  <2>4. \A k \in table : CidrContains(k.cidr, d) => k.dev = Way(r, q) \/ k.cidr.size > c.size
    BY <1>4, <2>2, <2>3, ConstantsOK
  <2>5. \A k \in table : CidrContains(k.cidr, d) => k.cidr.size \in Nat
    BY <1>4
  <2> DEFINE h == [cidr |-> c, dev |-> Way(r, q)]
  <2>6. h \in table /\ h.cidr = c /\ h.dev = Way(r, q)
    BY <2>1
  <2> HIDE DEF h
  <2> QED
    BY <1>6, <2>4, <2>5, <2>6, Longest
<1>7. CASE \A c \in r.row[q].routes : ~CidrContains(c, d)
  <2>1. d = r.row[q].addr /\ CidrContains(r.srv[s].range, d)
    BY <1>1, <1>7, OwnedAddress
  <2>2. \A k \in table : CidrContains(k.cidr, d) => k.cidr.size \in Nat
    BY <1>4
  <2>3. CASE q \in Gateway
    <3> DEFINE h == [cidr |-> HostRoute(d), dev |-> q]
    <3>1. h \in table /\ h.cidr = HostRoute(d) /\ h.dev = Way(r, q)
      <4>1. q \in PeersOf(r, s) \cap Gateway \cap links
        BY <1>1, <2>3 DEF PeersOf
      <4>2. h \in StaticRoutes(r, s, links)
        BY <1>1, <2>1, <4>1, StaticRoute
      <4> QED
        BY <1>5, <2>3, <4>2 DEF Way
    <3>2. HostRoute(d).size = 1 /\ CidrContains(HostRoute(d), d)
      BY <1>1, HostRouteHas
    <3> HIDE DEF h
    <3>3. \A k \in table : CidrContains(k.cidr, d) => k.dev = Way(r, q) \/ k.cidr.size > 1
      BY <1>1, <1>3, <1>4, <2>1, ConstantsOK
    <3> QED
      BY <2>2, <3>1, <3>2, <3>3, Longest
  <2>4. CASE q \notin Gateway
    <3> DEFINE h == [cidr |-> r.srv[s].range, dev |-> s]
    <3>9. Way(r, q) = s
      BY <1>1, <2>4 DEF Way
    <3>1. h \in table /\ h.cidr = r.srv[s].range /\ h.dev = Way(r, q)
      BY <1>1, <1>5, <2>4 DEF Way, Connected, Dev
    <3> HIDE DEF h
    <3>2. \A k \in table : CidrContains(k.cidr, d) => k.dev = Way(r, q) \/ k.cidr.size > h.cidr.size
      BY <1>1, <1>2, <1>3, <1>4, <3>1, <3>9, ConstantsOK
    <3> QED
      BY <2>1, <2>2, <3>1, <3>2, Longest
  <2> QED
    BY <2>3, <2>4
<1> QED
  BY <1>6, <1>7

(***************************************************************************)
(* The interfaces, and the property.                                       *)
(***************************************************************************)
\* On its interface a packet to an owned address is encrypted for the owner alone.
LEMMA RecipientIsOwner ==
  ASSUME NEW r, ApartOK(r), NEW links \in SUBSET (Gateway \cap r.live), NEW d \in Ip,
         NEW q \in r.live, Owns(r, q, d), q \in Gateway => q \in links
  PROVE  Recipients(r, Way(r, q), d, links) = {q}
<1> DEFINE dev == Way(r, q)
           table == UNION {Dev(AllowedIps(r, o), o) : o \in MembersOf(r, dev, links)}
<1>1. /\ d \in Nat /\ r.row[q].home \in r.servers /\ r.row[q].home \notin Gateway
      /\ \A o \in r.live : r.row[o].addr \in Nat /\ \A c \in r.row[o].routes : c \in Cidr
  BY InterfacesOK DEF ApartOK, RowsOK, PeersOK, PrefixesOK, Ip
<1>2. \A o \in r.live : Owns(r, o, d) => o = q
  BY OneOwner
<1>3. q \in MembersOf(r, dev, links)
  BY <1>1 DEF MembersOf, PlainPeers, PeersOf, Way
<1>4. \A o \in MembersOf(r, dev, links) : o \in r.live /\ (o \in Gateway => o = q)
  BY <1>1 DEF MembersOf, PlainPeers, PeersOf, Way
<1>5. \A k \in table : k.dev \in MembersOf(r, dev, links) /\ k.cidr \in AllowedIps(r, k.dev)
  BY DEF Dev
<1>6. \A k \in table : CidrContains(k.cidr, d) => k.dev = q
  <2> SUFFICES ASSUME NEW k \in table, CidrContains(k.cidr, d), k.dev \notin Gateway PROVE k.dev = q
    BY <1>4, <1>5
  <2>1. Owns(r, k.dev, d)
    BY <1>5 DEF AllowedIps, Owns
  <2> QED
    BY <1>2, <1>4, <1>5, <2>1
<1>7. \A k \in table : CidrContains(k.cidr, d) => k.cidr.size \in Nat
  <2> SUFFICES ASSUME NEW k \in table PROVE k.cidr.size \in Nat
    OBVIOUS
  <2>1. k.dev \in r.live /\ k.cidr \in StaticRoutesOf(r, k.dev) \cup {DefaultRoute}
    BY <1>4, <1>5 DEF AllowedIps
  <2>2. k.cidr \in Cidr
    BY <1>1, <2>1, HostRouteHas, DefaultRouteHas DEF StaticRoutesOf
  <2> QED
    BY <2>2, Sizes
<1>8. PICK c \in StaticRoutesOf(r, q) : CidrContains(c, d)
  BY DEF Owns
<1> DEFINE h == [cidr |-> c, dev |-> q]
<1>9. h \in table /\ h.cidr = c /\ h.dev = q
  BY <1>3 DEF Dev, AllowedIps
<1>10. Recipients(r, dev, d, links) = LongestMatch(table, d)
  BY DEF Recipients
<1> HIDE DEF table, h, dev
<1>11. LongestMatch(table, d) = {q}
  BY <1>6, <1>7, <1>8, <1>9, Longest
<1> QED
  BY <1>10, <1>11 DEF dev

\* Nobody owns Internet.
LEMMA InternetIsNobodys ==
  ASSUME NEW r, ApartOK(r)
  PROVE  /\ Internet \in Ip /\ \A q \in r.live : ~Owns(r, q, Internet)
         /\ \A t \in r.servers : ~CidrContains(r.srv[t].range, Internet)
<1>1. Internet \in Ip
  BY AddressesOK
<1>2. \A t \in r.servers : ~CidrContains(r.srv[t].range, Internet)
  BY DEF ApartOK, PrefixesOK, Outside
<1>3. \A q \in r.live : \A c \in r.row[q].routes : ~CidrContains(c, Internet)
  BY DEF ApartOK, PrefixesOK, Outside
<1>4. \A q \in r.live : r.row[q].home \in r.servers
  BY DEF ApartOK, RowsOK, PeersOK
<1> QED
  BY <1>1, <1>2, <1>3, <1>4, OwnedAddress

LEMMA InternetRoute ==
  ASSUME NEW r, ApartOK(r), NEW links \in SUBSET (Gateway \cap r.live), NEW p \in r.live,
         NEW table \in TablesFor(r, links, r.row[p].addr)
  PROVE  LongestMatch(table, Internet) = {Gate(r, links, p)}
<1> DEFINE h == [cidr |-> DefaultRoute, dev |-> Gate(r, links, p)]
<1>1. Internet \in Ip
  BY InternetIsNobodys
<1>2. h \in table /\ CidrContains(h.cidr, Internet) /\ h.dev = Gate(r, links, p)
  BY <1>1, DefaultRouteHas, Tables
<1>3. \A k \in table : CidrContains(k.cidr, Internet) => k.cidr.size \in Nat
  BY <1>1, RouteThatMatches DEF Leads
<1>4. \A k \in table : CidrContains(k.cidr, Internet) => k.dev = Gate(r, links, p)
  BY <1>1, RouteThatMatches, InternetIsNobodys DEF Leads
<1> HIDE DEF h
<1> QED
  BY <1>2, <1>3, <1>4, Longest

LEMMA InternetRecipient ==
  ASSUME NEW r, NEW g \in Gateway, NEW links, g \in links, ApartOK(r), links \subseteq r.live
  PROVE  Recipients(r, g, Internet, links) = {g}
<1> DEFINE table == UNION {Dev(AllowedIps(r, o), o) : o \in MembersOf(r, g, links)}
           h == [cidr |-> DefaultRoute, dev |-> g]
<1>1. MembersOf(r, g, links) = {g}
  BY DEF MembersOf
<1>2. table = Dev(StaticRoutesOf(r, g) \cup {DefaultRoute}, g)
  BY <1>1 DEF AllowedIps
<1>3. Internet \in Ip /\ CidrContains(DefaultRoute, Internet)
  BY InternetIsNobodys, DefaultRouteHas
<1>4. h \in table /\ h.cidr = DefaultRoute /\ h.dev = g
  BY <1>2 DEF Dev
<1>5. \A k \in table : k.dev = g /\ k.cidr.size \in Nat
  <2>1. \A c \in StaticRoutesOf(r, g) \cup {DefaultRoute} : c \in Cidr
    <3>1. r.row[g].addr \in Nat /\ \A c \in r.row[g].routes : c \in Cidr
      BY DEF ApartOK, RowsOK, PeersOK, PrefixesOK, Ip
    <3> QED
      BY <1>3, <3>1, HostRouteHas, DefaultRouteHas DEF StaticRoutesOf
  <2> QED
    BY <1>2, <2>1, Sizes DEF Dev
<1>6. Recipients(r, g, Internet, links) = LongestMatch(table, Internet)
  BY DEF Recipients
<1> HIDE DEF table, h
<1>7. LongestMatch(table, Internet) = {g}
  BY <1>3, <1>4, <1>5, Longest
<1> QED
  BY <1>6, <1>7

\* In every reachable state whose prefixes are apart, and for every choice of links, the tables and
\* the AllowedIPs take a packet to the one peer that owns its destination, or to the chosen exit.
THEOREM PacketsAlwaysReachOwner == Spec => []PacketsReachOwner
<1>1. ASSUME PolicyInv, RowsInv PROVE PacketsReachOwner
  <2> DEFINE r == Rows
  <2> SUFFICES ASSUME PrefixesApart(r), NEW links \in SUBSET (Gateway \cap live), NEW p \in Senders(r, links),
                      NEW d \in Destinations(r) \ HubAddrs(r),
                      NEW oif \in Oifs(r, TablesFor(r, links, row[p].addr), d)
               PROVE  /\ Owners(r, row[p].home, d) # {} /\ Owners(r, row[p].home, d) \cap Gateway \subseteq links
                            => Recipients(r, oif, d, links) = Owners(r, row[p].home, d)
                      /\ d = Internet => IF {row[p].via} \cap links # {}
                                         THEN Recipients(r, oif, d, links) = {row[p].via} \cap links ELSE oif = Uplink
    BY DEF PacketsReachOwner
  <2>1. ApartOK(r) /\ r.live = live /\ r.row = row
    BY <1>1, RowsAreOK, PrefixesAreOK DEF ApartOK, Rows
  <2> HIDE DEF r
  <2>2. p \in r.live /\ links \in SUBSET (Gateway \cap r.live)
    BY <2>1 DEF Senders
  <2>3. d \in Ip
    <3>1. d \in AddrOf(r, r.live) \/ d = Internet \/ \E c \in AdvertisedBy(r, r.live) : d = NetworkAddress(c)
      BY DEF Destinations
    <3> QED
      BY <2>1, <3>1, AddressesOK DEF AddrOf, ApartOK, RowsOK, PeersOK
  <2>4. PICK table \in TablesFor(r, links, r.row[p].addr) : oif \in LongestMatch(table, d)
    BY <2>1 DEF Oifs
  <2>5. ASSUME NEW q \in Owners(r, row[p].home, d), Owners(r, row[p].home, d) \cap Gateway \subseteq links
        PROVE  Recipients(r, oif, d, links) = Owners(r, row[p].home, d)
    <3>1. q \in PeersOf(r, r.row[p].home) /\ q \in r.live /\ Owns(r, q, d) /\ (q \in Gateway => q \in links)
      BY <2>1, <2>5 DEF Owners, Owns, PeersOf
    <3>2. oif = Way(r, q)
      <4>1. ApartOK(r) /\ table \in TablesFor(r, links, r.row[p].addr) /\ d \notin HubAddrs(r)
        BY <2>1, <2>4
      <4>2. LongestMatch(table, d) = {Way(r, q)}
        BY <2>2, <2>3, <3>1, <4>1, RouteToOwner
      <4> QED
        BY <2>4, <4>2
    <3>3. Recipients(r, Way(r, q), d, links) = {q}
      BY <2>1, <2>2, <2>3, <3>1, RecipientIsOwner
    <3>4. Owners(r, row[p].home, d) = {q}
      BY <2>1, <2>3, <3>1, OneOwner DEF Owners, Owns, PeersOf
    <3> QED
      BY <3>2, <3>3, <3>4
  <2>6. ASSUME d = Internet
        PROVE  IF {row[p].via} \cap links # {}
               THEN Recipients(r, oif, d, links) = {row[p].via} \cap links ELSE oif = Uplink
    <3>1. oif = Gate(r, links, p)
      BY <2>1, <2>2, <2>4, <2>6, InternetRoute
    <3>2. CASE row[p].via \in links
      <4>1. Recipients(r, row[p].via, Internet, links) = {row[p].via}
        BY <2>1, <2>2, <3>2, InternetRecipient
      <4> QED
        BY <2>1, <2>6, <3>1, <3>2, <4>1 DEF Gate
    <3>3. CASE row[p].via \notin links
      BY <2>1, <3>1, <3>3 DEF Gate
    <3> QED
      BY <3>2, <3>3
  <2> QED
    BY <2>5, <2>6
<1>2. PolicyInv /\ RowsInv => PacketsReachOwner
  BY <1>1
<1> QED
  BY <1>2, RowsSafe, PTL

=============================================================================
