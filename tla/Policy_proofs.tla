---------------------------- MODULE Policy_proofs ----------------------------
(***************************************************************************)
(* The invariants of Policy for every value of its constants.              *)
(***************************************************************************)
EXTENDS Policy, Sums_proofs, TLAPS

(***************************************************************************)
(* What the operators of Addressing return, for every prefix.              *)
(***************************************************************************)
\* The network address of a prefix is an address, not above the one it was typed as.
LEMMA NetworkAddressOK ==
  ASSUME NEW c \in Cidr
  PROVE  /\ NetworkAddress(c) \in Nat /\ NetworkAddress(c) <= c.base
         /\ BroadcastAddress(c) \in Nat /\ NetworkAddress(c) <= BroadcastAddress(c)
<1>1. c.base \in Nat /\ c.size \in Nat /\ c.size > 0
  BY DEF Cidr
<1>2. c.base % c.size \in 0..(c.size - 1)
  BY <1>1
<1>3. c.base % c.size <= c.base
  BY <1>1
<1> QED
  BY <1>1, <1>2, <1>3 DEF NetworkAddress, BroadcastAddress

\* The aligned form of a prefix is one.
LEMMA NormalizeCidrOK ==
  ASSUME NEW c \in Cidr
  PROVE  NormalizeCidr(c) \in Cidr
BY NetworkAddressOK DEF NormalizeCidr, Cidr

\* normalizeCidr keeps the block of a prefix, host bits or not (lib/validation.ts 86-94).
THEOREM NormalizeKeepsBlock ==
  ASSUME NEW c \in Cidr
  PROVE  /\ NetworkAddress(NormalizeCidr(c)) = NetworkAddress(c)
         /\ BroadcastAddress(NormalizeCidr(c)) = BroadcastAddress(c)
         /\ NormalizeCidr(c).size = c.size
<1>1. c.base \in Nat /\ c.size \in Nat \ {0}
  BY DEF Cidr
<1>2. NormalizeCidr(c) = [base |-> NetworkAddress(c), size |-> c.size]
  BY DEF NormalizeCidr, Cidr
<1>3. PICK k \in Nat : c.base = c.size * k + (c.base % c.size)
  BY <1>1, Division
<1>4. NetworkAddress(c) % c.size = 0
  <2>1. c.base % c.size \in Int /\ c.size * k \in Int
    BY <1>1, Division
  <2>2. NetworkAddress(c) = c.size * k
    BY <1>1, <1>3, <2>1 DEF NetworkAddress
  <2> QED
    BY <1>1, <2>2, Multiple
<1>5. NetworkAddress(c) \in Nat
  BY NetworkAddressOK
<1>6. NetworkAddress(NormalizeCidr(c)) = NetworkAddress(c)
  BY <1>2, <1>4, <1>5 DEF NetworkAddress
<1> QED
  BY <1>2, <1>6 DEF BroadcastAddress

\* cidrsOverlap, which only asks whether one prefix contains the start of the other, tells exactly
\* whether the two share an address (wg/addressing.ts 48-53).
THEOREM OverlapIsShared ==
  ASSUME NEW a \in Cidr, NEW b \in Cidr
  PROVE  CidrsOverlap(a, b) <=> Block(a) \cap Block(b) # {}
<1> DEFINE A == NetworkAddress(a)
           B == NetworkAddress(b)
<1>1. /\ A \in Nat /\ BroadcastAddress(a) \in Nat /\ A <= BroadcastAddress(a)
      /\ B \in Nat /\ BroadcastAddress(b) \in Nat /\ B <= BroadcastAddress(b)
  BY NetworkAddressOK
<1>2. ASSUME CidrsOverlap(a, b) PROVE Block(a) \cap Block(b) # {}
  <2>1. \/ B \in Block(a) /\ B \in Block(b)
        \/ A \in Block(a) /\ A \in Block(b)
    BY <1>1, <1>2 DEF CidrsOverlap, CidrContains, Block
  <2> QED
    BY <2>1
<1>3. ASSUME Block(a) \cap Block(b) # {} PROVE CidrsOverlap(a, b)
  <2>1. PICK x : x \in Block(a) /\ x \in Block(b)
    BY <1>3
  <2>2. x \in Int /\ A <= x /\ x <= BroadcastAddress(a) /\ B <= x /\ x <= BroadcastAddress(b)
    BY <1>1, <2>1 DEF Block
  <2>3. A <= B \/ B <= A
    BY <1>1
  <2> QED
    BY <1>1, <2>2, <2>3 DEF CidrsOverlap, CidrContains
<1> QED
  BY <1>2, <1>3

\* An address a write asks for is in the range and free, and so is one that is allocated.
THEOREM RequestedAddressFree ==
  ASSUME NEW range \in Cidr, NEW taken, NEW ip
  PROVE  RequestedAddress(range, taken, ip) \subseteq Nat \ taken
BY NetworkAddressOK DEF RequestedAddress, Block

THEOREM AllocatedAddressFree ==
  ASSUME NEW range \in Cidr, NEW reserved \in Nat, NEW taken
  PROVE  AllocatedAddress(range, reserved, taken) \subseteq (Nat \cap Block(range)) \ taken
<1>1. NetworkAddress(range) \in Nat /\ BroadcastAddress(range) \in Nat
  BY NetworkAddressOK
<1> QED
  BY <1>1 DEF AllocatedAddress, Block

\* The routes a write stores are aligned and share no address with one another or with what the
\* rest of the host owns.
THEOREM ResolvedRoutesDisjoint ==
  ASSUME NEW entries, NEW range \in Cidr, NEW reserved, NEW space,
         \A i \in DOMAIN entries : entries[i] \in Cidr,
         \A c \in reserved : c \in Cidr,
         RoutesAccepted(entries, range, reserved, space)
  PROVE  /\ ResolvedRoutes(entries) \subseteq Cidr
         /\ \A c \in ResolvedRoutes(entries), d \in reserved : Block(c) \cap Block(d) = {}
<1>1. ResolvedRoutes(entries) \subseteq Cidr
  BY NormalizeCidrOK DEF ResolvedRoutes
<1>2. ASSUME NEW c \in ResolvedRoutes(entries), NEW d \in reserved
      PROVE  Block(c) \cap Block(d) = {}
  <2>1. ~CidrsOverlap(d, c)
    BY DEF ResolvedRoutes, RoutesAccepted
  <2>2. c \in Cidr /\ d \in Cidr
    BY <1>1
  <2> QED
    BY <2>1, <2>2, OverlapIsShared
<1> QED
  BY <1>1, <1>2

(***************************************************************************)
(* The rows.                                                               *)
(***************************************************************************)
PolicyInv == /\ PolicyTypeOK /\ GrantsResolve /\ AssignmentsResolve
             /\ AddressesDistinct /\ RoutesDisjoint

(***************************************************************************)
(* What resolvePeerWrite leaves behind.                                    *)
(***************************************************************************)
LEMMA IdOfResolves ==
  ASSUME PolicyTypeOK, NEW s \in Server, NEW name, IdOf(s, name) # Null
  PROVE  IdOf(s, name) \in TagIdsOf(Rows, s)
<1> DEFINE named == {t \in TagsOf(Rows, s) : t.name = name}
<1>1. named # {} /\ IdOf(s, name) = (CHOOSE t \in named : TRUE).id
  BY DEF IdOf
<1>2. (CHOOSE t \in named : TRUE) \in named
  BY <1>1
<1> QED
  BY <1>1, <1>2 DEF TagIdsOf

LEMMA TagIdsTyped ==
  ASSUME PolicyTypeOK, NEW s \in Server
  PROVE  TagIdsOf(Rows, s) \subseteq TagId
BY DEF PolicyTypeOK, TagIdsOf, TagsOf, Rows, Tag

LEMMA AskedTagsResolve ==
  ASSUME PolicyTypeOK, NEW s \in Server, NEW p \in Peer \cup {Null}, NEW q, NEW exit \in BOOLEAN,
         NEW r \in ResolvePeerWrite(s, p, q, exit), Given(q.tags)
  PROVE  Elements(TagIdsAsked(s, q)) \subseteq TagIdsOf(Rows, s)
<1>1. \A name \in Elements(q.tags) : IdOf(s, name) # Null
  BY DEF ResolvePeerWrite, CheckPeerInvariants
<1>2. \A i \in DOMAIN q.tags : q.tags[i] \in Elements(q.tags)
  BY DEF Elements
<1>3. Elements(TagIdsAsked(s, q)) = {IdOf(s, q.tags[i]) : i \in DOMAIN q.tags}
  BY DEF TagIdsAsked, Elements
<1> QED
  BY <1>1, <1>2, <1>3, IdOfResolves

LEMMA WrittenAddress ==
  ASSUME PolicyTypeOK, NEW s \in Server, NEW p \in Peer \cup {Null}, NEW i \in DOMAIN PeerWrites,
         p # Null => p \in live /\ row[p].home = s,
         NEW ip \in ResolvedAddress(s, p, PeerWrites[i])
  PROVE  /\ ip \in Nat
         /\ \A o \in live \ {p} : row[o].home = s => row[o].addr # ip \/ (p # Null /\ ip = row[p].addr)
<1> DEFINE q == PeerWrites[i]
           taken == {row[o].addr : o \in PeersOf(Rows, s) \ {p}} \cup {srv[s].addr}
<1>1. \A o \in live \ {p} : row[o].home = s => row[o].addr \in taken
  BY DEF PeersOf, Rows
<1>2. srv[s].range \in Cidr /\ srv[s].reserved \in Nat
  BY DEF PolicyTypeOK, ServerRow
<1>3. CASE Given(q.addr)
  <2>1. ip \in RequestedAddress(srv[s].range, taken, q.addr)
    BY <1>3 DEF ResolvedAddress
  <2> HIDE DEF q, taken
  <2>2. RequestedAddress(srv[s].range, taken, q.addr) \subseteq Nat \ taken
    BY <1>2, RequestedAddressFree
  <2> QED
    BY <1>1, <2>1, <2>2
<1>4. CASE ~Given(q.addr) /\ p = Null
  <2>1. ip \in AllocatedAddress(srv[s].range, srv[s].reserved, taken)
    BY <1>4 DEF ResolvedAddress
  <2> HIDE DEF taken
  <2>2. AllocatedAddress(srv[s].range, srv[s].reserved, taken) \subseteq Nat \ taken
    BY <1>2, AllocatedAddressFree
  <2> QED
    BY <1>1, <2>1, <2>2
<1>5. CASE ~Given(q.addr) /\ p # Null
  <2>1. ip = row[p].addr
    BY <1>5 DEF ResolvedAddress
  <2> QED
    BY <1>5, <2>1 DEF PolicyTypeOK, PeerRow
<1> QED
  BY <1>3, <1>4, <1>5

LEMMA WrittenRow ==
  ASSUME PolicyTypeOK, NEW s \in Server, NEW p \in Peer \cup {Null}, NEW i \in DOMAIN PeerWrites,
         p # Null => p \in live /\ row[p].home = s, NEW exit \in BOOLEAN,
         NEW r \in ResolvePeerWrite(s, p, PeerWrites[i], exit)
  PROVE  /\ r \in PeerRow /\ r.home = s /\ OneExit(exit, r)
         /\ \A o \in live \ {p} : row[o].home = s => row[o].addr # r.addr \/ (p # Null /\ r.addr = row[p].addr)
         /\ \/ \A o \in live \ {p} : \A c \in row[o].routes, d \in r.routes : Block(c) \cap Block(d) = {}
            \/ p # Null /\ r.routes = row[p].routes
            \/ p = Null /\ r.routes = {}
<1> DEFINE q == PeerWrites[i]
           current == IF p = Null THEN Blank(s) ELSE row[p]
<1>1. current \in PeerRow /\ current.home = s
  BY DEF PolicyTypeOK, PeerRow, Blank
<1>2. PICK ip \in ResolvedAddress(s, p, q) :
        r = [home |-> s, addr |-> ip,
             routes |-> IF Given(q.routes) THEN ResolvedRoutes(q.routes) ELSE current.routes,
             via |-> Ask(q.via, current.via), viaServer |-> Ask(q.viaServer, current.viaServer)]
  BY DEF ResolvePeerWrite
<1>3. OneExit(exit, r) /\ (Given(q.routes) => RoutesAccepted(q.routes, srv[s].range, Reserved(s, p), Space))
  BY DEF ResolvePeerWrite, CheckPeerInvariants
<1>4. \A c \in Reserved(s, p) : c \in Cidr
  BY DEF Reserved, PolicyTypeOK, ServerRow, PeerRow
<1>5. srv[s].range \in Cidr
  BY DEF PolicyTypeOK, ServerRow
<1>6. ASSUME Given(q.routes)
      PROVE  /\ ResolvedRoutes(q.routes) \subseteq Cidr
             /\ \A c \in ResolvedRoutes(q.routes), d \in Reserved(s, p) : Block(c) \cap Block(d) = {}
  <2>1. \A j \in DOMAIN q.routes : q.routes[j] \in Cidr
    BY <1>6, RequestsOK
  <2> HIDE DEF q
  <2> QED
    BY <1>3, <1>4, <1>5, <1>6, <2>1, ResolvedRoutesDisjoint
<1>7. Ask(q.via, current.via) \in Peer \cup {Null} /\ Ask(q.viaServer, current.viaServer) \in BOOLEAN
  BY <1>1, RequestsOK DEF Ask, Given, PeerRow
<1>8. r \in PeerRow /\ r.home = s
  BY <1>1, <1>2, <1>6, <1>7, WrittenAddress DEF PeerRow
<1>9. \A o \in live \ {p} : \A c \in row[o].routes : c \in Reserved(s, p)
  BY DEF Reserved
<1>10. CASE Given(q.routes)
  BY <1>2, <1>3, <1>6, <1>8, <1>9, <1>10, WrittenAddress
<1>11. CASE ~Given(q.routes)
  BY <1>2, <1>3, <1>8, <1>11, WrittenAddress DEF Blank
<1> QED
  BY <1>10, <1>11

(***************************************************************************)
(* The first state.                                                        *)
(***************************************************************************)
LEMMA InitInv == Init => PolicyInv
<1> SUFFICES ASSUME Init PROVE PolicyInv
  OBVIOUS
<1>1. \A s \in Server : GrantsOf(Rows, s) = {}
  BY DEF Init, GrantsOf, Rows, Placed, IsGrant
<1>2. \A s \in Server : Blank(s) \in PeerRow
  BY DEF Blank, PeerRow
<1>3. srv \in [Server -> ServerRow]
  BY DEF Init, ServerRow, Cidr
<1>4. PolicyTypeOK
  BY <1>1, <1>2, <1>3 DEF Init, PolicyTypeOK, Placed
<1> QED
  BY <1>1, <1>4 DEF Init, PolicyInv, GrantsResolve, AssignmentsResolve, AddressesDistinct, RoutesDisjoint

(***************************************************************************)
(* Lists of grants.                                                        *)
(***************************************************************************)
\* What is left of the grants once those that name (kind, of) are deleted.
LEMMA GrantsLeft ==
  ASSUME PolicyTypeOK, NEW kind, NEW of, grants' = GrantsWithout(kind, of), NEW s \in Server
  PROVE  /\ DOMAIN grants' = Server /\ DOMAIN grants'[s] = Position
         /\ \A i \in GrantsOf(Rows, s)' :
              /\ i \in GrantsOf(Rows, s) /\ grants'[s][i] = grants[s][i]
              /\ ~Names(grants[s][i].src, kind, of) /\ ~Names(grants[s][i].dst, kind, of)
BY DEF GrantsWithout, GrantsOf, IsGrant, Rows

\* What a list put in place consists of.
LEMMA GrantsPlaced ==
  ASSUME PolicyTypeOK, NEW s \in Server, NEW list, grants' = [grants EXCEPT ![s] = Placed(list)], NEW u \in Server
  PROVE  /\ DOMAIN grants' = Server /\ DOMAIN grants'[u] = Position
         /\ \A i \in GrantsOf(Rows, u)' :
              IF u = s THEN i \in DOMAIN list /\ grants'[u][i] = list[i]
              ELSE i \in GrantsOf(Rows, u) /\ grants'[u][i] = grants[u][i]
BY DEF PolicyTypeOK, Placed, GrantsOf, IsGrant, Rows

LEMMA SameGrants ==
  ASSUME PolicyTypeOK, grants' = grants, NEW s \in Server
  PROVE  GrantsOf(Rows, s)' = GrantsOf(Rows, s)
BY DEF GrantsOf, Rows

(***************************************************************************)
(* Tags.                                                                   *)
(***************************************************************************)
\* Peers that keep their rows keep their addresses and routes.
LEMMA SamePeers ==
  ASSUME PolicyInv, live' = live, row' = row, overtaken' = overtaken
  PROVE  AddressesDistinct' /\ RoutesDisjoint' /\ \A s \in Server : PeersOf(Rows, s)' = PeersOf(Rows, s)
BY DEF PolicyInv, AddressesDistinct, RoutesDisjoint, PeersOf, Rows

LEMMA PostTagInv ==
  ASSUME PolicyInv, NEW s \in Server, NEW name \in Name, PostTag(s, name)
  PROVE  PolicyInv'
<1> USE DEF PolicyInv
<1>1. AddressesDistinct' /\ RoutesDisjoint' /\ \A u \in Server : PeersOf(Rows, u)' = PeersOf(Rows, u)
  BY SamePeers DEF PostTag
<1>2. \A u \in Server : GrantsOf(Rows, u)' = GrantsOf(Rows, u)
  BY SameGrants DEF PostTag
<1>3. \A u \in Server : TagIdsOf(Rows, u) \subseteq TagIdsOf(Rows, u)'
  BY DEF PostTag, TagIdsOf, TagsOf, Rows
<1>4. PolicyTypeOK'
  BY <1>2 DEF PolicyTypeOK, PostTag, Tag, TagId, Step, PostOK, RefOK
<1>5. GrantsResolve'
  BY <1>1, <1>2, <1>3 DEF GrantsResolve, CheckRef, PostTag
<1>6. AssignmentsResolve'
  BY <1>3 DEF AssignmentsResolve, PostTag, PolicyTypeOK, PeerRow
<1> QED
  BY <1>1, <1>4, <1>5, <1>6

LEMMA PatchTagInv ==
  ASSUME PolicyInv, NEW t \in tags, NEW name \in Name, PatchTag(t, name)
  PROVE  PolicyInv'
<1> USE DEF PolicyInv
<1>1. AddressesDistinct' /\ RoutesDisjoint' /\ \A u \in Server : PeersOf(Rows, u)' = PeersOf(Rows, u)
  BY SamePeers DEF PatchTag
<1>2. \A u \in Server : GrantsOf(Rows, u)' = GrantsOf(Rows, u)
  BY SameGrants DEF PatchTag
<1> DEFINE new == [t EXCEPT !.name = name]
<1>3. t \in Tag /\ new \in Tag /\ new.id = t.id /\ new.home = t.home
  BY DEF PolicyTypeOK, Tag
<1>4. tags' = (tags \ {t}) \cup {new}
  BY DEF PatchTag
<1>5. \A u \in Server : TagIdsOf(Rows, u) \subseteq TagIdsOf(Rows, u)'
  <2> HIDE DEF new
  <2> QED
    BY <1>3, <1>4 DEF TagIdsOf, TagsOf, Rows
<1>6. PolicyTypeOK'
  <2> HIDE DEF new
  <2> QED
    BY <1>2, <1>3, <1>4 DEF PolicyTypeOK, PatchTag, Step, PostOK, RefOK
<1>7. GrantsResolve'
  BY <1>1, <1>2, <1>5 DEF GrantsResolve, CheckRef, PatchTag
<1>8. AssignmentsResolve'
  BY <1>5 DEF AssignmentsResolve, PatchTag, PolicyTypeOK, PeerRow
<1> QED
  BY <1>1, <1>6, <1>7, <1>8

LEMMA DeleteTagInv ==
  ASSUME PolicyInv, NEW t \in tags, DeleteTag(t)
  PROVE  PolicyInv'
<1> USE DEF PolicyInv
<1>1. AddressesDistinct' /\ RoutesDisjoint' /\ \A u \in Server : PeersOf(Rows, u)' = PeersOf(Rows, u)
  BY SamePeers DEF DeleteTag
<1>2. grants' = GrantsWithout("tag", t.id)
  BY DEF DeleteTag
<1>3. \A u \in Server, id \in TagId : id \in TagIdsOf(Rows, u) /\ id # t.id => id \in TagIdsOf(Rows, u)'
  BY DEF DeleteTag, TagIdsOf, TagsOf, Rows
<1>4. PolicyTypeOK'
  <2>1. tags' \subseteq Tag /\ assigned' \subseteq Peer \X TagId
    BY DEF DeleteTag, PolicyTypeOK
  <2>2. DOMAIN grants' = Server /\ \A s \in Server : DOMAIN grants'[s] = Position
    BY <1>2 DEF GrantsWithout
  <2>3. \A s \in Server : \A i \in GrantsOf(Rows, s)' : i \in GrantsOf(Rows, s) /\ grants'[s][i] = grants[s][i]
    BY <1>2, GrantsLeft
  <2> QED
    BY <2>1, <2>2, <2>3 DEF PolicyTypeOK, DeleteTag, Step, PostOK, RefOK
<1>5. GrantsResolve'
  <2> SUFFICES ASSUME NEW s \in Server, NEW i \in GrantsOf(Rows, s)', NEW ref \in {grants'[s][i].src, grants'[s][i].dst}
               PROVE  CheckRef(ref, TagIdsOf(Rows, s)', PeersOf(Rows, s)')
    BY DEF GrantsResolve
  <2>1. i \in GrantsOf(Rows, s) /\ ref \in {grants[s][i].src, grants[s][i].dst} /\ ~Names(ref, "tag", t.id)
    BY <1>2, GrantsLeft
  <2>2. CheckRef(ref, TagIdsOf(Rows, s), PeersOf(Rows, s)) /\ (ref.kind = "tag" => ref.of \in TagId)
    BY <2>1, TagIdsTyped DEF GrantsResolve, CheckRef
  <2> QED
    BY <1>1, <1>3, <2>1, <2>2 DEF CheckRef, Names
<1>6. AssignmentsResolve'
  <2> SUFFICES ASSUME NEW x \in assigned'
               PROVE  x[1] \in live' /\ (x[1] \notin overtaken' => x[2] \in TagIdsOf(Rows, row[x[1]].home)')
    BY DEF AssignmentsResolve, DeleteTag
  <2>1. x \in assigned /\ x[2] # t.id /\ x[2] \in TagId /\ x[1] \in live /\ row[x[1]].home \in Server
    BY DEF DeleteTag, PolicyTypeOK, AssignmentsResolve, PeerRow
  <2> QED
    BY <1>3, <2>1 DEF AssignmentsResolve, DeleteTag
<1> QED
  BY <1>1, <1>4, <1>5, <1>6

(***************************************************************************)
(* Grants and documents.                                                   *)
(***************************************************************************)
\* A list whose tags are replaced by ids is one of grants, if the ids are.
LEMMA ResolvedList ==
  ASSUME NEW list, NEW id, \A j \in DOMAIN list : GrantBody(list[j]), NEW i \in DOMAIN list,
         NEW body, body = Resolve(list, id)
  PROVE  /\ DOMAIN body = DOMAIN list
         /\ body[i].src.kind = list[i].src.kind /\ body[i].dst.kind = list[i].dst.kind
         /\ list[i].src.kind \in SrcKind /\ list[i].dst.kind \in DstKind
         /\ list[i].src.kind = "tag" => body[i].src.of = id[list[i].src.of] /\ list[i].src.of \in Name
         /\ list[i].dst.kind = "tag" => body[i].dst.of = id[list[i].dst.of] /\ list[i].dst.of \in Name
         /\ list[i].src.kind # "tag" => body[i].src = list[i].src
         /\ list[i].dst.kind # "tag" => body[i].dst = list[i].dst
         /\ list[i].src.kind = "peer" => list[i].src.of \in Peer
         /\ list[i].dst.kind = "peer" => list[i].dst.of \in Peer
BY DEF Resolve, Ref, GrantBody, RefBody

LEMMA PutGrantsInv ==
  ASSUME PolicyInv, NEW s \in Server, NEW l \in DOMAIN GrantLists, PutGrants(s, GrantLists[l])
  PROVE  PolicyInv'
<1> USE DEF PolicyInv
<1> DEFINE list == GrantLists[l]
           id == [name \in Name |-> IdOf(s, name)]
           body == Resolve(list, id)
<1>1. AddressesDistinct' /\ RoutesDisjoint' /\ \A u \in Server : PeersOf(Rows, u)' = PeersOf(Rows, u)
  BY SamePeers DEF PutGrants
<1>2. \A u \in Server : TagIdsOf(Rows, u)' = TagIdsOf(Rows, u)
  BY DEF PutGrants, TagIdsOf, TagsOf, Rows
<1>3. /\ grants' = [grants EXCEPT ![s] = Placed(body)]
      /\ \A i \in DOMAIN body : CheckGrantInvariants(body[i], TagIdsOf(Rows, s), PeersOf(Rows, s))
  BY DEF PutGrants
<1>4. \A j \in DOMAIN list : GrantBody(list[j])
  BY RequestsOK
<1>5. \A i \in DOMAIN body :
        /\ CheckRef(body[i].src, TagIdsOf(Rows, s), PeersOf(Rows, s))
        /\ CheckRef(body[i].dst, TagIdsOf(Rows, s), PeersOf(Rows, s))
        /\ RefOK(body[i].src, SrcKind) /\ RefOK(body[i].dst, DstKind)
  <2> SUFFICES ASSUME NEW i \in DOMAIN body
               PROVE  /\ CheckRef(body[i].src, TagIdsOf(Rows, s), PeersOf(Rows, s))
                      /\ CheckRef(body[i].dst, TagIdsOf(Rows, s), PeersOf(Rows, s))
                      /\ RefOK(body[i].src, SrcKind) /\ RefOK(body[i].dst, DstKind)
    OBVIOUS
  <2>1. /\ CheckRef(body[i].src, TagIdsOf(Rows, s), PeersOf(Rows, s))
        /\ CheckRef(body[i].dst, TagIdsOf(Rows, s), PeersOf(Rows, s))
    BY <1>3 DEF CheckGrantInvariants
  <2>2. i \in DOMAIN list
    BY DEF Resolve
  <2>3. /\ body[i].src.kind \in SrcKind /\ body[i].dst.kind \in DstKind
        /\ body[i].src.kind = "peer" => body[i].src.of \in Peer
        /\ body[i].dst.kind = "peer" => body[i].dst.of \in Peer
    <3> HIDE DEF list, id
    <3> QED
      BY <1>4, <2>2, ResolvedList DEF SrcKind, DstKind
  <2>4. /\ body[i].src.kind = "tag" => body[i].src.of \in TagId
        /\ body[i].dst.kind = "tag" => body[i].dst.of \in TagId
    <3> HIDE DEF body
    <3> QED
      BY <2>1, TagIdsTyped DEF CheckRef
  <2> HIDE DEF body
  <2> QED
    BY <2>1, <2>3, <2>4 DEF RefOK
<1> HIDE DEF body
<1>6. \A u \in Server : \A i \in GrantsOf(Rows, u)' :
        IF u = s THEN i \in DOMAIN body /\ grants'[u][i] = body[i]
        ELSE i \in GrantsOf(Rows, u) /\ grants'[u][i] = grants[u][i]
  BY <1>3, GrantsPlaced
<1>7. DOMAIN grants' = Server /\ \A u \in Server : DOMAIN grants'[u] = Position
  BY <1>3, GrantsPlaced
<1>8. PolicyTypeOK'
  <2>1. \A u \in Server : \A i \in GrantsOf(Rows, u)' :
          RefOK(grants'[u][i].src, SrcKind) /\ RefOK(grants'[u][i].dst, DstKind)
    BY <1>5, <1>6 DEF PolicyTypeOK
  <2> QED
    BY <1>7, <2>1 DEF PolicyTypeOK, PutGrants, Step, PostOK, RefOK
<1>9. GrantsResolve'
  BY <1>1, <1>2, <1>5, <1>6 DEF GrantsResolve
<1>10. AssignmentsResolve'
  BY <1>2 DEF AssignmentsResolve, PutGrants, PolicyTypeOK, PeerRow
<1> QED
  BY <1>1, <1>8, <1>9, <1>10

LEMMA PutPolicyInv ==
  ASSUME PolicyInv, NEW s \in Server, NEW k \in DOMAIN Documents, PutPolicy(s, Documents[k])
  PROVE  PolicyInv'
<1> USE DEF PolicyInv
<1> DEFINE doc == Documents[k]
           id == [n \in Name |-> NewId(n)]
           body == Resolve(doc.grants, id)
           named == Elements(doc.tags)
           made == {<<Entry(doc, e)[1], NewId(Entry(doc, e)[2])>> : e \in Entries(doc)}
<1>1. AddressesDistinct' /\ RoutesDisjoint' /\ \A u \in Server : PeersOf(Rows, u)' = PeersOf(Rows, u)
  BY SamePeers DEF PutPolicy
<1>2. named \subseteq Name /\ \A n \in Name : id[n] = NewId(n) /\ NewId(n) \in TagId
  BY RequestsOK DEF Elements, NewId, TagId, PolicyTypeOK
<1>3. /\ \A i \in DOMAIN doc.grants : GrantBody(doc.grants[i])
      /\ \A i \in DOMAIN doc.grants : CheckGrantInvariants(doc.grants[i], named, PeersOf(Rows, s))
  BY RequestsOK DEF PutPolicy, DocumentOK
<1>4. grants' = [grants EXCEPT ![s] = Placed(body)]
  BY DEF PutPolicy, ImportedGrants
<1>5. tags' = (tags \ TagsOf(Rows, s)) \cup {[id |-> NewId(n), home |-> s, name |-> n] : n \in named}
  BY DEF PutPolicy, ImportedTags
<1>6. assigned' = {a \in assigned : a[1] \notin PeersOf(Rows, s)} \cup made
  BY DEF PutPolicy, ImportedAssigned
<1>7. \A x \in made : x[1] \in PeersOf(Rows, s) /\ \E n \in named : x = <<x[1], NewId(n)>>
  <2> SUFFICES ASSUME NEW e \in Entries(doc)
               PROVE  Entry(doc, e)[1] \in PeersOf(Rows, s) /\ Entry(doc, e)[2] \in named
    OBVIOUS
  <2>1. e[1] \in DOMAIN doc.peerTags /\ e[2] \in DOMAIN doc.peerTags[e[1]].tags
    BY DEF Entries
  <2>2. doc.peerTags[e[1]].peer \in PeersOf(Rows, s) /\ Elements(doc.peerTags[e[1]].tags) \subseteq named
    BY <2>1 DEF PutPolicy, DocumentOK
  <2> QED
    BY <2>1, <2>2 DEF Entry, Elements
<1> HIDE DEF made, doc, id
<1>8. /\ \A n \in named : NewId(n) \in TagIdsOf(Rows, s)'
      /\ \A u \in Server \ {s} : TagIdsOf(Rows, u) \subseteq TagIdsOf(Rows, u)'
  <2> HIDE DEF named, body
  <2>1. \A n \in named : [id |-> NewId(n), home |-> s, name |-> n] \in tags'
    BY <1>5
  <2>2. \A t \in tags : t.home # s => t \in tags'
    BY <1>5 DEF TagsOf, Rows
  <2>3. \A n \in named : \E t \in tags' : t.home = s /\ t.id = NewId(n)
    BY <2>1
  <2> QED
    BY <2>2, <2>3 DEF TagIdsOf, TagsOf, Rows
<1>9. \A i \in DOMAIN body :
        /\ CheckRef(body[i].src, TagIdsOf(Rows, s)', PeersOf(Rows, s))
        /\ CheckRef(body[i].dst, TagIdsOf(Rows, s)', PeersOf(Rows, s))
        /\ RefOK(body[i].src, SrcKind) /\ RefOK(body[i].dst, DstKind)
  <2> SUFFICES ASSUME NEW i \in DOMAIN body
               PROVE  /\ CheckRef(body[i].src, TagIdsOf(Rows, s)', PeersOf(Rows, s))
                      /\ CheckRef(body[i].dst, TagIdsOf(Rows, s)', PeersOf(Rows, s))
                      /\ RefOK(body[i].src, SrcKind) /\ RefOK(body[i].dst, DstKind)
    OBVIOUS
  <2>1. i \in DOMAIN doc.grants
    BY DEF Resolve
  <2>2. CheckRef(doc.grants[i].src, named, PeersOf(Rows, s)) /\ CheckRef(doc.grants[i].dst, named, PeersOf(Rows, s))
    BY <1>3, <2>1 DEF CheckGrantInvariants
  <2> DEFINE g == doc.grants[i]
  <2>3. /\ body[i].src.kind = g.src.kind /\ body[i].dst.kind = g.dst.kind
        /\ g.src.kind \in SrcKind /\ g.dst.kind \in DstKind
        /\ g.src.kind = "tag" => body[i].src.of = id[g.src.of] /\ g.src.of \in Name
        /\ g.dst.kind = "tag" => body[i].dst.of = id[g.dst.of] /\ g.dst.of \in Name
        /\ g.src.kind # "tag" => body[i].src = g.src
        /\ g.dst.kind # "tag" => body[i].dst = g.dst
        /\ g.src.kind = "peer" => g.src.of \in Peer
        /\ g.dst.kind = "peer" => g.dst.of \in Peer
    BY <1>3, <2>1, ResolvedList
  <2> HIDE DEF body, g
  <2>4. CheckRef(g.src, named, PeersOf(Rows, s)) /\ CheckRef(g.dst, named, PeersOf(Rows, s))
    BY <2>2 DEF g
  <2>5. /\ body[i].src.kind = "tag" => body[i].src.of \in TagIdsOf(Rows, s)' /\ body[i].src.of \in TagId
        /\ body[i].dst.kind = "tag" => body[i].dst.of \in TagIdsOf(Rows, s)' /\ body[i].dst.of \in TagId
    BY <1>2, <1>8, <2>3, <2>4 DEF CheckRef
  <2>6. /\ body[i].src.kind = "peer" => body[i].src.of \in PeersOf(Rows, s) /\ body[i].src.of \in Peer
        /\ body[i].dst.kind = "peer" => body[i].dst.of \in PeersOf(Rows, s) /\ body[i].dst.of \in Peer
    BY <2>3, <2>4 DEF CheckRef
  <2> QED
    BY <2>3, <2>5, <2>6 DEF CheckRef, RefOK
<1> HIDE DEF body, named
<1>10. \A u \in Server : \A i \in GrantsOf(Rows, u)' :
        IF u = s THEN i \in DOMAIN body /\ grants'[u][i] = body[i]
        ELSE i \in GrantsOf(Rows, u) /\ grants'[u][i] = grants[u][i]
  BY <1>4, GrantsPlaced
<1>11. DOMAIN grants' = Server /\ \A u \in Server : DOMAIN grants'[u] = Position
  BY <1>4, GrantsPlaced
<1>12. PolicyTypeOK'
  <2>1. \A u \in Server : \A i \in GrantsOf(Rows, u)' :
          RefOK(grants'[u][i].src, SrcKind) /\ RefOK(grants'[u][i].dst, DstKind)
    BY <1>9, <1>10 DEF PolicyTypeOK
  <2>2. tags' \subseteq Tag
    BY <1>2, <1>5 DEF PolicyTypeOK, Tag
  <2>3. assigned' \subseteq Peer \X TagId
    BY <1>2, <1>6, <1>7 DEF PolicyTypeOK, PeersOf, Rows
  <2> QED
    BY <1>11, <2>1, <2>2, <2>3 DEF PolicyTypeOK, PutPolicy, Step, PostOK, RefOK
<1>13. GrantsResolve'
  <2> SUFFICES ASSUME NEW u \in Server, NEW i \in GrantsOf(Rows, u)', NEW ref \in {grants'[u][i].src, grants'[u][i].dst}
               PROVE  CheckRef(ref, TagIdsOf(Rows, u)', PeersOf(Rows, u)')
    BY DEF GrantsResolve
  <2>1. CASE u = s
    BY <1>1, <1>9, <1>10, <2>1
  <2>2. CASE u # s
    <3>1. CheckRef(ref, TagIdsOf(Rows, u), PeersOf(Rows, u))
      BY <1>10, <2>2 DEF GrantsResolve
    <3> QED
      BY <1>1, <1>8, <2>2, <3>1 DEF CheckRef
  <2> QED
    BY <2>1, <2>2
<1>14. AssignmentsResolve'
  <2> SUFFICES ASSUME NEW x \in assigned'
               PROVE  x[1] \in live /\ (x[1] \notin overtaken => x[2] \in TagIdsOf(Rows, row[x[1]].home)')
    BY DEF AssignmentsResolve, PutPolicy
  <2>1. CASE x \in made
    <3>1. x[1] \in live /\ row[x[1]].home = s
      BY <1>7, <2>1 DEF PeersOf, Rows
    <3>2. PICK n \in named : x = <<x[1], NewId(n)>>
      BY <1>7, <2>1
    <3> QED
      BY <1>8, <3>1, <3>2 DEF PutPolicy
  <2>2. CASE x \notin made
    <3>1. x \in assigned /\ x[1] \notin PeersOf(Rows, s)
      BY <1>6, <2>2
    <3>2. x[1] \in live /\ row[x[1]].home \in Server \ {s}
      BY <3>1 DEF AssignmentsResolve, PolicyTypeOK, PeerRow, PeersOf, Rows
    <3> QED
      BY <1>8, <3>1, <3>2 DEF AssignmentsResolve, PutPolicy
  <2> QED
    BY <2>1, <2>2
<1> QED
  BY <1>1, <1>12, <1>13, <1>14

(***************************************************************************)
(* Peers.                                                                  *)
(***************************************************************************)
LEMMA PostCheckInv ==
  ASSUME PolicyInv, NEW h \in Handler, NEW s \in Server, NEW i \in DOMAIN PeerWrites,
         PostCheck(h, s, PeerWrites[i])
  PROVE  PolicyInv'
<1> USE DEF PolicyInv
<1> DEFINE q == PeerWrites[i]
<1>1. PICK r \in ResolvePeerWrite(s, Null, q, q.exit) :
        post' = [post EXCEPT ![h] = [pc |-> "keys", row |-> r, exit |-> q.exit, tags |-> TagIdsAsked(s, q)]]
  BY DEF PostCheck
<1> DEFINE new == [pc |-> "keys", row |-> r, exit |-> q.exit, tags |-> TagIdsAsked(s, q)]
<1>2. q.exit \in BOOLEAN
  BY RequestsOK
<1>3. r \in PeerRow /\ OneExit(q.exit, r)
  BY <1>2, WrittenRow
<1>4. Given(q.tags) => Elements(TagIdsAsked(s, q)) \subseteq TagId
  <2> HIDE DEF q
  <2> QED
    BY <1>2, AskedTagsResolve, TagIdsTyped
<1>5. PostOK(new)
  BY <1>2, <1>3, <1>4 DEF PostOK, TagIdsAsked, Given
<1>6. UNCHANGED <<rowVars, overtaken>>
  BY DEF PostCheck
<1>7. \A u \in Server : GrantsOf(Rows, u)' = GrantsOf(Rows, u)
  BY <1>6, SameGrants DEF rowVars
<1>8. AddressesDistinct' /\ RoutesDisjoint' /\ \A u \in Server : PeersOf(Rows, u)' = PeersOf(Rows, u)
  BY <1>6, SamePeers DEF rowVars
<1>9. \A u \in Server : TagIdsOf(Rows, u)' = TagIdsOf(Rows, u)
  BY <1>6 DEF TagIdsOf, TagsOf, Rows, rowVars
<1>10. \A g \in Handler : post'[g] # NoPost => PostOK(post'[g])
  <2> SUFFICES ASSUME NEW g \in Handler, post'[g] # NoPost PROVE PostOK(post'[g])
    OBVIOUS
  <2>1. post' = [post EXCEPT ![h] = new]
    BY <1>1
  <2> HIDE DEF new
  <2> QED
    BY <1>5, <2>1 DEF PolicyTypeOK
<1>11. PolicyTypeOK'
  BY <1>6, <1>7, <1>10 DEF PolicyTypeOK, PostCheck, Step, RefOK, PostOK, rowVars
<1>12. GrantsResolve'
  BY <1>6, <1>7, <1>8, <1>9 DEF GrantsResolve, rowVars
<1>13. AssignmentsResolve'
  BY <1>6, <1>9 DEF AssignmentsResolve, rowVars, PolicyTypeOK, PeerRow
<1> QED
  BY <1>8, <1>11, <1>12, <1>13

LEMMA PostInsertInv ==
  ASSUME PolicyInv, NEW h \in Handler, PostInsert(h)
  PROVE  PolicyInv'
<1> USE DEF PolicyInv
<1> DEFINE new == post[h]
<1>1. PostOK(new)
  BY DEF PostInsert, PolicyTypeOK
<1>2. \A g \in Handler : post'[g] # NoPost => PostOK(post'[g])
  BY DEF PostInsert, PolicyTypeOK
<1>3. \A u \in Server : GrantsOf(Rows, u)' = GrantsOf(Rows, u)
  BY SameGrants DEF PostInsert
<1>4. \A u \in Server : TagIdsOf(Rows, u)' = TagIdsOf(Rows, u)
  BY DEF TagIdsOf, TagsOf, Rows, PostInsert
<1>5. CASE UNCHANGED <<live, fresh, row, assigned, overtaken>>
  <2>1. AddressesDistinct' /\ RoutesDisjoint' /\ \A u \in Server : PeersOf(Rows, u)' = PeersOf(Rows, u)
    BY <1>5, SamePeers
  <2>2. PolicyTypeOK'
    BY <1>2, <1>3, <1>5 DEF PolicyTypeOK, PostInsert, PostOK, RefOK
  <2>3. GrantsResolve' /\ AssignmentsResolve'
    BY <1>3, <1>4, <1>5, <2>1 DEF GrantsResolve, AssignmentsResolve, PostInsert, PolicyTypeOK, PeerRow
  <2> QED
    BY <2>1, <2>2, <2>3
<1>6. ASSUME AddressFree(new.row.home, new.row.addr),
             NEW p \in fresh,
             new.exit <=> p \in Gateway,
             live' = live \cup {p}, fresh' = fresh \ {p}, row' = [row EXCEPT ![p] = new.row],
             assigned' = IF Given(new.tags) THEN SetPeerTags(p, new.tags) ELSE assigned,
             overtaken' = overtaken \cup (IF StillAccepted(new) THEN {} ELSE {p})
      PROVE  PolicyInv'
  <2>1. p \in Peer \ live /\ new.row \in PeerRow
    BY <1>1, <1>6 DEF PolicyTypeOK, PostOK
  <2>2. row' \in [Peer -> PeerRow] /\ row'[p] = new.row /\ \A o \in Peer \ {p} : row'[o] = row[o]
    BY <1>6, <2>1 DEF PolicyTypeOK
  <2>3. \A u \in Server : PeersOf(Rows, u) \subseteq PeersOf(Rows, u)'
    BY <1>6, <2>1, <2>2 DEF PeersOf, Rows, PolicyTypeOK
  <2>4. \A a \in assigned' : \/ a \in assigned /\ a[1] # p
                             \/ Given(new.tags) /\ a[1] = p /\ a[2] \in Elements(new.tags) /\ a = <<p, a[2]>>
    <3>1. \A a \in assigned : a[1] # p
      BY <2>1 DEF AssignmentsResolve
    <3> QED
      BY <1>6, <3>1 DEF SetPeerTags
  <2>5. PolicyTypeOK'
    <3>1. assigned' \subseteq Peer \X TagId
      BY <1>1, <2>1, <2>4 DEF PolicyTypeOK, PostOK
    <3>2. \A o \in live' : ~(row'[o].via # Null /\ (row'[o].viaServer \/ o \in Gateway))
                            /\ (o \in Gateway => ~row'[o].viaServer)
      <4>1. ~(new.row.via # Null /\ (new.row.viaServer \/ p \in Gateway)) /\ (p \in Gateway => ~new.row.viaServer)
        BY <1>1, <1>6 DEF PostOK, OneExit
      <4> QED
        BY <1>6, <2>1, <2>2, <4>1 DEF PolicyTypeOK
    <3>3. overtaken' \subseteq Peer /\ live' \subseteq Peer /\ fresh' \subseteq Peer \ live'
      BY <1>6, <2>1 DEF PolicyTypeOK
    <3> QED
      BY <1>2, <1>3, <2>2, <3>1, <3>2, <3>3 DEF PolicyTypeOK, PostInsert, PostOK, RefOK
  <2>6. GrantsResolve'
    BY <1>3, <1>4, <2>3 DEF GrantsResolve, CheckRef, PostInsert
  <2>7. AssignmentsResolve'
    <3> SUFFICES ASSUME NEW a \in assigned'
                 PROVE  a[1] \in live' /\ (a[1] \notin overtaken' => a[2] \in TagIdsOf(Rows, row[a[1]].home)')
      BY DEF AssignmentsResolve
    <3>1. CASE a \in assigned /\ a[1] # p
      <4>1. a[1] \in live /\ row'[a[1]] = row[a[1]] /\ row[a[1]].home \in Server
        BY <2>2, <3>1 DEF AssignmentsResolve, PolicyTypeOK, PeerRow
      <4> QED
        BY <1>4, <1>6, <3>1, <4>1 DEF AssignmentsResolve
    <3>2. CASE Given(new.tags) /\ a[1] = p /\ a[2] \in Elements(new.tags)
      <4>1. new.row.home \in Server
        BY <2>1 DEF PeerRow
      <4>2. p \notin overtaken' => a[2] \in TagIdsOf(Rows, new.row.home)
        BY <1>6, <3>2 DEF StillAccepted
      <4> QED
        BY <1>4, <1>6, <2>2, <3>2, <4>1, <4>2
    <3> QED
      BY <2>4, <3>1, <3>2
  <2>8. AddressesDistinct'
    <3>1. \A o \in live : row[o].home = new.row.home => row[o].addr # new.row.addr
      BY <1>6 DEF AddressFree, PeersOf, Rows
    <3> QED
      BY <1>6, <2>1, <2>2, <3>1 DEF AddressesDistinct, PolicyTypeOK
  <2>9. RoutesDisjoint'
    <3>1. CASE p \notin overtaken'
      <4>1. \A o \in live : \A c \in row[o].routes, d \in new.row.routes : ~CidrsOverlap(c, d)
        BY <1>6, <3>1 DEF StillAccepted
      <4>2. \A o \in live : row[o].routes \subseteq Cidr
        BY DEF PolicyTypeOK, PeerRow
      <4>3. new.row.routes \subseteq Cidr
        BY <2>1 DEF PeerRow
      <4>4. \A o \in live : \A c \in row[o].routes, d \in new.row.routes :
              Block(c) \cap Block(d) = {} /\ Block(d) \cap Block(c) = {}
        BY <4>1, <4>2, <4>3, OverlapIsShared
      <4> QED
        BY <1>6, <2>1, <2>2, <4>4 DEF RoutesDisjoint, PolicyTypeOK
    <3>2. CASE p \in overtaken'
      BY <1>6, <2>1, <2>2, <3>2 DEF RoutesDisjoint, PolicyTypeOK
    <3> QED
      BY <3>1, <3>2
  <2> QED
    BY <2>5, <2>6, <2>7, <2>8, <2>9
<1> QED
  BY <1>5, <1>6 DEF PostInsert

LEMMA PatchPeerInv ==
  ASSUME PolicyInv, NEW p \in Peer, NEW i \in DOMAIN PeerWrites, PatchPeer(p, PeerWrites[i])
  PROVE  PolicyInv'
<1> USE DEF PolicyInv
<1> DEFINE q == PeerWrites[i]
           s == row[p].home
           exit == p \in Gateway
<1>1. p \in live /\ s \in Server /\ exit \in BOOLEAN
  BY DEF PatchPeer, PolicyTypeOK, PeerRow
<1>2. PICK r \in ResolvePeerWrite(s, p, q, exit) : row' = [row EXCEPT ![p] = r]
  BY DEF PatchPeer
<1>3. assigned' = IF Given(q.tags) THEN SetPeerTags(p, TagIdsAsked(s, q)) ELSE assigned
  BY DEF PatchPeer
<1> HIDE DEF exit
<1>4. /\ r \in PeerRow /\ r.home = s /\ OneExit(exit, r)
      /\ \A o \in live \ {p} : row[o].home = s => row[o].addr # r.addr \/ (p # Null /\ r.addr = row[p].addr)
      /\ \/ \A o \in live \ {p} : \A c \in row[o].routes, d \in r.routes : Block(c) \cap Block(d) = {}
         \/ p # Null /\ r.routes = row[p].routes
         \/ p = Null /\ r.routes = {}
  <2> HIDE DEF s
  <2>1. s = row[p].home
    BY DEF s
  <2> QED
    BY <1>1, <1>2, <2>1, WrittenRow
<1>5. p # Null
  BY ConstantsOK
<1>6. Given(q.tags) => Elements(TagIdsAsked(s, q)) \subseteq TagIdsOf(Rows, s) \cap TagId
  <2> HIDE DEF q, s
  <2> QED
    BY <1>1, <1>2, AskedTagsResolve, TagIdsTyped
<1>7. UNCHANGED <<servers, srv, live, fresh, tags, grants, post, deleting, overtaken, serial>>
  BY DEF PatchPeer
<1>8. row' \in [Peer -> PeerRow] /\ row'[p] = r /\ \A o \in Peer \ {p} : row'[o] = row[o]
  BY <1>2, <1>4 DEF PolicyTypeOK
<1>9. \A u \in Server : GrantsOf(Rows, u)' = GrantsOf(Rows, u)
  BY <1>7, SameGrants
<1>10. \A u \in Server : TagIdsOf(Rows, u)' = TagIdsOf(Rows, u) /\ PeersOf(Rows, u)' = PeersOf(Rows, u)
  BY <1>1, <1>4, <1>7, <1>8 DEF TagIdsOf, TagsOf, PeersOf, Rows, PolicyTypeOK
<1>11. \A a \in assigned' : \/ a \in assigned
                            \/ a[1] = p /\ a[2] \in TagIdsOf(Rows, s) \cap TagId /\ a = <<p, a[2]>>
  BY <1>3, <1>6 DEF SetPeerTags
<1> HIDE DEF q, s
<1>12. \A o \in live : row'[o].home = row[o].home
  BY <1>4, <1>8 DEF s, PolicyTypeOK
<1>13. PolicyTypeOK'
  <2>1. assigned' \subseteq Peer \X TagId
    BY <1>11 DEF PolicyTypeOK
  <2>2. \A o \in live : ~(row'[o].via # Null /\ (row'[o].viaServer \/ o \in Gateway))
                        /\ (o \in Gateway => ~row'[o].viaServer)
    <3>1. ~(r.via # Null /\ (r.viaServer \/ p \in Gateway)) /\ (p \in Gateway => ~r.viaServer)
      BY <1>4 DEF OneExit, exit
    <3> QED
      BY <1>8, <3>1 DEF PolicyTypeOK
  <2> QED
    BY <1>7, <1>8, <1>9, <2>1, <2>2 DEF PolicyTypeOK, PatchPeer, Step, PostOK, RefOK
<1>14. GrantsResolve'
  BY <1>7, <1>9, <1>10 DEF GrantsResolve
<1>15. AssignmentsResolve'
  <2> SUFFICES ASSUME NEW a \in assigned'
               PROVE  a[1] \in live' /\ (a[1] \notin overtaken' => a[2] \in TagIdsOf(Rows, row[a[1]].home)')
    BY DEF AssignmentsResolve
  <2>1. a[1] \in live /\ row[a[1]].home \in Server /\ (a[1] \notin overtaken => a[2] \in TagIdsOf(Rows, row[a[1]].home))
    BY <1>1, <1>11 DEF AssignmentsResolve, s, PolicyTypeOK, PeerRow
  <2> QED
    BY <1>7, <1>10, <1>12, <2>1
<1>16. AddressesDistinct'
  BY <1>1, <1>4, <1>5, <1>7, <1>8 DEF AddressesDistinct, PolicyTypeOK, s
<1>17. RoutesDisjoint'
  <2> SUFFICES ASSUME NEW o \in live \ overtaken, NEW m \in live \ overtaken, o # m,
                      NEW c \in row'[o].routes, NEW d \in row'[m].routes
               PROVE  Block(c) \cap Block(d) = {}
    BY <1>7 DEF RoutesDisjoint
  <2>1. o \in Peer /\ m \in Peer
    BY DEF PolicyTypeOK
  <2>2. CASE r.routes = row[p].routes
    BY <1>8, <2>1, <2>2 DEF RoutesDisjoint
  <2>3. CASE \A x \in live \ {p} : \A c1 \in row[x].routes, d1 \in r.routes : Block(c1) \cap Block(d1) = {}
    <3>1. CASE o = p
      <4>1. m # p /\ d \in row[m].routes /\ c \in r.routes
        BY <1>8, <2>1, <3>1
      <4>2. Block(d) \cap Block(c) = {}
        BY <2>3, <4>1
      <4> QED
        BY <4>2
    <3>2. CASE m = p
      BY <1>8, <2>1, <2>3, <3>2
    <3>3. CASE o # p /\ m # p
      BY <1>8, <2>1, <3>3 DEF RoutesDisjoint
    <3> QED
      BY <3>1, <3>2, <3>3
  <2> QED
    BY <1>4, <1>5, <2>2, <2>3
<1> QED
  BY <1>13, <1>14, <1>15, <1>16, <1>17

LEMMA RemovePeerInv ==
  ASSUME PolicyInv, NEW p \in Peer, RemovePeer(p), deleting' \subseteq Peer, ops' \in Nat
  PROVE  PolicyInv'
<1> USE DEF PolicyInv
<1>1. live' = live \ {p} /\ grants' = GrantsWithout("peer", p) /\ assigned' = {a \in assigned : a[1] # p}
  BY DEF RemovePeer
<1>2. UNCHANGED <<servers, srv, fresh, tags, post, overtaken, serial>>
  BY DEF RemovePeer
<1>3. \A o \in Peer : /\ row'[o] \in PeerRow /\ row'[o].home = row[o].home /\ row'[o].addr = row[o].addr
                      /\ row'[o].routes = row[o].routes /\ row'[o].viaServer = row[o].viaServer
                      /\ row'[o].via \in {row[o].via, Null}
  BY DEF RemovePeer, PolicyTypeOK, PeerRow
<1>4. row' \in [Peer -> PeerRow]
  BY <1>3 DEF RemovePeer
<1>5. \A u \in Server : /\ TagIdsOf(Rows, u)' = TagIdsOf(Rows, u)
                        /\ PeersOf(Rows, u)' = PeersOf(Rows, u) \ {p}
  BY <1>1, <1>2, <1>3 DEF TagIdsOf, TagsOf, PeersOf, Rows, PolicyTypeOK
<1>6. \A u \in Server :
        /\ DOMAIN grants' = Server /\ DOMAIN grants'[u] = Position
        /\ \A i \in GrantsOf(Rows, u)' :
             /\ i \in GrantsOf(Rows, u) /\ grants'[u][i] = grants[u][i]
             /\ ~Names(grants[u][i].src, "peer", p) /\ ~Names(grants[u][i].dst, "peer", p)
  BY <1>1, GrantsLeft
<1>7. PolicyTypeOK'
  <2>1. assigned' \subseteq Peer \X TagId /\ live' \subseteq Peer /\ fresh' \subseteq Peer \ live'
    BY <1>1, <1>2 DEF PolicyTypeOK
  <2>2. \A o \in live' : ~(row'[o].via # Null /\ (row'[o].viaServer \/ o \in Gateway))
                        /\ (o \in Gateway => ~row'[o].viaServer)
    BY <1>1, <1>3 DEF PolicyTypeOK
  <2>3. DOMAIN grants' = Server
    BY <1>1 DEF GrantsWithout
  <2> QED
    BY <1>2, <1>4, <1>6, <2>1, <2>2, <2>3 DEF PolicyTypeOK, PostOK, RefOK
<1>8. GrantsResolve'
  <2> SUFFICES ASSUME NEW u \in Server, NEW i \in GrantsOf(Rows, u)', NEW ref \in {grants'[u][i].src, grants'[u][i].dst}
               PROVE  CheckRef(ref, TagIdsOf(Rows, u)', PeersOf(Rows, u)')
    BY DEF GrantsResolve
  <2>1. CheckRef(ref, TagIdsOf(Rows, u), PeersOf(Rows, u)) /\ ~Names(ref, "peer", p)
    BY <1>6 DEF GrantsResolve
  <2> QED
    BY <1>5, <2>1 DEF CheckRef, Names
<1>9. AssignmentsResolve'
  <2> SUFFICES ASSUME NEW a \in assigned'
               PROVE  a[1] \in live' /\ (a[1] \notin overtaken' => a[2] \in TagIdsOf(Rows, row[a[1]].home)')
    BY DEF AssignmentsResolve
  <2>1. a[1] \in live /\ a[1] # p /\ a[1] \in Peer /\ row[a[1]].home \in Server
        /\ (a[1] \notin overtaken => a[2] \in TagIdsOf(Rows, row[a[1]].home))
    BY <1>1 DEF AssignmentsResolve, PolicyTypeOK, PeerRow
  <2> QED
    BY <1>1, <1>2, <1>3, <1>5, <2>1
<1>10. AddressesDistinct' /\ RoutesDisjoint'
  BY <1>1, <1>2, <1>3 DEF AddressesDistinct, RoutesDisjoint, PolicyTypeOK
<1> QED
  BY <1>7, <1>8, <1>9, <1>10

\* The tables that the properties relate, untouched.
LEMMA SameTables ==
  ASSUME PolicyInv, UNCHANGED <<live, fresh, row, tags, assigned, grants, post, overtaken, serial>>,
         servers' \subseteq Server, srv' \in [Server -> ServerRow], deleting' \subseteq Peer, ops' \in Nat
  PROVE  PolicyInv'
<1> USE DEF PolicyInv
<1>1. AddressesDistinct' /\ RoutesDisjoint' /\ \A u \in Server : PeersOf(Rows, u)' = PeersOf(Rows, u)
  BY SamePeers
<1>2. \A u \in Server : GrantsOf(Rows, u)' = GrantsOf(Rows, u)
  BY SameGrants
<1>3. \A u \in Server : TagIdsOf(Rows, u)' = TagIdsOf(Rows, u)
  BY DEF TagIdsOf, TagsOf, Rows
<1>4. PolicyTypeOK'
  BY <1>2 DEF PolicyTypeOK, PostOK, RefOK
<1> QED
  BY <1>1, <1>2, <1>3, <1>4 DEF GrantsResolve, AssignmentsResolve, PolicyTypeOK, PeerRow

LEMMA WriteServerTyped ==
  ASSUME PolicyTypeOK, NEW s \in Server, NEW i \in DOMAIN ServerWrites, WriteServer(s, ServerWrites[i])
  PROVE  srv' \in [Server -> ServerRow] /\ ops' \in Nat
<1> DEFINE q == ServerWrites[i]
           next == [range |-> Ask(q.range, srv[s].range), addr |-> Ask(q.addr, srv[s].addr),
                    reserved |-> Ask(q.reserved, srv[s].reserved), offers |-> srv[s].offers]
<1>1. srv[s] \in ServerRow
  BY DEF PolicyTypeOK
<1>2. q.range \in Cidr \cup {Keep} /\ q.addr \in Nat \cup {Keep} /\ q.reserved \in Nat \cup {Keep}
  BY RequestsOK
<1>3. srv' = [srv EXCEPT ![s] = next]
  BY DEF WriteServer
<1>4. next \in ServerRow
  BY <1>1, <1>2 DEF ServerRow, Ask, Given
<1> HIDE DEF next
<1> QED
  BY <1>3, <1>4 DEF PolicyTypeOK, WriteServer, Step

(***************************************************************************)
(* Every step.                                                             *)
(***************************************************************************)
LEMMA NextInv == PolicyInv /\ [Next]_vars => PolicyInv'
<1> SUFFICES ASSUME PolicyInv, [Next]_vars PROVE PolicyInv'
  OBVIOUS
<1>1. PolicyTypeOK
  BY DEF PolicyInv
<1>2. ASSUME NEW p \in Peer, DeletePeer(p) PROVE PolicyInv'
  BY <1>1, <1>2, RemovePeerInv DEF DeletePeer, Step, PolicyTypeOK
<1>3. ASSUME NEW p \in Peer, DeleteCommit(p) PROVE PolicyInv'
  BY <1>1, <1>3, RemovePeerInv DEF DeleteCommit, PolicyTypeOK
<1>4. ASSUME NEW p \in Peer, DeleteLinked(p) PROVE PolicyInv'
  BY <1>1, <1>4, SameTables DEF DeleteLinked, Step, rowVars, PolicyTypeOK
<1>5. ASSUME NEW s \in Server, NEW i \in DOMAIN ServerWrites, PatchServer(s, ServerWrites[i]) PROVE PolicyInv'
  BY <1>1, <1>5, SameTables, WriteServerTyped DEF PatchServer, PolicyTypeOK
<1>6. ASSUME NEW s \in Server, NEW i \in DOMAIN ServerWrites, NEW offers \in BOOLEAN,
             PostServer(s, ServerWrites[i], offers)
      PROVE  PolicyInv'
  <2> DEFINE q == ServerWrites[i]
  <2>1. q.range \in Cidr \cup {Keep} /\ q.addr \in Nat \cup {Keep} /\ q.reserved \in Nat \cup {Keep}
    BY RequestsOK
  <2>2. srv' \in [Server -> ServerRow]
    BY <1>1, <1>6, <2>1 DEF PostServer, PolicyTypeOK, ServerRow, Given
  <2>3. servers' \subseteq Server /\ deleting' \subseteq Peer /\ ops' \in Nat
    BY <1>1, <1>6 DEF PostServer, PolicyTypeOK, Step
  <2> QED
    BY <1>6, <2>2, <2>3, SameTables DEF PostServer
<1>7. CASE UNCHANGED vars
  BY <1>1, <1>7, SameTables DEF vars, rowVars, PolicyTypeOK
<1>8. CASE Next
  BY <1>2, <1>3, <1>4, <1>5, <1>6, <1>8, PostTagInv, PatchTagInv, DeleteTagInv, PutGrantsInv, PutPolicyInv,
     PostCheckInv, PostInsertInv, PatchPeerInv DEF Next
<1> QED
  BY <1>7, <1>8

THEOREM PolicySafe == Spec => []PolicyInv
<1> QED
  BY InitInv, NextInv, PTL DEF Spec

\* The tables hold only what their types and the rule about the exit columns allow.
THEOREM PolicyTyped == Spec => []PolicyTypeOK
<1>1. PolicyInv => PolicyTypeOK
  BY DEF PolicyInv
<1> QED
  BY <1>1, PolicySafe, PTL

\* A grant never names a tag or a peer that is not on its server: PUT, import, renames and every
\* deletion, whatever order they come in (api/policy.ts, api/serversPeers.ts).
THEOREM GrantsAlwaysResolve == Spec => []GrantsResolve
<1>1. PolicyInv => GrantsResolve
  BY DEF PolicyInv
<1> QED
  BY <1>1, PolicySafe, PTL

\* An assignment belongs to a live peer and to a tag of its server, unless a POST was overtaken.
THEOREM AssignmentsAlwaysResolve == Spec => []AssignmentsResolve
<1>1. PolicyInv => AssignmentsResolve
  BY DEF PolicyInv
<1> QED
  BY <1>1, PolicySafe, PTL

\* Two peers of a server never have one address.
THEOREM AddressesAlwaysDistinct == Spec => []AddressesDistinct
<1>1. PolicyInv => AddressesDistinct
  BY DEF PolicyInv
<1> QED
  BY <1>1, PolicySafe, PTL

\* The prefixes of two peers never share an address, unless a POST was overtaken.
THEOREM RoutesAlwaysDisjoint == Spec => []RoutesDisjoint
<1>1. PolicyInv => RoutesDisjoint
  BY DEF PolicyInv
<1> QED
  BY <1>1, PolicySafe, PTL

=============================================================================
