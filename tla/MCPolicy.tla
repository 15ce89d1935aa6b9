------------------------------ MODULE MCPolicy ------------------------------
(***************************************************************************)
(* A small instance of Policy.  Server s1 has the range 0..7 with its hub  *)
(* at 1, an exit node e that advertises a LAN, and a tagged peer a; s2 has *)
(* the range 8..11 or that of s1.  The database of MCInit is one that      *)
(* requests to an empty one lead to.                                       *)
(***************************************************************************)
EXTENDS Firewall

CONSTANTS s1, s2, e, a, b

C(base, size) == [base |-> base, size |-> size]

Body(addr, routes, via, viaServer, names) ==
  [addr |-> addr, routes |-> routes, via |-> via, viaServer |-> viaServer, tags |-> names, exit |-> FALSE]

\* An address, a LAN written with host bits, no exit and no tags; the uplink, a LAN inside that one
\* and a tag; an exit node, and a tag named twice.
MCPeerWrites ==
  << Body(3, <<C(19, 2)>>, Null, Keep, <<>>),
     Body(Keep, <<C(18, 1)>>, Keep, TRUE, <<"t">>),
     Body(Keep, Keep, e, FALSE, <<"t", "t">>) >>

\* The range of s1, with its hub moved to the address of e, or a second server that hands out the address
\* of a; and a range that overlaps with none.
MCServerWrites ==
  << [range |-> C(0, 8), addr |-> 2, reserved |-> 4], [range |-> C(8, 4), addr |-> 9, reserved |-> 1] >>

Grant(enabled, action, src, dst, protocol, ports) ==
  [enabled |-> enabled, action |-> action, src |-> src, dst |-> dst, protocol |-> protocol, ports |-> ports]

Anywhere == Ref("any", Null)
Hub == Ref("server", Null)

\* A disabled deny above the allow, a deny below it; and a grant of one peer above one of its tag.
MCGrantLists ==
  << << Grant(FALSE, "deny", Ref("tag", "t"), Anywhere, "any", {}),
        Grant(TRUE, "allow", Ref("tag", "t"), Anywhere, "tcp", {<<20, 22>>}) >>,
     << Grant(TRUE, "allow", Ref("peer", a), Ref("cidr", C(16, 2)), "any", {}),
        Grant(TRUE, "deny", Ref("tag", "t"), Hub, "icmp", {}),
        Grant(TRUE, "allow", Ref("peer", b), Ref("tag", "t"), "udp", {}) >> >>

MCDocuments ==
  << [tags |-> <<"t", "u">>, grants |-> << Grant(TRUE, "deny", Ref("tag", "u"), Ref("peer", e), "any", {}) >>,
      peerTags |-> << [peer |-> a, tags |-> <<"u">>] >>] >>

MCL4 == {[protocol |-> "tcp", port |-> 22], [protocol |-> "tcp", port |-> 80], [protocol |-> "icmp", port |-> 0]}

MCInit ==
  LET t == <<0, "t">>
      At(addr, routes, via) == [Blank(s1) EXCEPT !.addr = addr, !.routes = routes, !.via = via]
  IN /\ servers = {s1}
     /\ srv = [s \in Server |-> IF s = s1 THEN [range |-> C(0, 8), addr |-> 1, reserved |-> 2, offers |-> TRUE]
                                ELSE [range |-> C(0, 1), addr |-> 0, reserved |-> 0, offers |-> FALSE]]
     /\ live = {e, a} /\ fresh = Peer \ live
     /\ row = [p \in Peer |-> CASE p = e -> At(2, {C(16, 2)}, Null)
                                [] p = a -> At(4, {}, e)
                                [] OTHER -> Blank(s1)]
     /\ tags = {[id |-> t, home |-> s1, name |-> "t"]} /\ assigned = {<<a, t>>}
     /\ grants = [s \in Server |-> IF s = s1 THEN Placed(<<Grant(TRUE, "allow", Ref("peer", a), Ref("tag", t), "any", {})>>)
                                   ELSE Placed(<<>>)]
     /\ post = [h \in Handler |-> NoPost]
     /\ deleting = {} /\ overtaken = {}
     /\ serial = 1 /\ ops = 0

MCSpec == MCInit /\ [][Next]_vars

=============================================================================
