SPECIFICATION MCSpec
CONSTANTS
  s1 = s1
  s2 = s2
  e = e
  a = a
  b = b
  Peer = {e, a, b}
  Gateway = {e}
  Server = {s1, s2}
  Name = {"t", "u"}
  Handler = {"h1"}
  Null = Null
  Keep = Keep
  Space = 32
  MaxGrants = 3
  MaxOps = 4
  PeerWrites <- MCPeerWrites
  ServerWrites <- MCServerWrites
  GrantLists <- MCGrantLists
  Documents <- MCDocuments
  L4 <- MCL4
  Internet = 31
INVARIANTS
  PolicyTypeOK
  GrantsResolve
  AssignmentsResolve
  AddressesDistinct
  RoutesDisjoint
  RulesetMatchesPolicy
  PacketsReachOwner
  HintCoversGrants
  ExportImportKeepsPolicy
CHECK_DEADLOCK FALSE
