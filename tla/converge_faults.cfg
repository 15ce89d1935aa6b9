SPECIFICATION Spec
CONSTANTS
  s1 = s1
  s2 = s2
  e1 = e1
  e2 = e2
  c1 = c1
  Server = {s1, s2}
  Peer = {e1, e2, c1}
  InitialPeer = {e1, e2, c1}
  Home <- MCTwoServers
  Handler = {"h1", "h2"}
  Request <- MarkChoose
  Ordinal = {0, 1, 2}
  ServerOrdinal = {}
  PortBand = {1, 2, 3}
  PinPort = {}
  RouteTable = {0, 1, 2}
  ServerPort = {}
  InitialPort <- MCInitialPort
  MaxOps = 4
  MaxFaults = 1
  None = None
  Keep = Keep
INVARIANTS
  ConvergeTypeOK
  MembersMatchRows
  LinksReleased
  SteeredToChoice
  RoutesMatchRows
CHECK_DEADLOCK FALSE
