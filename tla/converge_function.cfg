SPECIFICATION Spec
CONSTANTS
  s1 = s1
  s2 = s2
  e1 = e1
  e2 = e2
  c1 = c1
  Server = {s1}
  Peer = {e1, e2, c1}
  InitialPeer = {e1, e2, c1}
  Home <- MCOneServer
  Handler = {"h1"}
  Request <- MarkChoose
  Ordinal = {0, 1}
  ServerOrdinal = {}
  PortBand = {1, 2}
  PinPort = {}
  RouteTable = {0, 1}
  ServerPort = {}
  InitialPort <- MCInitialPort
  MaxOps = 5
  MaxFaults = 0
  None = None
  Keep = Keep
INVARIANT RulesAreAFunctionOfRows
CHECK_DEADLOCK FALSE
