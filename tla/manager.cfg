SPECIFICATION ManagerFairSpec
CONSTANTS
  s1 = s1
  e1 = e1
  e2 = e2
  c1 = c1
  Server = {s1}
  Peer = {e1, e2, c1}
  InitialPeer = {e1, e2, c1}
  Home <- MCHome
  Handler = {"h1"}
  Request <- MCRequest
  Ordinal = {0}
  ServerOrdinal = {}
  PortBand = {1, 2}
  PinPort = {}
  RouteTable = {0, 1}
  ServerPort = {}
  InitialPort <- MCInitialPort
  MaxOps = 1
  MaxFaults = 1
  MaxEnds = 1
  Marked = {e1, e2}
  None = None
  Keep = Keep
INVARIANTS
  ManagerTypeOK
  RecoveredMatchesRows
  RecoveredIdentity
  StopLeavesNothing
PROPERTIES
  ServerComesBack
CHECK_DEADLOCK FALSE
