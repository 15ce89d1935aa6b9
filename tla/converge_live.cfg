SPECIFICATION FairSpec
CONSTANTS
  s1 = s1
  s2 = s2
  e1 = e1
  e2 = e2
  c1 = c1
  Server = {s1, s2}
  Peer = {e1, e2}
  InitialPeer = {e1}
  Home <- MCOneServer
  Handler = {"h1"}
  Request <- MarkChoosePin
  Ordinal = {0, 1}
  ServerOrdinal = {}
  PortBand = {1, 2}
  PinPort = {1}
  RouteTable = {0, 1}
  ServerPort = {1}
  InitialPort <- MCInitialPort
  MaxOps = 3
  MaxFaults = 1
  None = None
  Keep = Keep
PROPERTIES
  ChainDrains
  DeletesComplete
CHECK_DEADLOCK FALSE
