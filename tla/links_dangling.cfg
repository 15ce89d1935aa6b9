SPECIFICATION LinksSpec
CONSTANTS
  s1 = s1
  Server = {s1}
  Peer = {1, 2, 3}
  InitialPeer = {1, 2}
  Home <- MCHome
  Handler = {"h1", "h2"}
  Request <- MCChoice
  Ordinal = {0, 1, 2}
  ServerOrdinal = {0}
  PortBand = {1, 2}
  PinPort = {}
  RouteTable = {0, 1}
  ServerPort = {}
  InitialPort <- MCInitialPort
  MaxOps = 4
  None = None
  Keep = Keep
INVARIANT ExitChoiceValid
