--------------------------- MODULE Faultless_proofs ---------------------------
(***************************************************************************)
(* Proofs about a converge that no command fails: its steps do not defeat  *)
(* each other, and what it leaves carries the keys and the ports of the    *)
(* rows; and about an exit node that waits for a link.  All of it rests on *)
(* the allocator handing out names and ports in lockstep.                  *)
(***************************************************************************)
EXTENDS Converge_proofs

-----------------------------------------------------------------------------
(* Names and ports go together.                                            *)

\* No server listens on a port of the allocator's band, and none is asked to.
PortsApart == (\A s \in Server : InitialPort[s] \notin PortBand) /\ ServerPort \cap PortBand = {}

NthPort(T) == Nth(T, Ordinal \ ServerOrdinal, PortBand)

\* The port of a link is the one that goes with its name.
Numbered(T, link) == link.name \in DOMAIN T /\ link.port = T[link.name]

PortsInv(T) ==
  /\ \A s \in Server : srvPort[s] \notin PortBand
  /\ \A p \in Peer : {row[p].name, row[p].port} = {None} \/ Numbered(T, row[p])
  /\ rec.pc = "keygen" => Numbered(T, rec.alloc)

LEMMA PortsInit ==
  ASSUME PortsApart, NEW T, LinksInit
  PROVE  PortsInv(T)
  BY DEF PortsApart, LinksInit, PortsInv, Blank, IdleRec

\* The lowest free port is that of the lowest free name, since names and ports are taken together.
LEMMA PortsTogether ==
  ASSUME ConstantsOK, LinksTypeOK, NEW T, NthPort(T), PortsInv(T), NEW p \in Peer, CanAllocate(p, None)
  PROVE  Numbered(T, AllocationFor(p, None))
<1> DEFINE names == Ordinal \ TakenNames(p)
           ports == PortBand \ TakenPorts(p)
           n == LowestFree(Ordinal, TakenNames(p))
           v == LowestFree(PortBand, TakenPorts(p))
<1>1. n \in names /\ \A m \in names : n <= m
  BY LowestFreeLeast DEF CanAllocate, ConstantsOK
<1>2. v \in ports /\ \A u \in ports : v <= u
  BY LowestFreeLeast DEF CanAllocate, ConstantsOK
<1>3. /\ Ordinal \ ServerOrdinal \in SUBSET Nat /\ PortBand \in SUBSET Nat
      /\ names \in SUBSET (Ordinal \ ServerOrdinal) /\ ports \in SUBSET PortBand
      /\ Nth(T, Ordinal \ ServerOrdinal, PortBand)
  BY DEF ConstantsOK, TakenNames, NthPort
<1>4. ASSUME NEW m \in DOMAIN T
      PROVE  m \in names <=> T[m] \in ports
  <2>1. m \in Ordinal \ ServerOrdinal /\ T[m] \in PortBand /\ m # None /\ T[m] # None
    BY <1>3, <1>4 DEF Nth, ConstantsOK
  <2>2. ASSUME NEW k \in DOMAIN T, T[k] = T[m]
        PROVE  k = m
    BY <1>3, <1>4, <2>2, NthInjective
  <2>3. ASSUME NEW q \in Peer
        PROVE  row[q].name = m <=> row[q].port = T[m]
    <3>1. CASE {row[q].name, row[q].port} = {None}
      <4>1. row[q].name = None /\ row[q].port = None
        BY <3>1
      <4> QED
        BY <2>1, <4>1
    <3>2. CASE row[q].name \in DOMAIN T /\ row[q].port = T[row[q].name]
      BY <2>2, <3>2
    <3> QED
      BY <3>1, <3>2 DEF PortsInv, Numbered
  <2>4. \A s \in Server : srvPort[s] # T[m]
    BY <2>1 DEF PortsInv
  <2> QED
    BY <2>1, <2>3, <2>4 DEF TakenNames, TakenPorts
<1>5. n \in DOMAIN T /\ v = T[n]
  <2> HIDE DEF n, v, names, ports
  <2> QED
    BY <1>1, <1>2, <1>3, <1>4, LeastTogether
<1> QED
  BY <1>5 DEF Numbered, AllocationFor

LEMMA ApartStep ==
  ASSUME PortsApart, LinksTypeOK, \A s \in Server : srvPort[s] \notin PortBand, [LinksNext]_linkVars
  PROVE  \A s \in Server : srvPort'[s] \notin PortBand
<1>1. ASSUME NEW s \in Server, NEW port \in ServerPort, PatchServer(s, port)
      PROVE  srvPort' = [srvPort EXCEPT ![s] = port]
  BY <1>1 DEF PatchServer
<1>2. srvPort' = srvPort \/ \E s \in Server, port \in ServerPort : srvPort' = [srvPort EXCEPT ![s] = port]
  <2>1. ASSUME Reconcile
        PROVE  srvPort' = srvPort
    BY <2>1 DEF Reconcile, RecBegin, RecRelease, RecAllocate, RecFail, RecNoKey, RecThrow, RecWrite, RecReturn
  <2>2. ASSUME Api
        PROVE  srvPort' = srvPort \/ \E s \in Server, port \in ServerPort : PatchServer(s, port)
    BY <2>2 DEF Api, Patch, PostCheck, PostInsert, DeleteCommit, DeleteUnlinked, DeleteLinked
  <2>3. ASSUME UNCHANGED linkVars
        PROVE  srvPort' = srvPort
    BY <2>3 DEF linkVars
  <2> QED
    BY <1>1, <2>1, <2>2, <2>3 DEF LinksNext
<1> QED
  BY <1>2 DEF LinksTypeOK, PortsApart

LEMMA PortsStep ==
  ASSUME ConstantsOK, NoPorts, PortsApart, WholeInv, WholeInv', NEW T, NthPort(T), PortsInv(T), [LinksNext]_linkVars
  PROVE  PortsInv(T)'
<1> DEFINE Paired(r) == {r.name, r.port} = {None} \/ Numbered(T, r)
           Reserved == rec'.pc = "keygen" => Numbered(T, rec'.alloc)
<1>1. LinksInv /\ LinksTypeOK /\ PortsFollowLinks /\ PortsFollowLinks'
  BY DEF WholeInv, NoPinInv, LinksInv
<1>2. \A q \in Peer : row[q] \in Row /\ Paired(row[q])
  BY <1>1 DEF LinksTypeOK, PortsInv
<1>3. ASSUME NEW q \in Peer, row'[q].name = None
      PROVE  Paired(row'[q])
  <2>1. row'[q].port = None
    BY <1>1, <1>3 DEF PortsFollowLinks, IsProvisioned
  <2> QED
    BY <1>3, <2>1
<1>4. \A s \in Server : srvPort'[s] \notin PortBand
  BY <1>1, ApartStep DEF PortsInv
<1>5. ASSUME \A q \in Peer : Paired(row'[q]), Reserved
      PROVE  PortsInv(T)'
  BY <1>4, <1>5 DEF PortsInv
<1>6. CASE Api
  <2>1. /\ rec' = rec
        /\ \A q \in Peer : row'[q].name = None \/ (row'[q].name = row[q].name /\ row'[q].port = row[q].port)
    BY <1>1, <1>6, ApiKeepsLinks
  <2>2. \A q \in Peer : Paired(row'[q])
    BY <1>2, <1>3, <2>1 DEF Numbered
  <2> QED
    BY <1>5, <2>1, <2>2 DEF PortsInv
<1>7. ASSUME NEW p \in Peer, RecRelease(p)
      PROVE  PortsInv(T)'
  <2>1. row' = [row EXCEPT ![p] = Cleared(@)] \/ row' = row
    BY <1>7 DEF RecRelease
  <2>2. \A q \in Peer : row'[q] = row[q] \/ row'[q] = Cleared(row[q])
    BY <1>1, <2>1 DEF LinksTypeOK
  <2>3. \A q \in Peer : Cleared(row[q]).name = None /\ Cleared(row[q]).port = None
    BY <1>2 DEF Cleared, Row
  <2>4. \A q \in Peer : Paired(row'[q])
    BY <1>2, <2>2, <2>3
  <2>5. rec'.pc # "keygen"
    BY <1>1, <1>7 DEF RecRelease, LinksTypeOK, Rec
  <2> QED
    BY <1>5, <2>4, <2>5
<1>8. ASSUME NEW p \in Peer, RecAllocate(p)
      PROVE  PortsInv(T)'
  <2>1. CanAllocate(p, None) /\ rec'.alloc = AllocationFor(p, None) /\ row' = row
    <3>1. rec.snap[p].port = None
      BY <1>1, <1>8 DEF RecAllocate, PortsFollowLinks
    <3> QED
      BY <1>1, <1>8, <3>1 DEF RecAllocate, LinksTypeOK, Rec
  <2>2. Numbered(T, rec'.alloc)
    BY <1>1, <2>1, PortsTogether
  <2> QED
    BY <1>2, <1>5, <2>1, <2>2
<1>9. CASE RecWrite
  <2>1. rec.cur \in Peer /\ Numbered(T, rec.alloc)
    BY <1>1, <1>9 DEF RecWrite, LinksTypeOK, PortsInv
  <2>2. \A q \in Peer : row'[q] = row[q] \/ row'[q] = Linked(row[q], rec.alloc, nextKey)
    BY <1>1, <1>9, <2>1 DEF RecWrite, LinksTypeOK
  <2>3. \A q \in Peer : /\ Linked(row[q], rec.alloc, nextKey).name = rec.alloc.name
                        /\ Linked(row[q], rec.alloc, nextKey).port = rec.alloc.port
    BY <1>2 DEF Linked, Row
  <2>4. \A q \in Peer : Paired(row'[q])
    BY <1>2, <2>1, <2>2, <2>3 DEF Numbered
  <2>5. rec'.pc # "keygen"
    BY <1>1, <1>9 DEF RecWrite, LinksTypeOK, Rec
  <2> QED
    BY <1>5, <2>4, <2>5
<1>10. ASSUME RecNoKey \/ RecThrow \/ RecReturn \/ (\E s \in Server : RecBegin(s)) \/ (\E p \in Peer : RecFail(p)) \/ UNCHANGED linkVars
       PROVE  PortsInv(T)'
  <2>1. row' = row
    BY <1>10 DEF RecNoKey, RecThrow, RecReturn, RecBegin, RecFail, linkVars
  <2>2. rec \in Rec
    BY <1>1 DEF LinksTypeOK
  <2>3. ASSUME RecNoKey \/ RecThrow \/ RecReturn \/ \E s \in Server : RecBegin(s)
        PROVE  rec'.pc # "keygen"
    <3>1. RecThrow => rec'.pc = "threw"
      BY <2>2 DEF RecThrow, Rec
    <3>2. RecReturn \/ RecNoKey => rec'.pc = "idle"
      BY DEF RecReturn, RecNoKey, IdleRec
    <3>3. \A s \in Server : RecBegin(s) => rec'.pc = "loop"
      BY DEF RecBegin, IdleRec
    <3> QED
      BY <2>3, <3>1, <3>2, <3>3
  <2>4. ASSUME NEW p \in Peer, RecFail(p)
        PROVE  rec'.pc # "keygen"
    BY <2>2, <2>4 DEF RecFail, Rec
  <2>5. ASSUME UNCHANGED linkVars
        PROVE  Reserved
    BY <2>5 DEF linkVars, PortsInv
  <2>6. Reserved
    BY <1>10, <2>3, <2>4, <2>5
  <2> QED
    BY <1>2, <1>5, <2>1, <2>6
<1> QED
  BY <1>6, <1>7, <1>8, <1>9, <1>10 DEF LinksNext, Reconcile

\* The same of the snapshot, of what the plan renders, and of the interfaces that are up.
FleetPorts(T) == InJob =>
  /\ \A s \in Server : conv.fleet.port[s] \notin PortBand
  /\ \A p \in Peer : {conv.fleet.row[p].name, conv.fleet.row[p].port} = {None} \/ Numbered(T, conv.fleet.row[p])

Rendered == conv.pc = "steps" => \A x \in conv.steps :
  \/ x.iface = Own /\ x.config = ServerConfig(conv.fleet, Own)
  \/ \E p \in LinkedPeers(conv.fleet, Own) : x.iface = conv.fleet.row[p].name /\ x.config = LinkConfig(conv.fleet, p)

RightPort(T, i, port) == IF i \in Server THEN port \notin PortBand ELSE i \in DOMAIN T /\ port = T[i]
UpPorts(T) == \A i \in Iface : IsUp(i) => RightPort(T, i, up[i].port)

LockedInv == \E T : NthPort(T) /\ PortsInv(T) /\ FleetPorts(T) /\ UpPorts(T)

LEMMA FleetPortsStep ==
  ASSUME WorkOK, NEW T, PortsInv(T), FleetPorts(T), [Next]_vars
  PROVE  FleetPorts(T)'
<1> SUFFICES ASSUME InJob'
             PROVE  FleetPorts(T)'
  BY DEF FleetPorts
<1>1. CASE InJob /\ conv'.fleet = conv.fleet
  BY <1>1 DEF FleetPorts, Numbered
<1>2. CASE ReconcileEnd
  <2>1. conv'.fleet = Fleet
    BY <1>2 DEF ReconcileEnd, IdleConv
  <2> QED
    BY <2>1 DEF Fleet, PortsInv, FleetPorts, Numbered
<1> QED
  BY <1>1, <1>2, SnapKinds DEF InJob

LEMMA RenderedStep ==
  ASSUME ConstantsOK, InterfacesApart, LinksTypeOK, WorkOK, Rendered, [Next]_vars
  PROVE  Rendered'
<1> DEFINE Drawn(x) == \/ x.iface = Own /\ x.config = ServerConfig(conv.fleet, Own)
                       \/ \E p \in LinkedPeers(conv.fleet, Own) :
                            x.iface = conv.fleet.row[p].name /\ x.config = LinkConfig(conv.fleet, p)
<1> SUFFICES ASSUME conv'.pc = "steps"
             PROVE  Rendered'
  BY DEF Rendered
<1>1. Own' = Own /\ InJob /\ conv'.fleet = conv.fleet /\ PlanMoves
  BY PlanKinds
<1>2. ASSUME \A x \in conv'.steps : Drawn(x)
      PROVE  Rendered'
  <2>1. ServerConfig(conv'.fleet, Own') = ServerConfig(conv.fleet, Own) /\ LinkedPeers(conv'.fleet, Own') = LinkedPeers(conv.fleet, Own)
    BY <1>1
  <2>2. \A p : LinkConfig(conv'.fleet, p) = LinkConfig(conv.fleet, p)
    BY <1>1
  <2>3. /\ ServerConfig(conv.fleet, Own)' = ServerConfig(conv'.fleet, Own')
        /\ LinkedPeers(conv.fleet, Own)' = LinkedPeers(conv'.fleet, Own')
    BY DEF ServerConfig, PlainPeers, LinkedPeers
  <2>4. \A p : LinkConfig(conv.fleet, p)' = LinkConfig(conv'.fleet, p)
    BY DEF LinkConfig
  <2> QED
    BY <1>1, <1>2, <2>1, <2>2, <2>3, <2>4 DEF Rendered
<1>3. conv.pc = "steps" => \A x \in conv.steps : Drawn(x)
  BY DEF Rendered
<1>4. CASE Planned
  <2>1. PICK seen : Plan(seen)
    BY <1>4 DEF Planned
  <2>2. conv'.steps = PlannedSteps(conv.fleet, Own, seen \ conv'.stop, conv.provisioned)
    BY <1>4, <2>1, PlanMade DEF Planned
  <2>3. \A x \in conv'.steps : Drawn(x)
    BY <2>2 DEF PlannedSteps
  <2> QED
    BY <1>2, <2>3
<1>5. ASSUME NEW i \in Iface, Stopped(i)
      PROVE  Rendered'
  BY <1>2, <1>3, <1>5 DEF Stopped
<1>6. ASSUME NEW x \in conv.steps, Applied(x)
      PROVE  Rendered'
  BY <1>2, <1>3, <1>6 DEF Applied, IsNext
<1>7. ASSUME NEW x \in conv.steps, Restarted(x)
      PROVE  Rendered'
  <2>1. conv.pc = "steps" /\ conv'.steps = (conv.steps \ {x}) \cup {[x EXCEPT !.do = "start"]}
    BY <1>7 DEF Restarted, IsNext
  <2>2. x \in Step
    BY DEF WorkOK, Conv
  <2>3. [x EXCEPT !.do = "start"].iface = x.iface /\ [x EXCEPT !.do = "start"].config = x.config
    BY <2>2 DEF Step
  <2>4. \A y \in conv'.steps : Drawn(y)
    BY <1>3, <2>1, <2>3
  <2> QED
    BY <1>2, <2>4
<1>8. CASE Skipped
  BY <1>2, <1>8 DEF Skipped
<1>9. CASE Through
  <2>1. conv'.steps = conv.steps /\ conv.pc = "steps"
    BY <1>9 DEF Through
  <2> QED
    BY <1>2, <1>3, <2>1
<1> QED
  BY <1>1, <1>4, <1>5, <1>6, <1>7, <1>8, <1>9 DEF PlanMoves

\* What a plan renders carries the right port, and a key or port that wg syncconf leaves alone was right.
LEMMA RenderedPort ==
  ASSUME ConstantsOK, InterfacesApart, WorkOK, SnapInv, InJob, Rendered, conv.pc = "steps", NEW T, NthPort(T), FleetPorts(T),
         NEW x \in conv.steps
  PROVE  x.iface \in Iface /\ RightPort(T, x.iface, x.config.port) /\ x.config.port # None
<1>1. /\ conv.fleet \in Snapshot /\ Own \in Server /\ Own \in Iface
      /\ \A p \in LinkedPeers(conv.fleet, Own) : p \in Peer /\ conv.fleet.row[p].name \in Ordinal \cap Iface
  BY PlanFacts
<1>2. CASE x.iface = Own /\ x.config = ServerConfig(conv.fleet, Own)
  <2>1. x.config.port = conv.fleet.port[Own]
    BY <1>2 DEF ServerConfig
  <2>2. conv.fleet.port[Own] \in Nat /\ conv.fleet.port[Own] \notin PortBand
    BY <1>1 DEF Snapshot, FleetPorts
  <2> QED
    BY <1>1, <1>2, <2>1, <2>2 DEF RightPort, ConstantsOK
<1>3. ASSUME NEW p \in LinkedPeers(conv.fleet, Own), x.iface = conv.fleet.row[p].name, x.config = LinkConfig(conv.fleet, p)
      PROVE  x.iface \in Iface /\ RightPort(T, x.iface, x.config.port) /\ x.config.port # None
  <2>1. x.config.port = conv.fleet.row[p].port
    BY <1>3 DEF LinkConfig
  <2>2. p \in Peer /\ conv.fleet.row[p].name \in Ordinal /\ conv.fleet.row[p].name \in Iface
    BY <1>1
  <2>3. conv.fleet.row[p].name # None /\ conv.fleet.row[p].port # None /\ x.iface \notin Server
    BY <1>1, <1>3, <2>2, LinkedInFleet DEF HasLink, InterfacesApart
  <2>4. Numbered(T, conv.fleet.row[p])
    BY <2>2, <2>3 DEF FleetPorts
  <2> QED
    BY <1>3, <2>1, <2>2, <2>3, <2>4 DEF Numbered, RightPort
<1> QED
  BY <1>2, <1>3 DEF Rendered

LEMMA UpPortsStep ==
  ASSUME ConstantsOK, InterfacesApart, LinksTypeOK, WorkOK, HostOK, StepsInv, SnapInv, Rendered,
         NEW T, NthPort(T), FleetPorts(T), UpPorts(T), [Next]_vars
  PROVE  UpPorts(T)'
<1>1. ASSUME \A i \in Iface : up'[i] = up[i] \/ up'[i] = Down
      PROVE  UpPorts(T)'
  BY <1>1 DEF UpPorts, IsUp, RightPort
<1>2. CASE \E i \in Ordinal : up'[i] = Down /\ \A j \in Iface \ {i} : up'[j] = up[j]
  BY <1>1, <1>2
<1>3. ASSUME NEW x \in conv.steps, InJob, Applied(x)
      PROVE  UpPorts(T)'
  <2>1. conv.pc = "steps"
    BY <1>3 DEF Applied, IsNext
  <2>2. x.iface \in Iface /\ RightPort(T, x.iface, x.config.port)
    BY <1>3, <2>1, RenderedPort
  <2>3. \A j \in Iface \ {x.iface} : up'[j] = up[j]
    BY <1>3, AppliedShows
  <2>4. up'[x.iface].port = x.config.port \/ (IsUp(x.iface) /\ up'[x.iface].port = up[x.iface].port)
    <3>1. CASE IsUp(x.iface)
      BY <1>3, <3>1, AppliedShows
    <3>2. CASE ~IsUp(x.iface)
      BY <1>3, <2>2, <3>2 DEF Applied, HostOK
    <3> QED
      BY <3>1, <3>2
  <2>5. RightPort(T, x.iface, up'[x.iface].port)
    BY <2>2, <2>4 DEF UpPorts
  <2> QED
    BY <2>2, <2>3, <2>5 DEF UpPorts, IsUp, RightPort
<1>4. CASE \A j \in Iface : up'[j] = up[j]
  BY <1>1, <1>4
<1> QED
  BY <1>2, <1>3, <1>4, UpChanges

-----------------------------------------------------------------------------
(* No step of a plan defeats another one.                                  *)

\* One server, so that every link is of the server whose converge runs.
Alone == \E s : Server = {s}

\* A step starts what is down, or will be by then, and there is one for each interface.
StepsFit == conv.pc = "steps" =>
  /\ \A x, y \in conv.steps : x.iface = y.iface => x = y
  /\ \A x \in conv.steps : x.do = "start" <=> (x.iface \in conv.stop \/ ~IsUp(x.iface))

Smooth == routed /\ (\A s \in Server : outcome[s]) /\ conv.ok

\* What is rendered, and what runs, listens on a port that no other interface has.
LEMMA Listening ==
  ASSUME ConstantsOK, InterfacesApart, Alone, HostInv, Rendered, conv.pc = "steps",
         NEW T, NthPort(T), FleetPorts(T), UpPorts(T), NEW x \in conv.steps, NEW c,
         c.port = x.config.port \/ (IsUp(x.iface) /\ c.port = up[x.iface].port)
  PROVE  CanListen(x.iface, c)
<1>1. WorkOK /\ SnapInv /\ InJob /\ HostOK /\ ServersUp
  BY DEF HostInv, ConvergeTypeOK, InJob, DevicesInv
<1>2. x.iface \in Iface /\ RightPort(T, x.iface, x.config.port) /\ x.config.port # None
  BY <1>1, RenderedPort
<1>3. /\ T \in [DOMAIN T -> PortBand] /\ PortBand \subseteq Nat /\ None \notin Nat
      /\ Nth(T, Ordinal \ ServerOrdinal, PortBand)
      /\ Ordinal \ ServerOrdinal \in SUBSET Nat /\ PortBand \in SUBSET Nat
  BY DEF NthPort, Nth, ConstantsOK
<1>4. RightPort(T, x.iface, c.port) /\ c.port # None
  <2>1. CASE c.port = x.config.port
    BY <1>2, <2>1
  <2>2. CASE IsUp(x.iface) /\ c.port = up[x.iface].port
    <3>1. RightPort(T, x.iface, c.port)
      BY <1>2, <2>2 DEF UpPorts
    <3>2. CASE x.iface \in Server
      BY <1>1, <2>2, <3>1, <3>2 DEF ServersUp
    <3>3. CASE x.iface \notin Server
      BY <1>3, <3>1, <3>3 DEF RightPort
    <3> QED
      BY <3>1, <3>2, <3>3
  <2> QED
    BY <2>1, <2>2
<1>5. ASSUME NEW j \in Iface \ {x.iface}, up[j].port = c.port
      PROVE  FALSE
  <2>1. IsUp(j)
    BY <1>4, <1>5 DEF IsUp, Down
  <2>2. RightPort(T, j, c.port)
    BY <1>5, <2>1 DEF UpPorts
  <2>3. PICK s : Server = {s}
    BY DEF Alone
  <2>4. CASE j \in Server
    BY <1>3, <1>4, <1>5, <2>2, <2>3, <2>4 DEF RightPort
  <2>5. CASE x.iface \in Server /\ j \notin Server
    BY <1>3, <1>4, <2>2, <2>5 DEF RightPort
  <2>6. CASE x.iface \notin Server /\ j \notin Server
    <3>1. x.iface \in DOMAIN T /\ j \in DOMAIN T /\ T[x.iface] = T[j]
      BY <1>4, <2>2, <2>6 DEF RightPort
    <3>2. x.iface = j
      BY <1>3, <3>1, NthInjective
    <3> QED
      BY <1>5, <3>2
  <2> QED
    BY <2>4, <2>5, <2>6
<1> QED
  BY <1>5 DEF CanListen

\* A command that could work fails by itself.
LEMMA CannotFail ==
  ASSUME TallyOK, faults' = 0, NEW works \in BOOLEAN, works
  PROVE  ~Fails(works)
  BY DEF Fails, TallyOK

\* While one server's links are routed, they are up.
LEMMA RoutedUp ==
  ASSUME ConstantsOK, InterfacesApart, Alone, HostInv, conv.pc = "route", conv.ok,
         NEW p \in Peer, HasLink(conv.fleet.row[p])
  PROVE  IsUp(conv.fleet.row[p].name) /\ IsUp(Home[p])
<1>1. WorkOK /\ SnapInv /\ StepsInv /\ PlanInv /\ InJob /\ ServersUp
  BY DEF HostInv, ConvergeTypeOK, InJob, DevicesInv
<1>2. conv.fleet \in Snapshot /\ Closed(conv.fleet) /\ Own \in Server
  BY <1>1, PlanFacts
<1>3. p \in LinkedPeers(conv.fleet, Home[p]) /\ Home[p] \in Server
  BY <1>2, LinkOwners
<1>4. p \in LinkedPeers(conv.fleet, Own)
  BY <1>2, <1>3 DEF Alone
<1>5. LinkDone(p)
  BY <1>1, <1>4 DEF LinkDone, Applying, StepsInv
<1>6. up[conv.fleet.row[p].name].peers = {p}
  BY <1>1, <1>5 DEF PlanInv
<1>7. IsUp(conv.fleet.row[p].name)
  BY <1>6 DEF IsUp, Down
<1>8. IsUp(Home[p])
  BY <1>1, <1>3 DEF IsUp, Down, ServersUp
<1> QED
  BY <1>7, <1>8

LEMMA SmoothStep ==
  ASSUME ConstantsOK, InterfacesApart, Alone, HostInv, WholeInv, StopsFirst, Rendered, LockedInv, StepsFit, Smooth,
         [Next]_vars, faults' = 0
  PROVE  Smooth'
<1>1. WorkOK /\ TallyOK /\ conv \in Conv /\ rec.pc # "threw"
  BY DEF HostInv, ConvergeTypeOK, WorkOK, WholeInv, NoPinInv, NeverCollides
<1>2. ASSUME conv'.ok, UNCHANGED <<outcome, routed>>
      PROVE  Smooth'
  BY <1>2 DEF Smooth
<1>3. ASSUME conv' = conv, UNCHANGED <<outcome, routed>>
      PROVE  Smooth'
  BY <1>3 DEF Smooth
<1>4. CASE Handle \/ ReconcileStep \/ UNCHANGED vars \/ \E h \in Handler : TeardownEnd(h)
  <2>1. UNCHANGED <<conv, outcome, routed>>
    BY <1>4 DEF Handle, ReconcileStep, TeardownEnd, vars
  <2> QED
    BY <1>3, <2>1
<1>5. ASSUME NEW s \in Server, ConvergeBegin(s)
      PROVE  Smooth'
  BY <1>2, <1>5 DEF ConvergeBegin, IdleConv
<1>6. CASE ReconcileReject
  BY <1>1, <1>6, RejectShape DEF TallyOK
<1>7. CASE ReconcileEnd
  BY <1>2, <1>7 DEF ReconcileEnd, IdleConv
<1>8. CASE ListInterfaces
  <2>1. conv'.ok = conv.ok
    BY <1>1, <1>8 DEF ListInterfaces, Plan, Conv
  <2> QED
    BY <1>2, <1>8, <2>1 DEF ListInterfaces, Smooth
<1>9. ASSUME NEW i \in Iface, StopStep(i)
      PROVE  Smooth'
  <2>1. IsUp(i) /\ UNCHANGED <<outcome, routed>>
    BY <1>9 DEF StopStep, StopsFirst
  <2>2. ~Fails(IsUp(i))
    BY <1>1, <2>1, CannotFail DEF IsUp
  <2>3. conv'.ok = conv.ok
    BY <1>1, <1>9, <2>2 DEF StopStep, Conv
  <2> QED
    BY <1>2, <2>1, <2>3 DEF Smooth
<1>10. PICK T : NthPort(T) /\ FleetPorts(T) /\ UpPorts(T)
  BY DEF LockedInv
<1>11. ASSUME NEW x \in conv.steps, StartStep(x)
       PROVE  Smooth'
  <2>1. conv.pc = "steps" /\ conv.stop = {} /\ ~IsUp(x.iface)
    BY <1>11 DEF StartStep, IsNext, StepsFit
  <2>2. CanListen(x.iface, x.config)
    BY <1>10, <2>1, Listening
  <2>3. ~Fails(~IsUp(x.iface) /\ CanListen(x.iface, x.config))
    BY <1>1, <2>1, <2>2, CannotFail DEF IsUp, CanListen
  <2>4. AfterStep(conv.steps \ {x})
    BY <1>11, <2>3 DEF StartStep
  <2> QED
    BY <1>1, <1>2, <1>11, <2>4 DEF StartStep, AfterStep, Conv, Smooth
<1>12. ASSUME NEW x \in conv.steps, ReloadStep(x)
       PROVE  Smooth'
  <2>1. conv.pc = "steps" /\ conv.stop = {} /\ IsUp(x.iface)
    BY <1>12 DEF ReloadStep, IsNext, StepsFit
  <2>2. PICK c \in Synced(up[x.iface], x.config) :
          \/ AfterStep(conv.steps \ {x})
          \/ Fails(IsUp(x.iface) /\ CanListen(x.iface, c))
    BY <1>12 DEF ReloadStep
  <2>3. c.port = x.config.port \/ c.port = up[x.iface].port
    <3>1. x \in Step
      BY <1>1 DEF Conv
    <3>2. up[x.iface] \in Config
      BY <3>1 DEF HostInv, ConvergeTypeOK, HostOK, Step
    <3> QED
      BY <2>2, <3>2 DEF Synced, Config
  <2>4. CanListen(x.iface, c)
    BY <1>10, <2>1, <2>3, Listening
  <2>5. ~Fails(IsUp(x.iface) /\ CanListen(x.iface, c))
    BY <1>1, <2>1, <2>4, CannotFail DEF IsUp, CanListen
  <2>6. AfterStep(conv.steps \ {x})
    BY <2>2, <2>5
  <2> QED
    BY <1>1, <1>2, <1>12, <2>6 DEF ReloadStep, AfterStep, Conv, Smooth
<1>13. ASSUME NEW x \in conv.steps, RestartStep(x)
       PROVE  Smooth'
  <2>1. conv.pc = "steps" /\ conv.stop = {} /\ IsUp(x.iface)
    BY <1>13 DEF RestartStep, IsNext, StepsFit
  <2>2. ~Fails(IsUp(x.iface))
    BY <1>1, <2>1, CannotFail DEF IsUp
  <2>3. AfterStep((conv.steps \ {x}) \cup {[x EXCEPT !.do = "start"]})
    BY <1>13, <2>2 DEF RestartStep
  <2> QED
    BY <1>1, <1>2, <1>13, <2>3 DEF RestartStep, AfterStep, Conv, Smooth
<1>14. CASE Drain
  <2>1. conv'.ok = conv.ok /\ routed' /\ outcome' = outcome
    BY <1>1, <1>14 DEF Drain, Conv
  <2> QED
    BY <2>1 DEF Smooth
<1>15. ASSUME NEW s \in Server, RouteMain(s)
       PROVE  Smooth'
  <2>1. conv'.ok = conv.ok /\ UNCHANGED <<outcome, routed>>
    BY <1>1, <1>15 DEF RouteMain, Conv
  <2> QED
    BY <1>2, <2>1 DEF Smooth
<1>16. ASSUME NEW s \in Server, RouteMainFail(s)
       PROVE  FALSE
  <2>1. PICK p \in LinkedPeers(conv.fleet, s) : Fails(IsUp(RouteOf(p).name))
    BY <1>16 DEF RouteMainFail
  <2>2. conv.pc = "route" /\ conv.fleet \in Snapshot
    BY <1>1, <1>16 DEF RouteMainFail, WorkOK
  <2>3. p \in Peer /\ HasLink(conv.fleet.row[p])
    BY <2>2, LinkedInFleet
  <2>4. IsUp(conv.fleet.row[p].name)
    BY <2>2, <2>3, RoutedUp DEF Smooth
  <2> QED
    BY <1>1, <2>1, <2>4, CannotFail DEF IsUp, RouteOf
<1>17. ASSUME NEW p \in Peer, RouteTableOf(p)
       PROVE  Smooth'
  <2>1. conv'.ok = conv.ok /\ UNCHANGED <<outcome, routed>>
    BY <1>1, <1>17 DEF RouteTableOf, Conv
  <2> QED
    BY <1>2, <2>1 DEF Smooth
<1>18. ASSUME NEW p \in Peer, RouteTableFail(p)
       PROVE  FALSE
  <2>1. conv.pc = "route" /\ HasLink(conv.fleet.row[p]) /\ Fails(IsUp(Home[p]) /\ IsUp(RouteOf(p).name))
    BY <1>1, <1>18 DEF RouteTableFail, WorkOK
  <2>2. IsUp(conv.fleet.row[p].name) /\ IsUp(Home[p])
    BY <2>1, RoutedUp DEF Smooth
  <2> QED
    BY <1>1, <2>1, <2>2, CannotFail DEF IsUp, RouteOf
<1>19. CASE ConvergeEnd
  <2>1. conv'.ok /\ routed' = routed /\ outcome' = [outcome EXCEPT ![Head(chain).of] = conv.ok]
    BY <1>19 DEF ConvergeEnd, Finish, IdleConv
  <2>2. \A s \in Server : outcome'[s]
    BY <1>1, <2>1 DEF TallyOK, Smooth
  <2> QED
    BY <2>1, <2>2 DEF Smooth
<1>20. CASE RunJob
  <2>1. ASSUME NEW h \in Handler, Teardown(h) \/ TeardownBlind(h) \/ TeardownFail(h)
        PROVE  Smooth'
    BY <1>4, <2>1 DEF Teardown, TeardownBlind, TeardownFail
  <2> QED
    BY <1>4, <1>5, <1>6, <1>7, <1>8, <1>9, <1>11, <1>12, <1>13, <1>14, <1>15, <1>16, <1>17, <1>18, <1>19, <1>20, <2>1
    DEF RunJob
<1> QED
  BY <1>4, <1>20 DEF Next


\* The steps of a plan are of different interfaces, and start what the stops take down or what is down.
LEMMA PlanFits ==
  ASSUME ConstantsOK, InterfacesApart, WorkOK, SnapInv, conv.pc = "list", Plan({i \in Iface : IsUp(i)}), up' = up
  PROVE  /\ \A x, y \in conv'.steps : x.iface = y.iface => x = y
         /\ \A x \in conv'.steps : x.do = "start" <=> (x.iface \in conv'.stop \/ up'[x.iface] = Down)
         /\ \A x \in conv'.steps : x.do = "restart" <=>
              x.iface \notin conv'.stop /\ up'[x.iface] # Down /\ x.iface \in conv.provisioned
<1> DEFINE seen == {i \in Iface : IsUp(i)}
           left == seen \ conv'.stop
           own == [iface |-> Own, config |-> ServerConfig(conv.fleet, Own), do |-> ActionFor(Own, left, conv.provisioned)]
           link(p) == [iface |-> conv.fleet.row[p].name, config |-> LinkConfig(conv.fleet, p),
                       do |-> ActionFor(conv.fleet.row[p].name, left, conv.provisioned)]
<1>1. conv'.steps = {own} \cup {link(p) : p \in LinkedPeers(conv.fleet, Own)}
  BY PlanMade DEF PlannedSteps
<1>2. /\ Own \in Iface
      /\ \A p \in LinkedPeers(conv.fleet, Own) :
           /\ conv.fleet.row[p].name \in Iface /\ conv.fleet.row[p].name # Own
           /\ \A q \in LinkedPeers(conv.fleet, Own) \ {p} : conv.fleet.row[q].name # conv.fleet.row[p].name
  BY PlanFacts DEF InJob
<1>3. own.iface = Own /\ \A p : link(p).iface = conv.fleet.row[p].name
  OBVIOUS
<1>4. ASSUME NEW x \in conv'.steps
      PROVE  x.iface \in Iface /\ x.do = ActionFor(x.iface, left, conv.provisioned)
  <2>1. own.do = ActionFor(own.iface, left, conv.provisioned)
        /\ \A p : link(p).do = ActionFor(link(p).iface, left, conv.provisioned)
    OBVIOUS
  <2> HIDE DEF own, link, left
  <2> QED
    BY <1>1, <1>2, <1>3, <1>4, <2>1
<1>5. ASSUME NEW x \in conv'.steps, NEW y \in conv'.steps, x.iface = y.iface
      PROVE  x = y
  <2> HIDE DEF own, link
  <2>1. CASE x = own /\ y = own
    BY <2>1
  <2>2. ASSUME NEW p \in LinkedPeers(conv.fleet, Own), NEW q \in LinkedPeers(conv.fleet, Own), x = link(p), y = link(q)
        PROVE  x = y
    <3>1. p = q
      BY <1>2, <1>3, <1>5, <2>2
    <3> QED
      BY <2>2, <3>1
  <2>3. ASSUME NEW p \in LinkedPeers(conv.fleet, Own), {x, y} = {own, link(p)}
        PROVE  FALSE
    <3>1. own.iface # link(p).iface
      BY <1>2, <1>3
    <3> QED
      BY <1>5, <2>3, <3>1
  <2> QED
    BY <1>1, <2>1, <2>2, <2>3
<1>6. ASSUME NEW x \in conv'.steps
      PROVE  /\ x.do = "start" <=> (x.iface \in conv'.stop \/ up'[x.iface] = Down)
             /\ x.do = "restart" <=> x.iface \notin conv'.stop /\ up'[x.iface] # Down /\ x.iface \in conv.provisioned
  <2>1. x.iface \in left <=> x.iface \notin conv'.stop /\ up'[x.iface] # Down
    BY <1>4, <1>6 DEF IsUp
  <2> HIDE DEF left
  <2> QED
    BY <1>4, <1>6, <2>1 DEF ActionFor
<1> QED
  BY <1>5, <1>6

LEMMA StepsFitStep ==
  ASSUME ConstantsOK, InterfacesApart, HostInv, StopsFirst, StepsFit, [Next]_vars, faults' = 0, conv'.ok
  PROVE  StepsFit'
<1>1. WorkOK /\ TallyOK /\ HostOK /\ LinksTypeOK /\ StepsInv /\ SnapInv /\ conv \in Conv
  BY DEF HostInv, ConvergeTypeOK, WorkOK
<1> SUFFICES ASSUME conv'.pc = "steps"
             PROVE  StepsFit'
  BY DEF StepsFit
<1>2. Own' = Own /\ InJob /\ conv'.fleet = conv.fleet /\ PlanMoves
  BY <1>1, PlanKinds
<1> DEFINE Single(steps) == \A x, y \in steps : x.iface = y.iface => x = y
           Fits(x, stop, ups) == x.do = "start" <=> (x.iface \in stop \/ ups[x.iface] = Down)
<1>3. ASSUME Single(conv'.steps), \A x \in conv'.steps : Fits(x, conv'.stop, up')
      PROVE  StepsFit'
  BY <1>3 DEF StepsFit, IsUp
<1>4. ASSUME conv.pc = "steps"
      PROVE  Single(conv.steps) /\ \A x \in conv.steps : Fits(x, conv.stop, up)
  BY <1>4 DEF StepsFit, IsUp
<1>5. \A x \in conv.steps : x \in Step /\ x.iface \in Iface
  BY <1>1 DEF Conv, Step
<1>6. CASE conv.pc = "list"
  <2>1. Plan({i \in Iface : IsUp(i)})
    BY <1>1, <1>6, ListShowsAll
  <2>2. up' = up
    BY <1>2, <1>6 DEF PlanMoves, Planned, Stopped, Applied, IsNext, Restarted, Skipped, Through
  <2>3. Single(conv'.steps) /\ \A x \in conv'.steps : Fits(x, conv'.stop, up')
    BY <1>1, <1>6, <2>1, <2>2, PlanFits
  <2> QED
    BY <1>3, <2>3
<1>7. ASSUME NEW i \in Iface, Stopped(i)
      PROVE  StepsFit'
  <2>1. conv.pc = "steps" /\ i \in conv.stop /\ conv'.stop = conv.stop \ {i} /\ conv'.steps = conv.steps
    BY <1>7 DEF Stopped
  <2>2. up'[i] = Down /\ \A j \in Iface \ {i} : up'[j] = up[j]
    BY <1>1, <1>7 DEF Stopped, HostOK
  <2>3. ASSUME NEW x \in conv.steps
        PROVE  Fits(x, conv'.stop, up')
    <3>1. Fits(x, conv.stop, up)
      BY <1>4, <2>1, <2>3
    <3>2. CASE x.iface = i
      BY <2>1, <2>2, <3>1, <3>2
    <3>3. CASE x.iface # i
      BY <1>5, <2>1, <2>2, <2>3, <3>1, <3>3
    <3> QED
      BY <3>2, <3>3
  <2> QED
    BY <1>3, <1>4, <2>1, <2>3
<1>8. ASSUME NEW x \in conv.steps, Applied(x)
      PROVE  StepsFit'
  <2>1. conv.pc = "steps" /\ conv.stop = {} /\ conv'.stop = {} /\ conv'.steps = conv.steps \ {x}
    BY <1>8 DEF Applied, IsNext
  <2>2. \A j \in Iface \ {x.iface} : up'[j] = up[j]
    BY <1>1, <1>2, <1>8, AppliedShows
  <2>3. ASSUME NEW y \in conv'.steps
        PROVE  Fits(y, conv'.stop, up')
    <3>1. Fits(y, conv.stop, up) /\ y.iface # x.iface /\ y.iface \in Iface
      BY <1>4, <1>5, <1>8, <2>1, <2>3
    <3> QED
      BY <2>1, <2>2, <3>1
  <2> QED
    BY <1>3, <1>4, <2>1, <2>3
<1>9. ASSUME NEW x \in conv.steps, Restarted(x)
      PROVE  StepsFit'
  <2> DEFINE again == [x EXCEPT !.do = "start"]
  <2>1. conv.pc = "steps" /\ conv.stop = {} /\ conv'.stop = {} /\ conv'.steps = (conv.steps \ {x}) \cup {again}
    BY <1>9 DEF Restarted, IsNext
  <2>2. again.iface = x.iface /\ again.do = "start"
    BY <1>5 DEF Step
  <2>3. up'[x.iface] = Down /\ \A j \in Iface \ {x.iface} : up'[j] = up[j]
    BY <1>1, <1>2, <1>9, RestartFacts
  <2> HIDE DEF again
  <2>4. ASSUME NEW y \in conv.steps \ {x}
        PROVE  Fits(y, conv'.stop, up') /\ y.iface # again.iface
    <3>1. Fits(y, conv.stop, up) /\ y.iface # x.iface /\ y.iface \in Iface
      BY <1>4, <1>5, <1>9, <2>1, <2>4
    <3> QED
      BY <2>1, <2>2, <2>3, <3>1
  <2>5. Fits(again, conv'.stop, up')
    BY <2>2, <2>3
  <2>6. Single(conv'.steps)
    BY <1>4, <2>1, <2>4
  <2> QED
    BY <1>3, <2>1, <2>4, <2>5, <2>6
<1>10. CASE Skipped
  BY <1>10 DEF Skipped
<1>11. CASE Through /\ conv.pc = "steps"
  BY <1>3, <1>4, <1>11 DEF Through
<1>12. conv.pc # "route"
  <2>1. ASSUME conv.pc = "route"
        PROVE  FALSE
    BY <1>1, <1>2, <2>1 DEF PlanMoves, Planned, Stopped, Applied, IsNext, Restarted, Skipped, Through, StepsInv
  <2> QED
    BY <2>1
<1> QED
  BY <1>2, <1>6, <1>7, <1>8, <1>9, <1>10, <1>11, <1>12 DEF PlanMoves, Planned, InJob

-----------------------------------------------------------------------------
(* The lockstep from the start, and the theorem.                           *)

LEMMA LockedInit == ASSUME ConstantsOK, InterfacesApart, PortsApart, Init PROVE LockedInv
<1>1. PICK T : NthPort(T)
  BY NthExists DEF ConstantsOK, NthPort
<1>2. PortsInv(T) /\ conv.pc = "idle"
  BY PortsInit DEF Init, IdleConv
<1>3. UpPorts(T)
  <2>1. ASSUME NEW i \in Iface, IsUp(i)
        PROVE  RightPort(T, i, up[i].port)
    <3>1. i \in Server /\ up[i] = ServerConfig(Fleet, i)
      BY <2>1 DEF Init, IsUp
    <3>2. up[i].port = InitialPort[i]
      BY <3>1 DEF ServerConfig, Fleet, Init, LinksInit
    <3> QED
      BY <3>1, <3>2 DEF RightPort, PortsApart
  <2> QED
    BY <2>1 DEF UpPorts
<1> QED
  BY <1>1, <1>2, <1>3 DEF LockedInv, FleetPorts, InJob

LEMMA LockedStep ==
  ASSUME ConstantsOK, InterfacesApart, NoPorts, PortsApart, HostInv, WholeInv, WholeInv', Rendered, LockedInv, [Next]_vars
  PROVE  LockedInv'
<1>1. PICK T : NthPort(T) /\ PortsInv(T) /\ FleetPorts(T) /\ UpPorts(T)
  BY DEF LockedInv
<1>2. LinksTypeOK /\ WorkOK /\ HostOK /\ StepsInv /\ SnapInv
  BY DEF HostInv, ConvergeTypeOK
<1>3. PortsInv(T)'
  BY <1>1, PortsStep, StepRefines
<1>4. FleetPorts(T)'
  BY <1>1, <1>2, FleetPortsStep
<1>5. UpPorts(T)'
  BY <1>1, <1>2, UpPortsStep
<1>6. NthPort(T)'
  BY <1>1 DEF NthPort, Nth
<1> QED
  BY <1>3, <1>4, <1>5, <1>6 DEF LockedInv

\* As long as no command has failed by itself, none has failed at all, and none is about to.
SmoothInv == Rendered /\ LockedInv /\ (faults = 0 => Smooth /\ StepsFit)

LEMMA SmoothInit == ASSUME ConstantsOK, InterfacesApart, PortsApart, Init PROVE SmoothInv
<1>1. Rendered /\ StepsFit
  BY DEF Init, IdleConv, Rendered, StepsFit
<1>2. Smooth
  BY DEF Init, IdleConv, Smooth
<1> QED
  BY <1>1, <1>2, LockedInit DEF SmoothInv

LEMMA SmoothInvStep ==
  ASSUME ConstantsOK, InterfacesApart, NoPorts, PortsApart, Alone, HostInv, WholeInv, WholeInv', OneInv, SmoothInv, [Next]_vars
  PROVE  SmoothInv'
<1>1. LinksTypeOK /\ WorkOK /\ TallyOK /\ Rendered /\ LockedInv
  BY DEF HostInv, ConvergeTypeOK, SmoothInv
<1>2. Rendered' /\ LockedInv'
  BY <1>1, RenderedStep, LockedStep
<1>3. ASSUME faults' = 0
      PROVE  Smooth' /\ StepsFit'
  <2>1. Smooth /\ StepsFit /\ StopsFirst
    BY <1>1, <1>3, FaultFree DEF SmoothInv, OneInv
  <2>2. Smooth'
    BY <1>1, <1>3, <2>1, SmoothStep
  <2>3. StepsFit'
    BY <1>3, <2>1, <2>2, StepsFitStep DEF Smooth
  <2> QED
    BY <2>2, <2>3
<1> QED
  BY <1>2, <1>3 DEF SmoothInv

\* With one server, whose ports and the allocator's band are apart, and without pinned ports: as long
\* as no command fails by itself, no step of any converge fails because of one before it, so every
\* converge ends well and every routing pass runs to its end.
THEOREM PlansAlwaysApply == ASSUME NoPorts, PortsApart, Alone PROVE Spec => []PlansApply
<1>1. Init => WholeInv /\ OneInv /\ SmoothInv
  BY WholeInit, OneInit, SmoothInit, PortsApart, ConstantsOK, InterfacesApart DEF Init
<1>2. WholeInv /\ [Next]_vars => WholeInv'
  BY StepRefines, WholeStep, NoPorts, ConstantsOK
<1>3. HostInv /\ HostInv' /\ WholeInv /\ OneInv /\ [Next]_vars => OneInv'
  BY OneStep, NoPorts, ConstantsOK, InterfacesApart
<1>4. HostInv /\ WholeInv /\ WholeInv' /\ OneInv /\ SmoothInv /\ [Next]_vars => SmoothInv'
  BY SmoothInvStep, NoPorts, PortsApart, Alone, ConstantsOK, InterfacesApart
<1>5. SmoothInv => PlansApply
  BY DEF SmoothInv, Smooth, PlansApply
<1> QED
  BY <1>1, <1>2, <1>3, <1>4, <1>5, HostCorrect, PTL DEF Spec

-----------------------------------------------------------------------------
(* The key of a link.                                                      *)

\* What a peer still has of the snapshot's link is the name and the key it had there.
KeysAgree == InJob => \A p \in Peer : row[p].name # None =>
  conv.fleet.row[p].name = row[p].name /\ conv.fleet.row[p].key = row[p].key

\* Interface i has a new owner and is going to be started afresh, not reloaded.
Rekeyed(i) ==
  \/ conv.pc = "reconcile" /\ i \in rec.provisioned
  \/ conv.pc = "list" /\ i \in conv.provisioned
  \/ conv.pc = "steps" /\ (i \in conv.stop \/ \E x \in conv.steps : x.iface = i /\ x.do # "reload")

\* A link that is up runs with the key of the row whose name it is, or is about to be restarted.
KeyInv == \A p \in Peer, i \in Ordinal : row[p].name = i /\ IsUp(i) => up[i].key = row[p].key \/ Rekeyed(i)

LEMMA KeysAgreeStep ==
  ASSUME ConstantsOK, NoPorts, LinksInv, WorkOK, KeysAgree, [Next]_vars
  PROVE  KeysAgree'
<1> SUFFICES ASSUME InJob', NEW p \in Peer, row'[p].name # None
             PROVE  conv'.fleet.row[p].name = row'[p].name /\ conv'.fleet.row[p].key = row'[p].key
  BY DEF KeysAgree
<1>1. CASE ReconcileEnd
  <2>1. conv'.fleet = Fleet /\ row' = row
    BY <1>1 DEF ReconcileEnd, RecReturn, IdleConv
  <2> QED
    BY <2>1 DEF Fleet
<1>2. CASE InJob /\ conv'.fleet = conv.fleet
  <2>1. row'[p].name = row[p].name /\ row'[p].key = row[p].key
    <3>1. CASE Api
      BY <3>1, ApiKeepsLinks
    <3>2. CASE row' = row
      BY <3>2
    <3> QED
      BY <1>2, <3>1, <3>2, RowKinds DEF InJob
  <2> QED
    BY <1>2, <2>1 DEF KeysAgree
<1> QED
  BY <1>1, <1>2, SnapKinds DEF InJob

\* The plan of a converge restarts, or stops, every link that its reconcile has provisioned anew.
LEMMA PlanRestarts ==
  ASSUME ConstantsOK, InterfacesApart, Alone, HostInv, conv.pc = "list", Plan({i \in Iface : IsUp(i)}), up' = up,
         NEW i \in Ordinal, IsUp(i), i \in conv.provisioned
  PROVE  i \in conv'.stop \/ \E x \in conv'.steps : x.iface = i /\ x.do # "reload"
<1> DEFINE seen == {j \in Iface : IsUp(j)}
<1>1. WorkOK /\ SnapInv /\ LinksShown /\ InJob
  BY DEF HostInv, ConvergeTypeOK, DevicesInv, InJob
<1>2. /\ conv'.stop = PlannedStops(conv.fleet, seen, conv.released) /\ conv.fleet \in Snapshot
      /\ \A p \in LinkedPeers(conv.fleet, Own) : \E x \in conv'.steps : LinkStep(x, p)
      /\ Own \in Server
  BY <1>1, PlanMade
<1> SUFFICES ASSUME i \notin conv'.stop
             PROVE  \E x \in conv'.steps : x.iface = i /\ x.do # "reload"
  OBVIOUS
<1>3. i \in LinkNames(conv.fleet)
  <2>1. i \in seen \cap Ordinal /\ i \notin ServerOrdinal
    BY <1>1 DEF LinksShown, Iface
  <2> QED
    BY <1>2, <2>1 DEF PlannedStops
<1>4. PICK s \in Server : \E p \in LinkedPeers(conv.fleet, s) : i = conv.fleet.row[p].name
  BY <1>2, <1>3, NameOwned
<1>5. s = Own
  BY <1>2 DEF Alone
<1>6. PICK p \in LinkedPeers(conv.fleet, Own) : i = conv.fleet.row[p].name
  BY <1>4, <1>5
<1>7. PICK x \in conv'.steps : LinkStep(x, p)
  BY <1>2
<1>8. x.iface = i
  BY <1>6, <1>7 DEF LinkStep
<1>9. x.do = "restart"
  <2>1. x.do = "restart" <=> x.iface \notin conv'.stop /\ up'[x.iface] # Down /\ x.iface \in conv.provisioned
    BY <1>1, PlanFits
  <2> QED
    BY <1>8, <2>1 DEF IsUp
<1> QED
  BY <1>8, <1>9

\* Outside of the reconcile, a peer that has a name had it before, with the same key.
LEMMA KeysStay ==
  ASSUME ConstantsOK, NoPorts, LinksInv, WorkOK, [Next]_vars, conv.pc # "reconcile", NEW p \in Peer, row'[p].name # None
  PROVE  row'[p].name = row[p].name /\ row'[p].key = row[p].key
<1>1. CASE Api
  BY <1>1, ApiKeepsLinks
<1>2. CASE row' = row
  BY <1>2
<1> QED
  BY <1>1, <1>2, RowKinds

\* Inside of it, it may have been given a new one.
LEMMA KeysGiven ==
  ASSUME LinksTypeOK, ReconcileStep, NEW p \in Peer, row'[p].name # None
  PROVE  /\ rec.provisioned \subseteq rec'.provisioned
         /\ \/ row'[p].name = row[p].name /\ row'[p].key = row[p].key
            \/ row'[p].name \in rec'.provisioned
<1>1. rec \in Rec /\ row \in [Peer -> Row]
  BY DEF LinksTypeOK
<1>2. ASSUME NEW q \in Peer, RecRelease(q)
      PROVE  rec'.provisioned = rec.provisioned /\ row'[p].name = row[p].name /\ row'[p].key = row[p].key
  <2>1. rec'.provisioned = rec.provisioned
    BY <1>1, <1>2 DEF RecRelease, Rec
  <2>2. row'[p] = row[p] \/ row'[p] = Cleared(row[p])
    BY <1>1, <1>2 DEF RecRelease
  <2>3. Cleared(row[p]).name = None
    BY <1>1 DEF Cleared, Row
  <2> QED
    BY <2>1, <2>2, <2>3
<1>3. ASSUME RecThrow \/ \E q \in Peer : RecAllocate(q) \/ RecFail(q)
      PROVE  rec'.provisioned = rec.provisioned /\ row' = row
  <2>1. row' = row
    BY <1>3 DEF RecThrow, RecAllocate, RecFail
  <2>2. rec'.provisioned = rec.provisioned
    BY <1>1, <1>3 DEF RecThrow, RecAllocate, RecFail, Rec
  <2> QED
    BY <2>1, <2>2
<1>4. CASE RecWrite
  <2>1. rec'.provisioned = rec.provisioned \cup {rec.alloc.name} /\ rec.cur \in Peer
    BY <1>1, <1>4 DEF RecWrite, Rec, LinksTypeOK
  <2>2. row'[p] = row[p] \/ row'[p] = Linked(row[p], rec.alloc, nextKey)
    BY <1>1, <1>4, <2>1 DEF RecWrite
  <2>3. Linked(row[p], rec.alloc, nextKey).name = rec.alloc.name
    BY <1>1 DEF Linked, Row
  <2> QED
    BY <2>1, <2>2, <2>3
<1> QED
  BY <1>2, <1>3, <1>4 DEF ReconcileStep

LEMMA KeyStep ==
  ASSUME ConstantsOK, InterfacesApart, NoPorts, Alone, HostInv, WholeInv, StopsFirst, Rendered, StepsFit, KeysAgree, KeyInv,
         [Next]_vars, WorkOK', conv'.ok, faults' = 0
  PROVE  KeyInv'
<1>1. /\ LinksInv /\ LinksTypeOK /\ WorkOK /\ TallyOK /\ HostOK /\ StepsInv /\ SnapInv
      /\ conv \in Conv /\ rec.pc # "threw"
  BY DEF HostInv, ConvergeTypeOK, WorkOK, WholeInv, NoPinInv, NeverCollides
<1> SUFFICES ASSUME NEW p \in Peer, NEW i \in Ordinal, row'[p].name = i, up'[i] # Down
             PROVE  up'[i].key = row'[p].key \/ Rekeyed(i)'
  BY DEF KeyInv, IsUp
<1> DEFINE Kept == row'[p].name = row[p].name /\ row'[p].key = row[p].key
           Right == up'[i].key = row'[p].key
<1>2. ASSUME Kept, up[i] # Down
      PROVE  up[i].key = row'[p].key \/ Rekeyed(i)
  BY <1>2 DEF KeyInv, IsUp
<1>3. i \in Iface /\ i \notin Server /\ i # None
  BY DEF Iface, InterfacesApart, ConstantsOK
<1>4. CASE conv.pc = "reconcile"
  <2>1. up' = up
    BY <1>1, <1>4, ReconcileKinds, RejectShape DEF ReconcileStep, ReconcileEnd, host
  <2>2. CASE (Handle \/ UNCHANGED vars) /\ conv' = conv /\ rec' = rec
    <3>1. Kept
      <4>1. Handle => Api
        BY DEF Handle, Api
      <4>2. UNCHANGED vars => row' = row
        BY DEF vars, linkVars
      <4> QED
        BY <1>1, <1>3, <2>2, <4>1, <4>2, ApiKeepsLinks
    <3> QED
      BY <1>2, <1>4, <2>1, <2>2, <3>1 DEF Rekeyed
  <2>3. CASE ReconcileStep
    <3>1. conv'.pc = "reconcile"
      BY <1>4, <2>3 DEF ReconcileStep
    <3>2. rec.provisioned \subseteq rec'.provisioned /\ (Kept \/ i \in rec'.provisioned)
      BY <1>1, <1>3, <2>3, KeysGiven
    <3> QED
      BY <1>2, <1>4, <2>1, <3>1, <3>2 DEF Rekeyed
  <2>4. CASE ReconcileEnd
    <3>1. conv'.pc = "list" /\ conv'.provisioned = rec.provisioned /\ row' = row
      BY <2>4 DEF ReconcileEnd, RecReturn, IdleConv
    <3> QED
      BY <1>2, <1>4, <2>1, <3>1 DEF Rekeyed
  <2>5. ~ReconcileReject
    BY <1>1, RejectShape DEF TallyOK
  <2> QED
    BY <1>1, <1>4, <2>2, <2>3, <2>4, <2>5, ReconcileKinds
<1>5. ASSUME conv.pc # "reconcile"
      PROVE  Kept
  BY <1>1, <1>3, <1>5, KeysStay
<1>6. CASE conv.pc = "list" /\ conv'.pc = "list"
  <2>1. ~ReconcileEnd
    BY <1>6 DEF ReconcileEnd
  <2>2. conv' = conv /\ up' = up
    BY <1>1, <1>6, <2>1, ListKinds
  <2> QED
    BY <1>2, <1>5, <1>6, <2>2 DEF Rekeyed
<1>7. CASE conv.pc = "list" /\ conv'.pc # "list"
  <2>1. Plan({j \in Iface : IsUp(j)})
    BY <1>1, <1>7, ListShowsAll
  <2>2. conv'.pc = "steps"
    BY <1>1, <1>7, <2>1, PlanMade
  <2>3. up' = up
    BY <1>1, <1>7, <2>2, PlanKinds DEF PlanMoves, Planned, Stopped, Applied, IsNext, Restarted, Skipped, Through
  <2>4. CASE i \in conv.provisioned
    <3>1. i \in conv'.stop \/ \E x \in conv'.steps : x.iface = i /\ x.do # "reload"
      BY <1>3, <1>7, <2>1, <2>3, <2>4, PlanRestarts DEF IsUp
    <3> QED
      BY <2>2, <3>1 DEF Rekeyed
  <2>5. CASE i \notin conv.provisioned
    BY <1>2, <1>5, <1>7, <2>3, <2>5 DEF Rekeyed
  <2> QED
    BY <2>4, <2>5
<1>8. CASE conv.pc = "steps"
  <2>1. conv'.pc \in {"steps", "route"}
    <3>1. \A s \in Server : ~ConvergeBegin(s)
      BY <1>8 DEF ConvergeBegin
    <3>2. ~ConvergeEnd /\ ~ReconcileReject
      BY <1>8 DEF ConvergeEnd, ReconcileReject
    <3>3. \A h \in Handler : TeardownEnd(h) => conv' = conv
      BY DEF TeardownEnd
    <3>4. Handle \/ UNCHANGED vars => conv' = conv
      BY DEF Handle, vars
    <3>5. CASE Inside
      <4>1. conv'.pc \in {"reconcile", "list", "steps", "route"}
        BY <3>5 DEF Inside, WorkOK, Conv
      <4>2. conv'.pc # "list"
        <5>1. ~ReconcileEnd
          BY <1>8 DEF ReconcileEnd
        <5> QED
          BY <1>1, <1>8, <5>1, ListKinds
      <4>3. conv'.pc # "reconcile"
        <5>1. rec.pc = "idle" /\ rec' = rec
          BY <1>1, <1>8, <3>5 DEF Inside, WorkOK, linkVars
        <5> QED
          BY <5>1 DEF WorkOK
      <4> QED
        BY <4>1, <4>2, <4>3
    <3> QED
      BY <1>1, <1>8, <3>1, <3>2, <3>3, <3>4, <3>5, StepKinds
  <2>2. InJob /\ conv'.fleet = conv.fleet /\ PlanMoves
    BY <1>1, <2>1, PlanKinds
  <2>3. Kept
    BY <1>5, <1>8
  <2>4. up[i] # Down => up[i].key = row'[p].key \/ i \in conv.stop \/ \E x \in conv.steps : x.iface = i /\ x.do # "reload"
    BY <1>2, <1>8, <2>3 DEF Rekeyed
  <2>5. ASSUME conv'.pc = "steps", i \in conv'.stop \/ \E x \in conv'.steps : x.iface = i /\ x.do # "reload"
        PROVE  Rekeyed(i)'
    BY <2>5 DEF Rekeyed
  <2>6. ASSUME NEW j \in Iface, Stopped(j)
        PROVE  Right \/ Rekeyed(i)'
    <3>1. conv'.pc = "steps" /\ conv'.stop = conv.stop \ {j} /\ conv'.steps = conv.steps /\ up' = [up EXCEPT ![j] = Down]
      BY <2>6 DEF Stopped
    <3>2. i # j /\ up'[i] = up[i]
      BY <1>1, <1>3, <3>1 DEF HostOK
    <3> QED
      BY <2>4, <2>5, <3>1, <3>2
  <2>7. ASSUME NEW x \in conv.steps, Applied(x)
        PROVE  Right \/ Rekeyed(i)'
    <3>1. conv'.pc = "steps" /\ conv.stop = {} /\ conv'.steps = conv.steps \ {x}
      BY <2>7 DEF Applied, IsNext
    <3>2. \A j \in Iface \ {x.iface} : up'[j] = up[j]
      BY <1>1, <2>2, <2>7, AppliedShows
    <3>3. CASE i # x.iface
      BY <1>3, <2>4, <2>5, <3>1, <3>2, <3>3
    <3>4. CASE i = x.iface
      <4>1. x.config.key = row'[p].key
        <5>1. conv.fleet \in Snapshot /\ Closed(conv.fleet) /\ Own \in Server
          BY <1>1, <2>2, PlanFacts
        <5>2. PICK q \in LinkedPeers(conv.fleet, Own) : x.iface = conv.fleet.row[q].name /\ x.config = LinkConfig(conv.fleet, q)
          BY <1>3, <1>8, <3>4, <5>1 DEF Rendered
        <5>3. conv.fleet.row[p].name = i /\ conv.fleet.row[p].key = row'[p].key
          BY <1>3, <2>2, <2>3 DEF KeysAgree
        <5>4. q \in Peer /\ HasLink(conv.fleet.row[q])
          BY <5>1, LinkedInFleet
        <5>5. p = q
          BY <3>4, <5>1, <5>2, <5>3, <5>4, LinkOwners
        <5> QED
          BY <5>2, <5>3, <5>5 DEF LinkConfig
      <4>2. CASE x.do = "start"
        <5>1. up'[i] = x.config
          BY <1>1, <1>3, <2>7, <3>4, <4>2 DEF Applied, HostOK
        <5> QED
          BY <4>1, <5>1
      <4>3. CASE x.do # "start"
        <5>1. IsUp(i) /\ x.do # "restart"
          BY <2>7, <3>4, <4>3 DEF Applied
        <5>2. x \in Step
          BY <1>1 DEF Conv
        <5>3. x.do = "reload"
          BY <4>3, <5>1, <5>2 DEF Step
        <5>4. \A y \in conv.steps : y.iface = i => y.do = "reload"
          BY <1>8, <3>4, <5>3 DEF StepsFit
        <5>5. up[i].key = row'[p].key
          BY <2>4, <3>1, <5>1, <5>4 DEF IsUp
        <5>6. PICK c \in Synced(up[i], x.config) : up' = [up EXCEPT ![i] = c]
          BY <2>7, <3>4 DEF Applied
        <5>7. c.key \in {up[i].key, x.config.key}
          <6>1. up[i] \in Config
            BY <1>1, <1>3 DEF HostOK
          <6> QED
            BY <6>1 DEF Synced, Config
        <5>8. up'[i] = c
          BY <1>1, <1>3, <5>6 DEF HostOK
        <5> QED
          BY <4>1, <5>5, <5>7, <5>8
      <4> QED
        BY <4>2, <4>3
    <3> QED
      BY <3>3, <3>4
  <2>8. ASSUME NEW x \in conv.steps, Restarted(x)
        PROVE  Right \/ Rekeyed(i)'
    <3>1. conv'.pc = "steps" /\ conv.stop = {} /\ conv'.steps = (conv.steps \ {x}) \cup {[x EXCEPT !.do = "start"]}
      BY <2>8 DEF Restarted, IsNext
    <3>2. up'[x.iface] = Down /\ \A j \in Iface \ {x.iface} : up'[j] = up[j]
      BY <1>1, <2>2, <2>8, RestartFacts
    <3>3. i # x.iface /\ up'[i] = up[i]
      BY <1>3, <3>2
    <3> QED
      BY <2>4, <2>5, <3>1, <3>3
  <2>9. ~Skipped
    BY DEF Skipped
  <2>10. ASSUME Through
         PROVE  Right \/ Rekeyed(i)'
    <3>1. up' = up /\ conv'.stop = conv.stop /\ conv'.steps = conv.steps
          /\ (conv'.pc = conv.pc \/ (conv.stop = {} /\ conv.steps = {}))
      BY <2>10 DEF Through
    <3> QED
      BY <1>8, <2>4, <2>5, <3>1
  <2>11. ~Planned
    BY <1>8 DEF Planned
  <2> QED
    BY <2>2, <2>6, <2>7, <2>8, <2>9, <2>10, <2>11 DEF PlanMoves
<1>9. CASE conv.pc \in {"idle", "route"}
  <2>1. Kept
    BY <1>5, <1>9
  <2>2. up'[i] = up[i]
    <3>1. ASSUME NEW x \in conv.steps
          PROVE  ~Applied(x)
      BY <1>9 DEF Applied, IsNext
    <3> QED
      BY <1>1, <1>3, <3>1, UpChanges
  <2>3. ~Rekeyed(i)
    BY <1>9 DEF Rekeyed
  <2> QED
    BY <1>2, <2>1, <2>2, <2>3
<1>10. conv.pc \in {"idle", "reconcile", "list", "steps", "route"}
  BY <1>1 DEF Conv
<1> QED
  BY <1>4, <1>6, <1>7, <1>8, <1>9, <1>10

\* Once the work is done, every link is up, with the key and the port of its row.
LEMMA IdentityMatch ==
  ASSUME ConstantsOK, InterfacesApart, HostInv, LockedInv, KeyInv, Smooth
  PROVE  IdentityMatchesRows
<1> SUFFICES ASSUME Settled, NEW s \in Server, NEW p \in LinkedPeers(Fleet, s)
             PROVE  up[row[p].name].key = row[p].key /\ up[row[p].name].port = row[p].port
  BY DEF IdentityMatchesRows
<1>1. LinksInv /\ NamesInv /\ WorkOK /\ LinksShown /\ CleanInv /\ QuietInv
  BY DEF HostInv, ConvergeTypeOK, DevicesInv
<1>2. Fleet \in Snapshot /\ Closed(Fleet) /\ Fleet.row = row /\ Fleet.live = live
  BY <1>1, FleetOK DEF Fleet
<1>3. p \in Peer /\ HasLink(row[p])
  BY <1>2, LinkedInFleet
<1>4. p \in live /\ row[p].name \in Ordinal /\ row[p].port # None
  BY <1>2, <1>3, LinkOwners DEF HasLink
<1>5. IsUp(row[p].name)
  <2>1. MembersMatchRows
    BY <1>1, MembersMatch
  <2>2. p \in up[row[p].name].peers
    BY <1>3, <1>4, <2>1 DEF MembersMatchRows, Smooth
  <2> QED
    BY <2>2 DEF IsUp, Down
<1>6. up[row[p].name].key = row[p].key
  <2>1. ~Rekeyed(row[p].name)
    BY <1>1 DEF Settled, Quiet, WorkOK, Rekeyed
  <2> QED
    BY <1>3, <1>4, <1>5, <2>1 DEF KeyInv
<1>7. up[row[p].name].port = row[p].port
  <2>1. PICK T : PortsInv(T) /\ UpPorts(T)
    BY DEF LockedInv
  <2>2. Numbered(T, row[p])
    BY <1>3, <1>4, <2>1 DEF PortsInv
  <2>3. row[p].name \in Iface /\ row[p].name \notin Server
    BY <1>4 DEF Iface, InterfacesApart
  <2> QED
    BY <1>5, <2>1, <2>2, <2>3 DEF UpPorts, RightPort, Numbered
<1> QED
  BY <1>6, <1>7

\* With one server, whose ports and the allocator's band are apart, and without pinned ports: as long
\* as no command fails by itself, a link runs with the private key and the port of its row once the
\* work is done, also one that took over the name of another link and was up all the time, and also
\* if wg syncconf replaces the peers only.
THEOREM IdentityAlwaysMatches ==
  ASSUME NoPorts, PortsApart, Alone
  PROVE  Spec => [](faults = 0 => IdentityMatchesRows)
<1>1. Init => WholeInv /\ OneInv /\ SmoothInv
  BY WholeInit, OneInit, SmoothInit, PortsApart, ConstantsOK, InterfacesApart DEF Init
<1>2. Init => KeysAgree /\ KeyInv
  <2> SUFFICES ASSUME Init
               PROVE  KeysAgree /\ KeyInv
    OBVIOUS
  <2>1. conv.pc = "idle" /\ \A i \in Ordinal : up[i] = Down
    BY InterfacesApart DEF Init, IdleConv, Iface, InterfacesApart
  <2> QED
    BY <2>1 DEF KeysAgree, InJob, KeyInv, IsUp
<1>3. WholeInv /\ [Next]_vars => WholeInv'
  BY StepRefines, WholeStep, NoPorts, ConstantsOK
<1>4. HostInv /\ HostInv' /\ WholeInv /\ OneInv /\ [Next]_vars => OneInv'
  BY OneStep, NoPorts, ConstantsOK, InterfacesApart
<1>5. HostInv /\ WholeInv /\ WholeInv' /\ OneInv /\ SmoothInv /\ [Next]_vars => SmoothInv'
  BY SmoothInvStep, NoPorts, PortsApart, Alone, ConstantsOK, InterfacesApart
<1>6. HostInv /\ KeysAgree /\ [Next]_vars => KeysAgree'
  <2> SUFFICES ASSUME HostInv, KeysAgree, [Next]_vars
               PROVE  KeysAgree'
    OBVIOUS
  <2>1. LinksInv /\ WorkOK
    BY DEF HostInv, ConvergeTypeOK
  <2> QED
    BY <2>1, KeysAgreeStep, NoPorts, ConstantsOK
<1>7. /\ HostInv /\ HostInv' /\ WholeInv /\ OneInv /\ SmoothInv /\ SmoothInv' /\ KeysAgree
      /\ (faults = 0 => KeyInv) /\ [Next]_vars
      => (faults = 0 => KeyInv)'
  <2> SUFFICES ASSUME HostInv, HostInv', WholeInv, OneInv, SmoothInv, SmoothInv', KeysAgree, faults = 0 => KeyInv,
                      [Next]_vars, faults' = 0
               PROVE  KeyInv'
    OBVIOUS
  <2>1. TallyOK /\ WorkOK'
    BY DEF HostInv, ConvergeTypeOK
  <2>2. faults = 0 /\ KeyInv
    BY <2>1, FaultFree
  <2>3. StopsFirst /\ Rendered /\ StepsFit /\ conv'.ok
    BY <2>2 DEF OneInv, SmoothInv, Smooth
  <2> QED
    BY <2>1, <2>2, <2>3, KeyStep, NoPorts, Alone, ConstantsOK, InterfacesApart
<1>8. HostInv /\ SmoothInv /\ (faults = 0 => KeyInv) => (faults = 0 => IdentityMatchesRows)
  BY IdentityMatch, ConstantsOK, InterfacesApart DEF SmoothInv
<1> QED
  BY <1>1, <1>2, <1>3, <1>4, <1>5, <1>6, <1>7, <1>8, HostCorrect, PTL DEF Spec

-----------------------------------------------------------------------------
(* An exit node that waits for a link.                                     *)

\* There are names, ports and tables enough for every peer to have its own.
Ample ==
  /\ IsFiniteSet(Peer)
  /\ \A band \in {Ordinal \ ServerOrdinal, PortBand, RouteTable} :
       \E some \in SUBSET band : IsFiniteSet(some) /\ Cardinality(some) >= Cardinality(Peer)

\* What the other peers hold leaves something of a band that is large enough.
LEMMA FreeLeft ==
  ASSUME IsFiniteSet(Peer), NEW p \in Peer, NEW held,
         NEW some, IsFiniteSet(some), Cardinality(some) >= Cardinality(Peer)
  PROVE  some \ {held[q] : q \in Peer \ {p}} # {}
<1> DEFINE others == Peer \ {p}
           taken == {held[q] : q \in others}
           hold == [q \in others |-> held[q]]
<1>1. IsFiniteSet(others) /\ Cardinality(others) = Cardinality(Peer) - 1 /\ Cardinality(Peer) \in Nat
  BY FS_RemoveElement, FS_CardinalityType
<1>2. hold \in Surjection(others, taken)
  BY DEF Surjection
<1>3. IsFiniteSet(taken) /\ Cardinality(taken) <= Cardinality(others)
  BY <1>1, <1>2, FS_Surjection
<1>4. some \subseteq taken => Cardinality(some) <= Cardinality(taken)
  BY <1>3, FS_Subset
<1>5. Cardinality(some) \in Nat /\ Cardinality(taken) \in Nat /\ Cardinality(others) \in Nat
  BY <1>1, <1>3, FS_CardinalityType
<1>6. ~(some \subseteq taken)
  BY <1>1, <1>3, <1>4, <1>5
<1> QED
  BY <1>6

LEMMA AlwaysRoom ==
  ASSUME ConstantsOK, Ample, LinksTypeOK, \A s \in Server : srvPort[s] \notin PortBand, NEW p \in Peer
  PROVE  CanAllocate(p, None)
<1>1. Ordinal \ TakenNames(p) # {}
  <2>1. PICK some \in SUBSET (Ordinal \ ServerOrdinal) : IsFiniteSet(some) /\ Cardinality(some) >= Cardinality(Peer)
    BY DEF Ample
  <2> DEFINE held == [q \in Peer |-> row[q].name]
  <2>2. {held[q] : q \in Peer \ {p}} = {row[q].name : q \in Peer \ {p}}
    OBVIOUS
  <2> HIDE DEF held
  <2>3. some \ {held[q] : q \in Peer \ {p}} # {}
    BY <2>1, FreeLeft DEF Ample
  <2> QED
    BY <2>1, <2>2, <2>3 DEF TakenNames
<1>2. PortBand \ TakenPorts(p) # {}
  <2>1. PICK some \in SUBSET PortBand : IsFiniteSet(some) /\ Cardinality(some) >= Cardinality(Peer)
    BY DEF Ample
  <2> DEFINE held == [q \in Peer |-> row[q].port]
  <2>2. {held[q] : q \in Peer \ {p}} = {row[q].port : q \in Peer \ {p}}
    OBVIOUS
  <2> HIDE DEF held
  <2>3. some \ {held[q] : q \in Peer \ {p}} # {}
    BY <2>1, FreeLeft DEF Ample
  <2>4. PICK port \in PortBand : port \notin {row[q].port : q \in Peer \ {p}}
    BY <2>1, <2>2, <2>3
  <2>5. port \notin {srvPort[s] : s \in Server}
    OBVIOUS
  <2> QED
    BY <2>4, <2>5 DEF TakenPorts
<1>3. RouteTable \ TakenTables(p) # {}
  <2>1. PICK some \in SUBSET RouteTable : IsFiniteSet(some) /\ Cardinality(some) >= Cardinality(Peer)
    BY DEF Ample
  <2> DEFINE held == [q \in Peer |-> row[q].table]
  <2>2. {held[q] : q \in Peer \ {p}} = {row[q].table : q \in Peer \ {p}}
    OBVIOUS
  <2> HIDE DEF held
  <2>3. some \ {held[q] : q \in Peer \ {p}} # {}
    BY <2>1, FreeLeft DEF Ample
  <2> QED
    BY <2>1, <2>2, <2>3 DEF TakenTables
<1> QED
  BY <1>1, <1>2, <1>3 DEF CanAllocate

\* An exit node without a link has a converge before it that will give it one, or the last one failed.
Waits(p) == p \in rec.todo \/ (rec.pc = "keygen" /\ rec.cur = p)
NeedInv == \A p \in live : NeedsLink(row[p]) =>
  /\ ~Clean(Home[p])
  /\ Running(Home[p]) /\ ~Pending(Home[p]) => conv.pc = "reconcile" /\ Waits(p)

\* The reconcile takes a peer off its list only to give it a link, or to take away one.
LEMMA ReconcileGives ==
  ASSUME LinksTypeOK, PortsFollowLinks, FreshInv, \A q \in Peer : CanAllocate(q, None), ConstantsOK,
         conv.pc = "reconcile", ~Pending(Own), ReconcileStep, rec'.pc # "threw",
         NEW p \in live, NeedsLink(row'[p])
  PROVE  NeedsLink(row[p]) /\ (Waits(p) => Waits(p)')
<1>1. rec \in Rec /\ row \in [Peer -> Row] /\ p \in Peer /\ rec.todo \subseteq Peer
  BY DEF LinksTypeOK, Rec
<1>2. ASSUME NEW q \in Peer, RecRelease(q)
      PROVE  NeedsLink(row[p]) /\ (Waits(p) => Waits(p)')
  <2>1. rec.pc = "loop" /\ q \in rec.todo /\ NeedsRelease(rec.snap[q]) /\ rec'.todo = rec.todo \ {q}
    BY <1>1, <1>2 DEF RecRelease, Rec
  <2>2. CASE p # q
    <3>1. row'[p] = row[p]
      BY <1>1, <1>2, <2>2 DEF RecRelease
    <3> QED
      BY <2>1, <2>2, <3>1 DEF Waits
  <2>3. CASE p = q
    <3>1. row[p].role = "plain"
      BY <2>1, <2>3 DEF FreshInv, NeedsRelease
    <3>2. row'[p] = Cleared(row[p])
      BY <1>1, <1>2, <2>3 DEF RecRelease
    <3>3. Cleared(row[p]).role = row[p].role
      BY <1>1 DEF Cleared, Row
    <3> QED
      BY <3>1, <3>2, <3>3 DEF NeedsLink
  <2> QED
    BY <2>2, <2>3
<1>3. ASSUME NEW q \in Peer, RecAllocate(q)
      PROVE  NeedsLink(row[p]) /\ (Waits(p) => Waits(p)')
  <2>1. rec.pc = "loop" /\ row' = row
    BY <1>3 DEF RecAllocate
  <2>2. rec'.pc = "keygen" /\ rec'.cur = q /\ rec'.todo = rec.todo \ {q}
    BY <1>1, <1>3 DEF RecAllocate, Rec
  <2> QED
    BY <2>1, <2>2 DEF Waits
<1>4. ASSUME NEW q \in Peer, RecFail(q)
      PROVE  FALSE
  BY <1>4 DEF RecFail, PortsFollowLinks
<1>5. ~RecThrow
  BY <1>1 DEF RecThrow, Rec
<1>6. CASE RecWrite
  <2>1. rec.pc = "keygen" /\ rec.cur \in Peer /\ rec.alloc \in Allocation /\ rec'.todo = rec.todo
    BY <1>1, <1>6 DEF RecWrite, Rec, LinksTypeOK
  <2>2. CASE p = rec.cur
    <3>1. row'[p] = Linked(row[p], rec.alloc, nextKey)
      BY <1>1, <1>6, <2>1, <2>2 DEF RecWrite
    <3>2. IsProvisioned(Linked(row[p], rec.alloc, nextKey))
      <4>1. /\ Linked(row[p], rec.alloc, nextKey).name = rec.alloc.name
            /\ Linked(row[p], rec.alloc, nextKey).port = rec.alloc.port
            /\ Linked(row[p], rec.alloc, nextKey).table = rec.alloc.table
            /\ Linked(row[p], rec.alloc, nextKey).key = nextKey
        BY <1>1 DEF Linked, Row
      <4>2. rec.alloc.name \in Nat /\ rec.alloc.port \in Nat /\ rec.alloc.table \in Nat /\ nextKey \in Nat
        BY <2>1 DEF Allocation, Port, ConstantsOK, LinksTypeOK
      <4> QED
        BY <4>1, <4>2 DEF IsProvisioned, ConstantsOK
    <3> QED
      BY <3>1, <3>2 DEF NeedsLink
  <2>3. CASE p # rec.cur
    <3>1. row'[p] = row[p]
      BY <1>1, <1>6, <2>3 DEF RecWrite
    <3> QED
      BY <2>1, <2>3, <3>1 DEF Waits
  <2> QED
    BY <2>2, <2>3
<1> QED
  BY <1>2, <1>3, <1>4, <1>5, <1>6 DEF ReconcileStep

LEMMA NeedStep ==
  ASSUME ConstantsOK, NoPorts, \A q \in Peer : CanAllocate(q, None), WholeInv, WholeInv', LinksTypeOK', WorkOK, WorkOK',
         TallyOK, HomesInv, OwnReconcile, FreshInv, NeedInv, [Next]_vars
  PROVE  NeedInv'
<1> SUFFICES ASSUME NEW p \in live', NeedsLink(row'[p])
             PROVE  /\ ~Clean(Home[p])'
                    /\ Running(Home[p])' /\ ~Pending(Home[p])' => conv'.pc = "reconcile" /\ Waits(p)'
  BY DEF NeedInv
<1>1. /\ p \in Peer /\ Home[p] \in Server
      /\ LinksTypeOK /\ PortsFollowLinks /\ rec.pc # "threw" /\ rec'.pc # "threw"
  BY DEF LinksTypeOK, ConstantsOK, WholeInv, NoPinInv, LinksInv, NeverCollides
<1> DEFINE s == Home[p]
<1>2. ASSUME Untouched(s)
      PROVE  p \in live /\ NeedsLink(row[p])
  BY <1>1, <1>2 DEF Untouched
<1>3. ASSUME Clean(s)'
      PROVE  FALSE
  <2>1. CASE Clean(s) /\ Untouched(s)
    BY <1>2, <2>1 DEF NeedInv
  <2>2. CASE ConvergeEnd /\ s = Own /\ ~Pending(s)
    <3>1. Running(s)
      <4>1. PICK t \in Server : Head(chain) = ConvergeJob(t)
        BY <2>2 DEF ConvergeEnd, WorkOK
      <4> QED
        BY <2>2, <4>1 DEF Running, ConvergeEnd, Own, ConvergeJob
    <3>2. p \in live /\ NeedsLink(row[p]) /\ conv.pc = "route"
      BY <2>2 DEF ConvergeEnd, linkVars
    <3> QED
      BY <2>2, <3>1, <3>2 DEF NeedInv
  <2> QED
    BY <1>1, <1>3, <2>1, <2>2, CleanStep
<1>4. ASSUME Running(s)', ~Pending(s)'
      PROVE  conv'.pc = "reconcile" /\ Waits(p)'
  <2>1. /\ ~Pending(s) \/ ConvergeBegin(s)
        /\ Untouched(s) \/ conv.pc = "reconcile"
    BY <1>1, <1>4, PendingStep
  <2>2. CASE ConvergeBegin(s)
    <3>1. p \in live /\ NeedsLink(row[p])
      BY <2>2 DEF ConvergeBegin, RecBegin
    <3>2. rec'.todo = {q \in live : Home[q] = s /\ (NeedsRelease(row[q]) \/ NeedsLink(row[q]))}
      BY <2>2 DEF ConvergeBegin, RecBegin, IdleRec
    <3>3. conv'.pc = "reconcile"
      BY <2>2 DEF ConvergeBegin, IdleConv
    <3> QED
      BY <3>1, <3>2, <3>3 DEF Waits
  <2>3. CASE ~ConvergeBegin(s)
    <3>1. ~Pending(s) /\ Running(s)
      BY <1>1, <1>4, <2>1, <2>3, StillRunning
    <3>2. CASE conv.pc # "reconcile"
      BY <1>1, <1>2, <2>1, <3>1, <3>2 DEF NeedInv
    <3>3. CASE conv.pc = "reconcile"
      <4>1. s = Own
        BY <3>1 DEF Running, Own, ConvergeJob
      <4>2. ASSUME p \in live, NeedsLink(row[p])
            PROVE  Waits(p)
        BY <3>1, <4>2 DEF NeedInv
      <4>3. CASE Handle
        <5>1. Untouched(s) /\ rec' = rec /\ conv' = conv
          BY <1>1, <1>4, <4>3, HandleLeaves
        <5> QED
          BY <1>2, <3>3, <4>2, <5>1 DEF Waits
      <4>4. CASE UNCHANGED vars
        <5>1. live' = live /\ row' = row /\ rec' = rec /\ conv' = conv
          BY <4>4 DEF vars, linkVars
        <5> QED
          BY <3>3, <4>2, <5>1 DEF Waits
      <4>5. CASE ReconcileStep
        <5>1. live' = live /\ conv' = conv
          BY <1>1, <4>5, ReconcileShape
        <5>2. NeedsLink(row[p]) /\ (Waits(p) => Waits(p)')
          BY <1>1, <3>1, <3>3, <4>1, <4>5, <5>1, ReconcileGives
        <5> QED
          BY <3>3, <4>2, <5>1, <5>2
      <4>6. ~ReconcileReject
        BY <1>4, RejectShape DEF IdleConv, Running
      <4>7. CASE ReconcileEnd
        <5>1. rec.todo = {} /\ rec.pc = "loop" /\ live' = live /\ row' = row
          BY <4>7 DEF ReconcileEnd, RecReturn
        <5> QED
          BY <4>2, <5>1 DEF Waits
      <4> QED
        BY <3>3, <4>3, <4>4, <4>5, <4>6, <4>7, ReconcileKinds
    <3> QED
      BY <3>2, <3>3
  <2> QED
    BY <2>2, <2>3
<1> QED
  BY <1>3, <1>4

\* With names, ports and tables enough for every peer, and no server on a port of the allocator's
\* band, and without pinned ports: once the work is done no exit node is without a link and no other
\* peer holds a port, for any number of servers, whatever fails.
THEOREM RowsAlwaysSettle == ASSUME NoPorts, PortsApart, Ample PROVE Spec => []RowsSettled
<1> DEFINE Apart == \A s \in Server : srvPort[s] \notin PortBand
           Chores == BareInv /\ FreshInv /\ ReleaseInv
<1>1. Init => WholeInv /\ Apart /\ Chores /\ NeedInv
  <2> SUFFICES ASSUME Init
               PROVE  WholeInv /\ Apart /\ Chores /\ NeedInv
    OBVIOUS
  <2>1. LinksInit /\ conv.pc = "idle" /\ rec.pc = "idle"
    BY DEF Init, IdleConv, LinksInit, IdleRec
  <2>2. \A p \in live : ~NeedsRelease(row[p]) /\ ~NeedsLink(row[p])
    BY <2>1, ConstantsOK DEF LinksInit, NeedsRelease, NeedsLink, Blank, ConstantsOK
  <2>3. WholeInv /\ BareInv
    BY <2>1, WholeInit, BareInit, ConstantsOK
  <2>4. Apart
    BY <2>1, PortsApart DEF LinksInit, PortsApart
  <2> QED
    BY <2>1, <2>2, <2>3, <2>4 DEF FreshInv, ReleaseInv, NeedInv
<1>2. WholeInv /\ [Next]_vars => WholeInv'
  BY StepRefines, WholeStep, NoPorts, ConstantsOK
<1>3. WholeInv /\ Apart /\ [Next]_vars => Apart'
  BY StepRefines, ApartStep, PortsApart DEF WholeInv, NoPinInv, LinksInv
<1>4. HostInv /\ HostInv' /\ Chores /\ [Next]_vars => Chores'
  <2> SUFFICES ASSUME HostInv, HostInv', Chores, [Next]_vars
               PROVE  Chores'
    OBVIOUS
  <2>1. /\ LinksInv /\ LinksTypeOK /\ WorkOK /\ TallyOK /\ HomesInv /\ OwnReconcile
        /\ LinksTypeOK' /\ WorkOK'
    BY DEF HostInv, ConvergeTypeOK
  <2>2. BareInv'
    BY <2>1, BareStep, StepRefines, ConstantsOK
  <2> QED
    BY <2>1, <2>2, FreshStep, ReleaseStep, ConstantsOK
<1>5. HostInv /\ HostInv' /\ WholeInv /\ WholeInv' /\ Apart /\ Chores /\ NeedInv /\ [Next]_vars => NeedInv'
  <2> SUFFICES ASSUME HostInv, HostInv', WholeInv, WholeInv', Apart, Chores, NeedInv, [Next]_vars
               PROVE  NeedInv'
    OBVIOUS
  <2>1. LinksTypeOK /\ LinksTypeOK' /\ WorkOK /\ WorkOK' /\ TallyOK /\ HomesInv /\ OwnReconcile
    BY DEF HostInv, ConvergeTypeOK
  <2>2. \A q \in Peer : CanAllocate(q, None)
    BY <2>1, AlwaysRoom, Ample, ConstantsOK
  <2> QED
    BY <2>1, <2>2, NeedStep, NoPorts, ConstantsOK
<1>6. HostInv /\ WholeInv /\ Chores /\ NeedInv => RowsSettled
  <2> SUFFICES ASSUME HostInv, WholeInv, Chores, NeedInv, Settled, NEW p \in live
               PROVE  (row[p].role = "plain" => row[p].port = None) /\ ~NeedsLink(row[p])
    BY DEF RowsSettled
  <2>1. WorkOK /\ PortsFollowLinks /\ p \in Peer /\ Home[p] \in Server
    BY ConstantsOK DEF HostInv, ConvergeTypeOK, LinksTypeOK, ConstantsOK, WholeInv, NoPinInv
  <2>2. Clean(Home[p])
    BY <2>1, SettledClean
  <2>3. ~NeedsLink(row[p]) /\ ~NeedsRelease(row[p])
    BY <2>2 DEF NeedInv, ReleaseInv
  <2>4. row[p].role = "plain" => row[p].port = None
    BY <2>1, <2>3 DEF NeedsRelease, PortsFollowLinks, IsProvisioned
  <2> QED
    BY <2>3, <2>4
<1> QED
  BY <1>1, <1>2, <1>3, <1>4, <1>5, <1>6, HostCorrect, PTL DEF Spec

=============================================================================
