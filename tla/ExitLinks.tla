------------------------------ MODULE ExitLinks ------------------------------
(***************************************************************************)
(* The peer rows of the database, the HTTP handlers that write them, and   *)
(* reconcileExitLinks (wg/exitLinks.ts), which hands every exit node an    *)
(* interface name, a UDP port, a routing table and a key of its own.       *)
(*                                                                         *)
(* Granularity.  The driver is bun:sqlite, which is synchronous: a handler *)
(* that awaits nothing but the database runs to its end before the event   *)
(* loop serves another request.  What it does yield at is a subprocess     *)
(* (wg genkey) and the converge chain.  So PATCH is one step; POST has a   *)
(* gap between its checks and its insert; DELETE of an exit node has a gap *)
(* while its teardown is on the chain; and the reconcile has a gap between *)
(* its allocation and its write.  A converge may start a reconcile at any  *)
(* time (every handler ends in one, and so does the manager's loop), but   *)
(* the chain runs one at a time.  Module Converge adds the chain.          *)
(***************************************************************************)
EXTENDS Integers, FiniteSets

CONSTANTS
  Peer,          \* peer ids, each handed out at most once (nanoid)
  InitialPeer,   \* the peers that exist at the start
  Server,        \* server ids
  Home,          \* [Peer -> Server]: a peer never changes server
  Handler,       \* requests that may be in flight at once
  Request,       \* the bodies a request may carry
  Ordinal,       \* N of the link names wgxN
  ServerOrdinal, \* ordinals hidden by a server that is itself named wgxN
  PortBand,      \* ports the allocator picks from
  PinPort,       \* ports an operator may ask for
  RouteTable,    \* policy-routing table ids
  ServerPort,    \* ports a server PATCH may ask for
  InitialPort,   \* [Server -> Nat]
  MaxOps,        \* bound: API requests in one behaviour
  None,          \* SQL null
  Keep           \* a field the body leaves out

VARIABLES
  live,      \* peers that have a row
  fresh,     \* ids not handed out yet
  row,       \* the row of each live peer, Blank for the others
  srvPort,   \* serverPeers.wgListenPort
  req,       \* handlers suspended between their reads and their write
  rec,       \* the reconcile in progress
  nextKey,   \* keys already generated are below it
  ops        \* API requests so far

linkVars == <<live, fresh, row, srvPort, req, rec, nextKey, ops>>

Role == {"plain", "exit"}   \* the column isExitNode
Port == PortBand \cup PinPort

Body == [role : Role \cup {Keep}, via : Peer \cup {None, Keep}, port : PinPort \cup {None, Keep}]

Row == [role  : Role,
        via   : Peer \cup {None},       \* exitPeerId
        name  : Ordinal \cup {None},    \* exitInterfaceName
        port  : Port \cup {None},       \* exitListenPort
        table : RouteTable \cup {None}, \* exitRouteTableId
        key   : Nat \cup {None}]        \* exitPrivateKey and exitPublicKey

Blank == [role |-> "plain", via |-> None, name |-> None, port |-> None, table |-> None, key |-> None]

Allocation == [name : Ordinal, port : Port, table : RouteTable]

ASSUME ConstantsOK ==
  /\ InitialPeer \subseteq Peer
  /\ Home \in [Peer -> Server]
  /\ Request \subseteq Body
  /\ Ordinal \subseteq Nat /\ PortBand \subseteq Nat /\ PinPort \subseteq Nat /\ RouteTable \subseteq Nat
  /\ ServerPort \subseteq Nat /\ InitialPort \in [Server -> Nat]
  /\ MaxOps \in Nat
  /\ None \notin Peer \cup Nat /\ Keep \notin Peer \cup Nat \cup Role /\ Keep # None

(***************************************************************************)
(* Reading a row.                                                          *)
(***************************************************************************)
IsProvisioned(r) == None \notin {r.name, r.port, r.table, r.key}

\* exitLinkOf: what the rest of the program treats as a usable link.
HasLink(r) == r.role = "exit" /\ None \notin {r.name, r.port, r.table}

\* Mutant: a release that forgets the port.
Cleared_KeepsPort(r) == [r EXCEPT !.name = None, !.table = None, !.key = None]
Cleared(r) == [r EXCEPT !.name = None, !.port = None, !.table = None, !.key = None]

NeedsRelease(r) == r.role = "plain" /\ r.name # None
NeedsLink(r) == r.role = "exit" /\ ~IsProvisioned(r)

(***************************************************************************)
(* Allocation: everything another peer or a server holds is taken.         *)
(***************************************************************************)
\* Mutants: only the servers' names are taken; only the servers' ports are.
TakenNames_OfServers(p) == ServerOrdinal
TakenPorts_OfServers(p) == {srvPort[s] : s \in Server}

TakenNames(p) == ServerOrdinal \cup {row[q].name : q \in Peer \ {p}}
TakenPorts(p) == {srvPort[s] : s \in Server} \cup {row[q].port : q \in Peer \ {p}}
TakenTables(p) == {row[q].table : q \in Peer \ {p}}

LowestFree(band, taken) == CHOOSE v \in band \ taken : \A w \in band \ taken : v <= w

\* A pinned port is used as it is when free and refused when not.
CanAllocate(p, pinned) ==
  /\ Ordinal \ TakenNames(p) # {}
  /\ RouteTable \ TakenTables(p) # {}
  /\ IF pinned = None THEN PortBand \ TakenPorts(p) # {} ELSE pinned \notin TakenPorts(p)

AllocationFor(p, pinned) ==
  [name  |-> LowestFree(Ordinal, TakenNames(p)),
   port  |-> IF pinned = None THEN LowestFree(PortBand, TakenPorts(p)) ELSE pinned,
   table |-> LowestFree(RouteTable, TakenTables(p))]

(***************************************************************************)
(* Requests.  The event loop is free for one when no reconcile is between  *)
(* two of its yields.                                                      *)
(***************************************************************************)
LoopFree == rec.pc \in {"idle", "keygen"}

Merge(asked, old) == IF asked = Keep THEN old ELSE asked

Written(r, b) == [r EXCEPT !.role = Merge(b.role, @), !.via = Merge(b.via, @), !.port = Merge(b.port, @)]

Dependents(p) == {q \in Peer : row[q].via = p}

\* checkPeerInvariants: a client cannot be an exit node, and its exit node is one of its server.
ChoiceAllowed(p, r, b) ==
  /\ ~(Written(r, b).role = "exit" /\ Written(r, b).via # None)
  /\ b.role = "plain" /\ r.role = "exit" => \A q \in Dependents(p) : Home[q] # Home[p]
  /\ b.via \notin {None, Keep} =>
       b.via \in live \ {p} /\ Home[b.via] = Home[p] /\ row[b.via].role = "exit"

PortAllowed(p, b) == b.port \notin {None, Keep} => b.port \notin TakenPorts(p)

WriteAllowed(p, r, b) == ChoiceAllowed(p, r, b) /\ PortAllowed(p, b)

Admit == LoopFree /\ ops < MaxOps /\ ops' = ops + 1

Patch(p, b) ==
  /\ Admit
  /\ p \in live /\ WriteAllowed(p, row[p], b)
  /\ row' = [row EXCEPT ![p] = Written(@, b)]
  /\ UNCHANGED <<live, fresh, srvPort, req, rec, nextKey>>

IdleReq == [pc |-> "idle", peer |-> None, row |-> Blank]

\* POST checks the body, then waits for wg genkey and wg genpsk.
PostCheck(h, p, b) ==
  /\ Admit
  /\ req[h].pc = "idle" /\ p \in fresh
  /\ WriteAllowed(p, Blank, b)
  /\ fresh' = fresh \ {p}
  /\ req' = [req EXCEPT ![h] = [IdleReq EXCEPT !.pc = "insert", !.peer = p, !.row = Written(Blank, b)]]
  /\ UNCHANGED <<live, row, srvPort, rec, nextKey>>

\* The insert.  It is not reached when wg genkey, pubkey or genpsk fails, and the UNIQUE column
\* exitListenPort refuses a port pinned meanwhile: a 500 in either case.
PostInsert(h) ==
  /\ LoopFree /\ req[h].pc = "insert"
  /\ req' = [req EXCEPT ![h] = IdleReq]
  /\ LET new == req[h].row IN
     \/ UNCHANGED <<live, row>>
     \/ /\ new.port # None => \A q \in live : row[q].port # new.port
        /\ live' = live \cup {req[h].peer} /\ row' = [row EXCEPT ![req[h].peer] = new]
  /\ UNCHANGED <<fresh, srvPort, rec, nextKey, ops>>

\* Mutants: the clients keep their choice; the columns outlive the row.
Remove_KeepsClients(p) ==
  /\ live' = live \ {p}
  /\ row' = [row EXCEPT ![p] = Blank]
Remove_KeepsRow(p) ==
  /\ live' = live \ {p}
  /\ row' = [q \in Peer |-> IF q \in Dependents(p) THEN [row[q] EXCEPT !.via = None] ELSE row[q]]

\* DELETE's transaction: the row goes and nobody exits through it any more.
Remove(p) ==
  /\ live' = live \ {p}
  /\ row' = [q \in Peer |-> IF q = p THEN Blank ELSE IF q \in Dependents(p) THEN [row[q] EXCEPT !.via = None] ELSE row[q]]

DeleteUnlinked(p) ==
  /\ Admit
  /\ p \in live /\ ~HasLink(row[p])
  /\ Remove(p)
  /\ UNCHANGED <<fresh, srvPort, req, rec, nextKey>>

\* DELETE of a linked exit node waits for its teardown on the chain.
DeleteLinked(h, p) ==
  /\ Admit
  /\ req[h].pc = "idle" /\ p \in live /\ HasLink(row[p])
  /\ req' = [req EXCEPT ![h] = [pc |-> "teardown", peer |-> p, row |-> row[p]]]
  /\ UNCHANGED <<live, fresh, row, srvPort, rec, nextKey>>

\* The teardown ran on the chain, so no reconcile is in progress when the transaction follows it.
DeleteCommit(h) ==
  /\ rec.pc = "idle" /\ req[h].pc = "teardown"
  /\ Remove(req[h].peer)
  /\ req' = [req EXCEPT ![h] = IdleReq]
  /\ UNCHANGED <<fresh, srvPort, rec, nextKey, ops>>

\* checkServerInvariants compares the port with the other servers' ports only.
ServerPortAllowed(s, port) == \A t \in Server \ {s} : srvPort[t] # port

PatchServer(s, port) ==
  /\ Admit
  /\ ServerPortAllowed(s, port)
  /\ srvPort' = [srvPort EXCEPT ![s] = port]
  /\ UNCHANGED <<live, fresh, row, req, rec, nextKey>>

(***************************************************************************)
(* reconcileExitLinks(server): the peers are read once, then handled one   *)
(* by one from that reading.                                               *)
(***************************************************************************)
NoAllocation == [name |-> None, port |-> None, table |-> None]
IdleRec == [pc |-> "idle", srv |-> None, todo |-> {}, snap |-> [p \in Peer |-> Blank], cur |-> None, alloc |-> NoAllocation,
            released |-> {}, drain |-> {}, provisioned |-> {}, failed |-> {}]

RecBegin(s) ==
  /\ rec.pc = "idle"
  /\ LET todo == {p \in live : Home[p] = s /\ (NeedsRelease(row[p]) \/ NeedsLink(row[p]))} IN
     rec' = [IdleRec EXCEPT !.pc = "loop", !.srv = s, !.todo = todo,
                            !.snap = [p \in Peer |-> IF p \in todo THEN row[p] ELSE Blank]]
  /\ UNCHANGED <<live, fresh, row, srvPort, req, nextKey, ops>>

RecRelease(p) ==
  /\ rec.pc = "loop" /\ p \in rec.todo /\ NeedsRelease(rec.snap[p])
  /\ row' = IF p \in live THEN [row EXCEPT ![p] = Cleared(@)] ELSE row
  /\ rec' = [rec EXCEPT !.todo = @ \ {p}, !.released = @ \cup {rec.snap[p].name},
                        !.drain = @ \cup ({rec.snap[p].table} \ {None})]
  /\ UNCHANGED <<live, fresh, srvPort, req, nextKey, ops>>

\* The taken set is read afresh for every peer; then the loop waits for wg genkey.
RecAllocate(p) ==
  /\ rec.pc = "loop" /\ p \in rec.todo /\ NeedsLink(rec.snap[p])
  /\ CanAllocate(p, rec.snap[p].port)
  /\ rec' = [rec EXCEPT !.pc = "keygen", !.todo = @ \ {p}, !.cur = p, !.alloc = AllocationFor(p, rec.snap[p].port)]
  /\ UNCHANGED <<live, fresh, row, srvPort, req, nextKey, ops>>

RecFail(p) ==
  /\ rec.pc = "loop" /\ p \in rec.todo /\ NeedsLink(rec.snap[p])
  /\ ~CanAllocate(p, rec.snap[p].port)
  /\ rec' = [rec EXCEPT !.todo = @ \ {p}, !.failed = @ \cup {p}]
  /\ UNCHANGED <<live, fresh, row, srvPort, req, nextKey, ops>>

\* An update that touches the row of cur can break one of the three UNIQUE columns.
Holds(r, a) == r.name = a.name \/ r.port = a.port \/ r.table = a.table
Collides == rec.cur \in live /\ \E q \in live \ {rec.cur} : Holds(row[q], rec.alloc)

RecThrow ==
  /\ rec.pc = "keygen" /\ Collides
  /\ rec' = [rec EXCEPT !.pc = "threw"]
  /\ nextKey' = nextKey + 1
  /\ UNCHANGED <<live, fresh, row, srvPort, req, ops>>

Linked(r, a, key) == [r EXCEPT !.name = a.name, !.port = a.port, !.table = a.table, !.key = key]

RecWrite ==
  /\ rec.pc = "keygen" /\ ~Collides
  /\ row' = IF rec.cur \in live THEN [row EXCEPT ![rec.cur] = Linked(@, rec.alloc, nextKey)] ELSE row
  /\ rec' = [rec EXCEPT !.pc = "loop", !.cur = None, !.alloc = NoAllocation, !.provisioned = @ \cup {rec.alloc.name}]
  /\ nextKey' = nextKey + 1
  /\ UNCHANGED <<live, fresh, srvPort, req, ops>>

\* wg genkey or wg pubkey fails, and nothing catches that: the reconcile rejects.
RecNoKey ==
  /\ rec.pc = "keygen"
  /\ rec' = IdleRec
  /\ UNCHANGED <<live, fresh, row, srvPort, req, nextKey, ops>>

\* The loop is over, or it threw: the converge that called it goes on or rejects.
RecReturn ==
  /\ rec.pc = "threw" \/ (rec.pc = "loop" /\ rec.todo = {})
  /\ rec' = IdleRec
  /\ UNCHANGED <<live, fresh, row, srvPort, req, nextKey, ops>>

Reconcile ==
  \/ \E s \in Server : RecBegin(s)
  \/ \E p \in Peer : RecRelease(p) \/ RecAllocate(p) \/ RecFail(p)
  \/ RecNoKey \/ RecThrow \/ RecWrite \/ RecReturn

Api ==
  \/ \E p \in Peer, b \in Request : Patch(p, b)
  \/ \E h \in Handler, p \in Peer, b \in Request : PostCheck(h, p, b)
  \/ \E h \in Handler : PostInsert(h) \/ DeleteCommit(h)
  \/ \E p \in Peer : DeleteUnlinked(p)
  \/ \E h \in Handler, p \in Peer : DeleteLinked(h, p)
  \/ \E s \in Server, port \in ServerPort : PatchServer(s, port)

LinksInit ==
  /\ live = InitialPeer /\ fresh = Peer \ InitialPeer
  /\ row = [p \in Peer |-> Blank]
  /\ srvPort = InitialPort
  /\ req = [h \in Handler |-> IdleReq]
  /\ rec = IdleRec
  /\ nextKey = 0 /\ ops = 0

LinksNext == Api \/ Reconcile
LinksSpec == LinksInit /\ [][LinksNext]_linkVars

(***************************************************************************)
(* Properties.                                                             *)
(***************************************************************************)
Req == [pc : {"idle", "insert", "teardown"}, peer : Peer \cup {None}, row : Row]

Rec == [pc : {"idle", "loop", "keygen", "threw"}, srv : Server \cup {None}, todo : SUBSET Peer, snap : [Peer -> Row],
        cur : Peer \cup {None}, alloc : Allocation \cup {NoAllocation},
        released : SUBSET Ordinal, drain : SUBSET RouteTable, provisioned : SUBSET Ordinal, failed : SUBSET Peer]

\* The shape of the state; a peer without a row shows nothing, so no column outlives its row.
LinksTypeOK ==
  /\ live \subseteq Peer /\ fresh \subseteq Peer /\ live \cap fresh = {}
  /\ row \in [Peer -> Row]
  /\ \A p \in Peer \ live : row[p] = Blank
  /\ srvPort \in [Server -> Nat]
  /\ req \in [Handler -> Req]
  /\ \A h \in Handler : req[h].pc = "idle" \/ (req[h].peer \in Peer /\ req[h].peer \notin fresh)
  /\ rec \in Rec
  /\ rec.pc \in {"keygen", "threw"} => rec.cur \in Peer /\ rec.alloc \in Allocation
  /\ nextKey \in Nat /\ ops \in Nat

\* The name and the table picked before the wait for wg genkey are still nobody else's after it,
\* whatever the handlers did meanwhile (loadExitLinkTaken is read afresh for every peer).
ReservationHolds ==
  rec.pc \in {"keygen", "threw"} =>
    \A q \in Peer \ {rec.cur} : row[q].name # rec.alloc.name /\ row[q].table # rec.alloc.table

\* Two peers never share an interface name, a UDP port, a routing table or a key: the premise on
\* which every other module addresses a link by its name and a client's route by its table.
LinksDistinct ==
  \A p, q \in Peer : p # q =>
    /\ row[p].name = row[q].name => row[p].name = None
    /\ row[p].port = row[q].port => row[p].port = None
    /\ row[p].table = row[q].table => row[p].table = None
    /\ row[p].key = row[q].key => row[p].key = None

\* The inductive invariant: keys are numbered in the order they are generated, and a row that
\* waits to be inserted carries no link of its own.
KeysBelow == \A p \in Peer : row[p].key = None \/ row[p].key < nextKey
InsertsUnlinked == \A h \in Handler : req[h].pc = "insert" => [req[h].row EXCEPT !.port = None] = Cleared(req[h].row)
LinksInv == LinksTypeOK /\ ReservationHolds /\ LinksDistinct /\ KeysBelow /\ InsertsUnlinked

\* "Never throws": the update of the reconcile breaks no UNIQUE column.  (A command that fails makes
\* it throw as well: RecNoKey.)
NeverCollides == rec.pc # "threw"

\* exitPeerId names a live exit node of the same server, so no client is routed into another client.
ChoiceValid(p) == row[p].via # None =>
  /\ row[p].via \in live /\ Home[row[p].via] = Home[p]
  /\ row[row[p].via].role = "exit" /\ row[p].role = "plain"

ExitChoiceValid == \A p \in live : ChoiceValid(p)

\* So it is for every peer that was there at the start, whatever is created, marked, unmarked,
\* deleted and reconciled around it: only an insert can bring in a choice that no longer holds.
ExistingChoicesValid == \A p \in live \cap InitialPeer : ChoiceValid(p)

\* Its inductive invariant: the row that a handler is about to insert is nobody's yet.
InsertsNew == \A h \in Handler : req[h].pc = "insert" =>
  /\ req[h].peer \notin live \cup InitialPeer
  /\ \A g \in Handler \ {h} : req[g].pc = "insert" => req[g].peer # req[h].peer
ChoiceInv == LinksTypeOK /\ ExistingChoicesValid /\ fresh \cap InitialPeer = {} /\ InsertsNew

\* The inductive invariant behind NeverCollides where no port is pinned: only the reconcile writes
\* ports, together with the rest of the link.
PortsFollowLinks ==
  /\ \A p \in Peer : row[p].port # None => IsProvisioned(row[p])
  /\ \A h \in Handler : req[h].pc = "insert" => req[h].row.port = None
  /\ \A p \in rec.todo : NeedsLink(rec.snap[p]) => rec.snap[p].port = None
  /\ rec.pc = "keygen" => \A q \in Peer \ {rec.cur} : row[q].port # rec.alloc.port
NoPinInv == LinksInv /\ PortsFollowLinks /\ NeverCollides

=============================================================================
