------------------------------ MODULE Converge ------------------------------
(***************************************************************************)
(* The converge chain (wg/converge.ts, wg/plan.ts, wg/exitRouting.ts) and  *)
(* the host it drives.  Every write of ExitLinks puts a job on the chain;  *)
(* the chain runs one job at a time.  A converge job reconciles the links  *)
(* of its server, takes one snapshot of the database and one look at the   *)
(* host, and applies the resulting plan: interfaces first, policy routing  *)
(* last.  A teardown job takes one link down.                              *)
(*                                                                         *)
(* A command of the host may fail (at most MaxFaults times), and fails     *)
(* when the state of the host makes it: starting an interface that is up,  *)
(* or on a port another one listens on, or routing into one that is down.  *)
(* Commands change only the host and handlers only the database, so a      *)
(* stage of several commands is one step where nothing can be told apart.  *)
(* The nftables ruleset is not part of the state: it is one atomic         *)
(* command whose failure is logged and stops nothing.                      *)
(*                                                                         *)
(* Left out: a POST or PATCH whose body names a tag twice.  It answers 500 *)
(* with the row written and no converge queued (api/serversPeers.ts        *)
(* 121-126, 163-169), and what is said here of a chain that has run empty  *)
(* then waits for the next converge of that server.                        *)
(***************************************************************************)
EXTENDS ExitLinks, Sequences

CONSTANT MaxFaults   \* bound: commands that fail by themselves

VARIABLES
  chain,    \* the queued jobs; the head is the one that runs
  conv,     \* what the running converge knows
  up,       \* wireguard interfaces of the host
  rules,    \* ip rules: <<client, table>>
  dflt,     \* the interface the default route of a table points at
  main,     \* the interface the main table routes a peer's /32 to
  outcome,  \* ConvergeResult.ok of the last converge of each server
  routed,   \* the last routing pass ran to its end
  faults

host == <<up, rules, dflt, main>>
vars == <<linkVars, chain, conv, host, outcome, routed, faults>>

Iface == Server \cup Ordinal

\* A server is no link ordinal: a server that is itself named wgxN hides N (ServerOrdinal).
ASSUME InterfacesApart == Server \cap (Ordinal \cup {None}) = {}

\* The private key None stands for the one a server keeps for ever.
Down == [key |-> None, port |-> None, peers |-> {}]
IsUp(i) == up[i] # Down

(***************************************************************************)
(* What a snapshot f of the fleet describes.                               *)
(***************************************************************************)
Fleet == [live |-> live, row |-> row, port |-> srvPort]

PlainPeers(f, s) == {p \in f.live : Home[p] = s /\ f.row[p].role = "plain"}
LinkedPeers(f, s) == {p \in f.live : Home[p] = s /\ HasLink(f.row[p])}
Clients(f, p) == {q \in f.live \ {p} : Home[q] = Home[p] /\ f.row[q].via = p}

ServerConfig(f, s) == [key |-> None, port |-> f.port[s], peers |-> PlainPeers(f, s)]
\* Mutant: the link is rendered with the key of the server.
LinkConfig_ServerKey(f, p) == [key |-> None, port |-> f.row[p].port, peers |-> {p}]
LinkConfig(f, p) == [key |-> f.row[p].key, port |-> f.row[p].port, peers |-> {p}]

LinkNames(f) == {f.row[p].name : p \in UNION {LinkedPeers(f, s) : s \in Server}}

(***************************************************************************)
(* planConverge.  A step is an interface, its rendered config and what to  *)
(* do with it.                                                             *)
(***************************************************************************)
ActionFor(i, upLeft, provisioned) ==
  CASE i \notin upLeft -> "start"
    [] i \in upLeft /\ i \in provisioned -> "restart"
    [] OTHER -> "reload"

\* Mutant: no sweep of the links that no row claims.
PlannedStops_NoSweep(f, seen, released) == released \cap seen
PlannedStops(f, seen, released) ==
  (released \cap seen) \cup ((seen \cap Ordinal) \ (LinkNames(f) \cup ServerOrdinal))

PlannedSteps(f, s, upLeft, provisioned) ==
  {[iface |-> s, config |-> ServerConfig(f, s), do |-> ActionFor(s, upLeft, provisioned)]} \cup
  {[iface |-> f.row[p].name, config |-> LinkConfig(f, p), do |-> ActionFor(f.row[p].name, upLeft, provisioned)] :
     p \in LinkedPeers(f, s)}

(***************************************************************************)
(* The chain.                                                              *)
(***************************************************************************)
ConvergeJob(s) == [do |-> "converge", of |-> s]
TeardownJob(h) == [do |-> "teardown", of |-> h]

\* Mutant: a job that runs already is not queued again.
Enqueue_Once(job) == chain' = IF chain # <<>> /\ Head(chain) = job THEN chain ELSE Append(chain, job)
Enqueue(job) == chain' = Append(chain, job)

IdleConv == [pc |-> "idle", fleet |-> None, released |-> {}, provisioned |-> {}, drain |-> {},
             stop |-> {}, steps |-> {}, servers |-> {}, links |-> {}, ok |-> TRUE]

\* The handlers, each with the job it queues in the step of its write.
Handle ==
  /\ \/ \E p \in Peer, b \in Request : Patch(p, b) /\ Enqueue(ConvergeJob(Home[p]))
     \/ \E h \in Handler, p \in Peer, b \in Request : PostCheck(h, p, b) /\ UNCHANGED chain
     \/ \E h \in Handler :
          /\ PostInsert(h)
          /\ IF req[h].peer \in live' THEN Enqueue(ConvergeJob(Home[req[h].peer])) ELSE UNCHANGED chain
     \/ \E p \in Peer : DeleteUnlinked(p) /\ Enqueue(ConvergeJob(Home[p]))
     \/ \E h \in Handler, p \in Peer : DeleteLinked(h, p) /\ Enqueue(TeardownJob(h))
     \/ \E s \in Server, port \in ServerPort : PatchServer(s, port) /\ Enqueue(ConvergeJob(s))
  /\ UNCHANGED <<conv, host, outcome, routed, faults>>

\* A command fails when it cannot work, or by itself while the bound allows.
Fails(works) ==
  \/ ~works /\ UNCHANGED faults
  \/ works /\ faults < MaxFaults /\ faults' = faults + 1

(***************************************************************************)
(* The host.  Deleting a device takes the routes through it along, but no  *)
(* ip rule.                                                                *)
(***************************************************************************)
Delete(i) ==
  /\ up' = [up EXCEPT ![i] = Down]
  /\ dflt' = [t \in RouteTable |-> IF dflt[t] = i THEN None ELSE dflt[t]]
  /\ main' = [p \in Peer |-> IF main[p] = i THEN None ELSE main[p]]

CanListen(i, c) == \A j \in Iface \ {i} : up[j].port # c.port

\* wg syncconf: it replaces the peers and nothing else, as wg/plan.ts says, or the key and the port
\* along with them, as the rendered config asks for: the properties hold either way.
Synced(c, new) == {[c EXCEPT !.peers = new.peers], new}

DrainTables(tables) == rules' = {r \in rules : r[2] \notin tables}

(***************************************************************************)
(* A teardown, and the transaction of the DELETE that waits for it: the    *)
(* continuation of the handler runs before the next job reads the rows.    *)
(***************************************************************************)
TeardownEnd(h) ==
  /\ chain # <<>> /\ Head(chain) = TeardownJob(h)
  /\ DeleteCommit(h)
  /\ chain' = Append(Tail(chain), ConvergeJob(Home[req[h].peer]))
  /\ UNCHANGED <<conv, outcome, routed>>

Teardown(h) ==
  /\ TeardownEnd(h)
  /\ LET link == req[h].row IN
     /\ up' = [up EXCEPT ![link.name] = Down]
     /\ dflt' = [t \in RouteTable |-> IF dflt[t] = link.name \/ t = link.table THEN None ELSE dflt[t]]
     /\ main' = [p \in Peer |-> IF main[p] = link.name THEN None ELSE main[p]]
     /\ DrainTables({link.table})
  /\ UNCHANGED faults

\* The listing fails and shows nothing up: the drain runs, the device stays.
TeardownBlind(h) ==
  /\ TeardownEnd(h) /\ Fails(TRUE)
  /\ DrainTables({req[h].row.table})
  /\ dflt' = [dflt EXCEPT ![req[h].row.table] = None]
  /\ UNCHANGED <<up, main>>

\* Mutant: the error of the teardown ends the DELETE.
TeardownFail_EndsDelete(h) ==
  /\ chain # <<>> /\ Head(chain) = TeardownJob(h)
  /\ IsUp(req[h].row.name) /\ Fails(TRUE)
  /\ chain' = Tail(chain)
  /\ UNCHANGED <<linkVars, conv, host, outcome, routed>>

\* The device cannot be deleted: the drain is skipped, and the row goes all the same.
TeardownFail(h) ==
  /\ TeardownEnd(h) /\ IsUp(req[h].row.name) /\ Fails(TRUE)
  /\ UNCHANGED host

(***************************************************************************)
(* A converge: the reconcile, then the snapshot, then the listing.         *)
(***************************************************************************)
ConvergeBegin(s) ==
  /\ chain # <<>> /\ Head(chain) = ConvergeJob(s)
  /\ conv.pc = "idle" /\ RecBegin(s)
  /\ conv' = [IdleConv EXCEPT !.pc = "reconcile"]
  /\ UNCHANGED <<chain, host, outcome, routed, faults>>

ReconcileStep ==
  /\ conv.pc = "reconcile"
  /\ (\E p \in Peer : RecRelease(p) \/ RecAllocate(p) \/ RecFail(p)) \/ RecThrow \/ RecWrite
  /\ UNCHANGED <<chain, conv, host, outcome, routed, faults>>

\* Mutant: the next job starts from what this one left in conv.
Finish_KeepsConv(ok) ==
  /\ chain' = Tail(chain)
  /\ conv' = conv
  /\ outcome' = [outcome EXCEPT ![Head(chain).of] = ok]

Finish(ok) ==
  /\ chain' = Tail(chain)
  /\ conv' = IdleConv
  /\ outcome' = [outcome EXCEPT ![Head(chain).of] = ok]

\* Mutant: a job that rejects is never followed by the next one.
ReconcileReject_BlocksChain == conv.pc = "reconcile" /\ rec.pc = "threw" /\ UNCHANGED vars

\* A reconcile that throws, or whose wg genkey fails, rejects the whole converge.
ReconcileReject ==
  /\ conv.pc = "reconcile"
  /\ \/ rec.pc = "threw" /\ RecReturn /\ UNCHANGED faults
     \/ RecNoKey /\ Fails(TRUE)
  /\ Finish(FALSE)
  /\ UNCHANGED <<host, routed>>

ReconcileEnd ==
  /\ conv.pc = "reconcile" /\ rec.pc = "loop" /\ RecReturn
  /\ conv' = [IdleConv EXCEPT !.pc = "list", !.fleet = Fleet, !.released = rec.released,
                              !.provisioned = rec.provisioned, !.drain = rec.drain]
  /\ UNCHANGED <<chain, host, outcome, routed, faults>>

\* Mutant: start or reload is decided before the stops are taken into account.
Plan_IgnoresStops(seen) ==
  LET f == conv.fleet IN
  conv' = [conv EXCEPT !.pc = "steps", !.stop = PlannedStops(f, seen, conv.released),
                       !.steps = PlannedSteps(f, Head(chain).of, seen, conv.provisioned)]

Plan(seen) ==
  LET f == conv.fleet
      stop == PlannedStops(f, seen, conv.released)
  IN conv' = [conv EXCEPT !.pc = "steps", !.stop = stop,
                          !.steps = PlannedSteps(f, Head(chain).of, seen \ stop, conv.provisioned)]

ListInterfaces ==
  /\ conv.pc = "list"
  /\ \/ Plan({i \in Iface : IsUp(i)}) /\ UNCHANGED faults
     \/ Plan({}) /\ Fails(TRUE)
  /\ UNCHANGED <<linkVars, chain, host, outcome, routed>>

(***************************************************************************)
(* The interface steps, front to back; the first that fails skips the rest *)
(* but not the host-wide half.                                             *)
(***************************************************************************)
AfterStep(steps) == conv' = [conv EXCEPT !.steps = steps]
SkipSteps == conv' = [conv EXCEPT !.stop = {}, !.steps = {}, !.ok = FALSE]

StopStep(i) ==
  /\ conv.pc = "steps" /\ i \in conv.stop
  /\ \/ /\ IsUp(i) /\ Delete(i)
        /\ conv' = [conv EXCEPT !.stop = @ \ {i}]
        /\ UNCHANGED faults
     \/ /\ Fails(IsUp(i)) /\ SkipSteps
        /\ UNCHANGED <<up, dflt, main>>
  /\ UNCHANGED <<linkVars, chain, rules, outcome, routed>>

\* Mutant: the links may come first.
IsNext_LinksFirst(x) == conv.pc = "steps" /\ conv.stop = {} /\ x \in conv.steps

\* The server's own interface comes before its links.
IsNext(x) ==
  /\ conv.pc = "steps" /\ conv.stop = {} /\ x \in conv.steps
  /\ x.iface \in Server \/ \A y \in conv.steps : y.iface \notin Server

StartStep(x) ==
  /\ IsNext(x) /\ x.do = "start"
  /\ LET works == ~IsUp(x.iface) /\ CanListen(x.iface, x.config) IN
     \/ /\ works /\ up' = [up EXCEPT ![x.iface] = x.config]
        /\ AfterStep(conv.steps \ {x})
        /\ UNCHANGED faults
     \/ Fails(works) /\ SkipSteps /\ UNCHANGED up
  /\ UNCHANGED <<linkVars, chain, rules, dflt, main, outcome, routed>>

ReloadStep(x) ==
  /\ IsNext(x) /\ x.do = "reload"
  /\ \E synced \in Synced(up[x.iface], x.config) :
       LET works == IsUp(x.iface) /\ CanListen(x.iface, synced) IN
       \/ /\ works /\ up' = [up EXCEPT ![x.iface] = synced]
          /\ AfterStep(conv.steps \ {x})
          /\ UNCHANGED faults
       \/ Fails(works) /\ SkipSteps /\ UNCHANGED up
  /\ UNCHANGED <<linkVars, chain, rules, dflt, main, outcome, routed>>

\* A restart is a stop, after which the step is a start.
RestartStep(x) ==
  /\ IsNext(x) /\ x.do = "restart"
  /\ \/ /\ IsUp(x.iface) /\ Delete(x.iface)
        /\ AfterStep((conv.steps \ {x}) \cup {[x EXCEPT !.do = "start"]})
        /\ UNCHANGED faults
     \/ /\ Fails(IsUp(x.iface)) /\ SkipSteps
        /\ UNCHANGED <<up, dflt, main>>
  /\ UNCHANGED <<linkVars, chain, rules, outcome, routed>>

(***************************************************************************)
(* The host-wide half.                                                     *)
(***************************************************************************)
Drain ==
  /\ conv.pc = "steps" /\ conv.stop = {} /\ conv.steps = {}
  /\ DrainTables(conv.drain)
  /\ dflt' = [t \in RouteTable |-> IF t \in conv.drain THEN None ELSE dflt[t]]
  /\ conv' = [conv EXCEPT !.pc = "route", !.servers = Server]
  /\ routed' = TRUE
  /\ UNCHANGED <<linkVars, chain, up, main, outcome, faults>>

RouteOf(p) == conv.fleet.row[p]

\* The main table of one server: the routes on its interfaces are flushed and laid again.
FlushAndLay(s, links, flushed) ==
  main' = [q \in Peer |-> CASE q \in links -> RouteOf(q).name
                            [] q \notin links /\ main[q] \in flushed -> None
                            [] OTHER -> main[q]]

RouteMain(s) ==
  /\ conv.pc = "route" /\ conv.links = {} /\ s \in conv.servers
  /\ LET links == LinkedPeers(conv.fleet, s) IN
     /\ \A p \in links : IsUp(RouteOf(p).name)
     /\ FlushAndLay(s, links, {s} \cup {RouteOf(p).name : p \in links})
     /\ conv' = [conv EXCEPT !.servers = @ \ {s}, !.links = links]
  /\ UNCHANGED <<linkVars, chain, up, rules, dflt, outcome, routed, faults>>

\* The first command that fails ends the whole pass, for the servers that follow too.
AbandonRouting ==
  /\ conv' = [conv EXCEPT !.servers = {}, !.links = {}]
  /\ routed' = FALSE

RouteMainFail(s) ==
  /\ conv.pc = "route" /\ conv.links = {} /\ s \in conv.servers
  /\ LET links == LinkedPeers(conv.fleet, s) IN
     \E p \in links, laid \in SUBSET links :
       /\ p \notin laid /\ \A q \in laid : IsUp(RouteOf(q).name)
       /\ Fails(IsUp(RouteOf(p).name))
       /\ FlushAndLay(s, laid, {s} \cup {RouteOf(q).name : q \in laid \cup {p}})
  /\ AbandonRouting
  /\ UNCHANGED <<linkVars, chain, up, rules, dflt, outcome>>

\* Mutants: the rules are not drained; the default route is left out.
RouteTableOf_NoDrain(p) ==
  /\ conv.pc = "route" /\ p \in conv.links
  /\ LET t == RouteOf(p).table
         clients == Clients(conv.fleet, p)
     IN /\ clients # {} => IsUp(Home[p]) /\ IsUp(RouteOf(p).name)
        /\ rules' = rules \cup (clients \X {t})
        /\ dflt' = [dflt EXCEPT ![t] = RouteOf(p).name]
  /\ conv' = [conv EXCEPT !.links = @ \ {p}]
  /\ UNCHANGED <<linkVars, chain, up, main, outcome, routed, faults>>
RouteTableOf_NoDefault(p) ==
  /\ conv.pc = "route" /\ p \in conv.links
  /\ LET t == RouteOf(p).table IN rules' = {r \in rules : r[2] # t} \cup (Clients(conv.fleet, p) \X {t})
  /\ conv' = [conv EXCEPT !.links = @ \ {p}]
  /\ UNCHANGED <<linkVars, chain, up, dflt, main, outcome, routed, faults>>

\* The policy table of one link: its rules are drained, then it is filled for its clients.
RouteTableOf(p) ==
  /\ conv.pc = "route" /\ p \in conv.links
  /\ LET t == RouteOf(p).table
         clients == Clients(conv.fleet, p)
     IN /\ clients # {} => IsUp(Home[p]) /\ IsUp(RouteOf(p).name)
        /\ rules' = {r \in rules : r[2] # t} \cup (clients \X {t})
        /\ dflt' = [dflt EXCEPT ![t] = IF clients = {} THEN None ELSE RouteOf(p).name]
  /\ conv' = [conv EXCEPT !.links = @ \ {p}]
  /\ UNCHANGED <<linkVars, chain, up, main, outcome, routed, faults>>

RouteTableFail(p) ==
  /\ conv.pc = "route" /\ p \in conv.links /\ Clients(conv.fleet, p) # {}
  /\ LET t == RouteOf(p).table
         works == IsUp(Home[p]) /\ IsUp(RouteOf(p).name)
     IN /\ Fails(works)
        /\ \/ DrainTables({t}) /\ UNCHANGED dflt
           \/ /\ works /\ dflt' = [dflt EXCEPT ![t] = RouteOf(p).name]
              /\ \E some \in SUBSET Clients(conv.fleet, p) :
                   rules' = {r \in rules : r[2] # t} \cup (some \X {t})
  /\ AbandonRouting
  /\ UNCHANGED <<linkVars, chain, up, main, outcome>>

ConvergeEnd ==
  /\ conv.pc = "route" /\ conv.servers = {} /\ conv.links = {}
  /\ Finish(conv.ok)
  /\ UNCHANGED <<linkVars, host, routed, faults>>

RunJob ==
  \/ \E h \in Handler : Teardown(h) \/ TeardownBlind(h) \/ TeardownFail(h)
  \/ \E s \in Server : ConvergeBegin(s) \/ RouteMain(s) \/ RouteMainFail(s)
  \/ ReconcileStep \/ ReconcileReject \/ ReconcileEnd
  \/ ListInterfaces
  \/ \E i \in Iface : StopStep(i)
  \/ \E x \in conv.steps : StartStep(x) \/ ReloadStep(x) \/ RestartStep(x)
  \/ Drain \/ ConvergeEnd
  \/ \E p \in Peer : RouteTableOf(p) \/ RouteTableFail(p)

\* The state after a boot with no exit node: every server's interface is up.
Init ==
  /\ LinksInit
  /\ chain = <<>> /\ conv = IdleConv
  /\ up = [i \in Iface |-> IF i \in Server THEN ServerConfig(Fleet, i) ELSE Down]
  /\ rules = {} /\ dflt = [t \in RouteTable |-> None] /\ main = [p \in Peer |-> None]
  /\ outcome = [s \in Server |-> TRUE] /\ routed = TRUE
  /\ faults = 0

Next == Handle \/ RunJob
Spec == Init /\ [][Next]_vars

\* Every command and every timer of the event loop comes to an end, and so does wg genkey.
FairSpec == Spec /\ WF_vars(RunJob) /\ \A h \in Handler : WF_vars(PostInsert(h) /\ Handle)

(***************************************************************************)
(* Properties.                                                             *)
(***************************************************************************)
Config == [key : Nat \cup {None}, port : Nat \cup {None}, peers : SUBSET Peer]
Step == [iface : Iface, config : Config, do : {"start", "reload", "restart"}]
Job == {ConvergeJob(s) : s \in Server} \cup {TeardownJob(h) : h \in Handler}
Snapshot == [live : SUBSET Peer, row : [Peer -> Row], port : [Server -> Nat]]
Conv == [pc : {"idle", "reconcile", "list", "steps", "route"}, fleet : Snapshot \cup {None},
         released : SUBSET Ordinal, provisioned : SUBSET Ordinal, drain : SUBSET RouteTable,
         stop : SUBSET Iface, steps : SUBSET Step, servers : SUBSET Server, links : SUBSET Peer, ok : BOOLEAN]

\* Who works for whom: a reconcile runs only inside a converge, a converge only at the head of the
\* chain, and a plan and its routing only from the snapshot of their own converge.
WorkOK ==
  /\ chain \in Seq(Job) /\ conv \in Conv
  /\ conv.pc # "idle" => chain # <<>> /\ \E s \in Server : Head(chain) = ConvergeJob(s)
  /\ conv.pc = "reconcile" <=> rec.pc # "idle"
  /\ conv.pc \in {"list", "steps", "route"} => conv.fleet \in Snapshot
  /\ \A p \in conv.links : conv.fleet \in Snapshot /\ HasLink(conv.fleet.row[p])

HostOK ==
  /\ up \in [Iface -> Config]
  /\ rules \subseteq Peer \X RouteTable
  /\ dflt \in [RouteTable -> Iface \cup {None}] /\ main \in [Peer -> Iface \cup {None}]

TallyOK == outcome \in [Server -> BOOLEAN] /\ routed \in BOOLEAN /\ faults \in Nat

\* The shape of the state.
ConvergeTypeOK == LinksTypeOK /\ WorkOK /\ HostOK /\ TallyOK

\* A peer that moves between its server's interface and a link of its own is never on both, as long
\* as no stop fails (a link that could not be stopped is dealt with after the server the next time)
\* and no port is pinned or cleared (the reconcile may then give a live link another name, or throw
\* and lose the names it released).
PeerOnOneInterface ==
  faults = 0 => \A s \in Server, i \in Ordinal : up[s].peers \cap up[i].peers = {}

\* The work is done: every handler that wrote a row has had its converge.
Quiet == chain = <<>>
Settled == Quiet /\ \A s \in Server : outcome[s]

\* Once the work is done, a peer that is no exit node holds no name, table or key, so the bands lose
\* nothing: not even one that was unmarked while the reconcile waited to write its link.
LinksReleased ==
  Settled => \A p \in live : row[p].role = "plain" => {row[p].name, row[p].table, row[p].key} = {None}

\* Once the work is done, it holds no port either (where no port is pinned), and no exit node is
\* without a link while there is one for it (with names enough: one that a release or the DELETE of
\* another server frees behind the allocation may have no converge to follow).
RowsSettled ==
  Settled => \A p \in live :
    /\ row[p].role = "plain" => row[p].port = None
    /\ NeedsLink(row[p]) => ~CanAllocate(p, row[p].port)

\* If the last converge of each server succeeded, every peer is on the interface its row says and
\* no link is up that no row describes.  A link may be missing, taken down by a DELETE that read the
\* name before its next owner got it, but the routing pass that follows does not go through then.
MembersMatchRows ==
  Settled =>
    /\ \A s \in Server : up[s].peers = PlainPeers(Fleet, s)
    /\ \A i \in Ordinal : IsUp(i) \/ routed => up[i].peers = {p \in live : HasLink(row[p]) /\ row[p].name = i}

\* "The row describing it is about to be deleted": a teardown takes down the link of the peer that
\* is deleted, and of no other.
TeardownsTakeTheirOwn ==
  \A h \in Handler : chain # <<>> /\ Head(chain) = TeardownJob(h) =>
    \A q \in live \ {req[h].peer} : HasLink(row[q]) => row[q].name # req[h].row.name

\* As long as no command fails by itself, none fails because of a step before it: a name or a port
\* that a stop frees is free when a start needs it, and a device is up when a route needs it.  With
\* two servers, a teardown that takes down another one's link breaks this (TeardownsTakeTheirOwn).
PlansApply == faults = 0 => routed /\ \A s \in Server : outcome[s]

\* The private key and the port an interface runs with are those of the row.  No fault and one
\* server: a restart that is lost is not planned again, nor is a link of another server restored.
IdentityMatchesRows ==
  Settled => \A s \in Server : \A p \in LinkedPeers(Fleet, s) :
    up[row[p].name].key = row[p].key /\ up[row[p].name].port = row[p].port

\* Once everything has run to its end, a rule into a table with a default route leads its client to
\* the exit node the client chose, and to no other.  A rule left behind may still point into a table
\* that keeps routes of its range and LANs (wg/exitRouting.ts 175-181): no exit, but those routes.
SteeredToChoice ==
  Settled /\ routed => \A r \in rules : dflt[r[2]] # None =>
    \E p \in live : row[r[1]].via = p /\ HasLink(row[p]) /\ dflt[r[2]] = row[p].name

\* Once everything has run to its end, every client of a link is led there, and the main table
\* leads to every exit node over its own link and to no other peer over a link.
RoutesMatchRows ==
  Settled /\ routed =>
    /\ \A s \in Server : \A p \in LinkedPeers(Fleet, s) :
         /\ main[p] = row[p].name
         /\ \A q \in Clients(Fleet, p) : <<q, row[p].table>> \in rules /\ dflt[row[p].table] = row[p].name
    /\ \A p \in live : ~HasLink(row[p]) => main[p] = None

\* "The applied state is a function of the db alone": the rules are those the rows describe.
RulesAreAFunctionOfRows ==
  Quiet /\ routed =>
    rules = UNION {{<<q, row[p].table>> : q \in Clients(Fleet, p)} : p \in UNION {LinkedPeers(Fleet, s) : s \in Server}}

\* The chain never gets stuck, whatever fails or throws, and neither does a DELETE that waits.
ChainDrains == chain # <<>> ~> chain = <<>>
DeletesComplete == \A h \in Handler : req[h].pc = "teardown" ~> req[h].pc = "idle"

=============================================================================
