# A verification development of wgfleet

wgfleet runs a fleet of WireGuard servers from one process: a Bun HTTP API over a SQLite database,
and a *converge* that makes the host (WireGuard interfaces, policy routing, nftables) agree with the
rows. This directory holds TLA+ modules that model the process, TLC configurations that check them on
small instances, and theorems about them checked by TLAPS. Paths below are relative to
`src/packages/server/src` unless they start with `src/` or `docs/`.

1. The system
2. The modules and how they correspond to the code
3. The runs, their bounds and what they show
4. Fairness
5. The proofs
6. Disagreements between the code and what it says of itself
7. What is only model-checked, and what is not modelled
8. The plan

## 1. The system

### Components

| component | state | operations | interacts with |
|---|---|---|---|
| database (`db/schema.ts`, `db/index.ts`) | servers, peers, tags, grants, traffic buckets, sessions; UNIQUE columns, no enforced foreign keys | synchronous queries and transactions (bun:sqlite) | everything |
| peer API (`api/serversPeers.ts`, `wg/peerIntake.ts`, `lib/peerInvariants.ts`) | none of its own; a POST or DELETE in flight holds what it read | POST, PATCH, DELETE of a peer | rows; `wg genkey`; ends in `converge`, DELETE of an exit node in `tearDownExitLink` first |
| server API (`api/servers.ts`, `lib/serverInvariants.ts`) | none | POST, PATCH of a server, traffic reset | rows; ends in `converge` |
| exit-link reconcile (`wg/exitLinks.ts`) | the exit columns of a peer: interface name, UDP port, routing table, key pair | release, allocate, provision | called at the start of every converge; waits for `wg genkey` |
| converge chain (`wg/converge.ts`) | one promise chain for the whole process | converge of a server, teardown of a link | reconcile, plan, host |
| converge plan (`wg/plan.ts`, `lib/exitTopology.ts`, `db/fleet.ts`) | none: a function of one snapshot and one listing of the host | stops, sweep, start / reload / restart | configs, ruleset, routing |
| exit routing (`wg/exitRouting.ts`) | ip rules and policy tables of the host | drain, fill, static routes of the main table | last part of a converge; teardown; shutdown |
| configs (`wg/config.ts`) | none | rendering of interface and client configs | plan, peer API |
| host adapter (`wg/shell*.ts`, `wg/host.ts`) | the host itself | `wg-quick`, `wg syncconf`, `ip`, `nft`, `wg show`, key generation | kernel |
| firewall ruleset (`wg/firewall.ts`) | none: one nftables ruleset from one snapshot | generate, apply atomically | converge |
| policy (`api/policy.ts`, `db/policyGraph.ts`, `lib/grantInvariants.ts`, `lib/tagInvariants.ts`) | tags, tag assignments, grants | tag and grant writes, import of a whole policy | firewall |
| addressing (`wg/addressing.ts`, `lib/validation.ts`) | addresses of peers, advertised routes | allocate, check overlaps | peer API |
| traffic (`wg/traffic.ts`, `api/traffic.ts`) | last counters, buckets of minutes, hours and days | record, roll up, prune, reset | manager loop |
| manager (`wg/manager.ts`, `index.ts`) | the list of servers read at boot, the timer, the live status of peers | boot with a sweep, a tick every 30 s, stop | converge, host, traffic |
| auth (`api/auth.ts`, `api/peers.ts`) | sessions | login, logout, scopes of a request | every route |
| web app (`src/packages/app`) | none that counts | forms over the API | API |

### How they meet

A request handler validates its body against the rows, writes, and puts a converge of its server on
the chain; it answers when that converge has run. The chain runs one job at a time for the whole
fleet. A converge reconciles the exit links of its server, reads one snapshot of all rows and one
listing of the host, computes a plan, applies the plan's interface steps front to back, then the
nftables ruleset, then the policy routing of the whole fleet. The manager's loop puts converges on
the same chain when it finds an interface down.

An *exit node* is a peer with an interface of its own (`wgx0`, `wgx1`, ...), because WireGuard routes
0.0.0.0/0 to one peer per interface. Its clients are steered into it by an `ip rule` per client and a
policy table per exit node. So one exit node is five resources (name, port, table, key, device) whose
rows, device, rules and routes must move together, through steps that yield and commands that fail.

### What is hard

* **Interleavings.** bun:sqlite is synchronous, so a handler is atomic until it awaits a subprocess
  or the chain. That happens at four places: a POST waits for three `wg` commands between its checks
  and its insert; the reconcile waits for `wg genkey` between picking an allocation and writing it; a
  DELETE of an exit node waits for its teardown between its reads and its transaction; and every
  converge waits for its host commands, while requests change the rows below it.
* **Order.** A name or a port that one step frees is needed by a later one; a peer that changes its
  interface must leave the old one before it enters the new one; a device must be up before a route
  leads into it; the drain of a table must precede its handing on to another exit node.
* **Partial failure.** Any command may fail. A failed interface step skips the steps that follow but
  not the routing; a failed routing command ends the routing of all servers.
* **Stale residue.** ip rules outlive devices, routes do not. Interfaces outlive the process.
* **Liveness.** A job that rejects must not hold the chain; a DELETE must answer whatever its teardown
  does.

`PROJECT.json` lists every such place with its line under `hazards`.

### What makes each component correct

* rows and reconcile: no two peers share a name, port, table or key; an allocation stays reserved over
  the wait; a choice of exit node names a live exit node of the same server; the update of the reconcile breaks no UNIQUE
  column, and a reconcile that a failing command ends leaves nothing that the next one does not put right.
* chain and plan: no plan defeats itself; a peer is never on two interfaces; once the chain is empty and
  the last converges succeeded, interfaces, keys, ports and members are those of the rows; the chain
  drains and DELETEs complete, also past a job that rejects.
* routing: after a complete pass every client of a link is led to the exit node it chose and no rule
  with an effect leads anywhere else.
* manager: boot and shutdown leave no interface, rule or table behind, a crash at any point is
  repaired by the next boot, and a server that is down is brought up again.
* firewall and policy: a packet passes between two peers of a restricted server exactly when a grant
  allows it, and only the clients of a server's uplink reach the internet through it; a policy import is all or nothing.
* addressing: addresses are distinct and inside the server's range; advertised routes of different
  peers do not overlap.
* traffic: a byte is counted once, over counter resets, roll-ups and resets.
* auth: an expired session or a lower scope reaches no handler it should not.

## 2. The modules

### `ExitLinks.tla`: rows, handlers and reconcile

| TLA+ | code |
|---|---|
| `row` | the exit columns of `peersTable`: `isExitNode` (`role`), `exitPeerId` (`via`), `exitInterfaceName` (`name`), `exitListenPort`, `exitRouteTableId`, and `exitPrivateKey`/`exitPublicKey`, always written together (`key`) |
| `live`, `fresh` | ids with a row; ids that nanoid has not produced yet. An id is never used twice |
| `srvPort` | `serverPeers.wgListenPort` |
| `req` | a POST between its checks and its insert, a DELETE that waits for its teardown |
| `rec` | the running `reconcileExitLinks`: the rows it read (`snap`), the peers it has not reached (`todo`), the peer and the allocation it waits for a key for, its result |
| `Patch` | the whole of PATCH: merge of the body into the row (`Written`), `checkPeerInvariants` (`ChoiceAllowed`), `resolveExitListenPort` (`PortAllowed`), update |
| `PostCheck`, `PostInsert` | POST up to `wg genkey`, and from there on |
| `DeleteUnlinked`, `DeleteLinked`, `DeleteCommit`, `Remove` | DELETE without and with a teardown, and its transaction |
| `PatchServer` | PATCH of a server's port |
| `RecBegin` ... `RecReturn` | the loop of `reconcileExitLinks`: one action for each thing it does with a peer, with the wait for `wg genkey` between `RecAllocate` and what follows it: `RecWrite`, `RecThrow` (the update breaks UNIQUE) or `RecNoKey` (`wg genkey` or `wg pubkey` fails, and nothing catches it) |

Granularity. A handler is one step between two real yields. A reconcile that has not reached
`wg genkey` runs to its next wait without letting a request in; `LoopFree` says so. A request that
is refused changes nothing and is not a step. In this module a reconcile may start at any time, which
contains every schedule the chain allows.

Left open on purpose. Peers are reconciled in any order (the code goes by id, and ids are random), so
the model has every order. `InitialPort` and the request bodies are those the API accepts. The
UNIQUE columns matter in two places and are modelled there: `Collides` and `PostInsert`.

### `Converge.tla`: chain, plan, routing and host

It EXTENDS `ExitLinks` and is built from its actions: each of its steps is a handler, a step of the
reconcile, or a step that leaves the rows alone. So `ExitLinks` is a part of `Converge` and no independent
specification of it; that the invariants of the one hold in the other follows from that construction
(lemma `ConvergeRefines`) and is a means of the proofs, no result.

| TLA+ | code |
|---|---|
| `chain` | the promise chain of `queue`; its head is the job that runs |
| `conv` | the local variables of a running `converge`: what the reconcile returned, the snapshot (`fleet`), the stops and steps that are left, the servers and links the routing pass has not reached |
| `up` | the host's WireGuard devices: private key, port, peers. `Down` for none |
| `rules`, `dflt`, `main` | `ip rule from <client> lookup <table>`, the default route of a policy table, the device of a peer's /32 in the main table |
| `outcome` | `ConvergeResult.ok` of each server's last converge |
| `routed` | whether the last routing pass ran to its end |
| `Handle` | the handlers of `ExitLinks`, each with the job it queues |
| `Teardown`, `TeardownBlind`, `TeardownFail` | `tearDownExitLink` when all goes well, when the listing fails and shows nothing up, when the device cannot be deleted; each with the transaction of the DELETE that waits |
| `ConvergeBegin`, `ReconcileStep`, `ReconcileReject`, `ReconcileEnd` | the reconcile inside a converge, how it rejects (a UNIQUE column, or a key that cannot be generated), and the snapshot after it |
| `ListInterfaces`, `Plan` | `listInterfaces` and `planConverge` |
| `StopStep`, `StartStep`, `ReloadStep`, `RestartStep` | `runStep` on the host |
| `Drain`, `RouteMain`, `RouteTableOf` and their `Fail`s | `applyExitRouting` of `buildExitRouting` |
| `Fails` | a command fails because the host makes it, or by itself, at most `MaxFaults` times; the `wg genkey` of a reconcile is one of them |

Decisions worth knowing:

* The teardown's end and the DELETE's transaction are one step: the continuation of the handler runs
  before the first query of the next job resolves.
* Deleting a device drops the routes through it and no ip rule. Starting fails on a device that is up
  or a port another device listens on; routing into a device that is down fails.
* `wg syncconf` (`Synced`) may apply the key and port along with the peers or leave them alone:
  `wg/plan.ts:52` and `wg/peerIntake.ts:111` expect different things of it. Every property holds with both.
* The server's key never changes and is `None`.
* A restart keeps its place in the order as a stop followed by a start. The steps of the links are
  applied in any order after the server's own step; the code's order is by random id.
* Every handler that writes a row queues its converge in the same step (`Handle`). The one path of the code that does not, a
  peer write that names a tag twice, is outside this module, which has no tags: section 6.
* Flush and /32s of one server's main table are one step when they succeed, because nothing can be
  told apart in between; a failure inside them may leave any part of them done.
* Not part of the state: the nftables ruleset (one atomic command, its failure is logged and stops
  nothing), in-table routes other than the default and advertised routes (`Routing` has both), the sysctl warnings, the limit
  of 512 drained rules per table, tables outside the reserved band (there are none: the allocator is
  the only writer).
* `Init` is the state after a boot without exit nodes: each server's interface is up.

### `Addressing.tla`, `Policy.tla`: addresses, tags, grants, and the rows they are about

`Addressing` is pure: prefixes as numbers (`CidrContains`, `CidrsOverlap`), the address a peer gets
(`RequestedAddress`, `AllocatedAddress`), the advertised routes that are accepted (`RoutesAccepted`).
`Policy` has the rows and their handlers:

| TLA+ | code |
|---|---|
| `servers`, `srv`, `row`, `live`, `fresh` | `serverPeersTable` (range, own address, reserved addresses, `exitViaServer` offered or not) and `peersTable` (address, routes, `exitPeerId`, `exitViaServer`) |
| `tags`, `assigned`, `grants` | `peerTagsTable`, `peerTagAssignmentsTable`, `policyGrantsTable` in the order of `position` |
| `PostTag`, `PatchTag`, `DeleteTag`, `PutGrants`, `PutPolicy` | the handlers of `api/policy.ts`, each one transaction |
| `PostCheck`, `PostInsert`, `PatchPeer`, `DeletePeer`, `DeleteLinked`, `DeleteCommit` | the peer API, with the gap of POST (`wg genkey`, which may also fail: no row is written then) and the one of DELETE (teardown) |
| `ResolvePeerWrite` | `resolvePeerWrite`: address, `checkPeerInvariants`, `resolveAdvertisedRoutesFor` |
| `PatchServer`, `PostServer` | the server API, with the little it checks |
| `overtaken` | history: peers whose POST wrote what its check would refuse by then |

The roles of exit nodes are fixed by the id (`Gateway`), because changing a role is `ExitLinks`'s matter.
A body's fields come from menus given by the instance.

### `Routing.tla`, `Firewall.tla`: what is derived from the rows

No state: operators over rows `r` and the set `links` of exit nodes whose link is provisioned, over
which the properties quantify. `Routing` has the tables that a pass of `buildExitRouting` writes
(`MainTable`, `PolicyTable`), what they do to a packet (`Oifs`), and the AllowedIPs of the hub's
interfaces (`Recipients`). `Firewall` has the chains of `buildRuleset` as sequences of rules matched
in order (`BuildRuleset`, `Verdict`), the AllowedIPs of a client, and the exported document; and beside
them the policy as the comments of `wg/firewall.ts` state it, by peers and tags (`PolicyVerdict`). A sender's own server decides
whether its packet is forwarded; the masquerade is that of the one `postrouting` chain of the host, which has a line for
the uplink set of every server and asks for no interface (`Masquerades`).

A policy table is written over, not flushed, while its exit node has a client (section 6, 6).
`Leftovers` are the interfaces a route left in it may lead to; the ruleset is checked on packets that take them.

### `Ledger.tla`, `Traffic.tla`: statistics

`Ledger` is the abstract specification: a byte is counted at most once, and what is counted is in the
total of its peer, of its server and in the graph until a reset, a deletion or old age. `Traffic` is the
code: counters of WireGuard that begin again with their interface, a tick that asks interface after
interface and writes (`ShowServer`, `ShowLink`, `RecordRead`, `RecordWrite`), the rollup
(`RollupRead`, `RollupWrite`, `Prune`), with every `await` a point where requests, converges or a
crash come in. `Books` is the INSTANCE of `Ledger` under the refinement mapping, and `ImplementsLedger`
the property.

rx and tx are treated alike, so one counter stands for both. The clock is read at two points of a tick
and may advance only there and between ticks. A peer is never on two interfaces at once: that is
`PeerOnOneInterface` of `Converge`.

### `Manager.tla`: the life of the process

It EXTENDS `Converge`: the boot (`Start`, `BootList`, `Sweep`, `BootConverge`, `BootEnd`), the tick
(`TickBegin`, `ShowServer`, `ReviveServer`), `stop()` (`Stop`, `StopLook`, `StopSeen`, `Exit`), the death of
the process anywhere (`Crash`, `CrashAfterTeardown`, `ProcessEnds`), with the requests (`Serve`) and the chain
(`Run`) going on beside. `mgr.ahead` counts the jobs of the chain up to the one `await converge` waits for. A crash
loses chain, reconcile and requests; the host stays (supervisord restarts the process) or goes
with the container. A boot whose sweep rejects is `Dead`: it serves requests and never ticks. So is a manager that waits for a converge which
rejects (`Rejects`): `_start` and `refreshInfo` await it with no `try`, and so neither the loop nor its next timer is
reached. `Traffic` has the same end of a tick (`DeadTick`). The servers are
read in the first step of a boot, so a stop claims the interfaces of all of them (`Claimed`) from then on. A stop whose delete fails is `stuck`: the process stays and takes no second signal. Two history variables say what
nothing has repaired yet: `lost` are the servers whose interface went down beside the chain, and `blind` holds
while the last plan was made from a listing that failed. Every server exists from the start, and a `wg-quick` that is killed halfway is not modelled.

### The MC modules

The small instances: homes, initial ports and addresses, and the request bodies a run uses.
In the converge runs any peer may be marked as an exit node, and `e1` and `e2` may be chosen as one.

### The proof modules

`ExitLinks_proofs`, `Converge_proofs`, `Faultless_proofs` (converges that no command fails), `Policy_proofs` (with the lemmas of
`Addressing`), `Firewall_proofs` (`Firewall` and `Routing`), `Sums_proofs`, `Traffic_proofs`, `Manager_proofs`: section 5.
`Sums` holds the one operator on sums that `Ledger` and `Traffic` share.

## 3. The runs

Bounds: `MaxOps` API requests in a behaviour, `MaxFaults` commands that fail by themselves, `MaxEnds`
processes that die or are stopped, `MaxGrants` grants in a list, `MaxTime`, `MaxCarried` and `MaxEvents` in
`Traffic` (minutes, bytes of a peer, and restarts, moves, resets and crashes together). Two
handlers in `links`, `converge_faults` and `converge_teardown` and one in the other runs that may be
suspended in a POST or DELETE (a PATCH never is). Nothing else is cut: jobs, converges, reconciles, ticks and boots are not bounded. Except for
the three `links` runs, the configurations set `CHECK_DEADLOCK FALSE` because
the system does rest, with an empty chain and no request left.

| run | instance | result |
|---|---|---|
| `links` | 3 peers (one created during the run), 1 server, 3 names of which one belongs to a server, ports 1 and 2 to allocate and 2 and 5 to pin, 2 tables, 2 handlers, 5 requests of all kinds | `LinksTypeOK`, `ReservationHolds`, `LinksDistinct`, `ExistingChoicesValid` hold |
| `converge_sync` | 3 peers, 1 server, 3 names, ports and tables, 5 requests, no fault | `PeerOnOneInterface`, `PlansApply`, `RowsSettled`, `IdentityMatchesRows` hold |
| `converge_faults` | 3 peers, 2 servers (exit nodes on both), 2 handlers (two DELETEs may wait), 4 requests, 1 fault | `ConvergeTypeOK`, `LinksReleased`, `MembersMatchRows`, `SteeredToChoice`, `RoutesMatchRows` hold |
| `converge_live` | 2 peers (one created), 2 servers, pins, 3 requests, 1 fault | `ChainDrains`, `DeletesComplete` hold under `FairSpec` |
| `policy` | 2 servers (one created or moved, also into the range of the other), an exit node with a LAN, 2 other peers, 32 addresses, 2 tag names, lists of up to 3 grants, 4 requests, 1 POST in flight | the invariants of `Policy` and `Firewall` hold: `PolicyTypeOK`, `GrantsResolve`, `AssignmentsResolve`, `AddressesDistinct`, `RoutesDisjoint`, `RulesetMatchesPolicy`, `PacketsReachOwner`, `HintCoversGrants`, `ExportImportKeepsPolicy` |
| `traffic` | 1 server, 1 peer, 3 bytes, 3 minutes, hours and days of 2, 2 events | `TrafficTypeOK`, `NeverOvercounts`, `EveryByteInOneBucket`, `ImplementsLedger` hold, and `BaselineCatchesUp` under `FairSpec` |
| `manager` | 1 server, 2 exit nodes marked before links existed that compete for one name, a third peer, 1 request (unmark, choose or delete), 1 fault, 1 crash or stop | `ManagerTypeOK`, `RecoveredMatchesRows`, `RecoveredIdentity`, `StopLeavesNothing` hold, and `ServerComesBack` under `ManagerFairSpec` |
| `links_throws` | pins | `NeverCollides` is violated |
| `links_dangling` | choices and a POST | `ExitChoiceValid` is violated |
| `converge_function` | 5 requests, no fault | `RulesAreAFunctionOfRows` is violated |
| `converge_clear` | ports may be cleared, no fault | `PlansApply` is violated |
| `converge_teardown` | 2 exit nodes on 2 servers, 2 handlers, 4 requests, no fault | `TeardownsTakeTheirOwn` is violated |

Why the bounds are enough for the questions. Five requests mark two exit nodes, choose, unmark and
delete in any order; two exit nodes and two free ports make every contest for a port, a name or a table
possible, and a pin that is taken makes an allocation fail; the fault falls on every command of
a converge, a teardown or a pass, and what a second one does to the repair is left to the proofs, which bound neither. In `policy` the fourth request still meets a POST or a DELETE that waits,
after a change of the policy by two others, and the packets looked at go to every hub, every peer, every advertised LAN
and outside, as tcp to a port inside and outside the granted ranges and as icmp, for every set of
provisioned links. In `traffic` a cutoff of the rollup falls in the middle of an hour, and two events put a
restart, a move or a reset around a crash. One crash in `manager` falls on every step of a boot that
provisions links, of a converge and of a tick; it is followed by a whole boot, beside which a request
is served. Each property of a passing run has a mutant of the code that breaks it
in that very run (`PROJECT.json`, `mutants`): a dropped drain, a missing sweep, links before servers,
a plan that ignores its stops, a DELETE that keeps its clients, and so on. `SYMMETRY` is not used: peers are told apart
by their home and by the requests that name them, and `converge_live` checks liveness, where it is not sound.

Properties that carry a condition which belongs to them: `PlansApply`, `RowsSettled` and `PeerOnOneInterface`
are checked with no request that pins or clears a port: with one, `converge_clear` shows the first fail, a port on a
plain row (section 6) the second, and the third fails because the reconcile gives a link whose port was cleared another
name, while the old name may go to another exit node whose own server has not seen the change. The name,
the table and the key of a plain row need no such condition: `LinksReleased`.
`PlansApply` and `IdentityMatchesRows` are checked with one server: with two, the
teardown of `converge_teardown` takes down a link whose server has no converge left to run. The half of `RowsSettled` about
exit nodes is checked with names enough: one pass of the
reconcile may reach an exit node before the release that frees what it needs, and with two servers the DELETE that
frees it may belong to the other one; the code then leaves
it without a link until the next converge of its server and reports it. `RowsAlwaysSettle` needs no bound on the
servers, only names, ports and tables for every peer. `AssignmentsResolve` and `RoutesDisjoint`
except the peers whose POST was overtaken. `RulesetMatchesPolicy` excepts one verdict, the masquerade of a
packet whose source address is also that of an uplink client on another server (`AddressOfAnotherClient`, section 6). `PacketsReachOwner` is about rows whose prefixes do not collide (the
range of a server is written unchecked) and tables without routes of an earlier pass.
`RecoveredIdentity` is stated without faults: a listing that fails at boot sweeps nothing, and an interface may then keep a
former key. `StopLeavesNothing` is about a stop that nothing runs beside: a tick under way
brings interfaces up again. It and `RecoveredMatchesRows` except hosts whose last plan was `blind`: section 6. `BaselineCatchesUp` is about servers that are up: while a server's own interface is down
its links are not sampled. It and `ServerComesBack` except a manager that is dead: nobody samples or revives from then on, section 6.

## 4. Fairness

`FairSpec` has weak fairness on `RunJob` as a whole and on the insert of each suspended POST.

* `RunJob`: the chain is a promise chain, so when a job is at its head the event loop will run its next
  continuation. A step of a job that waits for a command assumes that the command ends. `execAsync`
  (`wg/shell.real.ts`) has no timeout, so that is an assumption about the host and not a fact of the
  code; a command that never returns holds the whole chain, and nothing here claims otherwise.
* `PostInsert`: the same for `wg genkey`.
* `Traffic` has weak fairness on `Tick`: every command of a tick comes back, and the timer of the
  next one fires, unless a converge that rejects has ended the tick (`DeadTick`).
* `ManagerFairSpec` has it on `Boot` (supervisord restarts a process that died), on `Loop` and on
  `Run`, with the same assumption about commands. None on a stop, a crash or a loss.
* No fairness on requests: nobody has to send one. The DELETE needs none either, because its
  transaction belongs to the teardown job.

## 5. The proofs

All theorems hold for every set of peers, servers, handlers, bands and request bodies that satisfies
`ConstantsOK`, and for every bound.

**`ExitLinks_proofs`.** `TypeCorrect` proves `LinksTypeOK`. `InvCorrect` proves the inductive
invariant `LinksInv`, and from it `ReservationsHold` and `LinksAreDistinct`. Distinctness alone is not
inductive: `RecWrite` writes an allocation that was computed before a wait, so the invariant has to
say that the reserved name and table are still free (`ReservationHolds`); a port may not be, which is
why `RecWrite` is guarded by `~Collides`, the UNIQUE columns of the table. Keys are distinct because
they are generated in order (`KeysBelow`). A row that waits to be inserted must not carry a link
(`InsertsUnlinked`), or a POST could bring in a second holder.

`NeverCollidesWithoutPins` proves, for an API on which no port is pinned, that the update of the reconcile
breaks no UNIQUE column, whatever other handlers write during its wait. The invariant is `NoPinInv`: only the
reconcile writes ports, together with the rest of a link, so no port can appear during the wait. Run
`links_throws` shows that a pin is what breaks it. It is not what the comment of `reconcileExitLinks` claims
("Never throws"): a `wg genkey` or `wg pubkey` that fails makes it throw with no pin anywhere (`RecNoKey`).

`ExistingChoicesStayValid` proves that the choice of exit node of a peer that was there at the start
never dangles, through every interleaving of PATCHes, DELETEs in two steps and inserts of others
(`ChoiceInv`). Run `links_dangling` shows that a POST is exactly what breaks it for new peers.

**`Converge_proofs`.** The steps of `Converge` are made of actions of `ExitLinks` (lemma `ConvergeRefines`), so the
theorems above hold in the whole system, whatever the host does: `ConvergeKeepsLinksDistinct`,
`ConvergeKeepsChoices`. `ConvergeTypeCorrect` proves `ConvergeTypeOK`, whose part `WorkOK` says how
the actors fit together: a reconcile runs only inside a converge, a converge only at the head of the
chain, a plan only from its own converge's snapshot. It is its own inductive invariant.

`MembersAlwaysMatch` and `RoutesAlwaysMatch` prove that the host is what the rows say once the work is done and
went through, with any number of servers, requests, suspended handlers and faults. The invariant is `HostInv`:

* A server is `Clean` when its last converge succeeded, none is running and none is queued. `CleanInv` says
  that the interfaces of a clean server are those of its *current* rows. It survives requests, because every handler
  of the module queues the converge of its server in the step that writes the row (`Handle`; but for a tag named twice, section 6, so do those of the code) (`HomesInv`: a peer's row is its own server's matter).
* `SnapInv` carries this over a converge: a snapshot agrees with the rows for every server that has no
  converge pending, so what a plan settles is true of the rows or will be settled again.
* `PlanInv` speaks of every partly applied plan. What is not waiting to be stopped or to be applied is already
  as the snapshot wants it, for as long as no step has failed (`conv.ok`). `StepsInv` says what a plan consists
  of, and that stops are left only while all steps of the links are. One case stays exempt: `Blind`, a plan made from a listing
  that failed, whose start of the server's own interface is bound to fail.
* `RouteInv` and `QuietInv` do the same for the rules and tables of a pass. `NamesInv` is why a
  stop that is planned for one name never meets another peer's new link.
* `DevicesInv`: servers' interfaces stay up, and a default route leads to a device that is up.

The attempt to prove `MembersMatchRows` as it stood failed at the teardown, and TLC confirmed that it was false with two
handlers: section 6, 4. It is now stated for what the code does guarantee: a link that is up, or any link if
the last routing pass went through, has the peers of its row.

`ClientsAlwaysSteered` proves `SteeredToChoice`. Rules outlive links, so why is a stale rule without effect? Because a table
id never comes back with another name: both are handed out as the lowest free number, to the same links,
so the n-th name always goes with the n-th table. `ChosenInv` says so with a function `Table` that exists for
every pair of bands (`TableExists`, by counting the elements below) and does not change in a behaviour. A default
route of a table therefore belongs to the link whose name it is, and the drain of that link's pass has
removed whatever an earlier holder's clients had left.

`PeersOnOneInterface` proves `PeerOnOneInterface` for any number of servers under `NoPorts`, the condition of the run: no
request pins or clears a port. A peer moves between the interface of its server and a link, and the plan that moves
it is applied one command at a time, so the property is about every state inside a plan. `OneInv` follows
what is on an interface: a peer that a link shows is the one whose row has the name, or the name is on its way to be stopped
(`ShowsOwner`, with `Leaving` for what the reconcile released, the snapshot carries or the plan stops), the same of the snapshot
(`ListsOwner`), and a plan that puts a peer back on its server's interface stops the link first (`StopsFirst`).
Released names are lost when a reconcile throws; without a failing command it does not, as `WholeInv` of `ExitLinks_proofs` says, which also says why
a live link keeps its name: a row has a whole link or none of it (`WholeLinks`).

`LinksAlwaysReleased` proves `LinksReleased`, with no condition. A reconcile reads the roles once and writes after waits, so
a peer unmarked in between still gets its link. `ReleaseInv` says that such a row never belongs to a clean server, and that a
converge which runs with none of its server waiting behind it still has the row ahead of it. The second half needs
`FreshInv`: what the loop has read and not reached is what the row says, unless a request came, and
then its converge waits. `BareInv` adds that a row without a name has neither table nor key.

**`Faultless_proofs`.** `PlansAlwaysApply` proves `PlansApply`: as long as no command fails by itself, none fails because of a
step before it. A start fails if its interface is up or its port is taken, a stop or a reload if nothing is up, a route if its device is down;
so the invariant `SmoothInv` adds to "nothing has failed" (`Smooth`) why the steps that are left cannot either. `LockedInv`: interfaces
that are up have the ports that go with their names. As with the tables, names and ports are handed out in lockstep (`PortsInv`, from the
lemmas on the n-th members of two sets that `TableExists` uses too), so two links with different names never
want one port, and what a restart of one link frees is not what a start of another needs. `StepsFit`: each remaining step finds its
interface as it expects it, and no interface has two. The invariant of `PeersOnOneInterface` is part of it, because a plan
that starts a link first stops what is in its way.

`IdentityAlwaysMatches` proves `IdentityMatchesRows` as long as no command has failed. A link that is released and
given out again before any plan takes the name of an interface that is up with the former key, and a reload would keep
that key. `KeyInv` says that such an interface is always on the list of changed links the plan restarts (`Rekeyed`), from the
write of the row to the restart; every other interface that is up under a name some row has runs with the key of that row.

`RowsAlwaysSettle` proves `RowsSettled` for any number of servers and faults. `NeedInv`, like `ReleaseInv` above: an exit
node without a link never belongs to a clean server, and a converge with none of its server waiting behind it still
has the node ahead of it, on its list or in the wait for its key. `AlwaysRoom` counts: what the other peers hold leaves a name, a port and
a table, so the allocation never fails.

The conditions are named and are those of the runs: `NoPorts` (no request pins or clears a port), `PortsApart` (no server listens in the
allocator's band, which the code does not enforce: section 6), `Alone` (one server) for the first two and `Ample` for the third.
Each is needed: `converge_clear` violates `PlansApply` with cleared ports, `converge_teardown` shows what a second server
does to it.

**`Policy_proofs`.** First the lemmas of `Addressing`. The overlap test, which only asks whether one prefix
holds the network address of the other, says exactly whether two blocks share an address (`OverlapIsShared`), and
the routes that a write stores share none with what it was compared with (`ResolvedRoutesDisjoint`). An address that is
asked for or allocated is in the range and free (`RequestedAddressFree`, `AllocatedAddressFree`).

`PolicySafe` proves, for every set of requests, the conjunction of the five row
invariants that run `policy` checks. Together they are inductive, because `PolicyTypeOK` also says what a
POST carries over its wait (`PostOK`). `GrantsAlwaysResolve` rests on both cascades clearing sources
and destinations of the lists of all servers, `AddressesAlwaysDistinct` on the UNIQUE columns, and
`RoutesAlwaysDisjoint` on the lemmas about prefixes and, for a POST that was overtaken, on the history
variable that excepts it.

**`Firewall_proofs`.** `RulesetAlwaysMatches` proves that the ruleset, matched first to last, gives every packet the
verdict of the policy, for all rows that can be reached, any number of servers, peers, tags, routes and
grants, any set of provisioned links and any leftover routes. Ranges may overlap; the packets that the set of another server
masquerades are then excepted, and `AnotherSet` proves that these are all that differ. `RowsInv` adds to `PolicyInv` what the projection
relies on: finitely many rows, homes that exist, tag ids that are used once, exits that were nodes of the same server, and
addresses inside the address space. The proof goes chain by chain: what each rule of a chain matches, that
the first grant that matches is the first one of the policy (`Decides`, `HookKinds`), and that what no grant
covers falls to the default. `HintAlwaysCovers` proves `HintCoversGrants`; the attempt
showed that a destination by tag or peer is covered by the range and the hub's address and not by the grant's own
clause, so the property is stated for the destinations that are addresses.

`PacketsAlwaysReachOwner` proves `PacketsReachOwner`: an owned address lies in the owner's range or in a LAN of it and in
no other prefix (`OwnedAddress`), so the longest match is the owner's route, in the main table and in the
table of an exit node (`Way`, `Gate`, `Leads`), and cryptokey routing hands the packet to
the peer behind it. The proof needed one more hypothesis than the run: a server whose range is the whole address
space would hide the default route. `PrefixesApart` says so now.

**`Sums_proofs`.** Sums over finite sets are a fold, which is recursive, and induction is out of the provers' reach;
the lemmas are proved by a smallest counterexample instead: if the sum of a set depended on
the order in which its elements are taken, some smallest set would show it.

**`Traffic_proofs`.** `BytesNeverOvercounted` proves `NeverOvercounts` for any number of peers and servers. The
property alone is not inductive, because a tick adds differences between samples and baselines it read
earlier. `TrafficInv` relates both to the life of the counter: what was counted, together with what the samples of
the tick will still add, is never beyond what the peer had carried when its counter last began again,
plus a reading of this life (`Mark`). A restart or a move only raises that base.

`BytesStayInOneBucket` proves `EveryByteInOneBucket`. Its invariant is about one day of one peer (`DayKept`): the buckets of all
three resolutions that lie in the day hold what the minutes of the day were counted with, until the day is pruned. The rollup
moves bytes inside a day (`SumOfGroups`), also when its cutoff falls in the middle of one, and between its
reading and its writing nothing else fills the buckets it deletes (`GraphInv`: `RollupOrder`, `Aligned`).
`StatisticsAreTheLedger` proves the refinement `ImplementsLedger` from both, step by step: a record is a count, a
prune is a step of old age, a rollup and everything on the host is a stutter. `TrafficTyped` proves `TrafficTypeOK`.

**`Manager_proofs`.** `ManagerKeepsLinksDistinct`: every step of the manager is a step of `ExitLinks` or the end of a
process, which keeps the rows; so the distinctness of links survives any number of deaths and boots. `ManagerTyped`
proves `ManagerTypeOK`. Its invariant `ManagerShape` adds what the manager knows of the chain beside it:
whatever it awaits is still in the chain, at the place it counts (`AwaitedOn`), and a process that is not there has no work.

`BootRecovers` proves `RecoveredMatchesRows`: however many processes died or were stopped before, and wherever,
a boot that has come to its end and a chain that has nothing left leave the host of the rows. `HostInv` does not hold here,
because boot, tick and stop act beside the chain. Its weaker form `BootedHost` holds of every server from the moment the
manager has queued its converge (`Booted`), for the plans made since then (`Sound`). `ManagerKinds` reduces
the actions of the manager to three kinds: what acts `Beside` the chain only takes interfaces down, and of a booted
server none that is not recorded as lost; what `Ended` booted nobody; what `Worked` is a step of `Converge`. So
the proof cites the step lemmas of `Converge_proofs` for the third, which are stated without `HostInv` for that purpose.

`StopLeaves` proves `StopLeavesNothing`: `StopHolds` says that between the signal and the exit what is up is still on the
list of claimed interfaces and that every table a row names is still to be drained; after the exit `DoneHolds` remains. That
the list is complete at the signal is `AllSwept` of `BootedHost` together with the rows (`StopClaims`).

The attempt to prove both failed at a plan made from a failed listing, and TLC confirmed the case with two faults
(section 6, `blind`). They are now stated without it.

The constants' assumptions are those of the schemas and of the kernel. `ConstantsOK` and `RequestsOK`: ids, bands and bodies have
their types. `InterfacesApart`, `InterfacesOK`: an interface has one owner (`interfaceName` is UNIQUE,
`ServerOrdinal` are the names that servers hold, `lo` and the uplink are nobody's). `AddressesOK`: addresses and prefixes are within the
address space, and no advertised route contains the public host `Internet` (a default route is refused by
`resolveAdvertisedRoutes`). `WindowsOK`: a day is a whole number of hours, and day buckets outlive what is consolidated
into them; the windows of `wg/traffic.ts` are 1, 30 and 400 days.
`Peer` is finite in `Traffic`, where its buckets are summed.

## 6. Disagreements

Found while modelling. The first five are runs of their own, with the quotation in `PROJECT.json`.

1. *The reconcile may throw* (`links_throws`): a port pinned during `wg genkey` collides with the
   allocation, and the update violates UNIQUE. The converge rejects. `wg/exitLinks.ts:142`: "Never throws". A `wg genkey` or `wg pubkey` that fails there (line 171)
   rejects it as well, with no pin: nothing catches it. That half needs no run; it is a fault of every run with faults (`RecNoKey`).
2. *A choice may dangle* (`links_dangling`): POST checks `exitPeerId`, waits, and inserts it unchecked.
3. *The rules are not a function of the rows* (`converge_function`): an exit node that is unmarked and
   deleted before its converge leaves its clients' ip rules behind for good, because no reconcile and no
   teardown names its table. They lead to no exit node until the table id is handed out again, and the next
   holder's pass drains them: `SteeredToChoice` holds. It is about the default route. When other routes were left in
   the table (its range or LAN routes, `wg/exitRouting.ts:175-181`), the rule still leads the client's packets for those prefixes.
4. *A teardown may take down another exit node's link* (`converge_teardown`): DELETE hands its teardown the name
   and the table it read before the teardown waits on the chain. By its turn the link may be released (another
   DELETE of the same peer has committed, or a reconcile has found the peer unmarked) and its name given to another exit node,
   even of another server. That interface is stopped and its table drained, and no converge of its server
   follows. `tearDownExitLink` is written for "the row describing it", which "is about to be deleted".
5. *A plan may defeat itself* (`converge_clear`): a port freed by a restart is needed by a start before
   it, and the next plan is the same.

6. *Routes stay in a policy table* (no run of its own; `Leftovers` in `Routing`): `wg/exitRouting.ts:119-122`
   says that "every table is drained before it is repopulated, so the applied state is a function of the db
   alone". `drainRules` deletes the rules; the routes of the table are flushed only when the exit node has
   no client left (line 165), otherwise they are written over one prefix at a time (175-185). A route of an
   advertisement that was withdrawn, or of a former range, therefore stays in the table of an exit node that
   keeps a client, and leads its clients' packets for that prefix to an interface where nobody owns
   it any more, past the exit node or past a wider LAN advertised since. It opens no path: `RulesetMatchesPolicy`
   is checked with such packets.

Seen in the code, not checked, because a property would only restate one line:

* *A rejected converge ends the manager's work for good.* `_start` and `refreshInfo` await `converge` with no `try`
  (`wg/manager.ts:36`, `55`), and `start` and the timer drop the promise. A reconcile that throws (1.) in one of these converges
  therefore ends `_start` before `loop()` (line 40), or `loop` before `setTimeout` (line 110): no server is revived, no status
  and no traffic is read until the process is started again. The result `{ ok: false }` is handled, the rejection is not. Where the
  runtime ends a process on an unhandled rejection, that is the `Crash` of `Manager` and the next boot follows; where it
  does not, it is `Dead`. Both are modelled.
* *The masquerade is host-wide.* `wg/firewall.ts:269-271` says that it is "scoped to the selected clients", which gives the
  internet "to exactly the peers that asked for it and to nobody else", and 281-285 builds the absence of an egress guard on that. The set of a server is matched on `ip saddr`
  alone (273, 295-297), and the ranges of two servers may overlap. A peer that has the address of an uplink client of another server,
  and never chose an uplink, is then masqueraded too. `RulesetMatchesPolicy` excepts exactly that case, which the requests of run
  `policy` reach.
* A deleted client may keep its ip rule: the routing pass stops at the first command that fails
  (`wg/shell.real.ts:129`), and a route into a device that a failed step left down does. `wg/converge.ts:57` says
  that "a peer that was just deleted must lose its grants and its `ip rule` whether or not its server's interface came
  up". The next pass that goes through repairs it, and `SteeredToChoice` holds there.
* A server PATCH may take the port of a link: `checkServerInvariants` compares server ports only
  (`lib/serverInvariants.ts:62-64`).
* A pin that arrives during `wg genkey` is overwritten by the allocation (`wg/exitLinks.ts:176`), though
  `allocateExitLink` says that a pin wins (`wg/exitLinks.ts:77-79`).
* A peer that is no exit node may be given a port, and no release clears it (`db/schema.ts:277`).
* The answer of DELETE lists the clients it read before the teardown (`api/serversPeers.ts:207-211`);
  a client that chose the exit node meanwhile is cleared and not listed.
* A port pinned on a live link is applied by a reload (`wg/peerIntake.ts:111-113`); `wg/plan.ts:52` says a
  reload cannot apply it.
* A restart is planned once, by the converge whose reconcile changed the link. When a step before
  it fails, the next converge only reloads. `IdentityMatchesRows` is checked without faults, and
  `MembersMatchRows` with them.
* POST of a peer checks its routes, waits for `wg genkey`, and inserts them unchecked: two peers may then advertise
  one prefix, though `wg/config.ts:68` says that "api-level overlap validation guarantees no two peers claim the same
  prefix". `RoutesDisjoint` excepts such peers by the history variable `overtaken`.
* A peer posted with tags while they are deleted or replaced by an import gets assignments to tags that are
  gone, and is then not governed at all, hence unrestricted (`wg/firewall.ts:12`).
* A tag named twice by a peer write breaks UNIQUE: the answer is 500, the row is written, no converge is queued;
  `lib/peerInvariants.ts:77-78` calls the database "perfectly happy to accept" it.
* A PATCH of a server's range or address is compared with no peer, no route and no other server, and the
  range is stored as typed. Peers may be left outside the range, and ranges may overlap.
* Spelling: a hub address written with its prefix is not in the set of taken addresses
  (`wg/peerIntake.ts:67-72`), so a peer may be given it; a peer address with a prefix is another string than
  without one and passes UNIQUE; a grant's cidr is not aligned, and octets above 255 pass the regular expression
  though nft refuses them; a route of a peer is left out of its own AllowedIPs by equality of strings
  (`db/policyGraph.ts:163-166`).
* `wg/firewall.ts:45` says that `any` does not match internet-bound traffic; a grant to `any` has no
  destination clause in the forward chain, so it does. `PolicyVerdict` follows the code.
* An exit client's table has the routes of its own server only: its packets to peers of another server of the host
  go to its exit node.
* Boot and `stop()` act beside the chain. A device that a converge deletes between the boot's listing and its sweep
  rejects `_start` and there is no loop (as does a converge that rejects, above); a device that cannot be deleted makes `stop()` reject, and the process stays
  and ignores further signals; a tick under way at the stop brings interfaces up again. A listing that
  fails at boot sweeps nothing, so an interface may keep a former key.
* A converge whose listing fails sees nothing up. When its server's interface happens to be down its plan goes through, and the
  converge succeeds, but a link that no row describes any more was not swept: it stays up, through a stop as well, until a later
  converge lists it. While the server is up the plan fails instead, because it starts what is up.
* The tick watches the interfaces of servers only: a link that goes down is not brought back, and a server
  created after the boot is not watched or sampled before the next one.
* A tick that read before a reset of the API and writes after it adds bytes carried before the reset. No byte
  is counted twice by that.

## 7. Limits

Only model-checked:

* liveness (`ChainDrains`, `DeletesComplete`, `BaselineCatchesUp`, `ServerComesBack`), which TLAPS cannot do with
  fairness and ENABLED;
* `RecoveredIdentity` of `Manager`, which is `IdentityMatchesRows` after a boot: `KeyInv` is an invariant of the chain alone, and
  boot, tick and stop act beside it;
* `ExportImportKeepsPolicy`: the imported list is a `SelectSeq` of the exported one, a recursive definition that the
  provers cannot unfold.

Not modelled:

* auth (`api/auth.ts`): login, logout and expiry are one row each, written by one synchronous handler, and the scopes
  are guards of routes; there is nothing in them that several steps could break.
* The web app and the test adapters (no state of the system), migrations, the text of client configs except for
  their AllowedIPs, DNS, display names, logging, the sysctl warnings, the probing of what the host can do.
* There is no operation that deletes a server. In `Manager` every server exists from the start. In `Policy` a
  second DELETE of a peer whose first one waits is left out: it deletes nothing that the first does not.
* Packets carry the address of the peer that sends them, and addresses are numbers below 32: spelling is
  section 6's.

## 8. The plan

Done: the links and the chain, the manager, policy, routing and firewall, addressing, traffic, and the theorems of
section 5. Every safety property that a run checks is proved, except for the two of section 7. What is left:

1. `RecoveredIdentity`: the weaker form of `KeyInv` that holds beside boot, tick and stop, as `BootedHost` is one of `HostInv`.
2. `PlansApply` for several servers, as far as it goes: a teardown for every link but those that
   `TeardownsTakeTheirOwn` (section 6, 4) loses.
