------------------------------ MODULE Manager ------------------------------
(***************************************************************************)
(* The wireguard manager (wg/manager.ts) and the life of the process       *)
(* (index.ts): a boot that first deletes whatever a former process left up *)
(* and then converges every server, a tick that brings back a server whose *)
(* interface is gone, a stop on SIGTERM, and the death of the process at   *)
(* any point of all that, after which supervisord starts it again.         *)
(*                                                                         *)
(* The process loses the chain and every request in flight; the database   *)
(* and, as a rule, the host keep what they have.  Requests are served      *)
(* from the moment the boot begins, and the boot's sweep and the stop act  *)
(* on the host beside the chain, not on it.                                *)
(***************************************************************************)
EXTENDS Converge

CONSTANTS
  Marked,   \* exit nodes that predate the link columns: the first boot provisions them
  MaxEnds   \* bound: processes that die or are stopped

ASSUME BootOK == Marked \subseteq InitialPeer /\ MaxEnds \in Nat

VARIABLES
  mgr,     \* _start and the loop after it
  stp,     \* stop()
  lost,    \* servers whose interface something else deleted and nothing started since
  blind,   \* the last plan was made from a listing that failed
  ends     \* processes that died or were told to stop

managerVars == <<vars, mgr, stp, lost, blind, ends>>

\* ahead counts the jobs of the chain up to the one the manager waits for.
Off == [pc |-> "off", todo |-> {}, sweep |-> {}, ahead |-> 0]
NotStopping == [pc |-> "no", todo |-> {}, seen |-> None, tables |-> {}, alone |-> FALSE]

Alive == mgr.pc # "off"
Waiting == mgr.ahead > 0
BetweenTicks == mgr.pc = "loop" /\ mgr.todo = {} /\ ~Waiting

(***************************************************************************)
(* _start.                                                                 *)
(***************************************************************************)
Start ==
  /\ mgr = Off
  /\ mgr' = [Off EXCEPT !.pc = "list"]
  /\ stp' = NotStopping
  /\ UNCHANGED <<vars, lost, blind, ends>>

SweepAndConverge(up_) == mgr' = [mgr EXCEPT !.pc = "start", !.sweep = up_, !.todo = Server]

\* Mutant: whatever survived is kept and reloaded.
BootList_NoSweep ==
  /\ mgr.pc = "list"
  /\ SweepAndConverge({})
  /\ UNCHANGED <<vars, stp, lost, blind, ends>>

\* A listing that fails shows nothing up, so nothing is swept.
BootList ==
  /\ mgr.pc = "list"
  /\ \/ SweepAndConverge({i \in Iface : IsUp(i)}) /\ UNCHANGED vars
     \/ SweepAndConverge({}) /\ Fails(TRUE)
        /\ UNCHANGED <<linkVars, chain, conv, host, outcome, routed>>
  /\ UNCHANGED <<stp, lost, blind, ends>>

\* _start or loop has ended before it set the timer of the next tick: nothing catches what they
\* await.  The process goes on serving requests and never ticks again.
Dead == [Off EXCEPT !.pc = "dead"]

\* A device that cannot be deleted, or that a converge deleted meanwhile, rejects _start.
Sweep(i) ==
  /\ mgr.pc = "start" /\ i \in mgr.sweep
  /\ \/ /\ IsUp(i) /\ Delete(i)
        /\ mgr' = [mgr EXCEPT !.sweep = @ \ {i}]
        /\ UNCHANGED faults
     \/ /\ Fails(IsUp(i))
        /\ mgr' = Dead
        /\ UNCHANGED <<up, dflt, main>>
  /\ UNCHANGED <<linkVars, chain, conv, rules, outcome, routed, stp, lost, blind, ends>>

\* Mutant: the wait begins before the job is on the chain.
AwaitConverge_NotQueued(s) ==
  /\ mgr' = [mgr EXCEPT !.todo = @ \ {s}, !.ahead = Len(chain) + 1]
  /\ UNCHANGED <<linkVars, chain, conv, host, outcome, routed>>

\* await converge(server.id).  A job that fails answers and one that rejects ends the manager: Run.
AwaitConverge(s) ==
  /\ Enqueue(ConvergeJob(s))
  /\ mgr' = [mgr EXCEPT !.todo = @ \ {s}, !.ahead = Len(chain) + 1]
  /\ UNCHANGED <<linkVars, conv, host, outcome, routed>>

\* Mutant: the first converge does not wait for the sweep.
BootConverge_DuringSweep(s) ==
  /\ mgr.pc = "start" /\ ~Waiting /\ s \in mgr.todo
  /\ AwaitConverge(s)
  /\ UNCHANGED <<faults, stp, lost, blind, ends>>

BootConverge(s) ==
  /\ mgr.pc = "start" /\ mgr.sweep = {} /\ ~Waiting /\ s \in mgr.todo
  /\ AwaitConverge(s)
  /\ UNCHANGED <<faults, stp, lost, blind, ends>>

BootEnd ==
  /\ mgr.pc = "start" /\ mgr.sweep = {} /\ mgr.todo = {} /\ ~Waiting
  /\ mgr' = [mgr EXCEPT !.pc = "loop", !.todo = Server]
  /\ UNCHANGED <<vars, stp, lost, blind, ends>>

(***************************************************************************)
(* loop and refreshInfo (what they do with the counters is module          *)
(* Traffic).  The interfaces of exit links are not watched.                *)
(***************************************************************************)
TickBegin ==
  /\ BetweenTicks
  /\ mgr' = [mgr EXCEPT !.todo = Server]
  /\ UNCHANGED <<vars, stp, lost, blind, ends>>

ShowServer(s) ==
  /\ mgr.pc = "loop" /\ ~Waiting /\ s \in mgr.todo /\ IsUp(s)
  /\ mgr' = [mgr EXCEPT !.todo = @ \ {s}]
  /\ UNCHANGED <<vars, stp, lost, blind, ends>>

\* Mutant: a server that is down is skipped until somebody changes it.
ReviveServer_Skips(s) ==
  /\ mgr.pc = "loop" /\ ~Waiting /\ s \in mgr.todo /\ ~IsUp(s)
  /\ mgr' = [mgr EXCEPT !.todo = @ \ {s}]
  /\ UNCHANGED <<vars, stp, lost, blind, ends>>

\* An interface that is down, or whose wg show fails, gets a converge.
ReviveServer(s) ==
  /\ mgr.pc = "loop" /\ ~Waiting /\ s \in mgr.todo
  /\ AwaitConverge(s)
  /\ IF IsUp(s) THEN Fails(TRUE) ELSE UNCHANGED faults
  /\ stp' = [stp EXCEPT !.alone = FALSE]
  /\ UNCHANGED <<lost, blind, ends>>

(***************************************************************************)
(* stop(): the interfaces of the cached servers and of the links that rows *)
(* claim, then the policy routes.  What runs meanwhile runs on.            *)
(***************************************************************************)
InFlight == chain # <<>> \/ \E h \in Handler : req[h].pc # "idle"

ClaimedLinks == {p \in live : row[p].name # None /\ row[p].table # None}

\* Mutant: the links are forgotten.
Claimed_ServersOnly == Server
Claimed == Server \cup {row[p].name : p \in ClaimedLinks}

\* The timer of the next tick is cleared; a tick or a boot that is under way is not stopped.
Stop ==
  /\ Alive /\ stp.pc = "no" /\ ends < MaxEnds /\ ends' = ends + 1
  /\ mgr' = IF BetweenTicks THEN [mgr EXCEPT !.pc = "halted"] ELSE mgr
  /\ stp' = [pc |-> "stop", todo |-> Claimed, seen |-> None, tables |-> {row[p].table : p \in ClaimedLinks},
             alone |-> BetweenTicks /\ ~InFlight /\ Settled /\ ~blind]
  /\ UNCHANGED <<vars, lost, blind>>

StopLook(i) ==
  /\ stp.pc = "stop" /\ stp.seen = None /\ i \in stp.todo
  /\ \/ stp' = [stp EXCEPT !.todo = @ \ {i}, !.seen = IF IsUp(i) THEN i ELSE None] /\ UNCHANGED vars
     \/ /\ IsUp(i) /\ Fails(TRUE)
        /\ stp' = [stp EXCEPT !.todo = @ \ {i}, !.alone = FALSE]
        /\ UNCHANGED <<linkVars, chain, conv, host, outcome, routed>>
  /\ UNCHANGED <<mgr, lost, blind, ends>>

\* A device that cannot be deleted rejects stop(): the process never exits, and takes no second signal.
StopSeen ==
  /\ stp.pc = "stop" /\ stp.seen # None
  /\ \/ /\ IsUp(stp.seen) /\ Delete(stp.seen)
        /\ stp' = [stp EXCEPT !.seen = None]
        /\ UNCHANGED faults
     \/ /\ Fails(IsUp(stp.seen))
        /\ stp' = [NotStopping EXCEPT !.pc = "stuck"]
        /\ UNCHANGED <<up, dflt, main>>
  /\ UNCHANGED <<linkVars, chain, conv, rules, outcome, routed, mgr, lost, blind, ends>>

(***************************************************************************)
(* The end of a process, and what it takes along.                          *)
(***************************************************************************)
ProcessEnds ==
  /\ chain' = <<>> /\ conv' = IdleConv
  /\ rec' = IdleRec /\ req' = [h \in Handler |-> IdleReq]
  /\ outcome' = [s \in Server |-> FALSE] /\ routed' = FALSE
  /\ mgr' = Off
  /\ UNCHANGED <<live, fresh, row, srvPort, nextKey, ops>>

\* resetExitRouting, whose first command that fails ends it, and process.exit.
Exit ==
  /\ stp.pc = "stop" /\ stp.seen = None /\ stp.todo = {}
  /\ \/ /\ DrainTables(stp.tables)
        /\ dflt' = [t \in RouteTable |-> IF t \in stp.tables THEN None ELSE dflt[t]]
        /\ stp' = [stp EXCEPT !.pc = "done"]
        /\ UNCHANGED faults
     \/ \E drained \in SUBSET stp.tables \ {stp.tables} :
        /\ Fails(TRUE)
        /\ DrainTables(drained)
        /\ dflt' = [t \in RouteTable |-> IF t \in drained THEN None ELSE dflt[t]]
        /\ stp' = [NotStopping EXCEPT !.pc = "done"]
  /\ ProcessEnds
  /\ UNCHANGED <<up, main, lost, blind, ends>>

\* The host keeps everything, or goes with the container.
Crash ==
  /\ Alive /\ ends < MaxEnds /\ ends' = ends + 1
  /\ ProcessEnds
  /\ \/ UNCHANGED host
     \/ /\ up' = [i \in Iface |-> Down] /\ rules' = {}
        /\ dflt' = [t \in RouteTable |-> None] /\ main' = [p \in Peer |-> None]
  /\ stp' = NotStopping
  /\ UNCHANGED <<faults, lost, blind>>

\* The process dies between the teardown of a link and the transaction that deletes its peer.
CrashAfterTeardown(h) ==
  /\ Alive /\ ends < MaxEnds /\ ends' = ends + 1
  /\ chain # <<>> /\ Head(chain) = TeardownJob(h)
  /\ IsUp(req[h].row.name) /\ Delete(req[h].row.name)
  /\ \/ DrainTables({req[h].row.table})
     \/ UNCHANGED rules
  /\ ProcessEnds
  /\ stp' = NotStopping
  /\ UNCHANGED <<faults, lost, blind>>

(***************************************************************************)
(* Everything else goes on beside the manager.                             *)
(***************************************************************************)
Serve ==
  /\ Alive /\ Handle
  /\ stp' = [stp EXCEPT !.alone = FALSE]
  /\ UNCHANGED <<mgr, lost, blind, ends>>

\* A converge whose reconcile rejects rejects with it.
Rejects == conv.pc = "reconcile" /\ conv'.pc = "idle"

\* A job leaves the chain when its step changes the chain; the manager is told when it is the one
\* it waits for.
Run ==
  /\ RunJob
  /\ mgr' = IF mgr.ahead = 1 /\ Rejects THEN Dead
            ELSE [mgr EXCEPT !.ahead = IF Waiting /\ chain' # chain THEN @ - 1 ELSE @]
  /\ lost' = {s \in lost : up'[s] = Down}
  /\ blind' = IF conv.pc = "list" THEN faults' # faults ELSE blind
  /\ UNCHANGED <<stp, ends>>

\* Somebody else deletes the interface of a server.
Lose(s) ==
  /\ Alive /\ IsUp(s) /\ faults < MaxFaults /\ faults' = faults + 1
  /\ Delete(s)
  /\ lost' = lost \cup {s}
  /\ UNCHANGED <<linkVars, chain, conv, rules, outcome, routed, mgr, stp, blind, ends>>

Boot == Start \/ BootList \/ BootEnd \/ (\E i \in Iface : Sweep(i)) \/ \E s \in Server : BootConverge(s)
Loop == TickBegin \/ \E s \in Server : ShowServer(s) \/ ReviveServer(s)
Shutdown == Stop \/ StopSeen \/ Exit \/ \E i \in Iface : StopLook(i)

\* A first boot, on a host with nothing of the fleet.
ManagerInit ==
  /\ live = InitialPeer /\ fresh = Peer \ InitialPeer /\ srvPort = InitialPort
  /\ row = [p \in Peer |-> IF p \in Marked THEN [Blank EXCEPT !.role = "exit"] ELSE Blank]
  /\ req = [h \in Handler |-> IdleReq] /\ rec = IdleRec /\ nextKey = 0 /\ ops = 0
  /\ chain = <<>> /\ conv = IdleConv
  /\ up = [i \in Iface |-> Down] /\ rules = {}
  /\ dflt = [t \in RouteTable |-> None] /\ main = [p \in Peer |-> None]
  /\ outcome = [s \in Server |-> FALSE] /\ routed = FALSE /\ faults = 0
  /\ mgr = Off /\ stp = NotStopping /\ lost = {} /\ blind = FALSE /\ ends = 0

ManagerNext ==
  \/ Boot \/ Loop \/ Shutdown
  \/ Crash \/ (\E h \in Handler : CrashAfterTeardown(h))
  \/ Serve \/ Run \/ (\E s \in Server : Lose(s))

ManagerSpec == ManagerInit /\ [][ManagerNext]_managerVars

\* supervisord restarts the process, commands and timers come to an end.
ManagerFairSpec ==
  ManagerSpec /\ WF_managerVars(Boot) /\ WF_managerVars(Loop) /\ WF_managerVars(Run)

(***************************************************************************)
(* Properties.                                                             *)
(***************************************************************************)
Manager == [pc : {"off", "list", "start", "loop", "halted", "dead"}, todo : SUBSET Server, sweep : SUBSET Iface, ahead : Nat]
Stopping == [pc : {"no", "stop", "stuck", "done"}, todo : SUBSET Iface, seen : Iface \cup {None},
             tables : SUBSET RouteTable, alone : BOOLEAN]

\* The shape of the state: no work without a process, and the job that the manager waits for is
\* on the chain.
ManagerTypeOK ==
  /\ mgr \in Manager /\ stp \in Stopping /\ lost \subseteq Server /\ blind \in BOOLEAN /\ ends \in Nat
  /\ ~Alive => ~InFlight /\ conv.pc = "idle" /\ rec.pc = "idle"
  /\ mgr.ahead <= Len(chain)
  /\ Waiting => \E s \in Server : chain[mgr.ahead] = ConvergeJob(s)

\* Whatever the process left half done when it died (a link allocated and not started, released
\* and not stopped, torn down and its row still there), once a boot has come to its end and the
\* work is done the interfaces and the routes are those of the rows again.  A server that something
\* else deleted waits for its tick; and a converge whose listing failed stops nothing and still
\* succeeds where its server was down as well, so it leaves a link that no row describes.
Recovered == mgr.pc = "loop" /\ stp.pc = "no" /\ lost = {} /\ ~blind
RecoveredMatchesRows == Recovered => MembersMatchRows /\ SteeredToChoice /\ RoutesMatchRows

\* No interface runs on with the key or the port a former process gave it: that is what the sweep
\* of the boot is for, and it holds while no command fails by itself.
RecoveredIdentity == Recovered /\ faults = 0 => IdentityMatchesRows

\* A stop that nothing else runs beside leaves no interface, no route and no rule of a link.
StopLeavesNothing ==
  stp.pc = "done" /\ stp.alone =>
    /\ \A i \in Iface : ~IsUp(i)
    /\ \A t \in RouteTable : dflt[t] = None
    /\ \A r \in rules : r[2] \notin {row[p].table : p \in live}

\* A server whose interface is down, for whatever reason, is brought up again by the boot or by
\* the loop, unless the process ends or is stopped, or the manager is dead: a sweep that rejects, or
\* a converge it awaits whose reconcile does, ends _start or loop for good (wg/manager.ts 28, 36, 55),
\* and from then on nobody revives a server.
ServerComesBack == \A s \in Server :
  mgr.pc \in {"list", "start", "loop"} /\ ~IsUp(s) ~> IsUp(s) \/ mgr.pc \in {"off", "dead", "halted"}

=============================================================================
