---------------------------- MODULE Manager_proofs ----------------------------
(***************************************************************************)
(* What survives the death of the process and what a boot repairs.  The    *)
(* promises of the rows survive: a reservation lives only in memory, and   *)
(* the row that was being written is either written or as it was.  The     *)
(* host does not follow the rows across a death; the sweep of the next     *)
(* boot and its converges bring it back, and a stop that nothing runs      *)
(* beside takes down all of it.                                            *)
(***************************************************************************)
EXTENDS Manager, Converge_proofs

\* The first boot finds rows without a link, whether or not they are marked as exit nodes.
LEMMA ManagerInitInv == ASSUME ConstantsOK, BootOK, ManagerInit PROVE LinksInv
<1>1. /\ Blank \in Row /\ [Blank EXCEPT !.role = "exit"] \in Row
      /\ \A p \in Peer : row[p] \in {Blank, [Blank EXCEPT !.role = "exit"]}
  BY RowShapes DEF ManagerInit, Row, Role, Blank
<1>2. LinksTypeOK
  BY <1>1, RowShapes DEF ManagerInit, ConstantsOK, BootOK, LinksTypeOK, IdleReq, IdleRec
<1>3. \A p \in Peer : {row[p].name, row[p].port, row[p].table, row[p].key} = {None}
  BY <1>1 DEF Blank
<1>4. LinksDistinct /\ KeysBelow
  BY <1>3 DEF LinksDistinct, KeysBelow
<1>5. ReservationHolds /\ InsertsUnlinked
  BY DEF ManagerInit, ReservationHolds, InsertsUnlinked, IdleReq, IdleRec
<1> QED
  BY <1>2, <1>4, <1>5 DEF LinksInv

\* The reconcile and the requests in flight are gone, and with them the reservation they held.
LEMMA EndKeepsRows == ASSUME ConstantsOK, LinksInv, ProcessEnds PROVE LinksInv'
<1>1. LinksTypeOK'
  BY RowShapes DEF ProcessEnds, LinksInv, LinksTypeOK, IdleReq, IdleRec
<1>2. LinksDistinct' /\ KeysBelow'
  BY DEF ProcessEnds, LinksInv, LinksDistinct, KeysBelow
<1>3. ReservationHolds' /\ InsertsUnlinked'
  BY DEF ProcessEnds, ReservationHolds, InsertsUnlinked, IdleReq, IdleRec
<1> QED
  BY <1>1, <1>2, <1>3 DEF LinksInv

\* Otherwise the rows take a step of ExitLinks, or none.
LEMMA ManagerStepRefines ==
  ASSUME [ManagerNext]_managerVars, ~ProcessEnds
  PROVE  [LinksNext]_linkVars
<1>1. CASE Boot
  BY <1>1 DEF Boot, Start, BootList, BootEnd, Sweep, BootConverge, AwaitConverge, vars
<1>2. CASE Loop
  BY <1>2 DEF Loop, TickBegin, ShowServer, ReviveServer, AwaitConverge, vars
<1>3. CASE Shutdown
  BY <1>3 DEF Shutdown, Stop, StopSeen, StopLook, Exit, vars
<1>4. ASSUME NEW s \in Server, Lose(s)
      PROVE  UNCHANGED linkVars
  BY <1>4 DEF Lose
<1>5. CASE Serve \/ Run
  BY <1>5, StepRefines DEF Serve, Run, Next
<1>6. CASE UNCHANGED managerVars
  BY <1>6 DEF managerVars, vars
<1> QED
  BY <1>1, <1>2, <1>3, <1>4, <1>5, <1>6 DEF ManagerNext, Crash, CrashAfterTeardown

\* However often the process dies or is stopped, and wherever it is at that moment, no two peers
\* ever come to share an interface name, a UDP port, a routing table or a key.
THEOREM ManagerKeepsLinksDistinct == ManagerSpec => []LinksDistinct
<1>1. ManagerInit => LinksInv
  BY ManagerInitInv, ConstantsOK, BootOK
<1>2. LinksInv /\ [ManagerNext]_managerVars => LinksInv'
  BY EndKeepsRows, ManagerStepRefines, InvStep, ConstantsOK
<1>3. LinksInv => LinksDistinct
  BY DEF LinksInv
<1> QED
  BY <1>1, <1>2, <1>3, PTL DEF ManagerSpec

-----------------------------------------------------------------------------
(* The shape of the state.                                                 *)

\* A step of the chain leaves the queue as it is, or takes its head off, and a teardown puts the
\* converge of its server at the end.
LEMMA RunShape ==
  ASSUME ConstantsOK, LinksTypeOK, WorkOK, RunJob, chain' # chain
  PROVE  /\ chain # <<>>
         /\ chain' = Tail(chain) \/ \E job \in Job : chain' = Append(Tail(chain), job)
<1>1. ASSUME NEW h \in Handler, TeardownEnd(h)
      PROVE  chain # <<>> /\ \E job \in Job : chain' = Append(Tail(chain), job)
  <2>1. req[h].peer \in Peer
    BY <1>1 DEF TeardownEnd, DeleteCommit, LinksTypeOK, Req
  <2>2. ConvergeJob(Home[req[h].peer]) \in Job
    BY <2>1 DEF Job, ConstantsOK
  <2> QED
    BY <1>1, <2>2 DEF TeardownEnd
<1>2. ASSUME NEW ok, conv.pc # "idle", Finish(ok)
      PROVE  chain # <<>> /\ chain' = Tail(chain)
  BY <1>2 DEF Finish, WorkOK
<1>3. ASSUME NEW h \in Handler, Teardown(h) \/ TeardownBlind(h) \/ TeardownFail(h)
      PROVE  TeardownEnd(h)
  BY <1>3 DEF Teardown, TeardownBlind, TeardownFail
<1>4. ASSUME NEW s \in Server, ConvergeBegin(s) \/ RouteMain(s) \/ RouteMainFail(s)
      PROVE  chain' = chain
  BY <1>4 DEF ConvergeBegin, RouteMain, RouteMainFail
<1>5. CASE ReconcileStep \/ ReconcileEnd \/ ListInterfaces \/ Drain
  BY <1>5 DEF ReconcileStep, ReconcileEnd, ListInterfaces, Drain
<1>6. CASE ReconcileReject \/ ConvergeEnd
  BY <1>2, <1>6 DEF ReconcileReject, ConvergeEnd
<1>7. ASSUME NEW i \in Iface, StopStep(i)
      PROVE  chain' = chain
  BY <1>7 DEF StopStep
<1>8. ASSUME NEW x \in conv.steps, StartStep(x) \/ ReloadStep(x) \/ RestartStep(x)
      PROVE  chain' = chain
  BY <1>8 DEF StartStep, ReloadStep, RestartStep
<1>9. ASSUME NEW p \in Peer, RouteTableOf(p) \/ RouteTableFail(p)
      PROVE  chain' = chain
  BY <1>9 DEF RouteTableOf, RouteTableFail
<1> QED
  BY <1>1, <1>3, <1>4, <1>5, <1>6, <1>7, <1>8, <1>9 DEF RunJob

\* The job the manager waits for, and everything before it.
AwaitedOn(jobs, ahead) ==
  ahead <= Len(jobs) /\ (ahead > 0 => \E s \in Server : jobs[ahead] = ConvergeJob(s))

\* It stays on the chain when the chain grows at its end, and comes one closer when the head leaves.
LEMMA AwaitedGrows ==
  ASSUME NEW jobs \in Seq(Job), NEW job \in Job, NEW ahead \in Nat, AwaitedOn(jobs, ahead)
  PROVE  AwaitedOn(Append(jobs, job), ahead)
<1>1. Len(Append(jobs, job)) = Len(jobs) + 1 /\ \A i \in 1..Len(jobs) : Append(jobs, job)[i] = jobs[i]
  BY AppendProperties
<1>2. Len(jobs) \in Nat
  BY LenProperties
<1> QED
  BY <1>1, <1>2 DEF AwaitedOn

LEMMA AwaitedNears ==
  ASSUME NEW jobs \in Seq(Job), jobs # <<>>, NEW ahead \in Nat \ {0}, AwaitedOn(jobs, ahead)
  PROVE  AwaitedOn(Tail(jobs), ahead - 1)
<1>1. Len(Tail(jobs)) = Len(jobs) - 1 /\ \A i \in 1..Len(Tail(jobs)) : Tail(jobs)[i] = jobs[i + 1]
  BY HeadTailProperties
<1>2. Len(jobs) \in Nat /\ ahead - 1 \in Nat
  BY LenProperties
<1>3. ASSUME ahead - 1 > 0
      PROVE  Tail(jobs)[ahead - 1] = jobs[ahead]
  <2>1. ahead - 1 \in 1..Len(Tail(jobs)) /\ (ahead - 1) + 1 = ahead
    BY <1>1, <1>2, <1>3 DEF AwaitedOn
  <2> QED
    BY <1>1, <2>1
<1> QED
  BY <1>1, <1>2, <1>3 DEF AwaitedOn

\* No work without a process.
NoWork == ~InFlight /\ conv.pc = "idle" /\ rec.pc = "idle"

ManagerShape ==
  /\ ConvergeTypeOK
  /\ mgr \in Manager /\ stp \in Stopping /\ lost \subseteq Server /\ blind \in BOOLEAN /\ ends \in Nat
  /\ ~Alive => NoWork
  /\ AwaitedOn(chain, mgr.ahead)

LEMMA ManagerInitShape == ASSUME ConstantsOK, BootOK, ManagerInit PROVE ManagerShape
<1>1. LinksTypeOK
  BY ManagerInitInv DEF LinksInv
<1>2. WorkOK
  BY DEF ManagerInit, WorkOK, IdleConv, Conv, IdleRec
<1>3. HostOK /\ TallyOK
  BY DEF ManagerInit, HostOK, TallyOK, Down, Config
<1>4. mgr \in Manager /\ stp \in Stopping /\ lost \subseteq Server /\ blind \in BOOLEAN /\ ends \in Nat
  BY DEF ManagerInit, Manager, Stopping, Off, NotStopping
<1>5. NoWork
  BY DEF ManagerInit, NoWork, InFlight, IdleConv, IdleRec, IdleReq
<1>6. AwaitedOn(chain, mgr.ahead)
  BY DEF ManagerInit, AwaitedOn, Off
<1> QED
  BY <1>1, <1>2, <1>3, <1>4, <1>5, <1>6 DEF ManagerShape, ConvergeTypeOK

\* What the manager does to the host and the chain leaves them well formed.
LEMMA QueuedWork ==
  ASSUME WorkOK, NEW s \in Server, Enqueue(ConvergeJob(s)), UNCHANGED <<linkVars, conv>>
  PROVE  WorkOK'
<1>1. ConvergeJob(s) \in Job
  BY DEF Job
<1>2. chain' \in Seq(Job) /\ chain' # <<>> /\ (chain # <<>> => Head(chain') = Head(chain))
  BY <1>1, EnqueueShape DEF WorkOK
<1> QED
  BY <1>2 DEF WorkOK, linkVars

LEMMA SameWork == ASSUME WorkOK, UNCHANGED <<linkVars, chain, conv>> PROVE WorkOK'
  BY DEF WorkOK, linkVars

LEMMA EndedWork == ASSUME ConstantsOK, LinksTypeOK, TallyOK, ProcessEnds PROVE WorkOK' /\ NoWork'
                          /\ LinksTypeOK' /\ outcome' \in [Server -> BOOLEAN] /\ routed' \in BOOLEAN
<1>1. LinksTypeOK'
  BY RowShapes DEF ProcessEnds, LinksTypeOK, IdleReq, IdleRec
<1>2. WorkOK'
  BY DEF ProcessEnds, WorkOK, IdleConv, Conv, IdleRec
<1>3. NoWork'
  BY DEF ProcessEnds, NoWork, InFlight, IdleConv, IdleRec, IdleReq
<1> QED
  BY <1>1, <1>2, <1>3 DEF ProcessEnds

LEMMA FailsCount == ASSUME TallyOK, NEW works, Fails(works) PROVE faults' \in Nat
  BY DEF Fails, TallyOK

\* The chain, the host and the tally stay well formed under the manager.
LEMMA ManagerTypeStep == ASSUME ConstantsOK, ConvergeTypeOK, mgr \in Manager, stp \in Stopping, [ManagerNext]_managerVars PROVE ConvergeTypeOK'
<1> USE DEF ConvergeTypeOK
<1>1. ASSUME UNCHANGED vars
      PROVE  ConvergeTypeOK'
  BY <1>1 DEF vars, linkVars, LinksTypeOK, WorkOK, HostOK, host, TallyOK
<1>2. ASSUME UNCHANGED linkVars
      PROVE  LinksTypeOK'
  BY <1>2 DEF linkVars, LinksTypeOK
<1>3. ASSUME UNCHANGED host
      PROVE  HostOK'
  BY <1>3 DEF host, HostOK
<1>4. ASSUME UNCHANGED <<outcome, routed>>, faults' \in Nat
      PROVE  TallyOK'
  BY <1>4 DEF TallyOK
<1>5. ASSUME [Next]_vars
      PROVE  ConvergeTypeOK'
  <2>1. LinksTypeOK'
    BY <1>5, StepRefines, TypeStep
  <2> QED
    BY <1>5, <2>1, WorkStep, HostStep, TallyStep
<1>6. faults \in Nat
  BY DEF TallyOK
<1>7. CASE Start \/ BootEnd \/ TickBegin \/ Stop
  BY <1>1, <1>7 DEF Start, BootEnd, TickBegin, Stop
<1>8. CASE BootList
  <2>1. CASE UNCHANGED vars
    BY <1>1, <2>1
  <2>2. CASE Fails(TRUE) /\ UNCHANGED <<linkVars, chain, conv, host, outcome, routed>>
    BY <1>2, <1>3, <1>4, <2>2, SameWork, FailsCount
  <2> QED
    BY <1>8, <2>1, <2>2 DEF BootList
<1>9. ASSUME NEW i \in Iface, Sweep(i)
      PROVE  ConvergeTypeOK'
  <2>1. HostOK'
    BY <1>9, DeleteShape DEF Sweep, HostOK
  <2>2. faults' \in Nat
    BY <1>6, <1>9, FailsCount DEF Sweep
  <2>3. UNCHANGED <<linkVars, chain, conv, outcome, routed>>
    BY <1>9 DEF Sweep
  <2> QED
    BY <1>2, <1>4, <2>1, <2>2, <2>3, SameWork
<1>10. ASSUME NEW s \in Server, BootConverge(s) \/ ReviveServer(s)
       PROVE  ConvergeTypeOK'
  <2>1. AwaitConverge(s) /\ faults' \in Nat
    BY <1>6, <1>10, FailsCount DEF BootConverge, ReviveServer
  <2>2. Enqueue(ConvergeJob(s)) /\ UNCHANGED <<linkVars, conv, host, outcome, routed>>
    BY <2>1 DEF AwaitConverge
  <2> QED
    BY <1>2, <1>3, <1>4, <2>1, <2>2, QueuedWork
<1>11. ASSUME NEW s \in Server, ShowServer(s)
       PROVE  ConvergeTypeOK'
  BY <1>1, <1>11 DEF ShowServer
<1>12. ASSUME NEW i \in Iface, StopLook(i)
       PROVE  ConvergeTypeOK'
  <2>1. CASE UNCHANGED vars
    BY <1>1, <2>1
  <2>2. CASE Fails(TRUE) /\ UNCHANGED <<linkVars, chain, conv, host, outcome, routed>>
    BY <1>2, <1>3, <1>4, <2>2, SameWork, FailsCount
  <2> QED
    BY <1>12, <2>1, <2>2 DEF StopLook
<1>13. CASE StopSeen
  <2>1. stp.seen \in Iface
    BY <1>13 DEF StopSeen, Stopping
  <2>2. HostOK'
    BY <1>13, <2>1, DeleteShape DEF StopSeen, HostOK
  <2>3. faults' \in Nat
    BY <1>6, <1>13, FailsCount DEF StopSeen
  <2>4. UNCHANGED <<linkVars, chain, conv, outcome, routed>>
    BY <1>13 DEF StopSeen
  <2> QED
    BY <1>2, <1>4, <2>2, <2>3, <2>4, SameWork
<1>14. CASE Exit
  <2>1. faults' \in Nat
    BY <1>6, <1>14, FailsCount DEF Exit
  <2>2. PICK drained : DrainTables(drained) /\ dflt' = [t \in RouteTable |-> IF t \in drained THEN None ELSE dflt[t]]
    BY <1>14 DEF Exit
  <2>3. HostOK'
    BY <1>14, <2>2 DEF Exit, DrainTables, HostOK
  <2> QED
    BY <1>14, <2>1, <2>3, EndedWork DEF Exit, TallyOK
<1>15. CASE Crash
  <2>1. HostOK'
    BY <1>3, <1>15 DEF Crash, HostOK, Down, Config
  <2> QED
    BY <1>6, <1>15, <2>1, EndedWork DEF Crash, TallyOK
<1>16. ASSUME NEW h \in Handler, CrashAfterTeardown(h)
       PROVE  ConvergeTypeOK'
  <2>2. HostOK'
    BY <1>16, DeleteShape DEF CrashAfterTeardown, DrainTables, HostOK
  <2> QED
    BY <1>6, <1>16, <2>2, EndedWork DEF CrashAfterTeardown, TallyOK
<1>17. CASE Serve \/ Run
  BY <1>5, <1>17 DEF Serve, Run, Next
<1>18. ASSUME NEW s \in Server, Lose(s)
       PROVE  ConvergeTypeOK'
  <2>1. s \in Iface
    BY DEF Iface
  <2>2. HostOK'
    BY <1>18, <2>1, DeleteShape DEF Lose, HostOK
  <2>3. faults' \in Nat /\ UNCHANGED <<linkVars, chain, conv, outcome, routed>>
    BY <1>6, <1>18 DEF Lose
  <2> QED
    BY <1>2, <1>4, <2>2, <2>3, SameWork
<1>19. CASE UNCHANGED managerVars
  BY <1>1, <1>19 DEF managerVars
<1> QED
  BY <1>7, <1>8, <1>9, <1>10, <1>11, <1>12, <1>13, <1>14, <1>15, <1>16, <1>17, <1>18, <1>19
  DEF ManagerNext, Boot, Loop, Shutdown

\* And so do the manager's own records, the awaited job among them.
LEMMA ManagerShapeStep == ASSUME ConstantsOK, ManagerShape, [ManagerNext]_managerVars PROVE ManagerShape'
<1> DEFINE Recorded == mgr \in Manager /\ stp \in Stopping /\ lost \subseteq Server /\ blind \in BOOLEAN /\ ends \in Nat
<1>1. ConvergeTypeOK'
  BY ManagerTypeStep DEF ManagerShape
<1>2. Recorded /\ AwaitedOn(chain, mgr.ahead) /\ mgr.ahead \in Nat /\ chain \in Seq(Job)
  BY DEF ManagerShape, Manager, ConvergeTypeOK, WorkOK
<1>3. \A s \in Server : ConvergeJob(s) \in Job /\ Server \subseteq Iface
  BY DEF Job, Iface
<1>4. ASSUME Recorded', Alive', AwaitedOn(chain, mgr.ahead)'
      PROVE  ManagerShape'
  BY <1>1, <1>4 DEF ManagerShape
<1>5. ASSUME UNCHANGED <<chain, mgr>>
      PROVE  AwaitedOn(chain, mgr.ahead)'
  BY <1>2, <1>5 DEF AwaitedOn
<1>6. ASSUME mgr'.ahead = 0
      PROVE  AwaitedOn(chain, mgr.ahead)'
  <2>1. Len(chain') \in Nat
    BY <1>1, LenProperties DEF ConvergeTypeOK, WorkOK
  <2> QED
    BY <1>6, <2>1 DEF AwaitedOn
<1>7. ASSUME UNCHANGED <<linkVars, chain, conv>>
      PROVE  NoWork => NoWork'
  BY <1>7 DEF NoWork, InFlight, linkVars
<1>8. CASE Start
  <2>1. Recorded'
    BY <1>2, <1>8 DEF Start, Manager, Stopping, Off, NotStopping
  <2>2. Alive' /\ mgr'.ahead = 0
    BY <1>8 DEF Start, Alive, Off
  <2> QED
    BY <1>4, <1>6, <2>1, <2>2
<1>9. CASE BootList
  <2>1. PICK swept \in SUBSET Iface : SweepAndConverge(swept)
    BY <1>9 DEF BootList
  <2>2. Recorded'
    BY <1>2, <1>9, <2>1 DEF BootList, SweepAndConverge, Manager
  <2>3. Alive' /\ mgr'.ahead = mgr.ahead /\ chain' = chain
    BY <1>2, <1>9, <2>1 DEF BootList, SweepAndConverge, Alive, Manager, vars
  <2>4. AwaitedOn(chain, mgr.ahead)'
    BY <1>2, <2>3 DEF AwaitedOn
  <2> QED
    BY <1>4, <2>2, <2>3, <2>4
<1>10. ASSUME NEW i \in Iface, Sweep(i)
       PROVE  ManagerShape'
  <2>1. CASE mgr' = [mgr EXCEPT !.sweep = @ \ {i}]
    <3>1. Recorded' /\ Alive' /\ mgr'.ahead = mgr.ahead /\ chain' = chain
      BY <1>2, <1>10, <2>1 DEF Sweep, Manager, Alive
    <3>2. AwaitedOn(chain, mgr.ahead)'
      BY <1>2, <3>1 DEF AwaitedOn
    <3> QED
      BY <1>4, <3>1, <3>2
  <2>2. CASE mgr' = Dead
    <3>1. Recorded' /\ Alive' /\ mgr'.ahead = 0
      BY <1>2, <1>10, <2>2 DEF Sweep, Manager, Alive, Off, Dead
    <3> QED
      BY <1>4, <1>6, <3>1
  <2> QED
    BY <1>10, <2>1, <2>2 DEF Sweep
<1>11. ASSUME NEW s \in Server, BootConverge(s) \/ ReviveServer(s)
       PROVE  ManagerShape'
  <2>1. Alive /\ AwaitConverge(s)
    BY <1>11 DEF BootConverge, ReviveServer, Alive
  <2>2. chain' = Append(chain, ConvergeJob(s)) /\ mgr' = [mgr EXCEPT !.todo = @ \ {s}, !.ahead = Len(chain) + 1]
    BY <2>1 DEF AwaitConverge, Enqueue
  <2>3. Len(chain') = Len(chain) + 1 /\ chain'[Len(chain) + 1] = ConvergeJob(s) /\ Len(chain) \in Nat
    BY <1>2, <1>3, <2>2, AppendProperties, LenProperties
  <2>4. mgr' \in Manager /\ mgr'.ahead = Len(chain) + 1 /\ mgr'.pc = mgr.pc
    <3>1. Len(chain) + 1 \in Nat
      BY <2>3
    <3> QED
      BY <1>2, <2>2, <3>1 DEF Manager
  <2>5. Recorded'
    BY <1>2, <1>11, <2>4 DEF BootConverge, ReviveServer, Stopping
  <2>6. Alive' /\ AwaitedOn(chain, mgr.ahead)'
    BY <2>1, <2>3, <2>4 DEF Alive, AwaitedOn
  <2> QED
    BY <1>4, <2>5, <2>6
<1>12. CASE BootEnd \/ TickBegin \/ \E s \in Server : ShowServer(s)
  <2>1. mgr' \in Manager /\ mgr'.ahead = mgr.ahead /\ mgr'.pc # "off" /\ chain' = chain
    <3>1. chain' = chain /\ mgr.pc # "off"
      BY <1>12 DEF BootEnd, TickBegin, ShowServer, BetweenTicks, vars
    <3>2. \E pc \in {mgr.pc, "loop"}, todo \in {Server} \cup {mgr.todo \ {s} : s \in Server} :
            mgr' = [mgr EXCEPT !.pc = pc, !.todo = todo]
      <4>1. CASE BootEnd
        BY <4>1 DEF BootEnd
      <4>2. CASE TickBegin
        <5>1. mgr' = [mgr EXCEPT !.pc = mgr.pc, !.todo = Server]
          BY <1>2, <4>2 DEF TickBegin, Manager
        <5> QED
          BY <5>1
      <4>3. ASSUME NEW s \in Server, ShowServer(s)
            PROVE  mgr' = [mgr EXCEPT !.pc = mgr.pc, !.todo = mgr.todo \ {s}]
        BY <1>2, <4>3 DEF ShowServer, Manager
      <4> QED
        BY <1>12, <4>1, <4>2, <4>3
    <3>3. PICK pc \in {mgr.pc, "loop"}, todo \in SUBSET Server : mgr' = [mgr EXCEPT !.pc = pc, !.todo = todo]
      BY <1>2, <3>2 DEF Manager
    <3> QED
      BY <1>2, <3>1, <3>3 DEF Manager
  <2>2. Recorded'
    BY <1>2, <1>12, <2>1 DEF BootEnd, TickBegin, ShowServer
  <2>3. Alive' /\ AwaitedOn(chain, mgr.ahead)'
    BY <1>2, <2>1 DEF Alive, AwaitedOn
  <2> QED
    BY <1>4, <2>2, <2>3
<1>13. CASE Stop
  <2>1. mgr' \in Manager /\ mgr'.ahead = mgr.ahead /\ mgr'.pc # "off" /\ chain' = chain
    BY <1>2, <1>13 DEF Stop, Alive, Manager, vars
  <2>2. stp' \in Stopping
    <3>1. \A p \in live : row[p] \in Row
      BY DEF ManagerShape, ConvergeTypeOK, LinksTypeOK
    <3>2. \A p \in ClaimedLinks : row[p].name \in Iface /\ row[p].table \in RouteTable
      BY <3>1 DEF ClaimedLinks, Row, Iface
    <3>3. Claimed \subseteq Iface
      BY <3>2 DEF Claimed, Iface
    <3> HIDE DEF Claimed
    <3> QED
      BY <1>13, <3>2, <3>3 DEF Stop, Stopping, BetweenTicks, InFlight, Settled
  <2>3. Recorded'
    BY <1>2, <1>13, <2>1, <2>2 DEF Stop
  <2>4. Alive' /\ AwaitedOn(chain, mgr.ahead)'
    BY <1>2, <2>1 DEF Alive, AwaitedOn
  <2> QED
    BY <1>4, <2>3, <2>4
<1>14. ASSUME StopSeen \/ \E i \in Iface : StopLook(i)
       PROVE  ManagerShape'
  <2>1. stp' \in Stopping
    <3>1. CASE StopSeen
      <4>1. stp' \in {[stp EXCEPT !.seen = None], [NotStopping EXCEPT !.pc = "stuck"]}
        BY <3>1 DEF StopSeen
      <4> QED
        BY <1>2, <4>1 DEF Stopping, NotStopping
    <3>2. ASSUME NEW i \in Iface, StopLook(i)
          PROVE  stp' \in Stopping
      <4>1. CASE stp' = [stp EXCEPT !.todo = @ \ {i}, !.seen = IF IsUp(i) THEN i ELSE None]
        BY <1>2, <4>1 DEF Stopping
      <4>2. CASE stp' = [stp EXCEPT !.todo = @ \ {i}, !.alone = FALSE]
        BY <1>2, <4>2 DEF Stopping
      <4> QED
        BY <3>2, <4>1, <4>2 DEF StopLook
    <3> QED
      BY <1>14, <3>1, <3>2
  <2>2. UNCHANGED <<mgr, lost, blind, ends, linkVars, chain, conv>>
    BY <1>14 DEF StopSeen, StopLook, vars
  <2>3. AwaitedOn(chain, mgr.ahead)' /\ (NoWork => NoWork')
    BY <1>5, <1>7, <2>2
  <2> QED
    BY <1>1, <1>2, <2>1, <2>2, <2>3 DEF ManagerShape, Alive
<1>15. ASSUME Exit \/ Crash \/ \E h \in Handler : CrashAfterTeardown(h)
       PROVE  ManagerShape'
  <2>1. ProcessEnds
    BY <1>15 DEF Exit, Crash, CrashAfterTeardown
  <2>2. NoWork'
    BY <2>1, EndedWork DEF ManagerShape, ConvergeTypeOK
  <2>3. mgr' \in Manager /\ mgr'.ahead = 0
    BY <2>1 DEF ProcessEnds, Off, Manager
  <2>4. stp' \in Stopping
    <3>1. stp' \in {[stp EXCEPT !.pc = "done"], [NotStopping EXCEPT !.pc = "done"], NotStopping}
      BY <1>15 DEF Exit, Crash, CrashAfterTeardown
    <3> QED
      <4>1. [stp EXCEPT !.pc = "done"] \in Stopping
        BY <1>2 DEF Stopping
      <4>2. [NotStopping EXCEPT !.pc = "done"] \in Stopping /\ NotStopping \in Stopping
        BY DEF Stopping, NotStopping
      <4> QED
        BY <3>1, <4>1, <4>2
  <2>5. lost' \subseteq Server /\ blind' \in BOOLEAN /\ ends' \in Nat
    <3>1. lost' = lost /\ blind' = blind /\ ends' \in {ends, ends + 1}
      BY <1>15 DEF Exit, Crash, CrashAfterTeardown
    <3> QED
      BY <1>2, <3>1
  <2> QED
    BY <1>1, <1>6, <2>2, <2>3, <2>4, <2>5 DEF ManagerShape
<1>16. CASE Serve
  <2>1. Recorded' /\ Alive' /\ mgr' = mgr
    BY <1>2, <1>16 DEF Serve, Stopping, Alive
  <2>2. chain' = chain \/ \E job \in Job : Enqueue(job)
    BY <1>16, HandleShape DEF Serve, ManagerShape, ConvergeTypeOK
  <2>3. AwaitedOn(chain', mgr.ahead)
    <3>1. ASSUME NEW job \in Job, Enqueue(job)
          PROVE  AwaitedOn(chain', mgr.ahead)
      <4>1. AwaitedOn(Append(chain, job), mgr.ahead)
        BY <1>2, <3>1, AwaitedGrows
      <4>2. chain' = Append(chain, job)
        BY <3>1 DEF Enqueue
      <4> QED
        BY <4>1, <4>2
    <3>2. CASE chain' = chain
      BY <1>2, <3>2
    <3> QED
      BY <2>2, <3>1, <3>2
  <2>4. AwaitedOn(chain, mgr.ahead)'
    BY <2>1, <2>3 DEF AwaitedOn
  <2> QED
    BY <1>4, <2>1, <2>4
<1>17. CASE Run
  <2>1. Alive
    <3>1. ASSUME NoWork
          PROVE  ~RunJob
      BY <3>1 DEF NoWork, InFlight, RunJob, Teardown, TeardownBlind, TeardownFail, TeardownEnd,
         ConvergeBegin, RouteMain, RouteMainFail, ReconcileStep, ReconcileReject, ReconcileEnd,
         ListInterfaces, StopStep, StartStep, ReloadStep, RestartStep, IsNext, Drain, ConvergeEnd,
         RouteTableOf, RouteTableFail
    <3> QED
      BY <1>17, <3>1 DEF Run, ManagerShape
  <2>7. CASE mgr' = Dead
    <3>1. mgr' \in Manager /\ mgr'.pc # "off" /\ mgr'.ahead = 0
      BY <2>7 DEF Dead, Off, Manager
    <3>2. lost' \subseteq lost /\ blind' \in BOOLEAN /\ UNCHANGED <<stp, ends>>
      BY <1>2, <1>17 DEF Run
    <3> QED
      BY <1>2, <1>4, <1>6, <3>1, <3>2 DEF Alive
  <2> SUFFICES ASSUME mgr' # Dead
               PROVE  ManagerShape'
    BY <2>7
  <2>2. mgr' = [mgr EXCEPT !.ahead = IF Waiting /\ chain' # chain THEN @ - 1 ELSE @]
    BY <1>17 DEF Run
  <2>3. Recorded' /\ Alive'
    <3>1. lost' \subseteq lost /\ blind' \in BOOLEAN /\ UNCHANGED <<stp, ends>>
      BY <1>2, <1>17 DEF Run
    <3>2. Waiting => mgr.ahead - 1 \in Nat
      BY <1>2 DEF Waiting
    <3>3. mgr' \in Manager /\ mgr'.pc = mgr.pc
      BY <1>2, <2>2, <3>2 DEF Manager
    <3> QED
      BY <1>2, <2>1, <3>1, <3>3 DEF Alive
  <2>4. CASE chain' = chain
    <3>1. mgr'.ahead = mgr.ahead
      BY <1>2, <2>2, <2>4 DEF Manager
    <3> QED
      BY <1>2, <1>4, <2>3, <2>4, <3>1 DEF AwaitedOn
  <2>5. CASE chain' # chain /\ ~Waiting
    <3>1. mgr'.ahead = 0
      BY <1>2, <2>2, <2>5 DEF Manager, Waiting
    <3> QED
      BY <1>4, <1>6, <2>3, <3>1
  <2>6. CASE chain' # chain /\ Waiting
    <3>1. mgr'.ahead = mgr.ahead - 1 /\ mgr.ahead \in Nat \ {0} /\ mgr.ahead - 1 \in Nat
      BY <1>2, <2>2, <2>6 DEF Manager, Waiting
    <3>2. chain # <<>> /\ (chain' = Tail(chain) \/ \E job \in Job : chain' = Append(Tail(chain), job))
      BY <1>17, <2>6, RunShape DEF Run, ManagerShape, ConvergeTypeOK
    <3>3. Tail(chain) \in Seq(Job) /\ AwaitedOn(Tail(chain), mgr.ahead - 1)
      BY <1>2, <3>1, <3>2, AwaitedNears, HeadTailProperties
    <3>4. AwaitedOn(chain', mgr.ahead - 1)
      <4>1. ASSUME NEW job \in Job, chain' = Append(Tail(chain), job)
            PROVE  AwaitedOn(chain', mgr.ahead - 1)
        <5>1. AwaitedOn(Append(Tail(chain), job), mgr.ahead - 1)
          BY <3>1, <3>3, AwaitedGrows
        <5> QED
          BY <4>1, <5>1
      <4>2. CASE chain' = Tail(chain)
        BY <3>3, <4>2
      <4> QED
        BY <3>2, <4>1, <4>2
    <3> QED
      BY <1>4, <2>3, <3>1, <3>4 DEF AwaitedOn
  <2> QED
    BY <2>4, <2>5, <2>6
<1>18. ASSUME NEW s \in Server, Lose(s)
       PROVE  ManagerShape'
  <2>1. Recorded' /\ Alive' /\ UNCHANGED <<chain, mgr>>
    BY <1>2, <1>18 DEF Lose, Alive
  <2> QED
    BY <1>4, <1>5, <2>1
<1>19. CASE UNCHANGED managerVars
  BY <1>1, <1>2, <1>5, <1>7, <1>19 DEF managerVars, vars, ManagerShape, Alive
<1> QED
  BY <1>8, <1>9, <1>10, <1>11, <1>12, <1>13, <1>14, <1>15, <1>16, <1>17, <1>18, <1>19
  DEF ManagerNext, Boot, Loop, Shutdown

\* No request and no job outlives its process, and the job that the boot or a tick waits for is on
\* the chain wherever the process dies and whatever is queued and run meanwhile.
THEOREM ManagerTyped == ManagerSpec => []ManagerTypeOK
<1>1. ManagerInit => ManagerShape
  BY ManagerInitShape, ConstantsOK, BootOK
<1>2. ManagerShape /\ [ManagerNext]_managerVars => ManagerShape'
  BY ManagerShapeStep, ConstantsOK
<1>3. ManagerShape => ManagerTypeOK
  BY DEF ManagerShape, NoWork, ManagerTypeOK, Waiting, AwaitedOn
<1> QED
  BY <1>1, <1>2, <1>3, PTL DEF ManagerSpec

-----------------------------------------------------------------------------
(* What a boot that has come to its end has made of the host.  The boot    *)
(* and the stop act beside the chain, so a converge that runs meanwhile    *)
(* achieves nothing for its server; but as soon as the sweep is over and   *)
(* the manager has put a converge of the server on the chain, only the     *)
(* chain acts on it, and what is lost otherwise is recorded.               *)

\* The sweep is over and the manager has queued a converge of s.
Booted(s) ==
  /\ stp.pc = "no"
  /\ mgr.pc = "loop" \/ (mgr.pc = "start" /\ mgr.sweep = {} /\ s \notin mgr.todo)

\* The running converge is that one or a later one.
Sound == conv.pc # "idle" /\ Booted(Own) /\ ~Pending(Own)

SweepFirst == mgr.pc = "start" /\ mgr.sweep # {} => mgr.todo = Server
LostDown == \A s \in lost : up[s] = Down

\* The plan in progress, whatever is taken down beside it: a link that has had its step shows its peer
\* or nothing.  A plan that saw the interfaces leaves none up but those of its snapshot.
SweptPlan == ~blind /\ Applying => \A i \in Ordinal : Unstopped(i) => i \in LinkNames(conv.fleet)
PlacedPlan == \A p \in Peer : LinkDone(p) => up[conv.fleet.row[p].name].peers \in {{p}, {}}
ServedPlan == ServerDone /\ Sound /\ Own \notin lost => up[Own].peers = PlainPeers(conv.fleet, Own)

\* And the clean servers.
CleanServers == \A s \in Server : Clean(s) /\ Booted(s) /\ s \notin lost => up[s].peers = PlainPeers(Fleet, s)
CleanLinks == \A s \in Server : Clean(s) => \A p \in LinkedPeers(Fleet, s) : up[row[p].name].peers \in {{p}, {}}

BootedHost ==
  /\ SweepFirst /\ LostDown
  /\ SweptPlan /\ PlacedPlan /\ ServedPlan
  /\ CleanServers /\ CleanLinks /\ (~blind => AllSwept)
  /\ Sound => RouteInv
  /\ (\A s \in Server : Booted(s)) => QuietInv

\* What holds of the rows, the chain and the devices whatever the manager does.
ManagerHolds ==
  /\ LinksInv /\ NamesInv /\ HomesInv
  /\ OwnReconcile /\ SnapInv /\ StepsInv /\ LinksShown /\ RoutesUp

\* How the manager acts on the host: interfaces go down, and the routes through them with them.
Taken ==
  /\ \A i \in Iface : up'[i] \in {up[i], Down}
  /\ \A t \in RouteTable : dflt'[t] = None \/ (dflt'[t] = dflt[t] /\ up'[dflt[t]] = up[dflt[t]])
  /\ \A p \in Peer : main'[p] = None \/ (main'[p] = main[p] /\ up'[main[p]] = up[main[p]])

\* Once s is booted, no link and no route through one; and its own interface is recorded as lost.
Spared(s) ==
  /\ \A i \in Ordinal : up'[i] = up[i]
  /\ up'[s] = up[s] \/ s \in lost'
  /\ \A t \in RouteTable : dflt'[t] = dflt[t] \/ dflt[t] \in Server
  /\ \A p \in Peer : main'[p] = main[p] \/ main[p] \in Server

\* A step of the manager beside the chain, the end of the process, and a step of a handler or a job.
Beside ==
  /\ UNCHANGED <<linkVars, conv, rules, outcome, routed, blind>>
  /\ chain' = chain \/ \E s \in Server : Enqueue(ConvergeJob(s))
  /\ Taken
  /\ \A s \in Server : Booted(s)' => (Booted(s) \/ Enqueue(ConvergeJob(s))) /\ Spared(s)
  /\ lost \subseteq lost' /\ \A s \in lost' \ lost : up'[s] = Down
Ended ==
  /\ ProcessEnds /\ Taken /\ UNCHANGED <<lost, blind>>
  /\ \A s \in Server : ~Booted(s)'
Worked ==
  /\ [Next]_vars
  /\ \A s \in Server : Booted(s)' => Booted(s)
  /\ lost' \subseteq lost /\ (\A s \in lost' : up'[s] = Down) /\ (\A s \in lost \ lost' : up'[s] # Down)
  /\ ~blind' => ~blind \/ conv.pc = "list"
  /\ ~blind' /\ conv.pc = "list" /\ conv'.pc = "steps" => faults' = faults

LEMMA DeleteTakes ==
  ASSUME HostOK, NEW i, Delete(i)
  PROVE  Taken
BY DEF Delete, HostOK, Taken

LEMMA NothingTaken ==
  ASSUME UNCHANGED <<up, dflt, main>>
  PROVE  Taken /\ \A s \in Server : Spared(s)
<1>1. Taken
  BY DEF Taken
<1>2. \A s \in Server : Spared(s)
  BY DEF Spared
<1> QED
  BY <1>1, <1>2

LEMMA ManagerKinds ==
  ASSUME ConstantsOK, InterfacesApart, ManagerShape, SweepFirst, LostDown, [ManagerNext]_managerVars
  PROVE  Beside \/ Ended \/ Worked
<1>1. HostOK /\ mgr \in Manager /\ stp \in Stopping /\ lost \subseteq Server
  BY DEF ManagerShape, ConvergeTypeOK
<1>2. ASSUME UNCHANGED <<linkVars, chain, conv, host, outcome, routed, lost, blind>>, \A s \in Server : Booted(s)' => Booted(s)
      PROVE  Beside
  <2>1. Taken /\ \A s \in Server : Spared(s)
    BY <1>2, NothingTaken DEF host
  <2> QED
    BY <1>2, <2>1 DEF Beside, host
<1>3. ASSUME UNCHANGED <<linkVars, chain, conv, rules, outcome, routed, lost, blind>>, Taken, \A s \in Server : ~Booted(s)'
      PROVE  Beside
  BY <1>3 DEF Beside
<1>4. CASE Start \/ BootList
  <2>1. UNCHANGED <<linkVars, chain, conv, host, outcome, routed, lost, blind>>
    BY <1>4 DEF Start, BootList, vars
  <2>2. mgr'.pc = "list" \/ (mgr'.pc = "start" /\ mgr'.todo = Server)
    BY <1>1, <1>4 DEF Start, BootList, SweepAndConverge, Off, Manager
  <2>3. \A s \in Server : ~Booted(s)'
    BY <2>2 DEF Booted
  <2> QED
    BY <1>2, <2>1, <2>3
<1>5. ASSUME NEW i \in Iface, Sweep(i)
      PROVE  Beside
  <2>1. UNCHANGED <<linkVars, chain, conv, rules, outcome, routed, lost, blind>> /\ mgr.pc = "start" /\ mgr.todo = Server
    BY <1>5 DEF Sweep, SweepFirst
  <2>2. Taken
    <3>1. CASE Delete(i)
      BY <1>1, <3>1, DeleteTakes
    <3>2. CASE UNCHANGED <<up, dflt, main>>
      BY <3>2, NothingTaken
    <3> QED
      BY <1>5, <3>1, <3>2 DEF Sweep
  <2>3. mgr'.pc = "dead" \/ (mgr'.pc = "start" /\ mgr'.todo = Server)
    BY <1>1, <1>5, <2>1 DEF Sweep, Dead, Off, Manager
  <2>4. \A s \in Server : ~Booted(s)'
    BY <2>3 DEF Booted
  <2> QED
    BY <1>3, <2>1, <2>2, <2>4
<1>6. ASSUME NEW s \in Server, BootConverge(s) \/ ReviveServer(s)
      PROVE  Beside
  <2>1. /\ Enqueue(ConvergeJob(s)) /\ UNCHANGED <<linkVars, conv, host, outcome, routed, lost, blind>>
        /\ mgr' = [mgr EXCEPT !.todo = @ \ {s}, !.ahead = Len(chain) + 1]
        /\ stp' = stp \/ stp' = [stp EXCEPT !.alone = FALSE]
        /\ mgr.pc = "loop" \/ (mgr.pc = "start" /\ mgr.sweep = {})
    BY <1>6 DEF BootConverge, ReviveServer, AwaitConverge
  <2>2. mgr'.pc = mgr.pc /\ mgr'.sweep = mgr.sweep /\ mgr'.todo = mgr.todo \ {s} /\ stp'.pc = stp.pc
    BY <1>1, <2>1 DEF Manager, Stopping
  <2>3. \A t \in Server : Booted(t)' => Booted(t) \/ Enqueue(ConvergeJob(t))
    BY <2>1, <2>2 DEF Booted
  <2>4. Taken /\ \A t \in Server : Spared(t)
    BY <2>1, NothingTaken DEF host
  <2> QED
    BY <2>1, <2>3, <2>4 DEF Beside, host
<1>7. CASE BootEnd \/ TickBegin \/ \E s \in Server : ShowServer(s)
  <2>1. UNCHANGED <<vars, stp, lost, blind>> /\ (mgr.pc = "loop" \/ (mgr.pc = "start" /\ mgr.sweep = {} /\ mgr.todo = {}))
    BY <1>7 DEF BootEnd, TickBegin, ShowServer, BetweenTicks
  <2>2. \A s \in Server : Booted(s)' => Booted(s)
    BY <2>1 DEF Booted
  <2> QED
    BY <1>2, <2>1, <2>2 DEF vars
<1>8. ASSUME Stop \/ StopSeen \/ \E i \in Iface : StopLook(i)
      PROVE  Beside
  <2>1. UNCHANGED <<linkVars, chain, conv, rules, outcome, routed, lost, blind>>
    BY <1>8 DEF Stop, StopSeen, StopLook, vars, host
  <2>2. stp'.pc # "no"
    <3>1. CASE Stop
      BY <3>1 DEF Stop
    <3>2. CASE StopSeen
      BY <1>1, <3>2 DEF StopSeen, Stopping, NotStopping
    <3>3. ASSUME NEW i \in Iface, StopLook(i)
          PROVE  stp'.pc = "stop"
      BY <1>1, <3>3 DEF StopLook, Stopping
    <3> QED
      BY <1>8, <3>1, <3>2, <3>3
  <2>3. Taken
    <3>1. CASE StopSeen /\ Delete(stp.seen)
      BY <1>1, <3>1, DeleteTakes
    <3>2. CASE UNCHANGED <<up, dflt, main>>
      BY <3>2, NothingTaken
    <3> QED
      BY <1>8, <3>1, <3>2 DEF Stop, StopSeen, StopLook, vars, host
  <2> QED
    BY <1>3, <2>1, <2>2, <2>3 DEF Booted
<1>9. ASSUME Exit \/ Crash \/ \E h \in Handler : CrashAfterTeardown(h)
      PROVE  Ended
  <2>1. ProcessEnds /\ UNCHANGED <<lost, blind>>
    BY <1>9 DEF Exit, Crash, CrashAfterTeardown
  <2>2. \A s \in Server : ~Booted(s)'
    BY <2>1 DEF ProcessEnds, Off, Booted
  <2>3. Taken
    <3>1. CASE Exit
      <4>1. PICK tables : dflt' = [t \in RouteTable |-> IF t \in tables THEN None ELSE dflt[t]]
        BY <3>1 DEF Exit
      <4>2. UNCHANGED <<up, main>>
        BY <3>1 DEF Exit
      <4> QED
        BY <4>1, <4>2 DEF Taken
    <3>2. CASE Crash
      <4>1. CASE UNCHANGED host
        BY <4>1, NothingTaken DEF host
      <4>2. CASE /\ up' = [i \in Iface |-> Down]
                 /\ dflt' = [t \in RouteTable |-> None] /\ main' = [p \in Peer |-> None]
        BY <4>2 DEF Taken
      <4> QED
        BY <3>2, <4>1, <4>2 DEF Crash
    <3>3. ASSUME NEW h \in Handler, CrashAfterTeardown(h)
          PROVE  Taken
      BY <1>1, <3>3, DeleteTakes DEF CrashAfterTeardown
    <3> QED
      BY <1>9, <3>1, <3>2, <3>3
  <2> QED
    BY <2>1, <2>2, <2>3 DEF Ended
<1>10. CASE Serve
  <2>1. /\ Handle /\ UNCHANGED <<mgr, lost, blind>> /\ stp' = [stp EXCEPT !.alone = FALSE]
        /\ conv' = conv /\ up' = up
    BY <1>10 DEF Serve, Handle, host
  <2>2. stp'.pc = stp.pc
    BY <1>1, <2>1 DEF Stopping
  <2>3. \A s \in Server : Booted(s)' => Booted(s)
    BY <2>1, <2>2 DEF Booted
  <2> QED
    BY <2>1, <2>3 DEF Worked, Next, LostDown
<1>11. CASE Run
  <2>1. /\ RunJob /\ UNCHANGED stp /\ lost' = {s \in lost : up'[s] = Down}
        /\ blind' = IF conv.pc = "list" THEN faults' # faults ELSE blind
        /\ \/ mgr' = Dead
           \/ mgr' = [mgr EXCEPT !.ahead = IF Waiting /\ chain' # chain THEN @ - 1 ELSE @]
    BY <1>11 DEF Run
  <2>2. \/ mgr'.pc = "dead"
        \/ mgr'.pc = mgr.pc /\ mgr'.sweep = mgr.sweep /\ mgr'.todo = mgr.todo
    BY <1>1, <2>1 DEF Manager, Dead, Off
  <2>3. \A s \in Server : Booted(s)' => Booted(s)
    BY <2>1, <2>2 DEF Booted
  <2> QED
    BY <2>1, <2>3 DEF Worked, Next
<1>12. ASSUME NEW s \in Server, Lose(s)
       PROVE  Beside
  <2>1. Delete(s) /\ lost' = lost \cup {s} /\ UNCHANGED <<linkVars, chain, conv, rules, outcome, routed, mgr, stp, blind>>
    BY <1>12 DEF Lose
  <2>2. s \in Iface /\ s \notin Ordinal
    BY DEF Iface, InterfacesApart
  <2>3. \A t \in Server : Booted(t)' => Booted(t)
    BY <2>1 DEF Booted
  <2>4. ASSUME NEW t \in Server
        PROVE  Spared(t)
    BY <1>1, <2>1, <2>2 DEF Spared, Delete, HostOK, Iface
  <2>5. up'[s] = Down
    BY <1>1, <2>1, <2>2 DEF Delete, HostOK
  <2> QED
    BY <1>1, <2>1, <2>3, <2>4, <2>5, DeleteTakes DEF Beside
<1>13. CASE UNCHANGED managerVars
  <2>1. UNCHANGED <<linkVars, chain, conv, host, outcome, routed, lost, blind, mgr, stp>>
    BY <1>13 DEF managerVars, vars
  <2> QED
    BY <1>2, <2>1 DEF Booted
<1> QED
  BY <1>4, <1>5, <1>6, <1>7, <1>8, <1>9, <1>10, <1>11, <1>12, <1>13 DEF ManagerNext, Boot, Loop, Shutdown

-----------------------------------------------------------------------------
(* The rows, the chain and the devices, whatever the manager does.         *)

\* A step beside the chain may queue a converge, and changes nothing else about the jobs and the rows.
LEMMA BesideKeeps ==
  ASSUME WorkOK, Beside
  PROVE  /\ Fleet' = Fleet /\ row' = row
         /\ conv.pc # "idle" => Own' = Own
         /\ \A s \in Server : (Pending(s) \/ Enqueue(ConvergeJob(s)) => Pending(s)') /\ (Clean(s)' => Clean(s))
<1>1. Fleet' = Fleet /\ row' = row /\ conv' = conv /\ outcome' = outcome
  BY DEF Beside, linkVars, Fleet
<1>2. chain \in Seq(Job) /\ \A s \in Server : ConvergeJob(s) \in Job
  BY DEF WorkOK, Job
<1>3. conv.pc # "idle" => chain # <<>> /\ Head(chain') = Head(chain)
  BY <1>2, EnqueueShape DEF Beside, WorkOK
<1>4. \A s \in Server : Enqueue(ConvergeJob(s)) => Ahead' = Ahead \cup {ConvergeJob(s)}
  BY <1>1, <1>2, EnqueueAhead
<1>5. chain' = chain => Ahead' = Ahead
  BY <1>1 DEF Ahead
<1>6. Ahead \subseteq Ahead'
  BY <1>4, <1>5 DEF Beside
<1>7. ASSUME NEW s \in Server
      PROVE  (Pending(s) \/ Enqueue(ConvergeJob(s)) => Pending(s)') /\ (Running(s)' <=> Running(s))
  BY <1>1, <1>3, <1>4, <1>6 DEF Pending, Running
<1> QED
  BY <1>1, <1>3, <1>7 DEF Own, Clean

LEMMA TakenDevices ==
  ASSUME Taken, LinksShown, RoutesUp
  PROVE  LinksShown' /\ RoutesUp'
<1>1. LinksShown'
  BY DEF Taken, LinksShown, IsUp, Iface
<1>2. RoutesUp'
  <2>1. ASSUME NEW t \in RouteTable, dflt'[t] # None
        PROVE  dflt'[t] \in Ordinal /\ up'[dflt'[t]] # Down
    BY <2>1 DEF Taken, RoutesUp, IsUp
  <2>2. ASSUME NEW p \in Peer, main'[p] # None
        PROVE  main'[p] \in Ordinal /\ up'[main'[p]] # Down
    BY <2>2 DEF Taken, RoutesUp, IsUp
  <2> QED
    BY <2>1, <2>2 DEF RoutesUp, IsUp
<1> QED
  BY <1>1, <1>2

LEMMA HoldsStep ==
  ASSUME ConstantsOK, InterfacesApart, ConvergeTypeOK, ManagerHolds, Beside \/ Ended \/ Worked
  PROVE  ManagerHolds'
<1>1. LinksTypeOK /\ WorkOK /\ HostOK /\ TallyOK
  BY DEF ConvergeTypeOK
<1>2. /\ LinksInv /\ NamesInv /\ HomesInv
      /\ OwnReconcile /\ SnapInv /\ StepsInv /\ LinksShown /\ RoutesUp
  BY DEF ManagerHolds
<1>3. ASSUME [LinksNext]_linkVars
      PROVE  LinksInv' /\ NamesInv' /\ HomesInv'
  BY <1>1, <1>2, <1>3, InvStep, NamesStep, HomesStep
<1>4. CASE Worked
  <2>1. [Next]_vars
    BY <1>4 DEF Worked
  <2>2. LinksInv' /\ NamesInv' /\ HomesInv'
    BY <1>3, <2>1, StepRefines
  <2>3. OwnReconcile' /\ SnapInv' /\ StepsInv'
    BY <1>1, <1>2, <2>1, OwnReconcileStep, SnapStep, StepsStep
  <2>4. LinksShown' /\ RoutesUp'
    BY <1>1, <1>2, <2>1, LinksShownStep, RoutesUpStep
  <2> QED
    BY <2>2, <2>3, <2>4 DEF ManagerHolds
<1>5. CASE Beside
  <2>1. LinksInv' /\ NamesInv' /\ HomesInv'
    BY <1>3, <1>5 DEF Beside
  <2>2. conv' = conv /\ rec' = rec
    BY <1>5 DEF Beside, linkVars
  <2>3. Fleet' = Fleet /\ (conv.pc # "idle" => Own' = Own) /\ \A s \in Server : Pending(s) => Pending(s)'
    BY <1>1, <1>5, BesideKeeps
  <2>4. OwnReconcile'
    BY <1>2, <2>2, <2>3 DEF OwnReconcile
  <2>5. SnapInv'
    <3>1. Closed(conv.fleet)' <=> Closed(conv.fleet)
      BY <2>2 DEF Closed
    <3>2. \A s \in Server : Same(conv.fleet, Fleet, s)' <=> Same(conv.fleet, Fleet, s)
      BY <2>2, <2>3 DEF Same
    <3> QED
      BY <1>2, <2>2, <2>3, <3>1, <3>2 DEF SnapInv, InJob
  <2>6. StepsInv'
    <3>1. \A x : conv.pc # "idle" => (ServerStep(x)' <=> ServerStep(x))
      BY <2>2, <2>3 DEF ServerStep
    <3>2. \A x, p : LinkStep(x, p)' <=> LinkStep(x, p)
      BY <2>2 DEF LinkStep
    <3>3. conv.pc # "idle" => LinkedPeers(conv'.fleet, Own') = LinkedPeers(conv.fleet, Own)
      BY <2>2, <2>3
    <3> QED
      BY <1>2, <2>2, <3>1, <3>2, <3>3 DEF StepsInv
  <2>7. LinksShown' /\ RoutesUp'
    BY <1>2, <1>5, TakenDevices DEF Beside
  <2> QED
    BY <2>1, <2>4, <2>5, <2>6, <2>7 DEF ManagerHolds
<1>6. CASE Ended
  <2>1. ProcessEnds
    BY <1>6 DEF Ended
  <2>2. LinksInv'
    BY <1>2, <2>1, EndKeepsRows
  <2>3. NamesInv' /\ HomesInv'
    BY <1>2, <2>1 DEF ProcessEnds, NamesInv, HomesInv, IdleReq, IdleRec
  <2>4. conv'.pc = "idle" /\ conv'.links = {}
    BY <2>1 DEF ProcessEnds, IdleConv
  <2>5. OwnReconcile' /\ SnapInv' /\ StepsInv'
    BY <2>4 DEF OwnReconcile, SnapInv, InJob, StepsInv
  <2>6. LinksShown' /\ RoutesUp'
    BY <1>2, <1>6, TakenDevices DEF Ended
  <2> QED
    BY <2>2, <2>3, <2>5, <2>6 DEF ManagerHolds
<1> QED
  BY <1>4, <1>5, <1>6

-----------------------------------------------------------------------------
(* The plan in progress, under the manager.                                *)

\* What only goes down shows no other peers.
LEMMA TakenPeers ==
  ASSUME Taken, NEW i \in Iface
  PROVE  (up'[i] # Down => up'[i] = up[i]) /\ up'[i].peers \in {up[i].peers, {}}
<1>1. Down.peers = {}
  BY DEF Down
<1> QED
  BY <1>1 DEF Taken

LEMMA SweptPlanStep ==
  ASSUME ConstantsOK, InterfacesApart, ConvergeTypeOK, ManagerHolds, SweptPlan, Beside \/ Ended \/ Worked
  PROVE  SweptPlan'
<1> SUFFICES ASSUME ~blind', Applying', NEW i \in Ordinal, Unstopped(i)'
             PROVE  i \in LinkNames(conv'.fleet)
  BY DEF SweptPlan
<1>1. LinksTypeOK /\ WorkOK /\ HostOK /\ TallyOK /\ StepsInv /\ SnapInv /\ LinksShown
  BY DEF ConvergeTypeOK, ManagerHolds
<1>2. CASE Worked
  <2>1. [Next]_vars /\ (~blind' => ~blind \/ conv.pc = "list")
        /\ (~blind' /\ conv.pc = "list" /\ conv'.pc = "steps" => faults' = faults)
    BY <1>2 DEF Worked
  <2>2. conv'.fleet = conv.fleet
    BY <1>1, <2>1, PlanKinds DEF Applying
  <2>3. ~(conv.pc = "list" /\ Plan({}) /\ Fails(TRUE))
    <3> SUFFICES ASSUME conv.pc = "list", Plan({}), Fails(TRUE)
                 PROVE  FALSE
      OBVIOUS
    <3>1. conv'.pc = "steps"
      BY <1>1, PlanMade
    <3>2. faults' = faults + 1 /\ faults \in Nat
      BY <1>1 DEF Fails, TallyOK
    <3> QED
      BY <2>1, <3>1, <3>2
  <2>4. CASE Applying /\ Unstopped(i)
    <3>1. ~blind
      BY <2>1, <2>4 DEF Applying
    <3> QED
      BY <2>2, <2>4, <3>1 DEF SweptPlan
  <2> QED
    BY <1>1, <2>1, <2>2, <2>3, <2>4, SweptStep
<1>3. CASE Beside
  <2>1. conv' = conv /\ blind' = blind /\ Taken
    BY <1>3 DEF Beside
  <2>2. Applying /\ Unstopped(i)
    <3>1. i \in Iface
      BY DEF Iface
    <3> QED
      BY <2>1, <3>1, TakenPeers DEF Applying, Unstopped, IsUp
  <2> QED
    BY <2>1, <2>2 DEF SweptPlan
<1>4. CASE Ended
  BY <1>4 DEF Ended, ProcessEnds, IdleConv, Applying
<1> QED
  BY <1>2, <1>3, <1>4

LEMMA PlacedPlanStep ==
  ASSUME ConstantsOK, InterfacesApart, ConvergeTypeOK, ManagerHolds, PlacedPlan, Beside \/ Ended \/ Worked
  PROVE  PlacedPlan'
<1> SUFFICES ASSUME NEW p \in Peer, LinkDone(p)'
             PROVE  up'[conv'.fleet.row[p].name].peers \in {{p}, {}}
  BY DEF PlacedPlan
<1>1. LinksTypeOK /\ WorkOK /\ HostOK /\ StepsInv /\ SnapInv
  BY DEF ConvergeTypeOK, ManagerHolds
<1>2. CASE Worked
  <2>1. [Next]_vars
    BY <1>2 DEF Worked
  <2>2. conv'.fleet = conv.fleet
    BY <1>1, <2>1, PlanKinds DEF LinkDone, Applying
  <2> QED
    BY <1>1, <2>1, <2>2, PlacedStep DEF PlacedPlan
<1>3. CASE Beside
  <2>1. conv' = conv /\ Taken /\ Applying /\ InJob
    BY <1>3 DEF Beside, LinkDone, Applying, InJob
  <2>2. Own' = Own
    BY <1>1, <1>3, <2>1, BesideKeeps DEF InJob
  <2>3. LinkDone(p)
    BY <2>1, <2>2 DEF LinkDone, LinkStep
  <2>4. conv.fleet.row[p].name \in Iface
    BY <1>1, <2>1, <2>3, PlanFacts DEF LinkDone
  <2>5. up'[conv.fleet.row[p].name].peers \in {up[conv.fleet.row[p].name].peers, {}}
    BY <2>1, <2>4, TakenPeers
  <2>6. up[conv.fleet.row[p].name].peers \in {{p}, {}}
    BY <2>3 DEF PlacedPlan
  <2> QED
    BY <2>1, <2>5, <2>6
<1>4. CASE Ended
  BY <1>4 DEF Ended, ProcessEnds, IdleConv, LinkDone, Applying
<1> QED
  BY <1>2, <1>3, <1>4

\* A server that is lost stays lost until a converge starts its interface.
LEMMA StillLost ==
  ASSUME Worked, LostDown, NEW s \in Server, s \notin lost', up'[s] = up[s]
  PROVE  s \notin lost
BY DEF Worked, LostDown

\* Inside of a job, a converge that is sound was so before.
LEMMA StillSound ==
  ASSUME ConstantsOK, InterfacesApart, ConvergeTypeOK, ManagerHolds, Worked, InJob, Own' = Own, Sound'
  PROVE  Sound
<1>1. LinksTypeOK /\ WorkOK /\ HomesInv /\ OwnReconcile /\ SnapInv
  BY DEF ConvergeTypeOK, ManagerHolds
<1>2. Own \in Server
  BY <1>1, PlanFacts
<1>3. [Next]_vars /\ Booted(Own)
  BY <1>2 DEF Worked, Sound
<1>4. ~Pending(Own)'
  BY DEF Sound
<1>5. ~ConvergeBegin(Own)
  BY DEF ConvergeBegin, InJob
<1>6. ~Pending(Own)
  BY <1>1, <1>2, <1>3, <1>4, <1>5, PendingStep
<1> QED
  BY <1>3, <1>6 DEF Sound, InJob

LEMMA BesideSound ==
  ASSUME ConstantsOK, InterfacesApart, ConvergeTypeOK, ManagerHolds, Beside, InJob, Sound'
  PROVE  Own' = Own /\ Own \in Server /\ Sound /\ Spared(Own)
<1>1. WorkOK /\ SnapInv
  BY DEF ConvergeTypeOK, ManagerHolds
<1>2. Own \in Server
  BY <1>1, PlanFacts
<1>3. Own' = Own /\ ~Pending(Own) /\ ~Enqueue(ConvergeJob(Own))
  <2>1. Own' = Own
    BY <1>1, BesideKeeps DEF InJob
  <2>2. ~Pending(Own)'
    BY <2>1 DEF Sound
  <2> QED
    BY <1>1, <1>2, <2>1, <2>2, BesideKeeps
<1>4. Booted(Own) /\ Spared(Own)
  <2>1. Booted(Own)'
    BY <1>3 DEF Sound
  <2> QED
    BY <1>2, <1>3, <2>1 DEF Beside
<1> QED
  BY <1>2, <1>3, <1>4 DEF Sound, InJob

LEMMA ServedPlanStep ==
  ASSUME ConstantsOK, InterfacesApart, ConvergeTypeOK, ManagerHolds, LostDown, ServedPlan, Beside \/ Ended \/ Worked
  PROVE  ServedPlan'
<1> SUFFICES ASSUME ServerDone', Sound', Own' \notin lost'
             PROVE  up'[Own'].peers = PlainPeers(conv'.fleet, Own')
  BY DEF ServedPlan
<1>1. LinksTypeOK /\ WorkOK /\ HostOK /\ StepsInv /\ SnapInv
  BY DEF ConvergeTypeOK, ManagerHolds
<1>2. CASE Worked
  <2>1. [Next]_vars
    BY <1>2 DEF Worked
  <2>2. conv'.fleet = conv.fleet /\ Own' = Own /\ InJob
    BY <1>1, <2>1, PlanKinds DEF ServerDone, Applying
  <2>3. Own \in Server /\ Sound
    BY <1>1, <1>2, <2>2, PlanFacts, StillSound
  <2>4. CASE ServerDone /\ up'[Own] = up[Own]
    <3>1. Own \notin lost
      BY <1>2, <2>2, <2>3, <2>4, StillLost
    <3> QED
      BY <2>2, <2>3, <2>4, <3>1 DEF ServedPlan
  <2> QED
    BY <1>1, <2>1, <2>2, <2>4, ServedStep
<1>3. CASE Beside
  <2>1. conv' = conv /\ lost \subseteq lost' /\ InJob
    BY <1>3 DEF Beside, ServerDone, Applying, InJob
  <2>2. Own' = Own /\ Own \in Server /\ Sound /\ Spared(Own)
    BY <1>3, <2>1, BesideSound
  <2>3. ServerDone /\ up'[Own] = up[Own] /\ Own \notin lost
    <3>1. ServerDone
      BY <2>1, <2>2 DEF ServerDone, Applying, ServerStep
    <3> QED
      BY <2>1, <2>2, <3>1 DEF Spared
  <2> QED
    BY <2>1, <2>2, <2>3 DEF ServedPlan
<1>4. CASE Ended
  BY <1>4 DEF Ended, ProcessEnds, IdleConv, ServerDone, Applying
<1> QED
  BY <1>2, <1>3, <1>4

-----------------------------------------------------------------------------
(* The clean servers and the routing, under the manager.                   *)

LEMMA EndedKeeps ==
  ASSUME Ended
  PROVE  Fleet' = Fleet /\ row' = row /\ \A s \in Server : ~Clean(s)'
BY DEF Ended, ProcessEnds, Fleet, Clean

LEMMA CleanServersStep ==
  ASSUME ConstantsOK, InterfacesApart, ConvergeTypeOK, ManagerHolds, ManagerHolds', LostDown, ServedPlan, CleanServers,
         Beside \/ Ended \/ Worked
  PROVE  CleanServers'
<1> SUFFICES ASSUME NEW s \in Server, Clean(s)', Booted(s)', s \notin lost'
             PROVE  up'[s].peers = PlainPeers(Fleet', s)
  BY DEF CleanServers
<1>1. /\ LinksTypeOK /\ WorkOK /\ HostOK /\ TallyOK
      /\ LinksInv /\ NamesInv /\ HomesInv /\ OwnReconcile /\ SnapInv /\ StepsInv
      /\ Fleet \in Snapshot /\ Fleet' \in Snapshot
  BY FleetOK DEF ConvergeTypeOK, ManagerHolds, LinksInv, LinksTypeOK, Fleet, Snapshot
<1>2. CASE Worked
  <2>1. [Next]_vars /\ Booted(s)
    BY <1>2 DEF Worked
  <2>2. CASE Clean(s) /\ Untouched(s)
    <3>1. PlainPeers(Fleet', s) = PlainPeers(Fleet, s)
      BY <1>1, <2>2, UntouchedPeers
    <3>2. up'[s] = up[s]
      BY <1>1, <2>1, <2>2, CleanHolds
    <3>3. s \notin lost
      BY <1>2, <3>2, StillLost
    <3> QED
      BY <2>1, <2>2, <3>1, <3>2, <3>3 DEF CleanServers
  <2>3. CASE ConvergeEnd /\ s = Own /\ conv.ok /\ ~Pending(s)
    <3>1. up' = up /\ Fleet' = Fleet /\ conv.pc = "route"
      BY <2>3 DEF ConvergeEnd, linkVars, host, Fleet
    <3>2. Own \notin lost /\ Sound
      BY <1>2, <2>1, <2>3, <3>1, StillLost DEF Sound
    <3>3. ServerDone /\ PlainPeers(conv.fleet, s) = PlainPeers(Fleet, s)
      BY <1>1, <2>3, EndFacts
    <3> QED
      BY <2>3, <3>1, <3>2, <3>3 DEF ServedPlan
  <2> QED
    BY <1>1, <2>1, <2>2, <2>3, CleanStep
<1>3. CASE Beside
  <2>1. Clean(s) /\ ~Pending(s)' /\ Fleet' = Fleet
    BY <1>1, <1>3, BesideKeeps DEF Clean
  <2>2. ~Enqueue(ConvergeJob(s))
    BY <1>1, <1>3, <2>1, BesideKeeps
  <2>3. Booted(s) /\ up'[s] = up[s] /\ s \notin lost
    BY <1>3, <2>2 DEF Beside, Spared
  <2> QED
    BY <2>1, <2>3 DEF CleanServers
<1>4. CASE Ended
  BY <1>4, EndedKeeps
<1> QED
  BY <1>2, <1>3, <1>4

LEMMA CleanLinksStep ==
  ASSUME ConstantsOK, InterfacesApart, ConvergeTypeOK, ManagerHolds, ManagerHolds', PlacedPlan, CleanLinks,
         Beside \/ Ended \/ Worked
  PROVE  CleanLinks'
<1> SUFFICES ASSUME NEW s \in Server, Clean(s)', NEW p \in LinkedPeers(Fleet', s)
             PROVE  up'[row'[p].name].peers \in {{p}, {}}
  BY DEF CleanLinks
<1>1. /\ LinksTypeOK /\ WorkOK /\ HostOK /\ TallyOK
      /\ LinksInv /\ NamesInv /\ HomesInv /\ OwnReconcile /\ SnapInv /\ StepsInv
      /\ Fleet \in Snapshot /\ Fleet' \in Snapshot /\ Closed(Fleet)
  BY FleetOK DEF ConvergeTypeOK, ManagerHolds, LinksInv, LinksTypeOK, Fleet, Snapshot
<1>2. CASE Worked
  <2>1. [Next]_vars
    BY <1>2 DEF Worked
  <2>2. CASE Clean(s) /\ Untouched(s)
    <3>1. p \in LinkedPeers(Fleet, s) /\ row'[p] = row[p]
      BY <1>1, <2>2, UntouchedPeers
    <3>2. up'[row[p].name].peers \in {up[row[p].name].peers, {}}
      BY <1>1, <2>1, <2>2, <3>1, CleanHolds
    <3>3. up[row[p].name].peers \in {{p}, {}}
      BY <2>2, <3>1 DEF CleanLinks
    <3> QED
      BY <3>1, <3>2, <3>3
  <2>3. CASE ConvergeEnd /\ s = Own /\ conv.ok /\ ~Pending(s)
    <3>1. up' = up /\ Fleet' = Fleet /\ row' = row
      BY <2>3 DEF ConvergeEnd, linkVars, host, Fleet
    <3>2. p \in Peer /\ conv.fleet.row[p] = row[p] /\ LinkDone(p)
      BY <1>1, <2>3, <3>1, EndFacts
    <3> QED
      BY <3>1, <3>2 DEF PlacedPlan
  <2> QED
    BY <1>1, <2>1, <2>2, <2>3, CleanStep
<1>3. CASE Beside
  <2>1. Clean(s) /\ Fleet' = Fleet /\ row' = row /\ Taken
    BY <1>1, <1>3, BesideKeeps DEF Beside
  <2>2. row[p].name \in Iface
    <3>1. p \in Peer /\ HasLink(Fleet.row[p]) /\ Fleet.row = row
      BY <1>1, <2>1, LinkedInFleet DEF Fleet
    <3> QED
      BY <1>1, <3>1, LinkOwners DEF Iface
  <2>3. up'[row[p].name].peers \in {up[row[p].name].peers, {}}
    BY <2>1, <2>2, TakenPeers
  <2>4. up[row[p].name].peers \in {{p}, {}}
    BY <2>1 DEF CleanLinks
  <2> QED
    BY <2>1, <2>3, <2>4
<1>4. CASE Ended
  BY <1>4, EndedKeeps
<1> QED
  BY <1>2, <1>3, <1>4

LEMMA AllSweptManaged ==
  ASSUME ConstantsOK, InterfacesApart, ConvergeTypeOK, ManagerHolds, ManagerHolds', SweptPlan, ~blind => AllSwept,
         Beside \/ Ended \/ Worked, ~blind'
  PROVE  AllSwept'
<1>1. /\ LinksTypeOK /\ WorkOK /\ HostOK /\ TallyOK
      /\ LinksInv /\ LinksInv' /\ NamesInv /\ HomesInv /\ OwnReconcile /\ SnapInv /\ StepsInv
  BY DEF ConvergeTypeOK, ManagerHolds
<1>2. CASE Worked
  <2>1. [Next]_vars /\ (~blind \/ conv.pc = "list")
    BY <1>2 DEF Worked
  <2>2. CASE conv.pc = "list"
    \* The server whose converge runs is not clean, and is not clean after the step either.
    <3>1. PICK t \in Server : Head(chain) = ConvergeJob(t)
      BY <1>1, <2>2 DEF WorkOK
    <3>2. ~Clean(t) /\ ~ConvergeEnd
      BY <2>2, <3>1 DEF Clean, Running, ConvergeEnd
    <3>3. ~Clean(t)'
      BY <1>1, <2>1, <3>2, CleanStep
    <3> QED
      BY <3>3 DEF AllSwept
  <2>3. CASE ~blind
    <3>1. EndSwept
      <4> SUFFICES ASSUME ConvergeEnd, conv.ok, NEW i \in Ordinal, IsUp(i)
                   PROVE  i \in LinkNames(conv.fleet)
        BY DEF EndSwept
      <4>1. Applying /\ Unstopped(i)
        BY <1>1 DEF ConvergeEnd, StepsInv, Applying, Unstopped
      <4> QED
        BY <2>3, <4>1 DEF SweptPlan
    <3> QED
      BY <1>1, <2>1, <2>3, <3>1, AllSweptStep
  <2> QED
    BY <2>1, <2>2, <2>3
<1>3. ASSUME Taken, Fleet' = Fleet, blind' = blind, \A s \in Server : Clean(s)' => Clean(s)
      PROVE  AllSwept'
  <2> SUFFICES ASSUME \A s \in Server : Clean(s)', NEW i \in Ordinal, up'[i] # Down
               PROVE  i \in LinkNames(Fleet)
    BY <1>3 DEF AllSwept, IsUp
  <2>1. up[i] # Down
    BY <1>3, TakenPeers DEF Iface
  <2> QED
    BY <1>3, <2>1 DEF AllSwept, IsUp
<1>4. CASE Beside
  BY <1>1, <1>3, <1>4, BesideKeeps DEF Beside
<1>5. CASE Ended
  BY <1>3, <1>5, EndedKeeps DEF Ended
<1> QED
  BY <1>2, <1>4, <1>5

\* A route leads through a link, so what is lost beside the chain takes none along.
LEMMA SparedRoutes ==
  ASSUME InterfacesApart, Taken, RoutesUp, NEW s \in Server, Spared(s)
  PROVE  /\ \A t \in RouteTable : dflt'[t] = dflt[t]
         /\ \A p \in Peer : main'[p] = main[p]
         /\ \A i \in Ordinal : up'[i] = up[i]
<1>1. ASSUME NEW t \in RouteTable, dflt[t] \in Server
      PROVE  FALSE
  BY <1>1 DEF RoutesUp, InterfacesApart
<1>2. ASSUME NEW p \in Peer, main[p] \in Server
      PROVE  FALSE
  BY <1>2 DEF RoutesUp, InterfacesApart
<1> QED
  BY <1>1, <1>2 DEF Spared

\* So a peer that was led and steered stays so.
LEMMA SparedSteering ==
  ASSUME ConstantsOK, InterfacesApart, Taken, RoutesUp, rules' = rules, NEW s \in Server, Spared(s),
         NEW f \in Snapshot, NEW p \in Peer, f.row[p].name \in Ordinal, f.row[p].table \in RouteTable
  PROVE  (Led(f, p) => Led(f, p)') /\ (Steered(f, p) => Steered(f, p)')
BY SparedRoutes DEF Led, Steered, IsUp

LEMMA SoundRouteStep ==
  ASSUME ConstantsOK, InterfacesApart, ConvergeTypeOK, ManagerHolds, Sound => RouteInv, Beside \/ Ended \/ Worked, Sound'
  PROVE  RouteInv'
<1> SUFFICES ASSUME conv'.pc = "route", routed'
             PROVE  RouteInv'
  BY DEF RouteInv
<1>1. LinksTypeOK /\ WorkOK /\ HostOK /\ StepsInv /\ SnapInv /\ RoutesUp
  BY DEF ConvergeTypeOK, ManagerHolds
<1>2. CASE Worked
  <2>1. [Next]_vars
    BY <1>2 DEF Worked
  <2>2. Own' = Own /\ InJob
    BY <1>1, <2>1, PlanKinds
  <2>3. RouteInv
    BY <1>2, <2>2, StillSound
  <2> QED
    BY <1>1, <2>1, <2>3, RouteStep
<1>3. CASE Beside
  <2>1. conv' = conv /\ rules' = rules /\ routed' = routed /\ Taken /\ InJob
    BY <1>3 DEF Beside, InJob
  <2>2. Own \in Server /\ Sound /\ Spared(Own)
    BY <1>3, <2>1, BesideSound
  <2>3. RouteInv /\ conv.fleet \in Snapshot /\ Closed(conv.fleet)
    BY <1>1, <2>1, <2>2, PlanFacts
  <2>4. ASSUME NEW s \in Server, NEW p \in LinkedPeers(conv.fleet, s)
        PROVE  /\ Led(conv.fleet, p) => Led(conv.fleet, p)'
               /\ Steered(conv.fleet, p) => Steered(conv.fleet, p)'
    <3>1. p \in Peer /\ HasLink(conv.fleet.row[p])
      BY <2>3, <2>4, LinkedInFleet
    <3>2. conv.fleet.row[p].name \in Ordinal /\ conv.fleet.row[p].table \in RouteTable
      BY <2>3, <3>1, LinkOwners
    <3>3. conv'.fleet = conv.fleet
      BY <2>1
    <3> QED
      BY <1>1, <2>1, <2>2, <2>3, <3>1, <3>2, <3>3, SparedSteering DEF Led, Steered
  <2> QED
    BY <2>1, <2>3, <2>4 DEF RouteInv, Led, Steered
<1>4. CASE Ended
  BY <1>4 DEF Ended, ProcessEnds, IdleConv
<1> QED
  BY <1>2, <1>3, <1>4

LEMMA BootedQuietStep ==
  ASSUME ConstantsOK, InterfacesApart, ConvergeTypeOK, ManagerHolds, ManagerHolds', Sound => RouteInv,
         (\A s \in Server : Booted(s)) => QuietInv, Beside \/ Ended \/ Worked, \A s \in Server : Booted(s)'
  PROVE  QuietInv'
<1>1. /\ LinksTypeOK /\ WorkOK /\ HostOK /\ TallyOK
      /\ LinksInv /\ LinksInv' /\ NamesInv /\ HomesInv /\ SnapInv /\ RoutesUp
  BY DEF ConvergeTypeOK, ManagerHolds
<1>2. CASE Worked
  <2>1. [Next]_vars /\ \A s \in Server : Booted(s)
    BY <1>2 DEF Worked
  <2>2. Ahead = {} => RouteInv
    <3> SUFFICES ASSUME Ahead = {}, InJob
                 PROVE  RouteInv
      BY DEF RouteInv, InJob
    <3>1. Own \in Server /\ ~Pending(Own)
      BY <1>1, PlanFacts DEF Pending
    <3> QED
      BY <2>1, <3>1 DEF Sound, InJob
  <2> QED
    BY <1>1, <2>1, <2>2, QuietStep
<1>3. CASE Beside
  <2> SUFFICES ASSUME Settled', routed', NEW p \in Peer, HasLink(row[p])
               PROVE  Led(Fleet, p)' /\ Steered(Fleet, p)'
    BY <1>1, <1>3, BesideKeeps DEF QuietInv
  <2>1. Fleet' = Fleet /\ rules' = rules /\ Taken
    BY <1>1, <1>3, BesideKeeps DEF Beside
  <2>2. \A s \in Server : ~Enqueue(ConvergeJob(s))
    <3>1. chain' = <<>> /\ chain \in Seq(Job) /\ \A s \in Server : ConvergeJob(s) \in Job
      BY <1>1 DEF Settled, Quiet, WorkOK, Job
    <3> QED
      BY <3>1, EnqueueShape
  <2>3. Settled /\ routed /\ \A s \in Server : Booted(s) /\ Spared(s)
    BY <1>3, <2>2 DEF Beside, Settled, Quiet
  <2>4. Led(Fleet, p) /\ Steered(Fleet, p)
    BY <2>3 DEF QuietInv
  <2>5. Fleet \in Snapshot /\ Closed(Fleet) /\ Fleet.row = row
    BY <1>1, FleetOK DEF Fleet
  <2>6. Home[p] \in Server /\ Fleet.row[p].name \in Ordinal /\ Fleet.row[p].table \in RouteTable
    BY <2>5, LinkOwners
  <2>7. Spared(Home[p])
    BY <2>3, <2>6
  <2> QED
    BY <1>1, <2>1, <2>4, <2>5, <2>6, <2>7, SparedSteering DEF Led, Steered
<1>4. CASE Ended
  <2>1. Peer = {}
    BY <1>4 DEF Ended, ConstantsOK
  <2> QED
    BY <2>1 DEF QuietInv
<1> QED
  BY <1>2, <1>3, <1>4

LEMMA SweepFirstStep == ASSUME mgr \in Manager, SweepFirst, [ManagerNext]_managerVars PROVE SweepFirst'
<1>1. ASSUME NEW s \in Server, BootConverge(s) \/ ReviveServer(s)
      PROVE  SweepFirst'
  BY <1>1 DEF BootConverge, ReviveServer, AwaitConverge, Manager, SweepFirst
<1>2. CASE Start \/ BootList \/ BootEnd
  BY <1>2 DEF Start, BootList, BootEnd, SweepAndConverge, Off, Manager, SweepFirst
<1>3. ASSUME NEW i \in Iface, Sweep(i)
      PROVE  SweepFirst'
  BY <1>3 DEF Sweep, Dead, Off, Manager, SweepFirst
<1>4. CASE TickBegin \/ \E s \in Server : ShowServer(s)
  BY <1>4 DEF TickBegin, ShowServer, BetweenTicks, Manager, SweepFirst
<1>5. CASE Stop
  BY <1>5 DEF Stop, Manager, SweepFirst
<1>6. ASSUME StopSeen \/ (\E i \in Iface : StopLook(i)) \/ Serve \/ (\E s \in Server : Lose(s)) \/ UNCHANGED managerVars
      PROVE  SweepFirst'
  BY <1>6 DEF StopSeen, StopLook, Serve, Lose, managerVars, SweepFirst
<1>7. ASSUME Exit \/ Crash \/ \E h \in Handler : CrashAfterTeardown(h)
      PROVE  SweepFirst'
  <2>1. ProcessEnds
    BY <1>7 DEF Exit, Crash, CrashAfterTeardown
  <2>2. mgr' = Off
    BY <2>1 DEF ProcessEnds
  <2> QED
    BY <2>2 DEF Off, SweepFirst
<1>8. CASE Run
  <2>1. CASE mgr' = Dead
    BY <2>1 DEF Dead, Off, SweepFirst
  <2>2. CASE mgr' = [mgr EXCEPT !.ahead = IF Waiting /\ chain' # chain THEN @ - 1 ELSE @]
    BY <2>2 DEF Manager, SweepFirst
  <2> QED
    BY <1>8, <2>1, <2>2 DEF Run
<1> QED
  BY <1>1, <1>2, <1>3, <1>4, <1>5, <1>6, <1>7, <1>8 DEF ManagerNext, Boot, Loop, Shutdown

LEMMA LostDownStep ==
  ASSUME ManagerShape, LostDown, Beside \/ Ended \/ Worked
  PROVE  LostDown'
<1>1. \A s \in lost : s \in Iface
  BY DEF ManagerShape, Iface
<1> QED
  BY <1>1 DEF Beside, Ended, Worked, Taken, LostDown

LEMMA BootedInit == ASSUME ConstantsOK, InterfacesApart, BootOK, ManagerInit PROVE ManagerHolds /\ BootedHost
<1>1. LinksInv
  BY ManagerInitInv
<1>2. \A p \in Peer : row[p] \in {Blank, [Blank EXCEPT !.role = "exit"]}
  BY DEF ManagerInit
<1>3. NamesInv /\ HomesInv
  BY <1>2 DEF ManagerInit, NamesInv, HomesInv, Blank, IdleReq, IdleRec
<1>4. conv.pc = "idle" /\ conv.links = {} /\ (\A i \in Iface : up[i] = Down) /\ lost = {} /\ mgr = Off
  BY DEF ManagerInit, IdleConv
<1>5. OwnReconcile /\ SnapInv /\ StepsInv
  BY <1>4 DEF OwnReconcile, SnapInv, InJob, StepsInv
<1>6. LinksShown /\ RoutesUp
  BY <1>4 DEF ManagerInit, LinksShown, RoutesUp, IsUp, Iface
<1>7. SweepFirst /\ LostDown
  BY <1>4 DEF SweepFirst, LostDown, Off
<1>8. SweptPlan /\ PlacedPlan /\ ServedPlan /\ RouteInv
  BY <1>4 DEF SweptPlan, PlacedPlan, ServedPlan, RouteInv, Applying, LinkDone, ServerDone
<1>9. \A s \in Server : ~Clean(s) /\ ~Booted(s)
  BY <1>4 DEF ManagerInit, Clean, Booted, Off
<1>10. CleanServers /\ CleanLinks
  BY <1>9 DEF CleanServers, CleanLinks
<1>11. AllSwept
  BY <1>4 DEF AllSwept, IsUp, Iface
<1>12. QuietInv
  BY <1>2 DEF QuietInv, HasLink, Blank
<1> QED
  BY <1>1, <1>3, <1>5, <1>6, <1>7, <1>8, <1>10, <1>11, <1>12 DEF ManagerHolds, BootedHost

LEMMA BootedStep ==
  ASSUME ConstantsOK, InterfacesApart, ManagerShape, ManagerHolds, BootedHost, [ManagerNext]_managerVars
  PROVE  ManagerHolds' /\ BootedHost'
<1>1. ConvergeTypeOK /\ mgr \in Manager
  BY DEF ManagerShape
<1>2. /\ SweepFirst /\ LostDown
      /\ SweptPlan /\ PlacedPlan /\ ServedPlan
      /\ CleanServers /\ CleanLinks /\ (~blind => AllSwept)
      /\ Sound => RouteInv
      /\ (\A s \in Server : Booted(s)) => QuietInv
  BY DEF BootedHost
<1>3. Beside \/ Ended \/ Worked
  BY <1>2, ManagerKinds
<1>4. ManagerHolds'
  BY <1>1, <1>3, HoldsStep
<1>5. SweepFirst' /\ LostDown'
  BY <1>1, <1>2, <1>3, SweepFirstStep, LostDownStep
<1>6. SweptPlan' /\ PlacedPlan' /\ ServedPlan'
  BY <1>1, <1>2, <1>3, SweptPlanStep, PlacedPlanStep, ServedPlanStep
<1>7. CleanServers'
  BY <1>1, <1>2, <1>3, <1>4, CleanServersStep
<1>8. CleanLinks'
  BY <1>1, <1>2, <1>3, <1>4, CleanLinksStep
<1>9. ~blind' => AllSwept'
  BY <1>1, <1>2, <1>3, <1>4, AllSweptManaged
<1>10. Sound' => RouteInv'
  BY <1>1, <1>2, <1>3, SoundRouteStep
<1>11. (\A s \in Server : Booted(s)') => QuietInv'
  BY <1>1, <1>2, <1>3, <1>4, BootedQuietStep
<1> QED
  BY <1>4, <1>5, <1>6, <1>7, <1>8, <1>9, <1>10, <1>11 DEF BootedHost

\* A table leads only through the link it belongs to, whatever the manager does.
LEMMA ManagerChosenStep ==
  ASSUME ConstantsOK, ConvergeTypeOK, ManagerHolds, ChosenInv, Beside \/ Ended \/ Worked
  PROVE  ChosenInv'
<1>1. LinksInv /\ WorkOK /\ HostOK
  BY DEF ConvergeTypeOK, ManagerHolds
<1>2. CASE Worked
  BY <1>1, <1>2, ChosenStep DEF Worked
<1>3. ASSUME Taken, UNCHANGED row, conv'.pc = "idle" \/ conv' = conv, rec'.pc = "idle" \/ rec' = rec
      PROVE  ChosenInv'
  <2>1. PICK Table :
          /\ NthTable(Table) /\ TablesInv(Table)
          /\ InJob => \A p \in Peer : HasLink(conv.fleet.row[p]) => Follows(Table, conv.fleet.row[p])
          /\ \A t \in RouteTable : dflt[t] # None => dflt[t] \in DOMAIN Table /\ Table[dflt[t]] = t
    BY DEF ChosenInv
  <2>2. NthTable(Table)'
    BY <2>1 DEF NthTable, Nth
  <2>3. TablesInv(Table)'
    BY <1>3, <2>1 DEF TablesInv, Follows
  <2>4. InJob' => \A p \in Peer : HasLink(conv'.fleet.row[p]) => Follows(Table, conv'.fleet.row[p])
    BY <1>3, <2>1 DEF InJob
  <2>5. \A t \in RouteTable : dflt'[t] # None => dflt'[t] \in DOMAIN Table /\ Table[dflt'[t]] = t
    BY <1>3, <2>1 DEF Taken
  <2> QED
    BY <2>2, <2>3, <2>4, <2>5 DEF ChosenInv, HasLink, Follows
<1>4. CASE Beside
  BY <1>3, <1>4 DEF Beside, linkVars
<1>5. CASE Ended
  BY <1>3, <1>5 DEF Ended, ProcessEnds, IdleConv, IdleRec
<1> QED
  BY <1>2, <1>4, <1>5

LEMMA ManagerChosenInit == ASSUME ConstantsOK, ManagerInit PROVE ChosenInv
<1>1. PICK Table : NthTable(Table)
  BY TableExists
<1>2. TablesInv(Table)
  BY DEF ManagerInit, TablesInv, Blank, IdleRec
<1>3. ~InJob /\ \A t \in RouteTable : dflt[t] = None
  BY DEF ManagerInit, IdleConv, InJob
<1> QED
  BY <1>1, <1>2, <1>3 DEF ChosenInv

\* Whatever processes died or were stopped before, and wherever: once a boot has come to its end, no
\* server is lost and the last plan saw the interfaces, a host that has nothing left to do carries
\* the interfaces, the routes and the rules of the rows.
THEOREM BootRecovers == ManagerSpec => []RecoveredMatchesRows
<1> DEFINE IInv == ManagerShape /\ ManagerHolds /\ BootedHost /\ ChosenInv
<1>1. ManagerInit => IInv
  BY ManagerInitShape, BootedInit, ManagerChosenInit, ConstantsOK, InterfacesApart, BootOK
<1>2. IInv /\ [ManagerNext]_managerVars => IInv'
  <2> SUFFICES ASSUME IInv, [ManagerNext]_managerVars
               PROVE  IInv'
    OBVIOUS
  <2>1. ManagerShape' /\ ManagerHolds' /\ BootedHost'
    BY ManagerShapeStep, BootedStep, ConstantsOK, InterfacesApart
  <2>2. Beside \/ Ended \/ Worked
    BY ManagerKinds, ConstantsOK, InterfacesApart DEF BootedHost
  <2>3. ChosenInv'
    BY <2>2, ManagerChosenStep, ConstantsOK DEF ManagerShape
  <2> QED
    BY <2>1, <2>3
<1>3. IInv => RecoveredMatchesRows
  <2> SUFFICES ASSUME IInv, Recovered
               PROVE  MembersMatchRows /\ SteeredToChoice /\ RoutesMatchRows
    BY DEF RecoveredMatchesRows
  <2>1. LinksInv /\ NamesInv /\ WorkOK /\ HostOK /\ LinksShown /\ RoutesUp /\ ChosenInv
    BY DEF ManagerShape, ConvergeTypeOK, ManagerHolds
  <2>2. (\A s \in Server : Booted(s) /\ s \notin lost) /\ ~blind
    BY DEF Recovered, Booted
  <2>3. CleanInv
    BY <2>2 DEF BootedHost, CleanServers, CleanLinks, AllSwept, CleanInv
  <2>4. QuietInv
    BY <2>2 DEF BootedHost
  <2> QED
    BY <2>1, <2>3, <2>4, ConstantsOK, MembersMatch, SteeredMatch, RoutesMatch
<1> HIDE DEF IInv
<1> QED
  BY <1>1, <1>2, <1>3, PTL DEF ManagerSpec


-----------------------------------------------------------------------------
(* A stop that nothing else runs beside.                                   *)

\* Between the signal and the exit: whatever is still up is still to be deleted, and the tables of all
\* rows are still to be emptied.  After it, only what it leaves.
StopHolds ==
  stp.pc = "stop" /\ stp.alone =>
    /\ ~InFlight /\ mgr.pc = "halted"
    /\ \A i \in Iface : IsUp(i) => i \in stp.todo \cup {stp.seen}
    /\ \A p \in live : row[p].table \in stp.tables \cup {None}
DoneHolds == stp.pc = "done" /\ stp.alone => mgr.pc = "off" /\ StopLeavesNothing
StopInv == BareInv /\ StopHolds /\ DoneHolds

\* Nothing runs on a chain that is empty.
LEMMA IdleChain ==
  ASSUME WorkOK, ~InFlight
  PROVE  ~RunJob
<1>1. chain = <<>> /\ conv.pc = "idle" /\ rec.pc = "idle" /\ \A h \in Handler : req[h].pc = "idle"
  BY DEF InFlight, WorkOK
<1> QED
  BY <1>1 DEF RunJob, Teardown, TeardownBlind, TeardownFail, TeardownEnd, ConvergeBegin, RouteMain, RouteMainFail,
     ReconcileStep, ReconcileReject, ReconcileEnd, ListInterfaces, StopStep, StartStep, ReloadStep, RestartStep,
     IsNext, Drain, ConvergeEnd, RouteTableOf, RouteTableFail

\* What the plans left up when the last of them succeeded is what the stop goes through.
LEMMA StopClaims ==
  ASSUME ConstantsOK, ManagerHolds, WorkOK, AllSwept, Settled, mgr.pc = "loop", NEW i \in Iface, IsUp(i)
  PROVE  i \in Claimed
<1>1. CASE i \in Server
  BY <1>1 DEF Claimed
<1>2. CASE i \in Ordinal
  <2>1. i \in LinkNames(Fleet)
    BY <1>2, SettledClean DEF AllSwept
  <2>2. Fleet \in Snapshot /\ Fleet.row = row /\ Fleet.live = live
    BY FleetOK DEF ManagerHolds, Fleet
  <2>3. PICK s \in Server : \E p \in LinkedPeers(Fleet, s) : i = Fleet.row[p].name
    BY <2>1, <2>2, NameOwned
  <2>4. \E p \in ClaimedLinks : i = row[p].name
    BY <2>2, <2>3 DEF LinkedPeers, ClaimedLinks, HasLink
  <2> QED
    BY <2>4 DEF Claimed
<1> QED
  BY <1>1, <1>2 DEF Iface

LEMMA BareManaged ==
  ASSUME ConstantsOK, ManagerHolds, BareInv, [ManagerNext]_managerVars
  PROVE  BareInv'
<1>1. CASE ProcessEnds
  BY <1>1 DEF ProcessEnds, BareInv
<1>2. CASE ~ProcessEnds
  BY <1>2, ManagerStepRefines, BareStep DEF ManagerHolds
<1> QED
  BY <1>1, <1>2

\* With no route left that leads through an interface that is down, and the rules of every row
\* drained, nothing is left.
LEMMA ExitLeaves ==
  ASSUME ConstantsOK, InterfacesApart, ManagerShape, ManagerHolds, StopHolds, Exit, stp'.pc = "done", stp'.alone
  PROVE  mgr'.pc = "off" /\ StopLeavesNothing'
<1>1. /\ HostOK /\ RoutesUp /\ stp \in Stopping
      /\ stp.pc = "stop" /\ stp.seen = None /\ stp.todo = {}
      /\ UNCHANGED <<up, live, row>> /\ mgr'.pc = "off"
  BY DEF ManagerShape, ConvergeTypeOK, ManagerHolds, Exit, ProcessEnds, Off
<1>2. stp.alone /\ DrainTables(stp.tables) /\ dflt' = [t \in RouteTable |-> IF t \in stp.tables THEN None ELSE dflt[t]]
  <2>1. stp' # [NotStopping EXCEPT !.pc = "done"]
    BY DEF NotStopping
  <2>2. stp' = [stp EXCEPT !.pc = "done"] /\ DrainTables(stp.tables)
        /\ dflt' = [t \in RouteTable |-> IF t \in stp.tables THEN None ELSE dflt[t]]
    BY <2>1 DEF Exit
  <2> QED
    BY <1>1, <2>2 DEF Stopping
<1>3. None \notin Iface /\ None \notin RouteTable
  BY DEF ConstantsOK, InterfacesApart, Iface
<1>4. (\A i \in Iface : ~IsUp(i)) /\ \A p \in live : row[p].table \in stp.tables \cup {None}
  BY <1>1, <1>2, <1>3 DEF StopHolds
<1>5. \A i \in Iface : up'[i] = Down
  BY <1>1, <1>4 DEF IsUp
<1>6. \A t \in RouteTable : dflt'[t] = None
  <2>1. \A t \in RouteTable : dflt[t] = None
    BY <1>1, <1>4 DEF RoutesUp, Iface
  <2> QED
    BY <1>2, <2>1
<1>7. \A r \in rules' : r[2] \notin {row'[p].table : p \in live'}
  <2> SUFFICES ASSUME NEW r \in rules', NEW p \in live, r[2] = row[p].table
               PROVE  FALSE
    BY <1>1
  <2>1. r \in rules /\ r[2] \notin stp.tables
    BY <1>2 DEF DrainTables
  <2>2. r[2] \in RouteTable
    BY <1>1, <2>1 DEF HostOK
  <2> QED
    BY <1>3, <1>4, <2>1, <2>2
<1> QED
  BY <1>1, <1>5, <1>6, <1>7 DEF StopLeavesNothing, IsUp

\* The stop goes through what it claims, and everything else that could touch the host or the rows
\* takes place only if it does not run alone.
LEMMA StopHoldsStep ==
  ASSUME ConstantsOK, InterfacesApart, ManagerShape, ManagerHolds, BootedHost, BareInv, StopHolds, [ManagerNext]_managerVars
  PROVE  StopHolds'
<1> SUFFICES ASSUME stp'.pc = "stop", stp'.alone
             PROVE  /\ ~InFlight' /\ mgr'.pc = "halted"
                    /\ \A i \in Iface : up'[i] # Down => i \in stp'.todo \cup {stp'.seen}
                    /\ \A p \in live' : row'[p].table \in stp'.tables \cup {None}
  BY DEF StopHolds, IsUp
<1>1. /\ WorkOK /\ HostOK /\ LinksTypeOK /\ mgr \in Manager /\ stp \in Stopping
      /\ (~blind => AllSwept) /\ None \notin Iface
  BY DEF ManagerShape, ConvergeTypeOK, BootedHost, ConstantsOK, InterfacesApart, Iface
<1>2. ASSUME stp.pc = "stop", stp.alone
      PROVE  /\ ~InFlight /\ mgr.pc = "halted" /\ ~BetweenTicks
             /\ \A i \in Iface : up[i] # Down => i \in stp.todo \cup {stp.seen}
             /\ \A p \in live : row[p].table \in stp.tables \cup {None}
  BY <1>2 DEF StopHolds, IsUp, BetweenTicks
<1>3. CASE Stop
  <2>1. /\ stp'.todo = Claimed /\ stp'.tables = {row[p].table : p \in ClaimedLinks}
        /\ BetweenTicks /\ ~InFlight /\ Settled /\ ~blind /\ mgr' = [mgr EXCEPT !.pc = "halted"]
        /\ UNCHANGED vars
    BY <1>3 DEF Stop
  <2>2. mgr'.pc = "halted" /\ ~InFlight' /\ live' = live /\ row' = row /\ up' = up
    BY <1>1, <2>1 DEF Manager, InFlight, vars, linkVars, host
  <2>3. \A i \in Iface : up[i] # Down => i \in Claimed
    BY <1>1, <2>1, StopClaims DEF BetweenTicks, IsUp
  <2>4. ASSUME NEW p \in live, row[p].table # None
        PROVE  row[p].table \in {row[q].table : q \in ClaimedLinks}
    <3>1. p \in ClaimedLinks
      BY <1>1, <2>4 DEF LinksTypeOK, BareInv, ClaimedLinks
    <3> QED
      BY <3>1
  <2> QED
    BY <2>1, <2>2, <2>3, <2>4
<1>4. ASSUME NEW i \in Iface, StopLook(i)
      PROVE  /\ ~InFlight' /\ mgr'.pc = "halted"
             /\ \A j \in Iface : up'[j] # Down => j \in stp'.todo \cup {stp'.seen}
             /\ \A p \in live' : row'[p].table \in stp'.tables \cup {None}
  <2>1. /\ stp' = [stp EXCEPT !.todo = @ \ {i}, !.seen = IF IsUp(i) THEN i ELSE None]
        /\ UNCHANGED vars /\ mgr' = mgr /\ stp.seen = None
    <3>1. stp' # [stp EXCEPT !.todo = @ \ {i}, !.alone = FALSE]
      BY <1>1 DEF Stopping
    <3> QED
      BY <1>4, <3>1 DEF StopLook
  <2>2. /\ stp.pc = "stop" /\ stp.alone /\ stp'.tables = stp.tables /\ stp'.todo = stp.todo \ {i}
        /\ stp'.seen = IF IsUp(i) THEN i ELSE None
    BY <1>1, <2>1 DEF Stopping
  <2>3. ~InFlight' /\ live' = live /\ row' = row /\ up' = up
    BY <1>2, <2>1, <2>2 DEF InFlight, vars, linkVars, host
  <2> QED
    BY <1>1, <1>2, <2>1, <2>2, <2>3 DEF IsUp
<1>5. CASE StopSeen
  <2>1. /\ Delete(stp.seen) /\ stp' = [stp EXCEPT !.seen = None]
        /\ UNCHANGED <<linkVars, chain, mgr>> /\ stp.seen \in Iface
    <3>1. stp' # [NotStopping EXCEPT !.pc = "stuck"]
      BY DEF NotStopping
    <3> QED
      BY <1>1, <1>5, <3>1 DEF StopSeen, Stopping
  <2>2. stp.pc = "stop" /\ stp.alone /\ stp'.tables = stp.tables /\ stp'.todo = stp.todo
    BY <1>1, <2>1 DEF Stopping
  <2>3. up'[stp.seen] = Down /\ \A j \in Iface \ {stp.seen} : up'[j] = up[j]
    BY <1>1, <2>1 DEF Delete, HostOK
  <2>4. ~InFlight' /\ live' = live /\ row' = row
    BY <1>2, <2>1, <2>2 DEF InFlight, linkVars
  <2> QED
    BY <1>2, <2>1, <2>2, <2>3, <2>4
<1>6. ASSUME NEW s \in Server, Lose(s)
      PROVE  /\ ~InFlight' /\ mgr'.pc = "halted"
             /\ \A i \in Iface : up'[i] # Down => i \in stp'.todo \cup {stp'.seen}
             /\ \A p \in live' : row'[p].table \in stp'.tables \cup {None}
  <2>1. Delete(s) /\ UNCHANGED <<linkVars, chain, mgr, stp>>
    BY <1>6 DEF Lose
  <2>2. \A i \in Iface : up'[i] # Down => up[i] # Down
    BY <1>1, <2>1 DEF Delete, HostOK
  <2>3. ~InFlight' /\ live' = live /\ row' = row
    BY <1>2, <2>1 DEF InFlight, linkVars
  <2> QED
    BY <1>2, <2>1, <2>2, <2>3
<1>7. ~Start /\ ~Exit /\ ~Crash /\ ~Serve /\ ~Run /\ ~(\E h \in Handler : CrashAfterTeardown(h))
  <2>1. ~Start /\ ~Crash /\ ~(\E h \in Handler : CrashAfterTeardown(h))
    <3>1. stp' # NotStopping
      BY DEF NotStopping
    <3>2. ~Start
      BY <3>1 DEF Start
    <3>3. ~Crash
      BY <3>1 DEF Crash
    <3>4. ~(\E h \in Handler : CrashAfterTeardown(h))
      BY <3>1 DEF CrashAfterTeardown
    <3> QED
      BY <3>2, <3>3, <3>4
  <2>2. ~Exit
    <3>1. [stp EXCEPT !.pc = "done"].pc = "done" /\ [NotStopping EXCEPT !.pc = "done"].pc = "done"
      BY <1>1 DEF Stopping, NotStopping
    <3> QED
      BY <3>1 DEF Exit
  <2>3. ~Serve
    BY <1>1 DEF Serve, Stopping
  <2>4. ~Run
    BY <1>1, <1>2, IdleChain DEF Run
  <2> QED
    BY <2>1, <2>2, <2>3, <2>4
<1>8. ~(\E s \in Server : BootConverge(s) \/ ReviveServer(s) \/ ShowServer(s)) /\ ~BootList /\ ~BootEnd /\ ~TickBegin
      /\ ~(\E i \in Iface : Sweep(i))
  <2>1. ~(\E s \in Server : ReviveServer(s))
    BY <1>1 DEF ReviveServer, Stopping
  <2> SUFFICES ASSUME stp' = stp, mgr.pc # "halted"
               PROVE  FALSE
    BY <2>1 DEF BootConverge, ShowServer, BootList, BootEnd, TickBegin, BetweenTicks, Sweep
  <2> QED
    BY <1>2
<1>9. CASE UNCHANGED managerVars
  <2>1. stp' = stp /\ mgr' = mgr /\ live' = live /\ row' = row /\ up' = up /\ (InFlight' <=> InFlight)
    BY <1>9 DEF managerVars, vars, linkVars, host, InFlight
  <2> QED
    BY <1>2, <2>1
<1> QED
  BY <1>3, <1>4, <1>5, <1>6, <1>7, <1>8, <1>9 DEF ManagerNext, Boot, Loop, Shutdown

\* After the exit there is no process that could bring anything back: the next one starts anew.
LEMMA DoneHoldsStep ==
  ASSUME ConstantsOK, InterfacesApart, ManagerShape, ManagerHolds, StopHolds, DoneHolds, [ManagerNext]_managerVars
  PROVE  DoneHolds'
<1> SUFFICES ASSUME stp'.pc = "done", stp'.alone
             PROVE  mgr'.pc = "off" /\ StopLeavesNothing'
  BY DEF DoneHolds
<1>1. stp \in Stopping /\ mgr \in Manager /\ WorkOK /\ (mgr.pc = "off" => ~InFlight)
  BY DEF ManagerShape, ConvergeTypeOK, Alive, NoWork
<1>2. CASE Exit
  BY <1>2, ExitLeaves
<1>3. CASE UNCHANGED managerVars
  <2>1. stp' = stp /\ mgr' = mgr /\ UNCHANGED <<live, row, up, rules, dflt>>
    BY <1>3 DEF managerVars, vars, linkVars, host
  <2> QED
    BY <2>1 DEF DoneHolds, StopLeavesNothing, IsUp
<1>4. CASE stp.pc = "done" /\ stp.alone /\ ~Exit /\ ~UNCHANGED managerVars
  <2>1. mgr.pc = "off"
    BY <1>4 DEF DoneHolds
  <2>2. ~Start
    BY DEF Start, NotStopping
  <2>3. ~Run
    BY <1>1, <2>1, IdleChain DEF Run
  <2> QED
    BY <1>4, <2>1, <2>2, <2>3
    DEF ManagerNext, Boot, Loop, Shutdown, BootList, Sweep, BootConverge, BootEnd, TickBegin, ShowServer,
        ReviveServer, BetweenTicks, Stop, StopLook, StopSeen, Crash, CrashAfterTeardown, Serve, Lose, Alive
<1>5. CASE ~(stp.pc = "done" /\ stp.alone) /\ ~Exit /\ ~UNCHANGED managerVars
  <2>1. stp' # stp /\ (stp' # [stp EXCEPT !.alone = FALSE])
    BY <1>1, <1>5 DEF Stopping
  <2>2. ~Start /\ ~Stop /\ ~Crash /\ ~(\E h \in Handler : CrashAfterTeardown(h))
    <3>1. stp' # NotStopping
      BY DEF NotStopping
    <3>2. ~Start
      BY <3>1 DEF Start
    <3>3. ~Crash
      BY <3>1 DEF Crash
    <3>4. ~(\E h \in Handler : CrashAfterTeardown(h))
      BY <3>1 DEF CrashAfterTeardown
    <3>5. ~Stop
      BY DEF Stop
    <3> QED
      BY <3>2, <3>3, <3>4, <3>5
  <2>3. ~StopSeen
    BY <1>1 DEF StopSeen, Stopping, NotStopping
  <2>4. ~(\E i \in Iface : StopLook(i))
    BY <1>1 DEF StopLook, Stopping
  <2> QED
    BY <1>5, <2>1, <2>2, <2>3, <2>4
    DEF ManagerNext, Boot, Loop, Shutdown, BootList, Sweep, BootConverge, BootEnd, TickBegin, ShowServer,
        ReviveServer, Serve, Run, Lose
<1> QED
  BY <1>2, <1>3, <1>4, <1>5

\* Whatever the database and the host went through before: a SIGTERM that finds the process between
\* two ticks, with nothing in flight and the last plans applied, and that nothing disturbs, leaves no
\* interface, no default route and no rule of a row when the process exits.
THEOREM StopLeaves == ManagerSpec => []StopLeavesNothing
<1> DEFINE IInv == ManagerShape /\ ManagerHolds /\ BootedHost /\ StopInv
<1>1. ManagerInit => IInv
  <2>1. ManagerInit => BareInv
    BY DEF ManagerInit, BareInv, Blank
  <2>2. ManagerInit => StopHolds /\ DoneHolds
    BY DEF ManagerInit, StopHolds, DoneHolds, NotStopping
  <2> QED
    BY <2>1, <2>2, ManagerInitShape, BootedInit, ConstantsOK, InterfacesApart, BootOK DEF StopInv
<1>2. IInv /\ [ManagerNext]_managerVars => IInv'
  <2> SUFFICES ASSUME IInv, [ManagerNext]_managerVars
               PROVE  IInv'
    OBVIOUS
  <2>1. ManagerShape' /\ ManagerHolds' /\ BootedHost'
    BY ManagerShapeStep, BootedStep, ConstantsOK, InterfacesApart
  <2>2. BareInv' /\ StopHolds' /\ DoneHolds'
    BY BareManaged, StopHoldsStep, DoneHoldsStep, ConstantsOK, InterfacesApart DEF StopInv
  <2> QED
    BY <2>1, <2>2 DEF StopInv
<1>3. IInv => StopLeavesNothing
  BY DEF StopInv, DoneHolds, StopLeavesNothing
<1> HIDE DEF IInv
<1> QED
  BY <1>1, <1>2, <1>3, PTL DEF ManagerSpec

=============================================================================
