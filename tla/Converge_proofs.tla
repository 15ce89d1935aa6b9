--------------------------- MODULE Converge_proofs ---------------------------
(***************************************************************************)
(* Proofs about Converge.  The chain only ever takes steps that the rows   *)
(* may take in ExitLinks, so what ExitLinks_proofs shows of the rows holds *)
(* of the whole system, whatever fails on the host.                        *)
(***************************************************************************)
EXTENDS Converge, ExitLinks_proofs, SequenceTheorems

-----------------------------------------------------------------------------
(* Refinement.                                                             *)

\* A handler's step is an Api step, a step of a job is a Reconcile step or leaves the rows alone.
LEMMA StepRefines == ASSUME [Next]_vars PROVE [LinksNext]_linkVars
<1>1. ASSUME Handle
      PROVE  Api
  BY <1>1 DEF Handle, Api
<1>2. ASSUME NEW h \in Handler, Teardown(h) \/ TeardownBlind(h) \/ TeardownFail(h)
      PROVE  Api
  BY <1>2 DEF Teardown, TeardownBlind, TeardownFail, TeardownEnd, Api
<1>3. ASSUME NEW s \in Server, ConvergeBegin(s)
      PROVE  Reconcile
  BY <1>3 DEF ConvergeBegin, Reconcile
<1>4. ASSUME ReconcileStep \/ ReconcileReject \/ ReconcileEnd
      PROVE  Reconcile
  BY <1>4 DEF ReconcileStep, ReconcileReject, ReconcileEnd, Reconcile
<1>5. ASSUME NEW s \in Server, RouteMain(s) \/ RouteMainFail(s)
      PROVE  UNCHANGED linkVars
  BY <1>5 DEF RouteMain, RouteMainFail
<1>6. ASSUME NEW i \in Iface, StopStep(i)
      PROVE  UNCHANGED linkVars
  BY <1>6 DEF StopStep
<1>7. ASSUME NEW x \in conv.steps, StartStep(x) \/ ReloadStep(x) \/ RestartStep(x)
      PROVE  UNCHANGED linkVars
  BY <1>7 DEF StartStep, ReloadStep, RestartStep
<1>8. ASSUME NEW p \in Peer, RouteTableOf(p) \/ RouteTableFail(p)
      PROVE  UNCHANGED linkVars
  BY <1>8 DEF RouteTableOf, RouteTableFail
<1>9. ASSUME ListInterfaces \/ Drain \/ ConvergeEnd
      PROVE  UNCHANGED linkVars
  BY <1>9 DEF ListInterfaces, Drain, ConvergeEnd
<1>10. CASE UNCHANGED vars
  BY <1>10 DEF vars
<1> QED
  BY <1>1, <1>2, <1>3, <1>4, <1>5, <1>6, <1>7, <1>8, <1>9, <1>10 DEF Next, RunJob, LinksNext

\* The end of a reconcile that rejects, after an update that broke a UNIQUE column or a key that
\* could not be made.
LEMMA RejectShape ==
  ASSUME ReconcileReject
  PROVE  /\ conv.pc = "reconcile" /\ conv' = IdleConv /\ chain' = Tail(chain)
         /\ outcome' = [outcome EXCEPT ![Head(chain).of] = FALSE]
         /\ rec' = IdleRec /\ UNCHANGED <<live, fresh, row, srvPort, req, nextKey, ops>>
         /\ UNCHANGED <<host, routed>>
         /\ \/ rec.pc = "threw" /\ faults' = faults
            \/ rec.pc = "keygen" /\ faults' = faults + 1
<1>1. CASE rec.pc = "threw" /\ RecReturn /\ UNCHANGED faults
  BY <1>1 DEF ReconcileReject, RecReturn, Finish
<1>2. CASE RecNoKey /\ Fails(TRUE)
  BY <1>2 DEF ReconcileReject, RecNoKey, Finish, Fails
<1> QED
  BY <1>1, <1>2 DEF ReconcileReject

\* Every step is one of ExitLinks or leaves its variables alone, so that what holds of its
\* behaviours holds here.
LEMMA ConvergeRefines == Spec => LinksSpec
<1>1. Init => LinksInit
  BY DEF Init
<1>2. [Next]_vars => [LinksNext]_linkVars
  BY StepRefines
<1> QED
  BY <1>1, <1>2, PTL DEF Spec, LinksSpec

\* So no two peers ever share a name, a port, a table or a key in the whole system either.
THEOREM ConvergeKeepsLinksDistinct == Spec => []LinksDistinct
  BY ConvergeRefines, LinksAreDistinct, PTL

\* And the choice of every peer that was there at the start stays valid.
THEOREM ConvergeKeepsChoices == Spec => []ExistingChoicesValid
  BY ConvergeRefines, ExistingChoicesStayValid, PTL

-----------------------------------------------------------------------------
(* The shape of the state.                                                 *)

\* What queueing a job does to the chain: the job that runs stays at its head.
LEMMA EnqueueShape ==
  ASSUME chain \in Seq(Job), NEW job \in Job, Enqueue(job)
  PROVE  /\ chain' \in Seq(Job) /\ chain' # <<>>
         /\ chain # <<>> => Head(chain') = Head(chain)
<1>1. chain' = Append(chain, job)
  BY DEF Enqueue
<1>2. chain' \in Seq(Job) /\ Len(chain') = Len(chain) + 1 /\ \A i \in 1..Len(chain) : chain'[i] = chain[i]
  BY <1>1, AppendProperties
<1>3. chain # <<>> => Len(chain) > 0
  BY EmptySeq, LenProperties
<1>4. chain' # <<>>
  BY <1>2, LenProperties, EmptySeq
<1>5. ASSUME chain # <<>>
      PROVE  Head(chain') = Head(chain)
  <2>1. Head(chain') = chain'[1] /\ Head(chain) = chain[1]
    BY <1>2, <1>4, <1>5, HeadTailProperties
  <2>2. Len(chain) \in Nat /\ 1 \in 1..Len(chain)
    BY <1>3, <1>5, LenProperties
  <2> QED
    BY <1>2, <2>1, <2>2
<1> QED
  BY <1>2, <1>4, <1>5

\* A handler leaves the reconcile alone and puts at most one job on the chain.
LEMMA HandleShape ==
  ASSUME ConstantsOK, LinksTypeOK, Handle
  PROVE  /\ rec' = rec
         /\ chain' = chain \/ \E job \in Job : Enqueue(job)
<1>1. ASSUME NEW p \in Peer
      PROVE  ConvergeJob(Home[p]) \in Job
  BY DEF Job, ConstantsOK
<1>2. ASSUME NEW p \in Peer, NEW b \in Request, Patch(p, b), Enqueue(ConvergeJob(Home[p]))
      PROVE  rec' = rec /\ \E job \in Job : Enqueue(job)
  BY <1>1, <1>2 DEF Patch
<1>3. ASSUME NEW h \in Handler, NEW p \in Peer, NEW b \in Request, PostCheck(h, p, b), UNCHANGED chain
      PROVE  rec' = rec /\ chain' = chain
  BY <1>3 DEF PostCheck
<1>4. ASSUME NEW h \in Handler, PostInsert(h),
             IF req[h].peer \in live' THEN Enqueue(ConvergeJob(Home[req[h].peer])) ELSE UNCHANGED chain
      PROVE  rec' = rec /\ (chain' = chain \/ \E job \in Job : Enqueue(job))
  <2>1. req[h].peer \in Peer
    BY <1>4 DEF PostInsert, LinksTypeOK
  <2> QED
    BY <1>1, <1>4, <2>1 DEF PostInsert
<1>5. ASSUME NEW p \in Peer, DeleteUnlinked(p), Enqueue(ConvergeJob(Home[p]))
      PROVE  rec' = rec /\ \E job \in Job : Enqueue(job)
  BY <1>1, <1>5 DEF DeleteUnlinked
<1>6. ASSUME NEW h \in Handler, NEW p \in Peer, DeleteLinked(h, p), Enqueue(TeardownJob(h))
      PROVE  rec' = rec /\ \E job \in Job : Enqueue(job)
  BY <1>6 DEF DeleteLinked, Job
<1>7. ASSUME NEW s \in Server, NEW port \in ServerPort, PatchServer(s, port), Enqueue(ConvergeJob(s))
      PROVE  rec' = rec /\ \E job \in Job : Enqueue(job)
  BY <1>7 DEF PatchServer, Job
<1> QED
  BY <1>2, <1>3, <1>4, <1>5, <1>6, <1>7 DEF Handle

\* Deleting a device keeps the host well formed.
LEMMA DeleteShape ==
  ASSUME HostOK, NEW i, Delete(i)
  PROVE  /\ up' \in [Iface -> Config]
         /\ dflt' \in [RouteTable -> Iface \cup {None}] /\ main' \in [Peer -> Iface \cup {None}]
<1>1. Down \in Config
  BY DEF Down, Config
<1> QED
  BY <1>1 DEF Delete, HostOK

\* The steps of a plan are steps, and its stops are interfaces.
LEMMA PlanShape ==
  ASSUME ConstantsOK, NEW f \in Snapshot, NEW s \in Server, NEW upLeft, NEW provisioned
  PROVE  PlannedSteps(f, s, upLeft, provisioned) \subseteq Step
<1>1. ASSUME NEW i \in Iface
      PROVE  ActionFor(i, upLeft, provisioned) \in {"start", "reload", "restart"}
  BY DEF ActionFor
<1>2. ServerConfig(f, s) \in Config
  BY DEF ServerConfig, Config, Snapshot, PlainPeers
<1>3. ASSUME NEW p \in LinkedPeers(f, s)
      PROVE  LinkConfig(f, p) \in Config /\ f.row[p].name \in Ordinal
  <2>1. p \in Peer /\ f.row[p] \in Row /\ HasLink(f.row[p])
    BY DEF LinkedPeers, Snapshot
  <2>2. Port \subseteq Nat
    BY DEF Port, ConstantsOK
  <2> QED
    BY <2>1, <2>2 DEF LinkConfig, Config, HasLink, Row
<1> QED
  BY <1>1, <1>2, <1>3 DEF PlannedSteps, Step, Iface

\* The chain, the running converge and the reconcile fit together at the start.
LEMMA ConvergeTypeInit == ConstantsOK /\ Init => ConvergeTypeOK
<1> SUFFICES ASSUME ConstantsOK, Init
             PROVE  ConvergeTypeOK
  OBVIOUS
<1>1. LinksTypeOK
  BY TypeInit DEF Init
<1>2. chain \in Seq(Job) /\ conv \in Conv /\ conv.pc = "idle" /\ conv.links = {} /\ rec.pc = "idle"
  BY DEF Init, IdleConv, Conv, LinksInit, IdleRec
<1>3. Fleet \in Snapshot
  BY <1>1 DEF Fleet, Snapshot, LinksTypeOK
<1>4. ASSUME NEW s \in Server
      PROVE  ServerConfig(Fleet, s) \in Config
  BY <1>3 DEF ServerConfig, Config, Snapshot, PlainPeers
<1>5. up \in [Iface -> Config]
  BY <1>4 DEF Init, Down, Config
<1>6. /\ rules \subseteq Peer \X RouteTable
      /\ dflt \in [RouteTable -> Iface \cup {None}] /\ main \in [Peer -> Iface \cup {None}]
      /\ outcome \in [Server -> BOOLEAN] /\ routed \in BOOLEAN /\ faults \in Nat
  BY DEF Init
<1> QED
  BY <1>1, <1>2, <1>5, <1>6 DEF ConvergeTypeOK, WorkOK, HostOK, TallyOK

\* What a running converge changes of its own state between its plan and its end.
Onward == conv' \in Conv /\ conv'.pc = conv.pc /\ conv'.fleet = conv.fleet /\ conv'.links \subseteq conv.links

LEMMA OnwardShape ==
  ASSUME conv \in Conv
  PROVE  /\ SkipSteps \/ AbandonRouting => Onward
         /\ \A steps \in SUBSET Step : AfterStep(steps) => Onward
         /\ \A i \in Iface : conv' = [conv EXCEPT !.stop = @ \ {i}] => Onward
         /\ \A p \in Peer : conv' = [conv EXCEPT !.links = @ \ {p}] => Onward
<1>1. SkipSteps => Onward
  BY DEF SkipSteps, Onward, Conv
<1>2. AbandonRouting => Onward
  BY DEF AbandonRouting, Onward, Conv
<1>3. ASSUME NEW steps \in SUBSET Step, AfterStep(steps)
      PROVE  Onward
  BY <1>3 DEF AfterStep, Onward, Conv
<1>4. ASSUME NEW i \in Iface, conv' = [conv EXCEPT !.stop = @ \ {i}]
      PROVE  Onward
  BY <1>4 DEF Onward, Conv
<1>5. ASSUME NEW p \in Peer, conv' = [conv EXCEPT !.links = @ \ {p}]
      PROVE  Onward
  BY <1>5 DEF Onward, Conv
<1> QED
  BY <1>1, <1>2, <1>3, <1>4, <1>5

LEMMA OnwardWork ==
  ASSUME WorkOK, conv.pc \in {"steps", "route"}, Onward, chain' = chain, rec' = rec
  PROVE  WorkOK'
  BY DEF WorkOK, Onward

\* When a converge ends, the next job finds chain and conv as the one before it did.
LEMMA FinishWork ==
  ASSUME WorkOK, NEW ok, Finish(ok), conv.pc # "idle", rec'.pc = "idle"
  PROVE  WorkOK'
<1>1. chain' \in Seq(Job)
  BY HeadTailProperties DEF Finish, WorkOK
<1>2. conv' \in Conv /\ conv'.pc = "idle" /\ conv'.links = {}
  BY DEF Finish, IdleConv, Conv
<1> QED
  BY <1>1, <1>2 DEF WorkOK

\* A teardown is never at the head while a converge runs, and it leaves one more converge behind.
LEMMA TeardownWork ==
  ASSUME ConstantsOK, LinksTypeOK, WorkOK, NEW h \in Handler, TeardownEnd(h)
  PROVE  WorkOK'
<1>1. conv.pc = "idle"
  <2>1. ASSUME NEW s \in Server
        PROVE  ConvergeJob(s) # TeardownJob(h)
    BY DEF ConvergeJob, TeardownJob
  <2> QED
    BY <2>1 DEF TeardownEnd, WorkOK
<1>2. rec' = rec /\ conv' = conv /\ req[h].peer \in Peer
  BY DEF TeardownEnd, DeleteCommit, LinksTypeOK, Req
<1>3. ConvergeJob(Home[req[h].peer]) \in Job
  BY <1>2 DEF Job, ConstantsOK
<1>4. chain' \in Seq(Job)
  <2>1. chain \in Seq(Job) /\ chain # <<>>
    BY DEF TeardownEnd, WorkOK
  <2>2. Tail(chain) \in Seq(Job)
    BY <2>1, HeadTailProperties
  <2>3. Append(Tail(chain), ConvergeJob(Home[req[h].peer])) \in Seq(Job)
    BY <2>2, <1>3, AppendProperties
  <2> QED
    BY <2>3 DEF TeardownEnd
<1> QED
  BY <1>1, <1>2, <1>4 DEF WorkOK

\* A job that takes a step is the head of the chain, and its stages follow one another.
LEMMA WorkStep == ASSUME ConstantsOK, LinksTypeOK, WorkOK, [Next]_vars PROVE WorkOK'
<1>1. CASE Handle
  <2>1. rec' = rec /\ conv' = conv
    BY <1>1, HandleShape DEF Handle
  <2>2. CASE chain' = chain
    BY <2>1, <2>2 DEF WorkOK
  <2>3. ASSUME NEW job \in Job, Enqueue(job)
        PROVE  WorkOK'
    BY <2>1, <2>3, EnqueueShape DEF WorkOK
  <2> QED
    BY <1>1, <2>2, <2>3, HandleShape
<1>2. ASSUME NEW h \in Handler, Teardown(h) \/ TeardownBlind(h) \/ TeardownFail(h)
      PROVE  WorkOK'
  BY <1>2, TeardownWork DEF Teardown, TeardownBlind, TeardownFail
<1>3. ASSUME NEW s \in Server, ConvergeBegin(s)
      PROVE  WorkOK'
  <2>1. conv' \in Conv /\ conv'.pc = "reconcile" /\ conv'.links = {}
    BY <1>3 DEF ConvergeBegin, IdleConv, Conv
  <2>2. rec'.pc = "loop"
    BY <1>3 DEF ConvergeBegin, RecBegin, IdleRec
  <2>3. chain' = chain /\ chain # <<>> /\ Head(chain) = ConvergeJob(s)
    BY <1>3 DEF ConvergeBegin
  <2> QED
    BY <2>1, <2>2, <2>3 DEF WorkOK
<1>4. CASE ReconcileStep
  <2>1. rec \in Rec
    BY DEF LinksTypeOK
  <2>2. ASSUME NEW p \in Peer, RecRelease(p) \/ RecAllocate(p) \/ RecFail(p)
        PROVE  rec'.pc \in {"loop", "keygen"}
    BY <2>1, <2>2 DEF RecRelease, RecAllocate, RecFail, Rec
  <2>3. ASSUME RecThrow \/ RecWrite
        PROVE  rec'.pc \in {"threw", "loop"}
    BY <2>1, <2>3 DEF RecThrow, RecWrite, Rec
  <2>4. rec'.pc # "idle" /\ conv.pc = "reconcile" /\ UNCHANGED <<chain, conv>>
    BY <1>4, <2>2, <2>3 DEF ReconcileStep
  <2> QED
    BY <2>4 DEF WorkOK
<1>5. CASE ReconcileReject
  <2>1. rec'.pc = "idle"
    BY <1>5, RejectShape DEF IdleRec
  <2> QED
    BY <1>5, <2>1, FinishWork DEF ReconcileReject
<1>6. CASE ReconcileEnd
  <2>1. rec'.pc = "idle" /\ chain' = chain /\ conv.pc = "reconcile"
    BY <1>6 DEF ReconcileEnd, RecReturn, IdleRec
  <2>2. Fleet \in Snapshot
    BY DEF Fleet, Snapshot, LinksTypeOK
  <2>3. conv' \in Conv /\ conv'.pc = "list" /\ conv'.fleet \in Snapshot /\ conv'.links = {}
    BY <1>6, <2>2 DEF ReconcileEnd, IdleConv, Conv, LinksTypeOK, Rec
  <2> QED
    BY <2>1, <2>3 DEF WorkOK
<1>7. CASE ListInterfaces
  <2>1. PICK seen \in SUBSET Iface : Plan(seen)
    BY <1>7 DEF ListInterfaces
  <2>2. PICK s \in Server : Head(chain) = ConvergeJob(s)
    BY <1>7 DEF ListInterfaces, WorkOK
  <2>3. conv \in Conv /\ conv.fleet \in Snapshot /\ Head(chain).of \in Server
    BY <1>7, <2>2 DEF ListInterfaces, ConvergeJob, WorkOK
  <2>4. PlannedStops(conv.fleet, seen, conv.released) \subseteq Iface
    BY <2>1 DEF PlannedStops
  <2>5. \A left \in SUBSET Iface : PlannedSteps(conv.fleet, Head(chain).of, left, conv.provisioned) \subseteq Step
    BY <2>3, PlanShape
  <2>6. /\ conv' \in Conv /\ conv'.pc = "steps"
        /\ conv'.fleet = conv.fleet /\ conv'.links = conv.links
    BY <2>1, <2>3, <2>4, <2>5 DEF Plan, Conv
  <2>7. chain' = chain /\ rec' = rec /\ conv.pc = "list"
    BY <1>7 DEF ListInterfaces, linkVars
  <2> QED
    BY <2>3, <2>6, <2>7 DEF WorkOK
<1>8. ASSUME NEW i \in Iface, StopStep(i)
      PROVE  WorkOK'
  <2>1. conv \in Conv
    BY DEF WorkOK
  <2>2. Onward
    BY <1>8, <2>1, OnwardShape DEF StopStep
  <2> QED
    BY <1>8, <2>2, OnwardWork DEF StopStep, linkVars
<1>9. ASSUME NEW x \in conv.steps, StartStep(x) \/ ReloadStep(x) \/ RestartStep(x)
      PROVE  WorkOK'
  <2>1. conv \in Conv /\ conv.steps \subseteq Step
    BY DEF WorkOK, Conv
  <2>2. conv.steps \ {x} \subseteq Step /\ (conv.steps \ {x}) \cup {[x EXCEPT !.do = "start"]} \subseteq Step
    BY <2>1 DEF Step
  <2>3. Onward
    BY <1>9, <2>1, <2>2, OnwardShape DEF StartStep, ReloadStep, RestartStep
  <2>4. chain' = chain /\ rec' = rec /\ conv.pc = "steps"
    BY <1>9 DEF StartStep, ReloadStep, RestartStep, IsNext, linkVars
  <2> QED
    BY <2>3, <2>4, OnwardWork
<1>10. CASE Drain
  <2>1. conv \in Conv
    BY DEF WorkOK
  <2>2. /\ conv' \in Conv /\ conv'.pc = "route"
        /\ conv'.fleet = conv.fleet /\ conv'.links = conv.links
    BY <1>10, <2>1 DEF Drain, Conv
  <2>3. chain' = chain /\ rec' = rec /\ conv.pc = "steps"
    BY <1>10 DEF Drain, linkVars
  <2> QED
    BY <2>2, <2>3 DEF WorkOK
<1>11. ASSUME NEW s \in Server, RouteMain(s)
       PROVE  WorkOK'
  <2>1. conv \in Conv /\ conv.pc = "route" /\ conv.fleet \in Snapshot
    BY <1>11 DEF RouteMain, WorkOK
  <2>2. \A p \in LinkedPeers(conv.fleet, s) : p \in Peer /\ HasLink(conv.fleet.row[p])
    BY <2>1 DEF LinkedPeers, Snapshot
  <2>3. /\ conv' \in Conv /\ conv'.pc = "route"
        /\ conv'.fleet = conv.fleet /\ conv'.links = LinkedPeers(conv.fleet, s)
    <3>1. conv' = [conv EXCEPT !.servers = @ \ {s}, !.links = LinkedPeers(conv.fleet, s)]
      BY <1>11 DEF RouteMain
    <3> QED
      BY <3>1, <2>1, <2>2 DEF Conv
  <2>4. chain' = chain /\ rec' = rec
    BY <1>11 DEF RouteMain, linkVars
  <2> QED
    BY <2>1, <2>2, <2>3, <2>4 DEF WorkOK
<1>12. ASSUME NEW s \in Server, RouteMainFail(s)
       PROVE  WorkOK'
  <2>1. conv \in Conv
    BY DEF WorkOK
  <2>2. Onward
    BY <1>12, <2>1, OnwardShape DEF RouteMainFail
  <2> QED
    BY <1>12, <2>2, OnwardWork DEF RouteMainFail, linkVars
<1>13. ASSUME NEW p \in Peer, RouteTableOf(p) \/ RouteTableFail(p)
       PROVE  WorkOK'
  <2>1. conv \in Conv
    BY DEF WorkOK
  <2>2. Onward
    BY <1>13, <2>1, OnwardShape DEF RouteTableOf, RouteTableFail
  <2> QED
    BY <1>13, <2>2, OnwardWork DEF RouteTableOf, RouteTableFail, linkVars
<1>14. CASE ConvergeEnd
  <2>1. rec'.pc = "idle" /\ conv.pc # "idle"
    BY <1>14 DEF ConvergeEnd, linkVars, WorkOK
  <2> QED
    BY <1>14, <2>1, FinishWork DEF ConvergeEnd
<1>15. CASE UNCHANGED vars
  BY <1>15 DEF vars, linkVars, WorkOK
<1> QED
  BY <1>1, <1>2, <1>3, <1>4, <1>5, <1>6, <1>7, <1>8, <1>9, <1>10, <1>11, <1>12, <1>13, <1>14, <1>15 DEF Next, RunJob

\* The commands leave a host that is well formed: interfaces carry configs of the fleet's peers.
LEMMA HostStep == ASSUME ConstantsOK, LinksTypeOK, WorkOK, HostOK, [Next]_vars PROVE HostOK'
<1>1. ASSUME UNCHANGED host
      PROVE  HostOK'
  BY <1>1 DEF host, HostOK
<1>2. CASE Handle \/ ReconcileStep \/ ReconcileReject \/ ReconcileEnd \/ ListInterfaces \/ ConvergeEnd
  BY <1>1, <1>2 DEF Handle, ReconcileStep, ReconcileReject, ReconcileEnd, ListInterfaces, ConvergeEnd
<1>3. ASSUME NEW h \in Handler, Teardown(h)
      PROVE  HostOK'
  <2>1. Down \in Config
    BY DEF Down, Config
  <2> QED
    BY <1>3, <2>1 DEF Teardown, DrainTables, HostOK
<1>4. ASSUME NEW h \in Handler, TeardownBlind(h) \/ TeardownFail(h)
      PROVE  HostOK'
  BY <1>1, <1>4 DEF TeardownBlind, TeardownFail, DrainTables, HostOK
<1>5. ASSUME NEW s \in Server, ConvergeBegin(s)
      PROVE  HostOK'
  BY <1>1, <1>5 DEF ConvergeBegin
<1>6. ASSUME NEW i \in Iface, StopStep(i)
      PROVE  HostOK'
  BY <1>6, DeleteShape DEF StopStep, HostOK
<1>7. ASSUME NEW x \in conv.steps, StartStep(x) \/ ReloadStep(x) \/ RestartStep(x)
      PROVE  HostOK'
  <2>1. x \in Step
    BY DEF WorkOK, Conv
  <2>2. x.iface \in Iface /\ x.config \in Config /\ \A c \in Config : Synced(c, x.config) \subseteq Config
    BY <2>1 DEF Step, Synced, Config
  <2>3. CASE StartStep(x)
    BY <2>2, <2>3 DEF StartStep, HostOK
  <2>4. CASE ReloadStep(x)
    BY <2>2, <2>4 DEF ReloadStep, HostOK
  <2>5. CASE RestartStep(x)
    BY <2>2, <2>5, DeleteShape DEF RestartStep, HostOK
  <2> QED
    BY <1>7, <2>3, <2>4, <2>5
<1>8. CASE Drain
  BY <1>8 DEF Drain, DrainTables, HostOK
<1>9. ASSUME NEW s \in Server, RouteMain(s) \/ RouteMainFail(s)
      PROVE  HostOK'
  <2>1. conv.fleet \in Snapshot
    BY <1>9 DEF RouteMain, RouteMainFail, WorkOK
  <2>2. PICK links, flushed : links \subseteq LinkedPeers(conv.fleet, s) /\ FlushAndLay(s, links, flushed)
    <3>1. CASE RouteMain(s)
      BY <3>1 DEF RouteMain
    <3>2. CASE RouteMainFail(s)
      BY <3>2 DEF RouteMainFail
    <3> QED
      BY <1>9, <3>1, <3>2
  <2>3. \A q \in LinkedPeers(conv.fleet, s) : RouteOf(q).name \in Iface
    BY <2>1 DEF LinkedPeers, RouteOf, Snapshot, Row, HasLink, Iface
  <2>4. \A q \in Peer : main'[q] \in Iface \cup {None}
    BY <2>2, <2>3 DEF FlushAndLay, HostOK
  <2>5. main' \in [Peer -> Iface \cup {None}]
    BY <2>2, <2>4 DEF FlushAndLay
  <2> QED
    BY <1>9, <2>5 DEF RouteMain, RouteMainFail, HostOK
<1>10. ASSUME NEW p \in Peer, RouteTableOf(p) \/ RouteTableFail(p)
       PROVE  HostOK'
  <2>1. /\ conv.fleet \in Snapshot /\ p \in conv.links
    BY <1>10 DEF RouteTableOf, RouteTableFail, WorkOK
  <2>2. RouteOf(p).name \in Iface /\ RouteOf(p).table \in RouteTable
    BY <2>1 DEF RouteOf, Snapshot, Row, HasLink, WorkOK, Iface
  <2>3. Clients(conv.fleet, p) \subseteq Peer
    BY <2>1 DEF Clients, Snapshot
  <2>4. CASE RouteTableOf(p)
    BY <2>2, <2>3, <2>4 DEF RouteTableOf, HostOK
  <2>5. CASE RouteTableFail(p)
    BY <2>2, <2>3, <2>5 DEF RouteTableFail, DrainTables, HostOK
  <2> QED
    BY <1>10, <2>4, <2>5
<1>11. CASE UNCHANGED vars
  BY <1>1, <1>11 DEF vars
<1> QED
  BY <1>2, <1>3, <1>4, <1>5, <1>6, <1>7, <1>8, <1>9, <1>10, <1>11 DEF Next, RunJob

\* What the chain remembers of the jobs it has run.
LEMMA TallyStep == ASSUME WorkOK, TallyOK, [Next]_vars PROVE TallyOK'
<1>1. ASSUME NEW works, Fails(works)
      PROVE  faults' \in Nat
  BY <1>1 DEF Fails, TallyOK
<1>2. ASSUME NEW ok \in BOOLEAN, Finish(ok), UNCHANGED <<routed, faults>>
      PROVE  TallyOK'
  BY <1>2 DEF Finish, TallyOK
<1>3. CASE Handle
  BY <1>3 DEF Handle, TallyOK
<1>4. ASSUME NEW h \in Handler, Teardown(h) \/ TeardownBlind(h) \/ TeardownFail(h)
      PROVE  TallyOK'
  BY <1>1, <1>4 DEF Teardown, TeardownBlind, TeardownFail, TeardownEnd, TallyOK
<1>5. ASSUME NEW s \in Server, ConvergeBegin(s)
      PROVE  TallyOK'
  BY <1>5 DEF ConvergeBegin, TallyOK
<1>6. CASE ReconcileStep \/ ReconcileEnd \/ ListInterfaces
  BY <1>1, <1>6 DEF ReconcileStep, ReconcileEnd, ListInterfaces, TallyOK
<1>7. CASE ReconcileReject
  <2>1. routed' = routed /\ faults' \in {faults, faults + 1}
    BY <1>7, RejectShape
  <2>2. faults' \in Nat
    BY <2>1 DEF TallyOK
  <2>3. outcome' \in [Server -> BOOLEAN]
    BY <1>7, RejectShape DEF TallyOK
  <2> QED
    BY <2>1, <2>2, <2>3 DEF TallyOK
<1>8. ASSUME NEW i \in Iface, StopStep(i)
      PROVE  TallyOK'
  BY <1>1, <1>8 DEF StopStep, TallyOK
<1>9. ASSUME NEW x \in conv.steps, StartStep(x) \/ ReloadStep(x) \/ RestartStep(x)
      PROVE  TallyOK'
  BY <1>1, <1>9 DEF StartStep, ReloadStep, RestartStep, TallyOK
<1>10. CASE Drain
  BY <1>10 DEF Drain, TallyOK
<1>11. ASSUME NEW s \in Server, RouteMain(s) \/ RouteMainFail(s)
       PROVE  TallyOK'
  BY <1>1, <1>11 DEF RouteMain, RouteMainFail, AbandonRouting, TallyOK
<1>12. ASSUME NEW p \in Peer, RouteTableOf(p) \/ RouteTableFail(p)
       PROVE  TallyOK'
  BY <1>1, <1>12 DEF RouteTableOf, RouteTableFail, AbandonRouting, TallyOK
<1>13. CASE ConvergeEnd
  BY <1>2, <1>13 DEF ConvergeEnd, WorkOK, Conv
<1>14. CASE UNCHANGED vars
  BY <1>14 DEF vars, TallyOK
<1> QED
  BY <1>3, <1>4, <1>5, <1>6, <1>7, <1>8, <1>9, <1>10, <1>11, <1>12, <1>13, <1>14 DEF Next, RunJob

\* The state of the whole system stays well formed, however requests, jobs and failing commands
\* interleave: a reconcile runs only inside a converge, and a converge only at the head of the chain.
THEOREM ConvergeTypeCorrect == Spec => []ConvergeTypeOK
<1>1. Init => ConvergeTypeOK
  BY ConvergeTypeInit, ConstantsOK
<1>2. ConvergeTypeOK /\ [Next]_vars => ConvergeTypeOK'
  <2> SUFFICES ASSUME ConvergeTypeOK, [Next]_vars
               PROVE  ConvergeTypeOK'
    OBVIOUS
  <2>1. LinksTypeOK'
    BY StepRefines, TypeStep, ConstantsOK DEF ConvergeTypeOK
  <2> QED
    BY <2>1, WorkStep, HostStep, TallyStep, ConstantsOK DEF ConvergeTypeOK
<1> QED
  BY <1>1, <1>2, PTL DEF Spec

-----------------------------------------------------------------------------
(* The jobs that wait, and the servers whose rows no job will change.      *)

Jobs(c) == {c[k] : k \in 1..Len(c)}

\* The jobs that have not begun, and the server of the converge that runs.
Ahead == Jobs(IF conv.pc = "idle" THEN chain ELSE Tail(chain))
Own == Head(chain).of

Pending(s) == ConvergeJob(s) \in Ahead
Running(s) == conv.pc # "idle" /\ Head(chain) = ConvergeJob(s)

\* The last converge of s succeeded and saw the rows as they are now.
Clean(s) == outcome[s] /\ ~Pending(s) /\ ~Running(s)

LEMMA JobsShape ==
  ASSUME NEW c \in Seq(Job), NEW job \in Job
  PROVE  /\ Jobs(Append(c, job)) = Jobs(c) \cup {job}
         /\ c # <<>> => Jobs(c) = {Head(c)} \cup Jobs(Tail(c)) /\ Tail(Append(c, job)) = Append(Tail(c), job)
<1>1. Jobs(Append(c, job)) = Jobs(c) \cup {job}
  <2>1. /\ Len(c) \in Nat /\ Len(Append(c, job)) = Len(c) + 1
        /\ \A i \in 1..Len(c) : Append(c, job)[i] = c[i]
        /\ Append(c, job)[Len(c) + 1] = job
    BY AppendProperties, LenProperties
  <2>2. 1..(Len(c) + 1) = 1..Len(c) \cup {Len(c) + 1}
    BY <2>1
  <2> QED
    BY <2>1, <2>2 DEF Jobs
<1>2. ASSUME c # <<>>
      PROVE  Jobs(c) = {Head(c)} \cup Jobs(Tail(c)) /\ Tail(Append(c, job)) = Append(Tail(c), job)
  <2>1. /\ Len(c) \in Nat \ {0} /\ Len(Tail(c)) = Len(c) - 1 /\ Tail(c) \in Seq(Job)
        /\ \A i \in 1..Len(Tail(c)) : Tail(c)[i] = c[i + 1]
    BY <1>2, HeadTailProperties, EmptySeq
  <2>2. Head(c) = c[1]
    BY <1>2
  <2>3. \A x : x \in Jobs(c) <=> x = Head(c) \/ x \in Jobs(Tail(c))
    <3>1. ASSUME NEW k \in 1..Len(c)
          PROVE  c[k] = Head(c) \/ c[k] \in Jobs(Tail(c))
      <4>1. CASE k = 1
        BY <2>2, <4>1
      <4>2. CASE k # 1
        <5>1. k - 1 \in 1..Len(Tail(c)) /\ (k - 1) + 1 = k
          BY <2>1, <4>2
        <5>2. Tail(c)[k - 1] = c[k]
          BY <2>1, <5>1
        <5> QED
          BY <5>1, <5>2 DEF Jobs
      <4> QED
        BY <4>1, <4>2
    <3>2. ASSUME NEW k \in 1..Len(Tail(c))
          PROVE  Tail(c)[k] \in Jobs(c)
      <4>1. k + 1 \in 1..Len(c) /\ Tail(c)[k] = c[k + 1]
        BY <2>1
      <4> QED
        BY <4>1 DEF Jobs
    <3>3. Head(c) \in Jobs(c)
      <4>1. 1 \in 1..Len(c)
        BY <2>1
      <4> QED
        BY <2>2, <4>1 DEF Jobs
    <3> QED
      BY <3>1, <3>2, <3>3 DEF Jobs
  <2>4. Tail(Append(c, job)) = Append(Tail(c), job)
    <3>1. /\ Append(c, job) \in Seq(Job) /\ Append(c, job) # <<>> /\ Len(Append(c, job)) = Len(c) + 1
          /\ \A i \in 1..Len(c) : Append(c, job)[i] = c[i]
          /\ Append(c, job)[Len(c) + 1] = job
      BY AppendProperties
    <3>2. /\ Tail(Append(c, job)) \in Seq(Job) /\ Len(Tail(Append(c, job))) = Len(c)
          /\ \A i \in 1..Len(c) : Tail(Append(c, job))[i] = Append(c, job)[i + 1]
      BY <2>1, <3>1, HeadTailProperties
    <3>3. /\ Append(Tail(c), job) \in Seq(Job) /\ Len(Append(Tail(c), job)) = Len(c)
          /\ \A i \in 1..(Len(c) - 1) : Append(Tail(c), job)[i] = Tail(c)[i]
          /\ Append(Tail(c), job)[Len(c)] = job
      BY <2>1, AppendProperties
    <3>4. ASSUME NEW i \in 1..Len(c)
          PROVE  Tail(Append(c, job))[i] = Append(Tail(c), job)[i]
      <4>1. CASE i = Len(c)
        BY <3>1, <3>2, <3>3, <4>1
      <4>2. CASE i # Len(c)
        <5>1. i \in 1..(Len(c) - 1) /\ i + 1 \in 1..Len(c)
          <6> DEFINE n == Len(c)
          <6>1. n \in Nat /\ i \in 1..n /\ i # n
            BY <2>1, <4>2
          <6> HIDE DEF n
          <6>2. i \in 1..(n - 1) /\ i + 1 \in 1..n
            BY <6>1
          <6> QED
            BY <6>2 DEF n
        <5> QED
          BY <2>1, <3>1, <3>2, <3>3, <5>1
      <4> QED
        BY <4>1, <4>2
    <3> QED
      BY <3>2, <3>3, <3>4, SeqEqual
  <2> QED
    BY <2>3, <2>4
<1> QED
  BY <1>1, <1>2

LEMMA NoJobs == Jobs(<<>>) = {}
<1>1. Len(<<>>) = 0
  BY EmptySeq
<1> QED
  BY <1>1 DEF Jobs

\* A job that is queued joins those that wait.
LEMMA EnqueueAhead ==
  ASSUME WorkOK, NEW job \in Job, Enqueue(job), conv' = conv
  PROVE  Ahead' = Ahead \cup {job}
<1>1. chain \in Seq(Job) /\ chain' = Append(chain, job)
  BY DEF WorkOK, Enqueue
<1>2. CASE conv.pc = "idle"
  BY <1>1, <1>2, JobsShape DEF Ahead
<1>3. CASE conv.pc # "idle"
  <2>1. chain # <<>> /\ Tail(chain) \in Seq(Job)
    BY <1>1, <1>3, HeadTailProperties DEF WorkOK
  <2>2. Tail(chain') = Append(Tail(chain), job)
    BY <1>1, <2>1, JobsShape
  <2> QED
    BY <1>3, <2>1, <2>2, JobsShape DEF Ahead
<1> QED
  BY <1>2, <1>3

\* A step inside of a converge: only its reconcile touches the rows.
Inside ==
  /\ conv.pc # "idle" /\ conv'.pc # "idle" /\ chain' = chain /\ outcome' = outcome
  /\ (conv.pc = "reconcile" /\ Reconcile) \/ UNCHANGED linkVars

\* Every step is one of a handler, or one that a job begins with, takes inside or ends with.
LEMMA StepKinds ==
  ASSUME WorkOK, [Next]_vars
  PROVE  \/ Handle
         \/ \E h \in Handler : TeardownEnd(h)
         \/ \E s \in Server : ConvergeBegin(s)
         \/ Inside \/ ReconcileReject \/ ConvergeEnd
         \/ UNCHANGED vars
<1>1. ASSUME NEW h \in Handler, Teardown(h) \/ TeardownBlind(h) \/ TeardownFail(h)
      PROVE  TeardownEnd(h)
  BY <1>1 DEF Teardown, TeardownBlind, TeardownFail
<1>2. conv \in Conv
  BY DEF WorkOK
<1>3. CASE ReconcileStep \/ ReconcileEnd
  <2>1. Reconcile
    BY <1>3 DEF ReconcileStep, ReconcileEnd, Reconcile
  <2> QED
    BY <1>3, <2>1 DEF ReconcileStep, ReconcileEnd, Inside, IdleConv
<1>4. CASE ListInterfaces
  <2>1. conv'.pc = "steps"
    BY <1>2, <1>4 DEF ListInterfaces, Plan, Conv
  <2> QED
    BY <1>4, <2>1 DEF ListInterfaces, Inside
<1>5. ASSUME NEW i \in Iface, StopStep(i)
      PROVE  Inside
  BY <1>2, <1>5 DEF StopStep, SkipSteps, Inside, Conv
<1>6. ASSUME NEW x \in conv.steps, StartStep(x) \/ ReloadStep(x) \/ RestartStep(x)
      PROVE  Inside
  BY <1>2, <1>6 DEF StartStep, ReloadStep, RestartStep, IsNext, AfterStep, SkipSteps, Inside, Conv
<1>7. CASE Drain
  BY <1>2, <1>7 DEF Drain, Inside, Conv
<1>8. ASSUME NEW s \in Server, RouteMain(s)
      PROVE  Inside
  <2>1. conv'.pc = conv.pc
    BY <1>2, <1>8 DEF RouteMain, Conv
  <2> QED
    BY <1>8, <2>1 DEF RouteMain, Inside
<1>9. ASSUME NEW s \in Server, RouteMainFail(s)
      PROVE  Inside
  BY <1>2, <1>9 DEF RouteMainFail, AbandonRouting, Inside, Conv
<1>10. ASSUME NEW p \in Peer, RouteTableOf(p) \/ RouteTableFail(p)
      PROVE  Inside
  BY <1>2, <1>10 DEF RouteTableOf, RouteTableFail, AbandonRouting, Inside, Conv
<1> QED
  BY <1>1, <1>3, <1>4, <1>5, <1>6, <1>7, <1>8, <1>9, <1>10 DEF Next, RunJob

\* A reconcile works for the server of the converge it belongs to.
OwnReconcile == conv.pc = "reconcile" => rec.srv = Own

LEMMA OwnReconcileStep ==
  ASSUME ConstantsOK, LinksTypeOK, WorkOK, OwnReconcile, [Next]_vars
  PROVE  OwnReconcile'
<1>1. CASE Handle
  <2>1. chain # <<>> => chain' # <<>> /\ Head(chain') = Head(chain)
    BY <1>1, HandleShape, EnqueueShape DEF WorkOK
  <2>2. rec' = rec /\ conv' = conv
    BY <1>1, HandleShape DEF Handle
  <2> QED
    BY <2>1, <2>2 DEF OwnReconcile, Own, WorkOK
<1>2. ASSUME NEW h \in Handler, TeardownEnd(h)
      PROVE  OwnReconcile'
  <2>1. conv.pc = "idle"
    BY <1>2 DEF TeardownEnd, WorkOK, ConvergeJob, TeardownJob
  <2> QED
    BY <1>2, <2>1 DEF TeardownEnd, OwnReconcile
<1>3. ASSUME NEW s \in Server, ConvergeBegin(s)
      PROVE  OwnReconcile'
  BY <1>3 DEF ConvergeBegin, RecBegin, IdleRec, ConvergeJob, OwnReconcile, Own
<1>4. CASE Inside
  <2>1. CASE conv.pc = "reconcile" /\ Reconcile /\ rec'.pc # "idle"
    <3>1. rec'.srv = rec.srv
      <4>1. rec.pc # "idle" /\ rec \in Rec
        BY <2>1 DEF WorkOK, LinksTypeOK
      <4>2. ASSUME NEW p \in Peer, RecRelease(p) \/ RecAllocate(p) \/ RecFail(p)
            PROVE  rec'.srv = rec.srv
        BY <4>1, <4>2 DEF RecRelease, RecAllocate, RecFail, Rec
      <4>3. ASSUME RecThrow \/ RecWrite
            PROVE  rec'.srv = rec.srv
        BY <4>1, <4>3 DEF RecThrow, RecWrite, Rec
      <4>4. \A s \in Server : ~RecBegin(s)
        BY <4>1 DEF RecBegin
      <4>5. ~RecReturn /\ ~RecNoKey
        BY <2>1 DEF RecReturn, RecNoKey, IdleRec
      <4> QED
        BY <2>1, <4>2, <4>3, <4>4, <4>5 DEF Reconcile
    <3> QED
      BY <1>4, <2>1, <3>1 DEF Inside, OwnReconcile, Own
  <2>2. CASE rec'.pc = "idle"
    <3>1. WorkOK'
      BY WorkStep
    <3> QED
      BY <2>2, <3>1 DEF WorkOK, OwnReconcile
  <2>3. CASE UNCHANGED linkVars
    <3>1. WorkOK'
      BY WorkStep
    <3>2. rec' = rec
      BY <2>3 DEF linkVars
    <3> QED
      BY <1>4, <3>1, <3>2 DEF Inside, WorkOK, OwnReconcile, Own
  <2> QED
    BY <1>4, <2>1, <2>2, <2>3 DEF Inside
<1>5. CASE ReconcileReject \/ ConvergeEnd
  BY <1>5, RejectShape DEF ConvergeEnd, Finish, IdleConv, OwnReconcile
<1>6. CASE UNCHANGED vars
  BY <1>6 DEF vars, linkVars, OwnReconcile, Own
<1> QED
  BY <1>1, <1>2, <1>3, <1>4, <1>5, <1>6, StepKinds

\* A handler that changes something about the peers of a server puts a converge of it on the chain.
LEMMA HandleTouches ==
  ASSUME ConstantsOK, LinksTypeOK, HomesInv, Handle, NEW s \in Server
  PROVE  Untouched(s) \/ Enqueue(ConvergeJob(s))
<1>1. ASSUME NEW p \in Peer, NEW b \in Request, Patch(p, b), Enqueue(ConvergeJob(Home[p]))
      PROVE  Untouched(s) \/ Enqueue(ConvergeJob(s))
  <2>1. CASE Home[p] = s
    BY <1>1, <2>1
  <2>2. CASE Home[p] # s
    BY <1>1, <2>2 DEF Patch, Untouched, LinksTypeOK
  <2> QED
    BY <2>1, <2>2
<1>2. ASSUME NEW h \in Handler, NEW p \in Peer, NEW b \in Request, PostCheck(h, p, b)
      PROVE  Untouched(s)
  BY <1>2 DEF PostCheck, Untouched
<1>3. ASSUME NEW h \in Handler, PostInsert(h),
             IF req[h].peer \in live' THEN Enqueue(ConvergeJob(Home[req[h].peer])) ELSE UNCHANGED chain
      PROVE  Untouched(s) \/ Enqueue(ConvergeJob(s))
  <2>1. CASE UNCHANGED <<live, row>>
    BY <1>3, <2>1 DEF PostInsert, Untouched
  <2>2. CASE live' = live \cup {req[h].peer} /\ row' = [row EXCEPT ![req[h].peer] = req[h].row]
    <3>1. Enqueue(ConvergeJob(Home[req[h].peer]))
      BY <1>3, <2>2
    <3>2. CASE Home[req[h].peer] = s
      BY <3>1, <3>2
    <3>3. CASE Home[req[h].peer] # s
      BY <1>3, <2>2, <3>3 DEF PostInsert, Untouched, LinksTypeOK
    <3> QED
      BY <3>2, <3>3
  <2> QED
    BY <1>3, <2>1, <2>2 DEF PostInsert
<1>4. ASSUME NEW p \in Peer, DeleteUnlinked(p), Enqueue(ConvergeJob(Home[p]))
      PROVE  Untouched(s) \/ Enqueue(ConvergeJob(s))
  <2>1. CASE Home[p] = s
    BY <1>4, <2>1
  <2>2. CASE Home[p] # s
    BY <1>4, <2>2, RemoveTouches DEF DeleteUnlinked
  <2> QED
    BY <2>1, <2>2
<1>5. ASSUME NEW h \in Handler, NEW p \in Peer, DeleteLinked(h, p)
      PROVE  Untouched(s)
  BY <1>5 DEF DeleteLinked, Untouched
<1>6. ASSUME NEW t \in Server, NEW port \in ServerPort, PatchServer(t, port), Enqueue(ConvergeJob(t))
      PROVE  Untouched(s) \/ Enqueue(ConvergeJob(s))
  <2>1. CASE t = s
    BY <1>6, <2>1
  <2>2. CASE t # s
    BY <1>6, <2>2 DEF PatchServer, Untouched, LinksTypeOK
  <2> QED
    BY <2>1, <2>2
<1> QED
  BY <1>1, <1>2, <1>3, <1>4, <1>5, <1>6 DEF Handle

\* While no converge of s waits, nobody but its own reconcile changes the rows of s; and a converge
\* stops waiting only by running.
LEMMA PendingStep ==
  ASSUME ConstantsOK, LinksTypeOK, WorkOK, HomesInv, OwnReconcile, [Next]_vars, NEW s \in Server, ~Pending(s)'
  PROVE  /\ ~Pending(s) \/ ConvergeBegin(s)
         /\ Untouched(s) \/ (conv.pc = "reconcile" /\ conv'.pc # "idle" /\ Running(s))
<1>1. CASE Handle
  <2>1. conv' = conv /\ (chain' = chain \/ \E job \in Job : Enqueue(job))
    BY <1>1, HandleShape DEF Handle
  <2>2. Ahead \subseteq Ahead'
    BY <2>1, EnqueueAhead DEF Ahead
  <2>3. ~Enqueue(ConvergeJob(s))
    <3>1. ConvergeJob(s) \in Job
      BY DEF Job
    <3> QED
      BY <2>1, <3>1, EnqueueAhead DEF Pending
  <2> QED
    BY <1>1, <2>2, <2>3, HandleTouches DEF Pending
<1>2. ASSUME NEW h \in Handler, TeardownEnd(h)
      PROVE  ~Pending(s) /\ Untouched(s)
  <2>1. conv.pc = "idle" /\ conv' = conv
    BY <1>2 DEF TeardownEnd, WorkOK, ConvergeJob, TeardownJob
  <2>2. req[h].peer \in Peer /\ ConvergeJob(Home[req[h].peer]) \in Job
    BY <1>2 DEF TeardownEnd, DeleteCommit, LinksTypeOK, Job, ConstantsOK
  <2>3. chain \in Seq(Job) /\ chain # <<>> /\ Tail(chain) \in Seq(Job) /\ Head(chain) # ConvergeJob(s)
    BY <1>2, HeadTailProperties DEF TeardownEnd, WorkOK, ConvergeJob, TeardownJob
  <2>4. Ahead' = Jobs(Tail(chain)) \cup {ConvergeJob(Home[req[h].peer])}
    BY <1>2, <2>1, <2>2, <2>3, JobsShape DEF TeardownEnd, Ahead
  <2>5. Ahead = {Head(chain)} \cup Jobs(Tail(chain))
    BY <2>1, <2>2, <2>3, JobsShape DEF Ahead
  <2>6. s # Home[req[h].peer] /\ ~Pending(s)
    BY <2>3, <2>4, <2>5 DEF Pending
  <2> QED
    BY <1>2, <2>2, <2>6, RemoveTouches DEF TeardownEnd, DeleteCommit
<1>3. ASSUME NEW t \in Server, ConvergeBegin(t)
      PROVE  (~Pending(s) \/ ConvergeBegin(s)) /\ Untouched(s)
  <2>1. conv.pc = "idle" /\ conv'.pc # "idle" /\ chain' = chain /\ chain # <<>> /\ Head(chain) = ConvergeJob(t)
    BY <1>3 DEF ConvergeBegin, IdleConv
  <2>2. Ahead = {ConvergeJob(t)} \cup Ahead'
    <3>1. ConvergeJob(t) \in Job /\ chain \in Seq(Job)
      BY DEF Job, WorkOK
    <3> QED
      BY <2>1, <3>1, JobsShape DEF Ahead
  <2>3. ~Pending(s) \/ s = t
    BY <2>2 DEF Pending, ConvergeJob
  <2> QED
    BY <1>3, <2>3 DEF ConvergeBegin, RecBegin, Untouched
<1>4. CASE Inside
  <2>1. Ahead' = Ahead
    BY <1>4 DEF Inside, Ahead
  <2>2. CASE conv.pc = "reconcile" /\ Reconcile
    <3>1. CASE s = rec.srv
      <4>1. PICK t \in Server : Head(chain) = ConvergeJob(t)
        BY <2>2 DEF WorkOK
      <4>2. Running(s)
        BY <2>2, <3>1, <4>1 DEF Running, OwnReconcile, Own, ConvergeJob
      <4> QED
        BY <1>4, <2>1, <2>2, <4>2 DEF Pending, Inside
    <3>2. CASE s # rec.srv
      BY <2>1, <2>2, <3>2, ReconcileTouches DEF Pending
    <3> QED
      BY <3>1, <3>2
  <2>3. CASE UNCHANGED linkVars
    BY <2>1, <2>3 DEF linkVars, Untouched, Pending
  <2> QED
    BY <1>4, <2>2, <2>3 DEF Inside
<1>5. CASE ReconcileReject \/ ConvergeEnd
  <2>1. conv.pc # "idle" /\ conv'.pc = "idle" /\ chain' = Tail(chain)
    BY <1>5, RejectShape DEF ConvergeEnd, Finish, IdleConv
  <2>2. Ahead' = Ahead
    BY <2>1 DEF Ahead
  <2>3. Untouched(s)
    BY <1>5, RejectShape DEF ConvergeEnd, linkVars, Untouched
  <2> QED
    BY <2>2, <2>3 DEF Pending
<1>6. CASE UNCHANGED vars
  BY <1>6 DEF vars, linkVars, Untouched, Pending, Ahead
<1> QED
  BY <1>1, <1>2, <1>3, <1>4, <1>5, <1>6, StepKinds

\* A server becomes clean only when a converge of it succeeds that nothing has overtaken.
LEMMA CleanStep ==
  ASSUME ConstantsOK, LinksTypeOK, WorkOK, TallyOK, HomesInv, OwnReconcile, [Next]_vars, NEW s \in Server, Clean(s)'
  PROVE  (Clean(s) /\ Untouched(s)) \/ (ConvergeEnd /\ s = Own /\ conv.ok /\ ~Pending(s))
<1>0. /\ outcome'[s] /\ ~Pending(s)' /\ ~Running(s)'
      /\ ~Pending(s) \/ ConvergeBegin(s)
      /\ Untouched(s) \/ (conv.pc = "reconcile" /\ conv'.pc # "idle" /\ Running(s))
  BY PendingStep DEF Clean
<1>1. CASE Handle
  <2>1. conv' = conv /\ (chain' = chain \/ \E job \in Job : Enqueue(job)) /\ rec' = rec
    BY <1>1, HandleShape DEF Handle
  <2>2. chain # <<>> => Head(chain') = Head(chain)
    BY <2>1, EnqueueShape DEF WorkOK
  <2>3. ~Running(s)
    BY <1>0, <2>1, <2>2 DEF Running, WorkOK
  <2>4. ~ConvergeBegin(s)
    <3>1. ASSUME ConvergeBegin(s)
          PROVE  FALSE
      BY <2>1, <3>1 DEF ConvergeBegin, IdleConv
    <3> QED
      BY <3>1
  <2> QED
    BY <1>0, <1>1, <2>3, <2>4 DEF Handle, Clean
<1>2. ASSUME NEW h \in Handler, TeardownEnd(h)
      PROVE  Clean(s) /\ Untouched(s)
  <2>1. conv.pc = "idle" /\ conv' = conv /\ outcome' = outcome
    BY <1>2 DEF TeardownEnd, WorkOK, ConvergeJob, TeardownJob
  <2>2. ~ConvergeBegin(s)
    BY <1>2 DEF ConvergeBegin, TeardownEnd, ConvergeJob, TeardownJob
  <2> QED
    BY <1>0, <2>1, <2>2 DEF Clean, Running
<1>3. ASSUME NEW t \in Server, ConvergeBegin(t)
      PROVE  Clean(s) /\ Untouched(s)
  <2>1. conv.pc = "idle" /\ conv'.pc # "idle" /\ chain' = chain /\ outcome' = outcome /\ Head(chain) = ConvergeJob(t)
    BY <1>3 DEF ConvergeBegin, IdleConv
  <2>2. ~ConvergeBegin(s)
    BY <1>0, <2>1 DEF Running, ConvergeBegin
  <2> QED
    BY <1>0, <2>1, <2>2 DEF Clean, Running
<1>4. CASE Inside
  <2>1. ~Running(s) /\ outcome' = outcome
    BY <1>0, <1>4 DEF Inside, Running
  <2>2. ~ConvergeBegin(s)
    BY <1>4 DEF Inside, ConvergeBegin
  <2> QED
    BY <1>0, <2>1, <2>2 DEF Clean
<1>5. CASE ReconcileReject \/ ConvergeEnd
  <2>1. PICK t \in Server : Head(chain) = ConvergeJob(t) /\ Own = t
    <3>1. conv.pc # "idle"
      BY <1>5 DEF ReconcileReject, ConvergeEnd
    <3>2. PICK t \in Server : Head(chain) = ConvergeJob(t)
      BY <3>1 DEF WorkOK
    <3>3. Own = t
      BY <3>2 DEF Own, ConvergeJob
    <3> QED
      BY <3>2, <3>3
  <2>2. PICK ok : Finish(ok) /\ (ReconcileReject => ok = FALSE) /\ (ConvergeEnd => ok = conv.ok)
    BY <1>5 DEF ReconcileReject, ConvergeEnd
  <2>3. outcome' = [outcome EXCEPT ![t] = ok]
    BY <2>1, <2>2 DEF Finish, Own
  <2>4. ~ConvergeBegin(s) /\ conv'.pc = "idle"
    BY <1>5, <2>2 DEF ReconcileReject, ConvergeEnd, ConvergeBegin, Finish, IdleConv
  <2>5. CASE s = t
    <3>1. outcome'[s] = ok
      BY <2>3, <2>5 DEF TallyOK
    <3>2. ok # FALSE
      BY <1>0, <3>1
    <3> QED
      BY <1>0, <1>5, <2>1, <2>2, <2>4, <2>5, <3>1, <3>2
  <2>6. CASE s # t
    <3>1. outcome'[s] = outcome[s] /\ ~Running(s)
      BY <2>1, <2>3, <2>6 DEF Running, ConvergeJob, TallyOK
    <3> QED
      BY <1>0, <2>4, <3>1 DEF Clean
  <2> QED
    BY <2>5, <2>6
<1>6. CASE UNCHANGED vars
  BY <1>6 DEF vars, linkVars, Untouched, Clean, Pending, Running, Ahead
<1> QED
  BY <1>1, <1>2, <1>3, <1>4, <1>5, <1>6, StepKinds

-----------------------------------------------------------------------------
(* The snapshot.                                                           *)

InJob == conv.pc \in {"list", "steps", "route"}

\* A fleet in which a link has one owner, who is there, and a name that no server hides.
Closed(f) ==
  /\ \A p \in Peer \ f.live : f.row[p] = Blank
  /\ \A p, q \in Peer : p # q =>
       /\ f.row[p].name = f.row[q].name => f.row[p].name = None
       /\ f.row[p].table = f.row[q].table => f.row[p].table = None
  /\ \A p \in Peer : f.row[p].name \notin ServerOrdinal \ {None}

\* Two fleets with the same peers and rows of server s.
Same(f, g, s) == \A p \in Peer : Home[p] = s => (p \in f.live <=> p \in g.live) /\ f.row[p] = g.row[p]

SnapInv == InJob =>
  /\ Closed(conv.fleet)
  /\ \A s \in Server : ~Pending(s) => Same(conv.fleet, Fleet, s)

LEMMA SamePeers ==
  ASSUME NEW f \in Snapshot, NEW g \in Snapshot, NEW s \in Server, Same(f, g, s)
  PROVE  /\ PlainPeers(f, s) = PlainPeers(g, s)
         /\ LinkedPeers(f, s) = LinkedPeers(g, s)
         /\ \A p \in Peer : Home[p] = s => Clients(f, p) = Clients(g, p)
<1>1. f.live \subseteq Peer /\ g.live \subseteq Peer
  BY DEF Snapshot
<1>2. PlainPeers(f, s) = PlainPeers(g, s)
  BY <1>1 DEF PlainPeers, Same
<1>3. LinkedPeers(f, s) = LinkedPeers(g, s)
  BY <1>1 DEF LinkedPeers, Same
<1>4. ASSUME NEW p \in Peer, Home[p] = s
      PROVE  Clients(f, p) = Clients(g, p)
  BY <1>1, <1>4 DEF Clients, Same
<1> QED
  BY <1>2, <1>3, <1>4

LEMMA FleetOK ==
  ASSUME LinksInv, NamesInv
  PROVE  Fleet \in Snapshot /\ Closed(Fleet)
<1>1. Fleet \in Snapshot
  BY DEF LinksInv, LinksTypeOK, Fleet, Snapshot
<1>2. Closed(Fleet)
  BY DEF LinksInv, LinksTypeOK, LinksDistinct, NamesInv, Fleet, Closed
<1> QED
  BY <1>1, <1>2

\* Only the end of a reconcile takes a snapshot, and the converge works from it to the end.
LEMMA SnapKinds ==
  ASSUME WorkOK, [Next]_vars, conv'.pc \in {"list", "steps", "route"}
  PROVE  ReconcileEnd \/ (InJob /\ conv'.fleet = conv.fleet)
<1>1. conv \in Conv
  BY DEF WorkOK
<1>2. CASE Handle \/ UNCHANGED vars
  BY <1>2 DEF Handle, vars, InJob
<1>3. ASSUME NEW h \in Handler, Teardown(h) \/ TeardownBlind(h) \/ TeardownFail(h)
      PROVE  FALSE
  <2>1. TeardownEnd(h)
    BY <1>3 DEF Teardown, TeardownBlind, TeardownFail
  <2>2. conv.pc = "idle" /\ conv' = conv
    BY <2>1 DEF TeardownEnd, WorkOK, ConvergeJob, TeardownJob
  <2> QED
    BY <2>2
<1>4. \A s \in Server : ~ConvergeBegin(s)
  BY DEF ConvergeBegin, IdleConv
<1>5. ~ReconcileReject /\ ~ConvergeEnd
  BY RejectShape DEF ConvergeEnd, Finish, IdleConv
<1>6. ~ReconcileStep
  BY DEF ReconcileStep
<1>7. CASE ListInterfaces
  BY <1>1, <1>7 DEF ListInterfaces, Plan, Conv, InJob
<1>8. ASSUME NEW i \in Iface, StopStep(i)
      PROVE  InJob /\ conv'.fleet = conv.fleet
  BY <1>1, <1>8 DEF StopStep, SkipSteps, Conv, InJob
<1>9. ASSUME NEW x \in conv.steps, StartStep(x) \/ ReloadStep(x) \/ RestartStep(x)
      PROVE  InJob /\ conv'.fleet = conv.fleet
  BY <1>1, <1>9 DEF StartStep, ReloadStep, RestartStep, IsNext, AfterStep, SkipSteps, Conv, InJob
<1>10. CASE Drain
  BY <1>1, <1>10 DEF Drain, Conv, InJob
<1>11. ASSUME NEW s \in Server, RouteMain(s) \/ RouteMainFail(s)
       PROVE  InJob /\ conv'.fleet = conv.fleet
  BY <1>1, <1>11 DEF RouteMain, RouteMainFail, AbandonRouting, Conv, InJob
<1>12. ASSUME NEW p \in Peer, RouteTableOf(p) \/ RouteTableFail(p)
       PROVE  InJob /\ conv'.fleet = conv.fleet
  BY <1>1, <1>12 DEF RouteTableOf, RouteTableFail, AbandonRouting, Conv, InJob
<1> QED
  BY <1>2, <1>3, <1>4, <1>5, <1>6, <1>7, <1>8, <1>9, <1>10, <1>11, <1>12 DEF Next, RunJob

\* What a converge read of a server stays true of its rows for as long as no other converge of it waits.
LEMMA SnapStep ==
  ASSUME ConstantsOK, LinksInv, NamesInv, WorkOK, HomesInv, OwnReconcile, SnapInv, [Next]_vars
  PROVE  SnapInv'
<1> SUFFICES ASSUME conv'.pc \in {"list", "steps", "route"}
             PROVE  SnapInv'
  BY DEF SnapInv, InJob
<1>1. LinksTypeOK
  BY DEF LinksInv
<1>2. CASE ReconcileEnd
  <2>1. conv'.fleet = Fleet /\ Fleet' = Fleet
    BY <1>2 DEF ReconcileEnd, RecReturn, Fleet, IdleConv
  <2>2. \A s \in Server : Same(Fleet, Fleet, s)
    BY DEF Same
  <2>3. Closed(conv'.fleet) /\ \A s \in Server : Same(conv'.fleet, Fleet', s)
    BY <2>1, <2>2, FleetOK
  <2> QED
    BY <2>3 DEF SnapInv, Closed, Same
<1>3. CASE InJob /\ conv'.fleet = conv.fleet
  <2>1. Closed(conv'.fleet)
    BY <1>3 DEF SnapInv
  <2>2. ASSUME NEW s \in Server, ~Pending(s)'
        PROVE  Same(conv'.fleet, Fleet', s)
    <3>1. ~Pending(s) /\ Untouched(s)
      BY <1>1, <1>3, <2>2, PendingStep DEF InJob, ConvergeBegin
    <3>2. Same(conv.fleet, Fleet, s)
      BY <1>3, <3>1 DEF SnapInv
    <3> QED
      BY <1>3, <3>1, <3>2 DEF Same, Untouched, Fleet
  <2> QED
    BY <2>1, <2>2 DEF SnapInv, Closed, Same
<1> QED
  BY <1>2, <1>3, SnapKinds

-----------------------------------------------------------------------------
(* The plan.                                                               *)

ServerStep(x) ==
  /\ x.iface = Own /\ x.do # "restart"
  /\ x.config.peers = PlainPeers(conv.fleet, Own) /\ x.config.port # None
LinkStep(x, p) == x.iface = conv.fleet.row[p].name /\ x.config.peers = {p}

\* Until the last stop, every link of the plan still has its step to come.
StepsInv ==
  /\ conv.pc # "route" => conv.links = {}
  /\ conv.pc \in {"steps", "route"} =>
       /\ conv.stop \subseteq Ordinal
       /\ \A x \in conv.steps : ServerStep(x) \/ \E p \in LinkedPeers(conv.fleet, Own) : LinkStep(x, p)
       /\ conv.stop # {} => \A p \in LinkedPeers(conv.fleet, Own) : \E x \in conv.steps : LinkStep(x, p)
       /\ conv.pc = "route" => conv.stop = {} /\ conv.steps = {}

\* What a step may do to the plan and to the interfaces.
Planned == conv.pc = "list" /\ up' = up /\ (Plan({i \in Iface : IsUp(i)}) \/ (Plan({}) /\ Fails(TRUE)))
Stopped(i) ==
  /\ conv.pc = "steps" /\ conv'.pc = "steps" /\ i \in conv.stop /\ up' = [up EXCEPT ![i] = Down]
  /\ conv'.stop = conv.stop \ {i} /\ conv'.steps = conv.steps /\ conv'.ok = conv.ok
Applied(x) ==
  /\ IsNext(x) /\ conv'.pc = "steps" /\ x.do # "restart"
  /\ IF x.do = "start" THEN ~IsUp(x.iface) /\ up' = [up EXCEPT ![x.iface] = x.config] ELSE IsUp(x.iface)
  /\ \E c \in Synced(up[x.iface], x.config) : up' = [up EXCEPT ![x.iface] = c]
  /\ conv'.stop = {} /\ conv'.steps = conv.steps \ {x} /\ conv'.ok = conv.ok
Restarted(x) ==
  /\ IsNext(x) /\ conv'.pc = "steps" /\ x.do = "restart" /\ up' = [up EXCEPT ![x.iface] = Down]
  /\ conv'.stop = {} /\ conv'.steps = (conv.steps \ {x}) \cup {[x EXCEPT !.do = "start"]} /\ conv'.ok = conv.ok
Skipped == conv.pc = "steps" /\ conv'.pc = "steps" /\ up' = up /\ conv'.stop = {} /\ conv'.steps = {} /\ conv'.ok = FALSE
Through ==
  /\ up' = up /\ conv'.stop = conv.stop /\ conv'.steps = conv.steps /\ conv'.ok = conv.ok
  /\ conv'.pc = conv.pc \/ (conv.pc = "steps" /\ conv.stop = {} /\ conv.steps = {})

PlanMoves ==
  \/ Planned \/ (\E i \in Iface : Stopped(i)) \/ (\E x \in conv.steps : Applied(x) \/ Restarted(x))
  \/ Skipped \/ Through

LEMMA PlanKinds ==
  ASSUME ConstantsOK, LinksTypeOK, WorkOK, [Next]_vars, conv'.pc \in {"steps", "route"}
  PROVE  Own' = Own /\ InJob /\ conv'.fleet = conv.fleet /\ PlanMoves
<1>1. conv \in Conv
  BY DEF WorkOK
<1>2. CASE Handle
  <2>1. conv' = conv /\ up' = up
    BY <1>2 DEF Handle, host
  <2>2. chain # <<>> /\ Head(chain') = Head(chain)
    BY <1>2, <2>1, HandleShape, EnqueueShape DEF WorkOK
  <2> QED
    BY <2>1, <2>2 DEF Own, InJob, PlanMoves, Through
<1>3. CASE UNCHANGED vars
  BY <1>3 DEF vars, host, Own, InJob, PlanMoves, Through
<1>4. ASSUME NEW h \in Handler, TeardownEnd(h)
      PROVE  FALSE
  BY <1>4 DEF TeardownEnd, WorkOK, ConvergeJob, TeardownJob
<1>5. ASSUME NEW h \in Handler, Teardown(h) \/ TeardownBlind(h) \/ TeardownFail(h)
      PROVE  FALSE
  BY <1>4, <1>5 DEF Teardown, TeardownBlind, TeardownFail
<1>6. ASSUME \/ \E s \in Server : ConvergeBegin(s)
             \/ ReconcileStep \/ ReconcileReject \/ ReconcileEnd \/ ConvergeEnd
      PROVE  FALSE
  <2>1. ASSUME NEW s \in Server, ConvergeBegin(s)
        PROVE  FALSE
    BY <2>1 DEF ConvergeBegin, IdleConv
  <2>2. ~ReconcileStep
    BY DEF ReconcileStep
  <2>3. ~ReconcileReject /\ ~ConvergeEnd
    BY RejectShape DEF ConvergeEnd, Finish, IdleConv
  <2>4. ~ReconcileEnd
    BY DEF ReconcileEnd, IdleConv
  <2> QED
    BY <1>6, <2>1, <2>2, <2>3, <2>4
<1>7. CASE ListInterfaces
  <2>1. Planned /\ chain' = chain
    BY <1>7 DEF ListInterfaces, Planned, host
  <2>2. conv'.fleet = conv.fleet
    BY <1>1, <1>7 DEF ListInterfaces, Plan, Conv
  <2> QED
    BY <2>1, <2>2 DEF Own, InJob, PlanMoves, Planned
<1>8. ASSUME NEW i \in Iface, StopStep(i)
      PROVE  Own' = Own /\ InJob /\ conv'.fleet = conv.fleet /\ (Stopped(i) \/ Skipped)
  BY <1>1, <1>8 DEF StopStep, Delete, SkipSteps, Own, InJob, Stopped, Skipped, Conv
<1>9. ASSUME NEW x \in conv.steps, StartStep(x)
      PROVE  Own' = Own /\ InJob /\ conv'.fleet = conv.fleet /\ (Applied(x) \/ Skipped)
  <2>1. Own' = Own /\ InJob /\ conv'.fleet = conv.fleet /\ IsNext(x) /\ x.do = "start" /\ conv.pc = "steps"
    BY <1>1, <1>9 DEF StartStep, IsNext, AfterStep, SkipSteps, Own, InJob, Conv
  <2>2. CASE ~IsUp(x.iface) /\ up' = [up EXCEPT ![x.iface] = x.config] /\ AfterStep(conv.steps \ {x})
    BY <1>1, <2>1, <2>2 DEF Applied, AfterStep, Synced, IsNext, Conv
  <2>3. CASE SkipSteps /\ UNCHANGED up
    BY <1>1, <2>1, <2>3 DEF Skipped, SkipSteps, Conv
  <2> QED
    BY <1>9, <2>1, <2>2, <2>3 DEF StartStep
<1>10. ASSUME NEW x \in conv.steps, ReloadStep(x)
       PROVE  Own' = Own /\ InJob /\ conv'.fleet = conv.fleet /\ (Applied(x) \/ Skipped)
  <2>1. Own' = Own /\ InJob /\ conv'.fleet = conv.fleet /\ IsNext(x) /\ x.do = "reload" /\ conv.pc = "steps"
    BY <1>1, <1>10 DEF ReloadStep, IsNext, AfterStep, SkipSteps, Own, InJob, Conv
  <2>2. ASSUME NEW c \in Synced(up[x.iface], x.config), IsUp(x.iface), up' = [up EXCEPT ![x.iface] = c],
               AfterStep(conv.steps \ {x})
        PROVE  Applied(x)
    BY <1>1, <2>1, <2>2 DEF Applied, AfterStep, IsNext, Conv
  <2>3. CASE SkipSteps /\ UNCHANGED up
    BY <1>1, <2>1, <2>3 DEF Skipped, SkipSteps, Conv
  <2> QED
    BY <1>10, <2>1, <2>2, <2>3 DEF ReloadStep
<1>11. ASSUME NEW x \in conv.steps, RestartStep(x)
       PROVE  Own' = Own /\ InJob /\ conv'.fleet = conv.fleet /\ (Restarted(x) \/ Skipped)
  <2>1. Own' = Own /\ InJob /\ conv'.fleet = conv.fleet /\ IsNext(x) /\ x.do = "restart" /\ conv.pc = "steps"
    BY <1>1, <1>11 DEF RestartStep, IsNext, AfterStep, SkipSteps, Own, InJob, Conv
  <2>2. CASE Delete(x.iface) /\ AfterStep((conv.steps \ {x}) \cup {[x EXCEPT !.do = "start"]})
    BY <1>1, <2>1, <2>2 DEF Restarted, AfterStep, Delete, IsNext, Conv
  <2>3. CASE SkipSteps /\ UNCHANGED up
    BY <1>1, <2>1, <2>3 DEF Skipped, SkipSteps, Conv
  <2> QED
    BY <1>11, <2>1, <2>2, <2>3 DEF RestartStep
<1>12. CASE Drain
  BY <1>1, <1>12 DEF Drain, Own, InJob, PlanMoves, Through, Conv
<1>13. ASSUME NEW s \in Server, RouteMain(s) \/ RouteMainFail(s)
       PROVE  Own' = Own /\ InJob /\ conv'.fleet = conv.fleet /\ Through
  <2>1. /\ conv'.pc = conv.pc /\ conv'.fleet = conv.fleet /\ conv'.stop = conv.stop /\ conv'.steps = conv.steps
        /\ conv'.ok = conv.ok
    BY <1>1, <1>13 DEF RouteMain, RouteMainFail, AbandonRouting, Conv
  <2>2. up' = up /\ chain' = chain /\ conv.pc = "route"
    BY <1>13 DEF RouteMain, RouteMainFail
  <2> QED
    BY <2>1, <2>2 DEF Own, InJob, Through
<1>14. ASSUME NEW p \in Peer, RouteTableOf(p) \/ RouteTableFail(p)
       PROVE  Own' = Own /\ InJob /\ conv'.fleet = conv.fleet /\ Through
  <2>1. /\ conv'.pc = conv.pc /\ conv'.fleet = conv.fleet /\ conv'.stop = conv.stop /\ conv'.steps = conv.steps
        /\ conv'.ok = conv.ok
    BY <1>1, <1>14 DEF RouteTableOf, RouteTableFail, AbandonRouting, Conv
  <2>2. up' = up /\ chain' = chain /\ conv.pc = "route"
    BY <1>14 DEF RouteTableOf, RouteTableFail
  <2> QED
    BY <2>1, <2>2 DEF Own, InJob, Through
<1>15. CASE Handle \/ UNCHANGED vars
  BY <1>2, <1>3, <1>15
<1>16. CASE RunJob
  BY <1>5, <1>6, <1>7, <1>8, <1>9, <1>10, <1>11, <1>12, <1>13, <1>14, <1>16 DEF RunJob, PlanMoves
<1> QED
  BY <1>15, <1>16 DEF Next

\* Only the routing has links to go through.
LEMMA LinksStep ==
  ASSUME WorkOK, conv.pc # "route" => conv.links = {}, [Next]_vars, conv'.pc # "route"
  PROVE  conv'.links = {}
<1>1. conv \in Conv
  BY DEF WorkOK
<1>2. CASE Handle \/ UNCHANGED vars
  BY <1>2 DEF Handle, vars
<1>3. ASSUME NEW h \in Handler, Teardown(h) \/ TeardownBlind(h) \/ TeardownFail(h)
      PROVE  conv'.links = {}
  <2>1. conv' = conv
    BY <1>3 DEF Teardown, TeardownBlind, TeardownFail, TeardownEnd
  <2> QED
    BY <2>1
<1>4. ASSUME \/ \E s \in Server : ConvergeBegin(s)
             \/ ReconcileReject \/ ReconcileEnd \/ ConvergeEnd
      PROVE  conv'.links = {}
  <2>1. ASSUME NEW s \in Server, ConvergeBegin(s)
        PROVE  conv'.links = {}
    BY <2>1 DEF ConvergeBegin, IdleConv
  <2>2. ReconcileReject \/ ConvergeEnd => conv'.links = {}
    BY RejectShape DEF ConvergeEnd, Finish, IdleConv
  <2>3. ReconcileEnd => conv'.links = {}
    BY DEF ReconcileEnd, IdleConv
  <2> QED
    BY <1>4, <2>1, <2>2, <2>3
<1>5. CASE ReconcileStep
  BY <1>5 DEF ReconcileStep
<1>6. CASE ListInterfaces
  BY <1>1, <1>6 DEF ListInterfaces, Plan, Conv
<1>7. ASSUME NEW i \in Iface, StopStep(i)
      PROVE  conv'.links = {}
  BY <1>1, <1>7 DEF StopStep, SkipSteps, Conv
<1>8. ASSUME NEW x \in conv.steps, StartStep(x) \/ ReloadStep(x) \/ RestartStep(x)
      PROVE  conv'.links = {}
  BY <1>1, <1>8 DEF StartStep, ReloadStep, RestartStep, IsNext, AfterStep, SkipSteps, Conv
<1>9. ~Drain
  BY <1>1 DEF Drain, Conv
<1>10. ASSUME NEW s \in Server, RouteMain(s) \/ RouteMainFail(s)
       PROVE  FALSE
  BY <1>1, <1>10 DEF RouteMain, RouteMainFail, AbandonRouting, Conv
<1>11. ASSUME NEW p \in Peer, RouteTableOf(p) \/ RouteTableFail(p)
       PROVE  FALSE
  BY <1>1, <1>11 DEF RouteTableOf, RouteTableFail, AbandonRouting, Conv
<1> QED
  BY <1>2, <1>3, <1>4, <1>5, <1>6, <1>7, <1>8, <1>9, <1>10, <1>11 DEF Next, RunJob

\* What a plan is made of.
LEMMA PlanMade ==
  ASSUME ConstantsOK, InterfacesApart, WorkOK, conv.pc = "list", NEW seen, Plan(seen)
  PROVE  /\ conv'.pc = "steps" /\ conv'.ok = conv.ok
         /\ conv'.stop = PlannedStops(conv.fleet, seen, conv.released) /\ conv'.stop \subseteq Ordinal
         /\ conv'.steps = PlannedSteps(conv.fleet, Own, seen \ conv'.stop, conv.provisioned)
         /\ Own \in Server /\ conv.fleet \in Snapshot
         /\ \A x \in conv'.steps : ServerStep(x) \/ \E p \in LinkedPeers(conv.fleet, Own) : LinkStep(x, p)
         /\ \E x \in conv'.steps : ServerStep(x) /\ x.do = ActionFor(Own, seen \ conv'.stop, conv.provisioned)
         /\ \A p \in LinkedPeers(conv.fleet, Own) : \E x \in conv'.steps : LinkStep(x, p)
<1>1. conv \in Conv /\ conv.fleet \in Snapshot
  BY DEF WorkOK
<1>2. Own \in Server
  <2>1. PICK t \in Server : Head(chain) = ConvergeJob(t)
    BY DEF WorkOK
  <2> QED
    BY <2>1 DEF Own, ConvergeJob
<1>3. /\ conv'.pc = "steps" /\ conv'.ok = conv.ok
      /\ conv'.stop = PlannedStops(conv.fleet, seen, conv.released)
      /\ conv'.steps = PlannedSteps(conv.fleet, Own, seen \ conv'.stop, conv.provisioned)
  BY <1>1 DEF Plan, Conv, Own
<1>4. conv'.stop \subseteq Ordinal
  BY <1>1, <1>3 DEF PlannedStops, Conv
<1> DEFINE left == seen \ conv'.stop
           own == [iface |-> Own, config |-> ServerConfig(conv.fleet, Own), do |-> ActionFor(Own, left, conv.provisioned)]
           link(p) == [iface |-> conv.fleet.row[p].name, config |-> LinkConfig(conv.fleet, p),
                       do |-> ActionFor(conv.fleet.row[p].name, left, conv.provisioned)]
<1>5. conv'.steps = {own} \cup {link(p) : p \in LinkedPeers(conv.fleet, Own)}
  BY <1>3 DEF PlannedSteps
<1>6. ServerStep(own) /\ own.do = ActionFor(Own, left, conv.provisioned)
  <2>1. Own \notin conv.provisioned
    BY <1>1, <1>2 DEF InterfacesApart, Conv
  <2>2. own.do # "restart"
    BY <2>1 DEF ActionFor
  <2>3. ServerConfig(conv.fleet, Own).port # None
    BY <1>1, <1>2 DEF ServerConfig, Snapshot, ConstantsOK
  <2>4. ServerConfig(conv.fleet, Own).peers = PlainPeers(conv.fleet, Own)
    BY DEF ServerConfig
  <2> QED
    BY <2>2, <2>3, <2>4 DEF ServerStep
<1>7. ASSUME NEW p
      PROVE  LinkStep(link(p), p)
  BY DEF LinkStep, LinkConfig
<1>8. \A x \in conv'.steps : ServerStep(x) \/ \E p \in LinkedPeers(conv.fleet, Own) : LinkStep(x, p)
  <2> SUFFICES ASSUME NEW x \in conv'.steps, x # own
               PROVE  \E p \in LinkedPeers(conv.fleet, Own) : LinkStep(x, p)
    BY <1>6
  <2>1. PICK p \in LinkedPeers(conv.fleet, Own) : x = link(p)
    BY <1>5
  <2>2. LinkStep(x, p)
    BY <1>7, <2>1
  <2> QED
    BY <2>2
<1>9. \E x \in conv'.steps : ServerStep(x) /\ x.do = ActionFor(Own, left, conv.provisioned)
  BY <1>5, <1>6
<1>10. \A p \in LinkedPeers(conv.fleet, Own) : \E x \in conv'.steps : LinkStep(x, p)
  BY <1>5, <1>7
<1> QED
  BY <1>1, <1>2, <1>3, <1>4, <1>8, <1>9, <1>10

LEMMA StepsStep ==
  ASSUME ConstantsOK, InterfacesApart, LinksTypeOK, WorkOK, StepsInv, [Next]_vars
  PROVE  StepsInv'
<1>1. conv'.pc # "route" => conv'.links = {}
  BY LinksStep DEF StepsInv
<1>2. ASSUME conv'.pc \in {"steps", "route"}
      PROVE  /\ conv'.stop \subseteq Ordinal
             /\ \A x \in conv'.steps : ServerStep(x)' \/ \E p \in LinkedPeers(conv'.fleet, Own') : LinkStep(x, p)'
             /\ conv'.stop # {} => \A p \in LinkedPeers(conv'.fleet, Own') : \E x \in conv'.steps : LinkStep(x, p)'
             /\ conv'.pc = "route" => conv'.stop = {} /\ conv'.steps = {}
  <2>1. Own' = Own /\ InJob /\ conv'.fleet = conv.fleet /\ PlanMoves
    BY <1>2, PlanKinds
  <2>2. \A x : ServerStep(x)' <=> ServerStep(x)
    BY <2>1 DEF ServerStep
  <2>3. \A x, p : LinkStep(x, p)' <=> LinkStep(x, p)
    BY <2>1 DEF LinkStep
  <2> DEFINE L == LinkedPeers(conv.fleet, Own)
             Good(x) == ServerStep(x) \/ \E p \in L : LinkStep(x, p)
  <2>4. SUFFICES /\ conv'.stop \subseteq Ordinal
                 /\ \A x \in conv'.steps : Good(x)
                 /\ conv'.stop # {} => \A p \in L : \E x \in conv'.steps : LinkStep(x, p)
                 /\ conv'.pc = "route" => conv'.stop = {} /\ conv'.steps = {}
    BY <2>1, <2>2, <2>3
  <2>5. CASE Planned
    <3>1. PICK seen : Plan(seen)
      BY <2>5 DEF Planned
    <3> QED
      BY <2>5, <3>1, PlanMade DEF Planned
  <2>6. ASSUME conv.pc # "list"
        PROVE  /\ conv.stop \subseteq Ordinal /\ \A x \in conv.steps : Good(x)
               /\ conv.stop # {} => \A p \in L : \E x \in conv.steps : LinkStep(x, p)
               /\ conv.pc = "route" => conv.stop = {} /\ conv.steps = {}
    BY <2>1, <2>6 DEF StepsInv, InJob
  <2>7. ASSUME NEW i \in Iface, Stopped(i)
        PROVE  /\ conv'.stop \subseteq Ordinal /\ \A x \in conv'.steps : Good(x)
               /\ conv'.stop # {} => \A p \in L : \E x \in conv'.steps : LinkStep(x, p)
               /\ conv'.pc = "route" => conv'.stop = {} /\ conv'.steps = {}
    BY <2>6, <2>7 DEF Stopped
  <2>8. ASSUME NEW x \in conv.steps, Applied(x)
        PROVE  /\ conv'.stop = {} /\ \A y \in conv'.steps : Good(y)
               /\ conv'.pc # "route"
    BY <2>6, <2>8 DEF Applied, IsNext
  <2>9. ASSUME NEW x \in conv.steps, Restarted(x)
        PROVE  /\ conv'.stop = {} /\ \A y \in conv'.steps : Good(y)
               /\ conv'.pc # "route"
    <3>1. PICK p \in L : LinkStep(x, p)
      BY <2>6, <2>9 DEF Restarted, IsNext, ServerStep
    <3>2. LinkStep([x EXCEPT !.do = "start"], p)
      <4>1. x \in Step
        BY DEF WorkOK, Conv
      <4> QED
        BY <3>1, <4>1 DEF LinkStep, Step
    <3> QED
      BY <2>6, <2>9, <3>2 DEF Restarted, IsNext
  <2>10. CASE Skipped
    BY <2>10 DEF Skipped
  <2>11. CASE Through
    BY <2>6, <2>11, <1>2, <2>1 DEF Through, InJob
  <2> QED
    BY <2>1, <2>5, <2>7, <2>8, <2>9, <2>10, <2>11 DEF PlanMoves
<1> QED
  BY <1>1, <1>2 DEF StepsInv

-----------------------------------------------------------------------------
(* The devices.                                                            *)

\* A server's interface is always up, a link that is up shows its peer, and every route leads
\* through a link that is up.
ServersUp == \A s \in Server : up[s].port # None
LinksShown == \A i \in Ordinal : IsUp(i) => up[i].peers # {} /\ i \notin ServerOrdinal
RoutesUp ==
  /\ \A t \in RouteTable : dflt[t] # None => dflt[t] \in Ordinal /\ IsUp(dflt[t])
  /\ \A p \in Peer : main[p] # None => main[p] \in Ordinal /\ IsUp(main[p])
DevicesInv == ServersUp /\ LinksShown /\ RoutesUp

\* What a step may do to the interfaces: take one link down, or apply one step of the plan.
LEMMA UpChanges ==
  ASSUME ConstantsOK, InterfacesApart, LinksTypeOK, WorkOK, HostOK, StepsInv, [Next]_vars
  PROVE  \/ \A j \in Iface : up'[j] = up[j]
         \/ \E i \in Ordinal : up'[i] = Down /\ \A j \in Iface \ {i} : up'[j] = up[j]
         \/ \E x \in conv.steps : InJob /\ Applied(x)
<1>1. CASE conv'.pc \in {"steps", "route"}
  <2>1. InJob /\ PlanMoves
    BY <1>1, PlanKinds
  <2>2. ASSUME NEW i \in Iface, Stopped(i)
        PROVE  i \in Ordinal /\ up'[i] = Down /\ \A j \in Iface \ {i} : up'[j] = up[j]
    BY <2>2 DEF Stopped, StepsInv, HostOK
  <2>3. ASSUME NEW x \in conv.steps, Restarted(x)
        PROVE  x.iface \in Ordinal /\ up'[x.iface] = Down /\ \A j \in Iface \ {x.iface} : up'[j] = up[j]
    <3>1. PICK p \in LinkedPeers(conv.fleet, Own) : LinkStep(x, p)
      BY <2>3 DEF Restarted, IsNext, StepsInv, ServerStep
    <3>2. conv.fleet \in Snapshot
      BY <2>1 DEF InJob, WorkOK
    <3>3. x.iface \in Ordinal
      BY <3>1, <3>2 DEF LinkStep, LinkedPeers, HasLink, Snapshot, Row
    <3> QED
      BY <2>3, <3>3 DEF Restarted, HostOK, Iface
  <2> QED
    BY <2>1, <2>2, <2>3 DEF PlanMoves, Planned, Skipped, Through
<1>2. CASE conv'.pc \notin {"steps", "route"}
  <2>1. ASSUME NEW h \in Handler, Teardown(h)
        PROVE  \/ \A j \in Iface : up'[j] = up[j]
               \/ \E i \in Ordinal : up'[i] = Down /\ \A j \in Iface \ {i} : up'[j] = up[j]
    <3>1. up' = [up EXCEPT ![req[h].row.name] = Down] /\ req[h].row.name \in Ordinal \cup {None}
      BY <2>1 DEF Teardown, LinksTypeOK, Req, Row
    <3>2. None \notin Iface
      BY DEF InterfacesApart, ConstantsOK, Iface
    <3> QED
      BY <3>1, <3>2 DEF HostOK, Iface
  <2>2. ASSUME NEW h \in Handler, TeardownBlind(h) \/ TeardownFail(h)
        PROVE  up' = up
    BY <2>2 DEF TeardownBlind, TeardownFail, host
  <2>3. ASSUME Handle \/ (\E s \in Server : ConvergeBegin(s)) \/ ReconcileStep \/ ReconcileReject \/ ReconcileEnd \/ ConvergeEnd
               \/ ListInterfaces
        PROVE  up' = up
    BY <2>3 DEF Handle, ConvergeBegin, ReconcileStep, ReconcileReject, ReconcileEnd, ConvergeEnd, ListInterfaces, host
  <2>4. conv \in Conv
    BY DEF WorkOK
  <2>5. ~Drain
    BY <1>2, <2>4 DEF Drain, Conv
  <2>6. \A i \in Iface : ~StopStep(i)
    BY <1>2, <2>4 DEF StopStep, SkipSteps, Conv
  <2>7. \A x \in conv.steps : ~StartStep(x) /\ ~ReloadStep(x) /\ ~RestartStep(x)
    BY <1>2, <2>4 DEF StartStep, ReloadStep, RestartStep, IsNext, AfterStep, SkipSteps, Conv
  <2>8. ASSUME NEW s \in Server, RouteMain(s) \/ RouteMainFail(s)
        PROVE  up' = up
    BY <2>8 DEF RouteMain, RouteMainFail
  <2>9. ASSUME NEW p \in Peer, RouteTableOf(p) \/ RouteTableFail(p)
        PROVE  up' = up
    BY <2>9 DEF RouteTableOf, RouteTableFail
  <2>10. CASE UNCHANGED vars
    BY <2>10 DEF vars, host
  <2> QED
    BY <2>1, <2>2, <2>3, <2>5, <2>6, <2>7, <2>8, <2>9, <2>10 DEF Next, RunJob
<1> QED
  BY <1>1, <1>2

\* A step of the plan brings its interface up, or leaves it up.
LEMMA AppliedShows ==
  ASSUME ConstantsOK, InterfacesApart, WorkOK, HostOK, StepsInv, SnapInv, InJob,
         NEW x \in conv.steps, Applied(x)
  PROVE  /\ x.iface \in Iface /\ \A j \in Iface \ {x.iface} : up'[j] = up[j]
         /\ up'[x.iface].peers = x.config.peers
         /\ up'[x.iface].port \in {up[x.iface].port, x.config.port}
         /\ ServerStep(x) => x.iface \in Server
         /\ \A p \in LinkedPeers(conv.fleet, Own) : LinkStep(x, p) =>
              x.iface \in Ordinal \ ServerOrdinal /\ up'[x.iface].peers = {p}
         /\ ServerStep(x) \/ \E p \in LinkedPeers(conv.fleet, Own) : LinkStep(x, p)
<1>1. conv.fleet \in Snapshot /\ conv.pc = "steps" /\ x \in Step /\ Closed(conv.fleet)
  BY DEF Applied, IsNext, WorkOK, Conv, SnapInv, InJob
<1>2. Own \in Server
  <2>1. PICK t \in Server : Head(chain) = ConvergeJob(t)
    BY <1>1 DEF WorkOK
  <2> QED
    BY <2>1 DEF Own, ConvergeJob
<1>3. PICK c \in Synced(up[x.iface], x.config) : up' = [up EXCEPT ![x.iface] = c]
  BY DEF Applied
<1>4. x.iface \in Iface /\ up[x.iface] \in Config /\ x.config \in Config
  BY <1>1 DEF Step, HostOK
<1>5. c.peers = x.config.peers /\ c.port \in {up[x.iface].port, x.config.port}
  BY <1>4 DEF Synced, Config
<1>6. up'[x.iface] = c /\ \A j \in Iface \ {x.iface} : up'[j] = up[j]
  BY <1>3, <1>4 DEF HostOK
<1>7. ServerStep(x) => x.iface \in Server
  BY <1>2 DEF ServerStep
<1>8. ASSUME NEW p \in LinkedPeers(conv.fleet, Own), LinkStep(x, p)
      PROVE  x.iface \in Ordinal \ ServerOrdinal /\ up'[x.iface].peers = {p}
  <2>1. p \in Peer /\ conv.fleet.row[p] \in Row /\ HasLink(conv.fleet.row[p])
    BY <1>1 DEF LinkedPeers, Snapshot
  <2>2. x.iface \in Ordinal \ ServerOrdinal
    BY <1>1, <1>8, <2>1 DEF LinkStep, HasLink, Row, Closed
  <2> QED
    BY <1>5, <1>6, <1>8, <2>2 DEF LinkStep
<1>9. ServerStep(x) \/ \E p \in LinkedPeers(conv.fleet, Own) : LinkStep(x, p)
  BY <1>1 DEF StepsInv
<1> QED
  BY <1>4, <1>5, <1>6, <1>7, <1>8, <1>9

\* A link that is taken down loses its routes; so does a table that is drained.
LEMMA RoutesUpStep ==
  ASSUME ConstantsOK, InterfacesApart, LinksTypeOK, WorkOK, HostOK, StepsInv, SnapInv, RoutesUp, [Next]_vars
  PROVE  RoutesUp'
<1> DEFINE Leads(i) == i # None => i \in Ordinal /\ IsUp(i)
<1>1. (\A t \in RouteTable : Leads(dflt[t])) /\ (\A p \in Peer : Leads(main[p])) /\ conv \in Conv
  BY DEF RoutesUp, WorkOK
<1>2. ASSUME \A t \in RouteTable : Leads(dflt[t])', \A p \in Peer : Leads(main[p])'
      PROVE  RoutesUp'
  BY <1>2 DEF RoutesUp
<1> HIDE DEF Leads
<1>3. ASSUME up' = up, NEW i, Leads(i)
      PROVE  i # None => i \in Ordinal /\ (IsUp(i))'
  BY <1>3 DEF Leads, IsUp
<1>4. ASSUME UNCHANGED <<up, dflt, main>>
      PROVE  RoutesUp'
  BY <1>1, <1>4 DEF RoutesUp, Leads, IsUp
<1>5. ASSUME up' = up, \A t \in RouteTable : dflt'[t] = None \/ Leads(dflt'[t]),
             \A p \in Peer : main'[p] = None \/ Leads(main'[p])
      PROVE  RoutesUp'
  BY <1>5 DEF RoutesUp, Leads, IsUp
<1>6. ASSUME NEW i, up' = [up EXCEPT ![i] = Down],
             \A t \in RouteTable : dflt'[t] = None \/ (dflt'[t] = dflt[t] /\ dflt[t] # i),
             \A p \in Peer : main'[p] = None \/ (main'[p] = main[p] /\ main[p] # i)
      PROVE  RoutesUp'
  <2>1. \A j \in Ordinal \ {i} : up'[j] = up[j]
    BY <1>6 DEF HostOK, Iface
  <2> QED
    BY <1>1, <1>6, <2>1 DEF RoutesUp, Leads, IsUp
<1>7. ASSUME NEW i, Delete(i)
      PROVE  RoutesUp'
  BY <1>6, <1>7 DEF Delete
<1>8. ASSUME Handle \/ (\E s \in Server : ConvergeBegin(s)) \/ ReconcileStep \/ ReconcileReject \/ ReconcileEnd \/ ConvergeEnd
             \/ ListInterfaces
      PROVE  RoutesUp'
  <2>1. UNCHANGED <<up, dflt, main>>
    BY <1>8 DEF Handle, ConvergeBegin, ReconcileStep, ReconcileReject, ReconcileEnd, ConvergeEnd, ListInterfaces, host
  <2> QED
    BY <1>4, <2>1
<1>9. ASSUME NEW h \in Handler, Teardown(h)
      PROVE  RoutesUp'
  BY <1>6, <1>9 DEF Teardown
<1>10. ASSUME NEW h \in Handler, TeardownBlind(h)
       PROVE  RoutesUp'
  <2>1. \A t \in RouteTable : dflt'[t] \in {None, dflt[t]}
    BY <1>10 DEF TeardownBlind, HostOK
  <2>2. UNCHANGED <<up, main>>
    BY <1>10 DEF TeardownBlind
  <2> QED
    BY <1>1, <1>5, <2>1, <2>2
<1>11. ASSUME NEW h \in Handler, TeardownFail(h)
       PROVE  RoutesUp'
  BY <1>4, <1>11 DEF TeardownFail, host
<1>12. ASSUME NEW i \in Iface, StopStep(i)
       PROVE  RoutesUp'
  BY <1>4, <1>7, <1>12 DEF StopStep
<1>13. ASSUME NEW x \in conv.steps, StartStep(x) \/ ReloadStep(x)
       PROVE  RoutesUp'
  <2>1. UNCHANGED <<dflt, main>> /\ conv'.pc \in {"steps", "route"} /\ conv.pc = "steps"
    BY <1>1, <1>13 DEF StartStep, ReloadStep, IsNext, AfterStep, SkipSteps, Conv
  <2>2. CASE up' = up
    BY <1>4, <2>1, <2>2
  <2>3. CASE Applied(x)
    <3>1. /\ x.iface \in Iface /\ \A j \in Iface \ {x.iface} : up'[j] = up[j]
          /\ x.iface \in Ordinal => up'[x.iface].peers # {}
      BY <2>1, <2>3, AppliedShows DEF InJob, InterfacesApart
    <3>2. \A i \in Ordinal : up[i] # Down => up'[i] # Down
      BY <3>1 DEF Iface, Down
    <3> QED
      BY <1>1, <2>1, <3>2 DEF RoutesUp, Leads, IsUp
  <2>4. up' = up \/ Applied(x)
    <3>1. CASE StartStep(x)
      BY <1>1, <2>1, <3>1 DEF StartStep, Applied, AfterStep, Synced, IsNext, Conv
    <3>2. CASE ReloadStep(x)
      BY <1>1, <2>1, <3>2 DEF ReloadStep, Applied, AfterStep, IsNext, Conv
    <3> QED
      BY <1>13, <3>1, <3>2
  <2> QED
    BY <2>2, <2>3, <2>4
<1>14. ASSUME NEW x \in conv.steps, RestartStep(x)
       PROVE  RoutesUp'
  BY <1>4, <1>7, <1>14 DEF RestartStep
<1>15. CASE Drain
  <2>1. \A t \in RouteTable : dflt'[t] \in {None, dflt[t]}
    BY <1>15 DEF Drain
  <2>2. UNCHANGED <<up, main>>
    BY <1>15 DEF Drain
  <2> QED
    BY <1>1, <1>5, <2>1, <2>2
<1>16. ASSUME NEW s \in Server, RouteMain(s) \/ RouteMainFail(s)
       PROVE  RoutesUp'
  <2>1. UNCHANGED <<up, dflt>> /\ conv.fleet \in Snapshot
    BY <1>16 DEF RouteMain, RouteMainFail, WorkOK
  <2>2. PICK links, flushed : /\ links \subseteq LinkedPeers(conv.fleet, s) /\ FlushAndLay(s, links, flushed)
                              /\ \A q \in links : IsUp(RouteOf(q).name)
    <3>1. CASE RouteMain(s)
      BY <3>1 DEF RouteMain
    <3>2. CASE RouteMainFail(s)
      BY <3>2 DEF RouteMainFail
    <3> QED
      BY <1>16, <3>1, <3>2
  <2>3. \A q \in links : Leads(RouteOf(q).name)
    BY <2>1, <2>2 DEF LinkedPeers, RouteOf, Snapshot, Row, HasLink, Leads
  <2>4. \A q \in Peer : main'[q] = None \/ Leads(main'[q])
    BY <1>1, <2>2, <2>3 DEF FlushAndLay
  <2> QED
    BY <1>1, <1>5, <2>1, <2>4
<1>17. ASSUME NEW p \in Peer, RouteTableOf(p) \/ RouteTableFail(p)
       PROVE  RoutesUp'
  <2>1. /\ UNCHANGED <<up, main>> /\ conv.fleet \in Snapshot /\ HasLink(conv.fleet.row[p])
    BY <1>17 DEF RouteTableOf, RouteTableFail, WorkOK
  <2>2. RouteOf(p).name \in Ordinal
    BY <2>1 DEF RouteOf, Snapshot, Row, HasLink
  <2>3. \A t \in RouteTable : dflt'[t] \in {None, dflt[t]} \/ (dflt'[t] = RouteOf(p).name /\ IsUp(RouteOf(p).name))
    <3>1. CASE RouteTableOf(p)
      BY <3>1 DEF RouteTableOf, HostOK
    <3>2. CASE RouteTableFail(p)
      BY <3>2 DEF RouteTableFail, HostOK
    <3> QED
      BY <1>17, <3>1, <3>2
  <2>4. \A t \in RouteTable : dflt'[t] = None \/ Leads(dflt'[t])
    BY <1>1, <2>2, <2>3 DEF Leads
  <2> QED
    BY <1>1, <1>5, <2>1, <2>4
<1>18. CASE UNCHANGED vars
  BY <1>4, <1>18 DEF vars, host
<1> QED
  BY <1>8, <1>9, <1>10, <1>11, <1>12, <1>13, <1>14, <1>15, <1>16, <1>17, <1>18 DEF Next, RunJob

\* A link is up only with its peer.
LEMMA LinksShownStep ==
  ASSUME ConstantsOK, InterfacesApart, LinksTypeOK, WorkOK, HostOK, StepsInv, SnapInv, LinksShown, [Next]_vars
  PROVE  LinksShown'
<1>1. CASE \A j \in Iface : up'[j] = up[j]
  BY <1>1 DEF LinksShown, IsUp, Iface
<1>2. ASSUME NEW i \in Ordinal, up'[i] = Down, \A j \in Iface \ {i} : up'[j] = up[j]
      PROVE  LinksShown'
  <2>1. \A j \in Ordinal : up'[j] = up[j] \/ up'[j] = Down
    BY <1>2 DEF Iface
  <2> QED
    BY <2>1 DEF LinksShown, IsUp
<1>3. ASSUME NEW x \in conv.steps, InJob, Applied(x)
      PROVE  LinksShown'
  <2>1. /\ x.iface \in Iface /\ \A j \in Iface \ {x.iface} : up'[j] = up[j]
        /\ x.iface \in Server \/ (x.iface \in Ordinal \ ServerOrdinal /\ up'[x.iface].peers # {})
    BY <1>3, AppliedShows
  <2>2. x.iface \in Server => x.iface \notin Ordinal
    BY DEF InterfacesApart
  <2> QED
    BY <2>1, <2>2 DEF LinksShown, IsUp, Iface
<1> QED
  BY <1>1, <1>2, <1>3, UpChanges

\* No step of the chain takes the interface of a server down.
LEMMA ServersUpStep ==
  ASSUME ConstantsOK, InterfacesApart, LinksTypeOK, WorkOK, HostOK, StepsInv, SnapInv, ServersUp, [Next]_vars
  PROVE  ServersUp'
<1>1. CASE \A j \in Iface : up'[j] = up[j]
  BY <1>1 DEF ServersUp, Iface
<1>2. ASSUME NEW i \in Ordinal, up'[i] = Down, \A j \in Iface \ {i} : up'[j] = up[j]
      PROVE  ServersUp'
  <2>1. \A s \in Server : up'[s] = up[s]
    BY <1>2 DEF InterfacesApart, Iface
  <2> QED
    BY <2>1 DEF ServersUp
<1>3. ASSUME NEW x \in conv.steps, InJob, Applied(x)
      PROVE  ServersUp'
  <2>1. /\ x.iface \in Iface /\ \A j \in Iface \ {x.iface} : up'[j] = up[j]
        /\ ServerStep(x) \/ x.iface \in Ordinal
        /\ up'[x.iface].port \in {up[x.iface].port, x.config.port}
    BY <1>3, AppliedShows
  <2>2. x.iface \in Server => ServerStep(x)
    BY <2>1 DEF InterfacesApart
  <2>3. x.iface \in Server => up'[x.iface].port # None
    BY <2>1, <2>2 DEF ServerStep, ServersUp
  <2> QED
    BY <2>1, <2>3 DEF ServersUp, Iface
<1> QED
  BY <1>1, <1>2, <1>3, UpChanges

LEMMA DevicesStep ==
  ASSUME ConstantsOK, InterfacesApart, LinksTypeOK, WorkOK, HostOK, StepsInv, SnapInv, DevicesInv, [Next]_vars
  PROVE  DevicesInv'
  BY ServersUpStep, LinksShownStep, RoutesUpStep DEF DevicesInv

-----------------------------------------------------------------------------
(* What the interface steps achieve.                                       *)

\* What is being applied and has not failed: the links that were not to be stopped, and the links
\* and the server that have had their step.
Applying == conv.pc \in {"steps", "route"} /\ conv.ok
Unstopped(i) == i \in Ordinal \ conv.stop /\ IsUp(i)
LinkDone(p) == Applying /\ p \in LinkedPeers(conv.fleet, Own) /\ \A x \in conv.steps : ~LinkStep(x, p)
ServerDone == Applying /\ \A x \in conv.steps : ~ServerStep(x)

\* The listing failed and shows nothing up: the plan starts the server's interface first, in vain.
Blind == conv.stop = {} /\ \E x \in conv.steps : ServerStep(x) /\ x.do = "start"

\* No link is up but those of the snapshot and those that are still to be stopped, and an interface
\* that has had its step shows the peers of the snapshot.
PlanInv ==
  /\ Applying => Blind \/ \A i \in Ordinal : Unstopped(i) => i \in LinkNames(conv.fleet)
  /\ \A p \in Peer : LinkDone(p) => up[conv.fleet.row[p].name].peers = {p}
  /\ ServerDone => up[Own].peers = PlainPeers(conv.fleet, Own)

\* The links of a snapshot: who owns which name.
LEMMA LinkOwners ==
  ASSUME ConstantsOK, NEW f \in Snapshot, Closed(f), NEW p \in Peer, HasLink(f.row[p])
  PROVE  /\ p \in f.live /\ p \in LinkedPeers(f, Home[p]) /\ Home[p] \in Server
         /\ f.row[p].name \in Ordinal /\ f.row[p].name \in LinkNames(f)
         /\ f.row[p].name \notin ServerOrdinal /\ f.row[p].table \in RouteTable
         /\ \A q \in Peer \ {p} : f.row[q].name # f.row[p].name /\ f.row[q].table # f.row[p].table
<1>1. Home[p] \in Server /\ f.row[p] \in Row
  BY DEF ConstantsOK, Snapshot
<1>2. p \in f.live
  BY DEF Closed, Blank, HasLink
<1>3. p \in LinkedPeers(f, Home[p])
  BY <1>2 DEF LinkedPeers
<1>4. f.row[p].name \in LinkNames(f)
  BY <1>1, <1>3 DEF LinkNames
<1>5. /\ f.row[p].name \in Ordinal /\ f.row[p].name # None
      /\ f.row[p].table \in RouteTable /\ f.row[p].table # None
  BY <1>1 DEF HasLink, Row
<1>6. f.row[p].name \notin ServerOrdinal
  BY <1>5 DEF Closed
<1>7. \A q \in Peer \ {p} : f.row[q].name # f.row[p].name /\ f.row[q].table # f.row[p].table
  BY <1>5 DEF Closed
<1> QED
  BY <1>1, <1>2, <1>3, <1>4, <1>5, <1>6, <1>7

LEMMA LinkedInFleet ==
  ASSUME NEW f \in Snapshot, NEW s, NEW p \in LinkedPeers(f, s)
  PROVE  p \in Peer /\ HasLink(f.row[p]) /\ Home[p] = s
BY DEF LinkedPeers, Snapshot

LEMMA NameOwned ==
  ASSUME NEW f \in Snapshot, NEW i \in LinkNames(f)
  PROVE  \E s \in Server : \E p \in LinkedPeers(f, s) : i = f.row[p].name
BY DEF LinkNames

\* The interfaces of a plan: that of the server, and one for each of its links.
LEMMA PlanFacts ==
  ASSUME ConstantsOK, InterfacesApart, WorkOK, SnapInv, InJob
  PROVE  /\ conv.fleet \in Snapshot /\ Closed(conv.fleet) /\ Own \in Server /\ Own \in Iface /\ Own \notin Ordinal
         /\ \A p \in LinkedPeers(conv.fleet, Own) :
              /\ p \in Peer /\ conv.fleet.row[p].name \in Ordinal /\ conv.fleet.row[p].name \in Iface
              /\ conv.fleet.row[p].name \in LinkNames(conv.fleet) /\ conv.fleet.row[p].name # Own
              /\ \A q \in LinkedPeers(conv.fleet, Own) \ {p} : conv.fleet.row[q].name # conv.fleet.row[p].name
<1>1. conv.fleet \in Snapshot /\ Closed(conv.fleet) /\ Own \in Server
  <2>1. PICK t \in Server : Head(chain) = ConvergeJob(t)
    BY DEF InJob, WorkOK
  <2> QED
    BY <2>1 DEF InJob, WorkOK, SnapInv, Own, ConvergeJob
<1>2. Own \in Iface /\ Own \notin Ordinal
  BY <1>1 DEF Iface, InterfacesApart
<1>3. ASSUME NEW p \in LinkedPeers(conv.fleet, Own)
      PROVE  /\ p \in Peer /\ conv.fleet.row[p].name \in Ordinal /\ conv.fleet.row[p].name \in Iface
             /\ conv.fleet.row[p].name \in LinkNames(conv.fleet) /\ conv.fleet.row[p].name # Own
             /\ \A q \in LinkedPeers(conv.fleet, Own) \ {p} : conv.fleet.row[q].name # conv.fleet.row[p].name
  <2>1. p \in Peer /\ HasLink(conv.fleet.row[p]) /\ \A q \in LinkedPeers(conv.fleet, Own) : q \in Peer
    BY <1>1, LinkedInFleet
  <2>2. /\ conv.fleet.row[p].name \in Ordinal /\ conv.fleet.row[p].name \in LinkNames(conv.fleet)
        /\ \A q \in Peer \ {p} : conv.fleet.row[q].name # conv.fleet.row[p].name
    BY <1>1, <2>1, LinkOwners
  <2> QED
    BY <1>2, <2>1, <2>2 DEF Iface
<1> QED
  BY <1>1, <1>2, <1>3

\* A restart is of a link, comes after the server's step and is followed by a start.
LEMMA RestartFacts ==
  ASSUME ConstantsOK, InterfacesApart, WorkOK, HostOK, StepsInv, SnapInv, InJob, NEW x \in conv.steps, Restarted(x)
  PROVE  /\ x.iface \in Ordinal /\ ~ServerStep(x) /\ \A y \in conv.steps : y.iface \notin Server
         /\ up'[x.iface] = Down /\ \A j \in Iface \ {x.iface} : up'[j] = up[j]
         /\ \E p \in LinkedPeers(conv.fleet, Own) :
              /\ LinkStep(x, p) /\ LinkStep([x EXCEPT !.do = "start"], p) /\ x.iface = conv.fleet.row[p].name
              /\ conv'.steps = (conv.steps \ {x}) \cup {[x EXCEPT !.do = "start"]}
<1>1. x.do = "restart" /\ conv.pc = "steps" /\ x \in Step /\ ~ServerStep(x)
  BY DEF Restarted, IsNext, WorkOK, Conv, ServerStep
<1>2. PICK p \in LinkedPeers(conv.fleet, Own) : LinkStep(x, p)
  BY <1>1 DEF StepsInv
<1>3. x.iface = conv.fleet.row[p].name /\ LinkStep([x EXCEPT !.do = "start"], p)
  BY <1>1, <1>2 DEF LinkStep, Step
<1>4. x.iface \in Ordinal /\ x.iface \in Iface
  BY <1>3, PlanFacts
<1>5. \A y \in conv.steps : y.iface \notin Server
  BY <1>4 DEF Restarted, IsNext, InterfacesApart
<1>6. up'[x.iface] = Down /\ \A j \in Iface \ {x.iface} : up'[j] = up[j]
  BY <1>4 DEF Restarted, HostOK
<1> QED
  BY <1>1, <1>2, <1>3, <1>4, <1>5, <1>6 DEF Restarted

\* A link that is up and not to be stopped is one of the snapshot, or was up and not to be stopped
\* before, unless the plan was made without seeing any.
LEMMA SweptStep ==
  ASSUME ConstantsOK, InterfacesApart, LinksTypeOK, WorkOK, HostOK, StepsInv, SnapInv, LinksShown, [Next]_vars,
         Applying', NEW i \in Ordinal, Unstopped(i)'
  PROVE  \/ i \in LinkNames(conv.fleet)
         \/ conv.pc = "list" /\ Plan({}) /\ Fails(TRUE)
         \/ Applying /\ Unstopped(i)
<1>1. InJob /\ conv'.fleet = conv.fleet /\ PlanMoves
  BY PlanKinds DEF Applying
<1>2. i \in Iface /\ i \in Ordinal \ conv'.stop /\ up'[i] # Down /\ conv'.ok
  BY DEF Unstopped, IsUp, Iface, Applying
<1>3. CASE Planned
  <2>1. CASE Plan({j \in Iface : IsUp(j)})
    <3> DEFINE seen == {j \in Iface : IsUp(j)}
    <3>1. conv'.stop = PlannedStops(conv.fleet, seen, conv.released)
      BY <1>3, <2>1, PlanMade DEF Planned
    <3>2. i \in seen /\ i \notin ServerOrdinal
      BY <1>2, <1>3 DEF Planned, IsUp, LinksShown
    <3> QED
      BY <1>2, <3>1, <3>2 DEF PlannedStops
  <2> QED
    BY <1>3, <2>1 DEF Planned
<1>4. ASSUME NEW j \in Iface, Stopped(j)
      PROVE  Applying /\ Unstopped(i)
  BY <1>2, <1>4 DEF Stopped, HostOK, Applying, Unstopped, IsUp
<1>5. ASSUME NEW x \in conv.steps, Applied(x)
      PROVE  i \in LinkNames(conv.fleet) \/ (Applying /\ Unstopped(i))
  <2>1. conv.stop = {} /\ Applying
    BY <1>2, <1>5 DEF Applied, IsNext, Applying
  <2>2. CASE i = x.iface
    <3>1. PICK p \in LinkedPeers(conv.fleet, Own) : LinkStep(x, p)
      BY <1>1, <1>5, <2>2, AppliedShows DEF InterfacesApart
    <3> QED
      BY <1>1, <2>2, <3>1, PlanFacts DEF LinkStep
  <2>3. CASE i # x.iface
    <3>1. up'[i] = up[i]
      BY <1>1, <1>2, <1>5, <2>3, AppliedShows
    <3> QED
      BY <1>2, <2>1, <3>1 DEF Unstopped, IsUp
  <2> QED
    BY <2>2, <2>3
<1>6. ASSUME NEW x \in conv.steps, Restarted(x)
      PROVE  Applying /\ Unstopped(i)
  <2>1. conv.stop = {} /\ Applying
    BY <1>2, <1>6 DEF Restarted, IsNext, Applying
  <2>2. up'[i] = up[i]
    BY <1>1, <1>2, <1>6, RestartFacts
  <2> QED
    BY <1>2, <2>1, <2>2 DEF Unstopped, IsUp
<1>7. ~Skipped
  BY <1>2 DEF Skipped
<1>8. CASE Through
  BY <1>1, <1>2, <1>8 DEF Through, Applying, Unstopped, IsUp, InJob
<1> QED
  BY <1>1, <1>3, <1>4, <1>5, <1>6, <1>7, <1>8 DEF PlanMoves

\* A link that has had its step shows its peer from that step on.
LEMMA PlacedStep ==
  ASSUME ConstantsOK, InterfacesApart, LinksTypeOK, WorkOK, HostOK, StepsInv, SnapInv, [Next]_vars,
         NEW p \in Peer, LinkDone(p)'
  PROVE  \/ up'[conv.fleet.row[p].name].peers = {p}
         \/ LinkDone(p) /\ up'[conv.fleet.row[p].name].peers = up[conv.fleet.row[p].name].peers
<1> DEFINE L == LinkedPeers(conv.fleet, Own)
           name(q) == conv.fleet.row[q].name
<1>1. InJob /\ Own' = Own /\ conv'.fleet = conv.fleet /\ PlanMoves /\ conv'.ok
  BY PlanKinds DEF LinkDone, Applying
<1>2. p \in L /\ \A x \in conv'.steps : ~LinkStep(x, p)
  BY <1>1 DEF LinkDone, LinkStep
<1>3. name(p) \in Ordinal /\ name(p) \in Iface /\ \A q \in L \ {p} : name(q) # name(p)
  BY <1>1, <1>2, PlanFacts
<1> HIDE DEF L, name
<1>4. ASSUME conv.pc \in {"steps", "route"}, conv.ok, \A x \in conv.steps : ~LinkStep(x, p)
      PROVE  LinkDone(p)
  BY <1>2, <1>4 DEF LinkDone, Applying, L
<1>5. ASSUME Planned
      PROVE  FALSE
  <2>1. PICK seen : Plan(seen)
    BY <1>5 DEF Planned
  <2>2. \E x \in conv'.steps : LinkStep(x, p)
    BY <1>2, <1>5, <2>1, PlanMade DEF Planned, L
  <2> QED
    BY <1>2, <2>2
<1>6. ASSUME NEW i \in Iface, Stopped(i)
      PROVE  FALSE
  <2>1. conv.stop # {} /\ conv.pc = "steps" /\ conv'.steps = conv.steps
    BY <1>6 DEF Stopped
  <2>2. \E x \in conv.steps : LinkStep(x, p)
    BY <1>2, <2>1 DEF StepsInv, L
  <2> QED
    BY <1>2, <2>1, <2>2
<1>7. ASSUME NEW x \in conv.steps, Applied(x)
      PROVE  up'[name(p)].peers = {p} \/ (LinkDone(p) /\ up'[name(p)].peers = up[name(p)].peers)
  <2>1. conv.ok /\ conv.pc = "steps" /\ conv'.steps = conv.steps \ {x}
    BY <1>1, <1>7 DEF Applied, IsNext
  <2>2. CASE LinkStep(x, p)
    <3>1. up'[x.iface].peers = {p}
      BY <1>1, <1>2, <1>7, <2>2, AppliedShows DEF L
    <3> QED
      BY <2>2, <3>1 DEF LinkStep, name
  <2>3. CASE ~LinkStep(x, p)
    <3>1. LinkDone(p)
      BY <1>2, <1>4, <2>1, <2>3
    <3>2. x.iface # name(p)
      <4>1. CASE ServerStep(x)
        BY <1>1, <1>3, <4>1, PlanFacts DEF ServerStep
      <4>2. ASSUME NEW q \in L, LinkStep(x, q)
            PROVE  x.iface # name(p)
        BY <1>3, <2>3, <4>2 DEF LinkStep, name
      <4> QED
        BY <1>1, <1>7, <4>1, <4>2, AppliedShows DEF L
    <3>3. up'[name(p)] = up[name(p)]
      BY <1>1, <1>3, <1>7, <3>2, AppliedShows
    <3> QED
      BY <3>1, <3>3
  <2> QED
    BY <2>2, <2>3
<1>8. ASSUME NEW x \in conv.steps, Restarted(x)
      PROVE  LinkDone(p) /\ up'[name(p)].peers = up[name(p)].peers
  <2>1. conv.ok /\ conv.pc = "steps"
    BY <1>1, <1>8 DEF Restarted, IsNext
  <2>2. PICK q \in L : /\ LinkStep(x, q) /\ LinkStep([x EXCEPT !.do = "start"], q) /\ x.iface = name(q)
                       /\ conv'.steps = (conv.steps \ {x}) \cup {[x EXCEPT !.do = "start"]}
    BY <1>1, <1>8, RestartFacts DEF L, name
  <2>3. q # p
    BY <1>2, <2>2
  <2>4. x.iface # name(p) /\ ~LinkStep(x, p)
    BY <1>3, <2>2, <2>3 DEF LinkStep, name
  <2>5. LinkDone(p)
    BY <1>2, <1>4, <2>1, <2>2, <2>4
  <2>6. up'[name(p)] = up[name(p)]
    BY <1>1, <1>3, <1>8, <2>4, RestartFacts
  <2> QED
    BY <2>5, <2>6
<1>9. ~Skipped
  BY <1>1 DEF Skipped
<1>10. ASSUME Through
       PROVE  LinkDone(p) /\ up'[name(p)].peers = up[name(p)].peers
  <2>1. up' = up /\ conv.ok /\ conv.pc \in {"steps", "route"} /\ \A x \in conv.steps : ~LinkStep(x, p)
    BY <1>1, <1>2, <1>10 DEF Through, LinkDone, Applying
  <2> QED
    BY <1>4, <2>1
<1> DEFINE Placed == up'[name(p)].peers = {p} \/ (LinkDone(p) /\ up'[name(p)].peers = up[name(p)].peers)
<1>11. Through => Placed
  BY <1>10
<1>12. \A x \in conv.steps : Applied(x) => Placed
  BY <1>7
<1>13. \A x \in conv.steps : Restarted(x) => Placed
  BY <1>8
<1> HIDE DEF Placed
<1>14. Placed
  BY <1>1, <1>5, <1>6, <1>9, <1>11, <1>12, <1>13 DEF PlanMoves
<1> QED
  BY <1>14 DEF Placed, name

\* And so does the server's interface.
LEMMA ServedStep ==
  ASSUME ConstantsOK, InterfacesApart, LinksTypeOK, WorkOK, HostOK, StepsInv, SnapInv, [Next]_vars, ServerDone'
  PROVE  up'[Own].peers = PlainPeers(conv.fleet, Own) \/ (ServerDone /\ up'[Own] = up[Own])
<1>1. InJob /\ Own' = Own /\ conv'.fleet = conv.fleet /\ PlanMoves /\ conv'.ok
  BY PlanKinds DEF ServerDone, Applying
<1>2. \A x \in conv'.steps : ~ServerStep(x)
  BY <1>1 DEF ServerDone, ServerStep
<1>3. Own \in Server /\ Own \in Iface /\ Own \notin Ordinal
  BY <1>1, PlanFacts
<1>4. CASE Planned
  <2>1. PICK seen : Plan(seen)
    BY <1>4 DEF Planned
  <2>2. \E x \in conv'.steps : ServerStep(x)
    BY <1>4, <2>1, PlanMade DEF Planned
  <2> QED
    BY <1>2, <2>2
<1>5. ASSUME NEW i \in Iface, Stopped(i)
      PROVE  ServerDone /\ up'[Own] = up[Own]
  BY <1>1, <1>2, <1>3, <1>5 DEF Stopped, StepsInv, HostOK, ServerDone, Applying
<1>6. ASSUME NEW x \in conv.steps, Applied(x)
      PROVE  up'[Own].peers = PlainPeers(conv.fleet, Own) \/ (ServerDone /\ up'[Own] = up[Own])
  <2>1. conv.ok /\ conv.pc = "steps" /\ conv'.steps = conv.steps \ {x}
    BY <1>1, <1>6 DEF Applied, IsNext
  <2>2. CASE ServerStep(x)
    <3>1. up'[x.iface].peers = x.config.peers
      BY <1>1, <1>6, AppliedShows
    <3> QED
      BY <2>2, <3>1 DEF ServerStep
  <2>3. CASE ~ServerStep(x)
    <3>1. x.iface # Own /\ \A j \in Iface \ {x.iface} : up'[j] = up[j]
      BY <1>1, <1>3, <1>6, <2>3, AppliedShows
    <3> QED
      BY <1>2, <1>3, <2>1, <2>3, <3>1 DEF ServerDone, Applying
  <2> QED
    BY <2>2, <2>3
<1>7. ASSUME NEW x \in conv.steps, Restarted(x)
      PROVE  ServerDone /\ up'[Own] = up[Own]
  <2>1. conv.ok /\ conv.pc = "steps"
    BY <1>1, <1>7 DEF Restarted, IsNext
  <2>2. x.iface # Own /\ ~ServerStep(x) /\ \A j \in Iface \ {x.iface} : up'[j] = up[j]
    BY <1>1, <1>3, <1>7, RestartFacts
  <2>3. \A y \in conv.steps : ~ServerStep(y)
    BY <1>2, <1>7, <2>2 DEF Restarted
  <2> QED
    BY <1>3, <2>1, <2>2, <2>3 DEF ServerDone, Applying
<1>8. ~Skipped
  BY <1>1 DEF Skipped
<1>9. CASE Through
  BY <1>1, <1>2, <1>9 DEF Through, ServerDone, Applying
<1> QED
  BY <1>1, <1>4, <1>5, <1>6, <1>7, <1>8, <1>9 DEF PlanMoves

\* A plan that starts an interface which is up gets no further.
LEMMA BlindStep ==
  ASSUME ConstantsOK, InterfacesApart, LinksTypeOK, WorkOK, HostOK, StepsInv, SnapInv, ServersUp, [Next]_vars,
         Applying', Applying, Blind
  PROVE  Blind'
<1>1. InJob /\ Own' = Own /\ conv'.fleet = conv.fleet /\ PlanMoves /\ conv'.ok
  BY PlanKinds DEF Applying
<1>2. PICK y \in conv.steps : ServerStep(y) /\ y.do = "start"
  BY DEF Blind
<1>3. ServerStep(y)' /\ conv.stop = {} /\ y.iface \in Server /\ IsUp(y.iface)
  <2>1. ServerStep(y)'
    BY <1>1, <1>2 DEF ServerStep
  <2>2. y.iface \in Server
    BY <1>1, <1>2, PlanFacts DEF ServerStep
  <2>3. IsUp(y.iface)
    BY <2>2 DEF ServersUp, IsUp, Down
  <2> QED
    BY <2>1, <2>2, <2>3 DEF Blind
<1>4. ASSUME conv'.stop = {}, y \in conv'.steps
      PROVE  Blind'
  BY <1>2, <1>3, <1>4 DEF Blind
<1>5. ~Planned /\ ~Skipped /\ \A i \in Iface : ~Stopped(i)
  BY <1>1, <1>3 DEF Planned, Skipped, Stopped, Applying
<1>6. ASSUME NEW x \in conv.steps, Applied(x)
      PROVE  Blind'
  <2>1. x.iface \in Server
    BY <1>3, <1>6 DEF Applied, IsNext
  <2>2. ServerStep(x) /\ x.iface = y.iface
    <3>1. ServerStep(x)
      BY <1>1, <1>6, <2>1, AppliedShows DEF InterfacesApart
    <3> QED
      BY <1>2, <3>1 DEF ServerStep
  <2>3. x # y
    BY <1>2, <1>3, <1>6 DEF Applied
  <2> QED
    BY <1>4, <1>6, <2>3 DEF Applied
<1>7. ASSUME NEW x \in conv.steps, Restarted(x)
      PROVE  FALSE
  BY <1>1, <1>3, <1>7, RestartFacts
<1>8. CASE Through
  BY <1>3, <1>4, <1>8 DEF Through
<1> QED
  BY <1>1, <1>5, <1>6, <1>7, <1>8 DEF PlanMoves

\* A listing that failed plans to start the server's interface.
LEMMA BlindPlan ==
  ASSUME ConstantsOK, InterfacesApart, LinksTypeOK, WorkOK, [Next]_vars, Applying', conv.pc = "list", Plan({})
  PROVE  Blind'
<1>1. Own' = Own /\ conv'.fleet = conv.fleet
  BY PlanKinds DEF Applying
<1>2. /\ conv'.stop = PlannedStops(conv.fleet, {}, conv.released)
      /\ \E x \in conv'.steps : ServerStep(x) /\ x.do = ActionFor(Own, {} \ conv'.stop, conv.provisioned)
  BY PlanMade
<1>3. conv'.stop = {} /\ \E x \in conv'.steps : ServerStep(x) /\ x.do = "start"
  BY <1>2 DEF PlannedStops, ActionFor
<1>4. \A x : ServerStep(x)' <=> ServerStep(x)
  BY <1>1 DEF ServerStep
<1> QED
  BY <1>3, <1>4 DEF Blind

LEMMA PlanStep ==
  ASSUME ConstantsOK, InterfacesApart, LinksTypeOK, WorkOK, HostOK, StepsInv, SnapInv, DevicesInv, PlanInv, [Next]_vars
  PROVE  PlanInv'
<1>1. ASSUME Applying'
      PROVE  Own' = Own /\ conv'.fleet = conv.fleet
  BY <1>1, PlanKinds DEF Applying
<1>2. Applying' => Blind' \/ \A i \in Ordinal : Unstopped(i)' => i \in LinkNames(conv'.fleet)
  <2> SUFFICES ASSUME Applying', ~Blind', NEW i \in Ordinal, Unstopped(i)'
               PROVE  i \in LinkNames(conv.fleet)
    BY <1>1
  <2>1. ServersUp /\ LinksShown
    BY DEF DevicesInv
  <2>2. ~(conv.pc = "list" /\ Plan({})) /\ ~(Applying /\ Blind)
    BY <2>1, BlindPlan, BlindStep
  <2> QED
    BY <2>1, <2>2, SweptStep DEF PlanInv
<1>3. ASSUME NEW p \in Peer, LinkDone(p)'
      PROVE  up'[conv'.fleet.row[p].name].peers = {p}
  <2>1. conv'.fleet = conv.fleet
    BY <1>1, <1>3 DEF LinkDone
  <2> QED
    BY <1>3, <2>1, PlacedStep DEF PlanInv
<1>4. ServerDone' => up'[Own'].peers = PlainPeers(conv'.fleet, Own')
  BY <1>1, ServedStep DEF PlanInv, ServerDone
<1> QED
  BY <1>2, <1>3, <1>4 DEF PlanInv

-----------------------------------------------------------------------------
(* What the routing achieves.                                              *)

\* The main table leads to the peer of the link and to no peer without one; the policy table of the
\* link serves the clients of its peer.
Led(f, p) ==
  /\ IsUp(f.row[p].name) /\ main[p] = f.row[p].name
  /\ \A q \in Peer : ~HasLink(f.row[q]) => main[q] # f.row[p].name
Steered(f, p) ==
  LET t == f.row[p].table IN
  /\ {r \in rules : r[2] = t} = Clients(f, p) \X {t}
  /\ dflt[t] = IF Clients(f, p) = {} THEN None ELSE f.row[p].name

RouteInv == conv.pc = "route" /\ routed =>
  /\ \A s \in Server \ conv.servers : \A p \in LinkedPeers(conv.fleet, s) :
       Led(conv.fleet, p) /\ (p \in conv.links \/ Steered(conv.fleet, p))
  /\ \A p \in conv.links : Home[p] \notin conv.servers

LEMMA RouteKinds ==
  ASSUME WorkOK, [Next]_vars, conv'.pc = "route"
  PROVE  \/ conv' = conv /\ UNCHANGED <<host, routed>>
         \/ Drain \/ (\E s \in Server : RouteMain(s)) \/ (\E p \in Peer : RouteTableOf(p))
         \/ routed' = FALSE
<1>1. conv \in Conv
  BY DEF WorkOK
<1>2. CASE Handle \/ UNCHANGED vars
  BY <1>2 DEF Handle, vars
<1>3. ASSUME NEW h \in Handler, Teardown(h) \/ TeardownBlind(h) \/ TeardownFail(h)
      PROVE  FALSE
  <2>1. TeardownEnd(h)
    BY <1>3 DEF Teardown, TeardownBlind, TeardownFail
  <2>2. conv.pc = "idle" /\ conv' = conv
    BY <2>1 DEF TeardownEnd, WorkOK, ConvergeJob, TeardownJob
  <2> QED
    BY <2>2
<1>4. \A s \in Server : ~ConvergeBegin(s)
  BY DEF ConvergeBegin, IdleConv
<1>5. ~ReconcileReject /\ ~ConvergeEnd
  BY RejectShape DEF ConvergeEnd, Finish, IdleConv
<1>6. ~ReconcileEnd
  BY DEF ReconcileEnd, IdleConv
<1>7. ~ReconcileStep
  BY DEF ReconcileStep
<1>8. ~ListInterfaces
  BY <1>1 DEF ListInterfaces, Plan, Conv
<1>9. \A i \in Iface : ~StopStep(i)
  BY <1>1 DEF StopStep, SkipSteps, Conv
<1>10. \A x \in conv.steps : ~StartStep(x) /\ ~ReloadStep(x) /\ ~RestartStep(x)
  BY <1>1 DEF StartStep, ReloadStep, RestartStep, IsNext, AfterStep, SkipSteps, Conv
<1>11. ASSUME NEW s \in Server, RouteMainFail(s)
       PROVE  routed' = FALSE
  BY <1>11 DEF RouteMainFail, AbandonRouting
<1>12. ASSUME NEW p \in Peer, RouteTableFail(p)
       PROVE  routed' = FALSE
  BY <1>12 DEF RouteTableFail, AbandonRouting
<1> QED
  BY <1>2, <1>3, <1>4, <1>5, <1>6, <1>7, <1>8, <1>9, <1>10, <1>11, <1>12 DEF Next, RunJob

LEMMA RouteStep ==
  ASSUME ConstantsOK, InterfacesApart, LinksTypeOK, WorkOK, HostOK, StepsInv, SnapInv, RouteInv, [Next]_vars
  PROVE  RouteInv'
<1> SUFFICES ASSUME conv'.pc = "route", routed'
             PROVE  RouteInv'
  BY DEF RouteInv
<1>1. InJob /\ conv'.fleet = conv.fleet
  BY PlanKinds
<1>2. conv \in Conv /\ conv.fleet \in Snapshot /\ Closed(conv.fleet)
  BY <1>1 DEF InJob, WorkOK, SnapInv
<1> DEFINE f == conv.fleet
           Done == \A s \in Server \ conv'.servers : \A p \in LinkedPeers(f, s) :
                     (Led(f, p))' /\ (p \in conv'.links \/ (Steered(f, p))')
           Next1 == \A p \in conv'.links : Home[p] \notin conv'.servers
<1>3. ASSUME Done, Next1
      PROVE  RouteInv'
  BY <1>1, <1>3 DEF RouteInv, Led, Steered
<1>4. ASSUME NEW s \in Server, NEW p \in LinkedPeers(f, s)
      PROVE  /\ p \in Peer /\ Home[p] = s /\ HasLink(f.row[p]) /\ f.row[p].name \in Ordinal
             /\ f.row[p].table \in RouteTable /\ f.row[p].name # None
             /\ \A q \in Peer \ {p} : f.row[q].name # f.row[p].name /\ f.row[q].table # f.row[p].table
  <2>1. p \in Peer /\ HasLink(f.row[p]) /\ Home[p] = s
    BY <1>2, LinkedInFleet
  <2>2. f.row[p].name # None
    BY <2>1 DEF HasLink
  <2> QED
    BY <1>2, <2>1, <2>2, LinkOwners
<1>5. CASE conv' = conv /\ UNCHANGED <<host, routed>>
  BY <1>5 DEF RouteInv, Led, Steered, IsUp, host
<1>6. CASE Drain
  <2>1. conv'.servers = Server /\ conv'.links = {}
    BY <1>2, <1>6 DEF Drain, StepsInv, Conv
  <2> QED
    BY <1>3, <2>1
<1>7. ASSUME NEW s \in Server, RouteMain(s)
      PROVE  RouteInv'
  <2> DEFINE links == LinkedPeers(f, s)
             flushed == {s} \cup {RouteOf(p).name : p \in links}
  <2>1. /\ conv.pc = "route" /\ conv.links = {} /\ routed /\ s \in conv.servers
        /\ \A p \in links : IsUp(f.row[p].name)
        /\ FlushAndLay(s, links, flushed)
        /\ UNCHANGED <<up, rules, dflt>>
    BY <1>7 DEF RouteMain, RouteOf
  <2>2. conv'.servers = conv.servers \ {s} /\ conv'.links = links
    BY <1>2, <1>7 DEF RouteMain, Conv
  <2>3. \A q \in links : main'[q] = f.row[q].name
    BY <1>4, <2>1 DEF FlushAndLay, RouteOf
  <2>4. \A q \in Peer \ links : main'[q] = None \/ (main'[q] = main[q] /\ main[q] \notin flushed)
    BY <2>1 DEF FlushAndLay
  <2>5. \A p \in links : f.row[p].name \in flushed
    BY DEF RouteOf
  <2>6. ASSUME NEW p \in links
        PROVE  (Led(f, p))'
    <3>1. \A q \in Peer : ~HasLink(f.row[q]) => q \notin links
      BY <1>4
    <3>2. f.row[p].name # None
      BY <1>4
    <3>3. \A q \in Peer : ~HasLink(f.row[q]) => main'[q] # f.row[p].name
      BY <2>4, <2>5, <3>1, <3>2
    <3>4. up'[f.row[p].name] # Down
      BY <2>1 DEF IsUp
    <3> QED
      BY <1>1, <2>3, <3>3, <3>4 DEF Led, IsUp
  <2>7. ASSUME NEW t \in Server \ conv.servers, NEW p \in LinkedPeers(f, t)
        PROVE  (Led(f, p))' /\ (Steered(f, p))'
    <3>1. Led(f, p) /\ Steered(f, p)
      BY <2>1, <2>7 DEF RouteInv
    <3>2. p \in Peer \ links /\ f.row[p].name \notin flushed
      <4>1. p \in Peer /\ p \notin links
        BY <1>4, <2>1, <2>7
      <4>2. \A q \in links : f.row[q].name # f.row[p].name
        BY <1>4, <4>1
      <4>3. f.row[p].name # s
        BY <1>4 DEF InterfacesApart
      <4> QED
        BY <4>1, <4>2, <4>3 DEF RouteOf
    <3>3. f.row[p].name # None
      BY <1>4
    <3>4. main'[p] = f.row[p].name
      <4>1. main[p] = f.row[p].name
        BY <3>1 DEF Led
      <4> QED
        BY <2>1, <3>2, <4>1 DEF FlushAndLay
    <3>5. \A q \in Peer : ~HasLink(f.row[q]) => main'[q] # f.row[p].name
      <4>1. ASSUME NEW q \in Peer, ~HasLink(f.row[q])
            PROVE  main'[q] # f.row[p].name
        <5>1. main[q] # f.row[p].name /\ q \notin links
          BY <1>4, <3>1, <4>1 DEF Led
        <5> QED
          BY <2>4, <3>3, <5>1
      <4> QED
        BY <4>1
    <3>6. (Led(f, p))'
      BY <1>1, <2>1, <3>1, <3>4, <3>5 DEF Led, IsUp
    <3>7. (Steered(f, p))'
      BY <1>1, <2>1, <3>1 DEF Steered
    <3> QED
      BY <3>6, <3>7
  <2>8. Done
    BY <2>2, <2>6, <2>7
  <2>9. Next1
    BY <1>4, <2>2
  <2> QED
    BY <1>3, <2>8, <2>9
<1>8. ASSUME NEW p \in Peer, RouteTableOf(p)
      PROVE  RouteInv'
  <2> DEFINE t == f.row[p].table
             clients == Clients(f, p)
  <2>1. /\ conv.pc = "route" /\ routed /\ p \in conv.links
        /\ UNCHANGED <<up, main>>
        /\ rules' = {r \in rules : r[2] # t} \cup (clients \X {t})
        /\ dflt' = [dflt EXCEPT ![t] = IF clients = {} THEN None ELSE f.row[p].name]
    BY <1>8 DEF RouteTableOf, RouteOf
  <2>2. conv'.servers = conv.servers /\ conv'.links = conv.links \ {p}
    BY <1>2, <1>8 DEF RouteTableOf, Conv
  <2>3. HasLink(f.row[p]) /\ t \in RouteTable
    <3>1. HasLink(f.row[p])
      BY <2>1 DEF WorkOK
    <3> QED
      BY <1>2, <3>1, LinkOwners
  <2>4. (Steered(f, p))'
    <3>1. dflt'[t] = IF clients = {} THEN None ELSE f.row[p].name
      BY <2>1, <2>3 DEF HostOK
    <3>2. {r \in rules' : r[2] = t} = clients \X {t}
      BY <2>1
    <3> QED
      BY <1>1, <3>1, <3>2 DEF Steered
  <2>5. ASSUME NEW s \in Server \ conv.servers, NEW q \in LinkedPeers(f, s)
        PROVE  (Led(f, q))' /\ (q \in conv'.links \/ (Steered(f, q))')
    <3>1. Led(f, q) /\ (q \in conv.links \/ Steered(f, q))
      BY <2>1, <2>5 DEF RouteInv
    <3>2. (Led(f, q))'
      BY <1>1, <2>1, <3>1 DEF Led, IsUp
    <3>3. ASSUME q # p, Steered(f, q)
          PROVE  (Steered(f, q))'
      <4>1. f.row[q].table # t /\ f.row[q].table \in RouteTable
        BY <1>4, <3>3
      <4>2. dflt'[f.row[q].table] = dflt[f.row[q].table]
        BY <2>1, <2>3, <4>1 DEF HostOK
      <4>3. {r \in rules' : r[2] = f.row[q].table} = {r \in rules : r[2] = f.row[q].table}
        BY <2>1, <4>1
      <4> QED
        BY <1>1, <3>3, <4>2, <4>3 DEF Steered
    <3> QED
      BY <2>2, <2>4, <3>1, <3>2, <3>3
  <2>6. Done
    BY <2>2, <2>5
  <2>7. Next1
    BY <2>1, <2>2 DEF RouteInv
  <2> QED
    BY <1>3, <2>6, <2>7
<1> QED
  BY <1>5, <1>6, <1>7, <1>8, RouteKinds

-----------------------------------------------------------------------------
(* A clean server.                                                         *)

\* A clean server shows its plain peers and its links no other peer; when all are, no other link is up.
CleanInv ==
  /\ \A s \in Server : Clean(s) =>
       /\ up[s].peers = PlainPeers(Fleet, s)
       /\ \A p \in LinkedPeers(Fleet, s) : up[row[p].name].peers \in {{p}, {}}
  /\ (\A s \in Server : Clean(s)) => \A i \in Ordinal : IsUp(i) => i \in LinkNames(Fleet)

\* Once the work is done and routed, every link leads to its peer and serves its clients.
QuietInv == Settled /\ routed => \A p \in Peer : HasLink(row[p]) => Led(Fleet, p) /\ Steered(Fleet, p)

LEMMA SameNames ==
  ASSUME NEW f \in Snapshot, NEW g \in Snapshot, \A s \in Server : Same(f, g, s)
  PROVE  LinkNames(f) = LinkNames(g)
<1>1. \A s \in Server : LinkedPeers(f, s) = LinkedPeers(g, s)
  BY SamePeers
<1>2. \A s \in Server : \A p \in LinkedPeers(f, s) : f.row[p] = g.row[p]
  BY LinkedInFleet DEF Same
<1>3. UNION {LinkedPeers(f, s) : s \in Server} = UNION {LinkedPeers(g, s) : s \in Server}
  BY <1>1
<1> DEFINE U == UNION {LinkedPeers(f, s) : s \in Server}
<1>4. \A p \in U : f.row[p].name = g.row[p].name
  BY <1>2
<1>5. LinkNames(f) = {f.row[p].name : p \in U} /\ LinkNames(g) = {g.row[p].name : p \in U}
  BY <1>3 DEF LinkNames
<1> HIDE DEF U
<1> QED
  BY <1>4, <1>5

\* What a server's converge has to have done when it ends as the last one of the server.
LEMMA EndFacts ==
  ASSUME ConstantsOK, WorkOK, StepsInv, SnapInv, ConvergeEnd, conv.ok, NEW s \in Server, s = Own, ~Pending(s),
         Fleet \in Snapshot
  PROVE  /\ PlainPeers(conv.fleet, s) = PlainPeers(Fleet, s) /\ LinkedPeers(conv.fleet, s) = LinkedPeers(Fleet, s)
         /\ \A p \in LinkedPeers(Fleet, s) : p \in Peer /\ conv.fleet.row[p] = row[p] /\ LinkDone(p)
         /\ Applying /\ ~Blind /\ ServerDone /\ \A i \in Ordinal : IsUp(i) => Unstopped(i)
<1>1. conv.pc = "route" /\ conv.stop = {} /\ conv.steps = {} /\ conv.fleet \in Snapshot
  BY DEF ConvergeEnd, StepsInv, WorkOK
<1>2. Applying /\ ~Blind /\ ServerDone /\ \A i \in Ordinal : IsUp(i) => Unstopped(i)
  BY <1>1 DEF Applying, Blind, ServerDone, Unstopped
<1>3. Same(conv.fleet, Fleet, s)
  BY <1>1 DEF SnapInv, InJob
<1>4. PlainPeers(conv.fleet, s) = PlainPeers(Fleet, s) /\ LinkedPeers(conv.fleet, s) = LinkedPeers(Fleet, s)
  BY <1>1, <1>3, SamePeers
<1>5. \A p \in LinkedPeers(Fleet, s) : p \in Peer /\ conv.fleet.row[p] = row[p]
  BY <1>3, LinkedInFleet DEF Same, Fleet
<1>6. \A p \in LinkedPeers(Fleet, s) : LinkDone(p)
  BY <1>1, <1>2, <1>4 DEF LinkDone
<1> QED
  BY <1>2, <1>4, <1>5, <1>6

\* The peers of a server whose rows nobody touches.
LEMMA UntouchedPeers ==
  ASSUME ConstantsOK, Fleet \in Snapshot, Fleet' \in Snapshot, NEW s \in Server, Untouched(s)
  PROVE  /\ Same(Fleet', Fleet, s) /\ \A p \in LinkedPeers(Fleet', s) : row'[p] = row[p]
         /\ PlainPeers(Fleet', s) = PlainPeers(Fleet, s) /\ LinkedPeers(Fleet', s) = LinkedPeers(Fleet, s)
<1>1. Same(Fleet', Fleet, s)
  BY DEF Untouched, Same, Fleet
<1>2. \A p \in LinkedPeers(Fleet', s) : row'[p] = row[p]
  BY LinkedInFleet DEF Untouched
<1>3. PlainPeers(Fleet', s) = PlainPeers(Fleet, s) /\ LinkedPeers(Fleet', s) = LinkedPeers(Fleet, s)
  BY <1>1, SamePeers
<1> QED
  BY <1>1, <1>2, <1>3

\* While a server is clean, nothing is done to its interface, and its links are at most taken down.
LEMMA CleanHolds ==
  ASSUME ConstantsOK, InterfacesApart, LinksInv, NamesInv, WorkOK, HostOK, StepsInv, SnapInv, [Next]_vars,
         NEW s \in Server, Clean(s)
  PROVE  /\ up'[s] = up[s]
         /\ \A p \in LinkedPeers(Fleet, s) : up'[row[p].name].peers \in {up[row[p].name].peers, {}}
<1>1. LinksTypeOK /\ Fleet \in Snapshot /\ Closed(Fleet)
  BY FleetOK DEF LinksInv
<1>2. ASSUME NEW p \in LinkedPeers(Fleet, s)
      PROVE  p \in Peer /\ Home[p] = s /\ HasLink(row[p]) /\ row[p].name \in Ordinal
  <2>1. p \in Peer /\ HasLink(Fleet.row[p]) /\ Home[p] = s
    BY <1>1, LinkedInFleet
  <2>2. Fleet.row = row
    BY DEF Fleet
  <2>3. row[p].name \in Ordinal
    BY <1>1, <2>1, <2>2, LinkOwners
  <2> QED
    BY <2>1, <2>2, <2>3
<1> DEFINE Held == /\ up'[s] = up[s]
                   /\ \A p \in LinkedPeers(Fleet, s) : up'[row[p].name].peers \in {up[row[p].name].peers, {}}
<1>3. CASE \A j \in Iface : up'[j] = up[j]
  BY <1>2, <1>3 DEF Iface
<1>4. ASSUME NEW i \in Ordinal, up'[i] = Down, \A j \in Iface \ {i} : up'[j] = up[j]
      PROVE  Held
  <2>1. Down.peers = {} /\ i # s
    BY DEF Down, InterfacesApart
  <2> QED
    BY <1>2, <1>4, <2>1 DEF Iface
<1>5. ASSUME NEW x \in conv.steps, InJob, Applied(x)
      PROVE  Held
  <2>1. PICK t \in Server : Head(chain) = ConvergeJob(t) /\ Own = t
    <3>1. PICK t \in Server : Head(chain) = ConvergeJob(t)
      BY <1>5 DEF InJob, WorkOK
    <3> QED
      BY <3>1 DEF Own, ConvergeJob
  <2>2. s # Own /\ ~Pending(s)
    BY <1>5, <2>1 DEF Clean, Running, InJob
  <2>3. Same(conv.fleet, Fleet, s) /\ Closed(conv.fleet) /\ conv.fleet \in Snapshot
    BY <1>5, <2>2 DEF SnapInv, InJob, WorkOK
  <2>4. /\ x.iface \in Iface /\ \A j \in Iface \ {x.iface} : up'[j] = up[j]
        /\ ServerStep(x) => x.iface \in Server
        /\ \A q \in LinkedPeers(conv.fleet, Own) : LinkStep(x, q) => x.iface \in Ordinal
        /\ ServerStep(x) \/ \E q \in LinkedPeers(conv.fleet, Own) : LinkStep(x, q)
    BY <1>5, AppliedShows
  <2>5. CASE ServerStep(x)
    <3>1. x.iface = Own /\ x.iface \notin Ordinal
      BY <2>4, <2>5 DEF ServerStep, InterfacesApart
    <3> QED
      BY <1>2, <2>2, <2>4, <3>1 DEF Iface
  <2>6. ASSUME NEW q \in LinkedPeers(conv.fleet, Own), LinkStep(x, q)
        PROVE  Held
    <3>1. q \in Peer /\ Home[q] = Own /\ HasLink(conv.fleet.row[q])
      BY <2>3, LinkedInFleet
    <3>2. x.iface = conv.fleet.row[q].name /\ x.iface \in Ordinal /\ x.iface # s
      BY <2>4, <2>6 DEF LinkStep, InterfacesApart
    <3>3. ASSUME NEW p \in LinkedPeers(Fleet, s)
          PROVE  row[p].name # x.iface
      <4>1. p # q /\ conv.fleet.row[p] = row[p]
        BY <1>2, <2>2, <2>3, <3>1 DEF Same, Fleet
      <4>2. conv.fleet.row[p].name # conv.fleet.row[q].name
        BY <1>2, <2>3, <3>1, <4>1, LinkOwners
      <4> QED
        BY <3>2, <4>1, <4>2
    <3> QED
      BY <1>2, <2>4, <3>2, <3>3 DEF Iface
  <2> QED
    BY <2>4, <2>5, <2>6
<1>6. Held
  BY <1>1, <1>3, <1>4, <1>5, UpChanges
<1> QED
  BY <1>6

\* When every server has become clean, no link is up but those of the rows: the converge that ended
\* last has left none, and no step since has brought one up.
AllSwept == (\A s \in Server : Clean(s)) => \A i \in Ordinal : IsUp(i) => i \in LinkNames(Fleet)
EndSwept == ConvergeEnd /\ conv.ok => \A i \in Ordinal : IsUp(i) => i \in LinkNames(conv.fleet)

LEMMA AllSweptStep ==
  ASSUME ConstantsOK, InterfacesApart, LinksInv, LinksInv', NamesInv, WorkOK, HostOK, TallyOK, HomesInv, OwnReconcile,
         StepsInv, SnapInv, [Next]_vars, AllSwept, EndSwept
  PROVE  AllSwept'
<1> SUFFICES ASSUME \A s \in Server : Clean(s)', NEW i \in Ordinal, up'[i] # Down
             PROVE  i \in LinkNames(Fleet')
  BY DEF AllSwept, IsUp
<1>1. LinksTypeOK /\ Fleet \in Snapshot
  BY FleetOK DEF LinksInv
<1>2. Fleet' \in Snapshot
  BY DEF LinksInv, LinksTypeOK, Fleet, Snapshot
<1>3. \A s \in Server : (Clean(s) /\ Untouched(s)) \/ (ConvergeEnd /\ s = Own /\ conv.ok /\ ~Pending(s))
  BY <1>1, CleanStep
<1>4. CASE ConvergeEnd
  <2>1. PICK t \in Server : Head(chain) = ConvergeJob(t) /\ Own = t
    <3>1. PICK t \in Server : Head(chain) = ConvergeJob(t)
      BY <1>4 DEF ConvergeEnd, WorkOK
    <3> QED
      BY <3>1 DEF Own, ConvergeJob
  <2>2. ~Clean(t)
    BY <1>4, <2>1 DEF Clean, Running, ConvergeEnd
  <2>3. conv.ok /\ ~Pending(t)
    BY <1>3, <2>1, <2>2
  <2>4. i \in LinkNames(conv.fleet)
    BY <1>4, <2>3 DEF EndSwept, ConvergeEnd, host, IsUp
  <2>5. \A s \in Server : Same(conv.fleet, Fleet, s)
    BY <1>3, <1>4 DEF Clean, SnapInv, InJob, ConvergeEnd
  <2>6. conv.fleet \in Snapshot
    BY <1>4 DEF ConvergeEnd, WorkOK
  <2>7. LinkNames(conv.fleet) = LinkNames(Fleet)
    BY <1>1, <2>5, <2>6, SameNames
  <2>8. Fleet' = Fleet
    BY <1>4 DEF ConvergeEnd, linkVars, Fleet
  <2> QED
    BY <2>4, <2>7, <2>8
<1>5. CASE ~ConvergeEnd
  <2>1. \A s \in Server : Clean(s) /\ Same(Fleet', Fleet, s)
    BY <1>1, <1>2, <1>3, <1>5, UntouchedPeers
  <2>2. LinkNames(Fleet') = LinkNames(Fleet)
    BY <1>1, <1>2, <2>1, SameNames
  <2>3. ~InJob
    <3> SUFFICES ASSUME InJob
                 PROVE  FALSE
      OBVIOUS
    <3>1. PICK t \in Server : Head(chain) = ConvergeJob(t)
      BY DEF InJob, WorkOK
    <3> QED
      BY <2>1, <3>1 DEF Clean, Running, InJob
  <2>4. up[i] # Down
    BY <1>1, <2>3, UpChanges DEF Iface
  <2> QED
    BY <2>1, <2>2, <2>4 DEF AllSwept, IsUp
<1> QED
  BY <1>4, <1>5

LEMMA CleanInvStep ==
  ASSUME ConstantsOK, InterfacesApart, LinksInv, LinksInv', NamesInv, WorkOK, HostOK, TallyOK, HomesInv, OwnReconcile,
         StepsInv, SnapInv, PlanInv, CleanInv, [Next]_vars
  PROVE  CleanInv'
<1>1. LinksTypeOK /\ Fleet \in Snapshot /\ Fleet' \in Snapshot
  BY FleetOK DEF LinksInv, LinksTypeOK, Fleet, Snapshot
<1>2. ASSUME NEW s \in Server, Clean(s)'
      PROVE  /\ up'[s].peers = PlainPeers(Fleet', s)
             /\ \A p \in LinkedPeers(Fleet', s) : up'[row'[p].name].peers \in {{p}, {}}
  <2>1. CASE Clean(s) /\ Untouched(s)
    <3>1. /\ PlainPeers(Fleet', s) = PlainPeers(Fleet, s) /\ LinkedPeers(Fleet', s) = LinkedPeers(Fleet, s)
          /\ \A p \in LinkedPeers(Fleet', s) : row'[p] = row[p]
      BY <1>1, <2>1, UntouchedPeers
    <3>2. /\ up'[s] = up[s]
          /\ \A p \in LinkedPeers(Fleet, s) : up'[row[p].name].peers \in {up[row[p].name].peers, {}}
      BY <2>1, CleanHolds
    <3> QED
      BY <2>1, <3>1, <3>2 DEF CleanInv
  <2>2. CASE ConvergeEnd /\ s = Own /\ conv.ok /\ ~Pending(s)
    <3>1. up' = up /\ Fleet' = Fleet /\ row' = row
      BY <2>2 DEF ConvergeEnd, linkVars, host, Fleet
    <3>2. up[s].peers = PlainPeers(Fleet, s)
      BY <1>1, <2>2, EndFacts DEF PlanInv
    <3>3. \A p \in LinkedPeers(Fleet, s) : up[row[p].name].peers = {p}
      <4>1. \A p \in LinkedPeers(Fleet, s) : p \in Peer /\ conv.fleet.row[p] = row[p] /\ LinkDone(p)
        BY <1>1, <2>2, EndFacts
      <4> QED
        BY <4>1 DEF PlanInv
    <3> QED
      BY <3>1, <3>2, <3>3
  <2> QED
    BY <1>1, <1>2, <2>1, <2>2, CleanStep
<1>3. EndSwept
  <2> SUFFICES ASSUME ConvergeEnd, conv.ok, NEW i \in Ordinal, IsUp(i)
               PROVE  i \in LinkNames(conv.fleet)
    BY DEF EndSwept
  <2>1. conv.pc = "route" /\ conv.stop = {} /\ conv.steps = {}
    BY DEF ConvergeEnd, StepsInv
  <2>2. Applying /\ ~Blind /\ Unstopped(i)
    BY <2>1 DEF Applying, Blind, Unstopped
  <2> QED
    BY <2>2 DEF PlanInv
<1>4. AllSwept'
  BY <1>3, AllSweptStep DEF CleanInv, AllSwept
<1> QED
  BY <1>2, <1>4 DEF CleanInv, AllSwept

\* What is led and steered under a snapshot is so under the rows, if they are the same.
LEMMA SameRouting ==
  ASSUME ConstantsOK, NEW f \in Snapshot, NEW g \in Snapshot, \A s \in Server : Same(f, g, s), NEW p \in Peer
  PROVE  /\ f.row[p] = g.row[p]
         /\ Led(f, p) => Led(g, p)
         /\ Steered(f, p) => Steered(g, p)
<1>1. \A q \in Peer : Home[q] \in Server /\ f.row[q] = g.row[q]
  BY DEF ConstantsOK, Same
<1>2. Clients(f, p) = Clients(g, p)
  BY <1>1, SamePeers
<1> QED
  BY <1>1, <1>2 DEF Led, Steered

LEMMA QuietStep ==
  ASSUME ConstantsOK, LinksInv, LinksInv', NamesInv, WorkOK, TallyOK, HomesInv, SnapInv, Ahead = {} => RouteInv, QuietInv,
         [Next]_vars
  PROVE  QuietInv'
<1> SUFFICES ASSUME Settled', routed'
             PROVE  QuietInv'
  BY DEF QuietInv
<1>1. LinksTypeOK /\ Fleet \in Snapshot /\ Fleet' \in Snapshot
  BY DEF LinksInv, LinksTypeOK, Fleet, Snapshot
<1>2. chain' = <<>> /\ \A s \in Server : outcome'[s]
  BY DEF Settled, Quiet
<1>3. chain \in Seq(Job)
  BY DEF WorkOK
<1>4. \A job \in Job : ~Enqueue(job)
  BY <1>2, <1>3, EnqueueShape
<1>5. ASSUME UNCHANGED <<host, routed>>, Settled, \A s \in Server : Same(Fleet, Fleet', s)
      PROVE  QuietInv'
  <2> SUFFICES ASSUME NEW p \in Peer, HasLink(row'[p])
               PROVE  (Led(Fleet, p) /\ Steered(Fleet, p))'
    BY DEF QuietInv
  <2>1. Fleet.row = row /\ Fleet'.row = row' /\ Fleet.row[p] = Fleet'.row[p]
    BY <1>1, <1>5, SameRouting DEF Fleet
  <2>2. Led(Fleet, p) /\ Steered(Fleet, p)
    BY <1>5, <2>1 DEF QuietInv
  <2>3. Led(Fleet', p) /\ Steered(Fleet', p)
    BY <1>1, <1>5, <2>2, SameRouting
  <2> QED
    BY <1>5, <2>3 DEF Led, Steered, IsUp, host
<1>6. CASE Handle
  <2>1. chain' = chain
    BY <1>1, <1>4, <1>6, HandleShape
  <2>2. \A s \in Server : ~Enqueue(ConvergeJob(s))
    BY <1>4 DEF Job
  <2>3. \A s \in Server : Untouched(s)
    BY <1>1, <1>6, <2>2, HandleTouches
  <2>4. \A s \in Server : Same(Fleet, Fleet', s)
    BY <2>3 DEF Untouched, Same, Fleet
  <2>5. UNCHANGED <<host, routed>> /\ Settled
    BY <1>2, <1>6, <2>1 DEF Handle, Settled, Quiet
  <2> QED
    BY <1>5, <2>4, <2>5
<1>7. ASSUME NEW h \in Handler, TeardownEnd(h)
      PROVE  FALSE
  <2>1. req[h].peer \in Peer /\ ConvergeJob(Home[req[h].peer]) \in Job
    BY <1>1, <1>7 DEF TeardownEnd, DeleteCommit, LinksTypeOK, Job, ConstantsOK
  <2>2. chain # <<>> /\ chain' = Append(Tail(chain), ConvergeJob(Home[req[h].peer]))
    BY <1>7 DEF TeardownEnd
  <2>3. Tail(chain) \in Seq(Job)
    BY <1>3, <2>2, HeadTailProperties
  <2>4. Append(Tail(chain), ConvergeJob(Home[req[h].peer])) # <<>>
    <3> DEFINE c == Tail(chain)
               job == ConvergeJob(Home[req[h].peer])
    <3>1. c \in Seq(Job) /\ job \in Job
      BY <2>1, <2>3
    <3> HIDE DEF c, job
    <3>2. Append(c, job) \in Seq(Job) /\ Len(Append(c, job)) = Len(c) + 1 /\ Len(c) \in Nat
      BY <3>1, AppendProperties, LenProperties
    <3>3. Append(c, job) # <<>>
      BY <3>2, EmptySeq
    <3> QED
      BY <3>3 DEF c, job
  <2> QED
    BY <1>2, <2>2, <2>4
<1>8. ASSUME (\E s \in Server : ConvergeBegin(s)) \/ Inside
      PROVE  FALSE
  <2>1. chain' = chain /\ chain # <<>>
    BY <1>8 DEF ConvergeBegin, Inside, WorkOK
  <2> QED
    BY <1>2, <2>1
<1>9. ASSUME ReconcileReject
      PROVE  FALSE
  <2>1. PICK t \in Server : Head(chain) = ConvergeJob(t)
    BY <1>9 DEF ReconcileReject, WorkOK
  <2>2. outcome' = [outcome EXCEPT ![t] = FALSE]
    <3>1. Head(chain).of = t
      BY <2>1 DEF ConvergeJob
    <3>2. Finish(FALSE)
      BY <1>9 DEF ReconcileReject
    <3> QED
      BY <3>1, <3>2 DEF Finish
  <2>3. outcome'[t] = FALSE
    BY <2>2 DEF TallyOK
  <2> QED
    BY <1>2, <2>3
<1>10. CASE ConvergeEnd
  <2>1. /\ conv.pc = "route" /\ conv.servers = {} /\ conv.links = {} /\ Tail(chain) = <<>>
        /\ UNCHANGED <<host, routed>> /\ Fleet' = Fleet /\ row' = row
    BY <1>2, <1>10 DEF ConvergeEnd, Finish, linkVars, Fleet
  <2>2. Ahead = {}
    BY <2>1, NoJobs DEF Ahead
  <2>3. conv.fleet \in Snapshot /\ \A s \in Server : Same(conv.fleet, Fleet, s)
    BY <2>1, <2>2 DEF WorkOK, SnapInv, InJob, Pending
  <2> SUFFICES ASSUME NEW p \in Peer, HasLink(row[p])
               PROVE  (Led(Fleet, p) /\ Steered(Fleet, p))'
    BY <2>1 DEF QuietInv
  <2>4. conv.fleet.row[p] = row[p] /\ Closed(conv.fleet)
    <3>1. conv.fleet.row[p] = Fleet.row[p]
      BY <1>1, <2>3, SameRouting
    <3> QED
      BY <2>1, <3>1 DEF Fleet, SnapInv, InJob
  <2>5. p \in LinkedPeers(conv.fleet, Home[p]) /\ Home[p] \in Server
    BY <2>3, <2>4, LinkOwners
  <2>6. Led(conv.fleet, p) /\ Steered(conv.fleet, p)
    BY <2>1, <2>2, <2>5 DEF RouteInv
  <2>7. Led(Fleet, p) /\ Steered(Fleet, p)
    BY <1>1, <2>3, <2>6, SameRouting
  <2> QED
    BY <2>1, <2>7 DEF Led, Steered, IsUp, host
<1>11. CASE UNCHANGED vars
  <2>1. UNCHANGED <<host, routed>> /\ Settled /\ Fleet' = Fleet
    BY <1>2, <1>11 DEF vars, linkVars, Settled, Quiet, Fleet
  <2>2. \A s \in Server : Same(Fleet, Fleet', s)
    BY <2>1 DEF Same
  <2> QED
    BY <1>5, <2>1, <2>2
<1> QED
  BY <1>6, <1>7, <1>8, <1>9, <1>10, <1>11, StepKinds

-----------------------------------------------------------------------------
(* The host matches the rows.                                              *)

HostInv ==
  /\ LinksInv /\ NamesInv /\ HomesInv /\ ConvergeTypeOK
  /\ OwnReconcile /\ SnapInv /\ StepsInv /\ DevicesInv /\ PlanInv /\ RouteInv /\ CleanInv /\ QuietInv

LEMMA HostInit == ASSUME ConstantsOK, InterfacesApart, Init PROVE HostInv
<1>1. LinksInv /\ NamesInv /\ HomesInv /\ ConvergeTypeOK
  BY InvInit, NamesInit, HomesInit, ConvergeTypeInit DEF Init
<1>2. conv.pc = "idle" /\ conv.links = {}
  BY DEF Init, IdleConv
<1>3. OwnReconcile /\ SnapInv /\ StepsInv /\ PlanInv /\ RouteInv
  BY <1>2 DEF OwnReconcile, SnapInv, InJob, StepsInv, PlanInv, Applying, LinkDone, ServerDone, RouteInv
<1>4. \A p \in Peer : ~HasLink(row[p])
  BY DEF Init, LinksInit, HasLink, Blank
<1>5. up = [i \in Iface |-> IF i \in Server THEN ServerConfig(Fleet, i) ELSE Down]
  BY DEF Init
<1>6. \A s \in Server : up[s] = ServerConfig(Fleet, s) /\ up[s].port # None
  BY <1>5 DEF Iface, Init, LinksInit, ServerConfig, Fleet, ConstantsOK
<1>7. \A i \in Ordinal : up[i] = Down
  BY <1>5 DEF Iface, InterfacesApart
<1>8. DevicesInv
  BY <1>6, <1>7 DEF DevicesInv, ServersUp, LinksShown, RoutesUp, IsUp, Init
<1>9. QuietInv
  BY <1>4 DEF QuietInv
<1>10. CleanInv
  <2>1. \A s \in Server : LinkedPeers(Fleet, s) = {}
    BY <1>1, <1>4 DEF LinkedPeers, Fleet, LinksInv, LinksTypeOK
  <2>2. ASSUME NEW s \in Server
        PROVE  up[s].peers = PlainPeers(Fleet, s)
    <3>1. up[s] = ServerConfig(Fleet, s)
      BY <1>6
    <3>2. ServerConfig(Fleet, s).peers = PlainPeers(Fleet, s)
      BY DEF ServerConfig
    <3> QED
      BY <3>1, <3>2
  <2> QED
    BY <1>7, <2>1, <2>2 DEF CleanInv, IsUp
<1> QED
  BY <1>1, <1>3, <1>8, <1>9, <1>10 DEF HostInv

LEMMA HostInvStep == ASSUME ConstantsOK, InterfacesApart, HostInv, [Next]_vars PROVE HostInv'
<1>1. LinksInv /\ NamesInv /\ HomesInv /\ LinksTypeOK /\ WorkOK /\ HostOK /\ TallyOK
  BY DEF HostInv, ConvergeTypeOK
<1>2. OwnReconcile /\ SnapInv /\ StepsInv /\ DevicesInv /\ PlanInv /\ RouteInv /\ CleanInv /\ QuietInv
  BY DEF HostInv
<1>3. [LinksNext]_linkVars
  BY StepRefines
<1>4. LinksInv' /\ NamesInv' /\ HomesInv'
  BY <1>1, <1>3, InvStep, NamesStep, HomesStep
<1>5. ConvergeTypeOK'
  <2>1. LinksTypeOK'
    BY <1>4 DEF LinksInv
  <2> QED
    BY <1>1, <2>1, WorkStep, HostStep, TallyStep DEF ConvergeTypeOK
<1>6. OwnReconcile' /\ SnapInv' /\ StepsInv'
  BY <1>1, <1>2, OwnReconcileStep, SnapStep, StepsStep
<1>7. DevicesInv' /\ PlanInv' /\ RouteInv'
  BY <1>1, <1>2, DevicesStep, PlanStep, RouteStep
<1>8. CleanInv'
  BY <1>1, <1>2, <1>4, CleanInvStep
<1>9. QuietInv'
  BY <1>1, <1>2, <1>4, QuietStep
<1> QED
  BY <1>4, <1>5, <1>6, <1>7, <1>8, <1>9 DEF HostInv

LEMMA HostCorrect == Spec => []HostInv
<1>1. Init => HostInv
  BY HostInit, ConstantsOK, InterfacesApart
<1>2. HostInv /\ [Next]_vars => HostInv'
  BY HostInvStep, ConstantsOK, InterfacesApart
<1> QED
  BY <1>1, <1>2, PTL DEF Spec

\* Once the work is done no job is left, and every server is clean.
LEMMA SettledClean ==
  ASSUME WorkOK, Settled
  PROVE  \A s \in Server : Clean(s)
<1>1. chain = <<>> /\ conv.pc = "idle" /\ \A s \in Server : outcome[s]
  BY DEF Settled, Quiet, WorkOK
<1>2. Ahead = {}
  BY <1>1, NoJobs DEF Ahead
<1> QED
  BY <1>1, <1>2 DEF Clean, Pending, Running

\* A host on which the servers are clean and the links are led and steered matches the rows.
LEMMA MembersMatch ==
  ASSUME ConstantsOK, LinksInv, NamesInv, WorkOK, LinksShown, CleanInv, QuietInv
  PROVE  MembersMatchRows
<1> SUFFICES ASSUME Settled
             PROVE  /\ \A s \in Server : up[s].peers = PlainPeers(Fleet, s)
                    /\ \A i \in Ordinal : IsUp(i) \/ routed => up[i].peers = {p \in live : HasLink(row[p]) /\ row[p].name = i}
  BY DEF MembersMatchRows
<1>2. \A s \in Server : Clean(s)
  BY SettledClean
<1>3. Fleet \in Snapshot /\ Closed(Fleet) /\ Fleet.row = row /\ Fleet.live = live
  BY FleetOK DEF Fleet
<1>4. \A s \in Server : up[s].peers = PlainPeers(Fleet, s)
  BY <1>2 DEF CleanInv
<1>5. ASSUME NEW p \in Peer, HasLink(row[p])
      PROVE  /\ p \in live /\ Home[p] \in Server /\ p \in LinkedPeers(Fleet, Home[p])
             /\ \A q \in live : row[q].name = row[p].name => q = p
  <2>1. live \subseteq Peer
    BY <1>3 DEF Snapshot
  <2> QED
    BY <1>3, <1>5, <2>1, LinkOwners
<1>6. ASSUME NEW i \in Ordinal, IsUp(i)
      PROVE  up[i].peers = {p \in live : HasLink(row[p]) /\ row[p].name = i}
  <2>1. i \in LinkNames(Fleet)
    BY <1>2, <1>6 DEF CleanInv
  <2>2. PICK s \in Server : \E p \in LinkedPeers(Fleet, s) : i = row[p].name
    BY <1>3, <2>1, NameOwned
  <2>3. PICK p \in LinkedPeers(Fleet, s) : i = row[p].name
    BY <2>2
  <2>4. p \in Peer /\ HasLink(row[p])
    BY <1>3, LinkedInFleet
  <2>5. up[i].peers = {p}
    BY <1>2, <1>6, <2>3 DEF CleanInv, LinksShown
  <2> QED
    BY <1>5, <2>3, <2>4, <2>5
<1>7. ASSUME NEW i \in Ordinal, ~IsUp(i), routed
      PROVE  up[i].peers = {p \in live : HasLink(row[p]) /\ row[p].name = i}
  <2>1. up[i].peers = {}
    BY <1>7 DEF IsUp, Down
  <2>2. \A p \in live : HasLink(row[p]) => IsUp(row[p].name)
    <3>1. live \subseteq Peer
      BY <1>3 DEF Snapshot
    <3>2. \A p \in Peer : HasLink(row[p]) => IsUp(Fleet.row[p].name)
      BY <1>7 DEF QuietInv, Led
    <3> QED
      BY <1>3, <3>1, <3>2
  <2> QED
    BY <1>7, <2>1, <2>2
<1> QED
  BY <1>4, <1>6, <1>7

\* If the last converge of each server succeeded, the interfaces of the host carry the peers that
\* the rows put on them, and no link is up that no row describes: for any number of servers, peers
\* and requests, whatever fails, and although the finding about the DELETE holds all along.
THEOREM MembersAlwaysMatch == Spec => []MembersMatchRows
<1>1. ASSUME HostInv, ConstantsOK
      PROVE  MembersMatchRows
  BY <1>1, MembersMatch DEF HostInv, ConvergeTypeOK, DevicesInv
<1> QED
  BY <1>1, ConstantsOK, HostCorrect, PTL

\* The same for the routes.
LEMMA RoutesMatch ==
  ASSUME ConstantsOK, LinksInv, NamesInv, WorkOK, RoutesUp, CleanInv, QuietInv
  PROVE  RoutesMatchRows
<1> SUFFICES ASSUME Settled, routed
             PROVE  /\ \A s \in Server : \A p \in LinkedPeers(Fleet, s) :
                         /\ main[p] = row[p].name
                         /\ \A q \in Clients(Fleet, p) : <<q, row[p].table>> \in rules /\ dflt[row[p].table] = row[p].name
                    /\ \A p \in live : ~HasLink(row[p]) => main[p] = None
  BY DEF RoutesMatchRows
<1>2. \A s \in Server : Clean(s)
  BY SettledClean
<1>3. Fleet \in Snapshot /\ Closed(Fleet) /\ Fleet.row = row /\ Fleet.live = live
  BY FleetOK DEF Fleet
<1>4. ASSUME NEW p \in Peer, HasLink(row[p])
      PROVE  Led(Fleet, p) /\ Steered(Fleet, p)
  BY <1>4 DEF QuietInv
<1>5. ASSUME NEW s \in Server, NEW p \in LinkedPeers(Fleet, s)
      PROVE  /\ main[p] = row[p].name
             /\ \A q \in Clients(Fleet, p) : <<q, row[p].table>> \in rules /\ dflt[row[p].table] = row[p].name
  <2>1. p \in Peer /\ HasLink(row[p])
    BY <1>3, LinkedInFleet
  <2>2. Led(Fleet, p) /\ Steered(Fleet, p)
    BY <1>4, <2>1
  <2>3. main[p] = row[p].name
    BY <1>3, <2>2 DEF Led
  <2> DEFINE t == row[p].table
  <2>4. {r \in rules : r[2] = t} = Clients(Fleet, p) \X {t}
    BY <1>3, <2>2 DEF Steered
  <2>5. dflt[t] = IF Clients(Fleet, p) = {} THEN None ELSE row[p].name
    BY <1>3, <2>2 DEF Steered
  <2>6. ASSUME NEW q \in Clients(Fleet, p)
        PROVE  <<q, t>> \in rules /\ dflt[t] = row[p].name
    <3>1. <<q, t>> \in Clients(Fleet, p) \X {t}
      OBVIOUS
    <3> QED
      BY <2>4, <2>5, <3>1
  <2> QED
    BY <2>3, <2>6
<1>6. ASSUME NEW p \in live, ~HasLink(row[p]), main[p] # None
      PROVE  FALSE
  <2>1. p \in Peer
    BY <1>3 DEF Snapshot
  <2>2. main[p] \in Ordinal /\ IsUp(main[p])
    BY <1>6, <2>1 DEF RoutesUp
  <2>3. main[p] \in LinkNames(Fleet)
    BY <1>2, <2>2 DEF CleanInv
  <2>4. PICK s \in Server : \E q \in LinkedPeers(Fleet, s) : main[p] = row[q].name
    BY <1>3, <2>3, NameOwned
  <2>5. PICK q \in LinkedPeers(Fleet, s) : main[p] = row[q].name
    BY <2>4
  <2>6. q \in Peer /\ HasLink(row[q])
    BY <1>3, LinkedInFleet
  <2> QED
    BY <1>3, <1>4, <1>6, <2>1, <2>5, <2>6 DEF Led
<1> QED
  BY <1>5, <1>6

\* And if the last routing pass ran to its end, every client of a link is led to it, every exit node
\* is reached over its own link, and no other peer over a link.
THEOREM RoutesAlwaysMatch == Spec => []RoutesMatchRows
<1>1. ASSUME HostInv, ConstantsOK
      PROVE  RoutesMatchRows
  BY <1>1, RoutesMatch DEF HostInv, ConvergeTypeOK, DevicesInv
<1> QED
  BY <1>1, ConstantsOK, HostCorrect, PTL

-----------------------------------------------------------------------------
(* A rule leads where its client chose.  What makes the rules harmless     *)
(* that are left behind is that a name always goes with the same table:    *)
(* an old rule meets the default route of the link its table belongs to.   *)

ChosenInv == \E Table :
  /\ NthTable(Table) /\ TablesInv(Table)
  /\ InJob => \A p \in Peer : HasLink(conv.fleet.row[p]) => Follows(Table, conv.fleet.row[p])
  /\ \A t \in RouteTable : dflt[t] # None => dflt[t] \in DOMAIN Table /\ Table[dflt[t]] = t

LEMMA ChosenInit == ASSUME ConstantsOK, Init PROVE ChosenInv
<1>1. PICK Table : NthTable(Table)
  BY TableExists
<1>2. TablesInv(Table)
  BY TablesInit DEF Init
<1>3. ~InJob /\ \A t \in RouteTable : dflt[t] = None
  BY DEF Init, IdleConv, InJob
<1> QED
  BY <1>1, <1>2, <1>3 DEF ChosenInv

\* A default route is dropped, or laid through the link whose table it is.
LEMMA DefaultKinds ==
  ASSUME ConstantsOK, WorkOK, HostOK, [Next]_vars, NEW t \in RouteTable
  PROVE  \/ dflt'[t] \in {None, dflt[t]}
         \/ InJob /\ \E p \in Peer : HasLink(conv.fleet.row[p]) /\ conv.fleet.row[p].table = t /\ dflt'[t] = conv.fleet.row[p].name
<1>1. dflt \in [RouteTable -> Iface \cup {None}]
  BY DEF HostOK
<1>2. ASSUME NEW i, Delete(i)
      PROVE  dflt'[t] \in {None, dflt[t]}
  BY <1>2 DEF Delete
<1>3. CASE UNCHANGED dflt
  BY <1>3
<1>4. ASSUME \/ Handle \/ (\E s \in Server : ConvergeBegin(s) \/ RouteMain(s) \/ RouteMainFail(s)) \/ ReconcileStep
             \/ ReconcileReject \/ ReconcileEnd \/ ConvergeEnd \/ ListInterfaces \/ UNCHANGED vars
      PROVE  UNCHANGED dflt
  BY <1>4 DEF Handle, ConvergeBegin, RouteMain, RouteMainFail, ReconcileStep, ReconcileReject, ReconcileEnd,
              ConvergeEnd, ListInterfaces, vars, host
<1>5. ASSUME NEW h \in Handler, Teardown(h) \/ TeardownBlind(h) \/ TeardownFail(h)
      PROVE  dflt'[t] \in {None, dflt[t]}
  <2>1. CASE Teardown(h)
    BY <2>1 DEF Teardown
  <2>2. CASE TeardownBlind(h)
    BY <1>1, <2>2 DEF TeardownBlind
  <2>3. CASE TeardownFail(h)
    BY <2>3 DEF TeardownFail, host
  <2> QED
    BY <1>5, <2>1, <2>2, <2>3
<1>6. ASSUME NEW i \in Iface, StopStep(i)
      PROVE  dflt'[t] \in {None, dflt[t]}
  BY <1>2, <1>6 DEF StopStep
<1>7. ASSUME NEW x \in conv.steps, StartStep(x) \/ ReloadStep(x) \/ RestartStep(x)
      PROVE  dflt'[t] \in {None, dflt[t]}
  BY <1>2, <1>7 DEF StartStep, ReloadStep, RestartStep
<1>8. CASE Drain
  BY <1>8 DEF Drain
<1>9. ASSUME NEW p \in Peer, RouteTableOf(p) \/ RouteTableFail(p)
      PROVE  \/ dflt'[t] \in {None, dflt[t]}
             \/ InJob /\ HasLink(conv.fleet.row[p]) /\ conv.fleet.row[p].table = t /\ dflt'[t] = conv.fleet.row[p].name
  <2>1. InJob /\ HasLink(conv.fleet.row[p])
    BY <1>9 DEF RouteTableOf, RouteTableFail, WorkOK, InJob
  <2>2. CASE RouteTableOf(p)
    BY <1>1, <2>1, <2>2 DEF RouteTableOf, RouteOf
  <2>3. CASE RouteTableFail(p)
    BY <1>1, <2>1, <2>3 DEF RouteTableFail, RouteOf
  <2> QED
    BY <1>9, <2>2, <2>3
<1> QED
  BY <1>3, <1>4, <1>5, <1>6, <1>7, <1>8, <1>9 DEF Next, RunJob

LEMMA ChosenStep ==
  ASSUME ConstantsOK, LinksInv, WorkOK, HostOK, ChosenInv, [Next]_vars
  PROVE  ChosenInv'
<1>1. PICK Table :
        /\ NthTable(Table) /\ TablesInv(Table)
        /\ InJob => \A p \in Peer : HasLink(conv.fleet.row[p]) => Follows(Table, conv.fleet.row[p])
        /\ \A t \in RouteTable : dflt[t] # None => dflt[t] \in DOMAIN Table /\ Table[dflt[t]] = t
  BY DEF ChosenInv
<1>2. TablesInv(Table)'
  BY <1>1, StepRefines, TablesStep
<1>3. ASSUME conv'.pc \in {"list", "steps", "route"}, NEW p \in Peer, HasLink(conv'.fleet.row[p])
      PROVE  Follows(Table, conv'.fleet.row[p])
  <2>1. CASE ReconcileEnd
    <3>1. conv'.fleet.row[p] = row[p]
      BY <2>1 DEF ReconcileEnd, IdleConv, Fleet
    <3>2. row[p].name # None
      BY <1>3, <3>1 DEF HasLink
    <3> QED
      BY <1>1, <3>1, <3>2 DEF TablesInv
  <2>2. CASE InJob /\ conv'.fleet = conv.fleet
    BY <1>1, <1>3, <2>2
  <2> QED
    BY <1>3, <2>1, <2>2, SnapKinds
<1>4. ASSUME NEW t \in RouteTable, dflt'[t] # None
      PROVE  dflt'[t] \in DOMAIN Table /\ Table[dflt'[t]] = t
  <2>1. CASE dflt'[t] = dflt[t]
    BY <1>1, <1>4, <2>1
  <2>2. CASE InJob /\ \E p \in Peer : HasLink(conv.fleet.row[p]) /\ conv.fleet.row[p].table = t /\ dflt'[t] = conv.fleet.row[p].name
    BY <1>1, <2>2 DEF Follows
  <2> QED
    BY <1>4, <2>1, <2>2, DefaultKinds
<1>5. NthTable(Table)'
  BY <1>1 DEF NthTable, Nth
<1>6. InJob' => \A p \in Peer : HasLink(conv'.fleet.row[p]) => Follows(Table, conv'.fleet.row[p])
  BY <1>3 DEF InJob
<1> QED
  BY <1>2, <1>4, <1>5, <1>6 DEF ChosenInv, HasLink, Follows

\* And for the rules.
LEMMA SteeredMatch ==
  ASSUME ConstantsOK, LinksInv, NamesInv, WorkOK, HostOK, RoutesUp, CleanInv, QuietInv, ChosenInv
  PROVE  SteeredToChoice
<1> SUFFICES ASSUME Settled, routed, NEW r \in rules, dflt[r[2]] # None
             PROVE  \E p \in live : row[r[1]].via = p /\ HasLink(row[p]) /\ dflt[r[2]] = row[p].name
  BY DEF SteeredToChoice
<1>2. \A s \in Server : Clean(s)
  BY SettledClean
<1>3. Fleet \in Snapshot /\ Closed(Fleet) /\ Fleet.row = row /\ Fleet.live = live
  BY FleetOK DEF Fleet
<1>4. PICK Table :
        /\ TablesInv(Table)
        /\ \A t \in RouteTable : dflt[t] # None => dflt[t] \in DOMAIN Table /\ Table[dflt[t]] = t
  BY DEF ChosenInv
<1>5. r[2] \in RouteTable /\ r = <<r[1], r[2]>>
  BY DEF HostOK
<1>6. dflt[r[2]] \in Ordinal /\ IsUp(dflt[r[2]])
  BY <1>5 DEF RoutesUp
<1>7. dflt[r[2]] \in LinkNames(Fleet)
  BY <1>2, <1>6 DEF CleanInv
<1>8. PICK s \in Server : \E p \in LinkedPeers(Fleet, s) : dflt[r[2]] = row[p].name
  BY <1>3, <1>7, NameOwned
<1>9. PICK p \in LinkedPeers(Fleet, s) : dflt[r[2]] = row[p].name
  BY <1>8
<1>10. p \in Peer /\ p \in live /\ HasLink(row[p])
  BY <1>3, LinkedInFleet DEF LinkedPeers
<1>11. row[p].table = r[2]
  <2>1. Follows(Table, row[p])
    BY <1>4, <1>10 DEF TablesInv, HasLink
  <2> QED
    BY <1>4, <1>5, <1>9, <2>1 DEF Follows
<1>12. r[1] \in Clients(Fleet, p)
  <2>1. {x \in rules : x[2] = r[2]} = Clients(Fleet, p) \X {r[2]}
    BY <1>3, <1>10, <1>11 DEF QuietInv, Steered
  <2> QED
    BY <1>5, <2>1
<1> QED
  BY <1>3, <1>9, <1>10, <1>12 DEF Clients

\* Once everything has run to its end, a rule that has an effect leads its client to the exit node
\* the client chose: whatever rules and routes the passes before have left.
THEOREM ClientsAlwaysSteered == Spec => []SteeredToChoice
<1>1. Init => ChosenInv
  BY ChosenInit, ConstantsOK
<1>2. HostInv /\ ChosenInv /\ [Next]_vars => ChosenInv'
  BY ChosenStep, ConstantsOK DEF HostInv, ConvergeTypeOK
<1>3. ASSUME HostInv, ChosenInv, ConstantsOK
      PROVE  SteeredToChoice
  BY <1>3, SteeredMatch DEF HostInv, ConvergeTypeOK, DevicesInv
<1> QED
  BY <1>1, <1>2, <1>3, ConstantsOK, HostCorrect, PTL DEF Spec

-----------------------------------------------------------------------------
(* A peer is never on two interfaces, as long as no command fails by       *)
(* itself and no request writes a port.                                    *)

\* The links that the running converge is about to stop.
Leaving ==
  CASE conv.pc = "reconcile" -> rec.released
    [] conv.pc = "list" -> conv.released
    [] conv.pc = "steps" -> conv.stop
    [] OTHER -> {}

\* A peer of the snapshot that is not gone has the name it had there.
NamesAgree == InJob =>
  \A p \in conv.fleet.live : Known(p) /\ (p \in live => row[p].name = conv.fleet.row[p].name)

AtHome == \A s \in Server : \A p \in up[s].peers : Home[p] = s

\* After a failure no step is left.
GivesUp ==
  /\ conv.pc = "list" => conv.ok
  /\ conv.pc = "steps" /\ ~conv.ok => conv.steps = {}

\* A link shows the peer whose name it is, or one that is gone, or is about to be stopped.
ShowsOwner == \A i \in Ordinal : \A p \in up[i].peers :
  Known(p) /\ (p \in live => row[p].name = i \/ i \in Leaving)

ListsOwner == conv.pc = "list" => \A i \in Ordinal : \A p \in up[i].peers \cap conv.fleet.live :
  conv.fleet.row[p].name = i \/ i \in conv.released

\* A peer that moves to the server's interface is on no link but one that is stopped before.
StopsFirst == conv.pc = "steps" =>
  /\ \A i \in conv.stop : IsUp(i)
  /\ \A i \in Ordinal : up[i].peers \cap PlainPeers(conv.fleet, Own) # {} => i \in conv.stop

OneInv ==
  /\ NamesAgree /\ AtHome /\ GivesUp /\ PeerOnOneInterface
  /\ faults = 0 => ShowsOwner /\ ListsOwner /\ StopsFirst

\* No fault in the next state means none in this one.
LEMMA FaultFree == ASSUME TallyOK, [Next]_vars, faults' = 0 PROVE faults = 0
<1>1. ASSUME NEW works, Fails(works)
      PROVE  faults' \in {faults, faults + 1}
  BY <1>1 DEF Fails
<1>2. faults \in Nat
  BY DEF TallyOK
<1>3. ASSUME faults' \in {faults, faults + 1}
      PROVE  faults = 0
  BY <1>2, <1>3
<1>4. ASSUME NEW h \in Handler, Teardown(h) \/ TeardownBlind(h) \/ TeardownFail(h)
      PROVE  faults' \in {faults, faults + 1}
  BY <1>1, <1>4 DEF Teardown, TeardownBlind, TeardownFail
<1>5. ASSUME NEW s \in Server, ConvergeBegin(s) \/ RouteMain(s)
      PROVE  faults' = faults
  BY <1>5 DEF ConvergeBegin, RouteMain
<1>6. ASSUME NEW s \in Server, RouteMainFail(s)
      PROVE  faults' \in {faults, faults + 1}
  BY <1>1, <1>6 DEF RouteMainFail
<1>7. ASSUME ReconcileStep \/ ReconcileEnd \/ Drain \/ ConvergeEnd \/ Handle \/ UNCHANGED vars
      PROVE  faults' = faults
  BY <1>7 DEF ReconcileStep, ReconcileEnd, Drain, ConvergeEnd, Handle, vars
<1>12. ASSUME ReconcileReject
       PROVE  faults' \in {faults, faults + 1}
  BY <1>12, RejectShape
<1>8. ASSUME ListInterfaces
      PROVE  faults' \in {faults, faults + 1}
  BY <1>1, <1>8 DEF ListInterfaces
<1>9. ASSUME NEW i \in Iface, StopStep(i)
      PROVE  faults' \in {faults, faults + 1}
  BY <1>1, <1>9 DEF StopStep
<1>10. ASSUME NEW x \in conv.steps, StartStep(x) \/ ReloadStep(x) \/ RestartStep(x)
       PROVE  faults' \in {faults, faults + 1}
  BY <1>1, <1>10 DEF StartStep, ReloadStep, RestartStep
<1>11. ASSUME NEW p \in Peer, RouteTableOf(p) \/ RouteTableFail(p)
       PROVE  faults' \in {faults, faults + 1}
  BY <1>1, <1>11 DEF RouteTableOf, RouteTableFail
<1> QED
  BY <1>3, <1>4, <1>5, <1>6, <1>7, <1>8, <1>9, <1>10, <1>11, <1>12 DEF Next, RunJob

\* Before the plan there is only the listing, and before that the reconcile.
LEMMA ListKinds ==
  ASSUME WorkOK, [Next]_vars, conv'.pc = "list"
  PROVE  ReconcileEnd \/ (conv' = conv /\ up' = up)
<1>1. conv \in Conv
  BY DEF WorkOK
<1>2. CASE Handle \/ UNCHANGED vars
  BY <1>2 DEF Handle, vars, host
<1>3. ASSUME NEW h \in Handler, Teardown(h) \/ TeardownBlind(h) \/ TeardownFail(h)
      PROVE  FALSE
  <2>1. TeardownEnd(h)
    BY <1>3 DEF Teardown, TeardownBlind, TeardownFail
  <2>2. conv.pc = "idle" /\ conv' = conv
    BY <2>1 DEF TeardownEnd, WorkOK, ConvergeJob, TeardownJob
  <2> QED
    BY <2>2
<1>4. \A s \in Server : ~ConvergeBegin(s)
  BY DEF ConvergeBegin, IdleConv
<1>5. ~ReconcileReject /\ ~ConvergeEnd
  BY RejectShape DEF ConvergeEnd, Finish, IdleConv
<1>6. ~ReconcileStep
  BY DEF ReconcileStep
<1>7. ~ListInterfaces
  BY <1>1 DEF ListInterfaces, Plan, Conv
<1>8. \A i \in Iface : ~StopStep(i)
  BY <1>1 DEF StopStep, SkipSteps, Conv
<1>9. \A x \in conv.steps : ~StartStep(x) /\ ~ReloadStep(x) /\ ~RestartStep(x)
  BY <1>1 DEF StartStep, ReloadStep, RestartStep, IsNext, AfterStep, SkipSteps, Conv
<1>10. ~Drain
  BY <1>1 DEF Drain, Conv
<1>11. \A s \in Server : ~RouteMain(s) /\ ~RouteMainFail(s)
  BY <1>1 DEF RouteMain, RouteMainFail, AbandonRouting, Conv
<1>12. \A p \in Peer : ~RouteTableOf(p) /\ ~RouteTableFail(p)
  BY <1>1 DEF RouteTableOf, RouteTableFail, AbandonRouting, Conv
<1> QED
  BY <1>2, <1>3, <1>4, <1>5, <1>6, <1>7, <1>8, <1>9, <1>10, <1>11, <1>12 DEF Next, RunJob

\* Without a fault the listing shows what is up.
LEMMA ListShowsAll ==
  ASSUME TallyOK, WorkOK, [Next]_vars, faults' = 0, conv.pc = "list", conv'.pc # "list"
  PROVE  Plan({i \in Iface : IsUp(i)})
<1>1. conv \in Conv /\ faults = 0 /\ faults \in Nat
  BY FaultFree DEF WorkOK, TallyOK
<1>2. ASSUME Handle \/ UNCHANGED vars
      PROVE  FALSE
  BY <1>2 DEF Handle, vars
<1>3. ASSUME NEW h \in Handler, Teardown(h) \/ TeardownBlind(h) \/ TeardownFail(h)
      PROVE  FALSE
  <2>1. TeardownEnd(h)
    BY <1>3 DEF Teardown, TeardownBlind, TeardownFail
  <2> QED
    BY <2>1 DEF TeardownEnd, WorkOK, ConvergeJob, TeardownJob
<1>4. /\ \A s \in Server : ~ConvergeBegin(s) /\ ~RouteMain(s) /\ ~RouteMainFail(s)
      /\ ~ReconcileStep /\ ~ReconcileReject /\ ~ReconcileEnd /\ ~Drain /\ ~ConvergeEnd
      /\ \A i \in Iface : ~StopStep(i)
      /\ \A p \in Peer : ~RouteTableOf(p) /\ ~RouteTableFail(p)
  BY DEF ConvergeBegin, RouteMain, RouteMainFail, ReconcileStep, ReconcileReject, ReconcileEnd, Drain, ConvergeEnd,
         StopStep, RouteTableOf, RouteTableFail
<1>5. \A x \in conv.steps : ~StartStep(x) /\ ~ReloadStep(x) /\ ~RestartStep(x)
  BY DEF StartStep, ReloadStep, RestartStep, IsNext
<1>6. ListInterfaces
  BY <1>2, <1>3, <1>4, <1>5 DEF Next, RunJob
<1>7. ~Fails(TRUE)
  BY <1>1 DEF Fails
<1> QED
  BY <1>6, <1>7 DEF ListInterfaces

\* Without a fault no stop is skipped.
LEMMA StopsAreMade ==
  ASSUME TallyOK, WorkOK, [Next]_vars, faults' = 0, conv.pc = "steps", conv.stop # {}, \A i \in conv.stop : IsUp(i)
  PROVE  \/ conv' = conv /\ up' = up
         \/ \E i \in Iface : Stopped(i)
<1>1. conv \in Conv /\ faults = 0 /\ faults \in Nat
  BY FaultFree DEF WorkOK, TallyOK
<1>2. CASE Handle \/ UNCHANGED vars
  BY <1>2 DEF Handle, vars, host
<1>3. ASSUME NEW h \in Handler, Teardown(h) \/ TeardownBlind(h) \/ TeardownFail(h)
      PROVE  FALSE
  <2>1. TeardownEnd(h)
    BY <1>3 DEF Teardown, TeardownBlind, TeardownFail
  <2> QED
    BY <2>1 DEF TeardownEnd, WorkOK, ConvergeJob, TeardownJob
<1>4. /\ \A s \in Server : ~ConvergeBegin(s) /\ ~RouteMain(s) /\ ~RouteMainFail(s)
      /\ ~ReconcileStep /\ ~ReconcileReject /\ ~ReconcileEnd /\ ~ListInterfaces /\ ~Drain /\ ~ConvergeEnd
      /\ \A p \in Peer : ~RouteTableOf(p) /\ ~RouteTableFail(p)
  BY DEF ConvergeBegin, RouteMain, RouteMainFail, ReconcileStep, ReconcileReject, ReconcileEnd, ListInterfaces, Drain,
         ConvergeEnd, RouteTableOf, RouteTableFail
<1>5. \A x \in conv.steps : ~StartStep(x) /\ ~ReloadStep(x) /\ ~RestartStep(x)
  BY DEF StartStep, ReloadStep, RestartStep, IsNext
<1>6. ASSUME NEW i \in Iface, StopStep(i)
      PROVE  Stopped(i)
  <2>1. ~Fails(IsUp(i))
    BY <1>1, <1>6 DEF StopStep, Fails
  <2> QED
    BY <1>1, <1>6, <2>1 DEF StopStep, Delete, Stopped, Conv
<1> QED
  BY <1>2, <1>3, <1>4, <1>5, <1>6 DEF Next, RunJob

\* Only requests and the reconcile write rows.
LEMMA RowKinds ==
  ASSUME WorkOK, [Next]_vars
  PROVE  \/ Api
         \/ conv.pc = "reconcile" /\ Reconcile
         \/ UNCHANGED <<live, row>>
<1>1. Handle => Api
  BY DEF Handle, Api
<1>2. ASSUME NEW h \in Handler, TeardownEnd(h)
      PROVE  Api
  BY <1>2 DEF TeardownEnd, Api
<1>3. ASSUME NEW s \in Server, ConvergeBegin(s)
      PROVE  UNCHANGED <<live, row>>
  BY <1>3 DEF ConvergeBegin, RecBegin
<1>4. ReconcileReject => conv.pc = "reconcile" /\ Reconcile
  BY DEF ReconcileReject, Reconcile
<1>5. Inside \/ ConvergeEnd \/ UNCHANGED vars => (conv.pc = "reconcile" /\ Reconcile) \/ UNCHANGED <<live, row>>
  BY DEF Inside, ConvergeEnd, vars, linkVars
<1> QED
  BY <1>1, <1>2, <1>3, <1>4, <1>5, StepKinds


\* A name stays with its peer, or the reconcile releases it in this step.
LEMMA NameStays ==
  ASSUME ConstantsOK, NoPorts, LinksInv, WholeInv, WorkOK, WorkOK', [Next]_vars,
         NEW p \in Peer, Known(p), p \in live'
  PROVE  /\ p \in live /\ Known(p)'
         /\ \/ row'[p].name = row[p].name
            \/ row[p].name = None
            \/ conv.pc = "reconcile" /\ conv'.pc = "reconcile" /\ row[p].name \in rec'.released
<1>1. LinksTypeOK
  BY DEF LinksInv
<1>2. Known(p)'
  BY <1>1, StepRefines, KnownStays
<1>3. CASE Api
  BY <1>2, <1>3, ApiKeepsLinks
<1>4. CASE UNCHANGED <<live, row>>
  BY <1>2, <1>4
<1>5. ASSUME conv.pc = "reconcile", NEW q \in Peer, RecRelease(q)
      PROVE  /\ p \in live
             /\ \/ row'[p].name = row[p].name
                \/ conv'.pc = "reconcile" /\ row[p].name \in rec'.released
  <2>1. live' = live /\ p \in live
    BY <1>5 DEF RecRelease
  <2>2. CASE q # p
    BY <1>1, <1>5, <2>1, <2>2 DEF RecRelease, LinksTypeOK
  <2>3. CASE q = p
    <3>1. rec \in Rec /\ rec.pc = "loop" /\ p \in rec.todo
      BY <1>1, <1>5, <2>3 DEF RecRelease, LinksTypeOK
    <3>2. row[p].name = rec.snap[p].name
      BY <2>1, <3>1 DEF WholeInv, WholeLinks
    <3>3. rec'.pc = "loop" /\ rec.snap[p].name \in rec'.released
      BY <1>5, <2>3, <3>1 DEF RecRelease, Rec
    <3>4. conv'.pc = "reconcile"
      BY <3>3 DEF WorkOK
    <3> QED
      BY <2>1, <3>2, <3>3, <3>4
  <2> QED
    BY <2>2, <2>3
<1>6. ASSUME RecWrite
      PROVE  p \in live /\ (row'[p].name = row[p].name \/ row[p].name = None)
  <2>1. live' = live /\ row' = IF rec.cur \in live THEN [row EXCEPT ![rec.cur] = Linked(@, rec.alloc, nextKey)] ELSE row
    BY <1>6 DEF RecWrite
  <2>2. CASE rec.cur = p
    BY <1>6, <2>1, <2>2 DEF RecWrite, WholeInv, WholeLinks
  <2>3. CASE rec.cur # p
    BY <1>1, <2>1, <2>3 DEF LinksTypeOK
  <2> QED
    BY <2>1, <2>2, <2>3
<1>7. CASE conv.pc = "reconcile" /\ Reconcile
  <2>1. ASSUME NEW q \in Peer, RecAllocate(q) \/ RecFail(q)
        PROVE  UNCHANGED <<live, row>>
    BY <2>1 DEF RecAllocate, RecFail
  <2>2. RecThrow \/ RecReturn \/ RecNoKey \/ (\E s \in Server : RecBegin(s)) => UNCHANGED <<live, row>>
    BY DEF RecThrow, RecReturn, RecNoKey, RecBegin
  <2> QED
    BY <1>2, <1>4, <1>5, <1>6, <1>7, <2>1, <2>2 DEF Reconcile
<1> QED
  BY <1>3, <1>4, <1>7, RowKinds

\* A reconcile goes on, or hands over to the listing, or rejects.
LEMMA ReconcileKinds ==
  ASSUME WorkOK, [Next]_vars, conv.pc = "reconcile"
  PROVE  \/ (Handle \/ UNCHANGED vars) /\ conv' = conv /\ rec' = rec /\ up' = up
         \/ ReconcileStep \/ ReconcileReject \/ ReconcileEnd
<1>1. CASE Handle \/ UNCHANGED vars
  <2>1. ASSUME Handle
        PROVE  rec' = rec
    BY <2>1 DEF Handle, Patch, PostCheck, PostInsert, DeleteUnlinked, DeleteLinked, PatchServer
  <2> QED
    BY <1>1, <2>1 DEF Handle, vars, linkVars, host
<1>2. ASSUME NEW h \in Handler, Teardown(h) \/ TeardownBlind(h) \/ TeardownFail(h)
      PROVE  FALSE
  <2>1. TeardownEnd(h)
    BY <1>2 DEF Teardown, TeardownBlind, TeardownFail
  <2> QED
    BY <2>1 DEF TeardownEnd, WorkOK, ConvergeJob, TeardownJob
<1>3. /\ \A s \in Server : ~ConvergeBegin(s) /\ ~RouteMain(s) /\ ~RouteMainFail(s)
      /\ ~ListInterfaces /\ ~Drain /\ ~ConvergeEnd
      /\ \A i \in Iface : ~StopStep(i)
      /\ \A p \in Peer : ~RouteTableOf(p) /\ ~RouteTableFail(p)
  BY DEF ConvergeBegin, RouteMain, RouteMainFail, ListInterfaces, Drain, ConvergeEnd, StopStep, RouteTableOf, RouteTableFail
<1>4. \A x \in conv.steps : ~StartStep(x) /\ ~ReloadStep(x) /\ ~RestartStep(x)
  BY DEF StartStep, ReloadStep, RestartStep, IsNext
<1> QED
  BY <1>1, <1>2, <1>3, <1>4 DEF Next, RunJob

\* A link that the converge is about to stop is so until it is down.
LEMMA LeavingStays ==
  ASSUME ConstantsOK, InterfacesApart, HostInv, WholeInv, StopsFirst, [Next]_vars, faults' = 0,
         NEW i \in Ordinal, i \in Leaving, up'[i].peers # {}
  PROVE  i \in Leaving'
<1>1. WorkOK /\ TallyOK /\ LinksTypeOK /\ HostOK /\ conv \in Conv /\ rec \in Rec
  BY DEF HostInv, ConvergeTypeOK, WorkOK, LinksTypeOK
<1>2. i \in Iface
  BY DEF Iface
<1>3. CASE conv.pc = "reconcile"
  <2>1. i \in rec.released
    BY <1>3 DEF Leaving
  <2>2. CASE conv' = conv /\ rec' = rec
    BY <1>3, <2>1, <2>2 DEF Leaving
  <2>3. CASE ReconcileStep
    <3>1. conv' = conv
      BY <2>3 DEF ReconcileStep
    <3>2. i \in rec'.released
      <4>1. ASSUME NEW p \in Peer, RecRelease(p) \/ RecAllocate(p) \/ RecFail(p)
            PROVE  i \in rec'.released
        <5>1. CASE RecRelease(p)
          BY <1>1, <2>1, <5>1 DEF RecRelease, Rec
        <5>2. CASE RecAllocate(p)
          BY <1>1, <2>1, <5>2 DEF RecAllocate, Rec
        <5>3. CASE RecFail(p)
          BY <1>1, <2>1, <5>3 DEF RecFail, Rec
        <5> QED
          BY <4>1, <5>1, <5>2, <5>3
      <4>2. ASSUME RecThrow \/ RecWrite
            PROVE  i \in rec'.released
        BY <1>1, <2>1, <4>2 DEF RecThrow, RecWrite, Rec
      <4> QED
        BY <2>3, <4>1, <4>2 DEF ReconcileStep
    <3> QED
      BY <1>3, <3>1, <3>2 DEF Leaving
  <2>4. ~ReconcileReject
    BY <1>1, RejectShape DEF TallyOK, WholeInv, NoPinInv, NeverCollides
  <2>5. CASE ReconcileEnd
    <3>1. conv'.pc = "list" /\ conv'.released = rec.released
      BY <2>5 DEF ReconcileEnd, IdleConv
    <3> QED
      BY <2>1, <3>1 DEF Leaving
  <2> QED
    BY <1>1, <1>3, <2>2, <2>3, <2>4, <2>5, ReconcileKinds
<1>4. CASE conv.pc = "list"
  <2>1. i \in conv.released
    BY <1>4 DEF Leaving
  <2>2. CASE conv'.pc = "list"
    <3>1. ~ReconcileEnd
      BY <1>4 DEF ReconcileEnd
    <3>2. conv' = conv
      BY <1>1, <2>2, <3>1, ListKinds
    <3> QED
      BY <2>1, <2>2, <3>2 DEF Leaving
  <2>3. CASE conv'.pc # "list"
    <3>1. Plan({j \in Iface : IsUp(j)})
      BY <1>1, <1>4, <2>3, ListShowsAll
    <3>2. conv'.pc = "steps" /\ conv'.stop = PlannedStops(conv.fleet, {j \in Iface : IsUp(j)}, conv.released)
      BY <1>1, <1>4, <3>1, PlanMade
    <3>3. up' = up
      BY <1>1, <1>4, <3>2, PlanKinds DEF PlanMoves, Planned, Stopped, Applied, IsNext, Restarted, Skipped, Through
    <3>4. IsUp(i)
      BY <3>3 DEF IsUp, Down
    <3>5. i \in conv'.stop
      BY <1>2, <2>1, <3>2, <3>4 DEF PlannedStops
    <3> QED
      BY <3>2, <3>5 DEF Leaving
  <2> QED
    BY <2>2, <2>3
<1>5. CASE conv.pc = "steps"
  <2>1. i \in conv.stop
    BY <1>5 DEF Leaving
  <2>2. \/ conv' = conv /\ up' = up
        \/ \E j \in Iface : Stopped(j)
    BY <1>1, <1>5, <2>1, StopsAreMade DEF StopsFirst
  <2>3. CASE conv' = conv
    BY <1>5, <2>1, <2>3 DEF Leaving
  <2>4. ASSUME NEW j \in Iface, Stopped(j)
        PROVE  i \in Leaving'
    <3>1. i # j
      BY <1>1, <1>2, <2>4 DEF Stopped, Down, HostOK
    <3> QED
      BY <2>1, <2>4, <3>1 DEF Stopped, Leaving
  <2> QED
    BY <2>2, <2>3, <2>4
<1> QED
  BY <1>3, <1>4, <1>5 DEF Leaving

LEMMA NamesAgreeStep ==
  ASSUME ConstantsOK, NoPorts, HostInv, WholeInv, WorkOK', NamesAgree, [Next]_vars
  PROVE  NamesAgree'
<1>1. WorkOK /\ LinksTypeOK /\ LinksInv /\ InsertsNew
  BY DEF HostInv, ConvergeTypeOK, WholeInv, ChoiceInv
<1> SUFFICES ASSUME conv'.pc \in {"list", "steps", "route"}, NEW p \in conv'.fleet.live
             PROVE  Known(p)' /\ (p \in live' => row'[p].name = conv'.fleet.row[p].name)
  BY DEF NamesAgree, InJob
<1>2. CASE ReconcileEnd
  <2>1. conv'.fleet = Fleet /\ UNCHANGED <<live, fresh, row, req>>
    BY <1>2 DEF ReconcileEnd, RecReturn, IdleConv
  <2>2. p \in live /\ conv'.fleet.row[p] = row[p]
    BY <2>1 DEF Fleet
  <2>3. Known(p)
    BY <1>1, <2>2 DEF Known, LinksTypeOK, InsertsNew
  <2> QED
    BY <2>1, <2>2, <2>3 DEF Known
<1>3. CASE InJob /\ conv'.fleet = conv.fleet
  <2>1. p \in Peer
    BY <1>1, <1>3 DEF InJob, WorkOK, Snapshot
  <2>2. Known(p) /\ (p \in live => row[p].name = conv.fleet.row[p].name)
    BY <1>3 DEF NamesAgree
  <2>3. Known(p)'
    BY <1>1, <2>1, <2>2, StepRefines, KnownStays
  <2>4. ASSUME p \in live'
        PROVE  row'[p].name = row[p].name /\ p \in live
    <3>1. CASE Api
      BY <1>1, <2>1, <2>2, <2>4, <3>1, ApiKeepsLinks
    <3>2. CASE UNCHANGED <<live, row>>
      BY <2>4, <3>2
    <3> QED
      BY <1>1, <1>3, <3>1, <3>2, RowKinds DEF InJob
  <2> QED
    BY <1>3, <2>2, <2>3, <2>4
<1> QED
  BY <1>1, <1>2, <1>3, SnapKinds

LEMMA AtHomeStep ==
  ASSUME ConstantsOK, InterfacesApart, HostInv, AtHome, [Next]_vars
  PROVE  AtHome'
<1>1. WorkOK /\ HostOK /\ LinksTypeOK /\ StepsInv /\ SnapInv /\ ServersUp
  BY DEF HostInv, ConvergeTypeOK, DevicesInv
<1>2. \A s \in Server : s \in Iface /\ s \notin Ordinal
  BY DEF Iface, InterfacesApart
<1> SUFFICES ASSUME NEW s \in Server, NEW p \in up'[s].peers
             PROVE  Home[p] = s
  BY DEF AtHome
<1>3. CASE up'[s] = up[s]
  BY <1>3 DEF AtHome
<1>4. ASSUME NEW x \in conv.steps, InJob, Applied(x)
      PROVE  Home[p] = s
  <2>1. /\ x.iface \in Iface /\ \A j \in Iface \ {x.iface} : up'[j] = up[j]
        /\ up'[x.iface].peers = x.config.peers
        /\ ServerStep(x) \/ x.iface \in Ordinal
    BY <1>1, <1>4, AppliedShows
  <2>2. CASE x.iface # s
    BY <1>2, <1>3, <2>1, <2>2
  <2>3. CASE x.iface = s
    <3>1. s = Own /\ p \in PlainPeers(conv.fleet, Own)
      BY <1>2, <2>1, <2>3 DEF ServerStep
    <3> QED
      BY <3>1 DEF PlainPeers
  <2> QED
    BY <2>2, <2>3
<1> QED
  BY <1>1, <1>2, <1>3, <1>4, UpChanges

LEMMA GivesUpStep ==
  ASSUME ConstantsOK, InterfacesApart, HostInv, GivesUp, [Next]_vars
  PROVE  GivesUp'
<1>1. WorkOK /\ LinksTypeOK
  BY DEF HostInv, ConvergeTypeOK
<1>2. ASSUME conv'.pc = "list"
      PROVE  conv'.ok
  <2>1. CASE ReconcileEnd
    BY <2>1 DEF ReconcileEnd, IdleConv
  <2>2. CASE conv' = conv
    BY <1>2, <2>2 DEF GivesUp
  <2> QED
    BY <1>1, <1>2, <2>1, <2>2, ListKinds
<1>3. ASSUME conv'.pc = "steps", ~conv'.ok
      PROVE  conv'.steps = {}
  <2>1. PlanMoves
    BY <1>1, <1>3, PlanKinds
  <2>2. ~Planned
    <3> SUFFICES ASSUME Planned
                 PROVE  FALSE
      OBVIOUS
    <3>1. conv'.ok = conv.ok /\ conv.pc = "list"
      BY <1>1, PlanMade DEF Planned
    <3> QED
      BY <1>3, <3>1 DEF GivesUp
  <2>3. ASSUME NEW x \in conv.steps, Applied(x) \/ Restarted(x)
        PROVE  FALSE
    BY <1>3, <2>3 DEF Applied, Restarted, IsNext, GivesUp
  <2>4. ASSUME NEW i \in Iface, Stopped(i)
        PROVE  conv'.steps = {}
    BY <1>3, <2>4 DEF Stopped, GivesUp
  <2>5. CASE Skipped \/ Through
    BY <1>3, <2>5 DEF Skipped, Through, GivesUp
  <2> QED
    BY <2>1, <2>2, <2>3, <2>4, <2>5 DEF PlanMoves
<1> QED
  BY <1>2, <1>3 DEF GivesUp

LEMMA ShowsOwnerStep ==
  ASSUME ConstantsOK, InterfacesApart, NoPorts, HostInv, WholeInv, WorkOK', NamesAgree, NamesAgree', ShowsOwner,
         StopsFirst, [Next]_vars, faults' = 0
  PROVE  ShowsOwner'
<1>1. /\ WorkOK /\ HostOK /\ LinksTypeOK /\ LinksInv /\ StepsInv /\ SnapInv /\ ServersUp
      /\ None \notin Ordinal
  BY DEF HostInv, ConvergeTypeOK, DevicesInv, ConstantsOK
<1> SUFFICES ASSUME NEW i \in Ordinal, NEW p \in up'[i].peers
             PROVE  Known(p)' /\ (p \in live' => row'[p].name = i \/ i \in Leaving')
  BY DEF ShowsOwner
<1>2. i \in Iface
  BY DEF Iface
<1>3. CASE up'[i] = up[i]
  <2>1. p \in Peer /\ Known(p) /\ (p \in live => row[p].name = i \/ i \in Leaving)
    BY <1>1, <1>2, <1>3 DEF ShowsOwner, HostOK, Config
  <2>2. Known(p)'
    BY <1>1, <2>1, StepRefines, KnownStays
  <2>3. ASSUME p \in live'
        PROVE  row'[p].name = i \/ i \in Leaving'
    <3>1. /\ p \in live
          /\ \/ row'[p].name = row[p].name
             \/ row[p].name = None
             \/ conv.pc = "reconcile" /\ conv'.pc = "reconcile" /\ row[p].name \in rec'.released
      BY <1>1, <2>1, <2>3, NameStays
    <3>2. CASE row[p].name = i
      BY <1>1, <3>1, <3>2 DEF Leaving
    <3>3. CASE i \in Leaving
      BY <3>3, LeavingStays
    <3> QED
      BY <2>1, <3>1, <3>2, <3>3
  <2> QED
    BY <2>2, <2>3
<1>4. ASSUME NEW x \in conv.steps, InJob, Applied(x), x.iface = i
      PROVE  Known(p)' /\ (p \in live' => row'[p].name = i)
  <2>1. i \notin Server
    BY DEF InterfacesApart
  <2>2. PICK q \in LinkedPeers(conv.fleet, Own) : LinkStep(x, q) /\ up'[i].peers = {q}
    BY <1>1, <1>4, <2>1, AppliedShows
  <2>3. p \in conv.fleet.live /\ i = conv.fleet.row[p].name
    BY <1>4, <2>2 DEF LinkStep, LinkedPeers
  <2>4. conv'.pc = "steps"
    BY <1>4 DEF Applied
  <2>5. conv'.fleet = conv.fleet
    BY <1>1, <2>4, PlanKinds
  <2> QED
    BY <2>3, <2>4, <2>5 DEF NamesAgree, InJob
<1>5. ASSUME NEW x \in conv.steps, InJob, Applied(x), x.iface # i
      PROVE  up'[i] = up[i]
  BY <1>1, <1>2, <1>5, AppliedShows
<1>6. ASSUME NEW j \in Ordinal, up'[j] = Down, \A k \in Iface \ {j} : up'[k] = up[k]
      PROVE  up'[i] = up[i]
  BY <1>2, <1>6 DEF Down
<1> QED
  BY <1>1, <1>2, <1>3, <1>4, <1>5, <1>6, UpChanges

LEMMA ListsOwnerStep ==
  ASSUME WorkOK, ShowsOwner, ListsOwner, [Next]_vars
  PROVE  ListsOwner'
<1> SUFFICES ASSUME conv'.pc = "list", NEW i \in Ordinal, NEW p \in up'[i].peers \cap conv'.fleet.live
             PROVE  conv'.fleet.row[p].name = i \/ i \in conv'.released
  BY DEF ListsOwner
<1>1. CASE conv' = conv /\ up' = up
  BY <1>1 DEF ListsOwner
<1>2. CASE ReconcileEnd
  <2>1. conv'.fleet = Fleet /\ conv'.released = rec.released /\ up' = up /\ conv.pc = "reconcile"
    BY <1>2 DEF ReconcileEnd, IdleConv, host
  <2>2. p \in live /\ conv'.fleet.row[p] = row[p] /\ p \in up[i].peers
    BY <2>1 DEF Fleet
  <2> QED
    BY <2>1, <2>2 DEF ShowsOwner, Leaving
<1> QED
  BY <1>1, <1>2, ListKinds

\* A peer of the server's interface has no link of its own in the same snapshot.
LEMMA PlainOrLinked ==
  ASSUME NEW f, NEW s, NEW p \in LinkedPeers(f, s)
  PROVE  p \notin PlainPeers(f, s)
BY DEF LinkedPeers, PlainPeers, HasLink

LEMMA StopsFirstStep ==
  ASSUME ConstantsOK, InterfacesApart, HostInv, ListsOwner, StopsFirst, [Next]_vars, faults' = 0
  PROVE  StopsFirst'
<1>1. /\ WorkOK /\ TallyOK /\ HostOK /\ LinksTypeOK /\ StepsInv /\ SnapInv /\ ServersUp /\ LinksShown
      /\ conv \in Conv
  BY DEF HostInv, ConvergeTypeOK, DevicesInv, WorkOK
<1>2. \A i \in Ordinal : i \in Iface /\ i \notin Server
  BY DEF Iface, InterfacesApart
<1> SUFFICES ASSUME conv'.pc = "steps"
             PROVE  StopsFirst'
  BY DEF StopsFirst
<1>3. Own' = Own /\ InJob /\ conv'.fleet = conv.fleet /\ PlanMoves
  BY <1>1, PlanKinds
<1> DEFINE Plain == PlainPeers(conv.fleet, Own)
<1>4. ASSUME \A i \in conv'.stop : up'[i] # Down,
             \A i \in Ordinal : up'[i].peers \cap Plain # {} => i \in conv'.stop
      PROVE  StopsFirst'
  BY <1>3, <1>4 DEF StopsFirst, IsUp
<1>5. ASSUME conv.pc = "steps"
      PROVE  /\ \A i \in conv.stop : up[i] # Down
             /\ \A i \in Ordinal : up[i].peers \cap Plain # {} => i \in conv.stop
  BY <1>5 DEF StopsFirst, IsUp
<1> HIDE DEF Plain
<1>6. CASE conv.pc = "list"
  <2> DEFINE seen == {i \in Iface : IsUp(i)}
  <2>1. Plan(seen)
    BY <1>1, <1>6, ListShowsAll
  <2>2. conv'.stop = PlannedStops(conv.fleet, seen, conv.released) /\ conv.fleet \in Snapshot
    BY <1>1, <1>6, <2>1, PlanMade
  <2>3. up' = up
    BY <1>3, <1>6 DEF PlanMoves, Planned, Stopped, Applied, IsNext, Restarted, Skipped, Through
  <2>4. ASSUME NEW i \in conv'.stop
        PROVE  up'[i] # Down
    BY <2>2, <2>3 DEF PlannedStops, IsUp
  <2>5. ASSUME NEW i \in Ordinal, NEW p \in up'[i].peers \cap Plain
        PROVE  i \in conv'.stop
    <3>1. i \in seen /\ i \notin ServerOrdinal
      <4>1. IsUp(i)
        BY <2>3, <2>5 DEF IsUp, Down
      <4> QED
        BY <1>1, <1>2, <4>1 DEF LinksShown
    <3>2. p \in conv.fleet.live /\ p \in Peer /\ conv.fleet.row[p].role = "plain"
      BY <2>2, <2>5 DEF Plain, PlainPeers, Snapshot
    <3>3. conv.fleet.row[p].name = i \/ i \in conv.released
      BY <1>6, <2>3, <2>5, <3>2 DEF ListsOwner
    <3>4. CASE i \in conv.released
      BY <2>2, <3>1, <3>4 DEF PlannedStops
    <3>5. CASE conv.fleet.row[p].name = i
      <4>1. i \notin LinkNames(conv.fleet)
        <5> SUFFICES ASSUME i \in LinkNames(conv.fleet)
                     PROVE  FALSE
          OBVIOUS
        <5>0. PICK s \in Server : \E q \in LinkedPeers(conv.fleet, s) : i = conv.fleet.row[q].name
          BY <2>2, NameOwned
        <5>1. PICK q \in LinkedPeers(conv.fleet, s) : i = conv.fleet.row[q].name
          BY <5>0
        <5>2. q \in Peer /\ HasLink(conv.fleet.row[q])
          BY <2>2, LinkedInFleet
        <5>3. p # q
          BY <3>2, <5>2 DEF HasLink
        <5>4. Closed(conv.fleet)
          BY <1>1, <1>3 DEF SnapInv
        <5>5. \A r \in Peer \ {q} : conv.fleet.row[r].name # conv.fleet.row[q].name
          BY <2>2, <5>2, <5>4, LinkOwners
        <5> QED
          BY <3>2, <3>5, <5>1, <5>3, <5>5
      <4> QED
        BY <2>2, <3>1, <4>1 DEF PlannedStops
    <3> QED
      BY <3>3, <3>4, <3>5
  <2> QED
    BY <1>4, <2>4, <2>5
<1>7. ASSUME NEW i \in Iface, Stopped(i)
      PROVE  StopsFirst'
  <2>1. conv.pc = "steps" /\ i \in Ordinal /\ conv'.stop = conv.stop \ {i}
    BY <1>1, <1>7 DEF Stopped, StepsInv
  <2>2. up'[i] = Down /\ \A j \in Iface \ {i} : up'[j] = up[j]
    BY <1>1, <1>7 DEF Stopped, HostOK
  <2>3. \A j \in conv'.stop : j \in Iface /\ up'[j] # Down
    <3>1. conv.stop \subseteq Iface
      BY <1>1 DEF Conv
    <3> QED
      BY <1>5, <2>1, <2>2, <3>1
  <2>4. up'[i].peers = {}
    BY <2>2 DEF Down
  <2>5. \A j \in Ordinal : up'[j].peers \cap Plain # {} => j \in conv'.stop
    BY <1>2, <1>5, <2>1, <2>2, <2>4
  <2> QED
    BY <1>4, <2>3, <2>5
<1>8. ASSUME NEW x \in conv.steps, Applied(x)
      PROVE  StopsFirst'
  <2>1. conv.pc = "steps" /\ conv.stop = {} /\ conv'.stop = {}
    BY <1>8 DEF Applied, IsNext
  <2>2. /\ \A j \in Iface \ {x.iface} : up'[j] = up[j]
        /\ \/ x.iface \in Server
           \/ \E q \in LinkedPeers(conv.fleet, Own) : up'[x.iface].peers = {q}
    BY <1>1, <1>3, <1>8, AppliedShows
  <2>3. ASSUME NEW j \in Ordinal
        PROVE  up'[j].peers \cap Plain = {}
    <3>1. CASE j # x.iface
      <4>1. up'[j] = up[j]
        BY <1>2, <2>2, <3>1
      <4> QED
        BY <1>5, <2>1, <4>1
    <3>2. CASE j = x.iface
      <4>1. PICK q \in LinkedPeers(conv.fleet, Own) : up'[x.iface].peers = {q}
        BY <1>2, <2>2, <3>2
      <4>2. q \notin Plain
        BY PlainOrLinked DEF Plain
      <4> QED
        BY <3>2, <4>1, <4>2
    <3> QED
      BY <3>1, <3>2
  <2> QED
    BY <1>4, <2>1, <2>3
<1>9. ASSUME NEW x \in conv.steps, Restarted(x)
      PROVE  StopsFirst'
  <2>1. conv.pc = "steps" /\ conv.stop = {} /\ conv'.stop = {} /\ up' = [up EXCEPT ![x.iface] = Down]
    BY <1>9 DEF Restarted, IsNext
  <2>2. \A j \in Ordinal : up'[j] = up[j] \/ up'[j].peers = {}
    BY <1>1, <1>2, <2>1 DEF HostOK, Down
  <2> QED
    BY <1>4, <1>5, <2>1, <2>2
<1>10. CASE conv.pc = "steps" /\ conv.stop # {}
  <2>1. \/ conv' = conv /\ up' = up
        \/ \E i \in Iface : Stopped(i)
    BY <1>1, <1>10, StopsAreMade DEF StopsFirst
  <2>2. CASE conv' = conv /\ up' = up
    BY <1>4, <1>5, <1>10, <2>2
  <2> QED
    BY <1>7, <2>1, <2>2
<1>11. ASSUME conv.pc = "steps", conv.stop = {}, Skipped \/ Through
       PROVE  StopsFirst'
  BY <1>4, <1>5, <1>11 DEF Skipped, Through
<1>12. conv.pc # "route"
  <2>1. ASSUME conv.pc = "route"
        PROVE  FALSE
    BY <1>1, <1>3, <2>1 DEF PlanMoves, Planned, Stopped, Applied, IsNext, Restarted, Skipped, Through, StepsInv
  <2> QED
    BY <2>1
<1> QED
  BY <1>3, <1>6, <1>7, <1>8, <1>9, <1>10, <1>11, <1>12 DEF PlanMoves, Planned, InJob

LEMMA OnOneStep ==
  ASSUME ConstantsOK, InterfacesApart, HostInv, AtHome, GivesUp, StopsFirst, PeerOnOneInterface, [Next]_vars, faults' = 0
  PROVE  PeerOnOneInterface'
<1>1. /\ WorkOK /\ TallyOK /\ HostOK /\ LinksTypeOK /\ StepsInv /\ SnapInv /\ ServersUp /\ PlanInv
  BY DEF HostInv, ConvergeTypeOK, DevicesInv
<1>2. \A s \in Server : s \in Iface /\ s \notin Ordinal
  BY DEF Iface, InterfacesApart
<1>3. \A i \in Ordinal : i \in Iface
  BY DEF Iface
<1>4. \A s \in Server, i \in Ordinal : up[s].peers \cap up[i].peers = {}
  BY <1>1, FaultFree DEF PeerOnOneInterface
<1> SUFFICES ASSUME NEW s \in Server, NEW i \in Ordinal, NEW p \in up'[s].peers \cap up'[i].peers
             PROVE  FALSE
  BY DEF PeerOnOneInterface
<1>5. CASE up'[s] = up[s] /\ up'[i] = up[i]
  BY <1>4, <1>5
<1>6. ASSUME NEW j \in Ordinal, up'[j] = Down, \A k \in Iface \ {j} : up'[k] = up[k]
      PROVE  FALSE
  <2>1. up'[s] = up[s]
    BY <1>2, <1>6
  <2>2. up'[i] = up[i]
    BY <1>3, <1>6 DEF Down
  <2> QED
    BY <1>5, <2>1, <2>2
<1>7. ASSUME NEW x \in conv.steps, InJob, Applied(x)
      PROVE  FALSE
  <2>1. conv.pc = "steps" /\ conv.stop = {} /\ IsNext(x)
    BY <1>7 DEF Applied, IsNext
  <2>2. /\ x.iface \in Iface /\ \A j \in Iface \ {x.iface} : up'[j] = up[j]
        /\ up'[x.iface].peers = x.config.peers
        /\ \A q \in LinkedPeers(conv.fleet, Own) : LinkStep(x, q) => x.iface \in Ordinal /\ up'[x.iface].peers = {q}
        /\ ServerStep(x) \/ \E q \in LinkedPeers(conv.fleet, Own) : LinkStep(x, q)
    BY <1>1, <1>7, AppliedShows
  <2>3. Own \in Server /\ conv.fleet \in Snapshot
    <3>1. PICK t \in Server : Head(chain) = ConvergeJob(t)
      BY <1>1, <2>1 DEF WorkOK
    <3> QED
      BY <1>1, <2>1, <3>1 DEF WorkOK, Own, ConvergeJob
  \* The server's interface gets its peers: the links that showed one of them have been stopped.
  <2>4. CASE ServerStep(x)
    <3>1. x.iface = Own /\ up'[Own].peers = PlainPeers(conv.fleet, Own)
      BY <2>2, <2>4 DEF ServerStep
    <3>2. up'[i] = up[i]
      BY <1>2, <1>3, <2>2, <2>3, <3>1
    <3>3. s = Own
      BY <1>2, <1>5, <2>2, <3>1, <3>2
    <3> QED
      BY <2>1, <3>1, <3>2, <3>3 DEF StopsFirst
  \* A link gets its peer: the server's interface has had its step, and shows it no more.
  <2>5. ASSUME NEW q \in LinkedPeers(conv.fleet, Own), LinkStep(x, q)
        PROVE  FALSE
    <3>1. x.iface \in Ordinal /\ up'[x.iface].peers = {q} /\ up'[s] = up[s]
      BY <1>2, <2>2, <2>5
    <3>2. i = x.iface /\ p = q /\ p \in up[s].peers
      BY <1>3, <1>5, <2>2, <3>1
    <3>3. s = Own
      BY <3>2 DEF AtHome, LinkedPeers
    <3>4. \A y \in conv.steps : ~ServerStep(y)
      BY <1>2, <2>1, <2>3, <3>1 DEF IsNext, ServerStep
    <3>5. conv.ok
      BY <2>1 DEF GivesUp, IsNext
    <3>6. up[Own].peers = PlainPeers(conv.fleet, Own)
      <4>1. ServerDone
        BY <2>1, <3>4, <3>5 DEF ServerDone, Applying
      <4> QED
        BY <1>1, <4>1 DEF PlanInv
    <3> QED
      BY <3>2, <3>3, <3>6, PlainOrLinked
  <2> QED
    BY <2>2, <2>4, <2>5
<1> QED
  BY <1>1, <1>2, <1>3, <1>5, <1>6, <1>7, UpChanges

LEMMA OneInit == ASSUME ConstantsOK, InterfacesApart, Init PROVE OneInv
<1>1. conv.pc = "idle"
  BY DEF Init, IdleConv
<1>2. up = [i \in Iface |-> IF i \in Server THEN ServerConfig(Fleet, i) ELSE Down]
  BY DEF Init
<1>3. \A s \in Server : up[s] = ServerConfig(Fleet, s)
  BY <1>2 DEF Iface
<1>4. \A i \in Ordinal : up[i].peers = {}
  BY <1>2 DEF Iface, InterfacesApart, Down
<1>5. AtHome
  <2>1. \A s \in Server : ServerConfig(Fleet, s).peers = PlainPeers(Fleet, s)
    BY DEF ServerConfig
  <2> QED
    BY <1>3, <2>1 DEF AtHome, PlainPeers
<1> QED
  BY <1>1, <1>4, <1>5
  DEF OneInv, NamesAgree, InJob, GivesUp, PeerOnOneInterface, ShowsOwner, ListsOwner, StopsFirst

LEMMA OneStep ==
  ASSUME ConstantsOK, InterfacesApart, NoPorts, HostInv, HostInv', WholeInv, OneInv, [Next]_vars
  PROVE  OneInv'
<1>1. NamesAgree /\ AtHome /\ GivesUp /\ PeerOnOneInterface
  BY DEF OneInv
<1>2. WorkOK /\ TallyOK /\ WorkOK'
  BY DEF HostInv, ConvergeTypeOK
<1>3. NamesAgree'
  BY <1>1, <1>2, NamesAgreeStep
<1>4. AtHome' /\ GivesUp'
  BY <1>1, AtHomeStep, GivesUpStep
<1>5. ASSUME faults' = 0
      PROVE  ShowsOwner' /\ ListsOwner' /\ StopsFirst' /\ PeerOnOneInterface'
  <2>1. ShowsOwner /\ ListsOwner /\ StopsFirst
    BY <1>2, <1>5, FaultFree DEF OneInv
  <2>2. ShowsOwner'
    BY <1>1, <1>2, <1>3, <1>5, <2>1, ShowsOwnerStep
  <2>3. ListsOwner'
    BY <1>2, <2>1, ListsOwnerStep
  <2>4. StopsFirst' /\ PeerOnOneInterface'
    BY <1>1, <1>5, <2>1, StopsFirstStep, OnOneStep
  <2> QED
    BY <2>2, <2>3, <2>4
<1>6. PeerOnOneInterface'
  BY <1>5 DEF PeerOnOneInterface
<1> QED
  BY <1>3, <1>4, <1>5, <1>6 DEF OneInv

\* A peer that moves between its server's interface and a link of its own is never on both, through
\* any interleaving of handlers, reconciles, plans and teardowns of any number of servers, as long as
\* no command fails by itself and no request pins or clears a port (with one, the reconcile
\* may give a live link another name, or throw and lose the names it released).
THEOREM PeersOnOneInterface == ASSUME NoPorts PROVE Spec => []PeerOnOneInterface
<1>1. Init => WholeInv /\ OneInv
  BY WholeInit, OneInit, ConstantsOK, InterfacesApart DEF Init
<1>2. WholeInv /\ [Next]_vars => WholeInv'
  BY StepRefines, WholeStep, NoPorts, ConstantsOK
<1>3. HostInv /\ HostInv' /\ WholeInv /\ OneInv /\ [Next]_vars => OneInv'
  BY OneStep, NoPorts, ConstantsOK, InterfacesApart
<1>4. OneInv => PeerOnOneInterface
  BY DEF OneInv
<1> QED
  BY <1>1, <1>2, <1>3, <1>4, HostCorrect, PTL DEF Spec


-----------------------------------------------------------------------------
(* Peers that are no exit nodes any more lose their links: what one        *)
(* reconcile read too early is left to a converge that waits.              *)

\* A peer that the running reconcile has before it is as it read it, or another converge waits.
FreshInv ==
  /\ rec.pc = "keygen" => rec.cur \notin rec.todo
  /\ conv.pc = "reconcile" /\ ~Pending(Own) =>
       /\ \A p \in rec.todo : row[p] = rec.snap[p]
       /\ rec.pc = "keygen" /\ rec.cur \in live => row[rec.cur].role = "exit"

\* A link that is to be released has a converge before it that will, or the last one failed.
ReleaseInv == \A p \in live : NeedsRelease(row[p]) =>
  /\ ~Clean(Home[p])
  /\ Running(Home[p]) /\ ~Pending(Home[p]) => conv.pc = "reconcile" /\ p \in rec.todo

\* A request that touches a server has a converge of it wait.
LEMMA HandleLeaves ==
  ASSUME ConstantsOK, LinksTypeOK, WorkOK, HomesInv, Handle, NEW s \in Server, ~Pending(s)'
  PROVE  /\ ~Pending(s) /\ Untouched(s) /\ rec' = rec /\ conv' = conv
         /\ conv.pc # "idle" => Own' = Own /\ Head(chain') = Head(chain)
<1>1. rec' = rec /\ conv' = conv /\ (chain' = chain \/ \E job \in Job : Enqueue(job))
  BY HandleShape DEF Handle
<1>2. Ahead \subseteq Ahead'
  BY <1>1, EnqueueAhead DEF Ahead
<1>3. ~Enqueue(ConvergeJob(s))
  <2>1. ConvergeJob(s) \in Job
    BY DEF Job
  <2> QED
    BY <1>1, <2>1, EnqueueAhead DEF Pending
<1>4. conv.pc # "idle" => Head(chain') = Head(chain)
  BY <1>1, EnqueueShape DEF WorkOK
<1> QED
  BY <1>1, <1>2, <1>3, <1>4, HandleTouches DEF Pending, Own

\* What a step of the reconcile does to a peer that it has before it, and to the one it writes.
LEMMA ReconcileShape ==
  ASSUME LinksTypeOK, FreshInv, ReconcileStep
  PROVE  /\ Ahead' = Ahead /\ Own' = Own /\ conv' = conv /\ chain' = chain /\ live' = live /\ outcome' = outcome
         /\ rec'.todo \subseteq rec.todo /\ \A p \in rec'.todo : row'[p] = row[p] /\ rec'.snap[p] = rec.snap[p]
         /\ rec'.pc = "keygen" => /\ rec'.cur \in rec.todo \ rec'.todo /\ row' = row
                                  /\ NeedsLink(rec.snap[rec'.cur])
         /\ \A p \in live :
              \/ row'[p].name = None
              \/ row'[p] = row[p] /\ (p \in rec'.todo \/ p \notin rec.todo \/ NeedsLink(rec.snap[p]))
              \/ rec.pc = "keygen" /\ p = rec.cur /\ row'[p].role = row[p].role
<1>1. rec \in Rec /\ row \in [Peer -> Row] /\ live \subseteq Peer
  BY DEF LinksTypeOK
<1>2. conv' = conv /\ chain' = chain /\ Ahead' = Ahead /\ Own' = Own /\ outcome' = outcome
  BY DEF ReconcileStep, Ahead, Own
<1> DEFINE Shape ==
         /\ live' = live
         /\ rec'.todo \subseteq rec.todo /\ \A p \in rec'.todo : row'[p] = row[p] /\ rec'.snap[p] = rec.snap[p]
         /\ rec'.pc = "keygen" => /\ rec'.cur \in rec.todo \ rec'.todo /\ row' = row
                                  /\ NeedsLink(rec.snap[rec'.cur])
         /\ \A p \in live :
              \/ row'[p].name = None
              \/ row'[p] = row[p] /\ (p \in rec'.todo \/ p \notin rec.todo \/ NeedsLink(rec.snap[p]))
              \/ rec.pc = "keygen" /\ p = rec.cur /\ row'[p].role = row[p].role
<1>3. ASSUME NEW q \in Peer, RecRelease(q)
      PROVE  Shape
  <2>1. rec'.todo = rec.todo \ {q} /\ rec'.snap = rec.snap /\ rec'.pc = "loop"
    BY <1>1, <1>3 DEF RecRelease, Rec
  <2>2. \A p \in Peer : p # q => row'[p] = row[p]
    BY <1>1, <1>3 DEF RecRelease
  <2>3. q \in live => row'[q].name = None
    <3>1. q \in live => row'[q] = Cleared(row[q])
      BY <1>1, <1>3 DEF RecRelease
    <3>2. Cleared(row[q]).name = None
      BY <1>1 DEF Cleared, Row
    <3> QED
      BY <3>1, <3>2
  <2>4. live' = live
    BY <1>3 DEF RecRelease
  <2>5. rec.todo \subseteq Peer
    BY <1>1 DEF Rec
  <2> QED
    BY <1>1, <2>1, <2>2, <2>3, <2>4, <2>5
<1>4. ASSUME NEW q \in Peer, RecAllocate(q)
      PROVE  Shape
  <2>1. rec'.todo = rec.todo \ {q} /\ rec'.snap = rec.snap /\ rec'.cur = q
    BY <1>1, <1>4 DEF RecAllocate, Rec
  <2>2. q \in rec.todo /\ NeedsLink(rec.snap[q]) /\ row' = row /\ live' = live
    BY <1>4 DEF RecAllocate
  <2> QED
    BY <2>1, <2>2
<1>5. ASSUME NEW q \in Peer, RecFail(q)
      PROVE  Shape
  <2>1. rec'.todo = rec.todo \ {q} /\ rec'.snap = rec.snap /\ rec'.pc = "loop"
    BY <1>1, <1>5 DEF RecFail, Rec
  <2>2. NeedsLink(rec.snap[q]) /\ row' = row /\ live' = live
    BY <1>5 DEF RecFail
  <2> QED
    BY <2>1, <2>2
<1>6. ASSUME RecThrow
      PROVE  Shape
  <2>1. rec'.todo = rec.todo /\ rec'.snap = rec.snap /\ rec'.pc = "threw" /\ row' = row /\ live' = live
    BY <1>1, <1>6 DEF RecThrow, Rec
  <2> QED
    BY <2>1
<1>7. ASSUME RecWrite
      PROVE  Shape
  <2>1. rec'.todo = rec.todo /\ rec'.snap = rec.snap /\ rec'.pc = "loop" /\ live' = live /\ rec.pc = "keygen"
    BY <1>1, <1>7 DEF RecWrite, Rec
  <2>2. \A p \in Peer : p # rec.cur => row'[p] = row[p]
    BY <1>1, <1>7 DEF RecWrite
  <2>3. rec.cur \in Peer /\ rec.cur \notin rec.todo /\ rec.todo \subseteq Peer
    BY <1>1, <2>1 DEF FreshInv, LinksTypeOK, Rec
  <2>4. row'[rec.cur].role = row[rec.cur].role
    <3>1. row'[rec.cur] = row[rec.cur] \/ row'[rec.cur] = Linked(row[rec.cur], rec.alloc, nextKey)
      BY <1>1, <1>7, <2>3 DEF RecWrite
    <3>2. Linked(row[rec.cur], rec.alloc, nextKey).role = row[rec.cur].role
      BY <1>1, <2>3 DEF Linked, Row
    <3> QED
      BY <3>1, <3>2
  <2> QED
    BY <1>1, <2>1, <2>2, <2>3, <2>4
<1>8. Shape
  BY <1>3, <1>4, <1>5, <1>6, <1>7 DEF ReconcileStep
<1> QED
  BY <1>2, <1>8

LEMMA FreshStep ==
  ASSUME ConstantsOK, LinksTypeOK, WorkOK, WorkOK', HomesInv, OwnReconcile, FreshInv, [Next]_vars
  PROVE  FreshInv'
<1> DEFINE Fresh == /\ \A p \in rec'.todo : row'[p] = rec'.snap[p]
                    /\ rec'.pc = "keygen" /\ rec'.cur \in live' => row'[rec'.cur].role = "exit"
           Alone == rec'.pc = "keygen" => rec'.cur \notin rec'.todo
<1>1. ASSUME Alone, conv'.pc = "reconcile" /\ ~Pending(Own)' => Fresh
      PROVE  FreshInv'
  BY <1>1 DEF FreshInv
<1> HIDE DEF Fresh, Alone
<1>2. CASE conv'.pc # "reconcile"
  <2>1. Alone
    BY <1>2 DEF Alone, WorkOK
  <2> QED
    BY <1>1, <1>2, <2>1
<1>3. CASE conv'.pc = "reconcile" /\ conv.pc # "reconcile"
  <2>1. PICK s \in Server : ConvergeBegin(s)
    <3>1. conv \in Conv
      BY DEF WorkOK
    <3>2. ~Handle
      BY <1>3 DEF Handle
    <3>3. \A h \in Handler : ~TeardownEnd(h)
      BY <1>3 DEF TeardownEnd
    <3>4. ~Inside
      <4>1. rec'.pc # "idle" /\ rec.pc = "idle"
        BY <1>3 DEF WorkOK
      <4> QED
        BY <1>3, <4>1 DEF Inside, linkVars
    <3>5. ~ReconcileReject /\ ~ConvergeEnd /\ ~UNCHANGED vars
      BY <1>3, RejectShape DEF ConvergeEnd, Finish, IdleConv, vars
    <3> QED
      BY <3>2, <3>3, <3>4, <3>5, StepKinds
  <2>2. rec' = [IdleRec EXCEPT !.pc = "loop", !.srv = s, !.todo = rec'.todo,
                               !.snap = [p \in Peer |-> IF p \in rec'.todo THEN row[p] ELSE Blank]]
    BY <2>1 DEF ConvergeBegin, RecBegin, IdleRec
  <2>3. rec'.pc = "loop" /\ row' = row
    BY <2>1 DEF ConvergeBegin, RecBegin, IdleRec
  <2>4. \A p \in rec'.todo : p \in Peer /\ row'[p] = rec'.snap[p]
    BY <2>1 DEF ConvergeBegin, RecBegin, IdleRec, LinksTypeOK
  <2> QED
    BY <1>1, <2>3, <2>4 DEF Fresh, Alone
<1>4. CASE conv'.pc = "reconcile" /\ conv.pc = "reconcile"
  <2>1. PICK t \in Server : Head(chain) = ConvergeJob(t) /\ Own = t
    <3>1. PICK t \in Server : Head(chain) = ConvergeJob(t)
      BY <1>4 DEF WorkOK
    <3> QED
      BY <3>1 DEF Own, ConvergeJob
  <2>2. rec.todo \subseteq Peer /\ (rec.pc = "keygen" => rec.cur \in Peer)
        /\ (\A p \in rec.todo : Home[p] = t) /\ (rec.pc = "keygen" => Home[rec.cur] = t)
    BY <1>4, <2>1 DEF LinksTypeOK, Rec, HomesInv, OwnReconcile
  <2>3. ASSUME rec' = rec, Pending(Own)' \/ (~Pending(Own) /\ Untouched(t))
        PROVE  FreshInv'
    <3>1. Alone
      BY <2>3 DEF Alone, FreshInv
    <3>2. ASSUME ~Pending(Own)'
          PROVE  Fresh
      BY <1>4, <2>2, <2>3, <3>2 DEF Fresh, FreshInv, Untouched
    <3> QED
      BY <1>1, <3>1, <3>2
  <2>4. CASE Handle
    <3>1. rec' = rec /\ Own' = Own
      BY <1>4, <2>4, HandleShape, EnqueueShape DEF Own, WorkOK
    <3>2. ASSUME ~Pending(t)'
          PROVE  ~Pending(t) /\ Untouched(t)
      BY <2>4, <3>2, HandleLeaves
    <3>3. (Pending(Own)' <=> Pending(t)') /\ (Pending(Own) <=> Pending(t))
      BY <2>1, <3>1 DEF Pending
    <3> QED
      BY <2>3, <3>1, <3>2, <3>3
  <2>5. CASE UNCHANGED vars
    <3>1. rec' = rec /\ (Pending(Own)' <=> Pending(Own)) /\ Untouched(t)
      BY <2>5 DEF vars, linkVars, Pending, Ahead, Own, Untouched
    <3> QED
      BY <2>3, <3>1
  <2>6. CASE ReconcileStep
    <3>1. /\ Ahead' = Ahead /\ Own' = Own /\ live' = live
          /\ rec'.todo \subseteq rec.todo /\ \A p \in rec'.todo : row'[p] = row[p] /\ rec'.snap[p] = rec.snap[p]
          /\ rec'.pc = "keygen" => /\ rec'.cur \in rec.todo \ rec'.todo /\ row' = row
                                   /\ NeedsLink(rec.snap[rec'.cur])
      BY <2>6, ReconcileShape
    <3>2. Alone
      BY <3>1 DEF Alone
    <3>3. ASSUME ~Pending(Own)'
          PROVE  Fresh
      <4>1. \A p \in rec.todo : row[p] = rec.snap[p]
        BY <1>4, <3>1, <3>3 DEF Pending, FreshInv
      <4> QED
        BY <3>1, <4>1 DEF Fresh, NeedsLink
    <3> QED
      BY <1>1, <3>2, <3>3
  <2>7. ~ReconcileReject
    <3>1. ASSUME ReconcileReject
          PROVE  conv'.pc = "idle"
      BY <3>1 DEF ReconcileReject, Finish, IdleConv
    <3> QED
      BY <3>1, <1>4
  <2>8. ~ReconcileEnd
    <3>1. ASSUME ReconcileEnd
          PROVE  conv'.pc = "list"
      BY <3>1 DEF ReconcileEnd, IdleConv
    <3> QED
      BY <3>1, <1>4
  <2> QED
    BY <1>4, <2>4, <2>5, <2>6, <2>7, <2>8, ReconcileKinds
<1> QED
  BY <1>2, <1>3, <1>4

\* A converge that runs after a step, and did not begin with it, ran before it.
LEMMA StillRunning ==
  ASSUME ConstantsOK, LinksTypeOK, LinksTypeOK', WorkOK, WorkOK', TallyOK, HomesInv, OwnReconcile, [Next]_vars,
         NEW s \in Server, Running(s)', ~Pending(s)', ~Pending(s), ~ConvergeBegin(s)
  PROVE  Running(s)
<1>1. conv'.pc # "idle" /\ Head(chain') = ConvergeJob(s)
  BY DEF Running
<1>2. CASE Handle
  BY <1>2, HandleLeaves DEF Running
<1>3. \A h \in Handler : ~TeardownEnd(h)
  BY <1>1 DEF TeardownEnd, WorkOK, ConvergeJob, TeardownJob
<1>4. ASSUME NEW t \in Server, ConvergeBegin(t)
      PROVE  FALSE
  BY <1>1, <1>4 DEF ConvergeBegin, ConvergeJob
<1>5. CASE Inside
  BY <1>1, <1>5 DEF Inside, Running
<1>6. ~ReconcileReject /\ ~ConvergeEnd
  BY <1>1, RejectShape DEF ConvergeEnd, Finish, IdleConv
<1>7. CASE UNCHANGED vars
  BY <1>1, <1>7 DEF vars, Running
<1> QED
  BY <1>2, <1>3, <1>4, <1>5, <1>6, <1>7, StepKinds

LEMMA ReleaseStep ==
  ASSUME ConstantsOK, LinksTypeOK, LinksTypeOK', WorkOK, WorkOK', TallyOK, HomesInv, OwnReconcile, FreshInv, ReleaseInv, [Next]_vars
  PROVE  ReleaseInv'
<1> SUFFICES ASSUME NEW p \in live', NeedsRelease(row'[p])
             PROVE  /\ ~Clean(Home[p])'
                    /\ Running(Home[p])' /\ ~Pending(Home[p])' => conv'.pc = "reconcile" /\ p \in rec'.todo
  BY DEF ReleaseInv
<1>1. p \in Peer /\ Home[p] \in Server
  BY DEF LinksTypeOK, ConstantsOK
<1> DEFINE s == Home[p]
<1>2. ASSUME Untouched(s)
      PROVE  p \in live /\ NeedsRelease(row[p])
  BY <1>1, <1>2 DEF Untouched
<1>3. ASSUME Clean(s)'
      PROVE  FALSE
  <2>1. CASE Clean(s) /\ Untouched(s)
    BY <1>2, <2>1 DEF ReleaseInv
  <2>2. CASE ConvergeEnd /\ s = Own /\ ~Pending(s)
    <3>1. Running(s)
      <4>1. PICK t \in Server : Head(chain) = ConvergeJob(t)
        BY <2>2 DEF ConvergeEnd, WorkOK
      <4> QED
        BY <2>2, <4>1 DEF Running, ConvergeEnd, Own, ConvergeJob
    <3>2. p \in live /\ NeedsRelease(row[p]) /\ conv.pc = "route"
      BY <2>2 DEF ConvergeEnd, linkVars
    <3> QED
      BY <2>2, <3>1, <3>2 DEF ReleaseInv
  <2> QED
    BY <1>1, <1>3, <2>1, <2>2, CleanStep
<1>4. ASSUME Running(s)', ~Pending(s)'
      PROVE  conv'.pc = "reconcile" /\ p \in rec'.todo
  <2>1. /\ ~Pending(s) \/ ConvergeBegin(s)
        /\ Untouched(s) \/ conv.pc = "reconcile"
    BY <1>1, <1>4, PendingStep
  <2>2. CASE ConvergeBegin(s)
    <3>1. p \in live /\ NeedsRelease(row[p])
      BY <2>2 DEF ConvergeBegin, RecBegin
    <3>2. rec'.todo = {q \in live : Home[q] = s /\ (NeedsRelease(row[q]) \/ NeedsLink(row[q]))}
      BY <2>2 DEF ConvergeBegin, RecBegin, IdleRec
    <3>3. conv'.pc = "reconcile"
      BY <2>2 DEF ConvergeBegin, IdleConv
    <3> QED
      BY <3>1, <3>2, <3>3
  <2>3. CASE ~ConvergeBegin(s)
    <3>1. ~Pending(s) /\ Running(s)
      BY <1>1, <1>4, <2>1, <2>3, StillRunning
    <3>2. CASE conv.pc # "reconcile"
      BY <1>1, <1>2, <2>1, <3>1, <3>2 DEF ReleaseInv
    <3>3. CASE conv.pc = "reconcile"
      <4>1. s = Own
        BY <3>1 DEF Running, Own, ConvergeJob
      <4>2. ASSUME p \in live, NeedsRelease(row[p])
            PROVE  p \in rec.todo
        BY <3>1, <4>2 DEF ReleaseInv
      <4>3. CASE Handle
        <5>1. Untouched(s) /\ rec' = rec /\ conv' = conv
          BY <1>1, <1>4, <4>3, HandleLeaves
        <5> QED
          BY <1>2, <3>3, <4>2, <5>1
      <4>4. CASE UNCHANGED vars
        <5>1. live' = live /\ row' = row /\ rec' = rec /\ conv' = conv
          BY <4>4 DEF vars, linkVars
        <5> QED
          BY <3>3, <4>2, <5>1
      <4>5. CASE ReconcileStep
        <5>1. /\ conv' = conv /\ live' = live
              /\ \/ row'[p].name = None
                 \/ row'[p] = row[p] /\ (p \in rec'.todo \/ p \notin rec.todo \/ NeedsLink(rec.snap[p]))
                 \/ rec.pc = "keygen" /\ p = rec.cur /\ row'[p].role = row[p].role
          <6>1. conv' = conv /\ live' = live
            BY <4>5, ReconcileShape
          <6>2. p \in live
            BY <6>1
          <6> QED
            BY <4>5, <6>1, <6>2, ReconcileShape
        <5>2. row'[p].name # None /\ row'[p].role = "plain"
          BY DEF NeedsRelease
        <5>3. ~(rec.pc = "keygen" /\ p = rec.cur /\ row'[p].role = row[p].role)
          BY <3>1, <3>3, <4>1, <5>1, <5>2 DEF FreshInv
        <5>4. row'[p] = row[p] /\ p \in rec.todo
          BY <4>2, <5>1, <5>2, <5>3
        <5>5. ~NeedsLink(rec.snap[p])
          BY <3>1, <3>3, <4>1, <5>2, <5>4 DEF FreshInv, NeedsLink
        <5> QED
          BY <3>3, <5>1, <5>2, <5>3, <5>4, <5>5
      <4>6. ~ReconcileReject
        BY <1>4, RejectShape DEF IdleConv, Running
      <4>7. CASE ReconcileEnd
        <5>1. rec.todo = {} /\ live' = live /\ row' = row
          BY <4>7 DEF ReconcileEnd, RecReturn
        <5> QED
          BY <4>2, <5>1
      <4> QED
        BY <3>3, <4>3, <4>4, <4>5, <4>6, <4>7, ReconcileKinds
    <3> QED
      BY <3>2, <3>3
  <2> QED
    BY <2>2, <2>3
<1> QED
  BY <1>3, <1>4

\* Once the work is done, a peer that is no exit node holds no name, no table and no key, however many
\* requests came between the readings and the writes of the reconciles, and whatever failed.
THEOREM LinksAlwaysReleased == Spec => []LinksReleased
<1>1. Init => BareInv /\ FreshInv /\ ReleaseInv
  <2> SUFFICES ASSUME Init
               PROVE  BareInv /\ FreshInv /\ ReleaseInv
    OBVIOUS
  <2>1. LinksInit /\ conv.pc = "idle" /\ rec.pc = "idle"
    BY DEF Init, IdleConv, LinksInit, IdleRec
  <2>2. \A p \in live : ~NeedsRelease(row[p])
    BY <2>1, ConstantsOK DEF LinksInit, NeedsRelease, Blank
  <2> QED
    BY <2>1, <2>2, BareInit DEF FreshInv, ReleaseInv
<1>2. HostInv /\ HostInv' /\ BareInv /\ FreshInv /\ ReleaseInv /\ [Next]_vars => (BareInv /\ FreshInv /\ ReleaseInv)'
  <2> SUFFICES ASSUME HostInv, HostInv', BareInv, FreshInv, ReleaseInv, [Next]_vars
               PROVE  BareInv' /\ FreshInv' /\ ReleaseInv'
    OBVIOUS
  <2>1. /\ LinksInv /\ LinksTypeOK /\ WorkOK /\ TallyOK /\ HomesInv /\ OwnReconcile
        /\ LinksTypeOK' /\ WorkOK'
    BY DEF HostInv, ConvergeTypeOK
  <2>2. BareInv'
    BY <2>1, BareStep, StepRefines, ConstantsOK
  <2> QED
    BY <2>1, <2>2, FreshStep, ReleaseStep, ConstantsOK
<1>3. HostInv /\ BareInv /\ ReleaseInv => LinksReleased
  <2> SUFFICES ASSUME HostInv, BareInv, ReleaseInv, Settled, NEW p \in live, row[p].role = "plain"
               PROVE  {row[p].name, row[p].table, row[p].key} = {None}
    BY DEF LinksReleased
  <2>1. WorkOK /\ p \in Peer /\ Home[p] \in Server
    BY ConstantsOK DEF HostInv, ConvergeTypeOK, LinksTypeOK, ConstantsOK
  <2>2. Clean(Home[p])
    BY <2>1, SettledClean
  <2>3. row[p].name = None
    BY <2>2 DEF ReleaseInv, NeedsRelease
  <2>4. row[p].table = None /\ row[p].key = None
    BY <2>1, <2>3 DEF BareInv
  <2> QED
    BY <2>3, <2>4
<1> QED
  BY <1>1, <1>2, <1>3, HostCorrect, PTL DEF Spec

=============================================================================
