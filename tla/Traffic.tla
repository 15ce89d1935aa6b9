------------------------------- MODULE Traffic -------------------------------
(***************************************************************************)
(* Traffic statistics (wg/traffic.ts, api/traffic.ts) and the tick of the  *)
(* manager that feeds them (refreshInfo and loop in wg/manager.ts).        *)
(*                                                                         *)
(* wireguard keeps a counter per peer and interface, which starts at zero  *)
(* whenever the interface or the peer's entry in it does.  A tick asks the *)
(* interfaces one command after the other, and writes what they said.      *)
(* Each await of the tick is a point where anything else may happen.  rx   *)
(* and tx are treated alike: one of them stands for both.  A minute is one *)
(* unit of time.                                                           *)
(***************************************************************************)
EXTENDS Integers, FiniteSets, Sums

CONSTANTS
  Peer, Server, Home,
  Null,
  Hour, Day,               \* in minutes
  FineWindow, HourWindow, DayWindow,
  MaxTime, MaxCarried, MaxEvents   \* bounds: minutes, bytes of a peer, events around the counters

ASSUME ConstantsOK ==
  /\ Home \in [Peer -> Server]
  /\ Null \notin Nat
  /\ Hour \in Nat \ {0} /\ Day \in Nat \ {0}
  /\ FineWindow \in Nat /\ HourWindow \in Nat /\ DayWindow \in Nat
  /\ MaxTime \in Nat /\ MaxCarried \in [Peer -> Nat] /\ MaxEvents \in Nat
  /\ IsFiniteSet(Peer)

\* A day is a whole number of hours, and a day's buckets are all consolidated by the time it is pruned.
ASSUME WindowsOK ==
  /\ Day % Hour = 0
  /\ FineWindow + Day <= DayWindow + 1 /\ HourWindow + Day <= DayWindow + 1

VARIABLES
  now,
  up,        \* servers whose own interface is up
  linked,    \* peers on a link of their own; the others are on their server's interface
  wg,        \* the counter of a peer where it is
  live, fresh,
  last,      \* wgLastRxBytes, Null before the first sample
  lifetime, total,
  bucket,    \* <<peer, resolution, start>>; 0 is no row
  tick,      \* what the running tick knows
  events,
  carried, counted, log   \* history: bytes carried, and counted, in all and by minute

device == <<up, linked, wg, carried>>
peers == <<live, fresh>>
stats == <<last, lifetime, total, bucket>>
history == <<counted, log>>
vars == <<now, device, peers, stats, tick, events, history>>

Resolution == {"1m", "1h", "1d"}
Time == 0..MaxTime
Size(r) == CASE r = "1m" -> 1 [] r = "1h" -> Hour [] r = "1d" -> Day

BucketStartFor(at, r) == at - (at % Size(r))

PeersOf(s) == {p \in Peer : Home[p] = s}

(***************************************************************************)
(* The counters of wireguard, and the clock.                               *)
(***************************************************************************)
\* The tick reads the clock at two points only; time that passes elsewhere passes before or after.
Advance ==
  /\ now < MaxTime /\ now' = now + 1
  /\ tick.pc \in {"idle", "record", "dead"}
  /\ UNCHANGED <<device, peers, stats, tick, events, history>>

Event == events < MaxEvents /\ events' = events + 1

Carry(p) ==
  /\ p \in live /\ (p \in linked \/ Home[p] \in up) 
  /\ carried[p] < MaxCarried[p]
  /\ wg' = [wg EXCEPT ![p] = @ + 1]
  /\ carried' = [carried EXCEPT ![p] = @ + 1]
  /\ UNCHANGED <<now, up, linked, peers, stats, tick, events, history>>

\* An entry is made anew: a restarted interface, or a peer taken out of it and put back.
Restart(p) ==
  /\ Event /\ wg[p] # 0
  /\ wg' = [wg EXCEPT ![p] = 0]
  /\ UNCHANGED <<now, up, linked, carried, peers, stats, tick, history>>

\* A converge moves a peer between its server's interface and a link: never on both at once.
Move(p) ==
  /\ Event /\ p \in live
  /\ linked' = IF p \in linked THEN linked \ {p} ELSE linked \cup {p}
  /\ wg' = [wg EXCEPT ![p] = 0]
  /\ UNCHANGED <<now, up, carried, peers, stats, tick, history>>

InterfaceLost(s) ==
  /\ Event /\ s \in up
  /\ up' = up \ {s}
  /\ wg' = [p \in Peer |-> IF Home[p] = s /\ p \notin linked THEN 0 ELSE wg[p]]
  /\ UNCHANGED <<now, linked, carried, peers, stats, tick, history>>

(***************************************************************************)
(* The API.                                                                *)
(***************************************************************************)
AddPeer(p) ==
  /\ p \in fresh
  /\ fresh' = fresh \ {p} /\ live' = live \cup {p}
  /\ UNCHANGED <<now, device, stats, tick, events, history>>

\* The buckets of the peer stay: no foreign key is enforced.
DeletePeer(p) ==
  /\ p \in live
  /\ live' = live \ {p}
  /\ linked' = linked \ {p} /\ wg' = [wg EXCEPT ![p] = 0]
  /\ last' = [last EXCEPT ![p] = Null] /\ lifetime' = [lifetime EXCEPT ![p] = 0]
  /\ UNCHANGED <<now, up, carried, fresh, total, bucket, tick, events, history>>

ResetPeer(p) ==
  /\ Event /\ p \in live
  /\ lifetime' = [lifetime EXCEPT ![p] = 0]
  /\ UNCHANGED <<now, device, peers, last, total, bucket, tick, history>>

ResetServer(s) ==
  /\ Event
  /\ total' = [total EXCEPT ![s] = 0]
  /\ UNCHANGED <<now, device, peers, last, lifetime, bucket, tick, history>>

(***************************************************************************)
(* The tick: the interfaces of every server, then the rollup.              *)
(***************************************************************************)
None == [p \in {} |-> 0]
IdleTick == [pc |-> "idle", left |-> {}, of |-> Null, links |-> {}, ask |-> {},
             own |-> None, link |-> None, prior |-> None, at |-> 0, rows |-> None]

\* The loop has ended for good (Dead of module Manager).
DeadTick == [IdleTick EXCEPT !.pc = "dead"]

\* The next server of the tick.
NextServer == [IdleTick EXCEPT !.pc = "server", !.left = tick.left, !.links = tick.links]

TickBegin ==
  /\ tick.pc = "idle"
  /\ tick' = [IdleTick EXCEPT !.pc = "server", !.left = Server, !.links = linked]
  /\ UNCHANGED <<now, device, peers, stats, events, history>>

ShowServer(s) ==
  /\ tick.pc = "server" /\ s \in tick.left /\ s \in up
  /\ tick' = [tick EXCEPT !.pc = "links", !.left = @ \ {s}, !.of = s,
                          !.ask = tick.links \cap PeersOf(s), !.link = None,
                          !.own = [p \in (live \cap PeersOf(s)) \ linked |-> wg[p]]]
  /\ UNCHANGED <<now, device, peers, stats, events, history>>

\* wg show knows no such interface: the server converges, and is not sampled in this tick; a
\* converge that rejects ends the loop.
ShowDown(s) ==
  /\ tick.pc = "server" /\ s \in tick.left /\ s \notin up
  /\ tick' \in {[tick EXCEPT !.left = @ \ {s}], DeadTick}
  /\ up' \in {up, up \cup {s}}
  /\ UNCHANGED <<now, linked, wg, carried, peers, stats, events, history>>

ShowLink(p) ==
  /\ tick.pc = "links" /\ p \in tick.ask
  /\ tick' = [tick EXCEPT !.ask = @ \ {p},
                          !.link = IF p \in linked THEN [q \in DOMAIN @ \cup {p} |-> IF q = p THEN wg[p] ELSE @[q]]
                                   ELSE @]
  /\ UNCHANGED <<now, device, peers, stats, events, history>>

Sampled == DOMAIN tick.own \cup DOMAIN tick.link

\* recordServerTraffic reads the rows of the peers, and writes in a transaction.
RecordRead ==
  /\ tick.pc = "links" /\ tick.ask = {}
  /\ tick' = IF Sampled = {} THEN NextServer
             ELSE [tick EXCEPT !.pc = "record", !.at = now, !.prior = [p \in live \cap PeersOf(tick.of) |-> last[p]]]
  /\ UNCHANGED <<now, device, peers, stats, events, history>>

\* Mutant: a counter that went backwards is taken as it is.
ComputeCounterDelta_Signed(previous, current) == IF previous = Null THEN 0 ELSE current - previous
ComputeCounterDelta(previous, current) == IF previous = Null \/ current < previous THEN 0 ELSE current - previous

DeltaIn(sample, p) ==
  IF p \in DOMAIN sample /\ p \in DOMAIN tick.prior THEN ComputeCounterDelta(tick.prior[p], sample[p]) ELSE 0

\* A key that was on the server's interface and then on a link is counted for both.
Gained(p) == DeltaIn(tick.own, p) + DeltaIn(tick.link, p)

\* Mutants: the baseline stays where the first sample put it; it follows the counter only when
\* there is something to count.
NewLast_First(p) == IF last[p] # Null THEN last[p] ELSE IF p \in DOMAIN tick.link THEN tick.link[p] ELSE tick.own[p]
NewLast_OnlyGrowing(p) == IF Gained(p) = 0 THEN last[p] ELSE IF p \in DOMAIN tick.link THEN tick.link[p] ELSE tick.own[p]
NewLast(p) == IF p \in DOMAIN tick.link THEN tick.link[p] ELSE tick.own[p]

RecordWrite ==
  LET written == Sampled \cap DOMAIN tick.prior \cap live
      start == BucketStartFor(tick.at, "1m")
  IN /\ tick.pc = "record"
     /\ last' = [p \in Peer |-> IF p \in written THEN NewLast(p) ELSE last[p]]
     /\ lifetime' = [p \in Peer |-> IF p \in written THEN lifetime[p] + Gained(p) ELSE lifetime[p]]
     /\ total' = [total EXCEPT ![tick.of] = @ + SumOf([p \in Peer |-> Gained(p)], Peer)]
     /\ bucket' = [b \in DOMAIN bucket |-> bucket[b] + IF b[2] = "1m" /\ b[3] = start THEN Gained(b[1]) ELSE 0]
     /\ counted' = [p \in Peer |-> counted[p] + Gained(p)]
     /\ log' = [e \in DOMAIN log |-> log[e] + IF e[2] = tick.at THEN Gained(e[1]) ELSE 0]
     /\ tick' = NextServer
     /\ UNCHANGED <<now, device, peers, events>>

\* Every 120th tick goes on with the rollup, the others end.
TickEnd ==
  /\ tick.pc = "server" /\ tick.left = {}
  /\ \/ tick' = IdleTick
     \/ tick' = [IdleTick EXCEPT !.pc = "1m", !.at = now]
  /\ UNCHANGED <<now, device, peers, stats, events, history>>

(***************************************************************************)
(* rollupAndPrune: each resolution is read, consolidated into the next and *)
(* deleted, with a cutoff that falls anywhere in an hour or a day.         *)
(***************************************************************************)
Coarser(r) == IF r = "1m" THEN "1h" ELSE "1d"
Window(r) == CASE r = "1m" -> FineWindow [] r = "1h" -> HourWindow [] r = "1d" -> DayWindow
Old(r) == {b \in DOMAIN bucket : b[2] = r /\ b[3] < tick.at - Window(r)}

RollupRead(r) ==
  /\ tick.pc = r
  /\ tick' = [tick EXCEPT !.pc = "write", !.of = r, !.rows = [b \in Old(r) |-> bucket[b]]]
  /\ UNCHANGED <<now, device, peers, stats, events, history>>

\* Mutant: the sum of the rows replaces what the coarser bucket has.
Consolidated_Replaces(b, rows, r) ==
  LET sources == {x \in DOMAIN rows : x[1] = b[1] /\ BucketStartFor(x[3], Coarser(r)) = b[3]}
  IN IF SumOf(rows, sources) = 0 THEN bucket[b] ELSE SumOf(rows, sources)
Consolidated(b, rows, r) ==
  bucket[b] + SumOf(rows, {x \in DOMAIN rows : x[1] = b[1] /\ BucketStartFor(x[3], Coarser(r)) = b[3]})

RollupWrite ==
  LET r == tick.of IN
  /\ tick.pc = "write"
  /\ bucket' = [b \in DOMAIN bucket |-> CASE b \in Old(r) -> 0
                                          [] b[2] = Coarser(r) -> Consolidated(b, tick.rows, r)
                                          [] OTHER -> bucket[b]]
  /\ tick' = [tick EXCEPT !.pc = Coarser(r), !.rows = None]
  /\ UNCHANGED <<now, device, peers, last, lifetime, total, events, history>>

Prune ==
  /\ tick.pc = "1d"
  /\ bucket' = [b \in DOMAIN bucket |-> IF b \in Old("1d") THEN 0 ELSE bucket[b]]
  /\ tick' = IdleTick
  /\ UNCHANGED <<now, device, peers, last, lifetime, total, events, history>>

\* The process dies wherever the tick is; the next one makes every interface anew.  A sweep or a
\* converge of its boot that rejects leaves it without a loop, and the other servers down.
Crash ==
  /\ Event
  /\ \/ tick' = IdleTick /\ up' = Server
     \/ tick' = DeadTick /\ up' \in SUBSET Server
  /\ wg' = [p \in Peer |-> 0]
  /\ UNCHANGED <<now, linked, carried, peers, stats, history>>

Tick ==
  \/ TickBegin \/ \E s \in Server : ShowServer(s) \/ ShowDown(s)
  \/ \E p \in Peer : ShowLink(p)
  \/ RecordRead \/ RecordWrite \/ TickEnd
  \/ \E r \in {"1m", "1h"} : RollupRead(r)
  \/ RollupWrite \/ Prune

Init ==
  /\ now = 0 /\ up = Server /\ linked = {} /\ wg = [p \in Peer |-> 0]
  /\ live = {} /\ fresh = Peer
  /\ last = [p \in Peer |-> Null] /\ lifetime = [p \in Peer |-> 0] /\ total = [s \in Server |-> 0]
  /\ bucket = [b \in Peer \X Resolution \X Time |-> 0]
  /\ tick = IdleTick /\ events = 0
  /\ carried = [p \in Peer |-> 0] /\ counted = [p \in Peer |-> 0] /\ log = [e \in Peer \X Time |-> 0]

Next ==
  \/ Advance \/ Tick \/ Crash
  \/ \E p \in Peer : Carry(p) \/ Restart(p) \/ Move(p) \/ AddPeer(p) \/ DeletePeer(p) \/ ResetPeer(p)
  \/ \E s \in Server : InterfaceLost(s) \/ ResetServer(s)

Spec == Init /\ [][Next]_vars

\* Every command of a tick comes back, and the timer of the next one fires.
FairSpec == Spec /\ WF_vars(Tick)

(***************************************************************************)
(* Properties.                                                             *)
(***************************************************************************)
SampleOK(f) == DOMAIN f \subseteq Peer /\ \A p \in DOMAIN f : f[p] \in Nat

CountersOK ==
  /\ live \subseteq Peer /\ fresh \subseteq Peer \ live /\ linked \subseteq live
  /\ wg \in [Peer -> Nat] /\ carried \in [Peer -> Nat] /\ counted \in [Peer -> Nat]
  /\ last \in [Peer -> Nat \cup {Null}] /\ lifetime \in [Peer -> Nat]
  /\ \A p \in Peer \ live : wg[p] = 0 /\ last[p] = Null

TickOK ==
  /\ tick = [field \in DOMAIN IdleTick |-> tick[field]]
  /\ SampleOK(tick.own) /\ SampleOK(tick.link)
  /\ DOMAIN tick.prior \subseteq Peer /\ \A p \in DOMAIN tick.prior : tick.prior[p] \in Nat \cup {Null}

\* The types of the counters, of what a tick holds and of the totals.
TrafficTypeOK ==
  /\ CountersOK /\ TickOK
  /\ now \in Time /\ up \subseteq Server
  /\ total \in [Server -> Nat] /\ bucket \in [Peer \X Resolution \X Time -> Nat]
  /\ log \in [Peer \X Time -> Nat]

\* Never a byte more than the peer carried: not after a restart of its interface, not when it is
\* seen on two interfaces by one tick, not when its row is read before a reset and written after
\* (computeCounterDelta, recordServerTraffic).
NeverOvercounts == \A p \in Peer : lifetime[p] <= counted[p] /\ counted[p] <= carried[p]

\* A counted byte is in the graph once, in a bucket that covers its minute, until its day is too
\* old: the rollup neither drops nor repeats one, wherever its cutoff falls and wherever it is
\* interrupted (rollupResolution, consolidateBuckets, pruneResolution).
Within(b, d) == BucketStartFor(b[3], "1d") = d
EveryByteInOneBucket ==
  \A p \in Peer, d \in {t \in Time : t % Day = 0} :
    LET stored == SumOf(bucket, {b \in DOMAIN bucket : b[1] = p /\ Within(b, d)})
    IN \/ stored = SumOf(log, {e \in DOMAIN log : e[1] = p /\ BucketStartFor(e[2], "1d") = d})
       \/ stored = 0 /\ d + DayWindow < now

\* The statistics are the ledger: between two counts, resets, deletions or expiries nothing that
\* happens to the counters, to the buckets or to the process shows.
Books == INSTANCE Ledger WITH
  owed <- [p \in Peer |-> carried[p] - counted[p]],
  gone <- (Peer \ live) \ fresh,
  kept <- [p \in Peer |-> SumOf(bucket, {b \in DOMAIN bucket : b[1] = p})]
ImplementsLedger == Books!Spec

\* Once nothing happens to the counters any more, the baseline of every peer of a server that is up
\* is its counter: the statistics do not stall after a restart, a move or a crash in the middle of a
\* tick (recordServerTraffic, refreshInfo).  A link whose server stays down is not sampled, and
\* nothing is once the loop has ended.
BaselineCatchesUp ==
  \A p \in Peer : <>[](tick.pc # "dead" /\ p \in live /\ Home[p] \in up => last[p] = wg[p])

=============================================================================
