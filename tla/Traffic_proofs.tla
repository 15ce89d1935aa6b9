---------------------------- MODULE Traffic_proofs ----------------------------
(***************************************************************************)
(* The invariants of Traffic for every value of its constants, and that it *)
(* implements the ledger.  First, that no byte is counted twice.           *)
(*                                                                         *)
(* The counter of a peer is what it carried since a base, which only grows *)
(* when the counter restarts.  What was counted is never beyond the        *)
(* baseline of the database, if that is of this life of the counter, and   *)
(* never beyond the base if it is of an earlier one; and the same holds of *)
(* what the samples of a tick will add, wherever the tick is.              *)
(***************************************************************************)
EXTENDS Traffic, Sums_proofs, TLAPS

Base(p) == carried[p] - wg[p]

\* What a reading x of the counter accounts for.
Mark(p, x) == Base(p) + IF x # Null /\ x <= wg[p] THEN x ELSE 0

\* The baseline that the samples of the tick are compared with.
Prior(p) == IF tick.pc = "links" THEN last[p]
            ELSE IF p \in DOMAIN tick.prior THEN tick.prior[p] ELSE Null

Adds(sample, p) == IF p \in DOMAIN sample THEN ComputeCounterDelta(Prior(p), sample[p]) ELSE 0

OwnBooked(p) == p \in DOMAIN tick.own =>
  counted[p] + Adds(tick.own, p) <= IF p \in linked THEN Base(p) ELSE Mark(p, tick.own[p])
LinkBooked(p) == p \in DOMAIN tick.link =>
  counted[p] + Adds(tick.own, p) + Adds(tick.link, p) <= Mark(p, tick.link[p])

Booked(p) ==
  /\ wg[p] <= carried[p] /\ counted[p] <= Mark(p, last[p]) /\ lifetime[p] <= counted[p]
  /\ tick.pc \in {"links", "record"} => OwnBooked(p) /\ LinkBooked(p)
  /\ tick.pc = "links" => ~(p \in tick.ask /\ p \in DOMAIN tick.link)

TrafficInv == CountersOK /\ TickOK /\ \A p \in Peer : Booked(p)

(***************************************************************************)
(* One counter.                                                            *)
(***************************************************************************)
LEMMA DeltaOK ==
  ASSUME NEW l \in Nat \cup {Null}, NEW x \in Nat
  PROVE  /\ ComputeCounterDelta(l, x) \in Nat /\ ComputeCounterDelta(l, x) <= x
         /\ l # Null /\ l <= x => ComputeCounterDelta(l, x) = x - l
         /\ ~(l # Null /\ l <= x) => ComputeCounterDelta(l, x) = 0
BY ConstantsOK DEF ComputeCounterDelta

LEMMA MarkOK ==
  ASSUME CountersOK, NEW p \in Peer, wg[p] <= carried[p], NEW x \in Nat \cup {Null}
  PROVE  /\ Base(p) \in Nat /\ Mark(p, x) \in Nat /\ Base(p) <= Mark(p, x) /\ Mark(p, x) <= carried[p]
         /\ Mark(p, x) = IF x # Null /\ x <= wg[p] THEN carried[p] - wg[p] + x ELSE carried[p] - wg[p]
BY ConstantsOK DEF CountersOK, Base, Mark

LEMMA PriorOK ==
  ASSUME CountersOK, TickOK, NEW p \in Peer
  PROVE  Prior(p) \in Nat \cup {Null}
BY DEF CountersOK, TickOK, Prior

LEMMA AddsOK ==
  ASSUME CountersOK, TickOK, NEW p \in Peer, NEW sample, SampleOK(sample)
  PROVE  Adds(sample, p) \in Nat
BY PriorOK, DeltaOK DEF Adds, SampleOK

\* The counter grows or starts again, and nothing else changes for the statistics but a reset.
LEMMA CounterMoves ==
  ASSUME TrafficInv, UNCHANGED <<tick, counted, last>>, CountersOK',
         NEW p \in Peer, lifetime'[p] <= lifetime[p],
         \/ wg[p] <= wg'[p] /\ carried'[p] - wg'[p] = carried[p] - wg[p] /\ (p \in linked' <=> p \in linked)
         \/ wg'[p] = 0 /\ carried'[p] = carried[p]
  PROVE  Booked(p)'
<1> USE DEF TrafficInv
<1>1. /\ wg[p] \in Nat /\ carried[p] \in Nat /\ counted[p] \in Nat /\ lifetime[p] \in Nat
      /\ wg'[p] \in Nat /\ carried'[p] \in Nat /\ lifetime'[p] \in Nat /\ last[p] \in Nat \cup {Null}
  BY DEF CountersOK
<1>2. Booked(p)
  OBVIOUS
<1>3. wg'[p] <= carried'[p]
  BY <1>1, <1>2 DEF Booked
<1>4. Adds(tick.own, p)' = Adds(tick.own, p) /\ Adds(tick.link, p)' = Adds(tick.link, p)
  BY DEF Adds, Prior
<1>5. Adds(tick.own, p) \in Nat /\ Adds(tick.link, p) \in Nat
  BY AddsOK DEF TickOK
<1>6. \A x \in Nat \cup {Null} : Mark(p, x) <= (Mark(p, x))' /\ Base(p) <= Base(p)'
  BY <1>1, <1>2, <1>3, ConstantsOK DEF Mark, Base, Booked
<1>7. CASE wg'[p] = 0 /\ carried'[p] = carried[p]
  <2>1. \A x \in Nat \cup {Null} : Mark(p, x) <= Base(p)' /\ Base(p) <= Base(p)'
    BY <1>1, <1>2, <1>7, ConstantsOK DEF Mark, Base, Booked
  <2>2. \A x \in Nat \cup {Null} : Base(p)' <= (Mark(p, x))' /\ Base(p)' \in Nat /\ (Mark(p, x))' \in Nat /\ Mark(p, x) \in Nat
    BY <1>1, <1>2, <1>7, ConstantsOK DEF Mark, Base, Booked
  <2>3. OwnBooked(p) => OwnBooked(p)'
    <3> SUFFICES ASSUME OwnBooked(p), p \in DOMAIN tick.own
                 PROVE  counted[p] + Adds(tick.own, p) <= Base(p)'
      BY <1>4, <2>2, <1>1, <1>5 DEF OwnBooked, TickOK, SampleOK
    <3>1. tick.own[p] \in Nat /\ Base(p) \in Nat
      BY <1>1, <1>2 DEF TickOK, SampleOK, Base, Booked
    <3> QED
      BY <1>1, <1>5, <2>1, <2>2, <3>1 DEF OwnBooked
  <2>4. LinkBooked(p) => LinkBooked(p)'
    <3> SUFFICES ASSUME LinkBooked(p), p \in DOMAIN tick.link
                 PROVE  counted[p] + Adds(tick.own, p) + Adds(tick.link, p) <= (Mark(p, tick.link[p]))'
      BY <1>4 DEF LinkBooked
    <3>1. tick.link[p] \in Nat
      BY DEF TickOK, SampleOK
    <3> QED
      BY <1>1, <1>5, <1>6, <2>2, <3>1 DEF LinkBooked
  <2>5. counted[p] <= (Mark(p, last[p]))'
    BY <1>1, <1>2, <1>7, ConstantsOK DEF Booked, Mark, Base
  <2> QED
    BY <1>1, <1>2, <1>3, <2>3, <2>4, <2>5 DEF Booked
<1>8. CASE wg[p] <= wg'[p] /\ carried'[p] - wg'[p] = carried[p] - wg[p] /\ (p \in linked' <=> p \in linked)
  <2>1. \A x \in Nat \cup {Null} : (Mark(p, x))' \in Nat /\ Mark(p, x) \in Nat /\ Base(p) \in Nat /\ Base(p)' = Base(p)
    BY <1>1, <1>2, <1>8, ConstantsOK DEF Mark, Base, Booked
  <2>2. OwnBooked(p) => OwnBooked(p)'
    <3> SUFFICES ASSUME OwnBooked(p), p \in DOMAIN tick.own
                 PROVE  OwnBooked(p)'
      BY DEF OwnBooked
    <3>1. tick.own[p] \in Nat
      BY DEF TickOK, SampleOK
    <3> QED
      BY <1>1, <1>4, <1>5, <1>6, <1>8, <2>1, <3>1 DEF OwnBooked
  <2>3. LinkBooked(p) => LinkBooked(p)'
    <3> SUFFICES ASSUME LinkBooked(p), p \in DOMAIN tick.link
                 PROVE  LinkBooked(p)'
      BY DEF LinkBooked
    <3>1. tick.link[p] \in Nat
      BY DEF TickOK, SampleOK
    <3> QED
      BY <1>1, <1>4, <1>5, <1>6, <2>1, <3>1 DEF LinkBooked
  <2>4. counted[p] <= (Mark(p, last[p]))'
    BY <1>1, <1>2, <1>8, ConstantsOK DEF Booked, Mark, Base
  <2> QED
    BY <1>1, <1>2, <1>3, <2>2, <2>3, <2>4 DEF Booked
<1> QED
  BY <1>7, <1>8

\* A tick that holds no samples books nothing.
LEMMA NoSamples ==
  ASSUME TrafficInv, UNCHANGED <<live, linked, wg, carried, counted, last, lifetime>>,
         tick'.pc \notin {"links", "record"}, NEW p \in Peer
  PROVE  Booked(p)'
BY DEF TrafficInv, Booked, Mark, Base

(***************************************************************************)
(* The steps of the tick that book something.                              *)
(***************************************************************************)
LEMMA ShowServerInv ==
  ASSUME TrafficInv, NEW s \in Server, ShowServer(s)
  PROVE  TrafficInv'
<1> USE DEF TrafficInv
<1>1. UNCHANGED <<live, fresh, linked, wg, carried, counted, last, lifetime>>
  BY DEF ShowServer, device, peers, stats, history
<1> DEFINE own == [p \in (live \cap PeersOf(s)) \ linked |-> wg[p]]
<1>2. /\ DOMAIN tick = DOMAIN IdleTick
      /\ tick' = [tick EXCEPT !.pc = "links", !.left = @ \ {s}, !.of = s,
                              !.ask = tick.links \cap PeersOf(s), !.link = None, !.own = own]
  BY DEF ShowServer, TickOK
<1> HIDE DEF own
<1>3. /\ tick' = [field \in DOMAIN IdleTick |-> tick'[field]]
      /\ tick'.pc = "links" /\ tick'.own = own /\ tick'.link = None /\ tick'.prior = tick.prior
  BY <1>2 DEF TickOK, IdleTick
<1>4. CountersOK'
  BY <1>1 DEF CountersOK
<1>5. DOMAIN None = {} /\ DOMAIN own = (live \cap PeersOf(s)) \ linked /\ \A p \in DOMAIN own : own[p] = wg[p]
  BY DEF None, own
<1>6. TickOK'
  BY <1>3, <1>5 DEF TickOK, SampleOK, CountersOK
<1>7. ASSUME NEW p \in Peer PROVE Booked(p)'
  <2>1. Prior(p)' = last[p] /\ last[p] \in Nat \cup {Null} /\ wg[p] \in Nat /\ carried[p] \in Nat /\ counted[p] \in Nat
    BY <1>1, <1>3 DEF Prior, CountersOK
  <2>2. wg[p] <= carried[p] /\ counted[p] <= Mark(p, last[p]) /\ lifetime[p] <= counted[p]
    BY DEF Booked
  <2>3. (Mark(p, wg[p]))' = carried[p] /\ (Mark(p, last[p]))' = Mark(p, last[p])
    BY <1>1, <2>1, ConstantsOK DEF Mark, Base
  <2>4. counted[p] + ComputeCounterDelta(last[p], wg[p]) <= carried[p]
    <3>1. /\ ComputeCounterDelta(last[p], wg[p]) \in Nat /\ ComputeCounterDelta(last[p], wg[p]) <= wg[p]
          /\ last[p] # Null /\ last[p] <= wg[p] => ComputeCounterDelta(last[p], wg[p]) = wg[p] - last[p]
          /\ ~(last[p] # Null /\ last[p] <= wg[p]) => ComputeCounterDelta(last[p], wg[p]) = 0
      BY <2>1, DeltaOK
    <3>2. counted[p] <= IF last[p] # Null /\ last[p] <= wg[p] THEN carried[p] - wg[p] + last[p] ELSE carried[p] - wg[p]
      BY <2>1, <2>2, MarkOK
    <3> QED
      BY <2>1, <2>2, <3>1, <3>2
  <2>5. OwnBooked(p)'
    <3> SUFFICES ASSUME p \in DOMAIN own
                 PROVE  counted[p] + Adds(tick.own, p)' <= (Mark(p, wg[p]))'
      BY <1>1, <1>3, <1>5 DEF OwnBooked
    <3>1. Adds(tick.own, p)' = ComputeCounterDelta(last[p], wg[p])
      BY <1>3, <1>5, <2>1 DEF Adds
    <3> QED
      BY <2>3, <2>4, <3>1
  <2> QED
    BY <1>1, <1>3, <1>5, <2>2, <2>3, <2>5 DEF Booked, LinkBooked
<1> QED
  BY <1>4, <1>6, <1>7

LEMMA ShowLinkInv ==
  ASSUME TrafficInv, NEW p \in Peer, ShowLink(p)
  PROVE  TrafficInv'
<1> USE DEF TrafficInv
<1>1. UNCHANGED <<live, fresh, linked, wg, carried, counted, last, lifetime>>
  BY DEF ShowLink, device, peers, stats, history
<1> DEFINE link == IF p \in linked THEN [q \in DOMAIN tick.link \cup {p} |-> IF q = p THEN wg[p] ELSE tick.link[q]]
                   ELSE tick.link
<1>2. /\ DOMAIN tick = DOMAIN IdleTick /\ tick.pc = "links" /\ p \in tick.ask
      /\ tick' = [tick EXCEPT !.ask = @ \ {p}, !.link = link]
  BY DEF ShowLink, TickOK, IdleTick
<1> HIDE DEF link
<1>3. /\ tick' = [field \in DOMAIN IdleTick |-> tick'[field]]
      /\ tick'.pc = "links" /\ tick'.own = tick.own /\ tick'.link = link /\ tick'.prior = tick.prior
      /\ tick'.ask = tick.ask \ {p}
  BY <1>2 DEF TickOK, IdleTick
<1>4. CountersOK'
  BY <1>1 DEF CountersOK
<1>5. /\ p \in linked => DOMAIN link = DOMAIN tick.link \cup {p} /\ link[p] = wg[p]
      /\ p \notin linked => link = tick.link
      /\ \A q \in DOMAIN link : q # p => q \in DOMAIN tick.link /\ link[q] = tick.link[q]
      /\ DOMAIN tick.link \subseteq DOMAIN link
  BY DEF link
<1>6. TickOK'
  BY <1>3, <1>5 DEF TickOK, SampleOK, CountersOK
<1>7. \A q \in Peer : /\ Prior(q)' = Prior(q) /\ Prior(q) = last[q]
                      /\ Adds(tick.own, q)' = Adds(tick.own, q) /\ OwnBooked(q)' = OwnBooked(q)
  BY <1>1, <1>2, <1>3 DEF Prior, Adds, OwnBooked, Mark, Base
<1>8. \A q \in Peer : (Mark(q, last[q]))' = Mark(q, last[q])
  BY <1>1 DEF Mark, Base
<1>9. ASSUME NEW q \in Peer, q # p \/ p \notin linked PROVE Booked(q)'
  <2>1. q \in DOMAIN link <=> q \in DOMAIN tick.link
    BY <1>5, <1>9
  <2>2. q \in DOMAIN link => link[q] = tick.link[q]
    BY <1>5, <1>9
  <2>3. LinkBooked(q)' = LinkBooked(q)
    BY <1>1, <1>3, <1>7, <2>1, <2>2 DEF LinkBooked, Adds, Mark, Base
  <2> QED
    BY <1>1, <1>2, <1>3, <1>7, <1>8, <2>1, <2>3 DEF Booked
<1>10. ASSUME p \in linked PROVE Booked(p)'
  <2>1. last[p] \in Nat \cup {Null} /\ wg[p] \in Nat /\ carried[p] \in Nat /\ counted[p] \in Nat
    BY DEF CountersOK
  <2>2. Booked(p)
    OBVIOUS
  <2>3. p \in DOMAIN link /\ link[p] = wg[p]
    BY <1>5, <1>10
  <2>4. Adds(tick.link, p)' = ComputeCounterDelta(last[p], wg[p])
    BY <1>3, <1>7, <2>3 DEF Adds
  <2>5. (Mark(p, wg[p]))' = carried[p]
    BY <1>1, <2>1, ConstantsOK DEF Mark, Base
  <2>6. counted[p] + Adds(tick.own, p) + ComputeCounterDelta(last[p], wg[p]) <= carried[p]
    <3>0. /\ ComputeCounterDelta(last[p], wg[p]) \in Nat /\ ComputeCounterDelta(last[p], wg[p]) <= wg[p]
          /\ last[p] # Null /\ last[p] <= wg[p] => ComputeCounterDelta(last[p], wg[p]) = wg[p] - last[p]
          /\ ~(last[p] # Null /\ last[p] <= wg[p]) => ComputeCounterDelta(last[p], wg[p]) = 0
      BY <2>1, DeltaOK
    <3>1. CASE p \in DOMAIN tick.own
      <4>1. counted[p] + Adds(tick.own, p) <= carried[p] - wg[p]
        BY <1>2, <1>10, <2>2, <3>1 DEF Booked, OwnBooked, Base
      <4>2. Adds(tick.own, p) \in Nat
        BY AddsOK DEF TickOK
      <4> QED
        BY <2>1, <3>0, <4>1, <4>2
    <3>2. CASE p \notin DOMAIN tick.own
      <4>1. Adds(tick.own, p) = 0
        BY <3>2 DEF Adds
      <4>2. counted[p] <= Mark(p, last[p]) /\ wg[p] <= carried[p]
        BY <2>2 DEF Booked
      <4>3. counted[p] <= IF last[p] # Null /\ last[p] <= wg[p] THEN carried[p] - wg[p] + last[p] ELSE carried[p] - wg[p]
        BY <2>1, <4>2, MarkOK
      <4> QED
        BY <2>1, <3>0, <4>1, <4>2, <4>3
    <3> QED
      BY <3>1, <3>2
  <2>7. LinkBooked(p)'
    BY <1>1, <1>3, <1>7, <2>3, <2>4, <2>5, <2>6 DEF LinkBooked
  <2> QED
    BY <1>1, <1>2, <1>3, <1>7, <1>8, <2>2, <2>7 DEF Booked
<1> QED
  BY <1>4, <1>6, <1>9, <1>10

\* Whatever the rows say by the time they are read, nothing more is added than before.
LEMMA RecordReadInv ==
  ASSUME TrafficInv, RecordRead
  PROVE  TrafficInv'
<1> USE DEF TrafficInv
<1>1. UNCHANGED <<live, fresh, linked, wg, carried, counted, last, lifetime>>
  BY DEF RecordRead, device, peers, stats, history
<1>2. CountersOK'
  BY <1>1 DEF CountersOK
<1>3. CASE Sampled = {}
  <2>1. tick' = NextServer
    BY <1>3 DEF RecordRead
  <2>2. /\ DOMAIN tick' = DOMAIN IdleTick /\ tick' = [field \in DOMAIN IdleTick |-> tick'[field]]
        /\ tick'.pc = "server" /\ tick'.own = None /\ tick'.link = None /\ tick'.prior = None
    BY <2>1 DEF NextServer, IdleTick
  <2>3. TickOK'
    BY <2>2 DEF TickOK, SampleOK, None
  <2> QED
    BY <1>1, <1>2, <2>2, <2>3, NoSamples
<1>4. CASE Sampled # {}
  <2> DEFINE prior == [p \in live \cap PeersOf(tick.of) |-> last[p]]
  <2>1. /\ DOMAIN tick = DOMAIN IdleTick /\ tick.pc = "links"
        /\ tick' = [tick EXCEPT !.pc = "record", !.at = now, !.prior = prior]
    BY <1>4 DEF RecordRead, TickOK, IdleTick
  <2> HIDE DEF prior
  <2>2. /\ tick' = [field \in DOMAIN IdleTick |-> tick'[field]]
        /\ tick'.pc = "record" /\ tick'.own = tick.own /\ tick'.link = tick.link /\ tick'.prior = prior
    BY <2>1 DEF TickOK, IdleTick
  <2>3. DOMAIN prior \subseteq live /\ \A p \in DOMAIN prior : prior[p] = last[p]
    BY DEF prior
  <2>4. TickOK'
    BY <2>2, <2>3 DEF TickOK, SampleOK, CountersOK
  <2>5. ASSUME NEW p \in Peer PROVE Booked(p)'
    <3>1. Prior(p) = last[p] /\ Prior(p)' \in {Null, Prior(p)} /\ Prior(p) \in Nat \cup {Null}
      BY <2>1, <2>2, <2>3, PriorOK DEF Prior
    <3>2. Adds(tick.own, p) \in Nat /\ Adds(tick.link, p) \in Nat
      BY AddsOK DEF TickOK
    <3>3. Adds(tick.own, p)' \in {0, Adds(tick.own, p)} /\ Adds(tick.link, p)' \in {0, Adds(tick.link, p)}
      BY <2>2, <3>1 DEF Adds, ComputeCounterDelta
    <3>4. \A x : (Mark(p, x))' = Mark(p, x) /\ Base(p)' = Base(p)
      BY <1>1 DEF Mark, Base
    <3>5. counted[p] \in Nat /\ wg[p] <= carried[p]
      BY DEF CountersOK, Booked
    <3>6. OwnBooked(p) => OwnBooked(p)'
      <4> SUFFICES ASSUME OwnBooked(p), p \in DOMAIN tick.own
                   PROVE  OwnBooked(p)'
        BY <2>2 DEF OwnBooked
      <4>1. tick.own[p] \in Nat
        BY DEF TickOK, SampleOK
      <4>2. Base(p) \in Nat /\ Mark(p, tick.own[p]) \in Nat
        BY <3>5, <4>1, MarkOK
      <4> QED
        BY <1>1, <2>2, <3>2, <3>3, <3>4, <3>5, <4>2 DEF OwnBooked
    <3>7. LinkBooked(p) => LinkBooked(p)'
      <4> SUFFICES ASSUME LinkBooked(p), p \in DOMAIN tick.link
                   PROVE  LinkBooked(p)'
        BY <2>2 DEF LinkBooked
      <4>1. tick.link[p] \in Nat
        BY DEF TickOK, SampleOK
      <4>2. Mark(p, tick.link[p]) \in Nat
        BY <3>5, <4>1, MarkOK
      <4> QED
        BY <1>1, <2>2, <3>2, <3>3, <3>4, <3>5, <4>2 DEF LinkBooked
    <3>8. (Mark(p, last[p]))' = Mark(p, last[p])
      BY <1>1 DEF Mark, Base
    <3> QED
      BY <1>1, <2>1, <2>2, <3>6, <3>7, <3>8 DEF Booked
  <2> QED
    BY <1>2, <2>4, <2>5
<1> QED
  BY <1>3, <1>4

LEMMA RecordWriteInv ==
  ASSUME TrafficInv, RecordWrite
  PROVE  TrafficInv'
<1> USE DEF TrafficInv
<1> DEFINE written == Sampled \cap DOMAIN tick.prior \cap live
<1>1. UNCHANGED <<live, fresh, linked, wg, carried>> /\ tick.pc = "record"
  BY DEF RecordWrite, device, peers
<1>2. /\ last' = [p \in Peer |-> IF p \in written THEN NewLast(p) ELSE last[p]]
      /\ lifetime' = [p \in Peer |-> IF p \in written THEN lifetime[p] + Gained(p) ELSE lifetime[p]]
      /\ counted' = [p \in Peer |-> counted[p] + Gained(p)]
  BY DEF RecordWrite
<1>3. tick' = NextServer
  BY DEF RecordWrite
<1>4. /\ tick' = [field \in DOMAIN IdleTick |-> tick'[field]]
      /\ tick'.pc = "server" /\ tick'.own = None /\ tick'.link = None /\ tick'.prior = None
  BY <1>3 DEF NextServer, IdleTick
<1>5. TickOK'
  BY <1>4 DEF TickOK, SampleOK, None
<1>6. ASSUME NEW p \in Peer
      PROVE  /\ Gained(p) = Adds(tick.own, p) + Adds(tick.link, p)
             /\ Gained(p) \in Nat
             /\ p \notin Sampled => Gained(p) = 0
             /\ p \in written => NewLast(p) \in Nat
  <2>1. \A sample : SampleOK(sample) => DeltaIn(sample, p) = Adds(sample, p)
    BY <1>1 DEF DeltaIn, Adds, Prior, ComputeCounterDelta
  <2>2. Adds(tick.own, p) \in Nat /\ Adds(tick.link, p) \in Nat
    BY AddsOK DEF TickOK
  <2>3. Gained(p) = Adds(tick.own, p) + Adds(tick.link, p)
    BY <2>1 DEF Gained, TickOK
  <2>4. p \notin Sampled => Adds(tick.own, p) = 0 /\ Adds(tick.link, p) = 0
    BY DEF Sampled, Adds
  <2>5. p \in written => NewLast(p) \in Nat
    BY DEF NewLast, Sampled, TickOK, SampleOK
  <2> QED
    BY <2>2, <2>3, <2>4, <2>5
<1>7. \A p \in Peer : counted[p] \in Nat /\ lifetime[p] \in Nat /\ wg[p] \in Nat /\ carried[p] \in Nat
  BY DEF CountersOK
<1>8. CountersOK'
  BY <1>1, <1>2, <1>6 DEF CountersOK
<1> HIDE DEF written
<1>9. ASSUME NEW p \in Peer PROVE Booked(p)'
  <2>1. wg[p] <= carried[p] /\ counted[p] <= Mark(p, last[p]) /\ lifetime[p] <= counted[p] /\ OwnBooked(p) /\ LinkBooked(p)
    BY <1>1 DEF Booked
  <2>2. lifetime'[p] <= counted'[p]
    BY <1>2, <1>6, <1>7, <2>1
  <2>3. counted'[p] = counted[p] + Adds(tick.own, p) + Adds(tick.link, p)
    BY <1>2, <1>6, <1>7, AddsOK DEF TickOK
  <2>4. \A x : (Mark(p, x))' = Mark(p, x)
    BY <1>1 DEF Mark, Base
  <2>5. (Mark(p, last[p]))' = Mark(p, last'[p])
    BY <1>1 DEF Mark, Base
  <2>6. Adds(tick.own, p) \in Nat /\ (p \notin DOMAIN tick.link => Adds(tick.link, p) = 0)
    BY AddsOK DEF TickOK, Adds
  <2>7. CASE p \notin Sampled
    <3>1. counted'[p] = counted[p] /\ last'[p] = last[p]
      BY <1>2, <1>6, <1>7, <2>7 DEF written
    <3> QED
      BY <1>1, <1>4, <2>1, <2>2, <2>5, <3>1 DEF Booked
  <2>8. CASE p \in written
    <3>1. last'[p] = IF p \in DOMAIN tick.link THEN tick.link[p] ELSE tick.own[p]
      BY <1>2, <2>8 DEF NewLast
    <3>2. CASE p \in DOMAIN tick.link
      BY <1>1, <1>4, <2>1, <2>2, <2>3, <2>5, <3>1, <3>2 DEF Booked, LinkBooked
    <3>3. CASE p \notin DOMAIN tick.link
      <4>1. p \in DOMAIN tick.own /\ tick.own[p] \in Nat
        BY <2>8, <3>3 DEF written, Sampled, TickOK, SampleOK
      <4>2. counted'[p] = counted[p] + Adds(tick.own, p)
        BY <1>7, <2>3, <2>6, <3>3
      <4>3. Base(p) \in Nat /\ Base(p) <= Mark(p, tick.own[p]) /\ Mark(p, tick.own[p]) \in Nat
        BY <2>1, <4>1, MarkOK
      <4>4. counted'[p] <= Mark(p, tick.own[p])
        BY <1>7, <2>1, <2>6, <4>1, <4>2, <4>3 DEF OwnBooked
      <4> QED
        BY <1>1, <1>4, <2>1, <2>2, <2>5, <3>1, <3>3, <4>4 DEF Booked
    <3> QED
      BY <3>2, <3>3
  <2>9. CASE p \in Sampled /\ p \notin DOMAIN tick.prior
    <3>1. Prior(p) = Null
      BY <1>1, <2>9 DEF Prior
    <3>2. Adds(tick.own, p) = 0 /\ Adds(tick.link, p) = 0
      BY <3>1 DEF Adds, ComputeCounterDelta
    <3>3. counted'[p] = counted[p] /\ last'[p] = last[p]
      BY <1>2, <1>7, <2>3, <2>9, <3>2 DEF written
    <3> QED
      BY <1>1, <1>4, <2>1, <2>2, <2>5, <3>3 DEF Booked
  <2>10. CASE p \in Sampled /\ p \in DOMAIN tick.prior /\ p \notin live
    <3>1. wg[p] = 0 /\ last'[p] = Null
      BY <1>2, <2>10 DEF CountersOK, written
    <3>2. \A x \in Nat \cup {Null} : Mark(p, x) = carried[p]
      BY <1>7, <3>1, ConstantsOK DEF Mark, Base
    <3>3. p \in DOMAIN tick.own => tick.own[p] \in Nat
      BY DEF TickOK, SampleOK
    <3>4. p \in DOMAIN tick.link => tick.link[p] \in Nat
      BY DEF TickOK, SampleOK
    <3>5. Base(p) = carried[p]
      BY <1>7, <3>1 DEF Base
    <3>6. counted'[p] <= carried[p]
      BY <1>7, <2>1, <2>3, <2>6, <2>10, <3>2, <3>3, <3>4, <3>5 DEF Sampled, OwnBooked, LinkBooked
    <3> QED
      BY <1>1, <1>4, <2>1, <2>2, <2>5, <3>1, <3>2, <3>6 DEF Booked
  <2> QED
    BY <2>7, <2>8, <2>9, <2>10 DEF written
<1> QED
  BY <1>5, <1>8, <1>9

\* The row is gone and the counter with it; the samples that were taken are still written.
LEMMA DeletePeerInv ==
  ASSUME TrafficInv, NEW p \in Peer, DeletePeer(p)
  PROVE  TrafficInv'
<1> USE DEF TrafficInv
<1>1. /\ live' = live \ {p} /\ linked' = linked \ {p} /\ wg' = [wg EXCEPT ![p] = 0]
      /\ last' = [last EXCEPT ![p] = Null] /\ lifetime' = [lifetime EXCEPT ![p] = 0]
      /\ UNCHANGED <<carried, fresh, tick, counted>>
  BY DEF DeletePeer, history
<1>2. CountersOK'
  BY <1>1 DEF CountersOK
<1>3. TickOK'
  BY <1>1 DEF TickOK, SampleOK
<1>4. ASSUME NEW q \in Peer PROVE Booked(q)'
  <2>1. /\ counted[q] \in Nat /\ lifetime[q] \in Nat /\ wg[q] \in Nat /\ carried[q] \in Nat /\ last[q] \in Nat \cup {Null}
        /\ wg[q] <= carried[q]
    BY DEF CountersOK, Booked
  <2>2. CASE q # p
    <3>1. wg'[q] = wg[q] /\ last'[q] = last[q] /\ lifetime'[q] = lifetime[q] /\ (q \in linked' <=> q \in linked)
      BY <1>1, <2>2 DEF CountersOK
    <3>2. Prior(q)' = Prior(q)
      BY <1>1, <3>1 DEF Prior
    <3> QED
      BY <1>1, <3>1, <3>2 DEF Booked, OwnBooked, LinkBooked, Adds, Mark, Base
  <2>3. CASE q = p
    <3>1. wg'[q] = 0 /\ last'[q] = Null /\ lifetime'[q] = 0 /\ q \notin linked'
      BY <1>1, <2>3 DEF CountersOK
    <3>2. \A x \in Nat \cup {Null} : (Mark(q, x))' = carried[q] /\ Mark(q, x) \in Nat /\ Mark(q, x) <= carried[q]
                                    /\ Base(q) \in Nat /\ Base(q) <= carried[q]
      BY <1>1, <2>1, <3>1, ConstantsOK DEF Mark, Base
    <3>3. (Mark(q, last[q]))' = carried[q]
      BY <1>1, <2>1, <3>1 DEF Mark, Base
    <3>4. Prior(q)' \in {Null, Prior(q)}
      BY <1>1, <3>1 DEF Prior
    <3>5. Adds(tick.own, q) \in Nat /\ Adds(tick.link, q) \in Nat
      BY AddsOK DEF TickOK
    <3>6. Adds(tick.own, q)' \in {0, Adds(tick.own, q)} /\ Adds(tick.link, q)' \in {0, Adds(tick.link, q)}
      BY <1>1, <3>4 DEF Adds, ComputeCounterDelta
    <3>7. OwnBooked(q) => OwnBooked(q)'
      <4> SUFFICES ASSUME OwnBooked(q), q \in DOMAIN tick.own
                   PROVE  counted[q] + Adds(tick.own, q)' <= (Mark(q, tick.own[q]))'
        BY <1>1, <3>1 DEF OwnBooked
      <4>1. tick.own[q] \in Nat
        BY DEF TickOK, SampleOK
      <4>2. (Mark(q, tick.own[q]))' = carried[q]
        BY <1>1, <2>1, <3>1, <4>1, ConstantsOK DEF Mark, Base
      <4>3. counted[q] + Adds(tick.own, q) <= carried[q]
        BY <2>1, <3>2, <3>5, <4>1 DEF OwnBooked
      <4> QED
        BY <2>1, <3>5, <3>6, <4>2, <4>3
    <3>8. LinkBooked(q) => LinkBooked(q)'
      <4> SUFFICES ASSUME LinkBooked(q), q \in DOMAIN tick.link
                   PROVE  counted[q] + Adds(tick.own, q)' + Adds(tick.link, q)' <= (Mark(q, tick.link[q]))'
        BY <1>1, <3>1 DEF LinkBooked
      <4>1. tick.link[q] \in Nat
        BY DEF TickOK, SampleOK
      <4>2. (Mark(q, tick.link[q]))' = carried[q]
        BY <1>1, <2>1, <3>1, <4>1, ConstantsOK DEF Mark, Base
      <4>3. counted[q] + Adds(tick.own, q) + Adds(tick.link, q) <= carried[q]
        BY <2>1, <3>2, <3>5, <4>1 DEF LinkBooked
      <4> QED
        BY <2>1, <3>5, <3>6, <4>2, <4>3
    <3>9. counted[q] <= carried[q]
      <4>1. counted[q] <= Mark(q, last[q])
        BY DEF Booked
      <4>2. Mark(q, last[q]) \in Nat /\ Mark(q, last[q]) <= carried[q]
        BY <2>1, MarkOK
      <4> QED
        BY <2>1, <4>1, <4>2
    <3> QED
      BY <1>1, <2>1, <3>1, <3>3, <3>7, <3>8, <3>9 DEF Booked
  <2> QED
    BY <2>2, <2>3
<1> QED
  BY <1>2, <1>3, <1>4

(***************************************************************************)
(* Every step.                                                             *)
(***************************************************************************)
\* What happens outside the tick, but a deletion.
LEMMA OutsideInv ==
  ASSUME TrafficInv,
         \/ Advance
         \/ \E p \in Peer : Carry(p) \/ Restart(p) \/ Move(p) \/ AddPeer(p) \/ ResetPeer(p)
         \/ \E s \in Server : InterfaceLost(s) \/ ResetServer(s)
  PROVE  TrafficInv'
<1> USE DEF TrafficInv
<1>1. UNCHANGED <<tick, counted, last>>
  BY DEF Advance, Carry, Restart, Move, AddPeer, ResetPeer, InterfaceLost, ResetServer, stats, history
<1>2. TickOK'
  BY <1>1 DEF TickOK, SampleOK
<1>3. CASE Advance \/ \E s \in Server : ResetServer(s)
  <2>1. UNCHANGED <<live, fresh, linked, wg, carried, lifetime>>
    BY <1>3 DEF Advance, ResetServer, device, peers, stats
  <2>2. CountersOK'
    BY <1>1, <2>1 DEF CountersOK
  <2>3. \A q \in Peer : lifetime'[q] <= lifetime[q] /\ wg[q] <= wg'[q]
    BY <2>1 DEF CountersOK
  <2> QED
    BY <1>1, <1>2, <2>1, <2>2, <2>3, CounterMoves
<1>4. ASSUME NEW p \in Peer, Carry(p) PROVE TrafficInv'
  <2>1. /\ UNCHANGED <<live, fresh, linked, lifetime>> /\ p \in live
        /\ wg' = [wg EXCEPT ![p] = wg[p] + 1] /\ carried' = [carried EXCEPT ![p] = carried[p] + 1]
    BY <1>4 DEF Carry, peers, stats
  <2>2. CountersOK'
    BY <1>1, <2>1 DEF CountersOK
  <2>3. \A q \in Peer : wg[q] \in Nat /\ carried[q] \in Nat /\ lifetime[q] \in Nat
    BY DEF CountersOK
  <2>4. \A q \in Peer : lifetime'[q] <= lifetime[q] /\ wg[q] <= wg'[q] /\ carried'[q] - wg'[q] = carried[q] - wg[q]
    BY <2>1, <2>3 DEF CountersOK
  <2> QED
    BY <1>1, <1>2, <2>1, <2>2, <2>4, CounterMoves
<1>5. ASSUME NEW p \in Peer, Restart(p) \/ Move(p) PROVE TrafficInv'
  <2>1. /\ UNCHANGED <<live, fresh, lifetime, carried>> /\ wg' = [wg EXCEPT ![p] = 0]
        /\ linked' \in {linked, linked \ {p}, linked \cup {p}} /\ linked' \subseteq live
    BY <1>5 DEF Restart, Move, peers, stats, CountersOK
  <2>2. CountersOK'
    BY <1>1, <2>1 DEF CountersOK
  <2>3. \A q \in Peer : lifetime'[q] <= lifetime[q]
    BY <2>1 DEF CountersOK
  <2>4. \A q \in Peer \ {p} : wg[q] <= wg'[q] /\ carried'[q] - wg'[q] = carried[q] - wg[q] /\ (q \in linked' <=> q \in linked)
    BY <2>1 DEF CountersOK
  <2>5. wg'[p] = 0 /\ carried'[p] = carried[p]
    BY <2>1 DEF CountersOK
  <2> QED
    BY <1>1, <1>2, <2>2, <2>3, <2>4, <2>5, CounterMoves
<1>6. ASSUME NEW s \in Server, InterfaceLost(s) PROVE TrafficInv'
  <2>1. /\ UNCHANGED <<live, fresh, linked, lifetime, carried>>
        /\ wg' = [p \in Peer |-> IF Home[p] = s /\ p \notin linked THEN 0 ELSE wg[p]]
    BY <1>6 DEF InterfaceLost, peers, stats
  <2>2. CountersOK'
    BY <1>1, <2>1 DEF CountersOK
  <2>3. \A q \in Peer : lifetime'[q] <= lifetime[q] /\ (wg'[q] = 0 \/ (wg[q] <= wg'[q] /\ wg'[q] = wg[q]))
    BY <2>1 DEF CountersOK
  <2> QED
    BY <1>1, <1>2, <2>1, <2>2, <2>3, CounterMoves
<1>7. ASSUME NEW p \in Peer, AddPeer(p) \/ ResetPeer(p) PROVE TrafficInv'
  <2>1. /\ UNCHANGED <<linked, wg, carried>>
        /\ live \subseteq live' /\ live' \subseteq Peer /\ fresh' \subseteq Peer \ live'
        /\ lifetime' \in {lifetime, [lifetime EXCEPT ![p] = 0]}
    BY <1>7 DEF AddPeer, ResetPeer, device, peers, stats, CountersOK
  <2>2. CountersOK'
    BY <1>1, <2>1 DEF CountersOK
  <2>3. \A q \in Peer : lifetime'[q] <= lifetime[q] /\ wg[q] <= wg'[q]
    BY <2>1 DEF CountersOK
  <2> QED
    BY <1>1, <1>2, <2>1, <2>2, <2>3, CounterMoves
<1> QED
  BY <1>3, <1>4, <1>5, <1>6, <1>7

\* The steps of the tick that hold no samples.
LEMMA EmptyTickInv ==
  ASSUME TrafficInv,
         \/ TickBegin \/ TickEnd \/ RollupWrite \/ Prune
         \/ \E s \in Server : ShowDown(s)
         \/ \E r \in {"1m", "1h"} : RollupRead(r)
  PROVE  TrafficInv'
<1> USE DEF TrafficInv
<1>1. UNCHANGED <<live, fresh, linked, wg, carried, counted, last, lifetime>>
  BY DEF TickBegin, TickEnd, RollupWrite, Prune, ShowDown, RollupRead, device, peers, stats, history
<1>2. CountersOK'
  BY <1>1 DEF CountersOK
<1>3. tick = [field \in DOMAIN IdleTick |-> tick[field]]
  BY DEF TickOK
<1>4. /\ tick' = [field \in DOMAIN IdleTick |-> tick'[field]]
      /\ tick'.pc \notin {"links", "record"}
      /\ \/ tick'.own = None /\ tick'.link = None /\ tick'.prior = None
         \/ tick'.own = tick.own /\ tick'.link = tick.link /\ tick'.prior = tick.prior
  <2>0. CASE TickBegin
    BY <2>0 DEF TickBegin, IdleTick
  <2>1. CASE TickEnd
    <3>1. CASE tick' = IdleTick
      BY <3>1 DEF IdleTick
    <3>2. CASE tick' = [IdleTick EXCEPT !.pc = "1m", !.at = now]
      BY <3>2 DEF IdleTick
    <3> QED
      BY <2>1, <3>1, <3>2 DEF TickEnd
  <2>2. CASE Prune
    BY <2>2 DEF Prune, IdleTick
  <2>3. CASE RollupWrite
    BY <1>3, <2>3 DEF RollupWrite, Coarser, IdleTick
  <2>4. CASE \E s \in Server : ShowDown(s)
    <3>1. tick' = DeadTick \/ \E s \in Server : tick.pc = "server" /\ tick' = [tick EXCEPT !.left = @ \ {s}]
      BY <2>4 DEF ShowDown
    <3>2. CASE tick' = DeadTick
      BY <3>2 DEF DeadTick, IdleTick
    <3>3. ASSUME NEW s \in Server, tick.pc = "server", tick' = [tick EXCEPT !.left = @ \ {s}]
          PROVE  /\ tick' = [field \in DOMAIN IdleTick |-> tick'[field]]
                 /\ tick'.pc \notin {"links", "record"}
                 /\ tick'.own = tick.own /\ tick'.link = tick.link /\ tick'.prior = tick.prior
      BY <1>3, <3>3 DEF IdleTick
    <3> QED
      BY <3>1, <3>2, <3>3
  <2>5. CASE \E r \in {"1m", "1h"} : RollupRead(r)
    BY <1>3, <2>5 DEF RollupRead, IdleTick
  <2> QED
    BY <2>0, <2>1, <2>2, <2>3, <2>4, <2>5
<1>5. TickOK'
  BY <1>4 DEF TickOK, SampleOK, None
<1> QED
  BY <1>1, <1>2, <1>4, <1>5, NoSamples

LEMMA CrashInv ==
  ASSUME TrafficInv, Crash
  PROVE  TrafficInv'
<1> USE DEF TrafficInv
<1>1. /\ UNCHANGED <<live, fresh, linked, carried, counted, last, lifetime>>
      /\ wg' = [p \in Peer |-> 0] /\ tick' \in {IdleTick, DeadTick}
  BY DEF Crash, peers, stats, history
<1>2. CountersOK'
  BY <1>1 DEF CountersOK
<1>3. tick'.pc \in {"idle", "dead"} /\ TickOK'
  BY <1>1 DEF TickOK, SampleOK, None, IdleTick, DeadTick
<1>4. ASSUME NEW p \in Peer PROVE Booked(p)'
  <2>1. /\ counted[p] \in Nat /\ wg[p] <= carried[p] /\ counted[p] <= Mark(p, last[p]) /\ lifetime[p] <= counted[p]
        /\ last[p] \in Nat \cup {Null} /\ carried[p] \in Nat
    BY DEF CountersOK, Booked
  <2>2. Mark(p, last[p]) \in Nat /\ Mark(p, last[p]) <= carried[p]
    BY <2>1, MarkOK
  <2>3. (Mark(p, last[p]))' = carried[p]
    BY <1>1, <2>1, ConstantsOK DEF Mark, Base
  <2> QED
    BY <1>1, <1>3, <2>1, <2>2, <2>3 DEF Booked
<1> QED
  BY <1>2, <1>3, <1>4

LEMMA TrafficNext == TrafficInv /\ [Next]_vars => TrafficInv'
<1> SUFFICES ASSUME TrafficInv, [Next]_vars PROVE TrafficInv'
  OBVIOUS
<1>1. CASE UNCHANGED vars
  <2>1. UNCHANGED <<live, fresh, linked, wg, carried, counted, last, lifetime, tick>>
    BY <1>1 DEF vars, device, peers, stats, history
  <2>2. CountersOK'
    BY <2>1 DEF TrafficInv, CountersOK
  <2>3. TickOK'
    BY <2>1 DEF TrafficInv, TickOK, SampleOK
  <2>4. ASSUME NEW p \in Peer PROVE Booked(p)'
    <3>1. Booked(p)
      BY DEF TrafficInv
    <3>2. /\ Base(p)' = Base(p) /\ Prior(p)' = Prior(p)
          /\ (Mark(p, last[p]))' = Mark(p, last[p])
          /\ (Mark(p, tick.own[p]))' = Mark(p, tick.own[p])
          /\ (Mark(p, tick.link[p]))' = Mark(p, tick.link[p])
      BY <2>1 DEF Mark, Base, Prior
    <3>3. (Adds(tick.own, p))' = Adds(tick.own, p) /\ (Adds(tick.link, p))' = Adds(tick.link, p)
      BY <2>1, <3>2 DEF Adds
    <3>4. (OwnBooked(p) <=> OwnBooked(p)') /\ (LinkBooked(p) <=> LinkBooked(p)')
      BY <2>1, <3>2, <3>3 DEF OwnBooked, LinkBooked
    <3> QED
      BY <2>1, <3>1, <3>2, <3>4 DEF Booked
  <2> QED
    BY <2>2, <2>3, <2>4 DEF TrafficInv
<1>2. CASE Tick
  BY <1>2, ShowServerInv, ShowLinkInv, RecordReadInv, RecordWriteInv, EmptyTickInv DEF Tick
<1>3. CASE Next
  BY <1>2, <1>3, CrashInv, DeletePeerInv, OutsideInv DEF Next
<1> QED
  BY <1>1, <1>3

LEMMA TrafficInit == Init => TrafficInv
<1> SUFFICES ASSUME Init PROVE TrafficInv
  OBVIOUS
<1>1. CountersOK
  BY DEF Init, CountersOK
<1>2. tick.pc = "idle" /\ TickOK
  BY DEF Init, TickOK, SampleOK, None, IdleTick
<1> QED
  BY <1>1, <1>2, ConstantsOK DEF Init, TrafficInv, Booked, Mark, Base

THEOREM TrafficSafe == Spec => []TrafficInv
<1> QED
  BY TrafficInit, TrafficNext, PTL DEF Spec

\* No byte is counted twice and none that a peer did not carry, whatever restarts, moves between
\* interfaces, resets, deletions and crashes fall into a tick (recordServerTraffic).
THEOREM BytesNeverOvercounted == Spec => []NeverOvercounts
<1>1. TrafficInv => NeverOvercounts
  <2> SUFFICES ASSUME TrafficInv, NEW p \in Peer PROVE lifetime[p] <= counted[p] /\ counted[p] <= carried[p]
    BY DEF NeverOvercounts
  <2>1. /\ CountersOK /\ wg[p] <= carried[p] /\ counted[p] <= Mark(p, last[p]) /\ lifetime[p] <= counted[p]
        /\ last[p] \in Nat \cup {Null} /\ counted[p] \in Nat /\ carried[p] \in Nat
    BY DEF TrafficInv, Booked, CountersOK
  <2>2. Mark(p, last[p]) \in Nat /\ Mark(p, last[p]) <= carried[p]
    BY <2>1, MarkOK
  <2> QED
    BY <2>1, <2>2
<1> QED
  BY <1>1, TrafficSafe, PTL

(***************************************************************************)
(* The graph.  A rollup reads the rows of one resolution, adds each to a   *)
(* bucket of the same day, and deletes it: the bytes of a day stay what    *)
(* they are, until the day is pruned as a whole.  That needs the tick to   *)
(* be alone with the buckets while it runs, and the finer rows of a day to *)
(* be gone when the day is pruned.                                         *)
(***************************************************************************)
GraphTyped ==
  /\ now \in Time /\ up \subseteq Server /\ total \in [Server -> Nat]
  /\ bucket \in [Peer \X Resolution \X Time -> Nat] /\ log \in [Peer \X Time -> Nat]

TickPlace ==
  /\ tick.pc \in {"idle", "server", "links", "record", "1m", "1h", "1d", "write", "dead"}
  /\ tick.left \subseteq Server
  /\ tick.pc \in {"links", "record"} => tick.of \in Server
  /\ tick.pc = "record" => /\ tick.at \in Time /\ tick.at <= now
                           /\ DOMAIN tick.prior \subseteq PeersOf(tick.of) \ fresh
  /\ tick.pc \in {"1m", "1h", "1d", "write"} => tick.at = now
  /\ tick.pc = "write" => tick.of \in {"1m", "1h"} /\ tick.rows = [b \in Old(tick.of) |-> bucket[b]]

Emptied(r) == \A b \in Old(r) : bucket[b] = 0

RollupOrder ==
  /\ tick.pc = "1h" \/ (tick.pc = "write" /\ tick.of = "1h") => Emptied("1m")
  /\ tick.pc = "1d" => Emptied("1m") /\ Emptied("1h")

\* A day's bucket starts with the day.
Aligned == \A b \in DOMAIN bucket : b[2] = "1d" /\ b[3] % Day # 0 => bucket[b] = 0

Graph == GraphTyped /\ TickPlace /\ RollupOrder /\ Aligned
GraphInv == TrafficInv /\ Graph

LEMMA FiniteRows ==
  ASSUME GraphTyped
  PROVE  Nats(bucket, DOMAIN bucket) /\ Nats(log, DOMAIN log)
<1>1. IsFiniteSet(Peer) /\ IsFiniteSet(Time) /\ IsFiniteSet(Resolution)
  <2>1. IsFiniteSet(Time)
    BY ConstantsOK, FS_Interval DEF Time
  <2>2. IsFiniteSet({"1m"} \cup {"1h"} \cup {"1d"})
    BY FS_Singleton, FS_Union
  <2>3. Resolution = {"1m"} \cup {"1h"} \cup {"1d"}
    BY DEF Resolution
  <2> QED
    BY <2>1, <2>2, <2>3, ConstantsOK
<1>2. IsFiniteSet(Peer \X Time) /\ IsFiniteSet((Peer \X Resolution) \X Time)
  BY <1>1, FS_Product
<1>3. IsFiniteSet(Peer \X Resolution \X Time)
  <2> DEFINE triple == [x \in (Peer \X Resolution) \X Time |-> <<x[1][1], x[1][2], x[2]>>]
  <2>1. triple \in Surjection((Peer \X Resolution) \X Time, Peer \X Resolution \X Time)
    <3>1. triple \in [(Peer \X Resolution) \X Time -> Peer \X Resolution \X Time]
      OBVIOUS
    <3>2. ASSUME NEW b \in Peer \X Resolution \X Time
          PROVE  \E x \in (Peer \X Resolution) \X Time : triple[x] = b
      <4> WITNESS <<<<b[1], b[2]>>, b[3]>> \in (Peer \X Resolution) \X Time
      <4> QED
        OBVIOUS
    <3> QED
      BY <3>1, <3>2 DEF Surjection
  <2> HIDE DEF triple
  <2> QED
    BY <1>2, <2>1, FS_Surjection
<1> QED
  BY <1>2, <1>3 DEF GraphTyped, Nats

(***************************************************************************)
(* Minutes, hours and days.                                                *)
(***************************************************************************)
DayOf(t) == BucketStartFor(t, "1d")

LEMMA DayOK ==
  ASSUME NEW t \in Nat
  PROVE  /\ DayOf(t) \in Nat /\ DayOf(t) <= t /\ t < DayOf(t) + Day
         /\ DayOf(t) % Day = 0 /\ DayOf(DayOf(t)) = DayOf(t)
         /\ t % Day = 0 => DayOf(t) = t
<1>1. Day \in Nat \ {0}
  BY ConstantsOK
<1>2. PICK q \in Nat, m \in 0..(Day - 1) : t = Day * q + m /\ m = t % Day
  BY <1>1, Division
<1>3. PICK d \in Nat : d = Day * q
  BY <1>1
<1>4. d % Day = 0 /\ t = d + m
  BY <1>1, <1>2, <1>3, Multiple
<1>5. DayOf(t) = d
  BY <1>2, <1>4 DEF DayOf, BucketStartFor, Size
<1>6. DayOf(d) = d
  BY <1>4 DEF DayOf, BucketStartFor, Size
<1>7. t % Day = 0 => DayOf(t) = t
  BY <1>2, <1>4, <1>5
<1>8. d <= t /\ t < d + Day
  BY <1>1, <1>2, <1>4
<1> QED
  BY <1>4, <1>5, <1>6, <1>7, <1>8

LEMMA StartOK ==
  ASSUME NEW t \in Nat, NEW r \in {"1m", "1h"}
  PROVE  LET start == BucketStartFor(t, Coarser(r)) IN start \in 0..t /\ DayOf(start) = DayOf(t)
<1>1. CASE r = "1h"
  BY <1>1, DayOK DEF Coarser, DayOf
<1>2. CASE r = "1m"
  <2> DEFINE h == t - (t % Hour)
  <2>1. Hour \in Nat \ {0} /\ Day \in Nat \ {0} /\ Day % Hour = 0
    BY ConstantsOK, WindowsOK
  <2>2. PICK k \in Nat : Day = Hour * k
    BY <2>1, Division
  <2>3. PICK q \in Nat, m \in 0..(Day - 1) : t = Day * q + m /\ m = t % Day
    BY <2>1, Division
  <2>4. PICK j \in Nat, i \in 0..(Hour - 1) : t = Hour * j + i /\ i = t % Hour
    BY <2>1, Division
  <2>5. h = Hour * j /\ h \in 0..t
    <3>1. PICK a \in Nat : a = Hour * j
      BY <2>1
    <3>2. t = a + i /\ h = t - i
      BY <2>4, <3>1
    <3>3. h = a /\ a <= t
      BY <2>4, <3>1, <3>2
    <3> QED
      BY <3>1, <3>3
  <2>6. Day * q = Hour * (k * q) /\ k * q \in Nat
    BY <2>1, <2>2
  <2>7. Day * q <= h
    <3>1. Hour * (k * q) < Hour * j + Hour
      <4>1. PICK a \in Nat, b \in Nat : a = Hour * (k * q) /\ b = Hour * j
        BY <2>1, <2>6
      <4>2. t = a + m /\ t = b + i
        BY <2>3, <2>4, <2>6, <4>1
      <4>3. a < b + Hour
        BY <2>1, <4>2
      <4> QED
        BY <4>1, <4>3
    <3>2. Hour * ((k * q) - j) < Hour
      BY <2>1, <2>6, <3>1
    <3>3. (k * q) - j >= 1 => Hour * ((k * q) - j) >= Hour
      BY <2>1, <2>6
    <3>4. k * q <= j
      BY <2>1, <2>6, <3>2, <3>3
    <3>5. Hour * (j - k * q) >= 0
      BY <2>1, <2>6, <3>4
    <3> QED
      BY <2>1, <2>5, <2>6, <3>5
  <2> HIDE DEF h
  <2>8. Day * q \in Nat /\ h < Day * q + Day
    BY <2>1, <2>3, <2>5
  <2>9. h % Day = h - Day * q /\ t % Day = t - Day * q
    <3>1. h \in Nat /\ q \in Nat /\ Day \in Nat \ {0} /\ Day * q <= h /\ h < Day * q + Day
      BY <2>1, <2>5, <2>7, <2>8
    <3>2. h % Day = h - Day * q
      BY <3>1, Quotient
    <3>3. t % Day = t - Day * q
      BY <2>3, <2>8
    <3> QED
      BY <3>2, <3>3
  <2>10. DayOf(h) = Day * q /\ DayOf(t) = Day * q
    BY <2>5, <2>8, <2>9 DEF DayOf, BucketStartFor, Size
  <2>11. BucketStartFor(t, Coarser(r)) = h
    <3>1. Coarser(r) = "1h" /\ Size("1h") = Hour
      BY <1>2 DEF Coarser, Size
    <3> QED
      BY <3>1 DEF BucketStartFor, h
  <2> QED
    BY <2>5, <2>10, <2>11
<1> QED
  BY <1>1, <1>2

LEMMA MinuteOK ==
  ASSUME NEW t \in Nat
  PROVE  BucketStartFor(t, "1m") = t
<1>1. t % 1 = 0
  OBVIOUS
<1> QED
  BY <1>1 DEF BucketStartFor, Size

\* What a record adds for a peer; nothing without a sample and a row that was read.
LEMMA GainedOK ==
  ASSUME TrafficInv, tick.pc = "record", NEW p \in Peer
  PROVE  Gained(p) \in Nat /\ (p \notin Sampled \/ p \notin DOMAIN tick.prior => Gained(p) = 0)
<1> USE DEF TrafficInv
<1>1. \A sample : SampleOK(sample) => DeltaIn(sample, p) = Adds(sample, p)
  BY DEF DeltaIn, Adds, Prior, ComputeCounterDelta
<1>2. Adds(tick.own, p) \in Nat /\ Adds(tick.link, p) \in Nat
  BY AddsOK DEF TickOK
<1> QED
  BY <1>1, <1>2 DEF Gained, TickOK, Sampled, DeltaIn

(***************************************************************************)
(* Every step keeps the place of the tick and the order of the rollup.     *)
(***************************************************************************)
\* Steps that touch neither the buckets nor the tick.
LEMMA BesidesGraph ==
  ASSUME GraphInv, UNCHANGED <<now, tick, bucket, log>>, fresh' \subseteq fresh, up' \subseteq Server,
         total' \in [Server -> Nat]
  PROVE  Graph'
<1> USE DEF GraphInv, Graph
<1>1. GraphTyped'
  BY DEF GraphTyped
<1>2. \A r : (Old(r))' = Old(r)
  BY DEF Old
<1>3. TickPlace'
  BY <1>2 DEF TickPlace
<1>4. \A r : (Emptied(r))' <=> Emptied(r)
  BY <1>2 DEF Emptied
<1>5. RollupOrder'
  BY <1>4 DEF RollupOrder
<1>6. Aligned'
  BY DEF Aligned
<1> QED
  BY <1>1, <1>3, <1>5, <1>6

LEMMA OutsideGraph ==
  ASSUME GraphInv,
         \/ \E p \in Peer : Carry(p) \/ Restart(p) \/ Move(p) \/ AddPeer(p) \/ DeletePeer(p) \/ ResetPeer(p)
         \/ \E s \in Server : InterfaceLost(s) \/ ResetServer(s)
  PROVE  Graph'
<1>1. UNCHANGED <<now, tick, bucket, log>> /\ fresh' \subseteq fresh /\ up' \subseteq up
  BY DEF Carry, Restart, Move, AddPeer, DeletePeer, ResetPeer, InterfaceLost, ResetServer, device, peers, stats, history
<1>2. total' = total \/ \E s \in Server : total' = [total EXCEPT ![s] = 0]
  BY DEF Carry, Restart, Move, AddPeer, DeletePeer, ResetPeer, InterfaceLost, ResetServer, stats
<1>3. up' \subseteq Server /\ total' \in [Server -> Nat]
  BY <1>1, <1>2 DEF GraphInv, Graph, GraphTyped
<1> QED
  BY <1>1, <1>3, BesidesGraph

LEMMA AdvanceGraph ==
  ASSUME GraphInv, Advance
  PROVE  Graph'
<1> USE DEF GraphInv, Graph
<1>1. /\ now' = now + 1 /\ now < MaxTime /\ tick.pc \in {"idle", "record", "dead"}
      /\ UNCHANGED <<up, fresh, total, bucket, log, tick>>
  BY DEF Advance, device, peers, stats, history
<1>2. GraphTyped'
  BY <1>1, ConstantsOK DEF GraphTyped, Time
<1>3. TickPlace'
  BY <1>1, ConstantsOK DEF TickPlace, GraphTyped, Time
<1>4. RollupOrder'
  BY <1>1 DEF RollupOrder
<1>5. Aligned'
  BY <1>1 DEF Aligned
<1> QED
  BY <1>2, <1>3, <1>4, <1>5

\* Steps of the tick before the rollup, and a crash.
LEMMA SampleGraph ==
  ASSUME GraphInv,
         \/ TickBegin \/ Crash \/ \E s \in Server : ShowServer(s) \/ ShowDown(s)
         \/ \E p \in Peer : ShowLink(p)
  PROVE  Graph'
<1> USE DEF GraphInv, Graph
<1>1. UNCHANGED <<now, fresh, total, bucket, log>> /\ up' \subseteq Server
  BY DEF TickBegin, Crash, ShowServer, ShowDown, ShowLink, device, peers, stats, history, GraphTyped
<1>2. GraphTyped'
  BY <1>1 DEF GraphTyped
<1>3. DOMAIN tick = DOMAIN IdleTick
  BY DEF TrafficInv, TickOK
<1> DEFINE Placed == /\ tick'.pc \in {"idle", "server", "links", "dead"} /\ tick'.left \subseteq Server
                     /\ tick'.pc = "links" => tick'.of \in Server
<1>4. Placed
  <2>1. CASE TickBegin
    BY <2>1 DEF TickBegin, IdleTick
  <2>2. CASE Crash
    BY <2>2 DEF Crash, IdleTick, DeadTick
  <2>3. ASSUME NEW s \in Server, ShowServer(s) PROVE Placed
    <3> DEFINE own == [p \in (live \cap PeersOf(s)) \ linked |-> wg[p]]
    <3>1. tick' = [tick EXCEPT !.pc = "links", !.left = @ \ {s}, !.of = s,
                          !.ask = tick.links \cap PeersOf(s), !.link = None, !.own = own]
      BY <2>3 DEF ShowServer
    <3> HIDE DEF own
    <3> QED
      BY <1>3, <3>1 DEF IdleTick, TickPlace
  <2>4. ASSUME NEW s \in Server, ShowDown(s) PROVE Placed
    <3>1. CASE tick' = DeadTick
      BY <3>1 DEF DeadTick, IdleTick
    <3>2. CASE tick' = [tick EXCEPT !.left = @ \ {s}]
      BY <1>3, <2>4, <3>2 DEF ShowDown, IdleTick, TickPlace
    <3> QED
      BY <2>4, <3>1, <3>2 DEF ShowDown
  <2>5. ASSUME NEW p \in Peer, ShowLink(p) PROVE Placed
    <3>1. /\ tick.pc = "links" /\ tick'.pc = tick.pc /\ tick'.left = tick.left /\ tick'.of = tick.of
      BY <1>3, <2>5 DEF ShowLink, IdleTick
    <3> QED
      BY <3>1 DEF TickPlace
  <2> HIDE DEF Placed
  <2> QED
    BY <2>1, <2>2, <2>3, <2>4, <2>5
<1>5. TickPlace'
  BY <1>4 DEF TickPlace
<1>6. RollupOrder'
  BY <1>4 DEF RollupOrder
<1>7. Aligned'
  BY <1>1 DEF Aligned
<1> QED
  BY <1>2, <1>5, <1>6, <1>7

LEMMA RecordReadGraph ==
  ASSUME GraphInv, RecordRead
  PROVE  Graph'
<1> USE DEF GraphInv, Graph
<1>1. UNCHANGED <<now, up, fresh, total, bucket, log>> /\ tick.pc = "links"
  BY DEF RecordRead, device, peers, stats, history
<1>2. GraphTyped'
  BY <1>1 DEF GraphTyped
<1>3. DOMAIN tick = DOMAIN IdleTick /\ tick.of \in Server /\ tick.left \subseteq Server
  BY <1>1 DEF TrafficInv, TickOK, TickPlace
<1>4. CASE Sampled = {}
  <2>1. tick'.pc = "server" /\ tick'.left \subseteq Server
    BY <1>3, <1>4 DEF RecordRead, NextServer, IdleTick
  <2>2. TickPlace' /\ RollupOrder' /\ Aligned'
    BY <1>1, <2>1 DEF TickPlace, RollupOrder, Aligned
  <2> QED
    BY <1>2, <2>2
<1>5. CASE Sampled # {}
  <2> DEFINE prior == [p \in live \cap PeersOf(tick.of) |-> last[p]]
  <2>1. tick' = [tick EXCEPT !.pc = "record", !.at = now, !.prior = prior]
    BY <1>5 DEF RecordRead
  <2>2. DOMAIN prior \subseteq PeersOf(tick.of) \ fresh
    BY DEF TrafficInv, CountersOK
  <2> HIDE DEF prior
  <2>3. tick'.pc = "record" /\ tick'.left \subseteq Server /\ tick'.at = now /\ tick'.prior = prior /\ tick'.of = tick.of
    BY <1>3, <2>1 DEF IdleTick
  <2>4. TickPlace'
    BY <1>1, <1>2, <1>3, <2>2, <2>3 DEF TickPlace, PeersOf, GraphTyped, Time
  <2>5. RollupOrder' /\ Aligned'
    BY <1>1, <2>3 DEF RollupOrder, Aligned
  <2> QED
    BY <1>2, <2>4, <2>5
<1> QED
  BY <1>4, <1>5

LEMMA RecordWriteGraph ==
  ASSUME GraphInv, RecordWrite
  PROVE  Graph'
<1> USE DEF GraphInv, Graph
<1>1. UNCHANGED <<now, up, fresh>> /\ tick.pc = "record" /\ tick' = NextServer
  BY DEF RecordWrite, device, peers
<1>2. \A p \in Peer : Gained(p) \in Nat
  BY <1>1, GainedOK
<1>3. total' \in [Server -> Nat]
  <2> DEFINE gained == [p \in Peer |-> Gained(p)]
  <2>1. Nats(gained, Peer)
    BY <1>2, ConstantsOK DEF Nats
  <2>2. total' = [total EXCEPT ![tick.of] = @ + SumOf(gained, Peer)]
    BY DEF RecordWrite
  <2> HIDE DEF gained
  <2>3. SumOf(gained, Peer) \in Nat
    BY <2>1, SumNat
  <2>4. PICK s \in Server : total' = [total EXCEPT ![s] = total[s] + SumOf(gained, Peer)]
    BY <1>1, <2>2 DEF TickPlace
  <2>5. total \in [Server -> Nat]
    BY DEF GraphTyped
  <2>6. total[s] + SumOf(gained, Peer) \in Nat
    BY <2>3, <2>5
  <2> QED
    BY <2>4, <2>5, <2>6
<1>4. bucket' \in [Peer \X Resolution \X Time -> Nat]
  <2> DEFINE start == BucketStartFor(tick.at, "1m")
             add(b) == IF b[2] = "1m" /\ b[3] = start THEN Gained(b[1]) ELSE 0
  <2>1. bucket' = [b \in DOMAIN bucket |-> bucket[b] + add(b)] /\ DOMAIN bucket = Peer \X Resolution \X Time
    BY DEF RecordWrite, GraphTyped
  <2>2. \A b \in Peer \X Resolution \X Time : bucket[b] \in Nat /\ add(b) \in Nat
    BY <1>2 DEF GraphTyped
  <2> HIDE DEF add
  <2> QED
    BY <2>1, <2>2
<1>5. log' \in [Peer \X Time -> Nat]
  <2> DEFINE add(e) == IF e[2] = tick.at THEN Gained(e[1]) ELSE 0
  <2>1. log' = [e \in DOMAIN log |-> log[e] + add(e)] /\ DOMAIN log = Peer \X Time
    BY DEF RecordWrite, GraphTyped
  <2>2. \A e \in Peer \X Time : log[e] \in Nat /\ add(e) \in Nat
    BY <1>2 DEF GraphTyped
  <2> HIDE DEF add
  <2> QED
    BY <2>1, <2>2
<1>6. GraphTyped'
  BY <1>1, <1>3, <1>4, <1>5 DEF GraphTyped
<1>7. tick'.pc = "server" /\ tick'.left \subseteq Server
  BY <1>1 DEF NextServer, IdleTick, TickPlace
<1>8. TickPlace' /\ RollupOrder'
  BY <1>7 DEF TickPlace, RollupOrder
<1>9. Aligned'
  <2> SUFFICES ASSUME NEW b \in DOMAIN bucket, b[2] = "1d", b[3] % Day # 0 PROVE bucket'[b] = 0
    BY DEF Aligned, RecordWrite
  <2>1. bucket'[b] = bucket[b] + 0 /\ bucket[b] = 0
    BY DEF RecordWrite, Aligned
  <2> QED
    BY <2>1
<1> QED
  BY <1>6, <1>8, <1>9

(***************************************************************************)
(* The rollup.                                                             *)
(***************************************************************************)
LEMMA RollupReadGraph ==
  ASSUME GraphInv, TickEnd \/ \E r \in {"1m", "1h"} : RollupRead(r)
  PROVE  Graph'
<1> USE DEF GraphInv, Graph
<1>1. UNCHANGED <<now, up, fresh, total, bucket, log>>
  BY DEF TickEnd, RollupRead, device, peers, stats, history
<1>2. GraphTyped' /\ Aligned'
  BY <1>1 DEF GraphTyped, Aligned
<1>3. DOMAIN tick = DOMAIN IdleTick
  BY DEF TrafficInv, TickOK
<1>4. CASE TickEnd
  <2>1. tick'.left \subseteq Server /\ (tick'.pc = "idle" \/ (tick'.pc = "1m" /\ tick'.at = now))
    <3>1. CASE tick' = IdleTick
      BY <3>1 DEF IdleTick
    <3>2. CASE tick' = [IdleTick EXCEPT !.pc = "1m", !.at = now]
      BY <3>2 DEF IdleTick
    <3> QED
      BY <1>4, <3>1, <3>2 DEF TickEnd
  <2> QED
    BY <1>1, <1>2, <2>1 DEF TickPlace, RollupOrder
<1>5. ASSUME NEW r \in {"1m", "1h"}, RollupRead(r) PROVE Graph'
  <2> DEFINE rows == [b \in Old(r) |-> bucket[b]]
  <2>1. tick.pc = r /\ tick' = [tick EXCEPT !.pc = "write", !.of = r, !.rows = rows]
    BY <1>5 DEF RollupRead
  <2> HIDE DEF rows
  <2>2. /\ tick'.pc = "write" /\ tick'.of = r /\ tick'.rows = rows /\ tick'.at = tick.at /\ tick'.left = tick.left
        /\ tick.at = now
    BY <1>3, <2>1 DEF IdleTick, TickPlace
  <2>3. \A x : (Old(x))' = Old(x)
    BY <1>1, <2>2 DEF Old
  <2>4. (Old(tick.of))' = Old(r)
    BY <1>1, <2>2 DEF Old
  <2>5. tick'.rows = [b \in (Old(tick.of))' |-> bucket'[b]]
    BY <1>1, <2>2, <2>4 DEF rows
  <2>6. TickPlace'
    BY <1>1, <2>2, <2>5 DEF TickPlace
  <2>7. RollupOrder'
    BY <1>1, <2>1, <2>2, <2>3 DEF RollupOrder, Emptied
  <2> QED
    BY <1>2, <2>6, <2>7
<1> QED
  BY <1>4, <1>5

\* The rows a rollup adds to a bucket.
Sources(b, r) == {x \in Old(r) : x[1] = b[1] /\ BucketStartFor(x[3], Coarser(r)) = b[3]}

\* The rows of the transaction are those of the read.
LEMMA RollupWrites ==
  ASSUME GraphInv, RollupWrite
  PROVE  /\ tick.of \in {"1m", "1h"} /\ tick.at = now /\ now \in Nat
         /\ bucket' = [b \in DOMAIN bucket |->
                         IF b \in Old(tick.of) THEN 0
                         ELSE IF b[2] = Coarser(tick.of) THEN bucket[b] + SumOf(bucket, Sources(b, tick.of))
                         ELSE bucket[b]]
<1> DEFINE r == tick.of
<1>1. tick.pc = "write" /\ r \in {"1m", "1h"} /\ tick.at = now /\ now \in Nat /\ tick.rows = [b \in Old(r) |-> bucket[b]]
  BY ConstantsOK DEF RollupWrite, GraphInv, Graph, TickPlace, GraphTyped, Time
<1>2. Nats(bucket, DOMAIN bucket)
  BY FiniteRows DEF GraphInv, Graph
<1>3. ASSUME NEW b \in DOMAIN bucket PROVE Consolidated(b, tick.rows, r) = bucket[b] + SumOf(bucket, Sources(b, r))
  <2>1. Sources(b, r) \in SUBSET DOMAIN bucket /\ Sources(b, r) \subseteq Old(r)
    BY DEF Sources, Old
  <2>2. Nats(bucket, Sources(b, r)) /\ \A x \in Sources(b, r) : bucket[x] = tick.rows[x]
    BY <1>1, <1>2, <2>1, NatsSubset
  <2>3. SumOf(bucket, Sources(b, r)) = SumOf(tick.rows, Sources(b, r))
    BY <2>2, SumSame
  <2>4. Sources(b, r) = {x \in DOMAIN tick.rows : x[1] = b[1] /\ BucketStartFor(x[3], Coarser(r)) = b[3]}
    BY <1>1 DEF Sources
  <2> QED
    BY <2>3, <2>4 DEF Consolidated
<1>4. bucket' = [b \in DOMAIN bucket |-> CASE b \in Old(r) -> 0
                                          [] b[2] = Coarser(r) -> Consolidated(b, tick.rows, r)
                                          [] OTHER -> bucket[b]]
  BY DEF RollupWrite
<1>5. \A b \in Old(r) : b[2] # Coarser(r)
  BY <1>1 DEF Old, Coarser
<1> QED
  BY <1>1, <1>3, <1>4, <1>5

LEMMA RollupWriteGraph ==
  ASSUME GraphInv, RollupWrite
  PROVE  Graph'
<1> USE DEF GraphInv, Graph
<1> DEFINE r == tick.of
           rows == Peer \X Resolution \X Time
<1>1. /\ UNCHANGED <<now, up, fresh, total, log>> /\ tick.pc = "write"
      /\ tick' = [tick EXCEPT !.pc = Coarser(r), !.rows = None]
  BY DEF RollupWrite, device, peers, history
<1>2. /\ r \in {"1m", "1h"} /\ tick.at = now /\ now \in Nat
      /\ bucket' = [b \in DOMAIN bucket |->
                         IF b \in Old(r) THEN 0
                         ELSE IF b[2] = Coarser(r) THEN bucket[b] + SumOf(bucket, Sources(b, r))
                         ELSE bucket[b]]
  BY RollupWrites
<1>3. \A b : Nats(bucket, Sources(b, r)) /\ SumOf(bucket, Sources(b, r)) \in Nat
  <2>1. \A b : Sources(b, r) \in SUBSET DOMAIN bucket
    BY DEF Sources, Old
  <2> QED
    BY <2>1, FiniteRows, NatsSubset, SumNat
<1>4. DOMAIN bucket = rows /\ \A b \in rows : bucket[b] \in Nat
  BY DEF GraphTyped
<1>5. DOMAIN tick = DOMAIN IdleTick
  BY DEF TrafficInv, TickOK
<1>6. tick'.pc = Coarser(r) /\ tick'.left = tick.left /\ tick'.at = tick.at
  BY <1>1, <1>5 DEF IdleTick
<1>7. \A x : (Old(x))' = Old(x)
  BY <1>2, <1>6 DEF Old
<1> HIDE DEF rows
<1>8. bucket' \in [rows -> Nat]
  <2>1. \A b \in rows : bucket'[b] \in Nat
    BY <1>2, <1>3, <1>4
  <2> QED
    BY <1>2, <1>4, <2>1
<1>9. GraphTyped'
  BY <1>1, <1>8 DEF GraphTyped, rows
<1>10. TickPlace'
  BY <1>1, <1>2, <1>6 DEF TickPlace, Coarser
<1>11. \A b \in Old(r) : bucket'[b] = 0
  BY <1>2 DEF Old
<1>12. ASSUME r = "1h", NEW b \in Old("1m") PROVE bucket'[b] = 0
  <2>1. bucket[b] = 0 /\ b[2] = "1m" /\ b \in DOMAIN bucket
    BY <1>1, <1>12 DEF RollupOrder, Emptied, Old
  <2>2. Coarser(r) # "1m"
    BY <1>12 DEF Coarser
  <2> QED
    BY <1>2, <2>1, <2>2
<1>13. RollupOrder'
  <2>1. CASE r = "1m"
    BY <1>6, <1>7, <1>11, <2>1 DEF RollupOrder, Emptied, Coarser
  <2>2. CASE r = "1h"
    <3>1. tick'.pc = "1d"
      BY <1>6, <2>2 DEF Coarser
    <3>2. (Emptied("1m"))' /\ (Emptied("1h"))'
      BY <1>7, <1>11, <1>12, <2>2 DEF Emptied
    <3> QED
      BY <3>1, <3>2 DEF RollupOrder
  <2> QED
    BY <1>2, <2>1, <2>2
<1>14. Aligned'
  <2> SUFFICES ASSUME NEW b \in DOMAIN bucket, b[2] = "1d", b[3] % Day # 0 PROVE bucket'[b] = 0
    BY <1>2 DEF Aligned
  <2>1. bucket[b] = 0
    BY DEF Aligned
  <2>2. SumOf(bucket, Sources(b, r)) = 0 \/ Coarser(r) # "1d"
    <3> SUFFICES ASSUME Coarser(r) = "1d" PROVE Sources(b, r) = {}
      BY SumEmpty
    <3> SUFFICES ASSUME NEW x \in Sources(b, r) PROVE FALSE
      OBVIOUS
    <3>1. x[3] \in Nat /\ b[3] = DayOf(x[3])
      BY <1>4 DEF Sources, Old, DayOf, rows, Time
    <3> QED
      BY <3>1, DayOK
  <2> QED
    BY <1>2, <2>1, <2>2
<1> QED
  BY <1>9, <1>10, <1>13, <1>14

LEMMA PruneGraph ==
  ASSUME GraphInv, Prune
  PROVE  Graph'
<1> USE DEF GraphInv, Graph
<1>1. UNCHANGED <<now, up, fresh, total, log>> /\ tick' = IdleTick
  BY DEF Prune, device, peers, history
<1>2. bucket' = [b \in DOMAIN bucket |-> IF b \in Old("1d") THEN 0 ELSE bucket[b]]
  BY DEF Prune
<1>3. GraphTyped'
  BY <1>1, <1>2 DEF GraphTyped
<1>4. tick'.pc = "idle" /\ tick'.left = {}
  BY <1>1 DEF IdleTick
<1>5. TickPlace' /\ RollupOrder'
  BY <1>4 DEF TickPlace, RollupOrder
<1>6. Aligned'
  BY <1>2 DEF Aligned
<1> QED
  BY <1>3, <1>5, <1>6

LEMMA GraphInit == Init => GraphInv
<1> SUFFICES ASSUME Init PROVE Graph
  BY TrafficInit DEF GraphInv
<1>1. GraphTyped
  BY ConstantsOK DEF Init, GraphTyped, Time
<1>2. tick.pc = "idle" /\ tick.left = {}
  BY DEF Init, IdleTick
<1>3. TickPlace /\ RollupOrder
  BY <1>2 DEF TickPlace, RollupOrder
<1>4. Aligned
  BY DEF Init, Aligned
<1> QED
  BY <1>1, <1>3, <1>4 DEF Graph

LEMMA GraphNext == GraphInv /\ [Next]_vars => GraphInv'
<1> SUFFICES ASSUME GraphInv, [Next]_vars PROVE Graph'
  BY TrafficNext DEF GraphInv
<1>1. CASE UNCHANGED vars
  <2>1. UNCHANGED <<now, tick, bucket, log, fresh, up, total>>
    BY <1>1 DEF vars, device, peers, stats, history
  <2>2. up' \subseteq Server /\ total' \in [Server -> Nat]
    BY <2>1 DEF GraphInv, Graph, GraphTyped
  <2> QED
    BY <2>1, <2>2, BesidesGraph
<1>2. CASE Tick
  BY <1>2, SampleGraph, RecordReadGraph, RecordWriteGraph, RollupReadGraph, RollupWriteGraph, PruneGraph DEF Tick
<1>3. CASE Next
  BY <1>2, <1>3, SampleGraph, AdvanceGraph, OutsideGraph DEF Next
<1> QED
  BY <1>1, <1>3

THEOREM GraphSafe == Spec => []GraphInv
<1> QED
  BY GraphInit, GraphNext, PTL DEF Spec

\* The counters, the samples, the totals and the buckets are what the handlers take them for.
THEOREM TrafficTyped == Spec => []TrafficTypeOK
<1>1. GraphInv => TrafficTypeOK
  BY DEF GraphInv, Graph, TrafficInv, GraphTyped, TrafficTypeOK
<1> QED
  BY <1>1, GraphSafe, PTL

(***************************************************************************)
(* What the steps of the tick do to the sum of some rows.                  *)
(***************************************************************************)
Rows == Peer \X Resolution \X Time
Minutes == Peer \X Time

LEMMA RowsOK ==
  ASSUME Graph
  PROVE  /\ DOMAIN bucket = Rows /\ DOMAIN log = Minutes /\ Nats(bucket, Rows) /\ Nats(log, Minutes)
BY FiniteRows DEF Graph, GraphTyped, Rows, Minutes

LEMMA RecordAdds ==
  ASSUME GraphInv, RecordWrite, NEW p \in Peer, NEW K \in SUBSET Rows, \A b \in K : b[1] = p
  PROVE  SumOf(bucket', K) = SumOf(bucket, K) + IF <<p, "1m", tick.at>> \in K THEN Gained(p) ELSE 0
<1> DEFINE here == <<p, "1m", tick.at>>
           add == [b \in K |-> IF b = here THEN Gained(p) ELSE 0]
<1>1. Nats(bucket, K) /\ IsFiniteSet(K)
  BY RowsOK, NatsSubset DEF GraphInv, Nats
<1>2. tick.pc = "record" /\ tick.at \in Nat /\ BucketStartFor(tick.at, "1m") = tick.at
  BY ConstantsOK, MinuteOK DEF RecordWrite, GraphInv, Graph, TickPlace, Time
<1>3. Gained(p) \in Nat
  BY <1>2, GainedOK DEF GraphInv
<1>4. Nats(add, K)
  BY <1>1, <1>3 DEF Nats
<1>5. ASSUME NEW b \in K PROVE bucket'[b] = bucket[b] + add[b]
  <2>1. b \in DOMAIN bucket /\ b = <<p, b[2], b[3]>>
    BY RowsOK DEF GraphInv, Rows
  <2>2. bucket'[b] = bucket[b] + IF b[2] = "1m" /\ b[3] = tick.at THEN Gained(b[1]) ELSE 0
    BY <1>2, <2>1 DEF RecordWrite
  <2>3. (b[2] = "1m" /\ b[3] = tick.at) <=> b = here
    BY <2>1
  <2> QED
    BY <2>2, <2>3
<1>6. \A b \in K : add[b] = IF b = here THEN Gained(p) ELSE 0
  OBVIOUS
<1> HIDE DEF add, here
<1>7. SumOf(bucket', K) = SumOf(bucket, K) + SumOf(add, K)
  BY <1>1, <1>4, <1>5, SumPlus
<1>8. SumOf(add, K) = IF here \in K THEN Gained(p) ELSE 0
  <2>1. CASE here \in K
    BY <1>1, <1>3, <1>6, <2>1, SumOne
  <2>2. CASE here \notin K
    BY <1>1, <1>6, <2>2, SumZero
  <2> QED
    BY <2>1, <2>2
<1> QED
  BY <1>7, <1>8 DEF here

LEMMA RecordLogs ==
  ASSUME GraphInv, RecordWrite, NEW p \in Peer, NEW K \in SUBSET Minutes, \A e \in K : e[1] = p
  PROVE  SumOf(log', K) = SumOf(log, K) + IF <<p, tick.at>> \in K THEN Gained(p) ELSE 0
<1> DEFINE here == <<p, tick.at>>
           add == [e \in K |-> IF e = here THEN Gained(p) ELSE 0]
<1>1. Nats(log, K) /\ IsFiniteSet(K)
  BY RowsOK, NatsSubset DEF GraphInv, Nats
<1>2. Gained(p) \in Nat
  BY GainedOK DEF GraphInv, RecordWrite
<1>3. Nats(add, K)
  BY <1>1, <1>2 DEF Nats
<1>4. ASSUME NEW e \in K PROVE log'[e] = log[e] + add[e]
  <2>1. e \in DOMAIN log /\ e = <<p, e[2]>>
    BY RowsOK DEF GraphInv, Minutes
  <2>2. log'[e] = log[e] + IF e[2] = tick.at THEN Gained(e[1]) ELSE 0
    BY <2>1 DEF RecordWrite
  <2>3. e[2] = tick.at <=> e = here
    BY <2>1
  <2> QED
    BY <2>2, <2>3
<1>5. \A e \in K : add[e] = IF e = here THEN Gained(p) ELSE 0
  OBVIOUS
<1> HIDE DEF add, here
<1>6. SumOf(log', K) = SumOf(log, K) + SumOf(add, K)
  BY <1>1, <1>3, <1>4, SumPlus
<1>7. SumOf(add, K) = IF here \in K THEN Gained(p) ELSE 0
  <2>1. CASE here \in K
    BY <1>1, <1>2, <1>5, <2>1, SumOne
  <2>2. CASE here \notin K
    BY <1>1, <1>5, <2>2, SumZero
  <2> QED
    BY <2>1, <2>2
<1> QED
  BY <1>6, <1>7 DEF here

\* The bucket a row is consolidated into.
Target(x, r) == <<x[1], Coarser(r), BucketStartFor(x[3], Coarser(r))>>

\* A set of rows that a row is in exactly if the bucket it goes to is keeps its sum.
LEMMA RollupKeeps ==
  ASSUME GraphInv, RollupWrite, NEW K \in SUBSET Rows,
         \A x \in Old(tick.of) : x \in K <=> Target(x, tick.of) \in K
  PROVE  SumOf(bucket', K) = SumOf(bucket, K)
<1> DEFINE r == tick.of
           old == Old(r)
           into == {b \in K : b[2] = Coarser(r)}
           from == K \cap old
           to == [x \in old |-> Target(x, r)]
           groups == [b \in into |-> SumOf(bucket, {x \in old : to[x] = b})]
           rest == [b \in K |-> IF b \in old THEN 0 ELSE bucket[b]]
           add == [b \in K |-> IF b \in into THEN groups[b] ELSE 0]
           drop == [b \in K |-> IF b \in old THEN bucket[b] ELSE 0]
<1>1. Nats(bucket, K) /\ Nats(bucket, old) /\ IsFiniteSet(into)
  <2>1. old \in SUBSET Rows /\ into \in SUBSET K
    BY RowsOK DEF GraphInv, Old
  <2>2. Nats(bucket, K) /\ Nats(bucket, old)
    BY <2>1, RowsOK, NatsSubset DEF GraphInv
  <2> QED
    BY <2>1, <2>2, FS_Subset DEF Nats
<1>2. \A b \in into : groups[b] \in Nat /\ groups[b] = SumOf(bucket, {x \in old : to[x] = b})
  <2>1. \A b : {x \in old : to[x] = b} \in SUBSET old
    OBVIOUS
  <2> HIDE DEF old, to
  <2> QED
    BY <1>1, <2>1, NatsSubset, SumNat
<1>3. Nats(groups, into)
  BY <1>1, <1>2 DEF Nats
<1>4. ASSUME NEW b \in into PROVE {x \in old : to[x] = b} = Sources(b, r)
  <2>1. b[2] = Coarser(r) /\ b = <<b[1], b[2], b[3]>>
    BY DEF Rows
  <2> QED
    BY <2>1 DEF Sources, Target
<1>5. SumOf(groups, into) = SumOf(bucket, from)
  <2>1. {x \in old : to[x] \in into} = from
    BY DEF Target
  <2> HIDE DEF old, to, into, from
  <2> QED
    BY <1>1, <2>1, SumOfGroups
<1>6. \A b \in K : /\ rest[b] \in Nat /\ add[b] \in Nat /\ drop[b] \in Nat
                   /\ bucket[b] = rest[b] + drop[b]
  BY <1>1, <1>2 DEF Nats
<1>7. ASSUME NEW b \in K PROVE bucket'[b] = rest[b] + add[b]
  <2>1. bucket'[b] = IF b \in old THEN 0
                    ELSE IF b[2] = Coarser(r) THEN bucket[b] + SumOf(bucket, Sources(b, r))
                    ELSE bucket[b]
    BY RollupWrites, RowsOK DEF GraphInv
  <2>2. b \in old => b \notin into
    BY RollupWrites DEF Old, Coarser
  <2>3. b \in into => groups[b] = SumOf(bucket, Sources(b, r))
    BY <1>2, <1>4
  <2>4. bucket[b] \in Nat
    BY <1>1 DEF Nats
  <2> QED
    BY <2>1, <2>2, <2>3, <2>4
<1>8. Nats(rest, K) /\ Nats(add, K) /\ Nats(drop, K)
  BY <1>1, <1>6 DEF Nats
<1>9. SumOf(bucket', K) = SumOf(rest, K) + SumOf(add, K)
  <2> HIDE DEF rest, add
  <2> QED
    BY <1>7, <1>8, SumPlus
<1>10. SumOf(bucket, K) = SumOf(rest, K) + SumOf(drop, K)
  <2> HIDE DEF rest, drop
  <2>1. \A b \in K : bucket[b] = rest[b] + drop[b]
    BY <1>6
  <2> QED
    BY <1>8, <2>1, SumPlus
<1>11. SumOf(add, K) = SumOf(groups, into)
  <2>1. into \in SUBSET K /\ (\A b \in K \ into : add[b] = 0) /\ \A b \in into : add[b] = groups[b]
    OBVIOUS
  <2> HIDE DEF add, groups, into
  <2>2. SumOf(add, K) = SumOf(add, into)
    BY <1>8, <2>1, SumSupport
  <2>3. SumOf(add, into) = SumOf(groups, into)
    BY <1>8, <2>1, NatsSubset, SumSame
  <2> QED
    BY <2>2, <2>3
<1>12. SumOf(drop, K) = SumOf(bucket, from)
  <2>1. from \in SUBSET K /\ (\A b \in K \ from : drop[b] = 0) /\ \A b \in from : drop[b] = bucket[b]
    OBVIOUS
  <2> HIDE DEF drop, from
  <2>2. SumOf(drop, K) = SumOf(drop, from)
    BY <1>8, <2>1, SumSupport
  <2>3. SumOf(drop, from) = SumOf(bucket, from)
    BY <1>8, <2>1, NatsSubset, SumSame
  <2> QED
    BY <2>2, <2>3
<1> QED
  BY <1>5, <1>9, <1>10, <1>11, <1>12

(***************************************************************************)
(* The bytes of a day.                                                     *)
(***************************************************************************)
DayRows(p, d) == {b \in Rows : b[1] = p /\ Within(b, d)}
DayMinutes(p, d) == {e \in Minutes : e[1] = p /\ DayOf(e[2]) = d}

\* The minute the tick is writing for.
Clock == IF tick.pc = "record" THEN tick.at ELSE now

DayKept(p, d) ==
  \/ SumOf(bucket, DayRows(p, d)) = SumOf(log, DayMinutes(p, d))
  \/ SumOf(bucket, DayRows(p, d)) = 0 /\ d + DayWindow < Clock

DaysKept == \A p \in Peer, d \in {t \in Time : t % Day = 0} : DayKept(p, d)

LEMMA RecordKeepsDay ==
  ASSUME GraphInv, RecordWrite, NEW p \in Peer, NEW d \in Time, DayKept(p, d)
  PROVE  DayKept(p, d)'
<1> DEFINE rows == DayRows(p, d)
           minutes == DayMinutes(p, d)
<1>1. /\ tick.pc = "record" /\ tick.at \in Time /\ tick.at \in Nat /\ now \in Nat /\ tick.at <= now
      /\ now' = now /\ tick'.pc = "server" /\ d \in Nat
  BY ConstantsOK DEF RecordWrite, GraphInv, Graph, TickPlace, GraphTyped, Time, NextServer, IdleTick
<1>2. rows \in SUBSET Rows /\ minutes \in SUBSET Minutes /\ (\A b \in rows : b[1] = p) /\ \A e \in minutes : e[1] = p
  BY DEF DayRows, DayMinutes
<1>3. (<<p, "1m", tick.at>> \in rows <=> DayOf(tick.at) = d) /\ (<<p, tick.at>> \in minutes <=> DayOf(tick.at) = d)
  BY <1>1 DEF DayRows, DayMinutes, Rows, Minutes, Resolution, Within, DayOf
<1>4. SumOf(bucket, rows) \in Nat /\ SumOf(log, minutes) \in Nat /\ Gained(p) \in Nat
  BY <1>1, <1>2, RowsOK, NatsSubset, SumNat, GainedOK DEF GraphInv
<1> HIDE DEF rows, minutes
<1>5. SumOf(bucket', rows) = SumOf(bucket, rows) + IF DayOf(tick.at) = d THEN Gained(p) ELSE 0
  BY <1>2, <1>3, RecordAdds
<1>6. SumOf(log', minutes) = SumOf(log, minutes) + IF DayOf(tick.at) = d THEN Gained(p) ELSE 0
  BY <1>2, <1>3, RecordLogs
<1>7. d + DayWindow < tick.at => DayOf(tick.at) # d
  <2>1. tick.at < DayOf(tick.at) + Day /\ Day \in Nat /\ DayWindow \in Nat /\ FineWindow \in Nat /\ FineWindow + Day <= DayWindow + 1
    BY <1>1, DayOK, ConstantsOK, WindowsOK
  <2> QED
    BY <1>1, <2>1
<1>8. Clock = tick.at /\ Clock' = now
  BY <1>1 DEF Clock
<1>9. DayWindow \in Nat
  BY ConstantsOK
<1>10. /\ SumOf(bucket, rows) = SumOf(log, minutes) \/ (SumOf(bucket, rows) = 0 /\ d + DayWindow < tick.at)
  BY <1>8 DEF DayKept, rows, minutes
<1>11. SumOf(bucket', rows) = SumOf(log', minutes) \/ (SumOf(bucket', rows) = 0 /\ d + DayWindow < now)
  <2>1. CASE SumOf(bucket, rows) = SumOf(log, minutes)
    BY <1>5, <1>6, <2>1
  <2>2. CASE SumOf(bucket, rows) = 0 /\ d + DayWindow < tick.at
    BY <1>1, <1>5, <1>7, <1>9, <2>2
  <2> QED
    BY <1>10, <2>1, <2>2
<1> QED
  BY <1>8, <1>11 DEF DayKept, rows, minutes

LEMMA RollupKeepsDay ==
  ASSUME GraphInv, RollupWrite, NEW p \in Peer, NEW d \in Time, DayKept(p, d)
  PROVE  DayKept(p, d)'
<1>1. tick.of \in {"1m", "1h"} /\ DayRows(p, d) \in SUBSET Rows
  BY RollupWrites DEF DayRows
<1>2. ASSUME NEW x \in Old(tick.of) PROVE x \in DayRows(p, d) <=> Target(x, tick.of) \in DayRows(p, d)
  <2>1. x \in Rows /\ x[1] \in Peer /\ x[3] \in Time /\ x[3] \in Nat
    BY RowsOK DEF GraphInv, Old, Rows, Time
  <2> DEFINE start == BucketStartFor(x[3], Coarser(tick.of))
  <2>2. start \in 0..x[3] /\ DayOf(start) = DayOf(x[3])
    BY <1>1, <2>1, StartOK
  <2>3. start \in Time /\ Coarser(tick.of) \in Resolution
    BY <2>1, <2>2, ConstantsOK DEF Time, Coarser, Resolution
  <2> HIDE DEF start
  <2>4. Target(x, tick.of) = <<x[1], Coarser(tick.of), start>>
    BY DEF Target, start
  <2>5. Target(x, tick.of) \in Rows
    BY <2>1, <2>3, <2>4 DEF Rows
  <2> QED
    BY <2>1, <2>2, <2>4, <2>5 DEF DayRows, Within, DayOf
<1>3. SumOf(bucket', DayRows(p, d)) = SumOf(bucket, DayRows(p, d))
  BY <1>1, <1>2, RollupKeeps
<1>4. log' = log /\ now' = now /\ tick.pc = "write" /\ tick'.pc # "record"
  <2>1. DOMAIN tick = DOMAIN IdleTick
    BY DEF GraphInv, TrafficInv, TickOK
  <2> QED
    BY <2>1 DEF RollupWrite, history, Coarser, IdleTick
<1>5. Clock' = now /\ Clock = now
  BY <1>4 DEF Clock
<1> QED
  BY <1>3, <1>4, <1>5 DEF DayKept

\* A day is pruned as a whole.
LEMMA PruneKeepsDay ==
  ASSUME GraphInv, Prune, NEW p \in Peer, NEW d \in Time, d % Day = 0, DayKept(p, d)
  PROVE  DayKept(p, d)'
<1> DEFINE rows == DayRows(p, d)
<1>1. /\ tick.pc = "1d" /\ tick.at = now /\ tick'.pc = "idle" /\ log' = log /\ now' = now /\ now \in Nat /\ d \in Nat
      /\ bucket' = [b \in Rows |-> IF b \in Old("1d") THEN 0 ELSE bucket[b]]
  BY RowsOK, ConstantsOK DEF Prune, history, GraphInv, Graph, TickPlace, GraphTyped, Time, IdleTick
<1>2. Nats(bucket, rows) /\ rows \in SUBSET Rows
  BY RowsOK, NatsSubset DEF GraphInv, DayRows
<1>3. Clock' = now /\ Clock = now
  BY <1>1 DEF Clock
<1>4. \A b \in rows : /\ b[3] \in Nat /\ DayOf(b[3]) = d /\ d <= b[3] /\ b[3] < d + Day
                      /\ b[2] \in {"1m", "1h", "1d"} /\ b \in DOMAIN bucket /\ bucket[b] \in Nat
  BY <1>2, DayOK, RowsOK DEF DayRows, Rows, Within, DayOf, Time, Resolution, GraphInv, Nats
<1>5. /\ Day \in Nat \ {0} /\ DayWindow \in Nat /\ FineWindow \in Nat /\ HourWindow \in Nat
      /\ FineWindow + Day <= DayWindow + 1 /\ HourWindow + Day <= DayWindow + 1
  BY ConstantsOK, WindowsOK
<1>6. \A b \in rows : b[2] = "1d" /\ bucket[b] # 0 => b[3] = d
  <2> SUFFICES ASSUME NEW b \in rows, b[2] = "1d", bucket[b] # 0 PROVE b[3] = d
    OBVIOUS
  <2>1. b[3] % Day = 0
    BY <1>4 DEF GraphInv, Graph, Aligned
  <2> QED
    BY <1>4, <2>1, DayOK
<1>7. CASE d + DayWindow < now
  <2>1. ASSUME NEW b \in rows PROVE bucket'[b] = 0
    <3>1. CASE b[2] = "1m" \/ b[2] = "1h"
      <4>1. b[3] < now - Window(b[2])
        BY <1>1, <1>4, <1>5, <1>7, <3>1 DEF Window
      <4>2. b \in Old(b[2])
        BY <1>1, <1>4, <4>1 DEF Old
      <4>3. bucket[b] = 0
        BY <1>1, <3>1, <4>2 DEF GraphInv, Graph, RollupOrder, Emptied
      <4> QED
        BY <1>1, <1>2, <4>3
    <3>2. CASE b[2] = "1d" /\ bucket[b] # 0
      <4>1. b \in Old("1d")
        BY <1>1, <1>4, <1>5, <1>6, <1>7, <3>2 DEF Old, Window
      <4> QED
        BY <1>1, <1>2, <4>1
    <3>3. CASE b[2] = "1d" /\ bucket[b] = 0
      BY <1>1, <1>2, <3>3
    <3> QED
      BY <1>4, <3>1, <3>2, <3>3
  <2>2. SumOf(bucket', rows) = 0
    BY <1>2, <2>1, SumZero DEF Nats
  <2> QED
    BY <1>1, <1>3, <1>7, <2>2 DEF DayKept
<1>8. CASE ~(d + DayWindow < now)
  <2>1. ASSUME NEW b \in rows PROVE bucket'[b] = bucket[b]
    <3>1. CASE b \in Old("1d")
      <4>1. b[2] = "1d" /\ b[3] < now - DayWindow
        BY <1>1, <3>1 DEF Old, Window
      <4>2. bucket[b] = 0
        BY <1>1, <1>4, <1>5, <1>6, <1>8, <4>1
      <4> QED
        BY <1>1, <1>2, <3>1, <4>2
    <3>2. CASE b \notin Old("1d")
      BY <1>1, <1>2, <3>2
    <3> QED
      BY <3>1, <3>2
  <2>2. SumOf(bucket', rows) = SumOf(bucket, rows)
    BY <1>2, <2>1, SumSame
  <2> QED
    BY <1>1, <1>3, <2>2 DEF DayKept
<1> QED
  BY <1>7, <1>8

LEMMA DaysNext == GraphInv /\ DaysKept /\ [Next]_vars => DaysKept'
<1> SUFFICES ASSUME GraphInv, DaysKept, [Next]_vars, NEW p \in Peer, NEW d \in Time, d % Day = 0 PROVE DayKept(p, d)'
  BY DEF DaysKept
<1>1. DayKept(p, d)
  BY DEF DaysKept
<1>2. CASE RecordWrite
  BY <1>1, <1>2, RecordKeepsDay
<1>3. CASE RollupWrite
  BY <1>1, <1>3, RollupKeepsDay
<1>4. CASE Prune
  BY <1>1, <1>4, PruneKeepsDay
<1>5. ASSUME bucket' = bucket, log' = log, Clock <= Clock' PROVE DayKept(p, d)'
  <2>1. d \in Nat /\ DayWindow \in Nat /\ Clock \in Nat /\ Clock' \in Int
    <3>1. Clock \in Nat
      BY ConstantsOK DEF Clock, GraphInv, Graph, GraphTyped, TickPlace, Time
    <3>2. GraphInv'
      BY GraphNext
    <3>3. Clock' \in Nat
      BY <3>2, ConstantsOK DEF Clock, GraphInv, Graph, GraphTyped, TickPlace, Time
    <3> QED
      BY <3>1, <3>3, ConstantsOK DEF Time
  <2> QED
    BY <1>1, <1>5, <2>1 DEF DayKept
<1>6. now \in Nat /\ DOMAIN tick = DOMAIN IdleTick
  BY ConstantsOK DEF GraphInv, Graph, GraphTyped, Time, TrafficInv, TickOK
<1>7. CASE Advance
  <2>1. bucket' = bucket /\ log' = log /\ tick' = tick /\ now' = now + 1
    BY <1>7 DEF Advance, stats, history
  <2>2. tick.pc = "record" => tick.at \in Nat
    BY ConstantsOK DEF GraphInv, Graph, TickPlace, Time
  <2> QED
    BY <1>5, <1>6, <2>1, <2>2 DEF Clock
<1>8. ASSUME bucket' = bucket, log' = log, now' = now, tick' = tick PROVE DayKept(p, d)'
  BY <1>1, <1>8 DEF DayKept, Clock
<1>9. ASSUME bucket' = bucket, log' = log, now' = now, tick.pc # "record", tick'.pc # "record" \/ tick'.at = now
      PROVE  DayKept(p, d)'
  BY <1>1, <1>9 DEF DayKept, Clock
<1>10. CASE \/ UNCHANGED vars
            \/ \E q \in Peer : Carry(q) \/ Restart(q) \/ Move(q) \/ AddPeer(q) \/ DeletePeer(q) \/ ResetPeer(q)
            \/ \E s \in Server : InterfaceLost(s) \/ ResetServer(s)
  <2>1. UNCHANGED <<now, tick, bucket, log>>
    BY <1>10 DEF vars, Carry, Restart, Move, AddPeer, DeletePeer, ResetPeer, InterfaceLost, ResetServer, device, peers, stats, history
  <2> QED
    BY <1>8, <2>1
<1>11. CASE Crash
  <2>1. UNCHANGED <<now, bucket, log>> /\ tick'.pc \in {"idle", "dead"}
    BY <1>11 DEF Crash, stats, history, IdleTick, DeadTick
  <2>2. Clock' = now /\ Clock <= now
    BY <1>6, <2>1 DEF Clock, GraphInv, Graph, TickPlace
  <2> QED
    BY <1>5, <2>1, <2>2
<1>12. CASE TickBegin \/ \E s \in Server : ShowServer(s) \/ ShowDown(s)
  <2>1. UNCHANGED <<now, bucket, log>> /\ tick.pc \in {"idle", "server"}
    BY <1>12 DEF TickBegin, ShowServer, ShowDown, stats, history
  <2>2. tick'.pc \in {"server", "links", "dead"}
    <3>1. CASE TickBegin
      BY <3>1 DEF TickBegin, IdleTick
    <3>2. ASSUME NEW s \in Server, ShowServer(s) PROVE tick'.pc = "links"
      BY <1>6, <3>2 DEF ShowServer, IdleTick
    <3>3. ASSUME NEW s \in Server, ShowDown(s) PROVE tick'.pc \in {"server", "dead"}
      BY <1>6, <3>3 DEF ShowDown, IdleTick, DeadTick
    <3> QED
      BY <1>12, <3>1, <3>2, <3>3
  <2> QED
    BY <1>9, <2>1, <2>2
<1>13. CASE RecordRead \/ \E q \in Peer : ShowLink(q)
  <2>1. UNCHANGED <<now, bucket, log>> /\ tick.pc = "links"
    BY <1>13 DEF RecordRead, ShowLink, stats, history
  <2>2. tick'.pc # "record" \/ tick'.at = now
    <3>1. ASSUME NEW q \in Peer, ShowLink(q) PROVE tick'.pc = "links"
      BY <1>6, <3>1 DEF ShowLink, IdleTick
    <3>2. CASE RecordRead /\ Sampled = {}
      BY <3>2 DEF RecordRead, NextServer, IdleTick
    <3>3. CASE RecordRead /\ Sampled # {}
      <4> DEFINE prior == [x \in live \cap PeersOf(tick.of) |-> last[x]]
      <4>1. tick' = [tick EXCEPT !.pc = "record", !.at = now, !.prior = prior]
        BY <3>3 DEF RecordRead
      <4> HIDE DEF prior
      <4> QED
        BY <1>6, <4>1 DEF IdleTick
    <3> QED
      BY <1>13, <3>1, <3>2, <3>3
  <2> QED
    BY <1>9, <2>1, <2>2
<1>14. CASE TickEnd \/ \E r \in {"1m", "1h"} : RollupRead(r)
  <2>1. UNCHANGED <<now, bucket, log>> /\ tick.pc \in {"server", "1m", "1h"}
    BY <1>14 DEF TickEnd, RollupRead, stats, history
  <2>2. tick'.pc \in {"idle", "1m", "write"}
    <3>1. CASE tick' = IdleTick
      BY <3>1 DEF IdleTick
    <3>2. CASE tick' = [IdleTick EXCEPT !.pc = "1m", !.at = now]
      BY <3>2 DEF IdleTick
    <3>3. ASSUME NEW r \in {"1m", "1h"}, RollupRead(r) PROVE tick'.pc = "write"
      BY <1>6, <3>3 DEF RollupRead, IdleTick
    <3> QED
      BY <1>14, <3>1, <3>2, <3>3 DEF TickEnd
  <2> QED
    BY <1>9, <2>1, <2>2
<1> QED
  BY <1>2, <1>3, <1>4, <1>7, <1>10, <1>11, <1>12, <1>13, <1>14 DEF Next, Tick

LEMMA DaysInit == Init => DaysKept
<1> SUFFICES ASSUME Init, NEW p \in Peer, NEW d \in Time PROVE DayKept(p, d)
  BY DEF DaysKept
<1>1. DayRows(p, d) \in SUBSET Rows /\ DayMinutes(p, d) \in SUBSET Minutes
  BY DEF DayRows, DayMinutes
<1>2. Nats(bucket, DayRows(p, d)) /\ Nats(log, DayMinutes(p, d))
  BY <1>1, RowsOK, GraphInit, NatsSubset DEF GraphInv
<1>3. (\A b \in DayRows(p, d) : bucket[b] = 0) /\ \A e \in DayMinutes(p, d) : log[e] = 0
  BY <1>1 DEF Init, Rows, Minutes
<1>4. SumOf(bucket, DayRows(p, d)) = 0 /\ SumOf(log, DayMinutes(p, d)) = 0
  BY <1>2, <1>3, SumZero DEF Nats
<1> QED
  BY <1>4 DEF DayKept

\* The rollup neither drops nor repeats a byte, for every length of an hour, a day and the windows,
\* wherever a cutoff falls in a day and wherever the rollup is interrupted (rollupResolution,
\* consolidateBuckets, pruneResolution).
THEOREM BytesStayInOneBucket == Spec => []EveryByteInOneBucket
<1>1. GraphInv /\ DaysKept => EveryByteInOneBucket
  <2> SUFFICES ASSUME GraphInv, DaysKept, NEW p \in Peer, NEW d \in Time, d % Day = 0
               PROVE  LET stored == SumOf(bucket, {b \in DOMAIN bucket : b[1] = p /\ Within(b, d)})
                      IN \/ stored = SumOf(log, {e \in DOMAIN log : e[1] = p /\ BucketStartFor(e[2], "1d") = d})
                         \/ stored = 0 /\ d + DayWindow < now
    BY DEF EveryByteInOneBucket
  <2>1. DayKept(p, d)
    BY DEF DaysKept
  <2>2. /\ DayRows(p, d) = {b \in DOMAIN bucket : b[1] = p /\ Within(b, d)}
        /\ DayMinutes(p, d) = {e \in DOMAIN log : e[1] = p /\ BucketStartFor(e[2], "1d") = d}
    BY RowsOK DEF GraphInv, DayRows, DayMinutes, DayOf
  <2>3. Clock <= now /\ Clock \in Nat /\ now \in Nat /\ d \in Nat /\ DayWindow \in Nat
    BY ConstantsOK DEF Clock, GraphInv, Graph, GraphTyped, TickPlace, Time
  <2> QED
    BY <2>1, <2>2, <2>3 DEF DayKept
<1>2. GraphInv /\ DaysKept /\ [Next]_vars => (GraphInv /\ DaysKept)'
  BY GraphNext, DaysNext
<1>3. Init => GraphInv /\ DaysKept
  BY GraphInit, DaysInit
<1> QED
  BY <1>1, <1>2, <1>3, PTL DEF Spec

(***************************************************************************)
(* The ledger.                                                             *)
(***************************************************************************)
PeerRows(p) == {b \in Rows : b[1] = p}

Owed == [p \in Peer |-> carried[p] - counted[p]]
Gone == (Peer \ live) \ fresh
Kept == [p \in Peer |-> SumOf(bucket, {b \in DOMAIN bucket : b[1] = p})]

LEMMA KeptOK ==
  ASSUME Graph, NEW p \in Peer
  PROVE  /\ Kept[p] = SumOf(bucket, PeerRows(p)) /\ Kept[p] \in Nat
         /\ Nats(bucket, PeerRows(p)) /\ PeerRows(p) \in SUBSET Rows
<1>1. PeerRows(p) \in SUBSET Rows /\ PeerRows(p) = {b \in DOMAIN bucket : b[1] = p}
  BY RowsOK DEF PeerRows
<1>2. Nats(bucket, PeerRows(p))
  BY <1>1, RowsOK, NatsSubset
<1> QED
  BY <1>1, <1>2, SumNat DEF Kept

\* What is at most what there is for every peer is one of the values the ledger looks at.
LEMMA UpToOK ==
  ASSUME NEW f \in [Peer -> Nat], NEW n \in [Peer -> Nat], \A p \in Peer : n[p] <= f[p]
  PROVE  n \in Books!UpTo(f)
<1> DEFINE S == {f[p] : p \in Peer}
<1>1. CASE Peer = {}
  BY <1>1 DEF Books!UpTo
<1>2. CASE Peer # {}
  <2>1. S # {} /\ S \in SUBSET Nat /\ f \in Surjection(Peer, S)
    BY <1>2 DEF Surjection
  <2>2. \A p \in Peer : f[p] \in S
    OBVIOUS
  <2> HIDE DEF S
  <2>3. IsFiniteSet(S)
    BY <2>1, ConstantsOK, FS_Surjection
  <2>4. Max(S) \in S /\ \A x \in S : x <= Max(S)
    BY <2>1, <2>3, LargestOf
  <2>5. n \in [Peer -> 0 .. Max(S)]
    <3>1. ASSUME NEW p \in Peer PROVE n[p] \in 0 .. Max(S)
      <4>1. n[p] \in Nat /\ f[p] \in Nat /\ n[p] <= f[p] /\ f[p] \in S
        BY <2>2
      <4>2. Max(S) \in Nat /\ f[p] <= Max(S)
        BY <2>1, <2>4, <4>1
      <4> QED
        BY <4>1, <4>2
    <3> QED
      BY <3>1
  <2>6. Books!Max(S) = Max(S)
    BY DEF Books!Max, Max
  <2> QED
    BY <2>5, <2>6 DEF Books!UpTo, S
<1> QED
  BY <1>1, <1>2

LEMMA OwedOK ==
  TrafficInv => Owed \in [Peer -> Nat]
<1> SUFFICES ASSUME TrafficInv PROVE Owed \in [Peer -> Nat]
  OBVIOUS
<1>1. ASSUME NEW p \in Peer PROVE counted[p] \in Nat /\ carried[p] \in Nat /\ counted[p] <= carried[p]
  <2>1. /\ CountersOK /\ wg[p] <= carried[p] /\ counted[p] <= Mark(p, last[p])
        /\ last[p] \in Nat \cup {Null} /\ counted[p] \in Nat /\ carried[p] \in Nat
    BY DEF TrafficInv, Booked, CountersOK
  <2>2. Mark(p, last[p]) \in Nat /\ Mark(p, last[p]) <= carried[p]
    BY <2>1, MarkOK
  <2> QED
    BY <2>1, <2>2
<1> QED
  BY <1>1 DEF Owed

LEMMA CountStep ==
  ASSUME GraphInv, RecordWrite
  PROVE  Books!Next
<1> DEFINE n == [p \in Peer |-> Gained(p)]
<1>1. /\ tick.pc = "record" /\ tick.of \in Server /\ tick.at \in Time
      /\ DOMAIN tick.prior \subseteq PeersOf(tick.of) \ fresh
      /\ UNCHANGED <<carried, live, fresh>>
  BY DEF RecordWrite, GraphInv, Graph, TickPlace, device, peers
<1>2. GraphInv' /\ TrafficInv /\ TrafficInv' /\ Graph /\ Graph'
  <2>1. GraphInv'
    BY TrafficNext, RecordWriteGraph DEF GraphInv, Next, Tick
  <2> QED
    BY <2>1 DEF GraphInv
<1>3. \A p \in Peer : n[p] \in Nat /\ (p \notin Sampled \/ p \notin DOMAIN tick.prior => n[p] = 0)
  BY <1>1, <1>2, GainedOK
<1>4. \A p \in Peer : counted[p] \in Nat /\ carried[p] \in Nat /\ lifetime[p] \in Nat /\ counted'[p] = counted[p] + n[p]
  BY <1>2 DEF TrafficInv, CountersOK, RecordWrite
<1>5. Owed \in [Peer -> Nat] /\ Owed' \in [Peer -> Nat]
  <2>1. Owed \in [Peer -> Nat]
    BY <1>2, OwedOK
  <2>2. Owed' \in [Peer -> Nat]
    <3>1. (TrafficInv => Owed \in [Peer -> Nat])'
      BY OwedOK, PTL
    <3> QED
      BY <1>2, <3>1
  <2> QED
    BY <2>1, <2>2
<1> HIDE DEF n
<1>6. \A p \in Peer : Owed'[p] = Owed[p] - n[p]
  BY <1>1, <1>3, <1>4 DEF Owed
<1>7. Owed' = [p \in Peer |-> Owed[p] - n[p]]
  BY <1>5, <1>6
<1>8. \A p \in Peer : n[p] <= Owed[p] /\ (Home[p] # tick.of => n[p] = 0)
  <2>1. ASSUME NEW p \in Peer PROVE n[p] <= Owed[p]
    BY <1>3, <1>5, <1>6
  <2>2. ASSUME NEW p \in Peer, Home[p] # tick.of PROVE n[p] = 0
    BY <1>1, <1>3, <2>2 DEF PeersOf
  <2> QED
    BY <2>1, <2>2
<1>9. ASSUME NEW p \in Peer PROVE Kept'[p] = Kept[p] + n[p]
  <2>1. Kept'[p] = SumOf(bucket', PeerRows(p))
    <3>1. DOMAIN bucket' = Rows
      BY <1>2 DEF Graph, GraphTyped, Rows
    <3> QED
      BY <3>1 DEF Kept, PeerRows
  <2>2. Kept[p] = SumOf(bucket, PeerRows(p)) /\ PeerRows(p) \in SUBSET Rows /\ \A b \in PeerRows(p) : b[1] = p
    BY <1>2, KeptOK DEF PeerRows
  <2>3. <<p, "1m", tick.at>> \in PeerRows(p)
    BY <1>1 DEF PeerRows, Rows, Resolution
  <2>4. SumOf(bucket', PeerRows(p)) = SumOf(bucket, PeerRows(p)) + Gained(p)
    BY <2>2, <2>3, RecordAdds
  <2> QED
    BY <2>1, <2>2, <2>4 DEF n
<1>10. Kept' = [p \in Peer |-> Kept[p] + n[p]]
  <2>1. Kept' = [p \in Peer |-> Kept'[p]]
    BY DEF Kept
  <2> QED
    BY <1>9, <2>1
<1>11. lifetime' = [p \in Peer |-> IF p \in Gone THEN lifetime[p] ELSE lifetime[p] + n[p]]
  <2> DEFINE written == Sampled \cap DOMAIN tick.prior \cap live
  <2>1. lifetime' = [p \in Peer |-> IF p \in written THEN lifetime[p] + n[p] ELSE lifetime[p]]
    BY DEF RecordWrite, n
  <2>2. ASSUME NEW p \in Peer
        PROVE  (IF p \in written THEN lifetime[p] + n[p] ELSE lifetime[p])
                 = IF p \in Gone THEN lifetime[p] ELSE lifetime[p] + n[p]
    <3>1. p \in written => p \notin Gone
      BY DEF Gone
    <3>2. p \notin written /\ p \notin Gone => n[p] = 0
      <4>1. fresh \cap live = {}
        BY <1>2 DEF TrafficInv, CountersOK
      <4>2. p \in fresh => p \notin DOMAIN tick.prior
        BY <1>1
      <4> QED
        BY <1>3, <4>1, <4>2 DEF Gone
    <3>3. lifetime[p] + 0 = lifetime[p]
      BY <1>4
    <3> QED
      BY <3>1, <3>2, <3>3
  <2> QED
    BY <2>1, <2>2
<1>12. total' = [total EXCEPT ![tick.of] = @ + SumOf(n, Peer)]
  BY DEF RecordWrite, n
<1>13. Gone' = Gone
  BY <1>1 DEF Gone
<1>14. n \in [Peer -> Nat]
  BY <1>3 DEF n
<1>15. n \in Books!UpTo(Owed)
  BY <1>5, <1>8, <1>14, UpToOK
<1>16. Books!SumOf(n, Peer) = SumOf(n, Peer)
  <2>1. Books!SumOf(n, Peer) = (CHOOSE g : Folds(g, n, Peer))[Peer]
    BY DEF Books!SumOf, Books!MapThenSumSet, Books!MapThenFoldSet, Folds, Term
  <2> QED
    BY <2>1, SumIsFold
<1>17. PICK s \in Server, m \in Books!UpTo(Owed) : s = tick.of /\ m = n
  BY <1>1, <1>15
<1>18. Books!Count(s, m)
  BY <1>7, <1>8, <1>10, <1>11, <1>12, <1>13, <1>16, <1>17 DEF Books!Count, Owed, Gone, Kept
<1> QED
  BY <1>17, <1>18 DEF Books!Next, Owed

\* A rollup moves bytes between the buckets of a peer.
LEMMA RollupStep ==
  ASSUME GraphInv, RollupWrite
  PROVE  UNCHANGED Books!vars
<1>1. UNCHANGED <<carried, live, fresh, lifetime, total, counted>>
  BY DEF RollupWrite, device, peers, history
<1>2. Graph /\ DOMAIN bucket' = Rows
  BY RollupWriteGraph DEF GraphInv, Graph, GraphTyped, Rows
<1>3. ASSUME NEW p \in Peer PROVE Kept'[p] = Kept[p]
  <2>1. Kept[p] = SumOf(bucket, PeerRows(p)) /\ PeerRows(p) \in SUBSET Rows
    BY <1>2, KeptOK
  <2>2. Kept'[p] = SumOf(bucket', PeerRows(p))
    BY <1>2 DEF Kept, PeerRows
  <2>3. ASSUME NEW x \in Old(tick.of) PROVE x \in PeerRows(p) <=> Target(x, tick.of) \in PeerRows(p)
    <3>1. tick.of \in {"1m", "1h"} /\ x \in Rows /\ x[3] \in Time /\ x[3] \in Nat /\ x[1] \in Peer
      BY <1>2, RollupWrites, RowsOK DEF Old, Rows, Time
    <3>2. BucketStartFor(x[3], Coarser(tick.of)) \in 0..x[3]
      BY <3>1, StartOK
    <3>3. BucketStartFor(x[3], Coarser(tick.of)) \in Time /\ Coarser(tick.of) \in Resolution
      BY <3>1, <3>2, ConstantsOK DEF Time, Coarser, Resolution
    <3> QED
      BY <3>1, <3>3 DEF Target, PeerRows, Rows
  <2>4. SumOf(bucket', PeerRows(p)) = SumOf(bucket, PeerRows(p))
    BY <2>1, <2>3, RollupKeeps
  <2> QED
    BY <2>1, <2>2, <2>4
<1>4. Kept' = Kept
  <2>1. Kept' = [p \in Peer |-> Kept'[p]] /\ Kept = [p \in Peer |-> Kept[p]]
    BY DEF Kept
  <2> QED
    BY <1>3, <2>1
<1> QED
  BY <1>1, <1>4 DEF Books!vars, Kept

LEMMA PruneStep ==
  ASSUME GraphInv, Prune
  PROVE  Books!Next
<1>1. UNCHANGED <<carried, live, fresh, lifetime, total, counted>>
  BY DEF Prune, device, peers, history
<1>2. Graph /\ Graph' /\ DOMAIN bucket' = Rows /\ DOMAIN bucket = Rows
  BY PruneGraph DEF GraphInv, Graph, GraphTyped, Rows
<1>3. ASSUME NEW p \in Peer PROVE Kept'[p] \in Nat /\ Kept[p] \in Nat /\ Kept'[p] <= Kept[p]
  <2>1. Kept[p] = SumOf(bucket, PeerRows(p)) /\ Kept[p] \in Nat /\ PeerRows(p) \in SUBSET Rows /\ Nats(bucket, PeerRows(p))
    BY <1>2, KeptOK
  <2>2. Kept'[p] = SumOf(bucket', PeerRows(p))
    BY <1>2 DEF Kept, PeerRows
  <2>3. \A b \in PeerRows(p) : bucket'[b] \in Nat /\ bucket'[b] <= bucket[b]
    <3>1. \A b \in PeerRows(p) : bucket[b] \in Nat /\ b \in DOMAIN bucket
      BY <1>2, <2>1 DEF Nats
    <3> QED
      BY <3>1 DEF Prune
  <2>4. Nats(bucket', PeerRows(p))
    BY <2>1, <2>3 DEF Nats
  <2>5. SumOf(bucket', PeerRows(p)) <= SumOf(bucket, PeerRows(p)) /\ SumOf(bucket', PeerRows(p)) \in Nat
    BY <2>1, <2>3, <2>4, SumAtMost, SumNat
  <2> QED
    BY <2>1, <2>2, <2>5
<1>4. Kept \in [Peer -> Nat] /\ Kept' \in [Peer -> Nat]
  <2>1. Kept = [p \in Peer |-> Kept[p]] /\ Kept' = [p \in Peer |-> Kept'[p]]
    BY DEF Kept
  <2> QED
    BY <1>3, <2>1
<1>5. Kept' \in Books!UpTo(Kept)
  BY <1>3, <1>4, UpToOK
<1>6. UNCHANGED <<Owed, Gone>>
  BY <1>1 DEF Owed, Gone
<1>7. Books!Expire(Kept')
  BY <1>1, <1>3, <1>6 DEF Books!Expire, Owed, Gone, Kept
<1> QED
  BY <1>5, <1>7 DEF Books!Next, Kept

\* Of the other steps, what carries a byte, resets or deletes is one of the ledger, and the rest none.
LEMMA OtherSteps ==
  ASSUME GraphInv,
         \/ UNCHANGED vars \/ Advance \/ Crash \/ TickBegin \/ RecordRead \/ TickEnd
         \/ \E r \in {"1m", "1h"} : RollupRead(r)
         \/ \E p \in Peer : Carry(p) \/ Restart(p) \/ Move(p) \/ AddPeer(p) \/ DeletePeer(p) \/ ResetPeer(p) \/ ShowLink(p)
         \/ \E s \in Server : InterfaceLost(s) \/ ResetServer(s) \/ ShowServer(s) \/ ShowDown(s)
  PROVE  Books!Next \/ UNCHANGED Books!vars
<1>1. UNCHANGED <<bucket, counted>>
  BY DEF vars, Advance, Crash, TickBegin, RecordRead, TickEnd, RollupRead, Carry, Restart, Move, AddPeer, DeletePeer,
         ResetPeer, ShowLink, InterfaceLost, ResetServer, ShowServer, ShowDown, stats, history
<1>2. Kept' = Kept
  BY <1>1 DEF Kept
<1>3. carried \in [Peer -> Nat] /\ counted \in [Peer -> Nat] /\ live \subseteq Peer /\ fresh \subseteq Peer \ live
  BY DEF GraphInv, TrafficInv, CountersOK
<1>4. ASSUME NEW p \in Peer, Carry(p) PROVE Books!Next
  <2>1. carried' = [carried EXCEPT ![p] = @ + 1] /\ UNCHANGED <<live, fresh, lifetime, total>>
    BY <1>4 DEF Carry, peers, stats
  <2>2. Owed' = [Owed EXCEPT ![p] = @ + 1]
    <3>1. \A q \in Peer : carried[q] \in Nat /\ counted[q] \in Nat
      BY <1>3
    <3>2. \A q \in Peer : carried'[q] - counted'[q] = IF q = p THEN (carried[q] - counted[q]) + 1 ELSE carried[q] - counted[q]
      BY <1>1, <1>3, <2>1, <3>1
    <3> QED
      BY <3>2 DEF Owed
  <2>3. Gone' = Gone
    BY <2>1 DEF Gone
  <2>4. Books!Carry(p)
    BY <1>2, <2>1, <2>2, <2>3 DEF Books!Carry, Owed, Gone, Kept
  <2> QED
    BY <2>4 DEF Books!Next
<1>5. ASSUME NEW p \in Peer, ResetPeer(p) PROVE Books!Next
  <2>1. UNCHANGED <<carried, live, fresh, total>> /\ lifetime' = [lifetime EXCEPT ![p] = 0]
    BY <1>5 DEF ResetPeer, device, peers
  <2>2. Owed' = Owed /\ Gone' = Gone
    BY <1>1, <2>1 DEF Owed, Gone
  <2>3. Books!ResetPeer(p)
    BY <1>2, <2>1, <2>2 DEF Books!ResetPeer, Owed, Gone, Kept
  <2> QED
    BY <2>3 DEF Books!Next
<1>6. ASSUME NEW p \in Peer, DeletePeer(p) PROVE Books!Next
  <2>1. /\ p \in live /\ live' = live \ {p} /\ UNCHANGED <<carried, fresh, total>>
        /\ lifetime' = [lifetime EXCEPT ![p] = 0]
    BY <1>6 DEF DeletePeer
  <2>2. Owed' = Owed /\ Gone' = Gone \cup {p}
    BY <1>1, <1>3, <2>1 DEF Owed, Gone
  <2>3. Books!Delete(p)
    BY <1>2, <2>1, <2>2 DEF Books!Delete, Owed, Gone, Kept
  <2> QED
    BY <2>3 DEF Books!Next
<1>7. ASSUME NEW s \in Server, ResetServer(s) PROVE Books!Next
  <2>1. UNCHANGED <<carried, live, fresh, lifetime>> /\ total' = [total EXCEPT ![s] = 0]
    BY <1>7 DEF ResetServer, device, peers
  <2>2. Owed' = Owed /\ Gone' = Gone
    BY <1>1, <2>1 DEF Owed, Gone
  <2>3. Books!ResetServer(s)
    BY <1>2, <2>1, <2>2 DEF Books!ResetServer, Owed, Gone, Kept
  <2> QED
    BY <2>3 DEF Books!Next
<1>8. ASSUME UNCHANGED <<carried, lifetime, total>>, Gone' = Gone PROVE UNCHANGED Books!vars
  BY <1>1, <1>2, <1>8 DEF Books!vars, Gone, Kept
<1>9. ASSUME NEW p \in Peer, AddPeer(p) PROVE UNCHANGED Books!vars
  <2>1. p \in fresh /\ fresh' = fresh \ {p} /\ live' = live \cup {p} /\ UNCHANGED <<carried, lifetime, total>>
    BY <1>9 DEF AddPeer, device, stats
  <2>2. Gone' = Gone
    BY <2>1 DEF Gone
  <2> QED
    BY <1>8, <2>1, <2>2
<1>10. CASE \/ UNCHANGED vars \/ Advance \/ Crash \/ TickBegin \/ RecordRead \/ TickEnd
            \/ \E r \in {"1m", "1h"} : RollupRead(r)
            \/ \E p \in Peer : Restart(p) \/ Move(p) \/ ShowLink(p)
            \/ \E s \in Server : InterfaceLost(s) \/ ShowServer(s) \/ ShowDown(s)
  <2>1. UNCHANGED <<carried, lifetime, total, live, fresh>>
    BY <1>10 DEF vars, Advance, Crash, TickBegin, RecordRead, TickEnd, RollupRead, Restart, Move, ShowLink,
                 InterfaceLost, ShowServer, ShowDown, device, peers, stats, history
  <2>2. Gone' = Gone
    BY <2>1 DEF Gone
  <2> QED
    BY <1>8, <2>1, <2>2
<1> QED
  BY <1>4, <1>5, <1>6, <1>7, <1>9, <1>10

\* The statistics are the ledger, step by step: a count is one step of it however long a tick takes
\* and whatever falls in between, and what the rollup, a restart or a crash does is none (refreshInfo,
\* recordServerTraffic, rollupAndPrune).
THEOREM StatisticsAreTheLedger == Spec => ImplementsLedger
<1>1. GraphInv /\ [Next]_vars => [Books!Next]_(Books!vars)
  <2> SUFFICES ASSUME GraphInv, [Next]_vars PROVE Books!Next \/ UNCHANGED Books!vars
    OBVIOUS
  <2>1. CASE RecordWrite
    BY <2>1, CountStep
  <2>2. CASE RollupWrite
    BY <2>2, RollupStep
  <2>3. CASE Prune
    BY <2>3, PruneStep
  <2> QED
    BY <2>1, <2>2, <2>3, OtherSteps DEF Next, Tick
<1>2. Init => Books!Init
  <2> SUFFICES ASSUME Init PROVE Books!Init
    OBVIOUS
  <2>1. ASSUME NEW p \in Peer PROVE Kept[p] = 0
    <3>1. Graph
      BY GraphInit DEF GraphInv
    <3>2. \A b \in PeerRows(p) : bucket[b] = 0
      BY DEF Init, PeerRows, Rows
    <3>3. SumOf(bucket, PeerRows(p)) = 0
      BY <3>1, <3>2, KeptOK, SumZero DEF Nats
    <3> QED
      BY <3>1, <3>3, KeptOK
  <2>2. Kept = [p \in Peer |-> 0]
    <3>1. Kept = [p \in Peer |-> Kept[p]]
      BY DEF Kept
    <3> QED
      BY <2>1, <3>1
  <2>3. Owed = [p \in Peer |-> 0] /\ Gone = {}
    BY DEF Init, Owed, Gone
  <2> QED
    BY <2>2, <2>3 DEF Init, Books!Init, Owed, Gone, Kept
<1> QED
  BY <1>1, <1>2, GraphSafe, PTL DEF Spec, ImplementsLedger, Books!Spec

=============================================================================
