--------------------------- MODULE ExitLinks_proofs ---------------------------
(***************************************************************************)
(* Proofs about ExitLinks, for every set of peers, handlers, names, ports  *)
(* and tables and any number of requests.                                  *)
(***************************************************************************)
EXTENDS ExitLinks, FiniteSetTheorems, WellFoundedInduction, TLAPS

-----------------------------------------------------------------------------
(* The allocator.                                                          *)

\* The lowest free number of a band is in the band and free, as soon as the band has a free number,
\* and no free number is lower.
LEMMA LowestFreeLeast ==
  ASSUME NEW band \in SUBSET Nat, NEW taken, band \ taken # {}
  PROVE  /\ LowestFree(band, taken) \in band \ taken
         /\ \A n \in band \ taken : LowestFree(band, taken) <= n
<1> DEFINE Less == OpToRel(<, Nat)
<1>1. IsWellFoundedOn(Less, Nat)
  BY NatLessThanWellFounded
<1>2. PICK m \in band \ taken : \A n \in band \ taken : ~(<<n, m>> \in Less)
  <2> DEFINE T == band \ taken
  <2>1. T \subseteq Nat /\ T # {}
    OBVIOUS
  <2> HIDE DEF T, Less
  <2>2. \E x \in T : \A y \in T : ~(<<y, x>> \in Less)
    BY <1>1, <2>1, WFMin
  <2> QED
    BY <2>2 DEF T
<1>3. \A n \in band \ taken : m <= n
  <2> SUFFICES ASSUME NEW n \in band \ taken, ~(m <= n)
               PROVE  FALSE
    OBVIOUS
  <2>1. n \in Nat /\ m \in Nat /\ n < m
    OBVIOUS
  <2>2. <<n, m>> \in Less
    BY <2>1 DEF OpToRel
  <2> QED
    BY <1>2, <2>2
<1> QED
  BY <1>2, <1>3 DEF LowestFree

LEMMA LowestFreeIsFree ==
  ASSUME NEW band \in SUBSET Nat, NEW taken, band \ taken # {}
  PROVE  LowestFree(band, taken) \in band \ taken
  BY LowestFreeLeast

\* What the allocator returns lies in the bands, and nobody else holds its name, port or table.
LEMMA AllocationIsFree ==
  ASSUME ConstantsOK, LinksTypeOK, NEW p \in Peer, NEW pinned \in Port \cup {None}, CanAllocate(p, pinned)
  PROVE  /\ AllocationFor(p, pinned) \in Allocation
         /\ \A q \in Peer \ {p} : ~Holds(row[q], AllocationFor(p, pinned))
<1> DEFINE a == AllocationFor(p, pinned)
<1>1. a.name \in Ordinal \ TakenNames(p)
  BY LowestFreeIsFree DEF CanAllocate, AllocationFor, ConstantsOK
<1>2. a.table \in RouteTable \ TakenTables(p)
  BY LowestFreeIsFree DEF CanAllocate, AllocationFor, ConstantsOK
<1>3. a.port \in Port \ TakenPorts(p)
  <2>1. CASE pinned = None
    BY <2>1, LowestFreeIsFree DEF CanAllocate, AllocationFor, ConstantsOK, Port
  <2>2. CASE pinned # None
    BY <2>2 DEF CanAllocate, AllocationFor
  <2> QED
    BY <2>1, <2>2
<1>4. a \in Allocation
  BY <1>1, <1>2, <1>3 DEF AllocationFor, Allocation
<1>5. ASSUME NEW q \in Peer \ {p}
      PROVE  ~Holds(row[q], a)
  BY <1>1, <1>2, <1>3 DEF TakenNames, TakenPorts, TakenTables, Holds
<1> QED
  BY <1>4, <1>5

-----------------------------------------------------------------------------
(* The shape of the state.                                                 *)

\* The records the actions build are of the types LinksTypeOK names.
LEMMA RowShapes ==
  ASSUME ConstantsOK
  PROVE  /\ Blank \in Row
         /\ IdleReq \in Req
         /\ IdleRec \in Rec
         /\ \A r \in Row, b \in Request : Written(r, b) \in Row
         /\ \A r \in Row : Cleared(r) \in Row
         /\ \A r \in Row, a \in Allocation, k \in Nat : Linked(r, a, k) \in Row
<1>1. Blank \in Row
  BY DEF Blank, Row, Role
<1>2. IdleReq \in Req
  BY <1>1 DEF IdleReq, Req
<1>3. IdleRec \in Rec
  BY <1>1 DEF IdleRec, Rec, NoAllocation
<1>4. ASSUME NEW r \in Row, NEW b \in Request
      PROVE  Written(r, b) \in Row
  <2>1. b \in Body
    BY DEF ConstantsOK
  <2>2. Merge(b.role, r.role) \in Role /\ Merge(b.via, r.via) \in Peer \cup {None} /\ Merge(b.port, r.port) \in Port \cup {None}
    BY <2>1 DEF Body, Merge, Row, Port
  <2> QED
    BY <2>2 DEF Written, Row
<1>5. ASSUME NEW r \in Row
      PROVE  Cleared(r) \in Row
  BY DEF Cleared, Row
<1>6. ASSUME NEW r \in Row, NEW a \in Allocation, NEW k \in Nat
      PROVE  Linked(r, a, k) \in Row
  BY DEF Linked, Row, Allocation
<1> QED
  BY <1>1, <1>2, <1>3, <1>4, <1>5, <1>6

\* DELETE's transaction only ever clears link columns, and leaves nothing of a row that went.
LEMMA RemoveShape ==
  ASSUME ConstantsOK, LinksTypeOK, NEW p \in Peer, Remove(p)
  PROVE  /\ live' = live \ {p}
         /\ row' \in [Peer -> Row]
         /\ \A q \in Peer \ live' : row'[q] = Blank
         /\ \A q \in Peer : row'[q].name \in {row[q].name, None} /\ row'[q].port \in {row[q].port, None}
                            /\ row'[q].table \in {row[q].table, None} /\ row'[q].key \in {row[q].key, None}
<1>1. \A q \in Peer \ live : q \notin Dependents(p)
  BY DEF LinksTypeOK, Dependents, Blank, ConstantsOK
<1>2. ASSUME NEW q \in Peer
      PROVE  /\ row'[q] \in Row
             /\ row'[q].name \in {row[q].name, None} /\ row'[q].port \in {row[q].port, None}
             /\ row'[q].table \in {row[q].table, None} /\ row'[q].key \in {row[q].key, None}
  <2>1. row[q] \in Row /\ Blank \in Row
    BY RowShapes DEF LinksTypeOK
  <2>2. CASE q = p
    BY <2>1, <2>2 DEF Remove, Blank
  <2>3. CASE q # p /\ q \in Dependents(p)
    <3>1. row'[q] = [row[q] EXCEPT !.via = None]
      BY <2>3 DEF Remove
    <3> QED
      BY <2>1, <3>1 DEF Row
  <2>4. CASE q # p /\ q \notin Dependents(p)
    BY <2>1, <2>4 DEF Remove
  <2> QED
    BY <2>2, <2>3, <2>4
<1>3. row' \in [Peer -> Row]
  BY <1>2 DEF Remove
<1> QED
  BY <1>1, <1>2, <1>3 DEF Remove, LinksTypeOK

\* The initial state is well formed, and every step keeps it so.
LEMMA TypeInit == ASSUME ConstantsOK, LinksInit PROVE LinksTypeOK
  BY RowShapes DEF ConstantsOK, LinksInit, LinksTypeOK, IdleReq, IdleRec

\* One case per action; the next row of a write comes from RowShapes or RemoveShape.
LEMMA TypeStep == ASSUME ConstantsOK, LinksTypeOK, [LinksNext]_linkVars PROVE LinksTypeOK'
<1> USE RowShapes DEF ConstantsOK
<1>1. ASSUME NEW p \in Peer, NEW b \in Request, Patch(p, b)
      PROVE  LinksTypeOK'
  <2>1. Written(row[p], b) \in Row
    BY DEF LinksTypeOK
  <2> QED
    BY <1>1, <2>1 DEF Patch, Admit, LinksTypeOK
<1>2. ASSUME NEW h \in Handler, NEW p \in Peer, NEW b \in Request, PostCheck(h, p, b)
      PROVE  LinksTypeOK'
  <2>1. Written(Blank, b) \in Row
    OBVIOUS
  <2>2. req' \in [Handler -> Req]
    BY <1>2, <2>1 DEF PostCheck, LinksTypeOK, IdleReq, Req
  <2>3. \A g \in Handler : req'[g].pc = "idle" \/ (req'[g].peer \in Peer /\ req'[g].peer \notin fresh')
    BY <1>2, <2>1 DEF PostCheck, LinksTypeOK, IdleReq
  <2> QED
    BY <1>2, <2>2, <2>3 DEF PostCheck, Admit, LinksTypeOK
<1>3. ASSUME NEW h \in Handler, PostInsert(h)
      PROVE  LinksTypeOK'
  <2>1. req[h].row \in Row /\ req[h].peer \in Peer \ fresh
    BY <1>3 DEF PostInsert, LinksTypeOK, Req
  <2>2. req' \in [Handler -> Req] /\ \A g \in Handler : req'[g].pc = "idle" \/ (req'[g].peer \in Peer /\ req'[g].peer \notin fresh')
    BY <1>3 DEF PostInsert, LinksTypeOK, IdleReq
  <2> QED
    BY <1>3, <2>1, <2>2 DEF PostInsert, LinksTypeOK
<1>4. ASSUME NEW h \in Handler, DeleteCommit(h)
      PROVE  LinksTypeOK'
  <2>1. req[h].peer \in Peer
    BY <1>4 DEF DeleteCommit, LinksTypeOK
  <2>2. req' \in [Handler -> Req] /\ \A g \in Handler : req'[g].pc = "idle" \/ (req'[g].peer \in Peer /\ req'[g].peer \notin fresh')
    BY <1>4 DEF DeleteCommit, LinksTypeOK, IdleReq
  <2> QED
    BY <1>4, <2>1, <2>2, RemoveShape DEF DeleteCommit, LinksTypeOK
<1>5. ASSUME NEW p \in Peer, DeleteUnlinked(p)
      PROVE  LinksTypeOK'
  BY <1>5, RemoveShape DEF DeleteUnlinked, Admit, LinksTypeOK
<1>6. ASSUME NEW h \in Handler, NEW p \in Peer, DeleteLinked(h, p)
      PROVE  LinksTypeOK'
  <2>1. [pc |-> "teardown", peer |-> p, row |-> row[p]] \in Req
    BY DEF Req, LinksTypeOK, Dependents
  <2> QED
    BY <1>6, <2>1 DEF DeleteLinked, Admit, LinksTypeOK
<1>7. ASSUME NEW s \in Server, NEW port \in ServerPort, PatchServer(s, port)
      PROVE  LinksTypeOK'
  BY <1>7 DEF PatchServer, Admit, LinksTypeOK
<1>8. ASSUME NEW s \in Server, RecBegin(s)
      PROVE  LinksTypeOK'
  <2>1. rec' \in Rec /\ rec'.pc = "loop"
    BY <1>8 DEF RecBegin, LinksTypeOK, IdleRec, Rec
  <2> QED
    BY <1>8, <2>1 DEF RecBegin, LinksTypeOK
<1>9. ASSUME NEW p \in Peer, RecRelease(p)
      PROVE  LinksTypeOK'
  <2>1. rec.snap[p].name \in Ordinal /\ rec.snap[p].table \in RouteTable \cup {None}
    BY <1>9 DEF RecRelease, NeedsRelease, LinksTypeOK, Rec, Row
  <2>2. rec' \in Rec /\ rec'.pc = "loop"
    BY <1>9, <2>1 DEF RecRelease, LinksTypeOK, Rec
  <2>3. p \in live => Cleared(row[p]) \in Row
    BY DEF LinksTypeOK
  <2> QED
    BY <1>9, <2>2, <2>3 DEF RecRelease, LinksTypeOK
<1>10. ASSUME NEW p \in Peer, RecAllocate(p)
       PROVE  LinksTypeOK'
  <2>1. rec.snap[p].port \in Port \cup {None}
    BY DEF LinksTypeOK, Rec, Row
  <2>2. AllocationFor(p, rec.snap[p].port) \in Allocation
    BY <1>10, <2>1, AllocationIsFree DEF RecAllocate
  <2>3. rec' \in Rec /\ rec'.cur = p /\ rec'.alloc \in Allocation
    BY <1>10, <2>2 DEF RecAllocate, LinksTypeOK, Rec
  <2> QED
    BY <1>10, <2>3 DEF RecAllocate, LinksTypeOK
<1>11. ASSUME NEW p \in Peer, RecFail(p)
       PROVE  LinksTypeOK'
  BY <1>11 DEF RecFail, LinksTypeOK, Rec
<1>12. ASSUME RecThrow
       PROVE  LinksTypeOK'
  <2>1. rec' \in Rec /\ rec'.cur = rec.cur /\ rec'.alloc = rec.alloc
    BY <1>12 DEF RecThrow, LinksTypeOK, Rec
  <2> QED
    BY <1>12, <2>1 DEF RecThrow, LinksTypeOK
<1>13. ASSUME RecWrite
       PROVE  LinksTypeOK'
  <2>1. rec.cur \in Peer /\ rec.alloc \in Allocation
    BY <1>13 DEF RecWrite, LinksTypeOK
  <2>2. Linked(row[rec.cur], rec.alloc, nextKey) \in Row
    BY <2>1 DEF LinksTypeOK
  <2>3. rec' \in Rec /\ rec'.pc = "loop"
    BY <1>13, <2>1 DEF RecWrite, LinksTypeOK, Rec, Allocation
  <2> QED
    BY <1>13, <2>1, <2>2, <2>3 DEF RecWrite, LinksTypeOK
<1>14. ASSUME RecReturn \/ RecNoKey
       PROVE  LinksTypeOK'
  <2>1. rec' = IdleRec /\ UNCHANGED <<live, fresh, row, srvPort, req, nextKey, ops>>
    BY <1>14 DEF RecReturn, RecNoKey
  <2> QED
    BY <2>1 DEF LinksTypeOK, IdleRec
<1>15. ASSUME UNCHANGED linkVars
       PROVE  LinksTypeOK'
  BY <1>15 DEF linkVars, LinksTypeOK
<1> QED
  BY <1>1, <1>2, <1>3, <1>4, <1>5, <1>6, <1>7, <1>8, <1>9, <1>10, <1>11, <1>12, <1>13, <1>14, <1>15
  DEF LinksNext, Api, Reconcile

\* Every reachable state has the shape LinksTypeOK gives, whatever the constants.
THEOREM TypeCorrect == LinksSpec => []LinksTypeOK
<1>1. LinksInit => LinksTypeOK
  BY ConstantsOK, TypeInit
<1>2. LinksTypeOK /\ [LinksNext]_linkVars => LinksTypeOK'
  BY ConstantsOK, TypeStep
<1> QED
  BY <1>1, <1>2, PTL DEF LinksSpec

-----------------------------------------------------------------------------
(* Reservations hold and no two peers share a link column.                 *)

\* A step that gives no peer a new name, table, port or key, and starts no reservation.
LEMMA ShrinkingStep ==
  ASSUME ConstantsOK, LinksInv, LinksTypeOK', nextKey' >= nextKey,
         rec'.pc \in {"keygen", "threw"} => rec.pc \in {"keygen", "threw"} /\ rec'.cur = rec.cur /\ rec'.alloc = rec.alloc,
         \A q \in Peer : row'[q].name \in {row[q].name, None} /\ row'[q].port \in {row[q].port, None}
                         /\ row'[q].table \in {row[q].table, None} /\ row'[q].key \in {row[q].key, None}
  PROVE  ReservationHolds' /\ LinksDistinct' /\ KeysBelow'
<1>1. ReservationHolds'
  <2> SUFFICES ASSUME rec'.pc \in {"keygen", "threw"}, NEW q \in Peer \ {rec'.cur}
               PROVE  row'[q].name # rec'.alloc.name /\ row'[q].table # rec'.alloc.table
    BY DEF ReservationHolds
  <2>1. row[q].name # rec.alloc.name /\ row[q].table # rec.alloc.table
    BY DEF LinksInv, ReservationHolds
  <2>2. None # rec.alloc.name /\ None # rec.alloc.table
    BY DEF LinksInv, LinksTypeOK, Allocation, ConstantsOK
  <2> QED
    BY <2>1, <2>2
<1>2. LinksDistinct'
  BY DEF LinksInv, LinksDistinct
<1>3. KeysBelow'
  <2> SUFFICES ASSUME NEW q \in Peer, row'[q].key # None
               PROVE  row'[q].key < nextKey'
    BY DEF KeysBelow
  <2>1. row'[q].key = row[q].key /\ row[q].key < nextKey
    BY DEF LinksInv, KeysBelow
  <2>2. row[q].key \in Nat /\ nextKey \in Nat /\ nextKey' \in Nat
    BY <2>1 DEF LinksInv, LinksTypeOK, Row
  <2> QED
    BY <2>1, <2>2
<1> QED
  BY <1>1, <1>2, <1>3

\* A step that changes nothing of one peer's link columns but its port, to one that is free.
LEMMA PortStep ==
  ASSUME ConstantsOK, LinksInv, LinksTypeOK', nextKey' = nextKey, rec' = rec,
         NEW p \in Peer, NEW port \in Port \cup {None},
         port # None => \A q \in Peer \ {p} : row[q].port # port,
         row'[p].name \in {row[p].name, None}, row'[p].table \in {row[p].table, None}, row'[p].key \in {row[p].key, None},
         row'[p].port = port,
         \A q \in Peer \ {p} : row'[q] = row[q]
  PROVE  ReservationHolds' /\ LinksDistinct' /\ KeysBelow'
<1>1. ReservationHolds'
  <2> SUFFICES ASSUME rec.pc \in {"keygen", "threw"}, NEW q \in Peer \ {rec.cur}
               PROVE  row'[q].name # rec.alloc.name /\ row'[q].table # rec.alloc.table
    BY DEF ReservationHolds
  <2>1. row[q].name # rec.alloc.name /\ row[q].table # rec.alloc.table
    BY DEF LinksInv, ReservationHolds
  <2>2. None # rec.alloc.name /\ None # rec.alloc.table
    BY DEF LinksInv, LinksTypeOK, Allocation, ConstantsOK
  <2> QED
    BY <2>1, <2>2
<1>2. LinksDistinct'
  BY DEF LinksInv, LinksDistinct
<1>3. KeysBelow'
  BY DEF LinksInv, KeysBelow
<1> QED
  BY <1>1, <1>2, <1>3

\* Nothing is provisioned or reserved at the start.
LEMMA InvInit == ASSUME ConstantsOK, LinksInit PROVE LinksInv
<1>1. LinksTypeOK
  BY TypeInit
<1> QED
  BY <1>1 DEF LinksInit, LinksInv, ReservationHolds, LinksDistinct, KeysBelow, InsertsUnlinked, Blank, IdleReq, IdleRec

\* Only Patch, PostInsert and RecWrite give a peer a column and only RecAllocate reserves one;
\* every other action is a ShrinkingStep.
LEMMA InvStep == ASSUME ConstantsOK, LinksInv, [LinksNext]_linkVars PROVE LinksInv'
<1>1. LinksTypeOK /\ LinksTypeOK' /\ InsertsUnlinked
  BY TypeStep DEF LinksInv
<1>2. nextKey \in Nat /\ Blank \in Row /\ \A q \in Peer : row[q] \in Row
  BY <1>1, RowShapes DEF LinksTypeOK
<1> DEFINE Goal == LinksInv'
           Rest == ReservationHolds' /\ LinksDistinct' /\ KeysBelow'
<1>3. ASSUME NEW p \in Peer, NEW b \in Request, Patch(p, b)
      PROVE  Goal
  <2>1. row'[p] = Written(row[p], b) /\ \A q \in Peer \ {p} : row'[q] = row[q]
    BY <1>1, <1>3 DEF Patch, LinksTypeOK
  <2>2. row'[p].name = row[p].name /\ row'[p].table = row[p].table /\ row'[p].key = row[p].key
        /\ row'[p].port = Merge(b.port, row[p].port)
    BY <1>2, <2>1 DEF Written, Row
  <2>3. row'[p].port \in Port \cup {None}
    BY <1>1 DEF LinksTypeOK, Row
  <2>4. row'[p].port # None => \A q \in Peer \ {p} : row[q].port # row'[p].port
    <3>1. CASE b.port = Keep
      BY <3>1, <2>2 DEF Merge, LinksInv, LinksDistinct
    <3>2. CASE b.port # Keep
      BY <3>2, <2>2, <1>3 DEF Merge, Patch, WriteAllowed, PortAllowed, TakenPorts
    <3> QED
      BY <3>1, <3>2
  <2>5. Rest
    BY <1>1, <1>3, <2>1, <2>2, <2>3, <2>4, PortStep DEF Patch
  <2> QED
    BY <1>1, <1>3, <2>5 DEF Patch, LinksInv, InsertsUnlinked
<1>4. ASSUME NEW h \in Handler, NEW p \in Peer, NEW b \in Request, PostCheck(h, p, b)
      PROVE  Goal
  <2>1. Rest
    BY <1>1, <1>2, <1>4, ShrinkingStep DEF PostCheck
  <2>2. InsertsUnlinked'
    <3>1. ASSUME NEW g \in Handler, req'[g].pc = "insert"
          PROVE  [req'[g].row EXCEPT !.port = None] = Cleared(req'[g].row)
      <4>1. CASE g # h
        BY <1>1, <1>4, <3>1, <4>1 DEF PostCheck, InsertsUnlinked, LinksTypeOK
      <4>2. CASE g = h
        <5>1. req'[g].row = Written(Blank, b)
          BY <1>1, <1>4, <4>2 DEF PostCheck, LinksTypeOK, IdleReq
        <5> QED
          BY <5>1 DEF Written, Blank, Cleared
      <4> QED
        BY <4>1, <4>2
    <3> QED
      BY <3>1 DEF InsertsUnlinked
  <2> QED
    BY <1>1, <2>1, <2>2 DEF LinksInv
<1>5. ASSUME NEW h \in Handler, PostInsert(h)
      PROVE  Goal
  <2>1. req[h].row \in Row /\ req[h].peer \in Peer
    BY <1>1, <1>5 DEF PostInsert, LinksTypeOK, Req
  <2>2. InsertsUnlinked'
    BY <1>1, <1>5 DEF PostInsert, InsertsUnlinked, LinksTypeOK, IdleReq
  <2>3. CASE UNCHANGED row
    <3>1. Rest
      BY <1>1, <1>2, <1>5, <2>3, ShrinkingStep DEF PostInsert
    <3> QED
      BY <1>1, <2>2, <3>1 DEF LinksInv
  <2>4. CASE row' = [row EXCEPT ![req[h].peer] = req[h].row]
             /\ (req[h].row.port # None => \A q \in live : row[q].port # req[h].row.port)
    <3>1. req[h].row.name = None /\ req[h].row.table = None /\ req[h].row.key = None
      <4>1. [req[h].row EXCEPT !.port = None] = Cleared(req[h].row)
        BY <1>1, <1>5 DEF PostInsert, InsertsUnlinked
      <4>2. Cleared(req[h].row).name = None /\ Cleared(req[h].row).table = None /\ Cleared(req[h].row).key = None
        BY <2>1 DEF Cleared, Row
      <4>3. /\ [req[h].row EXCEPT !.port = None].name = req[h].row.name
            /\ [req[h].row EXCEPT !.port = None].table = req[h].row.table
            /\ [req[h].row EXCEPT !.port = None].key = req[h].row.key
        BY <2>1 DEF Row
      <4> QED
        BY <4>1, <4>2, <4>3
    <3>2. req[h].row.port \in Port \cup {None}
      BY <2>1 DEF Row
    <3>3. req[h].row.port # None => \A q \in Peer \ {req[h].peer} : row[q].port # req[h].row.port
      BY <1>1, <2>4 DEF LinksTypeOK, Blank
    <3>4. Rest
      BY <1>1, <1>2, <1>5, <2>1, <2>4, <3>1, <3>2, <3>3, PortStep DEF PostInsert, LinksTypeOK
    <3> QED
      BY <1>1, <2>2, <3>4 DEF LinksInv
  <2> QED
    BY <1>5, <2>3, <2>4 DEF PostInsert
<1>6. ASSUME NEW h \in Handler, DeleteCommit(h)
      PROVE  Goal
  <2>1. req[h].peer \in Peer
    BY <1>1, <1>6 DEF DeleteCommit, LinksTypeOK
  <2>2. Rest
    BY <1>1, <1>2, <1>6, <2>1, RemoveShape, ShrinkingStep DEF DeleteCommit
  <2>3. InsertsUnlinked'
    BY <1>1, <1>6 DEF DeleteCommit, InsertsUnlinked, LinksTypeOK, IdleReq
  <2> QED
    BY <1>1, <2>2, <2>3 DEF LinksInv
<1>7. ASSUME NEW p \in Peer, DeleteUnlinked(p)
      PROVE  Goal
  <2>1. Rest
    BY <1>1, <1>2, <1>7, RemoveShape, ShrinkingStep DEF DeleteUnlinked
  <2> QED
    BY <1>1, <1>7, <2>1 DEF DeleteUnlinked, LinksInv, InsertsUnlinked
<1>8. ASSUME NEW h \in Handler, NEW p \in Peer, DeleteLinked(h, p)
      PROVE  Goal
  <2>1. Rest
    BY <1>1, <1>2, <1>8, ShrinkingStep DEF DeleteLinked
  <2>2. InsertsUnlinked'
    BY <1>1, <1>8 DEF DeleteLinked, InsertsUnlinked, LinksTypeOK
  <2> QED
    BY <1>1, <2>1, <2>2 DEF LinksInv
<1>9. ASSUME NEW s \in Server, NEW port \in ServerPort, PatchServer(s, port)
      PROVE  Goal
  <2>1. Rest
    BY <1>1, <1>2, <1>9, ShrinkingStep DEF PatchServer
  <2> QED
    BY <1>1, <1>9, <2>1 DEF PatchServer, LinksInv, InsertsUnlinked
<1>10. ASSUME \/ \E s \in Server : RecBegin(s)
              \/ \E p \in Peer : RecFail(p)
              \/ RecThrow \/ RecReturn \/ RecNoKey
       PROVE  Goal
  <2> DEFINE Kept == rec'.pc \in {"keygen", "threw"} => rec.pc \in {"keygen", "threw"} /\ rec'.cur = rec.cur /\ rec'.alloc = rec.alloc
             Same == row' = row /\ req' = req /\ nextKey' \in Nat /\ nextKey' >= nextKey
  <2>3. ASSUME NEW s \in Server, RecBegin(s)
        PROVE  Kept /\ Same
    <3>1. rec'.pc = "loop"
      BY <2>3 DEF RecBegin, IdleRec
    <3> QED
      BY <1>2, <2>3, <3>1 DEF RecBegin
  <2>4. ASSUME NEW p \in Peer, RecFail(p)
        PROVE  Kept /\ Same
    <3>1. rec'.pc = "loop"
      BY <1>1, <2>4 DEF RecFail, LinksTypeOK, Rec
    <3> QED
      BY <1>2, <2>4, <3>1 DEF RecFail
  <2>5. ASSUME RecThrow
        PROVE  Kept /\ Same
    <3>1. rec.pc = "keygen" /\ rec'.cur = rec.cur /\ rec'.alloc = rec.alloc
      BY <1>1, <2>5 DEF RecThrow, LinksTypeOK, Rec
    <3> QED
      BY <1>2, <2>5, <3>1 DEF RecThrow
  <2>6. ASSUME RecReturn \/ RecNoKey
        PROVE  Kept /\ Same
    <3>1. rec'.pc = "idle"
      BY <2>6 DEF RecReturn, RecNoKey, IdleRec
    <3> QED
      BY <1>2, <2>6, <3>1 DEF RecReturn, RecNoKey
  <2>1. Same
    BY <1>10, <2>3, <2>4, <2>5, <2>6
  <2>2. Kept
    BY <1>10, <2>3, <2>4, <2>5, <2>6
  <2>7. Rest
    BY <1>1, <1>2, <2>1, <2>2, ShrinkingStep
  <2> QED
    BY <1>1, <2>1, <2>7 DEF LinksInv, InsertsUnlinked
<1>11. ASSUME NEW p \in Peer, RecRelease(p)
       PROVE  Goal
  <2>1. row'[p] \in {row[p], Cleared(row[p])} /\ \A q \in Peer \ {p} : row'[q] = row[q]
    BY <1>1, <1>11 DEF RecRelease, LinksTypeOK
  <2>2. Cleared(row[p]).name = None /\ Cleared(row[p]).port = None /\ Cleared(row[p]).table = None /\ Cleared(row[p]).key = None
    BY <1>2 DEF Cleared, Row
  <2>3. rec'.pc = "loop"
    BY <1>1, <1>11 DEF RecRelease, LinksTypeOK, Rec
  <2>4. nextKey' = nextKey /\ req' = req
    BY <1>11 DEF RecRelease
  <2>5. Rest
    BY <1>1, <1>2, <2>1, <2>2, <2>3, <2>4, ShrinkingStep
  <2> QED
    BY <1>1, <2>4, <2>5 DEF LinksInv, InsertsUnlinked
<1>12. ASSUME NEW p \in Peer, RecAllocate(p)
       PROVE  Goal
  <2>1. rec.snap[p].port \in Port \cup {None}
    BY <1>1 DEF LinksTypeOK, Rec, Row
  <2>2. \A q \in Peer \ {p} : ~Holds(row[q], AllocationFor(p, rec.snap[p].port))
    BY <1>1, <1>12, <2>1, AllocationIsFree DEF RecAllocate
  <2>3. rec'.cur = p /\ rec'.alloc = AllocationFor(p, rec.snap[p].port)
    BY <1>1, <1>12 DEF RecAllocate, LinksTypeOK, Rec
  <2>4. ReservationHolds'
    BY <1>12, <2>2, <2>3 DEF ReservationHolds, Holds, RecAllocate
  <2> QED
    BY <1>1, <1>12, <2>4 DEF RecAllocate, LinksInv, LinksDistinct, KeysBelow, InsertsUnlinked
<1>13. ASSUME RecWrite
       PROVE  Goal
  <2>1. rec.cur \in Peer /\ rec.alloc \in Allocation /\ rec'.pc = "loop" /\ req' = req /\ nextKey' = nextKey + 1
    BY <1>1, <1>13 DEF RecWrite, LinksTypeOK, Rec
  <2>2. CASE rec.cur \notin live
    <3>1. row' = row /\ nextKey' >= nextKey
      BY <1>2, <1>13, <2>1, <2>2 DEF RecWrite
    <3>2. Rest
      BY <1>1, <2>1, <3>1, ShrinkingStep
    <3> QED
      BY <1>1, <2>1, <3>2 DEF LinksInv, InsertsUnlinked
  <2>3. CASE rec.cur \in live
    <3> DEFINE p == rec.cur
               a == rec.alloc
    <3>1. row'[p] = Linked(row[p], a, nextKey) /\ \A q \in Peer \ {p} : row'[q] = row[q]
      BY <1>1, <1>13, <2>1, <2>3 DEF RecWrite, LinksTypeOK
    <3>2. row'[p].name = a.name /\ row'[p].port = a.port /\ row'[p].table = a.table /\ row'[p].key = nextKey
      BY <1>2, <2>1, <3>1 DEF Linked, Row
    <3>3. \A q \in live \ {p} : ~Holds(row[q], a)
      BY <1>13, <2>3 DEF RecWrite, Collides
    <3>4. \A q \in Peer \ {p} : ~Holds(row[q], a)
      <4>1. None # a.name /\ None # a.port /\ None # a.table
        BY <2>1 DEF Allocation, Port, ConstantsOK
      <4>2. \A q \in Peer \ live : row[q].name = None /\ row[q].port = None /\ row[q].table = None
        BY <1>1 DEF LinksTypeOK, Blank
      <4> QED
        BY <3>3, <4>1, <4>2 DEF Holds
    <3>5. \A q \in Peer \ {p} : row[q].key # nextKey
      BY <1>2 DEF LinksInv, KeysBelow, ConstantsOK, Row
    <3>6. LinksDistinct'
      BY <2>1, <3>1, <3>2, <3>4, <3>5 DEF LinksInv, LinksDistinct, Holds
    <3>7. KeysBelow'
      BY <1>2, <2>1, <3>1, <3>2 DEF LinksInv, KeysBelow, Row
    <3>8. ReservationHolds'
      BY <2>1 DEF ReservationHolds
    <3> QED
      BY <1>1, <2>1, <3>6, <3>7, <3>8 DEF LinksInv, InsertsUnlinked
  <2> QED
    BY <2>2, <2>3
<1>14. ASSUME UNCHANGED linkVars
       PROVE  Goal
  BY <1>14 DEF linkVars, LinksInv, LinksTypeOK, ReservationHolds, LinksDistinct, KeysBelow, InsertsUnlinked
<1> QED
  BY <1>3, <1>4, <1>5, <1>6, <1>7, <1>8, <1>9, <1>10, <1>11, <1>12, <1>13, <1>14
  DEF LinksNext, Api, Reconcile

\* The inductive invariant holds in every reachable state.
THEOREM InvCorrect == LinksSpec => []LinksInv
<1>1. LinksInit => LinksInv
  BY ConstantsOK, InvInit
<1>2. LinksInv /\ [LinksNext]_linkVars => LinksInv'
  BY ConstantsOK, InvStep
<1> QED
  BY <1>1, <1>2, PTL DEF LinksSpec

\* What the reconcile picked before it waited for a key is still free when it writes it.
THEOREM ReservationsHold == LinksSpec => []ReservationHolds
<1>1. LinksInv => ReservationHolds
  BY DEF LinksInv
<1> QED
  BY <1>1, InvCorrect, PTL

\* No two peers ever share an interface name, a port, a table or a key.
THEOREM LinksAreDistinct == LinksSpec => []LinksDistinct
<1>1. LinksInv => LinksDistinct
  BY DEF LinksInv
<1> QED
  BY <1>1, InvCorrect, PTL

-----------------------------------------------------------------------------
(* Without pinned ports the reconcile never throws.                        *)

\* Without pins only RecWrite gives a row a port, and it gives the rest of the link with it.
LEMMA NoPinStep == ASSUME ConstantsOK, PinPort = {}, NoPinInv, [LinksNext]_linkVars PROVE NoPinInv'
<1>1. LinksInv /\ LinksTypeOK /\ LinksInv' /\ LinksTypeOK'
  BY InvStep DEF NoPinInv, LinksInv
<1>2. Blank \in Row /\ \A q \in Peer : row[q] \in Row
  BY <1>1, RowShapes DEF LinksTypeOK
<1> DEFINE Rows == \A q \in Peer : row'[q].port # None => IsProvisioned(row'[q])
           Inserts == \A h \in Handler : req'[h].pc = "insert" => req'[h].row.port = None
           Snaps == \A p \in rec'.todo : NeedsLink(rec'.snap[p]) => rec'.snap[p].port = None
           Free == rec'.pc = "keygen" => \A q \in Peer \ {rec'.cur} : row'[q].port # rec'.alloc.port
           Goal == Rows /\ Inserts /\ Snaps /\ Free /\ rec'.pc # "threw"
<1>3. /\ \A q \in Peer : row[q].port # None => IsProvisioned(row[q])
      /\ \A h \in Handler : req[h].pc = "insert" => req[h].row.port = None
      /\ \A p \in rec.todo : NeedsLink(rec.snap[p]) => rec.snap[p].port = None
      /\ rec.pc = "keygen" => \A q \in Peer \ {rec.cur} : row[q].port # rec.alloc.port
      /\ rec.pc # "threw"
  BY DEF NoPinInv, PortsFollowLinks, NeverCollides
<1>4. rec.pc = "keygen" => rec.alloc.port # None
  BY <1>1 DEF LinksTypeOK, Allocation, Port, ConstantsOK
<1>5. \A b \in Request : b.port \in {None, Keep}
  BY DEF ConstantsOK, Body
\* The rows a step may leave behind, where the reconcile stays where it is.
<1>6. ASSUME rec' = rec, Inserts,
             \A q \in Peer : \/ row'[q].port = None
                             \/ row'[q].port = row[q].port /\ row'[q].name = row[q].name
                                /\ row'[q].table = row[q].table /\ row'[q].key = row[q].key
      PROVE  Goal
  <2>1. Rows
    BY <1>3, <1>6 DEF IsProvisioned
  <2>2. Free
    BY <1>3, <1>4, <1>6
  <2>3. Snaps /\ rec'.pc # "threw"
    BY <1>3, <1>6
  <2> QED
    BY <1>6, <2>1, <2>2, <2>3
<1>7. ASSUME NEW p \in Peer, NEW b \in Request, Patch(p, b)
      PROVE  Goal
  <2>1. row'[p] = Written(row[p], b) /\ \A q \in Peer \ {p} : row'[q] = row[q]
    BY <1>1, <1>7 DEF Patch, LinksTypeOK
  <2>2. row'[p].name = row[p].name /\ row'[p].table = row[p].table /\ row'[p].key = row[p].key
        /\ row'[p].port = Merge(b.port, row[p].port)
    BY <1>2, <2>1 DEF Written, Row
  <2>3. row'[p].port \in {None, row[p].port}
    BY <1>5, <2>2 DEF Merge
  <2> QED
    BY <1>3, <1>6, <1>7, <2>1, <2>2, <2>3 DEF Patch
<1>8. ASSUME NEW h \in Handler, NEW p \in Peer, NEW b \in Request, PostCheck(h, p, b)
      PROVE  Goal
  <2>1. Written(Blank, b).port = None
    BY <1>5 DEF Written, Blank, Merge
  <2>2. Inserts
    BY <1>1, <1>3, <1>8, <2>1 DEF PostCheck, LinksTypeOK, IdleReq
  <2> QED
    BY <1>6, <1>8, <2>2 DEF PostCheck
<1>9. ASSUME NEW h \in Handler, PostInsert(h)
      PROVE  Goal
  <2>1. Inserts
    BY <1>1, <1>3, <1>9 DEF PostInsert, LinksTypeOK, IdleReq
  <2>2. req[h].row.port = None
    BY <1>3, <1>9 DEF PostInsert
  <2>3. \A q \in Peer : row'[q] = row[q] \/ row'[q].port = None
    BY <1>1, <1>9, <2>2 DEF PostInsert, LinksTypeOK
  <2> QED
    BY <1>6, <1>9, <2>1, <2>3 DEF PostInsert
<1>10. ASSUME NEW p \in Peer, Remove(p), rec' = rec, Inserts
       PROVE  Goal
  <2>1. ASSUME NEW q \in Peer
        PROVE  \/ row'[q].port = None
               \/ row'[q].port = row[q].port /\ row'[q].name = row[q].name
                  /\ row'[q].table = row[q].table /\ row'[q].key = row[q].key
    <3>1. CASE q = p
      BY <1>10, <3>1 DEF Remove, Blank
    <3>2. CASE q # p
      BY <1>2, <1>10, <3>2 DEF Remove, Row
    <3> QED
      BY <3>1, <3>2
  <2> QED
    BY <1>6, <1>10, <2>1
<1>11. ASSUME NEW h \in Handler, DeleteCommit(h)
       PROVE  Goal
  <2>1. req[h].peer \in Peer
    BY <1>1, <1>11 DEF DeleteCommit, LinksTypeOK
  <2>2. Inserts
    BY <1>1, <1>3, <1>11 DEF DeleteCommit, LinksTypeOK, IdleReq
  <2> QED
    BY <1>10, <1>11, <2>1, <2>2 DEF DeleteCommit
<1>12. ASSUME NEW p \in Peer, DeleteUnlinked(p)
       PROVE  Goal
  BY <1>3, <1>10, <1>12 DEF DeleteUnlinked
<1>13. ASSUME NEW h \in Handler, NEW p \in Peer, DeleteLinked(h, p)
       PROVE  Goal
  <2>1. Inserts
    BY <1>1, <1>3, <1>13 DEF DeleteLinked, LinksTypeOK
  <2> QED
    BY <1>6, <1>13, <2>1 DEF DeleteLinked
<1>14. ASSUME NEW s \in Server, NEW port \in ServerPort, PatchServer(s, port)
       PROVE  Goal
  BY <1>3, <1>6, <1>14 DEF PatchServer
<1>15. ASSUME NEW s \in Server, RecBegin(s)
       PROVE  Goal
  <2>1. rec'.pc = "loop" /\ \A p \in rec'.todo : p \in Peer /\ rec'.snap[p] = row[p]
    BY <1>1, <1>15 DEF RecBegin, IdleRec, LinksTypeOK
  <2>2. Snaps
    BY <1>3, <2>1 DEF NeedsLink
  <2> QED
    BY <1>3, <1>15, <2>1, <2>2 DEF RecBegin
<1>16. ASSUME NEW p \in Peer, RecRelease(p)
       PROVE  Goal
  <2>1. rec'.pc = "loop" /\ rec'.todo \subseteq rec.todo /\ rec'.snap = rec.snap
    BY <1>1, <1>16 DEF RecRelease, LinksTypeOK, Rec
  <2>2. \A q \in Peer : row'[q] = row[q] \/ row'[q] = Cleared(row[q])
    BY <1>1, <1>16 DEF RecRelease, LinksTypeOK
  <2>3. \A q \in Peer : Cleared(row[q]).port = None
    BY <1>2 DEF Cleared, Row
  <2> QED
    BY <1>3, <1>16, <2>1, <2>2, <2>3 DEF RecRelease
<1>17. ASSUME NEW p \in Peer, RecAllocate(p)
       PROVE  Goal
  <2>1. rec.snap[p].port \in Port \cup {None}
    BY <1>1 DEF LinksTypeOK, Rec, Row
  <2>2. \A q \in Peer \ {p} : ~Holds(row[q], AllocationFor(p, rec.snap[p].port))
    BY <1>1, <1>17, <2>1, AllocationIsFree DEF RecAllocate
  <2>3. /\ rec'.pc = "keygen" /\ rec'.cur = p /\ rec'.alloc = AllocationFor(p, rec.snap[p].port)
        /\ rec'.todo \subseteq rec.todo /\ rec'.snap = rec.snap
    BY <1>1, <1>17 DEF RecAllocate, LinksTypeOK, Rec
  <2> QED
    BY <1>3, <1>17, <2>2, <2>3 DEF RecAllocate, Holds
<1>18. ASSUME NEW p \in Peer, RecFail(p)
       PROVE  Goal
  <2>1. rec'.pc = "loop" /\ rec'.todo \subseteq rec.todo /\ rec'.snap = rec.snap
    BY <1>1, <1>18 DEF RecFail, LinksTypeOK, Rec
  <2> QED
    BY <1>3, <1>18, <2>1 DEF RecFail
<1>19. ~RecThrow
  <2> SUFFICES ASSUME rec.pc = "keygen"
               PROVE  \A q \in live \ {rec.cur} : ~Holds(row[q], rec.alloc)
    BY DEF RecThrow, Collides
  <2>1. live \subseteq Peer /\ ReservationHolds
    BY <1>1 DEF LinksInv, LinksTypeOK
  <2> QED
    BY <1>3, <2>1 DEF ReservationHolds, Holds
<1>20. ASSUME RecWrite
       PROVE  Goal
  <2>1. /\ rec.cur \in Peer /\ rec.alloc \in Allocation /\ nextKey \in Nat
        /\ rec'.pc = "loop" /\ rec'.todo = rec.todo /\ rec'.snap = rec.snap
    BY <1>1, <1>20 DEF RecWrite, LinksTypeOK, Rec
  <2>2. \A q \in Peer : row'[q] = row[q] \/ row'[q] = Linked(row[q], rec.alloc, nextKey)
    BY <1>1, <1>20 DEF RecWrite, LinksTypeOK
  <2>3. \A q \in Peer : IsProvisioned(Linked(row[q], rec.alloc, nextKey))
    BY <1>2, <2>1 DEF Linked, IsProvisioned, Row, Allocation, Port, ConstantsOK
  <2> QED
    BY <1>3, <1>20, <2>1, <2>2, <2>3 DEF RecWrite
<1>21. ASSUME RecReturn \/ RecNoKey
       PROVE  Goal
  <2>1. rec'.pc = "idle" /\ rec'.todo = {}
    BY <1>21 DEF RecReturn, RecNoKey, IdleRec
  <2> QED
    BY <1>3, <1>21, <2>1 DEF RecReturn, RecNoKey
<1>22. ASSUME UNCHANGED linkVars
       PROVE  Goal
  BY <1>3, <1>6, <1>22 DEF linkVars
<1>23. Goal
  BY <1>7, <1>8, <1>9, <1>11, <1>12, <1>13, <1>14, <1>15, <1>16, <1>17, <1>18, <1>19, <1>20, <1>21, <1>22
  DEF LinksNext, Api, Reconcile
<1> QED
  BY <1>1, <1>23 DEF NoPinInv, PortsFollowLinks, NeverCollides

\* As long as nobody pins a port, no reconcile ever breaks a UNIQUE column.
THEOREM NeverCollidesWithoutPins == ASSUME PinPort = {} PROVE LinksSpec => []NeverCollides
<1>1. LinksInit => NoPinInv
  <2> SUFFICES ASSUME LinksInit
               PROVE  NoPinInv
    OBVIOUS
  <2>1. LinksInv
    BY ConstantsOK, InvInit
  <2> QED
    BY <2>1 DEF LinksInit, NoPinInv, PortsFollowLinks, NeverCollides, IdleReq, IdleRec, Blank
<1>2. NoPinInv /\ [LinksNext]_linkVars => NoPinInv'
  BY ConstantsOK, NoPinStep
<1>3. NoPinInv => NeverCollides
  BY DEF NoPinInv
<1> QED
  BY <1>1, <1>2, <1>3, PTL DEF LinksSpec

-----------------------------------------------------------------------------
(* The choice of every peer that was there at the start stays valid.       *)

\* ChoiceAllowed guards both ends of a choice: the peer that chooses and the exit node that is unmarked.
LEMMA ChoiceStep == ASSUME ConstantsOK, ChoiceInv, [LinksNext]_linkVars PROVE ChoiceInv'
<1>1. LinksTypeOK /\ LinksTypeOK' /\ fresh \cap InitialPeer = {} /\ InsertsNew
  BY TypeStep DEF ChoiceInv
<1>2. \A p \in live \cap InitialPeer : row[p].via # None =>
        /\ row[p].via \in live /\ Home[row[p].via] = Home[p]
        /\ row[row[p].via].role = "exit" /\ row[p].role = "plain"
  BY DEF ChoiceInv, ExistingChoicesValid, ChoiceValid
<1>3. live \subseteq Peer /\ Blank \in Row /\ \A q \in Peer : row[q] \in Row
  BY <1>1, RowShapes DEF LinksTypeOK
<1> DEFINE Settling == /\ fresh' = fresh /\ live' \subseteq live
                       /\ \A h \in Handler : req'[h].pc = "insert" => req[h].pc = "insert" /\ req'[h].peer = req[h].peer
\* A step that creates no peer and queues no insert.
<1>4. ASSUME Settling
      PROVE  fresh' \cap InitialPeer = {} /\ InsertsNew'
  BY <1>1, <1>4 DEF InsertsNew
\* A step that changes neither a role nor a choice.
<1>5. ASSUME Settling, live' = live, \A q \in Peer : row'[q].role = row[q].role /\ row'[q].via = row[q].via
      PROVE  ChoiceInv'
  <2>1. ExistingChoicesValid'
    BY <1>1, <1>2, <1>3, <1>5 DEF ExistingChoicesValid, ChoiceValid, LinksTypeOK
  <2> QED
    BY <1>1, <1>4, <1>5, <2>1 DEF ChoiceInv
<1>6. ASSUME NEW p \in Peer, NEW b \in Request, Patch(p, b)
      PROVE  ChoiceInv'
  <2>1. /\ row'[p] = Written(row[p], b) /\ \A q \in Peer \ {p} : row'[q] = row[q]
        /\ live' = live /\ p \in live
    BY <1>1, <1>6 DEF Patch, LinksTypeOK
  <2>2. row'[p].role = Merge(b.role, row[p].role) /\ row'[p].via = Merge(b.via, row[p].via)
    BY <1>3, <2>1 DEF Written, Row
  <2>3. ~(row'[p].role = "exit" /\ row'[p].via # None)
    BY <1>6, <2>1 DEF Patch, WriteAllowed, ChoiceAllowed
  <2>4. row'[p].role \in {"plain", "exit"}
    BY <1>1 DEF LinksTypeOK, Row, Role
  <2>5. p \in InitialPeer /\ row'[p].via # None =>
          /\ row'[p].via \in live \ {p} /\ Home[row'[p].via] = Home[p]
          /\ row[row'[p].via].role = "exit"
    <3>1. CASE b.via = Keep
      <4>1. row'[p].via = row[p].via
        BY <2>2, <3>1 DEF Merge
      <4> QED
        BY <1>2, <2>1, <4>1
    <3>2. CASE b.via # Keep
      BY <1>6, <2>2, <3>2 DEF Merge, Patch, WriteAllowed, ChoiceAllowed
    <3> QED
      BY <3>1, <3>2
  <2>6. ASSUME NEW q \in (live \cap InitialPeer) \ {p}, row[q].via = p
        PROVE  row'[p].role = "exit"
    <3>1. Home[q] = Home[p] /\ row[p].role = "exit" /\ p # None
      BY <1>2, <2>6 DEF ConstantsOK
    <3>2. ~(b.role = "plain")
      BY <1>3, <1>6, <2>6, <3>1 DEF Patch, WriteAllowed, ChoiceAllowed, Dependents
    <3>3. b.role \in {"plain", "exit", Keep}
      BY DEF ConstantsOK, Body, Role
    <3> QED
      BY <2>2, <3>1, <3>2, <3>3 DEF Merge
  <2>7. ASSUME NEW q \in live \cap InitialPeer, row'[q].via # None
        PROVE  /\ row'[q].via \in live /\ Home[row'[q].via] = Home[q]
               /\ row'[row'[q].via].role = "exit" /\ row'[q].role = "plain"
    <3>1. CASE q = p
      BY <1>3, <2>1, <2>3, <2>4, <2>5, <2>7, <3>1
    <3>2. CASE q # p
      BY <1>2, <1>3, <2>1, <2>6, <2>7, <3>2
    <3> QED
      BY <3>1, <3>2
  <2>8. Settling
    BY <1>6, <2>1 DEF Patch
  <2> QED
    BY <1>1, <1>4, <2>1, <2>7, <2>8 DEF ChoiceInv, ExistingChoicesValid, ChoiceValid
<1>7. ASSUME NEW h \in Handler, NEW p \in Peer, NEW b \in Request, PostCheck(h, p, b)
      PROVE  ChoiceInv'
  <2>1. p \in fresh /\ fresh' = fresh \ {p} /\ live' = live /\ row' = row
    BY <1>7 DEF PostCheck
  <2>2. p \notin live \cup InitialPeer
    BY <1>1, <2>1 DEF LinksTypeOK
  <2>3. \A g \in Handler \ {h} : req'[g] = req[g] /\ (req[g].pc = "insert" => req[g].peer # p)
    BY <1>1, <1>7, <2>1 DEF PostCheck, LinksTypeOK
  <2>4. req'[h].peer = p
    BY <1>1, <1>7 DEF PostCheck, LinksTypeOK, IdleReq
  <2>5. InsertsNew'
    BY <1>1, <2>1, <2>2, <2>3, <2>4 DEF InsertsNew
  <2>6. ExistingChoicesValid'
    BY <1>2, <2>1 DEF ExistingChoicesValid, ChoiceValid
  <2> QED
    BY <1>1, <2>1, <2>5, <2>6 DEF ChoiceInv
<1>8. ASSUME NEW h \in Handler, PostInsert(h)
      PROVE  ChoiceInv'
  <2>1. req[h].pc = "insert" /\ req[h].peer \in Peer /\ req[h].peer \notin live \cup InitialPeer
    BY <1>1, <1>8 DEF PostInsert, LinksTypeOK, InsertsNew
  <2>2. req'[h].pc # "insert" /\ \A g \in Handler \ {h} : req'[g] = req[g]
    BY <1>1, <1>8 DEF PostInsert, LinksTypeOK, IdleReq
  <2>3. fresh' = fresh /\ live \subseteq live' /\ live' \subseteq live \cup {req[h].peer}
        /\ \A q \in Peer \ {req[h].peer} : row'[q] = row[q]
    BY <1>1, <1>8 DEF PostInsert, LinksTypeOK
  <2>4. InsertsNew'
    BY <1>1, <2>1, <2>2, <2>3 DEF InsertsNew
  <2>5. ExistingChoicesValid'
    BY <1>2, <1>3, <2>1, <2>3 DEF ExistingChoicesValid, ChoiceValid
  <2> QED
    BY <1>1, <2>3, <2>4, <2>5 DEF ChoiceInv
<1>9. ASSUME NEW p \in Peer, Remove(p), Settling
      PROVE  ChoiceInv'
  <2>1. /\ live' = live \ {p}
        /\ \A q \in Peer \ {p} : row'[q].role = row[q].role /\ row'[q].via = IF row[q].via = p THEN None ELSE row[q].via
    BY <1>3, <1>9 DEF Remove, Dependents, Row
  <2>2. ExistingChoicesValid'
    BY <1>2, <1>3, <2>1 DEF ExistingChoicesValid, ChoiceValid
  <2> QED
    BY <1>1, <1>4, <1>9, <2>2 DEF ChoiceInv
<1>10. ASSUME NEW h \in Handler, DeleteCommit(h)
       PROVE  ChoiceInv'
  <2>1. req[h].peer \in Peer
    BY <1>1, <1>10 DEF DeleteCommit, LinksTypeOK
  <2>2. \A g \in Handler : req'[g].pc = "insert" => req'[g] = req[g]
    BY <1>1, <1>10 DEF DeleteCommit, LinksTypeOK, IdleReq
  <2>3. Settling
    BY <1>10, <2>2 DEF DeleteCommit, Remove
  <2> QED
    BY <1>9, <1>10, <2>1, <2>3 DEF DeleteCommit
<1>11. ASSUME NEW p \in Peer, DeleteUnlinked(p)
       PROVE  ChoiceInv'
  <2>1. Settling
    BY <1>11 DEF DeleteUnlinked, Remove
  <2> QED
    BY <1>9, <1>11, <2>1 DEF DeleteUnlinked
<1>12. ASSUME NEW h \in Handler, NEW p \in Peer, DeleteLinked(h, p)
       PROVE  ChoiceInv'
  <2>1. \A g \in Handler : req'[g].pc = "insert" => req'[g] = req[g]
    BY <1>1, <1>12 DEF DeleteLinked, LinksTypeOK
  <2>2. Settling /\ live' = live /\ row' = row
    BY <1>12, <2>1 DEF DeleteLinked
  <2> QED
    BY <1>5, <2>2
<1>13. ASSUME NEW p \in Peer, RecRelease(p)
       PROVE  ChoiceInv'
  <2>1. \A q \in Peer : row'[q] = row[q] \/ row'[q] = Cleared(row[q])
    BY <1>1, <1>13 DEF RecRelease, LinksTypeOK
  <2>2. \A q \in Peer : Cleared(row[q]).role = row[q].role /\ Cleared(row[q]).via = row[q].via
    BY <1>3 DEF Cleared, Row
  <2>3. Settling /\ live' = live
    BY <1>13 DEF RecRelease
  <2> QED
    BY <1>5, <2>1, <2>2, <2>3
<1>14. ASSUME RecWrite
       PROVE  ChoiceInv'
  <2>1. \A q \in Peer : row'[q] = row[q] \/ row'[q] = Linked(row[q], rec.alloc, nextKey)
    BY <1>1, <1>14 DEF RecWrite, LinksTypeOK
  <2>2. \A q \in Peer : /\ Linked(row[q], rec.alloc, nextKey).role = row[q].role
                        /\ Linked(row[q], rec.alloc, nextKey).via = row[q].via
    BY <1>3 DEF Linked, Row
  <2>3. Settling /\ live' = live
    BY <1>14 DEF RecWrite
  <2> QED
    BY <1>5, <2>1, <2>2, <2>3
<1>15. ASSUME UNCHANGED <<live, fresh, row, req>>
       PROVE  ChoiceInv'
  BY <1>5, <1>15
<1>16. ASSUME Reconcile
       PROVE  ChoiceInv'
  <2>1. ASSUME NEW s \in Server, RecBegin(s) PROVE ChoiceInv'
    BY <1>15, <2>1 DEF RecBegin
  <2>2. ASSUME NEW p \in Peer, RecAllocate(p) \/ RecFail(p) PROVE ChoiceInv'
    BY <1>15, <2>2 DEF RecAllocate, RecFail
  <2>3. ASSUME RecThrow \/ RecReturn \/ RecNoKey PROVE ChoiceInv'
    BY <1>15, <2>3 DEF RecThrow, RecReturn, RecNoKey
  <2> QED
    BY <1>13, <1>14, <1>16, <2>1, <2>2, <2>3 DEF Reconcile
<1>17. ASSUME NEW s \in Server, NEW port \in ServerPort, PatchServer(s, port)
       PROVE  ChoiceInv'
  BY <1>15, <1>17 DEF PatchServer
<1>18. ASSUME UNCHANGED linkVars
       PROVE  ChoiceInv'
  BY <1>15, <1>18 DEF linkVars
<1> QED
  BY <1>6, <1>7, <1>8, <1>10, <1>11, <1>12, <1>16, <1>17, <1>18 DEF LinksNext, Api

\* PATCH, POST, DELETE and the reconcile, in any order, keep the choice of every peer that was
\* there at the start valid: what POST inserts unchecked harms nobody but the peer it creates.
THEOREM ExistingChoicesStayValid == LinksSpec => []ExistingChoicesValid
<1>1. LinksInit => ChoiceInv
  <2> SUFFICES ASSUME LinksInit
               PROVE  ChoiceInv
    OBVIOUS
  <2>1. LinksTypeOK
    BY ConstantsOK, TypeInit
  <2>2. ExistingChoicesValid
    BY <2>1 DEF LinksInit, ExistingChoicesValid, ChoiceValid, Blank, LinksTypeOK
  <2> QED
    BY <2>1, <2>2 DEF LinksInit, ChoiceInv, InsertsNew, IdleReq
<1>2. ChoiceInv /\ [LinksNext]_linkVars => ChoiceInv'
  BY ConstantsOK, ChoiceStep
<1>3. ChoiceInv => ExistingChoicesValid
  BY DEF ChoiceInv
<1> QED
  BY <1>1, <1>2, <1>3, PTL DEF LinksSpec

-----------------------------------------------------------------------------
(* What a step does to the rows of one server.                             *)

\* No row, no peer and no port of server s changes.
Untouched(s) ==
  /\ srvPort'[s] = srvPort[s]
  /\ \A p \in Peer : Home[p] = s => (p \in live' <=> p \in live) /\ row'[p] = row[p]

\* A choice never leaves the server, not even one that dangles, and a reconcile works for one server.
HomesInv ==
  /\ \A p \in Peer : row[p].via # None => Home[row[p].via] = Home[p]
  /\ \A h \in Handler : req[h].pc = "insert" /\ req[h].row.via # None => Home[req[h].row.via] = Home[req[h].peer]
  /\ \A p \in rec.todo : Home[p] = rec.srv
  /\ rec.pc = "keygen" => Home[rec.cur] = rec.srv

\* DELETE's transaction reaches the clients of the peer, which are peers of the same server.
LEMMA RemoveTouches ==
  ASSUME ConstantsOK, LinksTypeOK, HomesInv, NEW p \in Peer, Remove(p), srvPort' = srvPort,
         NEW s \in Server, s # Home[p]
  PROVE  Untouched(s)
<1>1. ASSUME NEW q \in Peer, Home[q] = s
      PROVE  (q \in live' <=> q \in live) /\ row'[q] = row[q]
  <2>1. q # p
    BY <1>1
  <2>2. q \notin Dependents(p)
    BY <1>1 DEF Dependents, HomesInv, ConstantsOK
  <2> QED
    BY <2>1, <2>2 DEF Remove
<1> QED
  BY <1>1 DEF Untouched

\* The reconcile writes only the rows of its own server.
LEMMA ReconcileTouches ==
  ASSUME ConstantsOK, LinksTypeOK, HomesInv, Reconcile, NEW s \in Server, s # rec.srv
  PROVE  Untouched(s)
<1>1. ASSUME NEW t \in Server, RecBegin(t)
      PROVE  Untouched(s)
  BY <1>1 DEF RecBegin, Untouched
<1>2. ASSUME NEW p \in Peer, RecRelease(p)
      PROVE  Untouched(s)
  <2>1. Home[p] # s
    BY <1>2 DEF RecRelease, HomesInv
  <2> QED
    BY <1>2, <2>1 DEF RecRelease, Untouched, LinksTypeOK
<1>3. ASSUME NEW p \in Peer, RecAllocate(p) \/ RecFail(p)
      PROVE  Untouched(s)
  BY <1>3 DEF RecAllocate, RecFail, Untouched
<1>4. ASSUME RecThrow \/ RecReturn \/ RecNoKey
      PROVE  Untouched(s)
  BY <1>4 DEF RecThrow, RecReturn, RecNoKey, Untouched
<1>5. ASSUME RecWrite
      PROVE  Untouched(s)
  <2>1. Home[rec.cur] # s
    BY <1>5 DEF RecWrite, HomesInv
  <2> QED
    BY <1>5, <2>1 DEF RecWrite, Untouched, LinksTypeOK
<1> QED
  BY <1>1, <1>2, <1>3, <1>4, <1>5 DEF Reconcile

\* An allowed choice is one of the same server, or the one the row had.
LEMMA ChoiceHome ==
  ASSUME ConstantsOK, LinksTypeOK, NEW p \in Peer, NEW r \in Row, NEW b \in Request, WriteAllowed(p, r, b),
         r.via # None => Home[r.via] = Home[p], Written(r, b).via # None
  PROVE  Home[Written(r, b).via] = Home[p]
<1>1. Written(r, b).via = Merge(b.via, r.via)
  BY DEF Written, Row
<1> QED
  BY <1>1 DEF Merge, WriteAllowed, ChoiceAllowed

LEMMA HomesInit == ASSUME ConstantsOK, LinksInit PROVE HomesInv
  BY DEF LinksInit, HomesInv, Blank, IdleReq, IdleRec

LEMMA HomesStep == ASSUME ConstantsOK, LinksTypeOK, HomesInv, [LinksNext]_linkVars PROVE HomesInv'
<1> DEFINE Rows == \A p \in Peer : row[p].via # None => Home[row[p].via] = Home[p]
           Inserts == \A h \in Handler : req[h].pc = "insert" /\ req[h].row.via # None => Home[req[h].row.via] = Home[req[h].peer]
           Loop == (\A p \in rec.todo : Home[p] = rec.srv) /\ (rec.pc = "keygen" => Home[rec.cur] = rec.srv)
<1>1. Rows /\ Inserts /\ Loop
  BY DEF HomesInv
<1>2. Blank \in Row /\ \A q \in Peer : row[q] \in Row
  BY RowShapes DEF LinksTypeOK
<1>3. ASSUME Rows', Inserts', Loop'
      PROVE  HomesInv'
  BY <1>3 DEF HomesInv
<1>4. ASSUME \A q \in Peer : row'[q].via \in {row[q].via, None}
      PROVE  Rows'
  BY <1>1, <1>4
<1>5. ASSUME \A h \in Handler : req'[h] = req[h] \/ req'[h].pc # "insert"
      PROVE  Inserts'
  BY <1>1, <1>5
<1>6. ASSUME rec' = rec
      PROVE  Loop'
  BY <1>1, <1>6
<1>7. ASSUME NEW p \in Peer, NEW b \in Request, Patch(p, b)
      PROVE  HomesInv'
  <2>1. row'[p] = Written(row[p], b) /\ \A q \in Peer \ {p} : row'[q] = row[q]
    BY <1>7 DEF Patch, LinksTypeOK
  <2>2. row'[p].via # None => Home[row'[p].via] = Home[p]
    BY <1>1, <1>2, <1>7, <2>1, ChoiceHome DEF Patch
  <2>3. Rows'
    BY <1>1, <2>1, <2>2
  <2>4. req' = req /\ rec' = rec
    BY <1>7 DEF Patch
  <2>5. Inserts' /\ Loop'
    BY <1>1, <2>4
  <2> QED
    BY <1>3, <2>3, <2>5
<1>8. ASSUME NEW h \in Handler, NEW p \in Peer, NEW b \in Request, PostCheck(h, p, b)
      PROVE  HomesInv'
  <2>1. req'[h].row = Written(Blank, b) /\ req'[h].peer = p /\ \A g \in Handler \ {h} : req'[g] = req[g]
    BY <1>8 DEF PostCheck, LinksTypeOK, IdleReq
  <2>2. Blank.via = None
    BY DEF Blank
  <2>3. Written(Blank, b).via # None => Home[Written(Blank, b).via] = Home[p]
    BY <1>2, <1>8, <2>2, ChoiceHome DEF PostCheck
  <2>4. Inserts'
    BY <1>1, <2>1, <2>3
  <2>5. row' = row /\ rec' = rec
    BY <1>8 DEF PostCheck
  <2> QED
    BY <1>1, <1>3, <2>4, <2>5
<1>9. ASSUME NEW h \in Handler, PostInsert(h)
      PROVE  HomesInv'
  <2>1. req[h].pc = "insert" /\ req[h].peer \in Peer /\ rec' = rec
    BY <1>9 DEF PostInsert, LinksTypeOK
  <2>2. \A g \in Handler : req'[g] = req[g] \/ req'[g].pc # "insert"
    BY <1>9 DEF PostInsert, LinksTypeOK, IdleReq
  <2>3. \A q \in Peer : row'[q] = row[q] \/ (q = req[h].peer /\ row'[q] = req[h].row)
    BY <1>9, <2>1 DEF PostInsert, LinksTypeOK
  <2>4. Rows'
    BY <1>1, <2>1, <2>3
  <2> QED
    BY <1>3, <1>5, <1>6, <2>1, <2>2, <2>4
<1>10. ASSUME NEW p \in Peer, Remove(p), rec' = rec, \A g \in Handler : req'[g] = req[g] \/ req'[g].pc # "insert"
       PROVE  HomesInv'
  <2>1. \A q \in Peer : row'[q].via \in {row[q].via, None}
    BY <1>2, <1>10 DEF Remove, Blank, Row
  <2> QED
    BY <1>3, <1>4, <1>5, <1>6, <1>10, <2>1
<1>11. ASSUME NEW h \in Handler, DeleteCommit(h)
       PROVE  HomesInv'
  <2>1. req[h].peer \in Peer
    BY <1>11 DEF DeleteCommit, LinksTypeOK
  <2>2. \A g \in Handler : req'[g] = req[g] \/ req'[g].pc # "insert"
    BY <1>11 DEF DeleteCommit, LinksTypeOK, IdleReq
  <2> QED
    BY <1>10, <1>11, <2>1, <2>2 DEF DeleteCommit
<1>12. ASSUME NEW p \in Peer, DeleteUnlinked(p)
       PROVE  HomesInv'
  BY <1>10, <1>12 DEF DeleteUnlinked
<1>13. ASSUME NEW h \in Handler, NEW p \in Peer, DeleteLinked(h, p)
       PROVE  HomesInv'
  <2>1. \A g \in Handler : req'[g] = req[g] \/ req'[g].pc # "insert"
    BY <1>13 DEF DeleteLinked, LinksTypeOK
  <2>2. row' = row /\ rec' = rec
    BY <1>13 DEF DeleteLinked
  <2> QED
    BY <1>1, <1>3, <1>5, <2>1, <2>2
<1>14. ASSUME NEW s \in Server, NEW port \in ServerPort, PatchServer(s, port)
       PROVE  HomesInv'
  BY <1>14 DEF PatchServer, HomesInv
<1>15. ASSUME NEW s \in Server, RecBegin(s)
       PROVE  HomesInv'
  <2>1. rec'.pc = "loop" /\ rec'.srv = s /\ \A p \in rec'.todo : Home[p] = s
    BY <1>15 DEF RecBegin, IdleRec
  <2>2. row' = row /\ req' = req
    BY <1>15 DEF RecBegin
  <2>3. Loop'
    BY <2>1
  <2> QED
    BY <1>1, <1>3, <2>2, <2>3
<1>16. ASSUME NEW p \in Peer, RecRelease(p) \/ RecAllocate(p) \/ RecFail(p)
       PROVE  HomesInv'
  <2>2. rec'.srv = rec.srv /\ rec'.todo = rec.todo \ {p} /\ p \in rec.todo /\ (rec'.pc = "keygen" => rec'.cur = p)
    BY <1>16 DEF RecRelease, RecAllocate, RecFail, LinksTypeOK, Rec
  <2>3. \A q \in Peer : row'[q].via = row[q].via
    <3>1. \A q \in Peer : row'[q] = row[q] \/ row'[q] = Cleared(row[q])
      BY <1>16 DEF RecRelease, RecAllocate, RecFail, LinksTypeOK
    <3>2. \A q \in Peer : Cleared(row[q]).via = row[q].via
      BY <1>2 DEF Cleared, Row
    <3> QED
      BY <3>1, <3>2
  <2>4. Loop' /\ Rows' /\ req' = req
    BY <1>1, <1>16, <2>2, <2>3 DEF RecRelease, RecAllocate, RecFail
  <2> QED
    BY <1>1, <1>3, <2>4
<1>17. ASSUME RecThrow
       PROVE  HomesInv'
  <2>1. rec'.pc = "threw" /\ rec'.todo = rec.todo /\ rec'.srv = rec.srv
    BY <1>17 DEF RecThrow, LinksTypeOK, Rec
  <2>2. row' = row /\ req' = req
    BY <1>17 DEF RecThrow
  <2> QED
    BY <1>1, <1>3, <2>1, <2>2
<1>18. ASSUME RecWrite
       PROVE  HomesInv'
  <2>1. rec'.pc = "loop" /\ rec'.todo = rec.todo /\ rec'.srv = rec.srv
    BY <1>18 DEF RecWrite, LinksTypeOK, Rec
  <2>2. \A q \in Peer : row'[q].via = row[q].via
    BY <1>2, <1>18 DEF RecWrite, LinksTypeOK, Linked, Row
  <2>3. req' = req
    BY <1>18 DEF RecWrite
  <2> QED
    BY <1>1, <1>3, <2>1, <2>2, <2>3
<1>19. ASSUME RecReturn \/ RecNoKey
       PROVE  HomesInv'
  BY <1>19 DEF RecReturn, RecNoKey, IdleRec, HomesInv
<1>20. ASSUME UNCHANGED linkVars
       PROVE  HomesInv'
  BY <1>20 DEF linkVars, HomesInv
<1> QED
  BY <1>7, <1>8, <1>9, <1>11, <1>12, <1>13, <1>14, <1>15, <1>16, <1>17, <1>18, <1>19, <1>20
  DEF LinksNext, Api, Reconcile

-----------------------------------------------------------------------------
(* Names and tables go together.                                           *)

\* Every step keeps the name, the table and the key of a peer, clears them, or writes name and table
\* from a reservation; and a reservation is what the allocator returned.
LEMMA LinkMoves ==
  ASSUME ConstantsOK, LinksInv, [LinksNext]_linkVars
  PROVE  /\ \A q \in Peer :
              \/ row'[q].name = row[q].name /\ row'[q].table = row[q].table /\ row'[q].key = row[q].key
              \/ row'[q].name = None /\ row'[q].table = None /\ row'[q].key = None
              \/ rec.pc = "keygen" /\ row'[q].name = rec.alloc.name /\ row'[q].table = rec.alloc.table
         /\ rec'.pc = "keygen" =>
              \/ rec.pc = "keygen" /\ rec'.alloc = rec.alloc
              \/ \E p \in Peer, pinned \in Port \cup {None} :
                   CanAllocate(p, pinned) /\ rec'.alloc = AllocationFor(p, pinned)
<1> DEFINE Kept(q) == row'[q].name = row[q].name /\ row'[q].table = row[q].table /\ row'[q].key = row[q].key
           Gone(q) == row'[q].name = None /\ row'[q].table = None /\ row'[q].key = None
           Given(q) == rec.pc = "keygen" /\ row'[q].name = rec.alloc.name /\ row'[q].table = rec.alloc.table
           Moves == \A q \in Peer : Kept(q) \/ Gone(q) \/ Given(q)
           Reserves == rec'.pc = "keygen" =>
              \/ rec.pc = "keygen" /\ rec'.alloc = rec.alloc
              \/ \E p \in Peer, pinned \in Port \cup {None} :
                   CanAllocate(p, pinned) /\ rec'.alloc = AllocationFor(p, pinned)
<1>1. LinksTypeOK /\ InsertsUnlinked
  BY DEF LinksInv
<1>2. Blank \in Row /\ \A q \in Peer : row[q] \in Row
  BY <1>1, RowShapes DEF LinksTypeOK
<1>3. ASSUME row' = row
      PROVE  Moves
  BY <1>3
<1>4. ASSUME rec' = rec
      PROVE  Reserves
  BY <1>4
<1>5. ASSUME NEW p \in Peer, NEW b \in Request, Patch(p, b)
      PROVE  Moves /\ Reserves
  <2>1. row'[p] = Written(row[p], b) /\ \A q \in Peer \ {p} : row'[q] = row[q]
    BY <1>1, <1>5 DEF Patch, LinksTypeOK
  <2>2. Kept(p)
    BY <1>2, <2>1 DEF Written, Row
  <2>3. rec' = rec
    BY <1>5 DEF Patch
  <2> QED
    BY <1>4, <2>1, <2>2, <2>3
<1>6. ASSUME NEW h \in Handler, PostInsert(h)
      PROVE  Moves /\ Reserves
  <2>1. req[h].row \in Row /\ req[h].peer \in Peer /\ rec' = rec
    BY <1>1, <1>6 DEF PostInsert, LinksTypeOK, Req
  <2>2. [req[h].row EXCEPT !.port = None] = Cleared(req[h].row)
    BY <1>1, <1>6 DEF PostInsert, InsertsUnlinked
  <2>3. /\ Cleared(req[h].row).name = None /\ Cleared(req[h].row).table = None
        /\ Cleared(req[h].row).key = None
    BY <2>1 DEF Cleared, Row
  <2>4. /\ [req[h].row EXCEPT !.port = None].name = req[h].row.name
        /\ [req[h].row EXCEPT !.port = None].table = req[h].row.table
        /\ [req[h].row EXCEPT !.port = None].key = req[h].row.key
    BY <2>1 DEF Row
  <2>5. \A q \in Peer : row'[q] = row[q] \/ row'[q] = req[h].row
    BY <1>1, <1>6, <2>1 DEF PostInsert, LinksTypeOK
  <2>6. Moves
    BY <2>2, <2>3, <2>4, <2>5
  <2> QED
    BY <1>4, <2>1, <2>6
<1>7. ASSUME NEW p \in Peer, Remove(p), rec' = rec
      PROVE  Moves /\ Reserves
  <2>1. ASSUME NEW q \in Peer
        PROVE  Kept(q) \/ Gone(q)
    <3>1. CASE q = p
      BY <1>7, <3>1 DEF Remove, Blank
    <3>2. CASE q # p /\ q \in Dependents(p)
      <4>1. row'[q] = [row[q] EXCEPT !.via = None]
        BY <1>7, <3>2 DEF Remove
      <4> QED
        BY <1>2, <4>1 DEF Row
    <3>3. CASE q # p /\ q \notin Dependents(p)
      BY <1>7, <3>3 DEF Remove
    <3> QED
      BY <3>1, <3>2, <3>3
  <2> QED
    BY <1>4, <1>7, <2>1
<1>8. ASSUME NEW h \in Handler, DeleteCommit(h)
      PROVE  Moves /\ Reserves
  <2>1. req[h].peer \in Peer
    BY <1>1, <1>8 DEF DeleteCommit, LinksTypeOK
  <2> QED
    BY <1>7, <1>8, <2>1 DEF DeleteCommit
<1>9. ASSUME NEW p \in Peer, DeleteUnlinked(p)
      PROVE  Moves /\ Reserves
  BY <1>7, <1>9 DEF DeleteUnlinked
<1>10. ASSUME \/ \E h \in Handler, p \in Peer : DeleteLinked(h, p) \/ \E b \in Request : PostCheck(h, p, b)
              \/ \E s \in Server, port \in ServerPort : PatchServer(s, port)
              \/ UNCHANGED linkVars
       PROVE  Moves /\ Reserves
  <2>1. row' = row /\ rec' = rec
    BY <1>10 DEF DeleteLinked, PostCheck, PatchServer, linkVars
  <2> QED
    BY <1>3, <1>4, <2>1
<1>11. ASSUME NEW p \in Peer, RecRelease(p)
       PROVE  Moves /\ Reserves
  <2>1. \A q \in Peer : row'[q] = row[q] \/ row'[q] = Cleared(row[q])
    BY <1>1, <1>11 DEF RecRelease, LinksTypeOK
  <2>2. \A q \in Peer : Cleared(row[q]).name = None /\ Cleared(row[q]).table = None /\ Cleared(row[q]).key = None
    BY <1>2 DEF Cleared, Row
  <2>3. rec'.pc = "loop"
    BY <1>1, <1>11 DEF RecRelease, LinksTypeOK, Rec
  <2> QED
    BY <2>1, <2>2, <2>3
<1>12. ASSUME NEW p \in Peer, RecAllocate(p)
       PROVE  Moves /\ Reserves
  <2>1. rec.snap[p].port \in Port \cup {None}
    BY <1>1 DEF LinksTypeOK, Rec, Row
  <2>2. CanAllocate(p, rec.snap[p].port) /\ rec'.alloc = AllocationFor(p, rec.snap[p].port)
    BY <1>1, <1>12 DEF RecAllocate, LinksTypeOK, Rec
  <2>3. row' = row
    BY <1>12 DEF RecAllocate
  <2> QED
    BY <1>3, <2>1, <2>2, <2>3
<1>13. ASSUME RecWrite
       PROVE  Moves /\ Reserves
  <2>1. rec.cur \in Peer /\ rec.alloc \in Allocation /\ rec'.pc = "loop" /\ rec.pc = "keygen"
    BY <1>1, <1>13 DEF RecWrite, LinksTypeOK, Rec
  <2>2. \A q \in Peer : row'[q] = row[q] \/ row'[q] = Linked(row[q], rec.alloc, nextKey)
    BY <1>1, <1>13 DEF RecWrite, LinksTypeOK
  <2>3. \A q \in Peer : /\ Linked(row[q], rec.alloc, nextKey).name = rec.alloc.name
                        /\ Linked(row[q], rec.alloc, nextKey).table = rec.alloc.table
    BY <1>2 DEF Linked, Row
  <2> QED
    BY <2>1, <2>2, <2>3
<1>14. ASSUME \/ \E s \in Server : RecBegin(s)
              \/ \E p \in Peer : RecFail(p)
              \/ RecThrow \/ RecReturn \/ RecNoKey
       PROVE  Moves /\ Reserves
  <2>1. row' = row
    BY <1>14 DEF RecBegin, RecFail, RecThrow, RecReturn, RecNoKey
  <2>2. rec'.pc # "keygen"
    <3>1. ASSUME NEW s \in Server, RecBegin(s)
          PROVE  rec'.pc # "keygen"
      BY <3>1 DEF RecBegin, IdleRec
    <3>2. ASSUME NEW p \in Peer, RecFail(p)
          PROVE  rec'.pc # "keygen"
      BY <1>1, <3>2 DEF RecFail, LinksTypeOK, Rec
    <3>3. ASSUME RecThrow
          PROVE  rec'.pc # "keygen"
      BY <1>1, <3>3 DEF RecThrow, LinksTypeOK, Rec
    <3>4. ASSUME RecReturn \/ RecNoKey
          PROVE  rec'.pc # "keygen"
      BY <3>4 DEF RecReturn, RecNoKey, IdleRec
    <3> QED
      BY <1>14, <3>1, <3>2, <3>3, <3>4
  <2> QED
    BY <1>3, <2>1, <2>2
<1>15. Moves /\ Reserves
  BY <1>5, <1>6, <1>8, <1>9, <1>10, <1>11, <1>12, <1>13, <1>14 DEF LinksNext, Api, Reconcile
<1> QED
  BY <1>15

\* No link has a name that a server goes by.
NamesInv ==
  /\ \A p \in Peer : row[p].name \notin ServerOrdinal \ {None}
  /\ rec.pc = "keygen" => rec.alloc.name \notin ServerOrdinal

LEMMA NamesInit == ASSUME LinksInit PROVE NamesInv
  BY DEF LinksInit, NamesInv, Blank, IdleRec

LEMMA NamesStep == ASSUME ConstantsOK, LinksInv, NamesInv, [LinksNext]_linkVars PROVE NamesInv'
<1>1. ASSUME NEW p \in Peer, NEW pinned, CanAllocate(p, pinned)
      PROVE  AllocationFor(p, pinned).name \notin ServerOrdinal
  BY <1>1, LowestFreeIsFree DEF CanAllocate, AllocationFor, TakenNames, ConstantsOK
<1> QED
  BY <1>1, LinkMoves DEF NamesInv

\* A row without a link has neither a table nor a key; it may have a port.
BareInv == \A p \in Peer : row[p].name = None => row[p].table = None /\ row[p].key = None

LEMMA BareInit == ASSUME LinksInit PROVE BareInv
  BY DEF LinksInit, BareInv, Blank

LEMMA BareStep == ASSUME ConstantsOK, LinksInv, BareInv, [LinksNext]_linkVars PROVE BareInv'
<1>1. rec.pc = "keygen" => rec.alloc.name # None
  BY DEF LinksInv, LinksTypeOK, Allocation, ConstantsOK
<1> QED
  BY <1>1, LinkMoves DEF BareInv

\* T pairs the n-th member of X with the n-th of Y, for as many as there are of both.
Nth(T, X, Y) ==
  /\ DOMAIN T \subseteq X /\ T \in [DOMAIN T -> Y]
  /\ \A m \in X, n \in DOMAIN T : m < n => m \in DOMAIN T /\ T[m] < T[n]
  /\ \A y \in Y, n \in DOMAIN T : y < T[n] => \E m \in DOMAIN T : m < n /\ T[m] = y
  /\ DOMAIN T = X \/ \A y \in Y : \E n \in DOMAIN T : T[n] = y

LEMMA NthInjective ==
  ASSUME NEW X \in SUBSET Nat, NEW Y \in SUBSET Nat, NEW T, Nth(T, X, Y), NEW m \in DOMAIN T, NEW n \in DOMAIN T, T[m] = T[n]
  PROVE  m = n
<1>1. m \in Nat /\ n \in Nat /\ T[m] \in Nat /\ T[n] \in Nat
  BY DEF Nth
<1>2. ~(m < n) /\ ~(n < m)
  BY <1>1 DEF Nth
<1> QED
  BY <1>1, <1>2

\* The least free member of the one goes with the least of the other, if both are free together.
LEMMA LeastTogether ==
  ASSUME NEW X \in SUBSET Nat, NEW Y \in SUBSET Nat, NEW T, Nth(T, X, Y),
         NEW freeX \in SUBSET X, NEW freeY \in SUBSET Y,
         NEW n \in freeX, \A m \in freeX : n <= m, NEW t \in freeY, \A u \in freeY : t <= u,
         \A m \in DOMAIN T : m \in freeX <=> T[m] \in freeY
  PROVE  n \in DOMAIN T /\ t = T[n]
<1>1. n \in DOMAIN T
  <2>1. CASE DOMAIN T = X
    BY <2>1
  <2>2. CASE \A u \in Y : \E m \in DOMAIN T : T[m] = u
    <3>1. PICK m \in DOMAIN T : T[m] = t
      BY <2>2
    <3>2. m \in freeX /\ n <= m /\ m \in Nat /\ n \in Nat
      BY <3>1
    <3>3. n = m \/ n < m
      BY <3>2
    <3> QED
      BY <3>1, <3>3 DEF Nth
  <2> QED
    BY <2>1, <2>2 DEF Nth
<1>2. T[n] \in freeY /\ t <= T[n] /\ t \in Nat /\ T[n] \in Nat
  BY <1>1
<1>3. ~(t < T[n])
  <2> SUFFICES ASSUME t < T[n]
               PROVE  FALSE
    OBVIOUS
  <2>1. PICK m \in DOMAIN T : m < n /\ T[m] = t
    BY <1>1 DEF Nth
  <2>2. m \in freeX /\ n <= m /\ m \in Nat /\ n \in Nat
    BY <2>1
  <2> QED
    BY <2>1, <2>2
<1> QED
  BY <1>1, <1>2, <1>3

\* The n-th name goes with the n-th table: Table says which.
NthTable(Table) == Nth(Table, Ordinal \ ServerOrdinal, RouteTable)

Follows(Table, link) == link.name \in DOMAIN Table /\ link.table = Table[link.name]

TablesInv(Table) ==
  /\ \A p \in Peer : {row[p].name, row[p].table} = {None} \/ Follows(Table, row[p])
  /\ rec.pc = "keygen" => Follows(Table, rec.alloc)

LEMMA TablesInit == ASSUME NEW Table, LinksInit PROVE TablesInv(Table)
  BY DEF LinksInit, TablesInv, Blank, IdleRec

\* The lowest free table is that of the lowest free name, since names and tables are taken together.
LEMMA LowestTogether ==
  ASSUME ConstantsOK, LinksTypeOK, NEW Table, NthTable(Table), TablesInv(Table),
         NEW p \in Peer, NEW pinned, CanAllocate(p, pinned)
  PROVE  Follows(Table, AllocationFor(p, pinned))
<1> DEFINE names == Ordinal \ TakenNames(p)
           tables == RouteTable \ TakenTables(p)
           n == LowestFree(Ordinal, TakenNames(p))
           t == LowestFree(RouteTable, TakenTables(p))
<1>1. n \in names /\ \A m \in names : n <= m
  BY LowestFreeLeast DEF CanAllocate, ConstantsOK
<1>2. t \in tables /\ \A u \in tables : t <= u
  BY LowestFreeLeast DEF CanAllocate, ConstantsOK
<1>3. /\ Ordinal \ ServerOrdinal \in SUBSET Nat /\ RouteTable \in SUBSET Nat
      /\ names \in SUBSET (Ordinal \ ServerOrdinal) /\ tables \in SUBSET RouteTable
      /\ Nth(Table, Ordinal \ ServerOrdinal, RouteTable)
  BY DEF ConstantsOK, TakenNames, NthTable
\* A name is taken by another peer exactly when its table is.
<1>4. ASSUME NEW m \in DOMAIN Table
      PROVE  m \in names <=> Table[m] \in tables
  <2>1. m \in Ordinal \ ServerOrdinal /\ Table[m] \in RouteTable /\ m # None /\ Table[m] # None
    BY <1>3, <1>4 DEF Nth, ConstantsOK
  <2>2. ASSUME NEW k \in DOMAIN Table, Table[k] = Table[m]
        PROVE  k = m
    BY <1>3, <1>4, <2>2, NthInjective
  <2>3. ASSUME NEW q \in Peer
        PROVE  row[q].name = m <=> row[q].table = Table[m]
    <3>1. CASE {row[q].name, row[q].table} = {None}
      <4>1. row[q].name = None /\ row[q].table = None
        BY <3>1
      <4> QED
        BY <2>1, <4>1
    <3>2. CASE row[q].name \in DOMAIN Table /\ row[q].table = Table[row[q].name]
      BY <2>2, <3>2
    <3> QED
      BY <3>1, <3>2 DEF TablesInv, Follows
  <2> QED
    BY <2>1, <2>3 DEF TakenNames, TakenTables
<1>5. n \in DOMAIN Table /\ t = Table[n]
  <2> HIDE DEF n, t, names, tables
  <2> QED
    BY <1>1, <1>2, <1>3, <1>4, LeastTogether
<1> QED
  BY <1>5 DEF Follows, AllocationFor

LEMMA TablesStep ==
  ASSUME ConstantsOK, LinksInv, NEW Table, NthTable(Table), TablesInv(Table), [LinksNext]_linkVars
  PROVE  TablesInv(Table)'
<1>1. ASSUME NEW p \in Peer, NEW pinned, CanAllocate(p, pinned)
      PROVE  Follows(Table, AllocationFor(p, pinned))
  BY <1>1, LowestTogether DEF LinksInv
<1>2. \A q \in Peer : {row'[q].name, row'[q].table} = {None} \/ Follows(Table, row'[q])
  BY LinkMoves DEF TablesInv, Follows
<1>3. rec'.pc = "keygen" => Follows(Table, rec'.alloc)
  BY <1>1, LinkMoves DEF TablesInv
<1> QED
  BY <1>2, <1>3 DEF TablesInv

-----------------------------------------------------------------------------
(* Two sets are paired like that: two members go together when as many     *)
(* are below the one as below the other.                                   *)

Rank(X, n) == Cardinality({m \in X : m < n})

LEMMA Least ==
  ASSUME NEW X \in SUBSET Nat, X # {}
  PROVE  \E m \in X : \A n \in X : m <= n
<1> DEFINE least == LowestFree(X, {})
<1>1. X \ {} = X
  OBVIOUS
<1>2. X \ {} # {}
  BY <1>1
<1>3. least \in X \ {} /\ \A n \in X \ {} : least <= n
  BY <1>2, LowestFreeLeast
<1> HIDE DEF least
<1> QED
  BY <1>1, <1>3

LEMMA RankNat ==
  ASSUME NEW X \in SUBSET Nat, NEW n \in X
  PROVE  IsFiniteSet({m \in X : m < n}) /\ Rank(X, n) \in Nat
<1>1. IsFiniteSet({m \in X : m < n})
  BY FS_BoundedSetOfNaturals
<1> QED
  BY <1>1, FS_CardinalityType DEF Rank

LEMMA RankGrows ==
  ASSUME NEW X \in SUBSET Nat, NEW m \in X, NEW n \in X, m < n
  PROVE  Rank(X, m) \in Nat /\ Rank(X, n) \in Nat /\ Rank(X, m) < Rank(X, n)
<1> DEFINE B(k) == {u \in X : u < k}
<1>1. ASSUME NEW k \in X
      PROVE  IsFiniteSet(B(k))
  BY FS_BoundedSetOfNaturals
<1>2. IsFiniteSet(B(m) \cup {m}) /\ Cardinality(B(m) \cup {m}) = Cardinality(B(m)) + 1
  <2>1. m \notin B(m)
    OBVIOUS
  <2> QED
    BY <1>1, <2>1, FS_AddElement
<1>3. B(m) \cup {m} \in SUBSET B(n)
  <2>1. ASSUME NEW u \in X, u < m
        PROVE  u < n
    BY <2>1
  <2> QED
    BY <2>1
<1>4. Cardinality(B(m) \cup {m}) <= Cardinality(B(n))
  BY <1>1, <1>3, FS_Subset
<1>5. Cardinality(B(m)) \in Nat /\ Cardinality(B(n)) \in Nat
  BY <1>1, FS_CardinalityType
<1> HIDE DEF B
<1>6. Cardinality(B(m)) < Cardinality(B(n))
  BY <1>2, <1>4, <1>5
<1> QED
  BY <1>5, <1>6 DEF Rank, B

\* Ranks have no gaps.
LEMMA RankReached ==
  ASSUME NEW X \in SUBSET Nat, NEW t \in X, NEW j \in Nat, j < Rank(X, t)
  PROVE  \E w \in X : Rank(X, w) = j
<1> DEFINE B(k) == {u \in X : u < k}
           high == {k \in X : j < Rank(X, k)}
<1>1. ASSUME NEW k \in X
      PROVE  IsFiniteSet(B(k)) /\ Cardinality(B(k)) \in Nat /\ Rank(X, k) = Cardinality(B(k))
  <2>1. IsFiniteSet(B(k)) /\ Rank(X, k) \in Nat
    BY RankNat
  <2> QED
    BY <2>1 DEF Rank
\* The least number of too high a rank, and its predecessor.
<1>2. PICK v \in high : \A k \in high : v <= k
  <2>1. high \in SUBSET Nat /\ high # {}
    OBVIOUS
  <2> HIDE DEF high
  <2> QED
    BY <2>1, Least
<1>3. v \in X /\ v \in Nat /\ j < Cardinality(B(v)) /\ B(v) # {}
  <2>1. v \in X /\ j < Rank(X, v)
    BY <1>2
  <2>2. Cardinality(B(v)) # 0
    BY <1>1, <2>1
  <2> QED
    BY <1>1, <2>1, <2>2, FS_EmptySet
<1>4. PICK w \in B(v) : \A u \in B(v) : u <= w
  <2> DEFINE gaps == {v - u : u \in B(v)}
  <2>1. gaps \in SUBSET Nat /\ gaps # {}
    <3>1. ASSUME NEW u \in B(v)
          PROVE  v - u \in Nat
      <4>1. u \in Nat /\ u < v
        OBVIOUS
      <4> QED
        BY <1>3, <4>1
    <3> QED
      BY <1>3, <3>1
  <2>2. PICK d \in gaps : \A e \in gaps : d <= e
    <3> HIDE DEF gaps
    <3> QED
      BY <2>1, Least
  <2>3. PICK u \in B(v) : d = v - u
    BY <2>2
  <2>4. ASSUME NEW x \in B(v)
        PROVE  x <= u
    <3>1. d <= v - x
      BY <2>2
    <3> QED
      BY <1>3, <2>3, <3>1
  <2> QED
    BY <2>3, <2>4
<1>5. w \in X /\ w \in Nat /\ w < v
  BY <1>4
<1>6. B(v) = B(w) \cup {w} /\ w \notin B(w)
  <2>1. ASSUME NEW u \in X
        PROVE  u < v <=> (u < w \/ u = w)
    <3>1. u \in Nat /\ (u < v => u <= w)
      BY <1>4
    <3> QED
      BY <1>3, <1>5, <3>1
  <2>2. ~(w < w)
    BY <1>5
  <2> QED
    BY <1>5, <2>1, <2>2
<1>7. Cardinality(B(v)) = Cardinality(B(w)) + 1
  <2>1. IsFiniteSet(B(w))
    BY <1>1, <1>5
  <2> HIDE DEF B
  <2> QED
    BY <1>6, <2>1, FS_AddElement
<1>8. ~(j < Rank(X, w))
  BY <1>2, <1>3, <1>5
<1>9. Cardinality(B(w)) = j
  <2>1. Cardinality(B(w)) \in Nat /\ Rank(X, w) = Cardinality(B(w))
    BY <1>1, <1>5
  <2> HIDE DEF B
  <2> QED
    BY <1>3, <1>7, <1>8, <2>1
<1> QED
  BY <1>1, <1>5, <1>9

LEMMA NthExists == ASSUME NEW names \in SUBSET Nat, NEW Y \in SUBSET Nat PROVE \E T : Nth(T, names, Y)
<1> DEFINE dom == {n \in names : \E t \in Y : Rank(Y, t) = Rank(names, n)}
           T == [n \in dom |-> CHOOSE t \in Y : Rank(Y, t) = Rank(names, n)]
<1>1. names \in SUBSET Nat /\ Y \in SUBSET Nat
  OBVIOUS
<1>2. ASSUME NEW X \in SUBSET Nat, NEW m \in X, NEW n \in X
      PROVE  /\ Rank(X, m) \in Nat
             /\ Rank(X, m) < Rank(X, n) => m < n
             /\ Rank(X, m) = Rank(X, n) => m = n
  <2>1. Rank(X, m) \in Nat /\ Rank(X, n) \in Nat
    BY RankNat
  <2>2. m \in Nat /\ n \in Nat
    OBVIOUS
  <2>3. m < n => Rank(X, m) < Rank(X, n)
    BY RankGrows
  <2>4. n < m => Rank(X, n) < Rank(X, m)
    BY RankGrows
  <2> QED
    BY <2>1, <2>2, <2>3, <2>4
<1>3. ASSUME NEW n \in dom
      PROVE  T[n] \in Y /\ Rank(Y, T[n]) = Rank(names, n)
  OBVIOUS
<1>4. DOMAIN T = dom /\ dom \subseteq names
  OBVIOUS
<1>5. T \in [dom -> Y]
  BY <1>3, <1>4
<1>6. ASSUME NEW n \in names, NEW t \in Y, Rank(Y, t) = Rank(names, n)
      PROVE  n \in dom
  BY <1>6
<1> HIDE DEF dom, T
<1>7. ASSUME NEW m \in names, NEW n \in dom, m < n
      PROVE  m \in dom /\ T[m] < T[n]
  <2>1. Rank(names, m) \in Nat /\ Rank(names, m) < Rank(names, n)
    BY <1>1, <1>4, <1>7, RankGrows
  <2>2. Rank(names, m) < Rank(Y, T[n])
    BY <1>3, <2>1
  <2>3. m \in dom
    BY <1>1, <1>3, <1>6, <2>1, <2>2, RankReached
  <2>4. Rank(Y, T[m]) < Rank(Y, T[n])
    BY <1>3, <2>2, <2>3
  <2> QED
    BY <1>1, <1>2, <1>3, <2>3, <2>4
<1>8. ASSUME NEW t \in Y, NEW n \in dom, t < T[n]
      PROVE  \E m \in dom : m < n /\ T[m] = t
  <2>1. Rank(Y, t) \in Nat /\ Rank(Y, t) < Rank(Y, T[n])
    BY <1>1, <1>3, <1>8, RankGrows
  <2>2. Rank(Y, t) < Rank(names, n) /\ n \in names
    BY <1>3, <1>4, <2>1
  <2>3. PICK m \in names : Rank(names, m) = Rank(Y, t)
    BY <1>1, <2>1, <2>2, RankReached
  <2>4. m \in dom
    BY <1>6, <2>3
  <2>5. m < n
    <3>1. Rank(names, m) < Rank(names, n)
      BY <2>2, <2>3
    <3> QED
      BY <1>1, <1>2, <2>2, <3>1
  <2>6. Rank(Y, T[m]) = Rank(Y, t) /\ T[m] \in Y
    BY <1>3, <2>3, <2>4
  <2>7. T[m] = t
    BY <1>1, <1>2, <2>6
  <2> QED
    BY <2>4, <2>5, <2>7
<1>9. dom = names \/ \A t \in Y : \E n \in dom : T[n] = t
  <2> SUFFICES ASSUME NEW m \in names \ dom, NEW t \in Y
               PROVE  \E n \in dom : T[n] = t
    BY <1>4
  <2>1. Rank(names, m) \in Nat /\ Rank(Y, t) \in Nat
    BY <1>1, <1>2
  <2>2. Rank(names, m) # Rank(Y, t)
    BY <1>6
  <2>3. ~(Rank(names, m) < Rank(Y, t))
    BY <1>1, <1>6, <2>1, RankReached
  <2>4. PICK n \in names : Rank(names, n) = Rank(Y, t)
    <3>1. Rank(Y, t) < Rank(names, m)
      BY <2>1, <2>2, <2>3
    <3> QED
      BY <1>1, <2>1, <3>1, RankReached
  <2>5. n \in dom
    BY <1>6, <2>4
  <2>6. Rank(Y, T[n]) = Rank(Y, t) /\ T[n] \in Y
    BY <1>3, <2>4, <2>5
  <2>7. T[n] = t
    BY <1>1, <1>2, <2>6
  <2> QED
    BY <2>5, <2>7
<1>10. Nth(T, names, Y)
  BY <1>4, <1>5, <1>7, <1>8, <1>9 DEF Nth
<1> QED
  BY <1>10

LEMMA TableExists == ASSUME ConstantsOK PROVE \E Table : NthTable(Table)
<1>1. Ordinal \ ServerOrdinal \in SUBSET Nat /\ RouteTable \in SUBSET Nat
  BY DEF ConstantsOK
<1> QED
  BY <1>1, NthExists DEF NthTable

-----------------------------------------------------------------------------
(* Where requests write no port, a link is whole or not there at all, and  *)
(* a name stays with its peer until the reconcile releases it.             *)

\* No request pins a port, and none clears one.
NoPorts == PinPort = {} /\ \A b \in Request : b.port # None

\* Peer p is neither to come nor about to be inserted: once its row is gone, it is gone for good.
Known(p) == p \notin fresh /\ \A h \in Handler : req[h].pc = "insert" => req[h].peer # p

WholeLinks ==
  /\ \A p \in Peer : row[p].name # None => IsProvisioned(row[p])
  /\ \A p \in rec.todo : /\ Known(p)
                         /\ p \in live => row[p].name = rec.snap[p].name
                         /\ NeedsLink(rec.snap[p]) => rec.snap[p].name = None
  /\ rec.pc = "keygen" => row[rec.cur].name = None /\ rec.cur \notin rec.todo

WholeInv == NoPinInv /\ ChoiceInv /\ WholeLinks

LEMMA KnownStays ==
  ASSUME LinksTypeOK, [LinksNext]_linkVars, NEW p \in Peer, Known(p)
  PROVE  Known(p)'
<1> DEFINE Shrinks == /\ fresh' \subseteq fresh
                      /\ \A h \in Handler : req'[h].pc = "insert" =>
                           \/ req[h].pc = "insert" /\ req'[h].peer = req[h].peer
                           \/ req'[h].peer \in fresh
<1>1. ASSUME Shrinks
      PROVE  Known(p)'
  BY <1>1 DEF Known
<1>2. ASSUME NEW q \in Peer, NEW b \in Request, Patch(q, b)
      PROVE  Shrinks
  BY <1>2 DEF Patch
<1>3. ASSUME NEW h \in Handler, NEW q \in Peer, NEW b \in Request, PostCheck(h, q, b)
      PROVE  Shrinks
  BY <1>3 DEF PostCheck, LinksTypeOK, IdleReq
<1>4. ASSUME NEW h \in Handler, PostInsert(h) \/ DeleteCommit(h)
      PROVE  Shrinks
  <2>1. fresh' = fresh /\ req' = [req EXCEPT ![h] = IdleReq]
    BY <1>4 DEF PostInsert, DeleteCommit
  <2> QED
    BY <2>1 DEF LinksTypeOK, IdleReq
<1>5. ASSUME NEW q \in Peer, DeleteUnlinked(q)
      PROVE  Shrinks
  BY <1>5 DEF DeleteUnlinked
<1>6. ASSUME NEW h \in Handler, NEW q \in Peer, DeleteLinked(h, q)
      PROVE  Shrinks
  BY <1>6 DEF DeleteLinked, LinksTypeOK
<1>7. ASSUME NEW s \in Server, NEW port \in ServerPort, PatchServer(s, port)
      PROVE  Shrinks
  BY <1>7 DEF PatchServer
<1>8. ASSUME Reconcile \/ UNCHANGED linkVars
      PROVE  Shrinks
  <2>1. fresh' = fresh /\ req' = req
    BY <1>8 DEF Reconcile, RecBegin, RecRelease, RecAllocate, RecFail, RecThrow, RecWrite, RecReturn, RecNoKey, linkVars
  <2> QED
    BY <2>1
<1> QED
  BY <1>1, <1>2, <1>3, <1>4, <1>5, <1>6, <1>7, <1>8 DEF LinksNext, Api

\* A request leaves the link of a peer as it is, or removes the peer with it.
LEMMA ApiKeepsLinks ==
  ASSUME ConstantsOK, NoPorts, LinksInv, Api
  PROVE  /\ rec' = rec
         /\ \A q \in Peer : \/ row'[q].name = None
                            \/ /\ row'[q].name = row[q].name /\ row'[q].port = row[q].port
                               /\ row'[q].table = row[q].table /\ row'[q].key = row[q].key
         /\ \A q \in Peer : Known(q) /\ q \in live' => q \in live /\ row'[q].name = row[q].name
<1> DEFINE Kept(q) == /\ row'[q].name = row[q].name /\ row'[q].port = row[q].port
                      /\ row'[q].table = row[q].table /\ row'[q].key = row[q].key
           Goal == /\ rec' = rec
                   /\ \A q \in Peer : row'[q].name = None \/ Kept(q)
                   /\ \A q \in Peer : Known(q) /\ q \in live' => q \in live /\ row'[q].name = row[q].name
<1>1. LinksTypeOK /\ InsertsUnlinked
  BY DEF LinksInv
<1>2. Blank \in Row /\ \A q \in Peer : row[q] \in Row
  BY <1>1, RowShapes DEF LinksTypeOK
<1>3. \A b \in Request : b.port = Keep
  BY DEF NoPorts, ConstantsOK, Body
<1>4. ASSUME rec' = rec, live' \subseteq live, \A q \in Peer : Kept(q) \/ (q \notin live' /\ row'[q].name = None)
      PROVE  Goal
  BY <1>4
<1>5. ASSUME NEW p \in Peer, NEW b \in Request, Patch(p, b)
      PROVE  Goal
  <2>1. row'[p] = Written(row[p], b) /\ \A q \in Peer \ {p} : row'[q] = row[q]
    BY <1>1, <1>5 DEF Patch, LinksTypeOK
  <2>2. Kept(p)
    BY <1>2, <1>3, <2>1 DEF Written, Row, Merge
  <2> QED
    BY <1>4, <1>5, <2>1, <2>2 DEF Patch
<1>6. ASSUME NEW h \in Handler, PostInsert(h)
      PROVE  Goal
  <2>1. req[h].row \in Row /\ req[h].peer \in Peer /\ rec' = rec /\ req[h].pc = "insert"
    BY <1>1, <1>6 DEF PostInsert, LinksTypeOK, Req
  <2>2. req[h].row.name = None
    <3>1. [req[h].row EXCEPT !.port = None] = Cleared(req[h].row)
      BY <1>1, <2>1 DEF InsertsUnlinked
    <3>2. Cleared(req[h].row).name = None /\ [req[h].row EXCEPT !.port = None].name = req[h].row.name
      BY <2>1 DEF Cleared, Row
    <3> QED
      BY <3>1, <3>2
  <2>3. \A q \in Peer : row'[q] = row[q] \/ (q = req[h].peer /\ row'[q] = req[h].row)
    BY <1>1, <1>6, <2>1 DEF PostInsert, LinksTypeOK
  <2>4. live' \subseteq live \cup {req[h].peer}
    BY <1>6 DEF PostInsert
  <2>5. ~Known(req[h].peer)
    BY <2>1 DEF Known
  <2> QED
    BY <2>1, <2>2, <2>3, <2>4, <2>5
<1>7. ASSUME NEW p \in Peer, Remove(p), rec' = rec
      PROVE  Goal
  <2>1. ASSUME NEW q \in Peer
        PROVE  Kept(q) \/ (q \notin live' /\ row'[q].name = None)
    <3>1. CASE q = p
      BY <1>7, <3>1 DEF Remove, Blank
    <3>2. CASE q # p /\ q \in Dependents(p)
      <4>1. row'[q] = [row[q] EXCEPT !.via = None]
        BY <1>7, <3>2 DEF Remove
      <4> QED
        BY <1>2, <4>1 DEF Row
    <3>3. CASE q # p /\ q \notin Dependents(p)
      BY <1>7, <3>3 DEF Remove
    <3> QED
      BY <3>1, <3>2, <3>3
  <2>2. live' \subseteq live
    BY <1>7 DEF Remove
  <2> QED
    BY <1>4, <1>7, <2>1, <2>2
<1>8. ASSUME NEW h \in Handler, DeleteCommit(h)
      PROVE  Goal
  <2>1. req[h].peer \in Peer
    BY <1>1, <1>8 DEF DeleteCommit, LinksTypeOK
  <2> QED
    BY <1>7, <1>8, <2>1 DEF DeleteCommit
<1>9. ASSUME NEW p \in Peer, DeleteUnlinked(p)
      PROVE  Goal
  BY <1>7, <1>9 DEF DeleteUnlinked
<1>10. ASSUME NEW h \in Handler, NEW p \in Peer, NEW b \in Request, PostCheck(h, p, b)
       PROVE  Goal
  BY <1>4, <1>10 DEF PostCheck
<1>11. ASSUME NEW h \in Handler, NEW p \in Peer, DeleteLinked(h, p)
       PROVE  Goal
  BY <1>4, <1>11 DEF DeleteLinked
<1>12. ASSUME NEW s \in Server, NEW port \in ServerPort, PatchServer(s, port)
       PROVE  Goal
  BY <1>4, <1>12 DEF PatchServer
<1>13. Goal
  BY <1>5, <1>6, <1>8, <1>9, <1>10, <1>11, <1>12 DEF Api
<1> QED
  BY <1>13

LEMMA WholeInit == ASSUME ConstantsOK, LinksInit PROVE WholeInv
<1>1. LinksInv
  BY InvInit
<1>2. NoPinInv
  BY <1>1 DEF LinksInit, NoPinInv, PortsFollowLinks, NeverCollides, IdleReq, IdleRec, Blank
<1>3. ChoiceInv
  BY <1>1 DEF LinksInv, LinksInit, ChoiceInv, ExistingChoicesValid, ChoiceValid, InsertsNew, IdleReq, Blank
<1>4. WholeLinks
  BY DEF LinksInit, WholeLinks, IdleRec, Blank
<1> QED
  BY <1>2, <1>3, <1>4 DEF WholeInv

LEMMA WholeStep == ASSUME ConstantsOK, NoPorts, WholeInv, [LinksNext]_linkVars PROVE WholeInv'
<1>1. NoPinInv /\ ChoiceInv /\ LinksInv /\ LinksTypeOK /\ InsertsNew
  BY DEF WholeInv, NoPinInv, LinksInv, ChoiceInv
<1>2. NoPinInv' /\ ChoiceInv' /\ rec'.pc # "threw"
  BY <1>1, NoPinStep, ChoiceStep DEF NoPorts, NoPinInv, NeverCollides
<1>3. Blank \in Row /\ \A q \in Peer : row[q] \in Row
  BY <1>1, RowShapes DEF LinksTypeOK
<1> DEFINE Whole == \A q \in Peer : row'[q].name # None => IsProvisioned(row'[q])
           Pending == \A p \in rec'.todo : /\ Known(p)'
                                           /\ p \in live' => row'[p].name = rec'.snap[p].name
                                           /\ NeedsLink(rec'.snap[p]) => rec'.snap[p].name = None
           Current == rec'.pc = "keygen" => row'[rec'.cur].name = None /\ rec'.cur \notin rec'.todo
<1>4. /\ \A q \in Peer : row[q].name # None => IsProvisioned(row[q])
      /\ \A p \in rec.todo : /\ p \in Peer /\ Known(p)
                             /\ p \in live => row[p].name = rec.snap[p].name
                             /\ NeedsLink(rec.snap[p]) => rec.snap[p].name = None
      /\ rec.pc = "keygen" => rec.cur \in Peer /\ row[rec.cur].name = None /\ rec.cur \notin rec.todo
  BY <1>1 DEF WholeInv, WholeLinks, LinksTypeOK, Rec
<1>5. \A p \in Peer : Known(p) => Known(p)'
  BY <1>1, KnownStays
<1>6. ASSUME Api
      PROVE  Whole /\ Pending /\ Current
  <2>1. /\ rec' = rec
        /\ \A q \in Peer : \/ row'[q].name = None
                           \/ /\ row'[q].name = row[q].name /\ row'[q].port = row[q].port
                              /\ row'[q].table = row[q].table /\ row'[q].key = row[q].key
        /\ \A q \in Peer : Known(q) /\ q \in live' => q \in live /\ row'[q].name = row[q].name
    BY <1>1, <1>6, ApiKeepsLinks
  <2>2. Whole
    BY <1>4, <2>1 DEF IsProvisioned
  <2>3. Pending
    BY <1>4, <1>5, <2>1
  <2>4. Current
    BY <1>4, <2>1
  <2> QED
    BY <2>2, <2>3, <2>4
<1>7. ASSUME NEW s \in Server, RecBegin(s)
      PROVE  Whole /\ Pending /\ Current
  <2>1. /\ rec'.pc = "loop" /\ row' = row /\ live' = live
        /\ \A p \in rec'.todo : p \in live /\ rec'.snap[p] = row[p]
    BY <1>1, <1>7 DEF RecBegin, IdleRec, LinksTypeOK
  <2>2. \A p \in live : p \in Peer /\ Known(p)
    BY <1>1 DEF Known, InsertsNew, LinksTypeOK
  <2>3. Pending
    BY <1>4, <1>5, <2>1, <2>2 DEF NeedsLink
  <2> QED
    BY <1>4, <2>1, <2>3
<1>8. ASSUME NEW p \in Peer, RecRelease(p)
      PROVE  Whole /\ Pending /\ Current
  <2>1. rec'.pc = "loop" /\ rec'.todo = rec.todo \ {p} /\ rec'.snap = rec.snap /\ live' = live
    BY <1>1, <1>8 DEF RecRelease, LinksTypeOK, Rec
  <2>2. \A q \in Peer : row'[q] = row[q] \/ (q = p /\ row'[q] = Cleared(row[q]))
    BY <1>1, <1>8 DEF RecRelease, LinksTypeOK
  <2>3. Cleared(row[p]).name = None
    BY <1>3 DEF Cleared, Row
  <2>4. Pending
    BY <1>4, <1>5, <2>1, <2>2
  <2> QED
    BY <1>4, <2>1, <2>2, <2>3, <2>4
<1>9. ASSUME NEW p \in Peer, RecAllocate(p)
      PROVE  Whole /\ Pending /\ Current
  <2>1. /\ rec'.todo = rec.todo \ {p} /\ rec'.snap = rec.snap /\ rec'.cur = p /\ p \in rec.todo
        /\ row' = row /\ live' = live /\ NeedsLink(rec.snap[p])
    BY <1>1, <1>9 DEF RecAllocate, LinksTypeOK, Rec
  <2>2. row[p].name = None
    BY <1>1, <1>4, <2>1 DEF LinksTypeOK, Blank
  <2>3. Pending
    BY <1>4, <1>5, <2>1
  <2> QED
    BY <1>4, <2>1, <2>2, <2>3
<1>10. ASSUME NEW p \in Peer, RecFail(p)
       PROVE  Whole /\ Pending /\ Current
  <2>1. /\ rec'.pc = "loop" /\ rec'.todo = rec.todo \ {p} /\ rec'.snap = rec.snap
        /\ row' = row /\ live' = live
    BY <1>1, <1>10 DEF RecFail, LinksTypeOK, Rec
  <2>2. Pending
    BY <1>4, <1>5, <2>1
  <2> QED
    BY <1>4, <2>1, <2>2
<1>11. ASSUME RecWrite
       PROVE  Whole /\ Pending /\ Current
  <2>1. /\ rec.pc = "keygen" /\ rec.cur \in Peer /\ rec.alloc \in Allocation /\ nextKey \in Nat
        /\ rec'.pc = "loop" /\ rec'.todo = rec.todo /\ rec'.snap = rec.snap /\ live' = live
    BY <1>1, <1>11 DEF RecWrite, LinksTypeOK, Rec
  <2>2. \A q \in Peer : row'[q] = row[q] \/ (q = rec.cur /\ row'[q] = Linked(row[q], rec.alloc, nextKey))
    BY <1>1, <1>11 DEF RecWrite, LinksTypeOK
  <2>3. \A q \in Peer : IsProvisioned(Linked(row[q], rec.alloc, nextKey))
    BY <1>3, <2>1 DEF Linked, IsProvisioned, Row, Allocation, Port, ConstantsOK
  <2>4. Pending
    BY <1>4, <1>5, <2>1, <2>2
  <2> QED
    BY <1>4, <2>1, <2>2, <2>3, <2>4
<1>12. ASSUME RecReturn \/ RecNoKey
       PROVE  Whole /\ Pending /\ Current
  <2>1. rec'.pc = "idle" /\ rec'.todo = {} /\ row' = row
    BY <1>12 DEF RecReturn, RecNoKey, IdleRec
  <2> QED
    BY <1>4, <2>1
<1>13. ~RecThrow
  BY <1>1, <1>2 DEF RecThrow, LinksTypeOK, Rec
<1>14. ASSUME UNCHANGED linkVars
       PROVE  Whole /\ Pending /\ Current
  BY <1>4, <1>5, <1>14 DEF linkVars
<1>15. Whole /\ Pending /\ Current
  BY <1>6, <1>7, <1>8, <1>9, <1>10, <1>11, <1>12, <1>13, <1>14 DEF LinksNext, Reconcile
<1> QED
  BY <1>2, <1>15 DEF WholeInv, WholeLinks

=============================================================================
