------------------------- MODULE CommerceStoreProofs -------------------------
(***************************************************************************)
(* Proofs about CommerceStore for every set of checkouts, stocks, workers  *)
(* and messages.                                                           *)
(*                                                                         *)
(* The type invariant is not inductive by itself: that a committed stock   *)
(* still has a natural number of units follows from the rule its worker    *)
(* checked when it read the stock, which the worker must remember, and     *)
(* from the condition of the transaction, which makes the stock it read    *)
(* the stock it writes. Sane adds what the workers carry from one step to  *)
(* the next.                                                               *)
(***************************************************************************)
EXTENDS CommerceStore, FiniteSetTheorems, TLAPS

(***************************************************************************)
(* What a worker carries.                                                  *)
(***************************************************************************)
Transacting == {"adjust", "reserve", "payment", "refund", "release", "defer"}

RequestOK(r) ==
    /\ r.op \in Transacting \cup {"none", "look"}
    /\ r.op \notin {"none", "adjust"} => r.checkout \in Checkouts
    /\ r.op = "look" => r.marker \in Nat
    /\ r.op = "adjust" => /\ r.stock \in Stocks
                          /\ r.delta \in {a.delta : a \in Adjustments}
                          /\ r.delta \in Int
                          /\ r.expected \in Nat
    /\ r.op = "reserve" => r.target \in Targets
    /\ r.op = "payment" => r.type \in PaymentTypes
    /\ r.op = "defer" => r.next \in Nat

\* Which operations reach which step.
StageOK(step, op) ==
    /\ step = "listed" => op = "look"
    /\ step = "reservation" => op \in {"payment", "refund", "release", "defer"}
    /\ step = "order" => op \in {"payment", "refund", "release"}
    /\ step = "stock" => op \in Transacting \ {"defer"}
    /\ step = "write" => op \in Transacting

\* Whether the transaction being planned writes stock.
PlansStock(r, x) ==
    \/ r.op \in {"adjust", "reserve"}
    \/ r.op \in {"payment", "release"} /\ x.resv.status = "reserved"
    \/ r.op = "refund" /\ x.order.status = "pending_checkout"

\* Every stock already read allows the movement.
PlanOK(step, r, x, left) ==
    /\ step = "stock" => PlansStock(r, x)
    /\ step \in {"stock", "write"} /\ PlansStock(r, x) =>
          \A s \in Touched(r) \ left : MayMove(r, s, x.stock[s])
    /\ step = "write" => left = {}
    /\ step = "write" /\ r.op = "defer" => x.resv.status = "reserved"
    /\ step = "reservation" /\ r.op = "refund" => x.order.status = "pending_checkout"

Snapshot == [resv : ReservationRecord, order : OrderRecord, stock : [Stocks -> StockRecord]]
Sound(x) == x.reserved <= x.onHand

WorkerOK(p) ==
    /\ RequestOK(req[p])
    /\ StageOK(pc[p], req[p].op)
    /\ PlanOK(pc[p], req[p], seen[p], todo[p])
    /\ \A s \in Stocks : Sound(seen[p].stock[s])

LocalOK ==
    /\ pc \in [Workers -> {"idle", "listed", "reservation", "order", "stock", "write"}]
    /\ req = [p \in Workers |-> req[p]]
    /\ at \in [Workers -> Nat]
    /\ seen \in [Workers -> Snapshot]
    /\ todo \in [Workers -> SUBSET Stocks]
    /\ \A p \in Workers : WorkerOK(p)

StoreOK ==
    /\ stock \in [Stocks -> StockRecord]
    /\ resv \in [Checkouts -> ReservationRecord]
    /\ order \in [Checkouts -> OrderRecord]
    /\ due \subseteq Checkouts \X Nat
    /\ now \in Nat
    /\ \A s \in Stocks : Sound(stock[s])

\* The inductive strengthening of TypeOK.
Sane == StoreOK /\ LocalOK

-----------------------------------------------------------------------------
(***************************************************************************)
(* The stock rules.                                                        *)
(***************************************************************************)
\* A movement whose rule allowed it leaves natural numbers of units, and no more
\* of them reserved than there are.
LEMMA MovementIsSound ==
    ASSUME NEW r, RequestOK(r), r.op \in Transacting \ {"defer"},
           NEW s \in Touched(r), NEW x \in StockRecord, Sound(x), MayMove(r, s, x)
    PROVE  s \in Stocks /\ Updated(r, s, x) \in StockRecord /\ Sound(Updated(r, s, x))
<1>1. s \in Stocks
  BY DEF Touched, Tracked, RequestOK
<1>2. CASE r.op = "adjust"
  <2>1. Movement(r) = "adjust"
    BY <1>2 DEF Movement
  <2>2. x.onHand + r.delta >= x.reserved /\ r.delta \in Int
    BY <1>2, <2>1 DEF MayMove, MayAdjust, RequestOK, Sound, StockRecord
  <2> QED
    BY <1>1, <2>1, <2>2 DEF Updated, OnHandDelta, ReservedDelta, StockRecord, Sound
<1>3. CASE r.op # "adjust"
  <2>1. Movement(r) \in {"reserve", "commit", "release"}
    BY <1>3 DEF Movement, Transacting, RequestOK, PaymentTypes
  <2>2. Qty[r.checkout][s] \in Nat
    BY <1>1, <1>3, CartAssumption DEF RequestOK, Transacting
  <2> QED
    BY <1>1, <2>1, <2>2 DEF Updated, OnHandDelta, ReservedDelta, StockRecord, Sound, MayMove
<1> QED
  BY <1>2, <1>3

\* Writing the stocks that were read, under their conditions, keeps the stocks sound.
LEMMA PutStockIsSound ==
    ASSUME StoreOK, NEW r, RequestOK(r), r.op \in Transacting \ {"defer"},
           NEW x \in [Stocks -> StockRecord],
           \A s \in Touched(r) : MayMove(r, s, x[s]),
           PutStock(r, x)
    PROVE  /\ stock' \in [Stocks -> StockRecord]
           /\ \A s \in Stocks : Sound(stock'[s])
<1> SUFFICES ASSUME NEW s \in Stocks
             PROVE  stock'[s] \in StockRecord /\ Sound(stock'[s])
  BY DEF PutStock
<1>1. CASE s \in Touched(r)
  <2>1. x[s] = stock[s] /\ MayMove(r, s, x[s]) /\ Sound(x[s])
    BY <1>1 DEF PutStock, StoreOK
  <2>2. Updated(r, s, x[s]) \in StockRecord /\ Sound(Updated(r, s, x[s]))
    BY <1>1, <2>1, MovementIsSound
  <2> QED
    BY <1>1, <2>2 DEF PutStock
<1>2. CASE s \notin Touched(r)
  BY <1>2 DEF PutStock, StoreOK
<1> QED
  BY <1>1, <1>2

-----------------------------------------------------------------------------
(***************************************************************************)
(* What the workers carry is kept by every step.                           *)
(***************************************************************************)
\* It is enough to look at the worker that moves.
LEMMA OneWorkerMoves ==
    ASSUME LocalOK, NEW p \in Workers,
           NEW step \in {"idle", "listed", "reservation", "order", "stock", "write"},
           NEW r, NEW a \in Nat, NEW x \in Snapshot, NEW left \in SUBSET Stocks,
           pc' = [pc EXCEPT ![p] = step],
           req' = [req EXCEPT ![p] = r],
           at' = [at EXCEPT ![p] = a],
           seen' = [seen EXCEPT ![p] = x],
           todo' = [todo EXCEPT ![p] = left],
           RequestOK(r), StageOK(step, r.op), PlanOK(step, r, x, left),
           \A s \in Stocks : Sound(x.stock[s])
    PROVE  LocalOK'
<1>1. /\ pc' \in [Workers -> {"idle", "listed", "reservation", "order", "stock", "write"}]
      /\ req' = [q \in Workers |-> req'[q]]
      /\ at' \in [Workers -> Nat]
      /\ seen' \in [Workers -> Snapshot]
      /\ todo' \in [Workers -> SUBSET Stocks]
  BY DEF LocalOK
<1>2. ASSUME NEW q \in Workers PROVE WorkerOK(q)'
  <2>1. CASE q = p
    <3>1. pc'[q] = step /\ req'[q] = r /\ seen'[q] = x /\ todo'[q] = left
      BY <2>1 DEF LocalOK
    <3> QED
      BY <3>1 DEF WorkerOK, RequestOK, StageOK, PlanOK, PlansStock, Sound, MayMove, MayAdjust,
             Touched, Tracked, Movement
  <2>2. CASE q # p
    <3>1. pc'[q] = pc[q] /\ req'[q] = req[q] /\ seen'[q] = seen[q] /\ todo'[q] = todo[q]
      BY <2>2 DEF LocalOK
    <3>2. WorkerOK(q)
      BY DEF LocalOK
    <3> QED
      BY <3>1, <3>2 DEF WorkerOK, RequestOK, StageOK, PlanOK, PlansStock, Sound, MayMove, MayAdjust,
             Touched, Tracked, Movement
  <2> QED
    BY <2>1, <2>2
<1> QED
  BY <1>1, <1>2 DEF LocalOK

\* The empty snapshot of an idle worker has the type of a snapshot.
LEMMA NothingIsSnapshot ==
    /\ Nothing \in Snapshot
    /\ \A s \in Stocks : Sound(Nothing.stock[s])
BY DEF Nothing, Snapshot, NoReservation, NoOrder, NoStock, ReservationRecord, OrderRecord,
       StockRecord, Sound

\* A worker that is done, or gives up, keeps nothing.
LEMMA ResetIsLocal ==
    ASSUME LocalOK, NEW p \in Workers, Reset(p)
    PROVE  LocalOK'
<1>1. RequestOK(NoRequest) /\ StageOK("idle", NoRequest.op) /\ PlanOK("idle", NoRequest, Nothing, {})
  BY DEF RequestOK, StageOK, PlanOK, NoRequest
<1> QED
  BY <1>1, NothingIsSnapshot, OneWorkerMoves DEF Reset

\* A request that starts is well-formed and at a step its operation has.
LEMMA StartIsLocal ==
    ASSUME LocalOK, NEW p \in Workers, NEW r, RequestOK(r), r.op \in Transacting,
           NEW a \in Nat, Start(p, r), at' = [at EXCEPT ![p] = a]
    PROVE  LocalOK'
<1> DEFINE stocks == IF FirstStep(r) = "stock" THEN Touched(r) ELSE {}
           step == IF FirstStep(r) = "stock" /\ stocks = {} THEN "write" ELSE FirstStep(r)
<1>1. /\ pc' = [pc EXCEPT ![p] = step]
      /\ req' = [req EXCEPT ![p] = r]
      /\ todo' = [todo EXCEPT ![p] = stocks]
      /\ seen' = seen
  BY DEF Start, Begin
<1>2. FirstStep(r) = IF r.op \in {"adjust", "reserve"} THEN "stock"
                     ELSE IF r.op = "refund" THEN "order" ELSE "reservation"
  BY DEF FirstStep
<1>3. stocks \in SUBSET Stocks
  BY DEF Touched, Tracked, RequestOK
<1>4. StageOK(step, r.op)
  BY <1>2 DEF StageOK, Transacting
<1>5. PlanOK(step, r, seen[p], stocks)
  BY <1>2 DEF PlanOK, PlansStock
<1>6. seen[p] \in Snapshot /\ (\A s \in Stocks : Sound(seen[p].stock[s]))
  BY DEF LocalOK, WorkerOK
<1>7. seen' = [seen EXCEPT ![p] = seen[p]]
  BY <1>1 DEF LocalOK
<1>8. step \in {"idle", "listed", "reservation", "order", "stock", "write"}
  BY <1>2
<1> HIDE DEF stocks, step
<1> QED
  BY <1>1, <1>3, <1>4, <1>5, <1>6, <1>7, <1>8, OneWorkerMoves

\* Every request a handler may start is well formed.
LEMMA RequestsAreOK ==
    /\ \A a \in Adjustments :
        RequestOK(AdjustRequest(a)) /\ AdjustRequest(a).op \in Transacting
    /\ \A k \in Checkouts, t \in Targets :
        RequestOK(ReserveRequest(k, t)) /\ ReserveRequest(k, t).op \in Transacting
    /\ \A m \in Messages :
        RequestOK(QueueRequest(m)) /\ QueueRequest(m).op \in Transacting
    /\ \A k \in Checkouts, t \in Nat, when \in Nat, status \in Statuses :
        /\ RequestOK(ReconcileRequest(k, t, status, when))
        /\ ReconcileRequest(k, t, status, when).op \in Transacting
<1>1. ASSUME NEW a \in Adjustments
      PROVE  RequestOK(AdjustRequest(a)) /\ AdjustRequest(a).op \in Transacting
  BY AdjustmentAssumption DEF AdjustRequest, RequestOK, Transacting
<1>2. ASSUME NEW k \in Checkouts, NEW t \in Targets
      PROVE  RequestOK(ReserveRequest(k, t)) /\ ReserveRequest(k, t).op \in Transacting
  BY DEF ReserveRequest, RequestOK, Transacting
<1>3. ASSUME NEW m \in Messages
      PROVE  RequestOK(QueueRequest(m)) /\ QueueRequest(m).op \in Transacting
  BY MessageAssumption
     DEF QueueRequest, RefundRequest, PaymentRequest, RequestOK, Transacting, PaymentTypes
<1>4. ASSUME NEW k \in Checkouts, NEW t \in Nat, NEW when \in Nat, NEW status \in Statuses
      PROVE  /\ RequestOK(ReconcileRequest(k, t, status, when))
             /\ ReconcileRequest(k, t, status, when).op \in Transacting
  BY TimingAssumption
     DEF ReconcileRequest, PaymentRequest, ReleaseRequest, DeferRequest, RequestOK,
         Transacting, PaymentTypes, Statuses
<1> QED
  BY <1>1, <1>2, <1>3, <1>4

\* The five actions that start, list or decide keep what the workers carry.
LEMMA BeginningsAreLocal ==
    ASSUME Sane, NEW p \in Workers,
           StartAdjust(p) \/ StartCheckout(p) \/ StartEvent(p) \/ List(p) \/ Decide(p)
    PROVE  LocalOK'
<1>0. at[p] \in Nat /\ now \in Nat /\ at = [at EXCEPT ![p] = at[p]] /\ LocalOK
  BY DEF Sane, LocalOK, StoreOK
<1>1. CASE StartAdjust(p)
  BY <1>0, <1>1, RequestsAreOK, StartIsLocal DEF StartAdjust
<1>2. CASE StartCheckout(p)
  BY <1>0, <1>2, RequestsAreOK, StartIsLocal DEF StartCheckout
<1>3. CASE StartEvent(p)
  BY <1>0, <1>3, RequestsAreOK, StartIsLocal DEF StartEvent
<1>4. CASE List(p)
  <2>1. PICK d \in due :
          req' = [req EXCEPT ![p] = [op |-> "look", checkout |-> d[1], marker |-> d[2]]]
    BY <1>4 DEF List
  <2> DEFINE r == [op |-> "look", checkout |-> d[1], marker |-> d[2]]
  <2>2. RequestOK(r) /\ StageOK("listed", r.op) /\ PlanOK("listed", r, seen[p], todo[p])
    BY DEF RequestOK, StageOK, PlanOK, Transacting, Sane, StoreOK
  <2>3. /\ pc' = [pc EXCEPT ![p] = "listed"]
        /\ at' = [at EXCEPT ![p] = now]
        /\ seen' = [seen EXCEPT ![p] = seen[p]]
        /\ todo' = [todo EXCEPT ![p] = todo[p]]
    BY <1>4 DEF List, Sane, LocalOK
  <2>4. seen[p] \in Snapshot /\ todo[p] \in SUBSET Stocks /\ \A s \in Stocks : Sound(seen[p].stock[s])
    BY DEF Sane, LocalOK, WorkerOK
  <2> QED
    BY <1>0, <2>1, <2>2, <2>3, <2>4, OneWorkerMoves
<1>5. CASE Decide(p)
  <2>1. req[p].checkout \in Checkouts /\ req[p].marker \in Nat
    BY <1>5 DEF Decide, Sane, LocalOK, WorkerOK, StageOK, RequestOK
  <2>2. PICK status \in Statuses :
          Start(p, ReconcileRequest(req[p].checkout, req[p].marker, status, at[p]))
    BY <1>5 DEF Decide
  <2> QED
    BY <1>0, <1>5, <2>1, <2>2, RequestsAreOK, StartIsLocal DEF Decide
<1> QED
  BY <1>1, <1>2, <1>3, <1>4, <1>5

\* The three reads keep what the workers carry: what is read is typed, and allows the movement.
LEMMA ReadsAreLocal ==
    ASSUME Sane, NEW p \in Workers, ReadReservation(p) \/ ReadOrder(p) \/ ReadStock(p)
    PROVE  LocalOK'
<1> DEFINE r == req[p]
           k == r.checkout
<1>0. /\ RequestOK(r) /\ StageOK(pc[p], r.op) /\ PlanOK(pc[p], r, seen[p], todo[p])
      /\ seen[p] \in Snapshot
      /\ todo[p] \in SUBSET Stocks
      /\ at[p] \in Nat
      /\ \A s \in Stocks : Sound(seen[p].stock[s])
  BY DEF Sane, LocalOK, WorkerOK
<1>1. req = [req EXCEPT ![p] = r] /\ at = [at EXCEPT ![p] = at[p]]
  BY DEF Sane, LocalOK
<1>2. CASE ReadReservation(p)
  <2> DEFINE x == [seen[p] EXCEPT !.resv = resv[k]]
             step == IF r.op = "refund" /\ Tracked(k) # {} THEN "stock"
                     ELSE IF r.op \in {"refund", "defer"} THEN "write" ELSE "order"
             left == IF r.op = "refund" THEN Tracked(k) ELSE {}
  <2>1. k \in Checkouts /\ r.op \in {"payment", "refund", "release", "defer"}
    BY <1>0, <1>2 DEF ReadReservation, StageOK, RequestOK
  <2>2. x \in Snapshot /\ (\A s \in Stocks : Sound(x.stock[s]))
    BY <1>0, <2>1 DEF Snapshot, Sane, StoreOK
  <2>3. left \in SUBSET Stocks
    BY DEF Tracked
  <2>4. StageOK(step, r.op)
    BY <2>1 DEF StageOK, Transacting
  <2>5. PlanOK(step, r, x, left)
    BY <1>0, <1>2, <2>1 DEF PlanOK, PlansStock, ReadReservation, MayDefer, Touched, Snapshot
  <2>6. /\ pc' = [pc EXCEPT ![p] = step]
        /\ todo' = [todo EXCEPT ![p] = left]
        /\ seen' = [seen EXCEPT ![p] = x]
        /\ req' = [req EXCEPT ![p] = r]
        /\ at' = [at EXCEPT ![p] = at[p]]
    BY <1>1, <1>2, <2>1 DEF ReadReservation, Goto, Sane, LocalOK
  <2>7. step \in {"idle", "listed", "reservation", "order", "stock", "write"}
    OBVIOUS
  <2> HIDE DEF x, step, left, r
  <2> QED
    BY <1>0, <2>2, <2>3, <2>4, <2>5, <2>6, <2>7, OneWorkerMoves DEF Sane
<1>3. CASE ReadOrder(p)
  <2> DEFINE o == order[k]
             x == [seen[p] EXCEPT !.order = o]
             early == r.op = "refund" /\ o.status = "pending_checkout"
             live == r.op # "refund" /\ seen[p].resv.status = "reserved"
             step == IF early THEN "reservation"
                     ELSE IF live /\ Tracked(k) # {} THEN "stock" ELSE "write"
             left == IF live THEN Tracked(k) ELSE {}
  <2>1. k \in Checkouts /\ r.op \in {"payment", "refund", "release"}
    BY <1>0, <1>3 DEF ReadOrder, StageOK, RequestOK
  <2>2. x \in Snapshot /\ (\A s \in Stocks : Sound(x.stock[s]))
    BY <1>0, <2>1 DEF Snapshot, Sane, StoreOK
  <2>3. left \in SUBSET Stocks
    BY DEF Tracked
  <2>4. StageOK(step, r.op)
    BY <2>1 DEF StageOK, Transacting
  <2>5. PlanOK(step, r, x, left)
    BY <1>0, <2>1, <2>2 DEF PlanOK, PlansStock, Touched, Snapshot
  <2>6. /\ pc' = [pc EXCEPT ![p] = step]
        /\ todo' = [todo EXCEPT ![p] = left]
        /\ seen' = [seen EXCEPT ![p] = x]
        /\ req' = [req EXCEPT ![p] = r]
        /\ at' = [at EXCEPT ![p] = at[p]]
    BY <1>1, <1>3, <2>1 DEF ReadOrder, Goto, Sane, LocalOK
  <2>7. step \in {"idle", "listed", "reservation", "order", "stock", "write"}
    OBVIOUS
  <2> HIDE DEF x, step, left, r
  <2> QED
    BY <1>0, <2>2, <2>3, <2>4, <2>5, <2>6, <2>7, OneWorkerMoves DEF Sane
<1>4. CASE ReadStock(p)
  <2>1. PICK s \in todo[p] :
          /\ MayMove(r, s, stock[s])
          /\ seen' = [seen EXCEPT ![p].stock[s] = stock[s]]
          /\ Goto(p, "stock", todo[p] \ {s})
    BY <1>4 DEF ReadStock
  <2> DEFINE left == todo[p] \ {s}
             x == [seen[p] EXCEPT !.stock[s] = stock[s]]
             step == IF left = {} THEN "write" ELSE "stock"
  <2>2. s \in Stocks /\ pc[p] = "stock"
    BY <1>0, <1>4 DEF ReadStock
  <2>3. x \in Snapshot /\ (\A z \in Stocks : Sound(x.stock[z]))
    BY <1>0, <2>2 DEF Snapshot, Sane, StoreOK
  <2>4. StageOK(step, r.op)
    BY <1>0, <2>2 DEF StageOK
  <2>5. PlansStock(r, x) /\ r.op # "defer"
    BY <1>0, <2>2 DEF PlanOK, PlansStock, StageOK, Transacting
  <2>6. ASSUME NEW z \in Touched(r) \ left PROVE MayMove(r, z, x.stock[z])
    <3>1. CASE z = s
      BY <1>0, <2>1, <2>2, <3>1 DEF Snapshot
    <3>2. CASE z # s
      BY <1>0, <2>2, <2>5, <3>2 DEF PlanOK, PlansStock, Snapshot
    <3> QED
      BY <3>1, <3>2
  <2>7. PlanOK(step, r, x, left)
    BY <2>5, <2>6 DEF PlanOK
  <2>8. /\ pc' = [pc EXCEPT ![p] = step]
        /\ todo' = [todo EXCEPT ![p] = left]
        /\ seen' = [seen EXCEPT ![p] = x]
        /\ req' = [req EXCEPT ![p] = r]
        /\ at' = [at EXCEPT ![p] = at[p]]
    BY <1>1, <2>1 DEF Goto, Sane, LocalOK
  <2> HIDE DEF x, left, step, r
  <2>9. /\ step \in {"idle", "listed", "reservation", "order", "stock", "write"}
        /\ left \in SUBSET Stocks
    BY <1>0 DEF step, left
  <2> QED
    BY <1>0, <2>3, <2>4, <2>7, <2>8, <2>9, OneWorkerMoves DEF Sane
<1> QED
  BY <1>2, <1>3, <1>4

-----------------------------------------------------------------------------
(***************************************************************************)
(* The transactions keep the store well formed.                            *)
(***************************************************************************)
Write(p) ==
    \/ Adjust(p) \/ Reserve(p) \/ Finish(p) \/ Converge(p)
    \/ RefundPaid(p) \/ RefundPending(p) \/ Defer(p)

\* What a worker about to write knows of its request and of what it read.
LEMMA WriterKnows ==
    ASSUME Sane, NEW p \in Workers, pc[p] = "write"
    PROVE  /\ RequestOK(req[p])
           /\ req[p].op \in Transacting
           /\ at[p] \in Nat
           /\ seen[p].resv \in ReservationRecord
           /\ seen[p].order \in OrderRecord
           /\ seen[p].stock \in [Stocks -> StockRecord]
           /\ PlansStock(req[p], seen[p]) =>
                \A s \in Touched(req[p]) : MayMove(req[p], s, seen[p].stock[s])
           /\ req[p].op = "defer" => seen[p].resv.status = "reserved"
BY DEF Sane, LocalOK, WorkerOK, StageOK, PlanOK, Snapshot

\* The new versions of a reservation and an order are well formed.
LEMMA NewRecords ==
    ASSUME NEW r, RequestOK(r), r.op \in {"payment", "refund", "release"},
           NEW x \in ReservationRecord, NEW o \in OrderRecord,
           NEW status \in {"paid", "payment_not_completed", "refunded"}
    PROVE  /\ Finished(r, x) \in ReservationRecord
           /\ MovedTo(o, status) \in OrderRecord
<1>1. TargetStatus(r) \in {"committed", "released"}
  BY DEF TargetStatus
<1>2. CompletionReason(r) \in
        {"canonical_paid", "canonical_terminal_unpaid", "canonical_not_created"}
  BY DEF CompletionReason, Movement, RequestOK, PaymentTypes
<1>3. x.revision + 1 \in Nat /\ o.revision + 1 \in Nat
  BY DEF ReservationRecord, OrderRecord
<1> QED
  BY <1>1, <1>2, <1>3 DEF Finished, MovedTo, ReservationRecord, OrderRecord

\* Every transaction keeps the stored records typed and the stocks sound.
LEMMA WritesKeepStoreOK ==
    ASSUME Sane, NEW p \in Workers, Write(p)
    PROVE  StoreOK'
<1> DEFINE r == req[p]
           k == r.checkout
           x == seen[p].resv
           o == seen[p].order
<1> USE DEF Transacting
<1>1. pc[p] = "write" /\ StoreOK /\ now' = now
  BY DEF Write, Adjust, Reserve, Finish, Converge, RefundPaid, RefundPending, Defer, Reset, Sane
<1>2. /\ RequestOK(r)
      /\ r.op \in Transacting
      /\ at[p] \in Nat
      /\ x \in ReservationRecord
      /\ o \in OrderRecord
      /\ seen[p].stock \in [Stocks -> StockRecord]
      /\ PlansStock(r, seen[p]) =>
           \A s \in Touched(r) : MayMove(r, s, seen[p].stock[s])
      /\ r.op = "defer" => x.status = "reserved"
  BY <1>1, WriterKnows
<1>3. r.op # "adjust" => k \in Checkouts
  BY <1>2 DEF RequestOK
<1>4. CASE Adjust(p)
  <2>1. PutStock(r, seen[p].stock) /\ r.op = "adjust" /\ UNCHANGED <<resv, order, due>>
    BY <1>4 DEF Adjust
  <2>2. \A s \in Touched(r) : MayMove(r, s, seen[p].stock[s])
    BY <1>2, <2>1 DEF PlansStock
  <2> QED
    BY <1>1, <1>2, <2>1, <2>2, PutStockIsSound DEF StoreOK
<1>5. CASE Reserve(p)
  <2>1. PutStock(r, seen[p].stock) /\ r.op = "reserve"
    BY <1>5 DEF Reserve
  <2>2. \A s \in Touched(r) : MayMove(r, s, seen[p].stock[s])
    BY <1>2, <2>1 DEF PlansStock
  <2>3. ReconcileAfter(at[p]) \in Nat
    BY <1>2, TimingAssumption DEF ReconcileAfter
  <2>4. resv' \in [Checkouts -> ReservationRecord] /\ due' \subseteq Checkouts \X Nat
    BY <1>1, <1>2, <1>3, <1>5, <2>3 DEF Reserve, StoreOK, ReservationRecord
  <2>5. order' \in [Checkouts -> OrderRecord]
    BY <1>1, <1>2, <1>3, <1>5, TargetAssumption DEF Reserve, StoreOK, OrderRecord, RequestOK
  <2> QED
    BY <1>1, <1>2, <2>1, <2>2, <2>4, <2>5, PutStockIsSound DEF StoreOK
<1>6. CASE Finish(p)
  <2>1. PutStock(r, seen[p].stock) /\ r.op \in {"payment", "release"} /\ x.status = "reserved"
    BY <1>6 DEF Finish
  <2>2. \A s \in Touched(r) : MayMove(r, s, seen[p].stock[s])
    BY <1>2, <2>1 DEF PlansStock
  <2>3. /\ Finished(r, x) \in ReservationRecord
        /\ MovedTo(o, "paid") \in OrderRecord
        /\ MovedTo(o, "payment_not_completed") \in OrderRecord
    BY <1>2, <2>1, NewRecords
  <2>4. /\ resv' = [resv EXCEPT ![k] = Finished(r, x)]
        /\ \/ order' = [order EXCEPT ![k] = MovedTo(o, "paid")]
           \/ order' = [order EXCEPT ![k] = MovedTo(o, "payment_not_completed")]
        /\ due' \subseteq due
    BY <1>6 DEF Finish, PutReservation, PutOrder, DeleteMarker
  <2> QED
    BY <1>1, <1>2, <2>1, <2>2, <2>3, <2>4, PutStockIsSound DEF StoreOK
<1>7. CASE Converge(p)
  BY <1>1, <1>7 DEF Converge, StoreOK
<1>8. CASE RefundPaid(p)
  <2>1. MovedTo(o, "refunded") \in OrderRecord
    BY <1>2, <1>8, NewRecords DEF RefundPaid
  <2> QED
    BY <1>1, <1>8, <2>1 DEF RefundPaid, PutOrder, StoreOK
<1>9. CASE RefundPending(p)
  <2>1. PutStock(r, seen[p].stock) /\ r.op = "refund" /\ o.status = "pending_checkout"
    BY <1>9 DEF RefundPending
  <2>2. \A s \in Touched(r) : MayMove(r, s, seen[p].stock[s])
    BY <1>2, <2>1 DEF PlansStock
  <2>3. Finished(r, x) \in ReservationRecord /\ MovedTo(o, "refunded") \in OrderRecord
    BY <1>2, <2>1, NewRecords
  <2>4. /\ resv' = [resv EXCEPT ![k] = Finished(r, x)]
        /\ order' = [order EXCEPT ![k] = MovedTo(o, "refunded")]
        /\ due' \subseteq due
    BY <1>9 DEF RefundPending, PutReservation, PutOrder, DeleteMarker
  <2> QED
    BY <1>1, <1>2, <2>1, <2>2, <2>3, <2>4, PutStockIsSound DEF StoreOK
<1>10. CASE Defer(p)
  <2>1. r.op = "defer" /\ r.next \in Nat
    BY <1>2, <1>10 DEF Defer, RequestOK
  <2>2. [x EXCEPT !.revision = @ + 1, !.reconcileAfter = r.next] \in ReservationRecord
    <3>1. x.revision + 1 \in Nat
      BY <1>2 DEF ReservationRecord
    <3> QED
      BY <1>2, <2>1, <3>1 DEF ReservationRecord
  <2>3. k \in Checkouts
    BY <1>3, <2>1
  <2>4. resv' = [resv EXCEPT ![k] = [x EXCEPT !.revision = @ + 1, !.reconcileAfter = r.next]]
    BY <1>10 DEF Defer, PutReservation
  <2>5. resv' \in [Checkouts -> ReservationRecord]
    BY <1>1, <2>2, <2>3, <2>4 DEF StoreOK
  <2>6. due' \subseteq Checkouts \X Nat
    BY <1>1, <1>10, <2>1, <2>3 DEF Defer, StoreOK
  <2> QED
    BY <1>1, <1>10, <2>5, <2>6 DEF Defer, StoreOK
<1> QED
  BY <1>4, <1>5, <1>6, <1>7, <1>8, <1>9, <1>10 DEF Write

\* Every transaction, and every abandoned request, leaves its worker idle and empty.
LEMMA WritesReset ==
    ASSUME NEW p \in Workers, Write(p)
    PROVE  Reset(p)
BY DEF Write, Adjust, Reserve, Finish, Converge, RefundPaid, RefundPending, Defer

-----------------------------------------------------------------------------
(***************************************************************************)
(* Type correctness.                                                       *)
(***************************************************************************)
\* What holds of the worker and of the store before a step holds after it.
LEMMA SaneIsInductive ==
    /\ Init => Sane
    /\ Sane /\ [Next]_vars => Sane'
<1>1. Init => Sane
  <2> SUFFICES ASSUME Init PROVE Sane
    OBVIOUS
  <2>1. StoreOK
    BY DEF Init, StoreOK, NoStock, NoReservation, NoOrder, StockRecord, ReservationRecord,
           OrderRecord, Sound
  <2>2. ASSUME NEW p \in Workers PROVE WorkerOK(p)
    BY NothingIsSnapshot
       DEF Init, WorkerOK, RequestOK, StageOK, PlanOK, NoRequest
  <2> QED
    BY <2>1, <2>2, NothingIsSnapshot DEF Init, Sane, LocalOK
<1>2. ASSUME Sane, [Next]_vars PROVE Sane'
  <2>1. ASSUME UNCHANGED local PROVE LocalOK'
    BY <1>2, <2>1
       DEF local, Sane, LocalOK, WorkerOK, RequestOK, StageOK, PlanOK, PlansStock, Sound,
           MayMove, MayAdjust, Touched, Tracked, Movement
  <2>2. ASSUME UNCHANGED store, now' \in Nat PROVE StoreOK'
    BY <1>2, <2>2 DEF store, Sane, StoreOK, Sound
  <2>3. ASSUME NEW p \in Workers, Step(p) PROVE Sane'
    <3>1. CASE StartAdjust(p) \/ StartCheckout(p) \/ StartEvent(p) \/ List(p) \/ Decide(p)
      <4>1. UNCHANGED store /\ now' = now
        BY <3>1 DEF StartAdjust, StartCheckout, StartEvent, List, Decide, Start, Begin
      <4> QED
        BY <1>2, <2>2, <3>1, <4>1, BeginningsAreLocal DEF Sane, StoreOK
    <3>2. CASE ReadReservation(p) \/ ReadOrder(p) \/ ReadStock(p)
      <4>1. UNCHANGED store /\ now' = now
        BY <3>2 DEF ReadReservation, ReadOrder, ReadStock, Goto
      <4> QED
        BY <1>2, <2>2, <3>2, <4>1, ReadsAreLocal DEF Sane, StoreOK
    <3>3. CASE Write(p)
      BY <1>2, <3>3, WritesKeepStoreOK, WritesReset, ResetIsLocal DEF Sane
    <3>4. CASE Abandon(p)
      <4>1. Reset(p) /\ UNCHANGED store /\ now' = now
        BY <3>4 DEF Abandon, Reset
      <4> QED
        BY <1>2, <2>2, <4>1, ResetIsLocal DEF Sane, StoreOK
    <3> QED
      BY <2>3, <3>1, <3>2, <3>3, <3>4 DEF Step, Write
  <2>4. CASE ExpireReceipt
    BY <1>2, <2>1, <2>4 DEF ExpireReceipt, Sane, StoreOK, Sound
  <2>5. CASE ExpireInbox
    BY <1>2, <2>1, <2>5 DEF ExpireInbox, Sane, StoreOK, Sound
  <2>6. CASE Tick
    <3>1. now' \in Nat
      BY <1>2, <2>6 DEF Tick, Sane, StoreOK
    <3> QED
      BY <2>1, <2>2, <2>6, <3>1 DEF Tick, Sane
  <2>7. CASE UNCHANGED vars
    BY <1>2, <2>1, <2>2, <2>7 DEF vars, Sane, StoreOK
  <2> QED
    BY <1>2, <2>3, <2>4, <2>5, <2>6, <2>7 DEF Next
<1> QED
  BY <1>1, <1>2

\* Stored records, and what every worker carries, are well-formed in every reachable
\* state: the inductive invariant the other theorems start from.
THEOREM SaneHolds == Spec => []Sane
BY SaneIsInductive, PTL DEF Spec

\* Stored records and remembered copies keep their types: in particular no stock
\* count ever goes below zero, whatever the interleaving of the handlers.
THEOREM TypeCorrect == Spec => []TypeOK
<1>1. Sane => TypeOK
  BY DEF Sane, StoreOK, LocalOK, TypeOK, Snapshot
<1> QED
  BY <1>1, SaneHolds, PTL

-----------------------------------------------------------------------------
(***************************************************************************)
(* The handlers implement the escrow. Only a transaction changes what the  *)
(* escrow sees, and its conditions on the stocks make the counts it read   *)
(* the counts of the state in which it takes effect.                       *)
(***************************************************************************)
\* What a transaction makes of the counts of every stock, and that the rule the
\* worker checked when it read them holds of the stocks it writes.
LEMMA CountsMove ==
    ASSUME Sane, NEW p \in Workers, pc[p] = "write", PlansStock(req[p], seen[p]),
           PutStock(req[p], seen[p].stock)
    PROVE  /\ \A s \in Touched(req[p]) : MayMove(req[p], s, stock[s])
           /\ \A s \in Touched(req[p]) :
                /\ stock'[s].onHand = stock[s].onHand + OnHandDelta(req[p], s)
                /\ stock'[s].reserved = stock[s].reserved + ReservedDelta(req[p], s)
           /\ \A s \in Stocks \ Touched(req[p]) : stock'[s] = stock[s]
<1>1. \A s \in Touched(req[p]) : s \in Stocks /\ seen[p].stock[s] = stock[s]
  BY WriterKnows DEF PutStock, Touched, Tracked, RequestOK
<1>2. \A s \in Touched(req[p]) : MayMove(req[p], s, stock[s])
  BY <1>1, WriterKnows
<1>3. \A s \in Stocks :
        stock'[s] = IF s \in Touched(req[p]) THEN Updated(req[p], s, stock[s]) ELSE stock[s]
  BY <1>1 DEF PutStock
<1>4. ASSUME NEW s \in Touched(req[p])
      PROVE  /\ stock'[s].onHand = stock[s].onHand + OnHandDelta(req[p], s)
             /\ stock'[s].reserved = stock[s].reserved + ReservedDelta(req[p], s)
  <2>1. stock'[s] = Updated(req[p], s, stock[s])
    BY <1>1, <1>3
  <2> QED
    BY <2>1 DEF Updated
<1>5. \A s \in Stocks \ Touched(req[p]) : stock'[s] = stock[s]
  BY <1>3
<1> QED
  BY <1>2, <1>4, <1>5

\* The change of the counts, written for every stock of the location: a stock that
\* is not in the cart has a quantity of zero there.
LEMMA CartMoves ==
    ASSUME Sane, NEW p \in Workers, pc[p] = "write", PlansStock(req[p], seen[p]),
           req[p].op # "adjust", PutStock(req[p], seen[p].stock)
    PROVE  LET r == req[p]
               q == Qty[r.checkout]
           IN  \A s \in Stocks :
                /\ Movement(r) = "reserve" =>
                    /\ stock'[s].onHand = stock[s].onHand
                    /\ stock'[s].reserved = stock[s].reserved + q[s]
                    /\ q[s] > 0 => stock[s].reserved + q[s] <= stock[s].onHand
                /\ Movement(r) = "commit" =>
                    /\ stock'[s].onHand = stock[s].onHand - q[s]
                    /\ stock'[s].reserved = stock[s].reserved - q[s]
                /\ Movement(r) = "release" =>
                    /\ stock'[s].onHand = stock[s].onHand
                    /\ stock'[s].reserved = stock[s].reserved - q[s]
<1> DEFINE r == req[p]
           q == Qty[r.checkout]
<1>1. r.checkout \in Checkouts
  BY WriterKnows DEF RequestOK, Transacting
<1> SUFFICES ASSUME NEW s \in Stocks
             PROVE  /\ Movement(r) = "reserve" =>
                        /\ stock'[s].onHand = stock[s].onHand
                        /\ stock'[s].reserved = stock[s].reserved + q[s]
                        /\ q[s] > 0 => stock[s].reserved + q[s] <= stock[s].onHand
                    /\ Movement(r) = "commit" =>
                        /\ stock'[s].onHand = stock[s].onHand - q[s]
                        /\ stock'[s].reserved = stock[s].reserved - q[s]
                    /\ Movement(r) = "release" =>
                        /\ stock'[s].onHand = stock[s].onHand
                        /\ stock'[s].reserved = stock[s].reserved - q[s]
  OBVIOUS
<1>2. q[s] \in Nat
  BY <1>1, CartAssumption
<1>3. stock[s].onHand \in Nat /\ stock[s].reserved \in Nat
  BY DEF Sane, StoreOK, StockRecord
<1>4. CASE q[s] > 0
  <2>1. s \in Touched(r)
    BY <1>4 DEF Touched, Tracked
  <2>2. /\ MayMove(r, s, stock[s])
        /\ stock'[s].onHand = stock[s].onHand + OnHandDelta(r, s)
        /\ stock'[s].reserved = stock[s].reserved + ReservedDelta(r, s)
    BY <2>1, CountsMove
  <2> QED
    BY <1>2, <1>3, <2>2 DEF OnHandDelta, ReservedDelta, MayMove
<1>5. CASE ~(q[s] > 0)
  <2>1. q[s] = 0
    BY <1>2, <1>5
  <2>2. s \notin Touched(r)
    BY <1>5 DEF Touched, Tracked
  <2>3. stock'[s] = stock[s]
    BY <2>2, CountsMove
  <2> QED
    BY <1>3, <1>5, <2>1, <2>3
<1> QED
  BY <1>4, <1>5

\* What the escrow makes of an order's status.
LEMMA Sales ==
    ASSUME NEW o
    PROVE  /\ o.status = "absent" => SaleOf(o) = "none"
           /\ o.status = "pending_checkout" => SaleOf(o) = "held"
           /\ o.status = "paid" => SaleOf(o) = "sold"
           /\ o.status = "refunded" => SaleOf(o) = "refunded"
           /\ o.status = "payment_not_completed" => SaleOf(o) = "returned"
BY DEF SaleOf

\* An order's change of status is the same change of its sale in the escrow.
LEMMA SaleBecomes ==
    ASSUME NEW k \in Checkouts, NEW from, NEW to,
           SaleOf(order[k]) = from, SaleOf(order'[k]) = to,
           \A c \in Checkouts \ {k} : order'[c] = order[c]
    PROVE  Abstract!Become(k, from, to)
<1> DEFINE sale == [c \in Checkouts |-> SaleOf(order[c])]
           new == [c \in Checkouts |-> SaleOf(order'[c])]
<1>1. sale[k] = from
  OBVIOUS
<1>2. new = [sale EXCEPT ![k] = to]
  OBVIOUS
<1> QED
  BY <1>1, <1>2 DEF Abstract!Become

\* Every step of the handlers is a step of the escrow or leaves it alone.
LEMMA StepsOfTheEscrow ==
    ASSUME Sane, [Next]_vars
    PROVE  [Abstract!Next]_(Abstract!vars)
<1> SUFFICES Abstract!Next \/ UNCHANGED Abstract!vars
  OBVIOUS
<1>1. ASSUME stock' = stock, order' = order
      PROVE  UNCHANGED Abstract!vars
  BY <1>1 DEF Abstract!vars, SaleOf
<1>2. ASSUME NEW p \in Workers, Write(p)
      PROVE  Abstract!Next \/ UNCHANGED Abstract!vars
  <2> DEFINE r == req[p]
  <2>0. pc[p] = "write"
    BY <1>2 DEF Write, Adjust, Reserve, Finish, Converge, RefundPaid, RefundPending, Defer
  <2>1. RequestOK(r) /\ (r.op # "adjust" => r.checkout \in Checkouts) /\ r.op \in Transacting
    BY <2>0, WriterKnows DEF RequestOK, Transacting
  <2>2. order \in [Checkouts -> OrderRecord] /\ seen[p].order \in OrderRecord
    BY <2>0, WriterKnows DEF Sane, StoreOK
  <2>3. CASE Adjust(p)
    <3>1. r.op = "adjust" /\ PutStock(r, seen[p].stock) /\ order' = order
      BY <2>3 DEF Adjust
    <3>0. PICK z \in Stocks, d \in {a.delta : a \in Adjustments} : z = r.stock /\ d = r.delta
      BY <2>1, <3>1 DEF RequestOK
    <3>2. Touched(r) = {z} /\ Movement(r) = "adjust"
      BY <3>0, <3>1 DEF Touched, Movement
    <3>3. /\ MayMove(r, z, stock[z])
          /\ stock'[z].onHand = stock[z].onHand + d
          /\ stock'[z].reserved = stock[z].reserved + 0
          /\ \A s \in Stocks \ {z} : stock'[s] = stock[s]
      BY <2>0, <3>0, <3>1, <3>2, CountsMove DEF PlansStock, OnHandDelta, ReservedDelta
    <3>4. stock[z] \in StockRecord /\ Sound(stock[z]) /\ d \in Int
      BY <2>1, <3>0, <3>1, <3>2 DEF Sane, StoreOK, RequestOK
    <3>5. stock[z].onHand + d >= stock[z].reserved
      BY <2>1, <3>0, <3>1, <3>2, <3>3, <3>4 DEF MayMove, MayAdjust, StockRecord, Sound, RequestOK
    <3>6. stock'[z].reserved = stock[z].reserved
      BY <3>3, <3>4 DEF StockRecord
    <3>7. /\ [s \in Stocks |-> stock'[s].onHand]
                = [[s \in Stocks |-> stock[s].onHand] EXCEPT ![z] = stock[z].onHand + d]
          /\ [s \in Stocks |-> stock'[s].reserved] = [s \in Stocks |-> stock[s].reserved]
      BY <3>3, <3>6
    <3>8. Abstract!Adjust(z, d)
      BY <3>1, <3>5, <3>7 DEF Abstract!Adjust
    <3> QED
      BY <3>8 DEF Abstract!Next
  <2>4. CASE Reserve(p)
    <3>1. r.op = "reserve" /\ PutStock(r, seen[p].stock)
      BY <2>4 DEF Reserve
    <3>k. PICK k \in Checkouts : k = r.checkout
      BY <2>1, <3>1
    <3>2. Movement(r) = "reserve"
      BY <3>1 DEF Movement
    <3>3. \A s \in Stocks :
            /\ stock'[s].onHand = stock[s].onHand
            /\ stock'[s].reserved = stock[s].reserved + Qty[k][s]
            /\ Qty[k][s] > 0 => stock[s].reserved + Qty[k][s] <= stock[s].onHand
      BY <2>0, <3>1, <3>2, <3>k, CartMoves DEF PlansStock
    <3>4. /\ order[k].status = "absent"
          /\ order' = [order EXCEPT ![k] =
                [status |-> "pending_checkout", revision |-> 1, target |-> r.target]]
      BY <2>4, <3>k DEF Reserve
    <3>5. order'[k].status = "pending_checkout" /\ \A c \in Checkouts \ {k} : order'[c] = order[c]
      BY <2>2, <3>4
    <3>6. Abstract!Hold(k)
      BY <3>3, <3>4, <3>5, Sales, SaleBecomes DEF Abstract!Hold
    <3> QED
      BY <3>6 DEF Abstract!Next
  <2>5. CASE Finish(p)
    <3>1. /\ r.op \in {"payment", "release"}
          /\ PutStock(r, seen[p].stock)
          /\ seen[p].resv.status = "reserved"
      BY <2>5 DEF Finish
    <3>k. PICK k \in Checkouts : k = r.checkout
      BY <2>1, <3>1
    <3>2. Movement(r) \in {"commit", "release"}
      BY <2>1, <3>1 DEF Movement, RequestOK, PaymentTypes
    <3>3. CASE Movement(r) = "commit"
      <4>1. \A s \in Stocks :
              /\ stock'[s].onHand = stock[s].onHand - Qty[k][s]
              /\ stock'[s].reserved = stock[s].reserved - Qty[k][s]
        BY <2>0, <3>1, <3>3, <3>k, CartMoves DEF PlansStock
      <4>2. /\ order[k].status = "pending_checkout"
            /\ order' = [order EXCEPT ![k] = MovedTo(seen[p].order, "paid")]
        BY <2>5, <3>3, <3>k DEF Finish, PutOrder, TargetStatus
      <4>3. order'[k].status = "paid" /\ \A c \in Checkouts \ {k} : order'[c] = order[c]
        BY <2>1, <2>2, <3>1, <4>2, <3>k DEF MovedTo, OrderRecord
      <4>4. Abstract!Sell(k, "sold")
        BY <4>1, <4>2, <4>3, Sales, SaleBecomes DEF Abstract!Sell, Abstract!TakeHeld
      <4> QED
        BY <4>4 DEF Abstract!Next
    <3>4. CASE Movement(r) = "release"
      <4>1. \A s \in Stocks :
              /\ stock'[s].onHand = stock[s].onHand
              /\ stock'[s].reserved = stock[s].reserved - Qty[k][s]
        BY <2>0, <3>1, <3>4, <3>k, CartMoves DEF PlansStock
      <4>2. /\ order[k].status = "pending_checkout"
            /\ order' = [order EXCEPT ![k] = MovedTo(seen[p].order, "payment_not_completed")]
        BY <2>5, <3>4, <3>k DEF Finish, PutOrder, TargetStatus
      <4>3. /\ order'[k].status = "payment_not_completed"
            /\ \A c \in Checkouts \ {k} : order'[c] = order[c]
        BY <2>1, <2>2, <3>1, <4>2, <3>k DEF MovedTo, OrderRecord
      <4>4. Abstract!GiveBack(k)
        BY <4>1, <4>2, <4>3, Sales, SaleBecomes DEF Abstract!GiveBack, Abstract!TakeHeld
      <4> QED
        BY <4>4 DEF Abstract!Next
    <3> QED
      BY <3>2, <3>3, <3>4
  <2>6. CASE Converge(p) \/ Defer(p)
    BY <1>1, <2>6 DEF Converge, Defer
  <2>7. CASE RefundPaid(p)
    <3>1. r.op = "refund" /\ stock' = stock
      BY <2>7 DEF RefundPaid
    <3>k. PICK k \in Checkouts : k = r.checkout
      BY <2>1, <3>1
    <3>2. /\ order[k].status = "paid"
          /\ order' = [order EXCEPT ![k] = MovedTo(seen[p].order, "refunded")]
      BY <2>7, <3>k DEF RefundPaid, PutOrder
    <3>3. order'[k].status = "refunded" /\ \A c \in Checkouts \ {k} : order'[c] = order[c]
      BY <2>1, <2>2, <3>1, <3>2, <3>k DEF MovedTo, OrderRecord
    <3>4. Abstract!Refund(k)
      BY <3>1, <3>2, <3>3, Sales, SaleBecomes DEF Abstract!Refund
    <3> QED
      BY <3>4 DEF Abstract!Next
  <2>8. CASE RefundPending(p)
    <3>1. r.op = "refund" /\ PutStock(r, seen[p].stock) /\ seen[p].order.status = "pending_checkout"
      BY <2>8 DEF RefundPending
    <3>k. PICK k \in Checkouts : k = r.checkout
      BY <2>1, <3>1
    <3>2. Movement(r) = "commit"
      BY <3>1 DEF Movement
    <3>3. \A s \in Stocks :
            /\ stock'[s].onHand = stock[s].onHand - Qty[k][s]
            /\ stock'[s].reserved = stock[s].reserved - Qty[k][s]
      BY <2>0, <3>1, <3>2, <3>k, CartMoves DEF PlansStock
    <3>4. /\ order[k].status = "pending_checkout"
          /\ order' = [order EXCEPT ![k] = MovedTo(seen[p].order, "refunded")]
      BY <2>8, <3>k DEF RefundPending, PutOrder
    <3>5. order'[k].status = "refunded" /\ \A c \in Checkouts \ {k} : order'[c] = order[c]
      BY <2>1, <2>2, <3>1, <3>4, <3>k DEF MovedTo, OrderRecord
    <3>6. Abstract!Sell(k, "refunded")
      BY <3>3, <3>4, <3>5, Sales, SaleBecomes DEF Abstract!Sell, Abstract!TakeHeld
    <3> QED
      BY <3>6 DEF Abstract!Next
  <2> QED
    BY <1>2, <2>3, <2>4, <2>5, <2>6, <2>7, <2>8 DEF Write
<1>3. ASSUME NEW p \in Workers, Step(p), ~Write(p)
      PROVE  UNCHANGED Abstract!vars
  <2>1. stock' = stock /\ order' = order
    BY <1>3 DEF Step, Write, StartAdjust, StartCheckout, StartEvent, List, Decide, Start, Begin,
                ReadReservation, ReadOrder, ReadStock, Goto, Abandon, store
  <2> QED
    BY <1>1, <2>1
<1>4. ASSUME ExpireReceipt \/ ExpireInbox \/ Tick \/ UNCHANGED vars
      PROVE  UNCHANGED Abstract!vars
  BY <1>1, <1>4 DEF ExpireReceipt, ExpireInbox, Tick, vars, store
<1> QED
  BY <1>2, <1>3, <1>4 DEF Next

\* The detailed specification implements the abstract one.
THEOREM EscrowImplemented == Spec => ImplementsEscrow
<1>1. Init => Abstract!Init
  BY DEF Init, Abstract!Init, NoStock, NoOrder, SaleOf
<1> QED
  BY <1>1, StepsOfTheEscrow, SaneHolds, PTL DEF Spec, ImplementsEscrow, Abstract!Spec

-----------------------------------------------------------------------------
(***************************************************************************)
(* No oversell: the reserved count is the number of units held. Sane gives *)
(* that it never exceeds what is on hand; what is left is that it counts   *)
(* the active reservations, which changes only in the transactions that    *)
(* change both together.                                                   *)
(***************************************************************************)
UnitsOf(k, s) == {k} \X (1..Qty[k][s])
Counted ==
    \A s \in Stocks :
        /\ IsFiniteSet(HeldUnits(s))
        /\ stock[s].reserved = Cardinality(HeldUnits(s))

\* The units a cart takes of a stock, as a set, are as many as the cart says.
LEMMA UnitsAreFinite ==
    ASSUME NEW k \in Checkouts, NEW s \in Stocks
    PROVE  IsFiniteSet(UnitsOf(k, s)) /\ Cardinality(UnitsOf(k, s)) = Qty[k][s]
<1>1. Qty[k][s] \in Nat
  BY CartAssumption
<1>2. IsFiniteSet(1..Qty[k][s]) /\ Cardinality(1..Qty[k][s]) = Qty[k][s]
  <2> DEFINE n == Qty[k][s]
  <2>1. n \in Nat /\ n \in Int /\ 1 \in Int
    BY <1>1
  <2> HIDE DEF n
  <2>2. IsFiniteSet(1..n) /\ Cardinality(1..n) = IF 1 > n THEN 0 ELSE n - 1 + 1
    BY ONLY <2>1, FS_Interval, Zenon
  <2>3. (IF 1 > n THEN 0 ELSE n - 1 + 1) = n
    BY <2>1
  <2> QED
    BY <2>2, <2>3 DEF n
<1>3. IsFiniteSet({k}) /\ Cardinality({k}) = 1
  BY FS_Singleton
<1>4. /\ IsFiniteSet({k} \X (1..Qty[k][s]))
      /\ Cardinality({k} \X (1..Qty[k][s])) = 1 * Qty[k][s]
  <2> DEFINE one == {k}
             some == 1..Qty[k][s]
  <2>1. /\ IsFiniteSet(one) /\ Cardinality(one) = 1
        /\ IsFiniteSet(some) /\ Cardinality(some) = Qty[k][s]
    BY <1>2, <1>3
  <2> HIDE DEF one, some
  <2>2. IsFiniteSet(one \X some) /\ Cardinality(one \X some) = Cardinality(one) * Cardinality(some)
    BY ONLY <2>1, FS_Product
  <2>3. IsFiniteSet(one \X some) /\ Cardinality(one \X some) = 1 * Qty[k][s]
    BY <2>1, <2>2
  <2> QED
    BY <2>3 DEF one, some
<1> QED
  BY <1>1, <1>4 DEF UnitsOf

\* A checkout that becomes active adds its units, which were not held before.
LEMMA HeldGrows ==
    ASSUME NEW k \in Checkouts, NEW s \in Stocks, ~Active(k), Active(k)',
           \A c \in Checkouts \ {k} : Active(c)' <=> Active(c)
    PROVE  /\ HeldUnits(s)' = HeldUnits(s) \cup UnitsOf(k, s)
           /\ HeldUnits(s) \cap UnitsOf(k, s) = {}
<1> DEFINE A == {c \in Checkouts : Active(c)}
           B == {c \in Checkouts : Active(c)'}
<1>1. B = A \cup {k} /\ k \notin A
  BY Zenon
<1>2. HeldUnits(s) = UNION {UnitsOf(c, s) : c \in A}
  BY DEF HeldUnits, UnitsOf
<1>3. HeldUnits(s)' = UNION {UnitsOf(c, s) : c \in B}
  BY DEF HeldUnits, UnitsOf
<1>4. \A c \in A : UnitsOf(c, s) \cap UnitsOf(k, s) = {}
  BY <1>1 DEF UnitsOf
<1> HIDE DEF A, B
<1> QED
  BY <1>1, <1>2, <1>3, <1>4

\* A checkout that stops being active takes its units away.
LEMMA HeldShrinks ==
    ASSUME NEW k \in Checkouts, NEW s \in Stocks, Active(k), ~(Active(k)'),
           \A c \in Checkouts \ {k} : Active(c)' <=> Active(c)
    PROVE  /\ HeldUnits(s) = HeldUnits(s)' \cup UnitsOf(k, s)
           /\ HeldUnits(s)' \cap UnitsOf(k, s) = {}
<1> DEFINE A == {c \in Checkouts : Active(c)}
           B == {c \in Checkouts : Active(c)'}
<1>1. A = B \cup {k} /\ k \notin B
  BY Zenon
<1>2. HeldUnits(s) = UNION {UnitsOf(c, s) : c \in A}
  BY DEF HeldUnits, UnitsOf
<1>3. HeldUnits(s)' = UNION {UnitsOf(c, s) : c \in B}
  BY DEF HeldUnits, UnitsOf
<1>4. \A c \in B : UnitsOf(c, s) \cap UnitsOf(k, s) = {}
  BY <1>1 DEF UnitsOf
<1> HIDE DEF A, B
<1> QED
  BY <1>1, <1>2, <1>3, <1>4

\* A transaction that takes a cart, or settles it, moves the count with the units.
LEMMA TakenUnitsCount ==
    ASSUME Counted, NEW k \in Checkouts, ~Active(k), Active(k)',
           \A c \in Checkouts \ {k} : Active(c)' <=> Active(c),
           \A s \in Stocks : stock'[s].reserved = stock[s].reserved + Qty[k][s]
    PROVE  Counted'
<1> SUFFICES ASSUME NEW s \in Stocks
             PROVE  /\ IsFiniteSet(HeldUnits(s)')
                    /\ stock'[s].reserved = Cardinality(HeldUnits(s)')
  BY DEF Counted
<1> DEFINE H == HeldUnits(s)
           U == UnitsOf(k, s)
<1>1. IsFiniteSet(H) /\ IsFiniteSet(U) /\ H \cap U = {} /\ HeldUnits(s)' = H \cup U
  BY UnitsAreFinite, HeldGrows DEF Counted
<1>2. Cardinality(U) = Qty[k][s] /\ stock[s].reserved = Cardinality(H)
  BY UnitsAreFinite DEF Counted
<1> HIDE DEF H, U
<1>3. /\ IsFiniteSet(H \cup U)
      /\ Cardinality(H \cup U) = Cardinality(H) + Cardinality(U) - Cardinality(H \cap U)
  BY <1>1, FS_Union
<1>4. Cardinality(H \cap U) = 0 /\ Cardinality(H) \in Nat /\ Cardinality(U) \in Nat
  BY <1>1, FS_EmptySet, FS_CardinalityType
<1> QED
  BY <1>1, <1>2, <1>3, <1>4

\* When a reservation ends, the units held of a stock fall by those of its cart.
LEMMA SettledUnitsCount ==
    ASSUME Counted, NEW k \in Checkouts, Active(k), ~(Active(k)'),
           \A c \in Checkouts \ {k} : Active(c)' <=> Active(c),
           \A s \in Stocks : stock'[s].reserved = stock[s].reserved - Qty[k][s]
    PROVE  Counted'
<1> SUFFICES ASSUME NEW s \in Stocks
             PROVE  /\ IsFiniteSet(HeldUnits(s)')
                    /\ stock'[s].reserved = Cardinality(HeldUnits(s)')
  BY DEF Counted
<1> DEFINE H == HeldUnits(s)'
           U == UnitsOf(k, s)
<1>1. HeldUnits(s) = H \cup U /\ H \cap U = {} /\ IsFiniteSet(U) /\ IsFiniteSet(HeldUnits(s))
  BY UnitsAreFinite, HeldShrinks DEF Counted
<1>2. Cardinality(U) = Qty[k][s] /\ stock[s].reserved = Cardinality(H \cup U)
  BY <1>1, UnitsAreFinite DEF Counted
<1> HIDE DEF H, U
<1>3. IsFiniteSet(H)
  BY <1>1, FS_Subset
<1>4. Cardinality(H \cup U) = Cardinality(H) + Cardinality(U) - Cardinality(H \cap U)
  BY <1>1, <1>3, FS_Union
<1>5. Cardinality(H \cap U) = 0 /\ Cardinality(H) \in Nat /\ Cardinality(U) \in Nat
  BY <1>1, <1>3, FS_EmptySet, FS_CardinalityType
<1>6. Cardinality(H) = stock[s].reserved - Qty[k][s]
  BY <1>2, <1>4, <1>5
<1> QED
  BY <1>3, <1>6 DEF H

\* Steps that leave the counts and the active reservations alone.
LEMMA SameCount ==
    ASSUME Counted, \A c \in Checkouts : Active(c)' <=> Active(c),
           \A s \in Stocks : stock'[s].reserved = stock[s].reserved
    PROVE  Counted'
<1> SUFFICES ASSUME NEW s \in Stocks PROVE HeldUnits(s)' = HeldUnits(s)
  BY DEF Counted
<1>1. {c \in Checkouts : Active(c)'} = {c \in Checkouts : Active(c)}
  BY Zenon
<1> QED
  BY <1>1 DEF HeldUnits

\* Every step of a worker keeps the reserved counts equal to the units held.
LEMMA CountIsKept ==
    ASSUME Sane, Counted, [Next]_vars
    PROVE  Counted'
<1>1. ASSUME NEW p \in Workers, Write(p) PROVE Counted'
  <2> DEFINE r == req[p]
             k == r.checkout
             x == seen[p].resv
  <2>0. pc[p] = "write"
    BY <1>1 DEF Write, Adjust, Reserve, Finish, Converge, RefundPaid, RefundPending, Defer
  <2>1. /\ RequestOK(r)
        /\ r.op \in Transacting
        /\ r.op # "adjust" => k \in Checkouts
        /\ x \in ReservationRecord
        /\ resv \in [Checkouts -> ReservationRecord]
    BY <2>0, WriterKnows DEF RequestOK, Transacting, Sane, StoreOK
  <2>2. CASE Adjust(p)
    <3>1. r.op = "adjust" /\ PutStock(r, seen[p].stock) /\ resv' = resv
      BY <2>2 DEF Adjust
    <3>2. Movement(r) = "adjust"
      BY <3>1 DEF Movement
    <3>3. \A s \in Touched(r) : stock'[s].reserved = stock[s].reserved + 0
      BY <2>0, <3>1, <3>2, CountsMove DEF PlansStock, ReservedDelta
    <3>4. \A s \in Stocks \ Touched(r) : stock'[s] = stock[s]
      BY <2>0, <3>1, CountsMove DEF PlansStock
    <3>5. \A s \in Stocks : stock[s].reserved \in Nat
      BY DEF Sane, StoreOK, StockRecord
    <3>6. \A s \in Stocks : stock'[s].reserved = stock[s].reserved
      BY <3>3, <3>4, <3>5
    <3> QED
      BY <1>1, <3>1, <3>6, SameCount DEF Active
  <2>3. CASE Reserve(p)
    <3>1. r.op = "reserve" /\ PutStock(r, seen[p].stock)
      BY <2>3 DEF Reserve
    <3>2. \A s \in Stocks : stock'[s].reserved = stock[s].reserved + Qty[k][s]
      BY <2>0, <3>1, CartMoves DEF PlansStock, Movement
    <3>3. /\ resv[k].status = "absent"
          /\ resv'[k].status = "reserved"
          /\ \A c \in Checkouts \ {k} : resv'[c] = resv[c]
      BY <2>1, <2>3, <3>1 DEF Reserve
    <3> QED
      BY <2>1, <3>1, <3>2, <3>3, TakenUnitsCount DEF Active
  <2>4. CASE Finish(p) \/ RefundPending(p)
    <3>1. /\ r.op \in {"payment", "release", "refund"}
          /\ PutStock(r, seen[p].stock)
          /\ PlansStock(r, seen[p])
      BY <2>4 DEF Finish, RefundPending, PlansStock
    <3>2. Movement(r) \in {"commit", "release"}
      BY <2>1, <3>1 DEF Movement, RequestOK, PaymentTypes
    <3>3. \A s \in Stocks : stock'[s].reserved = stock[s].reserved - Qty[k][s]
      BY <2>0, <3>1, <3>2, CartMoves
    <3>4. resv[k].status = "reserved" /\ resv' = [resv EXCEPT ![k] = Finished(r, x)]
      BY <2>4 DEF Finish, RefundPending, PutReservation
    <3>5. Finished(r, x).status \in {"committed", "released"}
      BY <2>1 DEF Finished, TargetStatus, ReservationRecord
    <3>6. /\ resv'[k].status # "reserved"
          /\ \A c \in Checkouts \ {k} : resv'[c] = resv[c]
      BY <2>1, <3>1, <3>4, <3>5
    <3> QED
      BY <2>1, <3>1, <3>3, <3>4, <3>6, SettledUnitsCount DEF Active
  <2>5. CASE Converge(p) \/ RefundPaid(p)
    BY <2>5, SameCount DEF Converge, RefundPaid, Active
  <2>6. CASE Defer(p)
    <3>1. /\ r.op = "defer"
          /\ x.status = "reserved"
          /\ resv[k].status = "reserved"
          /\ resv' = [resv EXCEPT ![k] = [x EXCEPT !.revision = @ + 1, !.reconcileAfter = r.next]]
          /\ stock' = stock
      BY <2>0, <2>6, WriterKnows DEF Defer, PutReservation
    <3>2. [x EXCEPT !.revision = @ + 1, !.reconcileAfter = r.next].status = "reserved"
      BY <2>1, <3>1 DEF ReservationRecord
    <3>3. \A c \in Checkouts : resv'[c].status = "reserved" <=> resv[c].status = "reserved"
      BY <2>1, <3>1, <3>2
    <3> QED
      BY <3>1, <3>3, SameCount DEF Active
  <2> QED
    BY <1>1, <2>2, <2>3, <2>4, <2>5, <2>6 DEF Write
<1>2. ASSUME NEW p \in Workers, Step(p), ~Write(p) PROVE stock' = stock /\ resv' = resv
  BY <1>2 DEF Step, Write, StartAdjust, StartCheckout, StartEvent, List, Decide, Start, Begin,
              ReadReservation, ReadOrder, ReadStock, Goto, Abandon, store
<1>3. ASSUME ExpireReceipt \/ ExpireInbox \/ Tick \/ UNCHANGED vars
      PROVE  stock' = stock /\ resv' = resv
  BY <1>3 DEF ExpireReceipt, ExpireInbox, Tick, vars, store
<1>4. ASSUME stock' = stock, resv' = resv PROVE Counted'
  BY <1>4, SameCount DEF Active
<1> QED
  BY <1>1, <1>2, <1>3, <1>4 DEF Next

\* Whatever the carts, the stocks and the interleaving: what is reserved is what
\* the active reservations hold, and there is always that much on hand.
THEOREM NoOversell == Spec => []StockIsHeld
<1>1. Init => Counted
  <2> SUFFICES ASSUME Init, NEW s \in Stocks
               PROVE  IsFiniteSet(HeldUnits(s)) /\ stock[s].reserved = Cardinality(HeldUnits(s))
    BY DEF Counted
  <2>1. HeldUnits(s) = {}
    BY DEF HeldUnits, Active, Init, NoReservation
  <2> QED
    BY <2>1, FS_EmptySet DEF Init, NoStock
<1>2. Sane /\ Counted /\ [Next]_vars => Counted'
  BY CountIsKept
<1>3. Sane /\ Counted => StockIsHeld
  BY DEF Sane, StoreOK, Sound, Counted, StockIsHeld
<1> QED
  BY <1>1, <1>2, <1>3, SaneHolds, PTL DEF Spec

-----------------------------------------------------------------------------
(***************************************************************************)
(* One story per checkout, and its end. OneStory is inductive with Sane:   *)
(* each transaction that writes a reservation writes its order and marker, *)
(* and the condition on the marker makes the copy's marker the stored one. *)
(***************************************************************************)
Pairs == {<<"absent", "absent">>, <<"reserved", "pending_checkout">>,
          <<"committed", "paid">>, <<"committed", "refunded">>,
          <<"released", "payment_not_completed">>}

StatusesAgree == \A k \in Checkouts : <<resv[k].status, order[k].status>> \in Pairs
MarkersAgree == due = {<<k, resv[k].reconcileAfter>> : k \in {c \in Checkouts : Active(c)}}
RefundsAgree ==
    \A k \in Checkouts :
        (order[k].status = "refunded") <=> (\E f \in refund : f.checkout = k)

\* OneStory is the conjunction of its three parts, each proved on its own.
LEMMA OneStoryParts == OneStory <=> StatusesAgree /\ MarkersAgree /\ RefundsAgree
BY DEF OneStory, StatusesAgree, MarkersAgree, RefundsAgree, Pairs

\* A marker that is there belongs to an active reservation and is its own.
LEMMA MarkerBelongs ==
    ASSUME MarkersAgree, NEW k \in Checkouts, NEW t, <<k, t>> \in due
    PROVE  Active(k) /\ t = resv[k].reconcileAfter
BY DEF MarkersAgree

\* How each transaction changes the reservation, the order and the marker of its
\* checkout, in terms of the stored records.
LEMMA Settling ==
    ASSUME Sane, OneStory, NEW p \in Workers, Finish(p) \/ RefundPending(p)
    PROVE  LET k == req[p].checkout
           IN  /\ k \in Checkouts
               /\ Active(k)
               /\ order[k].status = "pending_checkout"
               /\ due' = due \ {<<k, resv[k].reconcileAfter>>}
               /\ \A c \in Checkouts \ {k} : resv'[c] = resv[c] /\ order'[c] = order[c]
               /\ Finish(p) => <<resv'[k].status, order'[k].status>> \in
                    {<<"committed", "paid">>, <<"released", "payment_not_completed">>}
               /\ RefundPending(p) => <<resv'[k].status, order'[k].status>> =
                    <<"committed", "refunded">>
<1> DEFINE r == req[p]
           k == r.checkout
           x == seen[p].resv
           o == seen[p].order
<1>0. pc[p] = "write" /\ r.op \in {"payment", "release", "refund"}
  BY DEF Finish, RefundPending
<1>1. /\ k \in Checkouts
      /\ x \in ReservationRecord
      /\ o \in OrderRecord
      /\ RequestOK(r)
      /\ resv \in [Checkouts -> ReservationRecord]
      /\ order \in [Checkouts -> OrderRecord]
  BY <1>0, WriterKnows DEF RequestOK, Sane, StoreOK
<1>2. /\ resv[k].status = "reserved"
      /\ resv' = [resv EXCEPT ![k] = Finished(r, x)]
      /\ order[k].status = "pending_checkout"
      /\ <<k, x.reconcileAfter>> \in due
      /\ due' = due \ {<<k, x.reconcileAfter>>}
  BY DEF Finish, RefundPending, PutReservation, PutOrder, DeleteMarker
<1>3. x.reconcileAfter = resv[k].reconcileAfter
  BY <1>1, <1>2, OneStoryParts, MarkerBelongs
<1>4. resv'[k].status = TargetStatus(r)
  BY <1>1, <1>2 DEF Finished, ReservationRecord
<1>5. TargetStatus(r) \in {"committed", "released"}
  BY DEF TargetStatus
<1>6. Finish(p) => order' = [order EXCEPT ![k] =
        MovedTo(o, IF TargetStatus(r) = "committed" THEN "paid" ELSE "payment_not_completed")]
  BY DEF Finish, PutOrder
<1>7. RefundPending(p) =>
        /\ order' = [order EXCEPT ![k] = MovedTo(o, "refunded")]
        /\ TargetStatus(r) = "committed"
  BY DEF RefundPending, PutOrder, TargetStatus, Movement
<1>8. \A status : MovedTo(o, status).status = status
  BY <1>1 DEF MovedTo, OrderRecord
<1>9. Finish(p) => order'[k].status =
        IF TargetStatus(r) = "committed" THEN "paid" ELSE "payment_not_completed"
  BY <1>1, <1>6, <1>8
<1>10. RefundPending(p) => order'[k].status = "refunded"
  BY <1>1, <1>7, <1>8
<1>11. \A c \in Checkouts \ {k} : resv'[c] = resv[c] /\ order'[c] = order[c]
  BY <1>1, <1>2, <1>6, <1>7
<1> QED
  BY <1>1, <1>2, <1>3, <1>4, <1>5, <1>7, <1>9, <1>10, <1>11 DEF Active

\* A recorded refund is the only new one, and it is of its checkout.
LEMMA NewRefund ==
    ASSUME NEW id, NEW k, refund' = refund \cup {[refundId |-> id, checkout |-> k]}
    PROVE  /\ \E f \in refund' : f.checkout = k
           /\ \A f \in refund' : f \in refund \/ f.checkout = k
           /\ refund \subseteq refund'
<1> DEFINE new == [refundId |-> id, checkout |-> k]
<1>1. new.checkout = k /\ new \in refund'
  OBVIOUS
<1>2. \A f \in refund' : f \in refund \/ f = new
  OBVIOUS
<1> HIDE DEF new
<1> QED
  BY <1>1, <1>2 DEF new

\* Every step keeps the three parts of OneStory.
LEMMA OneStoryIsKept ==
    ASSUME Sane, OneStory, [Next]_vars
    PROVE  OneStory'
<1>0. StatusesAgree /\ MarkersAgree /\ RefundsAgree
  BY OneStoryParts
<1>1. ASSUME resv' = resv, order' = order, due' = due, refund' = refund
      PROVE  OneStory'
  BY <1>1 DEF OneStory, Active
<1>2. ASSUME NEW p \in Workers, Write(p) PROVE OneStory'
  <2> DEFINE r == req[p]
             k == r.checkout
             x == seen[p].resv
             o == seen[p].order
  <2>0. pc[p] = "write"
    BY <1>2 DEF Write, Adjust, Reserve, Finish, Converge, RefundPaid, RefundPending, Defer
  <2>1. /\ RequestOK(r)
        /\ r.op # "adjust" => k \in Checkouts
        /\ x \in ReservationRecord
        /\ o \in OrderRecord
        /\ resv \in [Checkouts -> ReservationRecord]
        /\ order \in [Checkouts -> OrderRecord]
        /\ r.op = "defer" => x.status = "reserved"
    BY <2>0, WriterKnows DEF RequestOK, Transacting, Sane, StoreOK
  <2>2. CASE Adjust(p) \/ Converge(p)
    BY <1>1, <2>2 DEF Adjust, Converge
  <2>3. CASE Reserve(p)
    <3>1. k \in Checkouts
      BY <2>1, <2>3 DEF Reserve
    <3>2. PICK after : /\ resv' = [resv EXCEPT ![k] =
                              [status |-> "reserved", revision |-> 1, createdAt |-> at[p],
                               reconcileAfter |-> after, reason |-> "none"]]
                       /\ due' = due \cup {<<k, after>>}
      BY <2>3 DEF Reserve
    <3>3. /\ resv[k].status = "absent"
          /\ order[k].status = "absent"
          /\ order' = [order EXCEPT ![k] =
                [status |-> "pending_checkout", revision |-> 1, target |-> r.target]]
          /\ refund' = refund
      BY <2>3 DEF Reserve
    <3>4. /\ resv'[k].status = "reserved"
          /\ resv'[k].reconcileAfter = after
          /\ order'[k].status = "pending_checkout"
          /\ \A c \in Checkouts \ {k} : resv'[c] = resv[c] /\ order'[c] = order[c]
      BY <2>1, <3>1, <3>2, <3>3
    <3>5. StatusesAgree'
      BY <1>0, <3>4 DEF StatusesAgree, Pairs
    <3>6. MarkersAgree'
      BY <1>0, <3>1, <3>2, <3>3, <3>4 DEF MarkersAgree, Active
    <3>7. RefundsAgree'
      BY <1>0, <3>3, <3>4 DEF RefundsAgree
    <3> QED
      BY <3>5, <3>6, <3>7, OneStoryParts, PTL
  <2>4. CASE Finish(p) \/ RefundPending(p)
    <3>1. /\ k \in Checkouts
          /\ Active(k)
          /\ order[k].status = "pending_checkout"
          /\ due' = due \ {<<k, resv[k].reconcileAfter>>}
          /\ \A c \in Checkouts \ {k} : resv'[c] = resv[c] /\ order'[c] = order[c]
          /\ Finish(p) => <<resv'[k].status, order'[k].status>> \in
               {<<"committed", "paid">>, <<"released", "payment_not_completed">>}
          /\ RefundPending(p) => <<resv'[k].status, order'[k].status>> =
               <<"committed", "refunded">>
      BY <2>4, Settling
    <3>2. StatusesAgree'
      BY <1>0, <2>4, <3>1 DEF StatusesAgree, Pairs
    <3>3. MarkersAgree'
      BY <1>0, <2>4, <3>1 DEF MarkersAgree, Active
    <3>4. RefundsAgree'
      <4>1. CASE Finish(p)
        BY <1>0, <3>1, <4>1 DEF RefundsAgree, Finish
      <4>2. CASE RefundPending(p)
        <5>1. refund' = refund \cup {[refundId |-> r.refundId, checkout |-> k]}
          BY <4>2 DEF RefundPending, PutRefund
        <5>2. /\ \E f \in refund' : f.checkout = k
              /\ \A f \in refund' : f \in refund \/ f.checkout = k
              /\ refund \subseteq refund'
          BY <5>1, NewRefund
        <5>3. order'[k].status = "refunded"
          BY <3>1, <4>2
        <5> QED
          BY <1>0, <3>1, <5>2, <5>3 DEF RefundsAgree
      <4> QED
        BY <2>4, <4>1, <4>2
    <3> QED
      BY <3>2, <3>3, <3>4, OneStoryParts, PTL
  <2>5. CASE RefundPaid(p)
    <3>1. /\ k \in Checkouts
          /\ order[k].status = "paid"
          /\ order' = [order EXCEPT ![k] = MovedTo(o, "refunded")]
          /\ refund' = refund \cup {[refundId |-> r.refundId, checkout |-> k]}
          /\ resv' = resv /\ due' = due
      BY <2>1, <2>5 DEF RefundPaid, PutOrder, PutRefund
    <3>2. /\ order'[k].status = "refunded"
          /\ \A c \in Checkouts \ {k} : order'[c] = order[c]
      BY <2>1, <3>1 DEF MovedTo, OrderRecord
    <3>3. StatusesAgree'
      BY <1>0, <3>1, <3>2 DEF StatusesAgree, Pairs
    <3>4. MarkersAgree'
      BY <1>0, <3>1 DEF MarkersAgree, Active
    <3>5. RefundsAgree'
      <4>1. /\ \E f \in refund' : f.checkout = k
            /\ \A f \in refund' : f \in refund \/ f.checkout = k
            /\ refund \subseteq refund'
        BY <3>1, NewRefund
      <4> QED
        BY <1>0, <3>1, <3>2, <4>1 DEF RefundsAgree
    <3> QED
      BY <3>3, <3>4, <3>5, OneStoryParts, PTL
  <2>6. CASE Defer(p)
    <3>1. /\ k \in Checkouts
          /\ x.status = "reserved"
          /\ resv[k].status = "reserved"
          /\ resv' = [resv EXCEPT ![k] = [x EXCEPT !.revision = @ + 1, !.reconcileAfter = r.next]]
          /\ resv[k].reconcileAfter = x.reconcileAfter
          /\ due' = (due \ {<<k, x.reconcileAfter>>}) \cup {<<k, r.next>>}
          /\ order' = order /\ refund' = refund
      BY <2>1, <2>6 DEF Defer, PutReservation
    <3>2. /\ resv'[k].status = "reserved"
          /\ resv'[k].reconcileAfter = r.next
          /\ \A c \in Checkouts \ {k} : resv'[c] = resv[c]
      BY <2>1, <3>1 DEF ReservationRecord
    <3>3. StatusesAgree'
      BY <1>0, <3>1, <3>2 DEF StatusesAgree, Pairs
    <3>4. MarkersAgree'
      BY <1>0, <3>1, <3>2 DEF MarkersAgree, Active
    <3>5. RefundsAgree'
      BY <1>0, <3>1 DEF RefundsAgree
    <3> QED
      BY <3>3, <3>4, <3>5, OneStoryParts, PTL
  <2> QED
    BY <1>2, <2>2, <2>3, <2>4, <2>5, <2>6 DEF Write
<1>3. ASSUME NEW p \in Workers, Step(p), ~Write(p) PROVE OneStory'
  BY <1>1, <1>3
     DEF Step, Write, StartAdjust, StartCheckout, StartEvent, List, Decide, Start, Begin,
         ReadReservation, ReadOrder, ReadStock, Goto, Abandon, store
<1>4. ASSUME ExpireReceipt \/ ExpireInbox \/ Tick \/ UNCHANGED vars PROVE OneStory'
  BY <1>1, <1>4 DEF ExpireReceipt, ExpireInbox, Tick, vars, store
<1> QED
  BY <1>2, <1>3, <1>4 DEF Next

\* Reservation, order, marker and refunds of every checkout agree, always.
THEOREM StoriesAgree == Spec => []OneStory
<1>1. Init => OneStory
  BY DEF Init, OneStory, NoReservation, NoOrder, Active
<1> QED
  BY <1>1, OneStoryIsKept, SaneHolds, PTL DEF Spec

\* A step leaves a finished reservation alone, and its order unless it is refunded.
LEMMA FinalStays ==
    ASSUME Sane, OneStory, [Next]_vars, NEW k \in Checkouts, Terminal(k)
    PROVE  /\ resv'[k] = resv[k]
           /\ \/ order'[k] = order[k]
              \/ order[k].status = "paid" /\ order'[k].status = "refunded"
<1>0. /\ ~Active(k)
      /\ resv[k].status # "absent"
      /\ <<resv[k].status, order[k].status>> \in Pairs
  BY OneStoryParts DEF Terminal, Active, StatusesAgree
<1>1. ASSUME NEW p \in Workers, Write(p)
      PROVE  /\ resv'[k] = resv[k]
             /\ \/ order'[k] = order[k]
                \/ order[k].status = "paid" /\ order'[k].status = "refunded"
  <2> DEFINE r == req[p]
             c == r.checkout
  <2>0. pc[p] = "write"
    BY <1>1 DEF Write, Adjust, Reserve, Finish, Converge, RefundPaid, RefundPending, Defer
  <2>1. /\ resv \in [Checkouts -> ReservationRecord]
        /\ order \in [Checkouts -> OrderRecord]
        /\ seen[p].order \in OrderRecord
    BY <2>0, WriterKnows DEF Sane, StoreOK
  <2>2. CASE Adjust(p) \/ Converge(p)
    BY <2>2 DEF Adjust, Converge
  <2>3. CASE Reserve(p)
    <3>1. resv[c].status = "absent"
      BY <2>3 DEF Reserve
    <3>2. c # k
      BY <1>0, <3>1
    <3> QED
      BY <2>1, <2>3, <3>2 DEF Reserve
  <2>4. CASE Finish(p) \/ RefundPending(p)
    <3>1. /\ c \in Checkouts
          /\ Active(c)
          /\ \A d \in Checkouts \ {c} : resv'[d] = resv[d] /\ order'[d] = order[d]
      BY <2>4, Settling
    <3> QED
      BY <1>0, <3>1
  <2>5. CASE RefundPaid(p)
    <3>1. /\ resv' = resv
          /\ order[c].status = "paid"
          /\ order' = [order EXCEPT ![c] = MovedTo(seen[p].order, "refunded")]
      BY <2>5 DEF RefundPaid, PutOrder
    <3>2. MovedTo(seen[p].order, "refunded").status = "refunded"
      BY <2>1 DEF MovedTo, OrderRecord
    <3> QED
      BY <2>1, <3>1, <3>2
  <2>6. CASE Defer(p)
    <3>1. resv[c].status = "reserved" /\ order' = order
      BY <2>6 DEF Defer, PutReservation
    <3>2. c # k
      BY <1>0, <3>1 DEF Active
    <3> QED
      BY <2>1, <2>6, <3>1, <3>2 DEF Defer, PutReservation
  <2> QED
    BY <1>1, <2>2, <2>3, <2>4, <2>5, <2>6 DEF Write
<1>2. ASSUME NEW p \in Workers, Step(p), ~Write(p) PROVE resv' = resv /\ order' = order
  BY <1>2 DEF Step, Write, StartAdjust, StartCheckout, StartEvent, List, Decide, Start, Begin,
              ReadReservation, ReadOrder, ReadStock, Goto, Abandon, store
<1>3. ASSUME ExpireReceipt \/ ExpireInbox \/ Tick \/ UNCHANGED vars
      PROVE  resv' = resv /\ order' = order
  BY <1>3 DEF ExpireReceipt, ExpireInbox, Tick, vars, store
<1> QED
  BY <1>1, <1>2, <1>3 DEF Next

\* Commit and release exclude each other in every behaviour: a finished reservation
\* is never written again.
THEOREM FinalForever == Spec => TerminalIsFinal
<1>1. Sane /\ OneStory /\ [Next]_vars =>
        (\A k \in Checkouts : Terminal(k) =>
            /\ resv'[k] = resv[k]
            /\ \/ order'[k] = order[k]
               \/ order[k].status = "paid" /\ order'[k].status = "refunded")
  BY FinalStays
<1> QED
  BY <1>1, SaneHolds, StoriesAgree, PTL DEF Spec, TerminalIsFinal
=============================================================================
