------------------------ MODULE CommerceStoreHistory ------------------------
(***************************************************************************)
(* More proofs about CommerceStore, for every set of checkouts, stocks,    *)
(* workers and messages: what its optimistic concurrency control promises  *)
(* of the copies a worker reads, and what rests on it.                     *)
(*                                                                         *)
(* A transaction writes a reservation or an order back as it was read,     *)
(* with some new fields, on condition that the revision is still the one   *)
(* read. It loses nothing if a copy with the revision of the item is the   *)
(* item (CopyOf), and this holds because every write advances the revision *)
(* (RecordMoves). What no write changes any more, such as a finished       *)
(* reservation or the target an order is pinned to, may be taken from an   *)
(* older copy: Converge does so, under no condition on either item.        *)
(*                                                                         *)
(* The last part is the ledger of movements: facts about sums over finite  *)
(* sets, proved from their definition, and that the movements of a stock   *)
(* add up to it.                                                           *)
(***************************************************************************)
EXTENDS CommerceStoreProofs, WellFoundedInduction

(***************************************************************************)
(* The inductive invariant, in parts. It holds together with Sane and      *)
(* OneStory.                                                               *)
(***************************************************************************)
\* A record that is not there yet is the empty one, and no other has its revision.
Fresh ==
    \A k \in Checkouts :
        /\ resv[k] = NoReservation \/ (resv[k].status # "absent" /\ resv[k].revision > 0)
        /\ order[k] = NoOrder \/ (order[k].status # "absent" /\ order[k].revision > 0)

\* A reservation is first due when its Checkout can no longer be created, and never earlier.
Late(k, time) == time >= resv[k].createdAt + CheckoutExpiry + Grace
Timed ==
    \A k \in Checkouts : resv[k].status # "absent" =>
        /\ Late(k, resv[k].reconcileAfter)
        /\ Active(k) => resv[k].reason = "none"

CopyOf(x, item) ==
    /\ x.revision <= item.revision
    /\ x.revision = item.revision => x = item

\* The copies of a worker: they are copies; what no step changes any more is as it was read.
Copies(p) ==
    LET k == req[p].checkout
        x == seen[p].resv
        o == seen[p].order
    IN  /\ CopyOf(x, resv[k]) /\ CopyOf(o, order[k])
        /\ x.status \in {"committed", "released"} => x = resv[k]
        /\ o.status # "absent" => o.target = order[k].target

\* What a worker has checked of its request and of its copies, by the step it is at.
Checked(p) ==
    LET r == req[p]
        x == seen[p].resv
        o == seen[p].order
    IN  /\ r.op \in {"look", "release"} =>
              resv[r.checkout].status # "absent" /\ Late(r.checkout, now)
        /\ r.op = "defer" =>
              /\ r.next <= now + Interval
              /\ pc[p] = "write" => r.next > x.reconcileAfter
        /\ r.op \in {"payment", "release"} =>
              /\ pc[p] \in {"order", "stock", "write"} => x.status # "absent" /\ MayFinish(r, x)
              /\ pc[p] \in {"stock", "write"} => o.status # "absent"

Carries(p) ==
    /\ at[p] <= now
    /\ pc[p] \in {"idle", "listed"} => seen[p] = Nothing
    /\ req[p].op \in {"none", "adjust"} => "checkout" \notin DOMAIN req[p]
    /\ req[p].op \notin {"none", "adjust"} => Copies(p)
    /\ Checked(p)

Acknowledged == \A e \in inbox : IsEvent(e) /\ RequestOK(e)
Told == \A n \in outbox : n.checkout \in Checkouts

\* The movements of a kind of a checkout in a stock, and that there is one of them or none.
Moves(k, s, type) == {m \in movement : m.checkout = k /\ m.stock = s /\ m.type = type}
Once(M, one) == IF one THEN \E m \in M : M = {m} ELSE M = {}
Settled ==
    \A k \in Checkouts : \A s \in Tracked(k) :
        /\ Once(Moves(k, s, "reserve"), resv[k].status # "absent")
        /\ Once(Moves(k, s, "commit"), resv[k].status = "committed")
        /\ Once(Moves(k, s, "release"), resv[k].status = "released")

History ==
    /\ Fresh /\ Timed
    /\ \A p \in Workers : Carries(p)
    /\ Acknowledged /\ AcknowledgedEventsHold
    /\ Told /\ NotificationsAreTrue
    /\ Settled

-----------------------------------------------------------------------------
(***************************************************************************)
(* The records.                                                            *)
(***************************************************************************)
\* What a step may do to the records of a checkout.
RecordMoves(k) ==
    /\ resv'[k] = resv[k] \/ resv'[k].revision > resv[k].revision
    /\ order'[k] = order[k] \/ order'[k].revision > order[k].revision
    /\ resv[k].status # "absent" =>
          resv'[k].status # "absent" /\ resv'[k].createdAt = resv[k].createdAt
    /\ order[k].status # "absent" =>
          order'[k].status # "absent" /\ order'[k].target = order[k].target
    /\ resv[k].status \in {"committed", "released"} => resv'[k] = resv[k]

\* The fields of the records that the transactions write.
LEMMA FinishedFields ==
    ASSUME NEW r, NEW x \in ReservationRecord
    PROVE  /\ Finished(r, x).status = TargetStatus(r)
           /\ Finished(r, x).revision = x.revision + 1
           /\ Finished(r, x).reason = CompletionReason(r)
           /\ Finished(r, x).createdAt = x.createdAt
           /\ Finished(r, x).reconcileAfter = x.reconcileAfter
<1> DEFINE y == [x EXCEPT !.status = TargetStatus(r)]
           z == [y EXCEPT !.revision = @ + 1]
<1>1. /\ y.status = TargetStatus(r) /\ y.revision = x.revision /\ y.createdAt = x.createdAt
      /\ y.reconcileAfter = x.reconcileAfter
      /\ DOMAIN y = {"status", "revision", "createdAt", "reconcileAfter", "reason"}
  BY DEF ReservationRecord
<1> HIDE DEF y
<1>2. /\ z.status = TargetStatus(r) /\ z.revision = x.revision + 1 /\ z.createdAt = x.createdAt
      /\ z.reconcileAfter = x.reconcileAfter
      /\ DOMAIN z = {"status", "revision", "createdAt", "reconcileAfter", "reason"}
  BY <1>1
<1>3. Finished(r, x) = [z EXCEPT !.reason = CompletionReason(r)]
  BY DEF Finished, ReservationRecord, y
<1> HIDE DEF z
<1> QED
  BY <1>2, <1>3

\* An order that is moved to a status has the next revision and its old target.
LEMMA MovedFields ==
    ASSUME NEW status, NEW o \in OrderRecord
    PROVE  /\ MovedTo(o, status).status = status
           /\ MovedTo(o, status).revision = o.revision + 1
           /\ MovedTo(o, status).target = o.target
BY DEF MovedTo, OrderRecord

\* A deferral changes a reservation's due time and its revision, nothing else.
LEMMA DeferredFields ==
    ASSUME NEW next, NEW x \in ReservationRecord
    PROVE  LET y == [x EXCEPT !.revision = @ + 1, !.reconcileAfter = next] IN
           /\ y.status = x.status /\ y.revision = x.revision + 1 /\ y.reason = x.reason
           /\ y.createdAt = x.createdAt /\ y.reconcileAfter = next
BY DEF ReservationRecord

\* What a writer has read of its checkout is what is stored, where its transaction says so.
LEMMA CopyIsStored ==
    ASSUME Sane, History, NEW p \in Workers, req[p].op \notin {"none", "adjust"}
    PROVE  LET k == req[p].checkout
               x == seen[p].resv
               o == seen[p].order
           IN  /\ k \in Checkouts
               /\ resv[k] \in ReservationRecord /\ order[k] \in OrderRecord
               /\ resv[k].revision = x.revision => x = resv[k]
               /\ order[k].revision = o.revision => o = order[k]
BY DEF Sane, StoreOK, LocalOK, WorkerOK, RequestOK, History, Carries, Copies, CopyOf

\* A transaction moves the records of its checkout forward, and loses nothing of them.
LEMMA WritesMove ==
    ASSUME Sane, OneStory, History, NEW p \in Workers, Write(p)
    PROVE  Fresh' /\ Timed' /\ \A k \in Checkouts : RecordMoves(k)
<1> DEFINE r == req[p]
           k == r.checkout
           x == seen[p].resv
           o == seen[p].order
<1>0. /\ pc[p] = "write" /\ Fresh /\ Timed
      /\ resv \in [Checkouts -> ReservationRecord] /\ order \in [Checkouts -> OrderRecord]
  BY DEF Write, Adjust, Reserve, Finish, Converge, RefundPaid, RefundPending, Defer, Sane,
         StoreOK, History
<1>1. RequestOK(r) /\ at[p] \in Nat /\ Checked(p)
  BY <1>0, WriterKnows DEF History, Carries
<1>2. r.op \in Transacting /\ r.op # "adjust" =>
        /\ k \in Checkouts /\ resv[k] \in ReservationRecord /\ order[k] \in OrderRecord
        /\ resv[k].revision = x.revision => x = resv[k]
        /\ order[k].revision = o.revision => o = order[k]
  BY CopyIsStored DEF Transacting
<1>3. ASSUME NEW c \in Checkouts,
             \A d \in Checkouts \ {c} : resv'[d] = resv[d] /\ order'[d] = order[d],
             RecordMoves(c),
             resv'[c] = resv[c] \/ (resv'[c].status # "absent" /\ resv'[c].revision > 0),
             order'[c] = order[c] \/ (order'[c].status # "absent" /\ order'[c].revision > 0),
             resv'[c].status # "absent" =>
                /\ resv'[c].reconcileAfter >= resv'[c].createdAt + CheckoutExpiry + Grace
                /\ resv'[c].status = "reserved" => resv'[c].reason = "none"
      PROVE  Fresh' /\ Timed' /\ \A d \in Checkouts : RecordMoves(d)
  <2>1. \A d \in Checkouts : RecordMoves(d)
    BY <1>3 DEF RecordMoves
  <2>2. Fresh'
    BY <1>0, <1>3 DEF Fresh
  <2>3. Timed'
    BY <1>0, <1>3 DEF Timed, Late, Active
  <2> QED
    BY <2>1, <2>2, <2>3
<1>4. CASE Adjust(p) \/ Converge(p)
  <2>1. resv' = resv /\ order' = order
    BY <1>4 DEF Adjust, Converge
  <2> QED
    BY <1>0, <2>1 DEF Fresh, Timed, Late, Active, RecordMoves
<1>5. CASE Reserve(p)
  <2>1. r.op = "reserve" /\ k \in Checkouts
    BY <1>2, <1>5 DEF Reserve, Transacting
  <2>2. /\ resv[k].status = "absent" /\ order[k].status = "absent"
        /\ resv' = [resv EXCEPT ![k] =
              [status |-> "reserved", revision |-> 1, createdAt |-> at[p],
               reconcileAfter |-> ReconcileAfter(at[p]), reason |-> "none"]]
        /\ order' = [order EXCEPT ![k] =
              [status |-> "pending_checkout", revision |-> 1, target |-> r.target]]
    BY <1>5 DEF Reserve
  <2>3. resv[k].revision = 0 /\ order[k].revision = 0
    BY <1>0, <2>1, <2>2 DEF Fresh, NoReservation, NoOrder
  <2>4. /\ resv'[k].status = "reserved" /\ resv'[k].revision = 1 /\ resv'[k].createdAt = at[p]
        /\ resv'[k].reconcileAfter = at[p] + CheckoutExpiry + Grace /\ resv'[k].reason = "none"
        /\ order'[k].status = "pending_checkout" /\ order'[k].revision = 1
        /\ \A d \in Checkouts \ {k} : resv'[d] = resv[d] /\ order'[d] = order[d]
    BY <1>0, <2>1, <2>2 DEF ReconcileAfter
  <2>5. RecordMoves(k)
    BY <2>2, <2>3, <2>4 DEF RecordMoves
  <2>6. at[p] + CheckoutExpiry + Grace \in Nat
    BY <1>1, TimingAssumption
  <2> HIDE DEF k
  <2> QED
    BY <1>3, <2>1, <2>4, <2>5, <2>6
<1>6. CASE Finish(p) \/ RefundPending(p)
  <2>1. r.op \in {"payment", "release", "refund"}
    BY <1>6 DEF Finish, RefundPending
  <2>2. /\ k \in Checkouts /\ resv[k] \in ReservationRecord /\ order[k] \in OrderRecord
        /\ resv[k].revision = x.revision => x = resv[k]
        /\ order[k].revision = o.revision => o = order[k]
    BY <1>2, <2>1 DEF Transacting
  <2>3. /\ resv[k].status = "reserved" /\ x = resv[k] /\ o = order[k]
        /\ resv' = [resv EXCEPT ![k] = Finished(r, resv[k])]
    BY <1>6, <2>2 DEF Finish, RefundPending, PutReservation, PutOrder
  <2>4. PICK status : status # "absent" /\ order' = [order EXCEPT ![k] = MovedTo(order[k], status)]
    BY <1>6, <2>3 DEF Finish, RefundPending, PutOrder
  <2>5. /\ resv'[k] = Finished(r, resv[k]) /\ order'[k] = MovedTo(order[k], status)
        /\ \A d \in Checkouts \ {k} : resv'[d] = resv[d] /\ order'[d] = order[d]
    BY <1>0, <2>2, <2>3, <2>4
  <2>6. /\ resv'[k].status \in {"committed", "released"}
        /\ resv'[k].revision = resv[k].revision + 1 /\ resv'[k].createdAt = resv[k].createdAt
        /\ resv'[k].reconcileAfter = resv[k].reconcileAfter
        /\ order'[k].status = status /\ order'[k].revision = order[k].revision + 1
        /\ order'[k].target = order[k].target
    BY <2>2, <2>5, FinishedFields, MovedFields DEF TargetStatus
  <2>7. resv[k].revision \in Nat /\ order[k].revision \in Nat
    BY <2>2 DEF ReservationRecord, OrderRecord
  <2>8. RecordMoves(k)
    BY <2>3, <2>4, <2>6, <2>7 DEF RecordMoves
  <2>9. resv[k].reconcileAfter >= resv[k].createdAt + CheckoutExpiry + Grace
    BY <1>0, <2>2, <2>3 DEF Timed, Late
  <2> HIDE DEF k
  <2> QED
    BY <1>3, <2>2, <2>4, <2>5, <2>6, <2>7, <2>8, <2>9
<1>7. CASE RefundPaid(p)
  <2>1. /\ k \in Checkouts /\ order[k] \in OrderRecord
        /\ order[k].revision = o.revision => o = order[k]
    BY <1>2, <1>7 DEF RefundPaid, Transacting
  <2>2. /\ resv' = resv /\ order' = [order EXCEPT ![k] = MovedTo(order[k], "refunded")]
        /\ order[k].status = "paid"
    BY <1>7, <2>1 DEF RefundPaid, PutOrder
  <2>3. /\ order'[k] = MovedTo(order[k], "refunded")
        /\ \A d \in Checkouts \ {k} : resv'[d] = resv[d] /\ order'[d] = order[d]
        /\ resv'[k] = resv[k]
    BY <1>0, <2>1, <2>2
  <2>4. /\ order'[k].status = "refunded" /\ order'[k].revision = order[k].revision + 1
        /\ order'[k].target = order[k].target /\ order[k].revision \in Nat
    BY <2>1, <2>3, MovedFields DEF OrderRecord
  <2>5. RecordMoves(k)
    BY <2>3, <2>4 DEF RecordMoves
  <2>6. resv[k].status # "absent" =>
            /\ resv[k].reconcileAfter >= resv[k].createdAt + CheckoutExpiry + Grace
            /\ resv[k].status = "reserved" => resv[k].reason = "none"
    BY <1>0, <2>1 DEF Timed, Late, Active
  <2> HIDE DEF k
  <2> QED
    BY <1>3, <2>1, <2>3, <2>4, <2>5, <2>6
<1>8. CASE Defer(p)
  <2>1. /\ r.op = "defer" /\ k \in Checkouts /\ resv[k] \in ReservationRecord
        /\ resv[k].revision = x.revision => x = resv[k]
    BY <1>2, <1>8 DEF Defer, Transacting
  <2>2. /\ order' = order /\ resv[k].status = "reserved" /\ x = resv[k]
        /\ resv' = [resv EXCEPT ![k] = [x EXCEPT !.revision = @ + 1, !.reconcileAfter = r.next]]
    BY <1>8, <2>1 DEF Defer, PutReservation
  <2>3. r.next > resv[k].reconcileAfter /\ r.next \in Nat
    BY <1>0, <1>1, <2>1, <2>2 DEF Checked, RequestOK
  <2> DEFINE y == [x EXCEPT !.revision = @ + 1, !.reconcileAfter = r.next]
  <2>4. /\ resv'[k] = y /\ order'[k] = order[k]
        /\ \A d \in Checkouts \ {k} : resv'[d] = resv[d] /\ order'[d] = order[d]
    BY <1>0, <2>1, <2>2
  <2>fields. /\ y.status = x.status /\ y.revision = x.revision + 1 /\ y.reason = x.reason
        /\ y.createdAt = x.createdAt /\ y.reconcileAfter = r.next
    BY <2>1, <2>2, DeferredFields
  <2> HIDE DEF y
  <2>5. /\ resv'[k].status = "reserved" /\ resv'[k].revision = resv[k].revision + 1
        /\ resv'[k].reason = resv[k].reason /\ resv'[k].createdAt = resv[k].createdAt
        /\ resv'[k].reconcileAfter = r.next
    BY <2>2, <2>4, <2>fields
  <2>6. /\ resv[k].revision \in Nat /\ resv[k].createdAt \in Nat /\ resv[k].reconcileAfter \in Nat
        /\ CheckoutExpiry \in Nat /\ Grace \in Nat
    BY <2>1, TimingAssumption DEF ReservationRecord
  <2>7. RecordMoves(k)
    BY <2>2, <2>4, <2>5, <2>6 DEF RecordMoves
  <2>8. resv[k].reconcileAfter >= resv[k].createdAt + CheckoutExpiry + Grace
        /\ resv[k].reason = "none"
    BY <1>0, <2>1, <2>2 DEF Timed, Late, Active
  <2>9. resv'[k].revision > 0
        /\ resv'[k].reconcileAfter >= resv'[k].createdAt + CheckoutExpiry + Grace
    BY <2>3, <2>5, <2>6, <2>8
  <2> HIDE DEF k, r
  <2> QED
    BY <1>3, <2>1, <2>4, <2>5, <2>7, <2>8, <2>9
<1> QED
  BY <1>4, <1>5, <1>6, <1>7, <1>8 DEF Write

\* Every other step leaves the records alone.
LEMMA OthersLeave ==
    ASSUME [Next]_vars, \A p \in Workers : ~Write(p)
    PROVE  UNCHANGED <<stock, movement, resv, order, due, outbox, refund>> /\ inbox' \subseteq inbox
<1>1. ASSUME NEW p \in Workers, Step(p)
      PROVE  UNCHANGED <<stock, movement, resv, order, due, outbox, refund>> /\ inbox' = inbox
  BY <1>1 DEF Step, Write, StartAdjust, StartCheckout, StartEvent, List, Decide, Start, Begin,
              ReadReservation, ReadOrder, ReadStock, Goto, Abandon, store
<1>2. ASSUME ExpireReceipt \/ ExpireInbox \/ Tick \/ UNCHANGED vars
      PROVE  /\ UNCHANGED <<stock, movement, resv, order, due, outbox, refund>>
             /\ inbox' \subseteq inbox
  BY <1>2 DEF ExpireReceipt, ExpireInbox, Tick, vars, store
<1> QED
  BY <1>1, <1>2 DEF Next

\* Every write of a reservation or an order advances its revision, in every step.
LEMMA RecordsMove ==
    ASSUME Sane, OneStory, History, [Next]_vars
    PROVE  Fresh' /\ Timed' /\ \A k \in Checkouts : RecordMoves(k)
<1>1. CASE \E p \in Workers : Write(p)
  BY <1>1, WritesMove
<1>2. CASE \A p \in Workers : ~Write(p)
  <2>1. resv' = resv /\ order' = order
    BY <1>2, OthersLeave
  <2> QED
    BY <2>1 DEF History, Fresh, Timed, Late, Active, RecordMoves
<1> QED
  BY <1>1, <1>2

-----------------------------------------------------------------------------
(***************************************************************************)
(* The workers.                                                            *)
(***************************************************************************)
\* A worker that does not move.
LEMMA CarriesOn ==
    ASSUME Sane, History, NEW q \in Workers, \A k \in Checkouts : RecordMoves(k),
           pc'[q] = pc[q], req'[q] = req[q], at'[q] = at[q], seen'[q] = seen[q],
           now' \in Nat, now' >= now, resv' \in [Checkouts -> ReservationRecord],
           order' \in [Checkouts -> OrderRecord]
    PROVE  Carries(q)'
<1> DEFINE r == req[q]
           k == r.checkout
           x == seen[q].resv
           o == seen[q].order
<1>0. /\ Carries(q) /\ RequestOK(r) /\ now \in Nat /\ at[q] \in Nat
      /\ x \in ReservationRecord /\ o \in OrderRecord
      /\ resv \in [Checkouts -> ReservationRecord] /\ order \in [Checkouts -> OrderRecord]
  BY DEF Sane, StoreOK, LocalOK, WorkerOK, Snapshot, History
<1>1. at[q] <= now'
  BY <1>0 DEF Carries
<1>2. ASSUME r.op \notin {"none", "adjust"}
      PROVE  Copies(q)'
  <2>1. k \in Checkouts /\ RecordMoves(k) /\ Copies(q)
    BY <1>0, <1>2 DEF RequestOK, Carries
  <2>2. /\ resv[k].revision \in Nat /\ resv'[k].revision \in Nat
        /\ order[k].revision \in Nat /\ order'[k].revision \in Nat
        /\ x.revision \in Nat /\ o.revision \in Nat
    BY <1>0, <2>1 DEF ReservationRecord, OrderRecord
  <2>3. CopyOf(x, resv'[k]) /\ CopyOf(o, order'[k])
    BY <2>1, <2>2 DEF Copies, CopyOf, RecordMoves
  <2>4. x.status \in {"committed", "released"} => x = resv'[k]
    BY <2>1 DEF Copies, RecordMoves
  <2>5. o.status # "absent" => o.target = order'[k].target
    <3> SUFFICES ASSUME o.status # "absent"
                 PROVE  o.target = order'[k].target
      OBVIOUS
    <3>1. o.target = order[k].target
      BY <2>1 DEF Copies
    <3>2. order[k].status # "absent"
      <4> SUFFICES ASSUME order[k] = NoOrder
                   PROVE  FALSE
        BY <2>1 DEF History, Fresh
      <4>1. o.revision = 0 /\ o = order[k]
        BY <2>1, <2>2 DEF Copies, CopyOf, NoOrder
      <4> QED
        BY <4>1 DEF NoOrder
    <3> QED
      BY <2>1, <3>1, <3>2 DEF RecordMoves
  <2> QED
    BY <2>3, <2>4, <2>5 DEF Copies, CopyOf
<1>3. ASSUME r.op \in {"look", "release"}
      PROVE  resv'[k].status # "absent" /\ now' >= resv'[k].createdAt + CheckoutExpiry + Grace
  <2>1. k \in Checkouts /\ RecordMoves(k)
    BY <1>0, <1>3 DEF RequestOK
  <2>2. /\ resv[k].status # "absent" /\ now >= resv[k].createdAt + CheckoutExpiry + Grace
        /\ resv[k].createdAt \in Nat
    BY <1>0, <1>3, <2>1 DEF Carries, Checked, Late, ReservationRecord
  <2> QED
    BY <1>0, <2>1, <2>2, TimingAssumption DEF RecordMoves
<1>4. r.op = "defer" => r.next <= now' + Interval
  BY <1>0, TimingAssumption DEF Carries, Checked, RequestOK
<1>5. Checked(q)'
  BY <1>0, <1>3, <1>4
     DEF Carries, Checked, Late, MayFinish, TargetStatus, CompletionReason, Movement
<1> QED
  BY <1>0, <1>1, <1>2, <1>5 DEF Carries

\* A worker that is done.
LEMMA IdleCarries ==
    ASSUME Sane, NEW p \in Workers, Reset(p)
    PROVE  Carries(p)'
<1>1. pc'[p] = "idle" /\ req'[p] = NoRequest /\ at'[p] = 0 /\ seen'[p] = Nothing /\ now' = now
  BY DEF Reset, Sane, LocalOK
<1>2. NoRequest.op = "none" /\ "checkout" \notin DOMAIN NoRequest /\ now \in Nat
  BY DEF NoRequest, Sane, StoreOK
<1> QED
  BY <1>1, <1>2 DEF Carries, Checked, Nothing

\* A worker that starts has copies of nothing yet.
LEMMA StartCarries ==
    ASSUME Sane, History, NEW p \in Workers, pc[p] \in {"idle", "listed"},
           NEW r, RequestOK(r), r.op \in Transacting, Start(p, r),
           r.op = "adjust" => "checkout" \notin DOMAIN r,
           r.op = "release" => resv[r.checkout].status # "absent" /\ Late(r.checkout, now),
           r.op = "defer" => r.next <= now + Interval,
           at'[p] <= now
    PROVE  Carries(p)'
<1>1. /\ UNCHANGED <<resv, order, now>> /\ req'[p] = r /\ seen'[p] = seen[p]
      /\ pc'[p] \notin {"idle", "listed"}
      /\ r.op \notin {"adjust", "reserve"} => pc'[p] \in {"order", "reservation"}
      /\ r.op \in {"payment", "release"} => pc'[p] = "reservation"
      /\ r.op = "defer" => pc'[p] = "reservation"
  BY DEF Start, Begin, FirstStep, Sane, LocalOK, store
<1>2. seen[p] = Nothing
  BY DEF History, Carries
<1>3. r.op # "adjust" => Copies(p)'
  <2> SUFFICES ASSUME r.op # "adjust"
               PROVE  Copies(p)'
    OBVIOUS
  <2> DEFINE k == r.checkout
  <2>1. k \in Checkouts /\ resv[k] \in ReservationRecord /\ order[k] \in OrderRecord
    BY DEF RequestOK, Transacting, Sane, StoreOK
  <2>2. CopyOf(NoReservation, resv[k]) /\ CopyOf(NoOrder, order[k])
    BY <2>1 DEF History, Fresh, CopyOf, NoReservation, NoOrder, ReservationRecord, OrderRecord
  <2>3. seen'[p].resv = NoReservation /\ seen'[p].order = NoOrder
    BY <1>1, <1>2 DEF Nothing
  <2>4. NoReservation.status = "absent" /\ NoOrder.status = "absent"
    BY DEF NoReservation, NoOrder
  <2> QED
    BY <1>1, <2>2, <2>3, <2>4 DEF Copies, CopyOf
<1>4. Checked(p)'
  BY <1>1 DEF Checked, Late, Transacting
<1> QED
  BY <1>1, <1>3, <1>4 DEF Carries, Transacting

\* A worker that begins carries nothing that is newer than the items.
LEMMA BeginningsCarry ==
    ASSUME Sane, OneStory, History, NEW p \in Workers,
           StartAdjust(p) \/ StartCheckout(p) \/ StartEvent(p) \/ List(p) \/ Decide(p)
    PROVE  Carries(p)'
<1>0. /\ now \in Nat /\ at \in [Workers -> Nat] /\ at[p] <= now /\ Carries(p)
      /\ due \subseteq Checkouts \X Nat
  BY DEF Sane, StoreOK, LocalOK, History, Carries
<1>1. CASE StartAdjust(p)
  <2>1. PICK a \in Adjustments : Start(p, AdjustRequest(a))
    BY <1>1 DEF StartAdjust
  <2>2. AdjustRequest(a).op = "adjust" /\ "checkout" \notin DOMAIN AdjustRequest(a)
    BY DEF AdjustRequest
  <2>3. pc[p] = "idle" /\ at' = at
    BY <1>1 DEF StartAdjust
  <2> QED
    BY <1>0, <2>1, <2>2, <2>3, RequestsAreOK, StartCarries
<1>2. CASE StartCheckout(p)
  <2>1. PICK k \in Checkouts, t \in Targets : Start(p, ReserveRequest(k, t))
    BY <1>2 DEF StartCheckout
  <2>2. ReserveRequest(k, t).op = "reserve"
    BY DEF ReserveRequest
  <2>3. pc[p] = "idle" /\ at'[p] = now
    BY <1>0, <1>2 DEF StartCheckout
  <2> QED
    BY <1>0, <2>1, <2>2, <2>3, RequestsAreOK, StartCarries
<1>3. CASE StartEvent(p)
  <2>1. PICK m \in Messages : Start(p, QueueRequest(m))
    BY <1>3 DEF StartEvent
  <2>2. QueueRequest(m).op \in {"payment", "refund"}
    BY DEF QueueRequest, RefundRequest, PaymentRequest
  <2>3. pc[p] = "idle" /\ at' = at
    BY <1>3 DEF StartEvent
  <2> QED
    BY <1>0, <2>1, <2>2, <2>3, RequestsAreOK, StartCarries
<1>4. CASE List(p)
  <2>1. PICK d \in due :
          /\ d[2] <= now
          /\ req' = [req EXCEPT ![p] = [op |-> "look", checkout |-> d[1], marker |-> d[2]]]
    BY <1>4 DEF List
  <2> DEFINE r == [op |-> "look", checkout |-> d[1], marker |-> d[2]]
             k == d[1]
  <2>2. /\ pc[p] = "idle" /\ pc'[p] = "listed" /\ req'[p] = r /\ at'[p] = now
        /\ seen'[p] = seen[p] /\ UNCHANGED <<resv, order, now>>
    BY <1>0, <1>4, <2>1 DEF List, Sane, LocalOK, store
  <2>3. seen[p] = Nothing
    BY <1>0, <2>2 DEF Carries
  <2>4. k \in Checkouts /\ d[2] \in Nat /\ Active(k) /\ d[2] = resv[k].reconcileAfter
    <3>1. d = <<d[1], d[2]>> /\ k \in Checkouts /\ d[2] \in Nat
      BY <1>0
    <3> QED
      BY <3>1, OneStoryParts, MarkerBelongs
  <2>5. resv[k] \in ReservationRecord /\ order[k] \in OrderRecord
    BY <2>4 DEF Sane, StoreOK
  <2>6. resv[k].status # "absent" /\ Late(k, now)
    BY <1>0, <2>1, <2>4, <2>5, TimingAssumption
       DEF History, Timed, Late, Active, ReservationRecord
  <2>7. CopyOf(NoReservation, resv[k]) /\ CopyOf(NoOrder, order[k])
    BY <2>4, <2>5 DEF History, Fresh, CopyOf, NoReservation, NoOrder, ReservationRecord, OrderRecord
  <2>8. /\ seen'[p].resv = NoReservation /\ seen'[p].order = NoOrder
        /\ NoReservation.status = "absent" /\ NoOrder.status = "absent"
    BY <2>2, <2>3 DEF Nothing, NoReservation, NoOrder
  <2>9. r.op = "look" /\ r.checkout = k
    OBVIOUS
  <2> HIDE DEF r, k
  <2>10. Copies(p)'
    BY <2>2, <2>7, <2>8, <2>9 DEF Copies, CopyOf
  <2>11. Checked(p)'
    BY <2>2, <2>6, <2>9 DEF Checked, Late
  <2> QED
    BY <1>0, <2>2, <2>3, <2>9, <2>10, <2>11 DEF Carries
<1>5. CASE Decide(p)
  <2> DEFINE k == req[p].checkout
             t == req[p].marker
  <2>1. PICK status \in Statuses : Start(p, ReconcileRequest(k, t, status, at[p]))
    BY <1>5 DEF Decide
  <2>2. /\ pc[p] = "listed" /\ at' = at /\ req[p].op = "look" /\ k \in Checkouts /\ t \in Nat
        /\ resv[k].status # "absent" /\ Late(k, now)
    BY <1>0, <1>5
       DEF Decide, Sane, LocalOK, WorkerOK, StageOK, RequestOK, Carries, Checked
  <2> DEFINE r == ReconcileRequest(k, t, status, at[p])
  <2>3. RequestOK(r) /\ r.op \in Transacting
    BY <1>0, <2>2, RequestsAreOK
  <2>4. /\ r.op \in {"payment", "release", "defer"} /\ r.checkout = k
        /\ r.op = "defer" => r.next = at[p] + Interval
    BY DEF ReconcileRequest, PaymentRequest, ReleaseRequest, DeferRequest, Statuses
  <2>5. at[p] + Interval <= now + Interval
    BY <1>0, TimingAssumption
  <2> HIDE DEF r, k
  <2> QED
    BY <1>0, <2>1, <2>2, <2>3, <2>4, <2>5, StartCarries DEF r
<1> QED
  BY <1>1, <1>2, <1>3, <1>4, <1>5

\* What is read is stored now, and is checked.
LEMMA ReadsCarry ==
    ASSUME Sane, History, NEW p \in Workers, ReadReservation(p) \/ ReadOrder(p) \/ ReadStock(p)
    PROVE  Carries(p)'
<1> DEFINE r == req[p]
           k == r.checkout
           x == seen[p].resv
           o == seen[p].order
<1>0. /\ Carries(p) /\ RequestOK(r) /\ StageOK(pc[p], r.op) /\ seen[p] \in Snapshot
      /\ UNCHANGED <<resv, order, now, req, at>>
      /\ pc'[p] \notin {"idle", "listed"}
  BY DEF ReadReservation, ReadOrder, ReadStock, Goto, store, Sane, LocalOK, WorkerOK, History
<1>1. CASE ReadReservation(p)
  <2>1. /\ r.op \in {"payment", "refund", "release", "defer"} /\ k \in Checkouts
        /\ pc[p] = "reservation" /\ resv[k] \in ReservationRecord
    BY <1>0, <1>1 DEF ReadReservation, StageOK, RequestOK, Sane, StoreOK
  <2>2. /\ resv[k].status # "absent"
        /\ r.op = "defer" => r.next > resv[k].reconcileAfter
        /\ r.op \in {"payment", "release"} => MayFinish(r, resv[k])
        /\ seen' = [seen EXCEPT ![p].resv = resv[k]]
    BY <1>1 DEF ReadReservation, MayDefer
  <2>3. seen'[p].resv = resv[k] /\ seen'[p].order = o
    BY <1>0, <2>2 DEF Sane, LocalOK, Snapshot
  <2>4. r.op \in {"payment", "release"} => pc'[p] = "order"
    BY <1>1, <2>1 DEF ReadReservation, Goto, Sane, LocalOK
  <2>5. Copies(p)'
    <3>1. resv[k].revision <= resv[k].revision
      BY <2>1 DEF ReservationRecord
    <3>2. Copies(p) /\ req'[p] = r /\ resv' = resv /\ order' = order
      BY <1>0, <2>1 DEF Carries
    <3> QED
      BY <2>3, <3>1, <3>2 DEF Copies, CopyOf
  <2>6. Checked(p)'
    BY <1>0, <2>1, <2>2, <2>3, <2>4
       DEF Carries, Checked, Late, MayFinish, TargetStatus, CompletionReason, Movement
  <2> QED
    BY <1>0, <2>1, <2>5, <2>6 DEF Carries
<1>2. CASE ReadOrder(p)
  <2>1. /\ r.op \in {"payment", "refund", "release"} /\ k \in Checkouts
        /\ pc[p] = "order" /\ order[k] \in OrderRecord
    BY <1>0, <1>2 DEF ReadOrder, StageOK, RequestOK, Sane, StoreOK
  <2>2. /\ r.op # "refund" => OrderFits(r, x, order[k])
        /\ seen' = [seen EXCEPT ![p].order = order[k]]
    BY <1>2 DEF ReadOrder
  <2>3. seen'[p].order = order[k] /\ seen'[p].resv = x
    BY <1>0, <2>2 DEF Sane, LocalOK, Snapshot
  <2>4. r.op # "refund" => order[k].status # "absent"
    BY <2>2 DEF OrderFits
  <2>5. Copies(p)'
    <3>1. order[k].revision <= order[k].revision
      BY <2>1 DEF OrderRecord
    <3>2. Copies(p) /\ req'[p] = r /\ resv' = resv /\ order' = order
      BY <1>0, <2>1 DEF Carries
    <3> QED
      BY <2>3, <3>1, <3>2 DEF Copies, CopyOf
  <2>6. Checked(p)'
    BY <1>0, <2>1, <2>3, <2>4
       DEF Carries, Checked, Late, MayFinish, TargetStatus, CompletionReason, Movement
  <2> QED
    BY <1>0, <2>1, <2>5, <2>6 DEF Carries
<1>3. CASE ReadStock(p)
  <2>1. PICK s \in todo[p] :
            seen' = [seen EXCEPT ![p].stock[s] = stock[s]] /\ Goto(p, "stock", todo[p] \ {s})
    BY <1>3 DEF ReadStock
  <2>2. pc[p] = "stock" /\ seen'[p].resv = x /\ seen'[p].order = o /\ r.op # "defer"
    BY <1>0, <1>3, <2>1 DEF ReadStock, StageOK, Sane, LocalOK, Snapshot
  <2>3. Copies(p) => Copies(p)'
    BY <1>0, <2>2 DEF Copies, CopyOf
  <2>4. Checked(p)'
    BY <1>0, <2>2
       DEF Carries, Checked, Late, MayFinish, TargetStatus, CompletionReason, Movement
  <2> QED
    BY <1>0, <2>3, <2>4 DEF Carries
<1> QED
  BY <1>1, <1>2, <1>3

\* What a worker carries stays an item, or one that was, whatever the others write.
LEMMA WorkersCarry ==
    ASSUME Sane, OneStory, History, [Next]_vars
    PROVE  \A q \in Workers : Carries(q)'
<1>1. Sane'
  BY SaneIsInductive
<1>2. /\ now' \in Nat /\ now' >= now /\ now \in Nat
      /\ resv' \in [Checkouts -> ReservationRecord] /\ order' \in [Checkouts -> OrderRecord]
  <2>1. now \in Nat
    BY DEF Sane, StoreOK
  <2>2. ASSUME NEW p \in Workers, Step(p)
        PROVE  now' = now
    <3>1. Write(p) \/ Abandon(p) => now' = now
      BY WritesReset DEF Abandon, Reset
    <3>2. ~(Write(p) \/ Abandon(p)) => now' = now
      BY <2>2 DEF Step, Write, StartAdjust, StartCheckout, StartEvent, List, Decide, Start,
                  Begin, ReadReservation, ReadOrder, ReadStock, Goto
    <3> QED
      BY <3>1, <3>2
  <2>3. now' = now \/ now' = now + 1
    BY <2>2 DEF Next, ExpireReceipt, ExpireInbox, Tick, vars
  <2> QED
    BY <1>1, <2>1, <2>3 DEF Sane, StoreOK
<1>3. \A k \in Checkouts : RecordMoves(k)
  BY RecordsMove
<1>4. ASSUME NEW p \in Workers, Step(p), NEW q \in Workers
      PROVE  Carries(q)'
  <2>1. CASE q # p
    <3>1. pc'[q] = pc[q] /\ req'[q] = req[q] /\ at'[q] = at[q] /\ seen'[q] = seen[q]
      BY <1>4, <2>1
         DEF Step, StartAdjust, StartCheckout, StartEvent, List, Decide, Start, Begin,
             ReadReservation, ReadOrder, ReadStock, Goto, Adjust, Reserve, Finish, Converge,
             RefundPaid, RefundPending, Defer, Abandon, Reset, Sane, LocalOK
    <3> QED
      BY <1>2, <1>3, <3>1, CarriesOn
  <2>2. CASE q = p
    <3>1. CASE StartAdjust(p) \/ StartCheckout(p) \/ StartEvent(p) \/ List(p) \/ Decide(p)
      BY <2>2, <3>1, BeginningsCarry
    <3>2. CASE ReadReservation(p) \/ ReadOrder(p) \/ ReadStock(p)
      BY <2>2, <3>2, ReadsCarry
    <3>3. CASE Write(p) \/ Abandon(p)
      BY <2>2, <3>3, WritesReset, IdleCarries DEF Abandon
    <3> QED
      BY <1>4, <3>1, <3>2, <3>3 DEF Step, Write
  <2> QED
    BY <2>1, <2>2
<1>5. ASSUME ExpireReceipt \/ ExpireInbox \/ Tick \/ UNCHANGED vars, NEW q \in Workers
      PROVE  Carries(q)'
  <2>1. pc' = pc /\ req' = req /\ at' = at /\ seen' = seen
    BY <1>5 DEF ExpireReceipt, ExpireInbox, Tick, vars, local
  <2> QED
    BY <1>2, <1>3, <2>1, CarriesOn
<1> QED
  BY <1>4, <1>5 DEF Next

-----------------------------------------------------------------------------
(***************************************************************************)
(* The events that were acknowledged, and the notifications.               *)
(***************************************************************************)
\* A transaction for a payment leaves its outcome, and one for a refund a refunded order.
LEMMA OutcomeHolds ==
    ASSUME Sane, OneStory, History, NEW p \in Workers, Write(p), IsEvent(req[p])
    PROVE  LET r == req[p]
               k == r.checkout
           IN  /\ k \in Checkouts /\ RequestOK(r)
               /\ r.op = "payment" => /\ resv'[k].status = TargetStatus(r)
                                      /\ resv'[k].reason = CompletionReason(r)
                                      /\ order'[k].target = seen[p].order.target
               /\ r.op = "refund" => order'[k].status = "refunded"
<1> DEFINE r == req[p]
           k == r.checkout
           x == seen[p].resv
           o == seen[p].order
<1>0. /\ pc[p] = "write" /\ r.op \in {"payment", "refund"} /\ RequestOK(r) /\ k \in Checkouts
      /\ resv \in [Checkouts -> ReservationRecord] /\ order \in [Checkouts -> OrderRecord]
      /\ resv[k] \in ReservationRecord /\ order[k] \in OrderRecord
      /\ resv[k].revision = x.revision => x = resv[k]
      /\ order[k].revision = o.revision => o = order[k]
      /\ Copies(p) /\ Checked(p)
  BY CopyIsStored
     DEF Write, Adjust, Reserve, Finish, Converge, RefundPaid, RefundPending, Defer, IsEvent,
         Sane, StoreOK, LocalOK, WorkerOK, History, Carries
<1>1. Finish(p) \/ Converge(p) \/ RefundPaid(p) \/ RefundPending(p)
  BY <1>0 DEF Write, Adjust, Reserve, Defer
<1>2. CASE Finish(p)
  <2>1. /\ resv[k].status = "reserved" /\ x = resv[k] /\ o = order[k]
        /\ resv' = [resv EXCEPT ![k] = Finished(r, x)] /\ r.op = "payment"
    BY <1>0, <1>2 DEF Finish, PutReservation, PutOrder
  <2>2. PICK status : order' = [order EXCEPT ![k] = MovedTo(o, status)]
    BY <1>2 DEF Finish, PutOrder
  <2>3. resv'[k] = Finished(r, x) /\ order'[k] = MovedTo(o, status)
    BY <1>0, <2>1, <2>2
  <2> QED
    BY <1>0, <2>1, <2>3, FinishedFields, MovedFields
<1>3. CASE Converge(p)
  <2>1. r.op = "payment" /\ x.status # "reserved" /\ resv' = resv /\ order' = order
    BY <1>3 DEF Converge
  <2>2. MayFinish(r, x) /\ o.status # "absent"
    BY <1>0, <2>1 DEF Checked
  <2>3. x.status = TargetStatus(r) /\ x.reason = CompletionReason(r)
    BY <2>1, <2>2 DEF MayFinish
  <2>4. x = resv[k] /\ o.target = order[k].target
    BY <1>0, <2>2, <2>3 DEF Copies, TargetStatus
  <2> QED
    BY <1>0, <2>1, <2>3, <2>4
<1>4. CASE RefundPaid(p) \/ RefundPending(p)
  <2>1. /\ o = order[k] /\ order' = [order EXCEPT ![k] = MovedTo(o, "refunded")]
        /\ r.op = "refund"
    BY <1>0, <1>4 DEF RefundPaid, RefundPending, PutOrder
  <2>2. order'[k] = MovedTo(o, "refunded")
    BY <1>0, <2>1
  <2> QED
    BY <1>0, <2>1, <2>2, MovedFields
<1> QED
  BY <1>1, <1>2, <1>3, <1>4

\* What a payment or a refund has left, no later step undoes.
LEMMA OutcomeStays ==
    ASSUME Sane, OneStory, History, [Next]_vars, NEW k \in Checkouts
    PROVE  /\ resv[k].status \in {"committed", "released"} => resv'[k] = resv[k]
           /\ order[k].status = "refunded" => order'[k].status = "refunded"
           /\ order[k].status # "absent" => order'[k].target = order[k].target
<1>1. RecordMoves(k)
  BY RecordsMove
<1>2. order[k].status = "refunded" => Terminal(k)
  BY DEF OneStory, Terminal
<1> QED
  BY <1>1, <1>2, FinalStays DEF RecordMoves

\* What the inbox says of an order stays true.
LEMMA EventsHold ==
    ASSUME Sane, OneStory, History, [Next]_vars
    PROVE  Acknowledged' /\ AcknowledgedEventsHold'
<1>1. ASSUME NEW e \in inbox
      PROVE  /\ IsEvent(e) /\ RequestOK(e)
             /\ e.op = "payment" => /\ resv'[e.checkout].status = TargetStatus(e)
                                    /\ resv'[e.checkout].reason = CompletionReason(e)
             /\ e.op = "refund" => order'[e.checkout].status = "refunded"
  <2>1. IsEvent(e) /\ RequestOK(e) /\ e.checkout \in Checkouts
    BY <1>1 DEF History, Acknowledged, IsEvent, RequestOK
  <2> QED
    BY <2>1, OutcomeStays DEF History, AcknowledgedEventsHold, TargetStatus
<1>2. ASSUME NEW e \in inbox', e \notin inbox
      PROVE  /\ IsEvent(e) /\ RequestOK(e)
             /\ e.op = "payment" => /\ resv'[e.checkout].status = TargetStatus(e)
                                    /\ resv'[e.checkout].reason = CompletionReason(e)
             /\ e.op = "refund" => order'[e.checkout].status = "refunded"
  <2>1. PICK p \in Workers : Write(p)
    BY <1>2, OthersLeave
  <2>2. e = req[p] /\ IsEvent(req[p])
    BY <1>2, <2>1
       DEF Write, Adjust, Reserve, Finish, Converge, RefundPaid, RefundPending, Defer, PutInbox
  <2> QED
    BY <2>1, <2>2, OutcomeHolds
<1> QED
  BY <1>1, <1>2 DEF Acknowledged, AcknowledgedEventsHold, IsEvent, RequestOK, TargetStatus,
     CompletionReason, Movement

\* What the outbox says of a reservation stays true.
LEMMA NotificationsHold ==
    ASSUME Sane, OneStory, History, [Next]_vars
    PROVE  Told' /\ NotificationsAreTrue'
<1>1. ASSUME NEW n \in outbox
      PROVE  /\ n.checkout \in Checkouts
             /\ n.type \in order'[n.checkout].target
             /\ resv'[n.checkout].status =
                  IF n.type = "payment-succeeded" THEN "committed" ELSE "released"
  <2> DEFINE k == n.checkout
  <2>1. /\ k \in Checkouts /\ n.type \in order[k].target
        /\ resv[k].status = IF n.type = "payment-succeeded" THEN "committed" ELSE "released"
    BY <1>1 DEF History, Told, NotificationsAreTrue
  <2>2. order[k].status # "absent"
    BY <2>1 DEF History, Fresh, NoOrder
  <2> QED
    BY <2>1, <2>2, OutcomeStays
<1>2. ASSUME NEW n \in outbox', n \notin outbox
      PROVE  /\ n.checkout \in Checkouts
             /\ n.type \in order'[n.checkout].target
             /\ resv'[n.checkout].status =
                  IF n.type = "payment-succeeded" THEN "committed" ELSE "released"
  <2>1. PICK p \in Workers : Write(p)
    BY <1>2, OthersLeave
  <2> DEFINE r == req[p]
             o == seen[p].order
  <2>2. r.op \in {"payment", "release"} /\ n \in Notifications(r, o)
    BY <1>2, <2>1
       DEF Write, Adjust, Reserve, Finish, Converge, RefundPaid, RefundPending, Defer, PutOutbox
  <2>3. /\ r.op = "payment" /\ NotificationType(r) \in o.target
        /\ n = [source |-> r.key, type |-> NotificationType(r), checkout |-> r.checkout]
    BY <2>2 DEF Notifications
  <2>4. n.type = NotificationType(r) /\ n.checkout = r.checkout
    BY <2>3
  <2>5. /\ r.checkout \in Checkouts /\ RequestOK(r)
        /\ resv'[r.checkout].status = TargetStatus(r)
        /\ order'[r.checkout].target = o.target
    BY <2>1, <2>3, OutcomeHolds DEF IsEvent
  <2>6. r.type \in PaymentTypes
    BY <2>3, <2>5 DEF RequestOK
  <2>7. TargetStatus(r) =
            IF NotificationType(r) = "payment-succeeded" THEN "committed" ELSE "released"
    BY <2>3, <2>6 DEF TargetStatus, Movement, NotificationType, PaymentTypes
  <2> QED
    BY <2>3, <2>4, <2>5, <2>7
<1> QED
  BY <1>1, <1>2 DEF Told, NotificationsAreTrue

-----------------------------------------------------------------------------
(***************************************************************************)
(* The movements. Their keys are new, so a transaction records one for     *)
(* each stock it writes, beside all those that are there.                  *)
(***************************************************************************)
MovementsIn(s) == {m \in movement : m.stock = s}

\* A put of stocks adds one movement to each stock it touches, with the amounts of its operation.
LEMMA NewMovement ==
    ASSUME NEW r, NEW x, PutStock(r, x), NEW s
    PROVE  /\ s \notin Touched(r) => MovementsIn(s)' = MovementsIn(s)
           /\ s \in Touched(r) =>
                \E m : /\ m \notin movement /\ MovementsIn(s)' = MovementsIn(s) \cup {m}
                       /\ m.type = Movement(r)
                       /\ m.checkout = IF r.op = "adjust" THEN "none" ELSE r.checkout
                       /\ m.onHand = OnHandDelta(r, s) /\ m.reserved = ReservedDelta(r, s)
<1> DEFINE move(z) ==
            [key |-> r.key, type |-> Movement(r), stock |-> z,
             checkout |-> IF r.op = "adjust" THEN "none" ELSE r.checkout,
             onHand |-> OnHandDelta(r, z), reserved |-> ReservedDelta(r, z)]
<1>1. movement' = movement \cup {move(z) : z \in Touched(r)}
  BY DEF PutStock, MovementsOf
<1>2. \A z : /\ move(z).stock = z /\ move(z).type = Movement(r) /\ move(z).key = r.key
             /\ move(z).checkout = IF r.op = "adjust" THEN "none" ELSE r.checkout
             /\ move(z).onHand = OnHandDelta(r, z) /\ move(z).reserved = ReservedDelta(r, z)
  OBVIOUS
<1>3. ASSUME s \in Touched(r)
      PROVE  move(s) \notin movement
  <2>1. move(s) \in MovementsOf(r)
    BY <1>3 DEF MovementsOf
  <2> HIDE DEF move
  <2>2. <<r.key, Movement(r), s>> \in MovementKeys(MovementsOf(r))
    BY <1>2, <2>1 DEF MovementKeys
  <2>3. move(s) \in movement => <<r.key, Movement(r), s>> \in MovementKeys(movement)
    BY <1>2 DEF MovementKeys
  <2> QED
    BY <2>2, <2>3 DEF PutStock
<1> HIDE DEF move
<1> QED
  BY <1>1, <1>2, <1>3 DEF MovementsIn

\* What of it belongs to a checkout and a kind of movement.
LEMMA MovesGrow ==
    ASSUME NEW r, NEW x, PutStock(r, x), NEW k \in Checkouts, NEW s \in Tracked(k),
           NEW type \in {"reserve", "commit", "release"}
    PROVE  /\ r.op # "adjust" /\ r.checkout = k /\ Movement(r) = type /\ Moves(k, s, type) = {} =>
                \E m \in Moves(k, s, type)' : Moves(k, s, type)' = {m}
           /\ r.op = "adjust" \/ r.checkout # k \/ Movement(r) # type =>
                Moves(k, s, type)' = Moves(k, s, type)
<1>1. /\ Moves(k, s, type) = {m \in MovementsIn(s) : m.checkout = k /\ m.type = type}
      /\ Moves(k, s, type)' = {m \in MovementsIn(s)' : m.checkout = k /\ m.type = type}
  BY DEF Moves, MovementsIn
<1>2. CASE s \notin Touched(r)
  <2>1. MovementsIn(s)' = MovementsIn(s)
    BY <1>2, NewMovement
  <2>2. r.op = "adjust" \/ r.checkout # k
    BY <1>2 DEF Touched
  <2> QED
    BY <1>1, <2>1, <2>2
<1>3. CASE s \in Touched(r)
  <2>1. PICK m : /\ MovementsIn(s)' = MovementsIn(s) \cup {m} /\ m.type = Movement(r)
                 /\ m.checkout = IF r.op = "adjust" THEN "none" ELSE r.checkout
    BY <1>3, NewMovement
  <2>2. r.op = "adjust" => Movement(r) # type
    BY DEF Movement
  <2>3. CASE r.op # "adjust" /\ r.checkout = k /\ Movement(r) = type
    BY <1>1, <2>1, <2>3
  <2>4. CASE r.op = "adjust" \/ r.checkout # k \/ Movement(r) # type
    BY <1>1, <2>1, <2>2, <2>4
  <2> QED
    BY <2>3, <2>4
<1> QED
  BY <1>2, <1>3

\* Without a movement of a checkout, and while statuses stay, the count of its movements is right.
LEMMA SettledStays ==
    ASSUME Settled, \A k \in Checkouts : resv'[k].status = resv[k].status,
           \A k \in Checkouts : \A s \in Tracked(k), type \in {"reserve", "commit", "release"} :
               Moves(k, s, type)' = Moves(k, s, type)
    PROVE  Settled'
BY DEF Settled, Once, Tracked

\* Each checkout has as many movements of each kind as its status says, after every step.
LEMMA SettledHolds ==
    ASSUME Sane, OneStory, History, [Next]_vars
    PROVE  Settled'
<1>0. Settled
  BY DEF History
<1>1. CASE \A p \in Workers : ~Write(p)
  <2>1. resv' = resv /\ movement' = movement
    BY <1>1, OthersLeave
  <2> QED
    BY <1>0, <2>1, SettledStays DEF Moves
<1>2. ASSUME NEW p \in Workers, Write(p)
      PROVE  Settled'
  <2> DEFINE r == req[p]
             c == r.checkout
             x == seen[p].resv
  <2>0. /\ resv \in [Checkouts -> ReservationRecord] /\ RequestOK(r)
        /\ pc[p] = "write"
    BY <1>2
       DEF Sane, StoreOK, LocalOK, WorkerOK, Write, Adjust, Reserve, Finish, Converge,
           RefundPaid, RefundPending, Defer
  <2>1. CASE Adjust(p)
    <3>1. resv' = resv /\ r.op = "adjust" /\ PutStock(r, seen[p].stock)
      BY <2>1 DEF Adjust
    <3>2. \A k \in Checkouts : \A s \in Tracked(k), type \in {"reserve", "commit", "release"} :
              Moves(k, s, type)' = Moves(k, s, type)
      BY <3>1, MovesGrow
    <3> QED
      BY <1>0, <3>1, <3>2, SettledStays
  <2>2. CASE Converge(p) \/ RefundPaid(p)
    <3>1. resv' = resv /\ movement' = movement
      BY <2>2 DEF Converge, RefundPaid
    <3> QED
      BY <1>0, <3>1, SettledStays DEF Moves
  <2>3. CASE Defer(p)
    <3>1. /\ r.op = "defer" /\ movement' = movement /\ resv[c].status = "reserved"
          /\ resv[c].revision = x.revision
          /\ resv' = [resv EXCEPT ![c] =
                [x EXCEPT !.revision = @ + 1, !.reconcileAfter = r.next]]
      BY <2>3 DEF Defer, PutReservation
    <3>2. c \in Checkouts /\ x = resv[c] /\ x \in ReservationRecord
      BY <3>1, CopyIsStored
    <3> DEFINE y == [x EXCEPT !.revision = @ + 1, !.reconcileAfter = r.next]
    <3>3. y.status = x.status
      BY <3>2, DeferredFields
    <3>4. resv' = [resv EXCEPT ![c] = y]
      BY <3>1
    <3> HIDE DEF y
    <3>5. \A k \in Checkouts : resv'[k].status = resv[k].status
      BY <2>0, <3>2, <3>3, <3>4
    <3> QED
      BY <1>0, <3>1, <3>5, SettledStays DEF Moves
  <2>4. CASE Reserve(p) \/ Finish(p) \/ RefundPending(p)
    <3>1. /\ r.op \in {"reserve", "payment", "release", "refund"} /\ c \in Checkouts
          /\ PutStock(r, seen[p].stock)
      BY <2>0, <2>4 DEF Reserve, Finish, RefundPending, RequestOK
    <3>2. /\ \A k \in Checkouts \ {c} : resv'[k] = resv[k]
          /\ \/ Movement(r) = "reserve" /\ resv[c].status = "absent"
                  /\ resv'[c].status = "reserved"
             \/ Movement(r) = "commit" /\ resv[c].status = "reserved"
                  /\ resv'[c].status = "committed"
             \/ Movement(r) = "release" /\ resv[c].status = "reserved"
                  /\ resv'[c].status = "released"
      <4>1. CASE Reserve(p)
        BY <2>0, <3>1, <4>1 DEF Reserve, Movement
      <4>2. CASE Finish(p) \/ RefundPending(p)
        <5>1. /\ resv[c].status = "reserved" /\ x = resv[c]
              /\ resv' = [resv EXCEPT ![c] = Finished(r, x)]
              /\ r.op \in {"payment", "release", "refund"}
          BY <3>1, <4>2, CopyIsStored DEF Finish, RefundPending, PutReservation
        <5>2. Finished(r, x).status = TargetStatus(r)
          BY <2>0, <3>1, <5>1, FinishedFields
        <5>3. Movement(r) \in {"commit", "release"}
          BY <2>0, <5>1 DEF Movement, RequestOK, PaymentTypes
        <5> QED
          BY <2>0, <3>1, <5>1, <5>2, <5>3 DEF TargetStatus
      <4> QED
        BY <2>4, <4>1, <4>2
    <3>3. ASSUME NEW k \in Checkouts, NEW s \in Tracked(k)
          PROVE  /\ Once(Moves(k, s, "reserve")', resv'[k].status # "absent")
                 /\ Once(Moves(k, s, "commit")', resv'[k].status = "committed")
                 /\ Once(Moves(k, s, "release")', resv'[k].status = "released")
      <4>1. /\ Once(Moves(k, s, "reserve"), resv[k].status # "absent")
            /\ Once(Moves(k, s, "commit"), resv[k].status = "committed")
            /\ Once(Moves(k, s, "release"), resv[k].status = "released")
        BY <1>0 DEF Settled
      <4>2. \A type \in {"reserve", "commit", "release"} :
                /\ k = c /\ Movement(r) = type /\ Moves(k, s, type) = {} =>
                     \E m \in Moves(k, s, type)' : Moves(k, s, type)' = {m}
                /\ k # c \/ Movement(r) # type => Moves(k, s, type)' = Moves(k, s, type)
        BY <3>1, MovesGrow
      <4>3. CASE k # c
        BY <3>2, <4>1, <4>2, <4>3
      <4>4. CASE k = c
        BY <3>2, <4>1, <4>2, <4>4 DEF Once
      <4> QED
        BY <4>3, <4>4
    <3> QED
      BY <3>3 DEF Settled, Once, Tracked
  <2> QED
    BY <1>2, <2>1, <2>2, <2>3, <2>4 DEF Write
<1> QED
  BY <1>1, <1>2

-----------------------------------------------------------------------------
(***************************************************************************)
(* The invariant holds in every behaviour, and what follows from it.       *)
(***************************************************************************)
LEMMA HistoryIsInductive ==
    /\ Init => History
    /\ Sane /\ OneStory /\ History /\ [Next]_vars => History'
<1>1. Init => History
  <2> SUFFICES ASSUME Init
               PROVE  History
    OBVIOUS
  <2>1. Fresh /\ Timed
    BY DEF Init, Fresh, Timed, NoReservation
  <2>2. \A p \in Workers : Carries(p)
    BY DEF Init, Carries, Checked, NoRequest
  <2>3. Acknowledged /\ AcknowledgedEventsHold /\ Told /\ NotificationsAreTrue
    BY DEF Init, Acknowledged, AcknowledgedEventsHold, Told, NotificationsAreTrue
  <2>4. Settled
    BY DEF Init, Settled, Once, Moves, NoReservation
  <2> QED
    BY <2>1, <2>2, <2>3, <2>4 DEF History
<1>2. ASSUME Sane, OneStory, History, [Next]_vars
      PROVE  History'
  BY <1>2, RecordsMove, WorkersCarry, EventsHold, NotificationsHold, SettledHolds DEF History
<1> QED
  BY <1>1, <1>2

\* The inductive invariant of this module holds in every state that the transactions of
\* storage.py can reach, whatever the interleaving of the handlers.
THEOREM HistoryHolds == Spec => []History
BY HistoryIsInductive, SaneHolds, StoriesAgree, PTL DEF Spec

\* The optimistic concurrency control of every transaction: a copy that a handler has read
\* is never newer than the item, and with the item's revision it is the item.
THEOREM HonestSnapshots == Spec => []SnapshotsAreHonest
<1>1. History => SnapshotsAreHonest
  BY DEF History, Carries, Copies, CopyOf, SnapshotsAreHonest
<1> QED
  BY <1>1, HistoryHolds, PTL

\* An integration event in the inbox, which a redelivery is answered from, states what is
\* so: the payment's outcome and its reason are the reservation's, a refunded order is.
THEOREM EventsAreTrue == Spec => []AcknowledgedEventsHold
<1>1. History => AcknowledgedEventsHold
  BY DEF History
<1> QED
  BY <1>1, HistoryHolds, PTL

\* A notification in the outbox tells the outcome its reservation has, and its type is
\* one that the mapping pinned by the order enables.
THEOREM NotificationsTrue == Spec => []NotificationsAreTrue
<1>1. History => NotificationsAreTrue
  BY DEF History
<1> QED
  BY <1>1, HistoryHolds, PTL

\* A checkout takes its units of a stock once, and commits or releases them once, however
\* often it is asked for and whatever receipts the TTL has removed.
THEOREM OneSettlement == Spec => []SettledOnce
<1>1. ASSUME History
      PROVE  SettledOnce
  <2>1. ASSUME NEW k \in Checkouts, NEW s \in Tracked(k),
               NEW type \in {"reserve", "commit", "release"}, NEW one \in BOOLEAN,
               Once(Moves(k, s, type), one)
        PROVE  Cardinality({m \in movement : m.checkout = k /\ m.stock = s /\ m.type \in {type}})
                 = IF one THEN 1 ELSE 0
    <3>1. {m \in movement : m.checkout = k /\ m.stock = s /\ m.type \in {type}}
            = Moves(k, s, type)
      BY DEF Moves
    <3> QED
      BY <2>1, <3>1, FS_EmptySet, FS_Singleton DEF Once
  <2>2. SUFFICES ASSUME NEW k \in Checkouts, NEW s \in Tracked(k)
        PROVE  LET Of(T) == {m \in movement : m.checkout = k /\ m.stock = s /\ m.type \in T}
               IN  /\ Cardinality(Of({"reserve"})) = IF resv[k].status = "absent" THEN 0 ELSE 1
                   /\ Cardinality(Of({"commit"})) = IF resv[k].status = "committed" THEN 1 ELSE 0
                   /\ Cardinality(Of({"release"})) = IF resv[k].status = "released" THEN 1 ELSE 0
    BY DEF SettledOnce
  <2>3. /\ Once(Moves(k, s, "reserve"), resv[k].status # "absent")
        /\ Once(Moves(k, s, "commit"), resv[k].status = "committed")
        /\ Once(Moves(k, s, "release"), resv[k].status = "released")
    BY <1>1 DEF History, Settled
  <2> QED
    BY <2>1, <2>3
<1> QED
  BY <1>1, HistoryHolds, PTL

\* What a step may do to a reservation that is active, and how late it is then.
LEMMA ActiveMoves ==
    ASSUME Sane, OneStory, History, [Next]_vars, NEW k \in Checkouts, Active(k)
    PROVE  /\ resv'[k].reason = "canonical_not_created" => Late(k, now)
           /\ resv'[k].reconcileAfter # resv[k].reconcileAfter =>
                /\ resv'[k].reconcileAfter > resv[k].reconcileAfter
                /\ resv'[k].reconcileAfter <= now + Interval
<1>0. resv[k].reason = "none" /\ resv \in [Checkouts -> ReservationRecord]
  BY DEF History, Timed, Active, Sane, StoreOK
<1>1. CASE resv'[k] = resv[k]
  BY <1>0, <1>1
<1>2. CASE resv'[k] # resv[k]
  <2>1. PICK p \in Workers : Write(p)
    BY <1>2, OthersLeave
  <2> DEFINE r == req[p]
             x == seen[p].resv
  <2>2. RequestOK(r) /\ Checked(p) /\ pc[p] = "write"
    BY <2>1 DEF Sane, LocalOK, WorkerOK, History, Carries, Write, Adjust, Reserve, Finish,
                Converge, RefundPaid, RefundPending, Defer
  <2>3. CASE Adjust(p) \/ Converge(p) \/ RefundPaid(p)
    BY <1>2, <2>3 DEF Adjust, Converge, RefundPaid
  <2>4. CASE Reserve(p)
    <3>1. resv[r.checkout].status = "absent" /\ r.checkout # k
      BY <2>4 DEF Reserve, Active
    <3> QED
      BY <1>0, <1>2, <2>4, <3>1 DEF Reserve
  <2>5. CASE Finish(p) \/ RefundPending(p)
    <3>1. /\ resv' = [resv EXCEPT ![r.checkout] = Finished(r, x)]
          /\ resv[r.checkout].revision = x.revision
          /\ r.op \in {"payment", "release", "refund"}
      BY <2>5 DEF Finish, RefundPending, PutReservation
    <3>2. r.checkout = k /\ x = resv[k] /\ x \in ReservationRecord
      BY <1>0, <1>2, <3>1, CopyIsStored
    <3>3. resv'[k].reconcileAfter = resv[k].reconcileAfter /\ resv'[k].reason = CompletionReason(r)
      BY <1>0, <3>1, <3>2, FinishedFields
    <3>4. CompletionReason(r) = "canonical_not_created" => r.op = "release"
      BY <2>2, <3>1 DEF CompletionReason, Movement, RequestOK, PaymentTypes
    <3> QED
      BY <2>2, <3>2, <3>3, <3>4 DEF Checked
  <2>6. CASE Defer(p)
    <3> DEFINE y == [x EXCEPT !.revision = @ + 1, !.reconcileAfter = r.next]
    <3>1. /\ resv' = [resv EXCEPT ![r.checkout] = y]
          /\ resv[r.checkout].revision = x.revision /\ r.op = "defer"
      BY <2>6 DEF Defer, PutReservation
    <3>2. r.checkout = k /\ x = resv[k] /\ x \in ReservationRecord
      BY <1>0, <1>2, <3>1, CopyIsStored
    <3>3. y.reconcileAfter = r.next /\ y.reason = x.reason
      BY <3>2, DeferredFields
    <3> HIDE DEF y
    <3>4. resv'[k] = y
      BY <1>0, <3>1, <3>2
    <3> QED
      BY <1>0, <2>2, <3>1, <3>2, <3>3, <3>4 DEF Checked
  <2> QED
    BY <2>1, <2>3, <2>4, <2>5, <2>6 DEF Write
<1> QED
  BY <1>1, <1>2

\* A reservation is released as never created only when its Checkout session, with the
\* grace period of reservation_timing, can no longer be created.
THEOREM NotCreatedWaits == Spec => NotCreatedIsLate
<1>1. Sane /\ OneStory /\ History /\ [Next]_vars =>
        \A k \in Checkouts :
            Active(k) /\ resv'[k].reason = "canonical_not_created" =>
                now >= resv[k].createdAt + CheckoutExpiry + Grace
  BY ActiveMoves DEF Late
<1> QED
  BY <1>1, SaneHolds, StoriesAgree, HistoryHolds, PTL DEF Spec, NotCreatedIsLate

\* defer_reservation moves the marker of a reservation forward, by at most one interval
\* from now, whichever of the overlapping reconciler runs calls it.
THEOREM DefersForward == Spec => DeferMovesForward
<1>1. Sane /\ OneStory /\ History /\ [Next]_vars =>
        \A k \in Checkouts :
            Active(k) /\ resv'[k].reconcileAfter # resv[k].reconcileAfter =>
                /\ resv'[k].reconcileAfter > resv[k].reconcileAfter
                /\ resv'[k].reconcileAfter <= now + Interval
  BY ActiveMoves
<1> QED
  BY <1>1, SaneHolds, StoriesAgree, HistoryHolds, PTL DEF Spec, DeferMovesForward

\* A refund leaves the available units of every stock as they are, whether its payment
\* was committed before it or is committed with it.
THEOREM RefundsKeepStock == Spec => RefundNeverRestocks
<1>1. ASSUME Sane, [Next]_vars, NEW k \in Checkouts,
             order[k].status # "refunded", order'[k].status = "refunded", NEW s \in Stocks
      PROVE  stock'[s].onHand - stock'[s].reserved = stock[s].onHand - stock[s].reserved
  <2>1. PICK p \in Workers : Write(p)
    BY <1>1, OthersLeave
  <2> DEFINE r == req[p]
             o == seen[p].order
  <2>2. /\ order \in [Checkouts -> OrderRecord] /\ RequestOK(r) /\ pc[p] = "write"
        /\ stock[s] \in StockRecord /\ o \in OrderRecord
    BY <1>1, <2>1
       DEF Sane, StoreOK, LocalOK, WorkerOK, Snapshot, Write, Adjust, Reserve, Finish, Converge,
           RefundPaid, RefundPending, Defer
  <2>3. CASE RefundPaid(p)
    BY <2>3 DEF RefundPaid
  <2>4. CASE RefundPending(p)
    <3>1. /\ r.op = "refund" /\ PutStock(r, seen[p].stock) /\ o.status = "pending_checkout"
      BY <2>4 DEF RefundPending
    <3>2. r.checkout \in Checkouts /\ Movement(r) = "commit" /\ PlansStock(r, seen[p])
      BY <2>2, <3>1 DEF RequestOK, Movement, PlansStock
    <3>3. /\ stock'[s].onHand = stock[s].onHand - Qty[r.checkout][s]
          /\ stock'[s].reserved = stock[s].reserved - Qty[r.checkout][s]
      BY <1>1, <2>2, <3>1, <3>2, CartMoves
    <3>4. Qty[r.checkout][s] \in Nat /\ stock[s].onHand \in Nat /\ stock[s].reserved \in Nat
      BY <2>2, <3>2, CartAssumption DEF StockRecord
    <3> QED
      BY <3>3, <3>4
  <2>5. CASE ~RefundPaid(p) /\ ~RefundPending(p)
    <3>1. \/ order' = order
          \/ order' = [order EXCEPT ![r.checkout] =
                [status |-> "pending_checkout", revision |-> 1, target |-> r.target]]
          \/ \E status \in {"paid", "payment_not_completed"} :
                order' = [order EXCEPT ![r.checkout] = MovedTo(o, status)]
      BY <2>1, <2>5 DEF Write, Adjust, Reserve, Finish, Converge, Defer, PutOrder
    <3>2. \A status : MovedTo(o, status).status = status
      BY <2>2, MovedFields
    <3> QED
      BY <1>1, <2>2, <3>1, <3>2
  <2> QED
    BY <2>3, <2>4, <2>5
<1>2. Sane /\ [Next]_vars =>
        \A k \in Checkouts :
            order[k].status # "refunded" /\ order'[k].status = "refunded" =>
                \A s \in Stocks : stock'[s].onHand - stock'[s].reserved
                                = stock[s].onHand - stock[s].reserved
  BY <1>1
<1> QED
  BY <1>2, SaneHolds, PTL DEF Spec, RefundNeverRestocks

-----------------------------------------------------------------------------
(***************************************************************************)
(* The ledger. Its sums are what MapThenSumSet chooses: a function of sets *)
(* that picks an element of each and adds it to the sum of the others. The *)
(* lemmas show that there is one, by the number of elements, and that the  *)
(* sum does not depend on what is picked.                                  *)
(***************************************************************************)
\* The sum of the field a over S, the element it picks, and the functions of sets it chooses from.
Sum(a, S) == MapThenSumSet(LAMBDA m : m[a], S)
Pick(S) == CHOOSE x \in S : TRUE
SumsOn(f, a, D) == f = [S \in D |-> IF S = {} THEN 0 ELSE Pick(S)[a] + f[S \ {Pick(S)}]]

\* The definition of a sum, unfolded.
LEMMA SumIs ==
    ASSUME NEW a, NEW S
    PROVE  Sum(a, S) = LET sums == CHOOSE f : SumsOn(f, a, SUBSET S) IN sums[S]
BY DEF Sum, MapThenSumSet, MapThenFoldSet, SumsOn, Pick

\* The sums that LedgerExact takes, with the name of their field.
LEMMA FieldSums ==
    ASSUME NEW S
    PROVE  /\ MapThenSumSet(LAMBDA m : m.onHand, S) = Sum("onHand", S)
           /\ MapThenSumSet(LAMBDA m : m.reserved, S) = Sum("reserved", S)
BY DEF Sum, MapThenSumSet, MapThenFoldSet

Less == OpToRel(<, Nat)

\* A set of natural numbers that is not empty has a least element.
LEMMA Least ==
    ASSUME NEW N \in SUBSET Nat, N # {}
    PROVE  \E n \in N : \A i \in N : n <= i
<1>1. IsWellFoundedOn(Less, Nat)
  BY NatLessThanWellFounded DEF Less
<1>2. PICK n \in N : \A i \in N : <<i, n>> \notin Less
  BY <1>1, WFMin
<1>3. ASSUME NEW i \in N PROVE n <= i
  <2>1. i < n => <<i, n>> \in Less
    BY DEF Less, OpToRel
  <2>2. <<i, n>> \notin Less
    BY <1>2
  <2>3. ~(i < n)
    BY <2>1, <2>2, Zenon
  <2> QED
    BY <2>3
<1> QED
  BY <1>3

\* The subsets of S with up to n elements.
Upto(S, n) == {T \in SUBSET S : Cardinality(T) <= n}

\* A set without the element picked from it has one less.
LEMMA Smaller ==
    ASSUME NEW S, IsFiniteSet(S), NEW T \in SUBSET S, T # {}
    PROVE  /\ Pick(T) \in T /\ IsFiniteSet(T) /\ IsFiniteSet(T \ {Pick(T)})
           /\ Cardinality(T) \in Nat /\ Cardinality(T \ {Pick(T)}) = Cardinality(T) - 1
<1>1. Pick(T) \in T
  BY DEF Pick
<1>2. IsFiniteSet(T)
  BY FS_Subset
<1> QED
  BY <1>1, <1>2, FS_RemoveElement, FS_CardinalityType

\* The sums exist: those of the sets with n elements give those of the sets with one more.
LEMMA SumsExist ==
    ASSUME NEW a, NEW S, IsFiniteSet(S)
    PROVE  \E f : SumsOn(f, a, SUBSET S)
<1> DEFINE Bad == {n \in Nat : ~ \E f : SumsOn(f, a, Upto(S, n))}
<1>1. Bad = {}
  <2> SUFFICES ASSUME Bad # {} PROVE FALSE
    OBVIOUS
  <2>1. PICK n \in Bad : \A i \in Bad : n <= i
    BY Least
  <2>2. CASE n = 0
    <3>1. \A T \in Upto(S, 0) : T = {}
      <4> SUFFICES ASSUME NEW T \in Upto(S, 0), T # {} PROVE FALSE
        OBVIOUS
      <4>1. T \in SUBSET S /\ Cardinality(T) <= 0
        BY DEF Upto
      <4>2. IsFiniteSet(T \ {Pick(T)}) /\ Cardinality(T \ {Pick(T)}) = Cardinality(T) - 1
        BY <4>1, Smaller
      <4> QED
        BY <4>1, <4>2, FS_CardinalityType, Smaller
    <3>2. SumsOn([T \in Upto(S, 0) |-> 0], a, Upto(S, 0))
      BY <3>1 DEF SumsOn
    <3> QED
      BY <2>1, <2>2, <3>2
  <2>3. CASE n # 0
    <3>1. n - 1 \in Nat /\ n - 1 \notin Bad
      BY <2>1, <2>3
    <3>2. PICK f : SumsOn(f, a, Upto(S, n - 1))
      BY <3>1
    <3> DEFINE D == Upto(S, n)
               g == [T \in D |-> IF T = {} THEN 0 ELSE Pick(T)[a] + f[T \ {Pick(T)}]]
    <3>3. ASSUME NEW T \in D, T # {}
          PROVE  /\ T \ {Pick(T)} \in Upto(S, n - 1) /\ T \ {Pick(T)} \in D
      <4>1. T \in SUBSET S /\ Cardinality(T) <= n
        BY <3>3 DEF Upto
      <4>2. Cardinality(T) \in Nat /\ Cardinality(T \ {Pick(T)}) = Cardinality(T) - 1
        BY <3>3, <4>1, Smaller
      <4> QED
        BY <4>1, <4>2 DEF Upto
    <3>4. ASSUME NEW T \in D, T # {}
          PROVE  g[T \ {Pick(T)}] = f[T \ {Pick(T)}]
      <4> DEFINE U == T \ {Pick(T)}
      <4>1. U \in Upto(S, n - 1) /\ U \in D
        BY <3>3, <3>4
      <4> HIDE DEF U
      <4>2. f[U] = IF U = {} THEN 0 ELSE Pick(U)[a] + f[U \ {Pick(U)}]
        BY <3>2, <4>1 DEF SumsOn
      <4>3. g[U] = IF U = {} THEN 0 ELSE Pick(U)[a] + f[U \ {Pick(U)}]
        BY <4>1
      <4> QED
        BY <4>2, <4>3 DEF U
    <3>5. g = [T \in D |-> IF T = {} THEN 0 ELSE Pick(T)[a] + g[T \ {Pick(T)}]]
      BY <3>4
    <3> HIDE DEF g
    <3>6. SumsOn(g, a, D)
      BY <3>5 DEF SumsOn
    <3> QED
      BY <2>1, <3>6
  <2> QED
    BY <2>2, <2>3
<1>2. Cardinality(S) \in Nat
  BY FS_CardinalityType
<1>3. SUBSET S = Upto(S, Cardinality(S))
  BY FS_Subset DEF Upto
<1>4. Cardinality(S) \notin Bad
  BY <1>1
<1>5. \E f : SumsOn(f, a, Upto(S, Cardinality(S)))
  BY <1>2, <1>4
<1> QED
  BY <1>3, <1>5

\* Any functions of sums agree where both are defined.
LEMMA SumsAgree ==
    ASSUME NEW a, NEW S, IsFiniteSet(S), NEW D, NEW E, SUBSET S \subseteq D, SUBSET S \subseteq E,
           NEW f, SumsOn(f, a, D), NEW g, SumsOn(g, a, E)
    PROVE  f[S] = g[S]
<1> DEFINE Bad == {n \in Nat : \E T \in SUBSET S : Cardinality(T) = n /\ f[T] # g[T]}
<1>1. ASSUME NEW T \in SUBSET S
      PROVE  /\ f[T] = IF T = {} THEN 0 ELSE Pick(T)[a] + f[T \ {Pick(T)}]
             /\ g[T] = IF T = {} THEN 0 ELSE Pick(T)[a] + g[T \ {Pick(T)}]
  <2>1. T \in D /\ T \in E
    OBVIOUS
  <2> QED
    BY <2>1 DEF SumsOn
<1>2. Bad = {}
  <2> SUFFICES ASSUME Bad # {} PROVE FALSE
    OBVIOUS
  <2>0. PICK n \in Bad : \A i \in Bad : n <= i
    BY Least
  <2>1. n \in Nat /\ \A i \in Nat : i < n => i \notin Bad
    BY <2>0
  <2>2. PICK T \in SUBSET S : Cardinality(T) = n /\ f[T] # g[T]
    BY <2>0
  <2>3. T # {}
    BY <1>1, <2>2
  <2> DEFINE U == T \ {Pick(T)}
  <2>4. U \in SUBSET S /\ Cardinality(U) = n - 1 /\ Cardinality(U) \in Nat
    BY <2>2, <2>3, Smaller, FS_CardinalityType
  <2>5. Cardinality(U) < n
    BY <2>1, <2>4
  <2>6. Cardinality(U) \notin Bad
    BY <2>1, <2>4, <2>5
  <2>7. f[U] = g[U]
    BY <2>4, <2>6
  <2> QED
    BY <1>1, <2>2, <2>3, <2>7
<1>3. Cardinality(S) \in Nat /\ Cardinality(S) \notin Bad
  BY <1>2, FS_CardinalityType
<1> QED
  BY <1>3

\* Whatever element a sum of integers is begun with.
LEMMA AnyFirst ==
    ASSUME NEW a, NEW S, IsFiniteSet(S), \A m \in S : m[a] \in Int,
           NEW f, SumsOn(f, a, SUBSET S)
    PROVE  /\ f[S] \in Int
           /\ \A m \in S : f[S] = m[a] + f[S \ {m}]
<1> DEFINE Good(T) == f[T] \in Int /\ \A m \in T : f[T] = m[a] + f[T \ {m}]
           Bad == {n \in Nat : \E T \in SUBSET S : Cardinality(T) = n /\ ~Good(T)}
<1>1. ASSUME NEW T \in SUBSET S
      PROVE  f[T] = IF T = {} THEN 0 ELSE Pick(T)[a] + f[T \ {Pick(T)}]
  BY DEF SumsOn
<1>2. Bad = {}
  <2> SUFFICES ASSUME Bad # {} PROVE FALSE
    OBVIOUS
  <2>0. PICK n \in Bad : \A i \in Bad : n <= i
    BY Least
  <2>1. n \in Nat /\ \A i \in Nat : i < n => i \notin Bad
    BY <2>0
  <2>2. PICK T \in SUBSET S : Cardinality(T) = n /\ ~Good(T)
    BY <2>0
  <2>3. T # {}
    <3>1. T = {} => f[T] = 0
      BY <1>1
    <3> QED
      BY <2>2, <3>1
  <2>4. n \in Nat /\ IsFiniteSet(T) /\ Pick(T) \in T
    BY <2>2, <2>3, Smaller
  <2>5. ASSUME NEW m \in T
        PROVE  Good(T \ {m})
    <3>1. T \ {m} \in SUBSET S /\ Cardinality(T \ {m}) = n - 1 /\ Cardinality(T \ {m}) \in Nat
      BY <2>2, <2>4, FS_RemoveElement, FS_CardinalityType
    <3>2. Cardinality(T \ {m}) < n
      BY <2>1, <3>1
    <3>3. Cardinality(T \ {m}) \notin Bad
      BY <2>1, <3>1, <3>2
    <3> HIDE DEF Good
    <3> QED
      BY <3>1, <3>3
  <2> DEFINE p == Pick(T)
             U == T \ {p}
  <2>6. f[T] = p[a] + f[U] /\ p[a] \in Int /\ f[U] \in Int
    BY <1>1, <2>3, <2>4, <2>5
  <2>7. ASSUME NEW m \in T
        PROVE  f[T] = m[a] + f[T \ {m}]
    <3>1. CASE m = p
      BY <2>6, <3>1
    <3>2. CASE m # p
      <4>1. f[U] = m[a] + f[U \ {m}]
        BY <2>4, <2>5, <3>2
      <4>2. f[T \ {m}] = p[a] + f[(T \ {m}) \ {p}]
        BY <2>4, <2>5, <3>2
      <4>3. (T \ {m}) \ {p} = U \ {m}
        OBVIOUS
      <4>4. f[U \ {m}] \in Int
        <5>1. IsFiniteSet(U) /\ Cardinality(U) = n - 1 /\ m \in U /\ U \in SUBSET S
          BY <2>2, <2>3, <2>4, <3>2, Smaller
        <5>2. /\ U \ {m} \in SUBSET S /\ Cardinality(U \ {m}) = n - 2
              /\ Cardinality(U \ {m}) \in Nat
          <6> HIDE DEF U
          <6>1. Cardinality(U \ {m}) = Cardinality(U) - 1 /\ IsFiniteSet(U \ {m})
            BY <5>1, FS_RemoveElement
          <6> QED
            BY <2>1, <5>1, <6>1, FS_CardinalityType
        <5>3. Cardinality(U \ {m}) < n
          BY <2>1, <5>2
        <5>4. Cardinality(U \ {m}) \notin Bad
          BY <2>1, <5>2, <5>3
        <5> HIDE DEF Good, U
        <5>5. Good(U \ {m})
          BY <5>2, <5>4
        <5> QED
          BY <5>5 DEF Good
      <4>5. m[a] \in Int
        OBVIOUS
      <4> HIDE DEF U, p
      <4> QED
        <5>1. f[T \ {m}] = p[a] + f[U \ {m}]
          BY <4>2, <4>3
        <5>2. f[T] = p[a] + (m[a] + f[U \ {m}])
          BY <2>6, <4>1
        <5>3. \A i, j, k \in Int : i + (j + k) = j + (i + k)
          OBVIOUS
        <5>4. p[a] + (m[a] + f[U \ {m}]) = m[a] + (p[a] + f[U \ {m}])
          BY <2>6, <4>4, <4>5, <5>3
        <5> QED
          BY <5>1, <5>2, <5>4
    <3> QED
      BY <3>1, <3>2
  <2>8. f[T] \in Int
    BY <2>6
  <2> QED
    BY <2>2, <2>7, <2>8
<1>3. Cardinality(S) \in Nat /\ Cardinality(S) \notin Bad
  BY <1>2, FS_CardinalityType
<1> HIDE DEF Good
<1>4. Good(S)
  BY <1>3
<1> QED
  BY <1>4 DEF Good

\* The sum of a set with one element more.
LEMMA SumGrows ==
    ASSUME NEW a, NEW S, IsFiniteSet(S), NEW m, m \notin S,
           \A x \in S \cup {m} : x[a] \in Int
    PROVE  /\ Sum(a, S) \in Int
           /\ Sum(a, S \cup {m}) = Sum(a, S) + m[a]
<1> DEFINE T == S \cup {m}
           f == CHOOSE h : SumsOn(h, a, SUBSET S)
           g == CHOOSE h : SumsOn(h, a, SUBSET T)
<1>1. IsFiniteSet(T)
  BY FS_AddElement
<1>2. SumsOn(f, a, SUBSET S)
  BY SumsExist
<1>3. SumsOn(g, a, SUBSET T)
  BY <1>1, SumsExist
<1>4. Sum(a, S) = f[S] /\ Sum(a, T) = g[T]
  BY SumIs
<1> HIDE DEF f, g
<1>5. f[S] = g[S]
  BY <1>2, <1>3, SumsAgree
<1>6. f[S] \in Int
  BY <1>2, AnyFirst
<1>7. T \ {m} = S /\ m \in T /\ \A x \in T : x[a] \in Int
  OBVIOUS
<1> HIDE DEF T
<1>8. g[T] = m[a] + g[T \ {m}]
  BY <1>1, <1>3, <1>7, AnyFirst
<1>9. m[a] \in Int
  BY <1>7
<1>10. Sum(a, T) = Sum(a, S) + m[a]
  <2>1. g[T] = m[a] + f[S]
    BY <1>5, <1>7, <1>8
  <2>2. m[a] + f[S] = f[S] + m[a]
    BY <1>6, <1>9
  <2> QED
    BY <1>4, <2>1, <2>2
<1> QED
  BY <1>4, <1>6, <1>10 DEF T

\* The empty sum.
LEMMA SumOfNone ==
    ASSUME NEW a
    PROVE  Sum(a, {}) = 0
<1> DEFINE f == CHOOSE h : SumsOn(h, a, SUBSET {})
<1>1. SumsOn(f, a, SUBSET {})
  BY SumsExist, FS_EmptySet
<1>2. Sum(a, {}) = f[{}]
  BY SumIs
<1> HIDE DEF f
<1> QED
  BY <1>1, <1>2 DEF SumsOn

\* A stock x and its movements M: finitely many, of whole units, and they tell its counts.
Tells(x, M) ==
    /\ IsFiniteSet(M)
    /\ \A m \in M : m.onHand \in Int /\ m.reserved \in Int
    /\ x.onHand = Sum("onHand", M)
    /\ x.reserved = Sum("reserved", M)
    /\ x.revision = Cardinality(M)

Ledger == \A s \in Stocks : Tells(stock[s], MovementsIn(s))

\* A stock that is updated with its movement.
LEMMA OneMore ==
    ASSUME NEW r, NEW s, NEW x \in StockRecord, NEW M, Tells(x, M),
           NEW m, m \notin M, m.onHand = OnHandDelta(r, s), m.reserved = ReservedDelta(r, s),
           m.onHand \in Int, m.reserved \in Int
    PROVE  Tells(Updated(r, s, x), M \cup {m})
<1>1. IsFiniteSet(M \cup {m}) /\ Cardinality(M \cup {m}) = Cardinality(M) + 1
  BY FS_AddElement DEF Tells
<1>2. Sum("onHand", M \cup {m}) = x.onHand + OnHandDelta(r, s)
  BY SumGrows DEF Tells
<1>3. Sum("reserved", M \cup {m}) = x.reserved + ReservedDelta(r, s)
  BY SumGrows DEF Tells
<1> QED
  BY <1>1, <1>2, <1>3 DEF Tells, Updated

\* The units a movement moves are whole.
LEMMA WholeUnits ==
    ASSUME NEW r, RequestOK(r), r.op \in Transacting \ {"defer"}, NEW s \in Touched(r)
    PROVE  s \in Stocks /\ OnHandDelta(r, s) \in Int /\ ReservedDelta(r, s) \in Int
<1>1. s \in Stocks
  BY DEF Touched, Tracked, RequestOK
<1>2. CASE r.op = "adjust"
  <2>1. Movement(r) = "adjust" /\ r.delta \in Int
    BY <1>2 DEF Movement, RequestOK
  <2> QED
    BY <1>1, <2>1 DEF OnHandDelta, ReservedDelta
<1>3. CASE r.op # "adjust"
  <2>1. Movement(r) \in {"reserve", "commit", "release"}
    BY <1>3 DEF Movement, Transacting, RequestOK, PaymentTypes
  <2>2. Qty[r.checkout][s] \in Nat
    BY <1>1, <1>3, CartAssumption DEF RequestOK, Transacting
  <2> QED
    BY <1>1, <2>1, <2>2 DEF OnHandDelta, ReservedDelta
<1> QED
  BY <1>2, <1>3

\* A transaction writes a stock and its movement together.
LEMMA LedgerIsKept ==
    ASSUME Sane, Ledger, [Next]_vars
    PROVE  Ledger'
<1>1. ASSUME NEW p \in Workers, Write(p)
      PROVE  Ledger'
  <2> DEFINE r == req[p]
             x == seen[p].stock
  <2>1. RequestOK(r) /\ stock \in [Stocks -> StockRecord]
    BY <1>1 DEF Sane, StoreOK, LocalOK, WorkerOK
  <2>2. CASE UNCHANGED <<stock, movement>>
    BY <2>2 DEF Ledger, MovementsIn
  <2>3. CASE PutStock(r, x) /\ r.op \in Transacting \ {"defer"}
    <3> SUFFICES ASSUME NEW s \in Stocks
                 PROVE  Tells(stock'[s], MovementsIn(s)')
      BY DEF Ledger
    <3>1. Tells(stock[s], MovementsIn(s))
      BY DEF Ledger
    <3>2. CASE s \in Touched(r)
      <4>1. stock'[s] = Updated(r, s, stock[s])
        BY <2>3, <3>2 DEF PutStock
      <4>2. OnHandDelta(r, s) \in Int /\ ReservedDelta(r, s) \in Int
        BY <2>1, <2>3, <3>2, WholeUnits
      <4>3. PICK m : /\ m \notin movement /\ MovementsIn(s)' = MovementsIn(s) \cup {m}
                     /\ m.onHand = OnHandDelta(r, s) /\ m.reserved = ReservedDelta(r, s)
        BY <2>3, <3>2, NewMovement
      <4>4. m \notin MovementsIn(s)
        BY <4>3 DEF MovementsIn
      <4>5. stock[s] \in StockRecord
        BY <2>1
      <4> QED
        BY <3>1, <4>1, <4>2, <4>3, <4>4, <4>5, OneMore
    <3>3. CASE s \notin Touched(r)
      <4>1. stock'[s] = stock[s]
        BY <2>1, <2>3, <3>3 DEF PutStock
      <4>2. MovementsIn(s)' = MovementsIn(s)
        BY <2>3, <3>3, NewMovement
      <4> QED
        BY <3>1, <4>1, <4>2
    <3> QED
      BY <3>2, <3>3
  <2> QED
    BY <1>1, <2>2, <2>3
       DEF Write, Adjust, Reserve, Finish, Converge, RefundPaid, RefundPending, Defer, Transacting
<1>2. CASE \A p \in Workers : ~Write(p)
  <2>1. UNCHANGED <<stock, movement>>
    BY <1>2, OthersLeave
  <2> QED
    BY <2>1 DEF Ledger, MovementsIn
<1> QED
  BY <1>1, <1>2

\* Every change of a stock is one movement, and every movement one change: its counts are
\* their sums and its revision their number, so the transactions of storage.py lose no
\* update and record none twice, whatever the interleaving of the handlers.
THEOREM LedgerIsExact == Spec => []LedgerExact
<1>1. Init => Ledger
  <2> SUFFICES ASSUME Init, NEW s \in Stocks
               PROVE  Tells(stock[s], MovementsIn(s))
    BY DEF Ledger
  <2>1. MovementsIn(s) = {} /\ stock[s] = NoStock
    BY DEF Init, MovementsIn
  <2> QED
    BY <2>1, SumOfNone, FS_EmptySet DEF Tells, NoStock
<1>2. Sane /\ Ledger /\ [Next]_vars => Ledger'
  BY LedgerIsKept
<1>3. Ledger => LedgerExact
  BY FieldSums DEF Ledger, LedgerExact, Tells, MovementsIn
<1> QED
  BY <1>1, <1>2, <1>3, SaneHolds, PTL DEF Spec
=============================================================================
