--------------------------- MODULE CommerceStore ---------------------------
(***************************************************************************)
(* The inventory transactions of one draft scope: src/storage.py, with     *)
(* the pure rules of src/domain/inventory.py it calls and the callers that *)
(* feed it: Checkout and inventory handlers, the integration event worker  *)
(* and the reservation reconciler.                                         *)
(*                                                                         *)
(* Every handler runs in a Lambda of its own. It reads a few records one   *)
(* at a time, plans one transaction from what it read, and sends it with a *)
(* condition on each record. A worker p is one such invocation: pc[p] is   *)
(* the next thing it does, req[p] the request it serves, at[p] its         *)
(* now_epoch where the outcome depends on it, and seen[p] the records it   *)
(* has read so far. The shared records are the DynamoDB items; one         *)
(* transaction is one step.                                                *)
(*                                                                         *)
(* A request is modelled by the fields its receipt hashes, so a receipt is *)
(* the request itself: a stored receipt with the same key and another      *)
(* request is the reuse of an idempotency key.                             *)
(*                                                                         *)
(* Time counts in ticks of RECONCILER_INTERVAL_SECONDS (300 s).            *)
(***************************************************************************)
EXTENDS Integers, FiniteSets, FiniteSetsExt

CONSTANTS
    Checkouts,         \* checkout idempotency keys; order, reservation and attempt ids derive from them
    Stocks,            \* tracked stock ids of the policy's location
    Qty,               \* Qty[k][s]: units of s in the cart of k (0: no tracked line)
    Workers,           \* concurrent invocations
    Adjustments,       \* inventory adjustments an operator may send
    Targets,           \* notification mappings the published policies of the draft have had
    Messages,          \* integration events on the queue, delivered any number of times
    CheckoutExpiry,    \* CHECKOUT_EXPIRY_SECONDS, in ticks
    Grace,             \* RECONCILIATION_GRACE_SECONDS, in ticks
    Interval,          \* RECONCILER_INTERVAL_SECONDS, in ticks
    MaxTime,           \* bound on the clock
    TtlSweeps          \* whether the tables' TTL may remove receipts and inbox items

NotificationTypes == {"payment-succeeded", "payment-failed"}
PaymentTypes == {"succeeded", "terminal_unpaid"}

ASSUME CartAssumption ==
    /\ IsFiniteSet(Checkouts)
    /\ Qty \in [Checkouts -> [Stocks -> Nat]]
ASSUME AdjustmentAssumption ==
    \A a \in Adjustments :
        /\ DOMAIN a = {"id", "stock", "delta", "expected"}
        /\ a.stock \in Stocks
        /\ a.delta \in Int \ {0}
        /\ a.expected \in Nat
ASSUME TargetAssumption == Targets \subseteq SUBSET NotificationTypes
ASSUME MessageAssumption ==
    \A m \in Messages :
        /\ DOMAIN m = {"id", "type", "checkout", "refundId"}
        /\ m.type \in PaymentTypes \cup {"refund"}
        /\ m.checkout \in Checkouts
ASSUME TimingAssumption ==
    /\ CheckoutExpiry \in Nat
    /\ Grace \in Nat
    /\ Interval \in Nat \ {0}
    /\ MaxTime \in Nat
    /\ TtlSweeps \in BOOLEAN

VARIABLES
    stock,      \* STOCK items; revision 0: not created yet
    movement,   \* STOCK_MOVEMENT items
    resv,       \* RESERVATION items, with the PAYMENT_ATTEMPT binding written beside them
    order,      \* ORDER items
    due,        \* RESERVATION_DUE markers, <<checkout, reconcileAfter>>
    receipt,    \* IDEMPOTENCY items
    inbox,      \* EVENT_INBOX items
    outbox,     \* OUTBOX items
    refund,     \* REFUND items
    now,        \* the clock the handlers read
    pc, req, at, seen, todo

store == <<stock, movement, resv, order, due, receipt, inbox, outbox, refund>>
local == <<pc, req, at, seen, todo>>
vars == <<store, now, local>>

(***************************************************************************)
(* Records.                                                                *)
(***************************************************************************)
NoStock == [onHand |-> 0, reserved |-> 0, revision |-> 0]
NoReservation ==
    [status |-> "absent", revision |-> 0, createdAt |-> 0, reconcileAfter |-> 0,
     reason |-> "none"]
NoOrder == [status |-> "absent", revision |-> 0, target |-> {}]
NoRequest == [op |-> "none"]
Nothing == [resv |-> NoReservation, order |-> NoOrder, stock |-> [s \in Stocks |-> NoStock]]

(***************************************************************************)
(* The requests, by the fields their receipts hash.                        *)
(***************************************************************************)
AdjustRequest(a) ==
    [op |-> "adjust", key |-> <<"adjust", a.id>>, stock |-> a.stock,
     delta |-> a.delta, expected |-> a.expected]

\* The notification target is part of the hashed request: a retry after the
\* policy was republished is another request under the same key.
ReserveRequest(k, t) ==
    [op |-> "reserve", key |-> <<"checkout", k>>, checkout |-> k, target |-> t]

PaymentRequest(id, type, k, when) ==
    [op |-> "payment", key |-> id, checkout |-> k, type |-> type, occurred |-> when]

RefundRequest(m) ==
    [op |-> "refund", key |-> <<"queue", m.id>>, checkout |-> m.checkout,
     refundId |-> m.refundId]

\* release_reservation is called for canonical_not_created only.
ReleaseRequest(k, t) ==
    [op |-> "release", key |-> <<"reconcile", k, t, "not_created">>, checkout |-> k]

DeferRequest(key, k, next) ==
    [op |-> "defer", key |-> key, checkout |-> k, next |-> next]

\* An event of the queue carries its own occurredAt, the same on every delivery.
QueueRequest(m) ==
    IF m.type = "refund" THEN RefundRequest(m)
    ELSE PaymentRequest(<<"queue", m.id>>, m.type, m.checkout, 0)

\* What the reconciler asks of the store for a marker <<k, t>> once it knows the
\* canonical status; "failure" stands for a policy or a call that failed.
ReconcileRequest(k, t, status, when) ==
    CASE status = "paid" ->
            PaymentRequest(<<"event", k, t, status>>, "succeeded", k, when)
      [] status = "terminal_unpaid" ->
            PaymentRequest(<<"event", k, t, status>>, "terminal_unpaid", k, when)
      [] status = "not_created" -> ReleaseRequest(k, t)
      [] status = "unknown" ->
            DeferRequest(<<"reconcile", k, t, status>>, k, when + Interval)
      [] status = "failure" ->
            DeferRequest(<<"reconcile-failure", k, t>>, k, when + Interval)

Statuses == {"paid", "terminal_unpaid", "not_created", "unknown", "failure"}

(***************************************************************************)
(* What a request does to stock: StockState.adjust, reserve, commit and    *)
(* release, with the checks that precede the transaction.                  *)
(***************************************************************************)
Tracked(k) == {s \in Stocks : Qty[k][s] > 0}
Touched(r) == IF r.op = "adjust" THEN {r.stock} ELSE Tracked(r.checkout)

Movement(r) ==
    CASE r.op \in {"adjust", "reserve", "release"} -> r.op
      [] r.op = "refund" -> "commit"
      [] r.op = "payment" -> IF r.type = "succeeded" THEN "commit" ELSE "release"

\* Mutant: a refund takes the units back.
OnHandDeltaRestocking(r, s) ==
    CASE Movement(r) = "adjust" -> r.delta
      [] r.op = "payment" /\ Movement(r) = "commit" -> -Qty[r.checkout][s]
      [] OTHER -> 0

OnHandDelta(r, s) ==
    CASE Movement(r) = "adjust" -> r.delta
      [] Movement(r) = "commit" -> -Qty[r.checkout][s]
      [] OTHER -> 0

ReservedDelta(r, s) ==
    CASE Movement(r) = "adjust" -> 0
      [] Movement(r) = "reserve" -> Qty[r.checkout][s]
      [] OTHER -> -Qty[r.checkout][s]

\* Mutant: the reserved count moves the wrong way.
UpdatedBackwards(r, s, x) ==
    [onHand |-> x.onHand + OnHandDelta(r, s),
     reserved |-> x.reserved - ReservedDelta(r, s),
     revision |-> x.revision + 1]

Updated(r, s, x) ==
    [onHand |-> x.onHand + OnHandDelta(r, s),
     reserved |-> x.reserved + ReservedDelta(r, s),
     revision |-> x.revision + 1]

MayAdjust(r, x) ==
    IF x.revision = 0 THEN r.expected = 0 /\ r.delta >= 1
    ELSE r.expected = x.revision /\ x.onHand + r.delta >= x.reserved

\* Mutant: a reservation looks at what is on hand, not at what is available.
MayMoveOnHand(r, s, x) ==
    CASE Movement(r) = "adjust" -> MayAdjust(r, x)
      [] Movement(r) = "reserve" -> x.revision > 0 /\ Qty[r.checkout][s] <= x.onHand
      [] OTHER -> x.revision > 0 /\ Qty[r.checkout][s] <= x.reserved

MayMove(r, s, x) ==
    CASE Movement(r) = "adjust" -> MayAdjust(r, x)
      [] Movement(r) = "reserve" ->
            x.revision > 0 /\ Qty[r.checkout][s] <= x.onHand - x.reserved
      [] OTHER -> x.revision > 0 /\ Qty[r.checkout][s] <= x.reserved

MovementsOf(r) ==
    {[key |-> r.key, type |-> Movement(r), stock |-> s,
      checkout |-> IF r.op = "adjust" THEN "none" ELSE r.checkout,
      onHand |-> OnHandDelta(r, s), reserved |-> ReservedDelta(r, s)] : s \in Touched(r)}

\* Mutant: a refund releases the reservation.
TargetStatusRefundReleases(r) == IF r.op = "refund" THEN "released" ELSE
    IF Movement(r) = "commit" THEN "committed" ELSE "released"

TargetStatus(r) == IF Movement(r) = "commit" THEN "committed" ELSE "released"
CompletionReason(r) ==
    CASE Movement(r) = "commit" -> "canonical_paid"
      [] r.op = "payment" -> "canonical_terminal_unpaid"
      [] r.op = "release" -> "canonical_not_created"

IsEvent(r) == r.op \in {"payment", "refund"}

(***************************************************************************)
(* The notification a payment event emits, given the order it was planned  *)
(* from: none for an order already refunded, none for a type the pinned    *)
(* mapping of the order does not enable.                                   *)
(***************************************************************************)
NotificationType(r) ==
    IF r.type = "succeeded" THEN "payment-succeeded" ELSE "payment-failed"

\* Mutant: the pinned mapping is not consulted.
NotificationsUnmapped(r, o) ==
    IF r.op = "payment" /\ ~(r.type = "succeeded" /\ o.status = "refunded")
    THEN {[source |-> r.key, type |-> NotificationType(r), checkout |-> r.checkout]}
    ELSE {}

Notifications(r, o) ==
    IF /\ r.op = "payment"
       /\ ~(r.type = "succeeded" /\ o.status = "refunded")
       /\ NotificationType(r) \in o.target
    THEN {[source |-> r.key, type |-> NotificationType(r), checkout |-> r.checkout]}
    ELSE {}

(***************************************************************************)
(* Starting a request: the replay checks of _replay and _event_replay. A   *)
(* request whose receipt or inbox item exists is answered from it, or      *)
(* refused when the stored request differs; either way nothing is written, *)
(* so only a request with neither goes on. The code reads receipt, inbox   *)
(* and binding one after another; one step stands for the three, because   *)
(* the transaction checks each of them again.                              *)
(***************************************************************************)
NotApplied(r) ==
    /\ \A x \in receipt : x.key # r.key
    /\ IsEvent(r) => \A e \in inbox : e.key # r.key

\* _payment_binding: the binding is written with the reservation and never removed.
Bound(k) == resv[k].status # "absent"

Begin(p, r, step, stocks) ==
    /\ NotApplied(r)
    /\ pc' = [pc EXCEPT ![p] = IF step = "stock" /\ stocks = {} THEN "write" ELSE step]
    /\ req' = [req EXCEPT ![p] = r]
    /\ todo' = [todo EXCEPT ![p] = stocks]
    /\ UNCHANGED <<store, now, seen>>

FirstStep(r) ==
    CASE r.op \in {"adjust", "reserve"} -> "stock"
      [] r.op = "refund" -> "order"
      [] OTHER -> "reservation"

Start(p, r) ==
    /\ r.op = "payment" => Bound(r.checkout)
    /\ Begin(p, r, FirstStep(r), IF FirstStep(r) = "stock" THEN Touched(r) ELSE {})

StartAdjust(p) ==
    /\ pc[p] = "idle"
    /\ \E a \in Adjustments : Start(p, AdjustRequest(a))
    /\ UNCHANGED at

StartCheckout(p) ==
    /\ pc[p] = "idle"
    /\ \E k \in Checkouts, t \in Targets : Start(p, ReserveRequest(k, t))
    /\ at' = [at EXCEPT ![p] = now]

StartEvent(p) ==
    /\ pc[p] = "idle"
    /\ \E m \in Messages : Start(p, QueueRequest(m))
    /\ UNCHANGED at

\* list_due_reservations: the run's one now_epoch is taken here, and the marker
\* is kept while the policy and the provider status are looked up. A run's list is
\* one such worker for each of its markers.
List(p) ==
    /\ pc[p] = "idle"
    /\ \E d \in due :
        /\ d[2] <= now
        /\ req' = [req EXCEPT ![p] = [op |-> "look", checkout |-> d[1], marker |-> d[2]]]
    /\ pc' = [pc EXCEPT ![p] = "listed"]
    /\ at' = [at EXCEPT ![p] = now]
    /\ UNCHANGED <<store, now, seen, todo>>

\* After an attempt that failed the run defers the same marker with the same
\* now_epoch: a failed attempt has written nothing, so it is this step alone.
Decide(p) ==
    /\ pc[p] = "listed"
    /\ \E status \in Statuses :
        Start(p, ReconcileRequest(req[p].checkout, req[p].marker, status, at[p]))
    /\ UNCHANGED at

(***************************************************************************)
(* The reads. A read that finds a state the request cannot act on raises a *)
(* conflict: the action is not enabled, and the worker can only Abandon.   *)
(***************************************************************************)
Goto(p, step, stocks) ==
    /\ pc' = [pc EXCEPT ![p] = IF step = "stock" /\ stocks = {} THEN "write" ELSE step]
    /\ todo' = [todo EXCEPT ![p] = stocks]
    /\ UNCHANGED <<store, now, req, at>>

\* Mutant: the marker need not be due, nor move forward.
MayDeferEarly(r, x, when) == x.status = "reserved"

\* defer_reservation's guards, on the reservation as read.
MayDefer(r, x, when) ==
    /\ x.status = "reserved"
    /\ when >= x.reconcileAfter
    /\ r.next > x.reconcileAfter

\* Mutant: any payment event is taken as repeating the outcome.
MayFinishAnyway(r, x) == x.status = "reserved" \/ r.op = "payment"

\* _finish_reservation's split: an active reservation is finished; one already in
\* the target state for the same reason takes a payment event's receipt, and
\* answers a release by hand without writing.
MayFinish(r, x) ==
    \/ x.status = "reserved"
    \/ /\ r.op = "payment"
       /\ x.status = TargetStatus(r)
       /\ x.reason = CompletionReason(r)

ReadReservation(p) ==
    LET r == req[p]
        x == resv[r.checkout]
    IN  /\ pc[p] = "reservation"
        /\ x.status # "absent"
        /\ r.op = "defer" => MayDefer(r, x, at[p])
        /\ r.op \in {"payment", "release"} => MayFinish(r, x)
        /\ seen' = [seen EXCEPT ![p].resv = x]
        /\ CASE r.op = "defer" -> Goto(p, "write", {})
             [] r.op = "refund" -> Goto(p, "stock", Tracked(r.checkout))
             [] OTHER -> Goto(p, "order", {})

\* The status _finish_reservation expects of the order, given the reservation.
OrderFits(r, x, o) ==
    CASE x.status = "reserved" -> o.status = "pending_checkout"
      [] x.status = "committed" -> o.status \in {"paid", "refunded"}
      [] OTHER -> o.status = "payment_not_completed"

ReadOrder(p) ==
    LET r == req[p]
        o == order[r.checkout]
        x == seen[p].resv
    IN  /\ pc[p] = "order"
        /\ IF r.op = "refund" THEN o.status \in {"pending_checkout", "paid"}
           ELSE OrderFits(r, x, o)
        /\ seen' = [seen EXCEPT ![p].order = o]
        /\ CASE r.op = "refund" /\ o.status = "pending_checkout" -> Goto(p, "reservation", {})
             [] r.op # "refund" /\ x.status = "reserved" -> Goto(p, "stock", Tracked(r.checkout))
             [] OTHER -> Goto(p, "write", {})

\* The code reads the stocks in the order of their ids; any order stands for it.
ReadStock(p) ==
    /\ pc[p] = "stock"
    /\ \E s \in todo[p] :
        /\ MayMove(req[p], s, stock[s])
        /\ seen' = [seen EXCEPT ![p].stock[s] = stock[s]]
        /\ Goto(p, "stock", todo[p] \ {s})

(***************************************************************************)
(* The transactions: the conditions of every put, delete and check, then   *)
(* the items it leaves. The conditions on reservation and order compare    *)
(* status and revision; what is written is the record that was read, with  *)
(* the new fields.                                                         *)
(***************************************************************************)
Reset(p) ==
    /\ pc' = [pc EXCEPT ![p] = "idle"]
    /\ req' = [req EXCEPT ![p] = NoRequest]
    /\ at' = [at EXCEPT ![p] = 0]
    /\ seen' = [seen EXCEPT ![p] = Nothing]
    /\ todo' = [todo EXCEPT ![p] = {}]
    /\ UNCHANGED now

PutReceipt(r) ==
    /\ \A x \in receipt : x.key # r.key
    /\ receipt' = receipt \cup {r}

PutInbox(r) ==
    IF IsEvent(r)
    THEN /\ \A e \in inbox : e.key # r.key
         /\ inbox' = inbox \cup {r}
    ELSE UNCHANGED inbox

PutOutbox(r, o) ==
    /\ Notifications(r, o) \cap outbox = {}
    /\ outbox' = outbox \cup Notifications(r, o)

\* A movement's key is a hash of the receipt's key, the type and the stock.
MovementKeys(M) == {<<m.key, m.type, m.stock>> : m \in M}

\* Mutant: the stock is written without comparing it with what was read.
PutStockBlindly(r, x) ==
    /\ MovementKeys(MovementsOf(r)) \cap MovementKeys(movement) = {}
    /\ stock' = [s \in Stocks |-> IF s \in Touched(r) THEN Updated(r, s, x[s]) ELSE stock[s]]
    /\ movement' = movement \cup MovementsOf(r)

PutStock(r, x) ==
    /\ \A s \in Touched(r) : stock[s] = x[s]
    /\ MovementKeys(MovementsOf(r)) \cap MovementKeys(movement) = {}
    /\ stock' = [s \in Stocks |-> IF s \in Touched(r) THEN Updated(r, s, x[s]) ELSE stock[s]]
    /\ movement' = movement \cup MovementsOf(r)

PutReservation(k, x, new) ==
    /\ resv[k].status = "reserved"
    /\ resv[k].revision = x.revision
    /\ resv' = [resv EXCEPT ![k] = new]

PutOrder(k, status, o, new) ==
    /\ order[k].status = status
    /\ order[k].revision = o.revision
    /\ order' = [order EXCEPT ![k] = new]

\* Mutant: the marker outlives its reservation.
KeepMarker(k, t) == <<k, t>> \in due /\ UNCHANGED due

DeleteMarker(k, t) ==
    /\ <<k, t>> \in due
    /\ due' = due \ {<<k, t>>}

Finished(r, x) ==
    [x EXCEPT !.status = TargetStatus(r), !.revision = @ + 1, !.reason = CompletionReason(r)]

\* Mutant: the order keeps its revision.
MovedInPlace(o, status) == [o EXCEPT !.status = status]

MovedTo(o, status) == [o EXCEPT !.status = status, !.revision = @ + 1]

\* Mutant: the Checkout's own expiry is forgotten.
ReconcileAfterGrace(created) == created + Grace

\* reservation_timing: the first reconciliation waits for the Checkout to expire.
ReconcileAfter(created) == created + CheckoutExpiry + Grace

Adjust(p) ==
    LET r == req[p] IN
    /\ pc[p] = "write" /\ r.op = "adjust"
    /\ PutStock(r, seen[p].stock)
    /\ PutReceipt(r)
    /\ Reset(p)
    /\ UNCHANGED <<resv, order, due, inbox, outbox, refund>>

Reserve(p) ==
    LET r == req[p]
        k == r.checkout
        after == ReconcileAfter(at[p])
    IN  /\ pc[p] = "write" /\ r.op = "reserve"
        /\ PutStock(r, seen[p].stock)
        /\ resv[k].status = "absent"
        /\ resv' = [resv EXCEPT ![k] =
              [status |-> "reserved", revision |-> 1, createdAt |-> at[p],
               reconcileAfter |-> after, reason |-> "none"]]
        /\ <<k, after>> \notin due
        /\ due' = due \cup {<<k, after>>}
        /\ order[k].status = "absent"
        /\ order' = [order EXCEPT ![k] =
              [status |-> "pending_checkout", revision |-> 1, target |-> r.target]]
        /\ PutReceipt(r)
        /\ Reset(p)
        /\ UNCHANGED <<inbox, outbox, refund>>

\* _finish_reservation on an active reservation, for a payment event or a release.
Finish(p) ==
    LET r == req[p]
        k == r.checkout
        x == seen[p].resv
        o == seen[p].order
    IN  /\ pc[p] = "write" /\ r.op \in {"payment", "release"}
        /\ x.status = "reserved"
        /\ PutStock(r, seen[p].stock)
        /\ PutReservation(k, x, Finished(r, x))
        /\ DeleteMarker(k, x.reconcileAfter)
        /\ PutOrder(k, "pending_checkout", o,
              MovedTo(o, IF TargetStatus(r) = "committed" THEN "paid"
                         ELSE "payment_not_completed"))
        /\ PutInbox(r)
        /\ PutOutbox(r, o)
        /\ PutReceipt(r)
        /\ Reset(p)
        /\ UNCHANGED refund

\* A payment event for a reservation already in its target state: no condition on
\* the reservation or the order, only the binding, the inbox, the outbox and the receipt.
Converge(p) ==
    LET r == req[p] IN
    /\ pc[p] = "write" /\ r.op = "payment"
    /\ seen[p].resv.status # "reserved"
    /\ Bound(r.checkout)
    /\ PutInbox(r)
    /\ PutOutbox(r, seen[p].order)
    /\ PutReceipt(r)
    /\ Reset(p)
    /\ UNCHANGED <<stock, movement, resv, order, due, refund>>

PutRefund(r) ==
    /\ \A f \in refund : f.refundId # r.refundId
    /\ refund' = refund \cup {[refundId |-> r.refundId, checkout |-> r.checkout]}

\* Mutant: a refund of a paid order releases its reservation as well.
RefundPaidReleasing(p) ==
    LET r == req[p]
        k == r.checkout
        o == seen[p].order
    IN  /\ pc[p] = "write" /\ r.op = "refund"
        /\ o.status = "paid"
        /\ PutOrder(k, "paid", o, MovedTo(o, "refunded"))
        /\ resv' = [resv EXCEPT ![k].status = "released", ![k].revision = @ + 1]
        /\ PutRefund(r)
        /\ PutInbox(r)
        /\ PutReceipt(r)
        /\ Reset(p)
        /\ UNCHANGED <<stock, movement, due, outbox>>

RefundPaid(p) ==
    LET r == req[p]
        o == seen[p].order
    IN  /\ pc[p] = "write" /\ r.op = "refund"
        /\ o.status = "paid"
        /\ PutOrder(r.checkout, "paid", o, MovedTo(o, "refunded"))
        /\ PutRefund(r)
        /\ PutInbox(r)
        /\ PutReceipt(r)
        /\ Reset(p)
        /\ UNCHANGED <<stock, movement, resv, due, outbox>>

\* A refund confirmed before its payment event: the sale is committed with it.
RefundPending(p) ==
    LET r == req[p]
        k == r.checkout
        x == seen[p].resv
        o == seen[p].order
    IN  /\ pc[p] = "write" /\ r.op = "refund"
        /\ o.status = "pending_checkout"
        /\ PutStock(r, seen[p].stock)
        /\ PutReservation(k, x, Finished(r, x))
        /\ DeleteMarker(k, x.reconcileAfter)
        /\ PutOrder(k, "pending_checkout", o, MovedTo(o, "refunded"))
        /\ Bound(k)
        /\ PutRefund(r)
        /\ PutInbox(r)
        /\ PutReceipt(r)
        /\ Reset(p)
        /\ UNCHANGED outbox

Defer(p) ==
    LET r == req[p]
        k == r.checkout
        x == seen[p].resv
    IN  /\ pc[p] = "write" /\ r.op = "defer"
        /\ PutReservation(k, x, [x EXCEPT !.revision = @ + 1, !.reconcileAfter = r.next])
        /\ resv[k].reconcileAfter = x.reconcileAfter
        /\ <<k, x.reconcileAfter>> \in due
        /\ <<k, r.next>> \notin due
        /\ due' = (due \ {<<k, x.reconcileAfter>>}) \cup {<<k, r.next>>}
        /\ PutReceipt(r)
        /\ Reset(p)
        /\ UNCHANGED <<stock, movement, order, inbox, outbox, refund>>

\* A crash, a conflict, a failed condition, or an answer that writes nothing. The
\* caller may send the same request again; one whose reply was lost after the
\* transaction took effect is the request of a worker that has finished.
Abandon(p) ==
    /\ pc[p] # "idle"
    /\ Reset(p)
    /\ UNCHANGED store

(***************************************************************************)
(* The table's TTL may remove a receipt or an inbox item, each on its own. *)
(* The code gives both 90 days; the model lets them go at any time, so no  *)
(* property below rests on how long they last.                             *)
(***************************************************************************)
ExpireReceipt ==
    /\ TtlSweeps
    /\ \E x \in receipt : receipt' = receipt \ {x}
    /\ UNCHANGED <<stock, movement, resv, order, due, inbox, outbox, refund, now, local>>

ExpireInbox ==
    /\ TtlSweeps
    /\ \E e \in inbox : inbox' = inbox \ {e}
    /\ UNCHANGED <<stock, movement, resv, order, due, receipt, outbox, refund, now, local>>

Tick ==
    /\ now < MaxTime
    /\ now' = now + 1
    /\ UNCHANGED <<store, local>>

Init ==
    /\ stock = [s \in Stocks |-> NoStock]
    /\ movement = {}
    /\ resv = [k \in Checkouts |-> NoReservation]
    /\ order = [k \in Checkouts |-> NoOrder]
    /\ due = {}
    /\ receipt = {}
    /\ inbox = {}
    /\ outbox = {}
    /\ refund = {}
    /\ now = 0
    /\ pc = [p \in Workers |-> "idle"]
    /\ req = [p \in Workers |-> NoRequest]
    /\ at = [p \in Workers |-> 0]
    /\ seen = [p \in Workers |-> Nothing]
    /\ todo = [p \in Workers |-> {}]

Step(p) ==
    \/ StartAdjust(p) \/ StartCheckout(p) \/ StartEvent(p) \/ List(p) \/ Decide(p)
    \/ ReadReservation(p) \/ ReadOrder(p) \/ ReadStock(p)
    \/ Adjust(p) \/ Reserve(p) \/ Finish(p) \/ Converge(p)
    \/ RefundPaid(p) \/ RefundPending(p) \/ Defer(p)
    \/ Abandon(p)

Next ==
    \/ \E p \in Workers : Step(p)
    \/ ExpireReceipt \/ ExpireInbox \/ Tick

Spec == Init /\ [][Next]_vars

-----------------------------------------------------------------------------
(***************************************************************************)
(* Properties.                                                             *)
(***************************************************************************)
Active(k) == resv[k].status = "reserved"
Terminal(k) == resv[k].status \in {"committed", "released"}

StockRecord == [onHand : Nat, reserved : Nat, revision : Nat]
ReservationRecord ==
    [status : {"absent", "reserved", "committed", "released"}, revision : Nat,
     createdAt : Nat, reconcileAfter : Nat,
     reason : {"none", "canonical_paid", "canonical_terminal_unpaid",
               "canonical_not_created"}]
OrderRecord ==
    [status : {"absent", "pending_checkout", "paid", "payment_not_completed", "refunded"},
     revision : Nat, target : SUBSET NotificationTypes]

\* The types of the stored records and of what the workers remember of them.
TypeOK ==
    /\ stock \in [Stocks -> StockRecord]
    /\ resv \in [Checkouts -> ReservationRecord]
    /\ order \in [Checkouts -> OrderRecord]
    /\ due \subseteq Checkouts \X Nat
    /\ now \in Nat
    /\ pc \in [Workers -> {"idle", "listed", "reservation", "order", "stock", "write"}]
    /\ at \in [Workers -> Nat]
    /\ seen \in [Workers ->
          [resv : ReservationRecord, order : OrderRecord, stock : [Stocks -> StockRecord]]]
    /\ todo \in [Workers -> SUBSET Stocks]

(***************************************************************************)
(* No oversell: whatever the interleaving of reservations, adjustments,    *)
(* payments, refunds and releases, the reserved count of a stock is        *)
(* exactly the units its active reservations hold, and never exceeds what  *)
(* is on hand (README: onHand = available + reserved).                     *)
(***************************************************************************)
HeldUnits(s) == UNION {{k} \X (1..Qty[k][s]) : k \in {c \in Checkouts : Active(c)}}

StockIsHeld ==
    \A s \in Stocks :
        /\ stock[s].reserved = Cardinality(HeldUnits(s))
        /\ stock[s].reserved <= stock[s].onHand

\* The movements are the whole story of a stock: its counts are their sums and
\* its revision their number, so no update is lost and none is recorded twice.
LedgerExact ==
    \A s \in Stocks :
        LET M == {m \in movement : m.stock = s}
        IN  /\ stock[s].onHand = MapThenSumSet(LAMBDA m : m.onHand, M)
            /\ stock[s].reserved = MapThenSumSet(LAMBDA m : m.reserved, M)
            /\ stock[s].revision = Cardinality(M)

\* Reservation, order, due marker and refund of a checkout tell the same story
\* after every transaction: none is ahead of another, an active reservation has
\* exactly one marker and a finished one has none to be reconciled by.
OneStory ==
    /\ \A k \in Checkouts :
        <<resv[k].status, order[k].status>> \in
            {<<"absent", "absent">>, <<"reserved", "pending_checkout">>,
             <<"committed", "paid">>, <<"committed", "refunded">>,
             <<"released", "payment_not_completed">>}
    /\ due = {<<k, resv[k].reconcileAfter>> : k \in {c \in Checkouts : Active(c)}}
    /\ \A k \in Checkouts :
        (order[k].status = "refunded") <=> (\E f \in refund : f.checkout = k)

\* Each checkout takes its units from a stock once and settles them once, as its
\* reservation says, however often its events and requests are delivered and
\* whatever receipts the TTL has removed.
SettledOnce ==
    \A k \in Checkouts : \A s \in Tracked(k) :
        LET Of(T) == {m \in movement : m.checkout = k /\ m.stock = s /\ m.type \in T}
        IN  /\ Cardinality(Of({"reserve"})) = IF resv[k].status = "absent" THEN 0 ELSE 1
            /\ Cardinality(Of({"commit"})) = IF resv[k].status = "committed" THEN 1 ELSE 0
            /\ Cardinality(Of({"release"})) = IF resv[k].status = "released" THEN 1 ELSE 0

\* An event is acknowledged only when its fact holds of the stored state, by this
\* event or by an earlier one with the same meaning: acknowledging an event that
\* contradicts the outcome would lose it.
AcknowledgedEventsHold ==
    \A e \in inbox :
        /\ e.op = "payment" => /\ resv[e.checkout].status = TargetStatus(e)
                               /\ resv[e.checkout].reason = CompletionReason(e)
        /\ e.op = "refund" => order[e.checkout].status = "refunded"

\* A customer is never told of a payment outcome the order does not have, nor by
\* a notification type the order's pinned mapping leaves out.
NotificationsAreTrue ==
    \A n \in outbox :
        /\ n.type \in order[n.checkout].target
        /\ resv[n.checkout].status =
            IF n.type = "payment-succeeded" THEN "committed" ELSE "released"

\* The optimistic concurrency control: a worker's copy of a reservation or order
\* is never newer than the item, and a copy whose revision still matches is the
\* item, so writing it back with new fields loses nothing.
SnapshotsAreHonest ==
    \A p \in Workers : "checkout" \in DOMAIN req[p] =>
        LET k == req[p].checkout
        IN  /\ seen[p].resv.revision <= resv[k].revision
            /\ seen[p].resv.revision = resv[k].revision => seen[p].resv = resv[k]
            /\ seen[p].order.revision <= order[k].revision
            /\ seen[p].order.revision = order[k].revision => seen[p].order = order[k]

\* Commit and release exclude each other for good: a finished reservation is never
\* written again, and its order only moves from paid to refunded.
TerminalIsFinal ==
    [][\A k \in Checkouts : Terminal(k) =>
        /\ resv'[k] = resv[k]
        /\ \/ order'[k] = order[k]
           \/ order[k].status = "paid" /\ order'[k].status = "refunded"]_vars

\* A refund never makes a unit available again, whether it comes after the
\* payment or before it (README: refund is not a stock transition).
RefundNeverRestocks ==
    [][\A k \in Checkouts :
        order[k].status # "refunded" /\ order'[k].status = "refunded" =>
            \A s \in Stocks : stock'[s].onHand - stock'[s].reserved
                            = stock[s].onHand - stock[s].reserved]_vars

\* not_created is believed only once the Checkout session, with the grace period,
\* can no longer be created: before that the create call may still be in flight.
NotCreatedIsLate ==
    [][\A k \in Checkouts :
        Active(k) /\ resv'[k].reason = "canonical_not_created" =>
            now >= resv[k].createdAt + CheckoutExpiry + Grace]_vars

\* Deferring moves a marker forward, to at most one interval from now, whichever
\* of the overlapping reconciler runs does it: no reservation is put off further.
DeferMovesForward ==
    [][\A k \in Checkouts :
        Active(k) /\ resv'[k].reconcileAfter # resv[k].reconcileAfter =>
            /\ resv'[k].reconcileAfter > resv[k].reconcileAfter
            /\ resv'[k].reconcileAfter <= now + Interval]_vars

(***************************************************************************)
(* The abstract specification: reservations and orders, read and written   *)
(* record by record by many workers, look like an escrow of stock units.   *)
(***************************************************************************)
SaleOf(o) ==
    CASE o.status = "absent" -> "none"
      [] o.status = "pending_checkout" -> "held"
      [] o.status = "paid" -> "sold"
      [] o.status = "refunded" -> "refunded"
      [] o.status = "payment_not_completed" -> "returned"

Abstract == INSTANCE Escrow WITH
    Deltas <- {a.delta : a \in Adjustments},
    onHand <- [s \in Stocks |-> stock[s].onHand],
    reserved <- [s \in Stocks |-> stock[s].reserved],
    sale <- [k \in Checkouts |-> SaleOf(order[k])]

\* Every step of the handlers is one step of the escrow or changes nothing in it.
ImplementsEscrow == Abstract!Spec

=============================================================================
