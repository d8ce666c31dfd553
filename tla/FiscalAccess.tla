---------------------------- MODULE FiscalAccess ----------------------------
(***************************************************************************)
(* The claim to a manual invoice that goes with an order: the access item  *)
(* a Checkout creates and its retries rotate, the payment event that opens *)
(* the claim, the customer who redeems it once, and the operators who work *)
(* on the request (src/fiscal_storage.py and the fiscal parts of           *)
(* src/storage.py and src/handlers/checkout.py).                           *)
(*                                                                         *)
(* As in CommerceStore a worker is one invocation, which reads items one   *)
(* by one, keeps them in seen[p], and writes in one conditional            *)
(* transaction. An order is here its status; what else settles with it is  *)
(* CommerceStore's. A proof is fresh in every try of a Checkout, and only  *)
(* its hash is stored.                                                     *)
(***************************************************************************)
EXTENDS Naturals, FiniteSets

CONSTANTS
    Orders,        \* orders of a draft with the fiscal capability
    Proofs,        \* random proofs, one for each try of a Checkout
    Keys,          \* idempotency keys of customers' submissions
    Details,       \* valid fiscal details
    Invalid,       \* details that fail validation
    Actions,       \* what operators may do, of SUBMISSION_TRANSITIONS and "correct"
    Events,        \* how orders may be settled
    MaxAttempts,   \* MAX_CLAIM_ATTEMPTS
    Window,        \* requestWindowSeconds
    PaymentPeriod, \* from the Checkout to reconcileAfter
    Workers,
    MaxTime,       \* bound on the clock
    MaxRevision    \* bound on the revision an operator acts on

ASSUME FiscalAssumption ==
    /\ Invalid \notin Details
    /\ Actions \subseteq {"markNeedsCorrection", "markReady", "markDelivered", "cancel", "correct"}
    /\ Events \subseteq {"succeeded", "terminal_unpaid", "refund", "not_created"}
    /\ MaxAttempts \in Nat \ {0}
    /\ Window \in Nat \ {0}
    /\ PaymentPeriod \in Nat
    /\ MaxTime \in Nat
    /\ MaxRevision \in Nat

VARIABLES
    order,      \* status of each order; payment_not_completed is told apart by its reason
    access,     \* FISCAL_ACCESS items
    request,    \* FISCAL_REQUEST items, by order and key, from which their id derives
    receipt,    \* FISCAL_IDEMPOTENCY items
    tried,      \* proofs drawn so far
    given,      \* proofs handed out in a response, with their order
    stored,     \* history: every proof whose hash an access item has held, with its order
    now,
    pc, req, at, seen

items == <<order, access, request, receipt>>
proofs == <<tried, given, stored>>
local == <<pc, req, at, seen>>
vars == <<items, proofs, now, local>>

Requests == Orders \X Keys
NoAccess == [state |-> "absent", proof |-> "none", attempts |-> 0, revision |-> 0, expiresAt |-> 0]
NoRequest == [status |-> "absent", revision |-> 0, details |-> Invalid]
Nothing == [order |-> "absent", access |-> NoAccess, request |-> NoRequest]
Idle == [op |-> "none"]

Begin(p, r, step) ==
    /\ pc[p] = "idle"
    /\ pc' = [pc EXCEPT ![p] = step]
    /\ req' = [req EXCEPT ![p] = r]
    /\ at' = [at EXCEPT ![p] = now]
    /\ UNCHANGED <<items, now, seen>>

Remember(p, step, copy) ==
    /\ pc' = [pc EXCEPT ![p] = step]
    /\ seen' = [seen EXCEPT ![p] = copy]
    /\ UNCHANGED <<items, proofs, now, req, at>>

Reset(p) ==
    /\ pc' = [pc EXCEPT ![p] = "idle"]
    /\ req' = [req EXCEPT ![p] = Idle]
    /\ at' = [at EXCEPT ![p] = 0]
    /\ seen' = [seen EXCEPT ![p] = Nothing]
    /\ UNCHANGED now

\* Mutant: the put is not conditional.
PutAccessAnyway(o, old, new) == access' = [access EXCEPT ![o] = new]

\* The condition of every put of an access item: the item is still the one read.
PutAccess(o, old, new) ==
    /\ access[o].state = old.state
    /\ access[o].proof = old.proof
    /\ access[o].revision = old.revision
    /\ access[o].expiresAt = old.expiresAt
    /\ access' = [access EXCEPT ![o] = new]

(***************************************************************************)
(* The Checkout. Its first try reserves and creates the access item; a try *)
(* that finds the receipt replays it and, while the payment is pending,    *)
(* puts the hash of its own proof in place of the stored one. The proof is *)
(* in the response only when the hash stored is its own. The receipt is    *)
(* written with the order, and its 90 days are longer than the model's     *)
(* clock, so the order stands for it.                                      *)
(***************************************************************************)
StartCheckout(p) ==
    /\ \E o \in Orders, proof \in Proofs \ tried :
        /\ Begin(p, [op |-> IF order[o] = "absent" THEN "reserve" ELSE "rotate",
                     order |-> o, proof |-> proof],
                 IF order[o] = "absent" THEN "write" ELSE "access")
        /\ tried' = tried \cup {proof}
    /\ UNCHANGED <<given, stored>>

StoreProof(p) == stored' = stored \cup {<<req[p].order, req[p].proof>>}

ToRespond(p) ==
    /\ pc' = [pc EXCEPT ![p] = "respond"]
    /\ UNCHANGED <<tried, given, now, req, at, seen>>

Reserve(p) ==
    LET o == req[p].order IN
    /\ pc[p] = "write" /\ req[p].op = "reserve"
    /\ order[o] = "absent"
    /\ order' = [order EXCEPT ![o] = "pending_checkout"]
    /\ access' = [access EXCEPT ![o] =
          [state |-> "pending_payment", proof |-> req[p].proof, attempts |-> 0, revision |-> 1,
           expiresAt |-> at[p] + PaymentPeriod + Window]]
    /\ StoreProof(p)
    /\ ToRespond(p)
    /\ UNCHANGED <<request, receipt>>

ReadForRotation(p) ==
    LET a == access[req[p].order] IN
    /\ pc[p] = "access" /\ req[p].op = "rotate"
    /\ a.state = "pending_payment"
    /\ at[p] < a.expiresAt
    /\ Remember(p, "write", [seen[p] EXCEPT !.access = a])

\* Mutant: the rotation is not conditional.
RotateAnyway(p) ==
    LET old == seen[p].access IN
    /\ pc[p] = "write" /\ req[p].op = "rotate"
    /\ access' = [access EXCEPT ![req[p].order] =
          [old EXCEPT !.proof = req[p].proof, !.revision = @ + 1]]
    /\ StoreProof(p)
    /\ ToRespond(p)
    /\ UNCHANGED <<order, request, receipt>>

Rotate(p) ==
    LET old == seen[p].access IN
    /\ pc[p] = "write" /\ req[p].op = "rotate"
    /\ PutAccess(req[p].order, old, [old EXCEPT !.proof = req[p].proof, !.revision = @ + 1])
    /\ StoreProof(p)
    /\ ToRespond(p)
    /\ UNCHANGED <<order, request, receipt>>

\* Mutant: a rotation that was refused answers as if it had been made.
RespondAnyway(p) ==
    /\ pc[p] = "respond" \/ (pc[p] = "write" /\ req[p].op = "rotate")
    /\ given' = given \cup {<<req[p].order, req[p].proof>>}
    /\ Reset(p)
    /\ UNCHANGED <<items, tried, stored>>

\* The provider accepted the session; when it does not, the try fails after the
\* rotation has been made (Abandon).
Respond(p) ==
    /\ pc[p] = "respond"
    /\ given' = given \cup {<<req[p].order, req[p].proof>>}
    /\ Reset(p)
    /\ UNCHANGED <<items, tried, stored>>

(***************************************************************************)
(* The settlement of an order, by an event or by the reconciler's release, *)
(* which leaves the access item alone.                                     *)
(***************************************************************************)
Outcome(event) ==
    CASE event = "succeeded" -> "paid"
      [] event = "terminal_unpaid" -> "unpaid"
      [] event = "refund" -> "refunded"
      [] event = "not_created" -> "not_created"

\* Whether an order in this status takes the event at all, and for the first time.
Settles(event, status) == status = "pending_checkout"
Repeats(event, status) ==
    \/ event = "succeeded" /\ status \in {"paid", "refunded"}
    \/ event = "terminal_unpaid" /\ status = "unpaid"
    \/ event = "refund" /\ status = "paid"

StartEvent(p) ==
    /\ \E o \in Orders, event \in Events :
        Begin(p, [op |-> "event", order |-> o, event |-> event], "order")
    /\ UNCHANGED proofs

ReadOrder(p) ==
    LET status == order[req[p].order]
        event == req[p].event
    IN  /\ pc[p] = "order"
        /\ Settles(event, status) \/ Repeats(event, status)
        /\ Remember(p,
              IF event = "not_created" \/ (event = "refund" /\ status = "paid")
              THEN "write" ELSE "access",
              [seen[p] EXCEPT !.order = status])

\* The event leaves the access item as it is.
Answered(event, a) ==
    \/ a.state = "absent"
    \/ event \in {"succeeded", "refund"} /\ a.state \in {"eligible", "consumed"}
    \/ event = "terminal_unpaid" /\ a.state = "ineligible"

MayOpen(a) == a.state = "pending_payment"

Opened(event, a, t) ==
    IF event = "terminal_unpaid" THEN [a EXCEPT !.state = "ineligible", !.revision = @ + 1]
    ELSE [a EXCEPT !.state = "eligible", !.expiresAt = t + Window, !.revision = @ + 1]

ReadForEvent(p) ==
    LET a == access[req[p].order] IN
    /\ pc[p] = "access" /\ req[p].op = "event"
    /\ Answered(req[p].event, a) \/ MayOpen(a)
    /\ Remember(p, "write", [seen[p] EXCEPT !.access = a])

\* What the transaction of an event does to the access item. A refund of a paid
\* order and a release have not read it: they go by NoAccess, which is answered.
MoveAccess(p) ==
    LET a == seen[p].access
        event == req[p].event
    IN  IF Answered(event, a) THEN UNCHANGED access
        ELSE PutAccess(req[p].order, a, Opened(event, a, at[p]))

\* Mutant: the order is put whatever it has become.
SettleAnyway(p) ==
    LET o == req[p].order IN
    /\ pc[p] = "write" /\ req[p].op = "event"
    /\ Settles(req[p].event, seen[p].order)
    /\ order' = [order EXCEPT ![o] = Outcome(req[p].event)]
    /\ MoveAccess(p)
    /\ Reset(p)
    /\ UNCHANGED <<request, receipt, proofs>>

Settle(p) ==
    LET o == req[p].order IN
    /\ pc[p] = "write" /\ req[p].op = "event"
    /\ Settles(req[p].event, seen[p].order)
    /\ order[o] = "pending_checkout"
    /\ order' = [order EXCEPT ![o] = Outcome(req[p].event)]
    /\ MoveAccess(p)
    /\ Reset(p)
    /\ UNCHANGED <<request, receipt, proofs>>

\* A refund of a paid order moves the order; another event that repeats what has
\* been settled puts no condition on the order.
Repeat(p) ==
    LET o == req[p].order IN
    /\ pc[p] = "write" /\ req[p].op = "event"
    /\ Repeats(req[p].event, seen[p].order)
    /\ IF req[p].event = "refund"
       THEN order[o] = "paid" /\ order' = [order EXCEPT ![o] = "refunded"]
       ELSE UNCHANGED order
    /\ MoveAccess(p)
    /\ Reset(p)
    /\ UNCHANGED <<request, receipt, proofs>>

(***************************************************************************)
(* Redeeming the claim.                                                    *)
(***************************************************************************)
\* Mutant: the attempts are not looked at.
EligibleHoweverOften(a, proof, t) ==
    a.proof = proof /\ a.state = "eligible" /\ t < a.expiresAt

Eligible(a, proof, t) ==
    /\ a.proof = proof
    /\ a.state = "eligible"
    /\ a.attempts < MaxAttempts
    /\ t < a.expiresAt

StartRedeem(p) ==
    /\ \E g \in given, o \in Orders, k \in Keys, d \in Details \cup {Invalid} :
        Begin(p, [op |-> "redeem", order |-> o, proof |-> g[2], key |-> k, details |-> d], "access")
    /\ UNCHANGED proofs

\* Invalid details are counted before the receipt is looked at.
ReadForRedeem(p) ==
    LET r == req[p]
        a == access[r.order]
    IN  /\ pc[p] = "access" /\ r.op = "redeem"
        /\ a.state # "absent"
        /\ r.details = Invalid => Eligible(a, r.proof, at[p])
        /\ Remember(p, IF r.details = Invalid THEN "write" ELSE "receipt",
                    [seen[p] EXCEPT !.access = a])

\* A key that was used answers with the stored result, or refuses another request.
ReadReceipt(p) ==
    LET r == req[p] IN
    /\ pc[p] = "receipt"
    /\ \A x \in receipt : x.key # r.key
    /\ Eligible(seen[p].access, r.proof, at[p])
    /\ Remember(p, "write", seen[p])

RecordFailedAttempt(p) ==
    LET r == req[p]
        a == seen[p].access
    IN  /\ pc[p] = "write" /\ r.op = "redeem" /\ r.details = Invalid
        /\ access[r.order].attempts = a.attempts
        /\ PutAccess(r.order, a, [a EXCEPT !.attempts = @ + 1, !.revision = @ + 1])
        /\ Reset(p)
        /\ UNCHANGED <<order, request, receipt, proofs>>

Redeem(p) ==
    LET r == req[p]
        a == seen[p].access
    IN  /\ pc[p] = "write" /\ r.op = "redeem" /\ r.details # Invalid
        /\ access[r.order].attempts = a.attempts
        /\ PutAccess(r.order, a,
              [a EXCEPT !.state = "consumed", !.attempts = @ + 1, !.revision = @ + 1])
        /\ request[<<r.order, r.key>>].status = "absent"
        /\ request' = [request EXCEPT ![<<r.order, r.key>>] =
              [status |-> "requested", revision |-> 1, details |-> r.details]]
        /\ \A x \in receipt : x.key # r.key
        /\ receipt' = receipt \cup
              {[key |-> r.key, order |-> r.order, proof |-> r.proof, details |-> r.details]}
        /\ Reset(p)
        /\ UNCHANGED <<order, proofs>>

(***************************************************************************)
(* The operators.                                                          *)
(***************************************************************************)
\* The states an action starts from; "correct" is correct_request, with a check of its own.
SubmissionTransitions(action) ==
    CASE action = "markNeedsCorrection" -> {"requested"}
      [] action = "markReady" -> {"requested"}
      [] action = "markDelivered" -> {"ready"}
      [] action = "cancel" -> {"requested", "needs_correction", "ready"}
      [] action = "correct" -> {"needs_correction"}

TargetStatus(action) ==
    CASE action = "markNeedsCorrection" -> "needs_correction"
      [] action = "markReady" -> "ready"
      [] action = "markDelivered" -> "delivered"
      [] action = "cancel" -> "canceled"
      [] action = "correct" -> "requested"

\* The operator names the revision that was on the screen.
StartReview(p) ==
    /\ \E id \in Requests, action \in Actions, expected \in 1..MaxRevision, d \in Details :
        Begin(p, [op |-> "review", id |-> id, action |-> action, expected |-> expected,
                  details |-> d], "request")
    /\ UNCHANGED proofs

ReadRequest(p) ==
    LET r == req[p]
        q == request[r.id]
    IN  /\ pc[p] = "request"
        /\ q.status \in SubmissionTransitions(r.action)
        /\ q.revision = r.expected
        /\ Remember(p, "write", [seen[p] EXCEPT !.request = q])

\* Mutant: the request is replaced whatever it has become.
ReplaceRequestAnyway(id, old, new) == request' = [request EXCEPT ![id] = new]

ReplaceRequest(id, old, new) ==
    /\ request[id].revision = old.revision
    /\ request[id].status = old.status
    /\ request' = [request EXCEPT ![id] = new]

Review(p) ==
    LET r == req[p]
        q == seen[p].request
    IN  /\ pc[p] = "write" /\ r.op = "review"
        /\ ReplaceRequest(r.id, q,
              [status |-> TargetStatus(r.action), revision |-> q.revision + 1,
               details |-> IF r.action = "correct" THEN r.details ELSE q.details])
        /\ Reset(p)
        /\ UNCHANGED <<order, access, receipt, proofs>>

\* A crash, a conflict, a failed condition, a refusal, or an answer from a receipt.
Abandon(p) ==
    /\ pc[p] # "idle"
    /\ Reset(p)
    /\ UNCHANGED <<items, proofs>>

\* The Operations table removes items whose expiresAt has passed, in its own time.
ExpireAccess ==
    /\ \E o \in Orders :
        /\ access[o].state # "absent"
        /\ access[o].expiresAt <= now
        /\ access' = [access EXCEPT ![o] = NoAccess]
    /\ UNCHANGED <<order, request, receipt, proofs, now, local>>

Tick ==
    /\ now < MaxTime
    /\ now' = now + 1
    /\ UNCHANGED <<items, proofs, local>>

Init ==
    /\ order = [o \in Orders |-> "absent"]
    /\ access = [o \in Orders |-> NoAccess]
    /\ request = [id \in Requests |-> NoRequest]
    /\ receipt = {}
    /\ tried = {} /\ given = {} /\ stored = {}
    /\ now = 0
    /\ pc = [p \in Workers |-> "idle"]
    /\ req = [p \in Workers |-> Idle]
    /\ at = [p \in Workers |-> 0]
    /\ seen = [p \in Workers |-> Nothing]

Step(p) ==
    \/ StartCheckout(p) \/ Reserve(p) \/ ReadForRotation(p) \/ Rotate(p) \/ Respond(p)
    \/ StartEvent(p) \/ ReadOrder(p) \/ ReadForEvent(p) \/ Settle(p) \/ Repeat(p)
    \/ StartRedeem(p) \/ ReadForRedeem(p) \/ ReadReceipt(p) \/ RecordFailedAttempt(p) \/ Redeem(p)
    \/ StartReview(p) \/ ReadRequest(p) \/ Review(p)
    \/ Abandon(p)

Next == (\E p \in Workers : Step(p)) \/ ExpireAccess \/ Tick

Spec == Init /\ [][Next]_vars

-----------------------------------------------------------------------------
(***************************************************************************)
(* Properties.                                                             *)
(***************************************************************************)
OrderStatuses ==
    {"absent", "pending_checkout", "paid", "refunded", "unpaid", "not_created"}
AccessRecord ==
    [state : {"absent", "pending_payment", "eligible", "ineligible", "consumed"},
     proof : Proofs \cup {"none"}, attempts : 0..MaxAttempts, revision : Nat, expiresAt : Nat]
RequestRecord ==
    [status : {"absent", "requested", "needs_correction", "ready", "delivered", "canceled"},
     revision : Nat, details : Details \cup {Invalid}]

\* The types of the items; that a claim is never tried more than MAX_CLAIM_ATTEMPTS
\* times, however the attempts overlap, is part of them.
TypeOK ==
    /\ order \in [Orders -> OrderStatuses]
    /\ access \in [Orders -> AccessRecord]
    /\ request \in [Requests -> RequestRecord]
    /\ tried \subseteq Proofs
    /\ given \subseteq Orders \X Proofs
    /\ stored \subseteq Orders \X Proofs
    /\ now \in Nat
    /\ at \in [Workers -> Nat]
    /\ seen \in [Workers -> [order : OrderStatuses, access : AccessRecord, request : RequestRecord]]

\* An order has at most one request, whatever keys, retries and repeated payment
\* events there are, and a claim is open only while there is none.
SingleUse ==
    \A o \in Orders :
        LET submitted == {k \in Keys : request[<<o, k>>].status # "absent"}
        IN  /\ Cardinality(submitted) <= 1
            /\ access[o].state = "eligible" => submitted = {}
            /\ access[o].state = "consumed" => submitted # {}

\* A proof has authority only after a verified payment: an open or used claim, and
\* a request, belong to an order that was paid.
OnlyPaidOrders ==
    \A o \in Orders :
        (\/ access[o].state \in {"eligible", "consumed"}
         \/ \E k \in Keys : request[<<o, k>>].status # "absent") =>
            order[o] \in {"paid", "refunded"}

\* A Checkout never hands out a proof that the store has not accepted, though a
\* payment may settle the order between its read and its rotation.
GivenWereStored == given \subseteq stored

\* The life of an access item, whoever writes it: the state moves one way, attempts
\* are never forgotten, and once a payment has opened the claim neither its proof nor
\* its window changes, by a retry of the Checkout or by a repeated payment event.
ClaimMovesForward ==
    [][\A o \in Orders : LET a == access[o]
                             b == access'[o]
       IN  (a.state # "absent" /\ b.state # "absent" /\ b # a) =>
            /\ <<a.state, b.state>> \in
                  {<<"pending_payment", "pending_payment">>, <<"pending_payment", "eligible">>,
                   <<"pending_payment", "ineligible">>, <<"eligible", "eligible">>,
                   <<"eligible", "consumed">>}
            /\ b.revision = a.revision + 1
            /\ b.attempts >= a.attempts
            /\ a.state = "eligible" => b.proof = a.proof /\ b.expiresAt = a.expiresAt]_vars

\* Once an operator has marked a request ready, its details stay the ones that were
\* reviewed, and a delivered or canceled request stays as it is, though operators
\* act on what they saw before.
ReviewedStaysReviewed ==
    [][\A id \in Requests : LET q == request[id]
                                s == request'[id]
       IN  /\ q.status \in {"ready", "delivered", "canceled"} => s.details = q.details
           /\ q.status \in {"delivered", "canceled"} => s = q
           /\ s.status = "delivered" /\ q.status # "delivered" => q.status = "ready"]_vars

\* README: a verified paid or refund-confirmed event atomically opens the window.
PaymentOpensWindow ==
    [][\A o \in Orders :
        order[o] = "pending_checkout" /\ order'[o] \in {"paid", "refunded"} =>
            access'[o].state = "eligible"]_vars
=============================================================================
