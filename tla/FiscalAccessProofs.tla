------------------------- MODULE FiscalAccessProofs -------------------------
(***************************************************************************)
(* Proofs about FiscalAccess for every set of orders, proofs, keys,        *)
(* details and workers, and for every bound.                               *)
(*                                                                         *)
(* A put of an access item compares all its fields but the attempts, which *)
(* only the puts of a redemption compare. That the others lose none rests  *)
(* on an item that is pending having none (Unspent). A put then replaces   *)
(* exactly the item its worker read, and what a worker made sure of when   *)
(* it read (Staged) holds of the item it replaces.                         *)
(***************************************************************************)
EXTENDS FiscalAccess, FiniteSetTheorems, TLAPS

CheckoutRequests == [op : {"reserve", "rotate"}, order : Orders, proof : Proofs]
EventRequests == [op : {"event"}, order : Orders, event : Events]
RedeemRequests ==
    [op : {"redeem"}, order : Orders, proof : Proofs, key : Keys, details : Details \cup {Invalid}]
ReviewRequests ==
    [op : {"review"}, id : Requests, action : Actions, expected : 1..MaxRevision, details : Details]

Paid == {"paid", "refunded"}

(***************************************************************************)
(* The inductive invariant.                                                *)
(***************************************************************************)
\* An access item that is pending has not been tried, nor has a copy of one.
Unspent ==
    /\ \A o \in Orders : access[o].state = "pending_payment" => access[o].attempts = 0
    /\ \A p \in Workers :
        seen[p].access.state = "pending_payment" => seen[p].access.attempts = 0

\* A worker on an event has found the order in a status that takes the event, and
\* a paid order stays paid.
EventRead(p) ==
    LET status == seen[p].order IN
    /\ req[p] \in EventRequests
    /\ Settles(req[p].event, status) \/ Repeats(req[p].event, status)
    /\ status \in Paid => order[req[p].order] \in Paid

\* A release, and the refund of a paid order, do not read the access item.
ReadsNoAccess(p) ==
    \/ req[p].event = "not_created"
    \/ req[p].event = "refund" /\ seen[p].order = "paid"

\* What a worker that is about to write has made sure of.
EventReady(p) ==
    LET a == seen[p].access IN
    /\ EventRead(p)
    /\ Answered(req[p].event, a) \/ MayOpen(a)
    /\ ReadsNoAccess(p) => a.state = "absent"

\* The copy of a request is the request as it is, or as it was at a smaller revision.
ReviewReady(p) ==
    LET q == seen[p].request
        current == request[req[p].id]
    IN  /\ req[p] \in ReviewRequests
        /\ q.status \in SubmissionTransitions(req[p].action)
        /\ q.revision <= current.revision
        /\ q.revision = current.revision => q = current

Stage(p) == LET r == req[p] IN
    \/ pc[p] = "idle" /\ seen[p].access.state = "absent"
    \/ pc[p] = "respond" /\ r \in CheckoutRequests /\ <<r.order, r.proof>> \in stored
    \/ pc[p] = "order" /\ r \in EventRequests /\ seen[p].access.state = "absent"
    \/ pc[p] = "receipt" /\ r \in RedeemRequests
    \/ pc[p] = "request" /\ r \in ReviewRequests
    \/ pc[p] = "access" /\ r \in CheckoutRequests /\ r.op = "rotate"
    \/ pc[p] = "access" /\ EventRead(p) /\ ~ReadsNoAccess(p)
    \/ pc[p] = "access" /\ r \in RedeemRequests
    \/ pc[p] = "write" /\ r \in CheckoutRequests /\ r.op = "reserve"
    \/ /\ pc[p] = "write" /\ r \in CheckoutRequests /\ r.op = "rotate"
       /\ seen[p].access.state = "pending_payment"
    \/ pc[p] = "write" /\ EventReady(p)
    \/ pc[p] = "write" /\ r \in RedeemRequests /\ Eligible(seen[p].access, r.proof, at[p])
    \/ pc[p] = "write" /\ ReviewReady(p)

Staged == \A p \in Workers : Stage(p)

Submitted(o, k) == request[<<o, k>>].status # "absent"

\* A submission uses up its claim, of which there is no second one.
Claims ==
    \A o \in Orders :
        /\ \A j, k \in Keys : Submitted(o, j) /\ Submitted(o, k) => j = k
        /\ (\E k \in Keys : Submitted(o, k)) => access[o].state \in {"absent", "consumed"}
        /\ access[o].state = "consumed" => \E k \in Keys : Submitted(o, k)
        /\ access[o].state # "absent" => order[o] # "absent"
        /\ \A k \in Keys : ~Submitted(o, k) => request[<<o, k>>].revision = 0

Local == DOMAIN pc = Workers /\ DOMAIN req = Workers

IInv == TypeOK /\ Local /\ Unspent /\ Staged /\ Claims /\ OnlyPaidOrders /\ GivenWereStored

-----------------------------------------------------------------------------
(***************************************************************************)
(* What the parts of the actions do.                                       *)
(***************************************************************************)
\* What a worker carries, other than p, does not change.
Others(p) ==
    \A q \in Workers \ {p} :
        pc'[q] = pc[q] /\ req'[q] = req[q] /\ at'[q] = at[q] /\ seen'[q] = seen[q]

\* What a worker is after it has begun.
LEMMA BeginIs ==
    ASSUME TypeOK, Local, NEW p \in Workers, NEW r, NEW step, Begin(p, r, step)
    PROVE  /\ pc'[p] = step /\ req'[p] = r /\ at'[p] = now /\ seen'[p] = seen[p]
           /\ Others(p) /\ Local' /\ UNCHANGED <<items, now>>
           /\ at' \in [Workers -> Nat] /\ seen' = seen
BY DEF Begin, Others, Local, TypeOK

\* What a worker is after a read.
LEMMA RememberIs ==
    ASSUME TypeOK, Local, NEW p \in Workers, NEW step, NEW copy, Remember(p, step, copy)
    PROVE  /\ pc'[p] = step /\ req'[p] = req[p] /\ at'[p] = at[p] /\ seen'[p] = copy
           /\ Others(p) /\ Local' /\ UNCHANGED <<items, proofs, now>>
           /\ at' \in [Workers -> Nat] /\ seen' = [seen EXCEPT ![p] = copy]
BY DEF Remember, Others, Local, TypeOK

\* What a worker is after it has ended.
LEMMA ResetIs ==
    ASSUME TypeOK, Local, NEW p \in Workers, Reset(p)
    PROVE  /\ pc'[p] = "idle" /\ seen'[p] = Nothing /\ Others(p) /\ Local' /\ UNCHANGED now
           /\ at' \in [Workers -> Nat] /\ seen' = [seen EXCEPT ![p] = Nothing]
BY DEF Reset, Others, Local, TypeOK

\* What a worker is when its transaction is done and its answer is not.
LEMMA RespondIs ==
    ASSUME TypeOK, Local, NEW p \in Workers, ToRespond(p)
    PROVE  /\ pc'[p] = "respond" /\ req'[p] = req[p] /\ at'[p] = at[p] /\ seen'[p] = seen[p]
           /\ Others(p) /\ Local' /\ UNCHANGED <<tried, given, now>>
           /\ at' \in [Workers -> Nat] /\ seen' = seen
BY DEF ToRespond, Others, Local, TypeOK

Copies == [order : OrderStatuses, access : AccessRecord, request : RequestRecord]

\* The values of absent items are of the items' types.
LEMMA NothingTyped ==
    /\ NoAccess \in AccessRecord /\ NoRequest \in RequestRecord /\ Nothing \in Copies
    /\ Nothing.access.state = "absent"
<1>1. 0 \in 0..MaxAttempts
  BY FiscalAssumption
<1>2. NoAccess \in AccessRecord
  BY <1>1 DEF NoAccess, AccessRecord
<1>3. NoRequest \in RequestRecord
  BY DEF NoRequest, RequestRecord
<1> QED
  BY <1>2, <1>3 DEF Nothing, Copies, OrderStatuses, NoAccess

\* A put of an access item replaces the item that its worker read.
LEMMA PutIs ==
    ASSUME TypeOK, Unspent, NEW o \in Orders, NEW p \in Workers, NEW new,
           PutAccess(o, seen[p].access, new),
           \/ seen[p].access.state = "pending_payment"
           \/ access[o].attempts = seen[p].access.attempts
    PROVE  access[o] = seen[p].access /\ access' = [access EXCEPT ![o] = new]
<1> DEFINE old == seen[p].access
           current == access[o]
<1>1. old \in AccessRecord /\ current \in AccessRecord
  BY DEF TypeOK
<1>2. /\ current.state = old.state /\ current.proof = old.proof
      /\ current.revision = old.revision /\ current.expiresAt = old.expiresAt
  BY DEF PutAccess
<1>3. current.attempts = old.attempts
  BY <1>2 DEF Unspent
<1>4. current = old
  BY <1>1, <1>2, <1>3 DEF AccessRecord
<1> QED
  BY <1>4 DEF PutAccess

\* An access item stays one of its type when one of its fields takes a value of the field's.
LEMMA AccessFields ==
    ASSUME NEW a \in AccessRecord
    PROVE  /\ \A v \in {"absent", "pending_payment", "eligible", "ineligible", "consumed"} :
                 [a EXCEPT !.state = v] \in AccessRecord
           /\ \A v \in Proofs : [a EXCEPT !.proof = v] \in AccessRecord
           /\ \A v \in 0..MaxAttempts : [a EXCEPT !.attempts = v] \in AccessRecord
           /\ \A v \in Nat : [a EXCEPT !.expiresAt = v] \in AccessRecord
           /\ [a EXCEPT !.revision = @ + 1] \in AccessRecord
<1>1. a.revision + 1 \in Nat
  BY DEF AccessRecord
<1> QED
  BY <1>1 DEF AccessRecord

-----------------------------------------------------------------------------
(***************************************************************************)
(* What a step does to an item.                                            *)
(***************************************************************************)
\* The access item of an order is created with it,
Created(o) ==
    /\ order[o] = "absent" /\ order'[o] = "pending_checkout" /\ UNCHANGED request
    /\ access'[o] \in AccessRecord
    /\ access'[o].state = "pending_payment" /\ access'[o].attempts = 0

\* gets another proof,
Rotated(o) ==
    /\ access[o].state = "pending_payment" /\ UNCHANGED <<order, request>>
    /\ access'[o] \in AccessRecord
    /\ access'[o].state = "pending_payment"
    /\ access'[o].attempts = access[o].attempts /\ access'[o].revision = access[o].revision + 1

\* is opened for a paid order or closed,
Opens(o) ==
    /\ access[o].state = "pending_payment" /\ UNCHANGED request
    /\ access'[o] \in AccessRecord
    /\ access'[o].state \in {"eligible", "ineligible"}
    /\ access'[o].attempts = access[o].attempts /\ access'[o].revision = access[o].revision + 1
    /\ access'[o].state = "eligible" => order'[o] \in Paid

\* is tried without success,
Tried(o) ==
    /\ access[o].state = "eligible" /\ UNCHANGED <<order, request>>
    /\ access'[o] \in AccessRecord
    /\ access'[o].state = "eligible"
    /\ access'[o].proof = access[o].proof /\ access'[o].expiresAt = access[o].expiresAt
    /\ access'[o].attempts = access[o].attempts + 1
    /\ access'[o].revision = access[o].revision + 1

\* is used for a submission,
Used(o) ==
    /\ access[o].state = "eligible" /\ UNCHANGED order
    /\ access'[o] \in AccessRecord
    /\ access'[o].state = "consumed"
    /\ access'[o].proof = access[o].proof /\ access'[o].expiresAt = access[o].expiresAt
    /\ access'[o].attempts = access[o].attempts + 1
    /\ access'[o].revision = access[o].revision + 1
    /\ \E k \in Keys, d \in Details :
          /\ ~Submitted(o, k)
          /\ request' = [request EXCEPT ![<<o, k>>] =
                [status |-> "requested", revision |-> 1, details |-> d]]

\* and expires.
Expires(o) == access'[o] = NoAccess /\ UNCHANGED <<order, request>>

\* A reservation creates the claim of its own order (reserve_checkout).
LEMMA ReserveIs ==
    ASSUME TypeOK, Staged, NEW p \in Workers, Reserve(p)
    PROVE  /\ req[p].order \in Orders /\ Created(req[p].order)
           /\ \A o \in Orders \ {req[p].order} :
                 access'[o] = access[o] /\ order'[o] = order[o]
           /\ <<req[p].order, req[p].proof>> \in Orders \X Proofs
<1>1. req[p].order \in Orders /\ req[p].proof \in Proofs
  BY DEF Reserve, Staged, Stage, EventReady, EventRead, ReviewReady,
         CheckoutRequests, EventRequests, RedeemRequests, ReviewRequests
<1> DEFINE new == [state |-> "pending_payment", proof |-> req[p].proof, attempts |-> 0,
                   revision |-> 1, expiresAt |-> at[p] + PaymentPeriod + Window]
<1>2. at[p] + PaymentPeriod + Window \in Nat /\ 0 \in 0..MaxAttempts
  BY FiscalAssumption DEF TypeOK
<1>3. new \in AccessRecord
  BY <1>1, <1>2 DEF AccessRecord
<1>4. access' = [access EXCEPT ![req[p].order] = new]
  BY DEF Reserve
<1> HIDE DEF new
<1>5. access'[req[p].order] = new
  BY <1>1, <1>4 DEF TypeOK
<1>6. new.state = "pending_payment" /\ new.attempts = 0
  BY DEF new
<1> QED
  BY <1>1, <1>3, <1>4, <1>5, <1>6 DEF Reserve, Created, TypeOK

\* A rotation changes the proof of its own order's pending claim.
LEMMA RotateIs ==
    ASSUME TypeOK, Unspent, Staged, NEW p \in Workers, Rotate(p)
    PROVE  /\ req[p].order \in Orders /\ Rotated(req[p].order)
           /\ \A o \in Orders \ {req[p].order} : access'[o] = access[o]
           /\ <<req[p].order, req[p].proof>> \in Orders \X Proofs
<1> DEFINE o == req[p].order
           old == seen[p].access
           one == [old EXCEPT !.proof = req[p].proof]
           new == [old EXCEPT !.proof = req[p].proof, !.revision = @ + 1]
<1>1. o \in Orders /\ req[p].proof \in Proofs /\ old.state = "pending_payment"
  BY DEF Rotate, Staged, Stage, EventReady, EventRead, ReviewReady,
         CheckoutRequests, EventRequests, RedeemRequests, ReviewRequests
<1>2. old \in AccessRecord
  BY DEF TypeOK
<1>3. one \in AccessRecord
  BY <1>1, <1>2, AccessFields
<1>4. new = [one EXCEPT !.revision = @ + 1]
  OBVIOUS
<1>5. new \in AccessRecord
  BY <1>3, <1>4, AccessFields
<1>6. /\ new.state = old.state /\ new.attempts = old.attempts
      /\ new.revision = old.revision + 1
  BY <1>2 DEF AccessRecord
<1> HIDE DEF new, one
<1>7. PutAccess(o, old, new)
  BY DEF Rotate, new
<1>8. access[o] = old /\ access' = [access EXCEPT ![o] = new]
  BY <1>1, <1>7, PutIs
<1> QED
  BY <1>1, <1>5, <1>6, <1>8 DEF Rotate, Rotated, TypeOK

\* The access item as an event leaves it.
LEMMA MoveIs ==
    ASSUME TypeOK, Unspent, NEW p \in Workers, EventReady(p), MoveAccess(p)
    PROVE  LET o == req[p].order IN
           \/ UNCHANGED access
           \/ /\ \A other \in Orders \ {o} : access'[other] = access[other]
              /\ access[o].state = "pending_payment"
              /\ access'[o] \in AccessRecord
              /\ access'[o].state =
                    IF req[p].event = "terminal_unpaid" THEN "ineligible" ELSE "eligible"
              /\ access'[o].attempts = access[o].attempts
              /\ access'[o].revision = access[o].revision + 1
              /\ \/ req[p].event \in {"succeeded", "terminal_unpaid"}
                 \/ req[p].event = "refund" /\ seen[p].order # "paid"
<1> DEFINE o == req[p].order
           event == req[p].event
           old == seen[p].access
           open == [old EXCEPT !.state = "eligible"]
           moved == [open EXCEPT !.expiresAt = at[p] + Window]
           closed == [old EXCEPT !.state = "ineligible"]
           new == Opened(event, old, at[p])
<1>0. o \in Orders /\ event \in {"succeeded", "terminal_unpaid", "refund", "not_created"}
  BY FiscalAssumption DEF EventReady, EventRead, EventRequests
<1>1. CASE Answered(event, old)
  BY <1>1 DEF MoveAccess
<1>2. CASE ~Answered(event, old)
  <2>1. old \in AccessRecord /\ old.state = "pending_payment" /\ at[p] + Window \in Nat
    BY <1>2, FiscalAssumption DEF EventReady, MayOpen, TypeOK
  <2>2. open \in AccessRecord /\ closed \in AccessRecord
    BY <2>1, AccessFields
  <2>3. moved \in AccessRecord
    BY <2>1, <2>2, AccessFields
  <2>4. new = IF event = "terminal_unpaid" THEN [closed EXCEPT !.revision = @ + 1]
              ELSE [moved EXCEPT !.revision = @ + 1]
    BY DEF Opened
  <2>5. new \in AccessRecord
    BY <2>2, <2>3, <2>4, AccessFields
  <2>6. /\ new.state = IF event = "terminal_unpaid" THEN "ineligible" ELSE "eligible"
        /\ new.attempts = old.attempts /\ new.revision = old.revision + 1
    BY <2>1 DEF Opened, AccessRecord
  <2>7. PutAccess(o, old, new)
    BY <1>2 DEF MoveAccess
  <2> HIDE DEF new
  <2>8. access[o] = old /\ access' = [access EXCEPT ![o] = new]
    BY <1>0, <2>1, <2>7, PutIs
  <2>9. event \in {"succeeded", "terminal_unpaid"} \/ (event = "refund" /\ seen[p].order # "paid")
    BY <1>0, <2>1 DEF EventReady, ReadsNoAccess
  <2> QED
    BY <1>0, <2>1, <2>5, <2>6, <2>8, <2>9 DEF TypeOK
<1> QED
  BY <1>1, <1>2

\* The worker of an event that is about to write is ready to.
LEMMA EventIsReady ==
    ASSUME Staged, NEW p \in Workers, pc[p] = "write", req[p].op = "event"
    PROVE  EventReady(p)
BY DEF Staged, Stage, ReviewReady, CheckoutRequests, RedeemRequests, ReviewRequests

\* A payment event, a refund or a release moves one order, and may open its claim.
LEMMA EventIs ==
    ASSUME TypeOK, Unspent, Staged, NEW p \in Workers, Settle(p) \/ Repeat(p)
    PROVE  LET o == req[p].order IN
           /\ o \in Orders /\ UNCHANGED request
           /\ access'[o] = access[o] \/ Opens(o)
           /\ \A other \in Orders \ {o} :
                 access'[other] = access[other] /\ order'[other] = order[other]
           /\ \/ order'[o] = order[o]
              \/ order[o] = "pending_checkout" /\ order'[o] = Outcome(req[p].event)
              \/ order[o] = "paid" /\ order'[o] = "refunded"
<1> DEFINE o == req[p].order
           event == req[p].event
<1>1. EventReady(p) /\ MoveAccess(p)
  BY EventIsReady DEF Settle, Repeat
<1>2. o \in Orders
  BY <1>1 DEF EventReady, EventRead, EventRequests
<1>3. /\ \A other \in Orders \ {o} : order'[other] = order[other]
      /\ \/ order'[o] = order[o]
         \/ order[o] = "pending_checkout" /\ order'[o] = Outcome(event)
         \/ order[o] = "paid" /\ order'[o] = "refunded"
  BY <1>2 DEF Settle, Repeat, TypeOK
<1>4. CASE UNCHANGED access
  BY <1>2, <1>3, <1>4 DEF Settle, Repeat
<1>5. CASE ~UNCHANGED access
  <2>1. /\ \A other \in Orders \ {o} : access'[other] = access[other]
        /\ access[o].state = "pending_payment"
        /\ access'[o] \in AccessRecord
        /\ access'[o].state = IF event = "terminal_unpaid" THEN "ineligible" ELSE "eligible"
        /\ access'[o].attempts = access[o].attempts
        /\ access'[o].revision = access[o].revision + 1
        /\ \/ event \in {"succeeded", "terminal_unpaid"}
           \/ event = "refund" /\ seen[p].order # "paid"
    BY <1>1, <1>5, MoveIs
  <2>2. ASSUME event # "terminal_unpaid" PROVE order'[o] \in Paid
    <3>1. CASE Settle(p)
      BY <1>2, <2>1, <2>2, <3>1 DEF Settle, Outcome, Paid, TypeOK
    <3>2. CASE Repeat(p)
      <4>1. event = "succeeded" /\ seen[p].order \in Paid
        BY <2>1, <2>2, <3>2 DEF Repeat, Repeats, Paid
      <4>2. order[o] \in Paid /\ UNCHANGED order
        BY <1>1, <3>2, <4>1 DEF Repeat, EventReady, EventRead
      <4> QED
        BY <4>2
    <3> QED
      BY <3>1, <3>2
  <2> QED
    BY <1>2, <1>3, <2>1, <2>2 DEF Settle, Repeat, Opens
<1> QED
  BY <1>4, <1>5

\* The worker of a redemption that is about to write has an eligible claim.
LEMMA RedeemIsReady ==
    ASSUME TypeOK, Staged, NEW p \in Workers, pc[p] = "write", req[p].op = "redeem"
    PROVE  /\ req[p] \in RedeemRequests /\ Eligible(seen[p].access, req[p].proof, at[p])
           /\ seen[p].access \in AccessRecord
           /\ seen[p].access.attempts + 1 \in 0..MaxAttempts
<1>1. req[p] \in RedeemRequests /\ Eligible(seen[p].access, req[p].proof, at[p])
  BY DEF Staged, Stage, EventReady, EventRead, ReviewReady, CheckoutRequests, EventRequests,
         ReviewRequests
<1>2. seen[p].access \in AccessRecord
  BY DEF TypeOK
<1> QED
  BY <1>1, <1>2, FiscalAssumption DEF Eligible, AccessRecord

\* Invalid details count one attempt of one claim (redeem_claim).
LEMMA FailedIs ==
    ASSUME TypeOK, Unspent, Staged, NEW p \in Workers, RecordFailedAttempt(p)
    PROVE  /\ req[p].order \in Orders /\ Tried(req[p].order)
           /\ \A o \in Orders \ {req[p].order} : access'[o] = access[o]
<1> DEFINE o == req[p].order
           old == seen[p].access
           one == [old EXCEPT !.attempts = @ + 1]
           new == [old EXCEPT !.attempts = @ + 1, !.revision = @ + 1]
<1>1. /\ req[p] \in RedeemRequests /\ Eligible(old, req[p].proof, at[p])
      /\ old \in AccessRecord /\ old.attempts + 1 \in 0..MaxAttempts
  BY RedeemIsReady DEF RecordFailedAttempt
<1>2. o \in Orders /\ old.state = "eligible"
  BY <1>1 DEF RedeemRequests, Eligible
<1>3. one \in AccessRecord
  BY <1>1, AccessFields
<1>4. new = [one EXCEPT !.revision = @ + 1]
  OBVIOUS
<1>5. new \in AccessRecord
  BY <1>3, <1>4, AccessFields
<1>6. /\ new.state = old.state /\ new.proof = old.proof /\ new.expiresAt = old.expiresAt
      /\ new.attempts = old.attempts + 1 /\ new.revision = old.revision + 1
  BY <1>1 DEF AccessRecord
<1> HIDE DEF new, one
<1>7. PutAccess(o, old, new) /\ access[o].attempts = old.attempts
  BY DEF RecordFailedAttempt, new
<1>8. access[o] = old /\ access' = [access EXCEPT ![o] = new]
  BY <1>2, <1>7, PutIs
<1> QED
  BY <1>2, <1>5, <1>6, <1>8 DEF RecordFailedAttempt, Tried, TypeOK

\* A redemption uses one claim and makes one request, where there was none.
LEMMA RedeemIs ==
    ASSUME TypeOK, Unspent, Staged, NEW p \in Workers, Redeem(p)
    PROVE  /\ req[p].order \in Orders /\ Used(req[p].order)
           /\ \A o \in Orders \ {req[p].order} : access'[o] = access[o]
           /\ \E k \in Keys, d \in Details :
                 /\ ~Submitted(req[p].order, k)
                 /\ request' = [request EXCEPT ![<<req[p].order, k>>] =
                       [status |-> "requested", revision |-> 1, details |-> d]]
<1> DEFINE o == req[p].order
           old == seen[p].access
           one == [old EXCEPT !.state = "consumed"]
           two == [one EXCEPT !.attempts = @ + 1]
           new == [old EXCEPT !.state = "consumed", !.attempts = @ + 1, !.revision = @ + 1]
<1>1. /\ req[p] \in RedeemRequests /\ Eligible(old, req[p].proof, at[p])
      /\ old \in AccessRecord /\ old.attempts + 1 \in 0..MaxAttempts
  BY RedeemIsReady DEF Redeem
<1>2. /\ o \in Orders /\ old.state = "eligible"
      /\ req[p].key \in Keys /\ req[p].details \in Details
  BY <1>1 DEF RedeemRequests, Eligible, Redeem
<1>3. one \in AccessRecord
  BY <1>1, AccessFields
<1>4. two \in AccessRecord
  <2>1. one.attempts = old.attempts
    BY <1>1 DEF AccessRecord
  <2> QED
    BY <1>1, <1>3, <2>1, AccessFields
<1>5. new = [two EXCEPT !.revision = @ + 1]
  BY <1>1 DEF AccessRecord
<1>6. new \in AccessRecord
  BY <1>4, <1>5, AccessFields
<1>7. /\ new.state = "consumed" /\ new.proof = old.proof /\ new.expiresAt = old.expiresAt
      /\ new.attempts = old.attempts + 1 /\ new.revision = old.revision + 1
  BY <1>1 DEF AccessRecord
<1> HIDE DEF new, one, two
<1>8. PutAccess(o, old, new) /\ access[o].attempts = old.attempts
  BY DEF Redeem, new
<1>9. access[o] = old /\ access' = [access EXCEPT ![o] = new]
  BY <1>2, <1>8, PutIs
<1>10. \E k \in Keys, d \in Details :
          /\ ~Submitted(o, k)
          /\ request' = [request EXCEPT ![<<o, k>>] =
                [status |-> "requested", revision |-> 1, details |-> d]]
  BY <1>2 DEF Redeem, Submitted
<1> QED
  BY <1>2, <1>6, <1>7, <1>9, <1>10 DEF Redeem, Used, TypeOK

\* The operators' tables.
LEMMA Transitions ==
    ASSUME NEW action \in Actions
    PROVE  /\ SubmissionTransitions(action) \subseteq {"requested", "needs_correction", "ready"}
           /\ TargetStatus(action) \in
                 {"requested", "needs_correction", "ready", "delivered", "canceled"}
           /\ "ready" \in SubmissionTransitions(action) => action \in {"markDelivered", "cancel"}
           /\ TargetStatus(action) = "delivered" => SubmissionTransitions(action) = {"ready"}
BY FiscalAssumption DEF SubmissionTransitions, TargetStatus

\* An operator's step is one of the transitions that the request's status allows.
LEMMA ReviewIs ==
    ASSUME TypeOK, Staged, NEW p \in Workers, Review(p)
    PROVE  /\ req[p] \in ReviewRequests /\ req[p].id \in Requests
           /\ request[req[p].id].status \in SubmissionTransitions(req[p].action)
           /\ request' = [request EXCEPT ![req[p].id] =
                 [status |-> TargetStatus(req[p].action),
                  revision |-> request[req[p].id].revision + 1,
                  details |-> IF req[p].action = "correct" THEN req[p].details
                              ELSE request[req[p].id].details]]
<1>1. ReviewReady(p)
  BY DEF Review, Staged, Stage, EventReady, EventRead, CheckoutRequests, EventRequests,
         RedeemRequests
<1>2. req[p] \in ReviewRequests /\ req[p].id \in Requests
  BY <1>1 DEF ReviewReady, ReviewRequests
<1>3. seen[p].request = request[req[p].id]
  BY <1>1 DEF Review, ReplaceRequest, ReviewReady
<1> QED
  BY <1>1, <1>2, <1>3 DEF Review, ReplaceRequest, ReviewReady

\* An operator's action on a request.
Reviewed(id) ==
    \E action \in Actions, d \in Details :
        /\ request[id].status \in SubmissionTransitions(action)
        /\ request'[id] = [status |-> TargetStatus(action), revision |-> request[id].revision + 1,
                           details |-> IF action = "correct" THEN d ELSE request[id].details]

\* What a step does to an order and its access item,
AccessStep(o) ==
    \/ access'[o] = access[o]
    \/ Created(o) \/ Rotated(o) \/ Opens(o) \/ Tried(o) \/ Used(o) \/ Expires(o)

OrderStep(o) ==
    \/ order'[o] = order[o]
    \/ order[o] = "absent" /\ order'[o] = "pending_checkout"
    \/ order[o] = "pending_checkout" /\ order'[o] \in OrderStatuses \ {"absent", "pending_checkout"}
    \/ order[o] = "paid" /\ order'[o] = "refunded"

\* to the requests,
RequestStep ==
    \/ UNCHANGED request
    \/ \E o \in Orders, k \in Keys, d \in Details :
          /\ ~Submitted(o, k) /\ access[o].state = "eligible" /\ access'[o].state = "consumed"
          /\ UNCHANGED order
          /\ request' = [request EXCEPT ![<<o, k>>] =
                [status |-> "requested", revision |-> 1, details |-> d]]
    \/ \E id \in Requests :
          /\ Reviewed(id) /\ UNCHANGED access
          /\ \A other \in Requests \ {id} : request'[other] = request[other]
          /\ request' = [request EXCEPT ![id] = request'[id]]
          /\ UNCHANGED order

\* The actions that only read, or start, or end, leave the items alone.
LEMMA ItemsSame ==
    ASSUME TypeOK, Local, NEW p \in Workers,
           \/ StartCheckout(p) \/ ReadForRotation(p) \/ Respond(p)
           \/ StartEvent(p) \/ ReadOrder(p) \/ ReadForEvent(p)
           \/ StartRedeem(p) \/ ReadForRedeem(p) \/ ReadReceipt(p)
           \/ StartReview(p) \/ ReadRequest(p) \/ Abandon(p)
    PROVE  UNCHANGED items
BY DEF StartCheckout, ReadForRotation, Respond, StartEvent, ReadOrder, ReadForEvent, StartRedeem,
       ReadForRedeem, ReadReceipt, StartReview, ReadRequest, Abandon, Begin, Remember

\* What any step does to claims, orders and requests, each by its conditions.
LEMMA ItemSteps ==
    ASSUME TypeOK, Local, Unspent, Staged, [Next]_vars
    PROVE  (\A o \in Orders : AccessStep(o) /\ OrderStep(o)) /\ RequestStep
<1> DEFINE Goal == (\A o \in Orders : AccessStep(o) /\ OrderStep(o)) /\ RequestStep
<1>1. ASSUME UNCHANGED <<order, access, request>> PROVE Goal
  BY <1>1 DEF AccessStep, OrderStep, RequestStep
<1>2. CASE Tick \/ UNCHANGED vars
  BY <1>1, <1>2 DEF Tick, vars, items
<1>3. CASE ExpireAccess
  BY <1>3 DEF ExpireAccess, Expires, AccessStep, OrderStep, RequestStep, TypeOK
<1>4. ASSUME NEW p \in Workers, Reserve(p) PROVE Goal
  BY <1>4, ReserveIs DEF Reserve, AccessStep, OrderStep, RequestStep, Created
<1>5. ASSUME NEW p \in Workers, Rotate(p) PROVE Goal
  BY <1>5, RotateIs DEF Rotate, AccessStep, OrderStep, RequestStep
<1>6. ASSUME NEW p \in Workers, Settle(p) \/ Repeat(p) PROVE Goal
  <2>1. EventReady(p)
    BY <1>6, EventIsReady DEF Settle, Repeat
  <2>2. Outcome(req[p].event) \in OrderStatuses \ {"absent", "pending_checkout"}
    BY <2>1, FiscalAssumption DEF EventReady, EventRead, EventRequests, Outcome, OrderStatuses
  <2> QED
    BY <1>6, <2>2, EventIs DEF AccessStep, OrderStep, RequestStep
<1>7. ASSUME NEW p \in Workers, RecordFailedAttempt(p) PROVE Goal
  BY <1>7, FailedIs DEF RecordFailedAttempt, AccessStep, OrderStep, RequestStep
<1>8. ASSUME NEW p \in Workers, Redeem(p) PROVE Goal
  <2>1. UNCHANGED order
    BY <1>8 DEF Redeem
  <2>2. PICK k \in Keys, d \in Details :
            /\ ~Submitted(req[p].order, k)
            /\ request' = [request EXCEPT ![<<req[p].order, k>>] =
                  [status |-> "requested", revision |-> 1, details |-> d]]
    BY <1>8, RedeemIs
  <2>3. req[p].order \in Orders /\ Used(req[p].order)
    BY <1>8, RedeemIs
  <2>4. /\ access[req[p].order].state = "eligible"
        /\ access'[req[p].order].state = "consumed"
    BY <2>3 DEF Used
  <2>5. RequestStep
    BY <2>1, <2>2, <2>3, <2>4 DEF RequestStep
  <2> QED
    BY <1>8, <2>1, <2>5, RedeemIs DEF AccessStep, OrderStep
<1>9. ASSUME NEW p \in Workers, Review(p) PROVE Goal
  <2> DEFINE id == req[p].id
  <2>1. /\ id \in Requests /\ req[p].action \in Actions /\ req[p].details \in Details
        /\ request[id].status \in SubmissionTransitions(req[p].action)
        /\ request' = [request EXCEPT ![id] =
              [status |-> TargetStatus(req[p].action), revision |-> request[id].revision + 1,
               details |-> IF req[p].action = "correct" THEN req[p].details
                           ELSE request[id].details]]
    BY <1>9, ReviewIs DEF ReviewRequests
  <2>2. Reviewed(id) /\ request' = [request EXCEPT ![id] = request'[id]]
    BY <2>1 DEF Reviewed, TypeOK
  <2>3. \A other \in Requests \ {id} : request'[other] = request[other]
    BY <2>1 DEF TypeOK
  <2> QED
    BY <1>9, <2>1, <2>2, <2>3 DEF Review, AccessStep, OrderStep, RequestStep
<1>10. ASSUME NEW p \in Workers, Step(p), UNCHANGED items PROVE Goal
  BY <1>1, <1>10 DEF items
<1> QED
  BY <1>2, <1>3, <1>4, <1>5, <1>6, <1>7, <1>8, <1>9, <1>10, ItemsSame DEF Next, Step

-----------------------------------------------------------------------------
(***************************************************************************)
(* The invariants of the items are kept.                                   *)
(***************************************************************************)
LEMMA ItemFunctions ==
    ASSUME TypeOK, [Next]_vars
    PROVE  /\ order' = [o \in Orders |-> order'[o]]
           /\ access' = [o \in Orders |-> access'[o]]
           /\ request' = [id \in Requests |-> request'[id]]
<1> USE DEF TypeOK
<1>1. CASE Tick \/ ExpireAccess \/ UNCHANGED vars
  BY <1>1 DEF Tick, ExpireAccess, vars, items
<1>2. ASSUME NEW p \in Workers, Step(p), UNCHANGED items
      PROVE  /\ order' = [o \in Orders |-> order'[o]]
             /\ access' = [o \in Orders |-> access'[o]]
             /\ request' = [id \in Requests |-> request'[id]]
  BY <1>2 DEF items
<1>3. ASSUME NEW p \in Workers, ~UNCHANGED items, Step(p)
      PROVE  \/ Reserve(p) \/ Rotate(p) \/ Settle(p) \/ Repeat(p)
             \/ RecordFailedAttempt(p) \/ Redeem(p) \/ Review(p)
  BY <1>3 DEF Step, StartCheckout, ReadForRotation, Respond, StartEvent, ReadOrder,
              ReadForEvent, StartRedeem, ReadForRedeem, ReadReceipt, StartReview, ReadRequest,
              Abandon, Begin, Remember
<1>4. ASSUME NEW p \in Workers,
             \/ Reserve(p) \/ Rotate(p) \/ Settle(p) \/ Repeat(p)
             \/ RecordFailedAttempt(p) \/ Redeem(p) \/ Review(p)
      PROVE  /\ order' = [o \in Orders |-> order'[o]]
             /\ access' = [o \in Orders |-> access'[o]]
             /\ request' = [id \in Requests |-> request'[id]]
  BY <1>4 DEF Reserve, Rotate, Settle, Repeat, MoveAccess, PutAccess, RecordFailedAttempt,
              Redeem, Review, ReplaceRequest
<1> QED
  BY <1>1, <1>2, <1>3, <1>4 DEF Next

\* After any step the items have their types.
LEMMA ItemsTyped ==
    ASSUME TypeOK, Local, Unspent, Staged, [Next]_vars
    PROVE  /\ order' \in [Orders -> OrderStatuses]
           /\ access' \in [Orders -> AccessRecord]
           /\ request' \in [Requests -> RequestRecord]
<1>1. ASSUME NEW o \in Orders PROVE order'[o] \in OrderStatuses
  <2>1. order[o] \in OrderStatuses /\ OrderStep(o)
    BY ItemSteps DEF TypeOK
  <2> QED
    BY <2>1 DEF OrderStep, OrderStatuses
<1>2. ASSUME NEW o \in Orders PROVE access'[o] \in AccessRecord
  <2>1. access[o] \in AccessRecord /\ AccessStep(o)
    BY ItemSteps DEF TypeOK
  <2> QED
    BY <2>1, NothingTyped DEF AccessStep, Created, Rotated, Opens, Tried, Used, Expires
<1>3. ASSUME NEW id \in Requests PROVE request'[id] \in RequestRecord
  <2>1. request \in [Requests -> RequestRecord] /\ RequestStep
    BY ItemSteps DEF TypeOK
  <2>2. CASE UNCHANGED request
    BY <2>1, <2>2
  <2>3. ASSUME NEW slot \in Requests, NEW d \in Details,
               request' = [request EXCEPT ![slot] =
                   [status |-> "requested", revision |-> 1, details |-> d]]
        PROVE  request'[id] \in RequestRecord
    BY <2>1, <2>3 DEF RequestRecord
  <2>4. ASSUME NEW other \in Requests, Reviewed(other) PROVE request'[other] \in RequestRecord
    BY <2>1, <2>4, Transitions DEF Reviewed, RequestRecord
  <2> QED
    BY <2>1, <2>2, <2>3, <2>4 DEF RequestStep, Requests
<1> QED
  BY <1>1, <1>2, <1>3, ItemFunctions

\* An order stays, and a paid one stays paid or refunded.
LEMMA OrderStays ==
    ASSUME TypeOK, Local, Unspent, Staged, [Next]_vars, NEW o \in Orders
    PROVE  /\ order[o] # "absent" => order'[o] # "absent"
           /\ order[o] \in Paid => order'[o] \in Paid
BY ItemSteps DEF OrderStep, Paid, OrderStatuses

\* A request that changes gets a greater revision.
LEMMA RequestGrows ==
    ASSUME TypeOK, Local, Unspent, Staged, Claims, [Next]_vars, NEW id \in Requests
    PROVE  /\ \/ request'[id] = request[id]
              \/ request'[id].revision > request[id].revision /\ request'[id].status # "absent"
           /\ request'[id].status = "absent" => request'[id].revision = 0
<1>1. /\ request[id].revision \in Nat /\ RequestStep
      /\ request[id].status = "absent" => request[id].revision = 0
  <2>1. request[id].revision \in Nat /\ RequestStep
    BY ItemSteps DEF TypeOK, RequestRecord
  <2>2. PICK o \in Orders, k \in Keys : id = <<o, k>>
    BY DEF Requests
  <2> QED
    BY <2>1, <2>2 DEF Claims, Submitted
<1>2. CASE request'[id] = request[id]
  BY <1>1, <1>2
<1>3. ASSUME NEW o \in Orders, NEW k \in Keys, NEW d \in Details, ~Submitted(o, k),
             request' = [request EXCEPT ![<<o, k>>] =
                 [status |-> "requested", revision |-> 1, details |-> d]],
             request'[id] # request[id]
      PROVE  request'[id].revision > request[id].revision /\ request'[id].status # "absent"
  <2>1. id = <<o, k>> /\ request'[id].revision = 1 /\ request'[id].status = "requested"
    BY <1>3 DEF TypeOK, Requests
  <2> QED
    BY <1>1, <1>3, <2>1 DEF Submitted
<1>4. ASSUME Reviewed(id)
      PROVE  request'[id].revision > request[id].revision /\ request'[id].status # "absent"
  <2>1. request[id].revision + 1 > request[id].revision
    BY <1>1
  <2> QED
    BY <1>4, <2>1, Transitions DEF Reviewed
<1> QED
  BY <1>1, <1>2, <1>3, <1>4 DEF RequestStep

\* Claims and requests tell of each other, and of paid orders only, after any step.
LEMMA ClaimsKept ==
    ASSUME TypeOK, Local, Unspent, Staged, Claims, OnlyPaidOrders, [Next]_vars
    PROVE  Claims' /\ OnlyPaidOrders'
<1>0. ASSUME NEW o \in Orders, NEW k \in Keys, ~Submitted(o, k)'
      PROVE  request'[<<o, k>>].revision = 0
  BY <1>0, RequestGrows DEF Submitted, Requests
<1> SUFFICES ASSUME NEW o \in Orders
             PROVE  /\ \A j, k \in Keys : Submitted(o, j)' /\ Submitted(o, k)' => j = k
                    /\ (\E k \in Keys : Submitted(o, k)') =>
                          access'[o].state \in {"absent", "consumed"}
                    /\ access'[o].state = "consumed" => \E k \in Keys : Submitted(o, k)'
                    /\ access'[o].state # "absent" => order'[o] # "absent"
                    /\ access'[o].state \in {"eligible", "consumed"} => order'[o] \in Paid
                    /\ (\E k \in Keys : Submitted(o, k)') => order'[o] \in Paid
  BY <1>0 DEF Claims, OnlyPaidOrders, Submitted, Paid
<1>1. AccessStep(o) /\ OrderStep(o) /\ RequestStep
  BY ItemSteps
<1>2. /\ order[o] # "absent" => order'[o] # "absent"
      /\ order[o] \in Paid => order'[o] \in Paid
  BY OrderStays
<1>3. /\ \A j, k \in Keys : Submitted(o, j) /\ Submitted(o, k) => j = k
      /\ (\E k \in Keys : Submitted(o, k)) => access[o].state \in {"absent", "consumed"}
      /\ access[o].state = "consumed" => \E k \in Keys : Submitted(o, k)
      /\ access[o].state # "absent" => order[o] # "absent"
      /\ access[o].state \in {"eligible", "consumed"} => order[o] \in Paid
      /\ (\E k \in Keys : Submitted(o, k)) => order[o] \in Paid
  BY DEF Claims, OnlyPaidOrders, Submitted, Paid
<1>4. access'[o].state # "absent" => order'[o] # "absent"
  BY <1>1, <1>2, <1>3, NothingTyped
     DEF AccessStep, Created, Rotated, Opens, Tried, Used, Expires, NoAccess
<1>5. access'[o].state \in {"eligible", "consumed"} => order'[o] \in Paid
  BY <1>1, <1>2, <1>3
     DEF AccessStep, Created, Rotated, Opens, Tried, Used, Expires, NoAccess
<1>6. CASE \A k \in Keys : Submitted(o, k)' <=> Submitted(o, k)
  <2>1. access'[o].state # "consumed" \/ access[o].state = "consumed"
    <3>1. ASSUME Used(o) PROVE FALSE
      <4>1. PICK k \in Keys, d \in Details :
                /\ ~Submitted(o, k)
                /\ request' = [request EXCEPT ![<<o, k>>] =
                      [status |-> "requested", revision |-> 1, details |-> d]]
        BY <3>1 DEF Used
      <4>2. request'[<<o, k>>].status = "requested"
        BY <4>1 DEF TypeOK, Requests
      <4> QED
        BY <1>6, <4>1, <4>2 DEF Submitted
    <3> QED
      BY <1>1, <3>1 DEF AccessStep, Created, Rotated, Opens, Tried, Expires, NoAccess
  <2>2. (\E k \in Keys : Submitted(o, k)) => access'[o].state \in {"absent", "consumed"}
    BY <1>1, <1>3 DEF AccessStep, Created, Rotated, Opens, Tried, Used, Expires, NoAccess, Paid
  <2> QED
    BY <1>2, <1>3, <1>4, <1>5, <1>6, <2>1, <2>2
<1>7. CASE ~(\A k \in Keys : Submitted(o, k)' <=> Submitted(o, k))
  <2>1. PICK key \in Keys, d \in Details :
            /\ access[o].state = "eligible" /\ access'[o].state = "consumed"
            /\ UNCHANGED order
            /\ request' = [request EXCEPT ![<<o, key>>] =
                  [status |-> "requested", revision |-> 1, details |-> d]]
    <3>1. ~UNCHANGED request
      BY <1>7 DEF Submitted
    <3>2. ASSUME NEW id \in Requests, Reviewed(id),
                 \A other \in Requests \ {id} : request'[other] = request[other]
          PROVE  FALSE
      <4>1. request[id].status # "absent" /\ request'[id].status # "absent"
        BY <3>2, Transitions DEF Reviewed
      <4> QED
        BY <1>7, <3>2, <4>1 DEF Submitted, Requests
    <3>3. PICK slot \in Orders, key \in Keys, d \in Details :
              /\ access[slot].state = "eligible" /\ access'[slot].state = "consumed"
              /\ UNCHANGED order
              /\ request' = [request EXCEPT ![<<slot, key>>] =
                    [status |-> "requested", revision |-> 1, details |-> d]]
      BY <1>1, <3>1, <3>2 DEF RequestStep
    <3>4. slot = o
      BY <1>7, <3>3 DEF Submitted, TypeOK, Requests
    <3> QED
      BY <3>3, <3>4
  <2>2. \A k \in Keys : ~Submitted(o, k)
    BY <1>3, <2>1
  <2>3. \A k \in Keys : Submitted(o, k)' <=> k = key
    BY <2>1, <2>2 DEF Submitted, TypeOK, Requests
  <2> QED
    BY <1>2, <1>3, <1>4, <1>5, <2>1, <2>3
<1> QED
  BY <1>6, <1>7

\* No step leaves a pending claim with an attempt.
LEMMA PendingUntried ==
    ASSUME TypeOK, Local, Unspent, Staged, [Next]_vars, NEW o \in Orders
    PROVE  access'[o].state = "pending_payment" => access'[o].attempts = 0
BY ItemSteps DEF AccessStep, Created, Rotated, Opens, Tried, Used, Expires, NoAccess, Unspent

-----------------------------------------------------------------------------
(***************************************************************************)
(* What a step does to the proofs and to the workers.                      *)
(***************************************************************************)
LEMMA StageStays ==
    ASSUME TypeOK, Local, Unspent, Staged, Claims, [Next]_vars, stored \subseteq stored',
           NEW q \in Workers, pc'[q] = pc[q], req'[q] = req[q], at'[q] = at[q], seen'[q] = seen[q]
    PROVE  Stage(q)'
<1>1. ASSUME EventRead(q) PROVE EventRead(q)'
  <2>1. req[q].order \in Orders
    BY <1>1 DEF EventRead, EventRequests
  <2> QED
    BY <1>1, <2>1, OrderStays DEF EventRead
<1>2. ASSUME EventReady(q) PROVE EventReady(q)'
  BY <1>1, <1>2 DEF EventReady, ReadsNoAccess
<1>3. ASSUME ReviewReady(q) PROVE ReviewReady(q)'
  <2> DEFINE id == req[q].id
  <2>1. id \in Requests
    BY <1>3 DEF ReviewReady, ReviewRequests
  <2>2. request'[id] = request[id] \/ request'[id].revision > request[id].revision
    BY <2>1, RequestGrows
  <2>3. /\ seen[q].request.revision \in Nat /\ request[id].revision \in Nat
        /\ request'[id].revision \in Nat
    BY <2>1, ItemsTyped DEF TypeOK, RequestRecord
  <2> QED
    BY <1>3, <2>2, <2>3 DEF ReviewReady
<1>4. Stage(q)
  BY DEF Staged
<1>5. CASE pc[q] \in {"idle", "respond", "order", "receipt", "request"}
  BY <1>4, <1>5 DEF Stage
<1>6. CASE pc[q] = "access"
  BY <1>1, <1>4, <1>6 DEF Stage, ReadsNoAccess
<1>7. CASE pc[q] = "write"
  BY <1>2, <1>3, <1>4, <1>7 DEF Stage, Eligible
<1> QED
  BY <1>4, <1>5, <1>6, <1>7 DEF Stage

\* What the step of a worker does to its own part of the state, and to the proofs.
OwnStep(p) ==
    /\ Others(p) /\ Local' /\ Stage(p)'
    /\ at' \in [Workers -> Nat]
    /\ seen' = [seen EXCEPT ![p] = seen'[p]] /\ seen'[p] \in Copies
    /\ seen'[p].access.state = "pending_payment" => seen'[p].access.attempts = 0

\* The proofs that have been drawn, handed out and stored.
ProofStep ==
    /\ tried' \subseteq Proofs
    /\ stored \subseteq stored' /\ stored' \subseteq Orders \X Proofs
    /\ given' \subseteq Orders \X Proofs /\ given' \subseteq stored'

\* A copy with another order, access item or request.
LEMMA CopyTyped ==
    ASSUME NEW copy \in Copies
    PROVE  /\ \A v \in OrderStatuses : [copy EXCEPT !.order = v] \in Copies
           /\ \A v \in AccessRecord : [copy EXCEPT !.access = v] \in Copies
           /\ \A v \in RequestRecord : [copy EXCEPT !.request = v] \in Copies
BY DEF Copies

\* The steps of a Checkout: what they do to the worker and to the proofs.
LEMMA CheckoutSteps ==
    ASSUME TypeOK, Local, Unspent, Staged, GivenWereStored, NEW p \in Workers,
           StartCheckout(p) \/ Reserve(p) \/ ReadForRotation(p) \/ Rotate(p) \/ Respond(p)
    PROVE  OwnStep(p) /\ ProofStep
<1>0. seen[p] \in Copies /\ seen \in [Workers -> Copies]
  BY DEF TypeOK, Copies
<1>1. CASE StartCheckout(p)
  <2>1. PICK o \in Orders, proof \in Proofs \ tried :
            /\ Begin(p, [op |-> IF order[o] = "absent" THEN "reserve" ELSE "rotate",
                         order |-> o, proof |-> proof],
                     IF order[o] = "absent" THEN "write" ELSE "access")
            /\ tried' = tried \cup {proof}
    BY <1>1 DEF StartCheckout
  <2> DEFINE r == [op |-> IF order[o] = "absent" THEN "reserve" ELSE "rotate",
                   order |-> o, proof |-> proof]
  <2>2. r \in CheckoutRequests
    BY DEF CheckoutRequests
  <2>3. /\ pc'[p] = IF order[o] = "absent" THEN "write" ELSE "access"
        /\ req'[p] = r /\ at'[p] = now /\ seen'[p] = seen[p]
        /\ Others(p) /\ Local' /\ at' \in [Workers -> Nat] /\ seen' = seen
    BY <2>1, BeginIs
  <2>4. Stage(p)'
    BY <2>2, <2>3 DEF Stage
  <2>5. ProofStep
    BY <1>1, <2>1 DEF StartCheckout, ProofStep, TypeOK, GivenWereStored
  <2> QED
    BY <1>0, <2>3, <2>4, <2>5 DEF OwnStep, Unspent
<1>2. CASE Reserve(p) \/ Rotate(p)
  <2>1. <<req[p].order, req[p].proof>> \in Orders \X Proofs
    BY <1>2, ReserveIs, RotateIs
  <2>2. req[p] \in CheckoutRequests
    BY <1>2 DEF Reserve, Rotate, Staged, Stage, EventReady, EventRead, ReviewReady,
                EventRequests, RedeemRequests, ReviewRequests
  <2>3. /\ pc'[p] = "respond" /\ req'[p] = req[p] /\ at'[p] = at[p] /\ seen'[p] = seen[p]
        /\ Others(p) /\ Local' /\ UNCHANGED <<tried, given, now>>
        /\ at' \in [Workers -> Nat] /\ seen' = seen
    BY <1>2, RespondIs DEF Reserve, Rotate
  <2>4. stored' = stored \cup {<<req[p].order, req[p].proof>>}
    BY <1>2 DEF Reserve, Rotate, StoreProof
  <2>5. Stage(p)'
    BY <2>2, <2>3, <2>4 DEF Stage
  <2>6. ProofStep
    BY <2>1, <2>3, <2>4 DEF ProofStep, TypeOK, GivenWereStored
  <2> QED
    BY <1>0, <2>3, <2>5, <2>6 DEF OwnStep, Unspent
<1>3. CASE ReadForRotation(p)
  <2> DEFINE a == access[req[p].order]
             copy == [seen[p] EXCEPT !.access = a]
  <2>1. req[p] \in CheckoutRequests /\ req[p].op = "rotate"
    BY <1>3 DEF ReadForRotation, Staged, Stage, EventRead, EventRequests, RedeemRequests
  <2>2. a \in AccessRecord /\ a.state = "pending_payment" /\ a.attempts = 0
    BY <1>3, <2>1 DEF ReadForRotation, CheckoutRequests, TypeOK, Unspent
  <2>3. copy \in Copies /\ copy.access = a
    BY <1>0, <2>2, CopyTyped DEF Copies
  <2>4. /\ pc'[p] = "write" /\ req'[p] = req[p] /\ seen'[p] = copy
        /\ Others(p) /\ Local' /\ UNCHANGED proofs
        /\ at' \in [Workers -> Nat] /\ seen' = [seen EXCEPT ![p] = copy]
    BY <1>3, RememberIs DEF ReadForRotation
  <2>5. Stage(p)'
    BY <2>1, <2>2, <2>3, <2>4 DEF Stage
  <2> QED
    BY <2>2, <2>3, <2>4, <2>5 DEF OwnStep, ProofStep, proofs, TypeOK, GivenWereStored
<1>4. CASE Respond(p)
  <2>1. req[p] \in CheckoutRequests /\ <<req[p].order, req[p].proof>> \in stored
    BY <1>4 DEF Respond, Staged, Stage
  <2>2. /\ pc'[p] = "idle" /\ seen'[p] = Nothing /\ Others(p) /\ Local'
        /\ at' \in [Workers -> Nat] /\ seen' = [seen EXCEPT ![p] = Nothing]
    BY <1>4, ResetIs DEF Respond
  <2>3. ProofStep
    BY <1>4, <2>1 DEF Respond, ProofStep, TypeOK, GivenWereStored
  <2> QED
    BY <2>2, <2>3, NothingTyped DEF OwnStep, Stage
<1> QED
  BY <1>1, <1>2, <1>3, <1>4

\* The end of an invocation.
LEMMA ResetSteps ==
    ASSUME TypeOK, Local, GivenWereStored, NEW p \in Workers, Reset(p), UNCHANGED proofs
    PROVE  OwnStep(p) /\ ProofStep
<1>1. /\ pc'[p] = "idle" /\ seen'[p] = Nothing /\ Others(p) /\ Local'
      /\ at' \in [Workers -> Nat] /\ seen' = [seen EXCEPT ![p] = Nothing]
  BY ResetIs
<1> QED
  BY <1>1, NothingTyped DEF OwnStep, Stage, ProofStep, proofs, TypeOK, GivenWereStored

\* The start of one.
LEMMA BeginSteps ==
    ASSUME TypeOK, Local, Unspent, GivenWereStored, NEW p \in Workers, NEW r, NEW step,
           Begin(p, r, step), UNCHANGED proofs, Stage(p)'
    PROVE  OwnStep(p) /\ ProofStep
<1>1. seen[p] \in Copies /\ seen \in [Workers -> Copies]
  BY DEF TypeOK, Copies
<1>2. /\ seen'[p] = seen[p] /\ Others(p) /\ Local'
      /\ at' \in [Workers -> Nat] /\ seen' = seen
  BY BeginIs
<1> QED
  BY <1>1, <1>2 DEF OwnStep, ProofStep, proofs, TypeOK, GivenWereStored, Unspent

\* A read.
LEMMA RememberSteps ==
    ASSUME TypeOK, Local, GivenWereStored, NEW p \in Workers, NEW step, NEW copy \in Copies,
           Remember(p, step, copy), Stage(p)',
           copy.access.state = "pending_payment" => copy.access.attempts = 0
    PROVE  OwnStep(p) /\ ProofStep
<1>1. /\ seen'[p] = copy /\ Others(p) /\ Local' /\ UNCHANGED proofs
      /\ at' \in [Workers -> Nat] /\ seen' = [seen EXCEPT ![p] = copy]
  BY RememberIs
<1> QED
  BY <1>1 DEF OwnStep, ProofStep, proofs, TypeOK, GivenWereStored

\* The steps of a payment event, a refund or a release.
LEMMA EventSteps ==
    ASSUME TypeOK, Local, Unspent, Staged, GivenWereStored, NEW p \in Workers,
           StartEvent(p) \/ ReadOrder(p) \/ ReadForEvent(p) \/ Settle(p) \/ Repeat(p)
    PROVE  OwnStep(p) /\ ProofStep
<1>0. seen[p] \in Copies
  BY DEF TypeOK, Copies
<1>1. CASE StartEvent(p)
  <2>1. PICK o \in Orders, event \in Events :
            Begin(p, [op |-> "event", order |-> o, event |-> event], "order")
    BY <1>1 DEF StartEvent
  <2> DEFINE r == [op |-> "event", order |-> o, event |-> event]
  <2>2. r \in EventRequests
    BY DEF EventRequests
  <2>3. pc'[p] = "order" /\ req'[p] = r /\ seen'[p] = seen[p]
    BY <2>1, BeginIs
  <2>4. seen[p].access.state = "absent"
    BY <2>1 DEF Begin, Staged, Stage
  <2>5. Stage(p)'
    BY <2>2, <2>3, <2>4 DEF Stage
  <2> QED
    BY <1>1, <2>1, <2>5, BeginSteps DEF StartEvent
<1>2. CASE ReadOrder(p)
  <2> DEFINE status == order[req[p].order]
             event == req[p].event
             step == IF event = "not_created" \/ (event = "refund" /\ status = "paid")
                     THEN "write" ELSE "access"
             copy == [seen[p] EXCEPT !.order = status]
  <2>1. req[p] \in EventRequests /\ seen[p].access.state = "absent"
    BY <1>2 DEF ReadOrder, Staged, Stage
  <2>2. status \in OrderStatuses /\ copy \in Copies
    BY <1>0, <2>1, CopyTyped DEF EventRequests, TypeOK
  <2>3. copy.order = status /\ copy.access = seen[p].access
    BY <1>0 DEF Copies
  <2>4. Remember(p, step, copy) /\ (Settles(event, status) \/ Repeats(event, status))
    BY <1>2 DEF ReadOrder
  <2> HIDE DEF copy, step
  <2>5. /\ pc'[p] = step /\ req'[p] = req[p] /\ seen'[p] = copy
        /\ UNCHANGED items
    BY <2>4, RememberIs
  <2>6. EventRead(p)'
    BY <2>1, <2>3, <2>4, <2>5 DEF EventRead, items
  <2>7. Answered(event, copy.access)
    BY <2>1, <2>3 DEF Answered
  <2>8. Stage(p)'
    BY <2>1, <2>3, <2>5, <2>6, <2>7 DEF Stage, EventReady, ReadsNoAccess, step
  <2> QED
    BY <2>1, <2>2, <2>3, <2>4, <2>8, RememberSteps
<1>3. CASE ReadForEvent(p)
  <2> DEFINE a == access[req[p].order]
             copy == [seen[p] EXCEPT !.access = a]
  <2>1. EventRead(p) /\ ~ReadsNoAccess(p)
    BY <1>3 DEF ReadForEvent, Staged, Stage, CheckoutRequests, RedeemRequests
  <2>2. req[p].order \in Orders
    BY <2>1 DEF EventRead, EventRequests
  <2>3. /\ a \in AccessRecord /\ copy \in Copies
        /\ a.state = "pending_payment" => a.attempts = 0
    BY <1>0, <2>2, CopyTyped DEF TypeOK, Unspent
  <2>4. copy.access = a /\ copy.order = seen[p].order
    BY <1>0 DEF Copies
  <2>5. /\ Remember(p, "write", copy)
        /\ Answered(req[p].event, a) \/ MayOpen(a)
    BY <1>3 DEF ReadForEvent
  <2> HIDE DEF copy
  <2>6. pc'[p] = "write" /\ req'[p] = req[p] /\ seen'[p] = copy /\ UNCHANGED items
    BY <2>5, RememberIs
  <2>7. EventRead(p)'
    BY <2>1, <2>4, <2>6 DEF EventRead, items
  <2>8. Stage(p)'
    BY <2>1, <2>4, <2>5, <2>6, <2>7 DEF Stage, EventReady, ReadsNoAccess
  <2> QED
    BY <2>3, <2>4, <2>5, <2>8, RememberSteps
<1>4. CASE Settle(p) \/ Repeat(p)
  BY <1>4, ResetSteps DEF Settle, Repeat, proofs
<1> QED
  BY <1>1, <1>2, <1>3, <1>4

\* The steps of a submission.
LEMMA RedeemSteps ==
    ASSUME TypeOK, Local, Unspent, Staged, GivenWereStored, NEW p \in Workers,
           \/ StartRedeem(p) \/ ReadForRedeem(p) \/ ReadReceipt(p)
           \/ RecordFailedAttempt(p) \/ Redeem(p)
    PROVE  OwnStep(p) /\ ProofStep
<1>0. seen[p] \in Copies
  BY DEF TypeOK, Copies
<1>1. CASE StartRedeem(p)
  <2>1. PICK g \in given, o \in Orders, k \in Keys, d \in Details \cup {Invalid} :
            Begin(p, [op |-> "redeem", order |-> o, proof |-> g[2], key |-> k,
                      details |-> d], "access")
    BY <1>1 DEF StartRedeem
  <2> DEFINE r == [op |-> "redeem", order |-> o, proof |-> g[2], key |-> k, details |-> d]
  <2>2. r \in RedeemRequests
    BY DEF RedeemRequests, TypeOK
  <2>3. pc'[p] = "access" /\ req'[p] = r
    BY <2>1, BeginIs
  <2>4. Stage(p)'
    BY <2>2, <2>3 DEF Stage
  <2> QED
    BY <1>1, <2>1, <2>4, BeginSteps DEF StartRedeem
<1>2. CASE ReadForRedeem(p)
  <2> DEFINE r == req[p]
             a == access[r.order]
             step == IF r.details = Invalid THEN "write" ELSE "receipt"
             copy == [seen[p] EXCEPT !.access = a]
  <2>1. r \in RedeemRequests
    BY <1>2 DEF ReadForRedeem, Staged, Stage, EventRead, CheckoutRequests, EventRequests
  <2>2. /\ a \in AccessRecord /\ copy \in Copies
        /\ a.state = "pending_payment" => a.attempts = 0
    BY <1>0, <2>1, CopyTyped DEF RedeemRequests, TypeOK, Unspent
  <2>3. copy.access = a
    BY <1>0 DEF Copies
  <2>4. /\ Remember(p, step, copy)
        /\ r.details = Invalid => Eligible(a, r.proof, at[p])
    BY <1>2 DEF ReadForRedeem
  <2> HIDE DEF copy
  <2>5. pc'[p] = step /\ req'[p] = r /\ at'[p] = at[p] /\ seen'[p] = copy
    BY <2>4, RememberIs
  <2>6. Stage(p)'
    BY <2>1, <2>3, <2>4, <2>5 DEF Stage, Eligible
  <2> QED
    BY <2>2, <2>3, <2>4, <2>6, RememberSteps
<1>3. CASE ReadReceipt(p)
  <2>1. req[p] \in RedeemRequests
    BY <1>3 DEF ReadReceipt, Staged, Stage
  <2>2. Remember(p, "write", seen[p]) /\ Eligible(seen[p].access, req[p].proof, at[p])
    BY <1>3 DEF ReadReceipt
  <2>3. pc'[p] = "write" /\ req'[p] = req[p] /\ at'[p] = at[p] /\ seen'[p] = seen[p]
    BY <2>2, RememberIs
  <2>4. Stage(p)'
    BY <2>1, <2>2, <2>3 DEF Stage, Eligible
  <2> QED
    BY <1>0, <2>2, <2>4, RememberSteps DEF Unspent
<1>4. CASE RecordFailedAttempt(p) \/ Redeem(p)
  BY <1>4, ResetSteps DEF RecordFailedAttempt, Redeem, proofs
<1> QED
  BY <1>1, <1>2, <1>3, <1>4

\* The steps of an operator, and the end of any invocation.
LEMMA ReviewSteps ==
    ASSUME TypeOK, Local, Unspent, Staged, GivenWereStored, NEW p \in Workers,
           StartReview(p) \/ ReadRequest(p) \/ Review(p) \/ Abandon(p)
    PROVE  OwnStep(p) /\ ProofStep
<1>0. seen[p] \in Copies
  BY DEF TypeOK, Copies
<1>1. CASE StartReview(p)
  <2>1. PICK id \in Requests, action \in Actions, expected \in 1..MaxRevision, d \in Details :
            Begin(p, [op |-> "review", id |-> id, action |-> action, expected |-> expected,
                      details |-> d], "request")
    BY <1>1 DEF StartReview
  <2> DEFINE r == [op |-> "review", id |-> id, action |-> action, expected |-> expected,
                   details |-> d]
  <2>2. r \in ReviewRequests
    BY DEF ReviewRequests
  <2>3. pc'[p] = "request" /\ req'[p] = r
    BY <2>1, BeginIs
  <2>4. Stage(p)'
    BY <2>2, <2>3 DEF Stage
  <2> QED
    BY <1>1, <2>1, <2>4, BeginSteps DEF StartReview
<1>2. CASE ReadRequest(p)
  <2> DEFINE q == request[req[p].id]
             copy == [seen[p] EXCEPT !.request = q]
  <2>1. req[p] \in ReviewRequests
    BY <1>2 DEF ReadRequest, Staged, Stage
  <2>2. q \in RequestRecord /\ q.revision \in Nat /\ copy \in Copies
    BY <1>0, <2>1, CopyTyped DEF ReviewRequests, TypeOK, RequestRecord
  <2>3. copy.request = q /\ copy.access = seen[p].access
    BY <1>0 DEF Copies
  <2>4. Remember(p, "write", copy) /\ q.status \in SubmissionTransitions(req[p].action)
    BY <1>2 DEF ReadRequest
  <2> HIDE DEF copy
  <2>5. /\ pc'[p] = "write" /\ req'[p] = req[p] /\ seen'[p] = copy /\ UNCHANGED items
    BY <2>4, RememberIs
  <2>6. ReviewReady(p)'
    BY <2>1, <2>2, <2>3, <2>4, <2>5 DEF ReviewReady, items
  <2>7. Stage(p)'
    BY <2>5, <2>6 DEF Stage
  <2> QED
    BY <2>2, <2>3, <2>4, <2>7, RememberSteps DEF Unspent
<1>3. CASE Review(p) \/ Abandon(p)
  BY <1>3, ResetSteps DEF Review, Abandon, proofs
<1> QED
  BY <1>1, <1>2, <1>3

-----------------------------------------------------------------------------
(***************************************************************************)
(* The invariant.                                                          *)
(***************************************************************************)
LEMMA InitIInv == Init => IInv
<1> SUFFICES ASSUME Init PROVE IInv
  OBVIOUS
<1>1. TypeOK /\ Local
  BY NothingTyped DEF Init, TypeOK, Local, OrderStatuses, Copies
<1>2. Unspent /\ Staged
  BY NothingTyped DEF Init, Unspent, Staged, Stage, NoAccess
<1>3. Claims /\ OnlyPaidOrders
  BY DEF Init, Claims, OnlyPaidOrders, Submitted, NoAccess, NoRequest, Requests
<1> QED
  BY <1>1, <1>2, <1>3 DEF IInv, GivenWereStored, Init

\* Every step keeps the invariant.
LEMMA NextIInv == IInv /\ [Next]_vars => IInv'
<1> SUFFICES ASSUME TypeOK, Local, Unspent, Staged, Claims, OnlyPaidOrders, GivenWereStored,
                    [Next]_vars
             PROVE  IInv'
  BY DEF IInv
<1>1. Claims' /\ OnlyPaidOrders'
  BY ClaimsKept
<1>2. \A o \in Orders : access'[o].state = "pending_payment" => access'[o].attempts = 0
  BY PendingUntried
<1>3. CASE \E p \in Workers : Step(p)
  <2>1. PICK p \in Workers : Step(p)
    BY <1>3
  <2>2. OwnStep(p) /\ ProofStep
    BY <2>1, CheckoutSteps, EventSteps, RedeemSteps, ReviewSteps DEF Step
  <2>3. now' \in Nat
    BY <2>1 DEF TypeOK, Step, StartCheckout, Reserve, ReadForRotation, Rotate, Respond,
                StartEvent, ReadOrder, ReadForEvent, Settle, Repeat, StartRedeem,
                ReadForRedeem, ReadReceipt, RecordFailedAttempt, Redeem, StartReview,
                ReadRequest, Review, Abandon, Begin, Remember, Reset, ToRespond
  <2>4. seen' \in [Workers -> Copies]
    BY <2>2 DEF OwnStep, TypeOK, Copies
  <2>5. TypeOK'
    BY <2>2, <2>3, <2>4, ItemsTyped DEF TypeOK, OwnStep, ProofStep, Copies
  <2>6. Staged'
    <3>1. ASSUME NEW q \in Workers \ {p} PROVE Stage(q)'
      BY <2>2, StageStays DEF OwnStep, ProofStep, Others
    <3> QED
      BY <2>2, <3>1 DEF Staged, OwnStep
  <2>7. Unspent'
    BY <1>2, <2>2 DEF Unspent, OwnStep, Others
  <2>8. GivenWereStored' /\ Local'
    BY <2>2 DEF OwnStep, ProofStep, GivenWereStored
  <2> QED
    BY <1>1, <2>5, <2>6, <2>7, <2>8 DEF IInv
<1>4. CASE ExpireAccess \/ Tick \/ UNCHANGED vars
  <2>1. UNCHANGED <<proofs, local>> /\ now' \in Nat
    BY <1>4 DEF ExpireAccess, Tick, vars, TypeOK
  <2>2. TypeOK'
    BY <2>1, ItemsTyped DEF TypeOK, proofs, local
  <2>3. Staged'
    BY <2>1, StageStays DEF Staged, proofs, local
  <2> QED
    BY <1>1, <1>2, <2>1, <2>2, <2>3 DEF IInv, Unspent, GivenWereStored, Local, proofs, local
<1> QED
  BY <1>3, <1>4 DEF Next

\* Claims, requests, proofs and workers are as IInv says in every state that the Checkouts, events,
\* submissions, operators and the TTL of fiscal_storage.py and storage.py can reach.
THEOREM Invariance == Spec => []IInv
BY InitIInv, NextIInv, PTL DEF Spec

\* The items keep their types, and no claim is ever tried more than MAX_CLAIM_ATTEMPTS
\* times: redeem_claim and _record_failed_attempt compare the attempts they read,
\* and the puts that do not compare them replace an item that has none.
THEOREM TypeCorrect == Spec => []TypeOK
BY Invariance, PTL DEF IInv

\* An order has at most one request, a claim is open only while there is none, and used
\* only when there is one: redeem_claim consumes the claim in the transaction that
\* creates the request, and no event opens it a second time.
THEOREM OneSubmission == Spec => []SingleUse
<1>1. ASSUME TypeOK, Claims PROVE SingleUse
  <2> SUFFICES ASSUME NEW o \in Orders
               PROVE  LET submitted == {k \in Keys : request[<<o, k>>].status # "absent"}
                      IN  /\ Cardinality(submitted) <= 1
                          /\ access[o].state = "eligible" => submitted = {}
                          /\ access[o].state = "consumed" => submitted # {}
    BY DEF SingleUse
  <2> DEFINE submitted == {k \in Keys : request[<<o, k>>].status # "absent"}
  <2>1. submitted = {} \/ \E k \in Keys : submitted = {k}
    BY <1>1 DEF Claims, Submitted
  <2>2. Cardinality(submitted) <= 1
    <3> HIDE DEF submitted
    <3>1. submitted = {} => Cardinality(submitted) = 0
      BY FS_EmptySet
    <3>2. \A k \in Keys : submitted = {k} => Cardinality(submitted) = 1
      BY FS_Singleton
    <3> QED
      BY <2>1, <3>1, <3>2
  <2> QED
    BY <1>1, <2>2 DEF Claims, Submitted
<1> QED
  BY <1>1, Invariance, PTL DEF IInv

\* A claim that can be used, one that was, and a request belong to an order that was paid
\* (_finish_reservation, redeem_claim).
THEOREM PaidFirst == Spec => []OnlyPaidOrders
BY Invariance, PTL DEF IInv

\* A Checkout hands out a proof only when the store holds or has held its hash: the
\* rotation of a retry either is made or fails the try
\* (_rotate_fiscal_access_on_checkout_replay).
THEOREM GivenAreStored == Spec => []GivenWereStored
BY Invariance, PTL DEF IInv

\* The state of an access item moves one way, each put of it takes the next revision and
\* forgets no attempt, and once a payment has opened the claim its proof and its window
\* stay, through every retry of the Checkout and every repeated event.
THEOREM ClaimNeverGoesBack == Spec => ClaimMovesForward
<1>1. ASSUME IInv, [Next]_vars
      PROVE  \A o \in Orders : LET a == access[o]
                                   b == access'[o]
             IN  (a.state # "absent" /\ b.state # "absent" /\ b # a) =>
                  /\ <<a.state, b.state>> \in
                        {<<"pending_payment", "pending_payment">>,
                         <<"pending_payment", "eligible">>,
                         <<"pending_payment", "ineligible">>, <<"eligible", "eligible">>,
                         <<"eligible", "consumed">>}
                  /\ b.revision = a.revision + 1
                  /\ b.attempts >= a.attempts
                  /\ a.state = "eligible" => b.proof = a.proof /\ b.expiresAt = a.expiresAt
  <2> SUFFICES ASSUME NEW o \in Orders, access[o].state # "absent",
                      access'[o].state # "absent", access'[o] # access[o]
               PROVE  /\ <<access[o].state, access'[o].state>> \in
                            {<<"pending_payment", "pending_payment">>,
                             <<"pending_payment", "eligible">>,
                             <<"pending_payment", "ineligible">>, <<"eligible", "eligible">>,
                             <<"eligible", "consumed">>}
                      /\ access'[o].revision = access[o].revision + 1
                      /\ access'[o].attempts >= access[o].attempts
                      /\ access[o].state = "eligible" =>
                            /\ access'[o].proof = access[o].proof
                            /\ access'[o].expiresAt = access[o].expiresAt
    OBVIOUS
  <2>1. AccessStep(o) /\ access[o].attempts \in Nat
    BY <1>1, ItemSteps DEF IInv, TypeOK, AccessRecord
  <2>2. ~Created(o)
    BY <1>1 DEF IInv, Claims, Created
  <2>3. Rotated(o) \/ Opens(o) \/ Tried(o) \/ Used(o)
    BY <2>1, <2>2 DEF AccessStep, Expires, NoAccess
  <2> QED
    BY <2>1, <2>3 DEF Rotated, Opens, Tried, Used
<1> QED
  BY <1>1, Invariance, PTL DEF Spec, ClaimMovesForward

\* The details of a request stay as they were when an operator marked it ready, a request
\* that is delivered or canceled stays as it is, and one is delivered only from ready:
\* transition_request and correct_request compare the revision they read, which
\* every put raises.
THEOREM ReviewFreezes == Spec => ReviewedStaysReviewed
<1>1. ASSUME IInv, [Next]_vars
      PROVE  \A id \in Requests : LET q == request[id]
                                      s == request'[id]
             IN  /\ q.status \in {"ready", "delivered", "canceled"} => s.details = q.details
                 /\ q.status \in {"delivered", "canceled"} => s = q
                 /\ s.status = "delivered" /\ q.status # "delivered" => q.status = "ready"
  <2> SUFFICES ASSUME NEW id \in Requests
               PROVE  /\ request[id].status \in {"ready", "delivered", "canceled"} =>
                            request'[id].details = request[id].details
                      /\ request[id].status \in {"delivered", "canceled"} =>
                            request'[id] = request[id]
                      /\ request'[id].status = "delivered"
                            /\ request[id].status # "delivered" =>
                               request[id].status = "ready"
    OBVIOUS
  <2>1. RequestStep
    BY <1>1, ItemSteps DEF IInv
  <2>2. CASE request'[id] = request[id]
    BY <2>2
  <2>3. ASSUME NEW o \in Orders, NEW k \in Keys, NEW d \in Details, ~Submitted(o, k),
               request' = [request EXCEPT ![<<o, k>>] =
                   [status |-> "requested", revision |-> 1, details |-> d]],
               request'[id] # request[id]
        PROVE  request[id].status = "absent" /\ request'[id].status = "requested"
    BY <1>1, <2>3 DEF IInv, TypeOK, Submitted, Requests
  <2>4. CASE Reviewed(id)
    BY <2>4, Transitions DEF Reviewed
  <2> QED
    BY <2>1, <2>2, <2>3, <2>4 DEF RequestStep
<1> QED
  BY <1>1, Invariance, PTL DEF Spec, ReviewedStaysReviewed
=============================================================================
