-------------------------- MODULE MCCommerceStore --------------------------
(***************************************************************************)
(* Small instances of CommerceStore for TLC. Cart k1 holds one unit of     *)
(* every stock and k2 two units of s1 only, so the two compete for s1 and  *)
(* k2 has a line without tracked stock wherever s2 exists.                 *)
(***************************************************************************)
EXTENDS CommerceStore, TLC

CONSTANTS k1, k2, s1, s2, p1, p2

Carts == [k \in Checkouts |-> [s \in Stocks |-> IF k = k1 THEN 1 ELSE IF s = s1 THEN 2 ELSE 0]]

Adjustment(id, s, delta, expected) ==
    [id |-> id, stock |-> s, delta |-> delta, expected |-> expected]
Event(id, type, k, refundId) ==
    [id |-> id, type |-> type, checkout |-> k, refundId |-> refundId]

InitialStock == {Adjustment(1, s1, 2, 0)}
\* Both stocks are created; one unit of s1 is then withdrawn at whichever
\* revision the operator saw, and three more are added later.
BusyStock ==
    {Adjustment(1, s1, 2, 0), Adjustment(2, s2, 1, 0), Adjustment(3, s1, -1, 1),
     Adjustment(4, s1, -1, 2), Adjustment(5, s1, 3, 3)}

\* Two payment events and a refund about the same checkout, which contradict.
ContradictingEvents ==
    {Event(1, "succeeded", k1, 0), Event(2, "terminal_unpaid", k1, 0), Event(3, "refund", k1, 1)}
\* One checkout is paid and refunded, in either order, and the other is not paid.
OneOfEach ==
    {Event(1, "succeeded", k1, 0), Event(2, "refund", k1, 1), Event(3, "terminal_unpaid", k2, 0)}
\* The same fact in two events, and two partial refunds.
RepeatedFacts ==
    {Event(1, "succeeded", k1, 0), Event(2, "succeeded", k1, 0), Event(3, "terminal_unpaid", k1, 0),
     Event(4, "refund", k1, 1), Event(5, "refund", k1, 2)}

EveryType == {NotificationTypes}
\* The policy is republished with a narrower mapping between two tries of a Checkout.
Republished == {NotificationTypes, {"payment-failed"}}

WorkerSymmetry == Permutations(Workers)
=============================================================================
