------------------------------- MODULE Escrow -------------------------------
(***************************************************************************)
(* What the inventory transactions promise, with no workers, messages,     *)
(* revisions or receipts: a checkout takes all its units out of the        *)
(* available stock in one step, and later either sells them or gives them  *)
(* back, once. CommerceStore implements this specification.                *)
(***************************************************************************)
EXTENDS Integers

CONSTANTS
    Checkouts, Stocks, Qty,
    Deltas      \* what an operator may add to a stock in one adjustment

VARIABLES
    onHand,     \* units of each stock in the store's possession
    reserved,   \* those among them promised to a checkout
    sale        \* what became of each checkout

vars == <<onHand, reserved, sale>>

Init ==
    /\ onHand = [s \in Stocks |-> 0]
    /\ reserved = [s \in Stocks |-> 0]
    /\ sale = [k \in Checkouts |-> "none"]

Become(k, from, to) ==
    /\ sale[k] = from
    /\ sale' = [sale EXCEPT ![k] = to]

\* An operator adds or removes units, never the promised ones.
Adjust(s, delta) ==
    /\ onHand[s] + delta >= reserved[s]
    /\ onHand' = [onHand EXCEPT ![s] = @ + delta]
    /\ UNCHANGED <<reserved, sale>>

\* All the units of the cart or none of them.
Hold(k) ==
    /\ Become(k, "none", "held")
    /\ \A s \in Stocks : Qty[k][s] > 0 => reserved[s] + Qty[k][s] <= onHand[s]
    /\ reserved' = [s \in Stocks |-> reserved[s] + Qty[k][s]]
    /\ UNCHANGED onHand

TakeHeld(k) == reserved' = [s \in Stocks |-> reserved[s] - Qty[k][s]]

Sell(k, outcome) ==
    /\ Become(k, "held", outcome)
    /\ TakeHeld(k)
    /\ onHand' = [s \in Stocks |-> onHand[s] - Qty[k][s]]

GiveBack(k) ==
    /\ Become(k, "held", "returned")
    /\ TakeHeld(k)
    /\ UNCHANGED onHand

\* Money goes back, units do not.
Refund(k) ==
    /\ Become(k, "sold", "refunded")
    /\ UNCHANGED <<onHand, reserved>>

Next ==
    \/ \E s \in Stocks, delta \in Deltas : Adjust(s, delta)
    \/ \E k \in Checkouts :
        \/ Hold(k)
        \/ Sell(k, "sold")
        \/ Sell(k, "refunded")     \* the refund was confirmed before the payment
        \/ GiveBack(k)
        \/ Refund(k)

Spec == Init /\ [][Next]_vars
=============================================================================
