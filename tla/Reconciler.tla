----------------------------- MODULE Reconciler -----------------------------
(***************************************************************************)
(* The scheduling of the reservation reconciler (src/reconciliation.py):   *)
(* which due reservations a run lists, how far its time budget takes it,   *)
(* and where a reservation goes that it cannot settle. What a run does to  *)
(* one reservation is a transaction of CommerceStore; here it succeeds or  *)
(* fails.                                                                  *)
(*                                                                         *)
(* The due index is a queue: its key begins with reconcileAfter. wait[r]   *)
(* is the time until r is due, in intervals of five minutes; a run takes   *)
(* ten seconds at most, so time passes between runs.                       *)
(***************************************************************************)
EXTENDS Naturals, Sequences, SequencesExt

CONSTANTS
    Reservations,
    Failing,   \* those of a draft whose policy or evidence makes run fail
    Limit,     \* RECONCILIATION_WORK_LIMIT
    Period     \* from the Checkout to reconcileAfter

Interval == 1  \* RECONCILER_INTERVAL_SECONDS

ASSUME ReconcilerAssumption ==
    /\ Failing \subseteq Reservations
    /\ Limit \in Nat \ {0}
    /\ Period \in Nat /\ Period > Interval

VARIABLES
    state,  \* of each reservation: "absent", "active" or "settled"
    final,  \* reservations for which the provider has terminal evidence
    queue,  \* active reservations in the order of the due index
    wait,
    page,   \* what the run has listed and not yet looked at
    running

vars == <<state, final, queue, wait, page, running>>

IsDue(r) == state[r] = "active" /\ wait[r] = 0

\* Mutant: a page is one longer than the limit.
ListsOneMore(n) ==
    /\ n <= Limit + 1
    /\ \A i \in 1..n : IsDue(queue[i])
    /\ n <= Limit /\ n < Len(queue) => ~IsDue(queue[n + 1])

\* The query of the index reads from its first entry and ends at the limit, or where
\* the due ones end.
Lists(n) ==
    /\ n <= Limit
    /\ \A i \in 1..n : IsDue(queue[i])
    /\ n < Limit /\ n < Len(queue) => ~IsDue(queue[n + 1])

Place(r) == CHOOSE i \in DOMAIN queue : queue[i] = r
Others(r) == IF state[r] = "active" THEN RemoveAt(queue, Place(r)) ELSE queue

\* The places in s of one that is due in t intervals. Among those due at the same time
\* the index goes by the rest of its key, so any place will do.
Places(s, t) ==
    {i \in 1..Len(s) + 1 :
        /\ \A j \in 1..i - 1 : wait[s[j]] <= t
        /\ \A j \in i..Len(s) : wait[s[j]] >= t}

Move(r, t) ==
    /\ \E i \in Places(Others(r), t) : queue' = InsertAt(Others(r), i, r)
    /\ wait' = [wait EXCEPT ![r] = t]

Leave(r) ==
    /\ state' = [state EXCEPT ![r] = "settled"]
    /\ queue' = Others(r)
    /\ UNCHANGED wait

Reserve(r) ==
    /\ state[r] = "absent"
    /\ state' = [state EXCEPT ![r] = "active"]
    /\ Move(r, Period)
    /\ UNCHANGED <<final, page, running>>

\* The provider comes to know how the payment ended.
Conclude(r) ==
    /\ state[r] = "active"
    /\ final' = final \cup {r}
    /\ UNCHANGED <<state, queue, wait, page, running>>

\* A payment event settles the reservation, perhaps while a run has it listed.
SettleByEvent(r) ==
    /\ r \in final /\ state[r] = "active"
    /\ Leave(r)
    /\ UNCHANGED <<final, page, running>>

StartRun ==
    /\ ~running
    /\ running' = TRUE
    /\ \E n \in 0..Len(queue) : Lists(n) /\ page' = SubSeq(queue, 1, n)
    /\ UNCHANGED <<state, final, queue, wait>>

Take(r) == running /\ page # <<>> /\ Head(page) = r /\ page' = Tail(page)

SettleByRun(r) ==
    /\ Take(r)
    /\ IsDue(r) /\ r \in final \ Failing
    /\ Leave(r)
    /\ UNCHANGED <<final, running>>

\* Mutant: only an uncertain reservation is put off, a failing one stays due.
DeferUncertain(r) ==
    /\ Take(r)
    /\ IsDue(r) /\ ~(r \in final \ Failing)
    /\ IF r \in Failing THEN UNCHANGED <<queue, wait>> ELSE Move(r, Interval)
    /\ UNCHANGED <<state, final, running>>

\* Uncertain evidence, and a failure, put the reservation off by one interval.
Defer(r) ==
    /\ Take(r)
    /\ IsDue(r) /\ ~(r \in final \ Failing)
    /\ Move(r, Interval)
    /\ UNCHANGED <<state, final, running>>

\* The reservation has been settled since it was listed.
Skip(r) ==
    /\ Take(r)
    /\ ~IsDue(r)
    /\ UNCHANGED <<state, final, queue, wait, running>>

\* The transaction fails, and so does the deferral of the failure.
Miss(r) ==
    /\ Take(r)
    /\ UNCHANGED <<state, final, queue, wait, running>>

\* The list is done, the time budget is spent, or the invocation dies.
EndRun ==
    /\ running
    /\ running' = FALSE
    /\ page' = <<>>
    /\ UNCHANGED <<state, final, queue, wait>>

Tick ==
    /\ ~running
    /\ wait' = [r \in Reservations |-> IF wait[r] > 0 THEN wait[r] - 1 ELSE 0]
    /\ UNCHANGED <<state, final, queue, page, running>>

Init ==
    /\ state = [r \in Reservations |-> "absent"]
    /\ final = {}
    /\ queue = <<>>
    /\ wait = [r \in Reservations |-> 0]
    /\ page = <<>>
    /\ running = FALSE

Handle(r) == SettleByRun(r) \/ Defer(r) \/ Skip(r)

Next ==
    \/ \E r \in Reservations :
        Reserve(r) \/ Conclude(r) \/ SettleByEvent(r) \/ Handle(r) \/ Miss(r)
    \/ StartRun \/ EndRun \/ Tick

\* The schedule starts runs and every run ends; calls that are made again and again
\* do not fail, or run out of time, for ever.
Fairness ==
    /\ WF_vars(StartRun) /\ WF_vars(EndRun) /\ SF_vars(Tick)
    /\ \A r \in Reservations : SF_vars(Handle(r))

Spec == Init /\ [][Next]_vars /\ Fairness

-----------------------------------------------------------------------------
(***************************************************************************)
(* Properties.                                                             *)
(***************************************************************************)
\* The queue holds the active reservations once, in the order in which they are due,
\* and a run never works on more than its limit.
TypeOK ==
    /\ state \in [Reservations -> {"absent", "active", "settled"}]
    /\ final \subseteq Reservations
    /\ wait \in [Reservations -> 0..Period]
    /\ ToSet(queue) = {r \in Reservations : state[r] = "active"}
    /\ IsInjective(queue)
    /\ \A i, j \in DOMAIN queue : i < j => wait[queue[i]] <= wait[queue[j]]
    /\ Len(page) <= Limit

\* One unresolved item cannot indefinitely hide later items: however many uncertain
\* and failing reservations are due, one with terminal evidence is settled, though no
\* event ever comes for it.
EvidenceSettles ==
    \A r \in Reservations \ Failing : (r \in final) ~> (state[r] = "settled")
=============================================================================
