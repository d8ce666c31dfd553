------------------------------- MODULE Outbox -------------------------------
(***************************************************************************)
(* The relay of notifications: OUTBOX items are written by the payment     *)
(* transactions, the table's stream hands them in batches to the relay     *)
(* (src/handlers/outbox_relay.py, src/outbox.py), and the relay publishes  *)
(* each and marks it delivered (mark_outbox_delivered in src/storage.py).  *)
(*                                                                         *)
(* The stream's event source, as template.yaml configures it, retries a    *)
(* batch from its lowest failed record, halves it when the invocation      *)
(* itself fails, and hands it to the failure queue after MaxRetries        *)
(* retries. One shard is modelled, the one of a scope's partition. The     *)
(* stream's filter lets only pending images pass, so its log is the items  *)
(* in the order of their transactions.                                     *)
(***************************************************************************)
EXTENDS Naturals, Sequences, FiniteSetsExt

CONSTANTS
    Events,      \* outbox events
    Refused,     \* those whose message the topic refuses every time
    Workers,     \* invocations of the relay
    BatchSize,   \* BatchSize of the event source
    MaxRetries,  \* MaximumRetryAttempts of the event source
    MaxFaults,   \* bound on the passing faults
    MaxTime      \* bound on the clock

ASSUME OutboxAssumption ==
    /\ Refused \subseteq Events
    /\ "none" \notin Workers
    /\ BatchSize \in Nat \ {0}
    /\ MaxRetries \in Nat
    /\ MaxFaults \in Nat
    /\ MaxTime \in Nat

VARIABLES
    item,       \* OUTBOX items
    topic,      \* events with a message on the topic
    log,        \* the stream
    batch,      \* positions of the log that the event source has to have handled
    attempts,   \* invocations made for the batch
    serving,    \* the invocation the event source waits for
    dead,       \* events handed to the failure queue
    faults,     \* passing faults so far
    now,
    pc, at, pos, end, failures, seen  \* of each worker

source == <<log, batch, attempts, serving, dead>>
local == <<pc, at, pos, end, failures, seen>>
vars == <<item, topic, source, faults, now, local>>

Absent == [status |-> "absent", revision |-> 0, deliveredAt |-> 0]
Pending == [status |-> "pending", revision |-> 1, deliveredAt |-> 0]

\* Mutant: the revision is not counted.
DeliveredInPlace(old, t) == [old EXCEPT !.status = "delivered", !.deliveredAt = t]

Delivered(old, t) ==
    [status |-> "delivered", revision |-> old.revision + 1, deliveredAt |-> t]

\* A payment transaction writes a new item.
Commit ==
    /\ \E e \in Events :
        /\ item[e] = Absent
        /\ item' = [item EXCEPT ![e] = Pending]
        /\ log' = Append(log, e)
    /\ UNCHANGED <<topic, batch, attempts, serving, dead, faults, now, local>>

(***************************************************************************)
(* The event source.                                                       *)
(***************************************************************************)
Handled == batch.first > batch.last

Poll ==
    /\ Handled
    /\ \E n \in 1..BatchSize :
        /\ batch.last + n <= Len(log)
        /\ batch' = [first |-> batch.last + 1, last |-> batch.last + n]
    /\ attempts' = 0
    /\ UNCHANGED <<item, topic, log, serving, dead, faults, now, local>>

Invoke(p) ==
    /\ ~Handled /\ serving = "none" /\ attempts <= MaxRetries
    /\ pc[p] = "idle"
    /\ serving' = p
    /\ attempts' = attempts + 1
    /\ pc' = [pc EXCEPT ![p] = "read"]
    /\ at' = [at EXCEPT ![p] = now]
    /\ pos' = [pos EXCEPT ![p] = batch.first]
    /\ end' = [end EXCEPT ![p] = batch.last]
    /\ failures' = [failures EXCEPT ![p] = {}]
    /\ UNCHANGED <<item, topic, log, batch, dead, faults, now, seen>>

Discard ==
    /\ ~Handled /\ serving = "none" /\ attempts > MaxRetries
    /\ dead' = dead \cup {log[i] : i \in batch.first..batch.last}
    /\ batch' = [batch EXCEPT !.first = batch.last + 1]
    /\ UNCHANGED <<item, topic, log, attempts, serving, faults, now, local>>

Stop(p) ==
    /\ pc' = [pc EXCEPT ![p] = "idle"]
    /\ at' = [at EXCEPT ![p] = 0]
    /\ pos' = [pos EXCEPT ![p] = 0] /\ end' = [end EXCEPT ![p] = 0]
    /\ failures' = [failures EXCEPT ![p] = {}]
    /\ seen' = [seen EXCEPT ![p] = Absent]

\* The invocation answers with its failures, to an event source that may have given it up.
Answer(p) ==
    /\ pc[p] = "answer"
    /\ IF serving = p
       THEN /\ serving' = "none"
            /\ batch' = [batch EXCEPT !.first =
                  IF failures[p] = {} THEN batch.last + 1 ELSE Min(failures[p])]
       ELSE UNCHANGED <<serving, batch>>
    /\ Stop(p)
    /\ UNCHANGED <<item, topic, log, attempts, dead, faults, now>>

\* The invocation dies, or the event source gives it up while its calls still land.
Fail(p) ==
    /\ faults < MaxFaults /\ serving = p
    /\ faults' = faults + 1
    /\ serving' = "none"
    /\ batch' = [batch EXCEPT !.last = (batch.first + batch.last) \div 2]
    /\ Stop(p) \/ UNCHANGED local
    /\ UNCHANGED <<item, topic, log, attempts, dead, now>>

(***************************************************************************)
(* The relay. Its check that the image is the item's current state cannot  *)
(* fail here: an item changes only by being delivered.                     *)
(***************************************************************************)
Event(p) == log[pos[p]]

Advance(p) ==
    IF pos[p] = end[p]
    THEN pc' = [pc EXCEPT ![p] = "answer"] /\ UNCHANGED pos
    ELSE pc' = [pc EXCEPT ![p] = "read"] /\ pos' = [pos EXCEPT ![p] = @ + 1]

Read(p) ==
    /\ pc[p] = "read"
    /\ IF item[Event(p)].status = "delivered" THEN Advance(p)
       ELSE pc' = [pc EXCEPT ![p] = "publish"] /\ UNCHANGED pos
    /\ UNCHANGED <<item, topic, source, faults, now, at, end, failures, seen>>

\* Mutant: the relay goes on when the topic refuses.
PublishAnyway(p) ==
    /\ pc[p] = "publish"
    /\ topic' = topic \cup ({Event(p)} \ Refused)
    /\ pc' = [pc EXCEPT ![p] = "reread"]
    /\ UNCHANGED <<item, source, faults, now, at, pos, end, failures, seen>>

Publish(p) ==
    /\ pc[p] = "publish"
    /\ Event(p) \notin Refused
    /\ topic' = topic \cup {Event(p)}
    /\ pc' = [pc EXCEPT ![p] = "reread"]
    /\ UNCHANGED <<item, source, faults, now, at, pos, end, failures, seen>>

Reread(p) ==
    /\ pc[p] = "reread"
    /\ IF item[Event(p)].status = "delivered" THEN Advance(p) /\ UNCHANGED seen
       ELSE /\ pc' = [pc EXCEPT ![p] = "mark"]
            /\ seen' = [seen EXCEPT ![p] = item[Event(p)]]
            /\ UNCHANGED pos
    /\ UNCHANGED <<item, topic, source, faults, now, at, end, failures>>

\* Mutant: the put is not conditional.
MarkAnyway(p) ==
    /\ pc[p] = "mark"
    /\ item' = [item EXCEPT ![Event(p)] = Delivered(seen[p], at[p])]
    /\ Advance(p)
    /\ UNCHANGED <<topic, source, faults, now, at, end, failures, seen>>

\* A put that comes second is refused, and finds the item delivered.
Mark(p) ==
    /\ pc[p] = "mark"
    /\ IF item[Event(p)].status = "pending" /\ item[Event(p)].revision = seen[p].revision
       THEN item' = [item EXCEPT ![Event(p)] = Delivered(seen[p], at[p])]
       ELSE UNCHANGED item
    /\ Advance(p)
    /\ UNCHANGED <<topic, source, faults, now, at, end, failures, seen>>

\* Mutant: the failure is not reported.
RecordSilently(p) == Advance(p) /\ UNCHANGED failures

\* Mutant: the first failure ends the batch.
RecordAndStop(p) ==
    /\ failures' = [failures EXCEPT ![p] = @ \cup {pos[p]}]
    /\ pc' = [pc EXCEPT ![p] = "answer"]
    /\ UNCHANGED pos

\* A record that failed is reported, and the relay goes on to the next.
RecordFailure(p) ==
    /\ failures' = [failures EXCEPT ![p] = @ \cup {pos[p]}]
    /\ Advance(p)

Refuse(p) ==
    /\ pc[p] = "publish" /\ Event(p) \in Refused
    /\ RecordFailure(p)
    /\ UNCHANGED <<item, topic, source, faults, now, at, end, seen>>

\* A call fails, before or after it has taken effect.
Fault(p) ==
    /\ pc[p] \in {"read", "publish", "reread", "mark"}
    /\ faults < MaxFaults
    /\ faults' = faults + 1
    /\ RecordFailure(p)
    /\ UNCHANGED <<item, topic, source, now, at, end, seen>>

Tick ==
    /\ now < MaxTime
    /\ now' = now + 1
    /\ UNCHANGED <<item, topic, source, faults, local>>

Init ==
    /\ item = [e \in Events |-> Absent]
    /\ topic = {} /\ dead = {}
    /\ log = <<>>
    /\ batch = [first |-> 1, last |-> 0]
    /\ attempts = 0 /\ faults = 0 /\ now = 0
    /\ serving = "none"
    /\ pc = [p \in Workers |-> "idle"]
    /\ at = [p \in Workers |-> 0]
    /\ pos = [p \in Workers |-> 0] /\ end = [p \in Workers |-> 0]
    /\ failures = [p \in Workers |-> {}]
    /\ seen = [p \in Workers |-> Absent]

Work(p) == Read(p) \/ Publish(p) \/ Reread(p) \/ Mark(p) \/ Refuse(p) \/ Answer(p)

Serve == Poll \/ Discard \/ \E p \in Workers : Invoke(p)

Next == Commit \/ Serve \/ Tick \/ \E p \in Workers : Work(p) \/ Fail(p) \/ Fault(p)

\* An invocation runs on, and the event source goes on polling and retrying.
Fairness == WF_vars(Serve) /\ \A p \in Workers : WF_vars(Work(p))

Spec == Init /\ [][Next]_vars /\ Fairness

-----------------------------------------------------------------------------
(***************************************************************************)
(* Properties.                                                             *)
(***************************************************************************)
\* The types; an item's revision tells whether it is delivered.
TypeOK ==
    /\ \A e \in Events :
        \/ item[e] \in {Absent, Pending}
        \/ \E t \in 0..now : item[e] = [status |-> "delivered", revision |-> 2, deliveredAt |-> t]
    /\ topic \subseteq Events /\ dead \subseteq Events
    /\ log \in Seq(Events)
    /\ attempts \in 0..(MaxRetries + 1)
    /\ serving \in Workers \cup {"none"}

\* An item is marked delivered only when its message is on the topic, whatever the
\* topic refuses and wherever an invocation stops.
DeliveredWasPublished == \A e \in Events : item[e].status = "delivered" => e \in topic

\* An item that waits for its delivery is still before the event source, or in the
\* failure queue: no partial failure, split batch or lost answer makes it vanish.
NothingForgotten ==
    \A e \in Events : item[e].status = "pending" =>
        e \in dead \/ \E i \in batch.first..Len(log) : log[i] = e

\* The first delivery counts: an invocation that comes second, with a copy it read
\* before, neither changes deliveredAt nor puts off the item's expiry.
DeliveredStays ==
    [][\A e \in Events : item[e].status = "delivered" => item'[e] = item[e]]_vars

\* A message that is always refused does not keep its neighbours in the batch from
\* being delivered: they are unless more calls fail than there are retries.
HealthyDelivered ==
    \A e \in Events \ Refused :
        (item[e].status = "pending") ~> (item[e].status = "delivered" \/ faults > MaxRetries)
=============================================================================
