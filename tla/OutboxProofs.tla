---------------------------- MODULE OutboxProofs ----------------------------
(***************************************************************************)
(* Proofs about Outbox for every set of events and invocations, and for    *)
(* every size of the batch, number of retries and bound.                   *)
(*                                                                         *)
(* That no item is forgotten needs to be known of the invocation that the  *)
(* event source waits for: what it has gone through is delivered or among  *)
(* its failures (Served). An invocation that was given up runs on, but its *)
(* answer counts for nothing.                                              *)
(***************************************************************************)
EXTENDS Outbox, WellFoundedInduction, TLAPS

Items == [status : {"absent", "pending", "delivered"}, revision : Nat, deliveredAt : Nat]

(***************************************************************************)
(* The inductive invariant.                                                *)
(***************************************************************************)
\* The types of what TypeOK leaves out.
Local ==
    /\ item \in [Events -> Items]
    /\ now \in Nat
    /\ pc \in [Workers -> {"idle", "read", "publish", "reread", "mark", "answer"}]
    /\ at \in [Workers -> Nat] /\ \A p \in Workers : at[p] <= now
    /\ pos \in [Workers -> Nat] /\ end \in [Workers -> Nat]
    /\ failures \in [Workers -> SUBSET Nat]
    /\ seen \in [Workers -> Items]

\* The batch lies within the stream, and what the stream carries has been written.
Stream ==
    /\ batch \in [first : Nat \ {0}, last : Nat]
    /\ batch.first <= batch.last + 1 /\ batch.last <= Len(log)
    /\ \A i \in 1..Len(log) : item[log[i]].status # "absent"

\* An invocation, also one that was given up, is at a record of the stream, and when it
\* has published the record's message it has the item as it was before its delivery.
Running(p) ==
    /\ pc[p] # "idle" => pos[p] \in 1..end[p] /\ end[p] <= Len(log)
    /\ pc[p] \in {"reread", "mark"} => log[pos[p]] \in topic
    /\ pc[p] = "mark" => seen[p] = Pending

\* The record at i of the log is done with, in the invocation p.
Done(p, i) == i \in failures[p] \/ item[log[i]].status = "delivered"

\* The invocation that is waited for has the batch, and the records it has gone through
\* are delivered or among its failures.
Served ==
    \A p \in Workers : serving = p =>
        /\ pc[p] # "idle"
        /\ batch.first <= pos[p] /\ end[p] = batch.last
        /\ failures[p] \subseteq batch.first..batch.last
        /\ \A i \in batch.first..batch.last : i < pos[p] \/ pc[p] = "answer" => Done(p, i)

IInv ==
    /\ TypeOK /\ Local /\ Stream /\ Served /\ \A p \in Workers : Running(p)
    /\ DeliveredWasPublished /\ NothingForgotten

-----------------------------------------------------------------------------
(***************************************************************************)
(* What a step does to the items, the topic and the stream.                *)
(***************************************************************************)
\* An item is written when it is put on the stream, and delivered when it was published.
ItemStep(e) ==
    \/ item'[e] = item[e]
    \/ /\ item[e] = Absent /\ item'[e] = Pending
       /\ log' = Append(log, e) /\ UNCHANGED batch
    \/ /\ item[e] = Pending /\ e \in topic
       /\ \E t \in 0..now :
             item'[e] = [status |-> "delivered", revision |-> 2, deliveredAt |-> t]

Growth ==
    /\ item' = [e \in Events |-> item'[e]]
    /\ \A e \in Events : ItemStep(e)
    /\ topic \subseteq topic' /\ topic' \subseteq Events
    /\ log' \in Seq(Events) /\ Len(log') >= Len(log)
    /\ \A i \in 1..Len(log) : log'[i] = log[i]
    /\ \A i \in 1..Len(log') : i > Len(log) => item'[log'[i]].status # "absent"
    /\ now' \in Nat /\ now' >= now

\* An item is absent, pending or delivered, and its status tells which.
LEMMA ItemForms ==
    ASSUME TypeOK, NEW e \in Events
    PROVE  /\ item[e].status = "absent" <=> item[e] = Absent
           /\ item[e].status = "pending" <=> item[e] = Pending
           /\ item[e].status \in {"absent", "pending", "delivered"}
<1>1. CASE item[e] \in {Absent, Pending}
  BY <1>1 DEF Absent, Pending
<1>2. CASE \E t \in 0..now :
              item[e] = [status |-> "delivered", revision |-> 2, deliveredAt |-> t]
  BY <1>2 DEF Absent, Pending
<1> QED
  BY <1>1, <1>2 DEF TypeOK

\* The record an invocation is at is an event's.
LEMMA EventOf ==
    ASSUME TypeOK, Local, NEW p \in Workers, Running(p), pc[p] # "idle"
    PROVE  Event(p) \in Events
BY DEF TypeOK, Local, Running, Event

\* In every step the stream and the topic only grow, and items only go forward.
LEMMA GrowthIs ==
    ASSUME IInv, [Next]_vars
    PROVE  Growth
<1> USE DEF IInv
<1>0. /\ item = [e \in Events |-> item[e]] /\ now \in Nat /\ log \in Seq(Events)
      /\ topic \subseteq Events
  BY DEF Local, TypeOK
<1>1. ASSUME UNCHANGED <<item, log>>, topic \subseteq topic', topic' \subseteq Events,
             now' \in Nat, now' >= now
      PROVE  Growth
  BY <1>0, <1>1 DEF Growth, ItemStep
<1>2. CASE Commit
  <2>1. PICK e \in Events : /\ item[e] = Absent
                            /\ item' = [item EXCEPT ![e] = Pending]
                            /\ log' = Append(log, e)
    BY <1>2 DEF Commit
  <2>2. UNCHANGED <<topic, batch, now>>
    BY <1>2 DEF Commit
  <2>3. \A x \in Events : ItemStep(x)
    BY <1>0, <2>1, <2>2 DEF ItemStep
  <2>4. /\ log' \in Seq(Events) /\ Len(log') = Len(log) + 1 /\ Len(log) \in Nat
        /\ \A i \in 1..Len(log) : log'[i] = log[i]
        /\ log'[Len(log) + 1] = e
    BY <1>0, <2>1
  <2>5. \A i \in 1..Len(log') : i > Len(log) => item'[log'[i]].status # "absent"
    BY <1>0, <2>1, <2>4 DEF Pending
  <2>6. item' = [x \in Events |-> item'[x]]
    BY <1>0, <2>1
  <2> HIDE DEF IInv
  <2> QED
    BY <1>0, <2>2, <2>3, <2>4, <2>5, <2>6 DEF Growth
<1>3. CASE Tick \/ UNCHANGED vars
  BY <1>0, <1>1, <1>3 DEF Tick, vars, source
<1>4. CASE Serve
  BY <1>0, <1>1, <1>4 DEF Serve, Poll, Discard, Invoke
<1>5. ASSUME NEW p \in Workers, Fail(p) \/ Fault(p) PROVE Growth
  BY <1>0, <1>1, <1>5 DEF Fail, Fault, source
<1>6. ASSUME NEW p \in Workers, Read(p) \/ Reread(p) \/ Refuse(p) \/ Answer(p) PROVE Growth
  BY <1>0, <1>1, <1>6 DEF Read, Reread, Refuse, Answer, source
<1>7. ASSUME NEW p \in Workers, Publish(p) PROVE Growth
  BY <1>0, <1>1, <1>7, EventOf DEF Publish, source
<1>8. ASSUME NEW p \in Workers, Mark(p) PROVE Growth
  <2> DEFINE e == Event(p)
  <2>1. UNCHANGED <<topic, log, now>> /\ pc[p] = "mark"
    BY <1>8 DEF Mark, source
  <2>2. e \in Events /\ e \in topic /\ seen[p] = Pending
    BY <2>1, EventOf DEF Running, Event
  <2>3. CASE item[e].status = "pending"
    <3>1. item[e] = Pending /\ at[p] \in 0..now
      BY <2>2, <2>3, ItemForms DEF Local
    <3>2. item' = [item EXCEPT ![e] = Delivered(seen[p], at[p])]
      BY <1>8, <2>2, <3>1 DEF Mark, Pending
    <3>3. Delivered(seen[p], at[p]) =
              [status |-> "delivered", revision |-> 2, deliveredAt |-> at[p]]
      BY <2>2 DEF Delivered, Pending
    <3>4. \A x \in Events : ItemStep(x)
      BY <1>0, <2>2, <3>1, <3>2, <3>3 DEF ItemStep
    <3>5. item' = [x \in Events |-> item'[x]]
      BY <1>0, <3>2
    <3> QED
      BY <1>0, <2>1, <3>4, <3>5 DEF Growth
  <2>4. CASE item[e].status # "pending"
    BY <1>0, <1>1, <1>8, <2>1, <2>4 DEF Mark
  <2> QED
    BY <2>3, <2>4
<1> QED
  BY <1>2, <1>3, <1>4, <1>5, <1>6, <1>7, <1>8 DEF Next, Work

\* The invariants of the items alone.
LEMMA ItemsKept ==
    ASSUME IInv, Growth
    PROVE  /\ item' \in [Events -> Items]
           /\ \A e \in Events :
                 \/ item'[e] \in {Absent, Pending}
                 \/ \E t \in 0..now' :
                       item'[e] = [status |-> "delivered", revision |-> 2, deliveredAt |-> t]
           /\ DeliveredWasPublished'
           /\ \A i \in 1..Len(log') : item'[log'[i]].status # "absent"
           /\ \A e \in Events :
                 item[e].status = "delivered" => item'[e] = item[e]
<1>1. ASSUME NEW e \in Events
      PROVE  /\ \/ item'[e] \in {Absent, Pending}
                \/ \E t \in 0..now' :
                      item'[e] = [status |-> "delivered", revision |-> 2, deliveredAt |-> t]
             /\ item'[e] \in Items
             /\ item'[e].status = "delivered" => e \in topic'
             /\ item[e].status = "delivered" => item'[e] = item[e]
             /\ item[e].status # "absent" => item'[e].status # "absent"
  <2>1. /\ ItemStep(e) /\ topic \subseteq topic' /\ now \in Nat /\ now' \in Nat /\ now' >= now
        /\ item[e] \in Items
        /\ item[e].status = "delivered" => e \in topic
        /\ \/ item[e] \in {Absent, Pending}
           \/ \E t \in 0..now :
                 item[e] = [status |-> "delivered", revision |-> 2, deliveredAt |-> t]
    BY DEF Growth, IInv, TypeOK, Local, DeliveredWasPublished
  <2>2. CASE item'[e] = item[e]
    BY <2>1, <2>2
  <2>3. CASE item[e] = Absent /\ item'[e] = Pending
    BY <2>3 DEF Absent, Pending, Items
  <2>4. CASE item[e] = Pending /\ e \in topic /\ \E t \in 0..now :
                item'[e] = [status |-> "delivered", revision |-> 2, deliveredAt |-> t]
    BY <2>1, <2>4 DEF Pending, Items
  <2> QED
    BY <2>1, <2>2, <2>3, <2>4 DEF ItemStep
<1>2. \A i \in 1..Len(log') : item'[log'[i]].status # "absent"
  <2> SUFFICES ASSUME NEW i \in 1..Len(log'), i <= Len(log)
               PROVE  item'[log'[i]].status # "absent"
    BY DEF Growth, IInv, TypeOK
  <2>1. i \in 1..Len(log) /\ log'[i] = log[i] /\ log[i] \in Events
    BY DEF Growth, IInv, TypeOK
  <2> QED
    BY <1>1, <2>1 DEF IInv, Stream
<1> QED
  BY <1>1, <1>2 DEF Growth, DeliveredWasPublished

-----------------------------------------------------------------------------
(***************************************************************************)
(* What a step does to the invocations.                                    *)
(***************************************************************************)
Steps == {"idle", "read", "publish", "reread", "mark", "answer"}

\* What Local says of the invocations.
Locals ==
    /\ pc \in [Workers -> Steps] /\ at \in [Workers -> Nat]
    /\ pos \in [Workers -> Nat] /\ end \in [Workers -> Nat]
    /\ failures \in [Workers -> SUBSET Nat] /\ seen \in [Workers -> Items]

\* The invocations other than p do not change.
Others(p) ==
    \A q \in Workers \ {p} :
        /\ pc'[q] = pc[q] /\ at'[q] = at[q] /\ pos'[q] = pos[q] /\ end'[q] = end[q]
        /\ failures'[q] = failures[q] /\ seen'[q] = seen[q]

\* What holds of an invocation that does nothing goes on holding as the stream grows.
LEMMA RunningStays ==
    ASSUME IInv, Growth, NEW q \in Workers, Running(q),
           pc'[q] = pc[q], pos'[q] = pos[q], end'[q] = end[q], seen'[q] = seen[q]
    PROVE  Running(q)'
<1>1. CASE pc[q] = "idle"
  BY <1>1 DEF Running
<1>2. CASE pc[q] # "idle"
  <2>1. pos[q] \in 1..Len(log) /\ pos[q] \in 1..end[q] /\ end[q] <= Len(log)
    BY <1>2 DEF Running, IInv, Local, TypeOK
  <2>2. log'[pos[q]] = log[pos[q]] /\ topic \subseteq topic' /\ end[q] <= Len(log')
    BY <2>1 DEF Growth, IInv, Local, TypeOK
  <2> QED
    BY <2>1, <2>2 DEF Running
<1> QED
  BY <1>1, <1>2

\* A record that is delivered, or reported, stays so.
LEMMA DoneStays ==
    ASSUME IInv, Growth, NEW q \in Workers, failures[q] \subseteq failures'[q],
           NEW i \in 1..Len(log), Done(q, i)
    PROVE  Done(q, i)'
<1>1. log[i] \in Events /\ log'[i] = log[i]
  BY DEF Growth, IInv, TypeOK
<1> QED
  BY <1>1, ItemsKept DEF Done

\* An invocation goes on when its record is done with.
Moves(p) ==
    /\ Locals' /\ Others(p) /\ Running(p)'
    /\ pc[p] \notin {"idle", "answer"} /\ pc'[p] # "idle"
    /\ end'[p] = end[p] /\ at'[p] = at[p]
    /\ failures[p] \subseteq failures'[p] /\ failures'[p] \subseteq failures[p] \cup {pos[p]}
    /\ \/ pos'[p] = pos[p] /\ pc'[p] # "answer"
       \/ /\ pos'[p] >= pos[p] /\ pos'[p] <= pos[p] + 1
          /\ \A i \in {pos[p]} : Done(p, i)'
          /\ pc'[p] = "answer" => pos[p] = end[p]

\* An invocation that goes on to its next record has done with this one.
LEMMA AdvanceIs ==
    ASSUME IInv, Growth, NEW p \in Workers, pc[p] \notin {"idle", "answer"},
           Advance(p), UNCHANGED <<at, end, seen>>, failures' \in [Workers -> SUBSET Nat],
           \A q \in Workers \ {p} : failures'[q] = failures[q],
           failures[p] \subseteq failures'[p], failures'[p] \subseteq failures[p] \cup {pos[p]},
           \A i \in {pos[p]} : Done(p, i)'
    PROVE  Moves(p)
<1>1. /\ pc \in [Workers -> Steps] /\ pos \in [Workers -> Nat] /\ end[p] \in Nat
      /\ pos[p] \in 1..end[p] /\ end[p] <= Len(log) /\ Len(log') >= Len(log)
      /\ Len(log) \in Nat /\ Len(log') \in Nat
  BY DEF IInv, Local, Running, Steps, Growth, TypeOK
<1>2. CASE pos[p] = end[p]
  <2>1. pc' = [pc EXCEPT ![p] = "answer"] /\ pos' = pos
    BY <1>2 DEF Advance
  <2>2. Running(p)'
    BY <1>1, <2>1 DEF Running
  <2> QED
    BY <1>1, <1>2, <2>1, <2>2 DEF Moves, Others, Locals, Steps, IInv, Local
<1>3. CASE pos[p] # end[p]
  <2>1. pc' = [pc EXCEPT ![p] = "read"] /\ pos' = [pos EXCEPT ![p] = @ + 1]
    BY <1>3 DEF Advance
  <2>2. Running(p)'
    BY <1>1, <1>3, <2>1 DEF Running
  <2> QED
    BY <1>1, <1>3, <2>1, <2>2 DEF Moves, Others, Locals, Steps, IInv, Local
<1> QED
  BY <1>2, <1>3

\* A record whose item is delivered is done with.
LEMMA AdvanceDelivered ==
    ASSUME IInv, Growth, NEW p \in Workers, pc[p] \notin {"idle", "answer"},
           Advance(p), UNCHANGED <<at, end, seen, failures>>,
           item'[Event(p)].status = "delivered"
    PROVE  Moves(p)
<1>1. pos[p] \in 1..Len(log) /\ log'[pos[p]] = log[pos[p]]
  BY DEF IInv, Local, Running, Growth, TypeOK
<1>2. \A i \in {pos[p]} : Done(p, i)'
  BY <1>1 DEF Done, Event
<1> QED
  BY <1>2, AdvanceIs DEF IInv, Local

\* A failure is reported, and the relay goes on (process_batch).
LEMMA RecordFailureIs ==
    ASSUME IInv, Growth, NEW p \in Workers, pc[p] \notin {"idle", "answer"},
           RecordFailure(p), UNCHANGED <<at, end, seen>>
    PROVE  Moves(p)
<1>1. failures \in [Workers -> SUBSET Nat] /\ pos[p] \in Nat
  BY DEF IInv, Local
<1>2. failures' = [failures EXCEPT ![p] = @ \cup {pos[p]}] /\ Advance(p)
  BY DEF RecordFailure
<1>3. /\ failures' \in [Workers -> SUBSET Nat]
      /\ failures'[p] = failures[p] \cup {pos[p]}
      /\ \A q \in Workers \ {p} : failures'[q] = failures[q]
  BY <1>1, <1>2
<1>4. \A i \in {pos[p]} : Done(p, i)'
  BY <1>3 DEF Done
<1> QED
  BY <1>2, <1>3, <1>4, AdvanceIs

\* Every step of the relay on its record, and none touches the event source.
LEMMA WorkMoves ==
    ASSUME IInv, Growth, NEW p \in Workers,
           Read(p) \/ Publish(p) \/ Reread(p) \/ Mark(p) \/ Refuse(p) \/ Fault(p)
    PROVE  Moves(p) /\ UNCHANGED <<source, now>>
<1>0. /\ pc[p] \in {"read", "publish", "reread", "mark"} /\ pc \in [Workers -> Steps]
      /\ UNCHANGED <<source, now>> /\ Locals
  BY DEF Read, Publish, Reread, Mark, Refuse, Fault, IInv, Local, Locals, Steps
<1>1. /\ Event(p) \in Events /\ item[Event(p)] \in Items
      /\ item[Event(p)].status # "absent" /\ pos[p] \in 1..Len(log)
  BY <1>0, EventOf DEF IInv, Local, Stream, Running, Event, TypeOK
<1>2. ASSUME NEW step \in {"publish", "reread"}, pc' = [pc EXCEPT ![p] = step],
             UNCHANGED <<at, pos, end, failures, seen>>, step = "reread" => Event(p) \in topic'
      PROVE  Moves(p)
  <2>1. Running(p)'
    BY <1>0, <1>2 DEF Running, IInv, Event, source
  <2> QED
    BY <1>0, <1>2, <2>1 DEF Moves, Others, Locals, Steps, IInv, Local
<1>3. CASE Read(p)
  <2>1. CASE item[Event(p)].status = "delivered"
    BY <1>0, <1>3, <2>1, AdvanceDelivered DEF Read
  <2>2. CASE item[Event(p)].status # "delivered"
    BY <1>2, <1>3, <2>2 DEF Read
  <2> QED
    BY <2>1, <2>2
<1>4. CASE Publish(p)
  BY <1>2, <1>4 DEF Publish
<1>5. CASE Reread(p)
  <2>1. CASE item[Event(p)].status = "delivered"
    BY <1>0, <1>5, <2>1, AdvanceDelivered DEF Reread
  <2>2. CASE item[Event(p)].status # "delivered"
    <3>1. /\ pc' = [pc EXCEPT ![p] = "mark"] /\ seen' = [seen EXCEPT ![p] = item[Event(p)]]
          /\ UNCHANGED <<item, topic, at, pos, end, failures>> /\ pc[p] = "reread"
      BY <1>5, <2>2 DEF Reread
    <3>2. item[Event(p)] = Pending
      BY <1>1, <2>2, ItemForms DEF IInv
    <3>3. seen' \in [Workers -> Items] /\ seen'[p] = Pending
      BY <1>0, <1>1, <3>1, <3>2 DEF Locals
    <3>4. Running(p)'
      BY <1>0, <3>1, <3>3 DEF Running, IInv, source
    <3> QED
      BY <1>0, <3>1, <3>3, <3>4 DEF Moves, Others, Locals, Steps
  <2> QED
    BY <2>1, <2>2
<1>6. CASE Mark(p)
  <2>1. seen[p] = Pending /\ pc[p] = "mark"
    BY <1>6 DEF Mark, IInv, Running
  <2>2. item'[Event(p)].status = "delivered"
    <3>1. CASE item[Event(p)].status = "pending"
      BY <1>1, <1>6, <2>1, <3>1, ItemForms DEF Mark, Pending, Delivered, IInv, Local
    <3>2. CASE item[Event(p)].status # "pending"
      BY <1>1, <1>6, <3>2, ItemForms DEF Mark, IInv
    <3> QED
      BY <3>1, <3>2
  <2> QED
    BY <1>0, <1>6, <2>2, AdvanceDelivered DEF Mark
<1>7. CASE Refuse(p) \/ Fault(p)
  BY <1>0, <1>7, RecordFailureIs DEF Refuse, Fault
<1> QED
  BY <1>0, <1>3, <1>4, <1>5, <1>6, <1>7

-----------------------------------------------------------------------------
(***************************************************************************)
(* The invariant is kept.                                                  *)
(***************************************************************************)
\* The records that the event source need not hand out again are settled.
LEMMA ForgottenNone ==
    ASSUME IInv, Growth, dead \subseteq dead', batch'.first \in Nat,
           \A i \in 1..Len(log) : i >= batch.first /\ i < batch'.first =>
               log[i] \in dead' \/ item'[log[i]].status = "delivered"
    PROVE  NothingForgotten'
<1> SUFFICES ASSUME NEW e \in Events, item'[e].status = "pending"
             PROVE  e \in dead' \/ \E i \in batch'.first..Len(log') : log'[i] = e
  BY DEF NothingForgotten
<1>0. /\ log \in Seq(Events) /\ Len(log) \in Nat /\ batch.first \in Nat /\ batch.last \in Nat
      /\ log' \in Seq(Events) /\ Len(log') \in Nat /\ Len(log') >= Len(log)
      /\ batch.first > 0
      /\ batch.first <= batch.last + 1 /\ batch.last <= Len(log)
  BY DEF IInv, TypeOK, Stream, Growth
<1>1. CASE item[e] = Absent
  <2>1. log' = Append(log, e) /\ UNCHANGED batch
    BY <1>1 DEF Growth, ItemStep, Absent
  <2>2. Len(log') = Len(log) + 1 /\ log'[Len(log')] = e
    BY <1>0, <2>1
  <2>3. batch'.first <= Len(log')
    BY <1>0, <2>1, <2>2
  <2>4. Len(log') \in batch'.first..Len(log')
    BY <1>0, <2>1, <2>3
  <2> QED
    BY <2>2, <2>4
<1>2. CASE item[e] # Absent
  <2>1. item[e].status = "pending" /\ item'[e] = item[e]
    BY <1>2, ItemForms DEF Growth, ItemStep, IInv
  <2>2. CASE e \in dead
    BY <2>2
  <2>3. ASSUME NEW i \in batch.first..Len(log), log[i] = e
        PROVE  e \in dead' \/ \E j \in batch'.first..Len(log') : log'[j] = e
    <3>1. i \in 1..Len(log) /\ i >= batch.first /\ log'[i] = e
      BY <1>0, <2>3 DEF Growth
    <3>2. CASE i < batch'.first
      BY <2>1, <2>3, <3>1, <3>2
    <3>3. CASE ~(i < batch'.first)
      <4>1. i \in batch'.first..Len(log')
        BY <1>0, <3>1, <3>3
      <4> QED
        BY <3>1, <4>1
    <3> QED
      BY <3>2, <3>3
  <2> QED
    BY <2>1, <2>2, <2>3 DEF IInv, NothingForgotten
<1> QED
  BY <1>1, <1>2

\* What the batch, the failure queue and the counter have to be after a step.
SourceTyped ==
    /\ batch \in [first : Nat \ {0}, last : Nat]
    /\ batch.first <= batch.last + 1 /\ batch.last <= Len(log)
    /\ dead \subseteq Events /\ attempts \in 0..(MaxRetries + 1)
    /\ serving \in Workers \cup {"none"}

\* The invariant from its parts.
LEMMA Kept ==
    ASSUME IInv, Growth, SourceTyped', Locals', \A p \in Workers : at'[p] <= now',
           Served', \A p \in Workers : Running(p)', NothingForgotten'
    PROVE  IInv'
<1>1. TypeOK'
  BY ItemsKept DEF TypeOK, Growth, SourceTyped
<1>2. Local'
  BY ItemsKept DEF Local, Locals, Steps, Growth
<1>3. Stream'
  BY ItemsKept DEF Stream, SourceTyped
<1> QED
  BY <1>1, <1>2, <1>3, ItemsKept DEF IInv

\* The invariant of the source while it does nothing.
LEMMA SourceStays ==
    ASSUME IInv, Growth, UNCHANGED <<batch, attempts, serving, dead>>
    PROVE  SourceTyped'
BY DEF IInv, Growth, TypeOK, Stream, SourceTyped

\* A step of the relay keeps the invariant, in an invocation that was given up too.
LEMMA WorkKept ==
    ASSUME IInv, Growth, NEW p \in Workers, Moves(p), UNCHANGED <<source, now>>
    PROVE  IInv'
<1>1. SourceTyped'
  BY SourceStays DEF source
<1>2. Locals' /\ \A q \in Workers : at'[q] <= now'
  BY DEF Moves, Others, IInv, Local
<1>3. ASSUME NEW q \in Workers PROVE Running(q)'
  <2>1. CASE q = p
    BY <2>1 DEF Moves
  <2>2. CASE q # p
    BY <2>2, RunningStays DEF Moves, Others, IInv
  <2> QED
    BY <2>1, <2>2
<1>4. Served'
  <2> SUFFICES ASSUME NEW q \in Workers, serving' = q
               PROVE  /\ pc'[q] # "idle"
                      /\ batch'.first <= pos'[q] /\ end'[q] = batch'.last
                      /\ failures'[q] \subseteq batch'.first..batch'.last
                      /\ \A i \in batch'.first..batch'.last :
                            i < pos'[q] \/ pc'[q] = "answer" => Done(q, i)'
    BY DEF Served
  <2>1. /\ pc[q] # "idle"
        /\ batch.first <= pos[q] /\ end[q] = batch.last
        /\ failures[q] \subseteq batch.first..batch.last
        /\ \A i \in batch.first..batch.last :
              i < pos[q] \/ pc[q] = "answer" => Done(q, i)
        /\ batch' = batch /\ batch.first \in Nat \ {0} /\ batch.last \in Nat
        /\ batch.last <= Len(log) /\ Len(log) \in Nat
    BY DEF IInv, Served, source, Stream, TypeOK
  <2>2. CASE q # p
    <3>1. \A i \in batch.first..batch.last : Done(q, i) => Done(q, i)'
      BY <2>1, <2>2, DoneStays DEF Moves, Others
    <3> QED
      BY <2>1, <2>2, <3>1 DEF Moves, Others
  <2>3. CASE q = p
    <3>1. /\ pos[p] \in Nat /\ pos'[p] \in Nat /\ pos[p] <= batch.last /\ pos'[p] >= pos[p]
          /\ pc'[p] # "idle" /\ end'[p] = end[p] /\ pc[p] # "answer"
      BY <2>1, <2>3 DEF Moves, Locals, IInv, Local, Running
    <3>2. failures'[p] \subseteq batch.first..batch.last
      BY <2>1, <2>3, <3>1 DEF Moves
    <3>3. ASSUME NEW i \in batch.first..batch.last, i < pos'[p] \/ pc'[p] = "answer"
          PROVE  Done(p, i)'
      <4>1. CASE i < pos[p]
        BY <2>1, <2>3, <4>1, DoneStays DEF Moves
      <4>2. CASE ~(i < pos[p])
        <5>1. i = pos[p] /\ \A j \in {pos[p]} : Done(p, j)'
          BY <2>1, <2>3, <3>1, <3>3, <4>2 DEF Moves
        <5> QED
          BY <5>1
      <4> QED
        BY <4>1, <4>2
    <3> QED
      BY <2>1, <2>3, <3>1, <3>2, <3>3
  <2> QED
    BY <2>2, <2>3
<1>5. NothingForgotten'
  BY <1>1, ForgottenNone DEF source, IInv, TypeOK, Stream
<1> QED
  BY <1>1, <1>2, <1>3, <1>4, <1>5, Kept

\* The steps that no invocation takes part in.
LEMMA AloneKept ==
    ASSUME IInv, Growth, UNCHANGED local, SourceTyped',
           dead \subseteq dead', serving' = serving,
           \/ UNCHANGED batch
           \/ /\ serving \notin Workers
              /\ \A i \in 1..Len(log) : i >= batch.first /\ i < batch'.first => log[i] \in dead'
    PROVE  IInv'
<1>1. Locals' /\ \A q \in Workers : at'[q] <= now'
  BY DEF local, Locals, Steps, IInv, Local, Growth
<1>2. ASSUME NEW q \in Workers PROVE Running(q)'
  BY RunningStays DEF local, IInv
<1>3. Served'
  <2> SUFFICES ASSUME NEW q \in Workers, serving' = q
               PROVE  /\ pc'[q] # "idle"
                      /\ batch'.first <= pos'[q] /\ end'[q] = batch'.last
                      /\ failures'[q] \subseteq batch'.first..batch'.last
                      /\ \A i \in batch'.first..batch'.last :
                            i < pos'[q] \/ pc'[q] = "answer" => Done(q, i)'
    BY DEF Served
  <2>1. /\ pc[q] # "idle"
        /\ batch.first <= pos[q] /\ end[q] = batch.last
        /\ failures[q] \subseteq batch.first..batch.last
        /\ \A i \in batch.first..batch.last :
              i < pos[q] \/ pc[q] = "answer" => Done(q, i)
        /\ batch' = batch /\ batch.first \in Nat \ {0} /\ batch.last \in Nat
        /\ batch.last <= Len(log) /\ Len(log) \in Nat
    BY DEF IInv, Served, Stream, TypeOK
  <2>2. \A i \in batch.first..batch.last : Done(q, i) => Done(q, i)'
    BY <2>1, DoneStays DEF local
  <2> QED
    BY <2>1, <2>2 DEF local
<1>4. NothingForgotten'
  BY ForgottenNone DEF SourceTyped, IInv, Stream
<1> QED
  BY <1>1, <1>2, <1>3, <1>4, Kept

Less == OpToRel(<, Nat)

\* Less is the order of the natural numbers.
LEMMA LessIs == ASSUME NEW x \in Nat, NEW y \in Nat, x < y PROVE <<x, y>> \in Less
BY DEF Less, OpToRel

\* The least position is one of them.
LEMMA MinIs ==
    ASSUME NEW S \in SUBSET Nat, S # {}
    PROVE  Min(S) \in S /\ \A x \in S : Min(S) <= x
<1>1. IsWellFoundedOn(Less, Nat)
  BY NatLessThanWellFounded DEF Less
<1>2. PICK x \in S : \A y \in S : <<y, x>> \notin Less
  BY <1>1, WFMin
<1>3. ASSUME NEW y \in S PROVE x <= y
  <2>1. y < x => <<y, x>> \in Less
    BY LessIs
  <2>2. <<y, x>> \notin Less
    BY <1>2
  <2>3. ~(y < x)
    BY <2>1, <2>2, Zenon
  <2> QED
    BY <2>3
<1> QED
  BY <1>3 DEF Min

\* What an invocation is after it has stopped.
LEMMA StopIs ==
    ASSUME IInv, NEW p \in Workers, Stop(p)
    PROVE  /\ Locals' /\ Others(p) /\ pc'[p] = "idle" /\ at'[p] = 0
<1>1. Absent \in Items
  BY DEF Absent, Items
<1> QED
  BY <1>1 DEF IInv, Local, Locals, Steps, Others, Stop

\* A step of the source that ends its wait for an invocation.
LEMMA EndKept ==
    ASSUME IInv, Growth, NEW p \in Workers, SourceTyped', dead \subseteq dead',
           serving' = "none" \/ (serving' = serving /\ serving # p /\ UNCHANGED batch),
           Stop(p) \/ UNCHANGED local,
           \A i \in 1..Len(log) : i >= batch.first /\ i < batch'.first =>
               item'[log[i]].status = "delivered"
    PROVE  IInv'
<1>0. /\ Locals' /\ Others(p)
      /\ (pc'[p] = "idle" /\ at'[p] = 0) \/ UNCHANGED local
  BY StopIs DEF Others, local, IInv, Local, Locals, Steps
<1>1. \A q \in Workers : at'[q] <= now'
  BY <1>0 DEF local, IInv, Local, Growth, Others
<1>2. ASSUME NEW q \in Workers PROVE Running(q)'
  <2>1. CASE UNCHANGED local
    BY <2>1, RunningStays DEF local, IInv
  <2>2. CASE q # p
    BY <1>0, <2>2, RunningStays DEF Others, IInv
  <2>3. CASE q = p /\ pc'[p] = "idle"
    BY <2>3 DEF Running
  <2> QED
    BY <1>0, <2>1, <2>2, <2>3
<1>3. Served'
  <2> SUFFICES ASSUME NEW q \in Workers, serving' = q
               PROVE  /\ pc'[q] # "idle"
                      /\ batch'.first <= pos'[q] /\ end'[q] = batch'.last
                      /\ failures'[q] \subseteq batch'.first..batch'.last
                      /\ \A i \in batch'.first..batch'.last :
                            i < pos'[q] \/ pc'[q] = "answer" => Done(q, i)'
    BY DEF Served
  <2>0. serving = q /\ q # p /\ batch' = batch
    BY OutboxAssumption
  <2>1. /\ pc[q] # "idle"
        /\ batch.first <= pos[q] /\ end[q] = batch.last
        /\ failures[q] \subseteq batch.first..batch.last
        /\ \A i \in batch.first..batch.last :
              i < pos[q] \/ pc[q] = "answer" => Done(q, i)
        /\ batch.first \in Nat \ {0} /\ batch.last \in Nat
        /\ batch.last <= Len(log) /\ Len(log) \in Nat
    BY <2>0 DEF IInv, Served, Stream, TypeOK
  <2>2. \A i \in batch.first..batch.last : Done(q, i) => Done(q, i)'
    BY <1>0, <2>0, <2>1, DoneStays DEF Others
  <2> QED
    BY <1>0, <2>0, <2>1, <2>2 DEF Others
<1>4. NothingForgotten'
  BY ForgottenNone DEF SourceTyped
<1> QED
  BY <1>0, <1>1, <1>2, <1>3, <1>4, Kept

\* The event source takes the answer and retries from the lowest failure.
LEMMA AnswerKept ==
    ASSUME IInv, Growth, NEW p \in Workers, Answer(p)
    PROVE  IInv'
<1> DEFINE first == IF failures[p] = {} THEN batch.last + 1 ELSE Min(failures[p])
<1>1. UNCHANGED <<item, topic, log, attempts, dead, faults, now>> /\ Stop(p)
  BY DEF Answer
<1>2. CASE serving = p
  <2>1. /\ failures[p] \subseteq batch.first..batch.last /\ failures[p] \subseteq Nat
        /\ \A i \in batch.first..batch.last : Done(p, i)
        /\ batch \in [first : Nat \ {0}, last : Nat]
        /\ batch.first <= batch.last + 1 /\ batch.last <= Len(log)
        /\ log \in Seq(Events)
    BY <1>2 DEF Answer, IInv, Served, Local, Stream, TypeOK
  <2>2. serving' = "none" /\ batch' = [batch EXCEPT !.first = first]
    BY <1>2 DEF Answer
  <2>3. /\ first \in Nat \ {0} /\ first >= batch.first /\ first <= batch.last + 1
        /\ \A i \in failures[p] : first <= i
    <3>1. CASE failures[p] = {}
      BY <2>1, <3>1
    <3>2. CASE failures[p] # {}
      <4>1. first \in failures[p] /\ \A i \in failures[p] : first <= i
        BY <2>1, <3>2, MinIs
      <4> HIDE DEF first
      <4> QED
        BY <2>1, <4>1
    <3> QED
      BY <3>1, <3>2
  <2> HIDE DEF first
  <2>4. SourceTyped'
    BY <1>1, <2>1, <2>2, <2>3 DEF SourceTyped, IInv, TypeOK
  <2>5. \A i \in 1..Len(log) : i >= batch.first /\ i < batch'.first =>
            item'[log[i]].status = "delivered"
    BY <1>1, <2>1, <2>2, <2>3 DEF Done
  <2> QED
    BY <1>1, <2>2, <2>4, <2>5, EndKept
<1>3. CASE serving # p
  <2>1. UNCHANGED <<serving, batch>>
    BY <1>3 DEF Answer
  <2>2. batch.first \in Nat /\ \A i \in 1..Len(log) : ~(i >= batch.first /\ i < batch'.first)
    BY <2>1 DEF IInv, Stream, TypeOK
  <2> QED
    BY <1>1, <1>3, <2>1, <2>2, SourceStays, EndKept
<1> QED
  BY <1>2, <1>3

\* The invocation fails, and the batch is halved or tried again.
LEMMA FailKept ==
    ASSUME IInv, Growth, NEW p \in Workers, Fail(p)
    PROVE  IInv'
<1> DEFINE middle == (batch.first + batch.last) \div 2
<1>1. /\ batch \in [first : Nat \ {0}, last : Nat]
      /\ batch.first <= batch.last /\ batch.last <= Len(log) /\ log \in Seq(Events)
  BY DEF Fail, IInv, Served, Running, Local, Stream, TypeOK
<1>2. middle \in Nat /\ batch.first <= middle /\ middle <= batch.last
  BY <1>1
<1> HIDE DEF middle
<1>3. /\ batch' = [batch EXCEPT !.last = middle] /\ serving' = "none"
      /\ UNCHANGED <<log, attempts, dead>> /\ (Stop(p) \/ UNCHANGED local)
  BY DEF Fail, middle
<1>4. SourceTyped'
  BY <1>1, <1>2, <1>3 DEF SourceTyped, IInv, TypeOK
<1>5. \A i \in 1..Len(log) : ~(i >= batch.first /\ i < batch'.first)
  BY <1>1, <1>3
<1> QED
  BY <1>3, <1>4, <1>5, EndKept

\* The event source hands its batch to a free worker.
LEMMA InvokeKept ==
    ASSUME IInv, Growth, NEW p \in Workers, Invoke(p)
    PROVE  IInv'
<1>0. /\ batch \in [first : Nat \ {0}, last : Nat] /\ batch.first <= batch.last
      /\ batch.last <= Len(log) /\ log \in Seq(Events) /\ now \in Nat
      /\ Locals /\ UNCHANGED <<log, batch, dead, now, item, topic>>
  BY DEF Invoke, Handled, IInv, Stream, TypeOK, Local, Locals, Steps
<1>1. SourceTyped'
  <2>1. attempts' \in 0..(MaxRetries + 1)
    BY OutboxAssumption DEF Invoke, IInv, TypeOK
  <2> QED
    BY <1>0, <2>1 DEF SourceTyped, Invoke, IInv, TypeOK
<1>2. /\ Locals' /\ Others(p) /\ pc'[p] = "read" /\ at'[p] = now
      /\ pos'[p] = batch.first /\ end'[p] = batch.last /\ failures'[p] = {}
  BY <1>0 DEF Invoke, Locals, Steps, Others
<1>3. \A q \in Workers : at'[q] <= now'
  <2>1. \A q \in Workers : at[q] <= now /\ (at'[q] = at[q] \/ q = p)
    BY <1>2 DEF Others, IInv, Local
  <2> QED
    BY <1>0, <1>2, <2>1
<1>4. ASSUME NEW q \in Workers PROVE Running(q)'
  <2>1. CASE q = p
    BY <1>0, <1>2, <2>1 DEF Running
  <2>2. CASE q # p
    BY <1>2, <2>2, RunningStays DEF Others, IInv
  <2> QED
    BY <2>1, <2>2
<1>5. Served'
  <2>1. serving' = p
    BY DEF Invoke
  <2> QED
    BY <1>0, <1>2, <2>1 DEF Served
<1>6. NothingForgotten'
  BY <1>0, ForgottenNone
<1> QED
  BY <1>1, <1>2, <1>3, <1>4, <1>5, <1>6, Kept

-----------------------------------------------------------------------------
(***************************************************************************)
(* The invariant.                                                          *)
(***************************************************************************)
LEMMA InitIInv == Init => IInv
<1> SUFFICES ASSUME Init PROVE IInv
  OBVIOUS
<1>1. TypeOK
  BY OutboxAssumption DEF Init, TypeOK
<1>2. Absent \in Items
  BY DEF Absent, Items
<1>3. Local /\ Stream
  BY <1>2 DEF Init, Local, Stream
<1> QED
  BY <1>1, <1>3, OutboxAssumption
     DEF Init, IInv, Served, Running, DeliveredWasPublished, NothingForgotten, Absent

\* Every step keeps the invariant.
LEMMA NextIInv == IInv /\ [Next]_vars => IInv'
<1> SUFFICES ASSUME IInv, [Next]_vars PROVE IInv'
  OBVIOUS
<1>0. /\ Growth /\ batch \in [first : Nat \ {0}, last : Nat] /\ log \in Seq(Events)
      /\ batch.first <= batch.last + 1 /\ batch.last <= Len(log)
  BY GrowthIs DEF IInv, Stream, TypeOK
<1>1. CASE Commit \/ Tick \/ UNCHANGED vars
  <2>1. UNCHANGED <<local, batch, attempts, serving, dead>>
    BY <1>1 DEF Commit, Tick, vars, source
  <2> QED
    BY <1>0, <2>1, SourceStays, AloneKept
<1>2. CASE Poll
  <2>1. PICK n \in 1..BatchSize :
            /\ batch.last + n <= Len(log)
            /\ batch' = [first |-> batch.last + 1, last |-> batch.last + n]
    BY <1>2 DEF Poll
  <2>2. /\ batch.first > batch.last /\ attempts' = 0
        /\ UNCHANGED <<log, serving, dead, local>>
    BY <1>2 DEF Poll, Handled
  <2>3. n \in Nat /\ n >= 1
    BY OutboxAssumption
  <2>4. SourceTyped'
    BY <1>0, <2>1, <2>2, <2>3, OutboxAssumption DEF SourceTyped, IInv, TypeOK
  <2>5. serving \notin Workers
    BY <1>0, <2>2 DEF IInv, Served, Running, Local
  <2>6. \A i \in 1..Len(log) : ~(i >= batch.first /\ i < batch'.first)
    BY <1>0, <2>1, <2>2
  <2> QED
    BY <1>0, <2>2, <2>4, <2>5, <2>6, AloneKept
<1>3. CASE Discard
  <2>1. /\ dead' = dead \cup {log[i] : i \in batch.first..batch.last}
        /\ batch' = [batch EXCEPT !.first = batch.last + 1]
        /\ UNCHANGED <<log, attempts, serving, local>> /\ serving \notin Workers
    BY <1>3, OutboxAssumption DEF Discard
  <2>2. \A i \in batch.first..batch.last : log[i] \in Events /\ log[i] \in dead'
    BY <1>0, <2>1
  <2>3. dead' \subseteq Events
    BY <2>1, <2>2 DEF IInv, TypeOK
  <2>4. SourceTyped'
    BY <1>0, <2>1, <2>3 DEF SourceTyped, IInv, TypeOK
  <2>5. \A i \in 1..Len(log) : i >= batch.first /\ i < batch'.first => log[i] \in dead'
    BY <1>0, <2>1, <2>2
  <2> QED
    BY <1>0, <2>1, <2>4, <2>5, AloneKept
<1>4. ASSUME NEW p \in Workers, Invoke(p) PROVE IInv'
  BY <1>0, <1>4, InvokeKept
<1>5. ASSUME NEW p \in Workers,
             Read(p) \/ Publish(p) \/ Reread(p) \/ Mark(p) \/ Refuse(p) \/ Fault(p)
      PROVE  IInv'
  BY <1>0, <1>5, WorkMoves, WorkKept
<1>6. ASSUME NEW p \in Workers, Answer(p) PROVE IInv'
  BY <1>0, <1>6, AnswerKept
<1>7. ASSUME NEW p \in Workers, Fail(p) PROVE IInv'
  BY <1>0, <1>7, FailKept
<1> QED
  BY <1>1, <1>2, <1>3, <1>4, <1>5, <1>6, <1>7 DEF Next, Serve, Work

\* Items, stream, event source and invocations are as IInv says in every state that the relay of
\* outbox.py and the event source of template.yaml can reach.
THEOREM Invariance == Spec => []IInv
BY InitIInv, NextIInv, PTL DEF Spec

\* The items, the stream and the state of the event source keep their types, and no batch is
\* handed out more often than its retries allow.
THEOREM TypeCorrect == Spec => []TypeOK
BY Invariance, PTL DEF IInv

\* An item is marked delivered only when its message is on the topic: the relay marks after
\* it has published, and a call that fails leaves the item as it is (OutboxRelay.relay).
THEOREM PublishedBeforeDelivered == Spec => []DeliveredWasPublished
BY Invariance, PTL DEF IInv

\* An item whose delivery is pending is still before the event source or in the failure
\* queue, through partial failures, split batches and invocations that were given up: the
\* answer names every record that failed (process_batch).
THEOREM NoneForgotten == Spec => []NothingForgotten
BY Invariance, PTL DEF IInv

\* A delivered item is never written again: mark_outbox_delivered puts it on condition that
\* it is pending at the revision that was read.
THEOREM DeliveredOnce == Spec => DeliveredStays
<1>1. IInv /\ [Next]_vars =>
          \A e \in Events : item[e].status = "delivered" => item'[e] = item[e]
  BY GrowthIs, ItemsKept
<1> QED
  BY <1>1, Invariance, PTL DEF Spec, DeliveredStays
=============================================================================
