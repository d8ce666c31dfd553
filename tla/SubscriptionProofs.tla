------------------------- MODULE SubscriptionProofs -------------------------
(***************************************************************************)
(* Proofs about Subscription for every set of workers, keys and events,    *)
(* and for every bound.                                                    *)
(*                                                                         *)
(* An event that is applied is newer than all that were processed before,  *)
(* for it is not stale, is not of the revision that its worker read        *)
(* (EventStage), and the projection is still the one that was read. A      *)
(* receipt that changed the access state has the next revision, which is   *)
(* one that no other receipt has. So each step adds one to both sides of   *)
(* what ProjectionIsNewest and AccessAccounted say is equal.               *)
(***************************************************************************)
EXTENDS Subscription, FiniteSetTheorems, TLAPS

Projections == [revision : Nat, source : 0..MaxSource, event : Events \cup {<<>>}]
Accesses == [state : {"active", "suspended"}, revision : Nat, billingPauseSuspended : BOOLEAN]
Receipts ==
    [status : {"none", "stored"}, expected : Nat, behavior : Behaviors \cup {"none"},
     changed : BOOLEAN, revision : Nat]

EventRequests == [op : {"event"}, event : Events]
AccessRequests ==
    [op : {"pause", "resume"}, slot : Slots, expected : 1..MaxRevision, behavior : Behaviors]
PlanRequests == [op : {"changePlan"}, key : PlanKeys, time : 1..MaxTime]

Steps == {"idle", "event", "gateway", "access", "write", "preview"}
Copies == [projection : Projections, access : Accesses]

(***************************************************************************)
(* The inductive invariant, in parts.                                      *)
(***************************************************************************)
Applied == {e \in Events : inbox[e] = "applied"}

\* What the projection satisfies,
Newest ==
    /\ projection \in Projections
    /\ inbox \in [Events -> {"none", "applied", "stale"}]
    /\ IsFiniteSet(Applied) /\ ProjectionIsNewest

Changing == {slot \in Slots : receipt[slot].changed}

\* the access state and its receipts,
Accounted ==
    /\ access \in Accesses
    /\ access.billingPauseSuspended => access.state = "suspended"
    /\ receipt \in [Slots -> Receipts]
    /\ \A slot \in Slots : receipt[slot].status = "none" => ~receipt[slot].changed
    /\ IsFiniteSet(Changing)
    /\ access.revision = Cardinality(Changing)
    /\ {receipt[slot].revision : slot \in Changing} = 1..access.revision
    /\ \A slot \in Changing :
        receipt[slot].revision = access.revision =>
            (slot[1] = "pause") = (access.state = "suspended")

\* the receipts and the provider,
ReceiptsDone ==
    \A slot \in Slots :
        receipt[slot].status = "stored" =>
            [op |-> slot[1], expected |-> receipt[slot].expected,
             behavior |-> receipt[slot].behavior] \in billing.done

\* and the changes that were asked for, each at the time stored under its key.
Asked ==
    /\ preview \in [PlanKeys -> 0..MaxTime]
    /\ \A x \in changes :
        x \in [key : PlanKeys, time : 1..MaxTime] /\ preview[x.key] = x.time

\* A worker on an event has found that it is not of the revision the projection had.
EventStage(p) ==
    /\ req[p] \in EventRequests
    /\ Source(req[p].event) # seen[p].projection.source
    /\ seen[p].projection.source <= projection.source

\* A command that goes on to the access state has been done by the provider.
AccessStage(p) ==
    /\ req[p] \in AccessRequests /\ req[p].op = req[p].slot[1]
    /\ pc[p] \in {"access", "write"} => Identity(req[p]) \in billing.done

Stage(p) ==
    \/ pc[p] = "idle"
    \/ pc[p] = "event" /\ EventStage(p)
    \/ pc[p] \in {"gateway", "access", "write"} /\ AccessStage(p)
    \/ pc[p] = "preview" /\ req[p] \in PlanRequests

Staged == \A p \in Workers : Stage(p)

Locals ==
    /\ pc \in [Workers -> Steps] /\ DOMAIN req = Workers /\ seen \in [Workers -> Copies]
    /\ now \in 1..MaxTime

IInv == Newest /\ Accounted /\ ReceiptsDone /\ Asked /\ Locals /\ Staged

-----------------------------------------------------------------------------
(***************************************************************************)
(* What the steps do.                                                      *)
(***************************************************************************)
Others(p) ==
    \A q \in Workers \ {p} : pc'[q] = pc[q] /\ req'[q] = req[q] /\ seen'[q] = seen[q]

\* The values of absent items are of the items' types.
LEMMA NothingTyped ==
    NoProjection \in Projections /\ NoAccess \in Accesses /\ Nothing \in Copies
BY SubscriptionAssumption DEF NoProjection, NoAccess, Nothing, Projections, Accesses, Copies

\* What a worker is after it has begun.
LEMMA BeginIs ==
    ASSUME Locals, NEW p \in Workers, NEW r, NEW step \in Steps, NEW copy \in Copies,
           Begin(p, r, step, copy)
    PROVE  /\ pc'[p] = step /\ req'[p] = r /\ seen'[p] = copy /\ Others(p) /\ Locals'
           /\ UNCHANGED <<stored, external, now>>
BY DEF Begin, Others, Locals

\* What a worker is after a step that is not its last.
LEMMA ContinueIs ==
    ASSUME Locals, NEW p \in Workers, NEW step \in Steps, NEW copy \in Copies,
           Continue(p, step, copy)
    PROVE  /\ pc'[p] = step /\ req'[p] = req[p] /\ seen'[p] = copy /\ Others(p) /\ Locals'
           /\ UNCHANGED now
BY DEF Continue, Others, Locals

\* What a worker is after it has ended.
LEMMA EndIs ==
    ASSUME Locals, NEW p \in Workers, End(p)
    PROVE  pc'[p] = "idle" /\ Others(p) /\ Locals' /\ UNCHANGED now
BY NothingTyped DEF End, Steps, Others, Locals

\* What a step needs to leave a worker where it is.
LEMMA StageStays ==
    ASSUME NEW q \in Workers, Stage(q), pc'[q] = pc[q], req'[q] = req[q], seen'[q] = seen[q],
           billing.done \subseteq billing'.done,
           projection \in Projections, projection' \in Projections,
           seen[q].projection \in Projections, projection'.source >= projection.source
    PROVE  Stage(q)'
<1>1. ASSUME EventStage(q) PROVE EventStage(q)'
  <2>1. projection.source \in Int /\ projection'.source \in Int /\ seen[q].projection.source \in Int
    BY SubscriptionAssumption DEF Projections
  <2> QED
    BY <1>1, <2>1 DEF EventStage
<1>2. ASSUME AccessStage(q) PROVE AccessStage(q)'
  BY <1>2 DEF AccessStage, Identity
<1> QED
  BY <1>1, <1>2 DEF Stage

-----------------------------------------------------------------------------
(***************************************************************************)
(* The projection.                                                         *)
(***************************************************************************)
\* An event is found stale or applied.
Processed(e) ==
    /\ inbox[e] = "none"
    /\ \/ /\ Source(e) < projection.source
          /\ inbox' = [inbox EXCEPT ![e] = "stale"] /\ UNCHANGED projection
       \/ /\ Source(e) > projection.source
          /\ inbox' = [inbox EXCEPT ![e] = "applied"]
          /\ projection' =
                [revision |-> projection.revision + 1, source |-> Source(e), event |-> e]

\* An event's source revision is one the provider gives.
LEMMA SourceTyped == ASSUME NEW e \in Events PROVE Source(e) \in 1..MaxSource
BY DEF Source, Events

\* An event that is processed leaves the projection the newest of those applied.
LEMMA NewestKept ==
    ASSUME Newest, NEW e \in Events, Processed(e)
    PROVE  Newest' /\ projection'.source >= projection.source
<1> DEFINE Sources == {Source(x) : x \in Applied}
<1>1. /\ projection.source \in Int /\ projection.revision \in Nat /\ Source(e) \in Int
      /\ \A x \in Events :
            Source(x) \in Int /\ (inbox[x] # "none" => Source(x) <= projection.source)
  BY SubscriptionAssumption, SourceTyped DEF Newest, Projections, ProjectionIsNewest
<1>2. IsFiniteSet(Sources) /\ IsFiniteSet(Applied)
  <2>1. Sources \subseteq 1..MaxSource
    BY SourceTyped DEF Applied
  <2>2. IsFiniteSet(1..MaxSource)
    BY SubscriptionAssumption, FS_Interval
  <2> HIDE DEF Sources
  <2> QED
    BY <2>1, <2>2, FS_Subset DEF Newest
<1>3. /\ \A x \in Events : inbox[x] # "none" => Source(x) <= projection.source
      /\ projection.revision = Cardinality(Applied)
      /\ Cardinality(Sources) = Cardinality(Applied)
      /\ Applied # {} =>
            projection.event \in Applied /\ Source(projection.event) = projection.source
  BY DEF Newest, ProjectionIsNewest, Applied
<1>4. CASE Source(e) < projection.source /\ inbox' = [inbox EXCEPT ![e] = "stale"]
                /\ UNCHANGED projection
  <2>1. /\ inbox' \in [Events -> {"none", "applied", "stale"}]
        /\ \A x \in Events : inbox'[x] # "none" => Source(x) <= projection.source
    BY <1>1, <1>3, <1>4 DEF Newest
  <2>2. Applied' = Applied
    BY <1>4 DEF Applied, Newest, Processed
  <2>3. ProjectionIsNewest'
    BY <1>3, <1>4, <2>1, <2>2 DEF ProjectionIsNewest, Applied
  <2> QED
    BY <1>1, <1>2, <1>4, <2>1, <2>2, <2>3 DEF Newest
<1>5. CASE /\ Source(e) > projection.source
           /\ inbox' = [inbox EXCEPT ![e] = "applied"]
           /\ projection' =
                 [revision |-> projection.revision + 1, source |-> Source(e), event |-> e]
  <2>1. /\ inbox' \in [Events -> {"none", "applied", "stale"}]
        /\ projection'.source = Source(e) /\ projection'.event = e
        /\ projection'.revision = projection.revision + 1
        /\ \A x \in Events : inbox'[x] # "none" => Source(x) <= Source(e)
    BY <1>1, <1>5 DEF Newest
  <2>2. Applied' = Applied \cup {e} /\ e \notin Applied
    BY <1>5 DEF Applied, Newest, Processed
  <2>3. {Source(x) : x \in Applied'} = Sources \cup {Source(e)}
    BY <2>2
  <2>4. Source(e) \notin Sources
    BY <1>1, <1>5 DEF Applied
  <2>5. IsFiniteSet(Applied') /\ Cardinality(Applied') = Cardinality(Applied) + 1
    BY <1>2, <2>2, FS_AddElement
  <2>6. Cardinality(Sources \cup {Source(e)}) = Cardinality(Sources) + 1
    <3> HIDE DEF Sources
    <3> QED
      BY <1>2, <2>4, FS_AddElement
  <2>7. Cardinality({Source(x) : x \in Applied'}) = Cardinality(Applied')
    BY <1>3, <2>3, <2>5, <2>6
  <2>8. projection'.revision = Cardinality(Applied')
    BY <1>3, <2>1, <2>5
  <2>9. ProjectionIsNewest'
    BY <2>1, <2>2, <2>7, <2>8 DEF ProjectionIsNewest, Applied
  <2>10. projection' \in Projections
    BY <1>1, <1>5, SourceTyped, SubscriptionAssumption DEF Projections
  <2> QED
    BY <1>1, <1>5, <2>1, <2>5, <2>9, <2>10 DEF Newest
<1> QED
  BY <1>4, <1>5 DEF Processed

\* The projection has no more revisions than there are source revisions, by counting.
LEMMA RevisionBounded ==
    ASSUME Newest
    PROVE  projection.revision \in 0..MaxSource
<1> DEFINE Sources == {Source(x) : x \in Applied}
<1>1. Sources \subseteq 1..MaxSource
  BY SourceTyped DEF Applied
<1>2. IsFiniteSet(1..MaxSource) /\ Cardinality(1..MaxSource) = MaxSource
  BY SubscriptionAssumption, FS_Interval
<1>3. projection.revision = Cardinality(Sources) /\ projection.revision \in Nat
  BY DEF Newest, ProjectionIsNewest, Applied, Projections
<1> HIDE DEF Sources
<1>4. Cardinality(Sources) <= MaxSource
  BY <1>1, <1>2, FS_Subset
<1> QED
  BY <1>3, <1>4, SubscriptionAssumption

-----------------------------------------------------------------------------
(***************************************************************************)
(* The access state.                                                       *)
(***************************************************************************)
\* A receipt is stored, and the access state is changed or left alone.
Recorded(slot, new) ==
    /\ receipt[slot].status = "none"
    /\ new \in Receipts /\ new.status = "stored"
    /\ receipt' = [receipt EXCEPT ![slot] = new]
    /\ \/ ~new.changed /\ UNCHANGED access
       \/ /\ new.changed /\ new.revision = access.revision + 1
          /\ access' \in Accesses /\ access'.revision = access.revision + 1
          /\ access'.billingPauseSuspended => access'.state = "suspended"
          /\ (slot[1] = "pause") = (access'.state = "suspended")

\* A receipt that is recorded accounts for the change of the access state that comes with it.
LEMMA AccountedKept ==
    ASSUME Accounted, NEW slot \in Slots, NEW new, Recorded(slot, new)
    PROVE  Accounted'
<1>1. /\ receipt' \in [Slots -> Receipts] /\ slot \notin Changing
      /\ receipt'[slot] = new
      /\ \A s \in Slots \ {slot} : receipt'[s] = receipt[s]
      /\ \A s \in Slots : receipt'[s].status = "none" => ~receipt'[s].changed
      /\ access.revision \in Nat
  BY DEF Accounted, Recorded, Changing, Accesses
<1>2. CASE ~new.changed /\ UNCHANGED access
  <2>1. Changing' = Changing
    BY <1>1, <1>2 DEF Changing
  <2>2. \A s \in Changing : receipt'[s] = receipt[s]
    BY <1>1 DEF Changing
  <2>3. {receipt'[s].revision : s \in Changing'} = {receipt[s].revision : s \in Changing}
    BY <2>1, <2>2
  <2> QED
    BY <1>1, <1>2, <2>1, <2>2, <2>3 DEF Accounted
<1>3. CASE /\ new.changed /\ new.revision = access.revision + 1
           /\ access' \in Accesses /\ access'.revision = access.revision + 1
           /\ access'.billingPauseSuspended => access'.state = "suspended"
           /\ (slot[1] = "pause") = (access'.state = "suspended")
  <2>1. Changing' = Changing \cup {slot}
    BY <1>1, <1>3 DEF Changing
  <2>2. \A s \in Changing : receipt'[s] = receipt[s]
    BY <1>1 DEF Changing
  <2>3. IsFiniteSet(Changing') /\ Cardinality(Changing') = Cardinality(Changing) + 1
    BY <1>1, <2>1, FS_AddElement DEF Accounted
  <2>4. {receipt'[s].revision : s \in Changing'} = (1..access.revision) \cup {new.revision}
    BY <1>1, <2>1, <2>2 DEF Accounted
  <2>5. (1..access.revision) \cup {new.revision} = 1..access'.revision
    BY <1>1, <1>3
  <2>6. ASSUME NEW s \in Changing', receipt'[s].revision = access'.revision
        PROVE  s = slot
    <3>1. CASE s \in Changing
      <4>1. receipt[s].revision \in 1..access.revision
        BY <3>1 DEF Accounted
      <4> QED
        BY <1>1, <1>3, <2>2, <2>6, <3>1, <4>1
    <3> QED
      BY <2>1, <3>1
  <2>7. \A s \in Changing' :
            receipt'[s].revision = access'.revision =>
                (s[1] = "pause") = (access'.state = "suspended")
    BY <1>3, <2>6
  <2>8. access'.revision = Cardinality(Changing')
    BY <1>3, <2>3 DEF Accounted
  <2> QED
    BY <1>1, <1>3, <2>3, <2>4, <2>5, <2>7, <2>8 DEF Accounted
<1> QED
  BY <1>2, <1>3 DEF Recorded

-----------------------------------------------------------------------------
(***************************************************************************)
(* The invariant is kept.                                                  *)
(***************************************************************************)
LEMMA NewestStays ==
    ASSUME Newest, UNCHANGED <<projection, inbox>>
    PROVE  Newest' /\ projection'.source >= projection.source
<1>1. projection.source \in Int
  BY SubscriptionAssumption DEF Newest, Projections
<1> QED
  BY <1>1 DEF Newest, Applied, ProjectionIsNewest

\* Without a write, receipts and access state still agree.
LEMMA AccountedStays ==
    ASSUME Accounted, UNCHANGED <<access, receipt>>
    PROVE  Accounted'
<1>1. Changing' = Changing
  BY DEF Changing
<1> QED
  BY <1>1 DEF Accounted

\* Without a write, changes and stored times still agree.
LEMMA AskedStays ==
    ASSUME Asked, UNCHANGED <<preview, changes>>
    PROVE  Asked'
BY DEF Asked

\* What the other workers have made sure of stays true, whatever one of them does.
LEMMA StagedKept ==
    ASSUME IInv, Newest', projection'.source >= projection.source,
           billing.done \subseteq billing'.done, NEW p \in Workers, Others(p), Stage(p)'
    PROVE  Staged'
<1>1. ASSUME NEW q \in Workers \ {p} PROVE Stage(q)'
  <2>1. /\ projection \in Projections /\ projection' \in Projections
        /\ seen[q].projection \in Projections /\ Stage(q)
    BY DEF IInv, Newest, Locals, Copies, Staged
  <2> QED
    BY <2>1, StageStays DEF Others
<1> QED
  BY <1>1 DEF Staged

\* A step that leaves what is stored, and the provider, alone.
LEMMA QuietKept ==
    ASSUME IInv, UNCHANGED <<stored, external>>, Locals', NEW p \in Workers, Others(p), Stage(p)'
    PROVE  IInv'
<1>1. Newest' /\ projection'.source >= projection.source
  BY NewestStays DEF IInv, stored
<1>2. Accounted' /\ Asked'
  BY AccountedStays, AskedStays DEF IInv, stored, external
<1>3. ReceiptsDone'
  BY DEF IInv, ReceiptsDone, stored, external
<1>4. Staged'
  BY <1>1, StagedKept DEF external
<1> QED
  BY <1>1, <1>2, <1>3, <1>4 DEF IInv

\* The reading and the transaction of an event (apply_verified_event).
LEMMA EventKept ==
    ASSUME IInv, NEW p \in Workers, ReadEvent(p) \/ ApplyEvent(p)
    PROVE  IInv'
<1>0. Locals /\ projection \in Projections /\ projection.source \in Int
  BY SubscriptionAssumption DEF IInv, Newest, Projections
<1>1. CASE ReadEvent(p)
  <2> DEFINE copy == [Nothing EXCEPT !.projection = projection]
  <2>1. PICK e \in Events : /\ Source(e) # projection.source
                            /\ Begin(p, [op |-> "event", event |-> e], "event", copy)
    BY <1>1 DEF ReadEvent
  <2>2. copy \in Copies /\ copy.projection = projection
    BY <1>0, NothingTyped DEF Copies
  <2> HIDE DEF copy
  <2>3. /\ pc'[p] = "event" /\ req'[p] = [op |-> "event", event |-> e] /\ seen'[p] = copy
        /\ Others(p) /\ Locals' /\ UNCHANGED <<stored, external>>
    BY <1>0, <2>1, <2>2, BeginIs DEF Steps
  <2>4. EventStage(p)'
    BY <1>0, <2>1, <2>2, <2>3 DEF EventStage, EventRequests, stored
  <2> QED
    BY <2>3, <2>4, QuietKept DEF Stage
<1>2. CASE ApplyEvent(p)
  <2> DEFINE e == req[p].event
             old == seen[p].projection
  <2>1. EventStage(p)
    BY <1>2 DEF ApplyEvent, IInv, Staged, Stage
  <2>2. /\ e \in Events /\ Source(e) # old.source /\ old.source <= projection.source
        /\ old.source \in Int /\ Source(e) \in Int
    BY <1>0, <2>1, SourceTyped, SubscriptionAssumption
       DEF EventStage, EventRequests, Locals, Copies, Projections
  <2>3. Processed(e)
    BY <1>0, <1>2, <2>2 DEF ApplyEvent, Processed, Stale, PutProjection
  <2>4. Newest' /\ projection'.source >= projection.source
    BY <2>2, <2>3, NewestKept DEF IInv
  <2>5. /\ UNCHANGED <<access, receipt, preview, external>> /\ pc'[p] = "idle"
        /\ Others(p) /\ Locals'
    BY <1>0, <1>2, EndIs DEF ApplyEvent
  <2>6. Accounted' /\ Asked' /\ ReceiptsDone'
    BY <2>5, AccountedStays, AskedStays DEF IInv, ReceiptsDone, external
  <2>7. Staged'
    BY <2>4, <2>5, StagedKept DEF external, Stage
  <2> QED
    BY <2>4, <2>5, <2>6, <2>7 DEF IInv
<1> QED
  BY <1>1, <1>2

\* The provider remembers every command that it takes.
LEMMA ProviderIs ==
    ASSUME NEW r, ProviderDoes(r)
    PROVE  billing.done \subseteq billing'.done /\ Identity(r) \in billing'.done
<1>1. CASE Identity(r) \in billing.done
  BY <1>1 DEF ProviderDoes
<1>2. CASE Identity(r) \notin billing.done
  BY <1>2 DEF ProviderDoes
<1> QED
  BY <1>1, <1>2

\* A pause or resume up to the write of the access state.
LEMMA CommandKept ==
    ASSUME IInv, NEW p \in Workers,
           StartAccess(p) \/ Execute(p) \/ LoseAnswer(p) \/ Replay(p) \/ ReadAccess(p)
    PROVE  IInv'
<1>0. Locals /\ Nothing \in Copies /\ access \in Accesses
  BY NothingTyped DEF IInv, Accounted
<1>1. CASE StartAccess(p)
  <2>1. PICK slot \in Slots, expected \in 1..MaxRevision, behavior \in Behaviors :
            Begin(p, [op |-> slot[1], slot |-> slot, expected |-> expected,
                      behavior |-> behavior], "gateway", Nothing)
    BY <1>1 DEF StartAccess
  <2> DEFINE r == [op |-> slot[1], slot |-> slot, expected |-> expected, behavior |-> behavior]
  <2>2. r \in AccessRequests /\ r.op = r.slot[1]
    BY DEF AccessRequests, Slots
  <2> HIDE DEF r
  <2>3. /\ pc'[p] = "gateway" /\ req'[p] = r
        /\ Others(p) /\ Locals' /\ UNCHANGED <<stored, external>>
    BY <1>0, <2>1, BeginIs DEF Steps, r
  <2>4. AccessStage(p)'
    BY <2>2, <2>3 DEF AccessStage
  <2> QED
    BY <2>3, <2>4, QuietKept DEF Stage
<1>2. CASE Execute(p) \/ LoseAnswer(p)
  <2>1. pc[p] = "gateway" /\ AccessStage(p) /\ ProviderDoes(req[p])
    BY <1>2 DEF Execute, LoseAnswer, IInv, Staged, Stage
  <2>2. billing.done \subseteq billing'.done /\ Identity(req[p]) \in billing'.done
    BY <2>1, ProviderIs
  <2>3. UNCHANGED <<stored, changes>>
    BY <1>2 DEF Execute, LoseAnswer
  <2>4. /\ Newest' /\ projection'.source >= projection.source /\ Accounted' /\ Asked'
        /\ ReceiptsDone'
    BY <2>2, <2>3, NewestStays, AccountedStays, AskedStays DEF IInv, stored, ReceiptsDone
  <2>5. Others(p) /\ Locals' /\ Stage(p)'
    <3>1. CASE Execute(p)
      <4>1. pc'[p] = "access" /\ req'[p] = req[p] /\ Others(p) /\ Locals'
        BY <1>0, <3>1, ContinueIs DEF Execute, Steps
      <4>2. AccessStage(p)'
        BY <2>1, <2>2, <4>1 DEF AccessStage, Identity
      <4> QED
        BY <4>1, <4>2 DEF Stage
    <3>2. CASE LoseAnswer(p)
      BY <1>0, <3>2, EndIs DEF LoseAnswer, Stage
    <3> QED
      BY <1>2, <3>1, <3>2
  <2> QED
    BY <2>2, <2>4, <2>5, StagedKept DEF IInv
<1>3. CASE Replay(p)
  BY <1>0, <1>3, EndIs, QuietKept DEF Replay, Stage
<1>4. CASE ReadAccess(p)
  <2> DEFINE copy == [Nothing EXCEPT !.access = access]
  <2>1. copy \in Copies
    BY <1>0 DEF Copies
  <2>2. pc[p] = "access" /\ AccessStage(p) /\ Continue(p, "write", copy)
        /\ UNCHANGED <<stored, external>>
    BY <1>4 DEF ReadAccess, IInv, Staged, Stage
  <2> HIDE DEF copy
  <2>3. pc'[p] = "write" /\ req'[p] = req[p] /\ Others(p) /\ Locals'
    BY <1>0, <2>1, <2>2, ContinueIs DEF Steps
  <2>4. AccessStage(p)'
    BY <2>2, <2>3 DEF AccessStage, Identity, external
  <2> QED
    BY <2>2, <2>3, <2>4, QuietKept DEF Stage
<1> QED
  BY <1>1, <1>2, <1>3, <1>4

\* The state after a command is another one only when its pause or resume takes effect.
LEMMA UpdatedIs ==
    ASSUME NEW r \in AccessRequests, NEW old \in Accesses, Updated(r, old) # old
    PROVE  LET new == Updated(r, old) IN
           /\ new \in Accesses /\ new.revision = old.revision + 1
           /\ new.billingPauseSuspended => new.state = "suspended"
           /\ (r.op = "pause") = (new.state = "suspended")
BY DEF Updated, Accesses, AccessRequests

\* The write of the access state, on the condition of the revision that was read.
LEMMA WriteKept ==
    ASSUME IInv, NEW p \in Workers, WriteAccess(p)
    PROVE  IInv'
<1> DEFINE r == req[p]
           slot == r.slot
           old == seen[p].access
           after == Updated(r, old)
           new == [status |-> "stored", expected |-> r.expected, behavior |-> r.behavior,
                   changed |-> after # old, revision |-> after.revision]
<1>1. /\ r \in AccessRequests /\ r.op = slot[1] /\ slot \in Slots
      /\ Identity(r) \in billing.done /\ old \in Accesses /\ Locals
  BY DEF WriteAccess, IInv, Staged, Stage, AccessStage, AccessRequests, Locals, Copies
<1>2. /\ receipt[slot].status = "none" /\ PutAccess(old, after)
      /\ receipt' = [receipt EXCEPT ![slot] = new]
      /\ UNCHANGED <<projection, inbox, preview, external>> /\ End(p)
  BY DEF WriteAccess
<1>3. /\ after # old => /\ after \in Accesses /\ after.revision = old.revision + 1
                        /\ after.billingPauseSuspended => after.state = "suspended"
                        /\ (r.op = "pause") = (after.state = "suspended")
      /\ after \in Accesses
  BY <1>1, UpdatedIs
<1>4. Recorded(slot, new)
  <2> HIDE DEF after
  <2>1. after.revision \in Nat /\ r.expected \in Nat /\ r.behavior \in Behaviors
    BY <1>1, <1>3 DEF Accesses, AccessRequests
  <2>2. new \in Receipts
    BY <2>1 DEF Receipts
  <2>3. CASE after # old
    BY <1>1, <1>2, <1>3, <2>2, <2>3 DEF Recorded, PutAccess
  <2>4. CASE after = old
    BY <1>2, <2>2, <2>4 DEF Recorded, PutAccess
  <2> QED
    BY <2>3, <2>4
<1>5. Accounted'
  BY <1>1, <1>4, AccountedKept DEF IInv
<1>6. Newest' /\ projection'.source >= projection.source /\ Asked'
  BY <1>2, NewestStays, AskedStays DEF IInv, external
<1>7. ReceiptsDone'
  <2> HIDE DEF new
  <2>1. ASSUME NEW s \in Slots, receipt'[s].status = "stored"
        PROVE  [op |-> s[1], expected |-> receipt'[s].expected,
                behavior |-> receipt'[s].behavior] \in billing'.done
    <3>1. CASE s = slot
      <4>1. receipt'[s] = new
        BY <1>2, <3>1 DEF IInv, Accounted
      <4>2. new.expected = r.expected /\ new.behavior = r.behavior
        BY DEF new
      <4> QED
        BY <1>1, <1>2, <3>1, <4>1, <4>2 DEF Identity, external
    <3>2. CASE s # slot
      BY <1>2, <2>1, <3>2 DEF IInv, Accounted, ReceiptsDone, external
    <3> QED
      BY <3>1, <3>2
  <2> QED
    BY <2>1 DEF ReceiptsDone
<1>8. Locals' /\ Others(p) /\ Stage(p)'
  BY <1>1, <1>2, EndIs DEF Stage
<1>9. Staged'
  BY <1>2, <1>6, <1>8, StagedKept DEF external
<1> QED
  BY <1>5, <1>6, <1>7, <1>8, <1>9 DEF IInv

\* A prorated change of plan (preview_timestamp).
LEMMA PlanKept ==
    ASSUME IInv, NEW p \in Workers, StartChange(p) \/ Preview(p)
    PROVE  IInv'
<1>0. Locals /\ Nothing \in Copies
  BY NothingTyped DEF IInv
<1>1. CASE StartChange(p)
  <2>1. PICK key \in PlanKeys :
            Begin(p, [op |-> "changePlan", key |-> key, time |-> now], "preview", Nothing)
    BY <1>1 DEF StartChange
  <2>2. /\ pc'[p] = "preview" /\ req'[p] = [op |-> "changePlan", key |-> key, time |-> now]
        /\ Others(p) /\ Locals' /\ UNCHANGED <<stored, external>>
    BY <1>0, <2>1, BeginIs DEF Steps
  <2>3. Stage(p)'
    BY <1>0, <2>2 DEF Stage, PlanRequests, Locals
  <2> QED
    BY <2>2, <2>3, QuietKept
<1>2. CASE Preview(p)
  <2> DEFINE r == req[p]
  <2>1. r.key \in PlanKeys /\ r.time \in 1..MaxTime
    BY <1>2 DEF Preview, IInv, Staged, Stage, PlanRequests
  <2>2. UNCHANGED <<projection, inbox, access, receipt, billing>> /\ End(p)
    BY <1>2 DEF Preview, Ask
  <2>3. Asked'
    <3>0. Asked
      BY DEF IInv
    <3>1. CASE /\ preview[r.key] = NoPreview
               /\ preview' = [preview EXCEPT ![r.key] = r.time]
               /\ Ask(p, r.time)
      <4>1. \A x \in changes : x.key # r.key
        BY <3>0, <3>1 DEF Asked, NoPreview
      <4> QED
        BY <2>1, <3>0, <3>1, <4>1 DEF Asked, Ask
    <3>2. CASE preview[r.key] # NoPreview /\ Ask(p, preview[r.key]) /\ UNCHANGED preview
      BY <2>1, <3>0, <3>2 DEF Asked, Ask, NoPreview
    <3> QED
      BY <1>2, <3>1, <3>2 DEF Preview
  <2>4. Newest' /\ projection'.source >= projection.source /\ Accounted' /\ ReceiptsDone'
    BY <2>2, NewestStays, AccountedStays DEF IInv, ReceiptsDone
  <2>5. Locals' /\ Others(p) /\ Stage(p)'
    BY <1>0, <2>2, EndIs DEF Stage
  <2>6. Staged'
    BY <2>2, <2>4, <2>5, StagedKept
  <2> QED
    BY <2>3, <2>4, <2>5, <2>6 DEF IInv
<1> QED
  BY <1>1, <1>2

\* The invariant holds initially.
LEMMA InitIInv == Init => IInv
<1> SUFFICES ASSUME Init PROVE IInv
  OBVIOUS
<1>1. Applied = {} /\ Changing = {}
  BY DEF Init, Applied, Changing, NoReceipt
<1>2. IsFiniteSet({}) /\ Cardinality({}) = 0
  BY FS_EmptySet
<1>3. Newest
  <2>1. {Source(e) : e \in Applied} = {}
    BY <1>1
  <2>2. projection.revision = 0 /\ \A e \in Events : inbox[e] = "none"
    BY DEF Init, NoProjection
  <2>3. ProjectionIsNewest
    BY <1>1, <1>2, <2>1, <2>2 DEF ProjectionIsNewest, Applied
  <2> QED
    BY <1>1, <1>2, <2>3, NothingTyped DEF Init, Newest
<1>4. Accounted
  <2>1. NoReceipt \in Receipts /\ NoReceipt.status = "none" /\ ~NoReceipt.changed
    BY DEF NoReceipt, Receipts
  <2>2. access.revision = 0 /\ ~access.billingPauseSuspended
    BY DEF Init, NoAccess
  <2>3. {receipt[slot].revision : slot \in Changing} = 1..access.revision
    BY <1>1, <2>2
  <2> QED
    BY <1>1, <1>2, <2>1, <2>2, <2>3, NothingTyped DEF Init, Accounted
<1>5. ReceiptsDone /\ Asked /\ Staged
  BY SubscriptionAssumption DEF Init, ReceiptsDone, NoReceipt, Asked, NoPreview, Staged, Stage
<1>6. Locals
  BY NothingTyped, SubscriptionAssumption DEF Init, Locals, Steps
<1> QED
  BY <1>3, <1>4, <1>5, <1>6 DEF IInv

\* Every step keeps the invariant.
LEMMA NextIInv == IInv /\ [Next]_vars => IInv'
<1> SUFFICES ASSUME IInv, [Next]_vars PROVE IInv'
  OBVIOUS
<1>1. ASSUME NEW p \in Workers, ReadEvent(p) \/ ApplyEvent(p) PROVE IInv'
  BY <1>1, EventKept
<1>2. ASSUME NEW p \in Workers,
             StartAccess(p) \/ Execute(p) \/ LoseAnswer(p) \/ Replay(p) \/ ReadAccess(p)
      PROVE  IInv'
  BY <1>2, CommandKept
<1>3. ASSUME NEW p \in Workers, WriteAccess(p) PROVE IInv'
  BY <1>3, WriteKept
<1>4. ASSUME NEW p \in Workers, StartChange(p) \/ Preview(p) PROVE IInv'
  BY <1>4, PlanKept
<1>5. ASSUME NEW p \in Workers, Abandon(p) PROVE IInv'
  BY <1>5, EndIs, QuietKept DEF Abandon, IInv, Stage
<1>6. CASE Tick \/ UNCHANGED vars
  <2>1. UNCHANGED <<stored, external, local>> /\ now' \in 1..MaxTime
    BY <1>6, SubscriptionAssumption DEF Tick, vars, IInv, Locals
  <2>2. Newest' /\ projection'.source >= projection.source /\ Accounted' /\ Asked' /\ ReceiptsDone'
    BY <2>1, NewestStays, AccountedStays, AskedStays DEF IInv, stored, external, ReceiptsDone
  <2>3. Locals'
    BY <2>1 DEF IInv, Locals, local
  <2>4. Staged'
    BY <2>1 DEF IInv, Staged, Stage, EventStage, AccessStage, Identity, stored, external, local
  <2> QED
    BY <2>2, <2>3, <2>4 DEF IInv
<1> QED
  BY <1>1, <1>2, <1>3, <1>4, <1>5, <1>6 DEF Next

\* Projection, inbox, access state, receipts and workers are as IInv says in every state that the
\* events and commands of subscription_storage.py and subscription_action.py can reach.
THEOREM Invariance == Spec => []IInv
BY InitIInv, NextIInv, PTL DEF Spec

\* The items keep a form that their readers take (_stored_projection, _stored_access,
\* _access_replay, _preview_replay), and the projection never has more revisions than there
\* are source revisions.
THEOREM TypeCorrect == Spec => []TypeOK
<1>1. IInv => TypeOK
  <2> SUFFICES ASSUME IInv PROVE TypeOK
    OBVIOUS
  <2>1. projection.revision \in 0..MaxSource
    BY RevisionBounded DEF IInv
  <2>2. /\ projection.source \in 0..MaxSource /\ projection.event \in Events \cup {<<>>}
        /\ inbox \in [Events -> {"none", "applied", "stale"}]
    BY DEF IInv, Newest, Projections
  <2>3. /\ access.state \in {"active", "suspended"} /\ access.billingPauseSuspended \in BOOLEAN
        /\ access.billingPauseSuspended => access.state = "suspended"
        /\ access.revision \in Nat
    BY DEF IInv, Accounted, Accesses
  <2>4. ASSUME NEW slot \in Slots
        PROVE  /\ receipt[slot].status \in {"none", "stored"}
               /\ receipt[slot].changed => receipt[slot].revision \in 1..access.revision
    BY DEF IInv, Accounted, Changing, Receipts
  <2> QED
    BY <2>1, <2>2, <2>3, <2>4 DEF TypeOK, IInv, Asked, Locals, Steps
<1> QED
  BY <1>1, Invariance, PTL

\* The projection is the newest event that was processed, its revision counts those that were
\* applied, and no two of them are of one source revision, however events are repeated and
\* reordered and whichever invocations read before others write (apply_verified_event).
THEOREM ProjectionNewest == Spec => []ProjectionIsNewest
BY Invariance, PTL DEF IInv, Newest

\* Each change of the access state is one receipt's, the receipts' revisions are an unbroken
\* sequence whose last says what the state is, and the provider has done every command that
\* has a receipt (apply_access_transition).
THEOREM EveryAccessAccounted == Spec => []AccessAccounted
<1>1. IInv => AccessAccounted
  BY DEF IInv, Accounted, ReceiptsDone, AccessAccounted, Changing
<1> QED
  BY <1>1, Invariance, PTL

\* Whatever calls are made under one key, Integrations is asked for one change at one time
\* (preview_timestamp).
THEOREM OneChangeAsked == Spec => []OnePlanChange
<1>1. IInv => OnePlanChange
  BY DEF IInv, Asked, OnePlanChange
<1> QED
  BY <1>1, Invariance, PTL
=============================================================================
