--------------------------- MODULE MigrationProofs ---------------------------
(***************************************************************************)
(* Proofs about Migration for every set of workers and keys, every choice  *)
(* of the states in which items come under review and of the outcomes, and *)
(* every bound on the job's revision.                                      *)
(*                                                                         *)
(* All arguments rest on one fact about the conditional writes (Copied): a *)
(* worker about to write holds the item itself, or an older one with a     *)
(* smaller storage revision, which the condition refuses. The item's next  *)
(* value is therefore one of four computed from its present one (Writes),  *)
(* and what the properties say is shown for these four.                    *)
(***************************************************************************)
EXTENDS Migration, TLAPS

CommandRecords == [op : Operations \cup {"none"}, status : Statuses, revision : Revisions]
Results ==
    [op : Operations \cup {"none"}, at : Revisions, status : Statuses, revision : Revisions]
Requests ==
    [op : Operations, key : Keys, revision : Revisions, expected : Nat, result : Results]
Receipts ==
    [status : {"none", "stored"}, request : Revisions, command : CommandRecords, answer : Answers]
Steps == {"idle", "create", "approve", "gateway", "record", "write"}

(***************************************************************************)
(* The inductive invariant.                                                *)
(***************************************************************************)
TypedItem == request \in Copies /\ receipt \in [Operations \X Keys -> Receipts]
TypedJob ==
    /\ job \in [state : States \cup {"absent"}, revision : Revisions, done : SUBSET Results]
    /\ jobStates \subseteq Revisions \X States
    /\ sent \subseteq SentEvents /\ inbox \subseteq sent
TypedAnswers == answered \subseteq (Operations \X Keys) \X Answers
TypedWorkers ==
    /\ pc \in [Workers -> Steps]
    /\ seen \in [Workers -> Copies]
    /\ req \in [Workers -> Requests \cup {Idle}]
    /\ \A p \in Workers : pc[p] # "idle" => req[p] \in Requests

\* The types of everything, among them what a worker carries while it is at work.
Typed == TypedItem /\ TypedJob /\ TypedAnswers /\ TypedWorkers

\* A copy of the item is the item as it is, or as it was at a smaller storage revision.
Older(p) ==
    /\ seen[p].storage <= request.storage
    /\ seen[p].storage = request.storage => seen[p] = request

\* What a worker that is about to write has made sure of.
Copied ==
    \A p \in Workers :
        /\ pc[p] = "create" => req[p].op = "preview"
        /\ pc[p] = "approve" =>
              Older(p) /\ seen[p].approval = "none" /\ seen[p].state = "awaiting_approval"
        /\ pc[p] = "write" => Older(p) /\ Valid(seen[p]) /\ Recordable(seen[p], p)

\* Where what is stored or on its way speaks of the job, it speaks of what was.
Believed ==
    /\ StateWasTheJobs
    /\ \A e \in sent :
          e.type # "item_needs_review" => <<e.revision, e.state>> \in jobStates
    /\ \A d \in job.done : d.status = "accepted" => <<d.revision, Target[d.op]>> \in jobStates
    /\ \A p \in Workers : pc[p] \in {"record", "write"} =>
          req[p].result \in job.done /\ req[p].result.op = req[p].op
    /\ ReceiptsAreTrue

\* A job that has started was approved, and so is one that a worker is about to start.
Allowed ==
    /\ StartedWithApproval
    /\ \A p \in Workers :
          pc[p] = "gateway" /\ req[p].op = "execute" => request.approval # "none"

\* Every answer is that of a receipt.
Answered ==
    \A a \in answered : receipt[a[1]].status = "stored" /\ receipt[a[1]].answer = a[2]

IInv == Typed /\ Copied /\ Believed /\ Allowed /\ Answered

-----------------------------------------------------------------------------
(***************************************************************************)
(* The tables.                                                             *)
(***************************************************************************)
LEMMA Tables ==
    /\ Operations = {"preview", "execute", "pause", "resume", "cancel"}
    /\ States = {"draft", "previewing", "awaiting_approval", "scheduled", "running", "paused",
                 "cancel_requested", "canceling", "completed", "completed_with_errors", "canceled"}
    /\ DOMAIN CONTROL_STATES = {"pause", "resume", "cancel"}
BY DEF Operations, Target, States, TRANSITIONS, CONTROL_STATES

\* A command leads to a state of the job, and never to its end.
LEMMA Targets ==
    ASSUME NEW op \in Operations
    PROVE  /\ Target[op] \in States \ {"draft", "canceled"}
           /\ Target[op] = "scheduled" => op = "execute"
<1>1. op \in {"preview", "execute", "pause", "resume", "cancel"}
  BY Tables
<1> QED
  BY <1>1, Tables DEF Target

\* Nothing follows a cancellation, and every state is followed by states.
LEMMA Successors ==
    /\ TRANSITIONS["canceled"] = {}
    /\ \A s \in States : TRANSITIONS[s] \subseteq States
<1>1. TRANSITIONS["canceled"] = {}
  BY DEF TRANSITIONS
<1>2. ASSUME NEW s \in States PROVE TRANSITIONS[s] \subseteq States
  BY Tables DEF TRANSITIONS, Terminal
<1> QED
  BY <1>1, <1>2

-----------------------------------------------------------------------------
(***************************************************************************)
(* The four values a write gives the item, the first of which is Draft.    *)
(***************************************************************************)
\* An item stays one of its type when one of its fields takes a value of the field's.
LEMMA FieldSet ==
    ASSUME NEW x \in Copies
    PROVE  /\ \A v \in States \cup {"absent"} : [x EXCEPT !.state = v] \in Copies
           /\ \A v \in Revisions : [x EXCEPT !.revision = v] \in Copies
           /\ \A v \in Revisions : [x EXCEPT !.stateRevision = v] \in Copies
           /\ \A v \in Nat : [x EXCEPT !.storage = v] \in Copies
           /\ \A v \in BOOLEAN : [x EXCEPT !.dryRun = v] \in Copies
           /\ \A v \in Keys \cup {"none"} : [x EXCEPT !.approval = v] \in Copies
           /\ \A v \in CommandRecords : [x EXCEPT !.command = v] \in Copies
           /\ \A v \in [revision : Revisions, state : States \cup {"none"}] :
                 [x EXCEPT !.progress = v] \in Copies
           /\ x.storage + 1 \in Nat
BY DEF Copies, CommandRecords

\* The item of a new migration, and the absent one, have the item's type.
LEMMA DraftIs == Draft \in Copies /\ Absent \in Copies
<1>1. MaxRevision \in Nat
  BY MigrationAssumption
<1>2. Absent \in Copies
  BY <1>1 DEF Absent, Copies, Revisions, NoCommand, NoProgress, Statuses
<1>3. "draft" \in States
  BY Tables
<1>4. [Absent EXCEPT !.state = "draft"] \in Copies
  BY <1>2, <1>3, FieldSet
<1>5. Draft = [[Absent EXCEPT !.state = "draft"] EXCEPT !.storage = 1]
  BY DEF Draft
<1>6. Draft \in Copies
  BY <1>4, <1>5, FieldSet
<1> QED
  BY <1>2, <1>6

\* What storing the approval makes of the item.
LEMMA ApprovedIs ==
    ASSUME NEW p \in Workers, seen[p] \in Copies, req[p] \in Requests
    PROVE  LET new == Approved(p) IN
           /\ new \in Copies
           /\ new.storage = seen[p].storage + 1
           /\ new.approval = req[p].key
           /\ new.state = seen[p].state /\ new.revision = seen[p].revision
           /\ new.stateRevision = seen[p].stateRevision /\ new.dryRun = seen[p].dryRun
           /\ new.command = seen[p].command /\ new.progress = seen[p].progress
<1>1. req[p].key \in Keys \cup {"none"}
  BY DEF Requests
<1> DEFINE old == [seen[p] EXCEPT !.approval = req[p].key]
<1>2. old \in Copies
  BY <1>1 DEF Copies
<1>3. Approved(p) = [old EXCEPT !.storage = seen[p].storage + 1]
  BY DEF Approved
<1>4. Approved(p) \in Copies
  BY <1>2, <1>3, FieldSet
<1> QED
  BY <1>4 DEF Approved, Copies

\* A result that is older than the item only leaves its command on it.
LEMMA NotedIs ==
    ASSUME NEW x \in Copies, NEW p \in Workers, req[p] \in Requests
    PROVE  LET new == Noted(x, p) IN
           /\ new \in Copies
           /\ new.storage = x.storage + 1 /\ new.command = Command(p)
           /\ new.state = x.state /\ new.revision = x.revision
           /\ new.stateRevision = x.stateRevision
           /\ new.approval = x.approval /\ new.dryRun = x.dryRun
           /\ new.progress = x.progress
<1>1. Command(p) \in CommandRecords
  BY DEF Command, Requests, Results, CommandRecords
<1> DEFINE old == [x EXCEPT !.command = Command(p)]
<1>2. old \in Copies
  BY <1>1 DEF Copies, CommandRecords
<1>3. Noted(x, p) = [old EXCEPT !.storage = x.storage + 1]
  BY DEF Noted
<1>4. Noted(x, p) \in Copies
  BY <1>2, <1>3, FieldSet
<1> QED
  BY <1>4 DEF Noted, Copies

\* A result that is newer than the item brings its revision, and its state if it was accepted.
LEMMA MovedIs ==
    ASSUME NEW r \in Copies, NEW p \in Workers, req[p] \in Requests
    PROVE  LET new == Moved(r, p) IN
           /\ new \in Copies
           /\ new.storage = r.storage
           /\ new.approval = r.approval /\ new.dryRun = r.dryRun
           /\ new.progress = r.progress
           /\ new.revision = req[p].result.revision
           /\ IF req[p].result.status = "accepted"
              THEN new.state = Target[req[p].op] /\ new.stateRevision = req[p].result.revision
              ELSE new.state = r.state /\ new.stateRevision = r.stateRevision
<1> DEFINE n == req[p].result.revision
           one == [r EXCEPT !.revision = n]
           two == [one EXCEPT !.stateRevision = n]
           three == [two EXCEPT !.state = Target[req[p].op]]
<1>1. n \in Revisions /\ Target[req[p].op] \in States \cup {"absent"}
  BY Targets DEF Requests, Results
<1>2. one \in Copies
  BY <1>1 DEF Copies
<1>3. two \in Copies
  BY <1>1, <1>2 DEF Copies
<1>4. three \in Copies
  BY <1>1, <1>3 DEF Copies
<1>5. Moved(r, p) = IF req[p].result.status = "accepted" THEN three ELSE one
  BY DEF Moved
<1>6. Moved(r, p) \in Copies
  BY <1>2, <1>4, <1>5
<1> QED
  BY <1>6 DEF Moved, Copies

\* What recording a result makes of the item.
LEMMA UpdatedIs ==
    ASSUME NEW r \in Copies, NEW p \in Workers, req[p] \in Requests
    PROVE  LET n == req[p].result.revision
               new == Updated(r, p)
           IN  /\ new \in Copies
               /\ new.storage = r.storage + 1
               /\ new.approval = r.approval /\ new.dryRun = r.dryRun
               /\ new.command = Command(p) /\ new.progress = r.progress
               /\ new.revision = IF n > r.revision THEN n ELSE r.revision
               /\ IF n > r.revision /\ req[p].result.status = "accepted"
                  THEN new.state = Target[req[p].op] /\ new.stateRevision = n
                  ELSE new.state = r.state /\ new.stateRevision = r.stateRevision
<1>1. CASE req[p].result.revision > r.revision
  <2>1. Moved(r, p) \in Copies /\ Updated(r, p) = Noted(Moved(r, p), p)
    BY <1>1, MovedIs DEF Updated
  <2>2. /\ Updated(r, p) \in Copies
        /\ Updated(r, p).storage = Moved(r, p).storage + 1
        /\ Updated(r, p).command = Command(p)
        /\ Updated(r, p).state = Moved(r, p).state
        /\ Updated(r, p).revision = Moved(r, p).revision
        /\ Updated(r, p).stateRevision = Moved(r, p).stateRevision
        /\ Updated(r, p).approval = Moved(r, p).approval
        /\ Updated(r, p).dryRun = Moved(r, p).dryRun
        /\ Updated(r, p).progress = Moved(r, p).progress
    BY <2>1, NotedIs
  <2> QED
    BY <1>1, <2>2, MovedIs
<1>2. CASE ~(req[p].result.revision > r.revision)
  BY <1>2, NotedIs DEF Updated
<1> QED
  BY <1>1, <1>2

\* What applying an event makes of the item.
LEMMA AppliedIs ==
    ASSUME NEW r \in Copies, NEW e \in SentEvents, EventState(r, e) \in States \cup {"absent"}
    PROVE  LET new == Applied(r, e)
           IN  /\ new \in Copies
               /\ new.storage = r.storage + 1
               /\ new.approval = r.approval /\ new.command = r.command
               /\ new.dryRun = (r.dryRun \/ e.type = "preview_ready")
               /\ new.progress.revision =
                     IF e.type = "progressed" THEN e.revision ELSE r.progress.revision
               /\ new.revision = e.revision
               /\ new.state = EventState(r, e)
               /\ new.stateRevision =
                     IF EventState(r, e) # r.state THEN e.revision ELSE r.stateRevision
<1> DEFINE state == EventState(r, e)
           at == IF state # r.state THEN e.revision ELSE r.stateRevision
           dry == (r.dryRun \/ e.type = "preview_ready")
           progress == IF e.type = "progressed"
                       THEN [revision |-> e.revision, state |-> e.state] ELSE r.progress
           one == [r EXCEPT !.state = state]
           two == [one EXCEPT !.revision = e.revision]
           three == [two EXCEPT !.stateRevision = at]
           four == [three EXCEPT !.dryRun = dry]
           five == [four EXCEPT !.progress = progress]
           six == [five EXCEPT !.storage = r.storage + 1]
<1>1. e.revision \in Revisions /\ at \in Revisions /\ dry \in BOOLEAN
  BY DEF SentEvents, Copies
<1>2. progress \in [revision : Revisions, state : States \cup {"none"}]
  BY DEF SentEvents, Copies
<1>3. one \in Copies
  BY FieldSet
<1>4. two \in Copies
  BY <1>1, <1>3, FieldSet
<1>5. three \in Copies
  BY <1>1, <1>4, FieldSet
<1>6. four \in Copies
  BY <1>1, <1>5, FieldSet
<1>7. five \in Copies
  BY <1>2, <1>6, FieldSet
<1>8. six \in Copies /\ r.storage + 1 \in Nat
  BY <1>7, FieldSet
<1>9. Applied(r, e) = six
  BY DEF Applied
<1> QED
  BY <1>8, <1>9 DEF Copies

-----------------------------------------------------------------------------
(***************************************************************************)
(* Types.                                                                  *)
(***************************************************************************)
LEMMA TypedImpliesTypeOK == Typed => TypeOK
<1> SUFFICES ASSUME Typed PROVE TypeOK
  OBVIOUS
<1>1. \A s \in DOMAIN receipt :
          receipt[s].status \in {"none", "stored"} /\ receipt[s].answer \in Answers
  BY DEF Typed, TypedItem, Receipts
<1>2. job.state \in States \cup {"absent"} /\ job.revision \in Revisions
  BY DEF Typed, TypedJob
<1> QED
  BY <1>1, <1>2 DEF Typed, TypedItem, TypedJob, TypedAnswers, TypedWorkers, TypeOK

\* The types hold initially.
LEMMA InitTyped == Init => Typed
<1> SUFFICES ASSUME Init PROVE Typed
  OBVIOUS
<1>1. MaxRevision \in Nat /\ 0 \in Revisions
  BY MigrationAssumption DEF Revisions
<1>2. NoCommand \in CommandRecords
  BY <1>1 DEF NoCommand, CommandRecords, Statuses
<1>3. Projection(Absent) \in Answers
  BY <1>1 DEF Projection, Absent, NoCommand, Answers, Statuses
<1>4. [status |-> "none", request |-> 0, command |-> NoCommand, answer |-> Projection(Absent)]
        \in Receipts
  BY <1>1, <1>2, <1>3 DEF Receipts
<1>5. TypedItem
  BY <1>4, DraftIs DEF Init, TypedItem
<1>6. TypedJob
  BY <1>1 DEF Init, TypedJob
<1>7. TypedAnswers
  BY DEF Init, TypedAnswers
<1>8. TypedWorkers
  BY DraftIs DEF Init, TypedWorkers, Steps
<1> QED
  BY <1>5, <1>6, <1>7, <1>8 DEF Typed

\* A worker that ends, and one that goes on with a request and a copy of their types.
LEMMA EndTyped ==
    ASSUME TypedWorkers, NEW p \in Workers, End(p)
    PROVE  TypedWorkers'
BY DraftIs DEF TypedWorkers, End, Steps

\* A worker that goes on with a typed copy and a typed request is typed.
LEMMA StepTyped ==
    ASSUME TypedWorkers, NEW p \in Workers, NEW c \in Requests, NEW step \in Steps,
           NEW r \in Copies, Goto(p, step, r),
           req' = [req EXCEPT ![p] = c] \/ (req' = req /\ pc[p] # "idle")
    PROVE  TypedWorkers'
BY DEF TypedWorkers, Goto

\* A command is a typed request.
LEMMA CommandTyped ==
    ASSUME NEW c \in Commands
    PROVE  c \in Requests /\ c.op \in Operations /\ c.key \in Keys /\ c.revision \in Revisions
<1>1. MaxRevision \in Nat
  BY MigrationAssumption
<1>2. NoResult \in Results
  BY <1>1 DEF NoResult, Results, Statuses, Revisions
<1> QED
  BY <1>1, <1>2 DEF Commands, Requests, Revisions

\* A worker that goes to the gateway is typed.
LEMMA ToGatewayTyped ==
    ASSUME Typed, NEW p \in Workers, NEW c \in Requests, NEW r \in Copies, ToGateway(p, c, r)
    PROVE  TypedWorkers' /\ (request' \in Copies => Typed')
<1> DEFINE n == IF c.op = "execute" THEN r.revision + 1 ELSE c.revision + 1
<1>1. n \in Nat
  BY MigrationAssumption DEF Requests, Copies, Revisions
<1>2. [c EXCEPT !.expected = n] \in Requests
  BY <1>1 DEF Requests
<1>3. TypedWorkers'
  BY <1>2, StepTyped, DraftIs DEF Typed, ToGateway, Steps
<1> QED
  BY <1>3 DEF ToGateway, Typed, TypedItem, TypedJob, TypedAnswers, external

\* What the job enters, or remembers, is of its type.
LEMMA JobTyped ==
    ASSUME Typed, NEW state \in States, NEW revision \in Nat, NEW done \in SUBSET Results,
           JobEnters(state, revision, done)
    PROVE  /\ job' \in [state : States \cup {"absent"}, revision : Revisions, done : SUBSET Results]
           /\ jobStates' \subseteq Revisions \X States
           /\ sent \subseteq sent' /\ sent' \subseteq SentEvents
<1>1. revision \in Revisions
  BY MigrationAssumption DEF JobEnters, Revisions
<1>2. Event(state, revision) \in SentEvents
  BY <1>1 DEF Event, SentEvents
<1> QED
  BY <1>1, <1>2 DEF JobEnters, Typed, TypedJob

\* A step of the job keeps the types.
LEMMA JobMovesTyped ==
    ASSUME Typed, JobMoves
    PROVE  Typed'
<1>1. job.revision + 1 \in Nat /\ job.revision \in Nat /\ job.done \in SUBSET Results
  BY MigrationAssumption DEF Typed, TypedJob, Revisions
<1>2. PICK state \in States, revision \in Nat : JobEnters(state, revision, job.done)
  BY <1>1, Tables, MigrationAssumption DEF JobMoves
<1>3. TypedJob'
  BY <1>1, <1>2, JobTyped DEF JobMoves, stored, Typed, TypedJob
<1> QED
  BY <1>3 DEF Typed, TypedItem, TypedAnswers, TypedWorkers, JobMoves, stored, local

\* An item of the job that comes under review keeps the types.
LEMMA JobReviewsTyped ==
    ASSUME Typed, JobReviews
    PROVE  Typed'
<1>1. Review(job.revision) \in SentEvents
  BY DEF Review, SentEvents, Typed, TypedJob
<1>2. TypedJob'
  BY <1>1 DEF JobReviews, stored, Typed, TypedJob
<1> QED
  BY <1>2 DEF Typed, TypedItem, TypedAnswers, TypedWorkers, JobReviews, stored, local

\* A command that the job takes keeps its types.
LEMMA JobTakesTyped ==
    ASSUME Typed, NEW op \in Operations, NEW at \in Revisions, JobTakes(op, at)
    PROVE  /\ job' \in [state : States \cup {"absent"}, revision : Revisions, done : SUBSET Results]
           /\ jobStates' \subseteq Revisions \X States
           /\ sent \subseteq sent' /\ sent' \subseteq SentEvents
<1>1. job.revision \in Nat /\ job.revision \in Revisions /\ job.done \in SUBSET Results
  BY MigrationAssumption DEF Typed, TypedJob, Revisions
<1>2. CASE JobEnters(Target[op], job.revision + 1,
                     job.done \cup {Done(op, at, "accepted", job.revision + 1)})
  <2>1. job.revision + 1 \in Revisions
    BY <1>1, <1>2, MigrationAssumption DEF JobEnters, Revisions
  <2>2. Done(op, at, "accepted", job.revision + 1) \in Results
    BY <2>1 DEF Done, Results, Statuses
  <2>3. job.revision + 1 \in Nat /\ Target[op] \in States
    BY <1>1, Targets
  <2> QED
    BY <1>1, <1>2, <2>2, <2>3, JobTyped
<1>3. CASE /\ job' = [job EXCEPT !.done = @ \cup {Done(op, at, "needs_review", job.revision)}]
           /\ UNCHANGED <<jobStates, sent>>
  <2>1. Done(op, at, "needs_review", job.revision) \in Results
    BY <1>1 DEF Done, Results, Statuses
  <2> QED
    BY <1>1, <1>3, <2>1 DEF Typed, TypedJob
<1> QED
  BY <1>2, <1>3 DEF JobTakes

\* A call of the gateway keeps the types.
LEMMA ExecuteTyped ==
    ASSUME Typed, NEW p \in Workers, Execute(p)
    PROVE  Typed'
<1>1. req[p] \in Requests /\ req[p].op \in Operations /\ req[p].revision \in Revisions
  BY DEF Execute, Typed, TypedWorkers, Requests
<1>2. /\ job' \in [state : States \cup {"absent"}, revision : Revisions, done : SUBSET Results]
      /\ jobStates' \subseteq Revisions \X States
      /\ sent \subseteq sent' /\ sent' \subseteq SentEvents
  <2>1. CASE UNCHANGED external
    BY <2>1 DEF external, Typed, TypedJob
  <2>2. CASE JobTakes(req[p].op, req[p].revision)
    BY <1>1, <2>2, JobTakesTyped
  <2> QED
    BY <2>1, <2>2 DEF Execute
<1>3. TypedJob'
  BY <1>2 DEF Execute, stored, Typed, TypedJob
<1>4. PICK result \in job'.done :
          \/ /\ pc' = [pc EXCEPT ![p] = "record"]
             /\ req' = [req EXCEPT ![p].result = result]
             /\ UNCHANGED seen
          \/ End(p)
  BY DEF Execute
<1>5. result \in Results
  BY <1>2, <1>4
<1>6. TypedWorkers'
  <2>1. CASE End(p)
    BY <2>1, EndTyped DEF Typed
  <2>2. CASE /\ pc' = [pc EXCEPT ![p] = "record"]
             /\ req' = [req EXCEPT ![p].result = result]
             /\ UNCHANGED seen
    <3>1. [req[p] EXCEPT !.result = result] \in Requests
      BY <1>1, <1>5 DEF Requests
    <3>2. req' = [req EXCEPT ![p] = [req[p] EXCEPT !.result = result]]
      BY <2>2
    <3> QED
      BY <2>2, <3>1, <3>2 DEF Typed, TypedWorkers, Steps
  <2> QED
    BY <1>4, <2>1, <2>2
<1> QED
  BY <1>3, <1>6 DEF Typed, TypedItem, TypedAnswers, Execute, stored

\* The state an applicable event brings the item to.
LEMMA EventStates ==
    ASSUME NEW r, Valid(r), NEW e \in SentEvents, Applicable(r, e)
    PROVE  EventState(r, e) \in States
BY Successors DEF Applicable, Valid

\* An event that is applied keeps the types (apply_verified_event).
LEMMA DeliverTyped ==
    ASSUME Typed, NEW e \in sent, Deliver(e)
    PROVE  Typed'
<1>1. e \in SentEvents /\ request \in Copies
  BY DEF Typed, TypedItem, TypedJob
<1>2. request' \in Copies
  <2>1. CASE UNCHANGED request
    BY <1>1, <2>1
  <2>2. CASE Applicable(request, e) /\ request' = Applied(request, e)
    BY <1>1, <2>2, EventStates, AppliedIs DEF Deliver
  <2> QED
    BY <2>1, <2>2 DEF Deliver
<1>3. inbox' \subseteq sent'
  BY DEF Deliver, external, Typed, TypedJob
<1> QED
  BY <1>2, <1>3
     DEF Deliver, external, local, Typed, TypedItem, TypedJob, TypedAnswers, TypedWorkers

\* An answer from a receipt keeps the types.
LEMMA AnswerTyped ==
    ASSUME Typed, NEW p \in Workers, NEW c \in Requests, AnswerAgain(p, c)
    PROVE  Typed'
<1>1. Slot(c) \in Operations \X Keys /\ AnswerOfReceipt(c) \in Answers
  BY DEF Slot, AnswerOfReceipt, Requests, Typed, TypedItem, Receipts
<1>2. TypedAnswers'
  BY <1>1 DEF AnswerAgain, Typed, TypedAnswers
<1>3. TypedWorkers'
  BY EndTyped DEF AnswerAgain, Typed
<1> QED
  BY <1>2, <1>3 DEF AnswerAgain, stored, external, Typed, TypedItem, TypedJob

\* A worker that begins keeps the types.
LEMMA BeginTyped ==
    ASSUME Typed, NEW p \in Workers, NEW c \in Requests, NEW step \in Steps, Begin(p, c, step)
    PROVE  Typed'
<1>1. TypedWorkers'
  BY StepTyped DEF Begin, Typed, TypedItem
<1> QED
  BY <1>1 DEF Begin, stored, external, Typed, TypedItem, TypedJob, TypedAnswers

\* Reading, and reading again, at the end of a command.
LEMMA RecordStepsTyped ==
    ASSUME Typed, NEW p \in Workers, RecordRead(p) \/ RecordAgain(p)
    PROVE  Typed'
<1>1. TypedWorkers'
  <2>1. pc[p] # "idle" /\ req' = req /\ req[p] \in Requests /\ request \in Copies
    BY DEF RecordRead, RecordAgain, Typed, TypedItem, TypedWorkers
  <2>2. PICK step \in Steps, r \in Copies : Goto(p, step, r)
    BY <2>1, DraftIs DEF RecordRead, RecordAgain, Steps
  <2> QED
    BY <2>1, <2>2, StepTyped DEF Typed
<1> QED
  BY <1>1 DEF RecordRead, RecordAgain, stored, external, Typed, TypedItem, TypedJob, TypedAnswers

\* What a caller is told of an item is an answer.
LEMMA ProjectionTyped ==
    ASSUME NEW r \in Copies
    PROVE  Projection(r) \in Answers
BY DEF Projection, Answers, Copies

\* The transaction of a command's result keeps the types (record_command_result).
LEMMA RecordTyped ==
    ASSUME Typed, NEW p \in Workers, Record(p)
    PROVE  Typed'
<1>1. req[p] \in Requests /\ seen[p] \in Copies
  BY DEF Record, Typed, TypedWorkers
<1>2. Updated(seen[p], p) \in Copies
  BY <1>1, UpdatedIs
<1>3. Projection(Updated(seen[p], p)) \in Answers
  BY <1>2, ProjectionTyped
<1>4. Slot(req[p]) \in Operations \X Keys
  BY <1>1 DEF Slot, Requests
<1>5. Command(p) \in CommandRecords
  BY <1>1 DEF Command, Requests, Results, CommandRecords
<1>6. [status |-> "stored", request |-> req[p].revision, command |-> Command(p),
       answer |-> Projection(Updated(seen[p], p))] \in Receipts
  BY <1>1, <1>3, <1>5 DEF Receipts, Requests
<1>7. TypedItem'
  BY <1>2, <1>6 DEF Record, Put, PutReceipt, Typed, TypedItem
<1>8. TypedAnswers'
  BY <1>3, <1>4 DEF Record, Typed, TypedAnswers
<1>9. TypedWorkers'
  BY EndTyped DEF Record, Typed
<1> QED
  BY <1>7, <1>8, <1>9 DEF Record, external, Typed, TypedJob

\* Every step of a worker keeps the types.
LEMMA OperateTyped ==
    ASSUME Typed, NEW p \in Workers, Operate(p)
    PROVE  Typed'
<1> USE CommandTyped
<1>0. request \in Copies /\ Draft \in Copies
  BY DraftIs DEF Typed, TypedItem
<1>1. CASE Replay(p)
  BY <1>1, AnswerTyped DEF Replay
<1>2. CASE PreparePreview(p)
  <2>1. PICK c \in Commands :
            \/ Begin(p, c, "create")
            \/ ToGateway(p, c, request) /\ UNCHANGED request
    BY <1>2 DEF PreparePreview
  <2>2. CASE Begin(p, c, "create")
    BY <2>2, BeginTyped DEF Steps
  <2>3. CASE ToGateway(p, c, request) /\ UNCHANGED request
    BY <1>0, <2>3, ToGatewayTyped
  <2> QED
    BY <2>1, <2>2, <2>3
<1>3. CASE Create(p)
  <2>1. req[p] \in Requests
    BY <1>3 DEF Create, Typed, TypedWorkers
  <2> QED
    BY <1>0, <1>3, <2>1, ToGatewayTyped DEF Create
<1>4. CASE PrepareExecute(p)
  <2>1. PICK c \in Commands :
            \/ Begin(p, c, "approve")
            \/ ToGateway(p, c, request) /\ UNCHANGED request
    BY <1>4 DEF PrepareExecute
  <2>2. CASE Begin(p, c, "approve")
    BY <2>2, BeginTyped DEF Steps
  <2>3. CASE ToGateway(p, c, request) /\ UNCHANGED request
    BY <1>0, <2>3, ToGatewayTyped
  <2> QED
    BY <2>1, <2>2, <2>3
<1>5. CASE Approve(p)
  <2>1. req[p] \in Requests /\ seen[p] \in Copies
    BY <1>5 DEF Approve, Typed, TypedWorkers
  <2>2. Approved(p) \in Copies
    BY <2>1, ApprovedIs
  <2> QED
    BY <1>0, <1>5, <2>1, <2>2, ToGatewayTyped DEF Approve
<1>6. CASE PrepareControl(p)
  BY <1>0, <1>6, ToGatewayTyped DEF PrepareControl
<1>7. CASE Execute(p)
  BY <1>7, ExecuteTyped
<1>8. CASE RecordReplay(p)
  <2>1. req[p] \in Requests
    BY <1>8 DEF RecordReplay, Typed, TypedWorkers
  <2> QED
    BY <1>8, <2>1, AnswerTyped DEF RecordReplay
<1>9. CASE RecordRead(p) \/ RecordAgain(p)
  BY <1>9, RecordStepsTyped
<1>10. CASE Record(p)
  BY <1>10, RecordTyped
<1> QED
  BY <1>1, <1>2, <1>3, <1>4, <1>5, <1>6, <1>7, <1>8, <1>9, <1>10 DEF Operate

\* Every step keeps the types.
LEMMA NextTyped ==
    ASSUME Typed, [Next]_vars
    PROVE  Typed'
<1>1. CASE JobMoves
  BY <1>1, JobMovesTyped
<1>2. CASE JobReviews
  BY <1>2, JobReviewsTyped
<1>3. CASE \E e \in sent : Deliver(e)
  BY <1>3, DeliverTyped
<1>4. ASSUME NEW p \in Workers, Operate(p) PROVE Typed'
  BY <1>4, OperateTyped
<1>5. ASSUME NEW p \in Workers, Abandon(p) PROVE Typed'
  <2>1. TypedWorkers'
    BY <1>5, EndTyped DEF Abandon, Typed
  <2> QED
    BY <1>5, <2>1 DEF Abandon, stored, external, Typed, TypedItem, TypedJob, TypedAnswers
<1>6. CASE UNCHANGED vars
  BY <1>6 DEF vars, stored, external, local, Typed, TypedItem, TypedJob, TypedAnswers,
              TypedWorkers
<1> QED
  BY <1>1, <1>2, <1>3, <1>4, <1>5, <1>6 DEF Next

-----------------------------------------------------------------------------
(***************************************************************************)
(* What a step does to the item and to a worker.                           *)
(***************************************************************************)
LEMMA Writes ==
    ASSUME Typed, Copied, [Next]_vars
    PROVE  \/ UNCHANGED request
           \/ request = Absent /\ request' = Draft
           \/ \E p \in Workers :
                 /\ pc[p] = "approve" /\ request = seen[p] /\ request.approval = "none"
                 /\ request.state = "awaiting_approval"
                 /\ request' = Approved(p)
           \/ \E p \in Workers :
                 /\ pc[p] = "write" /\ request = seen[p]
                 /\ Valid(request) /\ Recordable(request, p)
                 /\ request' = Updated(request, p)
           \/ \E e \in sent :
                 /\ Valid(request) /\ Bound(request)
                 /\ ~Stale(request, e) /\ Applicable(request, e)
                 /\ request' = Applied(request, e)
<1>1. CASE JobMoves \/ JobReviews \/ UNCHANGED vars
  BY <1>1 DEF JobMoves, JobReviews, vars, stored
<1>2. CASE \E e \in sent : Deliver(e)
  BY <1>2 DEF Deliver
<1>3. ASSUME NEW p \in Workers, Operate(p)
      PROVE  \/ UNCHANGED request
             \/ request = Absent /\ request' = Draft
             \/ /\ pc[p] = "approve" /\ request = seen[p] /\ request.approval = "none"
                /\ request.state = "awaiting_approval"
                /\ request' = Approved(p)
             \/ /\ pc[p] = "write" /\ request = seen[p]
                /\ Valid(request) /\ Recordable(request, p)
                /\ request' = Updated(request, p)
  <2>1. CASE Replay(p) \/ RecordReplay(p)
    BY <2>1 DEF Replay, RecordReplay, AnswerAgain, stored
  <2>2. CASE PreparePreview(p) \/ PrepareExecute(p) \/ PrepareControl(p)
    BY <2>2 DEF PreparePreview, PrepareExecute, PrepareControl, Begin, stored
  <2>3. CASE Create(p)
    BY <2>3 DEF Create
  <2>4. CASE Approve(p)
    BY <2>4 DEF Approve, Copied, Older
  <2>5. CASE Execute(p) \/ RecordRead(p) \/ RecordAgain(p)
    BY <2>5 DEF Execute, RecordRead, RecordAgain, stored
  <2>6. CASE Record(p)
    BY <2>6 DEF Record, Put, Copied, Older
  <2> QED
    BY <1>3, <2>1, <2>2, <2>3, <2>4, <2>5, <2>6 DEF Operate
<1>4. ASSUME NEW p \in Workers, Abandon(p) PROVE UNCHANGED request
  BY <1>4 DEF Abandon, stored
<1> QED
  BY <1>1, <1>2, <1>3, <1>4 DEF Next

\* What a worker may come to in a step, and what it has made sure of then.
LEMMA Locals ==
    ASSUME Typed, Copied, [Next]_vars, NEW q \in Workers
    PROVE  \/ pc'[q] = pc[q] /\ seen'[q] = seen[q] /\ req'[q] = req[q]
           \/ pc'[q] = "idle"
           \/ pc'[q] = "create" /\ req'[q].op = "preview"
           \/ /\ pc'[q] = "approve" /\ seen'[q] = request
              /\ UNCHANGED request /\ request.approval = "none"
              /\ request.state = "awaiting_approval"
           \/ pc'[q] = "gateway" /\ (req'[q].op = "execute" => request'.approval # "none")
           \/ /\ pc'[q] = "record"
              /\ req'[q].result \in job'.done /\ req'[q].result.op = req'[q].op
           \/ pc'[q] = "record" /\ pc[q] = "write" /\ req'[q] = req[q] /\ UNCHANGED job
           \/ /\ pc'[q] = "write" /\ pc[q] = "record" /\ req'[q] = req[q]
              /\ seen'[q] = request /\ UNCHANGED <<request, job>>
              /\ Valid(request) /\ Recordable(request, q)
<1> DEFINE Same(p) == p # q => pc'[q] = pc[q] /\ seen'[q] = seen[q] /\ req'[q] = req[q]
<1> USE DEF Typed, TypedWorkers
<1>1. ASSUME NEW p \in Workers, End(p) PROVE Same(p) /\ pc'[p] = "idle"
  BY <1>1 DEF End
<1>2. ASSUME NEW p \in Workers, NEW c, NEW step, Begin(p, c, step)
      PROVE  /\ Same(p) /\ pc'[p] = step /\ seen'[p] = request /\ req'[p] = c
             /\ UNCHANGED request
  BY <1>2 DEF Begin, Goto, stored
<1>3. ASSUME NEW p \in Workers, NEW c \in Requests, NEW r, ToGateway(p, c, r)
      PROVE  Same(p) /\ pc'[p] = "gateway" /\ req'[p].op = c.op
  BY <1>3 DEF ToGateway, Goto, Requests
<1>4. \A key \in Keys : key # "none"
  BY MigrationAssumption
<1>5. CASE JobMoves \/ JobReviews \/ (\E e \in sent : Deliver(e)) \/ UNCHANGED vars
  BY <1>5 DEF JobMoves, JobReviews, Deliver, vars, local
<1>6. ASSUME NEW p \in Workers, Abandon(p) PROVE Same(p) /\ pc'[p] = "idle"
  BY <1>1, <1>6 DEF Abandon
<1>7. ASSUME NEW p \in Workers, Replay(p) \/ RecordReplay(p) \/ Record(p)
      PROVE  Same(p) /\ pc'[p] = "idle"
  BY <1>1, <1>7 DEF Replay, RecordReplay, Record, AnswerAgain
<1>8. ASSUME NEW p \in Workers, PreparePreview(p)
      PROVE  /\ Same(p)
             /\ pc'[p] \in {"create", "gateway"} /\ req'[p].op = "preview"
  <2>1. PICK c \in Commands : /\ c.op = "preview"
                              /\ Begin(p, c, "create") \/ ToGateway(p, c, request)
    BY <1>8 DEF PreparePreview
  <2> QED
    BY <1>2, <1>3, <2>1, CommandTyped
<1>9. ASSUME NEW p \in Workers, Create(p)
      PROVE  Same(p) /\ pc'[p] = "gateway" /\ req'[p].op = "preview"
  BY <1>3, <1>9 DEF Create, Copied
<1>10. ASSUME NEW p \in Workers, PrepareExecute(p)
       PROVE  /\ Same(p)
              /\ \/ pc'[p] = "gateway" /\ request'.approval # "none"
                 \/ /\ pc'[p] = "approve" /\ seen'[p] = request
                    /\ UNCHANGED request /\ request.approval = "none"
                    /\ request.state = "awaiting_approval"
  <2>1. PICK c \in Commands :
            \/ request.approval = c.key /\ ToGateway(p, c, request) /\ UNCHANGED request
            \/ /\ request.approval = "none" /\ request.state = "awaiting_approval"
               /\ Begin(p, c, "approve")
    BY <1>10 DEF PrepareExecute
  <2> QED
    BY <1>2, <1>3, <1>4, <2>1, CommandTyped
<1>11. ASSUME NEW p \in Workers, Approve(p)
       PROVE  Same(p) /\ pc'[p] = "gateway" /\ request'.approval # "none"
  <2>1. req[p] \in Requests /\ req[p].key \in Keys /\ seen[p] \in Copies
    BY <1>11 DEF Approve, Requests
  <2>2. Same(p) /\ pc'[p] = "gateway"
    BY <1>3, <1>11, <2>1 DEF Approve
  <2>3. request'.approval = req[p].key
    BY <1>11, <2>1, ApprovedIs DEF Approve
  <2> QED
    BY <1>4, <2>1, <2>2, <2>3
<1>12. ASSUME NEW p \in Workers, PrepareControl(p)
       PROVE  Same(p) /\ pc'[p] = "gateway" /\ req'[p].op # "execute"
  <2>1. PICK c \in Commands : c.op \in DOMAIN CONTROL_STATES /\ ToGateway(p, c, request)
    BY <1>12 DEF PrepareControl
  <2> QED
    BY <1>3, <2>1, CommandTyped, Tables
<1>13. ASSUME NEW p \in Workers, Execute(p)
       PROVE  /\ Same(p)
              /\ \/ pc'[p] = "idle"
                 \/ /\ pc'[p] = "record"
                    /\ req'[p].result \in job'.done /\ req'[p].result.op = req'[p].op
  <2>1. PICK result \in job'.done :
            /\ result.op = req[p].op
            /\ \/ /\ pc' = [pc EXCEPT ![p] = "record"]
                  /\ req' = [req EXCEPT ![p].result = result]
                  /\ UNCHANGED seen
               \/ End(p)
    BY <1>13 DEF Execute
  <2>2. req[p] \in Requests
    BY <1>13 DEF Execute
  <2> QED
    BY <1>1, <2>1, <2>2 DEF Requests
<1>14. ASSUME NEW p \in Workers, RecordRead(p)
       PROVE  /\ Same(p)
              /\ pc'[p] = "write" /\ pc[p] = "record" /\ req'[p] = req[p]
              /\ seen'[p] = request /\ UNCHANGED <<request, job>>
              /\ Valid(request) /\ Recordable(request, p)
  BY <1>14 DEF RecordRead, Goto, stored, external
<1>15. ASSUME NEW p \in Workers, RecordAgain(p)
       PROVE  /\ Same(p)
              /\ pc'[p] = "record" /\ pc[p] = "write" /\ req'[p] = req[p] /\ UNCHANGED job
  BY <1>15 DEF RecordAgain, Goto, external
<1>16. CASE \E p \in Workers : Operate(p) \/ Abandon(p)
  <2>1. PICK p \in Workers : Operate(p) \/ Abandon(p)
    BY <1>16
  <2>2. CASE p # q
    BY <2>1, <2>2, <1>6, <1>7, <1>8, <1>9, <1>10, <1>11, <1>12, <1>13, <1>14, <1>15
       DEF Operate
  <2>3. CASE p = q
    BY <2>1, <2>3, <1>6, <1>7, <1>8, <1>9, <1>10, <1>11, <1>12, <1>13, <1>14, <1>15
       DEF Operate
  <2> QED
    BY <2>2, <2>3
<1> QED
  BY <1>5, <1>16 DEF Next

\* Every write moves the item on.
LEMMA Forward ==
    ASSUME Typed, Copied, [Next]_vars, request' # request
    PROVE  /\ request'.storage = request.storage + 1
           /\ request'.revision >= request.revision
           /\ request.approval # "none" => request'.approval = request.approval
           /\ request # Absent =>
                 /\ request'.stateRevision >= request.stateRevision
                 /\ request.dryRun => request'.dryRun
                 /\ request.state = "canceled" => request'.state = "canceled"
                 /\ request'.state # request.state =>
                       \/ request'.stateRevision > request.stateRevision
                       \/ request.state = "cancel_requested" /\ request'.state = "canceled"
<1> DEFINE Goal ==
        /\ request'.storage = request.storage + 1
        /\ request'.revision >= request.revision
        /\ request.approval # "none" => request'.approval = request.approval
        /\ request # Absent =>
              /\ request'.stateRevision >= request.stateRevision
              /\ request.dryRun => request'.dryRun
              /\ request.state = "canceled" => request'.state = "canceled"
              /\ request'.state # request.state =>
                    \/ request'.stateRevision > request.stateRevision
                    \/ request.state = "cancel_requested" /\ request'.state = "canceled"
<1>0. request \in Copies
  BY DEF Typed, TypedItem
<1>1. /\ request.storage \in Nat
      /\ request.revision \in Nat /\ request.stateRevision \in Nat
  BY <1>0, MigrationAssumption DEF Copies, Revisions
<1>2. CASE request = Absent /\ request' = Draft
  BY <1>2 DEF Absent, Draft
<1>3. ASSUME NEW p \in Workers, pc[p] = "approve", request = seen[p],
             request.approval = "none", request' = Approved(p)
      PROVE  Goal
  <2>1. req[p] \in Requests
    BY <1>3 DEF Typed, TypedWorkers
  <2> QED
    BY <1>0, <1>1, <1>3, <2>1, ApprovedIs
<1>4. ASSUME NEW p \in Workers, pc[p] = "write", Valid(request), Recordable(request, p),
             request' = Updated(request, p)
      PROVE  Goal
  <2>1. req[p] \in Requests
    BY <1>4 DEF Typed, TypedWorkers
  <2> DEFINE n == req[p].result.revision
  <2>2. n \in Nat /\ request.stateRevision <= request.revision
    BY <1>4, <2>1, MigrationAssumption DEF Requests, Results, Revisions, Valid
  <2>3. /\ request'.storage = request.storage + 1
        /\ request'.approval = request.approval /\ request'.dryRun = request.dryRun
        /\ request'.revision = IF n > request.revision THEN n ELSE request.revision
        /\ IF n > request.revision /\ req[p].result.status = "accepted"
           THEN request'.state = Target[req[p].op] /\ request'.stateRevision = n
           ELSE /\ request'.state = request.state
                /\ request'.stateRevision = request.stateRevision
    BY <1>0, <1>4, <2>1, UpdatedIs
  <2>4. CASE n > request.revision /\ req[p].result.status = "accepted"
    <3>1. \/ Target[req[p].op] = request.state
          \/ Target[req[p].op] \in TRANSITIONS[request.state]
      BY <1>4, <2>4 DEF Recordable
    <3>2. request.state # "canceled"
      BY <2>1, <3>1, Targets, Successors DEF Requests
    <3> QED
      BY <1>1, <2>2, <2>3, <2>4, <3>2
  <2>5. CASE ~(n > request.revision /\ req[p].result.status = "accepted")
    BY <1>1, <2>2, <2>3, <2>5
  <2> QED
    BY <2>4, <2>5
<1>5. ASSUME NEW e \in sent, Valid(request), ~Stale(request, e), Applicable(request, e),
             request' = Applied(request, e)
      PROVE  Goal
  <2> DEFINE state == EventState(request, e)
  <2>1. e \in SentEvents /\ e.revision \in Nat
    BY MigrationAssumption DEF Typed, TypedJob, SentEvents, Revisions
  <2>2. request.stateRevision <= request.revision /\ request.revision <= e.revision
    BY <1>1, <1>5, <2>1 DEF Valid, Stale
  <2>3. state \in States
    BY <1>5, <2>1, EventStates
  <2>4. /\ request'.storage = request.storage + 1
        /\ request'.approval = request.approval /\ (request.dryRun => request'.dryRun)
        /\ request'.revision = e.revision
        /\ request'.state = state
        /\ request'.stateRevision =
              IF state # request.state THEN e.revision ELSE request.stateRevision
    BY <1>0, <1>5, <2>1, <2>3, AppliedIs
  <2>5. request.state = "canceled" => state = "canceled"
    BY <1>5, Successors DEF Applicable
  <2>6. ASSUME state # request.state
        PROVE  \/ e.revision > request.stateRevision
               \/ request.state = "cancel_requested" /\ state = "canceled"
    <3>1. CASE e.revision = request.revision
      <4>1. Reconciles(request, e)
        BY <1>5, <3>1 DEF Applicable
      <4> QED
        BY <2>6, <4>1 DEF Reconciles, EventState
    <3>2. CASE e.revision # request.revision
      BY <1>1, <2>1, <2>2, <3>2
    <3> QED
      BY <3>1, <3>2
  <2> QED
    BY <1>1, <2>1, <2>2, <2>4, <2>5, <2>6
<1> QED
  BY <1>2, <1>3, <1>4, <1>5, Writes

\* An older copy stays one.
LEMMA OlderKept ==
    ASSUME Typed, Copied, [Next]_vars, NEW p \in Workers, Older(p), seen'[p] = seen[p]
    PROVE  Older(p)'
<1>1. seen[p].storage \in Nat /\ request.storage \in Nat
  BY DEF Typed, TypedItem, TypedWorkers, Copies
<1>2. UNCHANGED request \/ request'.storage = request.storage + 1
  BY Forward
<1> QED
  BY <1>1, <1>2 DEF Older

\* A copy that a worker is about to write stays the item, or one of a smaller storage revision.
LEMMA CopiedKept ==
    ASSUME Typed, Copied, [Next]_vars
    PROVE  Copied'
<1> SUFFICES ASSUME NEW q \in Workers
             PROVE  /\ pc'[q] = "create" => req'[q].op = "preview"
                    /\ pc'[q] = "approve" =>
                          /\ Older(q)' /\ seen'[q].approval = "none"
                          /\ seen'[q].state = "awaiting_approval"
                    /\ pc'[q] = "write" =>
                          Older(q)' /\ Valid(seen'[q]) /\ Recordable(seen[q], q)'
  BY DEF Copied
<1>1. request.storage \in Nat
  BY DEF Typed, TypedItem, Copies
<1>2. CASE pc'[q] = pc[q] /\ seen'[q] = seen[q] /\ req'[q] = req[q]
  <2>1. Recordable(seen[q], q)' <=> Recordable(seen[q], q)
    BY <1>2 DEF Recordable
  <2> QED
    BY <1>2, <2>1, OlderKept DEF Copied
<1>3. CASE pc'[q] \in {"idle", "gateway", "record"}
  BY <1>3
<1>4. CASE pc'[q] = "create" /\ req'[q].op = "preview"
  BY <1>4
<1>5. CASE /\ pc'[q] = "approve" /\ seen'[q] = request
           /\ UNCHANGED request /\ request.approval = "none"
           /\ request.state = "awaiting_approval"
  BY <1>1, <1>5 DEF Older
<1>6. CASE /\ pc'[q] = "write" /\ pc[q] = "record" /\ req'[q] = req[q]
           /\ seen'[q] = request /\ UNCHANGED <<request, job>>
           /\ Valid(request) /\ Recordable(request, q)
  <2>1. Recordable(seen[q], q)'
    BY <1>6 DEF Recordable
  <2> QED
    BY <1>1, <1>6, <2>1 DEF Older
<1> QED
  BY <1>2, <1>3, <1>4, <1>5, <1>6, Locals

-----------------------------------------------------------------------------
(***************************************************************************)
(* What a step does to the job and to what is known of it.                 *)
(***************************************************************************)
\* What was true of the job when its state, its events and its results came about.
JobTold ==
    /\ jobStates \subseteq jobStates' /\ job.done \subseteq job'.done
    /\ \A e \in sent' :
          e.type # "item_needs_review" => <<e.revision, e.state>> \in jobStates'
    /\ \A d \in job'.done : d.status = "accepted" => <<d.revision, Target[d.op]>> \in jobStates'

\* A job that enters a state at a revision tells the truth of it.
LEMMA EntersTold ==
    ASSUME Typed, Believed, NEW state, NEW revision, NEW done, JobEnters(state, revision, done),
           job.done \subseteq done,
           \A d \in done \ job.done :
               d.status = "accepted" => d.revision = revision /\ Target[d.op] = state
    PROVE  JobTold /\ jobStates' = jobStates \cup {<<revision, state>>}
<1>1. /\ Event(state, revision).revision = revision /\ Event(state, revision).state = state
  BY DEF Event
<1>2. /\ jobStates' = jobStates \cup {<<revision, state>>}
      /\ job'.done = done /\ sent' \subseteq sent \cup {Event(state, revision)}
  BY DEF JobEnters
<1> QED
  BY <1>1, <1>2 DEF JobTold, Believed

\* The job forgets nothing, and is scheduled only by an execute.
LEMMA JobForward ==
    ASSUME Typed, Believed, [Next]_vars
    PROVE  /\ JobTold
           /\ \A n \in Revisions :
                 <<n, "scheduled">> \in jobStates' \ jobStates =>
                     \E p \in Workers :
                         pc[p] = "gateway" /\ req[p].op = "execute" /\ UNCHANGED request
<1> DEFINE Started ==
        \A n \in Revisions :
            <<n, "scheduled">> \in jobStates' \ jobStates =>
                \E p \in Workers :
                    pc[p] = "gateway" /\ req[p].op = "execute" /\ UNCHANGED request
<1>1. ASSUME UNCHANGED external PROVE JobTold /\ Started
  BY <1>1 DEF external, JobTold, Believed
<1>2. CASE JobMoves
  <2>0. job.revision \in Nat /\ job.revision + 1 \in Nat
    BY MigrationAssumption DEF Typed, TypedJob, Revisions
  <2>1. PICK state \in States \ {"scheduled"}, revision \in Nat :
            JobEnters(state, revision, job.done)
    BY <1>2, <2>0, Tables, MigrationAssumption DEF JobMoves
  <2>2. JobTold /\ jobStates' = jobStates \cup {<<revision, state>>}
    BY <2>1, EntersTold
  <2> QED
    BY <2>1, <2>2
<1>3. CASE JobReviews
  BY <1>3 DEF JobReviews, Review, JobTold, Believed
<1>4. ASSUME NEW p \in Workers, Execute(p) PROVE JobTold /\ Started
  <2> DEFINE op == req[p].op
             at == req[p].revision
  <2>1. op \in Operations
    BY <1>4 DEF Execute, Typed, TypedWorkers, Requests
  <2>2. CASE UNCHANGED external
    BY <1>1, <2>2
  <2>3. CASE JobEnters(Target[op], job.revision + 1,
                       job.done \cup {Done(op, at, "accepted", job.revision + 1)})
    <3>1. JobTold /\ jobStates' = jobStates \cup {<<job.revision + 1, Target[op]>>}
      BY <2>3, EntersTold DEF Done
    <3>2. Started
      BY <1>4, <2>1, <3>1, Targets DEF Execute, stored
    <3> QED
      BY <3>1, <3>2
  <2>4. CASE /\ job' = [job EXCEPT !.done = @ \cup {Done(op, at, "needs_review", job.revision)}]
             /\ UNCHANGED <<jobStates, sent>>
    <3>1. job'.done = job.done \cup {Done(op, at, "needs_review", job.revision)}
      BY <2>4 DEF Typed, TypedJob
    <3> QED
      BY <2>4, <3>1 DEF Done, JobTold, Believed
  <2> QED
    BY <1>4, <2>2, <2>3, <2>4 DEF Execute, JobTakes
<1>5. ASSUME NEW p \in Workers, Operate(p), ~Execute(p) PROVE UNCHANGED external
  BY <1>5 DEF Operate, Replay, PreparePreview, Create, PrepareExecute, Approve, PrepareControl,
              RecordReplay, RecordRead, Record, RecordAgain, AnswerAgain, Begin, ToGateway
<1>6. CASE (\E e \in sent : Deliver(e)) \/ (\E p \in Workers : Abandon(p)) \/ UNCHANGED vars
  BY <1>1, <1>6 DEF Deliver, Abandon, vars
<1> QED
  BY <1>1, <1>2, <1>3, <1>4, <1>5, <1>6 DEF Next

\* Receipts and answers change when a result is recorded or a receipt is answered from.
LEMMA Tells ==
    ASSUME Typed, [Next]_vars
    PROVE  \/ UNCHANGED <<receipt, answered>>
           \/ \E p \in Workers : Record(p)
           \/ \E p \in Workers, c \in Requests : AnswerAgain(p, c)
<1>1. CASE JobMoves \/ JobReviews \/ (\E e \in sent : Deliver(e)) \/ UNCHANGED vars
  BY <1>1 DEF JobMoves, JobReviews, Deliver, vars, stored
<1>2. CASE \E p \in Workers : Abandon(p)
  BY <1>2 DEF Abandon, stored
<1>3. ASSUME NEW p \in Workers, Replay(p) \/ RecordReplay(p)
      PROVE  \E c \in Requests : AnswerAgain(p, c)
  BY <1>3, CommandTyped DEF Replay, RecordReplay, Typed, TypedWorkers
<1>4. ASSUME NEW p \in Workers,
             \/ PreparePreview(p) \/ Create(p) \/ PrepareExecute(p) \/ Approve(p)
             \/ PrepareControl(p) \/ Execute(p) \/ RecordRead(p) \/ RecordAgain(p)
      PROVE  UNCHANGED <<receipt, answered>>
  BY <1>4 DEF PreparePreview, Create, PrepareExecute, Approve, PrepareControl, Execute,
              RecordRead, RecordAgain, Begin, ToGateway, stored
<1> QED
  BY <1>1, <1>2, <1>3, <1>4 DEF Next, Operate

-----------------------------------------------------------------------------
(***************************************************************************)
(* The invariants are kept.                                                *)
(***************************************************************************)
LEMMA StateWasTheJobsKept ==
    ASSUME Typed, Copied, Believed, [Next]_vars
    PROVE  StateWasTheJobs'
<1>1. request \in Copies /\ JobTold
  BY JobForward DEF Typed, TypedItem
<1>2. CASE UNCHANGED request
  BY <1>1, <1>2 DEF JobTold, Believed, StateWasTheJobs, Bound
<1>3. CASE request' = Draft
  BY <1>3 DEF Draft, Absent, StateWasTheJobs, Bound
<1>4. ASSUME NEW p \in Workers, pc[p] = "approve", request = seen[p], request' = Approved(p)
      PROVE  StateWasTheJobs'
  <2>1. req[p] \in Requests
    BY <1>4 DEF Typed, TypedWorkers
  <2>2. request'.state = request.state /\ request'.stateRevision = request.stateRevision
    BY <1>1, <1>4, <2>1, ApprovedIs
  <2> QED
    BY <1>1, <2>2 DEF JobTold, Believed, StateWasTheJobs, Bound
<1>5. ASSUME NEW p \in Workers, pc[p] = "write", request' = Updated(request, p)
      PROVE  StateWasTheJobs'
  <2> DEFINE result == req[p].result
  <2>1. req[p] \in Requests
    BY <1>5 DEF Typed, TypedWorkers
  <2>2. IF result.revision > request.revision /\ result.status = "accepted"
        THEN request'.state = Target[req[p].op] /\ request'.stateRevision = result.revision
        ELSE /\ request'.state = request.state
             /\ request'.stateRevision = request.stateRevision
    BY <1>1, <1>5, <2>1, UpdatedIs
  <2>3. result.status = "accepted" =>
            <<result.revision, Target[req[p].op]>> \in jobStates'
    BY <1>1, <1>5 DEF Believed, JobTold
  <2> QED
    BY <1>1, <2>2, <2>3 DEF JobTold, Believed, StateWasTheJobs, Bound
<1>6. ASSUME NEW e \in sent, Valid(request), Applicable(request, e),
             request' = Applied(request, e)
      PROVE  StateWasTheJobs'
  <2> DEFINE state == EventState(request, e)
  <2>1. e \in SentEvents
    BY DEF Typed, TypedJob
  <2>2. state \in States
    BY <1>6, <2>1, EventStates
  <2>3. /\ request'.state = state
        /\ request'.stateRevision =
              IF state # request.state THEN e.revision ELSE request.stateRevision
    BY <1>1, <1>6, <2>1, <2>2, AppliedIs
  <2>4. state # request.state => <<e.revision, state>> \in jobStates'
    BY <1>1 DEF EventState, Believed, JobTold
  <2> QED
    BY <1>1, <2>3, <2>4 DEF JobTold, Believed, StateWasTheJobs, Bound
<1> QED
  BY <1>2, <1>3, <1>4, <1>5, <1>6, Writes

\* Receipts stay the traces of commands that the job answered.
LEMMA ReceiptsAreTrueKept ==
    ASSUME Typed, Copied, Believed, [Next]_vars
    PROVE  ReceiptsAreTrue'
<1>1. Typed' /\ JobTold
  BY NextTyped, JobForward
<1>2. /\ request.revision \in Nat /\ request'.revision \in Nat
      /\ request.revision <= request'.revision
  BY <1>1, Forward, MigrationAssumption DEF Typed, TypedItem, Copies, Revisions
<1>3. /\ \A s \in Operations \X Keys :
             receipt[s].command.revision \in Nat /\ receipt'[s].command.revision \in Nat
      /\ DOMAIN receipt = Operations \X Keys /\ DOMAIN receipt' = Operations \X Keys
  BY <1>1, MigrationAssumption DEF Typed, TypedItem, Receipts, CommandRecords, Revisions
<1>4. CASE UNCHANGED receipt
  BY <1>1, <1>2, <1>3, <1>4 DEF Believed, ReceiptsAreTrue, JobTold
<1>5. ASSUME NEW p \in Workers, Record(p) PROVE ReceiptsAreTrue'
  <2> DEFINE slot == Slot(req[p])
             result == req[p].result
  <2>1. req[p] \in Requests /\ seen[p] \in Copies /\ pc[p] = "write"
    BY <1>5 DEF Record, Typed, TypedWorkers
  <2>2. slot \in Operations \X Keys /\ slot[1] = req[p].op
    BY <2>1 DEF Slot, Requests
  <2>3. /\ \A s \in Operations \X Keys : s # slot => receipt'[s] = receipt[s]
        /\ receipt'[slot].command = Command(p)
    BY <1>3, <1>5, <2>2 DEF Record, PutReceipt
  <2>4. request' = Updated(seen[p], p)
    BY <1>5 DEF Record, Put
  <2>5. Command(p).revision <= request'.revision
    <3>1. result.revision \in Nat /\ seen[p].revision \in Nat
      BY <2>1, MigrationAssumption DEF Requests, Results, Copies, Revisions
    <3>2. request'.revision =
              IF result.revision > seen[p].revision THEN result.revision ELSE seen[p].revision
      BY <2>1, <2>4, UpdatedIs
    <3> QED
      BY <3>1, <3>2 DEF Command
  <2>6. Command(p).status = "accepted" =>
            <<Command(p).revision, Target[slot[1]]>> \in jobStates'
    BY <1>1, <2>1, <2>2 DEF Command, Believed, JobTold
  <2>7. ASSUME NEW s \in Operations \X Keys, receipt'[s].status = "stored"
        PROVE  /\ receipt'[s].command.revision <= request'.revision
               /\ receipt'[s].command.status = "accepted" =>
                     <<receipt'[s].command.revision, Target[s[1]]>> \in jobStates'
    <3>1. CASE s = slot
      BY <2>3, <2>5, <2>6, <3>1
    <3>2. CASE s # slot
      BY <1>1, <1>2, <1>3, <2>3, <2>7, <3>2 DEF Believed, ReceiptsAreTrue, JobTold
    <3> QED
      BY <3>1, <3>2
  <2> QED
    BY <1>3, <2>7 DEF ReceiptsAreTrue
<1>6. ASSUME NEW p \in Workers, NEW c \in Requests, AnswerAgain(p, c) PROVE UNCHANGED receipt
  BY <1>6 DEF AnswerAgain, stored
<1> QED
  BY <1>4, <1>5, <1>6, Tells

\* Events, results and receipts speak only of what the job was, after every step.
LEMMA BelievedKept ==
    ASSUME Typed, Copied, Believed, [Next]_vars
    PROVE  Believed'
<1>1. JobTold
  BY JobForward
<1>2. ASSUME NEW q \in Workers, pc'[q] \in {"record", "write"}
      PROVE  req'[q].result \in job'.done /\ req'[q].result.op = req'[q].op
  BY <1>1, <1>2, Locals DEF JobTold, Believed
<1> QED
  BY <1>1, <1>2, StateWasTheJobsKept, ReceiptsAreTrueKept DEF Believed, JobTold

\* Nothing is executed without an approval, in any step.
LEMMA AllowedKept ==
    ASSUME Typed, Copied, Believed, Allowed, [Next]_vars
    PROVE  Allowed'
<1>1. request.approval # "none" => request'.approval # "none"
  BY Forward
<1>2. ASSUME NEW q \in Workers, pc'[q] = "gateway", req'[q].op = "execute"
      PROVE  request'.approval # "none"
  BY <1>1, <1>2, Locals DEF Allowed
<1>3. ASSUME NEW n \in Revisions, <<n, "scheduled">> \in jobStates'
      PROVE  request'.approval # "none"
  <2>1. CASE <<n, "scheduled">> \in jobStates
    BY <1>1, <2>1 DEF Allowed, StartedWithApproval
  <2>2. CASE <<n, "scheduled">> \notin jobStates
    BY <1>1, <1>3, <2>2, JobForward DEF Allowed
  <2> QED
    BY <2>1, <2>2
<1> QED
  BY <1>2, <1>3 DEF Allowed, StartedWithApproval, Revisions

\* Every answer is that of a receipt, after every step.
LEMMA AnsweredKept ==
    ASSUME Typed, Answered, [Next]_vars
    PROVE  Answered'
<1>0. DOMAIN receipt = Operations \X Keys
  BY DEF Typed, TypedItem
<1>1. CASE UNCHANGED <<receipt, answered>>
  BY <1>1 DEF Answered
<1>2. ASSUME NEW p \in Workers, Record(p) PROVE Answered'
  <2> DEFINE slot == Slot(req[p])
             answer == Projection(Updated(seen[p], p))
  <2>1. slot \in Operations \X Keys
    BY <1>2 DEF Record, Typed, TypedWorkers, Requests, Slot
  <2>2. receipt[slot].status = "none"
    BY <1>2, <2>1 DEF Record, PutReceipt, Received, Typed, TypedItem, Receipts
  <2>3. /\ \A s \in Operations \X Keys : s # slot => receipt'[s] = receipt[s]
        /\ receipt'[slot].status = "stored" /\ receipt'[slot].answer = answer
    BY <1>0, <1>2, <2>1 DEF Record, PutReceipt
  <2>4. answered' = answered \cup {<<slot, answer>>}
    BY <1>2 DEF Record
  <2> QED
    BY <2>2, <2>3, <2>4 DEF Answered, Typed, TypedAnswers
<1>3. ASSUME NEW p \in Workers, NEW c \in Requests, AnswerAgain(p, c) PROVE Answered'
  <2>1. receipt[Slot(c)].status = "stored"
    BY <1>3 DEF AnswerAgain, Received, Slot, Requests, Typed, TypedItem, Receipts
  <2> QED
    BY <1>3, <2>1 DEF AnswerAgain, AnswerOfReceipt, stored, Answered
<1> QED
  BY <1>1, <1>2, <1>3, Tells

\* The initial state satisfies the inductive invariant, and every step keeps it.
LEMMA InitIInv == Init => IInv
<1> SUFFICES ASSUME Init PROVE IInv
  OBVIOUS
<1>1. Copied /\ Allowed /\ Answered
  BY DEF Init, Copied, Allowed, StartedWithApproval, Answered
<1>2. ReceiptsAreTrue
  BY DEF Init, ReceiptsAreTrue
<1>3. Believed
  BY <1>2 DEF Init, Believed, StateWasTheJobs, Bound, Absent
<1> QED
  BY <1>1, <1>3, InitTyped DEF IInv

\* Every step keeps the invariant.
LEMMA NextIInv == IInv /\ [Next]_vars => IInv'
BY NextTyped, CopiedKept, BelievedKept, AllowedKept, AnsweredKept DEF IInv

\* The invariant holds in every reachable state.
LEMMA Invariance == Spec => []IInv
BY InitIInv, NextIInv, PTL DEF Spec

-----------------------------------------------------------------------------
(***************************************************************************)
(* A request stays readable. The invariant that this needs beside IInv.    *)
(***************************************************************************)
Started == \E n \in Revisions : <<n, "scheduled">> \in jobStates

\* The life of the job. What follows its start follows it, and until then a
\* cancellation is followed by nothing but its completion.
Lived ==
    /\ job.state = "absent" => job.revision = 0 /\ jobStates = {}
    /\ job.state # "absent" => <<job.revision, job.state>> \in jobStates
    /\ \A x \in jobStates : x[1] > 0 /\ x[1] <= job.revision
    /\ \A x \in jobStates : x[2] \in Executing => Started
    /\ ~Started =>
          \A x, y \in jobStates :
              x[2] = "cancel_requested" /\ x[1] <= y[1] => y[2] \in {"cancel_requested", "canceled"}

\* Where the job's events and results come from.
Spoken ==
    /\ \A e \in sent :
        \/ /\ e.type = "item_needs_review"
           /\ \E s \in ReviewedIn : <<e.revision, s>> \in jobStates
        \/ e = Event(e.state, e.revision) /\ e.state \notin {"draft", "previewing"}
    /\ \A d \in job.done :
        /\ d.op \in Operations /\ d.revision > 0
        /\ d.status = "accepted" \/ d.op = "execute"

\* A request that is previewing has the revision of its preview, or of a review.
Previewing ==
    request.state = "previewing" =>
        \E s \in ReviewedIn \cup {"previewing"} : <<request.revision, s>> \in jobStates

-----------------------------------------------------------------------------
(***************************************************************************)
(* The life of the job.                                                    *)
(***************************************************************************)
\* The state and the revision that the job may go to.
Leads(state, revision) ==
    /\ state \in States \ {"draft"}
    /\ \/ revision = job.revision + 1
       \/ revision = job.revision /\ job.state = "cancel_requested" /\ state = "canceled"
    /\ state \in Executing => state = "scheduled" \/ Started
    /\ job.state \in {"cancel_requested", "canceled"} => state = "canceled" \/ Started

\* An event of a state has the type that its state calls for.
LEMMA EventIs ==
    ASSUME NEW state, NEW revision
    PROVE  LET e == Event(state, revision) IN
           /\ e.state = state /\ e.revision = revision
           /\ e = Event(e.state, e.revision)
           /\ e.type # "item_needs_review"
           /\ e.type = "preview_ready" <=> state = "awaiting_approval"
           /\ e.type = "progressed" => state # "awaiting_approval"
BY DEF Event, Terminal

\* The order of the job's life, kept when it enters a state.
LEMMA JobLife ==
    ASSUME Typed, Lived, NEW state, NEW revision, NEW done, Leads(state, revision),
           JobEnters(state, revision, done)
    PROVE  Lived'
<1>0. /\ job.revision \in Nat /\ revision \in Nat /\ revision >= job.revision /\ revision > 0
      /\ revision \in Revisions
      /\ \A x \in jobStates : x[1] \in Nat /\ x = <<x[1], x[2]>>
  BY MigrationAssumption DEF Typed, TypedJob, Revisions, Leads, JobEnters, Lived
<1>1. /\ job'.state = state /\ job'.revision = revision
      /\ jobStates' = jobStates \cup {<<revision, state>>}
      /\ state # "absent"
  BY Tables DEF JobEnters, Leads
<1>2. Started => Started'
  BY <1>1 DEF Started
<1>3. \A x \in jobStates' : x[1] > 0 /\ x[1] <= revision
  BY <1>0, <1>1 DEF Lived
<1>4. \A x \in jobStates' : x[2] \in Executing => Started'
  <2>1. state \in Executing => Started'
    BY <1>0, <1>1, <1>2 DEF Leads, Started
  <2>2. \A x \in jobStates : x[2] \in Executing => Started'
    BY <1>2 DEF Lived
  <2> QED
    BY <1>1, <2>1, <2>2
<1>5. ASSUME ~Started', NEW x \in jobStates', NEW y \in jobStates',
             x[2] = "cancel_requested", x[1] <= y[1]
      PROVE  y[2] \in {"cancel_requested", "canceled"}
  <2>1. ~Started
    BY <1>2, <1>5
  <2>2. CASE y \in jobStates /\ x \in jobStates
    BY <1>5, <2>1, <2>2 DEF Lived
  <2>3. CASE y = <<revision, state>> /\ x = <<revision, state>>
    BY <1>5, <2>3
  <2>4. CASE y = <<revision, state>> /\ x \in jobStates
    <3>1. x[1] <= job.revision /\ job.state # "absent"
      BY <2>4 DEF Lived
    <3>2. job.state \in {"cancel_requested", "canceled"}
      BY <1>5, <2>1, <2>4, <3>1 DEF Lived
    <3> QED
      BY <2>1, <2>4, <3>2 DEF Leads
  <2>5. CASE y \in jobStates /\ x = <<revision, state>>
    <3>1. y[1] <= job.revision /\ revision <= y[1]
      BY <1>5, <2>5 DEF Lived
    <3>2. revision = job.revision /\ state = "canceled"
      BY <1>0, <2>5, <3>1 DEF Leads
    <3> QED
      BY <1>5, <2>5, <3>2
  <2> QED
    BY <1>1, <2>2, <2>3, <2>4, <2>5
<1> QED
  BY <1>1, <1>3, <1>4, <1>5 DEF Lived

\* Where events and results come from, kept when the job enters a state.
LEMMA JobSpeech ==
    ASSUME Typed, Spoken, NEW state \in States \ {"draft"}, NEW revision, NEW done,
           JobEnters(state, revision, done),
           \A d \in done : d \in job.done \/
               (d.op \in Operations /\ d.revision > 0 /\ (d.status = "accepted" \/ d.op = "execute"))
    PROVE  Spoken'
<1>1. /\ job'.done = done /\ jobStates \subseteq jobStates'
      /\ \A e \in sent' \ sent : e = Event(state, revision) /\ state # "previewing"
  BY DEF JobEnters
<1>2. ASSUME NEW e \in sent'
      PROVE  \/ /\ e.type = "item_needs_review"
                /\ \E s \in ReviewedIn : <<e.revision, s>> \in jobStates'
             \/ e = Event(e.state, e.revision) /\ e.state \notin {"draft", "previewing"}
  <2>1. CASE e \in sent
    BY <1>1, <2>1 DEF Spoken
  <2>2. CASE e \notin sent
    BY <1>1, <2>2, EventIs
  <2> QED
    BY <2>1, <2>2
<1> QED
  BY <1>1, <1>2 DEF Spoken

\* Where the job moves on its own,
LEMMA MovesLead ==
    ASSUME Typed, Lived, JobMoves
    PROVE  \E state, revision : Leads(state, revision) /\ JobEnters(state, revision, job.done)
<1>0. job.revision \in Nat
  BY MigrationAssumption DEF Typed, TypedJob, Revisions
<1>1. job.state # "absent" /\ job.state \in Executing => Started
  BY DEF Lived
<1>2. \A s \in Outcomes : s \in {"completed", "completed_with_errors"}
  BY MigrationAssumption
<1>3. (\E n \in 1..MaxRevision : <<n, "scheduled">> \in jobStates) => Started
  BY MigrationAssumption DEF Started, Revisions
<1> QED
  BY <1>0, <1>1, <1>2, <1>3, Tables DEF JobMoves, Leads, Executing

\* and where a command takes it.
LEMMA TakesLead ==
    ASSUME Typed, Lived, NEW op \in Operations, NEW at \in Revisions,
           JobEnters(Target[op], job.revision + 1,
                     job.done \cup {Done(op, at, "accepted", job.revision + 1)}),
           op = "preview" => job.state = "absent",
           op = "execute" => job.state = "awaiting_approval",
           op \in DOMAIN CONTROL_STATES => job.revision = at /\ job.state \in CONTROL_STATES[op]
    PROVE  Leads(Target[op], job.revision + 1)
<1>1. job.state # "absent" /\ job.state \in Executing => Started
  BY DEF Lived
<1>2. op \in {"preview", "execute", "pause", "resume", "cancel"}
  BY Tables
<1> QED
  BY <1>1, <1>2, Tables DEF Leads, Executing, Target, CONTROL_STATES

\* Every step keeps both.
LEMMA LifeKept ==
    ASSUME Typed, Lived, Spoken, [Next]_vars
    PROVE  Lived' /\ Spoken' /\ jobStates \subseteq jobStates'
<1>0. job.revision \in Nat /\ job \in [state : States \cup {"absent"}, revision : Revisions,
                                       done : SUBSET Results]
  BY MigrationAssumption DEF Typed, TypedJob, Revisions
<1>1. ASSUME UNCHANGED external PROVE Lived' /\ Spoken' /\ jobStates \subseteq jobStates'
  BY <1>1 DEF external, Lived, Spoken, Started
<1>2. CASE JobMoves
  <2>1. PICK state, revision : Leads(state, revision) /\ JobEnters(state, revision, job.done)
    BY <1>2, MovesLead
  <2>2. state \in States \ {"draft"}
    BY <2>1 DEF Leads
  <2> QED
    BY <2>1, <2>2, JobLife, JobSpeech DEF JobEnters
<1>3. CASE JobReviews
  <2>1. <<job.revision, job.state>> \in jobStates
    BY <1>3, MigrationAssumption, Tables DEF JobReviews, Lived
  <2>2. /\ UNCHANGED <<job, jobStates>> /\ sent' = sent \cup {Review(job.revision)}
        /\ Review(job.revision).type = "item_needs_review"
        /\ Review(job.revision).revision = job.revision /\ job.state \in ReviewedIn
    BY <1>3 DEF JobReviews, Review
  <2>3. Lived'
    BY <2>2 DEF Lived, Started
  <2>4. Spoken'
    BY <2>1, <2>2 DEF Spoken
  <2> QED
    BY <2>2, <2>3, <2>4
<1>4. ASSUME NEW p \in Workers, Execute(p)
      PROVE  Lived' /\ Spoken' /\ jobStates \subseteq jobStates'
  <2> DEFINE op == req[p].op
             at == req[p].revision
  <2>1. op \in Operations /\ at \in Revisions
    BY <1>4 DEF Execute, Typed, TypedWorkers, Requests
  <2>2. CASE UNCHANGED external
    BY <1>1, <2>2
  <2>3. CASE /\ op = "preview" => job.state = "absent"
             /\ op = "execute" => job.state = "awaiting_approval"
             /\ op \in DOMAIN CONTROL_STATES =>
                   job.revision = at /\ job.state \in CONTROL_STATES[op]
             /\ JobEnters(Target[op], job.revision + 1,
                          job.done \cup {Done(op, at, "accepted", job.revision + 1)})
    <3>1. Leads(Target[op], job.revision + 1)
      BY <2>1, <2>3, TakesLead
    <3>2. Target[op] \in States \ {"draft"} /\ job.revision + 1 > 0
      BY <1>0, <3>1 DEF Leads
    <3>3. \A d \in job.done \cup {Done(op, at, "accepted", job.revision + 1)} :
              d \in job.done \/
              (d.op \in Operations /\ d.revision > 0 /\ (d.status = "accepted" \/ d.op = "execute"))
      BY <2>1, <3>2 DEF Done
    <3>4. Lived'
      BY <2>3, <3>1, JobLife
    <3>5. Spoken'
      BY <2>3, <3>2, <3>3, JobSpeech
    <3> QED
      BY <2>3, <3>4, <3>5 DEF JobEnters
  <2>4. CASE /\ op = "execute" /\ job.state # "absent"
             /\ job' = [job EXCEPT !.done = @ \cup {Done(op, at, "needs_review", job.revision)}]
             /\ UNCHANGED <<jobStates, sent>>
    <3>1. /\ job'.done = job.done \cup {Done(op, at, "needs_review", job.revision)}
          /\ job'.state = job.state /\ job'.revision = job.revision
      BY <1>0, <2>4
    <3>2. job.revision > 0
      BY <2>4 DEF Lived
    <3>3. Lived'
      BY <2>4, <3>1 DEF Lived, Started
    <3>4. Spoken'
      BY <2>1, <2>4, <3>1, <3>2 DEF Spoken, Done
    <3> QED
      BY <2>4, <3>3, <3>4
  <2> QED
    BY <1>4, <2>2, <2>3, <2>4 DEF Execute, JobTakes
<1>5. ASSUME NEW p \in Workers, Operate(p), ~Execute(p) PROVE UNCHANGED external
  BY <1>5 DEF Operate, Replay, PreparePreview, Create, PrepareExecute, Approve, PrepareControl,
              RecordReplay, RecordRead, Record, RecordAgain, AnswerAgain, Begin, ToGateway
<1>6. CASE (\E e \in sent : Deliver(e)) \/ (\E p \in Workers : Abandon(p)) \/ UNCHANGED vars
  BY <1>1, <1>6 DEF Deliver, Abandon, vars
<1> QED
  BY <1>1, <1>2, <1>3, <1>4, <1>5, <1>6 DEF Next

-----------------------------------------------------------------------------
(***************************************************************************)
(* The item.                                                               *)
(***************************************************************************)
\* What is known of the job when an item is written.
LEMMA Facts ==
    ASSUME Typed, Lived, Allowed
    PROVE  /\ \A x \in jobStates : x[1] \in Nat /\ x[1] > 0
           /\ \A n, s : <<n, s>> \in jobStates /\ s \in Executing => request.approval # "none"
           /\ request \in Copies
           /\ request.revision \in Nat /\ request.stateRevision \in Nat
           /\ request.command.revision \in Nat /\ request.progress.revision \in Nat
           /\ request.dryRun \in BOOLEAN
<1>1. /\ request \in Copies
      /\ request.revision \in Nat /\ request.stateRevision \in Nat
      /\ request.command.revision \in Nat /\ request.progress.revision \in Nat
      /\ request.dryRun \in BOOLEAN
  BY MigrationAssumption DEF Typed, TypedItem, Copies, Revisions
<1>2. \A x \in jobStates : x[1] \in Nat /\ x[1] > 0
  BY MigrationAssumption DEF Typed, TypedJob, Revisions, Lived
<1>3. \A n, s : <<n, s>> \in jobStates /\ s \in Executing => request.approval # "none"
  BY DEF Lived, Started, Allowed, StartedWithApproval
<1> QED
  BY <1>1, <1>2, <1>3

\* An approval leaves a request that can be read, for it is given to a dry run.
LEMMA ApprovalReadable ==
    ASSUME Typed, Copied, Lived, Allowed, Readable, NEW p \in Workers, pc[p] = "approve",
           request = seen[p], request.state = "awaiting_approval", request' = Approved(p)
    PROVE  Valid(request') /\ request'.state = "awaiting_approval"
<1>1. req[p] \in Requests /\ request \in Copies /\ request # Absent
  BY DEF Typed, TypedWorkers, TypedItem, Absent
<1>2. /\ request'.approval # "none" /\ request'.state = "awaiting_approval"
      /\ request'.revision = request.revision /\ request'.stateRevision = request.stateRevision
      /\ request'.dryRun = request.dryRun /\ request'.command = request.command
      /\ request'.progress = request.progress
  BY <1>1, ApprovedIs, MigrationAssumption DEF Requests
<1> QED
  BY <1>1, <1>2 DEF Readable, Valid

\* A result that is recorded late only notes its command. The command is none that a
\* request without an approval may not have: not a cancellation, as after that the
\* job has no revision at which the request could still be previewing.
LEMMA LateCommand ==
    ASSUME Typed, Believed, Allowed, Lived, Spoken, Previewing,
           {"cancel_requested", "canceled"} \cap ReviewedIn = {},
           Valid(request), NEW p \in Workers, pc[p] = "write", Recordable(request, p),
           req[p].result.revision <= request.revision, request.state = "previewing"
    PROVE  req[p].op = "preview"
<1> DEFINE d == req[p].result
<1>1. d \in job.done /\ d.op = req[p].op /\ d.op \in Operations /\ d.revision \in Nat
  BY MigrationAssumption DEF Believed, Spoken, Typed, TypedJob, Results, Revisions
<1>2. request.approval = "none"
  BY DEF Valid
<1>3. d.op # "execute" => <<d.revision, Target[d.op]>> \in jobStates
  BY <1>1 DEF Spoken, Believed
<1>4. d.op \notin {"execute", "pause", "resume"}
  BY <1>1, <1>2, <1>3, Facts DEF Recordable, Target, Executing
<1>5. d.op # "cancel"
  <2> SUFFICES ASSUME d.op = "cancel" PROVE FALSE
    OBVIOUS
  <2>1. <<d.revision, "cancel_requested">> \in jobStates
    BY <1>3 DEF Target
  <2>2. PICK s \in ReviewedIn \cup {"previewing"} : <<request.revision, s>> \in jobStates
    BY DEF Previewing
  <2>3. ~Started
    BY <1>2 DEF Started, Allowed, StartedWithApproval
  <2>4. s \in {"cancel_requested", "canceled"}
    BY <2>1, <2>2, <2>3 DEF Lived
  <2> QED
    BY <2>4
<1> QED
  BY <1>1, <1>4, <1>5, Tables

\* A result that is recorded, late or not, leaves an item that its readers take.
LEMMA ResultReadable ==
    ASSUME Typed, Believed, Allowed, Lived, Spoken, Previewing,
           {"cancel_requested", "canceled"} \cap ReviewedIn = {},
           Valid(request), NEW p \in Workers, pc[p] = "write", Recordable(request, p),
           request' = Updated(request, p)
    PROVE  /\ Valid(request')
           /\ request'.state = "previewing" =>
                 \E s \in ReviewedIn \cup {"previewing"} : <<request'.revision, s>> \in jobStates
<1> DEFINE d == req[p].result
           n == d.revision
           op == req[p].op
           r == request
           new == request'
<1>1. /\ req[p] \in Requests /\ d \in job.done /\ d.op = op /\ op \in Operations
      /\ n \in Nat /\ n > 0
  BY MigrationAssumption
     DEF Believed, Spoken, Typed, TypedJob, TypedWorkers, Results, Revisions
<1>2. /\ new.approval = r.approval /\ new.dryRun = r.dryRun /\ new.progress = r.progress
      /\ new.command = Command(p)
      /\ new.revision = IF n > r.revision THEN n ELSE r.revision
      /\ IF n > r.revision /\ d.status = "accepted"
         THEN new.state = Target[op] /\ new.stateRevision = n
         ELSE new.state = r.state /\ new.stateRevision = r.stateRevision
  BY <1>1, Facts, UpdatedIs
<1>3. Command(p).op = op /\ Command(p).revision = n
  BY DEF Command
<1>4. op # "execute" => d.status = "accepted"
  BY <1>1 DEF Spoken
<1>5. d.status = "accepted" => <<n, Target[op]>> \in jobStates
  BY <1>1 DEF Believed
<1>6. op \in {"execute", "pause", "resume"} => r.approval # "none"
  BY <1>4, <1>5, Facts DEF Recordable, Target, Executing
<1>7. r.revision \in Nat /\ r.stateRevision \in Nat /\ r.progress.revision \in Nat
  BY Facts
<1>8. CASE n > r.revision
  <2>1. d.status = "accepted" /\ (Target[op] = r.state \/ Target[op] \in TRANSITIONS[r.state])
    BY <1>8 DEF Recordable
  <2>2. /\ new.revision = n /\ new.stateRevision = n /\ new.state = Target[op]
        /\ new.command.op = op /\ new.command.revision = n
    BY <1>2, <1>3, <1>8, <2>1
  <2>3. CASE op = "preview"
    <3>1. new.state = "previewing" /\ r.state \in {"draft", "previewing"}
      BY <2>1, <2>2, <2>3, Tables DEF Target, TRANSITIONS, Valid, Terminal
    <3>2. ~r.dryRun /\ r.approval = "none"
      BY <3>1 DEF Valid
    <3>3. <<n, "previewing">> \in jobStates
      BY <1>5, <2>1, <2>3 DEF Target
    <3> QED
      BY <1>1, <1>2, <1>7, <1>8, <2>2, <2>3, <3>1, <3>2, <3>3, Tables DEF Valid, Executing
  <2>4. CASE op # "preview"
    <3>1. new.state \in {"scheduled", "paused", "running", "cancel_requested"}
      BY <1>1, <2>2, <2>4, Tables DEF Target
    <3>2. new.state \in Executing => r.approval # "none"
      BY <1>1, <1>6, <2>2, <2>4, Tables DEF Target, Executing
    <3> QED
      BY <1>1, <1>2, <1>6, <1>7, <1>8, <2>2, <3>1, <3>2, Tables DEF Valid, Executing
  <2> QED
    BY <2>3, <2>4
<1>9. CASE ~(n > r.revision)
  <2>1. n <= r.revision /\ r.state # "draft"
    BY <1>1, <1>7, <1>9 DEF Valid
  <2>2. r.state = "previewing" => op = "preview"
    BY <2>1, LateCommand
  <2>3. /\ new.revision = r.revision /\ new.stateRevision = r.stateRevision
        /\ new.state = r.state /\ new.command.op = op /\ new.command.revision = n
    BY <1>2, <1>3, <1>9
  <2>4. Valid(new)
    BY <1>2, <1>6, <2>1, <2>2, <2>3 DEF Valid
  <2> QED
    BY <2>3, <2>4 DEF Previewing
<1> QED
  BY <1>8, <1>9

\* So does an event that is applied.
LEMMA EventReadable ==
    ASSUME Typed, Believed, Allowed, Lived, Spoken, Previewing,
           Valid(request), Bound(request), NEW e \in sent, ~Stale(request, e),
           Applicable(request, e), request' = Applied(request, e)
    PROVE  /\ Valid(request')
           /\ request'.state = "previewing" =>
                 \E s \in ReviewedIn \cup {"previewing"} : <<request'.revision, s>> \in jobStates
<1> DEFINE r == request
           new == request'
           state == EventState(r, e)
<1>0. \A x, y : Event(x, y).type # "item_needs_review"
  BY EventIs
<1>1. e \in SentEvents /\ state \in States
  BY EventStates DEF Typed, TypedJob
<1>2. /\ new.approval = r.approval /\ new.command = r.command
      /\ new.dryRun = (r.dryRun \/ e.type = "preview_ready")
      /\ new.progress.revision =
            IF e.type = "progressed" THEN e.revision ELSE r.progress.revision
      /\ new.revision = e.revision
      /\ new.state = state
      /\ new.stateRevision = IF state # r.state THEN e.revision ELSE r.stateRevision
  BY <1>1, Facts, AppliedIs
<1>3. e.revision \in Nat /\ e.revision > 0 /\ r.revision <= e.revision
  <2>1. \E s : <<e.revision, s>> \in jobStates
    <3>1. CASE e.type = "item_needs_review"
      BY <1>0, <3>1 DEF Spoken
    <3>2. CASE e.type # "item_needs_review"
      BY <3>2 DEF Believed
    <3> QED
      BY <3>1, <3>2
  <2>2. e.revision \in Nat /\ e.revision > 0
    BY <2>1, Facts
  <2> QED
    BY <2>2, Facts DEF Stale
<1>4. /\ r.revision \in Nat /\ r.stateRevision \in Nat /\ r.progress.revision \in Nat
      /\ r.command.revision \in Nat
  BY Facts
<1>5. CASE e.type = "item_needs_review"
  <2>1. state = r.state /\ r.state # "draft"
    BY <1>5 DEF EventState, Bound
  <2>2. \E s \in ReviewedIn : <<e.revision, s>> \in jobStates
    BY <1>0, <1>5 DEF Spoken
  <2>3. new.dryRun = r.dryRun
    BY <1>2, <1>5, Facts
  <2>4. new.stateRevision = r.stateRevision /\ new.progress.revision = r.progress.revision
    BY <1>2, <1>5, <2>1
  <2>5. Valid(new)
    BY <1>1, <1>2, <1>3, <1>4, <2>1, <2>3, <2>4 DEF Valid
  <2> QED
    BY <1>2, <2>2, <2>5
<1>6. CASE e.type # "item_needs_review"
  <2>1. /\ state = e.state /\ e.state \notin {"draft", "previewing"}
        /\ e.type = "preview_ready" <=> e.state = "awaiting_approval"
        /\ <<e.revision, e.state>> \in jobStates
    BY <1>6, EventIs DEF EventState, Spoken, Believed
  <2>2. state \in Executing => r.approval # "none" /\ r.dryRun
    BY <2>1, Facts DEF Valid
  <2>3. r.state \notin {"absent", "draft"}
    BY DEF Bound
  <2>4. /\ r.dryRun => new.dryRun
        /\ state = "awaiting_approval" => new.dryRun
    BY <1>2, <2>1
  <2>5. new.revision >= new.stateRevision /\ new.stateRevision > 0
    BY <1>2, <1>3, <1>4, <2>3 DEF Valid
  <2>6. new.revision >= new.progress.revision /\ new.revision >= new.command.revision
    BY <1>2, <1>3, <1>4 DEF Valid
  <2>7. Valid(new)
    BY <1>1, <1>2, <1>3, <1>4, <2>1, <2>2, <2>4, <2>5, <2>6 DEF Valid
  <2> QED
    BY <1>2, <2>1, <2>7
<1> QED
  BY <1>5, <1>6

\* And so does every step.
LEMMA ReadableKept ==
    ASSUME IInv, Lived, Spoken, Previewing, Readable,
           {"cancel_requested", "canceled"} \cap ReviewedIn = {}, [Next]_vars
    PROVE  Readable' /\ Previewing'
<1>0. Typed /\ Copied /\ Believed /\ Allowed /\ jobStates \subseteq jobStates'
  BY LifeKept DEF IInv
<1>1. CASE UNCHANGED request
  BY <1>0, <1>1 DEF Readable, Valid, Previewing
<1>2. CASE request' = Draft
  BY <1>2, Tables DEF Draft, Absent, NoCommand, NoProgress, Readable, Valid, Previewing, Executing
<1>3. ASSUME NEW p \in Workers, pc[p] = "approve", request = seen[p],
             request.state = "awaiting_approval", request' = Approved(p)
      PROVE  Readable' /\ Previewing'
  BY <1>0, <1>3, ApprovalReadable DEF Readable, Previewing, Valid
<1>4. ASSUME NEW p \in Workers, pc[p] = "write", Valid(request), Recordable(request, p),
             request' = Updated(request, p)
      PROVE  Readable' /\ Previewing'
  BY <1>0, <1>4, ResultReadable DEF Readable, Previewing, Valid
<1>5. ASSUME NEW e \in sent, Valid(request), Bound(request), ~Stale(request, e),
             Applicable(request, e), request' = Applied(request, e)
      PROVE  Readable' /\ Previewing'
  BY <1>0, <1>5, EventReadable DEF Readable, Previewing, Valid
<1> QED
  BY <1>0, <1>1, <1>2, <1>3, <1>4, <1>5, Writes

-----------------------------------------------------------------------------
(***************************************************************************)
(* The theorems.                                                           *)
(***************************************************************************)
\* Every variable keeps its type, among them each revision its bound, whatever
\* commands, events and answers of the gateway are interleaved.
THEOREM TypeCorrect == Spec => []TypeOK
<1>1. IInv => TypeOK
  BY TypedImpliesTypeOK DEF IInv
<1> QED
  BY <1>1, Invariance, PTL

\* The state stored with a state revision is one the job was in at that revision,
\* for any number of workers recording results while events of any age are applied.
THEOREM StoredStateHappened == Spec => []StateWasTheJobs
<1>1. IInv => StateWasTheJobs
  BY DEF IInv, Believed
<1> QED
  BY <1>1, Invariance, PTL

\* No job starts before the approval of its dry run is stored, and the approval
\* stays, whichever invocations end between the approval and the result.
THEOREM ApprovalBeforeStart == Spec => []StartedWithApproval
<1>1. IInv => StartedWithApproval
  BY DEF IInv, Allowed
<1> QED
  BY <1>1, Invariance, PTL

\* Whoever is answered under one key, first or in a replay, is told the same.
THEOREM OneAnswerPerKey == Spec => []AnswersAgree
<1>1. IInv => AnswersAgree
  <2> SUFFICES ASSUME IInv, NEW a \in answered, NEW b \in answered, a[1] = b[1]
               PROVE  a = b
    BY DEF AnswersAgree
  <2>1. a = <<a[1], a[2]>> /\ b = <<b[1], b[2]>>
    BY DEF IInv, Typed, TypedAnswers
  <2>2. a[2] = b[2]
    BY DEF IInv, Answered
  <2> QED
    BY <2>1, <2>2
<1> QED
  BY <1>1, Invariance, PTL

\* A stored receipt is the trace of a command the job answered, and the item is
\* never behind it.
THEOREM ReceiptsTellTheTruth == Spec => []ReceiptsAreTrue
<1>1. IInv => ReceiptsAreTrue
  BY DEF IInv, Believed
<1> QED
  BY <1>1, Invariance, PTL

\* No write rolls the request backward, though each is computed from a copy that
\* other workers and events may have left behind.
THEOREM NothingRollsBack == Spec => OnlyForward
<1> DEFINE Step ==
        request # Absent =>
            /\ request'.revision >= request.revision
            /\ request'.stateRevision >= request.stateRevision
            /\ request'.storage = request.storage + 1
            /\ request.approval # "none" => request'.approval = request.approval
            /\ request.dryRun => request'.dryRun
            /\ request.state = "canceled" => request'.state = "canceled"
            /\ request'.state # request.state =>
                  \/ request'.stateRevision > request.stateRevision
                  \/ request.state = "cancel_requested" /\ request'.state = "canceled"
<1>1. IInv /\ [Next]_vars => [Step]_request
  BY Forward DEF IInv
<1>2. Spec => [][Step]_request
  BY <1>1, Invariance, PTL DEF Spec
<1> QED
  BY <1>2 DEF OnlyForward

\* A request stays one that _validated_stored_request takes, for any interleaving of
\* commands, results and events, if the job reports no item for review at the revision of a
\* requested cancellation or of a completed one: with such a report it may not stay so.
THEOREM ItemStaysReadable ==
    ASSUME {"cancel_requested", "canceled"} \cap ReviewedIn = {}
    PROVE  Spec => []Readable
<1> DEFINE Life == Lived /\ Spoken /\ Previewing /\ Readable
<1>1. Init => Life
  <2> SUFFICES ASSUME Init PROVE Life
    OBVIOUS
  <2>1. Lived /\ Spoken
    BY DEF Init, Lived, Spoken
  <2>2. Previewing /\ Readable
    BY DEF Init, Previewing, Readable, Absent
  <2> QED
    BY <2>1, <2>2
<1>2. IInv /\ Life /\ [Next]_vars => Life'
  BY LifeKept, ReadableKept DEF IInv
<1> QED
  BY <1>1, <1>2, Invariance, PTL DEF Spec
=============================================================================
