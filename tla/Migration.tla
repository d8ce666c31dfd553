----------------------------- MODULE Migration -----------------------------
(***************************************************************************)
(* One bulk subscription migration: the MIGRATION_REQUEST item, which      *)
(* Commerce keeps for the operators, and the job that Integrations runs    *)
(* for it (src/migration_storage.py and the migration part of              *)
(* src/handlers/subscription_action.py).                                   *)
(*                                                                         *)
(* A worker is one invocation of an operator's command: it reads the item, *)
(* decides on its copy seen[p], and writes it with a condition on          *)
(* storageRevision. That only grows and a receipt, once there, stays, so   *)
(* the reads before a write are one step, and so is all of an event's      *)
(* delivery, which has nothing between its reads and its conditional       *)
(* write. The job is external. Its commands are idempotent in Integrations *)
(* by operation and expected revision, whatever the caller's key is; every *)
(* change of state emits an event, and events may arrive late, repeatedly  *)
(* and in any order. An answer of the gateway that is lost, or "pending",  *)
(* ends the invocation after the job has moved (Abandon).                  *)
(***************************************************************************)
EXTENDS Naturals, FiniteSets

CONSTANTS
    Workers,
    Keys,           \* idempotency keys of the operators
    ReviewedIn,     \* states of the job in which one of its items may need review
    Outcomes,       \* how the job may complete
    MaxRevision     \* bound on the revisions of the job

Terminal == {"completed", "completed_with_errors", "canceled"}

\* Each state's successors.
TRANSITIONS ==
    [draft |-> {"previewing", "canceled"},
     previewing |-> {"awaiting_approval", "cancel_requested", "canceled"},
     awaiting_approval |-> {"scheduled", "cancel_requested", "canceled"},
     scheduled |-> {"running", "paused", "cancel_requested", "canceling"} \cup Terminal,
     running |-> {"paused", "cancel_requested", "canceling"} \cup Terminal,
     paused |-> {"scheduled", "running", "cancel_requested", "canceling", "canceled"},
     cancel_requested |-> {"canceling", "canceled"},
     canceling |-> {"canceled"},
     completed |-> {"cancel_requested"},
     completed_with_errors |-> {"cancel_requested"},
     canceled |-> {}]

States == DOMAIN TRANSITIONS

\* The states in which each control is offered.
CONTROL_STATES ==
    [pause |-> {"scheduled", "running"},
     resume |-> {"paused"},
     cancel |-> {"previewing", "awaiting_approval", "scheduled", "running", "paused",
                 "completed", "completed_with_errors"}]

Target ==
    [preview |-> "previewing", execute |-> "scheduled", pause |-> "paused",
     resume |-> "running", cancel |-> "cancel_requested"]

Operations == DOMAIN Target

ASSUME MigrationAssumption ==
    /\ ReviewedIn \subseteq States
    /\ Outcomes \subseteq {"completed", "completed_with_errors"}
    /\ MaxRevision \in Nat \ {0}
    /\ "none" \notin Keys

VARIABLES
    request,    \* the MIGRATION_REQUEST item
    receipt,    \* MIGRATION_COMMAND items
    inbox,      \* events with a MIGRATION_EVENT item
    job,        \* the job of Integrations
    jobStates,  \* history: every <<revision, state>> of the job
    sent,       \* events it has emitted
    answered,   \* history: what the operators were told, by operation and key
    pc, req, seen

stored == <<request, receipt, inbox>>
external == <<job, jobStates, sent>>
local == <<pc, req, seen>>
vars == <<stored, external, answered, local>>

NoCommand == [op |-> "none", status |-> "none", revision |-> 0]
NoProgress == [revision |-> 0, state |-> "none"]
Absent ==
    [state |-> "absent", revision |-> 0, stateRevision |-> 0, storage |-> 0, dryRun |-> FALSE,
     approval |-> "none", command |-> NoCommand, progress |-> NoProgress]
Draft == [Absent EXCEPT !.state = "draft", !.storage = 1]

\* The binding to a job; jobId is written with the preview's result and never changes.
Bound(r) == r.state \notin {"absent", "draft"}

Executing == {"scheduled", "running", "paused", "canceling", "completed", "completed_with_errors"}

(***************************************************************************)
(* What every reader requires of the stored item. An item that does not    *)
(* satisfy it is refused by every operation there is.                      *)
(***************************************************************************)
Valid(r) ==
    /\ r.state \in States
    /\ r.stateRevision <= r.revision
    /\ r.approval # "none" => r.dryRun
    /\ r.command.revision <= r.revision
    /\ r.command.op \in {"execute", "pause", "resume"} => r.approval # "none"
    /\ r.progress.revision <= r.revision
    /\ r.state = "draft" =>
          r.revision = 0 /\ ~r.dryRun /\ r.approval = "none" /\ r.command = NoCommand
    /\ r.state # "draft" => r.revision > 0 /\ r.stateRevision > 0
    /\ r.state = "previewing" => ~r.dryRun /\ r.approval = "none" /\ r.command.op = "preview"
    /\ r.state = "awaiting_approval" => r.dryRun
    /\ r.state \in Executing => r.dryRun /\ r.approval # "none"

\* What a response tells of the item.
Projection(r) == [state |-> r.state, revision |-> r.revision, status |-> r.command.status]

Idle == [op |-> "none"]

Goto(p, step, copy) ==
    /\ pc' = [pc EXCEPT ![p] = step]
    /\ seen' = [seen EXCEPT ![p] = copy]

End(p) ==
    /\ pc' = [pc EXCEPT ![p] = "idle"]
    /\ req' = [req EXCEPT ![p] = Idle]
    /\ seen' = [seen EXCEPT ![p] = Absent]

(***************************************************************************)
(* Commands. A command names the revision the operator acts on: the dry    *)
(* run's for execute, the expected one for a control, none for a preview.  *)
(***************************************************************************)
NoResult == [op |-> "none", at |-> 0, status |-> "none", revision |-> 0]

Commands ==
    {[op |-> op, key |-> key, revision |-> n, expected |-> 0, result |-> NoResult] :
        op \in Operations, key \in Keys, n \in 0..MaxRevision}

Slot(c) == <<c.op, c.key>>
Received(c) == receipt[Slot(c)].status # "none"

\* Mutant: a replay answers with the item as it is now.
AnswerOfItem(c) == Projection(request)

AnswerOfReceipt(c) == receipt[Slot(c)].answer

\* The receipt is found, and was for the same request.
AnswerAgain(p, c) ==
    /\ Received(c)
    /\ receipt[Slot(c)].request = c.revision
    /\ answered' = answered \cup {<<Slot(c), AnswerOfReceipt(c)>>}
    /\ End(p)
    /\ UNCHANGED <<stored, external>>

Replay(p) ==
    /\ pc[p] = "idle"
    /\ \E c \in Commands : c.op # "preview" /\ AnswerAgain(p, c)

Begin(p, c, step) ==
    /\ req' = [req EXCEPT ![p] = c]
    /\ Goto(p, step, request)
    /\ UNCHANGED <<stored, external, answered>>

\* The revision the gateway will expect: the one after the item's, or the one
\* after that the operator named.
ToGateway(p, c, r) ==
    /\ req' = [req EXCEPT ![p] =
          [c EXCEPT !.expected = IF c.op = "execute" THEN r.revision + 1 ELSE c.revision + 1]]
    /\ Goto(p, "gateway", Absent)
    /\ UNCHANGED <<receipt, inbox, external, answered>>

\* The request's id derives from the key of its preview, which is thus the only one.
PreviewKey == CHOOSE key \in Keys : TRUE

PreparePreview(p) ==
    /\ pc[p] = "idle"
    /\ \E c \in Commands :
        /\ c.op = "preview" /\ c.key = PreviewKey /\ c.revision = 0
        /\ \/ request = Absent /\ Begin(p, c, "create")
           \/ Valid(request) /\ request.state = "draft"
              /\ ToGateway(p, c, request) /\ UNCHANGED request

\* A refused put is taken as made when the draft is there.
Create(p) ==
    /\ pc[p] = "create"
    /\ request.state \in {"absent", "draft"}
    /\ request' = IF request = Absent THEN Draft ELSE request
    /\ ToGateway(p, req[p], Draft)

\* The dry run a request has is the only one its job ever makes. When it
\* expires is left to the moment at which execute is called.
PrepareExecute(p) ==
    /\ pc[p] = "idle"
    /\ Valid(request)
    /\ \E c \in Commands :
        /\ c.op = "execute" /\ c.revision = 0 /\ ~Received(c)
        /\ \/ /\ request.approval = c.key
              /\ ToGateway(p, c, request) /\ UNCHANGED request
           \/ /\ request.approval = "none"
              /\ request.state = "awaiting_approval"
              /\ Begin(p, c, "approve")

Approved(p) == [seen[p] EXCEPT !.approval = req[p].key, !.storage = @ + 1]

\* Mutant: the job is started before the approval is stored.
ApproveLater(p) ==
    /\ pc[p] = "approve"
    /\ ToGateway(p, req[p], seen[p])
    /\ UNCHANGED request

\* A refused put is taken as made when the item holds the same approval.
Approve(p) ==
    /\ pc[p] = "approve"
    /\ \/ /\ request.storage = seen[p].storage
          /\ request' = Approved(p)
          /\ ToGateway(p, req[p], Approved(p))
       \/ /\ request.storage # seen[p].storage
          /\ Valid(request) /\ request.approval = req[p].key
          /\ ToGateway(p, req[p], request) /\ UNCHANGED request

PrepareControl(p) ==
    /\ pc[p] = "idle"
    /\ Valid(request) /\ Bound(request)
    /\ \E c \in Commands :
        /\ c.op \in DOMAIN CONTROL_STATES /\ ~Received(c)
        /\ request.revision = c.revision
        /\ request.state \in CONTROL_STATES[c.op]
        /\ ToGateway(p, c, request) /\ UNCHANGED request

(***************************************************************************)
(* The job.                                                                *)
(***************************************************************************)
Event(state, revision) ==
    [type |-> IF state \in Terminal THEN "completed"
              ELSE IF state = "awaiting_approval" THEN "preview_ready" ELSE "progressed",
     state |-> state, revision |-> revision]

Review(revision) == [type |-> "item_needs_review", state |-> "none", revision |-> revision]

JobEnters(state, revision, done) ==
    /\ revision <= MaxRevision
    /\ job' = [state |-> state, revision |-> revision, done |-> done]
    /\ jobStates' = jobStates \cup {<<revision, state>>}
    /\ sent' = sent \cup (IF state = "previewing" THEN {} ELSE {Event(state, revision)})

\* What the job does on its own. A cancellation may complete at the revision at
\* which it was requested, and passes through canceling only when there were
\* items to undo, that is when the job had been scheduled.
JobMoves ==
    /\ \/ /\ job.state = "previewing"
          /\ JobEnters("awaiting_approval", job.revision + 1, job.done)
       \/ /\ job.state = "scheduled"
          /\ JobEnters("running", job.revision + 1, job.done)
       \/ /\ job.state = "running"
          /\ \E s \in Outcomes :
                JobEnters(s, job.revision + 1, job.done)
       \/ /\ job.state = "cancel_requested"
          /\ JobEnters("canceled", job.revision, job.done)
       \/ /\ job.state = "cancel_requested"
          /\ \E n \in 1..MaxRevision : <<n, "scheduled">> \in jobStates
          /\ JobEnters("canceling", job.revision + 1, job.done)
       \/ /\ job.state = "canceling"
          /\ JobEnters("canceled", job.revision + 1, job.done)
    /\ UNCHANGED <<stored, answered, local>>

JobReviews ==
    /\ job.state \in ReviewedIn
    /\ sent' = sent \cup {Review(job.revision)}
    /\ UNCHANGED <<stored, job, jobStates, answered, local>>

Done(op, at, status, revision) == [op |-> op, at |-> at, status |-> status, revision |-> revision]

\* The job executes a command it has not seen, or declines to, and remembers its result.
JobTakes(op, at) ==
    \/ /\ op = "preview" => job.state = "absent"
       /\ op = "execute" => job.state = "awaiting_approval"
       /\ op \in DOMAIN CONTROL_STATES =>
             job.revision = at /\ job.state \in CONTROL_STATES[op]
       /\ JobEnters(Target[op], job.revision + 1,
                    job.done \cup {Done(op, at, "accepted", job.revision + 1)})
    \/ /\ op = "execute" /\ job.state # "absent"
       /\ job' = [job EXCEPT !.done = @ \cup {Done(op, at, "needs_review", job.revision)}]
       /\ UNCHANGED <<jobStates, sent>>

\* The gateway takes a result for an answer only when its revision fits.
Fits(p, result) ==
    \/ result.status = "accepted" /\ result.revision = req[p].expected
    \/ result.status = "needs_review" /\ result.revision < req[p].expected

Execute(p) ==
    LET op == req[p].op
        at == req[p].revision
        Results(done) == {d \in done : d.op = op /\ d.at = at}
    IN  /\ pc[p] = "gateway"
        /\ \/ Results(job.done) # {} /\ UNCHANGED external
           \/ Results(job.done) = {} /\ JobTakes(op, at)
        /\ \E result \in Results(job'.done) :
            \/ /\ Fits(p, result)
               /\ pc' = [pc EXCEPT ![p] = "record"]
               /\ req' = [req EXCEPT ![p].result = result]
               /\ UNCHANGED seen
            \/ ~Fits(p, result) /\ End(p)
        /\ UNCHANGED <<stored, answered>>

(***************************************************************************)
(* Recording what the job answered: the item moves to the command's state  *)
(* when its revision is the next one, and only notes the command when an   *)
(* event has brought the item there before. Eight tries are made; the      *)
(* model leaves out the count, as giving up is Abandon.                    *)
(***************************************************************************)
Command(p) == [op |-> req[p].op, status |-> req[p].result.status,
               revision |-> req[p].result.revision]

Noted(r, p) == [r EXCEPT !.command = Command(p), !.storage = @ + 1]

Moved(r, p) ==
    LET n == req[p].result.revision IN
    IF req[p].result.status = "accepted"
    THEN [r EXCEPT !.revision = n, !.stateRevision = n, !.state = Target[req[p].op]]
    ELSE [r EXCEPT !.revision = n]

\* Mutant: the command's state is taken though an event has come first.
UpdatedAnyway(r, p) == Noted([r EXCEPT !.state = Target[req[p].op]], p)

Updated(r, p) ==
    IF req[p].result.revision > r.revision THEN Noted(Moved(r, p), p) ELSE Noted(r, p)

Recordable(r, p) ==
    LET result == req[p].result
        target == Target[req[p].op]
    IN  /\ req[p].op = "execute" => r.approval # "none"
        /\ result.revision > r.revision =>
              /\ result.status = "accepted"
              /\ result.revision = r.revision + 1
              /\ target = r.state \/ target \in TRANSITIONS[r.state]

\* The receipt's result must be the one this invocation was given.
RecordReplay(p) ==
    /\ pc[p] = "record"
    /\ receipt[Slot(req[p])].command = Command(p)
    /\ AnswerAgain(p, req[p])

RecordRead(p) ==
    /\ pc[p] = "record" /\ ~Received(req[p])
    /\ Valid(request)
    /\ Recordable(request, p)
    /\ Goto(p, "write", request)
    /\ UNCHANGED <<stored, external, answered, req>>

\* Mutant: the item is put whatever it has become.
PutAnyway(old, new) == request' = new

Put(old, new) == request.storage = old.storage /\ request' = new

PutReceipt(p, answer) ==
    /\ ~Received(req[p])
    /\ receipt' = [receipt EXCEPT ![Slot(req[p])] =
          [status |-> "stored", request |-> req[p].revision, command |-> Command(p),
           answer |-> answer]]

Record(p) ==
    LET new == Updated(seen[p], p) IN
    /\ pc[p] = "write"
    /\ Put(seen[p], new)
    /\ PutReceipt(p, Projection(new))
    /\ answered' = answered \cup {<<Slot(req[p]), Projection(new)>>}
    /\ End(p)
    /\ UNCHANGED <<inbox, external>>

RecordAgain(p) ==
    /\ pc[p] = "write"
    /\ request.storage # seen[p].storage \/ Received(req[p])
    /\ Goto(p, "record", Absent)
    /\ UNCHANGED <<stored, external, answered, req>>

(***************************************************************************)
(* Events.                                                                 *)
(***************************************************************************)
\* Mutant: an event older than the item is applied.
NeverStale(r, e) == FALSE

Stale(r, e) == e.revision < r.revision

\* An event of the item's own revision that still says something new of it.
Reconciles(r, e) ==
    \/ e.type = "item_needs_review"
    \/ /\ e.type = "completed" /\ e.state \in TRANSITIONS[r.state]
       /\ e.revision > r.stateRevision \/ (r.state = "cancel_requested" /\ e.state = "canceled")
    \/ /\ e.type = "progressed"
       /\ \/ e.state = r.state
          \/ e.state \in TRANSITIONS[r.state] /\ e.revision > r.stateRevision

EventState(r, e) == IF e.type = "item_needs_review" THEN r.state ELSE e.state

\* One revision has one progress.
ProgressAgrees(r, e) ==
    e.type = "progressed" /\ r.progress.revision = e.revision => r.progress.state = e.state

Applicable(r, e) ==
    /\ e.type = "preview_ready" => r.state = "previewing"
    /\ e.type = "progressed" /\ e.state \in {"scheduled", "running"} => r.approval # "none"
    /\ e.revision = r.revision => Reconciles(r, e)
    /\ EventState(r, e) = r.state \/ EventState(r, e) \in TRANSITIONS[r.state]

\* Mutant: the proof of the dry run is not kept.
AppliedWithoutProof(r, e) ==
    [r EXCEPT !.state = EventState(r, e), !.revision = e.revision,
              !.stateRevision = IF EventState(r, e) # r.state THEN e.revision ELSE @,
              !.storage = @ + 1]

\* Mutant: an item under review is taken for a change of state.
AppliedAsState(r, e) ==
    [r EXCEPT !.state = e.state, !.revision = e.revision, !.stateRevision = e.revision,
              !.dryRun = @ \/ e.type = "preview_ready", !.storage = @ + 1]

Applied(r, e) ==
    LET state == EventState(r, e) IN
    [r EXCEPT !.state = state,
              !.revision = e.revision,
              !.stateRevision = IF state # r.state THEN e.revision ELSE @,
              !.dryRun = @ \/ e.type = "preview_ready",
              !.progress = IF e.type = "progressed"
                           THEN [revision |-> e.revision, state |-> e.state] ELSE @,
              !.storage = @ + 1]

\* An event older than the item, which leaves the item alone, or one that changes
\* it. Any other is refused and delivered again.
Deliver(e) ==
    /\ Valid(request) /\ Bound(request)
    /\ e \in sent \ inbox
    /\ ProgressAgrees(request, e)
    /\ \/ Stale(request, e) /\ UNCHANGED request
       \/ ~Stale(request, e) /\ Applicable(request, e) /\ request' = Applied(request, e)
    /\ inbox' = inbox \cup {e}
    /\ UNCHANGED <<receipt, external, answered, local>>

\* The invocation is refused, crashes, or does not learn what it has done.
Abandon(p) ==
    /\ pc[p] # "idle"
    /\ End(p)
    /\ UNCHANGED <<stored, external, answered>>

Init ==
    /\ request = Absent
    /\ receipt = [s \in Operations \X Keys |->
          [status |-> "none", request |-> 0, command |-> NoCommand, answer |-> Projection(Absent)]]
    /\ inbox = {} /\ sent = {} /\ answered = {} /\ jobStates = {}
    /\ job = [state |-> "absent", revision |-> 0, done |-> {}]
    /\ pc = [p \in Workers |-> "idle"]
    /\ req = [p \in Workers |-> Idle]
    /\ seen = [p \in Workers |-> Absent]

Operate(p) ==
    \/ Replay(p) \/ PreparePreview(p) \/ Create(p)
    \/ PrepareExecute(p) \/ Approve(p) \/ PrepareControl(p) \/ Execute(p)
    \/ RecordReplay(p) \/ RecordRead(p) \/ Record(p) \/ RecordAgain(p)

Next ==
    \/ JobMoves \/ JobReviews
    \/ \E e \in sent : Deliver(e)
    \/ \E p \in Workers : Operate(p) \/ Abandon(p)

Spec == Init /\ [][Next]_vars

(***************************************************************************)
(* Properties.                                                             *)
(***************************************************************************)
Revisions == 0..MaxRevision
Statuses == {"none", "accepted", "needs_review"}
Copies ==
    [state : States \cup {"absent"}, revision : Revisions, stateRevision : Revisions,
     storage : Nat, dryRun : BOOLEAN, approval : Keys \cup {"none"},
     command : [op : Operations \cup {"none"}, status : Statuses, revision : Revisions],
     progress : [revision : Revisions, state : States \cup {"none"}]]
Answers == [state : States \cup {"absent"}, revision : Revisions, status : Statuses]
SentEvents ==
    [type : {"preview_ready", "progressed", "completed", "item_needs_review"},
     state : States \cup {"none"}, revision : Revisions]

\* The types of the variables, whichever of Commerce's or Integrations' they are.
TypeOK ==
    /\ request \in Copies
    /\ DOMAIN receipt = Operations \X Keys
    /\ \A s \in DOMAIN receipt :
        receipt[s].status \in {"none", "stored"} /\ receipt[s].answer \in Answers
    /\ inbox \subseteq sent /\ sent \subseteq SentEvents
    /\ job.state \in States \cup {"absent"} /\ job.revision \in Revisions
    /\ jobStates \subseteq Revisions \X States
    /\ answered \subseteq (Operations \X Keys) \X Answers
    /\ seen \in [Workers -> Copies]

\* Whatever commands and events have been interleaved, the item can still be
\* read: no write leaves a combination of state, approval, dry run and last
\* command that _validated_stored_request refuses, which would end every
\* operation on the migration for good.
Readable == request = Absent \/ Valid(request)

\* The state stored with a state revision is one the job was in at that
\* revision: late, repeated and reordered events and results that were recorded
\* late never make Commerce believe something that did not happen.
StateWasTheJobs == Bound(request) => <<request.stateRevision, request.state>> \in jobStates

\* A job has started only if the operator's approval of its dry run is stored,
\* and stays stored, whatever crashes between the approval and the result.
StartedWithApproval ==
    (\E n \in Revisions : <<n, "scheduled">> \in jobStates) => request.approval # "none"

\* Everybody who is answered under one key is told the same, the racing call,
\* the retry and the replay after later commands.
AnswersAgree == \A a, b \in answered : a[1] = b[1] => a = b

\* A stored command receipt is the trace of a command the job really answered,
\* and the item is no longer behind it.
ReceiptsAreTrue ==
    \A s \in DOMAIN receipt : receipt[s].status = "stored" =>
        LET c == receipt[s].command IN
        /\ c.revision <= request.revision
        /\ c.status = "accepted" => <<c.revision, Target[s[1]]>> \in jobStates

\* Nothing rolls the request backward: its revisions only grow, the approval
\* and the dry run stay, a state revision has one state (but for a cancellation
\* that completes at once), and a canceled migration stays canceled.
OnlyForward ==
    [][request # Absent =>
          /\ request'.revision >= request.revision
          /\ request'.stateRevision >= request.stateRevision
          /\ request'.storage = request.storage + 1
          /\ request.approval # "none" => request'.approval = request.approval
          /\ request.dryRun => request'.dryRun
          /\ request.state = "canceled" => request'.state = "canceled"
          /\ request'.state # request.state =>
                \/ request'.stateRevision > request.stateRevision
                \/ request.state = "cancel_requested" /\ request'.state = "canceled"
      ]_request

=============================================================================
