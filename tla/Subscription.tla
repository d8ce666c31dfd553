---------------------------- MODULE Subscription ----------------------------
(***************************************************************************)
(* One subscription: its projection, which verified events of Integrations *)
(* move, the access state that pauses and resumes move, and the time at    *)
(* which a prorated change of plan was first asked for                     *)
(* (src/subscription_storage.py and src/handlers/subscription_action.py).  *)
(*                                                                         *)
(* A worker is one invocation. It reads, decides on its copy, and writes   *)
(* in one conditional transaction. A command is first executed by          *)
(* Integrations, which is external and knows it by operation, expected     *)
(* revision and content, not by the caller's key: an identical command     *)
(* gets the first one's answer again. Only an accepted one then reaches    *)
(* the access state, in a step of its own, which a crash may prevent and   *)
(* another command overtake.                                               *)
(***************************************************************************)
EXTENDS Naturals, FiniteSets

CONSTANTS
    Workers,
    Keys,        \* idempotency keys of pauses and resumes
    PlanKeys,    \* idempotency keys of changes of plan
    Behaviors,   \* accessBehavior of the pause policies published over time
    Variants,    \* tells apart the events of one source revision
    MaxSource,   \* bound on the source revisions
    MaxRevision, \* bound on the provider's revision of the subscription
    MaxTime      \* bound on the clock

ASSUME SubscriptionAssumption ==
    /\ Behaviors \subseteq {"suspend", "retain"}
    /\ MaxSource \in Nat \ {0}
    /\ MaxRevision \in Nat \ {0}
    /\ MaxTime \in Nat \ {0}

VARIABLES
    projection, \* the SUBSCRIPTION item
    inbox,      \* EVENT_INBOX items
    access,     \* the SUBSCRIPTION_ACCESS item
    receipt,    \* SUBSCRIPTION_ACCESS_IDEMPOTENCY items
    preview,    \* SUBSCRIPTION_PREVIEW items
    billing,    \* the provider's subscription, with the commands it has executed
    changes,    \* changes of plan Integrations was asked for
    now,
    pc, req, seen

stored == <<projection, inbox, access, receipt, preview>>
external == <<billing, changes>>
local == <<pc, req, seen>>
vars == <<stored, external, now, local>>

\* An event is its source revision and what tells it from others with the same one.
Events == (1..MaxSource) \X Variants
Source(e) == e[1]

Slots == {"pause", "resume"} \X Keys

NoProjection == [revision |-> 0, source |-> 0, event |-> <<>>]
NoAccess == [state |-> "active", revision |-> 0, billingPauseSuspended |-> FALSE]
NoReceipt == [status |-> "none", expected |-> 0, behavior |-> "none", changed |-> FALSE,
              revision |-> 0]
NoPreview == 0
Nothing == [projection |-> NoProjection, access |-> NoAccess]
Idle == [op |-> "none"]

Begin(p, r, step, copy) ==
    /\ pc[p] = "idle"
    /\ pc' = [pc EXCEPT ![p] = step]
    /\ req' = [req EXCEPT ![p] = r]
    /\ seen' = [seen EXCEPT ![p] = copy]
    /\ UNCHANGED <<stored, external, now>>

Continue(p, step, copy) ==
    /\ pc' = [pc EXCEPT ![p] = step]
    /\ seen' = [seen EXCEPT ![p] = copy]
    /\ UNCHANGED <<now, req>>

End(p) ==
    /\ pc' = [pc EXCEPT ![p] = "idle"]
    /\ req' = [req EXCEPT ![p] = Idle]
    /\ seen' = [seen EXCEPT ![p] = Nothing]
    /\ UNCHANGED now

(***************************************************************************)
(* Events of the subscription, delivered repeatedly and in any order. An   *)
(* event of the revision the projection already has, but not the same      *)
(* event, is refused every time.                                           *)
(***************************************************************************)
\* Mutant: an older event is taken for a newer one.
NeverStale(e, current) == FALSE

Stale(e, current) == Source(e) < current.source

ReadEvent(p) ==
    \E e \in Events :
        /\ inbox[e] = "none"
        /\ Source(e) # projection.source
        /\ Begin(p, [op |-> "event", event |-> e], "event",
                 [Nothing EXCEPT !.projection = projection])

\* Mutant: the put is not conditional.
PutProjectionAnyway(old, new) == projection' = new

\* The condition: the projection read, or none when there was none.
PutProjection(old, new) == projection = old /\ projection' = new

ApplyEvent(p) ==
    LET e == req[p].event
        old == seen[p].projection
    IN  /\ pc[p] = "event"
        /\ inbox[e] = "none"
        /\ \/ /\ Stale(e, old)
              /\ inbox' = [inbox EXCEPT ![e] = "stale"]
              /\ UNCHANGED projection
           \/ /\ ~Stale(e, old)
              /\ PutProjection(old,
                    [revision |-> old.revision + 1, source |-> Source(e), event |-> e])
              /\ inbox' = [inbox EXCEPT ![e] = "applied"]
        /\ End(p)
        /\ UNCHANGED <<access, receipt, preview, external>>

(***************************************************************************)
(* Pause and resume. The policy is the one published when the command is   *)
(* handled, and part of what the receipt's hash covers.                    *)
(***************************************************************************)
StartAccess(p) ==
    \E slot \in Slots, expected \in 1..MaxRevision, behavior \in Behaviors :
        Begin(p, [op |-> slot[1], slot |-> slot, expected |-> expected, behavior |-> behavior],
              "gateway", Nothing)

Identity(r) == [op |-> r.op, expected |-> r.expected, behavior |-> r.behavior]

\* The provider pauses and resumes what is at the expected revision, once; what
\* it has done already it accepts again and leaves alone.
ProviderDoes(r) ==
    IF Identity(r) \in billing.done THEN UNCHANGED billing
    ELSE /\ billing.revision = r.expected
         /\ billing.state = IF r.op = "pause" THEN "active" ELSE "paused"
         /\ billing' = [state |-> IF r.op = "pause" THEN "paused" ELSE "active",
                        revision |-> billing.revision + 1,
                        done |-> billing.done \cup {Identity(r)}]

\* Mutant: the access state follows an answer that is still "pending".
ExecutePending(p) ==
    /\ pc[p] = "gateway"
    /\ Continue(p, "access", Nothing)
    /\ UNCHANGED <<stored, external>>

\* The answer is "accepted".
Execute(p) ==
    /\ pc[p] = "gateway"
    /\ ProviderDoes(req[p])
    /\ Continue(p, "access", Nothing)
    /\ UNCHANGED <<stored, changes>>

\* The provider has done it, but the answer is "pending", "needs_review" or none:
\* the access state is left alone.
LoseAnswer(p) ==
    /\ pc[p] = "gateway"
    /\ ProviderDoes(req[p])
    /\ End(p)
    /\ UNCHANGED <<stored, changes>>

\* Mutant: a resume does not clear what the pause has set.
UpdatedState(r, old) ==
    IF r.op = "pause" /\ r.behavior = "suspend" /\ old.state = "active"
    THEN [state |-> "suspended", revision |-> old.revision + 1, billingPauseSuspended |-> TRUE]
    ELSE IF r.op = "resume" /\ old.billingPauseSuspended
    THEN [old EXCEPT !.state = "active", !.revision = @ + 1]
    ELSE old

\* The state after an accepted command; the same when it has nothing to change.
Updated(r, old) ==
    IF r.op = "pause" /\ r.behavior = "suspend" /\ old.state = "active"
    THEN [state |-> "suspended", revision |-> old.revision + 1, billingPauseSuspended |-> TRUE]
    ELSE IF r.op = "resume" /\ old.billingPauseSuspended
    THEN [state |-> "active", revision |-> old.revision + 1, billingPauseSuspended |-> FALSE]
    ELSE old

\* A receipt ends the command: it replays, or its key was used for another one.
Replay(p) ==
    /\ pc[p] = "access"
    /\ receipt[req[p].slot].status = "stored"
    /\ End(p)
    /\ UNCHANGED <<stored, external>>

ReadAccess(p) ==
    /\ pc[p] = "access"
    /\ receipt[req[p].slot].status = "none"
    /\ Continue(p, "write", [Nothing EXCEPT !.access = access])
    /\ UNCHANGED <<stored, external>>

\* Mutant: the put is not conditional.
PutAccessAnyway(old, new) == access' = new

\* Nothing is put, and nothing is required of the item, when nothing changes.
PutAccess(old, new) ==
    /\ new # old => access = old
    /\ access' = IF new # old THEN new ELSE access

WriteAccess(p) ==
    LET r == req[p]
        old == seen[p].access
        new == Updated(r, old)
    IN  /\ pc[p] = "write"
        /\ receipt[r.slot].status = "none"
        /\ PutAccess(old, new)
        /\ receipt' = [receipt EXCEPT ![r.slot] =
              [status |-> "stored", expected |-> r.expected, behavior |-> r.behavior,
               changed |-> new # old, revision |-> new.revision]]
        /\ End(p)
        /\ UNCHANGED <<projection, inbox, preview, external>>

(***************************************************************************)
(* A change of plan with immediate proration. The first call's time is     *)
(* stored under the key and part of every retry's command.                 *)
(***************************************************************************)
StartChange(p) ==
    \E key \in PlanKeys :
        Begin(p, [op |-> "changePlan", key |-> key, time |-> now], "preview", Nothing)

Ask(p, time) ==
    /\ changes' = changes \cup {[key |-> req[p].key, time |-> time]}
    /\ End(p)

\* Mutant: a call that comes second goes on with its own time.
PreviewAnyway(p) ==
    LET r == req[p] IN
    /\ pc[p] = "preview"
    /\ preview' = [preview EXCEPT ![r.key] = r.time]
    /\ Ask(p, r.time)
    /\ UNCHANGED <<projection, inbox, access, receipt, billing>>

\* The put is of an absent item; a call that finds it there, before or after the
\* put fails, goes on with the stored time. (Another command under the key of this
\* one is refused, as in Abandon.)
Preview(p) ==
    LET r == req[p] IN
    /\ pc[p] = "preview"
    /\ \/ /\ preview[r.key] = NoPreview
          /\ preview' = [preview EXCEPT ![r.key] = r.time]
          /\ Ask(p, r.time)
       \/ /\ preview[r.key] # NoPreview
          /\ Ask(p, preview[r.key])
          /\ UNCHANGED preview
    /\ UNCHANGED <<projection, inbox, access, receipt, billing>>

\* The invocation is refused, crashes, or does not learn what it has done.
Abandon(p) ==
    /\ pc[p] # "idle"
    /\ End(p)
    /\ UNCHANGED <<stored, external>>

Tick ==
    /\ now < MaxTime
    /\ now' = now + 1
    /\ UNCHANGED <<stored, external, local>>

Init ==
    /\ projection = NoProjection
    /\ inbox = [e \in Events |-> "none"]
    /\ access = NoAccess
    /\ receipt = [slot \in Slots |-> NoReceipt]
    /\ preview = [key \in PlanKeys |-> NoPreview]
    /\ billing = [state |-> "active", revision |-> 1, done |-> {}]
    /\ changes = {}
    /\ now = 1
    /\ pc = [p \in Workers |-> "idle"]
    /\ req = [p \in Workers |-> Idle]
    /\ seen = [p \in Workers |-> Nothing]

Next ==
    \/ \E p \in Workers :
        \/ ReadEvent(p) \/ ApplyEvent(p)
        \/ StartAccess(p) \/ Execute(p) \/ LoseAnswer(p)
        \/ Replay(p) \/ ReadAccess(p) \/ WriteAccess(p)
        \/ StartChange(p) \/ Preview(p)
        \/ Abandon(p)
    \/ Tick

Spec == Init /\ [][Next]_vars

-----------------------------------------------------------------------------
\* The items are of a form their readers take (_stored_projection, _stored_access,
\* _access_replay, _preview_replay refuse any other, for good): in particular, who is
\* suspended by a pause of billing is suspended, and the projection has no more revisions
\* than there are source revisions.
TypeOK ==
    /\ projection.revision \in 0..MaxSource
    /\ projection.source \in 0..MaxSource
    /\ projection.event \in Events \cup {<<>>}
    /\ inbox \in [Events -> {"none", "applied", "stale"}]
    /\ access.state \in {"active", "suspended"}
    /\ access.billingPauseSuspended \in BOOLEAN
    /\ access.billingPauseSuspended => access.state = "suspended"
    /\ access.revision \in Nat
    /\ \A slot \in Slots :
        /\ receipt[slot].status \in {"none", "stored"}
        /\ receipt[slot].changed => receipt[slot].revision \in 1..access.revision
    /\ preview \in [PlanKeys -> 0..MaxTime]
    /\ pc \in [Workers -> {"idle", "event", "gateway", "access", "write", "preview"}]
    /\ now \in 1..MaxTime

\* However events are repeated and reordered, and whatever two invocations read before
\* they write, the projection is the newest event processed, counts the applied ones,
\* and no two events of one source revision are both applied (apply_verified_event).
ProjectionIsNewest ==
    LET applied == {e \in Events : inbox[e] = "applied"} IN
    /\ \A e \in Events : inbox[e] # "none" => Source(e) <= projection.source
    /\ projection.revision = Cardinality(applied)
    /\ Cardinality({Source(e) : e \in applied}) = Cardinality(applied)
    /\ applied # {} => projection.event \in applied /\ Source(projection.event) = projection.source

\* Every change of access is one receipt's, in an unbroken sequence whose last says
\* what the state is, and no receipt is of a command the provider has not done: a pause
\* or a resume changes access once, under retries and races (apply_access_transition).
AccessAccounted ==
    LET Changing == {slot \in Slots : receipt[slot].changed} IN
    /\ access.revision = Cardinality(Changing)
    /\ {receipt[slot].revision : slot \in Changing} = 1..access.revision
    /\ \A slot \in Changing :
        receipt[slot].revision = access.revision =>
            (slot[1] = "pause") = (access.state = "suspended")
    /\ \A slot \in Slots :
        receipt[slot].status = "stored" =>
            [op |-> slot[1], expected |-> receipt[slot].expected,
             behavior |-> receipt[slot].behavior] \in billing.done

\* All that Integrations is asked under one key is one change at one time, so that a
\* retry, or a second call at the same moment, is the same command to it: two times
\* would be two commands with two prorations (preview_timestamp).
OnePlanChange == \A x, y \in changes : x.key = y.key => x = y
=============================================================================
