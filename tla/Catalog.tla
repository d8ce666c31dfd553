------------------------------ MODULE Catalog ------------------------------
(***************************************************************************)
(* One version of an offer or of a discount: its definition in the catalog *)
(* table, the receipts of the mutations, and what Integrations was asked   *)
(* to do about it (src/catalog_storage.py, src/handlers/catalog_action.py  *)
(* and the transitions of src/domain/offers.py).                           *)
(*                                                                         *)
(* A worker is one invocation. The handler reads the version and decides   *)
(* which commands Integrations must accept first; it then executes them    *)
(* one by one; only then the store reads the version AGAIN, and writes on  *)
(* condition that the revisions of that second reading still hold. Any     *)
(* other invocation may act between two of these steps.                    *)
(*                                                                         *)
(* A key is as good as the mutation it was first used for: another one     *)
(* under the same key is refused and changes nothing. A mutation is        *)
(* therefore a request with a tag that tells apart the keys it is made     *)
(* under.                                                                  *)
(***************************************************************************)
EXTENDS Naturals, Sequences, FiniteSets

CONSTANTS
    Workers,
    Kinds,           \* kinds of version: offer, discount
    Tags,            \* keys under which one request is made
    Names,           \* display names
    NoName,
    MaxPresentation  \* bound on the presentation revision

ASSUME CatalogAssumption ==
    /\ Kinds \subseteq {"offer", "discount"}
    /\ NoName \notin Names
    /\ MaxPresentation \in Nat \ {0}

VARIABLES
    kind,      \* what the version is of
    catalog,   \* item types in the catalog table: the item an offer is of
    version,   \* the OFFER or DISCOUNT item
    receipts,  \* IDEMPOTENCY items: a mutation and the version it left
    provider,  \* what Integrations has made of the version, and by which commands
    pc, req, calls, seen

stored == <<kind, catalog, version, receipts>>
local == <<pc, req, calls, seen>>
vars == <<stored, provider, local>>

LIFECYCLE_STATES == <<"draft", "provisioning", "active", "existing_only", "retired">>
Started == {"active", "existing_only"}

NoVersion == [state |-> "none", lifecycle |-> 0, presentation |-> 0, name |-> NoName]
Idle == [op |-> "none"]

\* The mutations that expect what the version is now. (Of creations it is enough that
\* two of different names compete.)
Mutations ==
    [op : {"createItem"}]
        \cup [op : {"create"}, name : Names \cup {NoName}]
        \cup [op : {"advance"}, target : {"provisioning", "active", "existing_only", "retired"},
              expected : {version.lifecycle}, tag : Tags]
        \cup [op : {"present"}, name : Names \cup {NoName}, expected : {version.presentation},
              tag : Tags]

Creates(m) == m.op \in {"createItem", "create"}
Done(m) == \E r \in receipts : r.mutation = m

Updated(m, v) ==
    IF m.op = "advance"
    THEN [v EXCEPT !.state = m.target, !.lifecycle = @ + 1]
    ELSE [v EXCEPT !.name = m.name, !.presentation = @ + 1]

\* Mutant: any state will do.
ExpectedAnyStep(m, v) ==
    \/ /\ m.op = "advance"
       /\ v.lifecycle = m.expected
       /\ v.lifecycle \in 1..(Len(LIFECYCLE_STATES) - 1)
    \/ /\ m.op = "present"
       /\ v.presentation = m.expected
       /\ v.presentation \in 1..(MaxPresentation - 1)

\* The revision the caller expects is the version's, and the step is the next one.
Expected(m, v) ==
    \/ /\ m.op = "advance"
       /\ v.lifecycle = m.expected
       /\ v.lifecycle \in 1..(Len(LIFECYCLE_STATES) - 1)
       /\ m.target = LIFECYCLE_STATES[v.lifecycle + 1]
    \/ /\ m.op = "present"
       /\ v.presentation = m.expected
       /\ v.presentation \in 1..(MaxPresentation - 1)

(***************************************************************************)
(* Integrations. It knows a command by operation, revision and content,    *)
(* and does the same one once. How it orders different commands is its     *)
(* own affair: it is taken to do them as they come.                        *)
(***************************************************************************)
Provision == [op |-> "provision", revision |-> 1, content |-> NoName]
Lifecycle(v) == [op |-> v.state, revision |-> v.lifecycle, content |-> NoName]
Presentation(v) == [op |-> "presentation", revision |-> v.presentation, content |-> v.name]

ProviderDoes(command) ==
    provider' = IF command \in provider.done THEN provider
                ELSE [done |-> provider.done \cup {command},
                      status |-> CASE command.op = "provision" -> "active"
                                   [] command.op = "presentation" -> provider.status
                                   [] OTHER -> command.op]

\* What must be accepted before the mutation that makes the version v is stored.
Calls(m, v) ==
    CASE m.op = "advance" /\ v.state = "active" ->
            <<Provision>> \o (IF v.name = NoName THEN <<>> ELSE <<Presentation(v)>>)
      [] m.op = "advance" /\ v.state = "existing_only" /\ kind = "discount" -> <<Lifecycle(v)>>
      [] m.op = "advance" /\ v.state = "retired" -> <<Lifecycle(v)>>
      [] m.op = "present" /\ v.state \in Started -> <<Presentation(v)>>
      [] OTHER -> <<>>

\* A retired version keeps its presentation, and a provider needs a name to present.
Presentable(m, v) ==
    m.op = "present" => /\ v.state # "retired"
                        /\ v.state \in Started => m.name # NoName

(***************************************************************************)
(* An invocation.                                                          *)
(***************************************************************************)
End(p) ==
    /\ pc' = [pc EXCEPT ![p] = "idle"]
    /\ req' = [req EXCEPT ![p] = Idle]
    /\ calls' = [calls EXCEPT ![p] = <<>>]
    /\ seen' = [seen EXCEPT ![p] = NoVersion]

\* The handler reads the version, once it has found no receipt of the mutation.
Decide(p) ==
    \E m \in Mutations :
        /\ pc[p] = "idle"
        /\ ~Done(m)
        /\ Creates(m) \/ (Expected(m, version) /\ Presentable(m, version))
        /\ pc' = [pc EXCEPT ![p] = "call"]
        /\ req' = [req EXCEPT ![p] = m]
        /\ calls' = [calls EXCEPT ![p] =
              IF Creates(m) THEN <<>> ELSE Calls(m, Updated(m, version))]
        /\ UNCHANGED <<stored, provider, seen>>

\* Mutant: an answer that is not "accepted" is no obstacle.
ExecutePending(p) ==
    /\ pc[p] = "call" /\ calls[p] # <<>>
    /\ calls' = [calls EXCEPT ![p] = Tail(@)]
    /\ UNCHANGED <<stored, provider, pc, req, seen>>

\* The next command is accepted.
Execute(p) ==
    /\ pc[p] = "call" /\ calls[p] # <<>>
    /\ ProviderDoes(Head(calls[p]))
    /\ calls' = [calls EXCEPT ![p] = Tail(@)]
    /\ UNCHANGED <<stored, pc, req, seen>>

\* It is done, but the answer is "pending", "needs_review" or none at all.
LoseAnswer(p) ==
    /\ pc[p] = "call" /\ calls[p] # <<>>
    /\ ProviderDoes(Head(calls[p]))
    /\ End(p)
    /\ UNCHANGED stored

\* The store finds the receipt of the same mutation, made meanwhile, and replays it.
Replay(p) ==
    /\ pc[p] \in {"call", "write"} /\ calls[p] = <<>>
    /\ Done(req[p])
    /\ End(p)
    /\ UNCHANGED <<stored, provider>>

\* The store's own reading. An offer is created of an item that is there.
Read(p) ==
    LET m == req[p] IN
    /\ pc[p] = "call" /\ calls[p] = <<>>
    /\ ~Done(m)
    /\ m.op = "create" /\ kind = "offer" => "item" \in catalog
    /\ Creates(m) \/ Expected(m, version)
    /\ pc' = [pc EXCEPT ![p] = "write"]
    /\ seen' = [seen EXCEPT ![p] = version]
    /\ UNCHANGED <<stored, provider, req, calls>>

\* Mutant: a mutation is conditional on the one revision it advances.
UnchangedOwn(m, v) ==
    IF m.op = "advance" THEN version.lifecycle = v.lifecycle
    ELSE version.presentation = v.presentation

\* The condition of a put: both revisions of the version are those read.
Unchanged(m, v) ==
    version.lifecycle = v.lifecycle /\ version.presentation = v.presentation

\* The receipt of a mutation, put where there is none, with what it leaves.
Receive(m, v) == receipts' = receipts \cup {[mutation |-> m, version |-> v]}

WriteItem(p) ==
    /\ pc[p] = "write" /\ req[p].op = "createItem"
    /\ ~Done(req[p]) /\ "item" \notin catalog
    /\ catalog' = catalog \cup {"item"}
    /\ Receive(req[p], NoVersion)
    /\ End(p)
    /\ UNCHANGED <<kind, version, provider>>

WriteVersion(p) ==
    /\ pc[p] = "write" /\ req[p].op = "create"
    /\ ~Done(req[p]) /\ version = NoVersion
    /\ version' = [state |-> "draft", lifecycle |-> 1, presentation |-> 1, name |-> req[p].name]
    /\ Receive(req[p], version')
    /\ End(p)
    /\ UNCHANGED <<kind, catalog, provider>>

Write(p) ==
    LET m == req[p] IN
    /\ pc[p] = "write" /\ ~Creates(m)
    /\ ~Done(m) /\ Unchanged(m, seen[p])
    /\ version' = Updated(m, seen[p])
    /\ Receive(m, version')
    /\ End(p)
    /\ UNCHANGED <<kind, catalog, provider>>

\* The invocation is refused, crashes, or does not learn what it has done.
Abandon(p) ==
    /\ pc[p] # "idle"
    /\ End(p)
    /\ UNCHANGED <<stored, provider>>

Init ==
    /\ kind \in Kinds
    /\ catalog = {}
    /\ version = NoVersion
    /\ receipts = {}
    /\ provider = [done |-> {}, status |-> "none"]
    /\ pc = [p \in Workers |-> "idle"]
    /\ req = [p \in Workers |-> Idle]
    /\ calls = [p \in Workers |-> <<>>]
    /\ seen = [p \in Workers |-> NoVersion]

Next ==
    \E p \in Workers :
        \/ Decide(p) \/ Execute(p) \/ LoseAnswer(p)
        \/ Replay(p) \/ Read(p)
        \/ WriteItem(p) \/ WriteVersion(p) \/ Write(p)
        \/ Abandon(p)

Spec == Init /\ [][Next]_vars

-----------------------------------------------------------------------------
\* The version is one that _offer or _discount takes, at the state its lifecycle
\* revision stands for, one state after the other.
TypeOK ==
    /\ kind \in Kinds
    /\ catalog \subseteq {"item"}
    /\ \/ version = NoVersion
       \/ /\ version.lifecycle \in 1..Len(LIFECYCLE_STATES)
          /\ version.state = LIFECYCLE_STATES[version.lifecycle]
          /\ version.presentation \in 1..MaxPresentation
          /\ version.name \in Names \cup {NoName}
    /\ provider.status \in {"none", "active", "existing_only", "retired"}
    /\ pc \in [Workers -> {"idle", "call", "write"}]
    /\ \A p \in Workers : Len(calls[p]) <= 2

\* Where the provider is when the version is in a state.
Due(state) ==
    CASE state \in {"none", "draft", "provisioning"} -> "none"
      [] state = "existing_only" /\ kind = "offer" -> "active"
      [] OTHER -> state

\* Whatever crashes, retries and slow invocations do, the provider is where the
\* version's state says, or one step ahead of it: a version is never for sale without
\* the provider, and none is brought back, or withdrawn, against its state (_handle).
ProviderInStep ==
    \/ provider.status = Due(version.state)
    \/ /\ version.lifecycle \in 1..(Len(LIFECYCLE_STATES) - 1)
       /\ provider.status = Due(LIFECYCLE_STATES[version.lifecycle + 1])

\* No mutation undoes another, though each writes the whole version: the revisions
\* count the stored mutations of their kind, and the name is that of the last one.
NothingLost ==
    LET Of(op) == {r \in receipts : r.mutation.op = op} IN
    /\ Cardinality(Of("create")) = IF version = NoVersion THEN 0 ELSE 1
    /\ version # NoVersion =>
        /\ version.lifecycle = 1 + Cardinality(Of("advance"))
        /\ version.presentation = 1 + Cardinality(Of("present"))
        /\ \A r \in Of("create") \cup Of("present") :
            r.version.presentation = version.presentation => r.mutation.name = version.name
=============================================================================
