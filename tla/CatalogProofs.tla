---------------------------- MODULE CatalogProofs ----------------------------
(***************************************************************************)
(* Proofs about Catalog for every set of workers, keys and names, and for  *)
(* every bound.                                                            *)
(*                                                                         *)
(* The handler has the commands of an advance accepted before the store    *)
(* writes it, and both read the version on their own. That the provider    *)
(* is never elsewhere than at the version's state, or at the next one,     *)
(* rests on two facts about every invocation: its advance has given its    *)
(* commands or still will (Advancing), and a command it has still to give  *)
(* is for the version's next state, or was given before (Harmless): so a   *)
(* version that has moved on has had the commands of all its states.       *)
(***************************************************************************)
EXTENDS Catalog, FiniteSetTheorems, SequenceTheorems, TLAPS

AllNames == Names \cup {NoName}
Commands ==
    [op : {"provision", "presentation", "existing_only", "retired"}, revision : Nat,
     content : AllNames]
Versions ==
    [state : {"draft", "provisioning", "active", "existing_only", "retired"},
     lifecycle : 1..5, presentation : 1..MaxPresentation, name : AllNames]

Creations == [op : {"createItem"}] \cup [op : {"create"}, name : AllNames]
Advances ==
    [op : {"advance"}, target : {"provisioning", "active", "existing_only", "retired"},
     expected : Nat, tag : Tags]
Presents == [op : {"present"}, name : AllNames, expected : Nat, tag : Tags]

\* The state that a lifecycle revision stands for.
StateAt(n) == IF n = 0 THEN "none" ELSE LIFECYCLE_STATES[n]

\* The commands that move the provider, by the lifecycle revision that is stored when they
\* have been accepted.
StatusCommands(n) ==
    CASE n = 3 -> {Provision}
      [] n = 4 /\ kind = "discount" ->
            {[op |-> "existing_only", revision |-> 4, content |-> NoName]}
      [] n = 5 -> {[op |-> "retired", revision |-> 5, content |-> NoName]}
      [] OTHER -> {}

(***************************************************************************)
(* The inductive invariant, in parts.                                      *)
(***************************************************************************)
Typed ==
    /\ kind \in Kinds /\ catalog \subseteq {"item"}
    /\ version = NoVersion
          \/ (version \in Versions /\ version.state = StateAt(version.lifecycle))
    /\ provider \in [done : SUBSET Commands,
                    status : {"none", "active", "existing_only", "retired"}]
    /\ pc \in [Workers -> {"idle", "call", "write"}] /\ DOMAIN req = Workers
    /\ calls \in [Workers -> Seq(Commands)]
    /\ seen \in [Workers -> Versions \cup {NoVersion}]

\* The provider has moved on exactly when the command that moves it has been accepted, and
\* none has that the version is not at.
Moved(n) == StatusCommands(n) # {} /\ StatusCommands(n) \subseteq provider.done

InStep ==
    /\ provider.status =
          Due(StateAt(IF Moved(version.lifecycle + 1) THEN version.lifecycle + 1
                      ELSE version.lifecycle))
    /\ \A n \in 1..5 : n > version.lifecycle + 1 => ~Moved(n)

Outstanding(p) == {calls[p][i] : i \in 1..Len(calls[p])}

\* A command that is still to be given does not move the provider, or has been given
\* before, or is for the version's next state.
Harmless(c) ==
    \/ c.op = "presentation"
    \/ c \in provider.done
    \/ c \in StatusCommands(version.lifecycle + 1)

\* An advance has given its commands, or will.
Advancing(p) ==
    LET m == req[p] IN
    /\ m \in Advances
    /\ m.expected \in 1..4 /\ m.expected <= version.lifecycle
    /\ m.target = StateAt(m.expected + 1)
    /\ StatusCommands(m.expected + 1) \subseteq provider.done \cup Outstanding(p)

\* What was read is what is, or one of its revisions is smaller.
Earlier(v) ==
    /\ v.lifecycle <= version.lifecycle /\ v.presentation <= version.presentation
    /\ v.lifecycle = version.lifecycle /\ v.presentation = version.presentation => v = version

Stage(p) ==
    \/ pc[p] = "idle" /\ calls[p] = <<>>
    \/ /\ pc[p] \in {"call", "write"}
       /\ req[p] \in Creations \/ req[p] \in Presents \/ Advancing(p)
       /\ Len(calls[p]) <= 2 /\ \A c \in Outstanding(p) : Harmless(c)
       /\ pc[p] = "write" =>
             /\ calls[p] = <<>> /\ Earlier(seen[p])
             /\ Creates(req[p]) \/ Expected(req[p], seen[p])

Staged == \A p \in Workers : Stage(p)

Of(op) == {r \in receipts : r.mutation.op = op}

Counted ==
    /\ IsFiniteSet(receipts)
    /\ Cardinality(Of("create")) = IF version = NoVersion THEN 0 ELSE 1
    /\ version.lifecycle = Cardinality(Of("create")) + Cardinality(Of("advance"))
    /\ version.presentation = Cardinality(Of("create")) + Cardinality(Of("present"))
    /\ \A r \in Of("create") \cup Of("present") :
        /\ r.version.presentation \in Nat
        /\ r.version.presentation <= version.presentation
        /\ r.version.presentation = version.presentation => r.mutation.name = version.name

IInv == Typed /\ InStep /\ Staged /\ Counted

-----------------------------------------------------------------------------
(***************************************************************************)
(* The tables.                                                             *)
(***************************************************************************)
LEMMA States ==
    /\ Len(LIFECYCLE_STATES) = 5
    /\ StateAt(0) = "none" /\ StateAt(1) = "draft" /\ StateAt(2) = "provisioning"
    /\ StateAt(3) = "active" /\ StateAt(4) = "existing_only" /\ StateAt(5) = "retired"
BY DEF StateAt, LIFECYCLE_STATES

\* A typed version: its state is that of its lifecycle revision, and only the absent one has none.
LEMMA VersionForms ==
    ASSUME Typed
    PROVE  /\ version \in Versions \cup {NoVersion} /\ version.state = StateAt(version.lifecycle)
           /\ version.lifecycle \in 0..5 /\ version.presentation \in 0..MaxPresentation
           /\ version.name \in AllNames
           /\ version = NoVersion <=> version.lifecycle = 0
           /\ kind \in {"offer", "discount"}
BY States, CatalogAssumption DEF Typed, Versions, NoVersion, AllNames

\* A step of the lifecycle asks for at most one command, which no other step asks for.
LEMMA StatusForms ==
    ASSUME NEW n \in 0..6
    PROVE  /\ \A c \in StatusCommands(n) :
                  c.op # "presentation" /\ c \in Commands
           /\ \A c \in StatusCommands(n) : StatusCommands(n) = {c}
           /\ \A m \in 0..6, c \in StatusCommands(n) : c \in StatusCommands(m) => m = n
BY DEF StatusCommands, Provision, Commands, AllNames

-----------------------------------------------------------------------------
(***************************************************************************)
(* The provider.                                                           *)
(***************************************************************************)
\* What leaves the provider and the lifecycle alone leaves them in step.
LEMMA InStepStays ==
    ASSUME Typed, InStep, UNCHANGED <<kind, provider>>, version'.lifecycle = version.lifecycle
    PROVE  InStep'
<1>1. \A n \in 1..6 : Moved(n)' <=> Moved(n)
  BY DEF Moved, StatusCommands
<1> QED
  BY <1>1, VersionForms DEF InStep, Due

\* A command that the provider takes, and that is harmless, leaves it in step.
LEMMA ProviderIs ==
    ASSUME Typed, InStep, NEW c \in Commands, Harmless(c), ProviderDoes(c),
           UNCHANGED <<kind, version>>
    PROVE  /\ InStep' /\ provider.done \subseteq provider'.done /\ c \in provider'.done
           /\ provider' \in [done : SUBSET Commands,
                             status : {"none", "active", "existing_only", "retired"}]
<1> DEFINE L == version.lifecycle
<1>0. L \in 0..5 /\ kind \in {"offer", "discount"}
  BY VersionForms
<1>1. CASE c \in provider.done
  <2>1. provider' = provider /\ UNCHANGED <<kind, version>>
    BY <1>1 DEF ProviderDoes
  <2> QED
    BY <1>1, <2>1, InStepStays DEF Typed
<1>2. CASE c \notin provider.done
  <2>1. /\ provider'.done = provider.done \cup {c}
        /\ provider'.status = CASE c.op = "provision" -> "active"
                                [] c.op = "presentation" -> provider.status
                                [] OTHER -> c.op
    BY <1>2 DEF ProviderDoes
  <2>2. provider' \in [done : SUBSET Commands,
                       status : {"none", "active", "existing_only", "retired"}]
    BY <1>2, <2>1 DEF ProviderDoes, Typed, Commands
  <2>3. CASE c.op = "presentation"
    <3>1. \A n \in 1..6 : StatusCommands(n)' = StatusCommands(n)
      BY DEF StatusCommands
    <3>2. \A n \in 1..6 : c \notin StatusCommands(n)
      BY <2>3, StatusForms
    <3>3. \A n \in 1..6 : Moved(n)' <=> Moved(n)
      BY <2>1, <3>1, <3>2 DEF Moved
    <3>4. provider'.status = provider.status
      BY <2>1, <2>3
    <3> QED
      BY <1>0, <2>1, <2>2, <3>3, <3>4 DEF InStep, Due
  <2>4. CASE c \in StatusCommands(L + 1)
    <3>1. \A n \in 1..6 : StatusCommands(n)' = StatusCommands(n)
      BY DEF StatusCommands
    <3>2. L + 1 \in 3..5 /\ StatusCommands(L + 1) = {c}
      BY <1>0, <2>4, StatusForms DEF StatusCommands
    <3>3. \A n \in 1..6 : n # L + 1 => c \notin StatusCommands(n)
      BY <1>0, <2>4, StatusForms
    <3>4. \A n \in 1..6 : Moved(n)' <=> Moved(n) \/ n = L + 1
      BY <2>1, <3>1, <3>2, <3>3 DEF Moved
    <3>5. provider'.status = Due(StateAt(L + 1))
      BY <1>0, <2>1, <2>4, <3>2, States DEF Due, StatusCommands, Provision
    <3> QED
      BY <1>0, <2>1, <2>2, <3>2, <3>4, <3>5 DEF InStep, Due
  <2> QED
    BY <1>2, <2>1, <2>2, <2>3, <2>4 DEF Harmless
<1> QED
  BY <1>1, <1>2

\* The version moves on when its provider has.
LEMMA LifecycleIs ==
    ASSUME Typed, InStep, UNCHANGED <<kind, provider>>,
           version'.lifecycle = version.lifecycle + 1, version'.lifecycle \in 1..5,
           StatusCommands(version.lifecycle + 1) \subseteq provider.done
    PROVE  InStep'
<1> DEFINE L == version.lifecycle
<1>0. L \in 0..4 /\ kind \in {"offer", "discount"}
  BY VersionForms
<1>1. \A n \in 1..6 : Moved(n)' <=> Moved(n)
  BY DEF Moved, StatusCommands
<1>2. ~Moved(L + 2)
  BY <1>0 DEF InStep, Moved, StatusCommands
<1>3. provider.status = Due(StateAt(L + 1))
  <2>1. CASE Moved(L + 1)
    BY <2>1 DEF InStep
  <2>2. CASE ~Moved(L + 1)
    <3>1. StatusCommands(L + 1) = {}
      BY <2>2 DEF Moved
    <3>2. L = 0 \/ L = 1 \/ (L = 3 /\ kind = "offer")
      <4>1. L \in {0, 1, 2, 3, 4} /\ kind \in {"offer", "discount"}
        BY <1>0
      <4>2. StatusCommands(3) # {} /\ StatusCommands(5) # {}
            /\ (kind = "discount" => StatusCommands(4) # {})
        BY DEF StatusCommands
      <4> HIDE DEF L
      <4> QED
        BY <3>1, <4>1, <4>2
    <3>3. Due(StateAt(L + 1)) = Due(StateAt(L))
      BY <3>2, States DEF Due
    <3> QED
      BY <2>2, <3>3 DEF InStep
  <2> QED
    BY <2>1, <2>2
<1>4. \A n \in 1..5 : n > L + 2 => ~Moved(n)
  BY <1>0 DEF InStep
<1> QED
  BY <1>0, <1>1, <1>2, <1>3, <1>4 DEF InStep, Due

-----------------------------------------------------------------------------
(***************************************************************************)
(* The mutations.                                                          *)
(***************************************************************************)
LEMMA MutationForms ==
    ASSUME Typed, NEW m \in Mutations
    PROVE  /\ Creates(m) <=> m \in Creations
           /\ ~Creates(m) => \/ m \in Advances /\ m.op = "advance" /\ m.expected = version.lifecycle
                             \/ m \in Presents /\ m.op = "present"
BY VersionForms DEF Mutations, Creates, Creations, Advances, Presents, AllNames

\* What a mutation makes of the version it expects.
LEMMA UpdatedIs ==
    ASSUME NEW m \in Advances \cup Presents, NEW v \in Versions \cup {NoVersion},
           v.state = StateAt(v.lifecycle), Expected(m, v)
    PROVE  LET w == Updated(m, v) IN
           /\ w \in Versions /\ w.state = StateAt(w.lifecycle)
           /\ v \in Versions
           /\ m.op = "advance" => /\ m.expected = v.lifecycle /\ m.expected \in 1..4
                                  /\ m.target = StateAt(m.expected + 1)
                                  /\ w.lifecycle = v.lifecycle + 1
                                  /\ w.presentation = v.presentation /\ w.name = v.name
           /\ m.op = "present" => /\ w.lifecycle = v.lifecycle
                                  /\ w.presentation = v.presentation + 1 /\ w.name = m.name
<1>1. CASE m \in Advances
  <2> DEFINE one == [v EXCEPT !.state = m.target]
             w == [one EXCEPT !.lifecycle = @ + 1]
  <2>1. /\ m.op = "advance" /\ m.expected = v.lifecycle /\ v.lifecycle \in 1..4
        /\ m.target = StateAt(v.lifecycle + 1) /\ v \in Versions
    BY <1>1, States DEF Expected, Advances, StateAt, NoVersion
  <2>2. one \in Versions /\ one.lifecycle = v.lifecycle /\ one.state = m.target
    BY <1>1, <2>1 DEF Versions, Advances
  <2>3. w.presentation = v.presentation /\ w.name = v.name
    BY <2>1 DEF Versions
  <2>4. w \in Versions /\ w.lifecycle = v.lifecycle + 1 /\ w.state = m.target
    <3>1. one.lifecycle + 1 \in 1..5
      BY <2>1, <2>2
    <3> HIDE DEF one
    <3> QED
      BY <2>2, <3>1 DEF Versions
  <2>5. Updated(m, v) = w
    BY <2>1 DEF Updated, Versions
  <2> HIDE DEF w
  <2> QED
    BY <2>1, <2>3, <2>4, <2>5
<1>2. CASE m \in Presents
  <2> DEFINE one == [v EXCEPT !.name = m.name]
             w == [one EXCEPT !.presentation = @ + 1]
  <2>1. /\ m.op = "present" /\ m.name \in AllNames
        /\ v \in Versions /\ v.presentation \in 1..(MaxPresentation - 1)
    BY <1>2 DEF Expected, Presents, NoVersion
  <2>2. one \in Versions /\ one.presentation = v.presentation /\ one.name = m.name
    BY <2>1 DEF Versions
  <2>3. w.lifecycle = v.lifecycle /\ w.state = v.state
    BY <2>1 DEF Versions
  <2>4. w \in Versions /\ w.presentation = v.presentation + 1 /\ w.name = m.name
    <3>1. one.presentation + 1 \in 1..MaxPresentation
      BY <2>1, <2>2, CatalogAssumption
    <3> HIDE DEF one
    <3> QED
      BY <2>2, <3>1 DEF Versions
  <2>5. Updated(m, v) = w
    BY <2>1 DEF Updated, Versions
  <2> HIDE DEF w
  <2> QED
    BY <2>1, <2>3, <2>4, <2>5
<1> QED
  BY <1>1, <1>2

\* The commands of a mutation: they present the version, or move its provider to the next
\* state, which an advance does with all that this takes.
LEMMA CallsAre ==
    ASSUME Typed, NEW m \in Mutations, ~Creates(m), Expected(m, version)
    PROVE  LET cs == Calls(m, Updated(m, version)) IN
           /\ cs \in Seq(Commands) /\ Len(cs) <= 2
           /\ \A i \in 1..Len(cs) :
                  cs[i].op = "presentation" \/ cs[i] \in StatusCommands(version.lifecycle + 1)
           /\ m.op = "advance" =>
                  \A c \in StatusCommands(version.lifecycle + 1) : \E i \in 1..Len(cs) : cs[i] = c
<1> DEFINE w == Updated(m, version)
           cs == Calls(m, w)
<1>0. /\ kind \in {"offer", "discount"} /\ version \in Versions \cup {NoVersion}
      /\ version.state = StateAt(version.lifecycle) /\ NoName \in AllNames
  BY VersionForms DEF AllNames
<1>1. m \in Advances \cup Presents
  BY MutationForms
<1>2. /\ w \in Versions /\ w.state = StateAt(w.lifecycle)
      /\ m.op = "advance" => /\ version.lifecycle \in 1..4
                             /\ w.lifecycle = version.lifecycle + 1
  BY <1>0, <1>1, UpdatedIs
<1>3. Presentation(w) \in Commands /\ Presentation(w).op = "presentation"
  BY <1>2 DEF Presentation, Commands, Versions
<1>4. Provision \in Commands
  BY <1>0 DEF Provision, Commands
<1>5. w.state \in {"existing_only", "retired"} => Lifecycle(w) \in Commands
  BY <1>0, <1>2 DEF Lifecycle, Commands, Versions
<1>6. CASE m.op = "advance"
  <2>1. CASE w.state = "active"
    <3>1. version.lifecycle + 1 = 3
      <4>1. w.lifecycle \in {1, 2, 3, 4, 5} /\ StateAt(w.lifecycle) = "active"
        BY <1>2, <2>1 DEF Versions
      <4> HIDE DEF w
      <4> QED
        BY <1>2, <1>6, <4>1, States
    <3>2. cs = <<Provision>> \o (IF w.name = NoName THEN <<>> ELSE <<Presentation(w)>>)
      BY <1>6, <2>1 DEF Calls
    <3>3. cs = IF w.name = NoName THEN <<Provision>> ELSE <<Provision, Presentation(w)>>
      BY <1>3, <1>4, <3>2
    <3> QED
      BY <1>3, <1>4, <3>1, <3>3 DEF StatusCommands
  <2>2. CASE w.state = "retired" \/ (w.state = "existing_only" /\ kind = "discount")
    <3>1. StatusCommands(version.lifecycle + 1) = {Lifecycle(w)}
      BY <1>2, <1>6, <2>2, States DEF StatusCommands, Lifecycle
    <3>2. cs = <<Lifecycle(w)>>
      BY <1>6, <2>2 DEF Calls
    <3> QED
      BY <1>5, <2>2, <3>1, <3>2
  <2>3. CASE /\ w.state # "active" /\ w.state # "retired"
             /\ ~(w.state = "existing_only" /\ kind = "discount")
    <3>1. StatusCommands(version.lifecycle + 1) = {}
      BY <1>2, <1>6, <2>3, States DEF StatusCommands
    <3>2. cs = <<>>
      BY <1>6, <2>3 DEF Calls
    <3> QED
      BY <3>1, <3>2
  <2> QED
    BY <2>1, <2>2, <2>3
<1>7. CASE m.op # "advance"
  <2>1. m.op = "present"
    BY <1>1, <1>7 DEF Advances, Presents
  <2>2. cs = IF w.state \in Started THEN <<Presentation(w)>> ELSE <<>>
    BY <2>1 DEF Calls
  <2>3. CASE w.state \in Started
    <3>1. cs = <<Presentation(w)>>
      BY <2>2, <2>3
    <3> QED
      BY <1>3, <1>7, <3>1
  <2>4. CASE w.state \notin Started
    <3>1. cs = <<>>
      BY <2>2, <2>4
    <3> QED
      BY <1>7, <3>1
  <2> QED
    BY <2>3, <2>4
<1> QED
  BY <1>6, <1>7

-----------------------------------------------------------------------------
(***************************************************************************)
(* The invocations that do not act.                                        *)
(***************************************************************************)
\* A version is left as it is, or moves on: to its next state only when the commands of
\* that state have been given.
Onward ==
    \/ version' = version
    \/ /\ version'.lifecycle >= version.lifecycle
       /\ version'.presentation >= version.presentation
       /\ version'.lifecycle > version.lifecycle \/ version'.presentation > version.presentation
       /\ \/ version'.lifecycle = version.lifecycle
          \/ StatusCommands(version.lifecycle + 1) \subseteq provider'.done

\* What a worker is about to do stays true while it does nothing and the version only advances.
LEMMA StageStays ==
    ASSUME Typed, NEW q \in Workers, Stage(q), UNCHANGED kind,
           pc'[q] = pc[q], req'[q] = req[q], calls'[q] = calls[q], seen'[q] = seen[q],
           provider.done \subseteq provider'.done, Onward,
           version' \in Versions \cup {NoVersion}
    PROVE  Stage(q)'
<1>1. CASE pc[q] = "idle" /\ calls[q] = <<>>
  BY <1>1 DEF Stage
<1>2. CASE ~(pc[q] = "idle" /\ calls[q] = <<>>)
  <2>1. /\ version.lifecycle \in 0..5 /\ version.presentation \in Nat
        /\ version'.lifecycle \in 0..5 /\ version'.presentation \in Nat
    BY CatalogAssumption DEF Typed, Versions, NoVersion
  <2>2. \A n \in Nat : StatusCommands(n)' = StatusCommands(n)
    BY DEF StatusCommands
  <2>3. Outstanding(q)' = Outstanding(q)
    BY DEF Outstanding
  <2>4. Advancing(q) => Advancing(q)'
    <3> SUFFICES ASSUME Advancing(q)
                 PROVE  Advancing(q)'
      OBVIOUS
    <3>1. req[q].expected \in 1..4 /\ req[q].expected <= version'.lifecycle
      BY <2>1 DEF Advancing, Onward
    <3>2. StatusCommands(req[q].expected + 1)' = StatusCommands(req[q].expected + 1)
      BY DEF StatusCommands
    <3> QED
      BY <2>3, <3>1, <3>2 DEF Advancing, StateAt
  <2>5. \A c \in Outstanding(q) : Harmless(c) => Harmless(c)'
    <3>1. version'.lifecycle = version.lifecycle
             \/ StatusCommands(version.lifecycle + 1) \subseteq provider'.done
      BY DEF Onward
    <3>2. \A c : c \in StatusCommands(version.lifecycle + 1) =>
                     c \in provider'.done \/ c \in StatusCommands(version.lifecycle + 1)'
      BY <2>1, <3>1 DEF StatusCommands
    <3> QED
      BY <3>2 DEF Harmless
  <2>6. pc[q] = "write" => Earlier(seen[q])'
    <3> SUFFICES ASSUME pc[q] = "write"
                 PROVE  Earlier(seen[q])'
      OBVIOUS
    <3>1. Earlier(seen[q]) /\ seen[q] \in Versions \cup {NoVersion}
      BY <1>2 DEF Stage, Typed
    <3>2. seen[q].lifecycle \in 0..5 /\ seen[q].presentation \in Nat
      BY <3>1, CatalogAssumption DEF Versions, NoVersion
    <3> QED
      BY <2>1, <3>1, <3>2 DEF Earlier, Onward
  <2>7. pc[q] = "write" => Creates(req[q])' \/ Expected(req[q], seen[q])'
    BY <1>2 DEF Stage, Creates, Expected
  <2> QED
    BY <1>2, <2>3, <2>4, <2>5, <2>6, <2>7 DEF Stage
<1> QED
  BY <1>1, <1>2

\* A worker that ends leaves the others where they were.
LEMMA Ended ==
    ASSUME Typed, NEW p \in Workers, End(p), UNCHANGED <<kind>>,
           \A q \in Workers : q # p => Stage(q),
           provider.done \subseteq provider'.done, Onward,
           version' \in Versions \cup {NoVersion}
    PROVE  /\ Staged'
           /\ pc' \in [Workers -> {"idle", "call", "write"}] /\ DOMAIN req' = Workers
           /\ calls' \in [Workers -> Seq(Commands)]
           /\ seen' \in [Workers -> Versions \cup {NoVersion}]
<1>1. /\ pc' = [pc EXCEPT ![p] = "idle"] /\ req' = [req EXCEPT ![p] = Idle]
      /\ calls' = [calls EXCEPT ![p] = <<>>] /\ seen' = [seen EXCEPT ![p] = NoVersion]
  BY DEF End
<1>2. Stage(p)'
  BY <1>1 DEF Stage, Typed
<1>3. ASSUME NEW q \in Workers, q # p
      PROVE  Stage(q)'
  <2>1. pc'[q] = pc[q] /\ req'[q] = req[q] /\ calls'[q] = calls[q] /\ seen'[q] = seen[q]
    BY <1>1, <1>3 DEF Typed
  <2> QED
    BY <1>3, <2>1, StageStays
<1> QED
  BY <1>1, <1>2, <1>3 DEF Staged, Typed

\* Without a write, revisions and receipts still agree.
LEMMA CountedStays ==
    ASSUME Counted, UNCHANGED <<version, receipts>>
    PROVE  Counted'
<1>1. \A op \in {"create", "advance", "present"} : Of(op)' = Of(op)
  BY DEF Of
<1> QED
  BY <1>1 DEF Counted

-----------------------------------------------------------------------------
(***************************************************************************)
(* The steps before the store's.                                           *)
(***************************************************************************)
LEMMA DecideKeeps ==
    ASSUME IInv, NEW p \in Workers, Decide(p)
    PROVE  IInv'
<1> USE DEF IInv
<1>1. PICK m \in Mutations :
        /\ pc[p] = "idle"
        /\ Creates(m) \/ (Expected(m, version) /\ Presentable(m, version))
        /\ pc' = [pc EXCEPT ![p] = "call"]
        /\ req' = [req EXCEPT ![p] = m]
        /\ calls' = [calls EXCEPT ![p] =
              IF Creates(m) THEN <<>> ELSE Calls(m, Updated(m, version))]
        /\ UNCHANGED <<stored, provider, seen>>
  BY DEF Decide
<1> DEFINE cs == IF Creates(m) THEN <<>> ELSE Calls(m, Updated(m, version))
<1>2. UNCHANGED <<kind, catalog, version, receipts, provider, seen>>
  BY <1>1 DEF stored
<1>3. /\ cs \in Seq(Commands) /\ Len(cs) <= 2
      /\ \A i \in 1..Len(cs) :
             cs[i].op = "presentation" \/ cs[i] \in StatusCommands(version.lifecycle + 1)
      /\ m.op = "advance" =>
             \A c \in StatusCommands(version.lifecycle + 1) : \E i \in 1..Len(cs) : cs[i] = c
  <2>1. CASE Creates(m)
    BY <2>1 DEF Creates
  <2>2. CASE ~Creates(m)
    BY <1>1, <2>2, CallsAre
  <2> QED
    BY <2>1, <2>2
<1> HIDE DEF cs
<1>4. /\ pc'[p] = "call" /\ req'[p] = m /\ calls'[p] = cs
      /\ \A q \in Workers : q # p =>
             pc'[q] = pc[q] /\ req'[q] = req[q] /\ calls'[q] = calls[q] /\ seen'[q] = seen[q]
  BY <1>1, <1>2 DEF Typed, cs
<1>5. Typed'
  BY <1>1, <1>2, <1>3 DEF Typed, StateAt, cs
<1>6. Stage(p)'
  <2>1. Outstanding(p)' = {cs[i] : i \in 1..Len(cs)}
    BY <1>4 DEF Outstanding
  <2>2. StatusCommands(version.lifecycle + 1)' = StatusCommands(version.lifecycle + 1)
    BY <1>2 DEF StatusCommands
  <2>3. \A c \in Outstanding(p)' : Harmless(c)'
    BY <1>3, <2>1, <2>2 DEF Harmless
  <2>4. m \in Creations \/ m \in Presents \/ Advancing(p)'
    <3> SUFFICES ASSUME ~Creates(m), m \notin Presents
                 PROVE  Advancing(p)'
      BY MutationForms
    <3>1. m \in Advances /\ m.op = "advance" /\ m.expected = version.lifecycle
      BY MutationForms
    <3>2. m.expected \in 1..4 /\ m.target = StateAt(m.expected + 1)
      BY <1>1, <3>1, UpdatedIs, VersionForms
    <3>3. StatusCommands(version.lifecycle + 1) \subseteq Outstanding(p)'
      BY <1>3, <2>1, <3>1
    <3> QED
      BY <1>2, <1>4, <2>2, <3>1, <3>2, <3>3 DEF Advancing, StateAt
  <2> QED
    BY <1>3, <1>4, <2>3, <2>4 DEF Stage
<1>7. Staged'
  <2>1. ASSUME NEW q \in Workers, q # p
        PROVE  Stage(q)'
    BY <1>2, <1>4, <2>1, StageStays DEF Onward, Staged, Typed
  <2> QED
    BY <1>6, <2>1 DEF Staged
<1> QED
  BY <1>2, <1>5, <1>7, CountedStays, InStepStays

\* The first outstanding command, and the others.
LEMMA TailIs ==
    ASSUME NEW s \in Seq(Commands), s # <<>>
    PROVE  /\ Head(s) \in Commands /\ Head(s) = s[1] /\ 1 \in 1..Len(s)
           /\ Tail(s) \in Seq(Commands) /\ Len(Tail(s)) = Len(s) - 1
           /\ \A i \in 1..Len(Tail(s)) : Tail(s)[i] = s[i + 1] /\ i + 1 \in 1..Len(s)
           /\ \A i \in 1..Len(s) : i # 1 => s[i] = Tail(s)[i - 1] /\ i - 1 \in 1..Len(Tail(s))
OBVIOUS

\* The provider accepts one command of a mutation (the gateway calls of catalog_action.py).
LEMMA ExecuteKeeps ==
    ASSUME IInv, NEW p \in Workers, Execute(p)
    PROVE  IInv'
<1> USE DEF IInv
<1> DEFINE s == calls[p]
           c == Head(s)
<1>1. /\ pc[p] = "call" /\ s \in Seq(Commands) /\ s # <<>> /\ ProviderDoes(c)
      /\ calls' = [calls EXCEPT ![p] = Tail(s)]
      /\ UNCHANGED <<kind, catalog, version, receipts, pc, req, seen>>
  BY DEF Execute, stored, Typed
<1>2. c \in Commands /\ Harmless(c)
  BY <1>1, TailIs DEF Staged, Stage, Outstanding
<1> HIDE DEF c
<1>3. /\ InStep' /\ provider.done \subseteq provider'.done /\ c \in provider'.done
      /\ provider' \in [done : SUBSET Commands,
                        status : {"none", "active", "existing_only", "retired"}]
  BY <1>1, <1>2, ProviderIs
<1>4. Typed'
  BY <1>1, <1>3, TailIs DEF Typed, StateAt
<1>5. calls'[p] = Tail(s) /\ \A q \in Workers : q # p => calls'[q] = calls[q]
  BY <1>1 DEF Typed
<1>6. /\ Outstanding(p)' \subseteq Outstanding(p)
      /\ Outstanding(p) \subseteq Outstanding(p)' \cup {c}
      /\ Len(calls'[p]) <= Len(s)
  <2> DEFINE t == Tail(s)
  <2>1. /\ c = s[1] /\ 1 \in 1..Len(s) /\ t \in Seq(Commands) /\ Len(t) = Len(s) - 1
        /\ \A i \in 1..Len(t) : t[i] = s[i + 1] /\ i + 1 \in 1..Len(s)
        /\ \A i \in 1..Len(s) : i # 1 => s[i] = t[i - 1] /\ i - 1 \in 1..Len(t)
    BY <1>1, TailIs DEF c
  <2>2. /\ Outstanding(p)' = {t[i] : i \in 1..Len(t)}
        /\ Outstanding(p) = {s[i] : i \in 1..Len(s)}
    BY <1>5 DEF Outstanding
  <2>3. Len(calls'[p]) <= Len(s)
    BY <1>1, <1>5, <2>1
  <2> HIDE DEF s, t
  <2> QED
    BY <2>1, <2>2, <2>3
<1>7. Stage(p)'
  <2>1. \A n \in Nat : StatusCommands(n)' = StatusCommands(n)
    BY <1>1 DEF StatusCommands
  <2>2. \A d \in Outstanding(p)' : Harmless(d)'
    <3>1. StatusCommands(version.lifecycle + 1)' = StatusCommands(version.lifecycle + 1)
      BY <1>1 DEF StatusCommands
    <3> QED
      BY <1>1, <1>3, <1>6, <3>1 DEF Staged, Stage, Harmless
  <2>3. Advancing(p) => Advancing(p)'
    <3>1. StatusCommands(req[p].expected + 1)' = StatusCommands(req[p].expected + 1)
      BY <1>1 DEF StatusCommands
    <3> QED
      BY <1>1, <1>3, <1>6, <3>1 DEF Advancing, StateAt
  <2>4. Len(s) \in Nat /\ Len(calls'[p]) \in Nat /\ Len(s) <= 2
    BY <1>1, <1>5, TailIs DEF Staged, Stage
  <2> QED
    BY <1>1, <1>6, <2>2, <2>3, <2>4 DEF Staged, Stage
<1>8. Staged'
  <2>1. ASSUME NEW q \in Workers, q # p
        PROVE  Stage(q)'
    BY <1>1, <1>3, <1>5, <2>1, StageStays DEF Onward, Staged, Typed
  <2> QED
    BY <1>7, <2>1 DEF Staged
<1> QED
  BY <1>1, <1>3, <1>4, <1>8, CountedStays

\* The provider accepts a command and the answer is lost: the mutation is not written.
LEMMA LoseAnswerKeeps ==
    ASSUME IInv, NEW p \in Workers, LoseAnswer(p)
    PROVE  IInv'
<1> USE DEF IInv
<1> DEFINE c == Head(calls[p])
<1>1. /\ pc[p] = "call" /\ calls[p] \in Seq(Commands) /\ calls[p] # <<>> /\ ProviderDoes(c)
      /\ End(p) /\ UNCHANGED <<kind, catalog, version, receipts>>
  BY DEF LoseAnswer, stored, Typed
<1>2. c \in Commands /\ Harmless(c)
  BY <1>1, TailIs DEF Staged, Stage, Outstanding
<1> HIDE DEF c
<1>3. /\ InStep' /\ provider.done \subseteq provider'.done
      /\ provider' \in [done : SUBSET Commands,
                        status : {"none", "active", "existing_only", "retired"}]
  BY <1>1, <1>2, ProviderIs
<1>4. version' \in Versions \cup {NoVersion} /\ Onward
  BY <1>1 DEF Typed, Onward
<1>5. /\ Staged'
      /\ pc' \in [Workers -> {"idle", "call", "write"}] /\ DOMAIN req' = Workers
      /\ calls' \in [Workers -> Seq(Commands)]
      /\ seen' \in [Workers -> Versions \cup {NoVersion}]
  BY <1>1, <1>3, <1>4, Ended DEF Staged
<1>6. Typed'
  BY <1>1, <1>3, <1>5 DEF Typed, StateAt
<1> QED
  BY <1>1, <1>3, <1>5, <1>6, CountedStays

\* An invocation that ends without a trace.
LEMMA EndKeeps ==
    ASSUME IInv, NEW p \in Workers, End(p), UNCHANGED <<stored, provider>>
    PROVE  IInv'
<1> USE DEF IInv
<1>1. UNCHANGED <<kind, catalog, version, receipts, provider>>
  BY DEF stored
<1>2. version' \in Versions \cup {NoVersion} /\ Onward
  BY <1>1 DEF Typed, Onward
<1>3. /\ Staged'
      /\ pc' \in [Workers -> {"idle", "call", "write"}] /\ DOMAIN req' = Workers
      /\ calls' \in [Workers -> Seq(Commands)]
      /\ seen' \in [Workers -> Versions \cup {NoVersion}]
  BY <1>1, <1>2, Ended DEF Staged
<1>4. Typed'
  BY <1>1, <1>3 DEF Typed, StateAt
<1> QED
  BY <1>1, <1>3, <1>4, CountedStays, InStepStays

\* The store reads the version a second time before it writes.
LEMMA ReadKeeps ==
    ASSUME IInv, NEW p \in Workers, Read(p)
    PROVE  IInv'
<1> USE DEF IInv
<1>1. /\ pc[p] = "call" /\ calls[p] = <<>>
      /\ Creates(req[p]) \/ Expected(req[p], version)
      /\ pc' = [pc EXCEPT ![p] = "write"] /\ seen' = [seen EXCEPT ![p] = version]
      /\ UNCHANGED <<kind, catalog, version, receipts, provider, req, calls>>
  BY DEF Read, stored
<1>2. /\ pc'[p] = "write" /\ seen'[p] = version
      /\ \A q \in Workers : q # p => pc'[q] = pc[q] /\ seen'[q] = seen[q]
  BY <1>1 DEF Typed
<1>3. Typed'
  BY <1>1 DEF Typed, StateAt
<1>4. Stage(p)'
  <2>1. Outstanding(p)' = Outstanding(p) /\ Outstanding(p) = {}
    BY <1>1 DEF Outstanding
  <2>2. Advancing(p) => Advancing(p)'
    <3>1. StatusCommands(req[p].expected + 1)' = StatusCommands(req[p].expected + 1)
      BY <1>1 DEF StatusCommands
    <3> QED
      BY <1>1, <2>1, <3>1 DEF Advancing, StateAt
  <2>3. Earlier(seen[p])'
    BY <1>1, <1>2, VersionForms, CatalogAssumption DEF Earlier
  <2>4. (Creates(req[p]) \/ Expected(req[p], seen[p]))'
    BY <1>1, <1>2 DEF Creates, Expected
  <2> QED
    BY <1>1, <1>2, <2>1, <2>2, <2>3, <2>4 DEF Staged, Stage
<1>5. Staged'
  <2>1. ASSUME NEW q \in Workers, q # p
        PROVE  Stage(q)'
    BY <1>1, <1>2, <2>1, StageStays DEF Onward, Staged, Typed
  <2> QED
    BY <1>4, <2>1 DEF Staged
<1> QED
  BY <1>1, <1>3, <1>5, CountedStays, InStepStays

-----------------------------------------------------------------------------
(***************************************************************************)
(* The store's steps.                                                      *)
(***************************************************************************)
\* A receipt counts for the mutations of its kind, and is not there before.
LEMMA Received ==
    ASSUME IsFiniteSet(receipts), NEW m, NEW v, ~Done(m), Receive(m, v)
    PROVE  /\ IsFiniteSet(receipts')
           /\ \A op \in {"create", "advance", "present"} :
               /\ m.op # op => Of(op)' = Of(op)
               /\ m.op = op => Of(op)' = Of(op) \cup {[mutation |-> m, version |-> v]}
               /\ Cardinality(Of(op)) \in Nat
               /\ m.op = op => Cardinality(Of(op)') = Cardinality(Of(op)) + 1
<1> DEFINE r == [mutation |-> m, version |-> v]
<1>1. receipts' = receipts \cup {r} /\ r \notin receipts /\ r.mutation = m
  BY DEF Receive, Done
<1>2. IsFiniteSet(receipts')
  BY <1>1, FS_AddElement
<1> HIDE DEF r
<1>3. ASSUME NEW op \in {"create", "advance", "present"}
      PROVE  /\ m.op # op => Of(op)' = Of(op)
             /\ m.op = op => Of(op)' = Of(op) \cup {r}
             /\ Cardinality(Of(op)) \in Nat
             /\ m.op = op => Cardinality(Of(op)') = Cardinality(Of(op)) + 1
  <2>1. /\ m.op # op => Of(op)' = Of(op)
        /\ m.op = op => Of(op)' = Of(op) \cup {r}
        /\ Of(op) \subseteq receipts /\ r \notin Of(op)
    BY <1>1 DEF Of
  <2>2. IsFiniteSet(Of(op)) /\ Cardinality(Of(op)) \in Nat
    BY <2>1, FS_Subset, FS_CardinalityType
  <2> QED
    BY <2>1, <2>2, FS_AddElement
<1> QED
  BY <1>2, <1>3 DEF r

\* A catalog item is written; no version changes.
LEMMA WriteItemKeeps ==
    ASSUME IInv, NEW p \in Workers, WriteItem(p)
    PROVE  IInv'
<1> USE DEF IInv
<1>1. /\ req[p].op = "createItem" /\ ~Done(req[p]) /\ catalog' = catalog \cup {"item"}
      /\ Receive(req[p], NoVersion) /\ End(p) /\ UNCHANGED <<kind, version, provider>>
  BY DEF WriteItem
<1>2. version' \in Versions \cup {NoVersion} /\ Onward
  BY <1>1 DEF Typed, Onward
<1>3. /\ Staged'
      /\ pc' \in [Workers -> {"idle", "call", "write"}] /\ DOMAIN req' = Workers
      /\ calls' \in [Workers -> Seq(Commands)]
      /\ seen' \in [Workers -> Versions \cup {NoVersion}]
  BY <1>1, <1>2, Ended DEF Staged
<1>4. Typed'
  BY <1>1, <1>3 DEF Typed, StateAt
<1>5. Counted'
  <2>1. IsFiniteSet(receipts')
        /\ \A op \in {"create", "advance", "present"} : Of(op)' = Of(op)
    BY <1>1, Received DEF Counted
  <2> QED
    BY <1>1, <2>1 DEF Counted
<1> QED
  BY <1>1, <1>3, <1>4, <1>5, InStepStays

\* A version is created, under the first revisions.
LEMMA WriteVersionKeeps ==
    ASSUME IInv, NEW p \in Workers, WriteVersion(p)
    PROVE  IInv'
<1> USE DEF IInv
<1> DEFINE m == req[p]
           w == [state |-> "draft", lifecycle |-> 1, presentation |-> 1, name |-> m.name]
<1>1. /\ pc[p] = "write" /\ m.op = "create" /\ ~Done(m) /\ version = NoVersion
      /\ version' = w /\ Receive(m, version') /\ End(p)
      /\ UNCHANGED <<kind, catalog, provider>>
  BY DEF WriteVersion
<1>2. m \in Creations /\ m.name \in AllNames
  BY <1>1 DEF Staged, Stage, Creations, Presents, Advances, Advancing
<1>3. w \in Versions /\ w.state = StateAt(w.lifecycle)
  BY <1>2, States, CatalogAssumption DEF Versions
<1>4. StatusCommands(version.lifecycle + 1) = {}
  BY <1>1 DEF NoVersion, StatusCommands
<1>5. Onward
  BY <1>1, <1>4 DEF Onward, NoVersion
<1>6. /\ Staged'
      /\ pc' \in [Workers -> {"idle", "call", "write"}] /\ DOMAIN req' = Workers
      /\ calls' \in [Workers -> Seq(Commands)]
      /\ seen' \in [Workers -> Versions \cup {NoVersion}]
  BY <1>1, <1>3, <1>5, Ended DEF Staged
<1>7. Typed'
  BY <1>1, <1>3, <1>6 DEF Typed, StateAt
<1>8. InStep'
  BY <1>1, <1>4, LifecycleIs DEF NoVersion
<1>9. Counted'
  <2> DEFINE r == [mutation |-> m, version |-> w]
  <2>1. /\ IsFiniteSet(receipts')
        /\ Of("create")' = Of("create") \cup {r}
        /\ Of("advance")' = Of("advance") /\ Of("present")' = Of("present")
        /\ Cardinality(Of("create")') = Cardinality(Of("create")) + 1
    BY <1>1, Received DEF Counted
  <2>2. /\ version'.lifecycle = 1 /\ version'.presentation = 1 /\ version'.name = m.name
        /\ r.version.presentation = 1 /\ r.mutation.name = m.name
        /\ version' # NoVersion
    BY <1>1 DEF NoVersion
  <2>3. /\ Cardinality(Of("create")) = 0
        /\ Cardinality(Of("advance")) = 0 /\ Cardinality(Of("present")) = 0
    <3>1. Cardinality(Of("create")) = 0
      BY <1>1 DEF Counted
    <3>2. Cardinality(Of("advance")) \in Nat /\ Cardinality(Of("present")) \in Nat
      BY <1>1, Received DEF Counted
    <3> QED
      BY <1>1, <3>1, <3>2 DEF Counted, NoVersion
  <2>4. \A x \in Of("create") \cup Of("present") :
            x.version.presentation \in Nat /\ x.version.presentation <= 0
    BY <1>1 DEF Counted, NoVersion
  <2> HIDE DEF r, w
  <2>5. \A x \in Of("create")' \cup Of("present")' :
            /\ x.version.presentation \in Nat /\ x.version.presentation <= 1
            /\ x.version.presentation = 1 => x.mutation.name = m.name
    BY <2>1, <2>2, <2>4
  <2> QED
    BY <2>1, <2>2, <2>3, <2>5 DEF Counted
<1> QED
  BY <1>6, <1>7, <1>8, <1>9

\* A mutation of the version is written, on the condition of the revision it changes.
LEMMA WriteKeeps ==
    ASSUME IInv, NEW p \in Workers, Write(p)
    PROVE  IInv'
<1> USE DEF IInv
<1> DEFINE m == req[p]
           w == Updated(m, version)
<1>1. /\ pc[p] = "write" /\ ~Creates(m) /\ ~Done(m) /\ Unchanged(m, seen[p])
      /\ version' = Updated(m, seen[p]) /\ Receive(m, version') /\ End(p)
      /\ UNCHANGED <<kind, catalog, provider>>
  BY DEF Write
<1>2. /\ calls[p] = <<>> /\ seen[p] = version /\ Expected(m, version)
      /\ m \in Presents \/ Advancing(p)
  BY <1>1 DEF Staged, Stage, Earlier, Unchanged, Creates, Creations
<1>3. version' = w
  BY <1>1, <1>2
<1>4. m \in Advances \cup Presents
  BY <1>2 DEF Advancing
<1>5. /\ w \in Versions /\ w.state = StateAt(w.lifecycle) /\ version \in Versions
      /\ m.op = "advance" => /\ m.expected = version.lifecycle
                             /\ w.lifecycle = version.lifecycle + 1
                             /\ w.presentation = version.presentation /\ w.name = version.name
      /\ m.op = "present" => /\ w.lifecycle = version.lifecycle
                             /\ w.presentation = version.presentation + 1 /\ w.name = m.name
  BY <1>2, <1>4, UpdatedIs, VersionForms
<1>6. version.lifecycle \in 1..5 /\ version.presentation \in Nat
  BY <1>5, CatalogAssumption DEF Versions
<1>7. m.op \in {"advance", "present"} /\ (m.op = "advance" => Advancing(p))
  BY <1>2 DEF Advancing, Advances, Presents
<1>8. m.op = "advance" => StatusCommands(version.lifecycle + 1) \subseteq provider.done
  <2>1. Outstanding(p) = {}
    BY <1>2 DEF Outstanding
  <2> QED
    BY <1>5, <1>7, <2>1 DEF Advancing
<1> HIDE DEF w
<1>9. Onward
  BY <1>1, <1>3, <1>5, <1>6, <1>7, <1>8 DEF Onward
<1>10. /\ Staged'
       /\ pc' \in [Workers -> {"idle", "call", "write"}] /\ DOMAIN req' = Workers
       /\ calls' \in [Workers -> Seq(Commands)]
       /\ seen' \in [Workers -> Versions \cup {NoVersion}]
  BY <1>1, <1>3, <1>5, <1>9, Ended DEF Staged
<1>11. Typed'
  BY <1>1, <1>3, <1>5, <1>10 DEF Typed, StateAt
<1>12. InStep'
  <2>1. CASE m.op = "advance"
    <3>1. version'.lifecycle \in 1..5 /\ version'.lifecycle = version.lifecycle + 1
      BY <1>3, <1>5, <2>1 DEF Versions
    <3> QED
      BY <1>1, <1>8, <2>1, <3>1, LifecycleIs
  <2>2. CASE m.op = "present"
    BY <1>1, <1>3, <1>5, <2>2, InStepStays
  <2> QED
    BY <1>7, <2>1, <2>2
<1>13. Counted'
  <2> DEFINE r == [mutation |-> m, version |-> w]
  <2>1. /\ IsFiniteSet(receipts')
        /\ \A op \in {"create", "advance", "present"} :
            /\ m.op # op => Of(op)' = Of(op)
            /\ m.op = op => Of(op)' = Of(op) \cup {r}
            /\ Cardinality(Of(op)) \in Nat
            /\ m.op = op => Cardinality(Of(op)') = Cardinality(Of(op)) + 1
    BY <1>1, <1>3, Received DEF Counted
  <2>2. r.version = w /\ r.mutation = m
    OBVIOUS
  <2>3. version # NoVersion /\ version' # NoVersion
    BY <1>3, <1>5 DEF Versions, NoVersion
  <2> HIDE DEF r, m
  <2>4. CASE m.op = "advance"
    BY <1>3, <1>5, <1>6, <2>1, <2>3, <2>4 DEF Counted
  <2>5. CASE m.op = "present"
    <3>1. \A x \in Of("create")' \cup Of("present")' :
              /\ x.version.presentation \in Nat /\ x.version.presentation <= w.presentation
              /\ x.version.presentation = w.presentation => x.mutation.name = w.name
      BY <1>5, <1>6, <2>1, <2>2, <2>5 DEF Counted
    <3> QED
      BY <1>3, <1>5, <1>6, <2>1, <2>3, <2>5, <3>1 DEF Counted
  <2> QED
    BY <1>7, <2>4, <2>5 DEF m
<1> QED
  BY <1>10, <1>11, <1>12, <1>13

-----------------------------------------------------------------------------
(***************************************************************************)
(* The invariant holds in every behaviour, and what follows from it.       *)
(***************************************************************************)
LEMMA InitHolds ==
    ASSUME Init
    PROVE  IInv
<1> USE DEF Init
<1>1. Typed
  BY CatalogAssumption DEF Typed, NoVersion
<1>2. InStep
  <2>1. version.lifecycle = 0 /\ provider = [done |-> {}, status |-> "none"]
    BY DEF NoVersion
  <2>2. \A n \in Nat : ~Moved(n)
    BY <2>1 DEF Moved
  <2> QED
    BY <2>1, <2>2, States DEF InStep, Due
<1>3. Staged
  BY DEF Staged, Stage
<1>4. Counted
  <2>1. \A op \in {"create", "advance", "present"} : Of(op) = {}
    BY DEF Of
  <2>2. version = NoVersion /\ version.lifecycle = 0 /\ version.presentation = 0
    BY DEF NoVersion
  <2>3. /\ IsFiniteSet(receipts) /\ Cardinality(Of("create")) = 0
        /\ Cardinality(Of("advance")) = 0 /\ Cardinality(Of("present")) = 0
    BY <2>1, FS_EmptySet
  <2> QED
    BY <2>1, <2>2, <2>3 DEF Counted
<1> QED
  BY <1>1, <1>2, <1>3, <1>4 DEF IInv

\* Every step keeps the invariant.
LEMMA StepHolds ==
    ASSUME IInv, [Next]_vars
    PROVE  IInv'
<1>1. CASE UNCHANGED vars
  <2>1. UNCHANGED <<kind, catalog, version, receipts, provider, pc, req, calls, seen>>
    BY <1>1 DEF vars, stored, local
  <2>2. InStep' /\ Counted'
    BY <2>1, InStepStays, CountedStays DEF IInv
  <2>3. Typed'
    BY <2>1 DEF IInv, Typed, StateAt
  <2>4. ASSUME NEW q \in Workers
        PROVE  Stage(q)'
    BY <2>1, StageStays DEF IInv, Staged, Onward, Typed
  <2> QED
    BY <2>2, <2>3, <2>4 DEF IInv, Staged
<1>2. ASSUME NEW p \in Workers,
             \/ Decide(p) \/ Execute(p) \/ LoseAnswer(p)
             \/ Replay(p) \/ Read(p)
             \/ WriteItem(p) \/ WriteVersion(p) \/ Write(p)
             \/ Abandon(p)
      PROVE  IInv'
  <2>1. CASE Replay(p) \/ Abandon(p)
    BY <2>1, EndKeeps DEF Replay, Abandon
  <2> QED
    BY <1>2, <2>1, DecideKeeps, ExecuteKeeps, LoseAnswerKeeps, ReadKeeps,
       WriteItemKeeps, WriteVersionKeeps, WriteKeeps
<1> QED
  BY <1>1, <1>2 DEF Next

\* The inductive invariant holds in every state that the mutations of the handler
\* (_handle of catalog_action.py) and of the store (catalog_storage.py) can reach.
THEOREM Invariance == Spec => []IInv
BY InitHolds, StepHolds, PTL DEF Spec

\* A stored version is always one that _offer or _discount takes, in the state that its
\* lifecycle revision stands for, and no invocation has more than two commands to give.
THEOREM TypeCorrect == Spec => []TypeOK
<1>1. IInv => TypeOK
  <2> SUFFICES ASSUME IInv
               PROVE  TypeOK
    OBVIOUS
  <2>1. \A p \in Workers : Len(calls[p]) <= 2
    BY DEF IInv, Staged, Stage
  <2>2. version = NoVersion
           \/ /\ version \in Versions /\ version.lifecycle \in 1..5
              /\ version.state = LIFECYCLE_STATES[version.lifecycle]
    BY DEF IInv, Typed, StateAt, Versions
  <2> QED
    BY <2>1, <2>2, States DEF IInv, Typed, TypeOK, Versions, AllNames
<1> QED
  BY <1>1, Invariance, PTL

\* However the invocations of one version crash, are retried or overtake one another
\* between the commands to Integrations and the store's write (_handle), Integrations is
\* where the version's state says, or one state ahead of it.
THEOREM ProviderStaysInStep == Spec => []ProviderInStep
<1>1. IInv => ProviderInStep
  <2> SUFFICES ASSUME IInv
               PROVE  ProviderInStep
    OBVIOUS
  <2> DEFINE L == version.lifecycle
  <2>1. L \in 0..5 /\ version.state = StateAt(L)
    BY VersionForms DEF IInv
  <2>2. CASE Moved(L + 1)
    <3>1. L + 1 \in 3..5
      BY <2>1, <2>2 DEF Moved, StatusCommands
    <3>2. StateAt(L + 1) = LIFECYCLE_STATES[L + 1]
      BY <3>1 DEF StateAt
    <3>3. provider.status = Due(LIFECYCLE_STATES[L + 1])
      BY <2>2, <3>2 DEF IInv, InStep
    <3> QED
      BY <2>1, <3>1, <3>3, States DEF ProviderInStep
  <2>3. CASE ~Moved(L + 1)
    BY <2>1, <2>3 DEF IInv, InStep, ProviderInStep
  <2> QED
    BY <2>2, <2>3
<1> QED
  BY <1>1, Invariance, PTL

\* A put is conditional on both revisions, so that of the mutations that were read
\* together one is stored and the others fail: the revisions of a version count the
\* receipts of their kinds, and its name is that of the last to present it.
THEOREM NoMutationLost == Spec => []NothingLost
<1>1. IInv => NothingLost
  BY DEF IInv, Counted, Of, NothingLost
<1> QED
  BY <1>1, Invariance, PTL
=============================================================================
