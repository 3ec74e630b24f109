------------------------ MODULE DagScheduler_proofs ------------------------
(***************************************************************************)
(* What a schedule guarantees for every task graph.                        *)
(*                                                                         *)
(* The argument: a task is layered in the turn that schedules the last of  *)
(* its dependencies, because its count is the number of dependencies that  *)
(* are not scheduled; so the layers respect the dependencies, and what is  *)
(* never layered waits for itself.  Gates are judged in the order of the   *)
(* layers, so the tasks that are not blocked depend on no blocked one and  *)
(* the second layering succeeds.  The plan takes its layers in order.      *)
(***************************************************************************)
EXTENDS DagScheduler, FiniteSetTheorems, WellFoundedInduction, TLAPS

Active == pc \in {"layering", "cyclic", "gating", "planning", "done"}

Pending(t) == {d \in input.depends[t] : d.on \notin Scheduled}

Waits(t) == \E d \in input.depends[t] : d.on \in blocked \cup input.failing

Bad(t) == \E d \in input.failing : DependsOn(t, d)

\* Nothing outside the loop that uses it.
Control ==
    /\ pc \in {"start", "refused"} => pass = 1 /\ batches = <<>>
    /\ pc \in {"unknown", "cyclic", "gating"} => pass = 1
    /\ pc \in {"planning", "done"} => pass = 2
    /\ pc \notin {"planning", "done"} => sessions = <<>> /\ rest = {}
    /\ pc \in {"cyclic", "gating", "planning", "done"} => ready = {}
    /\ pc \in {"gating", "planning", "done"} => Scheduled = Tasks
    /\ pc = "cyclic" => Scheduled # Tasks
    /\ next \in Nat \ {0}
    /\ pc \in {"start", "layering"} => next = 1

Known == Active => \A t \in Tasks : \A d \in input.depends[t] : d.on \in Tasks

Counted ==
    Active => \A t \in Tasks : unresolved_count[t] = Cardinality(Pending(t))

Readiness ==
    Active =>
    /\ ready \cap Scheduled = {}
    /\ \A t \in ready : Pending(t) = {}
    /\ \A t \in Tasks : Pending(t) = {} => t \in Scheduled \cup ready

Layered ==
    Active =>
    /\ \A k \in DOMAIN batches : \A t \in batches[k] : \A d \in input.depends[t] :
         \E j \in DOMAIN batches : j < k /\ d.on \in batches[j]
    /\ \A j, k \in DOMAIN batches : j # k => batches[j] \cap batches[k] = {}

\* What waits for itself is never scheduled.
NoCycle ==
    /\ Active => \A t \in Scheduled : ~NeverReady(t)
    /\ (pass = 2 \/ pc = "gating") => \A t \in Task : ~NeverReady(t)

Gated ==
    /\ pass = 1 /\ pc # "gating" => blocked = {}
    /\ \A t \in blocked : Bad(t)
    /\ pc = "gating" =>
         \A k \in DOMAIN batches : \A t \in batches[k] :
             IF k < next THEN t \in blocked <=> Waits(t)
                         ELSE t \notin blocked
    /\ pass = 2 => \A t \in Task \ blocked : ~Waits(t)
    /\ pass = 2 => \A t \in Task : \A d \in input.depends[t] : d.on \in Task

\* The tasks that are planned.
Planning(t) ==
    \E k \in DOMAIN batches : t \in batches[k] /\ (k < next \/ (k = next /\ t \notin rest))

Emitted == UNION {sessions[k].lanes : k \in DOMAIN sessions}

PlanInOrder ==
    pc \in {"planning", "done"} =>
    /\ rest # {} => next \in DOMAIN batches /\ rest \subseteq batches[next]
    /\ \A t \in Tasks : t \in Emitted <=> Planning(t)
    /\ pc = "done" => rest = {} /\ next + 1 \notin DOMAIN batches

IInv ==
    /\ TypeOK /\ input \in Inputs
    /\ Control /\ Known /\ Counted /\ Readiness /\ Layered /\ NoCycle /\ Gated
    /\ PlanInOrder /\ DependenciesRunFirst /\ SessionsAreSafe
    /\ \A j, k \in DOMAIN sessions : j # k => sessions[j].lanes \cap sessions[k].lanes = {}

-----------------------------------------------------------------------------
\* About the input alone.

LEMMA BehindADependency ==
    ASSUME NEW t \in Task, NEW d \in input.depends[t], d.on \in Task
    PROVE  /\ d.on \in input.failing => Bad(t)
           /\ Bad(d.on) => Bad(t)
<1>1. DependsOn(t, d.on)
  BY DEF DependsOn
<1>2. ASSUME NEW f, DependsOn(d.on, f)
      PROVE  DependsOn(t, f)
  BY <1>2 DEF DependsOn
<1> QED BY <1>1, <1>2 DEF Bad

LEMMA UnblockedIsClean ==
    ASSUME input \in Input,
           \A t \in Task : \A d \in input.depends[t] : d.on \in Task,
           \A t \in Task \ blocked : ~Waits(t),
           NEW t \in Task \ blocked
    PROVE  ~Bad(t)
<1> DEFINE C == (Task \ blocked) \ input.failing
<1>1. \A u \in C \cup {t} : \A e \in input.depends[u] : e.on \in C
  BY DEF Waits
<1>2. C \in SUBSET Task
  OBVIOUS
<1> QED BY <1>1, <1>2 DEF Bad, DependsOn

LEMMA DependsFinite ==
    ASSUME input \in Inputs, NEW t \in Task
    PROVE  /\ IsFiniteSet(input.depends[t])
           /\ \A S : IsFiniteSet(On(t, S))
           /\ IsFiniteSet(Pending(t))
<1>1. IsFiniteSet(input.depends[t])
  BY InputsAssumption
<1>2. \A S : On(t, S) \subseteq input.depends[t]
  BY DEF On
<1>3. Pending(t) \subseteq input.depends[t]
  BY DEF Pending
<1> QED BY <1>1, <1>2, <1>3, FS_Subset

\* The graph of a layering that ends too early has a cycle.
LEMMA UnscheduledNeverReady ==
    ASSUME TypeOK, Known, Readiness, Active, ready = {}, pass = 1 \/ pass = 2,
           NEW t \in Tasks \ Scheduled
    PROVE  NeverReady(t)
<1> DEFINE W == Tasks \ Scheduled
<1>1. W \in SUBSET Task /\ t \in W
  BY DEF Tasks
<1>2. ASSUME NEW u \in W PROVE \E d \in input.depends[u] : d.on \in W
  BY DEF Readiness, Pending, Known
<1> QED BY <1>1, <1>2 DEF NeverReady

-----------------------------------------------------------------------------
LEMMA InitInvariant == Init => IInv
<1> SUFFICES ASSUME Init PROVE IInv
  OBVIOUS
<1> USE DEF Init
<1>1. TypeOK /\ input \in Inputs
  BY InputsAssumption DEF TypeOK, Tasks
<1>2. Control /\ Known /\ Counted /\ Readiness /\ Layered /\ NoCycle /\ Gated /\ PlanInOrder
  BY DEF Control, Known, Counted, Readiness, Layered, NoCycle, Gated, PlanInOrder, Active
<1>3. DependenciesRunFirst /\ SessionsAreSafe
  BY DEF DependenciesRunFirst, SessionsAreSafe
<1> QED BY <1>1, <1>2, <1>3 DEF IInv

LEMMA RefuseInvariant ==
    ASSUME IInv, Refuse
    PROVE  IInv'
<1> USE DEF Refuse, IInv
<1>1. (TypeOK /\ input \in Inputs)'
  BY DEF TypeOK, Ended, Tasks
<1>2. Control' /\ Known' /\ Counted' /\ Readiness' /\ Layered' /\ PlanInOrder'
  BY DEF Control, Known, Counted, Readiness, Layered, PlanInOrder, Active
<1>3. NoCycle' /\ Gated'
  BY DEF Control, NoCycle, Gated, Active, Bad, DependsOn
<1>4. DependenciesRunFirst' /\ SessionsAreSafe'
  BY DEF Control, DependenciesRunFirst, SessionsAreSafe
<1> QED BY <1>1, <1>2, <1>3, <1>4 DEF Control

\* The head of build_batches establishes what its loop keeps.
LEMMA BeginBatchesEstablishes ==
    ASSUME TypeOK, input \in Inputs, NEW ts \in SUBSET Task, BeginBatches(ts),
           pc' = "layering", Tasks' = ts
    PROVE  /\ Known' /\ Counted' /\ Readiness' /\ Layered'
           /\ Scheduled' = {} /\ batches' = <<>> /\ next' = 1
           /\ ready' \subseteq ts /\ unresolved_count' \in [Task -> Int]
<1>1. /\ input' = input /\ batches' = <<>> /\ next' = 1
      /\ \A t \in ts : On(t, ts) = input.depends[t]
      /\ unresolved_count' = [t \in Task |-> IF t \in ts THEN DependencyCount(t) ELSE 0]
      /\ ready' = {t \in ts : unresolved_count'[t] = 0}
  BY DEF BeginBatches
<1>2. Scheduled' = {}
  BY <1>1 DEF Scheduled
<1>3. \A t \in Task : Pending(t)' = input.depends[t]
  BY <1>1, <1>2 DEF Pending
<1>4. \A t \in ts : unresolved_count'[t] = Cardinality(input.depends[t])
  BY <1>1 DEF DependencyCount
<1>5. Known'
  BY <1>1 DEF Known, On
<1>6. Counted'
  BY <1>3, <1>4 DEF Counted
<1>7. \A t \in ts : unresolved_count'[t] = 0 <=> input.depends[t] = {}
  BY <1>4, DependsFinite, FS_EmptySet
<1>8. Readiness'
  BY <1>1, <1>2, <1>3, <1>7 DEF Readiness
<1>9. Layered'
  BY <1>1 DEF Layered
<1>10. \A t \in Task : Cardinality(input.depends[t]) \in Int
  BY DependsFinite, FS_CardinalityType
<1>11. unresolved_count' \in [Task -> Int]
  BY <1>1, <1>10 DEF DependencyCount
<1> QED BY <1>1, <1>2, <1>5, <1>6, <1>8, <1>9, <1>11

LEMMA BeginInvariant ==
    ASSUME IInv, Begin
    PROVE  IInv'
<1>1. /\ pc = "start" /\ BeginBatches(Task) /\ pass' = pass /\ blocked' = blocked
      /\ input' = input /\ rest' = rest /\ sessions' = sessions
      /\ pass = 1 /\ rest = {} /\ sessions = <<>> /\ blocked = {}
  BY DEF Begin, BeginBatches, IInv, Control, Gated
<1>2. Tasks' = Task
  BY <1>1 DEF Tasks
<1>3. DependenciesRunFirst' /\ SessionsAreSafe'
      /\ (\A j, k \in DOMAIN sessions : j # k => sessions[j].lanes \cap sessions[k].lanes = {})'
  BY <1>1 DEF DependenciesRunFirst, SessionsAreSafe
<1>4. CASE pc' = "unknown"
  <2>1. batches' = <<>> /\ next' = 1 /\ ready' = ready /\ unresolved_count' = unresolved_count
    BY <1>1, <1>4 DEF BeginBatches
  <2>2. (TypeOK /\ input \in Inputs)'
    BY <1>1, <1>2, <1>4, <2>1 DEF IInv, TypeOK, Ended, Tasks
  <2>3. Control' /\ Known' /\ Counted' /\ Readiness' /\ Layered' /\ NoCycle' /\ Gated'
        /\ PlanInOrder'
    BY <1>1, <1>4, <2>1
       DEF Control, Known, Counted, Readiness, Layered, NoCycle, Gated, PlanInOrder, Active
  <2> QED BY <1>3, <2>2, <2>3 DEF IInv
<1>5. CASE pc' = "layering"
  <2>1. /\ Known' /\ Counted' /\ Readiness' /\ Layered'
        /\ Scheduled' = {} /\ batches' = <<>> /\ next' = 1
        /\ ready' \subseteq Task /\ unresolved_count' \in [Task -> Int]
    BY <1>1, <1>2, <1>5, BeginBatchesEstablishes DEF IInv
  <2>2. (TypeOK /\ input \in Inputs)'
    BY <1>1, <1>2, <1>5, <2>1 DEF IInv, TypeOK
  <2>3. Control' /\ NoCycle' /\ Gated' /\ PlanInOrder'
    BY <1>1, <1>5, <2>1 DEF Control, NoCycle, Gated, PlanInOrder
  <2> QED BY <1>3, <2>1, <2>2, <2>3 DEF IInv
<1> QED BY <1>1, <1>4, <1>5 DEF BeginBatches

LEMMA LayerInvariant ==
    ASSUME IInv, Layer
    PROVE  IInv'
<1>1. /\ pc = "layering" /\ ready # {} /\ batches' = Append(batches, ready)
      /\ input' = input /\ pc' = pc /\ pass' = pass /\ next' = next /\ blocked' = blocked
      /\ rest' = rest /\ sessions' = sessions
      /\ unresolved_count' =
           [t \in Task |-> IF t \in Tasks
                           THEN unresolved_count[t] - Cardinality(On(t, ready)) ELSE 0]
      /\ ready' = {t \in Tasks : On(t, ready) # {} /\ unresolved_count'[t] = 0}
      /\ rest = {} /\ sessions = <<>>
  BY DEF Layer, IInv, Control
<1>2. /\ batches \in Seq(SUBSET Tasks) /\ ready \in SUBSET Tasks /\ Tasks \subseteq Task
      /\ input \in Inputs /\ unresolved_count \in [Task -> Int]
  BY DEF IInv, TypeOK, Tasks
<1>3. /\ DOMAIN batches' = 1..(Len(batches) + 1) /\ DOMAIN batches = 1..Len(batches)
      /\ \A k \in 1..Len(batches) : batches'[k] = batches[k]
      /\ batches'[Len(batches) + 1] = ready
      /\ Len(batches) \in Nat
  BY <1>1, <1>2
<1>4. Tasks' = Tasks
  BY <1>1 DEF Tasks
<1>5. Scheduled' = Scheduled \cup ready
  BY <1>3 DEF Scheduled
<1>6. /\ ready \cap Scheduled = {} /\ \A t \in ready : Pending(t) = {}
      /\ \A t \in Tasks : Pending(t) = {} => t \in Scheduled \cup ready
      /\ \A t \in Tasks : unresolved_count[t] = Cardinality(Pending(t))
      /\ \A t \in Tasks : \A d \in input.depends[t] : d.on \in Tasks
  BY <1>1 DEF IInv, Readiness, Counted, Known, Active
<1>7. ASSUME NEW t \in Scheduled PROVE Pending(t) = {}
  BY <1>1, <1>7 DEF IInv, Layered, Active, Scheduled, Pending
<1>8. \A t \in Task : /\ Pending(t)' = Pending(t) \ On(t, ready)
                      /\ On(t, ready) \subseteq Pending(t)
  BY <1>1, <1>5, <1>6 DEF Pending, On
<1>9. ASSUME NEW t \in Tasks
      PROVE  /\ unresolved_count'[t] = Cardinality(Pending(t)')
             /\ unresolved_count'[t] \in Int
             /\ unresolved_count'[t] = 0 <=> Pending(t)' = {}
  <2>1. IsFiniteSet(Pending(t)) /\ IsFiniteSet(On(t, ready))
    BY <1>2, DependsFinite
  <2>2. Pending(t) \cap On(t, ready) = On(t, ready)
    BY <1>2, <1>8
  <2>3. /\ IsFiniteSet(Pending(t) \ On(t, ready))
        /\ Cardinality(Pending(t) \ On(t, ready))
             = Cardinality(Pending(t)) - Cardinality(On(t, ready))
    BY <2>1, <2>2, FS_Difference
  <2>4. Cardinality(Pending(t) \ On(t, ready)) \in Nat
    BY <2>3, FS_CardinalityType
  <2>5. unresolved_count'[t] = Cardinality(Pending(t) \ On(t, ready))
    BY <1>1, <1>2, <1>6, <2>3
  <2>6. Pending(t)' = Pending(t) \ On(t, ready)
    BY <1>2, <1>8
  <2> QED BY <2>3, <2>4, <2>5, <2>6, FS_EmptySet
<1>10. (TypeOK /\ input \in Inputs)'
  <2>1. batches' \in Seq(SUBSET Tasks)
    BY <1>1, <1>2
  <2>2. unresolved_count' \in [Task -> Int]
    BY <1>1, <1>9
  <2> QED BY <1>1, <1>4, <2>1, <2>2 DEF IInv, TypeOK
<1>11. Control'
  BY <1>1, <1>4 DEF IInv, Control
<1>12. Known' /\ Counted'
  BY <1>1, <1>4, <1>6, <1>9 DEF Known, Counted
<1>13. Readiness'
  <2>1. ASSUME NEW t \in ready' PROVE t \notin Scheduled' /\ Pending(t)' = {}
    BY <1>1, <1>2, <1>5, <1>6, <1>7, <1>8, <1>9, <2>1
  <2>2. ASSUME NEW t \in Tasks, Pending(t)' = {} PROVE t \in Scheduled' \cup ready'
    <3>1. CASE Pending(t) = {}
      BY <1>5, <1>6, <3>1
    <3>2. CASE Pending(t) # {}
      BY <1>1, <1>2, <1>8, <1>9, <2>2, <3>2
    <3> QED BY <3>1, <3>2
  <2> QED BY <1>4, <2>1, <2>2 DEF Readiness
<1>14. Layered'
  <2>1. ASSUME NEW k \in DOMAIN batches', NEW t \in batches'[k], NEW d \in input.depends[t]
        PROVE  \E j \in DOMAIN batches' : j < k /\ d.on \in batches'[j]
    <3>1. CASE k \in DOMAIN batches
      <4>1. PICK j \in DOMAIN batches : j < k /\ d.on \in batches[j]
        BY <1>1, <1>3, <2>1, <3>1 DEF IInv, Layered, Active
      <4> QED BY <1>3, <4>1
    <3>2. CASE k = Len(batches) + 1
      <4>1. d.on \in Scheduled
        BY <1>3, <1>6, <2>1, <3>2 DEF Pending
      <4>2. PICK j \in DOMAIN batches : d.on \in batches[j]
        BY <4>1 DEF Scheduled
      <4> QED BY <1>3, <3>2, <4>2
    <3> QED BY <1>3, <3>1, <3>2
  <2>2. ASSUME NEW j \in DOMAIN batches', NEW k \in DOMAIN batches', j # k
        PROVE  batches'[j] \cap batches'[k] = {}
    <3>1. CASE j \in DOMAIN batches /\ k \in DOMAIN batches
      BY <1>1, <1>3, <2>2, <3>1 DEF IInv, Layered, Active
    <3>2. ASSUME NEW i \in DOMAIN batches PROVE batches[i] \cap ready = {}
      BY <1>6, <3>2 DEF Scheduled
    <3> QED BY <1>3, <2>2, <3>1, <3>2
  <2> QED BY <1>1, <2>1, <2>2 DEF Layered
<1>15. NoCycle'
  <2>1. \A t : NeverReady(t)' <=> NeverReady(t)
    BY <1>1 DEF NeverReady
  <2>2. ASSUME NEW t \in ready, NeverReady(t) PROVE FALSE
    <3>1. PICK W \in SUBSET Task : t \in W /\ \A u \in W : \E d \in input.depends[u] : d.on \in W
      BY <2>2 DEF NeverReady
    <3>2. PICK d \in input.depends[t] : d.on \in W
      BY <3>1
    <3>3. NeverReady(d.on)
      BY <3>1, <3>2 DEF NeverReady
    <3>4. d.on \in Scheduled
      BY <1>6, <2>2, <3>2 DEF Pending
    <3> QED BY <1>1, <3>3, <3>4 DEF IInv, NoCycle, Active
  <2> QED BY <1>1, <1>5, <2>1, <2>2 DEF IInv, NoCycle, Active
<1>16. Gated'
  <2>1. \A t : (Waits(t)' <=> Waits(t)) /\ (Bad(t)' <=> Bad(t))
    BY <1>1 DEF Waits, Bad, DependsOn
  <2> QED BY <1>1, <2>1 DEF IInv, Gated
<1>17. PlanInOrder' /\ DependenciesRunFirst' /\ SessionsAreSafe'
       /\ (\A j, k \in DOMAIN sessions : j # k => sessions[j].lanes \cap sessions[k].lanes = {})'
  BY <1>1 DEF PlanInOrder, DependenciesRunFirst, SessionsAreSafe
<1> QED BY <1>10, <1>11, <1>12, <1>13, <1>14, <1>15, <1>16, <1>17 DEF IInv

LEMMA EndLayersInvariant ==
    ASSUME IInv, EndLayers
    PROVE  IInv'
<1>1. /\ pc = "layering" /\ ready = {} /\ input' = input /\ pass' = pass
      /\ unresolved_count' = unresolved_count /\ ready' = ready /\ batches' = batches
      /\ next' = next /\ blocked' = blocked /\ sessions' = sessions
      /\ rest = {} /\ sessions = <<>> /\ next = 1 /\ pass \in {1, 2}
  BY DEF EndLayers, IInv, Control, TypeOK
<1>2. /\ Scheduled' = Scheduled /\ Tasks' = Tasks
      /\ \A t : Pending(t)' = Pending(t) /\ (NeverReady(t)' <=> NeverReady(t))
                /\ (Bad(t)' <=> Bad(t))
  BY <1>1 DEF Scheduled, Tasks, Pending, NeverReady, Bad, DependsOn
<1>3. CASE Scheduled # Tasks
  <2>1. pc' = "cyclic" /\ rest' = rest
    BY <1>3 DEF EndLayers
  <2>2. pass = 1
    <3>1. Scheduled \subseteq Tasks
      BY DEF IInv, TypeOK, Scheduled
    <3>2. PICK t \in Tasks \ Scheduled : TRUE
      BY <1>3, <3>1
    <3>3. NeverReady(t)
      BY <1>1, <3>2, UnscheduledNeverReady DEF IInv, Active
    <3> QED BY <1>1, <3>2, <3>3 DEF IInv, NoCycle, Tasks
  <2> QED
    BY <1>1, <1>2, <1>3, <2>1, <2>2
       DEF IInv, TypeOK, Ended, Control, Known, Counted, Readiness, Layered, NoCycle, Gated,
           PlanInOrder, DependenciesRunFirst, SessionsAreSafe, Active, Waits
<1>4. CASE Scheduled = Tasks /\ pass = 1
  <2>1. pc' = "gating" /\ rest' = rest
    BY <1>4 DEF EndLayers
  <2>2. \A t \in Task : ~NeverReady(t)
    BY <1>1, <1>4 DEF IInv, NoCycle, Active, Tasks
  <2>3. blocked = {}
    BY <1>1, <1>4 DEF IInv, Gated
  <2>4. Gated'
    BY <1>1, <1>2, <1>4, <2>1, <2>3 DEF Gated, IInv, Control
  <2> QED
    BY <1>1, <1>2, <1>4, <2>1, <2>2, <2>4
       DEF IInv, TypeOK, Control, Known, Counted, Readiness, Layered, NoCycle,
           PlanInOrder, DependenciesRunFirst, SessionsAreSafe, Active
<1>5. CASE Scheduled = Tasks /\ pass = 2
  <2>1. pc' = "planning" /\ rest' = IF batches = <<>> THEN {} ELSE batches[1]
    BY <1>5 DEF EndLayers
  <2>2. batches \in Seq(SUBSET Tasks) /\ (batches # <<>> => 1 \in DOMAIN batches)
    BY DEF IInv, TypeOK
  <2>3. rest' \subseteq Tasks
    BY <2>1, <2>2
  <2>4. (TypeOK /\ input \in Inputs)'
    BY <1>1, <1>2, <2>1, <2>3 DEF IInv, TypeOK
  <2>5. PlanInOrder'
    <3>1. Emitted' = {}
      BY <1>1 DEF Emitted
    <3>2. \A t : ~Planning(t)'
      BY <1>1, <2>1, <2>2 DEF Planning
    <3> QED BY <1>1, <2>1, <2>2, <3>1, <3>2 DEF PlanInOrder
  <2>6. Control' /\ Known' /\ Counted' /\ Readiness' /\ Layered' /\ NoCycle' /\ Gated'
    BY <1>1, <1>2, <1>5, <2>1
       DEF IInv, Control, Known, Counted, Readiness, Layered, NoCycle, Gated, Active, Waits
  <2> QED
    BY <1>1, <2>4, <2>5, <2>6 DEF IInv, DependenciesRunFirst, SessionsAreSafe
<1> QED BY <1>1, <1>3, <1>4, <1>5

LEMMA GateBatchInvariant ==
    ASSUME IInv, GateBatch
    PROVE  IInv'
<1>1. /\ pc = "gating" /\ next \in DOMAIN batches /\ next' = next + 1
      /\ blocked' = blocked \cup {t \in batches[next] : GateBlocks(t)}
      /\ input' = input /\ pc' = pc /\ pass' = pass /\ unresolved_count' = unresolved_count
      /\ ready' = ready /\ batches' = batches /\ rest' = rest /\ sessions' = sessions
      /\ pass = 1 /\ sessions = <<>>
  BY DEF GateBatch, IInv, Control
<1>2. /\ Tasks = Task /\ Tasks' = Task /\ Scheduled' = Scheduled /\ Scheduled = Task
      /\ \A t : Pending(t)' = Pending(t) /\ (NeverReady(t)' <=> NeverReady(t))
                /\ (Bad(t)' <=> Bad(t))
  BY <1>1 DEF IInv, Control, Tasks, Scheduled, Pending, NeverReady, Bad, DependsOn
<1>3. batches \in Seq(SUBSET Task) /\ next \in Nat
  BY <1>2 DEF IInv, TypeOK
<1>4. batches[next] \subseteq Task
  BY <1>1, <1>3
<1>5. (TypeOK /\ input \in Inputs)'
  BY <1>1, <1>2, <1>4 DEF IInv, TypeOK
<1>6. ASSUME NEW k \in DOMAIN batches, k <= next, NEW t \in batches[k]
      PROVE  Waits(t)' <=> Waits(t)
  <2>1. ASSUME NEW d \in input.depends[t] PROVE d.on \notin batches[next]
    <3>1. PICK j \in DOMAIN batches : j < k /\ d.on \in batches[j]
      BY <1>1, <1>6 DEF IInv, Layered, Active
    <3>2. j # next /\ batches[j] \cap batches[next] = {}
      BY <1>1, <1>3, <1>6, <3>1 DEF IInv, Layered, Active
    <3> QED BY <3>1, <3>2
  <2> QED BY <1>1, <2>1 DEF Waits
<1>7. ASSUME NEW t \in batches[next], GateBlocks(t) PROVE Bad(t)
  <2>1. PICK d \in input.depends[t] : d.on \in blocked \cup input.failing
    BY <1>7 DEF GateBlocks, On
  <2>2. t \in Task /\ d.on \in Task
    BY <1>1, <1>2, <1>4 DEF IInv, Known, Active
  <2>3. d.on \in blocked => Bad(d.on)
    BY DEF IInv, Gated
  <2> QED BY <2>1, <2>2, <2>3, BehindADependency
<1>8. Gated'
  <2>1. ASSUME NEW k \in DOMAIN batches, NEW t \in batches[k]
        PROVE  IF k < next + 1
               THEN t \in blocked' <=> Waits(t)'
               ELSE t \notin blocked'
    <3>1. CASE k < next
      <4>1. t \notin batches[next]
        BY <1>1, <1>3, <2>1, <3>1 DEF IInv, Layered, Active
      <4> QED BY <1>1, <1>3, <1>6, <2>1, <3>1, <4>1 DEF IInv, Gated
    <3>2. CASE k = next
      <4>1. t \notin blocked
        BY <1>1, <1>3, <2>1, <3>2 DEF IInv, Gated
      <4>2. GateBlocks(t) <=> Waits(t)
        BY DEF GateBlocks, On, Waits
      <4> QED BY <1>1, <1>3, <1>6, <2>1, <3>2, <4>1, <4>2
    <3>3. CASE k > next
      <4>1. t \notin batches[next]
        BY <1>1, <1>3, <2>1, <3>3 DEF IInv, Layered, Active
      <4> QED BY <1>1, <1>3, <2>1, <3>3, <4>1 DEF IInv, Gated
    <3> QED BY <1>1, <1>3, <3>1, <3>2, <3>3
  <2>2. ASSUME NEW t \in blocked' PROVE Bad(t)
    BY <1>1, <1>7 DEF IInv, Gated
  <2> QED BY <1>1, <1>2, <2>1, <2>2 DEF Gated
<1>9. Control' /\ Known' /\ Counted' /\ Readiness' /\ Layered' /\ NoCycle'
  BY <1>1, <1>2, <1>3
     DEF IInv, Control, Known, Counted, Readiness, Layered, NoCycle, Active
<1>10. PlanInOrder' /\ DependenciesRunFirst' /\ SessionsAreSafe'
  BY <1>1 DEF PlanInOrder, DependenciesRunFirst, SessionsAreSafe
<1> QED BY <1>1, <1>5, <1>8, <1>9, <1>10 DEF IInv

LEMMA EndGatesInvariant ==
    ASSUME IInv, EndGates
    PROVE  IInv'
<1>1. /\ pc = "gating" /\ next \notin DOMAIN batches /\ pass' = 2
      /\ BeginBatches(Task \ blocked) /\ blocked' = blocked /\ input' = input
      /\ rest' = rest /\ sessions' = sessions /\ rest = {} /\ sessions = <<>> /\ pass = 1
  BY DEF EndGates, BeginBatches, IInv, Control
<1>2. /\ Tasks = Task /\ Tasks' = Task \ blocked /\ Scheduled = Task /\ blocked \subseteq Task
      /\ \A t : (NeverReady(t)' <=> NeverReady(t)) /\ (Bad(t)' <=> Bad(t))
  BY <1>1 DEF IInv, TypeOK, Control, Tasks, NeverReady, Bad, DependsOn
<1>3. batches \in Seq(SUBSET Task) /\ next \in Nat \ {0} /\ \A k \in DOMAIN batches : k < next
  BY <1>1, <1>2 DEF IInv, TypeOK, Control
<1>4. ASSUME NEW t \in Task
      PROVE  t \in blocked <=> Waits(t)
  <2>1. PICK k \in DOMAIN batches : t \in batches[k]
    BY <1>2 DEF Scheduled
  <2> QED BY <1>1, <1>3, <2>1 DEF IInv, Gated
<1>5. \A t \in Task : \A d \in input.depends[t] : d.on \in Task
  BY <1>1, <1>2 DEF IInv, Known, Active
<1>6. pc' = "layering"
  <2>1. \A t \in Task \ blocked : On(t, Task \ blocked) = input.depends[t]
    BY <1>4, <1>5 DEF On, Waits
  <2> QED BY <1>1, <2>1 DEF BeginBatches
<1>7. /\ Known' /\ Counted' /\ Readiness' /\ Layered'
      /\ Scheduled' = {} /\ batches' = <<>> /\ next' = 1
      /\ ready' \subseteq Task \ blocked /\ unresolved_count' \in [Task -> Int]
  BY <1>1, <1>2, <1>6, BeginBatchesEstablishes DEF IInv
<1>8. (TypeOK /\ input \in Inputs)'
  BY <1>1, <1>2, <1>6, <1>7 DEF IInv, TypeOK
<1>9. Control' /\ NoCycle'
  BY <1>1, <1>2, <1>6, <1>7 DEF IInv, Control, NoCycle
<1>10. Gated'
  <2>1. \A t : Waits(t)' <=> Waits(t)
    BY <1>1 DEF Waits
  <2> QED BY <1>1, <1>2, <1>4, <1>5, <1>6, <2>1 DEF IInv, Gated
<1>11. PlanInOrder' /\ DependenciesRunFirst' /\ SessionsAreSafe'
  BY <1>1, <1>6 DEF PlanInOrder, DependenciesRunFirst, SessionsAreSafe
<1> QED BY <1>1, <1>7, <1>8, <1>9, <1>10, <1>11 DEF IInv

\* A session of the lanes of the current batch that are safe together.
LEMMA EmitInvariant ==
    ASSUME IInv, pc = "planning", NEW lanes \in SUBSET rest, NEW mode \in Mode,
           rest # {}, Emit(lanes, mode),
           \A t, u \in lanes : t # u =>
               ~ScopesConflict(input.scopes[t],
                               input.held \cup {ResolveScopePath(s) : s \in input.scopes[u]})
    PROVE  IInv'
<1> DEFINE new == Len(sessions) + 1
           Safe(L) == \A t, u \in L : t # u =>
               ~ScopesConflict(input.scopes[t],
                               input.held \cup {ResolveScopePath(s) : s \in input.scopes[u]})
<1>1. /\ sessions' = Append(sessions, [lanes |-> lanes, mode |-> mode])
      /\ rest' = rest \ lanes /\ input' = input /\ pc' = pc /\ pass' = pass
      /\ unresolved_count' = unresolved_count /\ ready' = ready /\ batches' = batches
      /\ next' = next /\ blocked' = blocked
  BY DEF Emit
<1>2. /\ next \in DOMAIN batches /\ rest \subseteq batches[next] /\ next \in Nat
      /\ rest \subseteq Tasks /\ sessions \in Seq([lanes : SUBSET Tasks, mode : Mode])
      /\ batches \in Seq(SUBSET Tasks)
      /\ \A t \in Tasks : t \in Emitted <=> Planning(t)
  BY DEF IInv, PlanInOrder, TypeOK
<1>3. /\ Len(sessions) \in Nat /\ DOMAIN sessions = 1..Len(sessions)
      /\ DOMAIN sessions' = 1..new /\ sessions'[new].lanes = lanes
      /\ \A k \in DOMAIN sessions : sessions'[k] = sessions[k]
  BY <1>1, <1>2
<1>4. /\ Tasks' = Tasks /\ Scheduled' = Scheduled
      /\ \A t : /\ Pending(t)' = Pending(t) /\ (NeverReady(t)' <=> NeverReady(t))
               /\ (Bad(t)' <=> Bad(t)) /\ (Waits(t)' <=> Waits(t))
  BY <1>1 DEF Scheduled, Tasks, Pending, NeverReady, Bad, DependsOn, Waits
<1>5. (TypeOK /\ input \in Inputs)'
  <2>1. [lanes |-> lanes, mode |-> mode] \in [lanes : SUBSET Tasks, mode : Mode]
    BY <1>2
  <2>2. sessions' \in Seq([lanes : SUBSET Tasks, mode : Mode])
    BY <1>1, <1>2, <2>1
  <2>3. rest' \subseteq Tasks
    BY <1>1, <1>2
  <2> QED BY <1>1, <1>4, <2>2, <2>3 DEF IInv, TypeOK
<1>6. Control' /\ Known' /\ Counted' /\ Readiness' /\ Layered' /\ NoCycle' /\ Gated'
  BY <1>1, <1>4 DEF IInv, Control, Known, Counted, Readiness, Layered, NoCycle, Gated, Active
<1>7. Emitted' = Emitted \cup lanes
  BY <1>3 DEF Emitted
<1>8. lanes \cap Emitted = {}
  <2>1. ASSUME NEW t \in lanes PROVE ~Planning(t)
    <3>1. ASSUME NEW k \in DOMAIN batches, t \in batches[k] PROVE k = next
      BY <1>2, <3>1 DEF IInv, Layered, Active
    <3> QED BY <1>2, <3>1 DEF Planning
  <2> QED BY <1>2, <2>1
<1>9. PlanInOrder'
  <2>1. ASSUME NEW t \in Tasks PROVE Planning(t)' <=> Planning(t) \/ t \in lanes
    BY <1>1, <1>2 DEF Planning
  <2>2. rest' # {} => next' \in DOMAIN batches' /\ rest' \subseteq batches'[next']
    BY <1>1, <1>2
  <2> QED BY <1>1, <1>2, <1>4, <1>7, <2>1, <2>2 DEF PlanInOrder
<1>10. \A k \in 0..Len(sessions) : Planned(k)' = Planned(k)
  BY <1>3 DEF Planned
<1>11. DependenciesRunFirst'
  <2>1. ASSUME NEW k \in DOMAIN sessions', NEW t \in sessions'[k].lanes,
               NEW d \in input.depends[t]
        PROVE  d.on \in Planned(k - 1)'
    <3>1. CASE k \in DOMAIN sessions
      <4>1. d.on \in Planned(k - 1)
        BY <1>3, <2>1, <3>1 DEF IInv, DependenciesRunFirst
      <4> QED BY <1>3, <1>10, <3>1, <4>1
    <3>2. CASE k = new
      <4>1. t \in batches[next] /\ t \in Tasks
        BY <1>2, <1>3, <2>1, <3>2
      <4>2. PICK j \in DOMAIN batches : j < next /\ d.on \in batches[j]
        BY <1>2, <2>1, <4>1 DEF IInv, Layered, Active
      <4>3. d.on \in Tasks /\ Planning(d.on)
        BY <1>2, <2>1, <4>1, <4>2 DEF Planning, IInv, Known, Active
      <4>4. d.on \in Emitted
        BY <1>2, <4>3
      <4>5. d.on \in Planned(Len(sessions))
        BY <1>3, <4>4 DEF Emitted, Planned
      <4> QED BY <1>3, <1>10, <3>2, <4>5
    <3> QED BY <1>3, <2>1, <3>1, <3>2
  <2> QED BY <1>1, <2>1 DEF DependenciesRunFirst
<1>12. SessionsAreSafe'
  <2>1. \A k \in DOMAIN sessions : Safe(sessions[k].lanes)
    BY DEF IInv, SessionsAreSafe
  <2>2. Safe(lanes)
    OBVIOUS
  <2> HIDE DEF Safe
  <2>3. \A k \in DOMAIN sessions' : Safe(sessions'[k].lanes)
    BY <1>3, <2>1, <2>2
  <2>4. ASSUME NEW k \in DOMAIN sessions', NEW t \in sessions'[k].lanes,
               NEW u \in sessions'[k].lanes, t # u
        PROVE  ~ScopesConflict(input.scopes[t],
                               input.held \cup {ResolveScopePath(s) : s \in input.scopes[u]})
    BY <2>3, <2>4 DEF Safe
  <2> QED BY <1>1, <2>4 DEF SessionsAreSafe, ScopesConflict
<1>13. ASSUME NEW j \in DOMAIN sessions', NEW k \in DOMAIN sessions', j # k
       PROVE  sessions'[j].lanes \cap sessions'[k].lanes = {}
  <2>1. \A i \in DOMAIN sessions : sessions[i].lanes \subseteq Emitted
    BY DEF Emitted
  <2> QED BY <1>3, <1>8, <1>13, <2>1 DEF IInv
<1> QED BY <1>5, <1>6, <1>9, <1>11, <1>12, <1>13 DEF IInv

LEMMA EmitFanOutInvariant ==
    ASSUME IInv, EmitFanOut
    PROVE  IInv'
<1> DEFINE lanes == WithinCap(FanOut)
<1>1. pc = "planning" /\ FanOut # {} /\ Emit(lanes, "fan-out")
  BY DEF EmitFanOut
<1>2. lanes \subseteq FanOut /\ FanOut \subseteq rest
  BY DEF WithinCap, FanOut
<1>3. rest \subseteq batches[next]
  BY <1>1, <1>2 DEF IInv, PlanInOrder
<1>4. ASSUME NEW t \in lanes, NEW u \in lanes, t # u
      PROVE  ~ScopesConflict(input.scopes[t],
                             input.held \cup {ResolveScopePath(s) : s \in input.scopes[u]})
  <2>1. ~Inline(t) /\ u \in batches[next] \ {t}
    BY <1>2, <1>3, <1>4 DEF FanOut
  <2>2. {ResolveScopePath(s) : s \in input.scopes[u]} \subseteq Resolved(batches[next] \ {t})
    BY <2>1 DEF Resolved
  <2> QED BY <2>1, <2>2 DEF Inline, ScopesConflict
<1> HIDE DEF lanes
<1> QED BY <1>1, <1>2, <1>4, EmitInvariant DEF Mode

LEMMA EmitInlineInvariant ==
    ASSUME IInv, NEW t \in Task, EmitInline(t)
    PROVE  IInv'
<1>1. pc = "planning" /\ rest # {} /\ {t} \in SUBSET rest /\ Emit({t}, "inline") /\ "inline" \in Mode
  BY DEF EmitInline, Mode
<1>2. \A u, v \in {t} : ~(u # v)
  OBVIOUS
<1> QED BY <1>1, <1>2, EmitInvariant

LEMMA NextBatchInvariant ==
    ASSUME IInv, NextBatch
    PROVE  IInv'
<1>1. /\ pc = "planning" /\ rest = {} /\ input' = input /\ pass' = pass
      /\ unresolved_count' = unresolved_count /\ ready' = ready /\ batches' = batches
      /\ blocked' = blocked /\ sessions' = sessions
  BY DEF NextBatch
<1>2. /\ Tasks' = Tasks /\ Scheduled' = Scheduled /\ Emitted' = Emitted
      /\ \A t : /\ Pending(t)' = Pending(t) /\ (NeverReady(t)' <=> NeverReady(t))
               /\ (Bad(t)' <=> Bad(t)) /\ (Waits(t)' <=> Waits(t))
  BY <1>1 DEF Scheduled, Tasks, Pending, NeverReady, Bad, DependsOn, Waits, Emitted
<1>3. next \in Nat \ {0} /\ batches \in Seq(SUBSET Tasks) /\ DOMAIN batches \subseteq Nat
      /\ \A t \in Tasks : t \in Emitted <=> Planning(t)
  BY <1>1 DEF IInv, Control, TypeOK, PlanInOrder
<1>4. DependenciesRunFirst' /\ SessionsAreSafe'
      /\ (\A j, k \in DOMAIN sessions : j # k => sessions[j].lanes \cap sessions[k].lanes = {})'
  BY <1>1 DEF IInv, DependenciesRunFirst, SessionsAreSafe, Planned, ScopesConflict
<1>5. CASE next + 1 \in DOMAIN batches
  <2>1. next' = next + 1 /\ rest' = batches[next + 1] /\ pc' = pc
    BY <1>5 DEF NextBatch
  <2>2. rest' \subseteq Tasks
    BY <1>3, <1>5, <2>1
  <2>3. (TypeOK /\ input \in Inputs)'
    BY <1>1, <1>2, <1>3, <2>1, <2>2 DEF IInv, TypeOK
  <2>4. ASSUME NEW t \in Tasks PROVE Planning(t)' <=> Planning(t)
    BY <1>1, <1>3, <2>1 DEF Planning
  <2>5. PlanInOrder'
    BY <1>1, <1>2, <1>3, <1>5, <2>1, <2>4 DEF PlanInOrder
  <2>6. Control' /\ Known' /\ Counted' /\ Readiness' /\ Layered' /\ NoCycle' /\ Gated'
    BY <1>1, <1>2, <1>3, <2>1
       DEF IInv, Control, Known, Counted, Readiness, Layered, NoCycle, Gated, Active
  <2> QED BY <1>4, <2>3, <2>5, <2>6 DEF IInv
<1>6. CASE next + 1 \notin DOMAIN batches
  <2>1. next' = next /\ rest' = rest /\ pc' = "done"
    BY <1>6 DEF NextBatch
  <2>2. (TypeOK /\ input \in Inputs)'
    BY <1>1, <1>2, <2>1 DEF IInv, TypeOK, Ended
  <2>3. PlanInOrder'
    BY <1>1, <1>2, <1>3, <1>6, <2>1 DEF PlanInOrder, Planning
  <2>4. Control' /\ Known' /\ Counted' /\ Readiness' /\ Layered' /\ NoCycle' /\ Gated'
    BY <1>1, <1>2, <1>3, <2>1
       DEF IInv, Control, Known, Counted, Readiness, Layered, NoCycle, Gated, Active
  <2> QED BY <1>4, <2>2, <2>3, <2>4 DEF IInv
<1> QED BY <1>5, <1>6

LEMMA NextInvariant == IInv /\ [Next]_vars => IInv'
<1> SUFFICES ASSUME IInv, [Next]_vars PROVE IInv'
  OBVIOUS
<1>1. CASE UNCHANGED vars
  <2> USE <1>1 DEF vars
  <2>1. /\ Tasks' = Tasks /\ Scheduled' = Scheduled /\ Emitted' = Emitted
        /\ \A t : /\ Pending(t)' = Pending(t) /\ (NeverReady(t)' <=> NeverReady(t))
                 /\ (Bad(t)' <=> Bad(t)) /\ (Waits(t)' <=> Waits(t))
                 /\ (Planning(t)' <=> Planning(t))
    BY DEF Scheduled, Tasks, Pending, NeverReady, Bad, DependsOn, Waits, Emitted, Planning
  <2>2. (TypeOK /\ input \in Inputs)'
    BY <2>1 DEF IInv, TypeOK
  <2>3. Control' /\ Known' /\ Counted' /\ Readiness' /\ Layered' /\ NoCycle' /\ Gated'
        /\ PlanInOrder'
    BY <2>1 DEF IInv, Control, Known, Counted, Readiness, Layered, NoCycle, Gated, Active,
                PlanInOrder
  <2>4. DependenciesRunFirst' /\ SessionsAreSafe'
    BY DEF IInv, DependenciesRunFirst, SessionsAreSafe, Planned, ScopesConflict
  <2> QED BY <2>2, <2>3, <2>4 DEF IInv
<1>2. CASE Next
  BY <1>2, RefuseInvariant, BeginInvariant, LayerInvariant, EndLayersInvariant,
     GateBatchInvariant, EndGatesInvariant, EmitFanOutInvariant, EmitInlineInvariant,
     NextBatchInvariant DEF Next
<1> QED BY <1>1, <1>2

LEMMA Invariant == Spec => []IInv
BY InitInvariant, NextInvariant, PTL DEF Spec

LEMMA ElementIn ==
    ASSUME NEW S, NEW s \in Seq(S), NEW k \in DOMAIN s
    PROVE  s[k] \in S
OBVIOUS

LEMMA EveryTaskOnceHolds == IInv => EveryTaskOnce
<1> SUFFICES ASSUME IInv, pc = "done" PROVE EveryTaskOnce
  BY DEF EveryTaskOnce
<1>1. /\ Tasks = Task \ blocked /\ Scheduled = Tasks /\ rest = {} /\ next + 1 \notin DOMAIN batches
      /\ \A t \in Tasks : t \in Emitted <=> Planning(t)
      /\ next \in Nat \ {0} /\ batches \in Seq(SUBSET Tasks)
      /\ sessions \in Seq([lanes : SUBSET Tasks, mode : Mode])
  BY DEF IInv, Control, PlanInOrder, TypeOK, Tasks
<1>2. ASSUME NEW k \in DOMAIN batches PROVE k <= next
  BY <1>1
<1>3. \A t \in Tasks : Planning(t)
  BY <1>1, <1>2 DEF Planning, Scheduled
<1>4. Emitted \subseteq Tasks /\ DOMAIN sessions = 1..Len(sessions)
  <2>1. ASSUME NEW k \in DOMAIN sessions PROVE sessions[k].lanes \subseteq Tasks
    <3>1. sessions \in Seq([lanes : SUBSET Tasks, mode : Mode])
      BY <1>1
    <3>2. sessions[k] \in [lanes : SUBSET Tasks, mode : Mode]
      BY <2>1, <3>1, ElementIn
    <3> QED BY <3>2
  <2>2. DOMAIN sessions = 1..Len(sessions)
    BY <1>1
  <2> HIDE <1>1
  <2> QED BY <2>1, <2>2 DEF Emitted
<1>5. Planned(Len(sessions)) = Emitted
  BY <1>4 DEF Planned, Emitted
<1> QED BY <1>1, <1>3, <1>4, <1>5 DEF EveryTaskOnce, IInv

LEMMA BlockedExactlyHolds == IInv => BlockedExactly
<1> SUFFICES ASSUME IInv, pass = 2 PROVE BlockedExactly
  BY DEF BlockedExactly
<1>1. /\ blocked \subseteq Task /\ input \in Input
      /\ \A t \in blocked : Bad(t)
      /\ \A t \in Task \ blocked : ~Waits(t)
      /\ \A t \in Task : \A d \in input.depends[t] : d.on \in Task
      /\ pc \notin {"unknown", "cyclic"}
  BY DEF IInv, Gated, TypeOK, Control
<1>2. ASSUME NEW t \in Task \ blocked PROVE ~Bad(t)
  BY <1>1, UnblockedIsClean
<1> QED BY <1>1, <1>2 DEF BlockedExactly, Bad

LEMMA CycleIsNamedHolds == IInv => CycleIsNamed
<1> SUFFICES ASSUME IInv PROVE CycleIsNamed
  OBVIOUS
<1>1. CASE pc = "cyclic"
  <2>1. pass = 1 /\ ready = {} /\ Tasks = Task /\ Scheduled # Task
    BY <1>1 DEF IInv, Control, Tasks
  <2>2. \A t \in Tasks \ Scheduled : NeverReady(t)
    BY <1>1, <2>1, UnscheduledNeverReady DEF IInv, Active
  <2>3. \A t \in Scheduled : ~NeverReady(t)
    BY <1>1 DEF IInv, NoCycle, Active
  <2> QED BY <1>1, <2>1, <2>2, <2>3 DEF CycleIsNamed
<1>2. CASE pc # "cyclic"
  BY <1>2 DEF IInv, NoCycle, Control, CycleIsNamed
<1> QED BY <1>1, <1>2

-----------------------------------------------------------------------------
(***************************************************************************)
(* Scopes.  resolve_scope_path folds the components from left to right;    *)
(* the library's fold recurs over the set of their positions, of which it  *)
(* takes the last one off.  That this recursion has a solution, and what   *)
(* its values are, is shown by counting up to the number of components.    *)
(***************************************************************************)

\* Induction over the numbers, for a set of them.
LEMMA CountUp ==
    ASSUME NEW U \in SUBSET Nat, 0 \in U, \A k \in U : k + 1 \in U
    PROVE  U = Nat
<1> SUFFICES ASSUME Nat \ U # {} PROVE FALSE
  OBVIOUS
<1>1. PICK u \in Nat \ U : \A m \in Nat \ U : ~ (<<m, u>> \in OpToRel(<, Nat))
  BY NatLessThanWellFounded, WFMin
<1>2. u # 0
  BY <1>1
<1>3. PICK m \in Nat : m + 1 = u
  <2>1. u - 1 \in Nat /\ (u - 1) + 1 = u
    BY <1>2
  <2> QED BY <2>1
<1>4. <<m, u>> \in OpToRel(<, Nat)
  BY <1>3 DEF OpToRel
<1>5. m \in U
  BY <1>1, <1>4
<1> QED BY <1>1, <1>3, <1>5

\* The position a fold treats last.
LastOf(s) == CHOOSE x \in s : \A y \in s : x >= y

\* The fold of resolve_scope_path, over the positions of the components.
Resolving(base, raw, it, D) ==
    it = [s \in SUBSET D |->
            IF s = {} THEN base
            ELSE ResolveComponent(it[s \ {LastOf(s)}], raw[LastOf(s)])]

LEMMA ResolveIsFold ==
    ASSUME NEW base, NEW raw
    PROVE  FoldLeft(ResolveComponent, base, raw)
             = (CHOOSE it : Resolving(base, raw, it, DOMAIN raw))[DOMAIN raw]
BY DEF FoldLeft, MapThenFoldSet, Resolving, LastOf, Max

LEMMA LastIsGreatest ==
    ASSUME NEW k \in Nat, NEW s \in SUBSET (1 .. k + 1), k + 1 \in s
    PROVE  LastOf(s) = k + 1
<1>1. \A y \in s : k + 1 >= y
  OBVIOUS
<1>2. \A x \in s : (\A y \in s : x >= y) => x = k + 1
  BY <1>1
<1>3. \E x \in s : \A y \in s : x >= y
  BY <1>1
<1> QED BY <1>2, <1>3 DEF LastOf

\* The fold is defined: of one component more, it resolves that behind the others.
LEMMA ResolvingExists ==
    ASSUME NEW base, NEW raw, NEW n \in Nat
    PROVE  \E it : Resolving(base, raw, it, 1 .. n)
<1> DEFINE U == {k \in Nat : \E it : Resolving(base, raw, it, 1 .. k)}
<1>1. 0 \in U
  <2>1. Resolving(base, raw, [s \in SUBSET (1 .. 0) |-> base], 1 .. 0)
    <3>1. \A s \in SUBSET (1 .. 0) : s = {}
      OBVIOUS
    <3> QED BY <3>1 DEF Resolving
  <2> QED BY <2>1
<1>2. ASSUME NEW k \in U PROVE k + 1 \in U
  <2>1. PICK g : Resolving(base, raw, g, 1 .. k)
    OBVIOUS
  <2>2. PICK h : h = [s \in SUBSET (1 .. k + 1) |->
                        IF k + 1 \in s THEN ResolveComponent(g[s \ {k + 1}], raw[k + 1]) ELSE g[s]]
    OBVIOUS
  <2>3. ASSUME NEW s \in SUBSET (1 .. k + 1)
        PROVE  h[s] = IF s = {} THEN base
                      ELSE ResolveComponent(h[s \ {LastOf(s)}], raw[LastOf(s)])
    <3>1. CASE k + 1 \in s
      <4>1. LastOf(s) = k + 1
        BY <3>1, LastIsGreatest
      <4>2. h[s] = ResolveComponent(g[s \ {k + 1}], raw[k + 1])
        BY <2>2, <3>1
      <4>3. h[s \ {k + 1}] = g[s \ {k + 1}]
        BY <2>2
      <4> QED BY <3>1, <4>1, <4>2, <4>3
    <3>2. CASE k + 1 \notin s
      <4>1. s \in SUBSET (1 .. k)
        BY <3>2
      <4>2. h[s] = g[s] /\ h[s \ {LastOf(s)}] = g[s \ {LastOf(s)}]
        BY <2>2, <3>2
      <4>3. g[s] = IF s = {} THEN base
                   ELSE ResolveComponent(g[s \ {LastOf(s)}], raw[LastOf(s)])
        BY <2>1, <4>1 DEF Resolving
      <4> QED BY <4>2, <4>3
    <3> QED BY <3>1, <3>2
  <2>4. Resolving(base, raw, h, 1 .. k + 1)
    BY <2>2, <2>3 DEF Resolving
  <2> QED BY <2>4
<1>3. U = Nat
  <2> HIDE DEF U
  <2>1. U \in SUBSET Nat
    BY DEF U
  <2> QED BY <1>1, <1>2, <2>1, CountUp
<1> QED BY <1>3

LEMMA ComponentResolves ==
    ASSUME NEW r \in Seq(FileName), NEW c \in Component
    PROVE  /\ ResolveComponent(r, c) \in Seq(FileName)
           /\ Len(ResolveComponent(r, c)) <= Len(r) + 1
<1>1. CASE c \in Nothing \cup {Here}
  BY <1>1 DEF ResolveComponent
<1>2. CASE c \notin Nothing \cup {Here} /\ c = Parent
  BY <1>2 DEF ResolveComponent, Front
<1>3. CASE c \notin Nothing \cup {Here} /\ c # Parent
  BY <1>3 DEF ResolveComponent, FileName, Nothing
<1> QED BY <1>1, <1>2, <1>3

\* What the fold yields has names only, and at most one more for each component.
LEMMA FoldedScope ==
    ASSUME NEW base \in Seq(FileName), NEW raw \in Seq(Component)
    PROVE  /\ FoldLeft(ResolveComponent, base, raw) \in Seq(FileName)
           /\ Len(FoldLeft(ResolveComponent, base, raw)) <= Len(base) + Len(raw)
<1>1. PICK n \in Nat : n = Len(raw)
  OBVIOUS
<1>2. DOMAIN raw = 1 .. n
  BY <1>1
<1>3. PICK it : it = (CHOOSE i : Resolving(base, raw, i, 1 .. n))
  OBVIOUS
<1>4. Resolving(base, raw, it, 1 .. n)
  BY <1>3, ResolvingExists
<1> DEFINE U == {k \in Nat : k <= n =>
                   \A s \in SUBSET (1 .. k) : it[s] \in Seq(FileName) /\ Len(it[s]) <= Len(base) + k}
<1>5. \A s \in SUBSET (1 .. n) :
        it[s] = IF s = {} THEN base ELSE ResolveComponent(it[s \ {LastOf(s)}], raw[LastOf(s)])
  BY <1>4 DEF Resolving
<1>6. 0 \in U
  <2>1. \A s \in SUBSET (1 .. 0) : s = {}
    OBVIOUS
  <2>2. it[{}] = base
    BY <1>5
  <2>3. base \in Seq(FileName) /\ Len(base) <= Len(base) + 0
    OBVIOUS
  <2>4. it[{}] \in Seq(FileName) /\ Len(it[{}]) <= Len(base) + 0
    BY <2>2, <2>3
  <2>5. \A s \in SUBSET (1 .. 0) : it[s] \in Seq(FileName) /\ Len(it[s]) <= Len(base) + 0
    BY <2>1, <2>4
  <2> QED BY <2>5
<1>7. ASSUME NEW k \in U PROVE k + 1 \in U
  <2> SUFFICES ASSUME k + 1 <= n, NEW s \in SUBSET (1 .. k + 1)
               PROVE  it[s] \in Seq(FileName) /\ Len(it[s]) <= Len(base) + k + 1
    OBVIOUS
  <2>1. \A t \in SUBSET (1 .. k) : it[t] \in Seq(FileName) /\ Len(it[t]) <= Len(base) + k
    OBVIOUS
  <2>2. CASE k + 1 \in s
    <3>1. LastOf(s) = k + 1
      BY <2>2, LastIsGreatest
    <3>2. s \in SUBSET (1 .. n) /\ s # {} /\ s \ {k + 1} \in SUBSET (1 .. k)
      <4>1. 1 .. k + 1 \subseteq 1 .. n /\ (1 .. k + 1) \ {k + 1} \subseteq 1 .. k
        OBVIOUS
      <4> QED BY <2>2, <4>1
    <3>3. it[s] = ResolveComponent(it[s \ {k + 1}], raw[k + 1])
      BY <1>5, <3>1, <3>2
    <3>4. it[s \ {k + 1}] \in Seq(FileName) /\ Len(it[s \ {k + 1}]) <= Len(base) + k
      BY <2>1, <3>2
    <3>5. raw[k + 1] \in Component
      BY <1>1
    <3> HIDE DEF U
    <3>6. PICK r \in Seq(FileName) : r = it[s \ {k + 1}]
      BY <3>4
    <3>7. PICK c \in Component : c = raw[k + 1]
      BY <3>5
    <3>8. ResolveComponent(r, c) \in Seq(FileName) /\ Len(ResolveComponent(r, c)) <= Len(r) + 1
      BY ComponentResolves
    <3>9. it[s] = ResolveComponent(r, c)
      BY <3>3, <3>6, <3>7
    <3>10. Len(r) <= Len(base) + k
      BY <3>4, <3>6
    <3>11. PICK q \in Seq(FileName) : q = it[s] /\ Len(q) <= Len(r) + 1
      BY <3>8, <3>9
    <3>12. Len(q) <= Len(base) + k + 1
      <4>1. Len(q) \in Nat /\ Len(r) \in Nat /\ k \in Nat /\ Len(base) \in Nat
        BY <1>7 DEF U
      <4> QED BY <3>10, <3>11, <4>1
    <3> QED BY <3>11, <3>12
  <2>3. CASE k + 1 \notin s
    <3>1. s \in SUBSET (1 .. k)
      BY <2>3
    <3>2. it[s] \in Seq(FileName) /\ Len(it[s]) <= Len(base) + k
      BY <2>1, <3>1
    <3> QED BY <3>2
  <2> QED BY <2>2, <2>3
<1>8. U = Nat
  <2> HIDE DEF U
  <2>1. U \in SUBSET Nat
    BY DEF U
  <2> QED BY <1>6, <1>7, <2>1, CountUp
<1>9. it[1 .. n] \in Seq(FileName) /\ Len(it[1 .. n]) <= Len(base) + n
  <2>1. n \in U
    BY <1>8
  <2>2. 1 .. n \in SUBSET (1 .. n)
    OBVIOUS
  <2> QED BY <2>1, <2>2
<1>10. FoldLeft(ResolveComponent, base, raw) = it[1 .. n]
  BY <1>2, <1>3, ResolveIsFold
<1> QED BY <1>1, <1>9, <1>10

\* The name of a scope has no component that means something else.
LEMMA NamesOfScope ==
    ASSUME NEW raw \in Seq(Component)
    PROVE  Names(raw) \in Seq(FileName) /\ Len(Names(raw)) <= Len(Cwd) + Len(raw)
<1>1. Cwd \in Seq(FileName) /\ <<>> \in Seq(FileName) /\ Len(<<>>) = 0
  BY PathAssumption DEF FileName
<1>2. Len(Cwd) \in Nat /\ Len(raw) \in Nat
  BY <1>1
<1>3. /\ FoldLeft(ResolveComponent, Cwd, raw) \in Seq(FileName)
      /\ Len(FoldLeft(ResolveComponent, Cwd, raw)) <= Len(Cwd) + Len(raw)
  BY <1>1, FoldedScope
<1>4. /\ FoldLeft(ResolveComponent, <<>>, raw) \in Seq(FileName)
      /\ Len(FoldLeft(ResolveComponent, <<>>, raw)) <= Len(raw)
  <2>1. PICK e \in Seq(FileName) : e = <<>>
    BY <1>1
  <2>2. /\ FoldLeft(ResolveComponent, e, raw) \in Seq(FileName)
        /\ Len(FoldLeft(ResolveComponent, e, raw)) <= Len(e) + Len(raw)
    BY FoldedScope
  <2>3. Len(e) + Len(raw) = Len(raw)
    BY <1>1, <1>2, <2>1
  <2> QED BY <2>1, <2>2, <2>3
<1>5. CASE Something(raw) = {}
  BY <1>1, <1>2, <1>5 DEF Names
<1>6. CASE Something(raw) # {} /\ LeadingSlashes(raw) = 0
  BY <1>3, <1>6 DEF Names
<1>7. CASE Something(raw) # {} /\ LeadingSlashes(raw) # 0
  <2>1. Names(raw) = FoldLeft(ResolveComponent, <<>>, raw)
    BY <1>7 DEF Names
  <2>2. Len(Names(raw)) \in Nat
    BY <1>4, <2>1
  <2> QED BY <1>2, <1>4, <2>1, <2>2
<1> QED BY <1>5, <1>6, <1>7

\* One path begins another if it is no longer and they agree so far.
LEMMA PrefixByComponents ==
    ASSUME NEW S, NEW a \in Seq(S), NEW f \in Seq(S)
    PROVE  IsPrefix(a, f) <=> Len(a) <= Len(f) /\ \A i \in 1 .. Len(a) : a[i] = f[i]
<1>1. CASE Len(a) <= Len(f)
  <2>1. SubSeq(f, 1, Len(a)) \in Seq(S) /\ Len(SubSeq(f, 1, Len(a))) = Len(a)
    BY <1>1
  <2>2. \A i \in 1 .. Len(a) : SubSeq(f, 1, Len(a))[i] = f[i]
    BY <1>1
  <2>3. SubSeq(a, 1, Len(a)) = a
    OBVIOUS
  <2>4. a = SubSeq(f, 1, Len(a)) <=> \A i \in 1 .. Len(a) : a[i] = f[i]
    BY <2>1, <2>2
  <2> QED BY <1>1, <2>3, <2>4 DEF IsPrefix
<1>2. CASE ~ (Len(a) <= Len(f))
  BY <1>2 DEF IsPrefix
<1> QED BY <1>1, <1>2

LEMMA OverlapIsPrefix ==
    ASSUME NEW S, NEW a \in Seq(S), NEW b \in Seq(S)
    PROVE  PathsOverlap(a, b) <=> IsPrefix(a, b) \/ IsPrefix(b, a)
<1>1. IsPrefix(a, a) /\ IsPrefix(b, b)
  BY PrefixByComponents
<1>2. ASSUME a = <<>> PROVE IsPrefix(a, b)
  <2>1. Len(a) <= Len(b) /\ \A i \in 1 .. Len(a) : a[i] = b[i]
    BY <1>2
  <2> QED BY <2>1, PrefixByComponents
<1>3. ASSUME b = <<>> PROVE IsPrefix(b, a)
  <2>1. Len(b) <= Len(a) /\ \A i \in 1 .. Len(b) : b[i] = a[i]
    BY <1>3
  <2> QED BY <2>1, PrefixByComponents
<1> QED BY <1>1, <1>2, <1>3 DEF PathsOverlap, IsStrictPrefix

\* Two paths overlap exactly when some path continues both.
LEMMA OverlapIsCommonPath ==
    ASSUME NEW S, NEW a \in Seq(S), NEW b \in Seq(S)
    PROVE  PathsOverlap(a, b) <=> \E f \in Seq(S) : IsPrefix(a, f) /\ IsPrefix(b, f)
<1>1. IsPrefix(a, a) /\ IsPrefix(b, b)
  BY PrefixByComponents
<1>2. PathsOverlap(a, b) <=> IsPrefix(a, b) \/ IsPrefix(b, a)
  BY OverlapIsPrefix
<1>3. ASSUME NEW f \in Seq(S), IsPrefix(a, f), IsPrefix(b, f)
      PROVE  IsPrefix(a, b) \/ IsPrefix(b, a)
  <2>1. /\ \A i \in 1 .. Len(a) : a[i] = f[i]
        /\ \A i \in 1 .. Len(b) : b[i] = f[i]
    BY <1>3, PrefixByComponents
  <2>2. CASE Len(a) <= Len(b)
    BY <2>1, <2>2, PrefixByComponents
  <2>3. CASE Len(b) <= Len(a)
    BY <2>1, <2>3, PrefixByComponents
  <2> QED BY <2>2, <2>3
<1> QED BY <1>1, <1>2, <1>3

\* A sequence of names is one of components.
LEMMA NamesAreComponents ==
    ASSUME NEW m \in Seq(FileName)
    PROVE  m \in Seq(Component)
<1>1. FileName \subseteq Component
  BY DEF FileName
<1>2. m \in [1 .. Len(m) -> FileName] /\ Len(m) \in Nat
  OBVIOUS
<1>3. m \in [1 .. Len(m) -> Component]
  BY <1>1, <1>2
<1> QED BY <1>2, <1>3

\* A path that begins with two slashes: it begins another such path as its name begins
\* the other's.
Rest(name) == IF name = <<>> THEN <<Empty>> ELSE name
Doubled(path, name) == path = <<Empty>> \o Rest(name)

LEMMA RestIsPath ==
    ASSUME NEW m \in Seq(FileName)
    PROVE  Rest(m) \in Seq(Component)
<1>1. CASE m = <<>>
  <2>1. <<Empty>> \in Seq(Component)
    BY PathAssumption
  <2> QED BY <1>1, <2>1 DEF Rest
<1>2. CASE m # <<>>
  BY <1>2, NamesAreComponents DEF Rest
<1> QED BY <1>1, <1>2

LEMMA DoubledPaths ==
    ASSUME NEW a, NEW b, NEW m \in Seq(FileName), NEW n \in Seq(FileName),
           Doubled(a, m), Doubled(b, n)
    PROVE  IsPrefix(a, b) => IsPrefix(m, n)
<1> SUFFICES ASSUME IsPrefix(a, b) PROVE IsPrefix(m, n)
  OBVIOUS
<1>1. Empty \in Component /\ Empty \notin FileName
  BY PathAssumption DEF FileName
<1>2. PICK p \in Seq(Component) : p = Rest(m)
  BY RestIsPath
<1>3. PICK q \in Seq(Component) : q = Rest(n)
  BY RestIsPath
<1>4. a = <<Empty>> \o p /\ b = <<Empty>> \o q
  BY <1>2, <1>3 DEF Doubled
<1>5. /\ a \in Seq(Component) /\ Len(a) = Len(p) + 1 /\ \A i \in 1 .. Len(p) : a[i + 1] = p[i]
      /\ b \in Seq(Component) /\ Len(b) = Len(q) + 1 /\ \A i \in 1 .. Len(q) : b[i + 1] = q[i]
  BY <1>1, <1>4
<1>6. Len(a) <= Len(b) /\ \A i \in 1 .. Len(a) : a[i] = b[i]
  BY <1>5, PrefixByComponents
<1>7. Len(p) <= Len(q) /\ \A i \in 1 .. Len(p) : p[i] = q[i]
  <2>1. Len(p) \in Nat /\ Len(q) \in Nat /\ Len(p) <= Len(q)
    BY <1>5, <1>6
  <2>2. ASSUME NEW i \in 1 .. Len(p) PROVE p[i] = q[i]
    <3>1. i + 1 \in 1 .. Len(a) /\ i \in 1 .. Len(q)
      BY <1>5, <2>1
    <3>2. a[i + 1] = b[i + 1]
      BY <1>6, <3>1
    <3> QED BY <1>5, <3>1, <3>2
  <2> QED BY <2>1, <2>2
<1>8. CASE m = <<>>
  <2>1. Len(m) <= Len(n) /\ \A i \in 1 .. Len(m) : m[i] = n[i]
    BY <1>8
  <2> QED BY <2>1, PrefixByComponents
<1>9. CASE m # <<>> /\ n = <<>>
  <2>1. Len(m) >= 1 /\ p = m /\ q = <<Empty>> /\ Len(q) = 1 /\ q[1] = Empty
    BY <1>2, <1>3, <1>9 DEF Rest
  <2>2. m[1] = Empty /\ m[1] \in FileName
    BY <1>7, <2>1
  <2> QED BY <1>1, <2>2
<1>10. CASE m # <<>> /\ n # <<>>
  BY <1>2, <1>3, <1>7, <1>10, PrefixByComponents DEF Rest
<1> QED BY <1>8, <1>9, <1>10

\* A path that begins with two slashes overlaps none that begins with one, the root apart.
LEMMA DoubledApart ==
    ASSUME NEW a, NEW m \in Seq(FileName), NEW b \in Seq(FileName), Doubled(a, m), b # <<>>
    PROVE  ~ IsPrefix(a, b) /\ ~ IsPrefix(b, a)
<1>1. Empty \in Component /\ Empty \notin FileName /\ b \in Seq(Component)
  BY PathAssumption, NamesAreComponents DEF FileName
<1>2. PICK p \in Seq(Component) : a = <<Empty>> \o p
  BY RestIsPath DEF Doubled
<1>3. a \in Seq(Component) /\ Len(a) = Len(p) + 1 /\ a[1] = Empty
  BY <1>1, <1>2
<1>4. b \in Seq(Component) /\ Len(b) >= 1 /\ b[1] \in FileName
  BY <1>1
<1>5. 1 \in 1 .. Len(a) /\ 1 \in 1 .. Len(b) /\ a[1] # b[1]
  BY <1>1, <1>3, <1>4
<1> QED BY <1>3, <1>4, <1>5, PrefixByComponents

\* Paths overlap only if the name of one begins that of the other, and also when it
\* does, if none of them begins with two slashes.
LEMMA OverlapOfScopes ==
    ASSUME NEW r \in Seq(Component), NEW s \in Seq(Component)
    PROVE  LET overlap == PathsOverlap(ResolveScopePath(r), ResolveScopePath(s))
               related == IsPrefix(Names(r), Names(s)) \/ IsPrefix(Names(s), Names(r))
           IN /\ overlap => related
              /\ related => overlap \/ DoubleSlashed(r) \/ DoubleSlashed(s)
<1>1. PICK m \in Seq(FileName) : m = Names(r)
  BY NamesOfScope
<1>2. PICK n \in Seq(FileName) : n = Names(s)
  BY NamesOfScope
<1>3. PICK a : a = ResolveScopePath(r)
  OBVIOUS
<1>4. PICK b : b = ResolveScopePath(s)
  OBVIOUS
<1>5. IF DoubleSlashed(r) THEN Doubled(a, m) ELSE a = m
  BY <1>1, <1>3 DEF ResolveScopePath, Doubled, Rest
<1>6. IF DoubleSlashed(s) THEN Doubled(b, n) ELSE b = n
  BY <1>2, <1>4 DEF ResolveScopePath, Doubled, Rest
<1>7. m \in Seq(Component) /\ n \in Seq(Component) /\ Empty \in Component
  BY PathAssumption, NamesAreComponents
<1>8. a \in Seq(Component) /\ b \in Seq(Component)
  <2>1. Rest(m) \in Seq(Component) /\ Rest(n) \in Seq(Component)
    BY RestIsPath
  <2>2. <<Empty>> \o Rest(m) \in Seq(Component) /\ <<Empty>> \o Rest(n) \in Seq(Component)
    BY <1>7, <2>1
  <2> QED BY <1>5, <1>6, <1>7, <2>2 DEF Doubled
<1>9. PathsOverlap(a, b) <=> IsPrefix(a, b) \/ IsPrefix(b, a)
  BY <1>8, OverlapIsPrefix
<1>10. (m = <<>> => IsPrefix(m, n)) /\ (n = <<>> => IsPrefix(n, m))
  BY PrefixByComponents
<1>11. CASE ~ DoubleSlashed(r) /\ ~ DoubleSlashed(s)
  BY <1>1, <1>2, <1>3, <1>4, <1>5, <1>6, <1>9, <1>11
<1>12. CASE DoubleSlashed(r) /\ DoubleSlashed(s)
  BY <1>1, <1>2, <1>3, <1>4, <1>5, <1>6, <1>9, <1>12, DoubledPaths
<1>13. CASE DoubleSlashed(r) /\ ~ DoubleSlashed(s)
  BY <1>1, <1>2, <1>3, <1>4, <1>5, <1>6, <1>9, <1>10, <1>13, DoubledApart
<1>14. CASE ~ DoubleSlashed(r) /\ DoubleSlashed(s)
  BY <1>1, <1>2, <1>3, <1>4, <1>5, <1>6, <1>9, <1>10, <1>14, DoubledApart
<1> QED BY <1>11, <1>12, <1>13, <1>14

LEMMA OverlapIsSharedFileHolds == IInv => OverlapIsSharedFile
<1> SUFFICES ASSUME input \in Inputs, NEW t \in Task, NEW u \in Task,
                    NEW r \in input.scopes[t], NEW s \in input.scopes[u]
             PROVE  LET overlap == PathsOverlap(ResolveScopePath(r), ResolveScopePath(s))
                        shared == FilesOf(r) \cap FilesOf(s) # {}
                    IN /\ overlap => shared
                       /\ shared => overlap \/ DoubleSlashed(r) \/ DoubleSlashed(s)
  BY DEF IInv, OverlapIsSharedFile
<1>1. /\ r \in Seq(Component) /\ Len(r) <= MaxLen
      /\ s \in Seq(Component) /\ Len(s) <= MaxLen
  BY InputsAssumption DEF Input
<1>2. PICK a \in Seq(FileName) : a = Names(r) /\ Len(a) <= Len(Cwd) + Len(r)
  BY <1>1, NamesOfScope
<1>3. PICK b \in Seq(FileName) : b = Names(s) /\ Len(b) <= Len(Cwd) + Len(s)
  BY <1>1, NamesOfScope
<1>4. Len(Cwd) \in Nat
  BY PathAssumption
<1>5. Len(a) <= Len(Cwd) + MaxLen /\ Len(b) <= Len(Cwd) + MaxLen
  BY <1>1, <1>2, <1>3, <1>4, LenAssumption
<1>6. ASSUME NEW f \in Seq(FileName), Len(f) <= Len(Cwd) + MaxLen PROVE f \in Files
  BY <1>4, <1>6, LenAssumption DEF Files
<1>7. Files \subseteq Seq(FileName)
  BY DEF Files
<1>8. IsPrefix(a, a) /\ IsPrefix(b, b) /\ a \in Files /\ b \in Files
  BY <1>5, <1>6, PrefixByComponents
<1>9. FilesOf(r) \cap FilesOf(s) # {} <=> IsPrefix(a, b) \/ IsPrefix(b, a)
  <2>1. ASSUME IsPrefix(a, b) \/ IsPrefix(b, a) PROVE FilesOf(r) \cap FilesOf(s) # {}
    BY <1>2, <1>3, <1>8, <2>1 DEF FilesOf
  <2>2. ASSUME FilesOf(r) \cap FilesOf(s) # {} PROVE IsPrefix(a, b) \/ IsPrefix(b, a)
    <3>1. PICK f \in Seq(FileName) : IsPrefix(a, f) /\ IsPrefix(b, f)
      BY <1>2, <1>3, <1>7, <2>2 DEF FilesOf
    <3> QED BY <3>1, OverlapIsCommonPath, OverlapIsPrefix
  <2> QED BY <2>1, <2>2
<1> QED BY <1>1, <1>2, <1>3, <1>9, OverlapOfScopes

-----------------------------------------------------------------------------
\* Types of the scheduler's variables.
THEOREM TypeCorrect == Spec => []TypeOK
BY Invariant, PTL DEF IInv

\* In the plan of every graph a dependency runs in an earlier session.
THEOREM DependenciesFirst == Spec => []DependenciesRunFirst
BY Invariant, PTL DEF IInv

\* Lanes of one session overlap neither each other nor a claim of another run.
THEOREM SafeSessions == Spec => []SessionsAreSafe
BY Invariant, PTL DEF IInv

\* Two scopes of the graph overlap only when they share a file, and always when they do
\* and none begins with two slashes, however they are written and whatever names they
\* are made of.
THEOREM OverlapIsCommonFile == Spec => []OverlapIsSharedFile
BY Invariant, OverlapIsSharedFileHolds, PTL

\* A finished schedule has every task once, in a session or among the blocked.
THEOREM NothingLost == Spec => []EveryTaskOnce
BY Invariant, EveryTaskOnceHolds, PTL

\* The tasks behind a failed gate, and no others, are blocked, and what is left
\* can be planned.
THEOREM BlockedAreBehindGates == Spec => []BlockedExactly
BY Invariant, BlockedExactlyHolds, PTL

\* The cycle error is raised exactly for the graphs with tasks that wait for
\* themselves, and names those.
THEOREM CyclesAreNamed == Spec => []CycleIsNamed
BY Invariant, CycleIsNamedHolds, PTL
=============================================================================
