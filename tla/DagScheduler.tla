---------------------------- MODULE DagScheduler ----------------------------
(***************************************************************************)
(* build_schedule (runtime/dagscheduler.py): a task graph becomes a        *)
(* sequence of sessions.  build_batches runs twice, over all tasks to find *)
(* the ones behind a failed gate and over the others to plan them; one     *)
(* step is one turn of one of its loops, or one session emitted.           *)
(*                                                                         *)
(* Tasks are numbered in the order of their ids, and a batch is the set of *)
(* its tasks: the source sorts it wherever an order matters.               *)
(***************************************************************************)
EXTENDS Integers, FiniteSets, ScopePaths

CONSTANTS
    Task,
    Component,  \* of a path
    Inputs,     \* the inputs to schedule
    MaxLen,     \* components of a scope (a bound of the model)
    None

ASSUME TaskAssumption == Task \subseteq Nat

\* A dependency as it stands in depends_on, which may name a task twice, or one
\* that is not in the graph.
Dependency == [on : Nat, nth : Nat]

(***************************************************************************)
(* depends, scopes: depends_on and write_scope of each task; failing: the  *)
(* tasks whose gate did not pass; held: the resolved paths of the claims   *)
(* of other runs; max_parallel: None, or the cap; repeated: an id is       *)
(* listed twice; boundary: the sequence declares session_boundary.         *)
(***************************************************************************)
Input ==
    [depends : [Task -> SUBSET Dependency], scopes : [Task -> SUBSET Seq(Component)],
     failing : SUBSET Task, held : SUBSET Seq(Component), max_parallel : Int \cup {None},
     repeated : BOOLEAN, boundary : BOOLEAN]

ASSUME InputsAssumption ==
    \A in \in Inputs :
        /\ in \in Input
        /\ \A t \in Task : IsFiniteSet(in.depends[t])
        /\ \A t \in Task : \A s \in in.scopes[t] : Len(s) <= MaxLen

ASSUME LenAssumption == MaxLen \in Nat

ASSUME PathAssumption ==
    /\ Cwd \in Seq(Component \ {RecursiveMark, Parent, Here, Empty})
    /\ Empty \in Component

ASSUME NoneAssumption == None \notin Int

VARIABLES
    input,
    pc,         \* the loop that runs, or how build_schedule ended
    pass,       \* 1: all tasks, 2: the tasks that are not blocked
    unresolved_count,
    ready,
    batches,    \* of this pass
    next,       \* the batch that is gated, or planned
    blocked,
    rest,       \* the tasks of that batch that are not planned yet
    sessions

vars == <<input, pc, pass, unresolved_count, ready, batches, next, blocked, rest, sessions>>

Ended == {"refused", "unknown", "cyclic", "done"}
Mode == {"fan-out", "inline"}

\* The tasks of this pass.
Tasks == IF pass = 1 THEN Task ELSE Task \ blocked

\* The dependencies of t on tasks of S.
On(t, S) == {d \in input.depends[t] : d.on \in S}

Scheduled == UNION {batches[k] : k \in DOMAIN batches}

Init ==
    /\ input \in Inputs
    /\ pc = "start"
    /\ pass = 1
    /\ unresolved_count = [t \in Task |-> 0]
    /\ ready = {}
    /\ batches = <<>>
    /\ next = 1
    /\ blocked = {}
    /\ rest = {}
    /\ sessions = <<>>

Malformed ==
    \/ ~input.boundary
    \/ input.max_parallel # None /\ input.max_parallel < 1
    \/ input.repeated

Refuse ==
    /\ pc = "start"
    /\ Malformed
    /\ pc' = "refused"
    /\ UNCHANGED <<input, pass, unresolved_count, ready, batches, next, blocked, rest, sessions>>

DependencyCount(t) == Cardinality(input.depends[t])

\* The head of build_batches over the tasks ts.
BeginBatches(ts) ==
    /\ IF \E t \in ts : On(t, ts) # input.depends[t]
       THEN /\ pc' = "unknown"
            /\ UNCHANGED <<unresolved_count, ready>>
       ELSE /\ pc' = "layering"
            /\ unresolved_count' = [t \in Task |-> IF t \in ts THEN DependencyCount(t) ELSE 0]
            /\ ready' = {t \in ts : unresolved_count'[t] = 0}
    /\ batches' = <<>>
    /\ next' = 1
    /\ UNCHANGED <<input, rest, sessions>>

Begin ==
    /\ pc = "start"
    /\ ~Malformed
    /\ BeginBatches(Task)
    /\ UNCHANGED <<pass, blocked>>

\* Mutant: a task is released by the first of its dependencies.
LayerFirst ==
    /\ pc = "layering"
    /\ ready # {}
    /\ batches' = Append(batches, ready)
    /\ unresolved_count' =
         [t \in Task |-> IF t \in Tasks THEN unresolved_count[t] - Cardinality(On(t, ready)) ELSE 0]
    /\ ready' = {t \in Tasks \ (Scheduled \cup ready) : On(t, ready) # {}}
    /\ UNCHANGED <<input, pc, pass, next, blocked, rest, sessions>>

\* One turn of `while ready'.
Layer ==
    /\ pc = "layering"
    /\ ready # {}
    /\ batches' = Append(batches, ready)
    /\ unresolved_count' =
         [t \in Task |-> IF t \in Tasks THEN unresolved_count[t] - Cardinality(On(t, ready)) ELSE 0]
    /\ ready' = {t \in Tasks : On(t, ready) # {} /\ unresolved_count'[t] = 0}
    /\ UNCHANGED <<input, pc, pass, next, blocked, rest, sessions>>

EndLayers ==
    /\ pc = "layering"
    /\ ready = {}
    /\ CASE Scheduled # Tasks -> pc' = "cyclic" /\ UNCHANGED rest
         [] Scheduled = Tasks /\ pass = 1 -> pc' = "gating" /\ UNCHANGED rest
         [] Scheduled = Tasks /\ pass = 2 ->
              /\ pc' = "planning"
              /\ rest' = IF batches = <<>> THEN {} ELSE batches[1]
    /\ UNCHANGED <<input, pass, unresolved_count, ready, batches, next, blocked, sessions>>

\* Mutant: only the gates of the direct dependencies count.
GateBlocksDirect(t) == On(t, input.failing) # {}

\* A dependency is blocked, or its gate did not pass.
GateBlocks(t) == On(t, blocked \cup input.failing) # {}

\* The tasks of a batch do not depend on each other, so they are judged at once.
GateBatch ==
    /\ pc = "gating"
    /\ next \in DOMAIN batches
    /\ blocked' = blocked \cup {t \in batches[next] : GateBlocks(t)}
    /\ next' = next + 1
    /\ UNCHANGED <<input, pc, pass, unresolved_count, ready, batches, rest, sessions>>

\* build_lanes over the tasks that are not blocked.
EndGates ==
    /\ pc = "gating"
    /\ next \notin DOMAIN batches
    /\ pass' = 2
    /\ BeginBatches(Task \ blocked)
    /\ UNCHANGED blocked

ScopesConflict(scopes, paths) ==
    \E own \in scopes, other \in paths : PathsOverlap(ResolveScopePath(own), other)

\* Mutant: the scopes of the siblings are compared as they were written.
ResolvedRaw(ts) == UNION {input.scopes[t] : t \in ts}

Resolved(ts) == {ResolveScopePath(s) : s \in UNION {input.scopes[t] : t \in ts}}

Inline(t) ==
    \/ ScopesConflict(input.scopes[t], Resolved(batches[next] \ {t}))
    \/ ScopesConflict(input.scopes[t], input.held)

FanOut == {t \in rest : ~Inline(t)}

Emit(lanes, mode) ==
    /\ sessions' = Append(sessions, [lanes |-> lanes, mode |-> mode])
    /\ rest' = rest \ lanes
    /\ UNCHANGED <<input, pc, pass, unresolved_count, ready, batches, next, blocked>>

\* _split_by_max_parallel: the first max_parallel of the tasks S, in id order.
WithinCap(S) ==
    {t \in S : input.max_parallel = None
               \/ Cardinality({u \in S : u < t}) < input.max_parallel}

\* Mutant: what exceeds the cap is cut off.
EmitFanOutCut ==
    /\ pc = "planning"
    /\ FanOut # {}
    /\ sessions' = Append(sessions, [lanes |-> WithinCap(FanOut), mode |-> "fan-out"])
    /\ rest' = rest \ FanOut
    /\ UNCHANGED <<input, pc, pass, unresolved_count, ready, batches, next, blocked>>

EmitFanOut ==
    /\ pc = "planning"
    /\ FanOut # {}
    /\ Emit(WithinCap(FanOut), "fan-out")

EmitInline(t) ==
    /\ pc = "planning"
    /\ FanOut = {}
    /\ t \in rest
    /\ \A u \in rest : t <= u
    /\ Emit({t}, "inline")

NextBatch ==
    /\ pc = "planning"
    /\ rest = {}
    /\ IF next + 1 \in DOMAIN batches
       THEN /\ next' = next + 1
            /\ rest' = batches[next + 1]
            /\ UNCHANGED pc
       ELSE /\ pc' = "done"
            /\ UNCHANGED <<next, rest>>
    /\ UNCHANGED <<input, pass, unresolved_count, ready, batches, blocked, sessions>>

Next ==
    \/ Refuse
    \/ Begin
    \/ Layer
    \/ EndLayers
    \/ GateBatch
    \/ EndGates
    \/ EmitFanOut
    \/ \E t \in Task : EmitInline(t)
    \/ NextBatch

Spec == Init /\ [][Next]_vars

-----------------------------------------------------------------------------
\* Types of the scheduler's variables.
TypeOK ==
    /\ input \in Input
    /\ pc \in {"start", "layering", "gating", "planning"} \cup Ended
    /\ pass \in {1, 2}
    /\ unresolved_count \in [Task -> Int]
    /\ ready \subseteq Tasks
    /\ batches \in Seq(SUBSET Tasks)
    /\ next \in Nat
    /\ blocked \subseteq Task
    /\ rest \subseteq Tasks
    /\ sessions \in Seq([lanes : SUBSET Tasks, mode : Mode])

Planned(k) == UNION {sessions[j].lanes : j \in 1..k}

\* Every dependency of a lane runs in an earlier session than the lane, whatever
\* the splitting by scope and by max_parallel did to the batches.
DependenciesRunFirst ==
    \A k \in DOMAIN sessions : \A t \in sessions[k].lanes :
        \A d \in input.depends[t] : d.on \in Planned(k - 1)

\* Lanes of one session are safe together: their scopes do not overlap each other
\* (criterion 2) nor a claim another run holds.
SessionsAreSafe ==
    \A k \in DOMAIN sessions : \A t, u \in sessions[k].lanes :
        t # u => ~ScopesConflict(input.scopes[t],
                                 input.held \cup {ResolveScopePath(s) : s \in input.scopes[u]})

\* The files of a scope: the one it names and everything below it, up to the length
\* of the longest scope.  For the operating system two leading slashes are one.
FileName == Component \ {RecursiveMark, Parent, Here, Empty}
Files == UNION {[1..n -> FileName] : n \in 0..(Len(Cwd) + MaxLen)}
FilesOf(raw) == {f \in Files : IsPrefix(Names(raw), f)}

\* Two scopes overlap, in either order of the arguments, only when they have a file
\* in common, and always when they have, unless "**" behind the first slash has
\* left one of them two slashes to begin with (paths_overlap, the conflict test of
\* claim_write_scope, WriteSetManager and build_lanes).
OverlapIsSharedFile ==
    pc = "start" =>
    \A t, u \in Task : \A r \in input.scopes[t], s \in input.scopes[u] :
        LET overlap == PathsOverlap(ResolveScopePath(r), ResolveScopePath(s))
            shared == FilesOf(r) \cap FilesOf(s) # {}
        IN /\ overlap => shared
           /\ shared => overlap \/ DoubleSlashed(r) \/ DoubleSlashed(s)

\* No task is lost or planned twice: at the end it is blocked or in one session.
EveryTaskOnce ==
    pc = "done" =>
    /\ Planned(Len(sessions)) = Task \ blocked
    /\ \A j, k \in DOMAIN sessions :
         j # k => sessions[j].lanes \cap sessions[k].lanes = {}

\* d is among the tasks t depends on, directly or through others.
DependsOn(t, d) ==
    \A C \in SUBSET Task :
        (\A u \in C \cup {t} : \A e \in input.depends[u] : e.on \in C) => d \in C

\* Blocked are exactly the tasks with a gate that did not pass somewhere before
\* them; the plan of the others cannot fail any more.
BlockedExactly ==
    pass = 2 =>
    /\ blocked = {t \in Task : \E d \in input.failing : DependsOn(t, d)}
    /\ pc \notin {"unknown", "cyclic"}

\* t is in, or behind, a circle of tasks that wait for each other.
NeverReady(t) ==
    \E W \in SUBSET Task :
        t \in W /\ \A u \in W : \E d \in input.depends[u] : d.on \in W

\* CyclicGraphError is raised for the graphs with a cycle and no others, and names
\* "every task that can never be scheduled".
CycleIsNamed ==
    /\ pc = "cyclic" => Tasks \ Scheduled = {t \in Task : NeverReady(t)}
    /\ pc = "cyclic" => Scheduled # Task
    /\ pc \in {"gating", "planning", "done"} => \A t \in Task : ~NeverReady(t)
=============================================================================
