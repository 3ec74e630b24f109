----------------------------- MODULE RunService -----------------------------
(***************************************************************************)
(* RunApplicationService.execute (runsvc/service.py) over the stores it    *)
(* drives: calls of several processes, one step for each statement that    *)
(* reads or writes a store, and another writer of the runs.                *)
(*                                                                         *)
(* Of the run store this module uses what RunStore proves of it: a run is  *)
(* a path of legal states, its version the length of the path, and a       *)
(* transition happens exactly if the state and the version are the         *)
(* expected ones when it commits.                                          *)
(***************************************************************************)
EXTENDS Naturals, Sequences, RunStates

CONSTANTS
    Call,       \* calls of execute
    Run,
    Bytes,      \* what a worker may write to its standard output
    Empty,      \* nothing, or white space
    MaxPath,    \* other writers leave longer paths alone (a bound of the model)
    None

ASSUME BytesAssumption == Empty \in Bytes /\ MaxPath \in Nat
Result == {r \in [exited : BOOLEAN, zero : BOOLEAN, bytes : Bytes] : r.zero => r.exited}
Gate == {"pass", "fail", "inconclusive"}

ASSUME NoneAssumption == None \notin Run \cup Nat \cup Result \cup Gate

VARIABLES
    path,       \* path[r]: the states of run r, <<>> before create_run
    stopReason, \* stopReason[r]: metadata["stop_reason"] is set
    launched,   \* launched[r]: workers started for r (history)
    raw,        \* the bytes in the raw artifact store
    journal,    \* journal[r]: the bytes of the artifact_created events of r
    evidence,   \* evidence[b]: the run in the receipt of b, or None
    pc,         \* pc[c]: the statement c is at
    run,        \* run[c]: the run_id c was called with
    seen,       \* seen[c]: the version c has read for its next transition
    result,     \* result[c]: what the worker left, or None
    gate,       \* gate[c]: the gate state, or None
    receipt,    \* receipt[c]: the run named by the receipt c got, or None
    disturbed   \* runs another writer moved, or whose store was busy (history)

stores == <<path, stopReason, launched, raw, journal, evidence>>
vars == <<stores, pc, run, seen, result, gate, receipt, disturbed>>

Current(r) == path[r][Len(path[r])]

\* The transitions execute makes: from, to, whether with a stop reason, and
\* where it goes on.
Leg == [from : LaneState, to : LaneState, stop : BOOLEAN, then : STRING]

Walk ==
    [walk1 |-> [from |-> "preflight", to |-> "batch_selection", stop |-> FALSE, then |-> "walk2"],
     walk2 |-> [from |-> "batch_selection", to |-> "lane_plan", stop |-> FALSE, then |-> "walk3"],
     walk3 |-> [from |-> "lane_plan", to |-> "implement", stop |-> FALSE, then |-> "walk4"],
     walk4 |-> [from |-> "implement", to |-> "verify", stop |-> FALSE, then |-> "launch"]]

\* Mutant: what passed is taken to be reviewed.
GateStageReviewed(g) == IF g = "pass" THEN "integrate" ELSE "fix_retry"

GateStage(g) == IF g = "pass" THEN "review_gate" ELSE "fix_retry"

LegOf(c) ==
    CASE pc[c] \in DOMAIN Walk -> Walk[pc[c]]
      [] pc[c] = "gate" ->
           [from |-> "verify", to |-> GateStage(gate[c]), stop |-> FALSE, then |-> "end"]
      [] pc[c] = "end" ->
           [from |-> GateStage(gate[c]), to |-> "advance_or_stop",
            stop |-> gate[c] # "pass", then |-> "returned"]
      [] pc[c] \in {"fail1", "fail1_gate"} ->
           [from |-> "verify", to |-> "fix_retry", stop |-> FALSE,
            then |-> IF pc[c] = "fail1" THEN "retry" ELSE "retry_gate"]
      [] pc[c] \in {"fail2", "fail2_gate"} ->
           [from |-> "fix_retry", to |-> "advance_or_stop", stop |-> TRUE,
            then |-> IF pc[c] = "fail2" THEN "raised_launch" ELSE "raised_gate"]

Leaving == {"fail1", "fail2", "fail1_gate", "fail2_gate"}
Moving == DOMAIN Walk \cup {"gate", "end"} \cup Leaving
Raised == {"conflict", "raised_walk", "raised_launch", "raised_late", "raised_gate"}

Init ==
    /\ path = [r \in Run |-> <<>>]
    /\ stopReason = [r \in Run |-> FALSE]
    /\ launched = [r \in Run |-> 0]
    /\ raw = {}
    /\ journal = [r \in Run |-> <<>>]
    /\ evidence = [b \in Bytes |-> None]
    /\ pc = [c \in Call |-> "idle"]
    /\ run = [c \in Call |-> None]
    /\ seen = [c \in Call |-> None]
    /\ result = [c \in Call |-> None]
    /\ gate = [c \in Call |-> None]
    /\ receipt = [c \in Call |-> None]
    /\ disturbed = {}

Goto(c, where) == pc' = [pc EXCEPT ![c] = where]

\* create_run: the primary key lets the first call of a run_id in.
Create(c, r) ==
    /\ pc[c] = "idle"
    /\ run' = [run EXCEPT ![c] = r]
    /\ IF path[r] = <<>>
       THEN path' = [path EXCEPT ![r] = <<"preflight">>] /\ Goto(c, "walk1")
       ELSE UNCHANGED path /\ Goto(c, "conflict")
    /\ UNCHANGED <<stopReason, launched, raw, journal, evidence,
                   seen, result, gate, receipt, disturbed>>

\* get_run before a transition of the walk or the gate.
ReadVersion(c) ==
    /\ pc[c] \in Moving \ Leaving
    /\ seen[c] = None
    /\ seen' = [seen EXCEPT ![c] = Len(path[run[c]])]
    /\ UNCHANGED <<stores, pc, run, result, gate, receipt, disturbed>>

Matches(c) ==
    /\ Current(run[c]) = LegOf(c).from
    /\ Len(path[run[c]]) = seen[c]

\* transition(), when it commits.
Move(c) ==
    /\ pc[c] \in Moving
    /\ seen[c] # None
    /\ Matches(c)
    /\ path' = [path EXCEPT ![run[c]] = Append(@, LegOf(c).to)]
    /\ stopReason' = [stopReason EXCEPT ![run[c]] = @ \/ LegOf(c).stop]
    /\ Goto(c, LegOf(c).then)
    /\ seen' = [seen EXCEPT ![c] = None]
    /\ UNCHANGED <<launched, raw, journal, evidence, run, result, gate, receipt, disturbed>>

\* Where execute goes on when a transition raises: nothing catches it in the
\* walk, the gate fails the run, _fail_run swallows it.
OnRaise(c) ==
    CASE pc[c] \in DOMAIN Walk -> "raised_walk"
      [] pc[c] \in {"gate", "end"} -> "fail_gate"
      [] pc[c] \in {"fail1", "fail2"} -> "raised_launch"
      [] OTHER -> "raised_gate"

\* transition(), when it raises: another writer was faster, or the store is busy.
MoveRaises(c) ==
    /\ pc[c] \in Moving
    /\ seen[c] # None
    /\ disturbed' = disturbed \cup {run[c]}
    /\ Goto(c, OnRaise(c))
    /\ seen' = [seen EXCEPT ![c] = None]
    /\ UNCHANGED <<stores, run, result, gate, receipt>>

\* run_command.
Launch(c, res) ==
    /\ pc[c] = "launch"
    /\ launched' = [launched EXCEPT ![run[c]] = @ + 1]
    /\ result' = [result EXCEPT ![c] = res]
    /\ Goto(c, "raw")
    /\ UNCHANGED <<path, stopReason, raw, journal, evidence, run, seen, gate, receipt, disturbed>>

LaunchRaises(c) ==
    /\ pc[c] = "launch"
    /\ Goto(c, "fail")
    /\ UNCHANGED <<stores, run, seen, result, gate, receipt, disturbed>>

\* _fail_run reads the run and moves it out of verify or fix_retry; it does
\* nothing about a run that is anywhere else.
FailRun(c) ==
    /\ pc[c] \in {"fail", "fail_gate"}
    /\ LET launching == pc[c] = "fail"
           state == Current(run[c])
       IN Goto(c, CASE state = "verify" -> IF launching THEN "fail1" ELSE "fail1_gate"
                    [] state = "fix_retry" -> IF launching THEN "fail2" ELSE "fail2_gate"
                    [] OTHER -> IF launching THEN "raised_launch" ELSE "raised_gate")
    /\ seen' = [seen EXCEPT ![c] = IF Current(run[c]) \in {"verify", "fix_retry"}
                                   THEN Len(path[run[c]]) ELSE None]
    /\ UNCHANGED <<stores, run, result, gate, receipt, disturbed>>

\* Mutant: the failing run is left in fix_retry.
RetryReadsNothing(c) ==
    /\ pc[c] \in {"retry", "retry_gate"}
    /\ Goto(c, IF pc[c] = "retry" THEN "raised_launch" ELSE "raised_gate")
    /\ UNCHANGED <<stores, run, seen, result, gate, receipt, disturbed>>

\* Its second read, after its first transition.
RetryRead(c) ==
    /\ pc[c] \in {"retry", "retry_gate"}
    /\ IF Current(run[c]) = "fix_retry"
       THEN /\ Goto(c, IF pc[c] = "retry" THEN "fail2" ELSE "fail2_gate")
            /\ seen' = [seen EXCEPT ![c] = Len(path[run[c]])]
       ELSE /\ Goto(c, IF pc[c] = "retry" THEN "raised_launch" ELSE "raised_gate")
            /\ UNCHANGED seen
    /\ UNCHANGED <<stores, run, result, gate, receipt, disturbed>>

\* Stage 3.
PutRaw(c) ==
    /\ pc[c] = "raw"
    /\ raw' = raw \cup {result[c].bytes}
    /\ Goto(c, "journal")
    /\ UNCHANGED <<path, stopReason, launched, journal, evidence,
                   run, seen, result, gate, receipt, disturbed>>

\* Stage 4.
AppendJournal(c) ==
    /\ pc[c] = "journal"
    /\ journal' = [journal EXCEPT ![run[c]] = Append(@, result[c].bytes)]
    /\ Goto(c, "evidence")
    /\ UNCHANGED <<path, stopReason, launched, raw, evidence,
                   run, seen, result, gate, receipt, disturbed>>

\* Mutant: INSERT OR REPLACE.
SaveEvidenceReplaces(c) ==
    /\ pc[c] = "evidence"
    /\ evidence' = [evidence EXCEPT ![result[c].bytes] = run[c]]
    /\ receipt' = [receipt EXCEPT ![c] = run[c]]
    /\ Goto(c, "assess")
    /\ UNCHANGED <<path, stopReason, launched, raw, journal, run, seen, result, gate, disturbed>>

\* Stage 5, save_evidence: equal bytes share the receipt that was stored first,
\* whichever run it names.
SaveEvidence(c) ==
    /\ pc[c] = "evidence"
    /\ LET winner == IF evidence[result[c].bytes] = None THEN run[c]
                     ELSE evidence[result[c].bytes]
       IN /\ evidence' = [evidence EXCEPT ![result[c].bytes] = winner]
          /\ receipt' = [receipt EXCEPT ![c] = winner]
    /\ Goto(c, "assess")
    /\ UNCHANGED <<path, stopReason, launched, raw, journal, run, seen, result, gate, disturbed>>

\* CompletionContract.evaluate.
Evaluate(res, check) ==
    IF ~res.exited \/ ~res.zero THEN "fail"
    ELSE IF res.bytes = Empty \/ ~check THEN "inconclusive"
    ELSE "pass"

\* Stage 6: the verdict and the gate are the same function of the same values.
Assess(c, check) ==
    /\ pc[c] = "assess"
    /\ gate' = [gate EXCEPT ![c] = Evaluate(result[c], check)]
    /\ Goto(c, "gate")
    /\ UNCHANGED <<stores, run, seen, result, receipt, disturbed>>

\* Mutant: an event that cannot be appended is passed over.
LateStagePasses(c) ==
    /\ pc[c] = "journal"
    /\ Goto(c, "evidence")
    /\ UNCHANGED <<stores, run, seen, result, gate, receipt, disturbed>>

\* An exception in stages 3 to 6 (a store, or the check of the caller) is not
\* caught: the run stays where it is.
LateStageRaises(c) ==
    /\ pc[c] \in {"raw", "journal", "evidence", "assess"}
    /\ Goto(c, "raised_late")
    /\ UNCHANGED <<stores, run, seen, result, gate, receipt, disturbed>>

Crash(c) ==
    /\ pc[c] \notin {"idle", "returned", "crashed"} \cup Raised
    /\ Goto(c, "crashed")
    /\ UNCHANGED <<stores, run, seen, result, gate, receipt, disturbed>>

\* Another process moves a run along.
OtherWriter(r, to) ==
    /\ path[r] # <<>>
    /\ Len(path[r]) < MaxPath
    /\ to \in LegalTransitions(Current(r))
    /\ path' = [path EXCEPT ![r] = Append(@, to)]
    /\ disturbed' = disturbed \cup {r}
    /\ UNCHANGED <<stopReason, launched, raw, journal, evidence, pc, run, seen, result, gate, receipt>>

Next ==
    \/ \E c \in Call :
          \/ \E r \in Run : Create(c, r)
          \/ ReadVersion(c) \/ Move(c) \/ MoveRaises(c)
          \/ \E res \in Result : Launch(c, res)
          \/ LaunchRaises(c) \/ FailRun(c) \/ RetryRead(c)
          \/ PutRaw(c) \/ AppendJournal(c) \/ SaveEvidence(c)
          \/ \E check \in BOOLEAN : Assess(c, check)
          \/ LateStageRaises(c)
          \/ Crash(c)
    \/ \E r \in Run, to \in LaneState : OtherWriter(r, to)

Spec == Init /\ [][Next]_vars

-----------------------------------------------------------------------------
\* Types of the stores and of what a call holds.
TypeOK ==
    /\ path \in [Run -> Seq(LaneState)]
    /\ stopReason \in [Run -> BOOLEAN]
    /\ launched \in [Run -> Nat]
    /\ raw \subseteq Bytes
    /\ journal \in [Run -> Seq(Bytes)]
    /\ evidence \in [Bytes -> Run \cup {None}]
    /\ pc \in [Call -> Moving \cup Raised \cup
                       {"idle", "launch", "fail", "fail_gate", "retry", "retry_gate", "raw",
                        "journal", "evidence", "assess", "returned", "crashed"}]
    /\ run \in [Call -> Run \cup {None}]
    /\ seen \in [Call -> Nat \cup {None}]
    /\ result \in [Call -> Result \cup {None}]
    /\ gate \in [Call -> Gate \cup {None}]
    /\ receipt \in [Call -> Run \cup {None}]
    /\ disturbed \subseteq Run

Terminated(r) == path[r] # <<>> /\ Current(r) \in Terminal

\* "A real harness run leaves six record kinds behind": when execute returns, its
\* bytes are in the raw store, in the journal of its own run and under a receipt,
\* and the run is terminal, whoever else wrote to the stores meanwhile; and "never
\* from a raw exit code alone": behind review_gate only with a worker that exited
\* with 0 and wrote something.
ReturnedIsComplete ==
    \A c \in Call : pc[c] = "returned" =>
        /\ Terminated(run[c])
        /\ result[c].bytes \in raw
        /\ \E i \in DOMAIN journal[run[c]] : journal[run[c]][i] = result[c].bytes
        /\ evidence[result[c].bytes] = receipt[c]
        /\ path[run[c]][Len(path[run[c]]) - 1] = "review_gate" =>
              result[c].exited /\ result[c].zero /\ result[c].bytes # Empty

\* "If any step raises, the run is marked failed", as far as it goes: a run whose
\* call returned, or failed to launch its worker, is terminal unless another writer or
\* a busy store came in between, and without those neither the walk nor the gate
\* raises.  The steps between the launch and the gate do not keep the promise: a call
\* that raised there leaves its run in verify, without a stop reason.  The stop reason of
\* a terminal run tells whether it passed (none with PASS, one with any other end).
NoDanglingRun ==
    \A c \in Call :
        run[c] # None /\ run[c] \notin disturbed /\ pc[c] # "conflict" =>
            /\ pc[c] \in {"returned", "raised_launch"} => Terminated(run[c])
            /\ pc[c] \notin {"raised_walk", "raised_gate"}
            /\ pc[c] = "raised_late" =>
                  Current(run[c]) = "verify" /\ ~stopReason[run[c]]
            /\ Terminated(run[c]) => (stopReason[run[c]] <=> gate[c] # "pass")

\* At most one worker is started and at most one artifact is recorded under a
\* run_id, however often and by how many processes execute is called with it.
OneWorkerPerRun == \A r \in Run : launched[r] <= 1 /\ Len(journal[r]) <= launched[r]

\* "identical bytes share one canonical receipt", over all runs: the receipt a
\* call gets may name another run, but only one whose own worker wrote the same
\* bytes; and a receipt that was handed out stays the one that is stored.
ReceiptsAreShared ==
    \A c \in Call : receipt[c] # None =>
        /\ evidence[result[c].bytes] = receipt[c]
        /\ \E d \in Call : run[d] = receipt[c] /\ result[d] # None
                           /\ result[d].bytes = result[c].bytes

-----------------------------------------------------------------------------
\* The run table as RunStore promises it to its callers; execute attaches no event
\* to a transition.
History == INSTANCE RunHistory
           WITH StartState <- {"preflight"}, published <- [r \in Run |-> <<>>]

\* "route through the lane's legal gate state": whatever fails, and whoever moves the
\* runs meanwhile, every transition that execute and _fail_run ask for is a legal one
\* from where the run is, so that the run table stays the history RunStore implements.
KeepsHistory == History!Spec
=============================================================================
