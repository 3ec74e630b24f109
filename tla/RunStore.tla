------------------------------ MODULE RunStore ------------------------------
(***************************************************************************)
(* The run table (runtime/store.py): compare-and-swap transitions with     *)
(* their transitions_log row and outbox event, the bootstrap insert, the   *)
(* versioned overwrite and the migration of legacy states on open.         *)
(*                                                                         *)
(* Writers are processes with a connection each to one SQLite file.  A     *)
(* transition reads and validates the run first and takes the write lock   *)
(* afterwards; `pending' is what it carries across that gap.  The          *)
(* authority guard refuses some roles but lets a call without a role pass, *)
(* so it takes no behaviour away and is left out here.                     *)
(***************************************************************************)
EXTENDS Naturals, Sequences, RunStates

CONSTANTS
    Run, Writer,
    LegacyRun,     \* runs an older release left behind
    MaxVersion,    \* versions stop growing here (a bound of the model)
    NoRun, None

ASSUME LegacyRunAssumption == LegacyRun \subseteq Run
ASSUME MaxVersionAssumption == MaxVersion \in Nat \ {0}
ASSUME NoRunAssumption ==
    NoRun \notin [state : State \cup Legacy, version : Nat, ended : BOOLEAN]
ASSUME NoneAssumption ==
    /\ None \notin Legacy
    /\ None \notin [run : Run, state : State \cup Legacy, version : Nat, ended : BOOLEAN]
    /\ None \notin [run : Run, from : State, to : State, version : Nat,
                    ended : BOOLEAN, event : BOOLEAN]

VARIABLES
    overwriters,    \* the writers that also call save_run with version >= 2 (fixed)
    runs,       \* runs[r]: the row of the runs table
    log,        \* log[r]: r's rows of transitions_log, in order of id
    outbox,     \* outbox[r]: the version of the transition behind each of r's outbox rows
    phase,      \* phase[w]: where w is in opening the store
    found,      \* found[w][r]: the legacy state w's migration read for r, or None
    snapshot,   \* snapshot[w]: the record w read last
    pending     \* pending[w]: the validated transition w is about to commit

vars == <<overwriters, runs, log, outbox, phase, found, snapshot, pending>>

Version == Nat \ {0}
Record == [state : State \cup Legacy, version : Version, ended : BOOLEAN]
Entry == [from : State, to : State, version : Version, event : BOOLEAN]
Snapshot == [run : Run, state : State \cup Legacy, version : Version, ended : BOOLEAN]
Transition == [run : Run, from : State, to : State, version : Version,
               ended : BOOLEAN, event : BOOLEAN]

StartState == {"preflight", "sandbox_preflight"}

Exists(r) == runs[r] # NoRun

Init ==
    /\ overwriters \in SUBSET Writer
    /\ \E old \in [LegacyRun -> Legacy] :
         runs = [r \in Run |-> IF r \in LegacyRun
                               THEN [state |-> old[r], version |-> 1, ended |-> FALSE]
                               ELSE NoRun]
    /\ log = [r \in Run |-> <<>>]
    /\ outbox = [r \in Run |-> <<>>]
    /\ phase = [w \in Writer |-> "closed"]
    /\ found = [w \in Writer |-> [r \in Run |-> None]]
    /\ snapshot = [w \in Writer |-> None]
    /\ pending = [w \in Writer |-> None]

(***************************************************************************)
(* _migrate_legacy_states, called once per open: a SELECT, then one UPDATE *)
(* per legacy row in a transaction of its own, keyed by run_id alone and   *)
(* leaving the version as it is.                                           *)
(***************************************************************************)
MigrateScan(w) ==
    /\ phase[w] = "closed"
    /\ found' = [found EXCEPT ![w] =
                   [r \in Run |-> IF Exists(r) /\ runs[r].state \in Legacy
                                  THEN runs[r].state ELSE None]]
    /\ phase' = [phase EXCEPT ![w] = "migrating"]
    /\ UNCHANGED <<runs, log, outbox, snapshot, pending>>

MigrateWrite(w) ==
    /\ phase[w] = "migrating"
    /\ runs' = [r \in Run |-> IF found[w][r] # None
                              THEN [runs[r] EXCEPT !.state = LegacyAlias[found[w][r]]]
                              ELSE runs[r]]
    /\ found' = [found EXCEPT ![w] = [r \in Run |-> None]]
    /\ phase' = [phase EXCEPT ![w] = "open"]
    /\ UNCHANGED <<log, outbox, snapshot, pending>>

(***************************************************************************)
(* save_run with version 1, from create_run of the store ("preflight") and *)
(* of RunStateMachine ("sandbox_preflight"): the primary key lets one      *)
(* insert through.  A caller that loses gets VersionConflictError and      *)
(* nothing changes.                                                        *)
(***************************************************************************)
CreateRun(w, r, state) ==
    /\ phase[w] = "open"
    /\ ~Exists(r)
    /\ runs' = [runs EXCEPT ![r] = [state |-> state, version |-> 1, ended |-> FALSE]]
    /\ UNCHANGED <<log, outbox, phase, found, snapshot, pending>>

\* get_run, also the last call of every transition: what it returns may
\* already be the work of another writer.
GetRun(w, r) ==
    /\ phase[w] = "open"
    /\ pending[w] = None
    /\ Exists(r)
    /\ snapshot' = [snapshot EXCEPT ![w] =
                      [run |-> r, state |-> runs[r].state,
                       version |-> runs[r].version, ended |-> runs[r].ended]]
    /\ UNCHANGED <<runs, log, outbox, phase, found, pending>>

(***************************************************************************)
(* _transition_impl, up to BEGIN IMMEDIATE: the version, the state and the *)
(* legality are judged on a row read outside the transaction.  The caller  *)
(* passes the version and state of the record it read last.                *)
(***************************************************************************)
BeginTransition(w, target, event) ==
    /\ phase[w] = "open"
    /\ pending[w] = None
    /\ snapshot[w] # None
    /\ LET r == snapshot[w].run
           existing == runs[r]
       IN /\ existing.version = snapshot[w].version
          /\ existing.state = snapshot[w].state
          /\ existing.state \in State
          /\ target \in LegalTransitions(existing.state)
          /\ existing.version < MaxVersion
          /\ pending' = [pending EXCEPT ![w] =
                [run |-> r, from |-> existing.state, to |-> target,
                 version |-> existing.version,
                 ended |-> existing.ended \/ target \in Terminal,
                 event |-> event]]
    /\ UNCHANGED <<runs, log, outbox, phase, found, snapshot>>

Current(t) == runs[t.run].version = t.version

\* The effect of a commit, with the transaction's guard left to the caller.
Apply(w) ==
    /\ LET t == pending[w] IN
         /\ runs' = [runs EXCEPT ![t.run] =
                       [state |-> t.to, version |-> t.version + 1, ended |-> t.ended]]
         /\ log' = [log EXCEPT ![t.run] =
                      Append(@, [from |-> t.from, to |-> t.to,
                                 version |-> t.version + 1, event |-> t.event])]
         /\ outbox' = [outbox EXCEPT ![t.run] =
                         IF t.event THEN Append(@, t.version + 1) ELSE @]
    /\ pending' = [pending EXCEPT ![w] = None]
    /\ snapshot' = [snapshot EXCEPT ![w] = None]
    /\ UNCHANGED <<phase, found>>

\* Mutant: the check made outside the transaction is trusted.
CommitUnguarded(w) == pending[w] # None /\ Apply(w)

\* UPDATE ... WHERE version = expected, the log row and the outbox row, in one
\* transaction; rowcount 0 rolls everything back (VersionConflictError).
Commit(w) ==
    /\ pending[w] # None
    /\ Current(pending[w])
    /\ Apply(w)

\* Mutant: the outbox row is written before the transaction and survives it.
AbortKeepsEvent(w) ==
    /\ pending[w] # None
    /\ pending' = [pending EXCEPT ![w] = None]
    /\ outbox' = [outbox EXCEPT ![pending[w].run] =
                    IF pending[w].event THEN Append(@, pending[w].version + 1) ELSE @]
    /\ UNCHANGED <<runs, log, phase, found, snapshot>>

\* A conflict, or the busy timeout of the write lock: nothing is written.
Abort(w) ==
    /\ pending[w] # None
    /\ pending' = [pending EXCEPT ![w] = None]
    /\ UNCHANGED <<runs, log, outbox, phase, found, snapshot>>

\* Mutant: the overwrite keeps the version it was guarded by.
OverwriteKeepsVersion(w, state) ==
    /\ w \in overwriters
    /\ phase[w] = "open"
    /\ pending[w] = None
    /\ snapshot[w] # None
    /\ snapshot[w].version >= 2
    /\ Current(snapshot[w])
    /\ runs' = [runs EXCEPT ![snapshot[w].run].state = state]
    /\ UNCHANGED <<log, outbox, phase, found, snapshot, pending>>

(***************************************************************************)
(* save_run with version >= 2: any state, guarded by the version alone,    *)
(* with no log row.                                                        *)
(***************************************************************************)
Overwrite(w, state) ==
    /\ w \in overwriters
    /\ phase[w] = "open"
    /\ pending[w] = None
    /\ snapshot[w] # None
    /\ snapshot[w].version \in 2..(MaxVersion - 1)
    /\ Current(snapshot[w])
    /\ LET r == snapshot[w].run
           new == [state |-> state, version |-> snapshot[w].version + 1,
                   ended |-> snapshot[w].ended]
       IN /\ runs' = [runs EXCEPT ![r] = new]
          /\ snapshot' = [snapshot EXCEPT ![w] =
                            [run |-> r, state |-> state, version |-> new.version,
                             ended |-> new.ended]]
    /\ UNCHANGED <<log, outbox, phase, found, pending>>

\* The process dies; SQLite rolls back what it had not committed.
Crash(w) ==
    /\ phase' = [phase EXCEPT ![w] = "closed"]
    /\ found' = [found EXCEPT ![w] = [r \in Run |-> None]]
    /\ snapshot' = [snapshot EXCEPT ![w] = None]
    /\ pending' = [pending EXCEPT ![w] = None]
    /\ UNCHANGED <<runs, log, outbox>>

Next ==
    /\ UNCHANGED overwriters
    /\ \E w \in Writer :
          \/ MigrateScan(w)
          \/ MigrateWrite(w)
          \/ \E r \in Run, state \in StartState : CreateRun(w, r, state)
          \/ \E r \in Run : GetRun(w, r)
          \/ \E target \in State, event \in BOOLEAN : BeginTransition(w, target, event)
          \/ Commit(w)
          \/ Abort(w)
          \/ \E state \in State : Overwrite(w, state)
          \/ Crash(w)

Spec == Init /\ [][Next]_vars

-----------------------------------------------------------------------------
\* Types of the tables and of what a writer carries between its steps.
TypeOK ==
    /\ overwriters \subseteq Writer
    /\ runs \in [Run -> Record \cup {NoRun}]
    /\ log \in [Run -> Seq(Entry)]
    /\ outbox \in [Run -> Seq(Version)]
    /\ phase \in [Writer -> {"closed", "migrating", "open"}]
    /\ found \in [Writer -> [Run -> Legacy \cup {None}]]
    /\ snapshot \in [Writer -> Snapshot \cup {None}]
    /\ pending \in [Writer -> Transition \cup {None}]

\* What makes the guard on the version enough: as long as the version is the one
\* a writer read, so is the whole record it read.  A writer that validated a
\* transition outside the transaction commits it from the state it validated.
VersionNamesState ==
    LegacyRun = {} =>
    /\ \A w \in Writer : snapshot[w] # None /\ Current(snapshot[w]) =>
         /\ runs[snapshot[w].run].state = snapshot[w].state
         /\ runs[snapshot[w].run].ended = snapshot[w].ended
    /\ \A w \in Writer : pending[w] # None /\ Current(pending[w]) =>
         runs[pending[w].run].state = pending[w].from

\* transitions_log tells the truth whoever else writes: every row is a legal
\* transition, and no version is claimed twice or ahead of the run.
LogLegal ==
    \A r \in Run : \A i \in DOMAIN log[r] :
        /\ log[r][i].to \in LegalTransitions(log[r][i].from)
        /\ log[r][i].version <= runs[r].version
        /\ i > 1 => log[r][i - 1].version < log[r][i].version

\* Where transitions are the only writers, the log is the run's whole history:
\* one row per version, each starting where the one before ended, the last one
\* ending in the state of the run, which has ended_at exactly when terminal.
LogComplete ==
    (overwriters = {} /\ LegacyRun = {}) =>
    \A r \in Run : Exists(r) =>
        /\ runs[r].version = Len(log[r]) + 1
        /\ \A i \in DOMAIN log[r] : log[r][i].version = i + 1
        /\ \A i \in DOMAIN log[r] : i > 1 => log[r][i].from = log[r][i - 1].to
        /\ log[r] # <<>> => log[r][Len(log[r])].to = runs[r].state
        /\ runs[r].ended <=> runs[r].state \in Terminal

\* transition_with_event: "state and event never diverge".  The outbox of a run
\* is the log of its transitions that carry an event, in order, none missing,
\* none twice and none of a transition that lost the race.
OutboxMatchesLog ==
    \A r \in Run :
        /\ {outbox[r][i] : i \in DOMAIN outbox[r]} =
               {log[r][i].version : i \in {j \in DOMAIN log[r] : log[r][j].event}}
        /\ \A i \in DOMAIN outbox[r] : i > 1 => outbox[r][i - 1] < outbox[r][i]

\* A change of a run is visible in its version, one step at a time: the premise
\* of every compare-and-swap on it.
EveryChangeBumpsVersion ==
    [][LegacyRun = {} =>
       \A r \in Run : Exists(r) /\ runs'[r] # runs[r] =>
           runs'[r] # NoRun /\ runs'[r].version = runs[r].version + 1]_vars

\* A run that reached a terminal state stays as it is, although writers that
\* read it earlier still hold validated transitions.
TerminalIsFinal ==
    [][(overwriters = {} /\ LegacyRun = {}) =>
       \A r \in Run : Exists(r) /\ runs[r].state \in Terminal => runs'[r] = runs[r]]_vars

\* Seen through transitions_log, the store is RunHistory: the path of a run is
\* where its first row starts and where each row ends.
PathOf(r) ==
    IF ~Exists(r) THEN <<>>
    ELSE [i \in 1..(Len(log[r]) + 1) |->
            IF i > 1 THEN log[r][i - 1].to
            ELSE IF log[r] = <<>> THEN runs[r].state ELSE log[r][1].from]

History == INSTANCE RunHistory
           WITH path <- [r \in Run |-> IF overwriters = {} THEN PathOf(r) ELSE <<>>],
                published <- [r \in Run |-> IF overwriters = {} THEN outbox[r] ELSE <<>>]

\* Racing writers, crashes and aborted transactions are invisible in the tables:
\* they show one legal path per run, and every event with its transition (for
\* writers that use transitions only, on runs that need no migration).
ImplementsHistory == History!Spec

-----------------------------------------------------------------------------
\* _migrate_legacy_states: "Runs already on canonical values are left
\* untouched", also by an open that is still at its migration.
MigrationSparesCanonical ==
    [][\A w \in Writer : MigrateWrite(w) =>
         \A r \in Run : Exists(r) /\ runs[r].state \in State => runs'[r] = runs[r]]_vars
=============================================================================
