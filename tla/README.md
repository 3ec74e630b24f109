# Verification of skillweave

TLA+ models of the parts of skillweave whose correctness depends on the order in
which things happen: the SQLite tables that several coordinator processes share,
the event journal, the root cursor, the runs and the processes that execute them,
the files of asynchronous runs, the fan-out of workers with its timeouts and
threads, the waves of the dispatch, and the two removals of workspaces that must
survive being killed. TLC checks each model on small instances; TLAPS proves
every safety property of all of them for every value of the constants.

Paths below are relative to the repository's Python package,
`src/skillweave/`. `PROJECT.json` maps every definition to its source lines.

Contents: 1 the system, 2 the modules, 3 the runs, 4 the disagreements found,
5 bounds and fairness, 6 the proofs, 7 what is left out, 8 the plan, 9 how to run.

## 1. The system

skillweave drives agents through *runs*. A run has a state in a SQLite file, a
journal of events, evidence and receipts; it works in a git worktree on a
declared *write scope*; several runs, each with a coordinator process, share the
same file and the same repository. An operator dispatches *waves* of lanes, each a
worker process in a worktree of its own. Nothing in the design is a server: every
guarantee is made by what the processes do to shared files, and any of them may
die at any point.

### Components with protocol

| component | state it keeps | operations | how it interacts |
|---|---|---|---|
| **run store** (`runtime/store.py`) | tables `runs`, `transitions_log`, `outbox`, `evidence` (and `checkpoints`, `handoffs`) | create, get, transition with event, `save_run` overwrite, save evidence, migration on open | one connection per process; the run service and whoever holds the file write through it |
| **write-scope claims** (`runtime/write_scope.py`, `runtime/store.py`) | table `write_scope_claims` with leases | claim, heartbeat, take over, release, orphan sweep | coordinators of different runs; the scheduler reads the held rows |
| **event journal** (`runtime/journal.py`) | tables `events`, `dispatch_log` | append, append and dispatch, get, `get_undispatched` | dispatchers are callbacks of the caller and run inside the open transaction |
| **coordinator** (`coordinator/coordinator.py`) | table `root_dag_cursor` | load, `ensure_root`, advance | any process with the ops role |
| **DAG scheduler** (`runtime/dagscheduler.py`) | none between calls | `build_batches`, `build_lanes`, `build_schedule`, `build_sessions` | reads gates of earlier runs and held claims; its sessions are lanes to be dispatched |
| **run service** (`runsvc/service.py`) | none of its own | `execute`: five states, six stages | launches a worker and drives run store, journal, evidence, verifier |
| **async run lifecycle** (`runlifecycle/`) | `run.json`, `events.jsonl` per run | start, follow, kill, list | launcher, detached wrapper, killers and followers touch the same files without a lock |
| **operator dispatch** (`dispatch/application.py`) | worktrees it made, receipt log of the wave | one wave: provision, launch in groups, correct, release | observer process, workspace provider, one fan-out per group |
| **fan-out, process runner** (`fanout/`, `runtime/runner_adapter.py`) | child processes | launch all, reap in order, time out, kill the group | callbacks of the dispatch and the evidence store, which may raise |
| **live event stream** (`dispatch/events.py`) | one locked stream, heartbeat threads | emit, start and stop a thread | written by the dispatching thread and the heartbeat threads |
| **workspace provider** (`workspace/`) | git worktrees and branches | acquire, release | git commands that may fail one by one |
| **workspace cleanup** (`repo_health/worktrees.py`) | a ledger of receipts | inventory, authorized cleanup | looks at workspaces others work in, calls a *remover* |
| **closeout transaction** (`closeout_transaction.py`) | a JSON-lines journal, the workspaces on disk, a receipt | run, resume | calls a *remover* that deletes a worktree and may raise |

All of these are modelled, the greater part completely. The remaining components
(policies, routing, parsing, reports, front ends, the handshake of the planning
tickets, the promptchain) decide from values handed in or keep state for one process
only; `PROJECT.json` lists each with the reason why it is not modelled.

### Which behaviours are hard, and what makes each component correct

* **Read, then lock, then write.** Transitions, claims, appends, `ensure_root` and
  `advance` all read or look at the clock *before* `BEGIN IMMEDIATE` waits for the
  write lock. Whatever was read may be stale when it is used. Correct means: the
  guard inside the transaction is strong enough (runs), or the test is repeated
  there (claims), or a unique index settles it (journal), or only one process
  does it (coordinator).
* **Files without a lock.** `run.json` is replaced by a rename in two programs and
  rewritten in place by a third; `events.jsonl` is numbered by whoever appends.
  Correct means that the record never says more than happened, and that a follower
  learns of the end.
* **Leases against a clock.** A claim must keep others out while it is live, and
  let them in soon after its holder died.
* **Crashes between steps.** State, log row and outbox event appear together;
  an event is not lost between its append and its dispatch; a removal is never
  done twice and never denied, wherever the process was killed.
* **Callers that retry.** The same key appends one event; the same closeout run
  again finishes what is open and leaves alone what is decided; a lane is run again
  as often as its policy allows, and given up no earlier.
* **Open transactions.** A statement that fails in Python's `sqlite3` leaves its
  transaction open, and with it perhaps the write lock of the file.
* **Processes and threads.** A worker may ignore SIGTERM, leave descendants behind that
  hold its pipes, or end just as its timeout fires; a heartbeat thread may wake at any
  moment. Correct means that what was started is waited for, that a lane is silent
  after its end, and that the dispatch returns.
* **One step of several failing.** An observer, a sink, an evidence store, a git
  command may raise in the middle: what was begun before must still be brought to
  its end (children reaped, threads stopped, worktrees released).
* **Orders computed, not observed.** A schedule is right if every dependency runs
  earlier, lanes that run together cannot touch the same files, no task is lost,
  and what is blocked is exactly what a failed gate stands before.

`PROJECT.json` lists these as hazards, each at its line, with the properties that
would break.

## 2. The modules

```
ScopePaths            resolution and overlap of scopes
   |-- WriteScope     claims with leases            -- WriteScope_proofs
   `-- DagScheduler   build_schedule                -- DagScheduler_proofs
RunStates             the state table
   |-- RunHistory     (abstract) one legal path per run
   |-- RunStore       the run table, implements RunHistory     -- RunStore_proofs
   `-- RunService     execute over the stores, keeps RunHistory -- RunService_proofs
Journal               events and their dispatch   \ JournalAndCoordinator_proofs
Coordinator           the root cursor             /
RunLifecycle          an asynchronous run           -- RunLifecycle_proofs
LaunchGroup           (abstract) what a wave asks of a group
FanOut                worker processes, reaped in order
   `-- DispatchGroup  lanes, stream, heartbeats over FanOut,  \
                      implements LaunchGroup                   GroupAndWave_proofs
DispatchWave          groups, corrections, worktrees          /
CloseoutTransaction   removal of workspaces             \ CloseoutAndCleanup_proofs
WorkspaceCleanup      authorized removal with a ledger  /
MC*                   constants of the instances TLC checks
```

Where one proof module is about two components, the second one's general names
carry its own (`CoordinatorInit`, `GroupSpec`, `CleanupTypeOK`), so that both can be
extended together.

Every module has one action per operation, or per step of an operation where
another process can come between, and next to a definition the *mutants* of it:
plausible wrong versions (a dropped guard, a value computed in the wrong place),
each of which violates the property it was written for.

Three compositions tie them together. RunHistory stands between RunStore and
RunService: the store is proved to implement it for all who use transitions, and the
service, which takes a run as such a path, is proved to ask for nothing that leaves it.
DispatchGroup extends FanOut by what the callbacks of the fan-out do. LaunchGroup stands
between DispatchGroup and DispatchWave: the group is proved to implement it, and it is
what the wave counts on when it takes a whole group as one step (`EndGroup`: no worker
is alive or has its pipes held and all who ran are judged; `GroupRaises`: workers may be
alive).

### ScopePaths

A raw scope is the sequence of its components between the slashes, so an absolute one
begins with `Empty`. `ResolveScopePath` removes `**` wherever it stands and keeps the
slashes beside it, as `replace` does: what begins with none is below the working
directory (`Cwd`), what begins with one is absolute, also behind a leading `**/`, and
what begins with two stays apart from it (`DoubleSlashed`: `abspath` keeps two leading
slashes and folds three). Then `.` goes and `..` removes the component before it, from the
root nothing. `PathsOverlap` is the ancestor test of `paths_overlap`; comparing
components is what the source's test with the separator appended does.

### WriteScope

`claims` is the table, `now` the wall clock, `stamp[r]` the clock value that
coordinator `r` has read for its next operation: `ReadClock` is a step of its own,
so any number of ticks and of others' operations may come before the step that
uses it. `handles[r]` are the claim ids a coordinator goes on heart-beating, in
its memory only. The two halves of the orphan sweep (`OrphanScan`, `OrphanRelease`)
are apart because the source's SELECT and UPDATE are. `Restart` is a coordinator
that crashes and lists the claims of its run anew. `revived` is history: the claims
that were re-armed, by a heartbeat or a takeover, after they had stopped being live.

### RunStates, RunStore, RunHistory

`runs`, `log` and `outbox` are the tables. A writer opens the store (`MigrateScan`,
`MigrateWrite`), reads (`GetRun`), judges a transition on a row it reads outside the
transaction (`BeginTransition`, which leaves what it carries in `pending`), and
commits or rolls back (`Commit`, `Abort`); `Overwrite` is `save_run` on an existing
run and `Crash` forgets everything not committed. Only versions, states and whether
`ended_at` is set are kept of a row. `overwriters`, fixed by `Init` in all ways, says
which writers call `save_run` at all. The authority guard on transitions refuses some
roles and lets a call without a role pass, so it takes no behaviour away and is left
out. `RunHistory` is the promise to a reader of the tables: one path of legal states
per run, and an event together with its transition.

### Journal

`Insert` is the write transaction of `append`: the number is the successor of the
run's last, and the unique indices on (run, sequence) and (run, key) refuse a clash,
after which the winner's event is returned. `append_and_dispatch` goes on: `BeginDispatch`
takes the lock again, `RunDispatchers` and `DispatcherRaises` are the callbacks,
`FinishDispatch` commits. `lock` and `open` are the write lock and the connections
inside a transaction: a dispatcher that raises leaves both, as the source does, until
the process closes its connection (`Crash`). `expected_version` is compared with a
count read outside any transaction; it refuses calls and protects nothing, so it is
left out.

### Coordinator

`cursor` is the row, `seen[a]` the copy an actor last loaded, `pending[a]` what it
carries from its SELECT to its INSERT (`InsertRoot`) or UPDATE (`CommitAdvance`), and
`stage[a]` which of the two it is about to make. `holder` and `begun` are the write lock
and the connections inside a transaction, as in Journal. `WriteFails` is the busy timeout,
which leaves the connection in its transaction. The commit of an advance and its return
(`ReturnAdvance`) are two steps, between which the actor may crash. `ops` are the actors
with the mutating role; `advances` is the history of the advances that were committed, each
with what became of its answer: due, given, or lost in a crash.

### RunService

`execute`, one step for each statement that reads or writes a store: `Create`, the
five transitions of `Walk` (`ReadVersion`, then `Move`), `Launch`, `PutRaw`,
`AppendJournal`, `SaveEvidence`, the gate (`Assess`), and the transition to the
end. `Leg` and `Walk` are the transitions in order; `path[r]` is the path of states
RunStore proves a run to have, and a transition succeeds if the state and the
version are the expected ones. Every stage may raise; only the early ones are caught
(`OnRaise`, `FailRun`), and `FailRun` itself may lose its transition and swallow that.
`OtherWriter` moves any run, `Crash` ends a call anywhere. Evidence is one table for
all runs, keyed by the digest, here the bytes. `disturbed` and `launched` are
history.

### RunLifecycle

`record` is `run.json`, `tmp` the temporary file that launcher and killers share by
name, `events` is `events.jsonl`. The launcher starts the wrapper (`Popen`) and only
then writes the record (`RecordRun`); the wrapper rewrites it in place (`OpenRecord`
truncates, `WriteRecord` writes; in between it is `Torn`); a killer verifies,
signals, waits, forces, reads (`ReadForUpdate`), opens the shared temporary file,
writes, renames, numbers its event after the latest it reads (`TakeNumber`) and
appends it. `Replace` renames whatever the name stands for: the file another killer has
opened goes along, and is written to under its new name (`Renamed`). A follower reads
what is above its last number, then the record, and drains the log once more.
Launcher and killers may die anywhere.

### FanOut, DispatchGroup

A child is a process group: a `leader`, and perhaps a `tail`, a descendant that was given
the leader's pipes and may close or redirect them (`TailLetsGo`); either may ignore SIGTERM,
and the tail may have left the group, where no signal reaches it. `seam` tells the two ways of running
it: `inline` for a single lane, `fan_out` for a group. All children are launched, then
each in launch order is watched and collected, or timed out (`TimesOut` sends SIGTERM to
its group, `Kill` sends SIGKILL if the leader outlives the grace time, `GraceEnds`
sends none if it does not, `Drain` reads the pipes to their end), and its evidence stored.
`phase` and `turn` say where the dispatching thread is, and `failed` keeps an observer's
exception for later.

DispatchGroup is `_fanout_group` and `_run_lane` around it: the preflight of each lane,
the heartbeat thread that `NotifyStarted` starts and `NotifyEnded` stops and joins
(`SignalPump`, `JoinPump`), the terminal events that are told when all
is collected, and the stream with its lock. A sink may refuse any line. An event carries
the lane it is named for and the lane whose dispatch id it has, because the source
takes the second from a list made before the preflight.

`Workers`, `Tidings` and `Call` are the group as the wave sees it: a lane has a worker
as long as its leader lives or its tail has the pipes, it is told of when its
`lane_terminal` event is in the stream, and the call is open, returned or raised. With them
the group is a **LaunchGroup**: a lane has at most one worker and one verdict, *done* only if
there was nothing to run or the worker ended well; the call returns only when all who were
started have ended and been told of. Of a descendant that has let go of the pipes nothing is
promised: nobody waits for it, and it may outlive the call (section 4). A call that raises
promises only that nobody is started and nothing told behind it, as workers may still be at
work.

### DispatchWave

One `dispatch()` call: `ObserverStarts` or `ObserverMissing`; `Provision`, with
`AcquireFails` before or behind `git worktree add` and `BaseDiffers`; the groups that
`Pare` cuts the lanes into; `StartGroup` and `EndGroup` (or `GroupRaises`, which
may leave workers alive); then `Abort`, `Correct` or `Settle` by the policy; `Observe`;
and on every way out `ReleaseTree` lane by lane. `log[l]` is the outcomes of the runs of
a lane, which is all `_reconcile_failed` reads. All waves of the bounded size are initial
states, with every policy, budget, set of in-place lanes and set of lanes that fail
their preflight.

### CloseoutTransaction

Only the last record of an identity is ever used, so the journal file is `durable`,
the last terminated record of each identity, and `tail`, what follows the last line
end: nothing, a partial record, or a whole record without its end. `CrashTearing` leaves
a tail; the next append continues that line and makes it unreadable, itself included.
One identity after another goes from `Plan` over MUTATING to the remover, which
succeeds, refuses, or raises after it may or may not have removed the workspace;
`Crash` may strike anywhere, the remover included; `StartRun` begins another run with
any set of authorizations; `LoseRecords` is a journal that lost records, `Vanish` a
workspace that somebody else removed. `attempted`, `landed`, `doubtful`, `lost` and
`settles` are history that the properties compare receipts with.

### WorkspaceCleanup

`world[i]` is what is true of a workspace, a record of the signals the inventory
reads. A cleanup takes its inventory row by row (`Inventory`, with the signals that
cannot be read), then treats one authorization after the other: skip what the ledger
says is removed, refuse, or call the remover, which removes, does nothing, or raises
before or after. `Removable` is the list of refusals together with the classification of
the row, translated in the order of the source. The ledger is its whole lines that
say *removed* (`whole`) and an `unended` last line, the `tail` of the closeout transaction;
`Start` reads it, or counts it as empty where it cannot. `occupied` is where the process
itself stands: in none of the workspaces, in one it finds itself in (`FindsItselfIn`: its
working directory, or the top of the checkout git names), or in one it does not recognise,
from a repository nested in it or from below its top while git does not answer. `Change` is
somebody who works in a workspace meanwhile, also between the inventory and the removal.
`removals`, `told`, `swallowed`, `unseen`, `changed` and `overlooked` are history.

### DagScheduler

`build_schedule` with the loops it calls, step by step: `Refuse` (malformed input),
`Begin`, `Layer` and `EndLayers` (Kahn's layering with the counts of the source, which
count a dependency named twice twice), `GateBatch` and `EndGates` (judge the gates on
the first layering, layer again without the blocked tasks), then per batch `EmitFanOut`
for the tasks whose scopes conflict with nothing, cut at `max_parallel`, `EmitInline`
for the others in order, `NextBatch`. `input` stands for the arguments and never
changes. `build_sessions` is the case without gates and cap.

## 3. The runs

Distinct states are those of the instances as configured; every run ends by itself.

| run | instance | states | what it shows |
|---|---|---|---|
| `write_scope` | 2 coordinators, 2 claim ids, paths `src`, `src/api`, `docs`, ttl 1, clock up to 2 | 917,515 | *ClashOnlyByRevival*: however old the clock values are, claiming alone never admits two live claims of different runs on overlapping scopes; it takes a claim re-armed after it was dead. *LeaseBounded*: a dead coordinator blocks others for at most one ttl |
| `run_store` | 2 writers, 1 run, versions up to 4, no, one or both writers overwriting | 238,749 | *VersionNamesState*: as long as the version is the one a writer read, so is the record, which is what makes the guard inside the transaction enough. *OutboxMatchesLog* holds whoever writes, *ImplementsHistory* where transitions are the only writers |
| `run_store_migration` | the same, and the run left by an older release | | refutes a comment (section 4) |
| `run_service` | 2 calls, 2 runs, 2 values of bytes, paths up to 7 states | 2,430,667 | *ReturnedIsComplete*: a call that returns has left all its records and a terminal run, whoever interfered, and behind the review gate only with a worker that exited with 0 and wrote something. *NoDanglingRun*: without interference a call that returns, or cannot launch, leaves a terminal run whose stop reason fits its gate, and one that raises behind its worker leaves the run in verify without a stop reason (section 4). *ReceiptsAreShared*: a receipt names another run only if that run's own worker wrote the same bytes. *KeepsHistory*: no call, however it fails, asks for a transition that is not legal where the run is |
| `journal` | 2 processes, 2 runs, 1 key and calls without one, 2 events per run | 93,974 | *KeyHasOneAnswer*: one event per key and one answer for all its callers, although the duplicate check runs before the lock; *SuccessMeansDelivered* over crashes and raising dispatchers; *DispatchersAreAlone*: dispatchers run one process at a time on a journal that stands still, and one that raised keeps it standing |
| `coordinator` | 2 actors, one, both or none of them with the ops role, 2 nodes, 3 advances | 689,837 | *SoleWriterKeepsAll*: what a sole coordinator has committed is in the cursor, once and in order, also where a crash has swallowed the answer; *FieldsAgree* and *NeverStartsOver* hold even of racing ones |
| `closeout` | 2 workspaces, 3 runs, each with any authorizations | 290,770 | *NeverTwice*: no second removal, also when the journal lost records; *ReceiptTellsRemovals* and *DoubtIsKept*: no removal is denied or invented and no doubt turns into a hold; *FinishedRunSettles*: a run that ends has an outcome for all it was given |
| `dag_scheduler` | 3 tasks; four families of inputs | 1,045,222 | *DependenciesRunFirst*, *SessionsAreSafe*, *EveryTaskOnce*, *BlockedExactly* of every schedule; *OverlapIsSharedFile*: scopes that overlap share a file, and scopes that share one overlap unless one of them has two leading slashes |
| `run_lifecycle` | 2 killers, 1 follower | 438,790 | *RecordTellsTruth*: `run.json` never says more than happened. *FollowerHearsEnd*: a follower that returns has printed the end, although events may carry one number twice. *NeverRunsAgain*: a record that is over is not written back. Liveness: *FollowerReturns*: once the command is over, or was never started, a follower comes to an end; *RecordSettles*: and the record to an end state, the cases of section 4 apart |
| `dispatch_group` | groups of 1 and 2 lanes, with and without timeout, workers that obey SIGTERM and that do not, with a descendant that ends by SIGTERM, by SIGKILL to the group, or by none, and that may let go of its pipes, 1 heartbeat per child | 930,016 | *SilentAfterTerminal*: no heartbeat of a lane after its end. *EveryChildReaped*, *NoThreadLeaks*: whatever raises where. *ReturnedHasTold*: every launched lane has told its end once, and its own child's. *KeepsPromise*: the group implements LaunchGroup. Liveness: *GroupEnds* |
| `dispatch_wave` | waves of 1 to 3 lanes on 2 repositories, every policy, budgets 0 to 2 | 24,564,040 | *WorkersAreApart*: two live workers never share a repository, nor exceed `max_parallel`, and have their trees at the declared base. *TreesAreReleased*: what a wave may leave behind, and when. *VerdictTellsLanes*: lanes are run again as often as policy and budget allow, no more and no less, and the verdict fits what they did |
| `workspace_cleanup` | 2 workspaces, 3 cleanups, 1 change by others, 5 conditions, 3 sets of unreadable signals | 9,489,853 | *RemovalSparesWork*: nothing is removed that this cleanup saw at work, dirty, or detached, nor on facts that did not hold when it looked. *LedgerTellsRemovals*: the ledger invents no removal, lacks one only for a crash, an exception of the remover or a torn line, and what it recorded is not attempted again by a cleanup that could read it |

Types are in no run: the type invariant of every module is a theorem (section 6).

The inputs of `dag_scheduler` are all graphs of three tasks, with self-loops, a
dependency named twice and one outside the graph, under all gates (`Graphs`); all
choices of scopes for small graphs, with and without a claim of another run and with
the caps none, 1 and 2 (`Plans`); malformed arguments (`Rejects`); and all pairs of scopes of up to three components over two
names, `**`, `.`, `..` and the empty component, so that scopes begin with no slash, one, two
or three, or with a `**` (`ScopePairs`). `OverlapIsSharedFile`
defines overlap independently of the code: two scopes overlap when a file lies below
both (itself included), the files being all paths of at most `MaxLen` components and two
leading slashes naming the same file as one.

All runs switch deadlock checking off: the programs may stop. Callers may have
nothing more to do, a scheduler, a group and a wave end, and the bounds of section 5
end the rest.

## 4. Disagreements between the code and what it says of itself

One is a run that expects its property to be violated, and a finding in
`PROJECT.json` that quotes the sentence.

* **Migration** (`runtime/store.py:282`, run `run_store_migration`). "Runs already on
  canonical values are left untouched." Two processes open an old file; the slower
  one's UPDATE, keyed by the run alone, sets a run that has been migrated and has moved
  on back to where it started, under its newest version.

The others are behaviours the modules have and the properties are worded around. Each
was found as a counterexample to the stronger wording, and what holds in spite of it
is the property named.

| where | what happens | what holds |
|---|---|---|
| `runtime/store.py:779`, `:747` | "A second claim on an overlapping scope is rejected while the first is held" (`write_scope.py:8`): the takeover of a released or expired row re-arms it without looking at the others, and so does a late heartbeat | *ClashOnlyByRevival* |
| `runtime/store.py:747` | a heartbeat is keyed by the claim id, which a takeover keeps: the previous holder renews the claim of the next and is told that it succeeded | *ClashOnlyByRevival*, *LeaseBounded* |
| `runtime/store.py:855` | the orphan sweep re-checks nothing: a run registered after its SELECT loses its live claim | |
| `coordinator/coordinator.py:243` | "two coordinators therefore cannot both append the same next node": the version is compared in Python and the UPDATE is keyed by the key alone; both return and one node is lost | *FieldsAgree*; *SoleWriterKeepsAll* of one coordinator |
| `coordinator/coordinator.py:190` | the loser of a racing `ensure_root` keeps the write lock of the file in the transaction its IntegrityError leaves open | *NeverStartsOver* |
| `runtime/journal.py:135` | `expected_version` is compared with a count read before the lock: it refuses calls and protects nothing | *KeyHasOneAnswer* |
| `closeout_transaction.py:377` | "Nothing that was deliberately not acted on is absent from the receipt": behind a torn last line the next record is unreadable; if it says that an absent workspace was preserved, the receipt, which reads committed, does not mention it | *ReceiptTellsRemovals*, never hides a removal |
| `runtime/write_scope.py:45` | "a trailing `**` marks a recursive scope and is stripped": every `**` is, and a leading one leaves its slash. `**/a` becomes `/a`; `/**/a` becomes `//a`, which does not overlap `/a`, so two lanes on one directory may be fanned out together | *OverlapIsSharedFile*, *SessionsAreSafe* |
| `repo_health/worktrees.py:829` | "a completed removal stays completed even if its directory reappears": not if its receipt stands behind a torn line, or is the unterminated line another one is appended to, nor for a cleanup that cannot read the ledger (`:1156`), which takes it for empty | *LedgerTellsRemovals* |
| `repo_health/worktrees.py:1198` | "must never remove the worktree it is standing in": it is recognised only as the working directory or as the top of the checkout git names, not from a repository or submodule nested in it, nor from below its top when git does not answer | *RemovalSparesWork* |
| `repo_health/worktrees.py:1437` | an OSError of the remover after the workspace is gone is recorded as already absent: no line of the ledger says who removed it | *LedgerTellsRemovals* |
| `repo_health/worktrees.py:1321` | an unreadable lease, process or session does not stand in the way of a removal, unlike an unreadable tree or head | *RemovalSparesWork* |
| `runlifecycle/handle.py:181` | a command that ends before the launcher has written `run.json` leaves a run that stays running for ever | *RecordSettles*; *FollowerReturns* holds all the same |
| `runlifecycle/store.py:57` | "a concurrent reader never sees a half-written file": the wrapper rewrites `run.json` in place (`handle.py:112`), and a killer may rename the temporary file another one has open; a follower or killer that reads then raises | *FollowerReturns*, *RecordTellsTruth* |
| `runlifecycle/store.py:138` | "killed" overwrites a "succeeded" written meanwhile | *RecordTellsTruth*, *NeverRunsAgain* |
| `runlifecycle/handle.py:394` | the killer's event may have the number of another event ("monotonic sequence numbers") | *FollowerHearsEnd* |
| `runsvc/service.py:22`, `:104` | "If any step raises, the run is marked failed": from the storing of the output on (`:185`) no `try` is left, and the run stays in verify without a stop reason | *NoDanglingRun*, *KeepsHistory* |
| `runtime/runner_adapter.py:209`, `:229`, `:284`, `:420` | "leaving no surviving child": a descendant that has redirected its output is waited for by nobody and outlives the call; one that ignores SIGTERM outlives a timeout, as SIGKILL goes out only while the leader lives (`:237`); one that has left the session is reached by no signal | *KeepsPromise* of workers and holders of their pipes, *EveryChildReaped* |
| `runtime/runner_adapter.py:298` | after a timeout the pipes are read without bound: a descendant that SIGTERM does not end, of a leader that it does, or one that has left the session, keeps the dispatch waiting as long as it has them | *GroupEnds* |
| `dispatch/application.py:735` | the inline seam lets an observer's exception pass and leaves its child running; the fan-out waits for its children | *EveryChildReaped*, *NoThreadLeaks* |
| `dispatch/application.py:2109`, `:2129` | the dispatch ids are listed before the preflight drops lanes: heartbeats go out under the id of another lane, also after its end | *SilentAfterTerminal* |
| `dispatch/application.py:2080` | a lane done in place tells its end when it is alone and none when it is in a group; a fan-out that raises tells none at all | *ReturnedHasTold* |
| `dispatch/application.py:1429` | "abort halts immediately after the first policy-managed failure": the policy is judged once, so a lane that turns typed in a correction round does not halt the wave | *VerdictTellsLanes* |
| `dispatch/application.py:1513` | the first release that fails keeps all the later trees; a tree whose `acquire` failed behind `git worktree add` (`workspace/provider.py:154`) is noted by nobody | *TreesAreReleased* |

## 5. Bounds and fairness

Every unbounded counter has a bound of its own, a constant that appears in a guard:
`MaxTime`, `MaxVersion`, `MaxSequence`, `MaxAdvances`, `MaxRuns` (closeouts),
`MaxCleanups`, `MaxPath`, `MaxBeats`, `MaxChanges`. `MaxGroup` and `MaxChild` (the lanes of
a group and its children, as many), `MaxLane`, `MaxBudget` and `MaxLen` (the components of
a scope; `MaxPair` those of the pairs the instance enumerates) bound the inputs. The
theorems hold for every value of them.

* *WriteScope*: two runs and two claims make every conflict there is between a pair;
  the conflict test looks at one row at a time. With ttl 1 a clock of 2 suffices for
  a claim to be made, to expire, and to be re-armed while a stale clock value from
  before the expiry is still in use. The paths have an ancestor pair and a disjoint one.
* *RunStore*: version 4 gives a run three transitions, enough for a writer to sit on
  a snapshot while another moves the run twice and into a terminal state. Runs do not
  interact: each statement names one run.
* *RunService*: two calls because a run and a receipt are shared by pairs; two runs and
  two values of bytes for equal bytes of different runs. A call makes a path of seven
  states when it succeeds, so another writer may intervene at every point of it.
* *Journal*: two runs because the numbers are per run and the table is shared; two
  events per run to have a successor; a key and no key.
* *Coordinator*: with three advances one of two racing actors can lag two behind the
  other.
* *RunLifecycle*: two killers because they share the temporary file and a record; more
  only repeat it. Followers write nothing, so one stands for all.
* *DispatchGroup*: two lanes are one that is being reaped and one behind it (and a lane
  before it when the first is dropped). One heartbeat is the one that could come too
  late. A worker without a descendant is one whose descendant ends at once, so the four
  kinds of workers are the combinations of leader and descendant that differ in what
  reaches them.
* *DispatchWave*: three lanes on two repositories make a group of two, a lane that must
  wait for its repository and one behind it; budgets up to two let a lane change the
  kind of its failure and still be run again.
* *CloseoutTransaction*, *WorkspaceCleanup*: three runs are one that is killed, one that
  is killed while it resumes, and one that finishes. Two identities, because a torn line
  of one is continued by a record of the other. One change of a workspace by others is the
  one that comes between a row and the removal, or makes a removed workspace reappear;
  two changes before a row are one to another condition. The process stands in one of the
  workspaces it may remove, in each of the three ways, or in none. The five conditions have each
  reason for which a removal is refused or allowed to be wrong: work in the tree, a
  process, an owner with lease and session, a path that is gone; the sets of unreadable
  signals take away each of them.
* *DagScheduler*: three tasks have every shape a dependency, a gate and a conflict can
  make together: a chain, a fork, a join, a circle with a task behind it.

Symmetry is used for runs, claim ids, writers, processes, actors, nodes, calls,
repositories and identities, none of which the modules order or single out. It is not
used where tasks, lanes or children are numbers, as the code takes them in order, nor in
the runs that check liveness.

**Fairness.** It is assumed where the code runs by itself, and nowhere else.

* *RunLifecycle*: weak fairness of each step of the launcher, of the wrapper, of a killer
  and of a follower once it was called. They are processes of their own that the
  operating system schedules, and none of their steps waits for another's. Not
  fair are what nobody has to do: that the command ends (`CommandEnds` is no step of the
  wrapper's, which waits for it without a timeout), that somebody kills or follows,
  that a process dies or a follower's timeout runs out. *FollowerReturns* and
  *RecordSettles* have the end of the command, or the wrapper's with it, as their hypothesis
  (`CommandIsOver`): they say that an end, if there is one, is seen and recorded.
* *DispatchGroup*: weak fairness of the dispatching thread, of every heartbeat thread
  and of the delivery of SIGTERM to those who obey it. The timeout is a step of the
  dispatching thread when one was given. That a worker ends is not assumed: *GroupEnds* is
  what a timeout buys, and separately what the end of all workers buys without one.
* Everywhere else nothing runs by itself: each operation is a call that an agent, an
  operator or a command line makes or does not make, and a killed process is restarted
  by nobody. What could be a liveness property is stated as safety of the moment
  the code does control: a lease never reaches further than a ttl (*LeaseBounded*), a
  closeout run that ends has settled everything (*FinishedRunSettles*), a schedule that is
  done has every task (*EveryTaskOnce*), a wave that returns has run every lane as often
  as it might (*VerdictTellsLanes*).

## 6. The proofs

TLAPS checks 9,828 obligations in eight modules, for every set of runs, processes,
claims, calls, killers, paths, tasks and so on, and every bound. The assumptions are those
in the modules: a bound is a number, a *None* value is not one of the values it stands
beside, lease lengths are at most `MaxTtl`, tasks are numbers and each has finitely many
dependencies, empty output is one of the outputs.

| module | theorems | the inductive invariant, and why the property alone is not enough |
|---|---|---|
| `WriteScope_proofs` | TypeCorrect, RevivalOnly, ExclusionWithoutRevival, LeasesBounded, LiveClaimsKept | types with *a clock value that was read is not in the future*: a row that is live now was live at any earlier reading, so a test against a stale clock sees more claims, never fewer |
| `RunStore_proofs` | TypeCorrect, VersionNamesRecord, ChangesBumpVersion, LogIsLegal, OutboxIsTheLog, TerminalStays, LogIsComplete, StoreImplementsHistory | what a writer carries is about a run that exists and a version it has reached (*Carried*, *FoundExists*), without an old database nothing is legacy (*NothingLegacy*), the log is not ahead of its run (*LogBehind*), so the version of a new row is above all in the log and the outbox. For the refinement: a commit appends to the path a state that is legal after its last (*CommitAdvances*), a creation begins it, all else stutters |
| `JournalAndCoordinator_proofs` | TypeCorrect, NumberedWithoutGaps, CallersShareOneEvent, DispatchedIsDelivered, GrowsAtTheEnd, OneDispatcherAtATime | *IInv*: the properties together, and *Carried*: a process past its dispatchers holds a delivered event. *Guarded*: whoever calls dispatchers has the write lock |
| the same | CursorTypeCorrect, CursorAgrees, RootIsRecordedOnce, SoleCoordinatorLosesNothing | *CursorInv*: each row carried to a write agreed with itself when it was read (*Writes*); for a sole coordinator it still is the cursor (*SoleReadsCursor*), and an advance whose answer is due is that of an actor about to return it |
| `RunService_proofs` | TypeCorrect, OneWorker, SharedReceipts, CompleteWhenReturned, NoRunDangles, ServiceKeepsHistory | *SafeInv*: a run belongs to the call that created it (*Owned*), only its owner launches (*Workers*), and what a call holds at a stage is in the stores (*Stages*, *Shared*, *AtTheEnd*). *NoRunDangles* adds *Straight*: an undisturbed run stands where its owner's next transition starts, so no transition of it can fail. For the history: every leg a call can be at is a legal one (*LegIsLegal*), and it is only taken from where it starts |
| `RunLifecycle_proofs` | TypeCorrect, TheRecordTellsTruth, OverIsOver, TheEndIsHeard | *LifeInv*: whoever carries "killed", in memory, in the temporary file or through an open file, has signalled, and a wrapper that was signalled is gone for good (*SignalsEnd*, *FilesHold*, *Held*). *LogInv*: the order of the wrapper's events and their numbers. *HearInv*: between its steps a follower has heard the end or will find it above its last number |
| `CloseoutAndCleanup_proofs` | TypeCorrect, NoSecondRemoval, ReceiptsTellRemovals, DoubtStays, RunsSettle | *Faithful*: a record says no less than what happened to its identity, wherever it is: durable, in the tail, about to be appended, or read at the start of the run. MUTATING is durable on a line of its own before the remover runs (*Control*), so no torn line takes back that an attempt began |
| the same | CleanupTypeCorrect, RemovalsSpareWork, TheLedgerTells | *CleanupInv*: the rows a cleanup has read have a finding (*Inventoried*), the remover is only reached with a row that was judged removable (*Judged*), every line that says removed is of an identity that was, in the ledger, in its unended line or on its way there (*Written*), what was told and is missing was swallowed or could not be read (*Remembered*), and a workspace is as it was seen until it is removed or others change it (*AsSeen*) |
| `GroupAndWave_proofs` | WaveTypeCorrect, WorkersStayApart, NoTreeIsForgotten, TheVerdictTells | *WaveInv*: groups to come are apart and share no lane (*Grouped*, *Before*), the trees made are those of the lanes up to `made` until the releases go over them (*Trees*), who runs is of the group at hand (*Work*), and which lanes are due in a round, and what ends of their logs the policy lets them have (*Round*, *Runs*, *Verdict*) |
| the same | GroupTypeCorrect, LanesFallSilent, ChildrenAreReaped, LanesAreToldOnce, ThreadsDoNotLeak, GroupKeepsPromise | *GroupInv*: the lanes sorted so far (*Sorting*), where the dispatching thread may be among them (*Place*), which children are collected (*Reaping*), that only the child waited for has a heartbeat thread that can beat, and none behind its end (*Pumping*), and that the stream's terminal events are those of the lanes told (*Streaming*). For the refinement each step is one of LaunchGroup or a stutter, action by action on `Workers`, `Tidings` and `Call` |
| `DagScheduler_proofs` | TypeCorrect, DependenciesFirst, SafeSessions, NothingLost, BlockedAreBehindGates, CyclesAreNamed, OverlapIsCommonFile | the count of a task is the number of its dependencies that are not scheduled (*Counted*), layers respect dependencies (*Layered*), a task is blocked as far as the gates have been judged exactly if it waits for a blocked or failing one (*Gated*), the plan takes the layers in order (*PlanInOrder*). *OverlapIsCommonFile* is about a fold over paths of any length: the library's fold is unfolded to the recursive function it is and followed component by component (*CountUp*, *Resolving*), then a common file of two resolved paths is shown to make one a prefix of the other, or one of them to be among those with two leading slashes |

`ExclusionWithoutRevival` is what remains of the promise of mutual exclusion (section 4):
in a state in which no claim has been re-armed after it was dead, it holds. In
`RunLifecycle` the latest number is the greatest of those in the log, and that it exists is
proved by the least-number principle, applied to the numbers that bound it.

Some theorems state what no run checks any more, because it is proved: the types, that live claims
are never taken over (*LiveClaimNeverStolen*), that a run's events are numbered without
gaps and only grow at the end (*GapFree*, *AppendOnly*), that the transition log is legal
and complete and terminal states final (*LogLegal*, *LogComplete*, *TerminalIsFinal*,
*EveryChangeBumpsVersion*), that a cycle is named (*CycleIsNamed*), that a run has one worker
(*OneWorkerPerRun*).

Only model-checked are the liveness properties (*FollowerReturns*, *RecordSettles*,
*GroupEnds*), which with ENABLED are out of the prover's reach, and of the migration the
counterexample of section 4. The library's theorems of induction take an operator as a
parameter, which the provers cannot instantiate; where a proof needs induction over
numbers it is made once, as a lemma about a set that contains 0 and with each number the
next (*CountUp* in `DagScheduler_proofs`), from the least-number principle. No RECURSIVE
operator is used.

## 7. What is left out

Of the modelled components:

* *run store*: the tables `checkpoints` and `handoffs` (single inserts), timestamps
  other than whether `ended_at` is set, and metadata other than the stop reason.
* *write-scope claims*: `WriteSetManager`, the matrix of write sets inside one process.
* *journal*: payloads, projections and `expected_version` (section 2).
* *coordinator*: what a node contains; a change of role in mid-run.
* *run service*: the caller's check is taken to be a function of the bytes.
* *async run lifecycle*: `list_runs` and the snapshot, which only print; that a process
  id may be given to another process is a choice in `VerifyPid`.
* *fan-out*: `cancel()`, `WorkerContext`, `dispatch_batch` and the older runner in
  `core/proc`.
* *event stream*: `HeartbeatMonitor`, which its caller drives, and the observer process
  that reads the stream.
* *operator dispatch*: loading and validating sequence and profile, the serialization
  groups of governed topologies, strict adherence, the receipts and plans rendered from
  the outcomes.
* *workspace provider*: a failure that `release` ignores (`rmtree` of a directory that is
  no worktree, `git branch -D`), which leaves files or a branch behind;
  a second release of one attestation, which no caller makes.
* *workspace cleanup*: the git commands behind a signal (a value that may be unavailable),
  and a call without a `receipts_path`, which records nothing and promises nothing to the
  next.
* *closeout transaction*: why a remover refuses (the release policy of the
  workspaces), and two closeouts of one journal at the same time (`:684`): the code takes
  no lock and its documentation does not promise one.
* *scheduler*: names of sessions and lanes, and rendering.

SQLite is taken at its word: transactions are atomic and durable, one writer at a time
holds the lock, and what a dead process had not committed is rolled back. A single
`write` of a short line to a file opened for appending is taken to be one step, unless
the machine stops in it.

The other components are in `PROJECT.json`, with reasons. They are the larger part of the
lines: of the package's 77,000 lines most are stateless judgements, conversions between
YAML, JSON and records, reports, scoring, front ends, and external effects on git and
forges. They have no order of steps to get wrong, so a model of them would either repeat
the text of a table or check that a conversion is what it is; the map therefore
covers most of the control of the components above and a small share of the package.

Some places outside the models deserve attention all the same:

| where | what can go wrong |
|---|---|
| `core/planning/planning_handshake.py:257` | two agents find the same stale lock; the slower one removes the lock the faster one has just taken |
| `core/planning/planning_handshake.py:395` | duplicates are looked up in tickets scanned before the lock was taken |
| `promptchain/execute.py:719` | a session is consumed only after its batch has run: killed in between, the batch runs twice |
| `execution/retry.py:53` | one budget is shared by all calls of a handler, and a success counts against it |

## 8. The plan

Done, in the order in which a mistake would cost most: claims, runs, journal, cursor,
removal, schedule; then the run service, the asynchronous run, the fan-out with its
threads, the cleanup and the dispatch wave. The compositions are RunService over what
RunStore provides, and DispatchGroup over FanOut; that RunStore implements RunHistory, that
RunService keeps to it and that DispatchGroup implements LaunchGroup are theorems, as is
every safety property a run checks.

What a continuation would take up:

1. **Governed topologies**: the serialization groups of the dispatch, with write scopes
   as the conflict, whose property is that of *SessionsAreSafe*.
2. **Checkpoints and handoffs** once something reads back what they insert.
3. **PlanningLock**, if tickets come to be written under the lock.

## 9. How to run

```
tlc -workers 2 -config RunStore.cfg MCRunStore.tla
tlapm RunStore_proofs.tla
```

Each run of section 3 is a `.cfg` beside the MC module of its component
(`PROJECT.json`, "runs"). The longest take two to three minutes, all proofs together a few more.
