--------------------------- MODULE RunStore_proofs ---------------------------
(***************************************************************************)
(* Theorems about RunStore for every set of runs and writers and every     *)
(* bound of the versions.                                                  *)
(***************************************************************************)
EXTENDS RunStore, TLAPS

\* What a writer carries is about a run that exists and a version the run has
\* reached; a pending transition is legal.
Carried ==
    /\ \A w \in Writer : snapshot[w] # None =>
         /\ runs[snapshot[w].run] # NoRun
         /\ snapshot[w].version <= runs[snapshot[w].run].version
    /\ \A w \in Writer : pending[w] # None =>
         /\ runs[pending[w].run] # NoRun
         /\ pending[w].version <= runs[pending[w].run].version
         /\ pending[w].to \in LegalTransitions(pending[w].from)

\* A migration holds no row that does not exist.
FoundExists ==
    \A w \in Writer, r \in Run : found[w][r] # None => Exists(r)

\* Without old databases there is nothing to migrate.
NothingLegacy ==
    LegacyRun = {} =>
    /\ \A r \in Run : Exists(r) => runs[r].state \in State
    /\ \A w \in Writer, r \in Run : found[w][r] = None

\* A run has at least the version of each row of its log.
LogBehind ==
    \A r \in Run : log[r] # <<>> =>
        /\ Exists(r)
        /\ \A i \in DOMAIN log[r] : log[r][i].version <= runs[r].version

LEMMA AliasIsCanonical == \A s \in Legacy : LegacyAlias[s] \in State
BY DEF Legacy, LegacyAlias, State, LaneState, SandboxState

LEMMA LegacyIsNotCanonical == Legacy \cap State = {}
BY DEF Legacy, LegacyAlias, State, LaneState, SandboxState

LEMMA TerminalHasNoSuccessor ==
    \A s \in State : s \in Terminal => LegalTransitions(s) = {}
BY DEF LegalTransitions, Terminal, LaneState, SandboxState, LaneSuccessors, SandboxSuccessors

LEMMA RunRow ==
    ASSUME TypeOK, NEW r \in Run, Exists(r)
    PROVE  runs[r] \in Record
BY DEF TypeOK, Exists

LEMMA RecordsExist == \A x \in Record : x # NoRun
BY NoRunAssumption DEF Record, Version

LEMMA CarriedNotNone ==
    /\ \A x \in Snapshot : x # None
    /\ \A x \in Transition : x # None
BY NoneAssumption DEF Snapshot, Transition, Version

\* The three ways in which a step changes a run that exists.
Migrates(w, r) == MigrateWrite(w) /\ found[w][r] # None

Commits(w, r) ==
    /\ Commit(w)
    /\ pending[w] \in Transition
    /\ pending[w].run = r
    /\ runs[r].version = pending[w].version
    /\ runs'[r] = [state |-> pending[w].to, version |-> pending[w].version + 1,
                   ended |-> pending[w].ended]

Overwrites(w, r, state) ==
    /\ Overwrite(w, state)
    /\ snapshot[w] \in Snapshot
    /\ snapshot[w].run = r
    /\ runs[r].version = snapshot[w].version
    /\ runs'[r] = [state |-> state, version |-> snapshot[w].version + 1,
                   ended |-> snapshot[w].ended]

LEMMA HowRunsChange ==
    ASSUME TypeOK, [Next]_vars, NEW r \in Run, Exists(r)
    PROVE  \/ runs'[r] = runs[r]
           \/ \E w \in Writer : Migrates(w, r)
           \/ \E w \in Writer : Commits(w, r)
           \/ \E w \in Writer, state \in State : Overwrites(w, r, state)
<1>1. ASSUME NEW w \in Writer, MigrateWrite(w), found[w][r] = None PROVE runs'[r] = runs[r]
  BY <1>1 DEF MigrateWrite
<1>2. ASSUME NEW w \in Writer, Commit(w) PROVE runs'[r] = runs[r] \/ Commits(w, r)
  <2>1. pending[w] \in Transition /\ runs[pending[w].run].version = pending[w].version
    BY <1>2 DEF Commit, Current, TypeOK
  <2>2. CASE pending[w].run = r
    BY <1>2, <2>1, <2>2 DEF Commit, Apply, Commits, TypeOK
  <2>3. CASE pending[w].run # r
    BY <1>2, <2>3 DEF Commit, Apply, TypeOK
  <2>4. QED
    BY <2>2, <2>3
<1>3. ASSUME NEW w \in Writer, NEW state \in State, Overwrite(w, state)
      PROVE  runs'[r] = runs[r] \/ Overwrites(w, r, state)
  <2>1. snapshot[w] \in Snapshot /\ runs[snapshot[w].run].version = snapshot[w].version
    BY <1>3 DEF Overwrite, Current, TypeOK
  <2>2. CASE snapshot[w].run = r
    BY <1>3, <2>1, <2>2 DEF Overwrite, Overwrites, TypeOK
  <2>3. CASE snapshot[w].run # r
    BY <1>3, <2>3 DEF Overwrite, TypeOK
  <2>4. QED
    BY <2>2, <2>3
<1>4. ASSUME NEW w \in Writer, NEW q \in Run, NEW state \in StartState, CreateRun(w, q, state)
      PROVE  runs'[r] = runs[r]
  BY <1>4 DEF CreateRun, Exists, TypeOK
<1>5. QED
  BY <1>1, <1>2, <1>3, <1>4
     DEF Next, Migrates, MigrateScan, GetRun, BeginTransition, Abort, Crash, vars

\* No step takes a run away, and none lowers its version.
LEMMA RunsStay ==
    ASSUME TypeOK, FoundExists, [Next]_vars, NEW r \in Run, Exists(r)
    PROVE  /\ Exists(r)'
           /\ runs'[r] \in Record
           /\ runs[r].version <= runs'[r].version
<1>0. runs[r] \in Record
  BY RunRow
<1>1. CASE runs'[r] = runs[r]
  BY <1>0, <1>1, RecordsExist DEF Record, Version, Exists
<1>2. ASSUME NEW w \in Writer, Migrates(w, r)
      PROVE  runs'[r] \in Record /\ runs[r].version <= runs'[r].version
  <2>1. LegacyAlias[found[w][r]] \in State
    BY <1>2, AliasIsCanonical DEF TypeOK, Migrates
  <2>2. runs'[r] = [runs[r] EXCEPT !.state = LegacyAlias[found[w][r]]]
    BY <1>2 DEF MigrateWrite, Migrates
  <2>3. QED
    BY <1>0, <2>1, <2>2 DEF Record, Version
<1>3. ASSUME NEW w \in Writer, Commits(w, r)
      PROVE  runs'[r] \in Record /\ runs[r].version <= runs'[r].version
  BY <1>3 DEF Commits, Transition, Record, Version
<1>4. ASSUME NEW w \in Writer, NEW state \in State, Overwrites(w, r, state)
      PROVE  runs'[r] \in Record /\ runs[r].version <= runs'[r].version
  BY <1>4 DEF Overwrites, Snapshot, Record, Version
<1>5. QED
  BY <1>1, <1>2, <1>3, <1>4, HowRunsChange, RecordsExist DEF Exists

-----------------------------------------------------------------------------
\* Types: preserved by every step of every writer.
THEOREM BaseInvariant == Spec => [](TypeOK /\ FoundExists)
<1>1. Init => TypeOK
  BY DEF Init, TypeOK, Record, Version
<1>2. TypeOK /\ FoundExists /\ [Next]_vars => TypeOK'
  <2> SUFFICES ASSUME TypeOK, FoundExists, [Next]_vars, overwriters' = overwriters
               PROVE  TypeOK'
    BY DEF Next, vars
  <2>1. ASSUME NEW w \in Writer, MigrateScan(w) PROVE TypeOK'
    <3>1. [r \in Run |-> IF Exists(r) /\ runs[r].state \in Legacy
                         THEN runs[r].state ELSE None] \in [Run -> Legacy \cup {None}]
      OBVIOUS
    <3>2. found' \in [Writer -> [Run -> Legacy \cup {None}]]
      BY <2>1, <3>1 DEF MigrateScan, TypeOK
    <3>3. QED
      BY <2>1, <3>2 DEF MigrateScan, TypeOK
  <2>2. ASSUME NEW w \in Writer, MigrateWrite(w) PROVE TypeOK'
    <3>1. ASSUME NEW r \in Run, found[w][r] # None PROVE runs'[r] \in Record
      <4>1. runs[r] \in Record
        BY <3>1, RunRow DEF FoundExists
      <4>2. LegacyAlias[found[w][r]] \in State
        BY <3>1, AliasIsCanonical DEF TypeOK
      <4>3. runs'[r] = [runs[r] EXCEPT !.state = LegacyAlias[found[w][r]]]
        BY <2>2, <3>1 DEF MigrateWrite
      <4>4. QED
        BY <4>1, <4>2, <4>3 DEF Record
    <3>2. runs' \in [Run -> Record \cup {NoRun}]
      BY <2>2, <3>1 DEF MigrateWrite, TypeOK
    <3>3. QED
      BY <2>2, <3>2 DEF MigrateWrite, TypeOK
  <2>3. ASSUME NEW w \in Writer, NEW r \in Run, NEW state \in StartState, CreateRun(w, r, state)
        PROVE TypeOK'
    BY <2>3 DEF CreateRun, TypeOK, Record, StartState, State, LaneState, SandboxState, Version
  <2>4. ASSUME NEW w \in Writer, NEW r \in Run, GetRun(w, r) PROVE TypeOK'
    BY <2>4, RunRow DEF GetRun, TypeOK, Record, Snapshot
  <2>5. ASSUME NEW w \in Writer, NEW target \in State, NEW event \in BOOLEAN,
               BeginTransition(w, target, event)
        PROVE TypeOK'
    BY <2>5 DEF BeginTransition, TypeOK, Snapshot, Transition, Record
  <2>6. ASSUME NEW w \in Writer, Commit(w) PROVE TypeOK'
    <3> DEFINE t == pending[w]
    <3>1. t \in Transition /\ t.version + 1 \in Version
      BY <2>6 DEF Commit, TypeOK, Transition, Version
    <3>2. [state |-> t.to, version |-> t.version + 1, ended |-> t.ended] \in Record
      BY <3>1 DEF Transition, Record
    <3>3. [from |-> t.from, to |-> t.to, version |-> t.version + 1, event |-> t.event] \in Entry
      BY <3>1 DEF Transition, Entry
    <3>4. runs' \in [Run -> Record \cup {NoRun}] /\ log' \in [Run -> Seq(Entry)]
      BY <2>6, <3>1, <3>2, <3>3 DEF Commit, Apply, TypeOK, Transition
    <3>5. outbox' \in [Run -> Seq(Version)]
      BY <2>6, <3>1 DEF Commit, Apply, TypeOK, Transition
    <3>6. QED
      BY <2>6, <3>4, <3>5 DEF Commit, Apply, TypeOK
  <2>7. ASSUME NEW w \in Writer, Abort(w) PROVE TypeOK'
    BY <2>7 DEF Abort, TypeOK
  <2>8. ASSUME NEW w \in Writer, NEW state \in State, Overwrite(w, state) PROVE TypeOK'
    <3>1. snapshot[w] \in Snapshot /\ snapshot[w].version + 1 \in Version
      BY <2>8 DEF Overwrite, TypeOK, Snapshot, Version
    <3>2. QED
      BY <2>8, <3>1 DEF Overwrite, TypeOK, Record, Snapshot
  <2>9. ASSUME NEW w \in Writer, Crash(w) PROVE TypeOK'
    BY <2>9 DEF Crash, TypeOK
  <2>10. CASE UNCHANGED vars
    BY <2>10 DEF TypeOK, vars
  <2>11. QED
    BY <2>1, <2>2, <2>3, <2>4, <2>5, <2>6, <2>7, <2>8, <2>9, <2>10 DEF Next
<1>3. Init => FoundExists
  BY DEF Init, FoundExists
<1>4. TypeOK /\ FoundExists /\ [Next]_vars => FoundExists'
  <2> SUFFICES ASSUME TypeOK, TypeOK', FoundExists, [Next]_vars,
                      NEW v \in Writer, NEW q \in Run, found'[v][q] # None
               PROVE  Exists(q)'
    BY <1>2 DEF FoundExists
  <2>1. Exists(q)
    <3>1. found[v][q] # None => Exists(q)
      BY DEF FoundExists
    <3>2. ASSUME NEW w \in Writer, MigrateScan(w) PROVE Exists(q)
      <4>1. CASE w = v
        BY <3>2, <4>1 DEF MigrateScan, TypeOK
      <4>2. CASE w # v
        BY <3>1, <3>2, <4>2 DEF MigrateScan, TypeOK
      <4>3. QED
        BY <4>1, <4>2
    <3>3. ASSUME NEW w \in Writer, MigrateWrite(w) \/ Crash(w) PROVE found'[v][q] = found[v][q]
      <4>1. found' = [found EXCEPT ![w] = [r \in Run |-> None]]
        BY <3>3 DEF MigrateWrite, Crash
      <4>2. w # v
        BY <4>1 DEF TypeOK
      <4>3. QED
        BY <4>1, <4>2 DEF TypeOK
    <3>4. QED
      BY <3>1, <3>2, <3>3 DEF Next, CreateRun, GetRun, BeginTransition, Commit, Apply,
                              Abort, Overwrite, vars
  <2>2. QED
    BY <2>1, RunsStay
<1>5. QED
  BY <1>1, <1>2, <1>3, <1>4, PTL DEF Spec

COROLLARY TypeCorrect == Spec => []TypeOK
BY BaseInvariant, PTL

-----------------------------------------------------------------------------
\* What a writer carries stays about an existing run at a version it has reached.
THEOREM CarriedInvariant == Spec => []Carried
<1>1. Init => Carried
  BY DEF Init, Carried
<1>2. TypeOK /\ FoundExists /\ Carried /\ [Next]_vars => Carried'
  <2> SUFFICES ASSUME TypeOK, FoundExists, Carried, [Next]_vars, NEW v \in Writer
               PROVE  /\ snapshot'[v] # None =>
                           /\ runs'[snapshot'[v].run] # NoRun
                           /\ snapshot'[v].version <= runs'[snapshot'[v].run].version
                      /\ pending'[v] # None =>
                           /\ runs'[pending'[v].run] # NoRun
                           /\ pending'[v].version <= runs'[pending'[v].run].version
                           /\ pending'[v].to \in LegalTransitions(pending'[v].from)
    BY DEF Carried
  <2>1. ASSUME snapshot[v] # None
        PROVE  /\ runs'[snapshot[v].run] # NoRun
               /\ snapshot[v].version <= runs'[snapshot[v].run].version
    <3>1. snapshot[v] \in Snapshot /\ runs[snapshot[v].run] # NoRun
          /\ snapshot[v].version <= runs[snapshot[v].run].version
      BY <2>1 DEF Carried, TypeOK
    <3>2. runs[snapshot[v].run] \in Record
      BY <3>1, RunRow DEF Snapshot, Exists
    <3>3. /\ runs'[snapshot[v].run] # NoRun
          /\ runs'[snapshot[v].run] \in Record
          /\ runs[snapshot[v].run].version <= runs'[snapshot[v].run].version
      BY <3>1, RunsStay DEF Snapshot, Exists
    <3>4. QED
      BY <3>1, <3>2, <3>3 DEF Snapshot, Record, Version
  <2>2. ASSUME pending[v] # None
        PROVE  /\ runs'[pending[v].run] # NoRun
               /\ pending[v].version <= runs'[pending[v].run].version
               /\ pending[v].to \in LegalTransitions(pending[v].from)
    <3>1. pending[v] \in Transition /\ runs[pending[v].run] # NoRun
          /\ pending[v].version <= runs[pending[v].run].version
          /\ pending[v].to \in LegalTransitions(pending[v].from)
      BY <2>2 DEF Carried, TypeOK
    <3>2. runs[pending[v].run] \in Record
      BY <3>1, RunRow DEF Transition, Exists
    <3>3. /\ runs'[pending[v].run] # NoRun
          /\ runs'[pending[v].run] \in Record
          /\ runs[pending[v].run].version <= runs'[pending[v].run].version
      BY <3>1, RunsStay DEF Transition, Exists
    <3>4. QED
      BY <3>1, <3>2, <3>3 DEF Transition, Record, Version
  \* A step changes what v carries only if v takes it, and then to nothing or to
  \* something fresh from the table.
  <2>3. ASSUME NEW w \in Writer, NEW r \in Run, GetRun(w, r), snapshot'[v] # snapshot[v]
        PROVE  /\ runs'[snapshot'[v].run] # NoRun
               /\ snapshot'[v].version <= runs'[snapshot'[v].run].version
    <3>1. snapshot'[v] = [run |-> r, state |-> runs[r].state,
                          version |-> runs[r].version, ended |-> runs[r].ended]
          /\ runs' = runs /\ Exists(r)
      BY <2>3 DEF GetRun, TypeOK
    <3>2. QED
      BY <3>1, RunRow DEF Exists, Record, Version
  <2>4. ASSUME NEW w \in Writer, NEW target \in State, NEW event \in BOOLEAN,
               BeginTransition(w, target, event), pending'[v] # pending[v]
        PROVE  /\ runs'[pending'[v].run] # NoRun
               /\ pending'[v].version <= runs'[pending'[v].run].version
               /\ pending'[v].to \in LegalTransitions(pending'[v].from)
    <3>1. v = w /\ runs' = runs /\ snapshot[w] # None
      BY <2>4 DEF BeginTransition, TypeOK
    <3> DEFINE r == snapshot[w].run
    <3>2. /\ target \in LegalTransitions(runs[r].state)
          /\ pending'[v] = [run |-> r, from |-> runs[r].state, to |-> target,
                            version |-> runs[r].version,
                            ended |-> runs[r].ended \/ target \in Terminal,
                            event |-> event]
      BY <2>4, <3>1 DEF BeginTransition, TypeOK
    <3>3. r \in Run /\ runs[r] # NoRun
      BY <3>1 DEF Carried, TypeOK, Snapshot
    <3>4. runs[r].version \in Nat
      BY <3>3, RunRow DEF Exists, Record, Version
    <3>5. QED
      BY <3>1, <3>2, <3>3, <3>4 DEF Exists
  <2>5. ASSUME NEW w \in Writer, NEW state \in State, Overwrite(w, state),
               snapshot'[v] # snapshot[v]
        PROVE  /\ runs'[snapshot'[v].run] # NoRun
               /\ snapshot'[v].version <= runs'[snapshot'[v].run].version
    <3>1. v = w /\ snapshot[w] \in Snapshot /\ snapshot[w] # None
      BY <2>5 DEF Overwrite, TypeOK
    <3> DEFINE r == snapshot[w].run
    <3>2. snapshot'[v].run = r /\ snapshot'[v].version = runs'[r].version
      BY <2>5, <3>1 DEF Overwrite, TypeOK, Snapshot
    <3>3. r \in Run /\ runs'[r] # NoRun
      BY <2>1, <3>1 DEF Snapshot
    <3>4. runs'[r].version \in Nat
      BY <3>1, <3>3, RunsStay DEF Exists, Carried, Snapshot, Record, Version
    <3>5. QED
      BY <3>2, <3>3, <3>4
  <2>6. ASSUME snapshot'[v] # snapshot[v], snapshot'[v] # None
        PROVE  \/ \E w \in Writer, r \in Run : GetRun(w, r)
               \/ \E w \in Writer, state \in State : Overwrite(w, state)
    BY <2>6 DEF Next, MigrateScan, MigrateWrite, CreateRun, BeginTransition, Commit, Apply,
                Abort, Crash, vars, TypeOK
  <2>7. ASSUME pending'[v] # pending[v], pending'[v] # None
        PROVE  \E w \in Writer, target \in State, event \in BOOLEAN :
                 BeginTransition(w, target, event)
    BY <2>7 DEF Next, MigrateScan, MigrateWrite, CreateRun, GetRun, Commit, Apply,
                Abort, Overwrite, Crash, vars, TypeOK
  <2>8. QED
    BY <2>1, <2>2, <2>3, <2>4, <2>5, <2>6, <2>7
<1>3. QED
  BY <1>1, <1>2, BaseInvariant, PTL DEF Spec

\* A database without legacy rows never gets one.
THEOREM NothingLegacyInvariant == Spec => []NothingLegacy
<1>1. Init => NothingLegacy
  BY DEF Init, NothingLegacy, Exists
<1>2. TypeOK /\ NothingLegacy /\ [Next]_vars => NothingLegacy'
  <2> SUFFICES ASSUME TypeOK, NothingLegacy, [Next]_vars, LegacyRun = {}
               PROVE  /\ \A r \in Run : Exists(r)' => runs'[r].state \in State
                      /\ \A w \in Writer, r \in Run : found'[w][r] = None
    BY DEF NothingLegacy
  <2>0. /\ \A r \in Run : Exists(r) => runs[r].state \in State
        /\ \A w \in Writer, r \in Run : found[w][r] = None
    BY DEF NothingLegacy
  <2>1. ASSUME NEW r \in Run, Exists(r)' PROVE runs'[r].state \in State
    <3>1. CASE Exists(r)
      <4>1. ~ \E w \in Writer : Migrates(w, r)
        BY <2>0 DEF Migrates
      <4>2. ASSUME NEW w \in Writer, Commits(w, r) PROVE runs'[r].state \in State
        BY <4>2 DEF Commits, Transition
      <4>3. ASSUME NEW w \in Writer, NEW state \in State, Overwrites(w, r, state)
            PROVE  runs'[r].state \in State
        BY <4>3 DEF Overwrites
      <4>4. QED
        BY <2>0, <3>1, <4>1, <4>2, <4>3, HowRunsChange
    <3>2. CASE ~Exists(r)
      <4>1. ASSUME NEW w \in Writer, MigrateWrite(w) PROVE FALSE
        BY <2>0, <2>1, <3>2, <4>1 DEF MigrateWrite, Exists
      <4>2. ASSUME NEW w \in Writer, Commit(w) PROVE runs'[r].state \in State
        <5>1. pending[w] \in Transition
          BY <4>2 DEF Commit, TypeOK
        <5>2. QED
          BY <2>1, <3>2, <4>2, <5>1 DEF Commit, Apply, Exists, TypeOK, Transition
      <4>3. ASSUME NEW w \in Writer, NEW state \in State, Overwrite(w, state)
            PROVE  runs'[r].state \in State
        BY <2>1, <3>2, <4>3 DEF Overwrite, Exists, TypeOK
      <4>4. ASSUME NEW w \in Writer, NEW q \in Run, NEW state \in StartState,
                   CreateRun(w, q, state)
            PROVE  runs'[r].state \in State
        BY <2>1, <3>2, <4>4 DEF CreateRun, Exists, TypeOK, StartState, State, LaneState,
                                SandboxState
      <4>5. QED
        BY <2>1, <3>2, <4>1, <4>2, <4>3, <4>4
           DEF Next, MigrateScan, GetRun, BeginTransition, Abort, Crash, vars, Exists
    <3>3. QED
      BY <3>1, <3>2
  <2>2. \A w \in Writer, r \in Run : found'[w][r] = None
    <3>1. ASSUME NEW w \in Writer, MigrateScan(w) PROVE found' = found
      <4>1. [r \in Run |-> IF Exists(r) /\ runs[r].state \in Legacy
                           THEN runs[r].state ELSE None] = [r \in Run |-> None]
        BY <2>0, LegacyIsNotCanonical
      <4>2. found[w] = [r \in Run |-> None]
        BY <2>0 DEF TypeOK
      <4>3. QED
        BY <3>1, <4>1, <4>2 DEF MigrateScan, TypeOK
    <3>2. ASSUME NEW w \in Writer, MigrateWrite(w) \/ Crash(w) PROVE found' = found
      <4>1. found[w] = [r \in Run |-> None]
        BY <2>0 DEF TypeOK
      <4>2. QED
        BY <3>2, <4>1 DEF MigrateWrite, Crash, TypeOK
    <3>3. QED
      BY <2>0, <3>1, <3>2 DEF Next, CreateRun, GetRun, BeginTransition, Commit, Apply,
                              Abort, Overwrite, vars
  <2>3. QED
    BY <2>1, <2>2
<1>3. QED
  BY <1>1, <1>2, BaseInvariant, PTL DEF Spec

-----------------------------------------------------------------------------
LEMMA ChangeBumpsVersion ==
    ASSUME TypeOK, NothingLegacy, [Next]_vars, LegacyRun = {},
           NEW r \in Run, Exists(r), runs'[r] # runs[r]
    PROVE  runs'[r] # NoRun /\ runs'[r].version = runs[r].version + 1
<1>1. ~ \E w \in Writer : Migrates(w, r)
  BY DEF NothingLegacy, Migrates
<1>2. ASSUME NEW w \in Writer, Commits(w, r)
      PROVE  runs'[r] \in Record /\ runs'[r].version = runs[r].version + 1
  BY <1>2 DEF Commits, Transition, Record, Version
<1>3. ASSUME NEW w \in Writer, NEW state \in State, Overwrites(w, r, state)
      PROVE  runs'[r] \in Record /\ runs'[r].version = runs[r].version + 1
  BY <1>3 DEF Overwrites, Snapshot, Record, Version
<1>4. QED
  BY <1>1, <1>2, <1>3, HowRunsChange, RecordsExist

\* The premise of every compare-and-swap: a run does not change under its version.
THEOREM ChangesBumpVersion == Spec => EveryChangeBumpsVersion
<1>1. TypeOK /\ NothingLegacy /\ [Next]_vars =>
        [LegacyRun = {} =>
         \A r \in Run : Exists(r) /\ runs'[r] # runs[r] =>
             runs'[r] # NoRun /\ runs'[r].version = runs[r].version + 1]_vars
  BY ChangeBumpsVersion
<1>2. QED
  BY <1>1, BaseInvariant, NothingLegacyInvariant, PTL DEF Spec, EveryChangeBumpsVersion

-----------------------------------------------------------------------------
\* A writer whose version is still current carries the record that is in the
\* table: a version number names one record for good.
THEOREM VersionNamesRecord == Spec => []VersionNamesState
<1>1. Init => VersionNamesState
  BY DEF Init, VersionNamesState
<1>2. TypeOK /\ FoundExists /\ Carried /\ NothingLegacy /\ VersionNamesState /\ [Next]_vars
        => VersionNamesState'
  <2> SUFFICES ASSUME TypeOK, FoundExists, Carried, NothingLegacy, VersionNamesState,
                      [Next]_vars, LegacyRun = {}, NEW v \in Writer
               PROVE  /\ snapshot'[v] # None
                         /\ runs'[snapshot'[v].run].version = snapshot'[v].version =>
                           /\ runs'[snapshot'[v].run].state = snapshot'[v].state
                           /\ runs'[snapshot'[v].run].ended = snapshot'[v].ended
                      /\ pending'[v] # None
                         /\ runs'[pending'[v].run].version = pending'[v].version =>
                           runs'[pending'[v].run].state = pending'[v].from
    BY DEF VersionNamesState, Current
  \* What v keeps: a change of the run has left its version behind.
  <2>1. ASSUME snapshot[v] # None, runs'[snapshot[v].run].version = snapshot[v].version
        PROVE  /\ runs'[snapshot[v].run].state = snapshot[v].state
               /\ runs'[snapshot[v].run].ended = snapshot[v].ended
    <3>1. snapshot[v] \in Snapshot /\ Exists(snapshot[v].run)
          /\ snapshot[v].version <= runs[snapshot[v].run].version
      BY <2>1 DEF Carried, TypeOK, Exists
    <3>2. runs[snapshot[v].run].version \in Nat /\ snapshot[v].version \in Nat
      BY <3>1, RunRow DEF Snapshot, Record, Version
    <3>3. runs'[snapshot[v].run] = runs[snapshot[v].run]
      BY <2>1, <3>1, <3>2, ChangeBumpsVersion DEF Snapshot
    <3>4. QED
      BY <2>1, <3>3 DEF VersionNamesState, Current
  <2>2. ASSUME pending[v] # None, runs'[pending[v].run].version = pending[v].version
        PROVE  runs'[pending[v].run].state = pending[v].from
    <3>1. pending[v] \in Transition /\ Exists(pending[v].run)
          /\ pending[v].version <= runs[pending[v].run].version
      BY <2>2 DEF Carried, TypeOK, Exists
    <3>2. runs[pending[v].run].version \in Nat /\ pending[v].version \in Nat
      BY <3>1, RunRow DEF Transition, Record, Version
    <3>3. runs'[pending[v].run] = runs[pending[v].run]
      BY <2>2, <3>1, <3>2, ChangeBumpsVersion DEF Transition
    <3>4. QED
      BY <2>2, <3>3 DEF VersionNamesState, Current
  \* What v takes in this step is a copy of the row.
  <2>3. ASSUME NEW w \in Writer, NEW r \in Run, GetRun(w, r), snapshot'[v] # snapshot[v]
        PROVE  /\ runs'[snapshot'[v].run].state = snapshot'[v].state
               /\ runs'[snapshot'[v].run].ended = snapshot'[v].ended
    BY <2>3 DEF GetRun, TypeOK
  <2>4. ASSUME NEW w \in Writer, NEW target \in State, NEW event \in BOOLEAN,
               BeginTransition(w, target, event), pending'[v] # pending[v]
        PROVE  runs'[pending'[v].run].state = pending'[v].from
    BY <2>4 DEF BeginTransition, TypeOK
  <2>5. ASSUME NEW w \in Writer, NEW state \in State, Overwrite(w, state),
               snapshot'[v] # snapshot[v]
        PROVE  /\ runs'[snapshot'[v].run].state = snapshot'[v].state
               /\ runs'[snapshot'[v].run].ended = snapshot'[v].ended
    <3>1. v = w /\ snapshot[w] \in Snapshot
      BY <2>5 DEF Overwrite, TypeOK
    <3>2. QED
      BY <2>5, <3>1 DEF Overwrite, TypeOK, Snapshot
  <2>6. ASSUME snapshot'[v] # snapshot[v], snapshot'[v] # None
        PROVE  \/ \E w \in Writer, r \in Run : GetRun(w, r)
               \/ \E w \in Writer, state \in State : Overwrite(w, state)
    BY <2>6 DEF Next, MigrateScan, MigrateWrite, CreateRun, BeginTransition, Commit, Apply,
                Abort, Crash, vars, TypeOK
  <2>7. ASSUME pending'[v] # pending[v], pending'[v] # None
        PROVE  \E w \in Writer, target \in State, event \in BOOLEAN :
                 BeginTransition(w, target, event)
    BY <2>7 DEF Next, MigrateScan, MigrateWrite, CreateRun, GetRun, Commit, Apply,
                Abort, Overwrite, Crash, vars, TypeOK
  <2>8. QED
    BY <2>1, <2>2, <2>3, <2>4, <2>5, <2>6, <2>7
<1>3. QED
  BY <1>1, <1>2, BaseInvariant, CarriedInvariant, NothingLegacyInvariant, PTL DEF Spec

LEMMA LogRow ==
    ASSUME NEW s \in Seq(Entry), NEW i \in DOMAIN s
    PROVE  s[i].version \in Nat
<1>1. s[i] \in Entry
  OBVIOUS
<1>2. QED
  BY <1>1 DEF Entry, Version

-----------------------------------------------------------------------------
\* The log is legal and in the order of versions whatever the other writers do.
THEOREM LogInvariant == Spec => [](LogBehind /\ LogLegal)
<1> DEFINE LInv == LogBehind /\ LogLegal
<1>1. Init => LInv
  BY DEF Init, LogBehind, LogLegal
<1>2. TypeOK /\ FoundExists /\ Carried /\ LInv /\ [Next]_vars => LInv'
  <2> SUFFICES ASSUME TypeOK, FoundExists, Carried, LogBehind, LogLegal, [Next]_vars,
                      NEW r \in Run
               PROVE  /\ log'[r] # <<>> =>
                           /\ runs'[r] # NoRun
                           /\ \A i \in DOMAIN log'[r] : log'[r][i].version <= runs'[r].version
                      /\ \A i \in DOMAIN log'[r] :
                           /\ log'[r][i].to \in LegalTransitions(log'[r][i].from)
                           /\ log'[r][i].version <= runs'[r].version
                           /\ i > 1 => log'[r][i - 1].version < log'[r][i].version
    BY DEF LogBehind, LogLegal, Exists
  <2>0. log[r] \in Seq(Entry)
    BY DEF TypeOK
  <2>1. CASE log'[r] = log[r]
    <3>1. CASE log[r] = <<>>
      BY <2>1, <3>1
    <3>2. CASE log[r] # <<>>
      <4>1. Exists(r) /\ \A i \in DOMAIN log[r] : log[r][i].version <= runs[r].version
        BY <3>2 DEF LogBehind
      <4>2. runs'[r] # NoRun /\ runs'[r] \in Record /\ runs[r].version <= runs'[r].version
        BY <4>1, RunsStay DEF Exists
      <4>3. \A i \in DOMAIN log[r] : log[r][i].version \in Nat
        BY <2>0, LogRow
      <4>4. runs[r].version \in Nat /\ runs'[r].version \in Nat
        BY <4>1, <4>2, RunRow DEF Record, Version
      <4>5. \A i \in DOMAIN log[r] : log[r][i].version <= runs'[r].version
        BY <4>1, <4>2, <4>3, <4>4
      <4>6. QED
        BY <2>1, <4>2, <4>5 DEF LogLegal
    <3>3. QED
      BY <3>1, <3>2
  <2>2. ASSUME NEW w \in Writer, Commit(w), log'[r] # log[r]
        PROVE  /\ runs'[r] # NoRun
               /\ \A i \in DOMAIN log'[r] :
                    /\ log'[r][i].to \in LegalTransitions(log'[r][i].from)
                    /\ log'[r][i].version <= runs'[r].version
                    /\ i > 1 => log'[r][i - 1].version < log'[r][i].version
    <3> DEFINE t == pending[w]
               e == [from |-> t.from, to |-> t.to, version |-> t.version + 1, event |-> t.event]
    <3>1. t \in Transition /\ t.run = r
      BY <2>2 DEF Commit, Apply, TypeOK
    <3>2. /\ runs[r].version = t.version /\ t.version \in Nat /\ Exists(r)
          /\ t.to \in LegalTransitions(t.from)
      BY <2>2, <3>1 DEF Commit, Current, Carried, Transition, Version, Exists
    <3>3. log'[r] = Append(log[r], e) /\ e \in Entry
      BY <2>2, <3>1 DEF Commit, Apply, TypeOK, Transition, Entry, Version
    <3>4. runs'[r] \in Record /\ runs'[r].version = t.version + 1
      BY <2>2, <3>1 DEF Commit, Apply, TypeOK, Transition, Record, Version
    <3>5. \A i \in DOMAIN log[r] : log[r][i].version \in Nat /\ log[r][i].version <= t.version
      BY <2>0, <3>2, LogRow DEF LogLegal
    <3>6. ASSUME NEW i \in DOMAIN log'[r], i \in DOMAIN log[r]
          PROVE  /\ log'[r][i] = log[r][i]
                 /\ i > 1 => log'[r][i - 1] = log[r][i - 1]
      BY <2>0, <3>3, <3>6
    <3>7. ASSUME NEW i \in DOMAIN log'[r], i \notin DOMAIN log[r]
          PROVE  /\ log'[r][i] = e
                 /\ i > 1 => i - 1 \in DOMAIN log[r] /\ log'[r][i - 1] = log[r][i - 1]
      BY <2>0, <3>3, <3>7
    <3>8. ASSUME NEW i \in DOMAIN log'[r]
          PROVE  /\ log'[r][i].to \in LegalTransitions(log'[r][i].from)
                 /\ log'[r][i].version <= runs'[r].version
                 /\ i > 1 => log'[r][i - 1].version < log'[r][i].version
      <4>1. CASE i \in DOMAIN log[r]
        BY <3>2, <3>4, <3>5, <3>6, <4>1 DEF LogLegal
      <4>2. CASE i \notin DOMAIN log[r]
        <5>1. e.version = t.version + 1 /\ e.to = t.to /\ e.from = t.from
          OBVIOUS
        <5>2. QED
          BY <3>2, <3>4, <3>5, <3>7, <4>2, <5>1
      <4>3. QED
        BY <4>1, <4>2
    <3>9. QED
      BY <3>4, <3>8, RecordsExist
  <2>3. log'[r] = log[r] \/ \E w \in Writer : Commit(w)
    BY DEF Next, MigrateScan, MigrateWrite, CreateRun, GetRun, BeginTransition, Abort,
           Overwrite, Crash, vars
  <2>4. QED
    BY <2>1, <2>2, <2>3
<1>3. QED
  BY <1>1, <1>2, BaseInvariant, CarriedInvariant, PTL DEF Spec

COROLLARY LogIsLegal == Spec => []LogLegal
BY LogInvariant, PTL

-----------------------------------------------------------------------------
\* The outbox is the log of the transitions with an event: rows of both are written
\* together, and the version of a new row is above all there are.
THEOREM OutboxIsTheLog == Spec => []OutboxMatchesLog
<1>1. Init => OutboxMatchesLog
  BY DEF Init, OutboxMatchesLog
<1>2. TypeOK /\ FoundExists /\ Carried /\ LogBehind /\ OutboxMatchesLog /\ [Next]_vars
      => OutboxMatchesLog'
  <2> SUFFICES ASSUME TypeOK, FoundExists, Carried, LogBehind, OutboxMatchesLog, [Next]_vars,
                      NEW r \in Run
               PROVE  /\ {outbox'[r][i] : i \in DOMAIN outbox'[r]} =
                            {log'[r][i].version : i \in {j \in DOMAIN log'[r] : log'[r][j].event}}
                      /\ \A i \in DOMAIN outbox'[r] : i > 1 => outbox'[r][i - 1] < outbox'[r][i]
    BY DEF OutboxMatchesLog
  <2> DEFINE Events(l) == {l[i].version : i \in {j \in DOMAIN l : l[j].event}}
             Told(o) == {o[i] : i \in DOMAIN o}
  <2>0. /\ log[r] \in Seq(Entry) /\ outbox[r] \in Seq(Version)
        /\ Told(outbox[r]) = Events(log[r])
        /\ \A i \in DOMAIN outbox[r] : i > 1 => outbox[r][i - 1] < outbox[r][i]
    BY DEF TypeOK, OutboxMatchesLog
  <2>1. CASE log'[r] = log[r] /\ outbox'[r] = outbox[r]
    BY <2>0, <2>1
  <2>2. ASSUME NEW w \in Writer, Commit(w), pending[w].run = r
        PROVE  /\ Told(outbox'[r]) = Events(log'[r])
               /\ \A i \in DOMAIN outbox'[r] : i > 1 => outbox'[r][i - 1] < outbox'[r][i]
    <3> DEFINE t == pending[w]
               e == [from |-> t.from, to |-> t.to, version |-> t.version + 1, event |-> t.event]
    <3>1. t \in Transition /\ runs[r].version = t.version
      BY <2>2 DEF Commit, Current, TypeOK
    <3>2. t.version \in Nat /\ t.event \in BOOLEAN /\ e \in Entry
          /\ e.version = t.version + 1 /\ e.event = t.event
      BY <3>1 DEF Transition, Entry, Version
    <3>3. /\ log'[r] = Append(log[r], e)
          /\ outbox'[r] = IF t.event THEN Append(outbox[r], t.version + 1) ELSE outbox[r]
      BY <2>2, <3>1 DEF Commit, Apply, TypeOK, Transition
    <3> HIDE DEF e, t
    <3>4. ASSUME NEW x PROVE x \in Events(log'[r]) <=>
                               x \in Events(log[r]) \/ (t.event /\ x = t.version + 1)
      <4>1. /\ DOMAIN log[r] = 1 .. Len(log[r]) /\ Len(log[r]) \in Nat
            /\ DOMAIN log'[r] = 1 .. (Len(log[r]) + 1)
            /\ \A i \in DOMAIN log[r] : log'[r][i] = log[r][i]
            /\ log'[r][Len(log[r]) + 1] = e
        BY <2>0, <3>2, <3>3
      <4>2. DOMAIN log'[r] = DOMAIN log[r] \cup {Len(log[r]) + 1}
        BY <4>1
      <4>3. QED
        BY <3>2, <4>1, <4>2
    <3>5. CASE ~t.event
      BY <2>0, <3>2, <3>3, <3>4, <3>5
    <3>6. CASE t.event
      <4>1. /\ DOMAIN outbox[r] = 1 .. Len(outbox[r]) /\ Len(outbox[r]) \in Nat
            /\ DOMAIN outbox'[r] = 1 .. (Len(outbox[r]) + 1)
            /\ \A i \in DOMAIN outbox[r] : outbox'[r][i] = outbox[r][i]
            /\ outbox'[r][Len(outbox[r]) + 1] = t.version + 1
        BY <2>0, <3>2, <3>3, <3>6 DEF Version
      <4>2. \A i \in DOMAIN outbox[r] : outbox[r][i] < t.version + 1
        <5>1. TAKE i \in DOMAIN outbox[r]
        <5>2. outbox[r][i] \in Events(log[r])
          BY <2>0
        <5>3. PICK j \in DOMAIN log[r] : outbox[r][i] = log[r][j].version
          BY <5>2
        <5>4. log[r] # <<>> /\ log[r][j].version \in Nat
          BY <2>0, <5>3, LogRow
        <5>5. log[r][j].version <= t.version
          BY <3>1, <5>3, <5>4 DEF LogBehind
        <5>6. QED
          BY <3>2, <5>3, <5>4, <5>5
      <4>3. DOMAIN outbox'[r] = DOMAIN outbox[r] \cup {Len(outbox[r]) + 1}
        BY <4>1
      <4>4. Told(outbox'[r]) = Told(outbox[r]) \cup {t.version + 1}
        BY <4>1, <4>3
      <4>5. Events(log'[r]) = Events(log[r]) \cup {t.version + 1}
        BY <3>4, <3>6
      <4>6. ASSUME NEW i \in DOMAIN outbox'[r], i > 1 PROVE outbox'[r][i - 1] < outbox'[r][i]
        <5>1. i - 1 \in DOMAIN outbox[r]
          BY <4>1, <4>6
        <5>2. CASE i \in DOMAIN outbox[r]
          BY <2>0, <4>1, <4>6, <5>1, <5>2
        <5>3. CASE i = Len(outbox[r]) + 1
          BY <4>1, <4>2, <5>1, <5>3
        <5>4. QED
          BY <4>3, <5>2, <5>3
      <4>7. QED
        BY <2>0, <4>4, <4>5, <4>6
    <3>7. QED
      BY <3>2, <3>5, <3>6
  <2>3. ASSUME NEW w \in Writer, Commit(w), pending[w].run # r
        PROVE  log'[r] = log[r] /\ outbox'[r] = outbox[r]
    BY <2>3 DEF Commit, Apply, TypeOK
  <2>4. (log'[r] = log[r] /\ outbox'[r] = outbox[r]) \/ \E w \in Writer : Commit(w)
    BY DEF Next, MigrateScan, MigrateWrite, CreateRun, GetRun, BeginTransition, Abort,
           Overwrite, Crash, vars
  <2>5. QED
    BY <2>1, <2>2, <2>3, <2>4
<1>3. QED
  BY <1>1, <1>2, BaseInvariant, CarriedInvariant, LogInvariant, PTL DEF Spec

-----------------------------------------------------------------------------
(***************************************************************************)
(* Where transitions are the only writers of a run.                        *)
(***************************************************************************)
OnlyTransitions == overwriters = {} /\ LegacyRun = {}

\* A pending transition whose version is current carries the right ended_at.
EndedCarried ==
    OnlyTransitions =>
    \A w \in Writer : pending[w] # None /\ Current(pending[w]) =>
        (pending[w].ended <=> pending[w].to \in Terminal)

LEMMA OnlyCommitsChange ==
    ASSUME TypeOK, NothingLegacy, [Next]_vars, OnlyTransitions,
           NEW r \in Run, Exists(r)
    PROVE  runs'[r] = runs[r] \/ \E w \in Writer : Commits(w, r)
<1>1. ~ \E w \in Writer : Migrates(w, r)
  BY DEF NothingLegacy, Migrates, OnlyTransitions
<1>2. ~ \E w \in Writer, state \in State : Overwrites(w, r, state)
  BY DEF Overwrites, Overwrite, OnlyTransitions
<1>3. QED
  BY <1>1, <1>2, HowRunsChange

\* No writer that validated its transition earlier can move a finished run.
THEOREM TerminalStays == Spec => TerminalIsFinal
<1>1. TypeOK /\ Carried /\ NothingLegacy /\ VersionNamesState /\ [Next]_vars =>
        [(overwriters = {} /\ LegacyRun = {}) =>
         \A r \in Run : Exists(r) /\ runs[r].state \in Terminal => runs'[r] = runs[r]]_vars
  <2> SUFFICES ASSUME TypeOK, Carried, NothingLegacy, VersionNamesState, [Next]_vars,
                      OnlyTransitions, NEW r \in Run, Exists(r), runs[r].state \in Terminal,
                      NEW w \in Writer, Commits(w, r)
               PROVE  FALSE
    BY OnlyCommitsChange DEF OnlyTransitions
  <2>1. pending[w] # None /\ pending[w] \in Transition /\ Current(pending[w])
    BY CarriedNotNone DEF Commits, Current
  <2>2. pending[w].from = runs[r].state /\ pending[w].to \in LegalTransitions(pending[w].from)
    BY <2>1 DEF VersionNamesState, Carried, OnlyTransitions, Commits
  <2>3. QED
    BY <2>1, <2>2, TerminalHasNoSuccessor DEF Transition
<1>2. QED
  BY <1>1, BaseInvariant, CarriedInvariant, NothingLegacyInvariant, VersionNamesRecord, PTL
     DEF Spec, TerminalIsFinal

\* The log is the whole history of the run.
THEOREM LogIsComplete == Spec => []LogComplete
<1> DEFINE CInv == LogComplete /\ EndedCarried
<1>1. Init => CInv
  BY DEF Init, LogComplete, EndedCarried, Exists
<1>2. /\ TypeOK /\ FoundExists /\ Carried /\ NothingLegacy /\ VersionNamesState /\ LogBehind
      /\ CInv /\ [Next]_vars
      => CInv'
  <2> SUFFICES ASSUME TypeOK, FoundExists, Carried, NothingLegacy, VersionNamesState, LogBehind,
                      LogComplete, EndedCarried, [Next]_vars, OnlyTransitions
               PROVE  LogComplete' /\ EndedCarried'
    BY DEF LogComplete, EndedCarried, OnlyTransitions, Next, vars
  <2>1. ASSUME NEW r \in Run, runs'[r] # NoRun
        PROVE  /\ runs'[r].version = Len(log'[r]) + 1
               /\ \A i \in DOMAIN log'[r] : log'[r][i].version = i + 1
               /\ \A i \in DOMAIN log'[r] : i > 1 => log'[r][i].from = log'[r][i - 1].to
               /\ log'[r] # <<>> => log'[r][Len(log'[r])].to = runs'[r].state
               /\ runs'[r].ended <=> runs'[r].state \in Terminal
    <3>0. log[r] \in Seq(Entry)
      BY DEF TypeOK
    <3>1. CASE Exists(r) /\ \E w \in Writer : Commits(w, r)
      <4>1. PICK w \in Writer : Commits(w, r)
        BY <3>1
      <4> DEFINE t == pending[w]
                 e == [from |-> t.from, to |-> t.to, version |-> t.version + 1,
                       event |-> t.event]
      <4>2. t # None /\ t \in Transition /\ Current(t) /\ t.run = r
        BY <4>1, CarriedNotNone DEF Commits, Current
      <4>3. t.from = runs[r].state /\ (t.ended <=> t.to \in Terminal)
        BY <4>2 DEF VersionNamesState, EndedCarried, OnlyTransitions
      <4>4. log'[r] = Append(log[r], e) /\ e \in Entry
        BY <4>1, <4>2 DEF Commits, Commit, Apply, TypeOK, Transition, Entry, Version
      <4>5. runs'[r] = [state |-> t.to, version |-> t.version + 1, ended |-> t.ended]
            /\ runs[r].version = t.version
        BY <4>1 DEF Commits
      <4>6. /\ t.version = Len(log[r]) + 1
            /\ \A i \in DOMAIN log[r] : log[r][i].version = i + 1
            /\ \A i \in DOMAIN log[r] : i > 1 => log[r][i].from = log[r][i - 1].to
            /\ log[r] # <<>> => log[r][Len(log[r])].to = t.from
        BY <3>1, <4>3, <4>5 DEF LogComplete, OnlyTransitions
      <4>7. Len(log'[r]) = Len(log[r]) + 1 /\ DOMAIN log'[r] = 1..(Len(log[r]) + 1)
            /\ DOMAIN log[r] = 1..Len(log[r]) /\ Len(log[r]) \in Nat
        BY <3>0, <4>4
      <4>8. /\ \A i \in DOMAIN log[r] : log'[r][i] = log[r][i]
            /\ log'[r][Len(log[r]) + 1] = e
        BY <3>0, <4>4
      <4>9. e.version = t.version + 1 /\ e.from = t.from /\ e.to = t.to
        OBVIOUS
      <4>10. \A i \in DOMAIN log'[r] : log'[r][i].version = i + 1
        BY <4>6, <4>7, <4>8, <4>9
      <4>11. ASSUME NEW i \in DOMAIN log'[r], i > 1 PROVE log'[r][i].from = log'[r][i - 1].to
        <5>1. CASE i \in DOMAIN log[r]
          <6>1. i - 1 \in DOMAIN log[r]
            BY <4>7, <4>11, <5>1
          <6>2. log'[r][i] = log[r][i] /\ log'[r][i - 1] = log[r][i - 1]
            BY <4>8, <5>1, <6>1
          <6>3. log[r][i].from = log[r][i - 1].to
            BY <4>6, <4>11, <5>1
          <6>4. QED
            BY <6>2, <6>3
        <5>2. CASE i = Len(log[r]) + 1
          <6>1. log[r] # <<>> /\ i - 1 = Len(log[r]) /\ Len(log[r]) \in DOMAIN log[r]
            BY <3>0, <4>7, <4>11, <5>2
          <6>2. log'[r][i] = e /\ log'[r][i - 1] = log[r][Len(log[r])]
            BY <4>8, <5>2, <6>1
          <6>3. log[r][Len(log[r])].to = t.from
            BY <4>6, <6>1
          <6>4. log'[r][i].from = t.from
            BY <6>2, <4>9
          <6>5. QED
            BY <6>2, <6>3, <6>4
        <5>3. QED
          BY <4>7, <5>1, <5>2
      <4>12. QED
        BY <4>3, <4>5, <4>6, <4>7, <4>8, <4>9, <4>10, <4>11
    <3>2. CASE Exists(r) /\ ~ \E w \in Writer : Commits(w, r)
      <4>1. runs'[r] = runs[r]
        BY <3>2, OnlyCommitsChange
      <4>2. log'[r] = log[r]
        <5>1. ASSUME NEW w \in Writer, Commit(w) PROVE log'[r] = log[r]
          <6>1. pending[w] # None /\ pending[w] \in Transition /\ Current(pending[w])
            BY <5>1 DEF Commit, TypeOK
          <6>2. pending[w].run # r
            BY <3>2, <5>1, <6>1 DEF Commits, Commit, Apply, Current, TypeOK
          <6>3. QED
            BY <5>1, <6>2 DEF Commit, Apply, TypeOK
        <5>2. QED
          BY <5>1 DEF Next, MigrateScan, MigrateWrite, CreateRun, GetRun, BeginTransition,
                      Abort, Overwrite, Crash, vars
      <4>3. QED
        BY <3>2, <4>1, <4>2 DEF LogComplete, OnlyTransitions
    <3>3. CASE ~Exists(r)
      <4>1. log[r] = <<>>
        BY <3>3 DEF LogBehind
      <4>2. ASSUME NEW w \in Writer, Commit(w) PROVE runs'[r] = runs[r]
        <5>1. pending[w].run # r
          BY <3>3, <4>2 DEF Commit, Carried, Exists
        <5>2. QED
          BY <4>2, <5>1 DEF Commit, Apply, TypeOK
      <4>3. ASSUME NEW w \in Writer, MigrateWrite(w) PROVE runs'[r] = runs[r]
        BY <4>3 DEF MigrateWrite, NothingLegacy, OnlyTransitions
      <4>4. ASSUME NEW w \in Writer, NEW state \in State PROVE ~Overwrite(w, state)
        BY DEF Overwrite, OnlyTransitions
      <4>5. PICK w \in Writer, state \in StartState : CreateRun(w, r, state)
        <5>1. ASSUME NEW w \in Writer, NEW q \in Run, NEW state \in StartState,
                     CreateRun(w, q, state), q # r
              PROVE  FALSE
          BY <2>1, <3>3, <5>1 DEF CreateRun, Exists, TypeOK
        <5>2. QED
          BY <2>1, <3>3, <4>2, <4>3, <4>4, <5>1
             DEF Next, MigrateScan, GetRun, BeginTransition, Abort, Crash, vars, Exists
      <4>6. runs'[r] = [state |-> state, version |-> 1, ended |-> FALSE] /\ log'[r] = <<>>
        BY <4>1, <4>5 DEF CreateRun, TypeOK
      <4>7. state \notin Terminal
        BY DEF StartState, Terminal
      <4>8. QED
        BY <4>6, <4>7
    <3>4. QED
      BY <3>1, <3>2, <3>3
  <2>2. ASSUME NEW v \in Writer, pending'[v] # None,
               runs'[pending'[v].run].version = pending'[v].version
        PROVE  pending'[v].ended <=> pending'[v].to \in Terminal
    <3>1. CASE pending'[v] = pending[v]
      <4>1. pending[v] \in Transition /\ Exists(pending[v].run)
            /\ pending[v].version <= runs[pending[v].run].version
        BY <2>2, <3>1 DEF Carried, TypeOK, Exists
      <4>2. runs[pending[v].run].version \in Nat /\ pending[v].version \in Nat
        BY <4>1, RunRow DEF Transition, Record, Version
      <4>3. runs'[pending[v].run] = runs[pending[v].run]
        BY <2>2, <3>1, <4>1, <4>2, ChangeBumpsVersion DEF Transition, OnlyTransitions
      <4>4. QED
        BY <2>2, <3>1, <4>3 DEF EndedCarried, Current
    <3>2. CASE pending'[v] # pending[v]
      <4>1. PICK w \in Writer, target \in State, event \in BOOLEAN :
              BeginTransition(w, target, event)
        BY <2>2, <3>2
           DEF Next, MigrateScan, MigrateWrite, CreateRun, GetRun, Commit, Apply, Abort,
               Overwrite, Crash, vars, TypeOK
      <4> DEFINE r == snapshot[w].run
      <4>2. /\ v = w
            /\ r \in Run /\ Exists(r)
            /\ runs[r].state \in State
            /\ target \in LegalTransitions(runs[r].state)
        BY <3>2, <4>1 DEF BeginTransition, TypeOK, Carried, Snapshot, Exists
      <4>3. /\ pending'[v].to = target
            /\ pending'[v].ended <=> (runs[r].ended \/ target \in Terminal)
        BY <4>1, <4>2 DEF BeginTransition, TypeOK
      <4>4. ~runs[r].ended
        BY <4>2, TerminalHasNoSuccessor DEF LogComplete, OnlyTransitions
      <4>5. QED
        BY <4>3, <4>4
    <3>3. QED
      BY <3>1, <3>2
  <2>3. QED
    BY <2>1, <2>2 DEF LogComplete, EndedCarried, Exists, Current
<1>3. QED
  BY <1>1, <1>2, BaseInvariant, CarriedInvariant, NothingLegacyInvariant, VersionNamesRecord,
     LogInvariant, PTL DEF Spec

-----------------------------------------------------------------------------
(***************************************************************************)
(* The refinement of RunHistory.                                           *)
(***************************************************************************)
\* What the tables show of the history, as ImplementsHistory reads it.
Path == [r \in Run |-> IF overwriters = {} THEN PathOf(r) ELSE <<>>]
Published == [r \in Run |-> IF overwriters = {} THEN outbox[r] ELSE <<>>]

LEMMA SameStates ==
    /\ History!State = State
    /\ \A s : History!LegalTransitions(s) = LegalTransitions(s)
BY DEF History!State, History!LaneState, History!SandboxState,
       History!LegalTransitions, History!LaneSuccessors, History!SandboxSuccessors,
       State, LaneState, SandboxState, LegalTransitions, LaneSuccessors, SandboxSuccessors

\* A run that a step leaves alone keeps its path.
LEMMA PathStays ==
    ASSUME NEW r \in Run, runs'[r] = runs[r], log'[r] = log[r]
    PROVE  PathOf(r)' = PathOf(r)
BY DEF PathOf, Exists

\* A run shows up in the path as it was created.
LEMMA CreationBegins ==
    ASSUME TypeOK, LogBehind, overwriters = {}, overwriters' = {}, NEW w \in Writer,
           NEW r \in Run, NEW state \in StartState, CreateRun(w, r, state)
    PROVE  History!Begin(r, state)
<1>1. ~Exists(r) /\ log[r] = <<>> /\ log' = log /\ outbox' = outbox
  BY DEF CreateRun, LogBehind
<1>2. runs'[r] = [state |-> state, version |-> 1, ended |-> FALSE]
  BY DEF CreateRun, TypeOK
<1>3. runs'[r] # NoRun /\ runs'[r].state = state
  <2>1. state \in State
    BY DEF StartState, State, LaneState, SandboxState
  <2>2. runs'[r] \in Record
    BY <1>2, <2>1 DEF Record, Version
  <2>3. runs'[r] # NoRun
    BY <2>2, RecordsExist
  <2>4. QED
    BY <1>2, <2>3
<1>4. PathOf(r) = <<>>
  BY <1>1 DEF PathOf
<1>5. PathOf(r)' = <<state>>
  BY <1>1, <1>3 DEF PathOf, Exists
<1>6. ASSUME NEW q \in Run, q # r PROVE PathOf(q)' = PathOf(q)
  <2>1. runs'[q] = runs[q] /\ log'[q] = log[q]
    BY <1>1, <1>6 DEF CreateRun, TypeOK
  <2>2. QED
    BY <2>1, PathStays
<1>7. QED
  BY <1>1, <1>4, <1>5, <1>6 DEF History!Begin

\* A commit lengthens the path of its run by a legal state, and publishes it
\* exactly if it carries an event.
LEMMA CommitAdvances ==
    ASSUME TypeOK, Carried, VersionNamesState, LogBehind, LogComplete, OnlyTransitions,
           overwriters' = {}, NEW w \in Writer, Commit(w),
           NEW r \in Run, NEW target \in State, NEW event \in BOOLEAN,
           pending[w].run = r, pending[w].to = target, pending[w].event = event
    PROVE  History!Advance(r, target, event)
<1> DEFINE t == pending[w]
           e == [from |-> t.from, to |-> t.to, version |-> t.version + 1, event |-> t.event]
           state(i) == IF i > 1 THEN log[r][i - 1].to
                       ELSE IF log[r] = <<>> THEN runs[r].state ELSE log[r][1].from
           later(i) == IF i > 1 THEN log'[r][i - 1].to
                       ELSE IF log'[r] = <<>> THEN runs'[r].state ELSE log'[r][1].from
<1>1. t \in Transition /\ Exists(r) /\ runs[r].version = t.version
  BY DEF Commit, Current, TypeOK, Carried, Transition, Exists
<1>2. runs[r].state = t.from /\ t.to \in LegalTransitions(t.from)
  BY <1>1 DEF Commit, VersionNamesState, OnlyTransitions, Carried
<1>3. /\ log' = [log EXCEPT ![r] = Append(@, e)]
      /\ outbox' = [outbox EXCEPT ![r] = IF t.event THEN Append(@, t.version + 1) ELSE @]
      /\ runs' = [runs EXCEPT ![r] = [state |-> t.to, version |-> t.version + 1,
                                      ended |-> t.ended]]
  BY DEF Commit, Apply
<1>4. log[r] \in Seq(Entry) /\ e \in Entry /\ log'[r] = Append(log[r], e)
  <2>1. log[r] \in Seq(Entry) /\ log'[r] = Append(log[r], e)
    BY <1>1, <1>3 DEF TypeOK
  <2>2. e \in Entry
    BY <1>1 DEF Transition, Entry, Version
  <2>3. QED
    BY <2>1, <2>2
<1>5. /\ t.version = Len(log[r]) + 1
      /\ log[r] # <<>> => log[r][Len(log[r])].to = t.from
  BY <1>1, <1>2 DEF LogComplete, OnlyTransitions
<1>6. Exists(r)'
  <2>1. runs'[r] \in Record
    BY <1>1, <1>3 DEF TypeOK, Transition, Record, Version
  <2>2. QED
    BY <2>1, RecordsExist DEF Exists
<1>7. /\ PathOf(r) \in Seq(State) /\ Len(PathOf(r)) = t.version
      /\ PathOf(r)[t.version] = t.from
  <2>1. PathOf(r) = [i \in 1 .. (Len(log[r]) + 1) |-> state(i)]
    BY <1>1 DEF PathOf
  <2>2. \A i \in 1 .. (Len(log[r]) + 1) : state(i) \in State
    <3>1. ASSUME NEW j \in 1 .. Len(log[r])
          PROVE  log[r][j].to \in State /\ log[r][j].from \in State
      <4>1. log[r][j] \in Entry
        BY <1>4
      <4>2. QED
        BY <4>1 DEF Entry
    <3>2. t.from \in State
      BY <1>1 DEF Transition
    <3>3. Len(log[r]) \in Nat /\ (log[r] # <<>> => 1 \in 1 .. Len(log[r]))
      BY <1>4
    <3>4. QED
      BY <1>2, <3>1, <3>2, <3>3
  <2>3. state(t.version) = t.from
    BY <1>2, <1>4, <1>5
  <2> HIDE DEF state
  <2>4. QED
    BY <1>1, <1>4, <1>5, <2>1, <2>2, <2>3 DEF Transition, Version
<1>8. PathOf(r)' = Append(PathOf(r), t.to)
  <2>1. PathOf(r) = [i \in 1 .. (Len(log[r]) + 1) |-> state(i)]
    BY <1>1 DEF PathOf
  <2>2. PathOf(r)' = [i \in 1 .. (Len(log'[r]) + 1) |-> later(i)]
    BY <1>6 DEF PathOf
  <2>3. Len(log'[r]) = Len(log[r]) + 1 /\ Len(log[r]) \in Nat /\ log'[r] # <<>>
    BY <1>4
  <2>4. ASSUME NEW i \in 1 .. (Len(log[r]) + 1) PROVE later(i) = state(i)
    <3>1. \A j \in 1 .. Len(log[r]) : log'[r][j] = log[r][j]
      BY <1>4
    <3>2. log[r] = <<>> => Len(log[r]) = 0 /\ log'[r][1] = e
      BY <1>4
    <3>3. log[r] # <<>> => 1 \in 1 .. Len(log[r])
      BY <1>4
    <3>4. e.from = t.from
      OBVIOUS
    <3>5. CASE i > 1
      BY <2>3, <3>1, <3>5
    <3>6. CASE i = 1
      BY <1>2, <2>3, <3>1, <3>2, <3>3, <3>4, <3>6
    <3>7. QED
      BY <2>3, <3>5, <3>6
  <2>5. later(Len(log[r]) + 2) = t.to
    BY <1>4, <2>3
  <2> HIDE DEF state, later
  <2>6. QED
    BY <1>7, <2>1, <2>2, <2>3, <2>4, <2>5
<1>9. ASSUME NEW q \in Run, q # r PROVE PathOf(q)' = PathOf(q)
  <2>1. runs'[q] = runs[q] /\ log'[q] = log[q]
    BY <1>3, <1>9 DEF TypeOK
  <2>2. QED
    BY <2>1, PathStays
<1>10. History!LegalTransitions(PathOf(r)[Len(PathOf(r))]) = LegalTransitions(t.from)
  BY <1>7, SameStates
<1>11. t.version + 1 = Len(PathOf(r)) + 1 /\ PathOf(r) # <<>> /\ overwriters = {}
  BY <1>1, <1>7 DEF OnlyTransitions, Transition, Version
<1> HIDE DEF e, state, later
<1>12. QED
  <2>1. /\ outbox \in [Run -> Seq(Version)] /\ target \in LegalTransitions(t.from)
        /\ t.to = target /\ t.event = event
    BY <1>2 DEF TypeOK
  <2>2. \A q \in Run : PathOf(q)' = IF q = r THEN Append(PathOf(r), target) ELSE PathOf(q)
    BY <1>8, <1>9, <2>1
  <2>3. \A q \in Run : outbox'[q] = IF q = r /\ event THEN Append(outbox[r], Len(PathOf(r)) + 1)
                                     ELSE outbox[q]
    BY <1>3, <1>11, <2>1
  <2> HIDE DEF t
  <2>4. QED
    BY <1>10, <1>11, <2>1, <2>2, <2>3 DEF History!Advance

\* Every step of the store is a step of the history, or none.
LEMMA HistoryStep ==
    ASSUME LegacyRun = {}, TypeOK, Carried, NothingLegacy, VersionNamesState, LogBehind,
           LogComplete, [Next]_vars
    PROVE  [History!Next]_<<Path, Published>>
<1>1. overwriters' = overwriters
  BY DEF Next, vars
<1>2. CASE overwriters # {}
  BY <1>1, <1>2 DEF Path, Published
<1>3. CASE overwriters = {}
  <2>1. ASSUME NEW w \in Writer, NEW r \in Run, NEW state \in StartState, CreateRun(w, r, state)
        PROVE  History!Next
    BY <1>1, <1>3, <2>1, CreationBegins DEF History!Next
  <2>2. ASSUME NEW w \in Writer, Commit(w)
        PROVE  History!Next
    <3>1. pending[w] \in Transition
      BY <2>2 DEF Commit, TypeOK
    <3>2. PICK r \in Run, target \in State, event \in BOOLEAN :
            pending[w].run = r /\ pending[w].to = target /\ pending[w].event = event
      BY <3>1 DEF Transition
    <3>3. History!Advance(r, target, event)
      BY <1>1, <1>3, <2>2, <3>2, CommitAdvances DEF OnlyTransitions
    <3>4. target \in History!State
      BY SameStates
    <3>5. QED
      BY <3>3, <3>4 DEF History!Next
  <2>3. ASSUME runs' = runs, log' = log, outbox' = outbox
        PROVE  UNCHANGED <<Path, Published>>
    <3>1. \A r \in Run : PathOf(r)' = PathOf(r)
      BY <2>3, PathStays
    <3>2. QED
      BY <1>1, <2>3, <3>1 DEF Path, Published
  <2>4. ASSUME NEW w \in Writer, MigrateWrite(w)
        PROVE  runs' = runs
    BY <2>4 DEF MigrateWrite, NothingLegacy, TypeOK
  <2>5. ASSUME NEW w \in Writer, NEW state \in State
        PROVE  ~Overwrite(w, state)
    BY <1>3 DEF Overwrite
  <2>6. QED
    BY <2>1, <2>2, <2>3, <2>4, <2>5
       DEF Next, MigrateScan, MigrateWrite, GetRun, BeginTransition, Abort, Crash, vars
<1>4. QED
  BY <1>2, <1>3

\* Without old databases the store implements RunHistory: its tables show one legal
\* path per run, and every event with its transition, whatever the writers that
\* use transitions only do, lose or crash in.
THEOREM StoreImplementsHistory ==
    ASSUME LegacyRun = {}
    PROVE  Spec => ImplementsHistory
<1>1. Init => History!Init
  BY DEF Init, History!Init, PathOf, Exists
<1>2. /\ TypeOK /\ Carried /\ NothingLegacy /\ VersionNamesState /\ LogBehind /\ LogComplete
      /\ [Next]_vars
      => [History!Next]_<<Path, Published>>
  BY HistoryStep
<1>3. QED
  BY <1>1, <1>2, BaseInvariant, CarriedInvariant, NothingLegacyInvariant, VersionNamesRecord,
     LogInvariant, LogIsComplete, PTL DEF Spec, ImplementsHistory, History!Spec, Path, Published

=============================================================================
