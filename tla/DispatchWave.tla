----------------------------- MODULE DispatchWave -----------------------------
(***************************************************************************)
(* One wave of the operator dispatch (OperatorDispatchApplication.dispatch *)
(* of dispatch/application.py): a worktree for every mutating lane, the    *)
(* launch groups, the failure policy with its correction rounds, and the   *)
(* release of the worktrees on every way out.                              *)
(*                                                                         *)
(* What happens inside one group is in DispatchGroup; here it is one step  *)
(* from the start of its workers to their outcomes, or an exception that   *)
(* may leave workers running.  Lanes are their positions in the sequence.  *)
(* A worker is what LaunchGroup takes for one: a descendant that has let go*)
(* of its pipes is none, and may be at work when the group is over.        *)
(***************************************************************************)
EXTENDS Naturals, FiniteSets, SequencesExt

CONSTANTS
    MaxLane,    \* the largest number of mutating lanes
    Repo,       \* the repositories of the lanes
    MaxBudget   \* the largest max_retries and max_correction_rounds_per_wave

ASSUME WaveAssumption == MaxLane \in Nat \ {0} /\ Repo # {} /\ MaxBudget \in Nat

\* A run that did not succeed is typed when it has a machine outcome, a refused
\* preflight or missing evidence, untyped when a launch seam reports nothing but
\* that it failed.
Outcome == {"done", "typed", "untyped"}

VARIABLES
    size,       \* the mutating lanes of the wave are 1 .. size
    repo,       \* repo[l]: the repository lane l works on
    inPlace,    \* the lanes without a command
    blocked,    \* the lanes that fail their preflight, whenever they are tried
    maxParallel, policy, maxRetries, maxRounds,     \* of the sequence and the profile
    observer,   \* there is none, or the wave goes on without it or does not
    lost,       \* a required observer could not be started, or saw nothing
    tree,       \* tree[l]: the worktree of lane l
    made,       \* provisioned_lanes is <<1, ..., made>>
    left,       \* the groups that are still to be launched in this round
    running,    \* the lanes with a live worker
    log,        \* log[l]: the outcomes of the runs of lane l (the receipt log)
    rounds,     \* the correction rounds begun
    halted,
    erred,      \* an exception is on its way out
    pc,
    at          \* the lane whose worktree is made or released

given == <<size, repo, inPlace, blocked, maxParallel, policy, maxRetries, maxRounds, observer>>
trees == <<tree, made, at>>
rest == <<left, running, log, rounds>>
verdict == <<lost, halted, erred>>
vars == <<given, trees, rest, verdict, pc>>

Lane == 1 .. size
Launchable == Lane \ inPlace

Init ==
    /\ size \in 1 .. MaxLane
    /\ repo \in [Lane -> Repo]
    /\ inPlace \in SUBSET Lane
    /\ blocked \in SUBSET Launchable
    /\ maxParallel \in 1 .. size
    /\ policy \in {"skip", "retry", "abort"}
    /\ maxRetries \in 0 .. MaxBudget
    /\ maxRounds \in 0 .. MaxBudget
    /\ observer \in {"none", "optional", "required"}
    /\ lost = FALSE /\ halted = FALSE /\ erred = FALSE
    /\ tree = [l \in Lane |-> "none"]
    /\ made = 0
    /\ at = 1
    /\ left = <<>>
    /\ running = {}
    /\ log = [l \in Lane |-> <<>>]
    /\ rounds = 0
    /\ pc = "observe"

\* The way out: the releases start with the first lane that was provisioned.
ToRelease(err) ==
    /\ erred' = err
    /\ pc' = "release"
    /\ at' = 1

-----------------------------------------------------------------------------
(* Before any worker.                                                      *)

ObserverStarts ==
    /\ pc = "observe"
    /\ pc' = "provision"
    /\ UNCHANGED <<given, trees, rest, verdict>>

\* A required observer that cannot be launched: the run returns as halted.
ObserverMissing ==
    /\ pc = "observe"
    /\ observer = "required"
    /\ lost' = TRUE
    /\ halted' = TRUE
    /\ pc' = "returned"
    /\ UNCHANGED <<given, trees, rest, erred>>

\* Mutant: lanes are grouped by number alone.
PareBySize(groups, l) ==
    IF groups # <<>> /\ Cardinality(Last(groups)) < maxParallel
    THEN [groups EXCEPT ![Len(groups)] = @ \cup {l}]
    ELSE Append(groups, {l})

\* _pare_lanes, one lane: it joins the last group unless that group is full or has
\* a lane of its repository.
Pare(groups, l) ==
    IF groups # <<>> /\ Cardinality(Last(groups)) < maxParallel
          /\ \A k \in Last(groups) : repo[k] # repo[l]
    THEN [groups EXCEPT ![Len(groups)] = @ \cup {l}]
    ELSE Append(groups, {l})

\* provision() returns a tree at the declared base.  The groups are those of all lanes;
\* they depend on nothing that happens here, so each lane is put to its group at once.
Provision ==
    /\ pc = "provision"
    /\ tree' = [tree EXCEPT ![at] = "attested"]
    /\ made' = at
    /\ left' = Pare(left, at)
    /\ IF at < size THEN at' = at + 1 /\ UNCHANGED pc
       ELSE pc' = "launch" /\ UNCHANGED at
    /\ UNCHANGED <<given, running, log, rounds, verdict>>

\* acquire() raises, before `git worktree add' made anything, or behind it: HEAD is
\* not the pin, the checkout fails, the branch is another.
AcquireFails(behindAdd) ==
    /\ pc = "provision"
    /\ tree' = [tree EXCEPT ![at] = IF behindAdd THEN "partial" ELSE @]
    /\ ToRelease(TRUE)
    /\ UNCHANGED <<given, made, rest, lost, halted>>

\* Mutant: the lane is noted only when its base was found right.
BaseDiffersUnnoted ==
    /\ pc = "provision"
    /\ tree' = [tree EXCEPT ![at] = "other"]
    /\ ToRelease(TRUE)
    /\ UNCHANGED <<given, made, rest, lost, halted>>

\* The attested base is not the declared one (a tag object resolves to its commit).
BaseDiffers ==
    /\ pc = "provision"
    /\ tree' = [tree EXCEPT ![at] = "other"]
    /\ made' = at
    /\ ToRelease(TRUE)
    /\ UNCHANGED <<given, rest, lost, halted>>

-----------------------------------------------------------------------------
(* The groups of a round: _fanout_group for several lanes, _run_lane for   *)
(* one, which is the form of all groups of a correction round.             *)

\* Blocked lanes are recorded before any worker of the group starts.
StartGroup ==
    /\ pc = "launch"
    /\ left # <<>>
    /\ LET group == Head(left) \ inPlace
       IN /\ running' = group \ blocked
          /\ log' = [l \in Lane |-> IF l \in group \cap blocked THEN Append(log[l], "typed")
                                    ELSE log[l]]
    /\ pc' = "working"
    /\ UNCHANGED <<given, trees, left, rounds, verdict>>

EndGroup(outcome) ==
    /\ pc = "working"
    /\ log' = [l \in Lane |-> IF l \in running THEN Append(log[l], outcome[l]) ELSE log[l]]
    /\ running' = {}
    /\ left' = Tail(left)
    /\ pc' = "launch"
    /\ UNCHANGED <<given, trees, rounds, verdict>>

\* The group ends with an exception and perhaps leaves workers behind, as an
\* observer of a single lane does, or an evidence store in a group.
GroupRaises(alive) ==
    /\ pc = "working"
    /\ running' = alive
    /\ ToRelease(TRUE)
    /\ UNCHANGED <<given, tree, made, left, log, rounds, lost, halted>>

-----------------------------------------------------------------------------
(* The failure policy.                                                     *)

FailedAs(outcome) == {l \in Launchable : Last(log[l]) = outcome}
Typed == FailedAs("typed")
Legacy == FailedAs("untyped")

\* typed_eligible.
Eligible == IF policy = "retry" /\ rounds < maxRetries THEN Typed ELSE {}

\* Judged once, before the first correction round.
Aborts == rounds = 0 /\ policy = "abort" /\ Typed # {}

\* The lanes of S in the order of the sequence, each a group of its own.
InOrder(S) ==
    CHOOSE lanes \in Bijection(1 .. Cardinality(S), S) :
        \A i, j \in 1 .. Cardinality(S) : i < j => lanes[i] < lanes[j]
Singly(S) == [i \in 1 .. Cardinality(S) |-> {InOrder(S)[i]}]

RoundIsOver == pc = "launch" /\ left = <<>>

Abort ==
    /\ RoundIsOver
    /\ Aborts
    /\ halted' = TRUE
    /\ pc' = "watch"
    /\ UNCHANGED <<given, trees, rest, lost, erred>>

Correct ==
    /\ RoundIsOver
    /\ ~Aborts
    /\ Legacy \cup Eligible # {}
    /\ rounds < maxRounds
    /\ rounds' = rounds + 1
    /\ left' = Singly(Legacy) \o Singly(Eligible)
    /\ UNCHANGED <<given, trees, running, log, verdict, pc>>

\* Mutant: whoever is left halts only where retries were allowed.
SettleTyped ==
    /\ RoundIsOver
    /\ ~Aborts
    /\ Legacy \cup Eligible = {} \/ rounds = maxRounds
    /\ halted' = (policy = "retry" /\ Typed # {})
    /\ pc' = "watch"
    /\ UNCHANGED <<given, trees, rest, lost, erred>>

Settle ==
    /\ RoundIsOver
    /\ ~Aborts
    /\ Legacy \cup Eligible = {} \/ rounds = maxRounds
    /\ halted' = (Legacy # {} \/ (policy = "retry" /\ Typed # {}))
    /\ pc' = "watch"
    /\ UNCHANGED <<given, trees, rest, lost, erred>>

\* The stream refuses the halt event.
HaltEventRefused ==
    /\ pc = "watch"
    /\ halted
    /\ ToRelease(TRUE)
    /\ UNCHANGED <<given, tree, made, rest, lost, halted>>

Observe(seen) ==
    /\ pc = "watch"
    /\ seen \/ observer = "required"
    /\ lost' = ~seen
    /\ halted' = (halted \/ ~seen)
    /\ ToRelease(FALSE)
    /\ UNCHANGED <<given, tree, made, rest>>

-----------------------------------------------------------------------------
(* The finally clause.                                                     *)

ReleaseTree ==
    /\ pc = "release"
    /\ at <= made
    /\ tree' = [tree EXCEPT ![at] = "none"]
    /\ at' = at + 1
    /\ UNCHANGED <<given, made, rest, verdict, pc>>

\* `git worktree remove' fails: the trees behind this one are not released either.
ReleaseFails ==
    /\ pc = "release"
    /\ at <= made
    /\ erred' = TRUE
    /\ pc' = "close"
    /\ UNCHANGED <<given, trees, rest, lost, halted>>

ReleasesEnd ==
    /\ pc = "release"
    /\ at > made
    /\ pc' = "close"
    /\ UNCHANGED <<given, trees, rest, verdict>>

\* observer.close(), and the end of the call.
Close(fails) ==
    /\ pc = "close"
    /\ fails => observer # "none"
    /\ erred' = (erred \/ fails)
    /\ pc' = IF erred' THEN "raised" ELSE "returned"
    /\ UNCHANGED <<given, trees, rest, lost, halted>>

Next ==
    \/ ObserverStarts \/ ObserverMissing
    \/ Provision \/ (\E behindAdd \in BOOLEAN : AcquireFails(behindAdd)) \/ BaseDiffers
    \/ StartGroup
    \/ \E outcome \in [running -> Outcome] : EndGroup(outcome)
    \/ \E alive \in SUBSET running : GroupRaises(alive)
    \/ Abort \/ Correct \/ Settle \/ HaltEventRefused
    \/ \E seen \in BOOLEAN : Observe(seen)
    \/ ReleaseTree \/ ReleaseFails \/ ReleasesEnd
    \/ \E fails \in BOOLEAN : Close(fails)

Spec == Init /\ [][Next]_vars

-----------------------------------------------------------------------------
\* Types of the wave, its trees, its groups and its verdict.
TypeOK ==
    /\ size \in 1 .. MaxLane
    /\ repo \in [Lane -> Repo]
    /\ inPlace \subseteq Lane
    /\ blocked \subseteq Launchable
    /\ maxParallel \in 1 .. size
    /\ policy \in {"skip", "retry", "abort"}
    /\ {maxRetries, maxRounds} \subseteq 0 .. MaxBudget
    /\ observer \in {"none", "optional", "required"}
    /\ {lost, halted, erred} \subseteq BOOLEAN
    /\ tree \in [Lane -> {"none", "attested", "other", "partial"}]
    /\ made \in 0 .. size
    /\ left \in Seq(SUBSET Lane)
    /\ running \subseteq Launchable \ blocked
    /\ log \in [Lane -> Seq(Outcome)]
    /\ rounds \in 0 .. maxRounds
    /\ pc \in {"observe", "provision", "launch", "working", "watch", "release", "close",
               "returned", "raised"}
    /\ at \in 1 .. size + 1

\* "a base mismatch blocks before any child starts", "lanes sharing a repo are
\* mutually exclusive over the workspace", "max_parallel caps a group's size": while
\* the wave is at work every lane has its tree at the declared base, the workers are
\* on different repositories and no more than allowed.  A worker outlives its group,
\* and may lose its tree, only where the group raised.
WorkersAreApart ==
    /\ running # {} => pc = "working" \/ erred
    /\ pc = "working" =>
          /\ \A l \in Lane : tree[l] = "attested"
          /\ \A l, k \in running : l # k => repo[l] # repo[k]
          /\ Cardinality(running) <= maxParallel

\* "must release exactly the lanes it created, never a lane whose provision never
\* returned": when the call is over a tree is left only if it raised, and then only
\* the one acquire() made and gave up, or those from a failed release on.
TreesAreReleased ==
    pc \in {"returned", "raised"} =>
        \A l \in Lane : tree[l] # "none" =>
            /\ pc = "raised"
            /\ \/ tree[l] = "partial" /\ l = made + 1
               \/ at <= l /\ l <= made

\* A lane is run again only after an untyped failure, or a typed one that the retry
\* policy still allows in that round; never beyond the rounds of the wave, and never
\* where the first round was aborted.
RetriesAreAllowed ==
    \A l \in Lane :
        /\ Len(log[l]) <= maxRounds + 1
        /\ \A k \in 1 .. Len(log[l]) - 1 :
              /\ \/ log[l][k] = "untyped"
                 \/ log[l][k] = "typed" /\ policy = "retry" /\ k <= maxRetries
              /\ policy = "abort" => \A j \in Launchable : log[j][1] # "typed"

\* A lane is given up only when no run was left for it.
RetriesAreSpent ==
    \A l \in Launchable :
        CASE Last(log[l]) = "untyped" ->
                \/ Len(log[l]) = maxRounds + 1
                \/ policy = "abort" /\ \E j \in Launchable : log[j][1] = "typed"
          [] Last(log[l]) = "typed" /\ policy = "retry" ->
                Len(log[l]) > maxRetries \/ Len(log[l]) = maxRounds + 1
          [] OTHER -> TRUE

\* What a returned wave says is what its lanes did: it is not halted only if every
\* lane was run and is done, failed typed under skip, or failed typed under abort in
\* a correction round, after an untyped failure (abort is judged before them only);
\* and it is halted only for a lost observer or a lane that is not done.  Retries
\* are made as far as the budget goes and no further.
VerdictTellsLanes ==
    /\ RetriesAreAllowed
    /\ pc = "returned" /\ ~halted =>
          \A l \in Launchable :
              /\ log[l] # <<>>
              /\ \/ Last(log[l]) = "done"
                 \/ Last(log[l]) = "typed" /\ policy = "skip"
                 \/ Last(log[l]) = "typed" /\ policy = "abort" /\ log[l][1] = "untyped"
    /\ pc = "returned" /\ ~lost =>
          /\ RetriesAreSpent
          /\ halted => Typed \cup Legacy # {}
===============================================================================
