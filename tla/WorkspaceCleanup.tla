--------------------------- MODULE WorkspaceCleanup ---------------------------
(***************************************************************************)
(* cleanup_authorized_workspaces (repo_health/worktrees.py): an inventory  *)
(* of the workspaces, then one authorized identity after the other is      *)
(* judged by its row, removed or not, and recorded in the ledger before    *)
(* the next.  Meanwhile others work in the workspaces, and the cleanup may *)
(* be killed, or fail to write, anywhere.                                  *)
(*                                                                         *)
(* The ledger is a file of lines.  Only the lines that tell a removal are  *)
(* ever read back, so it is kept as the identities of the whole ones and   *)
(* its tail: what an interrupted append left behind without a line end.    *)
(***************************************************************************)
EXTENDS Naturals, Sequences

CONSTANTS
    Workspace,      \* the workspaces, each the path of one repo/run/lane
    Condition,      \* what can be true of a workspace
    Blind,          \* the signals that may be unavailable together
    Authorizations, \* what a cleanup may be called with
    MaxCleanups,    \* cleanups (a bound of the model)
    MaxChanges,     \* changes of workspaces by others (a bound of the model)
    Torn,           \* half a line
    Nil

Truth ==
    [registration : {"registered", "unregistered"}, existence : {"present", "missing"},
     dirtiness : {"clean", "dirty"}, head : {"branch", "detached"},
     upstream : {"up_to_date", "behind"}, reachability : {"reachable", "unreachable"},
     lease : {"active", "expired", "absent"}, process : {"present", "absent"},
     session : {"present", "absent"}, disk : {"measured"}]

Signal == {"registration", "existence", "dirtiness", "head", "upstream",
           "reachability", "lease", "process", "session", "disk"}

CleanupOutcome == {"removed", "already_absent", "skipped_completed", "refused"}
Receipt == [identity : Workspace, outcome : CleanupOutcome]
Finding == [truth : Condition \cup {Nil}, blind : Blind]

\* A process in a workspace: at its top, or below it where git tells the top; below
\* it where git does not answer; or in a repository nested in it.
Standing == [where : Workspace, place : {"known", "unanswered", "nested"}]

ConstantsFit ==
    /\ Condition \subseteq Truth
    /\ \A c \in Condition :
          /\ c.existence = "missing" => c.registration = "registered"
          /\ c.lease = "absent" => c.session = "absent"
    /\ Blind \subseteq SUBSET Signal
    /\ Authorizations \subseteq Seq(Workspace) \ {<<>>}
    /\ MaxCleanups \in Nat /\ MaxChanges \in Nat
    /\ Nil # Torn
    /\ Nil \notin Workspace \cup Truth \cup Receipt \cup Finding \cup Standing
    /\ Torn \notin Receipt

ASSUME CleanupAssumption == ConstantsFit

VARIABLES
    world,     \* world[i]: what is true of workspace i, or Nil: nothing is there
    whole,     \* the identities of the whole lines that say removed
    unended,   \* Nil, or the last line without its end: Torn, or a receipt
    step,      \* where the cleanup is
    queue,     \* the authorizations from the present one on
    completed, \* the identities it takes for removed
    unread,    \* the workspaces its inventory has not come to
    seen,      \* seen[i]: what was true and what unreadable then, or Nil
    occupied,  \* where the process stands, or Nil: in none of the workspaces
    remover,   \* a worktree_remover was given
    removed,   \* the workspace dealt with was removed by the present cleanup
    entry,     \* what is being recorded, or Nil
    cleanups,
    changes,
    removals,  \* identities that were ever removed by a cleanup (history)
    told,      \* identities a cleanup has recorded as removed (history)
    swallowed, \* those whose line an append to a torn line destroyed (history)
    unseen,    \* removals whose cleanup did not live, or see, to record (history)
    changed,   \* the workspaces others have changed since they were looked at (history)
    overlooked \* removals the present cleanup could not read in the ledger (history)

setting == <<occupied, remover, overlooked>>
process == <<step, queue, completed, unread, seen, setting, removed, entry, cleanups>>
ledger == <<whole, unended>>
others == <<changes, changed>>
cleanupHistory == <<removals, told, swallowed, unseen>>
cleanupVars == <<world, ledger, process, others, cleanupHistory>>

CleanupInit ==
    /\ world \in [Workspace -> Condition \cup {Nil}]
    /\ whole = {}
    /\ unended = Nil
    /\ step = "idle"
    /\ queue = <<>>
    /\ completed = {}
    /\ unread = {}
    /\ seen = [i \in Workspace |-> Nil]
    /\ occupied = Nil
    /\ remover = FALSE
    /\ removed = FALSE
    /\ entry = Nil
    /\ cleanups = 0
    /\ changes = 0
    /\ removals = {} /\ told = {} /\ swallowed = {} /\ unseen = {}
    /\ changed = {} /\ overlooked = {}

-----------------------------------------------------------------------------
(* Rows and what is concluded from them.                                   *)

\* Nothing but its registration can be read of a missing workspace, and the
\* reachability of the pinned commit only with a manifest.
Unread(truth, blind) ==
    blind \cup (IF truth.existence = "missing"
                THEN {"dirtiness", "head", "upstream", "disk"} ELSE {})
          \cup (IF truth.lease = "absent" THEN {"reachability"} ELSE {})

Row(i) == [s \in Signal |-> IF s \in Unread(seen[i].truth, seen[i].blind) THEN "unknown"
                            ELSE seen[i].truth[s]]

\* The inventory finds what lies under the root and what git has registered.
HasRow(i) ==
    /\ seen[i].truth # Nil
    /\ seen[i].truth.existence = "present" \/ "registration" \notin seen[i].blind

\* _classify: a definite finding outranks what is unavailable.
Classification(row) ==
    IF row.registration = "unregistered" THEN "orphaned"
    ELSE IF row.existence = "missing" THEN "stale"
    ELSE IF row.reachability = "unreachable" THEN "orphaned"
    ELSE IF row.lease = "expired" THEN "stale"
    ELSE IF row.lease = "absent" THEN "unmanaged"
    ELSE IF \E s \in Signal : row[s] = "unknown" THEN "unknown"
    ELSE IF row.dirtiness = "dirty" THEN "dirty"
    ELSE IF row.head = "detached" THEN "detached"
    ELSE IF row.upstream = "behind" \/ row.session = "absent" THEN "stale"
    ELSE "healthy"

\* Mutant: what could not be read is not held against a removal.
RemovableUnread(row) ==
    /\ row.dirtiness # "dirty"
    /\ row.head # "detached"
    /\ row.lease # "active" /\ row.process # "present" /\ row.session # "present"
    /\ Classification(row) \in {"stale", "orphaned", "unmanaged"}

\* _refusal_reason finds none (the workspace it finds itself in apart).
Removable(row) ==
    /\ row.dirtiness = "clean"
    /\ row.head = "branch"
    /\ row.lease # "active" /\ row.process # "present" /\ row.session # "present"
    /\ Classification(row) \in {"stale", "orphaned", "unmanaged"}

-----------------------------------------------------------------------------
Told(line) == IF line \in Receipt /\ line.outcome = "removed" THEN {line.identity} ELSE {}

\* read_cleanup_receipts: a line that cannot be parsed is skipped, a whole one
\* counts with or without its end.
Completed == whole \cup Told(unended)

\* A ledger that cannot be read counts as empty.
Start(authorizations, standing, legible, available) ==
    /\ step = "idle"
    /\ cleanups < MaxCleanups
    /\ cleanups' = cleanups + 1
    /\ queue' = authorizations
    /\ completed' = IF legible THEN Completed ELSE {}
    /\ overlooked' = IF legible THEN {} ELSE Completed
    /\ unread' = {authorizations[n] : n \in DOMAIN authorizations}
    /\ occupied' = standing
    /\ remover' = available
    /\ step' = "inventory"
    /\ UNCHANGED <<world, ledger, seen, removed, entry, others, cleanupHistory>>

\* One pass over the workspaces, one row at a time; the rows of those that are
\* not authorized are never looked at.
Inventory(i, blind) ==
    /\ step = "inventory"
    /\ i \in unread
    /\ seen' = [seen EXCEPT ![i] = [truth |-> world[i], blind |-> blind]]
    /\ unread' = unread \ {i}
    /\ step' = IF unread = {i} THEN "next" ELSE step
    /\ UNCHANGED <<world, ledger, queue, completed, setting, removed, entry,
                   cleanups, others, cleanupHistory>>

Recording(i, outcome) ==
    /\ entry' = [identity |-> i, outcome |-> outcome]
    /\ step' = "recording"

SkipCompleted ==
    /\ step = "next" /\ queue # <<>>
    /\ Head(queue) \in completed
    /\ Recording(Head(queue), "skipped_completed")
    /\ UNCHANGED <<world, ledger, queue, completed, unread, seen, setting, removed,
                   cleanups, others, cleanupHistory>>

NoWorkspace ==
    /\ step = "next" /\ queue # <<>>
    /\ Head(queue) \notin completed
    /\ ~HasRow(Head(queue))
    /\ LET there == world[Head(queue)] # Nil /\ world[Head(queue)].existence = "present"
       IN Recording(Head(queue), IF there THEN "refused" ELSE "already_absent")
    /\ UNCHANGED <<world, ledger, queue, completed, unread, seen, setting, removed,
                   cleanups, others, cleanupHistory>>

\* _current_locations: the working directory, and the top of its checkout.
FindsItselfIn(i) == occupied = [where |-> i, place |-> "known"]

Cleared(i) == ~FindsItselfIn(i) /\ Removable(Row(i)) /\ remover

Refuse ==
    /\ step = "next" /\ queue # <<>>
    /\ Head(queue) \notin completed
    /\ HasRow(Head(queue))
    /\ ~Cleared(Head(queue))
    /\ Recording(Head(queue), "refused")
    /\ UNCHANGED <<world, ledger, queue, completed, unread, seen, setting, removed,
                   cleanups, others, cleanupHistory>>

CallRemover ==
    /\ step = "next" /\ queue # <<>>
    /\ Head(queue) \notin completed
    /\ HasRow(Head(queue))
    /\ Cleared(Head(queue))
    /\ step' = "removing"
    /\ UNCHANGED <<world, ledger, queue, completed, unread, seen, setting, removed,
                   entry, cleanups, others, cleanupHistory>>

-----------------------------------------------------------------------------
(* The remover, and what others do to the workspaces.                      *)

Disappear ==
    /\ step = "removing"
    /\ ~removed
    /\ world[Head(queue)] # Nil
    /\ world' = [world EXCEPT ![Head(queue)] = Nil]
    /\ removed' = TRUE
    /\ removals' = removals \cup {Head(queue)}
    /\ UNCHANGED <<ledger, step, queue, completed, unread, seen, setting, entry, cleanups,
                   others, told, swallowed, unseen>>

\* True if it has removed the workspace, False if there was none.
RemoverReturns ==
    /\ step = "removing"
    /\ \/ removed /\ Recording(Head(queue), "removed")
       \/ ~removed /\ world[Head(queue)] = Nil /\ Recording(Head(queue), "already_absent")
    /\ UNCHANGED <<world, ledger, queue, completed, unread, seen, setting, removed,
                   cleanups, others, cleanupHistory>>

\* What a cleanup that ends here leaves unrecorded.
Unseen == IF removed THEN {Head(queue)} ELSE {}

\* An OSError of the remover is taken for an absent workspace, whatever it has done.
RemoverRaises ==
    /\ step = "removing"
    /\ Recording(Head(queue), "already_absent")
    /\ unseen' = unseen \cup Unseen
    /\ UNCHANGED <<world, ledger, queue, completed, unread, seen, setting, removed,
                   cleanups, others, removals, told, swallowed>>

Change(i, condition) ==
    /\ changes < MaxChanges
    /\ condition # world[i]
    /\ changes' = changes + 1
    /\ world' = [world EXCEPT ![i] = condition]
    /\ changed' = IF seen[i] = Nil THEN changed ELSE changed \cup {i}
    /\ UNCHANGED <<ledger, process, cleanupHistory>>

-----------------------------------------------------------------------------
(* The ledger.                                                             *)

\* What an append destroys: the line it continues, if that was whole, and its own.
Swallowed == (Told(unended) \cup Told(entry)) \ whole

\* _append_receipt: the line, its end, flush and fsync; behind a torn line it
\* becomes the rest of that.
AppendReceipt ==
    /\ unended' = Nil
    /\ IF unended = Nil
       THEN whole' = whole \cup Told(entry) /\ UNCHANGED swallowed
       ELSE swallowed' = swallowed \cup Swallowed /\ UNCHANGED whole

\* Mutant: the receipt goes to the report alone.
RecordReported ==
    /\ step = "recording"
    /\ told' = told \cup Told(entry)
    /\ completed' = completed \cup Told(entry)
    /\ entry' = Nil
    /\ removed' = FALSE
    /\ queue' = Tail(queue)
    /\ step' = "next"
    /\ UNCHANGED <<world, ledger, unread, seen, setting, cleanups, others,
                   removals, swallowed, unseen>>

RecordReceipt ==
    /\ step = "recording"
    /\ AppendReceipt
    /\ told' = told \cup Told(entry)
    /\ completed' = completed \cup Told(entry)
    /\ entry' = Nil
    /\ removed' = FALSE
    /\ queue' = Tail(queue)
    /\ step' = "next"
    /\ UNCHANGED <<world, unread, seen, setting, cleanups, others,
                   removals, unseen>>

\* The cleanup is over: nothing of it stays but the ledger.
Idle ==
    /\ step' = "idle"
    /\ queue' = <<>>
    /\ completed' = {}
    /\ unread' = {}
    /\ seen' = [i \in Workspace |-> Nil]
    /\ occupied' = Nil
    /\ remover' = FALSE
    /\ removed' = FALSE
    /\ entry' = Nil
    /\ changed' = {} /\ overlooked' = {}
    /\ UNCHANGED <<cleanups, changes>>

Return ==
    /\ step = "next"
    /\ queue = <<>>
    /\ Idle
    /\ UNCHANGED <<world, ledger, cleanupHistory>>

\* The process is killed, or an exception passes through it.
Killed ==
    /\ step # "idle"
    /\ Idle
    /\ unseen' = unseen \cup Unseen
    /\ UNCHANGED <<world, ledger, removals, told, swallowed>>

\* Killed, or out of disk space, in the middle of an append: half a line is
\* left, or a line without its end.
TornAppend(left) ==
    /\ step = "recording"
    /\ unended' = IF unended = Nil THEN left ELSE Torn
    /\ unseen' = unseen \cup Unseen
    /\ swallowed' = IF unended = Nil THEN swallowed ELSE swallowed \cup Swallowed
    /\ Idle
    /\ UNCHANGED <<world, whole, removals, told>>

-----------------------------------------------------------------------------
\* A process in a workspace it may not remove is as good as one in none of them.
StandingAmong(authorizations) ==
    {standing \in Standing : \E n \in DOMAIN authorizations : authorizations[n] = standing.where}

CleanupNext ==
    \/ \E authorizations \in Authorizations :
          \E standing \in StandingAmong(authorizations) \cup {Nil},
             legible \in BOOLEAN, available \in BOOLEAN :
                Start(authorizations, standing, legible, available)
    \/ \E i \in Workspace, blind \in Blind : Inventory(i, blind)
    \/ SkipCompleted \/ NoWorkspace \/ Refuse \/ CallRemover
    \/ Disappear \/ RemoverReturns \/ RemoverRaises
    \/ \E i \in Workspace, condition \in Condition \cup {Nil} : Change(i, condition)
    \/ RecordReceipt \/ Return \/ Killed
    \/ \E left \in {Torn, entry} : TornAppend(left)

CleanupSpec == CleanupInit /\ [][CleanupNext]_cleanupVars

-----------------------------------------------------------------------------
\* Types of the workspaces, the ledger and what a cleanup holds.
CleanupTypeOK ==
    /\ world \in [Workspace -> Condition \cup {Nil}]
    /\ whole \subseteq Workspace
    /\ unended \in {Nil, Torn} \cup Receipt
    /\ step \in {"idle", "inventory", "next", "removing", "recording"}
    /\ queue \in Seq(Workspace)
    /\ completed \subseteq Workspace
    /\ unread \subseteq Workspace
    /\ seen \in [Workspace -> Finding \cup {Nil}]
    /\ occupied \in Standing \cup {Nil}
    /\ remover \in BOOLEAN /\ removed \in BOOLEAN
    /\ entry \in Receipt \cup {Nil}
    /\ cleanups \in 0 .. MaxCleanups /\ changes \in 0 .. MaxChanges
    /\ removals \subseteq Workspace /\ told \subseteq Workspace
    /\ swallowed \subseteq Workspace /\ unseen \subseteq Workspace
    /\ changed \subseteq Workspace /\ overlooked \subseteq Workspace

\* "Facts gate removal, fail-closed": the remover is only called for a workspace
\* whose tree was clean, whose head was a branch and in which nobody was known to
\* work when this cleanup looked at it, and which is still as it was then, or gone,
\* unless others have changed it since.  A lease, process or session that was there
\* could not be read; and the process stands in the workspace only where it cannot
\* tell: in a repository nested in it, or below its top while git does not answer.
RemovalSparesWork ==
    step = "removing" =>
        LET i == Head(queue)
            truth == seen[i].truth
        IN /\ truth # Nil /\ truth.existence = "present"
           /\ truth.dirtiness = "clean" /\ truth.head = "branch"
           /\ truth.lease = "active" => "lease" \in seen[i].blind
           /\ truth.process = "present" => "process" \in seen[i].blind
           /\ truth.session = "present" => "session" \in seen[i].blind
           /\ i \in changed \/ world[i] \in {truth, Nil}
           /\ occupied # Nil /\ occupied.where = i =>
                 occupied.place \in {"nested", "unanswered"}

\* "The receipt is the ledger": it tells no removal that did not happen, it lacks
\* one that did only if the cleanup did not come to record it or a torn line has
\* swallowed it, and a removal that was recorded is not attempted again, although
\* the workspace may be there again, unless its line was swallowed or the ledger
\* could not be read.
LedgerTellsRemovals ==
    /\ Completed \subseteq removals
    /\ removals \subseteq Completed \cup swallowed \cup unseen \cup Unseen
    /\ step = "removing" => Head(queue) \notin told \ (swallowed \cup overlooked)
===============================================================================
