------------------------ MODULE CloseoutTransaction ------------------------
(***************************************************************************)
(* The removal of authorized workspaces (closeout_transaction.py): one     *)
(* process at a time drives identities through journalled states, may die  *)
(* at any point, also in the middle of a journal write, and is run again.  *)
(*                                                                         *)
(* Only the last record of an identity is ever used, so the journal file   *)
(* is its last terminated record per identity, and a tail: what follows    *)
(* the last line end.  A torn write leaves a partial record there, or a    *)
(* whole one that lacks its line end; the next append continues that line, *)
(* which is then decodable no more, and the reader skips it.               *)
(***************************************************************************)
EXTENDS Naturals

CONSTANTS
    Identity,
    MaxRuns,    \* no run starts after this many (a bound of the model)
    Partial, None

ASSUME MaxRunsAssumption == MaxRuns \in Nat

State == {"PLANNED", "MUTATING", "MUTATED", "PRESERVED", "INTERRUPTED"}
Reason == {"authorized", "entering_removal", "removed", "policy",
           "interrupted_unproven", "absent_unverified"}
Record ==
    {r \in [identity : Identity, state : State, reason : Reason] :
       r.reason = "removed" <=> r.state = "MUTATED"}
Kind == {"REMOVED", "HELD", "INTERRUPTED"}

ASSUME NoneAssumption ==
    /\ None \notin Record \cup {Partial} \cup Kind
    /\ None \notin [Identity -> Kind \cup {None}]
    /\ Partial \notin Record

VARIABLES
    present,    \* the identities whose workspace is on disk
    durable,    \* durable[i]: i's last terminated record, or None
    tail,       \* None, Partial, or a whole record without its line end
    pc,         \* where the process is, "idle" between runs
    authorized, \* the identities of the current or last run
    todo,       \* the ones of them that are still to come
    prior,      \* prior[i]: i's record when the run read the journal
    pending,    \* the record about to be appended, or removed for, or None
    receipt,    \* receipt[i]: i's kind in the receipt of the last run, or None
    runs,       \* the number of runs so far
    attempted, landed, doubtful, lost, settles    \* history, see below

(* attempted: the remover was called; landed: it removed the workspace;     *)
(* doubtful: it raised, or the process died in it; lost: journal records    *)
(* disappeared; settles: the run began with a journal that ends in a line.  *)

vars == <<present, durable, tail, pc, authorized, todo, prior, pending, receipt,
          runs, attempted, landed, doubtful, lost, settles>>
history == <<attempted, landed, doubtful, lost>>

Rec(i, state, reason) == [identity |-> i, state |-> state, reason |-> reason]

\* read_journal and _latest_states.
Latest(i) ==
    IF tail \in Record /\ tail.identity = i THEN tail ELSE durable[i]

StateOf(record) == IF record = None THEN "none" ELSE record.state

Init ==
    /\ present \in SUBSET Identity
    /\ durable = [i \in Identity |-> None]
    /\ tail = None
    /\ pc = "idle"
    /\ authorized = {}
    /\ todo = {}
    /\ prior = [i \in Identity |-> None]
    /\ pending = None
    /\ receipt = None
    /\ runs = 0
    /\ attempted = {}
    /\ landed = {}
    /\ doubtful = {}
    /\ lost = FALSE
    /\ settles = FALSE

StartRun(ids) ==
    /\ pc = "idle"
    /\ runs < MaxRuns
    /\ runs' = runs + 1
    /\ authorized' = ids
    /\ todo' = ids
    /\ prior' = [i \in Identity |-> Latest(i)]
    /\ receipt' = None
    /\ settles' = (tail = None)
    /\ pc' = "loop"
    /\ UNCHANGED <<present, durable, tail, pending, history>>

\* Mutant: only a caught exception leaves a doubt.
UnprovenCaught == {"INTERRUPTED"}

\* _UNPROVEN_STATES: an attempt began and nothing proves how it ended.
Unproven == {"MUTATING", "INTERRUPTED"}

\* Mutant: a planned identity counts as dealt with.
DecidedWithPlan == {"PLANNED", "MUTATED", "PRESERVED"}

\* The recorded outcomes that a resume leaves alone.
Decided == {"MUTATED", "PRESERVED"}

Skip(i) ==
    /\ pc = "loop"
    /\ i \in todo
    /\ StateOf(prior[i]) \in Decided
    /\ todo' = todo \ {i}
    /\ UNCHANGED <<present, durable, tail, pc, authorized, prior, pending, receipt,
                   runs, history, settles>>

\* The next record of i is decided on, and is about to be appended.
Write(i, record) ==
    /\ todo' = todo \ {i}
    /\ pending' = record
    /\ pc' = "appending"
    /\ UNCHANGED <<present, durable, tail, authorized, prior, receipt, runs, history, settles>>

PreserveUnproven(i) ==
    /\ pc = "loop"
    /\ i \in todo
    /\ StateOf(prior[i]) \in Unproven
    /\ Write(i, Rec(i, "PRESERVED", "interrupted_unproven"))

Open(i) == StateOf(prior[i]) \notin Decided \cup Unproven

Present(i) == i \in present

PreserveAbsent(i) ==
    /\ pc = "loop"
    /\ i \in todo
    /\ Open(i)
    /\ ~Present(i)
    /\ Write(i, Rec(i, "PRESERVED", "absent_unverified"))

Plan(i) ==
    /\ pc = "loop"
    /\ i \in todo
    /\ Open(i)
    /\ Present(i)
    /\ Write(i, Rec(i, "PLANNED", "authorized"))

\* A terminated record, unless it continues a line that was torn before it.
AppendRecord(record) ==
    IF tail = None
    THEN durable' = [durable EXCEPT ![record.identity] = record] /\ UNCHANGED tail
    ELSE tail' = None /\ UNCHANGED durable

(***************************************************************************)
(* _append_journal.  The plan is followed by MUTATING, and that, once      *)
(* durable, by the remover; every other record ends the identity's turn.   *)
(***************************************************************************)
AppendPending ==
    /\ pc = "appending"
    /\ AppendRecord(pending)
    /\ CASE pending.state = "PLANNED" ->
              /\ pending' = Rec(pending.identity, "MUTATING", "entering_removal")
              /\ UNCHANGED pc
         [] pending.state = "MUTATING" -> pc' = "removing" /\ UNCHANGED pending
         [] OTHER -> pc' = "loop" /\ pending' = None
    /\ UNCHANGED <<present, authorized, todo, prior, receipt, runs, history, settles>>

Outcome(state, reason) ==
    /\ pending' = Rec(pending.identity, state, reason)
    /\ pc' = "appending"
    /\ attempted' = attempted \cup {pending.identity}
    /\ UNCHANGED <<durable, tail, authorized, todo, prior, receipt, runs, lost, settles>>

Land ==
    /\ present' = present \ {pending.identity}
    /\ landed' = landed \cup ({pending.identity} \cap present)

\* The remover returns True.
RemoveSucceeds ==
    /\ pc = "removing"
    /\ pending.identity \in present
    /\ Land
    /\ Outcome("MUTATED", "removed")
    /\ UNCHANGED doubtful

\* The policy holds, or finds the workspace gone already.
RemoveRefuses ==
    /\ pc = "removing"
    /\ Outcome("PRESERVED", "policy")
    /\ UNCHANGED <<present, landed, doubtful>>

\* The remover raises, before or after the workspace is gone.
RemoveRaises ==
    /\ pc = "removing"
    /\ Land \/ UNCHANGED <<present, landed>>
    /\ doubtful' = doubtful \cup {pending.identity}
    /\ Outcome("INTERRUPTED", "interrupted_unproven")

\* Mutant: what an earlier run left in doubt reads as a hold.
KindOfState(record) ==
    CASE record.state = "MUTATED" -> "REMOVED"
      [] record.state \in Unproven -> "INTERRUPTED"
      [] OTHER -> "HELD"

\* Mutant: an attempt that began reads as a removal.
KindOptimistic(record) ==
    CASE record.state \in {"MUTATED", "MUTATING"} -> "REMOVED"
      [] record.state = "INTERRUPTED"
         \/ record.reason \in {"interrupted_unproven", "absent_unverified"} -> "INTERRUPTED"
      [] OTHER -> "HELD"

\* _kind_for.
KindFor(record) ==
    CASE record.state = "MUTATED" -> "REMOVED"
      [] \/ record.state \in Unproven
         \/ record.reason \in {"interrupted_unproven", "absent_unverified"} -> "INTERRUPTED"
      [] OTHER -> "HELD"

\* The receipt is read back from the journal; it is COMMITTED unless one of its
\* kinds is INTERRUPTED.
Finish ==
    /\ pc = "loop"
    /\ todo = {}
    /\ receipt' = [i \in Identity |-> IF Latest(i) = None THEN None ELSE KindFor(Latest(i))]
    /\ pc' = "idle"
    /\ UNCHANGED <<present, durable, tail, authorized, todo, prior, pending, runs,
                   history, settles>>

Committed == receipt # None /\ \A i \in Identity : receipt[i] # "INTERRUPTED"

\* The process is gone; todo, prior and pending with it.
Die ==
    /\ pc' = "idle"
    /\ todo' = {}
    /\ pending' = None
    /\ receipt' = None
    /\ UNCHANGED <<authorized, prior, runs, lost, settles>>

\* Between two writes; in the remover, which may have done its work.
Crash ==
    /\ pc # "idle"
    /\ Die
    /\ IF pc = "removing"
       THEN /\ Land \/ UNCHANGED <<present, landed>>
            /\ attempted' = attempted \cup {pending.identity}
            /\ doubtful' = doubtful \cup {pending.identity}
       ELSE UNCHANGED <<present, landed, attempted, doubtful>>
    /\ UNCHANGED <<durable, tail>>

\* In the middle of a write: the line that was being written is left open.
CrashTearing ==
    /\ pc = "appending"
    /\ Die
    /\ tail' \in IF tail = None THEN {Partial, pending} ELSE {Partial}
    /\ UNCHANGED <<present, durable, attempted, landed, doubtful>>

\* Between runs the end of the journal, or all of it, is lost.
LoseRecords ==
    /\ pc = "idle"
    /\ ~lost
    /\ lost' = TRUE
    /\ \E gone \in SUBSET Identity, planned \in SUBSET Identity :
         durable' = [i \in Identity |->
                       IF i \notin gone \/ durable[i] = None THEN durable[i]
                       ELSE IF i \in planned THEN Rec(i, "PLANNED", "authorized") ELSE None]
    /\ tail' = None
    /\ receipt' = None
    /\ UNCHANGED <<present, pc, authorized, todo, prior, pending, runs,
                   attempted, landed, doubtful, settles>>

\* Somebody else removes a workspace.
Vanish(i) ==
    /\ i \in present
    /\ present' = present \ {i}
    /\ UNCHANGED <<durable, tail, pc, authorized, todo, prior, pending, receipt,
                   runs, history, settles>>

Next ==
    \/ \E ids \in SUBSET Identity : StartRun(ids)
    \/ \E i \in Identity : Skip(i) \/ PreserveUnproven(i) \/ PreserveAbsent(i) \/ Plan(i)
    \/ AppendPending
    \/ RemoveSucceeds
    \/ RemoveRefuses
    \/ RemoveRaises
    \/ Finish
    \/ Crash
    \/ CrashTearing
    \/ LoseRecords
    \/ \E i \in Identity : Vanish(i)

Spec == Init /\ [][Next]_vars

-----------------------------------------------------------------------------
\* Types of the disk, the journal and the process.
TypeOK ==
    /\ present \subseteq Identity
    /\ durable \in [Identity -> Record \cup {None}]
    /\ tail \in Record \cup {None, Partial}
    /\ pc \in {"idle", "loop", "appending", "removing"}
    /\ authorized \subseteq Identity
    /\ todo \subseteq authorized
    /\ prior \in [Identity -> Record \cup {None}]
    /\ pending \in Record \cup {None}
    /\ receipt \in [Identity -> Kind \cup {None}] \cup {None}
    /\ runs \in Nat
    /\ attempted \subseteq Identity
    /\ landed \subseteq Identity
    /\ doubtful \subseteq Identity
    /\ lost \in BOOLEAN
    /\ settles \in BOOLEAN

\* "A resume cannot produce a duplicate removal, whichever side of the window
\* the interruption fell on, and whether or not the journal survived it": the
\* remover is never called for a workspace the transaction removed, and with its
\* journal, torn or not, never for one it called the remover for before.
NeverTwice ==
    pc = "removing" =>
    /\ pending.identity \notin landed
    /\ ~lost => pending.identity \notin attempted

\* A receipt tells removals as they are, over any number of crashes: what it
\* calls removed the transaction did remove, and what the transaction removed is
\* in it, as removed or as an interrupted attempt, never as held and never absent.
ReceiptTellsRemovals ==
    (receipt # None /\ ~lost) =>
    /\ \A i \in Identity : receipt[i] = "REMOVED" => i \in landed
    /\ \A i \in landed : receipt[i] \in {"REMOVED", "INTERRUPTED"}

\* A remover that raised, or that the process died in, keeps every later receipt
\* INCOMPLETE: the doubt is not laundered into a hold by the resume.
DoubtIsKept ==
    (receipt # None /\ ~lost) =>
    /\ \A i \in doubtful : receipt[i] = "INTERRUPTED"
    /\ doubtful # {} => ~Committed

\* A run that finishes, on a journal that ended in a line when it began, leaves
\* every identity it was given with an outcome: none is planned, in the middle
\* of a removal, or without a record.
FinishedRunSettles ==
    (receipt # None /\ settles) =>
    \A i \in authorized :
        StateOf(Latest(i)) \in {"MUTATED", "PRESERVED", "INTERRUPTED"}
=============================================================================
