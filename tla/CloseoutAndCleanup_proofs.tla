------------------- MODULE CloseoutAndCleanup_proofs -------------------
(***************************************************************************)
(* The guarantees of the closeout transaction for every set of identities  *)
(* and every number of runs and crashes, and of the workspace cleanup.     *)
(*                                                                         *)
(* The argument for the closeout: a record is faithful to what happened to *)
(* its identity when it is durable, when it is the open tail, when it is   *)
(* about to be appended and when a run holds it from its start.  MUTATING  *)
(* is durable on a line of its own before the remover runs, so no torn     *)
(* line takes back that an attempt began.                                  *)
(***************************************************************************)
EXTENDS CloseoutTransaction, WorkspaceCleanup, TLAPS

Faithful(i, r) ==
    /\ i \in attempted => r # None /\ r.state # "PLANNED"
    /\ i \in landed => r # None /\ KindFor(r) \in {"REMOVED", "INTERRUPTED"}
    /\ i \in doubtful => r # None /\ KindFor(r) = "INTERRUPTED"
    /\ r # None /\ r.state = "MUTATED" => i \in landed

Control ==
    /\ pc \in {"appending", "removing"} =>
         pending \in Record /\ pending.identity \in authorized /\ pending.identity \notin todo
    /\ pc = "removing" =>
         /\ pending.state = "MUTATING"
         /\ tail = None
         /\ durable[pending.identity] = pending
    /\ pc = "appending" /\ pending.state = "MUTATING" => tail = None
    /\ pc = "idle" => todo = {}
    /\ receipt # None => pc = "idle"

Gone ==
    /\ landed \cap present = {}
    /\ landed \subseteq attempted
    /\ doubtful \subseteq attempted

\* The remover was not called yet for an identity on its way to it.
Approaching ==
    pc = "removing" \/ (pc = "appending" /\ pending.state \in {"PLANNED", "MUTATING"})

Fresh ==
    Approaching =>
    /\ pending.identity \notin landed
    /\ ~lost => pending.identity \notin attempted

Truthful ==
    ~lost =>
    /\ \A i \in Identity : Faithful(i, durable[i])
    /\ tail \in Record => Faithful(tail.identity, tail)
    /\ pc = "appending" => Faithful(pending.identity, pending)
    /\ \A i \in todo : Faithful(i, prior[i])

ReceiptIsJournal ==
    receipt # None =>
    \A i \in Identity : receipt[i] = IF Latest(i) = None THEN None ELSE KindFor(Latest(i))

Settled(r) == StateOf(r) \in {"MUTATED", "PRESERVED", "INTERRUPTED"}

Settling ==
    settles /\ (pc # "idle" \/ receipt # None) =>
    /\ tail = None
    /\ \A i \in todo : prior[i] = durable[i]
    /\ \A i \in authorized :
         \/ i \in todo
         \/ Settled(durable[i])
         \/ pc \in {"appending", "removing"} /\ pending.identity = i

IInv == TypeOK /\ Control /\ Gone /\ Fresh /\ Truthful /\ ReceiptIsJournal /\ Settling

-----------------------------------------------------------------------------
LEMMA NoneIsNoRecord == None \notin Record /\ Partial \notin Record
BY NoneAssumption

LEMMA RecInRecord ==
    ASSUME NEW i \in Identity, NEW state \in State, NEW reason \in Reason,
           reason = "removed" <=> state = "MUTATED"
    PROVE  /\ Rec(i, state, reason) \in Record
           /\ Rec(i, state, reason).identity = i
           /\ Rec(i, state, reason).state = state
           /\ Rec(i, state, reason).reason = reason
BY DEF Rec, Record

LEMMA KindInKind == \A r : KindFor(r) \in Kind
BY DEF KindFor, Kind

LEMMA KindNotNone == None \notin Kind
BY NoneAssumption

LEMMA LatestInRecord ==
    ASSUME TypeOK, NEW i \in Identity
    PROVE  Latest(i) \in Record \cup {None}
BY DEF TypeOK, Latest

LEMMA LatestFaithful ==
    ASSUME TypeOK, Truthful, ~lost, NEW i \in Identity
    PROVE  Faithful(i, Latest(i))
BY DEF TypeOK, Truthful, Latest

LEMMA InitInvariant == Init => IInv
<1> SUFFICES ASSUME Init PROVE IInv
  OBVIOUS
<1> USE DEF Init
<1>1. TypeOK
  BY DEF TypeOK
<1>2. Control /\ Gone /\ Fresh
  BY NoneIsNoRecord DEF Control, Gone, Fresh, Approaching
<1>3. Truthful
  BY NoneIsNoRecord DEF Truthful, Faithful
<1>4. ReceiptIsJournal /\ Settling
  BY DEF ReceiptIsJournal, Settling
<1> QED BY <1>1, <1>2, <1>3, <1>4 DEF IInv

LEMMA StartRunInvariant ==
    ASSUME IInv, NEW ids \in SUBSET Identity, StartRun(ids)
    PROVE  IInv'
<1> USE DEF StartRun, IInv
<1>1. TypeOK'
  <2>1. prior' \in [Identity -> Record \cup {None}]
    BY LatestInRecord
  <2> QED BY <2>1 DEF TypeOK, history
<1>2. Control' /\ Gone' /\ Fresh'
  BY DEF Control, Gone, Fresh, Approaching, history
<1>3. Truthful'
  BY LatestFaithful DEF TypeOK, Truthful, Faithful, history
<1>4. ReceiptIsJournal'
  BY DEF ReceiptIsJournal
<1>5. Settling'
  BY NoneIsNoRecord DEF TypeOK, Settling, Latest
<1> QED BY <1>1, <1>2, <1>3, <1>4, <1>5

LEMMA SkipInvariant ==
    ASSUME IInv, NEW i \in Identity, Skip(i)
    PROVE  IInv'
<1> USE DEF Skip, IInv
<1>1. TypeOK' /\ Control' /\ Gone' /\ Fresh'
  BY DEF TypeOK, Control, Gone, Fresh, Approaching, history
<1>2. Truthful'
  BY DEF TypeOK, Truthful, Faithful, history
<1>3. ReceiptIsJournal'
  BY DEF ReceiptIsJournal, Control
<1>4. Settling'
  BY DEF TypeOK, Settling, Settled, Decided
<1> QED BY <1>1, <1>2, <1>3, <1>4

\* A record that is faithful and, if it leads to the remover, of an identity that
\* is on disk.
LEMMA WriteInvariant ==
    ASSUME IInv, pc = "loop", NEW i \in todo, NEW r \in Record, Write(i, r),
           r.identity = i, r.state # "MUTATING",
           ~lost => Faithful(i, r),
           r.state = "PLANNED" => i \in present /\ (~lost => i \notin attempted)
    PROVE  IInv'
<1> USE DEF Write, IInv
<1>1. TypeOK'
  BY DEF TypeOK, history
<1>2. Control' /\ Gone' /\ Fresh'
  BY DEF TypeOK, Control, Gone, Fresh, Approaching, history
<1>3. Truthful'
  BY DEF TypeOK, Truthful, Faithful, history
<1>4. ReceiptIsJournal'
  BY DEF ReceiptIsJournal, Control
<1>5. Settling'
  BY DEF TypeOK, Settling
<1> QED BY <1>1, <1>2, <1>3, <1>4, <1>5

LEMMA DecideInvariant ==
    ASSUME IInv, NEW i \in Identity,
           PreserveUnproven(i) \/ PreserveAbsent(i) \/ Plan(i)
    PROVE  IInv'
<1>1. ASSUME NEW reason \in {"interrupted_unproven", "absent_unverified"}
      PROVE  /\ Rec(i, "PRESERVED", reason) \in Record
             /\ Rec(i, "PRESERVED", reason).identity = i
             /\ Rec(i, "PRESERVED", reason).state = "PRESERVED"
             /\ Faithful(i, Rec(i, "PRESERVED", reason))
  <2> DEFINE r == Rec(i, "PRESERVED", reason)
  <2>1. r \in Record /\ r.identity = i /\ r.state = "PRESERVED" /\ r.reason = reason
    BY <1>1, RecInRecord DEF State, Reason
  <2>2. KindFor(r) = "INTERRUPTED"
    BY <2>1, <1>1 DEF KindFor, Unproven
  <2> QED BY <2>1, <2>2, NoneIsNoRecord DEF Faithful
<1>2. CASE PreserveUnproven(i)
  BY <1>1, <1>2, WriteInvariant DEF PreserveUnproven
<1>3. CASE PreserveAbsent(i)
  BY <1>1, <1>3, WriteInvariant DEF PreserveAbsent
<1>4. CASE Plan(i)
  <2> DEFINE r == Rec(i, "PLANNED", "authorized")
  <2>1. r \in Record /\ r.identity = i /\ r.state = "PLANNED"
    BY RecInRecord DEF State, Reason
  <2>2. i \in todo /\ i \in present /\ pc = "loop" /\ Write(i, r)
    BY <1>4 DEF Plan, Present
  <2>3. ~lost => i \notin attempted
    <3> SUFFICES ASSUME ~lost, i \in attempted PROVE FALSE
      OBVIOUS
    <3>1. prior[i] # None /\ prior[i].state # "PLANNED" /\ prior[i] \in Record
      BY <2>2 DEF IInv, Truthful, Faithful, TypeOK
    <3>2. prior[i].state \notin Decided \cup Unproven
      BY <1>4, <3>1 DEF Plan, Open, StateOf
    <3> QED BY <3>1, <3>2 DEF Record, State, Decided, Unproven
  <2>4. ~lost => Faithful(i, r)
    BY <2>1, <2>3 DEF Faithful, IInv, Gone
  <2> QED BY <2>1, <2>2, <2>3, <2>4, WriteInvariant
<1> QED BY <1>2, <1>3, <1>4

LEMMA AppendInvariant ==
    ASSUME IInv, AppendPending
    PROVE  IInv'
<1> DEFINE r == pending
           next == Rec(r.identity, "MUTATING", "entering_removal")
<1>1. /\ r \in Record /\ r.identity \in Identity /\ r.identity \in authorized
      /\ r.identity \notin todo /\ pc = "appending"
  BY DEF AppendPending, IInv, Control, Record
<1>2. /\ next \in Record /\ next # None /\ next.identity = r.identity
      /\ next.state = "MUTATING" /\ KindFor(next) = "INTERRUPTED"
  BY <1>1, RecInRecord, NoneIsNoRecord DEF State, Reason, KindFor, Unproven
<1>3. /\ tail' = None
      /\ durable' = IF tail = None THEN [durable EXCEPT ![r.identity] = r] ELSE durable
  BY DEF AppendPending, AppendRecord
<1>4. TypeOK'
  BY <1>1, <1>2, <1>3 DEF AppendPending, IInv, TypeOK, history
<1>5. Control'
  BY <1>1, <1>2, <1>3 DEF AppendPending, IInv, TypeOK, Control, history
<1>6. Gone'
  BY DEF AppendPending, IInv, Gone, history
<1>7. Fresh'
  BY <1>1, <1>2 DEF AppendPending, IInv, Fresh, Approaching, history
<1>8. Truthful'
  <2>1. ~lost => \A i \in Identity : Faithful(i, durable'[i])
    BY <1>1, <1>3 DEF IInv, TypeOK, Truthful
  <2>2. ~lost => Faithful(r.identity, next)
    BY <1>2 DEF Faithful
  <2>3. pc' = "appending" => pending' = next
    BY <1>1 DEF AppendPending
  <2> QED BY <1>2, <1>3, <2>1, <2>2, <2>3, NoneIsNoRecord
          DEF AppendPending, IInv, Truthful, Faithful, history
<1>9. ReceiptIsJournal'
  BY <1>1 DEF AppendPending, IInv, Control, ReceiptIsJournal
<1>10. Settling'
  <2> SUFFICES ASSUME settles, tail = None
               PROVE  /\ \A i \in todo : prior[i] = durable'[i]
                      /\ \A i \in authorized :
                           \/ i \in todo
                           \/ Settled(durable'[i])
                           \/ pc' \in {"appending", "removing"} /\ pending'.identity = i
    BY <1>1, <1>3 DEF AppendPending, IInv, Settling, history
  <2>1. /\ \A i \in todo : prior[i] = durable[i]
        /\ \A i \in authorized : i \in todo \/ Settled(durable[i]) \/ r.identity = i
    BY <1>1 DEF IInv, Settling
  <2>2. durable' = [durable EXCEPT ![r.identity] = r]
    BY <1>3
  <2>3. \A i \in todo : prior[i] = durable'[i]
    BY <1>1, <2>1, <2>2 DEF IInv, TypeOK
  <2>4. pc' \in {"appending", "removing"} => pending'.identity = r.identity
    BY <1>1, <1>2 DEF AppendPending
  <2>5. pc' \notin {"appending", "removing"} => Settled(r)
    BY <1>1, NoneIsNoRecord DEF AppendPending, Settled, StateOf, Record, State
  <2> QED BY <1>1, <2>1, <2>2, <2>3, <2>4, <2>5 DEF IInv, TypeOK, AppendPending
<1> QED BY <1>4, <1>5, <1>6, <1>7, <1>8, <1>9, <1>10 DEF IInv

\* What the remover does, and what is about to be recorded of it.
LEMMA RemoveInvariant ==
    ASSUME IInv, RemoveSucceeds \/ RemoveRefuses \/ RemoveRaises
    PROVE  IInv'
<1> DEFINE i == pending.identity
<1>1. /\ pending \in Record /\ i \in Identity /\ i \in authorized /\ i \notin todo
      /\ pc = "removing" /\ tail = None
      /\ durable[i] = pending /\ pending.state = "MUTATING"
      /\ i \notin landed /\ (~lost => i \notin attempted)
  BY DEF RemoveSucceeds, RemoveRefuses, RemoveRaises, IInv, Control, Record, Fresh,
     Approaching
<1>2. /\ durable' = durable /\ tail' = tail /\ authorized' = authorized /\ todo' = todo
      /\ prior' = prior /\ receipt' = receipt /\ runs' = runs /\ lost' = lost
      /\ settles' = settles /\ pc' = "appending" /\ attempted' = attempted \cup {i}
  BY DEF RemoveSucceeds, RemoveRefuses, RemoveRaises, Outcome
<1>3. PICK state \in {"MUTATED", "PRESERVED", "INTERRUPTED"}, reason \in Reason :
        /\ reason = "removed" <=> state = "MUTATED"
        /\ pending' = Rec(i, state, reason)
        /\ state = "INTERRUPTED" \/ doubtful' = doubtful
        /\ state # "MUTATED" \/ i \in landed'
        /\ state # "PRESERVED" \/ landed' = landed
  BY <1>1 DEF RemoveSucceeds, RemoveRefuses, RemoveRaises, Outcome, Reason, Land
<1>4. /\ landed' \subseteq landed \cup {i} /\ landed' \cap present' = {}
      /\ landed \subseteq landed'
      /\ doubtful' \subseteq doubtful \cup {i} /\ present' \subseteq present
  BY DEF RemoveSucceeds, RemoveRefuses, RemoveRaises, Land, IInv, Gone
<1>5. /\ pending' \in Record /\ pending'.identity = i /\ pending' # None
      /\ pending'.state = state /\ pending'.reason = reason
  BY <1>1, <1>3, RecInRecord, NoneIsNoRecord DEF State
<1>6. KindFor(pending) = "INTERRUPTED" /\ pending # None
  BY <1>1, NoneIsNoRecord DEF KindFor, Unproven
<1>7. TypeOK'
  BY <1>1, <1>2, <1>4, <1>5 DEF IInv, TypeOK
<1>8. Control' /\ Gone' /\ Fresh'
  BY <1>1, <1>2, <1>3, <1>4, <1>5 DEF IInv, Control, Gone, Fresh, Approaching
<1>9. Truthful'
  <2> SUFFICES ASSUME ~lost PROVE Truthful'
    BY <1>2 DEF Truthful
  <2>1. i \notin attempted /\ i \notin landed /\ i \notin doubtful
    BY <1>1 DEF IInv, Gone
  <2>2. \A j \in Identity : Faithful(j, durable[j])'
    BY <1>1, <1>2, <1>4, <1>6 DEF IInv, Truthful, Faithful
  <2>3. \A j \in todo : Faithful(j, prior[j])'
    BY <1>1, <1>2, <1>4 DEF IInv, Truthful, Faithful
  <2>4. Faithful(pending.identity, pending)'
    <3>1. CASE state = "INTERRUPTED"
      <4>1. KindFor(pending') = "INTERRUPTED"
        BY <1>5, <3>1 DEF KindFor, Unproven
      <4> QED BY <1>5, <3>1, <4>1 DEF Faithful
    <3>2. CASE state = "MUTATED"
      <4>1. KindFor(pending') = "REMOVED"
        BY <1>5, <3>2 DEF KindFor, Unproven, Record
      <4> QED BY <1>3, <1>5, <2>1, <3>2, <4>1 DEF Faithful
    <3>3. CASE state = "PRESERVED"
      BY <1>3, <1>5, <2>1, <3>3 DEF Faithful
    <3> QED BY <3>1, <3>2, <3>3
  <2> QED BY <1>1, <1>2, <2>2, <2>3, <2>4, NoneIsNoRecord DEF Truthful
<1>10. ReceiptIsJournal' /\ Settling'
  BY <1>1, <1>2, <1>5 DEF IInv, ReceiptIsJournal, Settling, Control
<1> QED BY <1>7, <1>8, <1>9, <1>10 DEF IInv

LEMMA FinishInvariant ==
    ASSUME IInv, Finish
    PROVE  IInv'
<1> USE DEF Finish, IInv
<1>1. TypeOK'
  BY KindInKind DEF TypeOK, history
<1>2. Control' /\ Gone' /\ Fresh'
  BY DEF TypeOK, Control, Gone, Fresh, Approaching, history
<1>3. Truthful'
  BY DEF Truthful, Faithful, history
<1>4. ReceiptIsJournal'
  BY DEF ReceiptIsJournal, Latest
<1>5. Settling'
  BY DEF Settling
<1> QED BY <1>1, <1>2, <1>3, <1>4, <1>5

LEMMA CrashInvariant ==
    ASSUME IInv, Crash
    PROVE  IInv'
<1> DEFINE i == pending.identity
<1>1. /\ durable' = durable /\ tail' = tail /\ authorized' = authorized /\ todo' = {}
      /\ prior' = prior /\ receipt' = None /\ runs' = runs /\ lost' = lost
      /\ settles' = settles /\ pc' = "idle" /\ pending' = None
  BY DEF Crash, Die
<1>2. CASE pc # "removing"
  <2>1. /\ present' = present /\ landed' = landed /\ attempted' = attempted
        /\ doubtful' = doubtful
    BY <1>2 DEF Crash
  <2>2. TypeOK' /\ Control' /\ Gone' /\ Fresh'
    BY <1>1, <2>1 DEF IInv, TypeOK, Control, Gone, Fresh, Approaching
  <2>3. Truthful'
    BY <1>1, <2>1 DEF IInv, Truthful, Faithful
  <2>4. ReceiptIsJournal' /\ Settling'
    BY <1>1 DEF ReceiptIsJournal, Settling
  <2> QED BY <2>2, <2>3, <2>4 DEF IInv
<1>3. CASE pc = "removing"
  <2>1. /\ pending \in Record /\ i \in Identity /\ tail = None /\ durable[i] = pending
        /\ pending.state = "MUTATING"
    BY <1>3 DEF IInv, Control, Record
  <2>2. /\ landed' \subseteq landed \cup {i} /\ landed' \cap present' = {}
        /\ landed \subseteq landed'
        /\ attempted' = attempted \cup {i} /\ doubtful' = doubtful \cup {i}
        /\ present' \subseteq present
    BY <1>3 DEF Crash, Land, IInv, Gone
  <2>3. KindFor(pending) = "INTERRUPTED" /\ pending # None
    BY <2>1, NoneIsNoRecord DEF KindFor, Unproven
  <2>4. TypeOK'
    BY <1>1, <2>1, <2>2 DEF IInv, TypeOK
  <2>5. Control' /\ Gone' /\ Fresh'
    BY <1>1, <2>2 DEF IInv, Control, Gone, Fresh, Approaching
  <2>6. Truthful'
    BY <1>1, <2>1, <2>2, <2>3, NoneIsNoRecord DEF IInv, Truthful, Faithful
  <2>7. ReceiptIsJournal' /\ Settling'
    BY <1>1 DEF ReceiptIsJournal, Settling
  <2> QED BY <2>4, <2>5, <2>6, <2>7 DEF IInv
<1> QED BY <1>2, <1>3

LEMMA CrashTearingInvariant ==
    ASSUME IInv, CrashTearing
    PROVE  IInv'
<1> USE DEF CrashTearing, Die, IInv
<1>1. TypeOK' /\ Control' /\ Gone' /\ Fresh'
  BY DEF TypeOK, Control, Gone, Fresh, Approaching
<1>2. Truthful'
  BY NoneIsNoRecord DEF Truthful, Faithful
<1>3. ReceiptIsJournal' /\ Settling'
  BY DEF ReceiptIsJournal, Settling
<1> QED BY <1>1, <1>2, <1>3

LEMMA LoseInvariant ==
    ASSUME IInv, LoseRecords
    PROVE  IInv'
<1> USE DEF LoseRecords, IInv
<1>1. \A i \in Identity : Rec(i, "PLANNED", "authorized") \in Record
  BY RecInRecord DEF State, Reason
<1>2. TypeOK'
  BY <1>1 DEF TypeOK
<1>3. Control' /\ Gone' /\ Fresh' /\ Truthful'
  BY DEF Control, Gone, Fresh, Approaching, Truthful
<1>4. ReceiptIsJournal' /\ Settling'
  BY DEF ReceiptIsJournal, Settling
<1> QED BY <1>2, <1>3, <1>4

LEMMA VanishInvariant ==
    ASSUME IInv, NEW i \in Identity, Vanish(i)
    PROVE  IInv'
<1> USE DEF Vanish, IInv
<1>1. TypeOK' /\ Control' /\ Gone' /\ Fresh'
  BY DEF TypeOK, Control, Gone, Fresh, Approaching, history
<1>2. Truthful'
  BY DEF Truthful, Faithful, history
<1>3. ReceiptIsJournal' /\ Settling'
  BY DEF ReceiptIsJournal, Settling, Latest
<1> QED BY <1>1, <1>2, <1>3

LEMMA NextInvariant == IInv /\ [Next]_vars => IInv'
<1> SUFFICES ASSUME IInv, [Next]_vars PROVE IInv'
  OBVIOUS
<1>1. CASE UNCHANGED vars
  BY <1>1 DEF vars, IInv, TypeOK, Control, Gone, Fresh, Approaching, Truthful, Faithful,
              ReceiptIsJournal, Latest, Settling
<1>2. CASE Next
  BY <1>2, StartRunInvariant, SkipInvariant, DecideInvariant, AppendInvariant,
     RemoveInvariant, FinishInvariant, CrashInvariant, CrashTearingInvariant,
     LoseInvariant, VanishInvariant DEF Next
<1> QED BY <1>1, <1>2

LEMMA Invariant == Spec => []IInv
BY InitInvariant, NextInvariant, PTL DEF Spec

LEMMA NeverTwiceHolds == IInv => NeverTwice
BY DEF IInv, Fresh, Approaching, NeverTwice

LEMMA RemovedIsMutated ==
    ASSUME NEW r \in Record, KindFor(r) = "REMOVED"
    PROVE  r.state = "MUTATED"
BY DEF KindFor, Record

LEMMA ReceiptTellsHolds == IInv => ReceiptTellsRemovals
<1> SUFFICES ASSUME IInv, receipt # None, ~lost PROVE ReceiptTellsRemovals
  BY DEF ReceiptTellsRemovals
<1>1. ASSUME NEW i \in Identity
      PROVE  /\ Faithful(i, Latest(i)) /\ Latest(i) \in Record \cup {None}
             /\ receipt[i] = IF Latest(i) = None THEN None ELSE KindFor(Latest(i))
  BY LatestFaithful, LatestInRecord DEF IInv, ReceiptIsJournal
<1>2. ASSUME NEW i \in Identity, receipt[i] = "REMOVED"
      PROVE  i \in landed
  <2>1. Latest(i) \in Record /\ KindFor(Latest(i)) = "REMOVED"
    BY <1>1, <1>2, KindNotNone DEF Kind
  <2> QED BY <1>1, <2>1, RemovedIsMutated, NoneIsNoRecord DEF Faithful
<1>3. ASSUME NEW i \in landed
      PROVE  receipt[i] \in {"REMOVED", "INTERRUPTED"}
  BY <1>1 DEF IInv, TypeOK, Faithful
<1> QED BY <1>2, <1>3 DEF ReceiptTellsRemovals

LEMMA DoubtHolds == IInv => DoubtIsKept
BY LatestFaithful DEF IInv, ReceiptIsJournal, DoubtIsKept, Faithful, TypeOK, Committed

LEMMA SettledHolds == IInv => FinishedRunSettles
BY NoneIsNoRecord
   DEF IInv, Settling, Control, TypeOK, FinishedRunSettles, Settled, Latest

\* Types of the disk, the journal and the process.
THEOREM TypeCorrect == Spec => []TypeOK
BY Invariant, PTL DEF IInv

\* The remover is never called for a workspace the transaction removed, with or
\* without its journal, and never a second time with it, whatever was torn.
THEOREM NoSecondRemoval == Spec => []NeverTwice
BY Invariant, NeverTwiceHolds, PTL

\* Receipts tell removals as they are, over any number of runs and crashes.
THEOREM ReceiptsTellRemovals == Spec => []ReceiptTellsRemovals
BY Invariant, ReceiptTellsHolds, PTL

\* An attempt whose end nobody saw stays an interruption in every later receipt.
THEOREM DoubtStays == Spec => []DoubtIsKept
BY Invariant, DoubtHolds, PTL

\* A run that finishes on an intact journal settles all it was given.
THEOREM RunsSettle == Spec => []FinishedRunSettles
BY Invariant, SettledHolds, PTL

-----------------------------------------------------------------------------
(***************************************************************************)
(* The cleanup of workspaces at the operator's word (WorkspaceCleanup).    *)
(* What it removes was judged on a row taken in the same run; what it      *)
(* removed is in the ledger, or the line that says so was torn or refused  *)
(* and is known to have been.                                              *)
(***************************************************************************)

\* What the constants are is known from here on.
USE CleanupAssumption

\* Every authorized workspace is in the inventory when the cleanup comes to judge it.
Inventoried ==
    /\ \A n \in DOMAIN queue : queue[n] \in unread \/ seen[queue[n]] # Nil
    /\ step \in {"next", "removing", "recording"} => unread = {}
    /\ step \in {"removing", "recording"} => queue # <<>>

\* The gate was passed by the row that is still held, and by the ledger as it was read.
Judged ==
    step = "removing" =>
        /\ HasRow(Head(queue))
        /\ Cleared(Head(queue))
        /\ Head(queue) \notin completed

\* What the ledger says, and lacks, while a removal is on its way into it.
Written ==
    /\ step = "recording" <=> entry # Nil
    /\ Completed \cup Told(entry) \subseteq removals
    /\ removed => step \in {"removing", "recording"} /\ Head(queue) \in removals
    /\ removed /\ step = "recording" => Head(queue) \in Told(entry) \cup unseen
    /\ removals \subseteq Completed \cup swallowed \cup unseen \cup Unseen

Remembered ==
    /\ told \subseteq Completed \cup swallowed
    /\ step # "idle" => told \ swallowed \subseteq completed \cup overlooked

\* A workspace stays as it was seen until it is removed or others change it.
AsSeen ==
    \A i \in Workspace : seen[i] # Nil => i \in changed \/ world[i] \in {seen[i].truth, Nil}

CleanupInv == CleanupTypeOK /\ Inventoried /\ Judged /\ Written /\ Remembered /\ AsSeen

LEMMA ToldOfNothing ==
    Told(Nil) = {} /\ Told(Torn) = {}
BY DEF ConstantsFit, Told

LEMMA ToldIsIdentity ==
    ASSUME NEW x PROVE Told(x) \subseteq Workspace
BY DEF Told, Receipt

\* What a row that passes the gate says of the workspace.
LEMMA ClearedSparesWork ==
    ASSUME CleanupTypeOK, NEW i \in Workspace,
           HasRow(i), Cleared(i), seen[i] # Nil
    PROVE  /\ ~FindsItselfIn(i)
           /\ seen[i].truth # Nil /\ seen[i].truth.existence = "present"
           /\ seen[i].truth.dirtiness = "clean" /\ seen[i].truth.head = "branch"
           /\ seen[i].truth.lease = "active" => "lease" \in seen[i].blind
           /\ seen[i].truth.process = "present" => "process" \in seen[i].blind
           /\ seen[i].truth.session = "present" => "session" \in seen[i].blind
<1> DEFINE t == seen[i].truth
           u == Unread(t, seen[i].blind)
           row == Row(i)
<1>1. t \in Truth
  BY DEF ConstantsFit, CleanupTypeOK, Finding, HasRow
<1>2. \A s \in Signal : row[s] = IF s \in u THEN "unknown" ELSE t[s]
  BY DEF Row
<1>3. /\ row["dirtiness"] = "clean" /\ row["head"] = "branch"
      /\ row["lease"] # "active" /\ row["process"] # "present" /\ row["session"] # "present"
      /\ ~FindsItselfIn(i)
  BY DEF Cleared, Removable
<1>4. {"dirtiness", "head", "lease", "process", "session"} \subseteq Signal
  BY DEF Signal
<1>5. "dirtiness" \notin u /\ t.dirtiness = "clean" /\ "head" \notin u /\ t.head = "branch"
  BY <1>2, <1>3, <1>4
<1>6. t.existence = "present"
  BY <1>1, <1>5 DEF Unread, Truth
<1>7. /\ t.lease = "active" => "lease" \in u
      /\ t.process = "present" => "process" \in u
      /\ t.session = "present" => "session" \in u
  BY <1>2, <1>3, <1>4
<1>8. \A s \in {"lease", "process", "session"} : s \in u => s \in seen[i].blind
  BY DEF Unread
<1>9. t # Nil
  BY DEF HasRow
<1> QED BY <1>3, <1>5, <1>6, <1>7, <1>8, <1>9

LEMMA NilFound ==
    <<>> \in Seq(Workspace) /\ [i \in Workspace |-> Nil] \in [Workspace -> Finding \cup {Nil}]
OBVIOUS

LEMMA CleanupBegins ==
    ASSUME CleanupInit
    PROVE  CleanupInv
<1>1. MaxCleanups \in Nat /\ MaxChanges \in Nat
  BY DEF ConstantsFit
<1>2. Inventoried /\ Judged /\ AsSeen
  BY DEF CleanupInit, Inventoried, Judged, AsSeen
<1>3. /\ world \in [Workspace -> Condition \cup {Nil}]
      /\ cleanups \in 0 .. MaxCleanups /\ changes \in 0 .. MaxChanges
  BY <1>1 DEF CleanupInit
<1>4. CleanupTypeOK
  BY <1>3, NilFound DEF CleanupInit, CleanupTypeOK
<1>5. Written /\ Remembered
  BY ToldOfNothing DEF CleanupInit, Written, Remembered, Completed, Unseen
<1> QED BY <1>2, <1>4, <1>5 DEF CleanupInv

LEMMA CleanupStart ==
    ASSUME CleanupInv,
           NEW authorizations \in Authorizations,
           NEW standing \in StandingAmong(authorizations) \cup {Nil},
           NEW legible \in BOOLEAN, NEW available \in BOOLEAN,
           Start(authorizations, standing, legible, available)
    PROVE  CleanupInv'
<1> USE DEF CleanupInv, Start, ledger, others, cleanupHistory
<1>1. authorizations \in Seq(Workspace) /\ MaxCleanups \in Nat
  BY DEF ConstantsFit
<1>2. {authorizations[n] : n \in DOMAIN authorizations} \subseteq Workspace
  BY <1>1
<1>3. Completed \subseteq Workspace
  BY ToldIsIdentity DEF CleanupTypeOK, Completed
<1>4. CleanupTypeOK'
  BY <1>1, <1>2, <1>3 DEF CleanupTypeOK, StandingAmong
<1>5. Inventoried' /\ Judged'
  BY DEF Inventoried, Judged
<1>6. Written'
  BY DEF Written, Completed, Unseen
<1>7. Remembered' /\ AsSeen'
  BY DEF Remembered, Completed, AsSeen
<1> QED BY <1>4, <1>5, <1>6, <1>7

LEMMA CleanupInventory ==
    ASSUME CleanupInv, NEW i \in Workspace, NEW blind \in Blind,
           Inventory(i, blind)
    PROVE  CleanupInv'
<1> USE DEF CleanupInv, Inventory, ledger, setting, others, cleanupHistory
<1> DEFINE found == [truth |-> world[i], blind |-> blind]
<1>1. found \in Finding /\ found # Nil
  BY DEF CleanupTypeOK, ConstantsFit, Finding
<1>2. seen' = [seen EXCEPT ![i] = found]
  OBVIOUS
<1> HIDE DEF found
<1>3. /\ seen'[i] = found
      /\ \A j \in Workspace \ {i} : seen'[j] = seen[j]
  BY <1>2 DEF CleanupTypeOK
<1>4. CleanupTypeOK'
  BY <1>1, <1>2 DEF CleanupTypeOK
<1>5. Inventoried'
  BY <1>1, <1>3 DEF Inventoried, CleanupTypeOK
<1>6. Judged' /\ Written' /\ Remembered'
  BY DEF Judged, Written, Remembered, Completed, Unseen
<1>7. AsSeen'
  BY <1>3 DEF AsSeen, found
<1> QED BY <1>4, <1>5, <1>6, <1>7

LEMMA NextOfQueue ==
    ASSUME CleanupTypeOK, queue # <<>>
    PROVE  /\ Head(queue) \in Workspace /\ Tail(queue) \in Seq(Workspace)
           /\ 1 \in DOMAIN queue /\ queue[1] = Head(queue)
           /\ \A n \in DOMAIN Tail(queue) :
                 n + 1 \in DOMAIN queue /\ Tail(queue)[n] = queue[n + 1]
BY DEF CleanupTypeOK

\* What needs no call of the remover is told as something else than a removal.
LEMMA CleanupPasses ==
    ASSUME CleanupInv,
           SkipCompleted \/ NoWorkspace \/ Refuse
    PROVE  CleanupInv'
<1> USE DEF CleanupInv, ledger, setting, others, cleanupHistory
<1>1. PICK outcome \in {"skipped_completed", "refused", "already_absent"} :
        Recording(Head(queue), outcome)
  BY DEF SkipCompleted, NoWorkspace, Refuse
<1>2. /\ step = "next" /\ queue # <<>> /\ step' = "recording"
      /\ UNCHANGED <<world, whole, unended, queue, completed, unread, seen, occupied, remover,
                     overlooked, removed, cleanups, changes, changed, removals, told, swallowed, unseen>>
  BY <1>1 DEF SkipCompleted, NoWorkspace, Refuse, Recording
<1>3. entry' \in Receipt /\ entry' # Nil /\ Told(entry') = {}
  <2>1. entry' = [identity |-> Head(queue), outcome |-> outcome]
    BY <1>1 DEF Recording
  <2>2. entry' \in Receipt
    BY <1>2, <2>1, NextOfQueue DEF Receipt, CleanupOutcome
  <2> QED BY <2>1, <2>2 DEF Told, ConstantsFit
<1>4. CleanupTypeOK'
  BY <1>2, <1>3 DEF CleanupTypeOK
<1>5. Inventoried' /\ Judged'
  BY <1>2 DEF Inventoried, Judged
<1>6. Written'
  BY <1>2, <1>3 DEF Written, Completed, Unseen
<1>7. Remembered' /\ AsSeen'
  BY <1>2 DEF Remembered, Completed, AsSeen
<1> QED BY <1>4, <1>5, <1>6, <1>7

LEMMA CleanupCalls ==
    ASSUME CleanupInv, CallRemover \/ Disappear
    PROVE  CleanupInv'
<1> USE DEF CleanupInv, ledger, setting, others, cleanupHistory
<1>1. Head(queue) \in Workspace
  BY NextOfQueue DEF CallRemover, Disappear, Inventoried
<1>2. CASE CallRemover
  <2> USE <1>2 DEF CallRemover
  <2>1. CleanupTypeOK' /\ Inventoried'
    BY DEF CleanupTypeOK, Inventoried
  <2>2. Judged'
    BY DEF Judged, HasRow, Cleared, FindsItselfIn, Row
  <2>3. Written' /\ Remembered' /\ AsSeen'
    BY DEF Written, Remembered, Completed, Unseen, AsSeen
  <2> QED BY <2>1, <2>2, <2>3
<1>3. CASE Disappear
  <2> USE <1>3 DEF Disappear
  <2>1. CleanupTypeOK' /\ Inventoried'
    BY <1>1 DEF CleanupTypeOK, Inventoried
  <2>2. Judged'
    BY DEF Judged, HasRow, Cleared, FindsItselfIn, Row
  <2>3. Written'
    BY DEF Written, Completed, Unseen
  <2>4. Remembered' /\ AsSeen'
    BY <1>1 DEF Remembered, Completed, AsSeen, CleanupTypeOK
  <2> QED BY <2>1, <2>2, <2>3, <2>4
<1> QED BY <1>2, <1>3

LEMMA CleanupRemoves ==
    ASSUME CleanupInv,
           RemoverReturns \/ RemoverRaises
    PROVE  CleanupInv'
<1> USE DEF CleanupInv, ledger, setting, others, cleanupHistory
<1>1. PICK outcome \in {"removed", "already_absent"} :
        Recording(Head(queue), outcome) /\ (outcome = "removed" => removed)
  BY DEF RemoverReturns, RemoverRaises
<1>2. /\ step = "removing" /\ queue # <<>> /\ step' = "recording"
      /\ UNCHANGED <<world, whole, unended, queue, completed, unread, seen, occupied, remover,
                     overlooked, removed, cleanups, changes, changed, removals, told, swallowed>>
  BY <1>1 DEF RemoverReturns, RemoverRaises, Recording, Inventoried
<1>3. /\ entry' \in Receipt /\ entry' # Nil
      /\ Told(entry') = IF outcome = "removed" THEN {Head(queue)} ELSE {}
  <2>1. entry' = [identity |-> Head(queue), outcome |-> outcome]
    BY <1>1 DEF Recording
  <2>2. entry' \in Receipt
    BY <1>2, <2>1, NextOfQueue DEF Receipt, CleanupOutcome
  <2> QED BY <2>1, <2>2 DEF Told, ConstantsFit
<1>4. /\ unseen \subseteq unseen' /\ unseen' \subseteq unseen \cup Unseen
      /\ removed => outcome = "removed" \/ Head(queue) \in unseen'
  BY <1>1, <1>2, <1>3 DEF RemoverReturns, RemoverRaises, Unseen,
     Recording
<1>5. Unseen \subseteq Workspace
  BY <1>2, NextOfQueue DEF Unseen
<1>6. CleanupTypeOK'
  BY <1>2, <1>3, <1>4, <1>5 DEF CleanupTypeOK
<1>7. Inventoried' /\ Judged'
  BY <1>2 DEF Inventoried, Judged
<1>8. Written'
  BY <1>1, <1>2, <1>3, <1>4 DEF Written, Completed, Unseen
<1>9. Remembered' /\ AsSeen'
  BY <1>2 DEF Remembered, Completed, AsSeen
<1> QED BY <1>6, <1>7, <1>8, <1>9

LEMMA CleanupChange ==
    ASSUME CleanupInv, NEW i \in Workspace, NEW condition \in Condition \cup {Nil},
           Change(i, condition)
    PROVE  CleanupInv'
<1> USE DEF CleanupInv, Change, ledger, setting, process, cleanupHistory
<1> MaxChanges \in Nat
  BY DEF ConstantsFit
<1>1. CleanupTypeOK' /\ Inventoried'
  BY DEF CleanupTypeOK, Inventoried
<1>2. Judged'
  BY DEF Judged, HasRow, Cleared, FindsItselfIn, Row
<1>3. Written' /\ Remembered' /\ AsSeen'
  BY DEF Written, Remembered, Completed, Unseen, AsSeen, CleanupTypeOK
<1> QED BY <1>1, <1>2, <1>3

\* A receipt is on a line of its own, or is swallowed with the line it continues.
LEMMA CleanupRecords ==
    ASSUME CleanupInv, RecordReceipt
    PROVE  CleanupInv'
<1> USE DEF CleanupInv, RecordReceipt, ledger, setting, others, cleanupHistory
<1>1. /\ queue # <<>> /\ Told(entry) \subseteq Workspace
      /\ Told(unended) \subseteq Workspace /\ Told(Nil) = {}
  BY ToldIsIdentity, ToldOfNothing DEF Inventoried
<1>2. /\ unended' = Nil /\ whole \subseteq whole'
      /\ whole' \subseteq whole \cup Told(entry)
      /\ swallowed \subseteq swallowed'
      /\ swallowed' \subseteq swallowed \cup Told(unended) \cup Told(entry)
      /\ Completed \cup Told(entry) \subseteq whole' \cup swallowed'
  BY <1>1 DEF AppendReceipt, Swallowed, Completed
<1>3. Completed' = whole'
  BY <1>1, <1>2 DEF Completed
<1>4. CleanupTypeOK'
  BY <1>1, <1>2, NextOfQueue DEF CleanupTypeOK
<1>5. Inventoried' /\ Judged'
  BY <1>1, NextOfQueue DEF Inventoried, Judged
<1>6. Written'
  <2>1. Told(entry)' = {} /\ Unseen' = {}
    BY <1>1 DEF Unseen
  <2>2. Unseen \subseteq Told(entry) \cup unseen
    BY DEF Written, Unseen
  <2> QED BY <1>2, <1>3, <2>1, <2>2 DEF Written, Completed
<1>7. Remembered' /\ AsSeen'
  BY <1>2, <1>3 DEF Remembered, AsSeen
<1> QED BY <1>4, <1>5, <1>6, <1>7

\* However a cleanup ends, what it leaves behind is the ledger.
LEMMA CleanupEnds ==
    ASSUME CleanupInv,
           \/ Return \/ Killed
           \/ \E l \in {Torn, entry} : TornAppend(l)
    PROVE  CleanupInv'
<1> USE DEF CleanupInv, ledger, setting, others, cleanupHistory
<1>1. /\ Idle /\ UNCHANGED <<world, whole, removals, told>>
      /\ unseen \subseteq unseen' /\ unseen' \subseteq unseen \cup Unseen
      /\ Unseen \subseteq unseen'
  BY DEF Return, Killed, TornAppend, Idle, Unseen,
     Written
<1>2. /\ Told(entry) \subseteq Workspace /\ Told(unended) \subseteq Workspace
      /\ Told(Nil) = {} /\ Told(Torn) = {}
  BY ToldIsIdentity, ToldOfNothing
<1>3. /\ unended' \in {Nil, Torn} \cup Receipt
      /\ swallowed \subseteq swallowed' /\ swallowed' \subseteq Workspace
      /\ Told(unended') \subseteq Told(unended) \cup Told(entry)
      /\ Told(unended) \subseteq Told(unended') \cup swallowed' \cup whole
  BY <1>2 DEF Return, Killed, TornAppend, Swallowed,
              CleanupTypeOK, Written
<1>4. Unseen \subseteq Workspace
  BY NextOfQueue DEF Unseen, Written, Inventoried
<1>5. CleanupTypeOK'
  BY <1>1, <1>3, <1>4, NilFound DEF CleanupTypeOK, Idle
<1>6. Inventoried' /\ Judged'
  BY <1>1 DEF Inventoried, Judged, Idle
<1>7. Written'
  BY <1>1, <1>2, <1>3 DEF Written, Completed, Unseen, Idle
<1>8. Remembered' /\ AsSeen'
  BY <1>1, <1>3 DEF Remembered, Completed, Idle, AsSeen
<1> QED BY <1>5, <1>6, <1>7, <1>8

LEMMA CleanupGoesOn ==
    ASSUME CleanupInv, [CleanupNext]_cleanupVars
    PROVE  CleanupInv'
<1>1. CASE CleanupNext
  BY <1>1, CleanupStart, CleanupInventory, CleanupPasses, CleanupCalls, CleanupRemoves,
     CleanupChange, CleanupRecords, CleanupEnds DEF CleanupNext
<1>2. CASE UNCHANGED cleanupVars
  <2> USE <1>2 DEF cleanupVars, ledger, setting, others, process, cleanupHistory, CleanupInv
  <2>1. CleanupTypeOK' /\ Inventoried'
    BY DEF CleanupTypeOK, Inventoried
  <2>2. Judged'
    BY DEF Judged, HasRow, Cleared, FindsItselfIn, Row
  <2>3. Written' /\ Remembered' /\ AsSeen'
    BY DEF Written, Remembered, Completed, Unseen, AsSeen
  <2> QED BY <2>1, <2>2, <2>3
<1> QED BY <1>1, <1>2

LEMMA CleanupSpares ==
    ASSUME CleanupInv PROVE RemovalSparesWork
<1> SUFFICES ASSUME step = "removing" PROVE RemovalSparesWork
  BY DEF RemovalSparesWork
<1> DEFINE i == Head(queue)
<1>1. i \in Workspace /\ seen[i] # Nil
  BY NextOfQueue DEF CleanupInv, Inventoried
<1>2. i \in changed \/ world[i] \in {seen[i].truth, Nil}
  BY <1>1 DEF CleanupInv, AsSeen
<1>3. occupied # Nil /\ occupied.where = i => occupied.place \in {"nested", "unanswered"}
  <2> SUFFICES ASSUME occupied \in Standing, occupied.where = i, occupied.place = "known"
               PROVE  FALSE
    BY DEF CleanupInv, CleanupTypeOK, Standing
  <2>1. occupied = [where |-> i, place |-> "known"]
    BY DEF Standing
  <2> QED BY <2>1 DEF CleanupInv, Judged, Cleared, FindsItselfIn
<1> QED BY <1>1, <1>2, <1>3, ClearedSparesWork DEF CleanupInv, Judged, RemovalSparesWork

LEMMA CleanupTells ==
    ASSUME CleanupInv PROVE LedgerTellsRemovals
BY DEF CleanupInv, Judged, Written, Remembered, LedgerTellsRemovals

LEMMA CleanupInvariant ==
    CleanupSpec => []CleanupInv
<1>1. CleanupInit => CleanupInv
  BY CleanupBegins
<1>2. CleanupInv /\ [CleanupNext]_cleanupVars => CleanupInv'
  BY CleanupGoesOn
<1> QED BY <1>1, <1>2, PTL DEF CleanupSpec

\* Types of the workspaces, the inventory, the gate and the ledger.
THEOREM CleanupTypeCorrect ==
    CleanupSpec => []CleanupTypeOK
<1>1. CleanupInv => CleanupTypeOK
  BY DEF CleanupInv
<1> QED BY <1>1, CleanupInvariant, PTL

\* The remover is only called for a workspace that this cleanup found clean, on a
\* branch and with nobody known to work in it, and which only others may have changed
\* since; and never for the one the process finds itself in.
THEOREM RemovalsSpareWork ==
    CleanupSpec => []RemovalSparesWork
<1>1. CleanupInv => RemovalSparesWork
  BY CleanupSpares
<1> QED BY <1>1, CleanupInvariant, PTL

\* The ledger tells no removal that did not happen and lacks one only if its line was
\* not written or was swallowed by a torn one; what it tells is not removed again by
\* a cleanup that could read it.
THEOREM TheLedgerTells ==
    CleanupSpec => []LedgerTellsRemovals
<1>1. CleanupInv => LedgerTellsRemovals
  BY CleanupTells
<1> QED BY <1>1, CleanupInvariant, PTL
=============================================================================
