--------------------- MODULE JournalAndCoordinator_proofs ---------------------
(***************************************************************************)
(* Two stores on SQLite for every number of processes: the event journal  *)
(* of the runs and, below it, the root cursor of the coordinators.         *)
(*                                                                         *)
(* IInv ties what a process carries to the journal's tables: a process     *)
(* past its append holds a recorded event, and one past its dispatchers a  *)
(* delivered one.  The numbering is inductive by itself: the next number   *)
(* is above every number of the run and its predecessor is in use.         *)
(***************************************************************************)
EXTENDS Journal, Coordinator, TLAPS

InCall == {"checked", "appended", "dispatching", "delivered"}

Carried ==
    /\ \A p \in Process : pc[p] \in InCall => call[p] # None
    /\ \A p \in Process : pc[p] = "delivered" => answer[p] \in delivered

IInv ==
    /\ TypeOK
    /\ GapFree
    /\ OneEventPerKey
    /\ AnswerIsRecorded
    /\ SuccessMeansDelivered
    /\ Carried

\* The number the next event gets is in use by no event of the run: an insert
\* that clashes does so on its key alone.
LEMMA NextIsFree ==
    ASSUME TypeOK, NEW r \in Run, NEW n \in Nat, IsNext(r, n),
           NEW e \in events, e.run = r
    PROVE  e.sequence # n
BY DEF IsNext, TypeOK, Event

\* The lookup of a recorded key finds an event with it.
LEMMA WinnerIsRecorded ==
    ASSUME NEW r \in Run, NEW k \in Key \cup {NoKey}, Recorded(r, k) # {}
    PROVE  /\ Winner(r, k) \in events
           /\ Winner(r, k).run = r
           /\ Winner(r, k).key = k
<1> DEFINE e == CHOOSE f \in Recorded(r, k) : TRUE
<1>1. e \in Recorded(r, k)
  OBVIOUS
<1>2. Winner(r, k) = e
  BY DEF Winner
<1> QED BY <1>1, <1>2 DEF Recorded

LEMMA NoWinner ==
    ASSUME NEW r \in Run, NEW k \in Key \cup {NoKey}, Recorded(r, k) = {}
    PROVE  Winner(r, k) = None
BY DEF Winner

\* An insert that adds a row: the numbering goes on and no key is used twice.
LEMMA AddedRow ==
    ASSUME IInv, NEW r \in Run, NEW k \in Key \cup {NoKey}, NEW n \in 1..MaxSequence,
           IsNext(r, n),
           NEW new, new = [run |-> r, sequence |-> n, key |-> k],
           ~Clash(new), events' = events \cup {new}
    PROVE  GapFree' /\ OneEventPerKey'
<1>1. new \in Event /\ new.run = r /\ new.sequence = n /\ new.key = k
  BY DEF Event
<1>2. Recorded(r, k) = {}
  BY <1>1 DEF Clash
<1>3. OneEventPerKey'
  <2> SUFFICES ASSUME NEW e \in events', NEW f \in events',
                      e.run = f.run, e.key = f.key, e.key # NoKey
               PROVE  e = f
    BY DEF OneEventPerKey
  <2>1. CASE e \in events /\ f \in events
    BY <2>1 DEF IInv, OneEventPerKey
  <2>2. CASE e = new \/ f = new
    BY <2>2, <1>1, <1>2 DEF Recorded
  <2> QED BY <2>1, <2>2
<1>4. \A e, f \in events' : e.run = f.run /\ e.sequence = f.sequence => e = f
  <2> SUFFICES ASSUME NEW e \in events', NEW f \in events',
                      e.run = f.run, e.sequence = f.sequence
               PROVE  e = f
    OBVIOUS
  <2>1. CASE e \in events /\ f \in events
    BY <2>1 DEF IInv, GapFree
  <2>2. CASE e = new \/ f = new
    BY <2>2, <1>1, NextIsFree DEF IInv
  <2> QED BY <2>1, <2>2
<1>5. \A e \in events' : \A m \in 1..e.sequence : \E f \in events' : f.run = e.run /\ f.sequence = m
  <2> SUFFICES ASSUME NEW e \in events', NEW m \in 1..e.sequence
               PROVE  \E f \in events' : f.run = e.run /\ f.sequence = m
    OBVIOUS
  <2>1. CASE e \in events
    BY <2>1 DEF IInv, GapFree
  <2>2. CASE e = new
    <3>1. CASE m = n
      BY <2>2, <3>1, <1>1
    <3>2. CASE m # n
      <4>1. n # 1 /\ m \in 1..(n - 1) /\ n \in Nat
        BY <2>2, <3>2, <1>1, MaxSequenceAssumption
      <4>2. PICK g \in events : g.run = r /\ g.sequence = n - 1
        BY <4>1 DEF IsNext
      <4>3. PICK f \in events : f.run = g.run /\ f.sequence = m
        BY <4>1, <4>2 DEF IInv, GapFree
      <4> QED BY <4>2, <4>3, <2>2, <1>1
    <3> QED BY <3>1, <3>2
  <2> QED BY <2>1, <2>2
<1> QED BY <1>3, <1>4, <1>5 DEF GapFree

LEMMA InitInvariant == Init => IInv
BY DEF Init, IInv, TypeOK, Event, Call, Phase, GapFree, OneEventPerKey,
       AnswerIsRecorded, SuccessMeansDelivered, Carried, InCall

LEMMA InsertInvariant ==
    ASSUME IInv, NEW p \in Process, NEW n \in 1..MaxSequence, Insert(p, n)
    PROVE  IInv'
<1> DEFINE r == call[p].run
           k == call[p].key
           new == [run |-> r, sequence |-> n, key |-> k]
<1>1. r \in Run /\ k \in Key \cup {NoKey}
  BY DEF IInv, TypeOK, Insert, Carried, InCall, Call
<1>2. new \in Event /\ new.run = r /\ new.sequence = n /\ new.key = k
  BY <1>1 DEF Event
<1>3. IsNext(r, n) /\ pc[p] = "checked" /\ pc' = [pc EXCEPT ![p] = "appended"]
  BY DEF Insert
<1>4. CASE ~Clash(new) /\ events' = events \cup {new} /\ answer' = [answer EXCEPT ![p] = new]
  <2>1. GapFree' /\ OneEventPerKey'
    BY <1>1, <1>3, <1>4, AddedRow
  <2>2. TypeOK'
    BY <1>2, <1>4 DEF IInv, TypeOK, Insert, Phase
  <2>3. AnswerIsRecorded'
    BY <1>2, <1>4 DEF IInv, AnswerIsRecorded, TypeOK, Insert
  <2>4. SuccessMeansDelivered' /\ Carried'
    BY <1>2, <1>4 DEF IInv, SuccessMeansDelivered, Carried, TypeOK, Insert, InCall
  <2> QED BY <2>1, <2>2, <2>3, <2>4 DEF IInv
<1>5. CASE Clash(new) /\ answer' = [answer EXCEPT ![p] = Winner(r, k)] /\ events' = events
  <2>1. Recorded(r, k) # {}
    BY <1>1, <1>2, <1>3, <1>5, NextIsFree DEF Clash, IInv
  <2>2. Winner(r, k) \in events /\ Winner(r, k).run = r /\ Winner(r, k).key = k
    BY <1>1, <2>1, WinnerIsRecorded
  <2>3. TypeOK'
    BY <1>5, <2>2 DEF IInv, TypeOK, Insert, Phase
  <2>4. AnswerIsRecorded'
    BY <1>5, <2>2 DEF IInv, AnswerIsRecorded, TypeOK, Insert
  <2>5. GapFree' /\ OneEventPerKey'
    BY <1>5 DEF IInv, GapFree, OneEventPerKey
  <2>6. SuccessMeansDelivered' /\ Carried'
    BY <1>5 DEF IInv, SuccessMeansDelivered, Carried, TypeOK, Insert, InCall
  <2> QED BY <2>3, <2>4, <2>5, <2>6 DEF IInv
<1> QED BY <1>2, <1>4, <1>5 DEF Insert

LEMMA StartInvariant ==
    ASSUME IInv, NEW p \in Process, NEW r \in Run, NEW k \in Key \cup {NoKey},
           StartAppend(p, r, k)
    PROVE  IInv'
<1>1. [run |-> r, key |-> k] \in Call /\ [run |-> r, key |-> k] # None
  BY NoneAssumption DEF Call
<1>2. Winner(r, k) \in Event \cup {None}
  BY WinnerIsRecorded, NoWinner DEF IInv, TypeOK
<1>3. TypeOK'
  BY <1>1, <1>2 DEF IInv, TypeOK, StartAppend, Phase
<1>4. AnswerIsRecorded'
  <2> SUFFICES ASSUME NEW q \in Process, pc'[q] \in {"appended", "dispatching", "delivered"}
               PROVE  /\ answer'[q] \in events'
                      /\ answer'[q].run = call'[q].run
                      /\ answer'[q].key = call'[q].key
    BY DEF AnswerIsRecorded
  <2>1. CASE q = p
    <3>1. Recorded(r, k) # {}
      BY <2>1 DEF IInv, TypeOK, StartAppend
    <3> QED BY <2>1, <3>1, WinnerIsRecorded DEF IInv, TypeOK, StartAppend
  <2>2. CASE q # p
    BY <2>2 DEF IInv, TypeOK, StartAppend, AnswerIsRecorded
  <2> QED BY <2>1, <2>2
<1>5. Carried'
  BY <1>1 DEF IInv, TypeOK, StartAppend, Carried, InCall
<1>6. GapFree' /\ OneEventPerKey' /\ SuccessMeansDelivered'
  BY DEF IInv, StartAppend, GapFree, OneEventPerKey, SuccessMeansDelivered
<1> QED BY <1>3, <1>4, <1>5, <1>6 DEF IInv

\* The actions that leave the events as they are.
LEMMA OtherInvariant ==
    ASSUME IInv, NEW p \in Process,
           \/ AppendFails(p) \/ Return(p) \/ BeginDispatch(p) \/ DispatchBusy(p)
           \/ RunDispatchers(p) \/ DispatcherRaises(p) \/ FinishDispatch(p) \/ Crash(p)
    PROVE  IInv'
<1> USE DEF IInv
<1>1. events' = events
  BY DEF AppendFails, Return, BeginDispatch, DispatchBusy, RunDispatchers,
         DispatcherRaises, FinishDispatch, Crash
<1>2. GapFree' /\ OneEventPerKey'
  BY <1>1 DEF GapFree, OneEventPerKey
<1>3. CASE AppendFails(p)
  BY <1>2, <1>3 DEF AppendFails, TypeOK, Phase, AnswerIsRecorded, SuccessMeansDelivered,
                    Carried, InCall
<1>4. CASE Return(p)
  BY <1>2, <1>4 DEF Return, TypeOK, Phase, AnswerIsRecorded, SuccessMeansDelivered,
                    Carried, InCall
<1>5. CASE BeginDispatch(p)
  BY <1>2, <1>5 DEF BeginDispatch, TypeOK, Phase, AnswerIsRecorded, SuccessMeansDelivered,
                    Carried, InCall
<1>6. CASE DispatchBusy(p)
  BY <1>2, <1>6 DEF DispatchBusy, TypeOK, Phase, AnswerIsRecorded, SuccessMeansDelivered,
                    Carried, InCall
<1>7. CASE RunDispatchers(p)
  <2>1. answer[p] \in events
    BY <1>7 DEF RunDispatchers, AnswerIsRecorded
  <2>2. TypeOK'
    BY <1>7, <2>1 DEF RunDispatchers, TypeOK, Phase
  <2>3. AnswerIsRecorded' /\ SuccessMeansDelivered' /\ Carried'
    BY <1>7, <2>1 DEF RunDispatchers, TypeOK, AnswerIsRecorded, SuccessMeansDelivered,
                      Carried, InCall
  <2> QED BY <1>2, <2>2, <2>3
<1>8. CASE DispatcherRaises(p)
  BY <1>2, <1>8 DEF DispatcherRaises, TypeOK, Phase, AnswerIsRecorded,
                    SuccessMeansDelivered, Carried, InCall
<1>9. CASE FinishDispatch(p)
  <2>1. answer[p] \in delivered
    BY <1>9 DEF FinishDispatch, Carried
  <2>2. TypeOK'
    BY <1>9, <2>1 DEF FinishDispatch, TypeOK, Phase
  <2>3. AnswerIsRecorded' /\ SuccessMeansDelivered' /\ Carried'
    BY <1>9, <2>1 DEF FinishDispatch, TypeOK, AnswerIsRecorded, SuccessMeansDelivered,
                      Carried, InCall
  <2> QED BY <1>2, <2>2, <2>3
<1>10. CASE Crash(p)
  BY <1>2, <1>10 DEF Crash, TypeOK, Phase, AnswerIsRecorded, SuccessMeansDelivered,
                     Carried, InCall
<1> QED BY <1>3, <1>4, <1>5, <1>6, <1>7, <1>8, <1>9, <1>10

LEMMA NextInvariant == IInv /\ [Next]_vars => IInv'
<1> SUFFICES ASSUME IInv, [Next]_vars PROVE IInv'
  OBVIOUS
<1>1. CASE UNCHANGED vars
  BY <1>1 DEF vars, IInv, TypeOK, GapFree, OneEventPerKey, AnswerIsRecorded,
              SuccessMeansDelivered, Carried
<1>2. ASSUME NEW p \in Process, NEW r \in Run, NEW k \in Key \cup {NoKey},
             StartAppend(p, r, k)
      PROVE  IInv'
  BY <1>2, StartInvariant
<1>3. ASSUME NEW p \in Process, NEW n \in 1..MaxSequence, Insert(p, n)
      PROVE  IInv'
  BY <1>3, InsertInvariant
<1>4. ASSUME NEW p \in Process,
             \/ AppendFails(p) \/ Return(p) \/ BeginDispatch(p) \/ DispatchBusy(p)
             \/ RunDispatchers(p) \/ DispatcherRaises(p) \/ FinishDispatch(p) \/ Crash(p)
      PROVE  IInv'
  BY <1>4, OtherInvariant
<1> QED BY <1>1, <1>2, <1>3, <1>4 DEF Next

LEMMA Invariant == Spec => []IInv
BY InitInvariant, NextInvariant, PTL DEF Spec

\* Types of the journal's tables and of what its callers carry.
THEOREM TypeCorrect == Spec => []TypeOK
BY Invariant, PTL DEF IInv

\* The numbers of a run's events are consecutive from 1 and unique.
THEOREM NumberedWithoutGaps == Spec => []GapFree
BY Invariant, PTL DEF IInv

\* One event per run and idempotency key, whoever races, and every call that
\* returns is answered with it: no IntegrityError other than that of a recorded
\* key is ever swallowed.
THEOREM CallersShareOneEvent == Spec => []KeyHasOneAnswer
<1>1. IInv => KeyHasOneAnswer
  BY DEF IInv, KeyHasOneAnswer
<1> QED BY <1>1, Invariant, PTL

\* An event is marked dispatched only after its dispatchers have returned, and
\* dispatchers only get events that are in the journal.
THEOREM DispatchedIsDelivered == Spec => []SuccessMeansDelivered
BY Invariant, PTL DEF IInv

LEMMA StepAppends ==
    ASSUME IInv, [Next]_vars
    PROVE  /\ events \subseteq events'
           /\ \A e \in events' \ events :
                /\ \A f \in events' : f # e /\ f.run = e.run => f.sequence < e.sequence
                /\ e.sequence = 1 \/
                      \E f \in events : f.run = e.run /\ f.sequence = e.sequence - 1
<1>1. ASSUME NEW p \in Process, NEW n \in 1..MaxSequence, Insert(p, n), events' # events
      PROVE  /\ events \subseteq events'
             /\ \A e \in events' \ events :
                  /\ \A f \in events' : f # e /\ f.run = e.run => f.sequence < e.sequence
                  /\ e.sequence = 1 \/
                        \E f \in events : f.run = e.run /\ f.sequence = e.sequence - 1
  <2> DEFINE new == [run |-> call[p].run, sequence |-> n, key |-> call[p].key]
  <2>1. events' = events \cup {new} /\ IsNext(new.run, n)
    BY <1>1 DEF Insert
  <2> QED BY <2>1 DEF IsNext
<1>2. (\E p \in Process, n \in 1..MaxSequence : Insert(p, n)) \/ events' = events
  BY DEF Next, vars, StartAppend, AppendFails, Return, BeginDispatch, DispatchBusy,
         RunDispatchers, DispatcherRaises, FinishDispatch, Crash
<1> QED BY <1>1, <1>2

\* The journal only grows, behind the last event of a run and without a gap.
THEOREM GrowsAtTheEnd == Spec => AppendOnly
<1>1. IInv /\ [Next]_vars =>
        [/\ events \subseteq events'
         /\ \A e \in events' \ events :
              /\ \A f \in events' : f # e /\ f.run = e.run => f.sequence < e.sequence
              /\ e.sequence = 1 \/
                    \E f \in events : f.run = e.run /\ f.sequence = e.sequence - 1]_vars
  BY StepAppends
<1> QED BY <1>1, Invariant, PTL DEF Spec, AppendOnly

\* Whoever calls dispatchers has the write lock.
Guarded == \A p \in Process : InDispatch(p) => lock = p

LEMMA StepKeepsGuard ==
    ASSUME TypeOK, Guarded, [Next]_vars
    PROVE  Guarded'
<1> SUFFICES ASSUME NEW q \in Process, InDispatch(q)'
             PROVE  lock' = q
  BY DEF Guarded
<1>1. CASE UNCHANGED vars
  BY <1>1 DEF vars, Guarded, InDispatch
<1>2. ASSUME NEW p \in Process, BeginDispatch(p)
      PROVE  lock' = q
  \* The guard of p: nobody else may be in a dispatch.
  BY <1>2, NoneAssumption DEF BeginDispatch, TypeOK, Guarded, InDispatch
<1>3. ASSUME NEW p \in Process, FinishDispatch(p)
      PROVE  lock' = q
  BY <1>3 DEF FinishDispatch, TypeOK, Guarded, InDispatch
<1>4. ASSUME NEW p \in Process, Crash(p)
      PROVE  lock' = q
  BY <1>4 DEF Crash, TypeOK, Guarded, InDispatch
<1>5. ASSUME NEW p \in Process,
             \/ \E r \in Run, k \in Key \cup {NoKey} : StartAppend(p, r, k)
             \/ \E n \in 1..MaxSequence : Insert(p, n)
             \/ AppendFails(p) \/ Return(p) \/ DispatchBusy(p)
             \/ RunDispatchers(p) \/ DispatcherRaises(p)
      PROVE  lock' = q
  BY <1>5 DEF StartAppend, Insert, AppendFails, Return, DispatchBusy, RunDispatchers,
              DispatcherRaises, TypeOK, Guarded, InDispatch
<1> QED BY <1>1, <1>2, <1>3, <1>4, <1>5 DEF Next

\* While somebody has the write lock nothing is recorded, and only the holder may be
\* found in a dispatch after the step.
LEMMA LockedStep ==
    ASSUME TypeOK, Guarded, [Next]_vars, NEW p \in Process, lock = p
    PROVE  /\ events' = events
           /\ \A q \in Process \ {p} : ~InDispatch(q)'
<1>1. lock # None
  BY NoneAssumption
<1>2. events' = events
  BY <1>1 DEF Next, vars, StartAppend, Insert, CanLock, AppendFails, Return, BeginDispatch,
              DispatchBusy, RunDispatchers, DispatcherRaises, FinishDispatch, Crash
<1>3. ASSUME NEW q \in Process \ {p} PROVE ~InDispatch(q)'
  <2>1. ~InDispatch(q)
    BY DEF Guarded
  <2>2. CASE pc'[q] = pc[q]
    BY <2>1, <2>2 DEF InDispatch
  <2>3. CASE UNCHANGED vars
    BY <2>1, <2>3 DEF vars, InDispatch
  <2>4. ASSUME NEW x \in Process, BeginDispatch(x) PROVE ~InDispatch(q)'
    BY <1>1, <2>1, <2>4 DEF BeginDispatch, TypeOK, InDispatch
  <2>5. ASSUME NEW x \in Process, RunDispatchers(x) PROVE ~InDispatch(q)'
    BY <2>1, <2>5 DEF RunDispatchers, TypeOK, InDispatch
  <2>6. ASSUME NEW x \in Process,
               \/ \E r \in Run, k \in Key \cup {NoKey} : StartAppend(x, r, k)
               \/ \E n \in 1..MaxSequence : Insert(x, n)
               \/ AppendFails(x) \/ Return(x) \/ DispatchBusy(x)
               \/ DispatcherRaises(x) \/ FinishDispatch(x) \/ Crash(x)
        PROVE  ~InDispatch(q)'
    BY <2>1, <2>6 DEF StartAppend, Insert, AppendFails, Return, DispatchBusy,
                      DispatcherRaises, FinishDispatch, Crash, TypeOK, InDispatch
  <2> QED BY <2>3, <2>4, <2>5, <2>6 DEF Next
<1> QED BY <1>2, <1>3

\* From the start of a dispatch to its commit, or to the closing of the connection
\* when a dispatcher raised, the journal stands still and nobody else dispatches.
THEOREM OneDispatcherAtATime == Spec => DispatchersAreAlone
<1>1. Init => Guarded
  BY DEF Init, Guarded, InDispatch
<1>2. TypeOK /\ Guarded /\ [Next]_vars => Guarded'
  BY StepKeepsGuard
<1>3. TypeOK /\ Guarded /\ [Next]_vars =>
        [\A p \in Process : lock = p \/ InDispatch(p) =>
           /\ events' = events
           /\ \A q \in Process \ {p} : ~InDispatch(q)']_vars
  BY LockedStep DEF Guarded
<1> QED BY <1>1, <1>2, <1>3, TypeCorrect, PTL DEF Spec, DispatchersAreAlone

-----------------------------------------------------------------------------
(***************************************************************************)
(* The root cursor for every set of actors and nodes.  The fields agree    *)
(* and the cursor never starts over although coordinators overwrite each   *)
(* other, because each write carries a whole row that agreed when it was   *)
(* read.  That nothing is lost needs a sole coordinator: then the row an   *)
(* advance read is still the cursor when it writes.                        *)
(***************************************************************************)

\* What the constants are is known from here on.
USE CoordinatorAssumption

Sole == \A a, b \in ops : a = b

Writes ==
    \A a \in Actor :
        /\ stage[a] # "idle" => a \in ops
        /\ stage[a] \in {"advancing", "committed"} =>
             pending[a] # Nil /\ cursor # Nil /\ Agreeing(pending[a].row)

SoleReadsCursor ==
    Sole => \A a \in Actor :
        /\ stage[a] = "advancing" =>
             pending[a].row = cursor /\ pending[a].expected \in {Nil, cursor.version}
        /\ stage[a] = "committed" => cursor = Advanced(pending[a])
        /\ stage[a] = "inserting" => cursor = Nil

CursorInv ==
    /\ CoordinatorTypeOK
    /\ FieldsAgree
    /\ Writes
    /\ SoleReadsCursor
    /\ SoleWriterKeepsAll

LEMMA NilIsNoCursor ==
    Nil \notin Cursor
BY DEF ConstantsFit, Cursor

\* What an advance writes is a cursor whose fields agree if they did in what it
\* read, and whose version is at least 2.
LEMMA AdvancedAgrees ==
    ASSUME NEW p \in Pending, Agreeing(p.row)
    PROVE  /\ Advanced(p) \in Cursor /\ Advanced(p) # Nil
           /\ Agreeing(Advanced(p)) /\ Advanced(p).version > 1
           /\ Advanced(p).nodes = Append(p.row.nodes, p.node)
<1>1. p.row \in Cursor /\ p.node \in Node
  BY DEF Pending
<1>2. /\ Append(p.row.nodes, p.node) \in Seq(Node)
      /\ Len(Append(p.row.nodes, p.node)) = Len(p.row.nodes) + 1
  BY <1>1 DEF Cursor
<1>3. /\ p.row.index + 1 \in Nat /\ p.row.version + 1 \in Nat
      /\ p.row.index + 1 = Len(p.row.nodes) + 1
      /\ p.row.version + 1 = p.row.index + 2
  BY <1>1 DEF Cursor, Agreeing
<1>4. Advanced(p) \in Cursor
  BY <1>2, <1>3 DEF Advanced, Cursor
<1>5. Advanced(p) # Nil
  BY <1>4, NilIsNoCursor
<1>6. /\ Advanced(p).nodes = Append(p.row.nodes, p.node)
      /\ Advanced(p).index = p.row.index + 1
      /\ Advanced(p).version = p.row.version + 1
  BY DEF Advanced
<1>7. p.row.index \in Nat
  BY <1>1 DEF Cursor
<1> QED BY <1>2, <1>3, <1>4, <1>5, <1>6, <1>7 DEF Agreeing

LEMMA RootAgrees ==
    Root \in Cursor /\ Root # Nil /\ Agreeing(Root)
<1>1. Root \in Cursor
  BY DEF Root, Cursor
<1>2. Agreeing(Root)
  BY DEF Root, Agreeing
<1> QED BY <1>1, <1>2, NilIsNoCursor

\* Nothing changes in the history of advances but what became of the answer of one.
LEMMA AnsweredKeeps ==
    ASSUME advances \in Seq(Advance), NEW a \in Actor, NEW reply \in {"given", "lost"}
    PROVE  /\ Answered(a, reply) \in Seq(Advance)
           /\ Len(Answered(a, reply)) = Len(advances)
           /\ DOMAIN Answered(a, reply) = DOMAIN advances
           /\ \A i \in DOMAIN advances :
                 /\ Answered(a, reply)[i].node = advances[i].node
                 /\ Answered(a, reply)[i].expected = advances[i].expected
                 /\ Answered(a, reply)[i].by = advances[i].by
                 /\ Answered(a, reply)[i].answer = "due" =>
                       advances[i].answer = "due" /\ advances[i].by # a
<1>1. DOMAIN advances = 1 .. Len(advances) /\ Len(advances) \in Nat
  OBVIOUS
<1>2. ASSUME NEW i \in DOMAIN advances
      PROVE  /\ Answered(a, reply)[i] \in Advance
             /\ Answered(a, reply)[i].node = advances[i].node
             /\ Answered(a, reply)[i].expected = advances[i].expected
             /\ Answered(a, reply)[i].by = advances[i].by
             /\ Answered(a, reply)[i].answer = "due" =>
                   advances[i].answer = "due" /\ advances[i].by # a
  <2>1. advances[i] \in Advance
    OBVIOUS
  <2> QED BY <2>1 DEF Answered, Advance
<1>3. Answered(a, reply) \in [1 .. Len(advances) -> Advance]
  BY <1>1, <1>2 DEF Answered
<1> QED BY <1>1, <1>2, <1>3

\* So the history says the same of the cursor when an answer is given, or lost.
LEMMA AnswerKeepsAll ==
    ASSUME CursorInv, NEW a \in Actor, NEW reply \in {"given", "lost"},
           advances' = Answered(a, reply), cursor' = cursor, ops' = ops,
           stage' = [stage EXCEPT ![a] = "idle"],
           \A b \in Actor : seen'[b] # Nil =>
               seen'[b] = seen[b] \/ seen'[b] = cursor
    PROVE  SoleWriterKeepsAll'
<1>1. /\ advances' \in Seq(Advance)
      /\ Len(advances') = Len(advances)
      /\ DOMAIN advances' = DOMAIN advances
      /\ \A i \in DOMAIN advances :
            /\ advances'[i].node = advances[i].node
            /\ advances'[i].expected = advances[i].expected
            /\ advances'[i].by = advances[i].by
            /\ advances'[i].answer = "due" => advances[i].answer = "due" /\ advances[i].by # a
  BY AnsweredKeeps DEF CursorInv, CoordinatorTypeOK
<1> SUFFICES ASSUME Sole
             PROVE  /\ cursor = Nil => advances' = <<>>
                    /\ cursor # Nil =>
                         cursor.nodes = [i \in DOMAIN advances' |-> advances'[i].node]
                    /\ \A b \in Actor : seen'[b] # Nil => cursor # Nil /\ Begins(seen'[b], cursor)
                    /\ \A i \in DOMAIN advances' :
                          /\ advances'[i].expected \in {Nil, i}
                          /\ advances'[i].answer = "due" =>
                               i = Len(advances') /\ stage'[advances'[i].by] = "committed"
  BY DEF SoleWriterKeepsAll, Sole
<1>2. cursor = Nil => advances' = <<>>
  BY <1>1 DEF CursorInv, SoleWriterKeepsAll, Sole
<1>3. cursor # Nil => cursor.nodes = [i \in DOMAIN advances' |-> advances'[i].node]
  BY <1>1 DEF CursorInv, SoleWriterKeepsAll, Sole
<1>4. \A b \in Actor : seen'[b] # Nil => cursor # Nil /\ Begins(seen'[b], cursor)
  BY DEF CursorInv, SoleWriterKeepsAll, Sole, Begins
<1>5. ASSUME NEW i \in DOMAIN advances'
      PROVE  /\ advances'[i].expected \in {Nil, i}
             /\ advances'[i].answer = "due" =>
                  i = Len(advances') /\ stage'[advances'[i].by] = "committed"
  <2>1. advances[i] \in Advance
    BY <1>1 DEF CursorInv, CoordinatorTypeOK
  <2> QED BY <1>1, <2>1 DEF CursorInv, CoordinatorTypeOK, SoleWriterKeepsAll, Sole, Advance
<1> QED BY <1>2, <1>3, <1>4, <1>5

LEMMA CursorStart ==
    ASSUME CoordinatorInit PROVE CursorInv
BY DEF CoordinatorInit, CursorInv, CoordinatorTypeOK, FieldsAgree, Writes, SoleReadsCursor,
   SoleWriterKeepsAll

LEMMA CursorCommitted ==
    ASSUME CursorInv,
           NEW a \in Actor, CommitAdvance(a), ops' = ops
    PROVE  CursorInv'
<1> DEFINE p == pending[a]
           new == [node |-> p.node, expected |-> p.expected, by |-> a, answer |-> "due"]
           n == Len(advances)
<1>1. p \in Pending /\ Agreeing(p.row) /\ a \in ops /\ cursor # Nil
  BY DEF CursorInv, CoordinatorTypeOK, Writes, CommitAdvance
<1>2. /\ Advanced(p) \in Cursor /\ Advanced(p) # Nil
      /\ Agreeing(Advanced(p))
      /\ Advanced(p).nodes = Append(p.row.nodes, p.node)
  BY <1>1, AdvancedAgrees
<1>3. new \in Advance
  BY <1>1 DEF Pending, Advance
<1>4. CoordinatorTypeOK'
  BY <1>2, <1>3 DEF CursorInv, CoordinatorTypeOK, CommitAdvance
<1>5. FieldsAgree'
  BY <1>2 DEF CursorInv, CoordinatorTypeOK, FieldsAgree, CommitAdvance
<1>6. Writes'
  BY <1>1, <1>2 DEF CursorInv, CoordinatorTypeOK, Writes, CommitAdvance
<1>7. SoleReadsCursor'
  BY <1>1 DEF CursorInv, CoordinatorTypeOK, Writes, SoleReadsCursor, Sole, CommitAdvance
<1>8. SoleWriterKeepsAll'
  <2> SUFFICES ASSUME Sole
               PROVE  /\ cursor'.nodes = [i \in DOMAIN advances' |-> advances'[i].node]
                      /\ \A b \in Actor : seen[b] # Nil => Begins(seen[b], cursor')
                      /\ \A i \in DOMAIN advances' :
                            /\ advances'[i].expected \in {Nil, i}
                            /\ advances'[i].answer = "due" =>
                                 i = Len(advances') /\ stage'[advances'[i].by] = "committed"
    BY <1>2 DEF SoleWriterKeepsAll, Sole, CommitAdvance
  <2>1. /\ p.row = cursor /\ p.expected \in {Nil, cursor.version}
        /\ cursor.nodes = [i \in DOMAIN advances |-> advances[i].node]
    BY <1>1 DEF CursorInv, SoleReadsCursor, SoleWriterKeepsAll, Sole,
       CommitAdvance
  <2>2. /\ advances' = Append(advances, new)
        /\ advances \in Seq(Advance) /\ new \in Advance
    BY <1>3 DEF CursorInv, CoordinatorTypeOK, CommitAdvance
  <2>3. /\ cursor'.nodes = Append(cursor.nodes, p.node)
        /\ cursor.nodes \in Seq(Node) /\ p.node \in Node
    BY <1>1, <1>2, <2>1 DEF CommitAdvance, CursorInv, CoordinatorTypeOK, Cursor,
       Pending
  <2>4. /\ DOMAIN advances = 1..n /\ n \in Nat /\ Len(cursor.nodes) = n
        /\ DOMAIN advances' = 1..(n + 1) /\ Len(advances') = n + 1
        /\ advances'[n + 1] = new /\ \A i \in 1..n : advances'[i] = advances[i]
    BY <2>1, <2>2, <2>3
  <2>5. \A i \in 1..(n + 1) : cursor'.nodes[i] = advances'[i].node
    <3> SUFFICES ASSUME NEW i \in 1..(n + 1) PROVE cursor'.nodes[i] = advances'[i].node
      OBVIOUS
    <3>1. CASE i = n + 1
      BY <3>1, <2>2, <2>3, <2>4
    <3>2. CASE i # n + 1
      <4>1. i \in 1..n
        BY <3>2, <2>4
      <4>2. cursor'.nodes[i] = cursor.nodes[i]
        BY <4>1, <2>3, <2>4
      <4> QED BY <4>1, <4>2, <2>1, <2>4
    <3> QED BY <3>1, <3>2
  <2>6. cursor'.nodes = [i \in 1..(n + 1) |-> cursor'.nodes[i]]
    BY <2>3, <2>4
  <2>7. cursor'.nodes = [i \in DOMAIN advances' |-> advances'[i].node]
    BY <2>4, <2>5, <2>6
  <2>8. ASSUME NEW b \in Actor, seen[b] # Nil PROVE Begins(seen[b], cursor')
    <3>1. \A i \in DOMAIN seen[b].nodes :
              i \in DOMAIN cursor.nodes /\ seen[b].nodes[i] = cursor.nodes[i]
      BY <2>8 DEF CursorInv, SoleWriterKeepsAll, Sole, Begins
    <3>2. \A i \in DOMAIN cursor.nodes :
              i \in DOMAIN cursor'.nodes /\ cursor'.nodes[i] = cursor.nodes[i]
      BY <2>3
    <3> QED BY <3>1, <3>2 DEF Begins
  \* The version is one ahead of the nodes, so it is the position of the new advance.
  <2>9. cursor.version = n + 1
    BY <1>1, <2>1, <2>4 DEF Agreeing
  \* An advance that was not answered before would be that of the coordinator itself.
  <2>10. \A i \in 1..n : advances[i].answer # "due"
    <3> SUFFICES ASSUME NEW i \in 1..n, advances[i].answer = "due" PROVE FALSE
      OBVIOUS
    <3>1. advances[i].by \in Actor /\ stage[advances[i].by] = "committed"
      <4>1. i \in DOMAIN advances /\ advances[i] \in Advance
        BY <2>2, <2>4
      <4>2. advances[i].by \in Actor
        BY <4>1 DEF Advance
      <4> QED BY <4>1, <4>2 DEF CursorInv, SoleWriterKeepsAll, Sole
    <3>2. advances[i].by \in ops
      BY <3>1 DEF CursorInv, Writes
    <3>3. advances[i].by = a
      BY <1>1, <3>2 DEF Sole
    <3> QED BY <3>1, <3>3 DEF CommitAdvance
  <2>11. stage'[a] = "committed"
    BY DEF CommitAdvance, CursorInv, CoordinatorTypeOK
  <2>12. ASSUME NEW i \in DOMAIN advances'
         PROVE  /\ advances'[i].expected \in {Nil, i}
                /\ advances'[i].answer = "due" =>
                     i = Len(advances') /\ stage'[advances'[i].by] = "committed"
    <3>1. CASE i = n + 1
      BY <3>1, <2>1, <2>4, <2>9, <2>11
    <3>2. CASE i # n + 1
      <4>1. i \in 1..n
        BY <3>2, <2>4
      <4>2. advances[i].expected \in {Nil, i}
        BY <4>1, <2>4 DEF CursorInv, SoleWriterKeepsAll, Sole
      <4> QED BY <4>1, <4>2, <2>4, <2>10
    <3> QED BY <3>1, <3>2
  <2> QED BY <2>7, <2>8, <2>12
<1> QED BY <1>4, <1>5, <1>6, <1>7, <1>8 DEF CursorInv

LEMMA CursorReturned ==
    ASSUME CursorInv,
           NEW a \in Actor, ReturnAdvance(a), ops' = ops
    PROVE  CursorInv'
<1>1. pending[a] \in Pending /\ Agreeing(pending[a].row) /\ a \in ops /\ cursor # Nil
  BY DEF CursorInv, CoordinatorTypeOK, Writes, ReturnAdvance
<1>2. /\ Advanced(pending[a]) \in Cursor /\ Advanced(pending[a]) # Nil
      /\ Agreeing(Advanced(pending[a]))
  BY <1>1, AdvancedAgrees
<1>3. advances' \in Seq(Advance)
  BY AnsweredKeeps DEF ReturnAdvance, CursorInv, CoordinatorTypeOK
<1>4. CoordinatorTypeOK'
  BY <1>2, <1>3 DEF CursorInv, CoordinatorTypeOK, ReturnAdvance
<1>5. FieldsAgree' /\ Writes'
  BY <1>2 DEF CursorInv, CoordinatorTypeOK, FieldsAgree, Writes, ReturnAdvance
<1>6. SoleReadsCursor'
  BY DEF CursorInv, CoordinatorTypeOK, SoleReadsCursor, Sole, ReturnAdvance
<1>7. SoleWriterKeepsAll'
  <2>1. CASE Sole
    <3>1. Advanced(pending[a]) = cursor
      BY <2>1 DEF CursorInv, SoleReadsCursor, ReturnAdvance
    <3> QED BY <3>1, AnswerKeepsAll DEF ReturnAdvance, CursorInv, CoordinatorTypeOK
  <2>2. CASE ~Sole
    BY <2>2 DEF SoleWriterKeepsAll, Sole
  <2> QED BY <2>1, <2>2
<1> QED BY <1>4, <1>5, <1>6, <1>7 DEF CursorInv

LEMMA CursorLost ==
    ASSUME CursorInv,
           NEW a \in Actor, ProcessDies(a), ops' = ops
    PROVE  CursorInv'
<1>1. advances' \in Seq(Advance)
  BY AnsweredKeeps DEF ProcessDies, CursorInv, CoordinatorTypeOK
<1>2. CoordinatorTypeOK'
  BY <1>1 DEF CursorInv, CoordinatorTypeOK, ProcessDies
<1>3. FieldsAgree' /\ Writes' /\ SoleReadsCursor'
  BY DEF CursorInv, CoordinatorTypeOK, FieldsAgree, Writes, SoleReadsCursor, Sole, ProcessDies
<1>4. SoleWriterKeepsAll'
  BY AnswerKeepsAll DEF ProcessDies, CursorInv, CoordinatorTypeOK
<1> QED BY <1>2, <1>3, <1>4 DEF CursorInv

LEMMA CursorStep ==
    ASSUME CursorInv, [CoordinatorNext]_coordinatorVars
    PROVE  CursorInv'
<1>0. ops' = ops
  BY DEF CoordinatorNext, coordinatorVars
<1> USE <1>0 DEF CursorInv, Sole
<1>1. CASE UNCHANGED coordinatorVars
  BY <1>1 DEF coordinatorVars, CoordinatorTypeOK, FieldsAgree, Writes, SoleReadsCursor,
     SoleWriterKeepsAll
<1>2. ASSUME NEW a \in Actor, Load(a) PROVE CursorInv'
  BY <1>2 DEF Load, CoordinatorTypeOK, FieldsAgree, Writes, SoleReadsCursor,
     SoleWriterKeepsAll, Begins
<1>3. ASSUME NEW a \in Actor, EnsureRoot(a) PROVE CursorInv'
  BY <1>3 DEF EnsureRoot, CoordinatorTypeOK, FieldsAgree, Writes, SoleReadsCursor,
     SoleWriterKeepsAll, Begins
<1>4. ASSUME NEW a \in Actor, InsertRoot(a) PROVE CursorInv'
  <2>1. a \in ops
    BY <1>4 DEF InsertRoot, Writes
  <2>2. CoordinatorTypeOK' /\ FieldsAgree'
    BY <1>4, RootAgrees DEF InsertRoot, CoordinatorTypeOK, FieldsAgree
  <2>3. Writes'
    BY <1>4, RootAgrees DEF InsertRoot, CoordinatorTypeOK, Writes
  <2>4. SoleReadsCursor'
    BY <1>4, <2>1 DEF InsertRoot, CoordinatorTypeOK, Writes, SoleReadsCursor, Sole
  <2>5. SoleWriterKeepsAll'
    BY <1>4, RootAgrees DEF InsertRoot, CoordinatorTypeOK, SoleWriterKeepsAll,
       Root, Begins
  <2> QED BY <2>2, <2>3, <2>4, <2>5
<1>5. ASSUME NEW a \in Actor, NEW node \in Node,
             NEW expected \in {Nil} \cup 1..(MaxAdvances + 1),
             BeginAdvance(a, node, expected)
      PROVE  CursorInv'
  <2>1. [row |-> cursor, node |-> node, expected |-> expected] \in Pending
    BY <1>5 DEF ConstantsFit, BeginAdvance, CoordinatorTypeOK, Pending
  <2>2. [row |-> cursor, node |-> node, expected |-> expected] # Nil
    BY <2>1 DEF ConstantsFit, Pending, Cursor
  <2>3. CoordinatorTypeOK' /\ FieldsAgree'
    BY <1>5, <2>1 DEF BeginAdvance, CoordinatorTypeOK, FieldsAgree
  <2>4. Writes'
    BY <1>5, <2>2 DEF BeginAdvance, CoordinatorTypeOK, FieldsAgree, Writes
  <2>5. SoleReadsCursor' /\ SoleWriterKeepsAll'
    BY <1>5 DEF BeginAdvance, CoordinatorTypeOK, SoleReadsCursor, SoleWriterKeepsAll
  <2> QED BY <2>3, <2>4, <2>5
<1>6. ASSUME NEW a \in Actor, CommitAdvance(a) PROVE CursorInv'
  BY <1>6, CursorCommitted
<1>7. ASSUME NEW a \in Actor, WriteFails(a) PROVE CursorInv'
  BY <1>7 DEF WriteFails, CoordinatorTypeOK, FieldsAgree, Writes, SoleReadsCursor,
     SoleWriterKeepsAll
<1>8. ASSUME NEW a \in Actor, ProcessDies(a) PROVE CursorInv'
  BY <1>8, CursorLost
<1>9. ASSUME NEW a \in Actor, ReturnAdvance(a) PROVE CursorInv'
  BY <1>9, CursorReturned
<1> QED BY <1>1, <1>2, <1>3, <1>4, <1>5, <1>6, <1>7, <1>8, <1>9 DEF CoordinatorNext

LEMMA CursorInvariant ==
    CoordinatorSpec => []CursorInv
<1>1. CoordinatorInit => CursorInv
  BY CursorStart
<1>2. CursorInv /\ [CoordinatorNext]_coordinatorVars => CursorInv'
  BY CursorStep
<1> QED BY <1>1, <1>2, PTL DEF CoordinatorSpec

\* Types of the cursor, of the copies and of the writes in flight.
THEOREM CursorTypeCorrect ==
    CoordinatorSpec => []CoordinatorTypeOK
<1>1. CursorInv => CoordinatorTypeOK
  BY DEF CursorInv
<1> QED BY <1>1, CursorInvariant, PTL

\* Ordinal, version and committed nodes agree, however coordinators race.
THEOREM CursorAgrees ==
    CoordinatorSpec => []FieldsAgree
<1>1. CursorInv => FieldsAgree
  BY DEF CursorInv
<1> QED BY <1>1, CursorInvariant, PTL

\* With a sole ops actor the cursor holds exactly the nodes whose advance
\* committed, in order, over crashes, timeouts and restarts; what anybody was given
\* is a beginning of it, and an advance goes unanswered only by a crash.
THEOREM SoleCoordinatorLosesNothing ==
    CoordinatorSpec => []SoleWriterKeepsAll
<1>1. CursorInv => SoleWriterKeepsAll
  BY DEF CursorInv
<1> QED BY <1>1, CursorInvariant, PTL

LEMMA StepNeverStartsOver ==
    ASSUME CursorInv, [CoordinatorNext]_coordinatorVars, cursor # Nil
    PROVE  cursor' # Nil /\ (cursor.version > 1 => cursor'.version > 1)
<1>1. ASSUME NEW a \in Actor, CommitAdvance(a)
      PROVE  cursor' # Nil /\ cursor'.version > 1
  <2>1. /\ pending[a] \in Pending /\ Agreeing(pending[a].row)
        /\ cursor' = Advanced(pending[a])
    BY <1>1 DEF CursorInv, CoordinatorTypeOK, Writes, CommitAdvance
  <2> QED BY <2>1, AdvancedAgrees
<1>2. (\E a \in Actor : CommitAdvance(a)) \/ cursor' = cursor
  BY DEF CoordinatorNext, coordinatorVars, Load, EnsureRoot, InsertRoot,
     BeginAdvance, ReturnAdvance, WriteFails, ProcessDies
<1> QED BY <1>1, <1>2

\* No ensure_root resets a cursor that exists.
THEOREM RootIsRecordedOnce ==
    CoordinatorSpec => NeverStartsOver
<1>1. CursorInv /\ [CoordinatorNext]_coordinatorVars =>
        [cursor # Nil =>
            cursor' # Nil /\ (cursor.version > 1 => cursor'.version > 1)]_coordinatorVars
  BY StepNeverStartsOver
<1> QED BY <1>1, CursorInvariant, PTL DEF CoordinatorSpec, NeverStartsOver
=============================================================================
