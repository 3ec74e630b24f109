------------------------------- MODULE Journal -------------------------------
(***************************************************************************)
(* The event journal of the runs (runtime/journal.py).  Processes hold a   *)
(* connection each to one SQLite file.  `append' looks for a duplicate     *)
(* before it takes the write lock and allocates the sequence number under  *)
(* it; `append_and_dispatch' then opens a second transaction, keeps it     *)
(* open while the dispatchers run and commits it as their success.         *)
(*                                                                         *)
(* expected_version is compared with a count read outside any transaction: *)
(* it refuses calls and protects nothing, so it is left out.               *)
(***************************************************************************)
EXTENDS Naturals

CONSTANTS
    Process, Run, Key,
    NoKey,          \* the idempotency key of a caller that gives none
    MaxSequence,    \* runs stop growing here (a bound of the model)
    None

ASSUME NoKeyAssumption == NoKey \notin Key
ASSUME MaxSequenceAssumption == MaxSequence \in Nat \ {0}
ASSUME NoneAssumption ==
    /\ None \notin Process
    /\ None \notin [run : Run, sequence : Nat, key : Key \cup {NoKey}]
    /\ None \notin [run : Run, key : Key \cup {NoKey}]

VARIABLES
    events,       \* the rows of the events table
    dispatched,   \* the events with a committed dispatch_log row of success 1
    delivered,    \* the events whose dispatchers have all returned once (history)
    lock,         \* the process whose transaction holds the write lock, or None
    open,         \* the processes whose connection is inside a transaction
    pc,           \* pc[p]: how far p is in its call
    call,         \* call[p]: the run and key p appends to, or None
    answer        \* answer[p]: the event append returned to p, or None

vars == <<events, dispatched, delivered, lock, open, pc, call, answer>>

Event == [run : Run, sequence : 1..MaxSequence, key : Key \cup {NoKey}]
Call == [run : Run, key : Key \cup {NoKey}]
Phase == {"idle", "checked", "appended", "dispatching", "delivered"}

Init ==
    /\ events = {}
    /\ dispatched = {}
    /\ delivered = {}
    /\ lock = None
    /\ open = {}
    /\ pc = [p \in Process |-> "idle"]
    /\ call = [p \in Process |-> None]
    /\ answer = [p \in Process |-> None]

\* _next_sequence: COALESCE(MAX(sequence), 0) + 1 over the run's events.
IsNext(r, n) ==
    /\ \A e \in events : e.run = r => e.sequence < n
    /\ n = 1 \/ \E e \in events : e.run = r /\ e.sequence = n - 1

Recorded(r, k) == {e \in events : e.run = r /\ e.key = k /\ k # NoKey}

\* The row found by (run_id, idempotency_key); none at all is a TypeError.
Winner(r, k) ==
    IF Recorded(r, k) = {} THEN None ELSE CHOOSE e \in Recorded(r, k) : TRUE

\* What the primary key and the unique index refuse.
Clash(e) ==
    \/ \E f \in events : f.run = e.run /\ f.sequence = e.sequence
    \/ Recorded(e.run, e.key) # {}

(***************************************************************************)
(* append, up to BEGIN IMMEDIATE: a known key is answered at once, without *)
(* the lock.                                                               *)
(***************************************************************************)
StartAppend(p, r, k) ==
    /\ pc[p] = "idle"
    /\ call' = [call EXCEPT ![p] = [run |-> r, key |-> k]]
    /\ answer' = [answer EXCEPT ![p] = Winner(r, k)]
    /\ pc' = [pc EXCEPT ![p] = IF Recorded(r, k) = {} THEN "checked" ELSE "appended"]
    /\ UNCHANGED <<events, dispatched, delivered, lock, open>>

CanLock(p) == lock = None /\ p \notin open

\* Mutant: the loser of the race is answered with the row it tried to insert.
InsertAnswersLoser(p, n) ==
    /\ pc[p] = "checked"
    /\ CanLock(p)
    /\ IsNext(call[p].run, n)
    /\ LET new == [run |-> call[p].run, sequence |-> n, key |-> call[p].key]
       IN /\ events' = IF Clash(new) THEN events ELSE events \cup {new}
          /\ answer' = [answer EXCEPT ![p] = new]
    /\ pc' = [pc EXCEPT ![p] = "appended"]
    /\ UNCHANGED <<dispatched, delivered, lock, open, call>>

(***************************************************************************)
(* BEGIN IMMEDIATE to commit.  A row that breaks a uniqueness constraint   *)
(* is rolled back, and the caller gets the row that has its key.           *)
(***************************************************************************)
Insert(p, n) ==
    /\ pc[p] = "checked"
    /\ CanLock(p)
    /\ IsNext(call[p].run, n)
    /\ LET new == [run |-> call[p].run, sequence |-> n, key |-> call[p].key]
       IN \/ /\ ~Clash(new)
             /\ events' = events \cup {new}
             /\ answer' = [answer EXCEPT ![p] = new]
          \/ /\ Clash(new)
             /\ answer' = [answer EXCEPT ![p] = Winner(new.run, new.key)]
             /\ UNCHANGED events
    /\ pc' = [pc EXCEPT ![p] = "appended"]
    /\ UNCHANGED <<dispatched, delivered, lock, open, call>>

\* BEGIN IMMEDIATE fails: the busy timeout, or a transaction that the connection
\* still has open from a failed dispatch.
AppendFails(p) ==
    /\ pc[p] = "checked"
    /\ ~CanLock(p)
    /\ pc' = [pc EXCEPT ![p] = "idle"]
    /\ call' = [call EXCEPT ![p] = None]
    /\ UNCHANGED <<events, dispatched, delivered, lock, open, answer>>

\* The caller of a plain `append' is done.
Return(p) ==
    /\ pc[p] = "appended"
    /\ pc' = [pc EXCEPT ![p] = "idle"]
    /\ call' = [call EXCEPT ![p] = None]
    /\ answer' = [answer EXCEPT ![p] = None]
    /\ UNCHANGED <<events, dispatched, delivered, lock, open>>

\* Mutant: the dispatch is logged as a success and committed up front.
BeginDispatchSucceeded(p) ==
    /\ pc[p] = "appended"
    /\ lock \in {None, p}
    /\ dispatched' = dispatched \cup {answer[p]}
    /\ pc' = [pc EXCEPT ![p] = "dispatching"]
    /\ UNCHANGED <<events, delivered, lock, open, call, answer>>

\* Mutant: the row with success 0 is committed before the dispatchers are called.
BeginDispatchCommits(p) ==
    /\ pc[p] = "appended"
    /\ lock \in {None, p}
    /\ lock' = None
    /\ open' = open \ {p}
    /\ pc' = [pc EXCEPT ![p] = "dispatching"]
    /\ UNCHANGED <<events, dispatched, delivered, call, answer>>

(***************************************************************************)
(* append_and_dispatch: the dispatch_log row with success 0 opens a        *)
(* transaction, which holds the write lock from here on.                   *)
(***************************************************************************)
BeginDispatch(p) ==
    /\ pc[p] = "appended"
    /\ lock \in {None, p}
    /\ lock' = p
    /\ open' = open \cup {p}
    /\ pc' = [pc EXCEPT ![p] = "dispatching"]
    /\ UNCHANGED <<events, dispatched, delivered, call, answer>>

\* The INSERT runs into the busy timeout; the transaction it opened stays open.
DispatchBusy(p) ==
    /\ pc[p] = "appended"
    /\ lock \notin {None, p}
    /\ open' = open \cup {p}
    /\ pc' = [pc EXCEPT ![p] = "idle"]
    /\ call' = [call EXCEPT ![p] = None]
    /\ answer' = [answer EXCEPT ![p] = None]
    /\ UNCHANGED <<events, dispatched, delivered, lock>>

RunDispatchers(p) ==
    /\ pc[p] = "dispatching"
    /\ delivered' = delivered \cup {answer[p]}
    /\ pc' = [pc EXCEPT ![p] = "delivered"]
    /\ UNCHANGED <<events, dispatched, lock, open, call, answer>>

\* A dispatcher raises out of append_and_dispatch: nothing is rolled back, so
\* the transaction and the write lock stay with the connection.
DispatcherRaises(p) ==
    /\ pc[p] = "dispatching"
    /\ pc' = [pc EXCEPT ![p] = "idle"]
    /\ call' = [call EXCEPT ![p] = None]
    /\ answer' = [answer EXCEPT ![p] = None]
    /\ UNCHANGED <<events, dispatched, delivered, lock, open>>

\* UPDATE ... SET success = 1 by run and sequence, and the commit.
FinishDispatch(p) ==
    /\ pc[p] = "delivered"
    /\ dispatched' = dispatched \cup {answer[p]}
    /\ lock' = None
    /\ open' = open \ {p}
    /\ pc' = [pc EXCEPT ![p] = "idle"]
    /\ call' = [call EXCEPT ![p] = None]
    /\ answer' = [answer EXCEPT ![p] = None]
    /\ UNCHANGED <<events, delivered>>

\* The process dies, or closes the journal: an open transaction is rolled back.
Crash(p) ==
    /\ lock' = IF lock = p THEN None ELSE lock
    /\ open' = open \ {p}
    /\ pc' = [pc EXCEPT ![p] = "idle"]
    /\ call' = [call EXCEPT ![p] = None]
    /\ answer' = [answer EXCEPT ![p] = None]
    /\ UNCHANGED <<events, dispatched, delivered>>

Next ==
    \E p \in Process :
        \/ \E r \in Run, k \in Key \cup {NoKey} : StartAppend(p, r, k)
        \/ \E n \in 1..MaxSequence : Insert(p, n)
        \/ AppendFails(p)
        \/ Return(p)
        \/ BeginDispatch(p)
        \/ DispatchBusy(p)
        \/ RunDispatchers(p)
        \/ DispatcherRaises(p)
        \/ FinishDispatch(p)
        \/ Crash(p)

Spec == Init /\ [][Next]_vars

-----------------------------------------------------------------------------
\* Types of the tables, the lock and what a process carries between its steps.
TypeOK ==
    /\ events \subseteq Event
    /\ dispatched \subseteq Event
    /\ delivered \subseteq Event
    /\ lock \in Process \cup {None}
    /\ open \subseteq Process
    /\ pc \in [Process -> Phase]
    /\ call \in [Process -> Call \cup {None}]
    /\ answer \in [Process -> Event \cup {None}]

\* The numbers of a run's events are 1, 2, ..., n, each used once, whoever
\* appends to this and to other runs (has_gaps is never true).
GapFree ==
    /\ \A e, f \in events : e.run = f.run /\ e.sequence = f.sequence => e = f
    /\ \A e \in events : \A n \in 1..e.sequence :
         \E f \in events : f.run = e.run /\ f.sequence = n

\* Callers that retry, or race, with one idempotency key share one event,
\* although each may have looked for it before the other wrote it.
OneEventPerKey ==
    \A e, f \in events : e.run = f.run /\ e.key = f.key /\ e.key # NoKey => e = f

\* A call that returned has its event in the journal, with its own run and key.
AnswerIsRecorded ==
    \A p \in Process : pc[p] \in {"appended", "dispatching", "delivered"} =>
        /\ answer[p] \in events
        /\ answer[p].run = call[p].run
        /\ answer[p].key = call[p].key

\* Idempotency as a caller sees it: there is one event for its key and that event
\* is what it is answered with.  The rows an IntegrityError rolls back are always
\* those of a key that another caller recorded, so the lookup of the winner finds
\* its event.
KeyHasOneAnswer == OneEventPerKey /\ AnswerIsRecorded

\* Persist before dispatch, success after it: dispatchers only see events that
\* are in the journal, and an event that get_undispatched no longer offers for
\* another attempt has been through all of them, crashes and failures included.
SuccessMeansDelivered ==
    /\ dispatched \subseteq delivered
    /\ delivered \subseteq events

InDispatch(p) == pc[p] \in {"dispatching", "delivered"}

\* The transaction that append_and_dispatch keeps open while the dispatchers run
\* holds the journal still: until it is committed or the connection is closed, also
\* behind a dispatcher that raised, nobody records an event, its own process not
\* excepted, and nobody else calls dispatchers.
DispatchersAreAlone ==
    [][\A p \in Process : lock = p \/ InDispatch(p) =>
         /\ events' = events
         /\ \A q \in Process \ {p} : ~InDispatch(q)']_vars

\* The journal only grows, behind the run's last event and without leaving out a
\* number: a reader that polls with get_events(from_sequence) misses no event, and
\* can tell.
AppendOnly ==
    [][/\ events \subseteq events'
       /\ \A e \in events' \ events :
            /\ \A f \in events' : f # e /\ f.run = e.run => f.sequence < e.sequence
            /\ e.sequence = 1 \/
                  \E f \in events : f.run = e.run /\ f.sequence = e.sequence - 1]_vars
=============================================================================
