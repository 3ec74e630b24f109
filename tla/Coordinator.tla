----------------------------- MODULE Coordinator -----------------------------
(***************************************************************************)
(* The root-DAG cursor of one (sequence, wave) (coordinator.py).  Actors   *)
(* hold a connection each to the shared store; only those in `ops' get    *)
(* past _assert_writer.  ensure_root and advance read the cursor, decide   *)
(* in Python, and write it in a transaction of its own.                    *)
(*                                                                         *)
(* A write that fails is never rolled back, so the transaction the driver  *)
(* opened for it stays open: with the write lock after an IntegrityError,  *)
(* without it after a busy timeout.  A connection in that state writes     *)
(* only if nothing was committed since its read.                           *)
(***************************************************************************)
EXTENDS Naturals, Sequences

CONSTANTS
    Actor,
    Node,
    MaxAdvances, \* no advance starts after this many (a bound of the model)
    Nil

ConstantsFit ==
    /\ MaxAdvances \in Nat
    /\ Nil \notin Nat
    /\ Nil \notin Actor
    /\ Nil \notin [nodes : Seq(Node), index : Nat, version : Nat]
    /\ Nil \notin [row : [nodes : Seq(Node), index : Nat, version : Nat],
                   node : Node, expected : Nat \cup {Nil}]
ASSUME CoordinatorAssumption == ConstantsFit

VARIABLES
    ops,     \* the actors that call with the ops role (fixed)
    cursor,  \* the row of root_dag_cursor, or Nil
    seen,    \* seen[a]: the cursor a was last given, or Nil
    stage,   \* stage[a]: the write a is about to make, or has made and not told of
    pending, \* pending[a]: what a's advance read and was asked for, or Nil
    holder,  \* the actor whose open transaction holds the write lock, or Nil
    begun,   \* the actors whose connection is inside a transaction
    advances \* the advances that committed, in order, and what became of their
             \* answers (history)

coordinatorVars == <<ops, cursor, seen, stage, pending, holder, begun, advances>>

Cursor == [nodes : Seq(Node), index : Nat, version : Nat]
Pending == [row : Cursor, node : Node, expected : Nat \cup {Nil}]
Advance == [node : Node, expected : Nat \cup {Nil}, by : Actor,
            answer : {"due", "given", "lost"}]

Root == [nodes |-> <<>>, index |-> 0, version |-> 1]

CoordinatorInit ==
    /\ ops \in SUBSET Actor
    /\ cursor = Nil
    /\ seen = [a \in Actor |-> Nil]
    /\ stage = [a \in Actor |-> "idle"]
    /\ pending = [a \in Actor |-> Nil]
    /\ holder = Nil
    /\ begun = {}
    /\ advances = <<>>

\* load: open to every role, and where a fresh coordinator resumes.
Load(a) ==
    /\ stage[a] = "idle"
    /\ seen' = [seen EXCEPT ![a] = cursor]
    /\ UNCHANGED <<cursor, stage, pending, holder, begun, advances>>

\* ensure_root, up to its INSERT.
EnsureRoot(a) ==
    /\ a \in ops
    /\ stage[a] = "idle"
    /\ IF cursor # Nil
       THEN seen' = [seen EXCEPT ![a] = cursor] /\ UNCHANGED stage
       ELSE stage' = [stage EXCEPT ![a] = "inserting"] /\ UNCHANGED seen
    /\ UNCHANGED <<cursor, pending, holder, begun, advances>>

\* Mutant: INSERT OR REPLACE.
InsertRootReplaces(a) ==
    /\ stage[a] = "inserting"
    /\ holder \in {Nil, a}
    /\ cursor' = Root
    /\ seen' = [seen EXCEPT ![a] = Root]
    /\ holder' = Nil
    /\ begun' = begun \ {a}
    /\ stage' = [stage EXCEPT ![a] = "idle"]
    /\ UNCHANGED <<pending, advances>>

(***************************************************************************)
(* The INSERT of ensure_root and its commit; the primary key refuses the   *)
(* second coordinator, whose IntegrityError leaves the lock with it.       *)
(***************************************************************************)
InsertRoot(a) ==
    /\ stage[a] = "inserting"
    /\ holder \in {Nil, a}
    /\ \/ /\ cursor = Nil
          /\ cursor' = Root
          /\ seen' = [seen EXCEPT ![a] = Root]
          /\ holder' = Nil
          /\ begun' = begun \ {a}
       \/ /\ cursor # Nil
          /\ a \notin begun
          /\ holder' = a
          /\ begun' = begun \cup {a}
          /\ UNCHANGED <<cursor, seen>>
    /\ stage' = [stage EXCEPT ![a] = "idle"]
    /\ UNCHANGED <<pending, advances>>

(***************************************************************************)
(* advance, up to its UPDATE: the version is compared on the row just      *)
(* read, if the caller gives one.                                          *)
(***************************************************************************)
BeginAdvance(a, node, expected) ==
    /\ a \in ops
    /\ stage[a] = "idle"
    /\ cursor # Nil
    /\ expected \in {Nil, cursor.version}
    /\ Len(advances) < MaxAdvances
    /\ pending' = [pending EXCEPT ![a] =
                     [row |-> cursor, node |-> node, expected |-> expected]]
    /\ stage' = [stage EXCEPT ![a] = "advancing"]
    /\ UNCHANGED <<cursor, seen, holder, begun, advances>>

\* Mutant: the ordinal is counted by the database (cursor_index + 1).
AdvancedInSql(p) ==
    [nodes |-> Append(p.row.nodes, p.node),
     index |-> cursor.index + 1, version |-> p.row.version + 1]

\* Mutant: the newest node goes to the front.
AdvancedFront(p) ==
    [nodes |-> <<p.node>> \o p.row.nodes,
     index |-> p.row.index + 1, version |-> p.row.version + 1]

Advanced(p) ==
    [nodes |-> Append(p.row.nodes, p.node),
     index |-> p.row.index + 1, version |-> p.row.version + 1]

(***************************************************************************)
(* UPDATE ... WHERE key = ?, and the commit.                               *)
(***************************************************************************)
CommitAdvance(a) ==
    /\ stage[a] = "advancing"
    /\ holder \in {Nil, a}
    /\ a \in begun => cursor = pending[a].row
    /\ cursor' = Advanced(pending[a])
    /\ advances' = Append(advances, [node |-> pending[a].node,
                                     expected |-> pending[a].expected,
                                     by |-> a, answer |-> "due"])
    /\ stage' = [stage EXCEPT ![a] = "committed"]
    /\ holder' = Nil
    /\ begun' = begun \ {a}
    /\ UNCHANGED <<seen, pending>>

\* The advance a has committed and not told of, if there is one, comes to this end.
Answered(a, answer) ==
    [i \in DOMAIN advances |->
        IF advances[i].by = a /\ advances[i].answer = "due"
        THEN [advances[i] EXCEPT !.answer = answer]
        ELSE advances[i]]

\* The cursor advance returns is computed from what it read.
ReturnAdvance(a) ==
    /\ stage[a] = "committed"
    /\ seen' = [seen EXCEPT ![a] = Advanced(pending[a])]
    /\ advances' = Answered(a, "given")
    /\ pending' = [pending EXCEPT ![a] = Nil]
    /\ stage' = [stage EXCEPT ![a] = "idle"]
    /\ UNCHANGED <<cursor, holder, begun>>

\* The write runs into the busy timeout (the lock is with a coordinator or any
\* other writer of the store) and raises; its transaction stays open.
WriteFails(a) ==
    /\ stage[a] \in {"inserting", "advancing"}
    /\ holder # a
    /\ pending' = [pending EXCEPT ![a] = Nil]
    /\ stage' = [stage EXCEPT ![a] = "idle"]
    /\ begun' = begun \cup {a}
    /\ UNCHANGED <<cursor, seen, holder, advances>>

\* The process dies, also between the commit of an advance and its return; a fresh
\* one has a new connection and knows nothing.
ProcessDies(a) ==
    /\ seen' = [seen EXCEPT ![a] = Nil]
    /\ pending' = [pending EXCEPT ![a] = Nil]
    /\ stage' = [stage EXCEPT ![a] = "idle"]
    /\ holder' = IF holder = a THEN Nil ELSE holder
    /\ begun' = begun \ {a}
    /\ advances' = Answered(a, "lost")
    /\ UNCHANGED cursor

CoordinatorNext ==
    /\ UNCHANGED ops
    /\ \E a \in Actor :
          \/ Load(a)
          \/ EnsureRoot(a)
          \/ InsertRoot(a)
          \/ \E node \in Node, expected \in {Nil} \cup 1..(MaxAdvances + 1) :
               BeginAdvance(a, node, expected)
          \/ CommitAdvance(a)
          \/ ReturnAdvance(a)
          \/ WriteFails(a)
          \/ ProcessDies(a)

CoordinatorSpec == CoordinatorInit /\ [][CoordinatorNext]_coordinatorVars

-----------------------------------------------------------------------------
\* Types of the cursor and of what an actor carries to its write.
CoordinatorTypeOK ==
    /\ ops \subseteq Actor
    /\ cursor \in Cursor \cup {Nil}
    /\ seen \in [Actor -> Cursor \cup {Nil}]
    /\ stage \in [Actor -> {"idle", "inserting", "advancing", "committed"}]
    /\ pending \in [Actor -> Pending \cup {Nil}]
    /\ holder \in Actor \cup {Nil}
    /\ begun \subseteq Actor
    /\ advances \in Seq(Advance)

\* The fields of the cursor agree, on the row and on every copy an actor holds,
\* although racing coordinators overwrite each other: cursor_index counts the
\* committed nodes and the version is one ahead of it.
Agreeing(c) == c.index = Len(c.nodes) /\ c.version = c.index + 1

FieldsAgree ==
    /\ cursor # Nil => Agreeing(cursor)
    /\ \A a \in Actor : seen[a] # Nil => Agreeing(seen[a])

\* "A fresh coordinator never re-initialises over another coordinator's
\* committed cursor": a cursor that advanced once never starts over, although
\* ensure_root decides on a row read before its INSERT.
NeverStartsOver ==
    [][cursor # Nil => cursor' # Nil /\ (cursor.version > 1 => cursor'.version > 1)]_coordinatorVars

(***************************************************************************)
(* A sole coordinator loses nothing over crashes, timeouts and restarts:   *)
(* the nodes of the cursor are those of the advances that committed, in    *)
(* their order, and every cursor anybody was given is a beginning of it.   *)
(* An advance that committed has answered, is about to, or its process     *)
(* died before it could; a caller who repeats it with the version he       *)
(* expected does not append his node a second time.                        *)
(***************************************************************************)
Begins(c, d) == \A i \in DOMAIN c.nodes : i \in DOMAIN d.nodes /\ c.nodes[i] = d.nodes[i]

SoleWriterKeepsAll ==
    (\A a, b \in ops : a = b) =>
    /\ cursor = Nil => advances = <<>>
    /\ cursor # Nil => cursor.nodes = [i \in DOMAIN advances |-> advances[i].node]
    /\ \A a \in Actor : seen[a] # Nil => cursor # Nil /\ Begins(seen[a], cursor)
    /\ \A i \in DOMAIN advances :
          /\ advances[i].expected \in {Nil, i}
          /\ advances[i].answer = "due" =>
                i = Len(advances) /\ stage[advances[i].by] = "committed"
=============================================================================
