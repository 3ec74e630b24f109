--------------------------- MODULE MCDagScheduler ---------------------------
(* Three families of inputs: all graphs of three tasks under all gates, all   *)
(* pairs of raw scopes, and overlapping scopes with claims in small graphs.   *)
EXTENDS DagScheduler

CONSTANTS x, y, MaxPair

Name == {x, y}
MCComponent == Name \cup {RecursiveMark, Parent, Here, Empty}
MCCwd == <<x>>
MCTask == 1..3
MCScope == UNION {[1..n -> MCComponent] : n \in 0..MaxPair}
Outside == 9

Once(ts) == {[on |-> t, nth |-> 1] : t \in ts}
Twice(t) == {[on |-> t, nth |-> n] : n \in 1..2}

NoDepends == [t \in MCTask |-> {}]
NoScopes == [t \in MCTask |-> {}]

Graphs ==
    [depends : [MCTask -> {Once(ts) : ts \in SUBSET MCTask}
                          \cup {Twice(t) : t \in MCTask} \cup {Once({Outside})}],
     scopes : {NoScopes}, failing : SUBSET MCTask, held : {{}},
     max_parallel : {None, 2}, repeated : {FALSE}, boundary : {TRUE}]

\* Below the directory x; that directory, and a file in it, named from the root; and the
\* directory once more, as //x.
Paths == {<<x>>, <<y>>, <<x, y>>, <<y, Parent, x, RecursiveMark>>,
          <<RecursiveMark, x>>, <<Empty, x, y>>, <<Empty, RecursiveMark, x>>}

Plans ==
    [depends : {[t \in MCTask |-> IF t = 3 THEN Once(ts) ELSE {}] : ts \in SUBSET {1, 2}},
     scopes : [MCTask -> {{s} : s \in Paths}], failing : {{}},
     held : {{}, {<<x, y>>}, {<<y>>}},
     max_parallel : {None, 1, 2}, repeated : {FALSE}, boundary : {TRUE}]

Rejects ==
    [depends : {NoDepends}, scopes : {NoScopes}, failing : {{}}, held : {{}},
     max_parallel : {None, 0}, repeated : BOOLEAN, boundary : BOOLEAN]

ScopePairs ==
    [depends : {NoDepends},
     scopes : {[t \in MCTask |-> IF t = 1 THEN {a} ELSE IF t = 2 THEN {b} ELSE {}] :
                 a \in MCScope, b \in MCScope},
     failing : {{}}, held : {{}}, max_parallel : {None}, repeated : {FALSE}, boundary : {TRUE}]

MCInputs == Graphs \cup Plans \cup Rejects \cup ScopePairs
=============================================================================
