----------------------------- MODULE RunHistory -----------------------------
(***************************************************************************)
(* What the run store promises a reader of its tables: every run has one   *)
(* history, a path of legal transitions that only grows, and an event for  *)
(* some of them, published together with the transition.                   *)
(***************************************************************************)
EXTENDS Naturals, Sequences, RunStates

CONSTANTS Run, StartState

VARIABLES
    path,       \* path[r]: the states r has been in, or <<>> before it exists
    published   \* published[r]: the positions of path[r] that have an event

Init ==
    /\ path = [r \in Run |-> <<>>]
    /\ published = [r \in Run |-> <<>>]

Begin(r, state) ==
    /\ path[r] = <<>>
    /\ path' = [path EXCEPT ![r] = <<state>>]
    /\ UNCHANGED published

Advance(r, state, event) ==
    /\ path[r] # <<>>
    /\ state \in LegalTransitions(path[r][Len(path[r])])
    /\ path' = [path EXCEPT ![r] = Append(@, state)]
    /\ published' = IF event
                    THEN [published EXCEPT ![r] = Append(@, Len(path[r]) + 1)]
                    ELSE published

Next ==
    \E r \in Run :
        \/ \E state \in StartState : Begin(r, state)
        \/ \E state \in State, event \in BOOLEAN : Advance(r, state, event)

Spec == Init /\ [][Next]_<<path, published>>
=============================================================================
