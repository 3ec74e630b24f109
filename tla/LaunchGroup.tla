---------------------------- MODULE LaunchGroup ----------------------------
(***************************************************************************)
(* What one launch group promises the wave that calls it: every lane has   *)
(* at most one worker and is told of at most once, as done only if it has  *)
(* no command or its worker ended well; and the call returns only when no  *)
(* worker is live any more and all who were have been told of.  A call     *)
(* that raises promises no more than that nobody is started behind it.     *)
(*                                                                         *)
(* A worker is live as long as its process or a descendant has the pipes   *)
(* it was started with.  Of a descendant that let go of them nothing is    *)
(* promised: it may be at work when the call has returned.                 *)
(***************************************************************************)
CONSTANT Lane

VARIABLES
    inPlace,    \* the lanes without a command
    blocked,    \* the lanes that fail their preflight
    worker,     \* worker[l]: "none", "live", or how it ended: "well" or "badly"
    told,       \* told[l]: "untold", or what the stream says of l's end
    call        \* "open", "returned" or "raised"

Init ==
    /\ inPlace \in SUBSET Lane
    /\ blocked \in SUBSET (Lane \ inPlace)
    /\ worker = [l \in Lane |-> "none"]
    /\ told = [l \in Lane |-> "untold"]
    /\ call = "open"

\* All who were started have ended and been told of.
Settled == \A l \in Lane : worker[l] # "none" => worker[l] # "live" /\ told[l] # "untold"

Begin(l) ==
    /\ call = "open"
    /\ l \notin inPlace \cup blocked
    /\ worker[l] = "none" /\ told[l] = "untold"
    /\ worker' = [worker EXCEPT ![l] = "live"]
    /\ UNCHANGED <<inPlace, blocked, told, call>>

\* The worker ends, and nobody has its pipes; also behind a call that raised.
End(l, how) ==
    /\ worker[l] = "live"
    /\ worker' = [worker EXCEPT ![l] = how]
    /\ UNCHANGED <<inPlace, blocked, told, call>>

\* The last one told of may be where the call returns.
Tell(l, as) ==
    /\ call = "open"
    /\ worker[l] # "live" /\ told[l] = "untold"
    /\ as = "done" => l \in inPlace \/ worker[l] = "well"
    /\ told' = [told EXCEPT ![l] = as]
    /\ call' = "open" \/ (call' = "returned" /\ Settled')
    /\ UNCHANGED <<inPlace, blocked, worker>>

Return ==
    /\ call = "open"
    /\ Settled
    /\ call' = "returned"
    /\ UNCHANGED <<inPlace, blocked, worker, told>>

Raise ==
    /\ call = "open"
    /\ call' = "raised"
    /\ UNCHANGED <<inPlace, blocked, worker, told>>

Next ==
    \/ \E l \in Lane : \/ Begin(l)
                       \/ \E how \in {"well", "badly"} : End(l, how)
                       \/ \E as \in {"done", "failed"} : Tell(l, as)
    \/ Return \/ Raise

Spec == Init /\ [][Next]_<<inPlace, blocked, worker, told, call>>
=============================================================================
