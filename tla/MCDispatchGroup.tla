--------------------------- MODULE MCDispatchGroup ---------------------------
(* Groups of one and two lanes.  A worker has a descendant, which may end at *)
(* once; each is dealt with by SIGTERM, by SIGKILL to the group, or by none. *)
EXTENDS DispatchGroup

MCKind ==
    {[stubborn |-> FALSE, tail |-> "polite"],
     [stubborn |-> FALSE, tail |-> "stubborn"],
     [stubborn |-> TRUE, tail |-> "stubborn"],
     [stubborn |-> TRUE, tail |-> "escaped"]}
===============================================================================
