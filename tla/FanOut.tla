-------------------------------- MODULE FanOut --------------------------------
(***************************************************************************)
(* Worker processes started together and reaped one after the other:       *)
(* fan_out_dispatch (fanout/dispatch.py), the inline seam for a single     *)
(* lane (dispatch/application.py) and RunningProcess.wait                  *)
(* (runtime/runner_adapter.py).                                            *)
(*                                                                         *)
(* A child is a process group: its leader, and perhaps a tail, a descendant*)
(* that was given the pipes of the leader and may let go of them.  Either  *)
(* may ignore SIGTERM, and the tail may have left the group.               *)
(* The callbacks are in DispatchGroup, which composes this module with     *)
(* what they do.                                                           *)
(***************************************************************************)
EXTENDS Naturals, Sequences

CONSTANTS
    MaxChild, \* the largest number of children
    Kind      \* what children there are

ASSUME FanOutAssumption ==
    /\ MaxChild \in Nat
    /\ Kind \subseteq [stubborn : BOOLEAN, tail : {"none", "polite", "stubborn", "escaped"}]

Child == 1 .. MaxChild
Ending == {"zero", "nonzero", "signal"}
Result == Ending \cup {"timed_out", "launch_failed"}

VARIABLES
    seam,    \* "inline" for a single lane, "fan_out" for a group
    timed,   \* a timeout is given
    kind,    \* kind[i]: what the i-th command does when it is started
    group,   \* the lanes whose commands are started, in launch order
    leader,  \* leader[i]: "none" before it is started
    tail,    \* tail[i]: "none" if there is none, "alive" with the pipes of its leader,
             \* "detached" without them
    how,     \* how[i]: how the leader ended, "none" before
    asked,   \* asked[i]: SIGTERM was sent to the group
    phase,   \* where the dispatching thread is
    turn,    \* the child, or lane, it is at
    results, \* the outcomes collected, in launch order
    failed   \* an observation callback raised

fixed == <<seam, timed, kind>>
processes == <<leader, tail, how, asked>>
fanOutVars == <<fixed, group, processes, phase, turn, results, failed>>

FanOutInit ==
    /\ timed \in BOOLEAN
    /\ kind \in [Child -> Kind]
    /\ group = <<>>
    /\ leader = [i \in Child |-> "none"]
    /\ tail = [i \in Child |-> "none"]
    /\ how = [i \in Child |-> "none"]
    /\ asked = [i \in Child |-> FALSE]
    /\ turn = 1
    /\ results = <<>>
    /\ failed = FALSE

\* The pipes reach their end: nobody holds them open any more.
Closed(i) == leader[i] = "dead" /\ tail[i] # "alive"

-----------------------------------------------------------------------------
(* Every command is started before any child is waited for.                *)

NextLaunch ==
    IF turn < Len(group) THEN turn' = turn + 1 /\ phase' = "start"
    ELSE turn' = 1 /\ phase' = "started"

Launch ==
    /\ phase = "start"
    /\ leader' = [leader EXCEPT ![turn] = "alive"]
    /\ tail' = [tail EXCEPT ![turn] = IF kind[turn].tail = "none" THEN "none" ELSE "alive"]
    /\ NextLaunch
    /\ UNCHANGED <<fixed, group, how, asked, results, failed>>

\* start_process raises: a result like any other in a group, an exception for a
\* single lane.
LaunchFails ==
    /\ phase = "start"
    /\ IF seam = "inline" THEN phase' = "raising" /\ UNCHANGED turn ELSE NextLaunch
    /\ UNCHANGED <<fixed, group, processes, results, failed>>

-----------------------------------------------------------------------------
(* Reaping, in launch order.                                               *)

NextChild ==
    IF turn < Len(group) THEN turn' = turn + 1 /\ phase' = "started"
    ELSE turn' = 1 /\ phase' = IF failed THEN "raising" ELSE "collected"

\* Mutant: an observation error ends the fan-out at once.
NotifyStartedRaises(ok) ==
    /\ phase = "started"
    /\ leader[turn] # "none"
    /\ failed' = (failed \/ ~ok)
    /\ phase' = IF ok THEN "wait" ELSE "raising"
    /\ UNCHANGED <<fixed, group, processes, turn, results>>

\* The callback for "started", raising or not.  The fan-out collects its
\* exception, the inline seam lets it pass and leaves the child running.
NotifyStarted(ok) ==
    /\ phase = "started"
    /\ leader[turn] # "none"
    /\ failed' = (failed \/ ~ok)
    /\ phase' = IF ok \/ seam = "fan_out" THEN "wait" ELSE "raising"
    /\ UNCHANGED <<fixed, group, processes, turn, results>>

\* A child that was never started gets its synthetic result.
NeverStarted ==
    /\ phase = "started"
    /\ leader[turn] = "none"
    /\ results' = Append(results, "launch_failed")
    /\ phase' = "store"
    /\ UNCHANGED <<fixed, group, processes, turn, failed>>

\* The result is there: the inline seam notifies before it stores.
Reaped(outcome) ==
    /\ results' = Append(results, outcome)
    /\ phase' = IF seam = "inline" THEN "ended" ELSE "store"

\* communicate() returns.
Collect ==
    /\ phase = "wait"
    /\ Closed(turn)
    /\ Reaped(how[turn])
    /\ UNCHANGED <<fixed, group, processes, turn, failed>>

\* Mutant: the timeout runs out and nothing is signalled.
TimesOutUnasked ==
    /\ phase = "wait"
    /\ timed
    /\ phase' = "drain"
    /\ UNCHANGED <<fixed, group, processes, turn, results, failed>>

\* TimeoutExpired, perhaps just as the child ends by itself: SIGTERM to the group.
TimesOut ==
    /\ phase = "wait"
    /\ timed
    /\ asked' = [asked EXCEPT ![turn] = TRUE]
    /\ phase' = "grace"
    /\ UNCHANGED <<fixed, group, leader, tail, how, turn, results, failed>>

\* The leader outlives the grace period: SIGKILL to the group, which a tail may have
\* left.
Kill ==
    /\ phase = "grace"
    /\ leader[turn] = "alive"
    /\ leader' = [leader EXCEPT ![turn] = "dead"]
    /\ how' = [how EXCEPT ![turn] = "signal"]
    /\ tail' = [tail EXCEPT ![turn] =
                  IF @ # "none" /\ kind[turn].tail # "escaped" THEN "gone" ELSE @]
    /\ phase' = "drain"
    /\ UNCHANGED <<fixed, group, asked, turn, results, failed>>

\* The leader is dead: whatever is left of the group is spared.
GraceEnds ==
    /\ phase = "grace"
    /\ leader[turn] = "dead"
    /\ phase' = "drain"
    /\ UNCHANGED <<fixed, group, processes, turn, results, failed>>

\* Mutant: the second communicate() has a timeout, too.
DrainBriefly ==
    /\ phase = "drain"
    /\ Reaped("timed_out")
    /\ UNCHANGED <<fixed, group, processes, turn, failed>>

\* The second communicate(), without a timeout.
Drain ==
    /\ phase = "drain"
    /\ Closed(turn)
    /\ Reaped("timed_out")
    /\ UNCHANGED <<fixed, group, processes, turn, failed>>

Store ==
    /\ phase = "store"
    /\ CASE seam = "inline" -> phase' = "collected" /\ UNCHANGED turn
         [] seam = "fan_out" /\ leader[turn] = "none" -> NextChild
         [] OTHER -> phase' = "ended" /\ UNCHANGED turn
    /\ UNCHANGED <<fixed, group, processes, results, failed>>

\* put or resolve raises: nobody waits for the children behind this one.
StoreFails ==
    /\ phase = "store"
    /\ phase' = "raising"
    /\ UNCHANGED <<fixed, group, processes, turn, results, failed>>

\* The callback for "terminal" has returned.
NotifyEnded ==
    /\ phase = "ended"
    /\ IF seam = "inline" THEN phase' = "store" /\ UNCHANGED turn ELSE NextChild
    /\ UNCHANGED <<fixed, group, processes, results, failed>>

-----------------------------------------------------------------------------
(* The processes.                                                          *)

LeaderExits(i, ending) ==
    /\ leader[i] = "alive"
    /\ leader' = [leader EXCEPT ![i] = "dead"]
    /\ how' = [how EXCEPT ![i] = ending]
    /\ UNCHANGED <<fixed, group, tail, asked, phase, turn, results, failed>>

\* A descendant redirects its output, or closes it.
TailLetsGo(i) ==
    /\ tail[i] = "alive"
    /\ tail' = [tail EXCEPT ![i] = "detached"]
    /\ UNCHANGED <<fixed, group, leader, how, asked, phase, turn, results, failed>>

TailExits(i) ==
    /\ tail[i] \in {"alive", "detached"}
    /\ tail' = [tail EXCEPT ![i] = "gone"]
    /\ UNCHANGED <<fixed, group, leader, how, asked, phase, turn, results, failed>>

\* A process that does not ignore SIGTERM dies of it.
Obeys(i) ==
    /\ asked[i]
    /\ \/ /\ leader[i] = "alive"
          /\ ~kind[i].stubborn
          /\ leader' = [leader EXCEPT ![i] = "dead"]
          /\ how' = [how EXCEPT ![i] = "signal"]
          /\ UNCHANGED tail
       \/ /\ tail[i] \in {"alive", "detached"}
          /\ kind[i].tail = "polite"
          /\ tail' = [tail EXCEPT ![i] = "gone"]
          /\ UNCHANGED <<leader, how>>
    /\ UNCHANGED <<fixed, group, asked, phase, turn, results, failed>>
===============================================================================
