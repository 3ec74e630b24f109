---------------------------- MODULE DispatchGroup ----------------------------
(***************************************************************************)
(* One launch group of a dispatch (_fanout_group and _run_lane of          *)
(* dispatch/application.py): preflight of its lanes, the fan-out, a        *)
(* heartbeat thread for the child that is being waited for, the event      *)
(* stream they share, and the terminal events of the lanes.                *)
(*                                                                         *)
(* The stream's lock makes an emission one step.  The sink may refuse a    *)
(* line: the exception ends a heartbeat thread and passes through the      *)
(* dispatching one.                                                        *)
(***************************************************************************)
EXTENDS FanOut

CONSTANTS
    MaxGroup, \* the largest number of lanes in a group
    MaxBeats  \* a heartbeat thread emits no more than that (a bound of the model)

ConstantsFit == MaxGroup \in Nat \ {0} /\ MaxBeats \in Nat /\ MaxChild = MaxGroup

ASSUME GroupAssumption == ConstantsFit

GroupLane == 1 .. MaxGroup

\* `child' is the lane whose dispatch id the event carries.
Event == [kind : {"heartbeat", "process_terminal", "lane_terminal"},
          lane : GroupLane, child : GroupLane, ok : BOOLEAN]

VARIABLES
    total,    \* the group handed in: lanes 1 .. total
    passed,   \* the lanes without a command
    rejected, \* the lanes that fail their preflight
    stream,   \* the events, in the order of their sequence numbers
    pump,     \* pump[i]: the heartbeat thread of child i
    beats,    \* beats[i]: how many it has emitted
    stopped,  \* stopped[i]: its stop flag
    active    \* _active_heartbeat_pumps

groupGiven == <<total, passed, rejected>>
pumps == <<pump, beats, stopped, active>>
groupVars == <<fanOutVars, groupGiven, stream, pumps>>

GroupInit ==
    /\ FanOutInit
    /\ total \in GroupLane
    /\ seam = IF total = 1 THEN "inline" ELSE "fan_out"
    /\ passed \in SUBSET (1 .. total)
    /\ rejected \in SUBSET (1 .. total \ passed)
    /\ phase = "preflight"
    /\ stream = <<>>
    /\ pump = [i \in Child |-> "none"]
    /\ beats = [i \in Child |-> 0]
    /\ stopped = [i \in Child |-> FALSE]
    /\ active = {}

Status(l, ok) ==
    <<[kind |-> "process_terminal", lane |-> l, child |-> l, ok |-> ok],
      [kind |-> "lane_terminal", lane |-> l, child |-> l, ok |-> ok]>>

\* _emit_status: the sink takes both lines, or refuses one of them and raises.
EmitStatus(l, ok, taken) == stream' = stream \o SubSeq(Status(l, ok), 1, taken)

-----------------------------------------------------------------------------
(* Preflight of lane `turn'.                                               *)

\* The lanes that were announced and the sink refused to take note of.
AnnounceFails ==
    /\ phase = "preflight"
    /\ turn = 1
    /\ phase' = "raised"
    /\ UNCHANGED <<fixed, group, processes, turn, results, failed, groupGiven, stream, pumps>>

NextLane(launched) ==
    /\ group' = launched
    /\ IF turn < total THEN turn' = turn + 1 /\ phase' = "preflight"
       ELSE turn' = 1 /\ phase' = IF launched = <<>> THEN "returned" ELSE "start"

\* A lane to be done in place is told as done when it is alone, and passed over
\* without any terminal event in a group.
PassInPlace(taken) ==
    /\ phase = "preflight"
    /\ turn \in passed
    /\ CASE seam = "fan_out" -> NextLane(group) /\ UNCHANGED stream
         [] seam = "inline" /\ taken = 2 -> EmitStatus(turn, TRUE, 2) /\ NextLane(group)
         [] OTHER -> EmitStatus(turn, TRUE, taken) /\ phase' = "raised" /\ UNCHANGED <<group, turn>>
    /\ UNCHANGED <<fixed, processes, results, failed, groupGiven, pumps>>

RejectBlocked(taken) ==
    /\ phase = "preflight"
    /\ turn \in rejected
    /\ EmitStatus(turn, FALSE, taken)
    /\ IF taken = 2 THEN NextLane(group) ELSE phase' = "raised" /\ UNCHANGED <<group, turn>>
    /\ UNCHANGED <<fixed, processes, results, failed, groupGiven, pumps>>

AcceptLane ==
    /\ phase = "preflight"
    /\ turn \notin passed \cup rejected
    /\ NextLane(Append(group, turn))
    /\ UNCHANGED <<fixed, processes, results, failed, groupGiven, stream, pumps>>

-----------------------------------------------------------------------------
(* The fan-out with the callbacks of _wired_lifecycle.                     *)

FanOutStep ==
    /\ \/ Launch \/ LaunchFails \/ NeverStarted \/ Collect
       \/ TimesOut \/ Kill \/ GraceEnds \/ Drain \/ Store \/ StoreFails
    /\ UNCHANGED <<groupGiven, stream, pumps>>

StartPump ==
    /\ NotifyStarted(TRUE)
    /\ pump' = [pump EXCEPT ![turn] = "waiting"]
    /\ active' = active \cup {turn}
    /\ UNCHANGED <<groupGiven, stream, beats, stopped>>

\* Thread.start raises: no pump is registered.
PumpCannotStart ==
    /\ NotifyStarted(FALSE)
    /\ UNCHANGED <<groupGiven, stream, pumps>>

\* stop(): sets the flag ...
SignalPump ==
    /\ phase = "ended"
    /\ turn \in active
    /\ active' = active \ {turn}
    /\ stopped' = [stopped EXCEPT ![turn] = TRUE]
    /\ UNCHANGED <<fanOutVars, groupGiven, stream, pump, beats>>

\* Mutant: ... and does not wait for the thread.
LeavePump ==
    /\ turn \notin active
    /\ NotifyEnded
    /\ UNCHANGED <<groupGiven, stream, pumps>>

\* ... and joins the thread.
JoinPump ==
    /\ turn \notin active
    /\ pump[turn] \in {"none", "ended"}
    /\ NotifyEnded
    /\ UNCHANGED <<groupGiven, stream, pumps>>

-----------------------------------------------------------------------------
(* The heartbeat thread of child i.                                        *)

\* poll() says None while the leader lives, and while the dispatching thread
\* holds the lock to reap it.
LooksAlive(i) ==
    \/ leader[i] = "alive"
    \/ turn = i /\ phase \in {"wait", "drain"} /\ Closed(i)

PumpWakes(i) ==
    /\ pump[i] = "waiting"
    /\ \/ /\ ~stopped[i]
          /\ LooksAlive(i)
          /\ beats[i] < MaxBeats
          /\ pump' = [pump EXCEPT ![i] = "beating"]
       \/ /\ stopped[i] \/ leader[i] # "alive"
          /\ pump' = [pump EXCEPT ![i] = "ended"]
    /\ UNCHANGED <<fanOutVars, groupGiven, stream, beats, stopped, active>>

\* The dispatch ids were listed before the preflight sorted lanes out, so the
\* i-th child beats under the id of the i-th lane of the group handed in.
Beat(i) ==
    /\ pump[i] = "beating"
    /\ beats' = [beats EXCEPT ![i] = @ + 1]
    /\ pump' = [pump EXCEPT ![i] = "waiting"]
    /\ stream' = Append(stream, [kind |-> "heartbeat", lane |-> group[i],
                                 child |-> i, ok |-> TRUE])
    /\ UNCHANGED <<fanOutVars, groupGiven, stopped, active>>

BeatRefused(i) ==
    /\ pump[i] = "beating"
    /\ pump' = [pump EXCEPT ![i] = "ended"]
    /\ UNCHANGED <<fanOutVars, groupGiven, stream, beats, stopped, active>>

-----------------------------------------------------------------------------
(* What is told of the children, and the way out.                          *)

\* Mutant: a lane fails only by an exit code of its own.
TellUnjudged(present, taken) ==
    /\ phase = "collected"
    /\ EmitStatus(group[turn], results[turn] # "nonzero", taken)
    /\ CASE taken < 2 -> phase' = "raising" /\ UNCHANGED turn
         [] taken = 2 /\ turn < Len(group) -> turn' = turn + 1 /\ UNCHANGED phase
         [] OTHER -> phase' = "leaving" /\ UNCHANGED turn
    /\ UNCHANGED <<fixed, group, processes, results, failed, groupGiven, pumps>>

\* One child: it succeeded if it exited with 0 and the required evidence is there.
Tell(present, taken) ==
    /\ phase = "collected"
    /\ EmitStatus(group[turn], results[turn] = "zero" /\ present, taken)
    /\ CASE taken < 2 -> phase' = "raising" /\ UNCHANGED turn
         [] taken = 2 /\ turn < Len(group) -> turn' = turn + 1 /\ UNCHANGED phase
         [] OTHER -> phase' = "leaving" /\ UNCHANGED turn
    /\ UNCHANGED <<fixed, group, processes, results, failed, groupGiven, pumps>>

First(S) == CHOOSE i \in S : \A j \in S : i <= j

\* _stop_heartbeat_pumps: one after the other is stopped and joined.
StopLeft ==
    /\ phase \in {"leaving", "raising"}
    /\ active # {}
    /\ ~stopped[First(active)]
    /\ stopped' = [stopped EXCEPT ![First(active)] = TRUE]
    /\ UNCHANGED <<fanOutVars, groupGiven, stream, pump, beats, active>>

JoinLeft ==
    /\ phase \in {"leaving", "raising"}
    /\ active # {}
    /\ stopped[First(active)]
    /\ pump[First(active)] = "ended"
    /\ active' = active \ {First(active)}
    /\ UNCHANGED <<fanOutVars, groupGiven, stream, pump, beats, stopped>>

\* Mutant: an exception passes without the finally clause.
LeaveAnyway ==
    /\ phase \in {"leaving", "raising"}
    /\ phase' = IF phase = "leaving" THEN "returned" ELSE "raised"
    /\ UNCHANGED <<fixed, group, processes, turn, results, failed, groupGiven, stream, pumps>>

Leave ==
    /\ phase \in {"leaving", "raising"}
    /\ active = {}
    /\ phase' = IF phase = "leaving" THEN "returned" ELSE "raised"
    /\ UNCHANGED <<fixed, group, processes, turn, results, failed, groupGiven, stream, pumps>>

DispatcherStep ==
    \/ AnnounceFails \/ AcceptLane
    \/ \E taken \in 0 .. 2 : PassInPlace(taken) \/ RejectBlocked(taken)
    \/ FanOutStep \/ StartPump \/ PumpCannotStart \/ SignalPump \/ JoinPump
    \/ \E present \in BOOLEAN, taken \in 0 .. 2 : Tell(present, taken)
    \/ StopLeft \/ JoinLeft \/ Leave

PumpStep(i) == PumpWakes(i) \/ Beat(i) \/ BeatRefused(i)

ObeyStep(i) == Obeys(i) /\ UNCHANGED <<groupGiven, stream, pumps>>

ProcessStep(i) ==
    /\ (\E ending \in Ending : LeaderExits(i, ending)) \/ TailLetsGo(i) \/ TailExits(i)
    /\ UNCHANGED <<groupGiven, stream, pumps>>

GroupNext ==
    \/ DispatcherStep
    \/ \E i \in Child : PumpStep(i) \/ ObeyStep(i) \/ ProcessStep(i)

\* The threads run on; signals are delivered; workers end or do not.
Fairness ==
    /\ WF_groupVars(DispatcherStep)
    /\ \A i \in Child : WF_groupVars(PumpStep(i)) /\ WF_groupVars(ObeyStep(i))

GroupSpec == GroupInit /\ [][GroupNext]_groupVars /\ Fairness

-----------------------------------------------------------------------------
Done == phase \in {"returned", "raised"}

\* Types of the dispatching thread, the processes, the threads and the stream.
GroupTypeOK ==
    /\ seam \in {"inline", "fan_out"}
    /\ timed \in BOOLEAN
    /\ kind \in [Child -> Kind]
    /\ group \in Seq(GroupLane)
    /\ leader \in [Child -> {"none", "alive", "dead"}]
    /\ tail \in [Child -> {"none", "alive", "detached", "gone"}]
    /\ how \in [Child -> Ending \cup {"none"}]
    /\ asked \in [Child -> BOOLEAN]
    /\ phase \in {"preflight", "start", "started", "wait", "grace", "drain", "store", "ended",
               "collected", "leaving", "raising", "returned", "raised"}
    /\ turn \in GroupLane
    /\ results \in Seq(Result)
    /\ failed \in BOOLEAN
    /\ total \in GroupLane
    /\ passed \subseteq GroupLane
    /\ rejected \subseteq GroupLane
    /\ stream \in Seq(Event)
    /\ pump \in [Child -> {"none", "waiting", "beating", "ended"}]
    /\ beats \in [Child -> 0 .. MaxBeats]
    /\ stopped \in [Child -> BOOLEAN]
    /\ active \subseteq Child

\* "always strictly after the last heartbeat": a lane is silent once its terminal
\* event is out; and the dispatch id is, unless a lane of the group was not
\* launched, which shifts the ids of the lanes behind it.
SilentAfterTerminal ==
    \A i, j \in DOMAIN stream :
        i < j /\ stream[i].kind = "process_terminal" /\ stream[j].kind = "heartbeat" =>
            /\ stream[i].lane # stream[j].lane
            /\ Len(group) = total => stream[i].child # stream[j].child

\* "observation noise is never converted into a leaked child": what is collected
\* is how reaped children ended, and nobody has their pipes any more (a descendant
\* that let go of them may live on); a fan-out that does not raise has collected all,
\* and one that raises early does so for an evidence store that failed on the
\* child it had just collected, never for an observer.
EveryChildReaped ==
    /\ \A i \in DOMAIN results :
          /\ leader[i] # "alive" /\ tail[i] # "alive"
          /\ CASE results[i] = "launch_failed" -> leader[i] = "none"
               [] results[i] = "timed_out" -> timed /\ leader[i] = "dead"
               [] OTHER -> results[i] = how[i]
    /\ phase \in {"collected", "leaving"} => Len(results) = Len(group)
    /\ phase = "raising" /\ seam = "fan_out" /\ Len(results) < Len(group) => turn = Len(results)

\* What the stream says of the end of lane l.
Ends(l) == {n \in DOMAIN stream : stream[n].lane = l /\ stream[n].kind # "heartbeat"}

\* Once, the process first; as done only if its own child exited with 0.
ToldOnce(l) ==
    \E ok \in BOOLEAN, p, q \in DOMAIN stream :
        /\ p < q
        /\ Ends(l) = {p, q}
        /\ <<stream[p], stream[q]>> = Status(l, ok)
        /\ ok /\ l \notin passed => \E i \in DOMAIN group : group[i] = l /\ how[i] = "zero"

\* When the call returns, every lane that is not done in place has told its end
\* exactly once, process first, and as done only if its own child exited with 0.
ReturnedHasTold ==
    phase = "returned" => \A l \in 1 .. total :
        IF l \in passed /\ seam = "fan_out" THEN Ends(l) = {} ELSE ToldOnce(l)

\* "no background thread leaks on success or exception": when the call is over,
\* however it ends, every heartbeat thread has ended.
NoThreadLeaks == Done => \A i \in Child : pump[i] \in {"none", "ended"}

-----------------------------------------------------------------------------
\* Seen by the wave, a lane has a worker while its leader lives, or a descendant that
\* has its pipes, and its end is told by the lane_terminal event: a dispatch group is a
\* LaunchGroup.
Fate(i) ==
    IF leader[i] = "alive" \/ tail[i] = "alive" THEN "live"
    ELSE IF leader[i] = "none" THEN "none"
    ELSE IF how[i] = "zero" THEN "well" ELSE "badly"

Commanded(l) == \E i \in DOMAIN group : group[i] = l
ChildOf(l) == CHOOSE i \in DOMAIN group : group[i] = l

Workers == [l \in GroupLane |-> IF Commanded(l) THEN Fate(ChildOf(l)) ELSE "none"]

Says(l, ok) ==
    \E n \in DOMAIN stream :
        stream[n].kind = "lane_terminal" /\ stream[n].lane = l /\ stream[n].ok = ok

Tidings ==
    [l \in GroupLane |-> IF Says(l, TRUE) THEN "done"
                         ELSE IF Says(l, FALSE) THEN "failed" ELSE "untold"]

Call == IF Done THEN phase ELSE "open"

Promise == INSTANCE LaunchGroup WITH
    Lane <- GroupLane, inPlace <- passed, blocked <- rejected,
    worker <- Workers, told <- Tidings, call <- Call

\* Whatever workers, sinks, stores and threads do, the group starts, tells and leaves
\* as the wave relies on: when it returns no worker lives, nor a descendant with a
\* worker's pipes, and no lane that did not end well is called done.
KeepsPromise == Promise!Spec

-----------------------------------------------------------------------------
\* "rather than hanging the whole fan-out": with a timeout the call ends, whatever
\* the workers do, unless a descendant that SIGTERM does not end keeps the pipes of a
\* leader that is dead: the second communicate() waits for it without bound.  With
\* or without a timeout it ends once nobody has the pipes of its workers.
GroupEnds ==
    /\ timed /\ (\A i \in Child : kind[i].tail \in {"stubborn", "escaped"} =>
                                   <>[](tail[i] # "alive")) => <>Done
    /\ (\A i \in Child : <>[](leader[i] # "alive" /\ tail[i] # "alive")) => <>Done
===============================================================================
