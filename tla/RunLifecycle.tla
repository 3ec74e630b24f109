---------------------------- MODULE RunLifecycle ----------------------------
(***************************************************************************)
(* One asynchronous run and the processes that touch its directory without *)
(* a lock (runlifecycle/handle.py, store.py): the launcher of start_async, *)
(* the detached wrapper around the command, the killers of kill_run and    *)
(* the followers of inspect_run.                                           *)
(*                                                                         *)
(* run.json is `record'.  The launcher and the killers replace it by a     *)
(* rename of one temporary file whose name they share; the wrapper         *)
(* rewrites it in place, so that it is Torn between the truncation and the *)
(* write.  events.jsonl is `events'; a line is appended at once.           *)
(***************************************************************************)
EXTENDS Naturals, Sequences, FiniteSets

CONSTANTS
    Killer,
    Follower,
    Torn,           \* the content of a file that is half written
    None

RecordState == {"running", "succeeded", "failed", "killed"}
Record == [state : RecordState, version : Nat]
Event == [event : {"launched", "started", "finished", "error", "killed"},
          sequence : Nat]

ASSUME SentinelAssumption ==
    /\ None # Torn
    /\ None \notin Record /\ Torn \notin Record
    /\ None \notin Nat \cup {"tmp", "record", "unlinked"}

VARIABLES
    record,     \* run.json: a Record, Torn, or None while it does not exist
    tmp,        \* the temporary file of write_metadata, likewise
    events,     \* events.jsonl
    lpc,        \* where the launcher is
    wpc,        \* where the wrapper is
    command,    \* the command in the wrapper's process group
    outcome,    \* how the command ended
    kept,       \* the record the wrapper read and is about to write back
    kpc,        \* kpc[k]: where killer k is
    carried,    \* carried[k]: the record k read in update_metadata, or None
    file,       \* file[k]: the file k has open for writing, or None
    number,     \* number[k]: the number k took for its event, or None
    fpc,        \* fpc[f]: where follower f is
    last,       \* last[f]: the highest number f has read
    heard       \* heard[f]: the kinds of events f has put out

launcher == <<lpc>>
wrapper == <<wpc, command, outcome, kept>>
killers == <<kpc, carried, file, number>>
followers == <<fpc, last, heard>>
vars == <<record, tmp, events, launcher, wrapper, killers, followers>>

WrapperAlive == wpc \in {"begin", "started", "running", "ended", "raised",
                         "logged", "updating", "writing"}
EndEvent == {"finished", "error"}
Ended == \E i \in DOMAIN events : events[i].event \in EndEvent

Init ==
    /\ record = None
    /\ tmp = None
    /\ events = <<>>
    /\ lpc = "start"
    /\ wpc = "none"
    /\ command = "none"
    /\ outcome = None
    /\ kept = None
    /\ kpc = [k \in Killer |-> "idle"]
    /\ carried = [k \in Killer |-> None]
    /\ file = [k \in Killer |-> None]
    /\ number = [k \in Killer |-> None]
    /\ fpc = [f \in Follower |-> "idle"]
    /\ last = [f \in Follower |-> 0]
    /\ heard = [f \in Follower |-> {}]

-----------------------------------------------------------------------------
(* start_async: the wrapper runs before its run.json is written.           *)

Popen ==
    /\ lpc = "start"
    /\ lpc' = "spawned"
    /\ wpc' = "begin"
    /\ UNCHANGED <<record, tmp, events, command, outcome, kept, killers, followers>>

\* write_metadata.  Nobody else writes the temporary file as long as there is
\* no run.json, so the write and the rename are one step here.
RecordRun ==
    /\ lpc = "spawned"
    /\ record' = [state |-> "running", version |-> 1]
    /\ lpc' = "recorded"
    /\ UNCHANGED <<tmp, events, wrapper, killers, followers>>

LogLaunched ==
    /\ lpc = "recorded"
    /\ events' = Append(events, [event |-> "launched", sequence |-> 1])
    /\ lpc' = "returned"
    /\ UNCHANGED <<record, tmp, wrapper, killers, followers>>

LauncherDies ==
    /\ lpc \in {"spawned", "recorded"}
    /\ lpc' = "dead"
    /\ UNCHANGED <<record, tmp, events, wrapper, killers, followers>>

LauncherStep == Popen \/ RecordRun \/ LogLaunched

-----------------------------------------------------------------------------
(* _WRAPPER_SRC.  Its numbers follow start_seq = 1.                        *)

LogStarted ==
    /\ wpc = "begin"
    /\ events' = Append(events, [event |-> "started", sequence |-> 2])
    /\ wpc' = "started"
    /\ UNCHANGED <<record, tmp, launcher, command, outcome, kept, killers, followers>>

StartCommand ==
    /\ wpc = "started"
    /\ wpc' = "running"
    /\ command' = "alive"
    /\ UNCHANGED <<record, tmp, events, launcher, outcome, kept, killers, followers>>

\* Mutant: the wrapper exits when the command cannot be started.
StartFailsUnrecorded ==
    /\ wpc = "started"
    /\ wpc' = "exited"
    /\ UNCHANGED <<record, tmp, events, launcher, command, outcome, kept, killers, followers>>

\* subprocess.run raises: there is no such command.
StartFails ==
    /\ wpc = "started"
    /\ wpc' = "raised"
    /\ UNCHANGED <<record, tmp, events, launcher, command, outcome, kept, killers, followers>>

\* subprocess.run has no timeout: the command ends when it likes, or never.
CommandEnds(how) ==
    /\ wpc = "running"
    /\ wpc' = "ended"
    /\ command' = "gone"
    /\ outcome' = how
    /\ UNCHANGED <<record, tmp, events, launcher, kept, killers, followers>>

LogEnd ==
    /\ \/ /\ wpc = "ended"
          /\ events' = Append(events, [event |-> "finished", sequence |-> 3])
          /\ UNCHANGED outcome
       \/ /\ wpc = "raised"
          /\ events' = Append(events, [event |-> "error", sequence |-> 3])
          /\ outcome' = "failed"
    /\ wpc' = "logged"
    /\ UNCHANGED <<record, tmp, launcher, command, kept, killers, followers>>

\* Mutant: the wrapper writes a run.json that is not there yet.
ReadRecordOrMake ==
    /\ wpc = "logged"
    /\ kept' = IF record = None THEN [state |-> "running", version |-> 1] ELSE record
    /\ wpc' = "updating"
    /\ UNCHANGED <<record, tmp, events, launcher, command, outcome, killers, followers>>

\* if meta.exists(): json.loads(meta.read_text()); otherwise there is nothing
\* to update and the wrapper exits.
ReadRecord ==
    /\ wpc = "logged"
    /\ \/ /\ record = None
          /\ wpc' = "exited"
          /\ UNCHANGED kept
       \/ /\ record # None
          /\ kept' = record
          /\ wpc' = "updating"
    /\ UNCHANGED <<record, tmp, events, launcher, command, outcome, killers, followers>>

\* meta.write_text truncates the file, then writes it.
OpenRecord ==
    /\ wpc = "updating"
    /\ record' = Torn
    /\ wpc' = "writing"
    /\ UNCHANGED <<tmp, events, launcher, command, outcome, kept, killers, followers>>

WriteRecord ==
    /\ wpc = "writing"
    /\ record' = [state |-> outcome, version |-> kept.version + 1]
    /\ wpc' = "exited"
    /\ UNCHANGED <<tmp, events, launcher, command, outcome, kept, killers, followers>>

WrapperStep ==
    \/ LogStarted \/ StartCommand \/ StartFails
    \/ LogEnd \/ ReadRecord \/ OpenRecord \/ WriteRecord

-----------------------------------------------------------------------------
(* kill_run.                                                               *)

Readable == record \notin {None, Torn}

\* verify_pid: no record, a torn one or another pid is an error.
VerifyPid(k, samePid) ==
    /\ kpc[k] = "idle"
    /\ kpc' = [kpc EXCEPT ![k] = IF Readable /\ samePid THEN "verified" ELSE "raised"]
    /\ UNCHANGED <<record, tmp, events, launcher, wrapper, carried, file, number, followers>>

\* The second read, on which the state is judged.
CheckRunning(k) ==
    /\ kpc[k] = "verified"
    /\ kpc' = [kpc EXCEPT ![k] = IF ~Readable THEN "raised"
                                 ELSE IF record.state = "running" THEN "signalling"
                                 ELSE "already_terminal"]
    /\ UNCHANGED <<record, tmp, events, launcher, wrapper, carried, file, number, followers>>

\* SIGTERM to the group, and the grace period: the wrapper dies wherever it is,
\* the command may ignore it.
Terminate(k) ==
    /\ kpc[k] = "signalling"
    /\ kpc' = [kpc EXCEPT ![k] = "terminated"]
    /\ wpc' = IF WrapperAlive THEN "killed" ELSE wpc
    /\ command' \in IF command = "alive" THEN {"alive", "gone"} ELSE {command}
    /\ UNCHANGED <<record, tmp, events, launcher, outcome, kept, carried, file, number, followers>>

\* Mutant: no SIGKILL once the wrapper is gone.
ForceKillLeader(k) ==
    /\ kpc[k] = "terminated"
    /\ kpc' = [kpc EXCEPT ![k] = "updating"]
    /\ UNCHANGED <<record, tmp, events, launcher, wrapper, carried, file, number, followers>>

\* SIGKILL to the group.
ForceKill(k) ==
    /\ kpc[k] = "terminated"
    /\ kpc' = [kpc EXCEPT ![k] = "updating"]
    /\ command' = IF command = "alive" THEN "gone" ELSE command
    /\ UNCHANGED <<record, tmp, events, launcher, wpc, outcome, kept, carried, file, number, followers>>

\* update_metadata reads; the kill ends with an error if the record is torn.
ReadForUpdate(k) ==
    /\ kpc[k] = "updating"
    /\ \/ /\ ~Readable
          /\ kpc' = [kpc EXCEPT ![k] = "raised"]
          /\ UNCHANGED carried
       \/ /\ Readable
          /\ kpc' = [kpc EXCEPT ![k] = "carrying"]
          /\ carried' = [carried EXCEPT ![k] = record]
    /\ UNCHANGED <<record, tmp, events, launcher, wrapper, file, number, followers>>

\* write_metadata: tmp.write_text opens and truncates ...
OpenTmp(k) ==
    /\ kpc[k] = "carrying"
    /\ kpc' = [kpc EXCEPT ![k] = "opened"]
    /\ tmp' = Torn
    /\ file' = [file EXCEPT ![k] = "tmp"]
    /\ UNCHANGED <<record, events, launcher, wrapper, carried, number, followers>>

Killed(r) == [state |-> "killed", version |-> r.version + 1]

\* ... and writes to the file it opened, whatever that is called by now ...
WriteTmp(k) ==
    /\ kpc[k] = "opened"
    /\ kpc' = [kpc EXCEPT ![k] = "written"]
    /\ tmp' = IF file[k] = "tmp" THEN Killed(carried[k]) ELSE tmp
    /\ record' = IF file[k] = "record" THEN Killed(carried[k]) ELSE record
    /\ file' = [file EXCEPT ![k] = None]
    /\ UNCHANGED <<events, launcher, wrapper, carried, number, followers>>

Renamed(where) == CASE where = "tmp" -> "record"
                    [] where = "record" -> "unlinked"
                    [] OTHER -> where

\* ... and tmp.replace renames, unless another killer has just done so.
Replace(k) ==
    /\ kpc[k] = "written"
    /\ \/ /\ tmp = None
          /\ kpc' = [kpc EXCEPT ![k] = "raised"]
          /\ UNCHANGED <<record, tmp, file>>
       \/ /\ tmp # None
          /\ record' = tmp
          /\ tmp' = None
          /\ file' = [j \in Killer |-> Renamed(file[j])]
          /\ kpc' = [kpc EXCEPT ![k] = "recorded"]
    /\ carried' = [carried EXCEPT ![k] = None]
    /\ UNCHANGED <<events, launcher, wrapper, number, followers>>

Latest == LET numbers == {events[i].sequence : i \in DOMAIN events} \cup {0}
          IN CHOOSE n \in numbers : \A m \in numbers : m <= n

\* latest_event_sequence(run_id) + 1, read before the append.
TakeNumber(k) ==
    /\ kpc[k] = "recorded"
    /\ kpc' = [kpc EXCEPT ![k] = "numbered"]
    /\ number' = [number EXCEPT ![k] = Latest + 1]
    /\ UNCHANGED <<record, tmp, events, launcher, wrapper, carried, file, followers>>

LogKilled(k) ==
    /\ kpc[k] = "numbered"
    /\ kpc' = [kpc EXCEPT ![k] = "returned"]
    /\ events' = Append(events, [event |-> "killed", sequence |-> number[k]])
    /\ UNCHANGED <<record, tmp, launcher, wrapper, carried, file, number, followers>>

KillerStep(k) ==
    \/ CheckRunning(k) \/ Terminate(k) \/ ForceKill(k)
    \/ ReadForUpdate(k) \/ OpenTmp(k) \/ WriteTmp(k) \/ Replace(k)
    \/ TakeNumber(k) \/ LogKilled(k)

KillerDone == {"idle", "raised", "already_terminal", "returned", "died"}

KillerDies(k) ==
    /\ kpc[k] \notin KillerDone
    /\ kpc' = [kpc EXCEPT ![k] = "died"]
    /\ file' = [file EXCEPT ![k] = None]
    /\ carried' = [carried EXCEPT ![k] = None]
    /\ UNCHANGED <<record, tmp, events, launcher, wrapper, number, followers>>

-----------------------------------------------------------------------------
(* inspect_run in follow mode.                                             *)

Follow(f) ==
    /\ fpc[f] = "idle"
    /\ fpc' = [fpc EXCEPT ![f] = IF Readable THEN "reading" ELSE "refused"]
    /\ UNCHANGED <<record, tmp, events, launcher, wrapper, killers, last, heard>>

New(f) == {i \in DOMAIN events : events[i].sequence > last[f]}

Highest(f, read) ==
    LET numbers == {events[i].sequence : i \in read} \cup {last[f]}
    IN CHOOSE n \in numbers : \A m \in numbers : m <= n

Kinds(read) == {events[i].event : i \in read}

\* One turn over the events behind the last number; the end of the command ends
\* the follower, and what stands behind it is not put out.
ReadEvents(f) ==
    /\ fpc[f] = "reading"
    /\ LET ends == {i \in New(f) : events[i].event \in EndEvent}
           read == {i \in New(f) : \A e \in ends : i <= e}
       IN /\ heard' = [heard EXCEPT ![f] = @ \cup Kinds(read)]
          /\ last' = [last EXCEPT ![f] = Highest(f, read)]
          /\ fpc' = [fpc EXCEPT ![f] = IF ends # {} THEN "returned" ELSE "checking"]
    /\ UNCHANGED <<record, tmp, events, launcher, wrapper, killers>>

\* Mutant: only the wrapper's own states end the follower.
CheckRecordNotKilled(f) ==
    /\ fpc[f] = "checking"
    /\ fpc' = [fpc EXCEPT ![f] = IF record = Torn THEN "raised"
                                 ELSE IF record.state \in {"succeeded", "failed"} THEN "draining"
                                 ELSE "reading"]
    /\ UNCHANGED <<record, tmp, events, launcher, wrapper, killers, last, heard>>

CheckRecord(f) ==
    /\ fpc[f] = "checking"
    /\ fpc' = [fpc EXCEPT ![f] = IF record = Torn THEN "raised"
                                 ELSE IF record.state # "running" THEN "draining"
                                 ELSE "reading"]
    /\ UNCHANGED <<record, tmp, events, launcher, wrapper, killers, last, heard>>

\* Mutant: the remaining events are not read.
DrainNothing(f) ==
    /\ fpc[f] = "draining"
    /\ fpc' = [fpc EXCEPT ![f] = "returned"]
    /\ UNCHANGED <<record, tmp, events, launcher, wrapper, killers, last, heard>>

Drain(f) ==
    /\ fpc[f] = "draining"
    /\ heard' = [heard EXCEPT ![f] = @ \cup Kinds(New(f))]
    /\ fpc' = [fpc EXCEPT ![f] = "returned"]
    /\ UNCHANGED <<record, tmp, events, launcher, wrapper, killers, last>>

\* A follower with a timeout gives up between reading and checking.
TimeOut(f) ==
    /\ fpc[f] = "checking"
    /\ fpc' = [fpc EXCEPT ![f] = "timed_out"]
    /\ UNCHANGED <<record, tmp, events, launcher, wrapper, killers, last, heard>>

FollowerStep(f) == ReadEvents(f) \/ CheckRecord(f) \/ Drain(f)

-----------------------------------------------------------------------------
Next ==
    \/ LauncherStep \/ LauncherDies
    \/ WrapperStep
    \/ \E how \in {"succeeded", "failed"} : CommandEnds(how)
    \/ \E k \in Killer :
          \/ \E samePid \in BOOLEAN : VerifyPid(k, samePid)
          \/ KillerStep(k)
          \/ KillerDies(k)
    \/ \E f \in Follower : Follow(f) \/ FollowerStep(f) \/ TimeOut(f)

(***************************************************************************)
(* The operating system runs every process that can run.  The command need *)
(* not end, nobody has to call kill_run or inspect_run, and no process has *)
(* to die or to time out.                                                  *)
(***************************************************************************)
Fairness ==
    /\ WF_vars(LauncherStep)
    /\ WF_vars(WrapperStep)
    /\ \A k \in Killer : WF_vars(KillerStep(k))
    /\ \A f \in Follower : WF_vars(FollowerStep(f))

Spec == Init /\ [][Next]_vars /\ Fairness

-----------------------------------------------------------------------------
\* Types of the files and of what the processes hold.
TypeOK ==
    /\ record \in Record \cup {None, Torn}
    /\ tmp \in Record \cup {None, Torn}
    /\ events \in Seq(Event)
    /\ lpc \in {"start", "spawned", "recorded", "returned", "dead"}
    /\ wpc \in {"none", "begin", "started", "running", "ended", "raised", "logged",
                "updating", "writing", "exited", "killed"}
    /\ command \in {"none", "alive", "gone"}
    /\ outcome \in {"succeeded", "failed", None}
    /\ kept \in Record \cup {None}
    /\ kpc \in [Killer -> {"idle", "verified", "signalling", "terminated", "updating",
                           "carrying", "opened", "written", "recorded", "numbered",
                           "returned", "raised", "already_terminal", "died"}]
    /\ carried \in [Killer -> Record \cup {None}]
    /\ file \in [Killer -> {"tmp", "record", "unlinked", None}]
    /\ number \in [Killer -> Nat \cup {None}]
    /\ fpc \in [Follower -> {"idle", "refused", "reading", "checking", "draining",
                             "returned", "raised", "timed_out"}]
    /\ last \in [Follower -> Nat]
    /\ heard \in [Follower -> SUBSET {"launched", "started", "finished", "error", "killed"}]

\* run.json is never ahead of what it tells, wherever the wrapper and the killers
\* are: if it says how the command ended, the event of the end is in the log; if
\* it says killed, whichever killer wrote it, neither the wrapper nor a command
\* that ignores SIGTERM is alive.
RecordTellsTruth ==
    Readable =>
        /\ record.state \in {"succeeded", "failed"} => Ended
        /\ record.state = "killed" => ~WrapperAlive /\ command # "alive"

\* "monotonic sequence numbers" of events.jsonl, as far as it goes without a
\* lock: they tell the order of the wrapper's events and of one kill; only the
\* launcher's event and the events of two killers at once are out of order.
NumbersTellOrder ==
    \A i, j \in DOMAIN events :
        i < j /\ events[i].sequence >= events[j].sequence =>
            \/ "launched" \in {events[i].event, events[j].event}
            \/ events[i].event = "killed" /\ events[j].event = "killed"

\* A follower that returned because the run is over has put out the end of the
\* command if there ever is one, although it drops every event that is not above
\* its last number: the log is drained after the record is read, the record
\* changes after the log, and the numbers tell the order of both.
FollowerHearsEnd ==
    /\ NumbersTellOrder
    /\ \A f \in Follower : fpc[f] = "returned" /\ Ended => heard[f] \cap EndEvent # {}

\* No step makes a run that is over a running one, although the launcher and
\* the wrapper write run.json in no order and killers write old copies back.
NeverRunsAgain ==
    [][Readable /\ record.state # "running" =>
         record' = Torn \/ (record' # None /\ record'.state # "running")]_vars

\* The command comes to its end, or is killed with the wrapper.
CommandIsOver == <>[](wpc # "running")

KillerDied == \E k \in Killer : kpc[k] = "died"

\* A follower of a command that does not run for ever comes to an end without a
\* timeout: by the event of the end, by the record, or with an error if it finds
\* run.json half written; unless a killer died between its signal and its record,
\* which leaves nothing to see.
FollowerReturns ==
    CommandIsOver =>
        \A f \in Follower :
            fpc[f] = "reading" ~>
                fpc[f] \in {"returned", "raised", "timed_out"} \/ KillerDied

\* What run.json comes to.  The wrapper that is killed while it rewrites it leaves
\* it torn; one that finds none, as its launcher has yet to write it, leaves it
\* running for ever, and then at least the log tells the end.
Settled ==
    \/ record = None /\ lpc = "dead"
    \/ Readable /\ record.state # "running"
    \/ record = Torn /\ wpc = "killed"
    \/ wpc = "exited" /\ kept = None /\ Ended
    \/ KillerDied

\* Once the command is over run.json comes to say so for good, and stays
\* readable, but for the cases of Settled.
RecordSettles == CommandIsOver => <>[]Settled
=============================================================================
