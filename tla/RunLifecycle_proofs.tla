-------------------------- MODULE RunLifecycle_proofs --------------------------
(***************************************************************************)
(* The safety of an asynchronous run for every set of killers and          *)
(* followers.                                                              *)
(*                                                                         *)
(* Everything rests on one fact about the processes: a killer that has     *)
(* sent its signal has ended the wrapper for good, so the wrapper and the  *)
(* killers never write at the same time.  IInv says for both what they     *)
(* leave in run.json and in the log until then.                            *)
(***************************************************************************)
EXTENDS RunLifecycle, WellFoundedInduction, TLAPS

Gone == wpc \in {"exited", "killed"}

\* The wrapper will log no end of the command any more.
PastEnd == wpc \in {"logged", "updating", "writing", "exited", "killed"}

Signalled(k) == kpc[k] \in {"terminated", "updating", "carrying", "opened", "written",
                            "recorded", "numbered", "returned"}
Writing(k) == kpc[k] \in {"updating", "carrying", "opened", "written"}

\* Before there is a run.json there is nothing for a killer to do, and before
\* there is a wrapper there is no run.json.
Beginning ==
    /\ lpc \in {"start", "spawned"} => record = None
    /\ lpc = "start" <=> wpc = "none"
    /\ record = None => tmp = None /\ \A k \in Killer : kpc[k] \in {"idle", "raised"}

\* A signal ends the wrapper, a killer that writes has ended the command too.
SignalsEnd ==
    /\ command = "alive" => wpc \in {"running", "killed"}
    /\ \A k \in Killer : Signalled(k) => Gone
    /\ \A k \in Killer : Writing(k) => command # "alive"

\* What the files hold, and who may have left them so.
FilesHold ==
    /\ tmp # None => Gone /\ command # "alive"
    /\ tmp \notin {None, Torn} => tmp.state = "killed"
    /\ record = Torn => wpc = "writing" \/ Gone
    /\ Readable /\ record.state = "killed" => Gone /\ command # "alive"
    /\ Readable /\ record.state \in {"succeeded", "failed"} => Ended

\* What the wrapper and the killers hold.
Held ==
    /\ wpc \in {"ended", "logged", "updating", "writing"} => outcome \in {"succeeded", "failed"}
    /\ wpc \in {"updating", "writing"} => kept \in Record /\ record # None
    /\ wpc \in {"logged", "updating", "writing"} => Ended
    /\ \A k \in Killer : kpc[k] \in {"carrying", "opened"} => carried[k] \in Record
    /\ \A k \in Killer : kpc[k] = "numbered" => number[k] \in Nat
    /\ \A k \in Killer : file[k] # None => kpc[k] = "opened"

\* No event is numbered above some number, so there is a highest one.
Bounded == \E b \in Nat : \A i \in DOMAIN events : events[i].sequence <= b

LifeInv == TypeOK /\ Bounded /\ Beginning /\ SignalsEnd /\ FilesHold /\ Held

-----------------------------------------------------------------------------
(* Numbers.                                                                *)

LEMMA Least ==
    ASSUME NEW U, U \subseteq Nat, U # {}
    PROVE  \E u \in U : \A m \in U : u <= m
<1>1. PICK u \in U : \A m \in U : ~ (<<m, u>> \in OpToRel(<, Nat))
  BY NatLessThanWellFounded, WFMin
<1>2. \A m \in U : <<m, u>> \in OpToRel(<, Nat) <=> m < u
  BY DEF OpToRel
<1>3. \A m \in U : ~ (m < u)
  BY <1>1, <1>2
<1>4. \A m \in U : m \in Nat /\ u \in Nat
  OBVIOUS
<1> QED BY <1>3, <1>4

\* A bounded set of numbers has a highest one: its least bound.
LEMMA Greatest ==
    ASSUME NEW S, S \subseteq Nat, S # {}, NEW b \in Nat, \A m \in S : m <= b
    PROVE  \E n \in S : \A m \in S : m <= n
<1> DEFINE U == {u \in Nat : \A m \in S : m <= u}
<1>1. PICK u \in U : \A m \in U : u <= m
  <2>1. b \in U
    OBVIOUS
  <2> HIDE DEF U
  <2>2. U \subseteq Nat
    BY DEF U
  <2> QED BY <2>1, <2>2, Least
<1>2. u \in S
  <2> SUFFICES ASSUME u \notin S PROVE FALSE
    OBVIOUS
  <2>1. \A m \in S : m < u
    OBVIOUS
  <2>2. PICK s \in S : s \in Nat /\ s < u
    BY <2>1
  <2>3. \A m \in S : m <= u - 1
    BY <2>1, <2>2
  <2>4. u - 1 \in U /\ u \in Nat
    BY <2>2, <2>3
  <2> QED BY <2>4, <1>1
<1> QED BY <1>2

\* The number a killer looks up is the highest in the log.
LEMMA LatestIsHighest ==
    ASSUME TypeOK, Bounded
    PROVE  /\ Latest \in Nat
           /\ \A i \in DOMAIN events : events[i].sequence <= Latest
<1> DEFINE numbers == {events[i].sequence : i \in DOMAIN events} \cup {0}
<1>1. \A i \in DOMAIN events : events[i] \in Event
  BY DEF TypeOK
<1>2. numbers \subseteq Nat /\ numbers # {}
  BY <1>1 DEF Event
<1>3. PICK b \in Nat : \A i \in DOMAIN events : events[i].sequence <= b
  BY DEF Bounded
<1>4. \A m \in numbers : m <= b
  BY <1>3
<1> HIDE DEF numbers
<1>5. \E n \in numbers : \A m \in numbers : m <= n
  BY <1>2, <1>3, <1>4, Greatest
<1>6. Latest \in numbers /\ \A m \in numbers : m <= Latest
  BY <1>5 DEF Latest, numbers
<1> QED BY <1>2, <1>6 DEF numbers

\* So is, of what it has read, the number a follower keeps.
LEMMA HighestIsHighest ==
    ASSUME TypeOK, Bounded, NEW f \in Follower, NEW read \in SUBSET DOMAIN events
    PROVE  /\ Highest(f, read) \in Nat
           /\ last[f] <= Highest(f, read)
           /\ \A i \in read : events[i].sequence <= Highest(f, read)
           /\ Highest(f, read) = last[f] \/ \E i \in read : Highest(f, read) = events[i].sequence
<1> DEFINE numbers == {events[i].sequence : i \in read} \cup {last[f]}
<1>1. (\A i \in DOMAIN events : events[i] \in Event) /\ last[f] \in Nat
  BY DEF TypeOK
<1>2. numbers \subseteq Nat /\ numbers # {}
  BY <1>1 DEF Event
<1>3. PICK b \in Nat : \A i \in DOMAIN events : events[i].sequence <= b
  BY DEF Bounded
<1>4. b + last[f] \in Nat /\ \A m \in numbers : m <= b + last[f]
  BY <1>1, <1>3 DEF Event
<1> HIDE DEF numbers
<1>5. \E n \in numbers : \A m \in numbers : m <= n
  BY <1>2, <1>4, Greatest
<1>6. Highest(f, read) \in numbers /\ \A m \in numbers : m <= Highest(f, read)
  BY <1>5 DEF Highest, numbers
<1> QED BY <1>2, <1>6 DEF numbers

LEMMA Numbered ==
    ASSUME TypeOK
    PROVE  \A i \in DOMAIN events : events[i] \in Event /\ events[i].sequence \in Nat
<1>1. \A i \in DOMAIN events : events[i] \in Event
  BY DEF TypeOK
<1>2. \A x \in Event : x.sequence \in Nat
  BY DEF Event
<1> QED BY <1>1, <1>2

LEMMA Appended ==
    ASSUME TypeOK, Bounded, NEW e \in Event, events' = Append(events, e)
    PROVE  /\ events' \in Seq(Event)
           /\ Bounded'
           /\ DOMAIN events = 1 .. Len(events)
           /\ Len(events) \in Nat
           /\ DOMAIN events' = 1 .. (Len(events) + 1)
           /\ \A i \in DOMAIN events : events'[i] = events[i]
           /\ events'[Len(events) + 1] = e
           /\ Ended => Ended'
           /\ e.event \in EndEvent => Ended'
<1>1. events \in Seq(Event)
  BY DEF TypeOK
<1>2. /\ events' \in Seq(Event)
      /\ DOMAIN events = 1 .. Len(events) /\ Len(events) \in Nat
      /\ DOMAIN events' = 1 .. (Len(events) + 1)
      /\ \A i \in DOMAIN events : events'[i] = events[i]
      /\ events'[Len(events) + 1] = e
  BY <1>1
<1>3. PICK b \in Nat : \A i \in DOMAIN events : events[i].sequence <= b
  BY DEF Bounded
<1>4. Bounded'
  <2>1. \A x \in Event : x.sequence \in Nat
    BY DEF Event
  <2>2. b + e.sequence \in Nat /\ \A i \in DOMAIN events' : events'[i].sequence <= b + e.sequence
    BY <1>1, <1>2, <1>3, <2>1
  <2> QED BY <2>2 DEF Bounded
<1>5. (Ended => Ended') /\ (e.event \in EndEvent => Ended')
  BY <1>2 DEF Ended
<1> QED BY <1>2, <1>4, <1>5

-----------------------------------------------------------------------------
(* Every step preserves LifeInv.                                           *)

LEMMA InitLife == Init => LifeInv
<1> SUFFICES ASSUME Init PROVE LifeInv
  OBVIOUS
<1>1. TypeOK
  BY DEF Init, TypeOK
<1>2. Bounded
  BY DEF Init, Bounded
<1>3. Beginning /\ SignalsEnd /\ FilesHold /\ Held
  BY SentinelAssumption
     DEF Init, Beginning, SignalsEnd, FilesHold, Held, Readable, Gone, Signalled, Writing
<1> QED BY <1>1, <1>2, <1>3 DEF LifeInv

\* The steps that leave the log and the files as they are.
LEMMA QuietFiles ==
    ASSUME LifeInv, UNCHANGED <<record, tmp, events>>,
           TypeOK', Beginning', SignalsEnd', Held',
           Gone => Gone', wpc = "writing" => wpc' = "writing" \/ Gone',
           Gone /\ command # "alive" => command' # "alive"
    PROVE  LifeInv'
<1>1. Bounded' /\ (Ended <=> Ended') /\ (Readable <=> Readable')
  BY DEF LifeInv, Bounded, Ended, Readable
<1>2. FilesHold'
  BY <1>1 DEF LifeInv, FilesHold
<1> QED BY <1>1, <1>2 DEF LifeInv

LEMMA LauncherKeeps ==
    ASSUME LifeInv, LauncherStep \/ LauncherDies
    PROVE  LifeInv'
<1> USE SentinelAssumption DEF LifeInv, LauncherStep
<1>1. CASE Popen
  <2>1. TypeOK' /\ Beginning' /\ SignalsEnd' /\ Held'
    BY <1>1 DEF Popen, TypeOK, Beginning, SignalsEnd, Held, Ended, Gone, Signalled, Writing,
                wrapper, launcher, killers, followers
  <2> QED BY <1>1, <2>1, QuietFiles DEF Popen, Beginning, Gone
<1>2. CASE RecordRun
  <2>1. record' \in Record /\ record'.state = "running"
    BY <1>2 DEF RecordRun, Record, RecordState
  <2>2. TypeOK' /\ Beginning' /\ SignalsEnd' /\ Held' /\ Bounded'
    BY <1>2, <2>1 DEF RecordRun, TypeOK, Beginning, SignalsEnd, Held, Ended, Bounded, Gone,
                Signalled, Writing, wrapper, launcher, killers, followers
  <2>3. FilesHold'
    BY <1>2, <2>1 DEF RecordRun, FilesHold, Gone, Readable, wrapper
  <2> QED BY <2>2, <2>3
<1>3. CASE LogLaunched
  <2> DEFINE e == [event |-> "launched", sequence |-> 1]
  <2>1. e \in Event /\ events' = Append(events, e)
    BY <1>3 DEF LogLaunched, Event
  <2>2. events' \in Seq(Event) /\ Bounded' /\ (Ended => Ended')
    BY <2>1, Appended
  <2>3. TypeOK' /\ Beginning' /\ SignalsEnd'
    BY <1>3, <2>2 DEF LogLaunched, TypeOK, Beginning, SignalsEnd, Gone, Signalled, Writing,
                      wrapper, launcher, killers, followers
  <2>4. FilesHold' /\ Held'
    BY <1>3, <2>2 DEF LogLaunched, FilesHold, Held, Gone, Readable, wrapper, killers
  <2> QED BY <2>2, <2>3, <2>4
<1>4. CASE LauncherDies
  <2>1. TypeOK' /\ Beginning' /\ SignalsEnd' /\ Held'
    BY <1>4 DEF LauncherDies, TypeOK, Beginning, SignalsEnd, Held, Ended, Gone, Signalled,
                Writing, wrapper, launcher, killers, followers
  <2> QED BY <1>4, <2>1, QuietFiles DEF LauncherDies, Gone, wrapper
<1> QED BY <1>1, <1>2, <1>3, <1>4

\* A step of the wrapper's process, or the end of the command it waits for.
WrapperMoves == WrapperStep \/ \E how \in {"succeeded", "failed"} : CommandEnds(how)

LEMMA WrapperKeeps ==
    ASSUME LifeInv, WrapperMoves
    PROVE  LifeInv'
<1> USE SentinelAssumption DEF LifeInv
<1>0. \A k \in Killer : ~Gone => kpc[k] \in {"idle", "verified", "signalling", "raised",
                                             "already_terminal", "died"}
  BY DEF SignalsEnd, Signalled, TypeOK
<1>1. CASE LogStarted
  <2> DEFINE e == [event |-> "started", sequence |-> 2]
  <2>1. e \in Event /\ events' = Append(events, e)
    BY <1>1 DEF LogStarted, Event
  <2>2. events' \in Seq(Event) /\ Bounded' /\ (Ended => Ended')
    BY <2>1, Appended
  <2>3. TypeOK' /\ Beginning' /\ SignalsEnd'
    BY <1>1, <2>2 DEF LogStarted, TypeOK, Beginning, SignalsEnd, Gone, Signalled, Writing,
                      wrapper, launcher, killers, followers
  <2>4. FilesHold' /\ Held'
    BY <1>1, <2>2 DEF LogStarted, FilesHold, Held, Gone, Readable, wrapper, killers
  <2> QED BY <2>2, <2>3, <2>4
<1>2. CASE StartCommand
  <2>1. TypeOK' /\ Beginning' /\ SignalsEnd' /\ Held'
    BY <1>0, <1>2 DEF StartCommand, TypeOK, Beginning, SignalsEnd, Held, Ended, Gone, Signalled,
                Writing, launcher, killers, followers
  <2> QED BY <1>2, <2>1, QuietFiles DEF StartCommand, Gone
<1>3. CASE StartFails
  <2>1. TypeOK' /\ Beginning' /\ SignalsEnd' /\ Held'
    BY <1>3 DEF StartFails, TypeOK, Beginning, SignalsEnd, Held, Ended, Gone, Signalled,
                Writing, launcher, killers, followers
  <2> QED BY <1>3, <2>1, QuietFiles DEF StartFails, Gone
<1>4. ASSUME NEW how \in {"succeeded", "failed"}, CommandEnds(how)
      PROVE  LifeInv'
  <2>1. TypeOK' /\ Beginning' /\ SignalsEnd' /\ Held'
    BY <1>4 DEF CommandEnds, TypeOK, Beginning, SignalsEnd, Held, Ended, Gone, Signalled,
                Writing, launcher, killers, followers
  <2> QED BY <1>4, <2>1, QuietFiles DEF CommandEnds, Gone
<1>5. CASE LogEnd
  <2>1. PICK e \in Event : /\ e.event \in EndEvent
                           /\ events' = Append(events, e)
    BY <1>5 DEF LogEnd, Event, EndEvent
  <2>2. events' \in Seq(Event) /\ Bounded' /\ Ended'
    BY <2>1, Appended
  <2>3. /\ wpc \in {"ended", "raised"} /\ wpc' = "logged"
        /\ outcome' \in {"succeeded", "failed"}
        /\ UNCHANGED <<record, tmp, launcher, command, kept, killers, followers>>
    BY <1>5 DEF LogEnd, Held
  <2>4. TypeOK' /\ Beginning' /\ SignalsEnd'
    BY <2>2, <2>3 DEF TypeOK, Beginning, SignalsEnd, Gone, Signalled, Writing,
                      launcher, killers, followers
  <2>5. FilesHold' /\ Held'
    BY <2>2, <2>3 DEF FilesHold, Held, Gone, Readable, killers
  <2> QED BY <2>2, <2>4, <2>5
<1>6. CASE ReadRecord
  <2>1. wpc = "logged" /\ record \in Record \cup {None}
    BY <1>6 DEF ReadRecord, FilesHold, TypeOK, Gone
  <2>2. /\ wpc' \in {"exited", "updating"} /\ kept' \in Record \cup {None}
        /\ wpc' = "updating" => kept' \in Record /\ record # None
        /\ UNCHANGED <<record, tmp, events, launcher, command, outcome, killers, followers>>
    BY <1>6, <2>1 DEF ReadRecord, TypeOK
  <2>3. TypeOK' /\ Beginning' /\ SignalsEnd' /\ Held'
    BY <2>1, <2>2 DEF TypeOK, Beginning, SignalsEnd, Held, Ended, Gone, Signalled,
                Writing, launcher, killers, followers
  <2> QED BY <2>1, <2>2, <2>3, QuietFiles DEF Gone
<1>7. CASE OpenRecord
  <2>1. TypeOK' /\ Bounded' /\ Beginning' /\ SignalsEnd' /\ Held'
    BY <1>0, <1>7 DEF OpenRecord, TypeOK, Bounded, Beginning, SignalsEnd, Held, Ended, Gone,
                Signalled, Writing, FilesHold, launcher, killers, followers
  <2>2. FilesHold'
    BY <1>7 DEF OpenRecord, FilesHold, Readable, Gone
  <2> QED BY <2>1, <2>2
<1>8. CASE WriteRecord
  <2>1. /\ record' \in Record /\ record'.state \in {"succeeded", "failed"}
        /\ Ended
    BY <1>8 DEF WriteRecord, Held, Record, RecordState
  <2>2. TypeOK' /\ Bounded' /\ Beginning' /\ SignalsEnd' /\ Held'
    BY <1>0, <1>8, <2>1 DEF WriteRecord, TypeOK, Bounded, Beginning, SignalsEnd, Held, Ended,
                Gone, Signalled, Writing, FilesHold, launcher, killers, followers
  <2>3. FilesHold'
    BY <1>8, <2>1 DEF WriteRecord, FilesHold, Readable, Gone, Ended
  <2> QED BY <2>2, <2>3
<1> QED BY <1>1, <1>2, <1>3, <1>4, <1>5, <1>6, <1>7, <1>8 DEF WrapperMoves, WrapperStep

LEMMA KillerKeeps ==
    ASSUME LifeInv, NEW k \in Killer,
           (\E samePid \in BOOLEAN : VerifyPid(k, samePid)) \/ KillerStep(k) \/ KillerDies(k)
    PROVE  LifeInv'
<1> USE SentinelAssumption DEF LifeInv
<1>1. ASSUME NEW samePid \in BOOLEAN, VerifyPid(k, samePid)
      PROVE  LifeInv'
  <2>1. TypeOK' /\ Beginning' /\ SignalsEnd' /\ Held'
    BY <1>1 DEF VerifyPid, Readable, TypeOK, Beginning, SignalsEnd, Held, Ended, Gone,
                Signalled, Writing, wrapper, launcher, followers
  <2> QED BY <1>1, <2>1, QuietFiles DEF VerifyPid, Gone, wrapper
<1>2. CASE CheckRunning(k)
  <2>1. TypeOK' /\ Beginning' /\ SignalsEnd' /\ Held'
    BY <1>2 DEF CheckRunning, Readable, TypeOK, Beginning, SignalsEnd, Held, Ended, Gone,
                Signalled, Writing, wrapper, launcher, followers
  <2> QED BY <1>2, <2>1, QuietFiles DEF CheckRunning, Gone, wrapper
<1>3. CASE Terminate(k)
  <2>1. record # None /\ wpc # "none"
    BY <1>3 DEF Terminate, Beginning
  <2>2. Gone' /\ wpc' # "none" /\ wpc' \in {wpc, "killed"}
    BY <1>3, <2>1 DEF Terminate, TypeOK, WrapperAlive, Gone
  <2>3. command' = "alive" => command = "alive"
    BY <1>3 DEF Terminate
  <2>4. TypeOK' /\ Beginning' /\ SignalsEnd' /\ Held'
    BY <1>3, <2>1, <2>2, <2>3
       DEF Terminate, TypeOK, Beginning, SignalsEnd, Held, Ended, Gone, Signalled, Writing,
           WrapperAlive, launcher, followers
  <2> QED BY <1>3, <2>2, <2>3, <2>4, QuietFiles DEF Terminate
<1>4. CASE ForceKill(k)
  <2>1. TypeOK' /\ Beginning' /\ SignalsEnd' /\ Held'
    BY <1>4 DEF ForceKill, TypeOK, Beginning, SignalsEnd, Held, Ended, Gone,
                Signalled, Writing, launcher, followers
  <2> QED BY <1>4, <2>1, QuietFiles DEF ForceKill, Gone
<1>5. CASE ReadForUpdate(k)
  <2>1. Readable => record \in Record
    BY DEF Readable, TypeOK
  <2>2. /\ kpc' = [kpc EXCEPT ![k] = IF Readable THEN "carrying" ELSE "raised"]
        /\ carried' = [carried EXCEPT ![k] = IF Readable THEN record ELSE @]
        /\ UNCHANGED <<record, tmp, events, launcher, wrapper, file, number, followers>>
        /\ kpc[k] = "updating" /\ record # None
    BY <1>5 DEF ReadForUpdate, TypeOK, Beginning
  <2>3. TypeOK'
    BY <2>1, <2>2 DEF TypeOK, wrapper, launcher, followers
  <2>4. Beginning' /\ SignalsEnd' /\ Held'
    BY <2>1, <2>2 DEF TypeOK, Beginning, SignalsEnd, Held, Ended, Gone, Signalled, Writing,
                      wrapper, launcher
  <2> QED BY <2>2, <2>3, <2>4, QuietFiles DEF Gone, wrapper
<1>6. CASE OpenTmp(k)
  <2>1. Gone /\ command # "alive" /\ record # None
    BY <1>6 DEF OpenTmp, SignalsEnd, Signalled, Writing, Beginning
  <2>2. TypeOK' /\ Bounded' /\ Beginning' /\ SignalsEnd' /\ Held'
    BY <1>6, <2>1 DEF OpenTmp, TypeOK, Bounded, Beginning, SignalsEnd, Held, Ended, Gone,
                Signalled, Writing, wrapper, launcher, followers
  <2>3. FilesHold'
    BY <1>6, <2>1 DEF OpenTmp, FilesHold, Gone, Readable, Ended, wrapper
  <2> QED BY <2>2, <2>3
<1>7. CASE WriteTmp(k)
  <2>1. Gone /\ command # "alive" /\ record # None
    BY <1>7 DEF WriteTmp, SignalsEnd, Signalled, Writing, Beginning
  <2>2. Killed(carried[k]) \in Record /\ Killed(carried[k]).state = "killed"
    BY <1>7 DEF WriteTmp, Held, Killed, Record, RecordState
  <2>3. TypeOK' /\ Bounded' /\ Beginning' /\ SignalsEnd' /\ Held'
    BY <1>7, <2>1, <2>2 DEF WriteTmp, TypeOK, Bounded, Beginning, SignalsEnd, Held, Ended, Gone,
                Signalled, Writing, wrapper, launcher, followers
  <2>4. FilesHold'
    BY <1>7, <2>1, <2>2 DEF WriteTmp, FilesHold, Gone, Readable, Ended, wrapper
  <2> QED BY <2>3, <2>4
<1>8. CASE Replace(k)
  <2>1. Gone /\ command # "alive" /\ record # None
    BY <1>8 DEF Replace, SignalsEnd, Signalled, Writing, Beginning
  <2>2. file' \in [Killer -> {"tmp", "record", "unlinked", None}]
    BY <1>8 DEF Replace, Renamed, TypeOK
  <2>3. \A j \in Killer : file'[j] # None => kpc'[j] = "opened"
    <3> SUFFICES ASSUME NEW j \in Killer, file'[j] # None PROVE kpc'[j] = "opened"
      OBVIOUS
    <3>1. file[j] # None
      BY <1>8 DEF Replace, Renamed, TypeOK
    <3>2. kpc[j] = "opened" /\ kpc[k] = "written"
      BY <1>8, <3>1 DEF Replace, Held
    <3>3. kpc'[j] = kpc[j]
      BY <1>8, <3>2 DEF Replace, TypeOK
    <3> QED BY <3>2, <3>3
  <2>4. TypeOK' /\ Bounded' /\ Beginning' /\ SignalsEnd' /\ Held'
    BY <1>8, <2>1, <2>2, <2>3 DEF Replace, TypeOK, Bounded, Beginning, SignalsEnd, Held, Ended, Gone,
                Signalled, Writing, wrapper, launcher, followers
  <2>5. FilesHold'
    BY <1>8, <2>1 DEF Replace, FilesHold, Gone, Readable, Ended, TypeOK, Record, wrapper
  <2> QED BY <2>4, <2>5
<1>9. CASE TakeNumber(k)
  <2>1. Latest + 1 \in Nat
    BY LatestIsHighest
  <2>2. TypeOK' /\ Beginning' /\ SignalsEnd' /\ Held'
    BY <1>9, <2>1 DEF TakeNumber, TypeOK, Beginning, SignalsEnd, Held, Ended, Gone,
                Signalled, Writing, wrapper, launcher, followers
  <2> QED BY <1>9, <2>2, QuietFiles DEF TakeNumber, Gone, wrapper
<1>10. CASE LogKilled(k)
  <2>1. number[k] \in Nat
    BY <1>10 DEF LogKilled, Held
  <2> DEFINE e == [event |-> "killed", sequence |-> number[k]]
  <2>2. e \in Event /\ events' = Append(events, e)
    BY <1>10, <2>1 DEF LogKilled, Event
  <2>3. events' \in Seq(Event) /\ Bounded' /\ (Ended => Ended')
    BY <2>2, Appended
  <2>4. TypeOK' /\ Beginning' /\ SignalsEnd'
    BY <1>10, <2>3 DEF LogKilled, TypeOK, Beginning, SignalsEnd, Gone, Signalled, Writing,
                      wrapper, launcher, killers, followers
  <2>5. FilesHold' /\ Held'
    BY <1>10, <2>3 DEF LogKilled, FilesHold, Held, Gone, Readable, TypeOK, wrapper, killers
  <2> QED BY <2>3, <2>4, <2>5
<1>11. CASE KillerDies(k)
  <2>1. record # None
    BY <1>11 DEF KillerDies, KillerDone, Beginning
  <2>2. TypeOK' /\ Beginning' /\ SignalsEnd' /\ Held'
    BY <1>11, <2>1 DEF KillerDies, TypeOK, Beginning, SignalsEnd, Held, Ended, Gone,
                Signalled, Writing, wrapper, launcher, followers
  <2> QED BY <1>11, <2>2, QuietFiles DEF KillerDies, Gone, wrapper
<1> QED BY <1>1, <1>2, <1>3, <1>4, <1>5, <1>6, <1>7, <1>8, <1>9, <1>10, <1>11 DEF KillerStep

LEMMA KindsAreEvents ==
    ASSUME TypeOK, NEW read \in SUBSET DOMAIN events
    PROVE  Kinds(read) \in SUBSET {"launched", "started", "finished", "error", "killed"}
<1>1. \A i \in DOMAIN events : events[i] \in Event
  BY DEF TypeOK
<1>2. \A x \in Event : x.event \in {"launched", "started", "finished", "error", "killed"}
  BY DEF Event
<1>3. \A i \in read : events[i].event \in {"launched", "started", "finished", "error", "killed"}
  BY <1>1, <1>2
<1> QED BY <1>3 DEF Kinds

LEMMA FollowerKeeps ==
    ASSUME LifeInv, NEW f \in Follower, Follow(f) \/ FollowerStep(f) \/ TimeOut(f)
    PROVE  LifeInv'
<1> USE DEF LifeInv
<1>1. UNCHANGED <<record, tmp, events, launcher, wrapper, killers>>
  BY DEF Follow, FollowerStep, ReadEvents, CheckRecord, Drain, TimeOut
<1>2. TypeOK'
  <2>1. CASE ReadEvents(f)
    <3> DEFINE ends == {i \in New(f) : events[i].event \in EndEvent}
               read == {i \in New(f) : \A e \in ends : i <= e}
    <3>1. read \subseteq DOMAIN events
      BY DEF New
    <3>2. Highest(f, read) \in Nat
      BY <3>1, HighestIsHighest
    <3>3. Kinds(read) \in SUBSET {"launched", "started", "finished", "error", "killed"}
      BY <3>1, KindsAreEvents
    <3> HIDE DEF read
    <3>4. /\ heard' = [heard EXCEPT ![f] = @ \cup Kinds(read)]
          /\ last' = [last EXCEPT ![f] = Highest(f, read)]
          /\ fpc' \in [Follower -> {"idle", "refused", "reading", "checking", "draining",
                                    "returned", "raised", "timed_out"}]
      BY <2>1 DEF ReadEvents, TypeOK, read
    <3> QED BY <1>1, <3>2, <3>3, <3>4 DEF TypeOK, launcher, wrapper, killers
  <2>2. CASE Drain(f)
    <3>1. Kinds(New(f)) \in SUBSET {"launched", "started", "finished", "error", "killed"}
      BY KindsAreEvents DEF New
    <3> QED BY <1>1, <2>2, <3>1 DEF Drain, TypeOK, launcher, wrapper, killers
  <2>3. CASE Follow(f) \/ CheckRecord(f) \/ TimeOut(f)
    <3>1. /\ fpc' \in [Follower -> {"idle", "refused", "reading", "checking", "draining",
                                   "returned", "raised", "timed_out"}]
          /\ UNCHANGED <<last, heard>>
      BY <2>3 DEF Follow, CheckRecord, TimeOut, TypeOK
    <3> QED BY <1>1, <3>1 DEF TypeOK, launcher, wrapper, killers
  <2> QED BY <2>1, <2>2, <2>3 DEF FollowerStep
<1>3. Beginning' /\ SignalsEnd' /\ Held'
  BY <1>1 DEF Beginning, SignalsEnd, Held, Ended, Gone, Signalled, Writing,
              launcher, wrapper, killers
<1> QED BY <1>1, <1>2, <1>3, QuietFiles DEF Gone, wrapper

LEMMA LifeInductive == LifeInv /\ [Next]_vars => LifeInv'
<1> SUFFICES ASSUME LifeInv, [Next]_vars PROVE LifeInv'
  OBVIOUS
<1>1. CASE UNCHANGED vars
  <2>1. TypeOK'
    BY <1>1 DEF vars, LifeInv, TypeOK, launcher, wrapper, killers, followers
  <2>2. Beginning' /\ SignalsEnd' /\ Held'
    BY <1>1 DEF vars, LifeInv, Beginning, SignalsEnd, Held, Gone, Signalled, Writing, Ended,
                launcher, wrapper, killers
  <2> QED BY <1>1, <2>1, <2>2, QuietFiles DEF vars, Gone, wrapper
<1>2. CASE Next
  BY <1>2, LauncherKeeps, WrapperKeeps, KillerKeeps, FollowerKeeps DEF Next, WrapperMoves
<1> QED BY <1>1, <1>2

LEMMA LifeInvariant == Spec => []LifeInv
BY InitLife, LifeInductive, PTL DEF Spec

\* Types of the files and of what the processes hold.
THEOREM TypeCorrect == Spec => []TypeOK
BY LifeInvariant, PTL DEF LifeInv

\* run.json is never ahead of what it tells.
THEOREM TheRecordTellsTruth == Spec => []RecordTellsTruth
<1>1. LifeInv => RecordTellsTruth
  BY DEF LifeInv, FilesHold, RecordTellsTruth, Gone, WrapperAlive
<1> QED BY <1>1, LifeInvariant, PTL

\* What a step may do to the record of a run that is over.
LEMMA StaysOver ==
    ASSUME LifeInv, [Next]_vars, Readable, record.state # "running"
    PROVE  record' = Torn \/ (record' # None /\ record'.state # "running")
<1> USE SentinelAssumption DEF LifeInv
<1>1. CASE RecordRun
  BY <1>1 DEF RecordRun, Beginning, Readable
<1>2. CASE OpenRecord
  BY <1>2 DEF OpenRecord
<1>3. CASE WriteRecord
  <2>1. record' \in Record /\ record'.state \in {"succeeded", "failed"}
    BY <1>3 DEF WriteRecord, Held, Record, RecordState
  <2> QED BY <2>1
<1>4. ASSUME NEW k \in Killer, WriteTmp(k)
      PROVE  record' = Torn \/ (record' # None /\ record'.state # "running")
  <2>1. Killed(carried[k]) \in Record /\ Killed(carried[k]).state = "killed"
    BY <1>4 DEF WriteTmp, Held, Killed, Record, RecordState
  <2> QED BY <1>4, <2>1 DEF WriteTmp, Readable
<1>5. ASSUME NEW k \in Killer, Replace(k)
      PROVE  record' = Torn \/ (record' # None /\ record'.state # "running")
  BY <1>5 DEF Replace, FilesHold, Readable
<1>6. CASE record' = record
  BY <1>6 DEF Readable
<1> QED
  BY <1>1, <1>2, <1>3, <1>4, <1>5, <1>6
     DEF Next, vars, LauncherStep, Popen, LogLaunched, LauncherDies, WrapperStep, LogStarted,
         StartCommand, StartFails, CommandEnds, LogEnd, ReadRecord, VerifyPid, KillerStep,
         CheckRunning, Terminate, ForceKill, ReadForUpdate, OpenTmp, TakeNumber, LogKilled,
         KillerDies, Follow, FollowerStep, ReadEvents, CheckRecord, Drain, TimeOut

\* No step makes a run that is over a running one.
THEOREM OverIsOver == Spec => NeverRunsAgain
<1>1. LifeInv /\ [Next]_vars =>
        [Readable /\ record.state # "running" =>
           record' = Torn \/ (record' # None /\ record'.state # "running")]_vars
  BY StaysOver
<1> QED BY <1>1, LifeInvariant, PTL DEF Spec, NeverRunsAgain

-----------------------------------------------------------------------------
(* What the log tells a follower.                                          *)

NotEndedYet == wpc \in {"started", "running", "ended", "raised"}

\* The kinds in the log follow the wrapper, and their numbers are fixed but for
\* the killers', which are above all there was when they were taken.
LogInv ==
    /\ wpc \in {"none", "begin"} => \A i \in DOMAIN events : events[i].event = "launched"
    /\ NotEndedYet => \A i \in DOMAIN events : events[i].event \in {"launched", "started"}
    /\ ~Gone => \A i \in DOMAIN events : events[i].event # "killed"
    /\ \A k \in Killer : kpc[k] = "numbered" =>
          \A i \in DOMAIN events : events[i].event \in {"launched", "killed"}
                                   \/ events[i].sequence < number[k]
    /\ \A i \in DOMAIN events :
          /\ events[i].event = "launched" => events[i].sequence = 1
          /\ events[i].event = "started" => events[i].sequence = 2
          /\ events[i].event \in EndEvent => events[i].sequence = 3
    /\ \A i, j \in DOMAIN events :
          events[i].event \in EndEvent /\ events[j].event \in EndEvent => i = j
    /\ NumbersTellOrder

\* A follower stops only when no end of the command can come any more, and an
\* end it has not heard has a number above its last one.
Unheard(f) == Ended /\ heard[f] \cap EndEvent = {}
HearInv ==
    \A f \in Follower :
        /\ fpc[f] \in {"reading", "checking", "draining"} => record # None
        /\ fpc[f] \in {"draining", "returned"} => PastEnd
        /\ ~PastEnd \/ Unheard(f) => last[f] <= 2
        /\ fpc[f] = "returned" => ~Unheard(f)

LEMMA QuietLog ==
    ASSUME LogInv, UNCHANGED events,
           wpc' \in {"none", "begin"} => wpc \in {"none", "begin"},
           NotEndedYet' => NotEndedYet \/ wpc \in {"none", "begin"},
           Gone => Gone',
           \A k \in Killer : kpc'[k] = "numbered" => kpc[k] = "numbered" /\ number'[k] = number[k]
    PROVE  LogInv'
BY DEF LogInv, NumbersTellOrder

\* An event the log allows behind those it has.
Fits(e) ==
    \/ e.event = "launched" /\ e.sequence = 1
    \/ /\ e.event = "started" /\ e.sequence = 2
       /\ \A i \in DOMAIN events : events[i].event = "launched"
    \/ /\ e.event \in EndEvent /\ e.sequence = 3
       /\ \A i \in DOMAIN events : events[i].event \in {"launched", "started"}
    \/ /\ e.event = "killed"
       /\ \A i \in DOMAIN events : events[i].event \in {"launched", "killed"}
                                   \/ events[i].sequence < e.sequence

LEMMA FittingEvent ==
    ASSUME LifeInv, LogInv, NEW e \in Event, Fits(e), events' = Append(events, e)
    PROVE  /\ \A i \in DOMAIN events' :
                /\ events'[i].event = "launched" => events'[i].sequence = 1
                /\ events'[i].event = "started" => events'[i].sequence = 2
                /\ events'[i].event \in EndEvent => events'[i].sequence = 3
           /\ \A i, j \in DOMAIN events' :
                events'[i].event \in EndEvent /\ events'[j].event \in EndEvent => i = j
           /\ NumbersTellOrder'
           /\ Ended' => Ended \/ e.event \in EndEvent
<1> DEFINE n == Len(events) + 1
<1>1. /\ DOMAIN events = 1 .. Len(events) /\ Len(events) \in Nat
      /\ DOMAIN events' = 1 .. n
      /\ \A i \in DOMAIN events : events'[i] = events[i]
      /\ events'[n] = e
  BY Appended DEF LifeInv
<1>2. \A i \in DOMAIN events' : i = n \/ i \in DOMAIN events
  BY <1>1
<1>3. \A i \in DOMAIN events : events[i].sequence \in Nat
  BY Numbered DEF LifeInv
<1>4. \A i \in DOMAIN events' :
        /\ events'[i].event = "launched" => events'[i].sequence = 1
        /\ events'[i].event = "started" => events'[i].sequence = 2
        /\ events'[i].event \in EndEvent => events'[i].sequence = 3
  BY <1>1, <1>2 DEF Fits, LogInv, EndEvent
<1>5. \A i, j \in DOMAIN events' :
        events'[i].event \in EndEvent /\ events'[j].event \in EndEvent => i = j
  BY <1>1, <1>2 DEF Fits, LogInv, EndEvent
<1>6. NumbersTellOrder'
  <2> SUFFICES ASSUME NEW i \in DOMAIN events', NEW j \in DOMAIN events',
                      i < j, events'[i].sequence >= events'[j].sequence
               PROVE  \/ "launched" \in {events'[i].event, events'[j].event}
                      \/ events'[i].event = "killed" /\ events'[j].event = "killed"
    BY DEF NumbersTellOrder
  <2>1. i \in DOMAIN events
    BY <1>1, <1>2
  <2>2. CASE j \in DOMAIN events
    BY <1>1, <2>1, <2>2 DEF LogInv, NumbersTellOrder
  <2>3. CASE j = n
    BY <1>1, <1>3, <2>1, <2>3 DEF Fits, LogInv, EndEvent, Event
  <2> QED BY <1>2, <2>2, <2>3
<1>7. Ended' => Ended \/ e.event \in EndEvent
  BY <1>1, <1>2 DEF Ended
<1> QED BY <1>4, <1>5, <1>6, <1>7

LEMMA LogStep ==
    ASSUME LifeInv, LifeInv', LogInv, Next
    PROVE  LogInv'
<1> USE DEF LifeInv
<1>1. CASE LauncherStep \/ LauncherDies
  <2>1. CASE LogLaunched
    <3> DEFINE e == [event |-> "launched", sequence |-> 1]
    <3>1. e \in Event /\ Fits(e) /\ events' = Append(events, e)
      BY <2>1 DEF LogLaunched, Event, Fits
    <3>2. \A i \in DOMAIN events' : (i \in DOMAIN events /\ events'[i] = events[i]) \/ events'[i] = e
      BY <3>1, Appended
    <3> QED BY <2>1, <3>1, <3>2, FittingEvent
            DEF LogLaunched, LogInv, NotEndedYet, Gone, wrapper, killers
  <2>2. CASE Popen
    BY <2>2, QuietLog DEF Popen, Beginning, NotEndedYet, Gone, killers
  <2>3. CASE RecordRun \/ LauncherDies
    BY <2>3, QuietLog DEF RecordRun, LauncherDies, NotEndedYet, Gone, wrapper, killers
  <2> QED BY <1>1, <2>1, <2>2, <2>3 DEF LauncherStep
<1>2. CASE WrapperMoves
  <2>1. CASE LogStarted
    <3> DEFINE e == [event |-> "started", sequence |-> 2]
    <3>1. e \in Event /\ Fits(e) /\ events' = Append(events, e)
      BY <2>1 DEF LogStarted, Event, Fits, LogInv
    <3>2. \A i \in DOMAIN events' : (i \in DOMAIN events /\ events'[i] = events[i]) \/ events'[i] = e
      BY <3>1, Appended
    <3>3. \A k \in Killer : kpc'[k] # "numbered"
      BY <2>1 DEF LogStarted, SignalsEnd, Signalled, Gone, killers
    <3> QED BY <2>1, <3>1, <3>2, <3>3, FittingEvent
            DEF LogStarted, LogInv, NotEndedYet, Gone
  <2>2. CASE LogEnd
    <3>1. PICK e \in Event : /\ e.event \in EndEvent /\ e.sequence = 3
                             /\ events' = Append(events, e)
      BY <2>2 DEF LogEnd, Event, EndEvent
    <3>2. Fits(e)
      BY <2>2, <3>1 DEF LogEnd, Fits, LogInv, NotEndedYet
    <3>3. \A i \in DOMAIN events' : (i \in DOMAIN events /\ events'[i] = events[i]) \/ events'[i] = e
      BY <3>1, Appended
    <3>4. \A k \in Killer : kpc'[k] # "numbered"
      BY <2>2 DEF LogEnd, SignalsEnd, Signalled, Gone, killers
    <3>5. e.event # "killed" /\ wpc' = "logged" /\ ~Gone
      BY <2>2, <3>1 DEF LogEnd, EndEvent, Gone
    <3> QED BY <3>1, <3>2, <3>3, <3>4, <3>5, FittingEvent DEF LogInv, NotEndedYet, Gone
  <2>3. CASE StartCommand \/ StartFails \/ \E how \in {"succeeded", "failed"} : CommandEnds(how)
    BY <2>3, QuietLog DEF StartCommand, StartFails, CommandEnds, NotEndedYet, Gone, killers
  <2>4. CASE ReadRecord \/ OpenRecord \/ WriteRecord
    BY <2>4, QuietLog DEF ReadRecord, OpenRecord, WriteRecord, NotEndedYet, Gone, killers
  <2> QED BY <1>2, <2>1, <2>2, <2>3, <2>4 DEF WrapperMoves, WrapperStep
<1>3. ASSUME NEW k \in Killer,
             (\E samePid \in BOOLEAN : VerifyPid(k, samePid)) \/ KillerStep(k) \/ KillerDies(k)
      PROVE  LogInv'
  <2>1. CASE TakeNumber(k)
    <3>1. Latest \in Nat /\ \A i \in DOMAIN events : events[i].sequence <= Latest
      BY LatestIsHighest
    <3>2. \A i \in DOMAIN events : events[i].sequence \in Nat /\ events[i].sequence < Latest + 1
      BY <3>1, Numbered
    <3>3. \A j \in Killer : kpc'[j] = "numbered" =>
            \A i \in DOMAIN events : events[i].event \in {"launched", "killed"}
                                     \/ events[i].sequence < number'[j]
      <4> SUFFICES ASSUME NEW j \in Killer, kpc'[j] = "numbered", NEW i \in DOMAIN events,
                          events[i].event \notin {"launched", "killed"}
                   PROVE  events[i].sequence < number'[j]
        OBVIOUS
      <4>1. CASE j = k
        BY <2>1, <3>2, <4>1 DEF TakeNumber, TypeOK
      <4>2. CASE j # k
        BY <2>1, <4>2 DEF TakeNumber, TypeOK, LogInv
      <4> QED BY <4>1, <4>2
    <3> QED BY <2>1, <3>3 DEF TakeNumber, LogInv, NumbersTellOrder, NotEndedYet, Gone, wrapper
  <2>2. CASE LogKilled(k)
    <3> DEFINE e == [event |-> "killed", sequence |-> number[k]]
    <3>1. e \in Event /\ events' = Append(events, e)
      BY <2>2 DEF LogKilled, Event, Held
    <3>2. Fits(e)
      BY <2>2 DEF LogKilled, Fits, LogInv
    <3>3. \A i \in DOMAIN events' : (i \in DOMAIN events /\ events'[i] = events[i]) \/ events'[i] = e
      BY <3>1, Appended
    <3>4. Gone
      BY <2>2 DEF LogKilled, SignalsEnd, Signalled
    <3>5. \A j \in Killer : kpc'[j] = "numbered" => kpc[j] = "numbered" /\ number'[j] = number[j]
      BY <2>2 DEF LogKilled, TypeOK
    <3>6. wpc' = wpc
      BY <2>2 DEF LogKilled, wrapper
    <3> QED BY <3>1, <3>2, <3>3, <3>4, <3>5, <3>6, FittingEvent DEF LogInv, NotEndedYet, Gone
  <2>3. CASE Terminate(k)
    <3>1. wpc' = wpc \/ wpc' = "killed"
      BY <2>3 DEF Terminate
    <3>2. \A j \in Killer : kpc'[j] = "numbered" => kpc[j] = "numbered" /\ number'[j] = number[j]
      BY <2>3 DEF Terminate, TypeOK
    <3> QED BY <2>3, <3>1, <3>2, QuietLog DEF Terminate, NotEndedYet, Gone
  <2>4. CASE \/ \E samePid \in BOOLEAN : VerifyPid(k, samePid)
             \/ CheckRunning(k) \/ ForceKill(k) \/ ReadForUpdate(k) \/ OpenTmp(k) \/ WriteTmp(k)
             \/ Replace(k) \/ KillerDies(k)
    <3>1. UNCHANGED <<events, wpc, number>>
      BY <2>4 DEF VerifyPid, CheckRunning, ForceKill, ReadForUpdate, OpenTmp, WriteTmp, Replace,
                  KillerDies, wrapper
    <3>2. \A j \in Killer : kpc'[j] = "numbered" => kpc[j] = "numbered"
      BY <2>4 DEF VerifyPid, CheckRunning, ForceKill, ReadForUpdate, OpenTmp, WriteTmp, Replace,
                  KillerDies, TypeOK
    <3> QED BY <3>1, <3>2, QuietLog DEF NotEndedYet, Gone
  <2> QED BY <1>3, <2>1, <2>2, <2>3, <2>4 DEF KillerStep
<1>4. ASSUME NEW f \in Follower, Follow(f) \/ FollowerStep(f) \/ TimeOut(f)
      PROVE  LogInv'
  <2>1. UNCHANGED <<events, wpc, kpc, number>>
    BY <1>4 DEF Follow, FollowerStep, ReadEvents, CheckRecord, Drain, TimeOut, wrapper, killers
  <2> QED BY <2>1, QuietLog DEF NotEndedYet, Gone
<1> QED BY <1>1, <1>2, <1>3, <1>4 DEF Next, WrapperMoves

\* The end of the command is logged by LogEnd alone.
LEMMA EndComes ==
    ASSUME LifeInv, LogInv, Next
    PROVE  /\ PastEnd => PastEnd'
           /\ Ended' /\ ~Ended => ~PastEnd
           /\ Ended => Ended'
           /\ Ended' => PastEnd'
           /\ record # None => record' # None
<1> USE SentinelAssumption DEF LifeInv
<1>1. Ended => PastEnd
  BY DEF LogInv, Ended, EndEvent, PastEnd, NotEndedYet, TypeOK
<1>2. ASSUME NEW e \in Event, Fits(e), events' = Append(events, e)
      PROVE  (Ended => Ended') /\ (Ended' => Ended \/ e.event \in EndEvent)
  BY <1>2, FittingEvent, Appended
<1>3. CASE LogLaunched
  <2>1. [event |-> "launched", sequence |-> 1] \in Event /\ Fits([event |-> "launched", sequence |-> 1])
    BY DEF Event, Fits
  <2> QED BY <1>1, <1>2, <1>3, <2>1 DEF LogLaunched, EndEvent, PastEnd, wrapper
<1>4. CASE LogStarted
  <2>1. [event |-> "started", sequence |-> 2] \in Event /\ Fits([event |-> "started", sequence |-> 2])
    BY <1>4 DEF LogStarted, Event, Fits, LogInv
  <2> QED BY <1>1, <1>2, <1>4, <2>1 DEF LogStarted, EndEvent, PastEnd
<1>5. CASE LogEnd
  <2>1. PICK e \in Event : e.event \in EndEvent /\ events' = Append(events, e)
    BY <1>5 DEF LogEnd, Event, EndEvent
  <2>2. Ended'
    BY <2>1, Appended
  <2> QED BY <1>5, <2>2 DEF LogEnd, PastEnd
<1>6. ASSUME NEW k \in Killer, LogKilled(k)
      PROVE  /\ PastEnd => PastEnd'
             /\ Ended' /\ ~Ended => ~PastEnd
             /\ Ended => Ended'
             /\ Ended' => PastEnd'
             /\ record # None => record' # None
  <2> DEFINE e == [event |-> "killed", sequence |-> number[k]]
  <2>1. e \in Event /\ Fits(e) /\ events' = Append(events, e)
    BY <1>6 DEF LogKilled, Event, Held, Fits, LogInv
  <2>2. e.event \notin EndEvent
    BY DEF EndEvent
  <2>3. UNCHANGED <<record, wpc>>
    BY <1>6 DEF LogKilled, wrapper
  <2> QED BY <1>1, <1>2, <2>1, <2>2, <2>3 DEF PastEnd
<1>7. CASE Popen \/ RecordRun \/ LauncherDies \/ (WrapperMoves /\ ~LogStarted /\ ~LogEnd)
  <2>1. UNCHANGED events
    BY <1>7 DEF Popen, RecordRun, LauncherDies, WrapperMoves, WrapperStep, StartCommand,
                StartFails, CommandEnds, ReadRecord, OpenRecord, WriteRecord
  <2>2. PastEnd => PastEnd'
    BY <1>7 DEF Popen, RecordRun, LauncherDies, WrapperMoves, WrapperStep, StartCommand,
                StartFails, CommandEnds, ReadRecord, OpenRecord, WriteRecord, Beginning, PastEnd, wrapper
  <2>3. record # None => record' # None
    <3>1. CASE WriteRecord
      BY <3>1 DEF WriteRecord, Held, Record, RecordState
    <3>2. CASE RecordRun
      BY <3>2 DEF RecordRun, Record, RecordState, Beginning
    <3>3. CASE record' \in {record, Torn}
      BY <3>3
    <3> QED BY <1>7, <3>1, <3>2, <3>3
            DEF Popen, LauncherDies, WrapperMoves, WrapperStep, StartCommand,
                StartFails, CommandEnds, ReadRecord, OpenRecord
  <2> QED BY <1>1, <2>1, <2>2, <2>3 DEF Ended
<1>8. ASSUME NEW k \in Killer,
             \/ (\E samePid \in BOOLEAN : VerifyPid(k, samePid))
             \/ KillerDies(k) \/ (KillerStep(k) /\ ~LogKilled(k))
      PROVE  /\ UNCHANGED events
             /\ PastEnd => PastEnd'
             /\ record # None => record' # None
  <2>1. UNCHANGED events
    BY <1>8 DEF VerifyPid, KillerDies, KillerStep, CheckRunning, Terminate, ForceKill,
                ReadForUpdate, OpenTmp, WriteTmp, Replace, TakeNumber
  <2>2. wpc' \in {wpc, "killed"}
    BY <1>8 DEF VerifyPid, KillerDies, KillerStep, CheckRunning, Terminate, ForceKill,
                ReadForUpdate, OpenTmp, WriteTmp, Replace, TakeNumber, wrapper
  <2>3. record # None => record' # None
    <3>1. CASE WriteTmp(k)
      BY <3>1 DEF WriteTmp, Held, Killed, Record, RecordState
    <3>2. CASE Replace(k)
      BY <3>2 DEF Replace
    <3>3. CASE record' = record
      BY <3>3
    <3> QED BY <1>8, <3>1, <3>2, <3>3
            DEF VerifyPid, KillerDies, KillerStep, CheckRunning, Terminate, ForceKill,
                ReadForUpdate, OpenTmp, TakeNumber
  <2> QED BY <2>1, <2>2, <2>3 DEF PastEnd
<1>9. ASSUME NEW f \in Follower, Follow(f) \/ FollowerStep(f) \/ TimeOut(f)
      PROVE  UNCHANGED <<events, record, wpc>>
  BY <1>9 DEF Follow, FollowerStep, ReadEvents, CheckRecord, Drain, TimeOut, wrapper
<1>10. CASE UNCHANGED events /\ (PastEnd => PastEnd') /\ (record # None => record' # None)
  BY <1>1, <1>10 DEF Ended
<1>11. CASE UNCHANGED <<events, record, wpc>>
  BY <1>10, <1>11 DEF PastEnd
<1> QED BY <1>3, <1>4, <1>5, <1>6, <1>7, <1>8, <1>9, <1>10, <1>11
    DEF Next, LauncherStep, WrapperMoves, WrapperStep, KillerStep

\* What a follower reads in one turn: the end, if it was not heard before.
LEMMA TurnHears ==
    ASSUME LifeInv, LogInv, HearInv, NEW f \in Follower, NEW i \in DOMAIN events,
           events[i].event \in EndEvent, heard[f] \cap EndEvent = {}
    PROVE  /\ i \in New(f)
           /\ \A j \in New(f) : events[j].event \in EndEvent => j = i
<1>1. Unheard(f)
  BY DEF Unheard, Ended
<1>2. last[f] <= 2 /\ last[f] \in Nat /\ events[i].sequence = 3
  BY <1>1 DEF HearInv, LogInv, LifeInv, TypeOK
<1> QED BY <1>2 DEF New, LogInv

LEMMA OthersHear ==
    ASSUME LifeInv, LogInv, HearInv, Next, UNCHANGED followers
    PROVE  HearInv'
<1> SUFFICES ASSUME NEW f \in Follower
             PROVE  /\ fpc'[f] \in {"reading", "checking", "draining"} => record' # None
                    /\ fpc'[f] \in {"draining", "returned"} => PastEnd'
                    /\ ~PastEnd' \/ Unheard(f)' => last'[f] <= 2
                    /\ fpc'[f] = "returned" => ~Unheard(f)'
  BY DEF HearInv
<1>1. /\ PastEnd => PastEnd'
      /\ Ended' /\ ~Ended => ~PastEnd
      /\ record # None => record' # None
  BY EndComes
<1>2. UNCHANGED <<fpc, last, heard>>
  BY DEF followers
<1> QED BY <1>1, <1>2 DEF HearInv, Unheard

LEMMA FollowerHears ==
    ASSUME LifeInv, LogInv, HearInv, NEW f \in Follower,
           Follow(f) \/ FollowerStep(f) \/ TimeOut(f)
    PROVE  HearInv'
<1> USE SentinelAssumption
<1>1. /\ UNCHANGED <<record, events, wpc>>
      /\ (PastEnd <=> PastEnd') /\ (Ended <=> Ended')
  BY DEF Follow, FollowerStep, ReadEvents, CheckRecord, Drain, TimeOut, wrapper, PastEnd, Ended
<1>2. Ended => PastEnd
  BY DEF LogInv, Ended, EndEvent, PastEnd, NotEndedYet, LifeInv, TypeOK
<1>3. ASSUME NEW g \in Follower, g # f
      PROVE  /\ fpc'[g] \in {"reading", "checking", "draining"} => record' # None
             /\ fpc'[g] \in {"draining", "returned"} => PastEnd'
             /\ ~PastEnd' \/ Unheard(g)' => last'[g] <= 2
             /\ fpc'[g] = "returned" => ~Unheard(g)'
  <2>1. fpc'[g] = fpc[g] /\ last'[g] = last[g] /\ heard'[g] = heard[g]
    BY <1>3 DEF Follow, FollowerStep, ReadEvents, CheckRecord, Drain, TimeOut, LifeInv, TypeOK
  <2> QED BY <1>1, <2>1 DEF HearInv, Unheard
<1>4. /\ fpc'[f] \in {"reading", "checking", "draining"} => record' # None
      /\ fpc'[f] \in {"draining", "returned"} => PastEnd'
      /\ ~PastEnd' \/ Unheard(f)' => last'[f] <= 2
      /\ fpc'[f] = "returned" => ~Unheard(f)'
  <2>1. CASE ReadEvents(f)
    <3> DEFINE ends == {i \in New(f) : events[i].event \in EndEvent}
               read == {i \in New(f) : \A e \in ends : i <= e}
    <3>1. read \in SUBSET DOMAIN events
      BY DEF New
    <3>2. Ended => heard'[f] \cap EndEvent # {}
      <4> SUFFICES ASSUME NEW i \in DOMAIN events, events[i].event \in EndEvent,
                          heard[f] \cap EndEvent = {}
                   PROVE  heard'[f] \cap EndEvent # {}
        BY <2>1 DEF Ended, ReadEvents, LifeInv, TypeOK
      <4>1. i \in New(f) /\ \A j \in New(f) : events[j].event \in EndEvent => j = i
        BY TurnHears
      <4>2. i \in Nat
        BY DEF LifeInv, TypeOK
      <4>3. i \in read
        BY <4>1, <4>2
      <4>4. events[i].event \in heard'[f]
        BY <2>1, <4>3 DEF ReadEvents, Kinds, LifeInv, TypeOK
      <4> QED BY <4>4
    <3>3. ~PastEnd => last'[f] <= 2
      <4> SUFFICES ASSUME ~PastEnd PROVE last'[f] <= 2
        OBVIOUS
      <4>1. \A i \in DOMAIN events : events[i].sequence <= 2
        <5>1. wpc \in {"none", "begin"} \/ NotEndedYet
          BY DEF NotEndedYet, PastEnd, LifeInv, TypeOK
        <5>2. \A i \in DOMAIN events : events[i].event \in {"launched", "started"}
          BY <5>1 DEF LogInv
        <5>3. \A i \in DOMAIN events : events[i].sequence \in {1, 2}
          BY <5>2 DEF LogInv
        <5> QED BY <5>3
      <4>2. last[f] <= 2
        BY DEF HearInv
      <4> HIDE DEF read
      <4>3. Highest(f, read) = last[f] \/ \E i \in read : Highest(f, read) = events[i].sequence
        BY <3>1, HighestIsHighest DEF LifeInv
      <4>4. last'[f] = Highest(f, read)
        BY <2>1 DEF ReadEvents, LifeInv, TypeOK, read
      <4> QED BY <3>1, <4>1, <4>2, <4>3, <4>4
    <3>4. fpc[f] = "reading" /\ fpc'[f] \in {"returned", "checking"}
      BY <2>1 DEF ReadEvents, LifeInv, TypeOK
    <3>5. fpc'[f] = "returned" => Ended
      BY <2>1 DEF ReadEvents, LifeInv, TypeOK, Ended, New
    <3> QED BY <1>1, <1>2, <3>2, <3>3, <3>4, <3>5 DEF HearInv, Unheard
  <2>2. CASE Drain(f)
    <3>1. Ended => heard'[f] \cap EndEvent # {}
      <4> SUFFICES ASSUME NEW i \in DOMAIN events, events[i].event \in EndEvent,
                          heard[f] \cap EndEvent = {}
                   PROVE  heard'[f] \cap EndEvent # {}
        BY <2>2 DEF Ended, Drain, LifeInv, TypeOK
      <4>1. i \in New(f)
        BY TurnHears
      <4>2. events[i].event \in heard'[f]
        BY <2>2, <4>1 DEF Drain, Kinds, LifeInv, TypeOK
      <4> QED BY <4>2
    <3>2. fpc[f] = "draining" /\ fpc'[f] = "returned" /\ last' = last
      BY <2>2 DEF Drain, LifeInv, TypeOK
    <3> QED BY <1>1, <3>1, <3>2 DEF HearInv, Unheard
  <2>3. CASE CheckRecord(f)
    <3>1. /\ fpc[f] = "checking" /\ fpc'[f] \in {"raised", "draining", "reading"}
          /\ UNCHANGED <<last, heard>>
          /\ fpc'[f] = "draining" => record # Torn /\ record.state # "running"
      BY <2>3 DEF CheckRecord, LifeInv, TypeOK
    <3>2. record # None
      BY <3>1 DEF HearInv
    <3>3. fpc'[f] = "draining" => PastEnd
      <4> SUFFICES ASSUME fpc'[f] = "draining" PROVE PastEnd
        OBVIOUS
      <4>1. Readable /\ record.state \in {"succeeded", "failed", "killed"}
        BY <3>1, <3>2 DEF Readable, LifeInv, TypeOK, Record, RecordState
      <4> QED BY <1>2, <4>1 DEF LifeInv, FilesHold, Gone, PastEnd
    <3> QED BY <1>1, <3>1, <3>2, <3>3 DEF HearInv, Unheard
  <2>4. CASE Follow(f) \/ TimeOut(f)
    <3>1. /\ fpc'[f] \in {"reading", "refused", "timed_out"}
          /\ UNCHANGED <<last, heard>>
          /\ fpc'[f] = "reading" => record # None
      BY <2>4 DEF Follow, TimeOut, Readable, LifeInv, TypeOK
    <3> QED BY <1>1, <3>1 DEF HearInv, Unheard
  <2> QED BY <2>1, <2>2, <2>3, <2>4 DEF FollowerStep
<1> QED BY <1>3, <1>4 DEF HearInv

FollowInv == LifeInv /\ LogInv /\ HearInv

LEMMA InitFollow == Init => FollowInv
<1> SUFFICES ASSUME Init PROVE FollowInv
  OBVIOUS
<1>1. LogInv
  BY DEF Init, LogInv, NumbersTellOrder, NotEndedYet, Gone
<1>2. HearInv
  BY DEF Init, HearInv, Unheard, Ended
<1> QED BY <1>1, <1>2, InitLife DEF FollowInv

LEMMA FollowInductive == FollowInv /\ [Next]_vars => FollowInv'
<1> SUFFICES ASSUME FollowInv, [Next]_vars PROVE FollowInv'
  OBVIOUS
<1> USE DEF FollowInv
<1>1. LifeInv'
  BY LifeInductive
<1>2. CASE UNCHANGED vars
  <2>1. LogInv'
    BY <1>2, QuietLog DEF vars, wrapper, killers, NotEndedYet, Gone
  <2>2. HearInv'
    BY <1>2 DEF vars, wrapper, followers, HearInv, Unheard, Ended, PastEnd
  <2> QED BY <1>1, <2>1, <2>2
<1>3. CASE Next
  <2>1. LogInv'
    BY <1>1, <1>3, LogStep
  <2>2. CASE UNCHANGED followers
    BY <1>1, <1>3, <2>1, <2>2, OthersHear
  <2>3. ASSUME NEW f \in Follower, Follow(f) \/ FollowerStep(f) \/ TimeOut(f)
        PROVE  HearInv'
    BY <2>3, FollowerHears
  <2>4. UNCHANGED followers \/ \E f \in Follower : Follow(f) \/ FollowerStep(f) \/ TimeOut(f)
    BY <1>3 DEF Next, LauncherStep, Popen, RecordRun, LogLaunched, LauncherDies, WrapperStep,
                LogStarted, StartCommand, StartFails, CommandEnds, LogEnd, ReadRecord, OpenRecord,
                WriteRecord, VerifyPid, KillerStep, CheckRunning, Terminate, ForceKill,
                ReadForUpdate, OpenTmp, WriteTmp, Replace, TakeNumber, LogKilled, KillerDies
  <2> QED BY <1>1, <2>1, <2>2, <2>3, <2>4
<1> QED BY <1>2, <1>3

\* A follower that returned because the run is over has put out the end of the
\* command if there ever is one, and the numbers tell the order it relies on.
THEOREM TheEndIsHeard == Spec => []FollowerHearsEnd
<1>1. FollowInv => FollowerHearsEnd
  BY DEF FollowInv, LogInv, HearInv, Unheard, FollowerHearsEnd
<1> QED BY <1>1, InitFollow, FollowInductive, PTL DEF Spec
=============================================================================
