--------------------------- MODULE RunService_proofs ---------------------------
(***************************************************************************)
(* What execute leaves behind, for every number of calls, runs and bytes.  *)
(*                                                                         *)
(* The primary key of the run table makes one call the owner of a run_id.  *)
(* Everything else follows from what the owner of a run has done when it   *)
(* is at a statement, and from that nobody but other writers and a busy    *)
(* store can move the run elsewhere than where its owner believes it is.   *)
(***************************************************************************)
EXTENDS RunService, TLAPS

Place == Moving \cup Raised \cup
         {"idle", "launch", "fail", "fail_gate", "retry", "retry_gate", "raw",
          "journal", "evidence", "assess", "returned", "crashed"}

Owner(c) == pc[c] \notin {"idle", "conflict"}
Started(c) == pc[c] \notin DOMAIN Walk \cup {"idle", "conflict", "launch"}

\* A call that has begun has a run that exists, and a run has one owner.
Owned ==
    /\ \A c \in Call : pc[c] = "idle" <=> run[c] = None
    /\ \A c \in Call : pc[c] # "idle" => path[run[c]] # <<>>
    /\ \A c, d \in Call : Owner(c) /\ Owner(d) /\ run[c] = run[d] => c = d

\* Workers and artifacts of a run, by where its owner is.
Workers ==
    /\ \A r \in Run : path[r] = <<>> => launched[r] = 0 /\ journal[r] = <<>>
    /\ \A c \in Call : Owner(c) /\ ~Started(c) =>
          launched[run[c]] = 0 /\ journal[run[c]] = <<>>
    /\ \A c \in Call : pc[c] \in {"raw", "journal"} =>
          launched[run[c]] = 1 /\ journal[run[c]] = <<>>

\* What a call has in hand and in the stores, by where it is.
Stages ==
    /\ \A c \in Call : ~Started(c) \/ pc[c] \in {"fail", "fail1", "fail2", "retry", "raised_launch"}
          => result[c] = None /\ gate[c] = None /\ receipt[c] = None
    /\ \A c \in Call : pc[c] \in {"raw", "journal", "evidence", "assess", "gate", "end", "returned"}
          => result[c] \in Result
    /\ \A c \in Call : pc[c] \in {"journal", "evidence", "assess", "gate", "end", "returned"}
          => result[c].bytes \in raw
    /\ \A c \in Call : pc[c] \in {"evidence", "assess", "gate", "end", "returned"}
          => \E i \in DOMAIN journal[run[c]] : journal[run[c]][i] = result[c].bytes
    /\ \A c \in Call : pc[c] \in {"assess", "gate", "end", "returned"} => receipt[c] # None
    /\ \A c \in Call : pc[c] \in {"gate", "end", "returned"} => gate[c] \in Gate
    /\ \A c \in Call : gate[c] = "pass" =>
          result[c] \in Result /\ result[c].exited /\ result[c].zero /\ result[c].bytes # Empty

\* Every receipt is of a call that wrote the bytes.
Shared ==
    /\ \A b \in Bytes : evidence[b] # None =>
          \E d \in Call : run[d] = evidence[b] /\ result[d] \in Result /\ result[d].bytes = b
    /\ \A c \in Call : receipt[c] # None =>
          result[c] \in Result /\ evidence[result[c].bytes] = receipt[c]

\* A call that returned has moved its run to the end, from the stage of its gate.
AtTheEnd ==
    \A c \in Call : pc[c] = "returned" =>
        /\ Current(run[c]) = "advance_or_stop"
        /\ Len(path[run[c]]) > 1
        /\ path[run[c]][Len(path[run[c]]) - 1] = GateStage(gate[c])

SafeInv == TypeOK /\ Owned /\ Workers /\ OneWorkerPerRun /\ Stages /\ Shared /\ AtTheEnd

-----------------------------------------------------------------------------
(* The places and the legs.                                                *)

LEMMA WalkPlaces == DOMAIN Walk = {"walk1", "walk2", "walk3", "walk4"}
BY DEF Walk

LEMMA WalkLegs ==
    ASSUME NEW c \in Call, pc[c] \in DOMAIN Walk
    PROVE  /\ LegOf(c).from \in LaneState \ Terminal
           /\ LegOf(c).to \in LaneState
           /\ LegOf(c).stop = FALSE
           /\ LegOf(c).then \in {"walk2", "walk3", "walk4", "launch"}
<1>1. LegOf(c) = Walk[pc[c]]
  BY WalkPlaces DEF LegOf
<1>2. \A w \in DOMAIN Walk :
         /\ Walk[w].from \in LaneState \ Terminal
         /\ Walk[w].to \in LaneState
         /\ Walk[w].stop = FALSE
         /\ Walk[w].then \in {"walk2", "walk3", "walk4", "launch"}
  <2>1. /\ Walk["walk1"].from = "preflight" /\ Walk["walk1"].to = "batch_selection"
        /\ Walk["walk1"].stop = FALSE /\ Walk["walk1"].then = "walk2"
    BY DEF Walk
  <2>2. /\ Walk["walk2"].from = "batch_selection" /\ Walk["walk2"].to = "lane_plan"
        /\ Walk["walk2"].stop = FALSE /\ Walk["walk2"].then = "walk3"
    BY DEF Walk
  <2>3. /\ Walk["walk3"].from = "lane_plan" /\ Walk["walk3"].to = "implement"
        /\ Walk["walk3"].stop = FALSE /\ Walk["walk3"].then = "walk4"
    BY DEF Walk
  <2>4. /\ Walk["walk4"].from = "implement" /\ Walk["walk4"].to = "verify"
        /\ Walk["walk4"].stop = FALSE /\ Walk["walk4"].then = "launch"
    BY DEF Walk
  <2> QED BY <2>1, <2>2, <2>3, <2>4, WalkPlaces DEF LaneState, Terminal
<1> QED BY <1>1, <1>2

LEMMA LegFacts ==
    ASSUME NEW c \in Call, pc[c] \in Moving
    PROVE  /\ LegOf(c).from \in LaneState \ Terminal
           /\ LegOf(c).to \in LaneState
           /\ LegOf(c).stop \in BOOLEAN
           /\ LegOf(c).then \in Place \ {"idle", "conflict"}
           /\ LegOf(c).then \in DOMAIN Walk \cup {"launch"} <=> pc[c] \in DOMAIN Walk
           /\ LegOf(c).then = "end" <=> pc[c] = "gate"
           /\ LegOf(c).then = "returned" <=> pc[c] = "end"
           /\ LegOf(c).then = "raised_launch" <=> pc[c] = "fail2"
           /\ LegOf(c).then = "retry" <=> pc[c] = "fail1"
           /\ LegOf(c).then \notin {"fail", "fail1", "fail2", "raw", "journal", "evidence", "assess", "gate"}
           /\ pc[c] = "end" => /\ LegOf(c).to = "advance_or_stop"
                               /\ LegOf(c).from = GateStage(gate[c])
                               /\ LegOf(c).stop <=> gate[c] # "pass"
<1>1. CASE pc[c] \in DOMAIN Walk
  BY <1>1, WalkLegs, WalkPlaces DEF Moving, Leaving, Place
<1>2. CASE pc[c] = "gate"
  BY <1>2, WalkPlaces DEF LegOf, Moving, Leaving, Raised, Place, LaneState, Terminal, GateStage
<1>3. CASE pc[c] = "end"
  BY <1>3, WalkPlaces DEF LegOf, Moving, Leaving, Raised, Place, LaneState, Terminal, GateStage
<1>4. CASE pc[c] \in {"fail1", "fail1_gate"}
  BY <1>4, WalkPlaces DEF LegOf, Moving, Leaving, Raised, Place, LaneState, Terminal
<1>5. CASE pc[c] \in {"fail2", "fail2_gate"}
  BY <1>5, WalkPlaces DEF LegOf, Moving, Leaving, Raised, Place, LaneState, Terminal
<1> QED BY <1>1, <1>2, <1>3, <1>4, <1>5, WalkPlaces DEF Moving, Leaving

-----------------------------------------------------------------------------
(* Every step preserves SafeInv.                                           *)

LEMMA InitSafe == Init => SafeInv
<1> SUFFICES ASSUME Init PROVE SafeInv
  OBVIOUS
<1>1. TypeOK
  BY DEF Init, TypeOK
<1>2. Owned /\ AtTheEnd
  BY DEF Init, Owned, Owner, AtTheEnd
<1>3. Workers /\ OneWorkerPerRun
  BY DEF Init, Workers, OneWorkerPerRun, Owner
<1>4. Stages /\ Shared
  BY NoneAssumption DEF Init, Stages, Shared, Gate
<1> QED BY <1>1, <1>2, <1>3, <1>4 DEF SafeInv

\* A step of one call to another place, which touches no store and nothing the
\* call has in hand but the version it has seen.
LEMMA OnlyMoves ==
    ASSUME SafeInv, NEW c \in Call, NEW to \in Place \ {"idle", "conflict"},
           Owner(c), pc' = [pc EXCEPT ![c] = to],
           UNCHANGED <<stores, run, result, gate, receipt>>,
           seen' \in [Call -> Nat \cup {None}], disturbed' \subseteq Run,
           ~Started(c)' => ~Started(c),
           to \in {"fail", "fail1", "fail2", "retry", "raised_launch"} =>
              ~Started(c) \/ pc[c] \in {"fail", "fail1", "fail2", "retry"},
           to \notin {"raw", "journal", "evidence", "assess", "gate", "end", "returned"}
    PROVE  SafeInv'
<1> USE DEF SafeInv, stores
<1>1. TypeOK'
  BY DEF TypeOK, Place
<1>2. Owned' /\ AtTheEnd'
  BY DEF TypeOK, Owned, Owner, AtTheEnd, Current
<1>3. Workers' /\ OneWorkerPerRun'
  BY DEF TypeOK, Workers, OneWorkerPerRun, Owner, Started
<1>4. Stages' /\ Shared'
  BY DEF TypeOK, Stages, Shared, Started
<1> QED BY <1>1, <1>2, <1>3, <1>4

LEMMA CreateKeeps ==
    ASSUME SafeInv, NEW c \in Call, NEW r \in Run, Create(c, r)
    PROVE  SafeInv'
<1> USE DEF SafeInv
<1>1. pc[c] = "idle" /\ run' = [run EXCEPT ![c] = r]
      /\ UNCHANGED <<stopReason, launched, raw, journal, evidence, seen, result, gate, receipt,
                     disturbed>>
  BY DEF Create
<1>2. result[c] = None /\ gate[c] = None /\ receipt[c] = None /\ r # None /\ run[c] = None
  BY <1>1, NoneAssumption, WalkPlaces DEF Stages, Started, Owned
<1>3. CASE path[r] = <<>> /\ path' = [path EXCEPT ![r] = <<"preflight">>]
           /\ pc' = [pc EXCEPT ![c] = "walk1"]
  <2>1. <<"preflight">> \in Seq(LaneState) /\ <<"preflight">> # <<>>
    BY DEF LaneState
  <2>2. TypeOK'
    BY <1>1, <1>3, <2>1, WalkPlaces DEF TypeOK, Moving
  <2>3. \A d \in Call : pc[d] # "idle" => run[d] # r /\ run[d] \in Run
    BY <1>3 DEF Owned, TypeOK
  <2>4. Owned'
    BY <1>1, <1>2, <1>3, <2>1, <2>3 DEF TypeOK, Owned, Owner
  <2>5. Workers' /\ OneWorkerPerRun'
    BY <1>1, <1>3, <2>1, <2>3, WalkPlaces DEF TypeOK, Workers, OneWorkerPerRun, Owner, Started
  <2>6. Stages'
    BY <1>1, <1>2, <1>3, <2>3, WalkPlaces DEF TypeOK, Stages, Started
  <2>7. Shared'
    BY <1>1, <1>2, NoneAssumption DEF TypeOK, Shared
  <2>8. AtTheEnd'
    BY <1>1, <1>3, <2>3 DEF TypeOK, AtTheEnd, Current
  <2> QED BY <2>2, <2>4, <2>5, <2>6, <2>7, <2>8
<1>4. CASE path[r] # <<>> /\ path' = path /\ pc' = [pc EXCEPT ![c] = "conflict"]
  <2>1. TypeOK'
    BY <1>1, <1>4, WalkPlaces DEF TypeOK, Raised
  <2>2. Owned'
    BY <1>1, <1>2, <1>4 DEF TypeOK, Owned, Owner
  <2>3. Workers' /\ OneWorkerPerRun'
    BY <1>1, <1>4, WalkPlaces DEF TypeOK, Workers, OneWorkerPerRun, Owner, Started
  <2>4. Stages'
    BY <1>1, <1>2, <1>4, WalkPlaces DEF TypeOK, Stages, Started
  <2>5. Shared'
    BY <1>1, <1>2, NoneAssumption DEF TypeOK, Shared
  <2>6. AtTheEnd'
    BY <1>1, <1>4 DEF TypeOK, AtTheEnd, Current
  <2> QED BY <2>1, <2>2, <2>3, <2>4, <2>5, <2>6
<1> QED BY <1>3, <1>4 DEF Create, Goto

LEMMA ReadVersionKeeps ==
    ASSUME SafeInv, NEW c \in Call, ReadVersion(c)
    PROVE  SafeInv'
<1>1. pc[c] # "idle" /\ UNCHANGED <<stores, pc, run, result, gate, receipt, disturbed>>
  BY WalkPlaces DEF ReadVersion, Moving, Leaving
<1>2. seen' \in [Call -> Nat \cup {None}]
  <2>1. run[c] \in Run
    BY <1>1 DEF SafeInv, TypeOK, Owned
  <2>2. Len(path[run[c]]) \in Nat
    BY <2>1 DEF SafeInv, TypeOK
  <2> QED BY <2>2 DEF ReadVersion, SafeInv, TypeOK
<1>3. TypeOK'
  BY <1>1, <1>2 DEF SafeInv, TypeOK, stores
<1>4. Owned' /\ Workers' /\ OneWorkerPerRun'
  BY <1>1 DEF SafeInv, Owned, Owner, Workers, OneWorkerPerRun, Started, stores
<1>5. Stages' /\ Shared' /\ AtTheEnd'
  BY <1>1 DEF SafeInv, Stages, Started, Shared, AtTheEnd, Current, stores
<1> QED BY <1>3, <1>4, <1>5 DEF SafeInv

\* The path of a run after one more state.
LEMMA LongerPath ==
    ASSUME NEW s \in Seq(LaneState), s # <<>>, NEW to \in LaneState
    PROVE  /\ Append(s, to) \in Seq(LaneState) /\ Append(s, to) # <<>>
           /\ Len(s) \in Nat \ {0}
           /\ Len(Append(s, to)) = Len(s) + 1
           /\ Append(s, to)[Len(s) + 1] = to
           /\ Append(s, to)[Len(s)] = s[Len(s)]
OBVIOUS

LEMMA MoveKeeps ==
    ASSUME SafeInv, NEW c \in Call, Move(c)
    PROVE  SafeInv'
<1> USE DEF SafeInv
<1> DEFINE r == run[c]
           to == LegOf(c).to
           then == LegOf(c).then
<1>1. /\ pc[c] \in Moving
      /\ path' = [path EXCEPT ![r] = Append(@, to)]
      /\ stopReason' = [stopReason EXCEPT ![r] = @ \/ LegOf(c).stop]
      /\ pc' = [pc EXCEPT ![c] = then]
      /\ seen' = [seen EXCEPT ![c] = None]
      /\ UNCHANGED <<launched, raw, journal, evidence, run, result, gate, receipt, disturbed>>
      /\ Current(r) = LegOf(c).from
  BY DEF Move, Matches, Goto
<1>2. Owner(c) /\ r \in Run /\ path[r] # <<>> /\ path[r] \in Seq(LaneState)
  BY <1>1, WalkPlaces DEF Moving, Leaving, Owner, Owned, TypeOK
<1>3. /\ to \in LaneState /\ LegOf(c).stop \in BOOLEAN
      /\ then \in Place \ {"idle", "conflict"}
  BY <1>1, LegFacts
<1>4. /\ path'[r] = Append(path[r], to) /\ path'[r] \in Seq(LaneState) /\ path'[r] # <<>>
      /\ \A q \in Run : q # r => path'[q] = path[q]
  BY <1>1, <1>2, <1>3, LongerPath DEF TypeOK
<1>5. \A d \in Call : d # c /\ Owner(d) => run[d] # r /\ run[d] \in Run
  BY <1>2 DEF Owned, Owner, TypeOK
<1> HIDE DEF then, to, r
<1>6. TypeOK'
  <2>1. path' \in [Run -> Seq(LaneState)]
    BY <1>1, <1>2, <1>4 DEF TypeOK
  <2>2. stopReason' \in [Run -> BOOLEAN]
    BY <1>1, <1>2, <1>3 DEF TypeOK
  <2>3. pc' \in [Call -> Place]
    BY <1>1, <1>3 DEF TypeOK, Place
  <2> QED BY <1>1, <2>1, <2>2, <2>3 DEF TypeOK, Place
<1>7. Owned'
  <2>1. \A d \in Call : /\ pc'[d] = "idle" <=> pc[d] = "idle"
                        /\ Owner(d)' <=> Owner(d)
    BY <1>1, <1>2, <1>3 DEF Owner, TypeOK
  <2>2. \A d \in Call : pc[d] # "idle" => path'[run[d]] # <<>>
    BY <1>4 DEF Owned, TypeOK
  <2> QED BY <1>1, <2>1, <2>2 DEF Owned
<1>8. Started(c)' <=> Started(c)
  BY <1>1, <1>2, <1>3, LegFacts, WalkPlaces DEF Started, Owner, TypeOK, Moving, Leaving, then
<1>9. \A d \in Call : d # c => pc'[d] = pc[d]
  BY <1>1 DEF TypeOK
<1>10. /\ pc'[c] = then
       /\ then \notin {"fail", "fail1", "fail2", "raw", "journal", "evidence", "assess", "gate"}
       /\ then \in {"retry", "raised_launch"} => pc[c] \in {"fail1", "fail2"}
       /\ then \in {"end", "returned"} => pc[c] \in {"gate", "end"}
       /\ then = "returned" <=> pc[c] = "end"
  BY <1>1, LegFacts DEF TypeOK, then
<1>11. Workers' /\ OneWorkerPerRun'
  <2>1. \A q \in Run : path'[q] = <<>> => path[q] = <<>>
    BY <1>4
  <2> QED BY <1>1, <1>2, <1>8, <1>9, <1>10, <2>1
          DEF Workers, OneWorkerPerRun, Owner, Started, TypeOK
<1>12. Stages'
  BY <1>1, <1>8, <1>9, <1>10 DEF Stages, Started
<1>13. Shared'
  BY <1>1 DEF Shared
<1>14. AtTheEnd'
  <2> SUFFICES ASSUME NEW d \in Call, pc'[d] = "returned"
               PROVE  /\ Current(run[d])' = "advance_or_stop"
                      /\ Len(path'[run[d]]) > 1
                      /\ path'[run[d]][Len(path'[run[d]]) - 1] = GateStage(gate[d])
    BY <1>1 DEF AtTheEnd
  <2>1. CASE d = c
    <3>1. pc[c] = "end" /\ to = "advance_or_stop" /\ Current(r) = GateStage(gate[c])
      BY <1>1, <1>10, <2>1, LegFacts DEF to
    <3>2. /\ Len(path[r]) \in Nat \ {0} /\ Len(path'[r]) = Len(path[r]) + 1
          /\ path'[r][Len(path[r]) + 1] = to /\ path'[r][Len(path[r])] = Current(r)
      BY <1>2, <1>3, <1>4, LongerPath DEF Current, to
    <3>3. /\ Len(path'[r]) > 1 /\ Len(path'[r]) - 1 = Len(path[r])
      BY <3>2
    <3> QED BY <1>1, <2>1, <3>1, <3>2, <3>3 DEF Current, r
  <2>2. CASE d # c
    <3>1. pc[d] = "returned" /\ Owner(d)
      BY <1>9, <2>2 DEF Owner
    <3>2. path'[run[d]] = path[run[d]]
      BY <1>4, <1>5, <2>2, <3>1
    <3> QED BY <1>1, <3>1, <3>2 DEF AtTheEnd, Current
  <2> QED BY <2>1, <2>2
<1> QED BY <1>6, <1>7, <1>11, <1>12, <1>13, <1>14

\* The steps that only go on, or give up.
LEMMA GivingUpKeeps ==
    ASSUME SafeInv, NEW c \in Call,
           \/ MoveRaises(c) \/ LaunchRaises(c) \/ FailRun(c) \/ RetryRead(c)
           \/ LateStageRaises(c) \/ Crash(c)
    PROVE  SafeInv'
<1> USE DEF SafeInv
<1>1. CASE MoveRaises(c)
  <2>1. /\ pc' = [pc EXCEPT ![c] = OnRaise(c)] /\ pc[c] \in Moving
        /\ UNCHANGED <<stores, run, result, gate, receipt>>
    BY <1>1 DEF MoveRaises, Goto
  <2>2. /\ OnRaise(c) \in {"raised_walk", "fail_gate", "raised_launch", "raised_gate"}
        /\ OnRaise(c) = "raised_launch" => pc[c] \in {"fail1", "fail2"}
    BY <2>1, WalkPlaces DEF OnRaise
  <2>3. Owner(c) /\ run[c] \in Run
    BY <2>1, WalkPlaces DEF Moving, Leaving, Owner, Owned, TypeOK
  <2>4. seen' \in [Call -> Nat \cup {None}] /\ disturbed' \subseteq Run
    BY <1>1, <2>3 DEF MoveRaises, TypeOK
  <2>5. Started(c)' /\ OnRaise(c) \in Place \ {"idle", "conflict"}
    BY <2>1, <2>2, WalkPlaces DEF Started, Place, Raised, TypeOK
  <2> HIDE DEF SafeInv
  <2> QED BY <2>1, <2>2, <2>3, <2>4, <2>5, OnlyMoves
<1>2. CASE LaunchRaises(c)
  <2>1. /\ pc' = [pc EXCEPT ![c] = "fail"] /\ pc[c] = "launch"
        /\ UNCHANGED <<stores, run, seen, result, gate, receipt, disturbed>>
    BY <1>2 DEF LaunchRaises, Goto
  <2>2. Owner(c) /\ ~Started(c) /\ Started(c)' /\ "fail" \in Place \ {"idle", "conflict"}
    BY <2>1, WalkPlaces DEF Owner, Started, Place, TypeOK
  <2>3. seen' \in [Call -> Nat \cup {None}] /\ disturbed' \subseteq Run
    BY <2>1 DEF TypeOK
  <2> HIDE DEF SafeInv
  <2> QED BY <2>1, <2>2, <2>3, OnlyMoves
<1>3. CASE FailRun(c)
  <2> DEFINE to == CASE Current(run[c]) = "verify" -> IF pc[c] = "fail" THEN "fail1" ELSE "fail1_gate"
                     [] Current(run[c]) = "fix_retry" -> IF pc[c] = "fail" THEN "fail2" ELSE "fail2_gate"
                     [] OTHER -> IF pc[c] = "fail" THEN "raised_launch" ELSE "raised_gate"
  <2>1. /\ pc' = [pc EXCEPT ![c] = to] /\ pc[c] \in {"fail", "fail_gate"}
        /\ UNCHANGED <<stores, run, result, gate, receipt, disturbed>>
    BY <1>3 DEF FailRun, Goto
  <2>2. /\ to \in {"fail1", "fail2", "raised_launch", "fail1_gate", "fail2_gate", "raised_gate"}
        /\ to \in {"fail1", "fail2", "raised_launch"} => pc[c] = "fail"
    BY <2>1
  <2> HIDE DEF to
  <2>3. Owner(c) /\ run[c] \in Run
    BY <2>1 DEF Owner, Owned, TypeOK
  <2>4. seen' \in [Call -> Nat \cup {None}] /\ disturbed' \subseteq Run
    <3>1. Len(path[run[c]]) \in Nat
      BY <2>3 DEF TypeOK
    <3> QED BY <1>3, <3>1 DEF FailRun, TypeOK
  <2>5. Started(c)' /\ to \in Place \ {"idle", "conflict"}
    BY <2>1, <2>2, WalkPlaces DEF Started, Place, Raised, Moving, Leaving, TypeOK
  <2> HIDE DEF SafeInv
  <2> QED BY <2>1, <2>2, <2>3, <2>4, <2>5, OnlyMoves
<1>4. CASE RetryRead(c)
  <2>1. PICK to \in {"fail2", "fail2_gate", "raised_launch", "raised_gate"} :
          /\ pc' = [pc EXCEPT ![c] = to] /\ pc[c] \in {"retry", "retry_gate"}
          /\ to \in {"fail2", "raised_launch"} => pc[c] = "retry"
          /\ UNCHANGED <<stores, run, result, gate, receipt, disturbed>>
    BY <1>4 DEF RetryRead, Goto
  <2>2. Owner(c) /\ run[c] \in Run
    BY <2>1 DEF Owner, Owned, TypeOK
  <2>3. seen' \in [Call -> Nat \cup {None}] /\ disturbed' \subseteq Run
    <3>1. Len(path[run[c]]) \in Nat
      BY <2>2 DEF TypeOK
    <3> QED BY <1>4, <3>1 DEF RetryRead, TypeOK
  <2>4. Started(c)' /\ to \in Place \ {"idle", "conflict"}
    BY <2>1, WalkPlaces DEF Started, Place, Raised, Moving, Leaving, TypeOK
  <2> HIDE DEF SafeInv
  <2> QED BY <2>1, <2>2, <2>3, <2>4, OnlyMoves
<1>5. CASE LateStageRaises(c) \/ Crash(c)
  <2>1. PICK to \in {"raised_late", "crashed"} :
          /\ pc' = [pc EXCEPT ![c] = to] /\ Owner(c)
          /\ UNCHANGED <<stores, run, seen, result, gate, receipt, disturbed>>
    BY <1>5 DEF LateStageRaises, Crash, Goto, Owner, Raised
  <2>2. Started(c)' /\ to \in Place \ {"idle", "conflict"}
    BY <2>1, WalkPlaces DEF Started, Place, Raised, TypeOK
  <2>3. seen' \in [Call -> Nat \cup {None}] /\ disturbed' \subseteq Run
    BY <2>1 DEF TypeOK
  <2> HIDE DEF SafeInv
  <2> QED BY <2>1, <2>2, <2>3, OnlyMoves
<1> QED BY <1>1, <1>2, <1>3, <1>4, <1>5

LEMMA LaunchKeeps ==
    ASSUME SafeInv, NEW c \in Call, NEW res \in Result, Launch(c, res)
    PROVE  SafeInv'
<1> USE DEF SafeInv
<1>1. /\ pc[c] = "launch" /\ pc' = [pc EXCEPT ![c] = "raw"]
      /\ launched' = [launched EXCEPT ![run[c]] = @ + 1]
      /\ result' = [result EXCEPT ![c] = res]
      /\ UNCHANGED <<path, stopReason, raw, journal, evidence, run, seen, gate, receipt, disturbed>>
  BY DEF Launch, Goto
<1>2. /\ Owner(c) /\ ~Started(c) /\ run[c] \in Run
      /\ result[c] = None /\ gate[c] = None /\ receipt[c] = None
      /\ launched[run[c]] = 0 /\ journal[run[c]] = <<>>
  BY <1>1, WalkPlaces DEF Owner, Started, Owned, TypeOK, Stages, Workers
<1>3. launched' = [launched EXCEPT ![run[c]] = 1] /\ launched \in [Run -> Nat]
  BY <1>1, <1>2 DEF TypeOK
<1>4. TypeOK'
  BY <1>1, <1>2, <1>3 DEF TypeOK
<1>5. Owned' /\ AtTheEnd'
  BY <1>1 DEF TypeOK, Owned, Owner, AtTheEnd, Current
<1>6. Workers'
  BY <1>1, <1>2, <1>3, WalkPlaces DEF TypeOK, Workers, Owned, Owner, Started
<1>7. OneWorkerPerRun'
  BY <1>1, <1>2, <1>3 DEF TypeOK, OneWorkerPerRun
<1>8. Stages'
  <2>1. \A d \in Call : d # c => pc'[d] = pc[d] /\ result'[d] = result[d]
    BY <1>1 DEF TypeOK
  <2>2. pc'[c] = "raw" /\ result'[c] = res /\ Started(c)'
    BY <1>1, WalkPlaces DEF TypeOK, Started
  <2>3. gate[c] # "pass"
    BY <1>2, NoneAssumption DEF Gate
  <2> QED BY <1>1, <1>2, <2>1, <2>2, <2>3 DEF Stages, Started
<1>9. Shared'
  <2>1. \A d \in Call : result[d] \in Result => result'[d] = result[d]
    BY <1>1, <1>2, NoneAssumption DEF TypeOK
  <2> QED BY <1>1, <1>2, <2>1 DEF TypeOK, Shared
<1> QED BY <1>4, <1>5, <1>6, <1>7, <1>8, <1>9

LEMMA PutRawKeeps ==
    ASSUME SafeInv, NEW c \in Call, PutRaw(c)
    PROVE  SafeInv'
<1> USE DEF SafeInv
<1>1. /\ pc[c] = "raw" /\ pc' = [pc EXCEPT ![c] = "journal"]
      /\ raw' = raw \cup {result[c].bytes}
      /\ UNCHANGED <<path, stopReason, launched, journal, evidence, run, seen, result, gate,
                     receipt, disturbed>>
  BY DEF PutRaw, Goto
<1>2. result[c] \in Result /\ result[c].bytes \in Bytes
  BY <1>1 DEF Stages, Result
<1>3. TypeOK'
  BY <1>1, <1>2 DEF TypeOK
<1>4. Owned' /\ AtTheEnd'
  BY <1>1 DEF TypeOK, Owned, Owner, AtTheEnd, Current
<1>5. Workers' /\ OneWorkerPerRun'
  BY <1>1, WalkPlaces DEF TypeOK, Workers, OneWorkerPerRun, Owner, Started
<1>6. Stages'
  BY <1>1, <1>2, WalkPlaces DEF TypeOK, Stages, Started
<1>7. Shared'
  BY <1>1 DEF Shared
<1> QED BY <1>3, <1>4, <1>5, <1>6, <1>7

LEMMA AppendJournalKeeps ==
    ASSUME SafeInv, NEW c \in Call, AppendJournal(c)
    PROVE  SafeInv'
<1> USE DEF SafeInv
<1>1. /\ pc[c] = "journal" /\ pc' = [pc EXCEPT ![c] = "evidence"]
      /\ journal' = [journal EXCEPT ![run[c]] = Append(@, result[c].bytes)]
      /\ UNCHANGED <<path, stopReason, launched, raw, evidence, run, seen, result, gate,
                     receipt, disturbed>>
  BY DEF AppendJournal, Goto
<1>2. /\ result[c] \in Result /\ result[c].bytes \in Bytes /\ Owner(c) /\ run[c] \in Run
      /\ journal[run[c]] = <<>> /\ launched[run[c]] = 1 /\ path[run[c]] # <<>>
  BY <1>1 DEF Stages, Result, Owner, Owned, TypeOK, Workers
<1>3. journal' = [journal EXCEPT ![run[c]] = <<result[c].bytes>>]
      /\ <<result[c].bytes>> \in Seq(Bytes) /\ Len(<<result[c].bytes>>) = 1
  BY <1>1, <1>2 DEF TypeOK
<1>4. \A d \in Call : d # c /\ Owner(d) => run[d] # run[c]
  BY <1>2 DEF Owned
<1>5. TypeOK'
  BY <1>1, <1>3 DEF TypeOK
<1>6. Owned' /\ AtTheEnd'
  BY <1>1 DEF TypeOK, Owned, Owner, AtTheEnd, Current
<1>7. /\ \A d \in Call : d # c => pc'[d] = pc[d] /\ (Owner(d) => journal'[run[d]] = journal[run[d]])
      /\ pc'[c] = "evidence" /\ Started(c)'
      /\ 1 \in DOMAIN journal'[run[c]] /\ journal'[run[c]][1] = result[c].bytes
  BY <1>1, <1>2, <1>3, <1>4, WalkPlaces DEF TypeOK, Owned, Owner, Started
<1>8. Workers' /\ OneWorkerPerRun'
  <2>1. \A q \in Run : q # run[c] => journal'[q] = journal[q]
    BY <1>3 DEF TypeOK
  <2>2. \A d \in Call : d # c => (Owner(d)' <=> Owner(d)) /\ (Started(d)' <=> Started(d))
    BY <1>7 DEF Owner, Started
  <2>3. Len(journal'[run[c]]) = 1
    BY <1>2, <1>3 DEF TypeOK
  <2>4. Workers'
    BY <1>1, <1>2, <1>7, <2>1, <2>2 DEF Workers, Owner
  <2> QED BY <1>1, <1>2, <2>1, <2>3, <2>4 DEF OneWorkerPerRun
<1>9. Stages'
  BY <1>1, <1>2, <1>7, WalkPlaces DEF Stages, Started, Owner
<1>10. Shared'
  BY <1>1 DEF Shared
<1> QED BY <1>5, <1>6, <1>7, <1>8, <1>9, <1>10

LEMMA SaveEvidenceKeeps ==
    ASSUME SafeInv, NEW c \in Call, SaveEvidence(c)
    PROVE  SafeInv'
<1> USE DEF SafeInv
<1> DEFINE b == result[c].bytes
           winner == IF evidence[b] = None THEN run[c] ELSE evidence[b]
<1>1. /\ pc[c] = "evidence" /\ pc' = [pc EXCEPT ![c] = "assess"]
      /\ evidence' = [evidence EXCEPT ![b] = winner]
      /\ receipt' = [receipt EXCEPT ![c] = winner]
      /\ UNCHANGED <<path, stopReason, launched, raw, journal, run, seen, result, gate, disturbed>>
  BY DEF SaveEvidence, Goto
<1>2. result[c] \in Result /\ b \in Bytes /\ run[c] \in Run
  BY <1>1 DEF Stages, Result, Owned, TypeOK
<1>3. winner \in Run /\ winner # None
  BY <1>2, NoneAssumption DEF TypeOK
<1>4. evidence[b] # None => evidence' = evidence /\ winner = evidence[b]
  BY <1>1, <1>2 DEF TypeOK
<1>5. TypeOK'
  BY <1>1, <1>2, <1>3 DEF TypeOK
<1>6. Owned' /\ AtTheEnd'
  BY <1>1 DEF TypeOK, Owned, Owner, AtTheEnd, Current
<1>7. Workers' /\ OneWorkerPerRun'
  BY <1>1, WalkPlaces DEF TypeOK, Workers, OneWorkerPerRun, Owner, Started
<1>8. Stages'
  BY <1>1, <1>2, <1>3, WalkPlaces DEF TypeOK, Stages, Started
<1>9. Shared'
  <2>1. ASSUME NEW x \in Bytes, evidence'[x] # None
        PROVE  \E d \in Call : run[d] = evidence'[x] /\ result[d] \in Result /\ result[d].bytes = x
    <3>1. CASE evidence[x] # None
      BY <1>1, <1>2, <1>4, <2>1, <3>1 DEF Shared, TypeOK
    <3>2. CASE evidence[x] = None
      <4>1. x = b /\ evidence'[x] = run[c]
        BY <1>1, <1>2, <2>1, <3>2 DEF TypeOK
      <4> QED BY <1>2, <4>1
    <3> QED BY <3>1, <3>2
  <2>2. ASSUME NEW d \in Call, receipt'[d] # None
        PROVE  result[d] \in Result /\ evidence'[result[d].bytes] = receipt'[d]
    <3>1. CASE d = c
      BY <1>1, <1>2, <3>1 DEF TypeOK
    <3>2. CASE d # c
      <4>1. receipt'[d] = receipt[d]
        BY <1>1, <3>2 DEF TypeOK
      <4>2. result[d] \in Result /\ evidence[result[d].bytes] = receipt[d]
        BY <2>2, <4>1 DEF Shared
      <4>3. evidence'[result[d].bytes] = evidence[result[d].bytes]
        <5>1. result[d].bytes \in Bytes
          BY <4>2 DEF Result
        <5>2. CASE result[d].bytes = b
          BY <1>4, <2>2, <4>1, <4>2, <5>2
        <5>3. CASE result[d].bytes # b
          BY <1>1, <5>1, <5>3 DEF TypeOK
        <5> QED BY <5>2, <5>3
      <4> QED BY <4>1, <4>2, <4>3
    <3> QED BY <3>1, <3>2
  <2> QED BY <1>1, <2>1, <2>2 DEF Shared
<1> QED BY <1>5, <1>6, <1>7, <1>8, <1>9

LEMMA AssessKeeps ==
    ASSUME SafeInv, NEW c \in Call, NEW check \in BOOLEAN, Assess(c, check)
    PROVE  SafeInv'
<1> USE DEF SafeInv
<1>1. /\ pc[c] = "assess" /\ pc' = [pc EXCEPT ![c] = "gate"]
      /\ gate' = [gate EXCEPT ![c] = Evaluate(result[c], check)]
      /\ UNCHANGED <<stores, run, seen, result, receipt, disturbed>>
  BY DEF Assess, Goto
<1>2. /\ Evaluate(result[c], check) \in Gate
      /\ Evaluate(result[c], check) = "pass" =>
            result[c].exited /\ result[c].zero /\ result[c].bytes # Empty
  BY DEF Evaluate, Gate
<1>3. result[c] \in Result
  BY <1>1 DEF Stages
<1>4. TypeOK'
  BY <1>1, <1>2, WalkPlaces DEF TypeOK, Moving, stores
<1>5. Owned' /\ AtTheEnd'
  BY <1>1 DEF TypeOK, Owned, Owner, AtTheEnd, Current, stores
<1>6. Workers' /\ OneWorkerPerRun'
  BY <1>1, WalkPlaces DEF TypeOK, Workers, OneWorkerPerRun, Owner, Started, stores
<1>7. Stages'
  BY <1>1, <1>2, <1>3, WalkPlaces DEF TypeOK, Stages, Started, stores
<1>8. Shared'
  BY <1>1 DEF Shared, stores
<1> QED BY <1>4, <1>5, <1>6, <1>7, <1>8

LEMMA OtherWriterKeeps ==
    ASSUME SafeInv, NEW r \in Run, NEW to \in LaneState, OtherWriter(r, to)
    PROVE  SafeInv'
<1> USE DEF SafeInv
<1>1. /\ path[r] # <<>> /\ path' = [path EXCEPT ![r] = Append(@, to)]
      /\ disturbed' = disturbed \cup {r}
      /\ UNCHANGED <<stopReason, launched, raw, journal, evidence, pc, run, seen, result, gate,
                     receipt>>
      /\ Current(r) # "advance_or_stop"
  BY DEF OtherWriter, LegalTransitions, LaneSuccessors, LaneState
<1>2. /\ path'[r] = Append(path[r], to) /\ path'[r] \in Seq(LaneState) /\ path'[r] # <<>>
      /\ \A q \in Run : q # r => path'[q] = path[q]
  BY <1>1, LongerPath DEF TypeOK
<1>3. TypeOK'
  BY <1>1, <1>2 DEF TypeOK
<1>4. Owned'
  BY <1>1, <1>2 DEF Owned, Owner, TypeOK
<1>5. Workers' /\ OneWorkerPerRun'
  BY <1>1, <1>2 DEF Workers, OneWorkerPerRun, Owner, Started
<1>6. Stages' /\ Shared'
  BY <1>1 DEF Stages, Shared, Started
<1>7. AtTheEnd'
  <2>1. \A d \in Call : pc[d] = "returned" => run[d] # r /\ run[d] \in Run
    BY <1>1 DEF AtTheEnd, Owned, TypeOK
  <2> QED BY <1>1, <1>2, <2>1 DEF AtTheEnd, Current
<1> QED BY <1>3, <1>4, <1>5, <1>6, <1>7

LEMMA SafeInductive == SafeInv /\ [Next]_vars => SafeInv'
<1> SUFFICES ASSUME SafeInv, [Next]_vars PROVE SafeInv'
  OBVIOUS
<1>1. CASE UNCHANGED vars
  BY <1>1 DEF vars, stores, SafeInv, TypeOK, Owned, Owner, Workers, OneWorkerPerRun, Stages,
              Shared, AtTheEnd, Started, Current
<1>2. CASE Next
  BY <1>2, CreateKeeps, ReadVersionKeeps, MoveKeeps, GivingUpKeeps, LaunchKeeps, PutRawKeeps,
     AppendJournalKeeps, SaveEvidenceKeeps, AssessKeeps, OtherWriterKeeps DEF Next
<1> QED BY <1>1, <1>2

LEMMA SafeInvariant == Spec => []SafeInv
BY InitSafe, SafeInductive, PTL DEF Spec

\* Types of the stores and of what a call holds.
THEOREM TypeCorrect == Spec => []TypeOK
BY SafeInvariant, PTL DEF SafeInv

\* One worker and one artifact per run_id, however often execute is called.
THEOREM OneWorker == Spec => []OneWorkerPerRun
BY SafeInvariant, PTL DEF SafeInv

\* A receipt that was handed out is the stored one and names a run whose worker
\* wrote the same bytes.
THEOREM SharedReceipts == Spec => []ReceiptsAreShared
<1>1. SafeInv => ReceiptsAreShared
  <2> SUFFICES ASSUME SafeInv, NEW c \in Call, receipt[c] # None
               PROVE  /\ evidence[result[c].bytes] = receipt[c]
                      /\ \E d \in Call : run[d] = receipt[c] /\ result[d] # None
                                         /\ result[d].bytes = result[c].bytes
    BY DEF ReceiptsAreShared
  <2>1. result[c].bytes \in Bytes /\ evidence[result[c].bytes] = receipt[c]
    BY DEF SafeInv, Shared, Result
  <2> QED BY <2>1, NoneAssumption DEF SafeInv, Shared
<1> QED BY <1>1, SafeInvariant, PTL

\* A call that returned has left all its records and a terminal run behind.
THEOREM CompleteWhenReturned == Spec => []ReturnedIsComplete
<1>1. SafeInv => ReturnedIsComplete
  <2> SUFFICES ASSUME SafeInv, NEW c \in Call, pc[c] = "returned"
               PROVE  /\ Terminated(run[c])
                      /\ result[c].bytes \in raw
                      /\ \E i \in DOMAIN journal[run[c]] : journal[run[c]][i] = result[c].bytes
                      /\ evidence[result[c].bytes] = receipt[c]
                      /\ path[run[c]][Len(path[run[c]]) - 1] = "review_gate" =>
                            result[c].exited /\ result[c].zero /\ result[c].bytes # Empty
    BY DEF ReturnedIsComplete
  <2>1. Terminated(run[c])
    BY DEF SafeInv, Terminated, AtTheEnd, Owned, Terminal
  <2>2. path[run[c]][Len(path[run[c]]) - 1] = "review_gate" => gate[c] = "pass"
    BY DEF SafeInv, AtTheEnd, GateStage
  <2> QED BY <2>1, <2>2 DEF SafeInv, Stages, Shared
<1> QED BY <1>1, SafeInvariant, PTL

-----------------------------------------------------------------------------
(* Where a run is whose owner nobody has disturbed.                        *)

Undisturbed(c) == Owner(c) /\ run[c] \notin disturbed

StraightAt(c) ==
    /\ pc[c] \notin Moving \cup {"crashed"} => seen[c] = None
    /\ Undisturbed(c) =>
            /\ pc[c] \in Moving => Current(run[c]) = LegOf(c).from
                                   /\ seen[c] \in {None, Len(path[run[c]])}
            /\ pc[c] \in {"launch", "fail", "raw", "journal", "evidence", "assess", "raised_late"}
                  => Current(run[c]) = "verify"
            /\ pc[c] = "retry" => Current(run[c]) = "fix_retry"
            /\ pc[c] \in {"returned", "raised_launch"}
                  => Terminated(run[c]) /\ (stopReason[run[c]] <=> gate[c] # "pass")
            /\ pc[c] \notin {"returned", "raised_launch"}
                  => ~Terminated(run[c]) /\ ~stopReason[run[c]]
            /\ pc[c] \notin {"fail_gate", "fail1_gate", "fail2_gate", "retry_gate", "raised_gate",
                             "raised_walk"}

Straight ==
    /\ \A r \in Run : path[r] = <<>> => ~stopReason[r]
    /\ \A c \in Call : StraightAt(c)

\* Where the transitions of the walk, the gate and _fail_run lead: to the state
\* the next one starts from.
LEMMA LegsJoin ==
    ASSUME TypeOK, NEW c \in Call, pc[c] \in Moving \ {"fail1_gate", "fail2_gate"},
           pc' = [pc EXCEPT ![c] = LegOf(c).then], gate' = gate
    PROVE  /\ LegOf(c).then \in DOMAIN Walk \cup {"launch", "end", "returned", "retry", "raised_launch"}
           /\ LegOf(c).then \in Moving => LegOf(c)'.from = LegOf(c).to
           /\ LegOf(c).then = "launch" => LegOf(c).to = "verify"
           /\ LegOf(c).then = "retry" => LegOf(c).to = "fix_retry"
           /\ LegOf(c).then \in {"returned", "raised_launch"} => LegOf(c).to = "advance_or_stop"
           /\ LegOf(c).then = "raised_launch" => LegOf(c).stop = TRUE
           /\ LegOf(c).then = "returned" => (LegOf(c).stop <=> gate[c] # "pass")
           /\ LegOf(c).then \notin {"returned", "raised_launch"} =>
                 LegOf(c).to \notin Terminal /\ LegOf(c).stop = FALSE
<1>1. pc'[c] = LegOf(c).then
  BY DEF TypeOK
<1>2. CASE pc[c] \in DOMAIN Walk
  <2>1. LegOf(c) = Walk[pc[c]]
    BY <1>2, WalkPlaces DEF LegOf
  <2>2. \/ pc[c] = "walk1" /\ LegOf(c).then = "walk2" /\ LegOf(c).to = Walk["walk2"].from
        \/ pc[c] = "walk2" /\ LegOf(c).then = "walk3" /\ LegOf(c).to = Walk["walk3"].from
        \/ pc[c] = "walk3" /\ LegOf(c).then = "walk4" /\ LegOf(c).to = Walk["walk4"].from
        \/ pc[c] = "walk4" /\ LegOf(c).then = "launch" /\ LegOf(c).to = "verify"
    BY <1>2, <2>1, WalkPlaces DEF Walk
  <2>3. LegOf(c).to \notin Terminal /\ LegOf(c).stop = FALSE
    BY <1>2, <2>1, WalkPlaces DEF Walk, Terminal
  <2>4. pc'[c] \in DOMAIN Walk => LegOf(c)' = Walk[pc'[c]]
    BY WalkPlaces DEF LegOf
  <2> QED BY <1>1, <2>2, <2>3, <2>4, WalkPlaces DEF Moving, Leaving
<1>3. CASE pc[c] = "gate"
  <2>1. /\ LegOf(c).to = GateStage(gate[c]) /\ LegOf(c).then = "end" /\ LegOf(c).stop = FALSE
        /\ GateStage(gate[c]) \notin Terminal
    BY <1>3, WalkPlaces DEF LegOf, GateStage, Terminal
  <2>2. LegOf(c)'.from = GateStage(gate[c])
    BY <1>1, <2>1, WalkPlaces DEF LegOf, GateStage
  <2> QED BY <2>1, <2>2
<1>4. CASE pc[c] = "end"
  BY <1>4, WalkPlaces DEF LegOf, Moving, Leaving
<1>5. CASE pc[c] = "fail1"
  BY <1>5, WalkPlaces DEF LegOf, Moving, Leaving, Terminal
<1>6. CASE pc[c] = "fail2"
  BY <1>6, WalkPlaces DEF LegOf, Moving, Leaving
<1> QED BY <1>2, <1>3, <1>4, <1>5, <1>6, WalkPlaces DEF Moving, Leaving

\* A step that neither touches a call nor its run.
LEMMA StaysStraight ==
    ASSUME NEW d \in Call, StraightAt(d), Owner(d)' => Owner(d),
           pc'[d] = pc[d], run'[d] = run[d], seen'[d] = seen[d], gate'[d] = gate[d],
           Owner(d) => path'[run[d]] = path[run[d]] /\ stopReason'[run[d]] = stopReason[run[d]],
           disturbed \subseteq disturbed'
    PROVE  StraightAt(d)'
<1>1. Owner(d)' => Owner(d) /\ Current(run[d])' = Current(run[d])
                   /\ (Terminated(run[d])' <=> Terminated(run[d]))
  BY DEF Current, Terminated
<1>2. LegOf(d)' = LegOf(d)
  BY DEF LegOf
<1> QED BY <1>1, <1>2 DEF StraightAt, Undisturbed, Owner, Current, Terminated

LEMMA OthersStayStraight ==
    ASSUME SafeInv, Straight, NEW c \in Call, NEW p \in Place, NEW v, NEW g,
           pc' = [pc EXCEPT ![c] = p], seen' = [seen EXCEPT ![c] = v],
           gate' = [gate EXCEPT ![c] = g],
           UNCHANGED run, disturbed \subseteq disturbed',
           Owner(c), \A q \in Run : q # run[c] => path'[q] = path[q] /\ stopReason'[q] = stopReason[q]
    PROVE  \A d \in Call : d # c => StraightAt(d)'
<1> SUFFICES ASSUME NEW d \in Call, d # c PROVE StraightAt(d)'
  OBVIOUS
<1>1. pc'[d] = pc[d] /\ seen'[d] = seen[d] /\ gate'[d] = gate[d] /\ run'[d] = run[d]
  BY DEF SafeInv, TypeOK
<1>2. (Owner(d)' => Owner(d)) /\ (Owner(d) => run[d] \in Run /\ run[d] # run[c])
  BY <1>1 DEF SafeInv, Owned, Owner, TypeOK
<1> QED BY <1>1, <1>2, StaysStraight DEF Straight

LEMMA CreateStraight ==
    ASSUME SafeInv, Straight, NEW c \in Call, NEW r \in Run, Create(c, r)
    PROVE  Straight'
<1> USE DEF SafeInv
<1>1. /\ pc[c] = "idle" /\ run' = [run EXCEPT ![c] = r]
      /\ UNCHANGED <<stopReason, seen, gate, disturbed>>
  BY DEF Create
<1>2. CASE path[r] = <<>> /\ path' = [path EXCEPT ![r] = <<"preflight">>]
           /\ pc' = [pc EXCEPT ![c] = "walk1"]
  <2>1. ASSUME NEW d \in Call, d # c PROVE StraightAt(d)'
    <3>1. Owner(d) => run[d] \in Run /\ run[d] # r
      BY <1>2 DEF Owned, Owner, TypeOK
    <3>2. pc'[d] = pc[d] /\ run'[d] = run[d]
      BY <1>1, <1>2, <2>1 DEF TypeOK
    <3>3. Owner(d) => path'[run[d]] = path[run[d]]
      BY <1>2, <3>1 DEF TypeOK
    <3> QED BY <1>1, <3>1, <3>2, <3>3, StaysStraight DEF Straight, Owner
  <2>2. StraightAt(c)'
    <3>1. pc'[c] = "walk1" /\ run'[c] = r /\ path'[r] = <<"preflight">>
      BY <1>1, <1>2 DEF TypeOK
    <3>2. LegOf(c)'.from = "preflight"
      BY <3>1, WalkPlaces DEF LegOf, Walk
    <3>3. ~stopReason[r]
      BY <1>2 DEF Straight
    <3>4. pc'[c] \in DOMAIN Walk /\ seen'[c] = None
      BY <1>1, <3>1, WalkPlaces DEF Straight, StraightAt, Moving, Leaving
    <3>5. Current(r)' = "preflight" /\ ~Terminated(r)'
      BY <3>1 DEF Current, Terminated, Terminal
    <3> QED BY <1>1, <3>1, <3>2, <3>3, <3>4, <3>5, WalkPlaces DEF StraightAt, Moving
  <2>3. \A q \in Run : path'[q] = <<>> => ~stopReason'[q]
    BY <1>1, <1>2 DEF Straight, TypeOK
  <2> QED BY <2>1, <2>2, <2>3 DEF Straight
<1>3. CASE path' = path /\ pc' = [pc EXCEPT ![c] = "conflict"]
  <2>1. ASSUME NEW d \in Call, d # c PROVE StraightAt(d)'
    <3>1. pc'[d] = pc[d] /\ run'[d] = run[d]
      BY <1>1, <1>3, <2>1 DEF TypeOK
    <3> QED BY <1>1, <1>3, <3>1, StaysStraight DEF Straight, Owner
  <2>2. ~Owner(c)'
    BY <1>3 DEF Owner, TypeOK
  <2>3. pc'[c] = "conflict" /\ seen'[c] = None
    BY <1>1, <1>3, WalkPlaces DEF TypeOK, Straight, StraightAt, Moving, Leaving
  <2> QED BY <1>1, <1>3, <2>1, <2>2, <2>3 DEF Straight, StraightAt, Undisturbed
<1> QED BY <1>2, <1>3 DEF Create, Goto

LEMMA ReadVersionStraight ==
    ASSUME SafeInv, Straight, NEW c \in Call, ReadVersion(c)
    PROVE  Straight'
<1>1. /\ pc[c] \in Moving /\ Owner(c)
      /\ seen' = [seen EXCEPT ![c] = Len(path[run[c]])]
      /\ UNCHANGED <<stores, pc, run, result, gate, receipt, disturbed>>
  BY WalkPlaces DEF ReadVersion, Moving, Leaving, Owner
<1>2. pc' = [pc EXCEPT ![c] = pc[c]] /\ gate' = [gate EXCEPT ![c] = gate[c]] /\ pc[c] \in Place
  BY <1>1 DEF SafeInv, TypeOK, Place
<1>3. \A d \in Call : d # c => StraightAt(d)'
  BY <1>1, <1>2, OthersStayStraight DEF stores
<1>4. StraightAt(c)'
  <2>1. LegOf(c)' = LegOf(c) /\ seen'[c] = Len(path'[run'[c]])
    BY <1>1 DEF LegOf, SafeInv, TypeOK, stores
  <2>2. StraightAt(c)
    BY DEF Straight
  <2>3. pc[c] # "idle"
    BY <1>1, WalkPlaces DEF Moving, Leaving
  <2> QED BY <1>1, <2>1, <2>2, <2>3
          DEF StraightAt, Undisturbed, Owner, Current, Terminated, stores
<1> QED BY <1>1, <1>3, <1>4 DEF Straight, stores

LEMMA MoveStraight ==
    ASSUME SafeInv, Straight, NEW c \in Call, Move(c)
    PROVE  Straight'
<1> DEFINE r == run[c]
           to == LegOf(c).to
           then == LegOf(c).then
<1>1. /\ pc[c] \in Moving
      /\ path' = [path EXCEPT ![r] = Append(@, to)]
      /\ stopReason' = [stopReason EXCEPT ![r] = @ \/ LegOf(c).stop]
      /\ pc' = [pc EXCEPT ![c] = then]
      /\ seen' = [seen EXCEPT ![c] = None]
      /\ UNCHANGED <<run, gate, disturbed>>
  BY DEF Move, Goto
<1>2. Owner(c) /\ r \in Run /\ path[r] # <<>> /\ path[r] \in Seq(LaneState)
  BY <1>1, WalkPlaces DEF Moving, Leaving, Owner, Owned, TypeOK, SafeInv
<1>3. to \in LaneState /\ LegOf(c).stop \in BOOLEAN /\ then \in Place
  BY <1>1, LegFacts
<1>4. /\ path'[r] = Append(path[r], to) /\ path'[r] # <<>> /\ Current(r)' = to
      /\ \A q \in Run : q # r => path'[q] = path[q] /\ stopReason'[q] = stopReason[q]
      /\ stopReason'[r] = (stopReason[r] \/ LegOf(c).stop)
  <2>1. path'[r] = Append(path[r], to)
    BY <1>1, <1>2 DEF SafeInv, TypeOK
  <2>2. path'[r] # <<>> /\ Current(r)' = to
    BY <1>1, <1>2, <1>3, <2>1, LongerPath DEF Current
  <2> QED BY <1>1, <1>2, <2>1, <2>2 DEF SafeInv, TypeOK
<1>5. \A d \in Call : d # c => StraightAt(d)'
  <2>1. gate' = [gate EXCEPT ![c] = gate[c]]
    BY <1>1 DEF SafeInv, TypeOK
  <2> HIDE DEF to, then
  <2> QED BY <1>1, <1>2, <1>3, <1>4, <2>1, OthersStayStraight
<1>6. StraightAt(c)'
  <2>0. pc'[c] = then /\ seen'[c] = None
    BY <1>1 DEF SafeInv, TypeOK
  <2> SUFFICES ASSUME Undisturbed(c)' PROVE StraightAt(c)'
    BY <2>0 DEF StraightAt
  <2>1. Undisturbed(c) /\ StraightAt(c)
    BY <1>1, <1>2 DEF Undisturbed, Straight
  <2>2. pc[c] \in Moving \ {"fail1_gate", "fail2_gate"} /\ ~stopReason[r]
    BY <1>1, <2>1, WalkPlaces DEF StraightAt, Moving, Leaving
  <2>3. /\ then \in DOMAIN Walk \cup {"launch", "end", "returned", "retry", "raised_launch"}
        /\ then \in Moving => LegOf(c)'.from = to
        /\ then = "launch" => to = "verify"
        /\ then = "retry" => to = "fix_retry"
        /\ then \in {"returned", "raised_launch"} => to = "advance_or_stop"
        /\ then = "raised_launch" => LegOf(c).stop = TRUE
        /\ then = "returned" => (LegOf(c).stop <=> gate[c] # "pass")
        /\ then \notin {"returned", "raised_launch"} => to \notin Terminal /\ LegOf(c).stop = FALSE
    BY <1>1, <2>2, LegsJoin DEF SafeInv
  <2>4. then = "raised_launch" => gate[c] # "pass"
    BY <1>1, LegFacts, NoneAssumption DEF SafeInv, Stages, Gate
  <2>5. pc'[c] = then /\ seen'[c] = None
    BY <1>1 DEF SafeInv, TypeOK
  <2>6. Terminated(r)' <=> to \in Terminal
    BY <1>1, <1>4 DEF Terminated, r
  <2> HIDE DEF to, then
  <2>7. stopReason'[r] <=> LegOf(c).stop
    BY <1>4, <2>2
  <2> QED BY <1>1, <1>4, <2>3, <2>4, <2>5, <2>6, <2>7, WalkPlaces DEF StraightAt, Terminal
<1>7. \A q \in Run : path'[q] = <<>> => ~stopReason'[q]
  BY <1>4 DEF Straight
<1> QED BY <1>5, <1>6, <1>7 DEF Straight

\* A step of a call that leaves the run where it is.
LEMMA OwnStep ==
    ASSUME SafeInv, Straight, NEW c \in Call, NEW p \in Place, NEW v, NEW g,
           pc' = [pc EXCEPT ![c] = p], seen' = [seen EXCEPT ![c] = v],
           gate' = [gate EXCEPT ![c] = g],
           UNCHANGED <<path, stopReason, run>>, disturbed \subseteq disturbed',
           Owner(c), StraightAt(c)'
    PROVE  Straight'
<1>1. \A d \in Call : d # c => StraightAt(d)'
  BY OthersStayStraight
<1> QED BY <1>1 DEF Straight

\* Calls that raise late, or die, leave the run where it is.
LEMMA GivingUpStraight ==
    ASSUME SafeInv, Straight, NEW c \in Call,
           MoveRaises(c) \/ LateStageRaises(c) \/ Crash(c)
    PROVE  Straight'
<1>1. PICK p \in {"raised_walk", "fail_gate", "raised_launch", "raised_gate", "raised_late", "crashed"} :
         /\ pc' = [pc EXCEPT ![c] = p]
         /\ p = "crashed" \/ seen'[c] = None
         /\ \/ run[c] \in disturbed'
            \/ p = "raised_late" /\ pc[c] \in {"raw", "journal", "evidence", "assess"}
            \/ p = "crashed" /\ pc[c] \notin {"returned", "raised_launch"}
  <2>1. CASE MoveRaises(c)
    <3>1. OnRaise(c) \in {"raised_walk", "fail_gate", "raised_launch", "raised_gate"}
      BY DEF OnRaise
    <3>2. /\ run[c] \in disturbed' /\ pc' = [pc EXCEPT ![c] = OnRaise(c)]
          /\ seen'[c] = None
      BY <2>1 DEF MoveRaises, Goto, SafeInv, TypeOK
    <3> QED BY <3>1, <3>2
  <2>2. CASE LateStageRaises(c)
    BY <2>2, WalkPlaces DEF LateStageRaises, Goto, Straight, StraightAt, Moving, Leaving
  <2>3. CASE Crash(c)
    BY <2>3 DEF Crash, Goto, Raised
  <2> QED BY <2>1, <2>2, <2>3
<1>2. /\ UNCHANGED <<path, stopReason, run, gate>> /\ disturbed \subseteq disturbed'
      /\ pc[c] \notin {"idle", "conflict"}
  BY WalkPlaces DEF MoveRaises, LateStageRaises, Crash, Raised, stores, Moving, Leaving
<1>3. PICK v : seen' = [seen EXCEPT ![c] = v]
  <2>1. seen' = seen => seen' = [seen EXCEPT ![c] = seen[c]]
    BY DEF SafeInv, TypeOK
  <2> QED BY <2>1 DEF MoveRaises, LateStageRaises, Crash
<1>4. gate' = [gate EXCEPT ![c] = gate[c]] /\ p \in Place
  BY <1>2 DEF SafeInv, TypeOK, Place, Raised
<1>5. pc'[c] = p /\ run'[c] = run[c]
  BY <1>1, <1>2 DEF SafeInv, TypeOK
<1>6. StraightAt(c)'
  <2>0. p \notin Moving \cup {"crashed"} => seen'[c] = None
    BY <1>1
  <2>1. CASE run[c] \in disturbed'
    BY <1>5, <2>0, <2>1 DEF StraightAt, Undisturbed
  <2>2. CASE \/ p = "raised_late" /\ pc[c] \in {"raw", "journal", "evidence", "assess"}
             \/ p = "crashed" /\ pc[c] \notin {"returned", "raised_launch"}
    <3>1. Undisturbed(c)' => /\ ~Terminated(run[c]) /\ ~stopReason[run[c]]
                             /\ p = "raised_late" => Current(run[c]) = "verify"
      BY <1>2, <1>5, <2>2 DEF Undisturbed, Owner, Straight, StraightAt
    <3>2. Undisturbed(c)' => /\ ~Terminated(run[c])' /\ ~stopReason'[run[c]]
                             /\ p = "raised_late" => Current(run[c])' = "verify"
      BY <1>2, <3>1 DEF Terminated, Current
    <3> QED BY <1>5, <2>0, <2>2, <3>2, WalkPlaces DEF StraightAt, Moving, Leaving
  <2> QED BY <1>1, <2>1, <2>2
<1> QED BY <1>1, <1>2, <1>3, <1>4, <1>6, OwnStep DEF Owner

LEMMA WorkStraight ==
    ASSUME SafeInv, Straight, NEW c \in Call, NEW p \in Place, NEW g,
           pc' = [pc EXCEPT ![c] = p], gate' = [gate EXCEPT ![c] = g],
           UNCHANGED <<path, stopReason, run, seen, disturbed>>,
           \/ pc[c] = "launch" /\ p \in {"raw", "fail"}
           \/ <<pc[c], p>> \in {<<"raw", "journal">>, <<"journal", "evidence">>,
                                <<"evidence", "assess">>, <<"assess", "gate">>}
    PROVE  Straight'
<1>1. /\ Owner(c) /\ pc'[c] = p /\ run'[c] = run[c] /\ seen'[c] = seen[c]
      /\ seen' = [seen EXCEPT ![c] = seen[c]]
  BY DEF SafeInv, TypeOK, Owner
<1>2. Undisturbed(c) =>
         Current(run[c]) = "verify" /\ ~Terminated(run[c]) /\ ~stopReason[run[c]]
  BY DEF Straight, StraightAt
<1>3. seen[c] = None
  BY WalkPlaces DEF Straight, StraightAt, Moving, Leaving
<1>4. p = "gate" => LegOf(c)'.from = "verify"
  BY <1>1, WalkPlaces DEF LegOf
<1>5. StraightAt(c)'
  <2>1. Undisturbed(c)' => Undisturbed(c)
    BY <1>1 DEF Undisturbed
  <2>2. Current(run[c])' = Current(run[c]) /\ Terminated(run[c])' = Terminated(run[c])
    BY DEF Current, Terminated
  <2> QED BY <1>1, <1>2, <1>3, <1>4, <2>1, <2>2, WalkPlaces
          DEF StraightAt, Moving, Leaving
<1> QED BY <1>1, <1>5, OwnStep

\* _fail_run finds the run of an undisturbed call where the launch left it, and
\* then where its own first transition took it.
LEMMA FailingStraight ==
    ASSUME SafeInv, Straight, NEW c \in Call, FailRun(c) \/ RetryRead(c)
    PROVE  Straight'
<1>1. /\ pc[c] \in {"fail", "fail_gate", "retry", "retry_gate"} /\ Owner(c)
      /\ UNCHANGED <<path, stopReason, run, gate, disturbed>>
      /\ seen[c] = None
  BY WalkPlaces DEF FailRun, RetryRead, stores, Owner, Straight, StraightAt, Moving, Leaving
<1>2. Len(path[run[c]]) \in Nat
  <2>1. path[run[c]] \in Seq(LaneState)
    BY <1>1 DEF SafeInv, TypeOK, Owned, Owner
  <2> QED BY <2>1
<1>3. PICK p \in Place \ {"idle", "conflict"}, v \in Nat \cup {None} :
         /\ pc' = [pc EXCEPT ![c] = p] /\ seen' = [seen EXCEPT ![c] = v]
         /\ p \notin Moving => v = None
         /\ pc[c] = "fail" /\ Current(run[c]) = "verify" => p = "fail1" /\ v = Len(path[run[c]])
         /\ pc[c] = "retry" /\ Current(run[c]) = "fix_retry" => p = "fail2" /\ v = Len(path[run[c]])
  <2>1. CASE FailRun(c)
    <3>1. CASE Current(run[c]) = "verify"
      BY <1>2, <2>1, <3>1, WalkPlaces DEF FailRun, Goto, Place, Moving, Leaving
    <3>2. CASE Current(run[c]) = "fix_retry"
      BY <1>2, <2>1, <3>2, WalkPlaces DEF FailRun, Goto, Place, Moving, Leaving
    <3>3. CASE Current(run[c]) \notin {"verify", "fix_retry"}
      BY <1>2, <2>1, <3>3, WalkPlaces DEF FailRun, Goto, Place, Moving, Leaving, Raised
    <3> QED BY <3>1, <3>2, <3>3
  <2>2. CASE RetryRead(c)
    <3>1. CASE Current(run[c]) = "fix_retry"
      BY <1>2, <2>2, <3>1, WalkPlaces DEF RetryRead, Goto, Place, Moving, Leaving
    <3>2. CASE Current(run[c]) # "fix_retry"
      <4>1. seen' = [seen EXCEPT ![c] = None]
        BY <1>1, <2>2, <3>2 DEF RetryRead, SafeInv, TypeOK
      <4> QED BY <2>2, <3>2, <4>1, WalkPlaces DEF RetryRead, Goto, Place, Moving, Leaving, Raised
    <3> QED BY <3>1, <3>2
  <2> QED BY <2>1, <2>2
<1>4. /\ pc'[c] = p /\ seen'[c] = v /\ run'[c] = run[c] /\ path'[run[c]] = path[run[c]]
      /\ gate' = [gate EXCEPT ![c] = gate[c]]
  BY <1>1, <1>3 DEF SafeInv, TypeOK
<1>5. Undisturbed(c) =>
         /\ \/ p = "fail1" /\ Current(run[c]) = "verify"
            \/ p = "fail2" /\ Current(run[c]) = "fix_retry"
         /\ v = Len(path[run[c]])
         /\ ~Terminated(run[c]) /\ ~stopReason[run[c]]
  <2>1. Undisturbed(c) =>
           /\ \/ pc[c] = "fail" /\ Current(run[c]) = "verify"
              \/ pc[c] = "retry" /\ Current(run[c]) = "fix_retry"
           /\ ~Terminated(run[c]) /\ ~stopReason[run[c]]
    BY <1>1 DEF Straight, StraightAt
  <2> QED BY <1>3, <2>1
<1>6. StraightAt(c)'
  <2>1. Undisturbed(c)' => Undisturbed(c)
    BY <1>1, <1>4 DEF Undisturbed
  <2>2. Current(run[c])' = Current(run[c]) /\ (Terminated(run[c])' <=> Terminated(run[c]))
        /\ (stopReason'[run[c]] <=> stopReason[run[c]])
    BY <1>1, <1>4 DEF Current, Terminated
  <2>3. /\ p = "fail1" => LegOf(c)'.from = "verify"
        /\ p = "fail2" => LegOf(c)'.from = "fix_retry"
    BY <1>4, WalkPlaces DEF LegOf
  <2>4. p \notin Moving \cup {"crashed"} => seen'[c] = None
    BY <1>3, <1>4
  <2> QED BY <1>1, <1>4, <1>5, <2>1, <2>2, <2>3, <2>4, WalkPlaces
          DEF StraightAt, Moving, Leaving
<1> QED BY <1>1, <1>3, <1>4, <1>6, OwnStep

LEMMA OtherWriterStraight ==
    ASSUME SafeInv, Straight, NEW r \in Run, NEW to \in LaneState, OtherWriter(r, to)
    PROVE  Straight'
<1>1. /\ path[r] # <<>> /\ path' = [path EXCEPT ![r] = Append(@, to)]
      /\ disturbed' = disturbed \cup {r}
      /\ UNCHANGED <<stopReason, pc, run, seen, gate>>
  BY DEF OtherWriter
<1>2. \A q \in Run : q # r => path'[q] = path[q]
  BY <1>1 DEF SafeInv, TypeOK
<1>3. ASSUME NEW d \in Call PROVE StraightAt(d)'
  <2>1. CASE run[d] = r
    BY <1>1, <2>1 DEF Straight, StraightAt, Undisturbed
  <2>2. CASE run[d] # r
    <3>1. Owner(d) => run[d] \in Run
      BY DEF SafeInv, Owned, Owner, TypeOK
    <3>2. Owner(d) => path'[run[d]] = path[run[d]] /\ stopReason'[run[d]] = stopReason[run[d]]
      BY <1>1, <1>2, <2>2, <3>1
    <3>3. Owner(d)' => Owner(d)
      BY <1>1 DEF Owner
    <3> QED BY <1>1, <3>2, <3>3, StaysStraight DEF Straight
  <2> QED BY <2>1, <2>2
<1>4. \A q \in Run : path'[q] = <<>> => ~stopReason'[q]
  BY <1>1, <1>2 DEF Straight
<1> QED BY <1>3, <1>4 DEF Straight

LEMMA InitStraight == Init => Straight
BY WalkPlaces DEF Init, Straight, StraightAt, Undisturbed, Owner

LEMMA StraightInductive == SafeInv /\ Straight /\ [Next]_vars => Straight'
<1> SUFFICES ASSUME SafeInv, Straight, [Next]_vars PROVE Straight'
  OBVIOUS
<1>1. CASE UNCHANGED vars
  <2>1. ASSUME NEW d \in Call PROVE StraightAt(d)'
    <3>1. Owner(d)' => Owner(d)
      BY <1>1 DEF vars, Owner
    <3> QED BY <1>1, <3>1, StaysStraight DEF vars, stores, Straight
  <2> QED BY <1>1, <2>1 DEF vars, stores, Straight
<1>2. ASSUME NEW c \in Call, NEW res \in Result, Launch(c, res) PROVE Straight'
  <2>1. gate' = [gate EXCEPT ![c] = gate[c]] /\ "raw" \in Place
    BY <1>2 DEF Launch, SafeInv, TypeOK, Place
  <2> QED BY <1>2, <2>1, WorkStraight DEF Launch, Goto
<1>3. ASSUME NEW c \in Call, LaunchRaises(c) PROVE Straight'
  <2>1. gate' = [gate EXCEPT ![c] = gate[c]] /\ "fail" \in Place
    BY <1>3 DEF LaunchRaises, SafeInv, TypeOK, Place
  <2> QED BY <1>3, <2>1, WorkStraight DEF LaunchRaises, Goto, stores
<1>4. ASSUME NEW c \in Call, PutRaw(c) \/ AppendJournal(c) \/ SaveEvidence(c) PROVE Straight'
  <2>1. gate' = [gate EXCEPT ![c] = gate[c]] /\ {"journal", "evidence", "assess"} \subseteq Place
    BY <1>4 DEF PutRaw, AppendJournal, SaveEvidence, SafeInv, TypeOK, Place
  <2>2. CASE PutRaw(c)
    BY <2>1, <2>2, WorkStraight DEF PutRaw, Goto
  <2>3. CASE AppendJournal(c)
    BY <2>1, <2>3, WorkStraight DEF AppendJournal, Goto
  <2>4. CASE SaveEvidence(c)
    BY <2>1, <2>4, WorkStraight DEF SaveEvidence, Goto
  <2> QED BY <1>4, <2>2, <2>3, <2>4
<1>5. ASSUME NEW c \in Call, NEW check \in BOOLEAN, Assess(c, check) PROVE Straight'
  <2>1. "gate" \in Place
    BY DEF Place, Moving
  <2> QED BY <1>5, <2>1, WorkStraight DEF Assess, Goto, stores
<1>6. CASE Next
  BY <1>2, <1>3, <1>4, <1>5, <1>6, CreateStraight, ReadVersionStraight, MoveStraight,
     GivingUpStraight, FailingStraight, OtherWriterStraight DEF Next
<1> QED BY <1>1, <1>6

\* A call that nobody disturbs leaves a terminal run behind when it returns or
\* cannot launch its worker, and one in verify when it raises between the launch and
\* the gate; its walk and its gate never raise, and the stop reason of the run tells
\* whether it passed.
THEOREM NoRunDangles == Spec => []NoDanglingRun
<1>1. SafeInv /\ Straight => NoDanglingRun
  <2> SUFFICES ASSUME SafeInv, Straight, NEW c \in Call,
                      run[c] # None, run[c] \notin disturbed, pc[c] # "conflict"
               PROVE  /\ pc[c] \in {"returned", "raised_launch"} => Terminated(run[c])
                      /\ pc[c] \notin {"raised_walk", "raised_gate"}
                      /\ pc[c] = "raised_late" =>
                            Current(run[c]) = "verify" /\ ~stopReason[run[c]]
                      /\ Terminated(run[c]) => (stopReason[run[c]] <=> gate[c] # "pass")
    BY DEF NoDanglingRun
  <2>1. Undisturbed(c)
    BY DEF Undisturbed, Owner, SafeInv, Owned
  <2> QED BY <2>1 DEF Straight, StraightAt
<1>2. Spec => []Straight
  BY InitStraight, StraightInductive, SafeInvariant, PTL DEF Spec
<1> QED BY <1>1, <1>2, SafeInvariant, PTL

-----------------------------------------------------------------------------
(***************************************************************************)
(* The run table stays the history that RunStore implements.               *)
(***************************************************************************)
LEMMA SameStates ==
    /\ History!State = State
    /\ \A s : History!LegalTransitions(s) = LegalTransitions(s)
BY DEF History!State, History!LaneState, History!SandboxState,
       History!LegalTransitions, History!LaneSuccessors, History!SandboxSuccessors,
       State, LaneState, SandboxState, LegalTransitions, LaneSuccessors, SandboxSuccessors

LEMMA LaneSteps ==
    /\ "batch_selection" \in LegalTransitions("preflight")
    /\ "lane_plan" \in LegalTransitions("batch_selection")
    /\ "implement" \in LegalTransitions("lane_plan")
    /\ "verify" \in LegalTransitions("implement")
    /\ {"review_gate", "fix_retry"} \subseteq LegalTransitions("verify")
    /\ "advance_or_stop" \in LegalTransitions("review_gate")
    /\ "advance_or_stop" \in LegalTransitions("fix_retry")
BY DEF LegalTransitions, LaneState, LaneSuccessors

\* No call asks the store for a transition it would refuse as illegal.
LEMMA LegIsLegal ==
    ASSUME NEW c \in Call, pc[c] \in Moving
    PROVE  LegOf(c).to \in LegalTransitions(LegOf(c).from)
<1>1. CASE pc[c] \in DOMAIN Walk
  <2>1. LegOf(c) = Walk[pc[c]]
    BY <1>1, WalkPlaces DEF LegOf
  <2>2. /\ Walk["walk1"].from = "preflight" /\ Walk["walk1"].to = "batch_selection"
        /\ Walk["walk2"].from = "batch_selection" /\ Walk["walk2"].to = "lane_plan"
        /\ Walk["walk3"].from = "lane_plan" /\ Walk["walk3"].to = "implement"
        /\ Walk["walk4"].from = "implement" /\ Walk["walk4"].to = "verify"
    BY DEF Walk
  <2> QED BY <1>1, <2>1, <2>2, WalkPlaces, LaneSteps
<1>2. CASE pc[c] = "gate"
  BY <1>2, WalkPlaces, LaneSteps DEF LegOf, GateStage
<1>3. CASE pc[c] = "end"
  BY <1>3, WalkPlaces, LaneSteps DEF LegOf, GateStage
<1>4. CASE pc[c] \in {"fail1", "fail1_gate"}
  BY <1>4, WalkPlaces, LaneSteps DEF LegOf
<1>5. CASE pc[c] \in {"fail2", "fail2_gate"}
  BY <1>5, WalkPlaces, LaneSteps DEF LegOf
<1> QED BY <1>1, <1>2, <1>3, <1>4, <1>5 DEF Moving, Leaving

Silent == [r \in Run |-> <<>>]

LEMMA LongerHistory ==
    ASSUME NEW r \in Run, NEW to \in LaneState, path[r] # <<>>,
           to \in LegalTransitions(Current(r)),
           path' = [path EXCEPT ![r] = Append(@, to)]
    PROVE  History!Next
<1>1. /\ to \in History!State
      /\ to \in History!LegalTransitions(path[r][Len(path[r])])
  BY SameStates DEF State, Current
<1>2. History!Advance(r, to, FALSE)
  BY <1>1 DEF History!Advance
<1> QED BY <1>1, <1>2 DEF History!Next

LEMMA ServiceStep ==
    ASSUME SafeInv, [Next]_vars
    PROVE  [History!Next]_<<path, Silent>>
<1>1. Silent' = Silent
  BY DEF Silent
<1>2. CASE path' = path
  BY <1>1, <1>2
<1>3. ASSUME NEW c \in Call, NEW r \in Run, Create(c, r), path' # path
      PROVE  History!Next
  <2>1. path[r] = <<>> /\ path' = [path EXCEPT ![r] = <<"preflight">>]
    BY <1>3 DEF Create
  <2>2. History!Begin(r, "preflight")
    BY <2>1 DEF History!Begin
  <2> QED BY <2>2 DEF History!Next
<1>4. ASSUME NEW c \in Call, Move(c)
      PROVE  History!Next
  <2>1. pc[c] \in Moving /\ Current(run[c]) = LegOf(c).from
        /\ path' = [path EXCEPT ![run[c]] = Append(@, LegOf(c).to)]
    BY <1>4 DEF Move, Matches
  <2>2. pc[c] # "idle"
    BY <2>1, WalkPlaces DEF Moving, Leaving
  <2>3. run[c] \in Run /\ path[run[c]] # <<>>
    BY <2>2 DEF SafeInv, Owned, TypeOK
  <2>4. LegOf(c).to \in LaneState /\ LegOf(c).to \in LegalTransitions(Current(run[c]))
    BY <2>1, LegFacts, LegIsLegal
  <2> QED BY <2>1, <2>3, <2>4, LongerHistory
<1>5. ASSUME NEW r \in Run, NEW to \in LaneState, OtherWriter(r, to)
      PROVE  History!Next
  BY <1>5, LongerHistory DEF OtherWriter
<1>6. path' = path \/ (\E c \in Call : Move(c) \/ \E r \in Run : Create(c, r))
                   \/ (\E r \in Run, to \in LaneState : OtherWriter(r, to))
  BY DEF Next, vars, stores, ReadVersion, MoveRaises, Launch, LaunchRaises, FailRun, RetryRead,
         PutRaw, AppendJournal, SaveEvidence, Assess, LateStageRaises, Crash
<1> QED BY <1>2, <1>3, <1>4, <1>5, <1>6

\* Whatever fails, the calls of execute and the other writers together keep the run
\* table a history: each run begins in preflight and moves by legal transitions only.
THEOREM ServiceKeepsHistory == Spec => KeepsHistory
<1>1. Init => History!Init
  BY DEF Init, History!Init
<1>2. SafeInv /\ [Next]_vars => [History!Next]_<<path, Silent>>
  BY ServiceStep
<1> QED BY <1>1, <1>2, SafeInvariant, PTL DEF Spec, KeepsHistory, History!Spec, Silent
================================================================================
