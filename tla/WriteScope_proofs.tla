------------------------- MODULE WriteScope_proofs -------------------------
(***************************************************************************)
(* Theorems about WriteScope for every set of runs, ids and paths, every   *)
(* lease length and every clock bound.                                     *)
(***************************************************************************)
EXTENDS WriteScope, TLAPS

\* paths_overlap treats its arguments alike.
LEMMA OverlapSymmetric ==
    ASSUME NEW a, NEW b, PathsOverlap(a, b)
    PROVE  PathsOverlap(b, a)
BY DEF PathsOverlap

\* A row that is held exists, and is a record of the table.
LEMMA HeldRow ==
    ASSUME TypeOK, NEW c \in ClaimId, Exists(c)
    PROVE  claims[c] \in Row
BY DEF TypeOK, Exists

\* Types: preserved by every step.
THEOREM TypeCorrect == Spec => []TypeOK
<1>1. Init => TypeOK
  BY MaxTimeAssumption, IdleAssumption DEF Init, TypeOK, Time
<1>2. TypeOK /\ [Next]_vars => TypeOK'
  <2> SUFFICES ASSUME TypeOK, [Next]_vars PROVE TypeOK'
    OBVIOUS
  <2> USE MaxTimeAssumption, TtlAssumption, IdleAssumption
  <2>1. CASE Tick
    BY <2>1 DEF TypeOK, Tick, Time
  <2>2. CASE OrphanScan
    BY <2>2 DEF TypeOK, OrphanScan, Orphans
  <2>3. CASE OrphanRelease
    <3>1. claims' \in [ClaimId -> Row \cup {NoRow}]
      BY <2>3 DEF TypeOK, OrphanRelease, Void, Exists, Row
    <3>2. QED
      BY <2>3, <3>1 DEF TypeOK, OrphanRelease
  <2>4. ASSUME NEW r \in Run, RegisterRun(r) PROVE TypeOK'
    BY <2>4 DEF TypeOK, RegisterRun
  <2>5. ASSUME NEW r \in Run, ReadClock(r) PROVE TypeOK'
    BY <2>5 DEF TypeOK, ReadClock, Time
  <2>6. ASSUME NEW r \in Run, Restart(r) PROVE TypeOK'
    BY <2>6 DEF TypeOK, Restart
  <2>7. ASSUME NEW r \in Run, NEW scope \in Scopes, ClaimRejected(r, scope)
        PROVE TypeOK'
    BY <2>7 DEF TypeOK, ClaimRejected, Finish
  <2>8. ASSUME NEW r \in Run, NEW scope \in Scopes, NEW ttl \in Ttl, Claim(r, scope, ttl)
        PROVE TypeOK'
    <3>1. stamp[r] \in Time /\ ttl \in Nat
      BY <2>8 DEF TypeOK, Claim
    <3>2. PICK C \in SUBSET ClaimId : scope \in [C -> Path]
      BY DEF Scopes
    <3>3. claims' \in [ClaimId -> Row \cup {NoRow}]
      BY <2>8, <3>1, <3>2 DEF TypeOK, Claim, Row, Time
    <3>4. QED
      BY <2>8, <3>2, <3>3 DEF TypeOK, Claim, Finish
  <2>9. ASSUME NEW r \in Run, NEW c \in ClaimId, HeartbeatLost(r, c) PROVE TypeOK'
    BY <2>9 DEF TypeOK, HeartbeatLost, Finish
  <2>10. ASSUME NEW r \in Run, NEW c \in ClaimId, TakeoverRefused(r, c) PROVE TypeOK'
    BY <2>10 DEF TypeOK, TakeoverRefused, Finish
  <2>11. ASSUME NEW r \in Run, NEW c \in ClaimId, Release(r, c) PROVE TypeOK'
    <3>1. claims' \in [ClaimId -> Row \cup {NoRow}]
      BY <2>11 DEF TypeOK, Release, Void, Exists, Row
    <3>2. QED
      BY <2>11, <3>1 DEF TypeOK, Release
  <2>12. ASSUME NEW r \in Run, NEW c \in ClaimId, NEW ttl \in Ttl, Heartbeat(r, c, ttl)
         PROVE TypeOK'
    <3>1. stamp[r] + ttl \in Nat
      BY <2>12 DEF TypeOK, Heartbeat, Time
    <3>2. claims' \in [ClaimId -> Row \cup {NoRow}]
      BY <2>12, <3>1, HeldRow DEF TypeOK, Heartbeat, Held, Row
    <3>3. QED
      BY <2>12, <3>2 DEF TypeOK, Heartbeat, Finish
  <2>13. ASSUME NEW r \in Run, NEW c \in ClaimId, NEW ttl \in Ttl, TryTakeover(r, c, ttl)
         PROVE TypeOK'
    <3>1. stamp[r] + ttl \in Nat
      BY <2>13 DEF TypeOK, TryTakeover, Time
    <3>2. claims' \in [ClaimId -> Row \cup {NoRow}]
      BY <2>13, <3>1, HeldRow DEF TypeOK, TryTakeover, TakeoverAllowed, Row
    <3>3. QED
      BY <2>13, <3>2 DEF TypeOK, TryTakeover, Finish
  <2>14. CASE UNCHANGED vars
    BY <2>14 DEF TypeOK, vars
  <2>15. QED
    BY <2>1, <2>2, <2>3, <2>4, <2>5, <2>6, <2>7, <2>8, <2>9, <2>10, <2>11,
       <2>12, <2>13, <2>14 DEF Next
<1>3. QED
  BY <1>1, <1>2, PTL DEF Spec

-----------------------------------------------------------------------------
\* What makes the clash invariant inductive: a claim live after a step was live
\* before it with the same run and path, or the step created it free of
\* conflicts, or the step revived it.
THEOREM RevivalOnly == Spec => []ClashOnlyByRevival
<1>1. Init => ClashOnlyByRevival
  BY DEF Init, ClashOnlyByRevival, Clash, Live, LiveAt, Held, Exists
<1>2. TypeOK /\ ClashOnlyByRevival /\ [Next]_vars => ClashOnlyByRevival'
  <2> SUFFICES ASSUME TypeOK, ClashOnlyByRevival, [Next]_vars,
                      NEW c \in ClaimId, NEW d \in ClaimId, Clash(c, d)',
                      c \notin revived', d \notin revived'
               PROVE  FALSE
    BY DEF ClashOnlyByRevival
  <2> DEFINE Kept(x) == /\ Live(x)
                        /\ claims'[x].run = claims[x].run
                        /\ claims'[x].path = claims[x].path
                        /\ (x \in revived => x \in revived')
  \* Nobody but a claimant needs more than this.
  <2>0. Kept(c) /\ Kept(d) => FALSE
    BY DEF Clash, ClashOnlyByRevival
  <2>1. ASSUME NEW r \in Run, NEW scope \in Scopes, NEW ttl \in Ttl, Claim(r, scope, ttl)
        PROVE FALSE
    <3>1. PICK C \in SUBSET ClaimId : scope \in [C -> Path]
      BY DEF Scopes
    <3>2. ASSUME NEW x \in ClaimId, Live(x)', x \notin C PROVE Kept(x)
      BY <2>1, <3>1, <3>2 DEF Claim, Live, LiveAt, Held, Exists
    <3>3. ASSUME NEW x \in C, NEW y \in ClaimId, y \notin C, Live(y)'
          PROVE ~PathsOverlap(claims'[x].path, claims'[y].path)
      <4>1. Kept(y)
        BY <3>2, <3>3
      <4>2. stamp[r] \in Nat /\ now \in Nat /\ stamp[r] <= now
        BY <2>1 DEF TypeOK, Claim, Time
      <4>3. claims[y].lease \in Nat
        BY <4>1, HeldRow DEF Live, LiveAt, Held, Row
      <4>4. LiveAt(y, stamp[r])
        BY <4>1, <4>2, <4>3 DEF Live, LiveAt
      <4>5. y \notin Conflicts(stamp[r], scope[x])
        BY <2>1, <3>1 DEF Claim
      <4>6. QED
        BY <2>1, <3>1, <4>1, <4>4, <4>5 DEF Claim, Conflicts
    <3>4. CASE c \in C /\ d \in C
      BY <2>1, <3>1, <3>4 DEF Claim, Clash
    <3>5. CASE c \in C /\ d \notin C
      BY <3>3, <3>5 DEF Clash
    <3>6. CASE c \notin C /\ d \in C
      BY <3>3, <3>6, OverlapSymmetric DEF Clash
    <3>7. CASE c \notin C /\ d \notin C
      BY <2>0, <3>2, <3>7 DEF Clash
    <3>8. QED
      BY <3>4, <3>5, <3>6, <3>7
  <2>2. ASSUME NEW x \in ClaimId, Live(x)', x \notin revived',
               ~ \E r \in Run, scope \in Scopes, ttl \in Ttl : Claim(r, scope, ttl)
        PROVE Kept(x)
    <3>1. CASE Tick
      <4>1. claims' = claims /\ revived' = revived /\ now' = now + 1 /\ now \in Nat
        BY <3>1 DEF Tick, TypeOK, Time
      <4>2. claims[x].lease \in Nat
        BY <2>2, <4>1, HeldRow DEF Live, LiveAt, Held, Row, Exists
      <4>3. QED
        BY <2>2, <4>1, <4>2 DEF Live, LiveAt, Held, Exists
    <3>2. CASE \/ OrphanScan
               \/ UNCHANGED vars
               \/ \E r \in Run : RegisterRun(r) \/ ReadClock(r) \/ Restart(r)
               \/ \E r \in Run, scope \in Scopes : ClaimRejected(r, scope)
               \/ \E r \in Run, y \in ClaimId : HeartbeatLost(r, y) \/ TakeoverRefused(r, y)
      <4>1. claims' = claims /\ revived' = revived /\ now' = now
        BY <3>2 DEF OrphanScan, vars, RegisterRun, ReadClock, Restart, ClaimRejected,
                    HeartbeatLost, TakeoverRefused
      <4>2. QED
        BY <2>2, <4>1 DEF Live, LiveAt, Held, Exists
    <3>3. CASE OrphanRelease
      <4>1. claims' = [y \in ClaimId |-> IF y \in scan /\ Exists(y)
                                         THEN [claims[y] EXCEPT !.released = TRUE]
                                         ELSE claims[y]]
            /\ now' = now /\ revived' = revived \ scan
        BY <3>3 DEF OrphanRelease, Void
      <4>2. QED
        BY <2>2, <4>1, HeldRow DEF Live, LiveAt, Held, Exists, Row
    <3>4. ASSUME NEW r \in Run, NEW y \in ClaimId, Release(r, y) PROVE Kept(x)
      <4>1. claims' = [z \in ClaimId |-> IF z \in {y} /\ Exists(z)
                                         THEN [claims[z] EXCEPT !.released = TRUE]
                                         ELSE claims[z]]
            /\ now' = now /\ revived' = revived \ {y}
        BY <3>4 DEF Release, Void
      <4>2. QED
        BY <2>2, <4>1, HeldRow DEF Live, LiveAt, Held, Exists, Row
    <3>5. ASSUME NEW r \in Run, NEW y \in ClaimId, NEW ttl \in Ttl, Heartbeat(r, y, ttl)
          PROVE Kept(x)
      <4>1. claims' = [claims EXCEPT ![y].lease = stamp[r] + ttl] /\ now' = now
            /\ Held(y)
            /\ revived' = IF Live(y) THEN revived ELSE revived \cup {y}
        BY <3>5 DEF Heartbeat
      <4>2. CASE x = y
        <5>1. Live(y) /\ revived' = revived
          BY <2>2, <4>1, <4>2
        <5>2. claims[y] \in Row
          BY <4>1, HeldRow DEF Held
        <5>3. claims'[y] = [claims[y] EXCEPT !.lease = stamp[r] + ttl]
          BY <4>1 DEF TypeOK
        <5>4. QED
          BY <4>2, <5>1, <5>2, <5>3 DEF Row
      <4>3. CASE x # y
        BY <2>2, <4>1, <4>3 DEF Live, LiveAt, Held, Exists, TypeOK
      <4>4. QED
        BY <4>2, <4>3
    <3>6. ASSUME NEW r \in Run, NEW y \in ClaimId, NEW ttl \in Ttl, TryTakeover(r, y, ttl)
          PROVE Kept(x)
      <4>1. x # y /\ now' = now /\ revived' = revived \cup {y}
        BY <2>2, <3>6 DEF TryTakeover
      <4>2. claims'[x] = claims[x]
        BY <3>6, <4>1 DEF TryTakeover, TypeOK
      <4>3. QED
        BY <2>2, <4>1, <4>2 DEF Live, LiveAt, Held, Exists
    <3>7. QED
      BY <2>2, <3>1, <3>2, <3>3, <3>4, <3>5, <3>6 DEF Next
  <2>3. QED
    BY <2>0, <2>1, <2>2 DEF Clash
<1>3. QED
  BY <1>1, <1>2, TypeCorrect, PTL DEF Spec

\* The corollary a coordinator can rely on: as long as nobody re-arms a claim
\* that is not live, overlapping scopes are never live for two runs at once.
COROLLARY ExclusionWithoutRevival == Spec => [](revived = {} => MutualExclusion)
<1>1. ClashOnlyByRevival => (revived = {} => MutualExclusion)
  BY DEF ClashOnlyByRevival, MutualExclusion
<1>2. QED
  BY <1>1, RevivalOnly, PTL

-----------------------------------------------------------------------------
\* Every lease was computed from a clock value that was not in the future, so no
\* row outlasts its last renewal by more than MaxTtl.
THEOREM LeasesBounded == Spec => []LeaseBounded
<1>1. Init => LeaseBounded
  BY DEF Init, LeaseBounded, Exists
<1>2. TypeOK /\ LeaseBounded /\ [Next]_vars => LeaseBounded'
  <2> SUFFICES ASSUME TypeOK, LeaseBounded, [Next]_vars,
                      NEW x \in ClaimId, Exists(x)'
               PROVE  claims'[x].lease <= now' + MaxTtl
    BY DEF LeaseBounded
  <2>0. now \in Nat /\ MaxTtl \in Nat
    BY TtlAssumption DEF TypeOK, Time
  \* A row whose lease the step leaves alone stays within the bound.
  <2>1. ASSUME Exists(x), claims'[x].lease = claims[x].lease,
               now' = now \/ now' = now + 1
        PROVE  claims'[x].lease <= now' + MaxTtl
    BY <2>0, <2>1, HeldRow DEF LeaseBounded, Row
  \* A lease armed by the step counts from a stamp of the past.
  <2>2. ASSUME NEW r \in Run, NEW ttl \in Ttl, stamp[r] # Idle, now' = now,
               claims'[x].lease = stamp[r] + ttl
        PROVE  claims'[x].lease <= now' + MaxTtl
    BY <2>0, <2>2, TtlAssumption DEF TypeOK, Time
  <2>3. CASE Tick
    BY <2>1, <2>3 DEF Tick, Exists
  <2>4. CASE \/ OrphanScan
             \/ UNCHANGED vars
             \/ \E r \in Run : RegisterRun(r) \/ ReadClock(r) \/ Restart(r)
             \/ \E r \in Run, scope \in Scopes : ClaimRejected(r, scope)
             \/ \E r \in Run, y \in ClaimId : HeartbeatLost(r, y) \/ TakeoverRefused(r, y)
    BY <2>1, <2>4 DEF OrphanScan, vars, RegisterRun, ReadClock, Restart, ClaimRejected,
                      HeartbeatLost, TakeoverRefused, Exists
  <2>5. ASSUME NEW C, Void(C), now' = now
        PROVE  claims'[x].lease <= now' + MaxTtl
    <3>1. Exists(x)
      BY <2>5 DEF Void, Exists
    <3>2. claims'[x].lease = claims[x].lease
      BY <2>5, <3>1, HeldRow DEF Void, Row
    <3>3. QED
      BY <2>1, <2>5, <3>1, <3>2
  <2>6. CASE OrphanRelease
    BY <2>5, <2>6 DEF OrphanRelease
  <2>7. ASSUME NEW r \in Run, NEW y \in ClaimId, Release(r, y)
        PROVE  claims'[x].lease <= now' + MaxTtl
    BY <2>5, <2>7 DEF Release
  <2>8. ASSUME NEW r \in Run, NEW scope \in Scopes, NEW ttl \in Ttl, Claim(r, scope, ttl)
        PROVE  claims'[x].lease <= now' + MaxTtl
    <3>1. CASE x \in DOMAIN scope
      BY <2>2, <2>8, <3>1 DEF Claim
    <3>2. CASE x \notin DOMAIN scope
      BY <2>1, <2>8, <3>2 DEF Claim, Exists
    <3>3. QED
      BY <3>1, <3>2
  <2>9. ASSUME NEW r \in Run, NEW y \in ClaimId, NEW ttl \in Ttl, Heartbeat(r, y, ttl)
        PROVE  claims'[x].lease <= now' + MaxTtl
    <3>1. CASE x = y
      <4>1. claims[y] \in Row
        BY <2>9, HeldRow DEF Heartbeat, Held
      <4>2. claims'[x].lease = stamp[r] + ttl
        BY <2>9, <3>1, <4>1 DEF Heartbeat, TypeOK, Row
      <4>3. QED
        BY <2>2, <2>9, <4>2 DEF Heartbeat
    <3>2. CASE x # y
      BY <2>1, <2>9, <3>2 DEF Heartbeat, TypeOK, Exists
    <3>3. QED
      BY <3>1, <3>2
  <2>10. ASSUME NEW r \in Run, NEW y \in ClaimId, NEW ttl \in Ttl, TryTakeover(r, y, ttl)
         PROVE  claims'[x].lease <= now' + MaxTtl
    <3>1. CASE x = y
      <4>1. claims[y] \in Row
        BY <2>10, HeldRow DEF TryTakeover, TakeoverAllowed
      <4>2. claims'[x].lease = stamp[r] + ttl
        BY <2>10, <3>1, <4>1 DEF TryTakeover, TypeOK, Row
      <4>3. QED
        BY <2>2, <2>10, <4>2 DEF TryTakeover
    <3>2. CASE x # y
      BY <2>1, <2>10, <3>2 DEF TryTakeover, TypeOK, Exists
    <3>3. QED
      BY <3>1, <3>2
  <2>11. QED
    BY <2>3, <2>4, <2>6, <2>7, <2>8, <2>9, <2>10 DEF Next
<1>3. QED
  BY <1>1, <1>2, TypeCorrect, PTL DEF Spec

-----------------------------------------------------------------------------
\* No step of any coordinator, nor of the sweep, re-binds a live claim.
THEOREM LiveClaimsKept == Spec => LiveClaimNeverStolen
<1> DEFINE Kept(x) == /\ claims'[x] # NoRow
                      /\ claims'[x].run = claims[x].run
                      /\ claims'[x].path = claims[x].path
<1>1. TypeOK /\ [Next]_vars =>
        [\A c \in ClaimId : Live(c) => /\ claims'[c] # NoRow
                                       /\ claims'[c].run = claims[c].run
                                       /\ claims'[c].path = claims[c].path]_vars
  <2> SUFFICES ASSUME TypeOK, [Next]_vars, NEW x \in ClaimId, Live(x) PROVE Kept(x)
    OBVIOUS
  <2>0. claims[x] # NoRow /\ claims[x] \in Row
    BY HeldRow DEF Live, LiveAt, Held, Exists
  <2>1. claims'[x] = claims[x] => Kept(x)
    BY <2>0
  <2>2. CASE \/ Tick \/ OrphanScan
             \/ UNCHANGED vars
             \/ \E r \in Run : RegisterRun(r) \/ ReadClock(r) \/ Restart(r)
             \/ \E r \in Run, scope \in Scopes : ClaimRejected(r, scope)
             \/ \E r \in Run, y \in ClaimId : HeartbeatLost(r, y) \/ TakeoverRefused(r, y)
    BY <2>1, <2>2 DEF Tick, OrphanScan, vars, RegisterRun, ReadClock, Restart, ClaimRejected,
                      HeartbeatLost, TakeoverRefused
  <2>3. ASSUME NEW C, Void(C) PROVE Kept(x)
    <3>1. CASE claims'[x] = claims[x]
      BY <2>1, <3>1
    <3>2. CASE claims'[x] = [claims[x] EXCEPT !.released = TRUE]
      <4>1. claims'[x] \in Row
        BY <2>0, <3>2 DEF Row
      <4>2. QED
        BY <2>0, <3>2, <4>1, NoRowAssumption DEF Row
    <3>3. QED
      BY <2>3, <3>1, <3>2 DEF Void
  <2>4. CASE OrphanRelease
    BY <2>3, <2>4 DEF OrphanRelease
  <2>5. ASSUME NEW r \in Run, NEW y \in ClaimId, Release(r, y) PROVE Kept(x)
    BY <2>3, <2>5 DEF Release
  <2>6. ASSUME NEW r \in Run, NEW scope \in Scopes, NEW ttl \in Ttl, Claim(r, scope, ttl)
        PROVE  Kept(x)
    BY <2>0, <2>1, <2>6 DEF Claim, Exists
  <2>7. ASSUME NEW r \in Run, NEW y \in ClaimId, NEW ttl \in Ttl, Heartbeat(r, y, ttl)
        PROVE  Kept(x)
    <3>1. CASE x = y
      <4>1. claims'[x] = [claims[x] EXCEPT !.lease = stamp[r] + ttl] /\ stamp[r] + ttl \in Nat
        BY <2>7, <3>1, TtlAssumption DEF Heartbeat, TypeOK, Time
      <4>2. claims'[x] \in Row
        BY <2>0, <4>1 DEF Row
      <4>3. QED
        BY <2>0, <4>1, <4>2, NoRowAssumption DEF Row
    <3>2. CASE x # y
      BY <2>1, <2>7, <3>2 DEF Heartbeat, TypeOK
    <3>3. QED
      BY <3>1, <3>2
  <2>8. ASSUME NEW r \in Run, NEW y \in ClaimId, NEW ttl \in Ttl, TryTakeover(r, y, ttl)
        PROVE  Kept(x)
    \* The stamp is not in the future: what is live now was live at the stamp.
    <3>1. LiveAt(x, stamp[r])
      BY <2>0, <2>8 DEF TryTakeover, TypeOK, Time, Live, LiveAt, Row
    <3>2. x # y
      BY <2>8, <3>1 DEF TryTakeover, TakeoverAllowed
    <3>3. QED
      BY <2>1, <2>8, <3>2 DEF TryTakeover, TypeOK
  <2>9. QED
    BY <2>2, <2>4, <2>5, <2>6, <2>7, <2>8 DEF Next
<1>2. QED
  BY <1>1, TypeCorrect, PTL DEF Spec, LiveClaimNeverStolen
=============================================================================
