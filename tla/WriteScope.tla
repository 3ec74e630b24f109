----------------------------- MODULE WriteScope -----------------------------
(***************************************************************************)
(* Write-scope claims with leases (runtime/store.py, the                   *)
(* write_scope_claims table).  Coordinators, one per run, share one SQLite *)
(* file.  Every operation reads the wall clock BEFORE it asks for the      *)
(* write lock, so the table may be judged, and the lease computed, with a  *)
(* clock value that is already old: `stamp' keeps that value between the   *)
(* two steps.                                                              *)
(***************************************************************************)
EXTENDS Naturals, FiniteSets, ScopePaths

CONSTANTS
    Run,        \* run ids; each has one coordinator process
    ClaimId,    \* claim ids, chosen by the caller or uuid4
    Path,       \* resolved scope paths
    Ttl,        \* the lease lengths callers ask for
    MaxTtl,     \* an upper bound of Ttl
    MaxTime,    \* the clock stops here (a bound of the model)
    NoRow, Idle

ASSUME TtlAssumption == MaxTtl \in Nat /\ Ttl \subseteq 0..MaxTtl
ASSUME MaxTimeAssumption == MaxTime \in Nat
ASSUME NoRowAssumption ==
    NoRow \notin [run : Run, path : Path, lease : Nat, released : BOOLEAN]
ASSUME IdleAssumption == Idle \notin Nat

VARIABLES
    now,        \* the wall clock
    claims,     \* claims[c]: the row of write_scope_claims with claim_id c
    runs,       \* the run ids present in the runs table
    stamp,      \* stamp[r]: the clock r read for its pending operation
    handles,    \* handles[r]: claim ids r's coordinator believes it holds
    scan,       \* claim ids a sweeper selected and has not yet released
    revived     \* history: claims re-armed after they had stopped being live

vars == <<now, claims, runs, stamp, handles, scan, revived>>

Time == 0..MaxTime
Row == [run : Run, path : Path, lease : Nat, released : BOOLEAN]

Exists(c) == claims[c] # NoRow
Held(c) == Exists(c) /\ ~claims[c].released
LiveAt(c, t) == Held(c) /\ claims[c].lease > t
Live(c) == LiveAt(c, now)

Init ==
    /\ now = 0
    /\ claims = [c \in ClaimId |-> NoRow]
    /\ runs = {}
    /\ stamp = [r \in Run |-> Idle]
    /\ handles = [r \in Run |-> {}]
    /\ scan = {}
    /\ revived = {}

Tick ==
    /\ now < MaxTime
    /\ now' = now + 1
    /\ UNCHANGED <<claims, runs, stamp, handles, scan, revived>>

\* save_run's first insert of the run.  No code path deletes a run.
RegisterRun(r) ==
    /\ r \notin runs
    /\ runs' = runs \cup {r}
    /\ UNCHANGED <<now, claims, stamp, handles, scan, revived>>

\* now = datetime.now(), read before BEGIN IMMEDIATE waits for the lock.
ReadClock(r) ==
    /\ stamp[r] = Idle
    /\ stamp' = [stamp EXCEPT ![r] = now]
    /\ UNCHANGED <<now, claims, runs, handles, scan, revived>>

Finish(r) == stamp' = [stamp EXCEPT ![r] = Idle]

(***************************************************************************)
(* claim_write_scope: scope maps the ids of the new rows to their paths.   *)
(* Overlap is tested against every held row that is unexpired at the time  *)
(* read, own run's rows included, but not among the new paths.             *)
(***************************************************************************)
\* Mutant: a row is taken for expired when the new deadline passes it.
ConflictsNewDeadline(t, path) ==
    {c \in ClaimId : LiveAt(c, t + MaxTtl) /\ PathsOverlap(path, claims[c].path)}

Conflicts(t, path) ==
    {c \in ClaimId : LiveAt(c, t) /\ PathsOverlap(path, claims[c].path)}

Claim(r, scope, ttl) ==
    /\ stamp[r] # Idle
    /\ DOMAIN scope # {}
    /\ \A c \in DOMAIN scope : ~Exists(c) /\ Conflicts(stamp[r], scope[c]) = {}
    /\ claims' = [c \in ClaimId |->
                    IF c \in DOMAIN scope
                    THEN [run |-> r, path |-> scope[c],
                          lease |-> stamp[r] + ttl, released |-> FALSE]
                    ELSE claims[c]]
    /\ handles' = [handles EXCEPT ![r] = @ \cup DOMAIN scope]
    /\ Finish(r)
    /\ UNCHANGED <<now, runs, scan, revived>>

\* ScopeConflictError, or the primary key is taken: everything rolls back.
ClaimRejected(r, scope) ==
    /\ stamp[r] # Idle
    /\ \E c \in DOMAIN scope : Exists(c) \/ Conflicts(stamp[r], scope[c]) # {}
    /\ Finish(r)
    /\ UNCHANGED <<now, claims, runs, handles, scan, revived>>

(***************************************************************************)
(* heartbeat_claim: keyed by claim_id alone, no look at run or lease.      *)
(***************************************************************************)
\* Mutant: the lease is prolonged from its old deadline.
HeartbeatProlongs(r, c, ttl) ==
    /\ stamp[r] # Idle
    /\ c \in handles[r]
    /\ Held(c)
    /\ claims' = [claims EXCEPT ![c].lease = @ + ttl]
    /\ revived' = IF Live(c) THEN revived ELSE revived \cup {c}
    /\ Finish(r)
    /\ UNCHANGED <<now, runs, handles, scan>>

Heartbeat(r, c, ttl) ==
    /\ stamp[r] # Idle
    /\ c \in handles[r]
    /\ Held(c)
    /\ claims' = [claims EXCEPT ![c].lease = stamp[r] + ttl]
    /\ revived' = IF Live(c) THEN revived ELSE revived \cup {c}
    /\ Finish(r)
    /\ UNCHANGED <<now, runs, handles, scan>>

\* rowcount 0: the coordinator learns that it lost the claim.
HeartbeatLost(r, c) ==
    /\ stamp[r] # Idle
    /\ c \in handles[r]
    /\ ~Held(c)
    /\ handles' = [handles EXCEPT ![r] = @ \ {c}]
    /\ Finish(r)
    /\ UNCHANGED <<now, claims, runs, scan, revived>>

(***************************************************************************)
(* try_takeover: a row that is released or expired at the time read is     *)
(* re-bound; no other row is looked at.                                    *)
(***************************************************************************)
TakeoverAllowed(c, t) == Exists(c) /\ ~LiveAt(c, t)

TryTakeover(r, c, ttl) ==
    /\ stamp[r] # Idle
    /\ TakeoverAllowed(c, stamp[r])
    /\ claims' = [claims EXCEPT ![c].run = r, ![c].released = FALSE,
                                ![c].lease = stamp[r] + ttl]
    /\ handles' = [handles EXCEPT ![r] = @ \cup {c}]
    /\ revived' = revived \cup {c}
    /\ Finish(r)
    /\ UNCHANGED <<now, runs, scan>>

TakeoverRefused(r, c) ==
    /\ stamp[r] # Idle
    /\ ~TakeoverAllowed(c, stamp[r])
    /\ Finish(r)
    /\ UNCHANGED <<now, claims, runs, handles, scan, revived>>

(***************************************************************************)
(* release_write_scope: keyed by claim_id alone; the caller forgets it.    *)
(***************************************************************************)
Void(C) ==
    claims' = [c \in ClaimId |-> IF c \in C /\ Exists(c)
                                 THEN [claims[c] EXCEPT !.released = TRUE]
                                 ELSE claims[c]]

Release(r, c) ==
    /\ c \in handles[r]
    /\ Void({c})
    /\ handles' = [handles EXCEPT ![r] = @ \ {c}]
    /\ revived' = revived \ {c}
    /\ UNCHANGED <<now, runs, stamp, scan>>

(***************************************************************************)
(* resolve_orphaned_claims: the SELECT and the UPDATE are two statements,  *)
(* and the UPDATE asks neither for the run nor for released_at.            *)
(***************************************************************************)
Orphans == {c \in ClaimId : Held(c) /\ claims[c].run \notin runs}

OrphanScan ==
    /\ scan = {}
    /\ Orphans # {}
    /\ scan' = Orphans
    /\ UNCHANGED <<now, claims, runs, stamp, handles, revived>>

OrphanRelease ==
    /\ scan # {}
    /\ Void(scan)
    /\ revived' = revived \ scan
    /\ scan' = {}
    /\ UNCHANGED <<now, runs, stamp, handles>>

\* A crashed coordinator starts again and lists the claims its run holds.
Restart(r) ==
    /\ stamp' = [stamp EXCEPT ![r] = Idle]
    /\ handles' = [handles EXCEPT ![r] = {c \in ClaimId : Held(c) /\ claims[c].run = r}]
    /\ UNCHANGED <<now, claims, runs, scan, revived>>

Scopes == UNION {[C -> Path] : C \in SUBSET ClaimId \ {{}}}

Next ==
    \/ Tick
    \/ OrphanScan
    \/ OrphanRelease
    \/ \E r \in Run :
        \/ RegisterRun(r)
        \/ ReadClock(r)
        \/ Restart(r)
        \/ \E scope \in Scopes : ClaimRejected(r, scope)
        \/ \E scope \in Scopes, ttl \in Ttl : Claim(r, scope, ttl)
        \/ \E c \in ClaimId :
            \/ HeartbeatLost(r, c)
            \/ TakeoverRefused(r, c)
            \/ Release(r, c)
            \/ \E ttl \in Ttl : Heartbeat(r, c, ttl) \/ TryTakeover(r, c, ttl)

Spec == Init /\ [][Next]_vars

-----------------------------------------------------------------------------
\* Types: the rows, clocks and handles have the shape the schema gives them,
\* and a clock value read is never in the future.
TypeOK ==
    /\ now \in Time
    /\ claims \in [ClaimId -> Row \cup {NoRow}]
    /\ runs \subseteq Run
    /\ stamp \in [Run -> Time \cup {Idle}]
    /\ handles \in [Run -> SUBSET ClaimId]
    /\ scan \subseteq ClaimId
    /\ revived \subseteq ClaimId
    /\ \A r \in Run : stamp[r] # Idle => stamp[r] <= now

Clash(c, d) ==
    /\ Live(c) /\ Live(d)
    /\ claims[c].run # claims[d].run
    /\ PathsOverlap(claims[c].path, claims[d].path)

\* Check-then-insert arbitrates although the clock it uses is stale: two live
\* claims of different runs overlap only if one of them was re-armed, by
\* heartbeat_claim or try_takeover, after its lease had run out or after it had
\* been released.
ClashOnlyByRevival ==
    \A c, d \in ClaimId : Clash(c, d) => c \in revived \/ d \in revived

\* No lease reaches further than one ttl past the present, however often it is
\* renewed: what a crashed coordinator leaves behind blocks others at most
\* MaxTtl from its last heartbeat.
LeaseBounded ==
    \A c \in ClaimId : Exists(c) => claims[c].lease <= now + MaxTtl

\* A live claim changes hands in no step of anyone: claim_write_scope,
\* try_takeover, the orphan sweep or a competing coordinator (the promise of
\* try_takeover's docstring, "a live claim is never silently stolen").
LiveClaimNeverStolen ==
    [][\A c \in ClaimId : Live(c) => /\ claims'[c] # NoRow
                                     /\ claims'[c].run = claims[c].run
                                     /\ claims'[c].path = claims[c].path]_vars

-----------------------------------------------------------------------------
(* A promise of the documentation that the code does not keep.             *)

\* write_scope.py:8 - "A second claim on an overlapping scope is rejected while
\* the first is held": never two live claims of two runs on overlapping scopes.
MutualExclusion == \A c, d \in ClaimId : ~Clash(c, d)
=============================================================================
