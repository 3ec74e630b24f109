------------------------- MODULE GroupAndWave_proofs -------------------------
(***************************************************************************)
(* The operator dispatch for every number of lanes: the wave               *)
(* (DispatchWave) first, and then one launch group with its heartbeat      *)
(* threads (DispatchGroup).                                                *)
(*                                                                         *)
(* WaveInv says which worktrees are there, which lanes are due in this     *)
(* round, and that the receipts of a lane end where the policy lets them.  *)
(* GroupInv says where the dispatching thread stands between the child     *)
(* processes, their heartbeat threads and the stream all three write to;   *)
(* with it a group is shown to implement LaunchGroup.                      *)
(***************************************************************************)
EXTENDS DispatchWave, DispatchGroup, FiniteSetTheorems, SequenceTheorems, TLAPS

\* What a group may be, and that the groups to come share no lane.
Apart(g) == Cardinality(g) <= maxParallel /\ \A k, l \in g : k # l => repo[k] # repo[l]

Waiting(l) == \E i \in DOMAIN left : l \in left[i]

Grouped ==
    /\ \A i \in DOMAIN left : Apart(left[i])
    /\ \A i, j \in DOMAIN left : i # j => left[i] \cap left[j] = {}

\* Until the last tree is there, the lanes that have theirs are the ones in groups.
Before ==
    /\ pc \in {"observe", "provision"} =>
          /\ at = made + 1 /\ made < size /\ rounds = 0
          /\ \A l \in Lane : log[l] = <<>> /\ (Waiting(l) <=> l <= made)
    /\ pc = "observe" => made = 0

\* Which lanes have a worktree: all before `made' until the releases go over them.
Trees ==
    /\ pc \in {"observe", "provision", "launch", "working", "watch"} =>
          /\ ~erred
          /\ \A l \in Lane : tree[l] = IF l <= made THEN "attested" ELSE "none"
    /\ pc \in {"launch", "working", "watch"} => made = size
    /\ pc \in {"observe", "provision", "launch", "watch"} => running = {}
    /\ pc \in {"release", "close", "returned", "raised"} =>
          /\ \A l \in Lane : l > made /\ tree[l] # "none" =>
                erred /\ tree[l] = "partial" /\ l = made + 1
          /\ \A l \in Lane : l < at => tree[l] = "none"
          /\ running # {} => erred
          /\ pc = "release" => at <= made + 1
          /\ pc # "release" /\ ~erred => at > made
          /\ pc = "returned" => ~erred
          /\ pc = "raised" => erred

Work == pc = "working" => left # <<>> /\ running \subseteq left[1]

\* A lane that is still to be run in this round, and one that is not.
Due(l) ==
    IF pc = "working" THEN l \in running \/ \E i \in DOMAIN left : i > 1 /\ l \in left[i]
    ELSE Waiting(l)

\* A lane that is due again has run in every round so far, and may be run once more;
\* one that is not due has been run, or has no retry left.
Again(l) ==
    /\ Len(log[l]) = rounds
    /\ rounds > 0 => \/ Last(log[l]) = "untyped"
                     \/ Last(log[l]) = "typed" /\ policy = "retry" /\ rounds <= maxRetries

Ran(l) ==
    /\ log[l] # <<>> /\ Len(log[l]) <= rounds + 1
    /\ Last(log[l]) = "untyped" => Len(log[l]) = rounds + 1
    /\ Last(log[l]) = "typed" /\ policy = "retry" =>
          Len(log[l]) = rounds + 1 \/ Len(log[l]) > maxRetries

Round ==
    pc \in {"launch", "working"} =>
        \A l \in Launchable : IF Due(l) THEN Again(l) ELSE Ran(l)

\* Every run of a lane but the last was one the failure policy may repeat.
Sound(l) ==
    \A k \in 1 .. Len(log[l]) - 1 :
        \/ log[l][k] = "untyped"
        \/ log[l][k] = "typed" /\ policy = "retry" /\ k <= maxRetries

Runs ==
    /\ \A l \in Lane : l \in inPlace => log[l] = <<>>
    /\ \A l \in Lane : Len(log[l]) <= rounds + 1 /\ Sound(l)
    /\ rounds > 0 /\ policy = "abort" =>
          \A l \in Launchable : log[l] # <<>> /\ log[l][1] # "typed"

\* What a wave that is not halted says of a lane.
Settled(l) ==
    /\ log[l] # <<>>
    /\ \/ Last(log[l]) = "done"
       \/ Last(log[l]) = "typed" /\ policy = "skip"
       \/ Last(log[l]) = "typed" /\ policy = "abort" /\ log[l][1] = "untyped"

Judged == pc = "watch" \/ (pc \in {"release", "close", "returned"} /\ ~erred)

Verdict ==
    /\ pc \in {"observe", "provision", "launch", "working", "watch"} => ~lost
    /\ Judged /\ ~halted => \A l \in Launchable : Settled(l)
    /\ Judged /\ ~lost => RetriesAreSpent /\ (halted => Typed \cup Legacy # {})

WaveInv == TypeOK /\ Grouped /\ Before /\ Trees /\ Work /\ Round /\ Runs /\ Verdict

Ascending(S) ==
    {f \in Bijection(1 .. Cardinality(S), S) :
       \A i, j \in 1 .. Cardinality(S) : i < j => f[i] < f[j]}

LEMMA Least ==
    ASSUME NEW U, U \subseteq Nat, U # {}
    PROVE  \E u \in U : \A m \in U : u <= m
<1>1. PICK u \in U : \A m \in U : ~ (<<m, u>> \in OpToRel(<, Nat))
  BY NatLessThanWellFounded, WFMin
<1>2. \A m \in U : <<m, u>> \in OpToRel(<, Nat) <=> m < u
  BY DEF OpToRel
<1>3. \A m \in U : ~ (m < u)
  BY <1>1, <1>2
<1>4. \A m \in U : m \in Nat /\ u \in Nat
  OBVIOUS
<1> QED BY <1>3, <1>4

LEMMA LanesAreFinite ==
    ASSUME NEW n \in Nat, NEW S \in SUBSET (1 .. n)
    PROVE  IsFiniteSet(S) /\ Cardinality(S) \in Nat
<1>1. IsFiniteSet(1 .. n)
  BY FS_Interval
<1>2. IsFiniteSet(S)
  BY <1>1, FS_Subset
<1> QED BY <1>2, FS_CardinalityType

\* A finite set of numbers can be listed in ascending order: the largest number goes
\* behind the list of the others.
LEMMA AscendingAppend ==
    ASSUME NEW n \in Nat, NEW S \in SUBSET (1 .. n), Ascending(S) # {}
    PROVE  Ascending(S \cup {n + 1}) # {}
<1> DEFINE c == Cardinality(S)
           T == S \cup {n + 1}
<1>1. IsFiniteSet(S) /\ c \in Nat
  BY LanesAreFinite
<1>2. Cardinality(T) = c + 1
  <2>1. n + 1 \notin S
    OBVIOUS
  <2> QED BY <1>1, <2>1, FS_AddElement
<1> HIDE DEF c
<1>3. PICK f \in Bijection(1 .. c, S) : \A i, j \in 1 .. c : i < j => f[i] < f[j]
  BY DEF Ascending, c
<1> DEFINE g == [i \in 1 .. c + 1 |-> IF i = c + 1 THEN n + 1 ELSE f[i]]
<1>4. /\ f \in [1 .. c -> S]
      /\ \A a, b \in 1 .. c : f[a] = f[b] => a = b
      /\ \A t \in S : \E s \in 1 .. c : f[s] = t
  BY <1>3 DEF Bijection, Injection, Surjection, IsInjective
<1>5. /\ \A i \in 1 .. c : f[i] \in S /\ f[i] \in Nat /\ f[i] < n + 1
      /\ \A i \in 1 .. c : g[i] = f[i]
      /\ g[c + 1] = n + 1
  <2>1. \A i \in 1 .. c : f[i] \in S
    BY <1>4
  <2>2. \A s \in S : s \in Nat /\ s < n + 1
    OBVIOUS
  <2>3. c + 1 \in 1 .. c + 1 /\ \A i \in 1 .. c : i \in 1 .. c + 1 /\ i # c + 1
    BY <1>1
  <2> QED BY <2>1, <2>2, <2>3
<1>6. g \in [1 .. c + 1 -> T]
  BY <1>1, <1>5
<1>7. \A a, b \in 1 .. c + 1 : a < b => g[a] < g[b]
  <2> SUFFICES ASSUME NEW a \in 1 .. c + 1, NEW b \in 1 .. c + 1, a < b PROVE g[a] < g[b]
    OBVIOUS
  <2>1. a \in 1 .. c
    BY <1>1
  <2>2. CASE b = c + 1
    BY <2>1, <2>2, <1>5
  <2>3. CASE b \in 1 .. c
    BY <2>1, <2>3, <1>3, <1>5
  <2> QED BY <1>1, <2>2, <2>3
<1>8. \A a, b \in 1 .. c + 1 : g[a] = g[b] => a = b
  <2> SUFFICES ASSUME NEW a \in 1 .. c + 1, NEW b \in 1 .. c + 1, a # b PROVE g[a] # g[b]
    OBVIOUS
  <2>1. g[a] \in Nat /\ g[b] \in Nat
    BY <1>1, <1>5
  <2>2. a < b \/ b < a
    BY <1>1
  <2> HIDE DEF g
  <2> QED BY <2>1, <2>2, <1>7
<1>9. \A t \in T : \E s \in 1 .. c + 1 : g[s] = t
  <2> SUFFICES ASSUME NEW t \in T PROVE \E s \in 1 .. c + 1 : g[s] = t
    OBVIOUS
  <2>1. CASE t \in S
    <3>1. PICK s \in 1 .. c : f[s] = t
      BY <2>1, <1>4
    <3>2. s \in 1 .. c + 1 /\ g[s] = t
      BY <3>1, <1>1, <1>5
    <3> QED BY <3>2
  <2>2. CASE t = n + 1
    BY <2>2, <1>1, <1>5
  <2> QED BY <2>1, <2>2
<1> HIDE DEF g
<1>10. g \in Bijection(1 .. c + 1, T)
  BY <1>6, <1>8, <1>9 DEF Bijection, Injection, Surjection, IsInjective
<1> QED BY <1>2, <1>7, <1>10 DEF Ascending

LEMMA AscendingExists ==
    ASSUME NEW n \in Nat, NEW S \in SUBSET (1 .. n)
    PROVE  Ascending(S) # {}
<1> DEFINE Bad == {m \in Nat : \E U \in SUBSET (1 .. m) : Ascending(U) = {}}
<1>1. Bad = {}
  <2> SUFFICES ASSUME Bad # {} PROVE FALSE
    OBVIOUS
  <2>1. PICK m \in Bad : \A k \in Bad : m <= k
    <3>1. Bad \subseteq Nat
      OBVIOUS
    <3> HIDE DEF Bad
    <3> QED BY <3>1, Least
  <2>2. \A k \in Bad : ~ (k < m)
    BY <2>1
  <2>3. PICK U \in SUBSET (1 .. m) : Ascending(U) = {}
    BY <2>1
  <2>4. m \in Nat
    BY <2>1
  <2>5. CASE m = 0
    <3>1. U = {} /\ Cardinality(U) = 0
      <4>1. U = {}
        BY <2>3, <2>5
      <4> QED BY <4>1, FS_EmptySet
    <3>2. [i \in {} |-> 0] \in Ascending(U)
      BY <3>1 DEF Ascending, Bijection, Injection, Surjection, IsInjective
    <3> QED BY <3>2, <2>3
  <2>6. CASE m # 0
    <3>1. m - 1 \in Nat /\ m - 1 < m /\ (m - 1) + 1 = m
      BY <2>4, <2>6
    <3>2. m - 1 \notin Bad
      BY <2>2, <3>1
    <3>3. U \ {m} \in SUBSET (1 .. m - 1)
      BY <2>4
    <3>4. Ascending(U \ {m}) # {}
      BY <3>1, <3>2, <3>3
    <3>5. CASE m \in U
      <4>1. (U \ {m}) \cup {(m - 1) + 1} = U
        BY <3>1, <3>5
      <4> QED BY <3>1, <3>3, <3>4, <4>1, <2>3, AscendingAppend
    <3>6. CASE m \notin U
      <4>1. U \ {m} = U
        BY <3>6
      <4> QED BY <3>4, <4>1, <2>3
    <3> QED BY <3>5, <3>6
  <2> QED BY <2>5, <2>6
<1> QED BY <1>1

\* The groups are the lanes of S, each by itself and in one place only.
Alone(groups, S) ==
    /\ groups \in Seq(SUBSET S)
    /\ \A i \in DOMAIN groups : \E l \in S : groups[i] = {l}
    /\ \A i, j \in DOMAIN groups : i # j => groups[i] \cap groups[j] = {}
    /\ \A l \in S : \E i \in DOMAIN groups : l \in groups[i]

LEMMA SinglyLists ==
    ASSUME NEW n \in Nat, NEW S \in SUBSET (1 .. n)
    PROVE  Alone(Singly(S), S)
<1> DEFINE c == Cardinality(S)
           f == InOrder(S)
<1>1. c \in Nat
  BY LanesAreFinite
<1>2. f \in Bijection(1 .. c, S)
  <2>1. Ascending(S) # {}
    BY AscendingExists
  <2>2. \E g \in Bijection(1 .. c, S) : \A i, j \in 1 .. c : i < j => g[i] < g[j]
    BY <2>1 DEF Ascending
  <2> QED BY <2>2 DEF InOrder
<1> HIDE DEF c, f
<1>3. /\ f \in [1 .. c -> S]
      /\ \A a, b \in 1 .. c : f[a] = f[b] => a = b
      /\ \A t \in S : \E s \in 1 .. c : f[s] = t
  BY <1>2 DEF Bijection, Injection, Surjection, IsInjective
<1>4. Singly(S) = [i \in 1 .. c |-> {f[i]}]
  BY DEF Singly, c, f
<1>5. Singly(S) \in Seq(SUBSET S) /\ DOMAIN Singly(S) = 1 .. c
  BY <1>1, <1>3, <1>4
<1>6. \A i \in 1 .. c : f[i] \in S /\ Singly(S)[i] = {f[i]}
  BY <1>3, <1>4
<1>7. \A i \in 1 .. c : \E l \in S : Singly(S)[i] = {l}
  BY <1>6
<1>8. \A i, j \in 1 .. c : i # j => Singly(S)[i] \cap Singly(S)[j] = {}
  BY <1>3, <1>6
<1>9. \A l \in S : \E i \in 1 .. c : l \in Singly(S)[i]
  BY <1>3, <1>6
<1> QED BY <1>5, <1>7, <1>8, <1>9 DEF Alone

LEMMA PareGroups ==
    ASSUME TypeOK, Grouped, at \in Lane, \A l \in Lane : Waiting(l) <=> l < at
    PROVE  LET groups == Pare(left, at) IN
           /\ groups \in Seq(SUBSET Lane)
           /\ \A i \in DOMAIN groups : Apart(groups[i])
           /\ \A i, j \in DOMAIN groups : i # j => groups[i] \cap groups[j] = {}
           /\ \A l \in Lane : (\E i \in DOMAIN groups : l \in groups[i]) <=> l <= at
<1> DEFINE groups == Pare(left, at)
           n == Len(left)
<1>1. /\ left \in Seq(SUBSET Lane) /\ n \in Nat /\ DOMAIN left = 1 .. n
      /\ \A i \in 1 .. n : left[i] \in SUBSET Lane
      /\ size \in Nat /\ maxParallel \in Nat /\ maxParallel >= 1 /\ at \in Nat
  BY DEF TypeOK, Lane
<1>2. \A i \in 1 .. n : at \notin left[i]
  BY <1>1 DEF Waiting
<1>3. \A l \in Lane : l \in Nat
  BY DEF Lane
<1>6. \A l \in Lane : Waiting(l) \/ l = at <=> l <= at
  BY <1>1, <1>3
<1>4. CASE /\ left # <<>> /\ Cardinality(Last(left)) < maxParallel
           /\ \A k \in Last(left) : repo[k] # repo[at]
  <2>1. n \in 1 .. n /\ Last(left) = left[n]
    BY <1>1, <1>4 DEF Last
  <2>2. groups = [left EXCEPT ![n] = left[n] \cup {at}]
    BY <1>4, <2>1 DEF Pare
  <2>3. groups \in Seq(SUBSET Lane)
    BY <1>1, <2>1, <2>2
  <2>4. /\ DOMAIN groups = 1 .. n /\ groups[n] = left[n] \cup {at}
        /\ \A i \in 1 .. n : i # n => groups[i] = left[i]
    BY <1>1, <2>1, <2>2
  <2> HIDE DEF groups
  <2>5. Cardinality(left[n] \cup {at}) <= maxParallel
    <3>1. IsFiniteSet(left[n]) /\ Cardinality(left[n]) \in Nat
      BY <1>1, <2>1, LanesAreFinite DEF Lane
    <3>2. Cardinality(left[n] \cup {at}) = Cardinality(left[n]) + 1
      BY <1>2, <2>1, <3>1, FS_AddElement
    <3> QED BY <1>1, <1>4, <2>1, <3>1, <3>2
  <2>6. Apart(groups[n])
    BY <1>4, <2>1, <2>4, <2>5 DEF Grouped, Apart
  <2>7. \A i \in 1 .. n : Apart(groups[i])
    BY <1>1, <2>4, <2>6 DEF Grouped
  <2>8. \A i, j \in 1 .. n : i # j => groups[i] \cap groups[j] = {}
    <3> SUFFICES ASSUME NEW i \in 1 .. n, NEW j \in 1 .. n, i # j
                 PROVE  groups[i] \cap groups[j] = {}
      OBVIOUS
    <3>1. left[i] \cap left[j] = {} /\ at \notin left[i] /\ at \notin left[j]
      BY <1>1, <1>2 DEF Grouped
    <3>2. groups[i] = left[i] \/ (i = n /\ groups[i] = left[i] \cup {at})
      BY <2>4
    <3>3. groups[j] = left[j] \/ (j = n /\ groups[j] = left[j] \cup {at})
      BY <2>4
    <3> QED BY <3>1, <3>2, <3>3
  <2>9. \A l \in Lane : (\E i \in 1 .. n : l \in groups[i]) <=> Waiting(l) \/ l = at
    BY <1>1, <2>1, <2>4 DEF Waiting
  <2> HIDE DEF n
  <2> QED BY <1>6, <2>3, <2>4, <2>7, <2>8, <2>9 DEF groups
<1>5. CASE ~ (/\ left # <<>> /\ Cardinality(Last(left)) < maxParallel
              /\ \A k \in Last(left) : repo[k] # repo[at])
  <2>1. groups = Append(left, {at})
    BY <1>5 DEF Pare
  <2>2. groups \in Seq(SUBSET Lane)
    BY <1>1, <2>1
  <2>3. /\ DOMAIN groups = 1 .. n + 1 /\ groups[n + 1] = {at}
        /\ \A i \in 1 .. n : groups[i] = left[i]
    BY <1>1, <2>1
  <2> HIDE DEF groups
  <2>4. Apart({at})
    BY <1>1, FS_Singleton DEF Apart
  <2>5. \A i \in 1 .. n + 1 : i \in 1 .. n \/ i = n + 1
    BY <1>1
  <2>6. \A i \in 1 .. n + 1 : Apart(groups[i])
    BY <1>1, <2>3, <2>4, <2>5 DEF Grouped
  <2>7. \A i, j \in 1 .. n + 1 : i # j => groups[i] \cap groups[j] = {}
    BY <1>1, <1>2, <2>3, <2>5 DEF Grouped
  <2>8. \A l \in Lane : (\E i \in 1 .. n + 1 : l \in groups[i]) <=> Waiting(l) \/ l = at
    BY <1>1, <2>3, <2>5 DEF Waiting
  <2> QED BY <1>6, <2>2, <2>3, <2>6, <2>7, <2>8 DEF groups
<1> QED BY <1>4, <1>5

LEMMA RunsKept ==
    ASSUME Runs, UNCHANGED <<given, log, rounds>> PROVE Runs'
BY DEF Runs, Sound, given, Launchable, Lane

LEMMA GroupedKept ==
    ASSUME Grouped, UNCHANGED <<given, left>> PROVE Grouped'
BY DEF Grouped, Apart, given

\* One more run of lanes that were due.
LEMMA RunsAppended ==
    ASSUME TypeOK, Runs, NEW S, S \subseteq Launchable, NEW o \in [S -> Outcome],
           \A l \in S : Again(l),
           log' = [l \in Lane |-> IF l \in S THEN Append(log[l], o[l]) ELSE log[l]],
           UNCHANGED <<given, rounds>>
    PROVE  /\ log' \in [Lane -> Seq(Outcome)]
           /\ \A l \in S : /\ log'[l] # <<>> /\ Len(log'[l]) = rounds + 1
                            /\ Last(log'[l]) = o[l]
           /\ \A l \in Lane \ S : log'[l] = log[l]
           /\ Runs'
<1>1. /\ S \subseteq Lane /\ \A l \in S : l \notin inPlace
      /\ \A l \in Lane : log[l] \in Seq(Outcome)
      /\ rounds \in Nat
  BY DEF TypeOK, Launchable
<1>2. \A l \in Lane \ S : log'[l] = log[l]
  OBVIOUS
<1>3. \A l \in S : log'[l] = Append(log[l], o[l])
  BY <1>1
<1>4. \A l \in S :
        /\ log'[l] \in Seq(Outcome) /\ Len(log'[l]) = rounds + 1
        /\ log'[l][rounds + 1] = o[l]
        /\ \A k \in 1 .. rounds : log'[l][k] = log[l][k]
  BY <1>1, <1>3 DEF Again
<1>9. \A l \in S : Len(log'[l]) = rounds + 1 /\ Len(log'[l]) - 1 = rounds
                   /\ Len(log'[l]) <= rounds + 1 /\ rounds + 1 # 0
  <2> SUFFICES ASSUME NEW l \in S, NEW n, n = Len(log'[l])
               PROVE  n = rounds + 1 /\ n - 1 = rounds /\ n <= rounds + 1 /\ rounds + 1 # 0
    OBVIOUS
  <2>1. n = rounds + 1
    BY <1>4
  <2> QED BY <1>1, <2>1
<1>10. \A l \in S : log'[l][rounds + 1] = o[l]
  BY <1>4
<1>5. log' \in [Lane -> Seq(Outcome)]
  BY <1>1, <1>2, <1>4
<1>6. \A l \in S : /\ log'[l] # <<>> /\ Len(log'[l]) = rounds + 1
                     /\ Last(log'[l]) = o[l]
  <2> SUFFICES ASSUME NEW l \in S
               PROVE  log'[l] # <<>> /\ Len(log'[l]) = rounds + 1 /\ Last(log'[l]) = o[l]
    OBVIOUS
  <2>1. Len(log'[l]) = rounds + 1 /\ log'[l][rounds + 1] = o[l] /\ rounds + 1 # 0
    BY <1>9, <1>10
  <2> QED BY <2>1 DEF Last
<1>7. \A l \in S : \A k \in 1 .. rounds :
        \/ log[l][k] = "untyped"
        \/ log[l][k] = "typed" /\ policy = "retry" /\ k <= maxRetries
  <2> SUFFICES ASSUME NEW l \in S, NEW k \in 1 .. rounds
               PROVE  \/ log[l][k] = "untyped"
                      \/ log[l][k] = "typed" /\ policy = "retry" /\ k <= maxRetries
    OBVIOUS
  <2>1. CASE k = rounds
    BY <1>1, <2>1 DEF Again, Last
  <2>2. CASE k # rounds
    <3>1. k \in 1 .. Len(log[l]) - 1
      BY <1>1, <2>2 DEF Again
    <3> QED BY <1>1, <3>1 DEF Runs, Sound
  <2> QED BY <2>1, <2>2
<1>8. Runs'
  <2>1. \A l \in Lane : l \in inPlace => log'[l] = <<>>
    BY <1>1, <1>2 DEF Runs
  <2>2. \A l \in S : \A k \in 1 .. Len(log'[l]) - 1 :
          \/ log'[l][k] = "untyped"
          \/ log'[l][k] = "typed" /\ policy = "retry" /\ k <= maxRetries
    <3> SUFFICES ASSUME NEW l \in S, NEW k \in 1 .. Len(log'[l]) - 1
                 PROVE  \/ log'[l][k] = "untyped"
                        \/ log'[l][k] = "typed" /\ policy = "retry" /\ k <= maxRetries
      OBVIOUS
    <3>1. Len(log'[l]) - 1 = rounds
      BY <1>9
    <3>2. k \in 1 .. rounds
      BY <3>1
    <3>3. log'[l][k] = log[l][k]
      BY <1>4, <3>2
    <3> QED BY <1>7, <3>2, <3>3
  <2>3. \A l \in Lane : Len(log'[l]) <= rounds + 1 /\
          \A k \in 1 .. Len(log'[l]) - 1 :
             \/ log'[l][k] = "untyped"
             \/ log'[l][k] = "typed" /\ policy = "retry" /\ k <= maxRetries
    <3> SUFFICES ASSUME NEW l \in Lane
                 PROVE  Len(log'[l]) <= rounds + 1 /\
                          \A k \in 1 .. Len(log'[l]) - 1 :
                             \/ log'[l][k] = "untyped"
                             \/ log'[l][k] = "typed" /\ policy = "retry" /\ k <= maxRetries
      OBVIOUS
    <3>1. CASE l \in S
      BY <1>9, <2>2, <3>1
    <3>2. CASE l \notin S
      BY <1>2, <3>2 DEF Runs, Sound
    <3> QED BY <3>1, <3>2
  <2>4. rounds > 0 /\ policy = "abort" =>
          \A l \in Launchable : log'[l] # <<>> /\ log'[l][1] # "typed"
    <3> SUFFICES ASSUME rounds > 0, policy = "abort", NEW l \in Launchable
                 PROVE  log'[l] # <<>> /\ log'[l][1] # "typed"
      OBVIOUS
    <3>1. log[l] # <<>> /\ log[l][1] # "typed" /\ l \in Lane
      BY DEF Runs, Launchable
    <3>2. CASE l \in S
      <4>1. 1 \in 1 .. rounds
        BY <1>1
      <4>2. log'[l][1] = log[l][1]
        BY <1>4, <3>2, <4>1
      <4> QED BY <1>6, <3>1, <3>2, <4>2
    <3>3. CASE l \notin S
      BY <1>2, <3>1, <3>3
    <3> QED BY <3>1, <3>2, <3>3
  <2> QED BY <2>1, <2>3, <2>4 DEF Runs, Sound, given, Launchable, Lane
<1> QED BY <1>2, <1>5, <1>6, <1>8

LEMMA SizeIsLanes ==
    ASSUME TypeOK
    PROVE  /\ size \in Nat /\ Lane \in SUBSET (1 .. size) /\ rounds \in Nat
           /\ at \in Nat /\ made \in Nat /\ maxRounds \in Nat /\ maxRetries \in Nat
           /\ \A l \in Lane : l \in Nat /\ l >= 1 /\ l <= size
           /\ \A l \in Lane : log[l] \in Seq(Outcome)
           /\ Launchable \subseteq Lane
BY DEF TypeOK, Lane, Launchable

LEMMA RanNow ==
    ASSUME NEW l, rounds \in Nat, UNCHANGED <<rounds, maxRetries>>,
           log'[l] # <<>>, Len(log'[l]) = rounds + 1
    PROVE  Ran(l)'
<1>1. rounds + 1 <= rounds + 1
  OBVIOUS
<1> QED BY <1>1 DEF Ran

LEMMA WaveInit == ASSUME Init PROVE WaveInv
<1> USE DEF Init
<1>1. TypeOK
  <2>1. tree \in [Lane -> {"none", "attested", "other", "partial"}]
    OBVIOUS
  <2>2. log \in [Lane -> Seq(Outcome)]
    OBVIOUS
  <2>3. at \in 1 .. size + 1 /\ made \in 0 .. size /\ rounds \in 0 .. maxRounds
    OBVIOUS
  <2>4. left \in Seq(SUBSET Lane) /\ {maxRetries, maxRounds} \subseteq 0 .. MaxBudget
    OBVIOUS
  <2>5. running \subseteq Launchable \ blocked /\ {lost, halted, erred} \subseteq BOOLEAN
    OBVIOUS
  <2>6. inPlace \subseteq Lane /\ blocked \subseteq Launchable
    OBVIOUS
  <2> QED BY <2>1, <2>2, <2>3, <2>4, <2>5, <2>6 DEF TypeOK
<1>2. Grouped /\ Work
  BY DEF Grouped, Work
<1>3. Before
  BY DEF Before, Waiting, Lane
<1>4. Trees
  BY DEF Trees, Lane
<1>5. Round /\ Runs
  BY DEF Round, Runs, Sound
<1>6. Verdict
  BY DEF Verdict, Judged
<1> QED BY <1>1, <1>2, <1>3, <1>4, <1>5, <1>6 DEF WaveInv

LEMMA WaveObserver ==
    ASSUME WaveInv, ObserverStarts \/ ObserverMissing
    PROVE  WaveInv'
<1> USE DEF WaveInv, ObserverStarts, ObserverMissing, given, trees, rest, verdict
<1>1. TypeOK'
  BY DEF TypeOK, Launchable, Lane
<1>2. Grouped' /\ Runs'
  BY GroupedKept, RunsKept
<1>3. Before'
  BY DEF Before, Waiting, Lane
<1>4. Trees'
  BY SizeIsLanes DEF Before, Trees, Lane
<1>5. Work' /\ Round'
  BY DEF Work, Round
<1>6. Verdict'
  BY DEF Verdict, Judged
<1> QED BY <1>1, <1>2, <1>3, <1>4, <1>5, <1>6

LEMMA WaveProvision == ASSUME WaveInv, Provision PROVE WaveInv'
<1> USE DEF WaveInv, Provision, given, verdict
<1>1. /\ at \in Lane /\ at = made + 1 /\ rounds = 0
      /\ \A l \in Lane : Waiting(l) <=> l < at
  BY SizeIsLanes DEF Before, Lane
<1>2. /\ left' \in Seq(SUBSET Lane)
      /\ \A i \in DOMAIN left' : Apart(left'[i])
      /\ \A i, j \in DOMAIN left' : i # j => left'[i] \cap left'[j] = {}
      /\ \A l \in Lane : (\E i \in DOMAIN left' : l \in left'[i]) <=> l <= at
  BY <1>1, PareGroups
<1>3. at \in 1 .. size /\ (at < size => at + 1 \in 1 .. size + 1)
  BY <1>1, SizeIsLanes DEF Lane
<1>4. TypeOK'
  <2>1. tree' \in [Lane -> {"none", "attested", "other", "partial"}]
    BY <1>1 DEF TypeOK
  <2>2. made' \in 0 .. size /\ at' \in 1 .. size + 1
    BY <1>3, SizeIsLanes
  <2> QED BY <1>2, <2>1, <2>2 DEF TypeOK, Launchable, Lane
<1>5. Grouped'
  BY <1>2 DEF Grouped, Apart
<1>6. Before'
  BY <1>1, <1>2, SizeIsLanes DEF Before, Waiting, Lane
<1>7. Trees'
  <2>1. \A l \in Lane : tree'[l] = IF l <= at THEN "attested" ELSE "none"
    BY <1>1, SizeIsLanes DEF Trees, TypeOK
  <2>2. at < size \/ at = size
    BY <1>1, SizeIsLanes
  <2> QED BY <1>1, <2>1, <2>2 DEF Trees, Lane
<1>8. Round'
  <2> SUFFICES ASSUME pc' = "launch", NEW l \in Launchable PROVE Due(l)' /\ Again(l)'
    BY DEF Round, Launchable, Lane
  <2>1. at = size /\ l \in Lane
    BY <1>1, SizeIsLanes
  <2>2. Due(l)'
    BY <1>2, <2>1, SizeIsLanes DEF Due, Waiting
  <2>3. Again(l)'
    BY <1>1, <2>1 DEF Before, Again
  <2> QED BY <2>2, <2>3
<1>9. Runs'
  BY RunsKept
<1>10. Work' /\ Verdict'
  BY DEF Work, Verdict, Judged
<1> QED BY <1>4, <1>5, <1>6, <1>7, <1>8, <1>9, <1>10

LEMMA WaveProvisionFails ==
    ASSUME WaveInv, BaseDiffers \/ \E behindAdd \in BOOLEAN : AcquireFails(behindAdd)
    PROVE  WaveInv'
<1> USE DEF WaveInv, BaseDiffers, AcquireFails, ToRelease, given, rest
<1>1. /\ at \in Lane /\ at \in 1 .. size /\ at = made + 1 /\ made \in 0 .. size
      /\ size \in Nat /\ 1 \in 1 .. size + 1 /\ at \in 0 .. size
      /\ UNCHANGED <<given, rest, lost, halted>>
  BY SizeIsLanes DEF Before, Lane, TypeOK
<1>2. PICK t \in {"none", "other", "partial"} :
        /\ tree' = [tree EXCEPT ![at] = t]
        /\ (t = "other" /\ made' = at) \/ (t # "other" /\ made' = made)
  <2>1. tree[at] = "none"
    BY <1>1, SizeIsLanes DEF Trees
  <2>2. CASE BaseDiffers
    BY <2>2
  <2>3. CASE \E behindAdd \in BOOLEAN : AcquireFails(behindAdd)
    <3>1. CASE AcquireFails(TRUE)
      BY <3>1
    <3>2. CASE AcquireFails(FALSE)
      <4>1. tree' = [tree EXCEPT ![at] = "none"] /\ made' = made
        BY <2>1, <3>2
      <4> QED BY <4>1
    <3> QED BY <2>3, <3>1, <3>2
  <2> QED BY <2>2, <2>3
<1>3. /\ \A l \in Lane : l # at => tree'[l] = tree[l]
      /\ tree'[at] = t
  BY <1>1, <1>2 DEF TypeOK
<1>4. TypeOK'
  <2>1. tree' \in [Lane -> {"none", "attested", "other", "partial"}]
    BY <1>1, <1>2 DEF TypeOK
  <2>2. made' \in 0 .. size /\ at' \in 1 .. size + 1
    BY <1>1, <1>2
  <2> QED BY <2>1, <2>2 DEF TypeOK, Launchable, Lane
<1>5. Grouped' /\ Runs'
  BY GroupedKept, RunsKept
<1>6. Trees'
  <2>1. ASSUME NEW l \in Lane, l > made', tree'[l] # "none"
        PROVE  tree'[l] = "partial" /\ l = made' + 1
    <3>1. l \in Nat /\ made \in Nat
      BY SizeIsLanes
    <3>2. l # at => ~ (l > made)
      BY <2>1, <1>1, <1>3 DEF Trees
    <3>3. l > made
      BY <2>1, <3>1, <1>1, <1>2
    <3>4. l = at /\ ~ (at > at)
      BY <3>2, <3>3, <1>1
    <3>5. t = "partial" /\ made' = made
      BY <1>2, <1>3, <2>1, <3>4
    <3> QED BY <1>1, <1>3, <3>4, <3>5
  <2>2. \A l \in Lane : ~ (l < 1)
    BY SizeIsLanes
  <2>3. pc' = "release" /\ erred' /\ at' = 1 /\ 1 <= made' + 1
    <3>1. made' \in Nat
      BY <1>1, <1>2
    <3>2. pc' = "release" /\ erred' /\ at' = 1
      OBVIOUS
    <3>3. \A n \in Nat : 1 <= n + 1
      OBVIOUS
    <3> QED BY <3>1, <3>2, <3>3
  <2>4. \A l \in Lane' : l > made' /\ tree'[l] # "none" =>
          erred' /\ tree'[l] = "partial" /\ l = made' + 1
    BY <2>1, <2>3 DEF Lane
  <2>5. \A l \in Lane' : l < at' => tree'[l] = "none"
    BY <2>2, <2>3 DEF Lane
  <2> QED BY <2>3, <2>4, <2>5 DEF Trees
<1>7. Before' /\ Work' /\ Round'
  BY DEF Before, Work, Round
<1>8. Verdict'
  BY DEF Verdict, Judged
<1> QED BY <1>4, <1>5, <1>6, <1>7, <1>8

\* The blocked lanes of the group have run, the others do.
LEMMA WaveStartGroup == ASSUME WaveInv, StartGroup PROVE WaveInv'
<1> USE DEF WaveInv, StartGroup, given, trees, verdict
<1> DEFINE runners == Head(left) \ inPlace
           S == runners \cap blocked
           o == [l \in S |-> "typed"]
<1>1. /\ left \in Seq(SUBSET Lane) /\ left # <<>>
      /\ 1 \in DOMAIN left /\ Head(left) = left[1]
      /\ Head(left) \subseteq Lane /\ runners \subseteq Launchable /\ S \subseteq Launchable
      /\ \A i \in DOMAIN left : i = 1 \/ i > 1
  BY DEF TypeOK, Launchable
<1>2. \A l \in S : Again(l)
  BY <1>1 DEF Round, Due, Waiting
<1>3. log' = [l \in Lane |-> IF l \in S THEN Append(log[l], o[l]) ELSE log[l]]
  OBVIOUS
<1>4. o \in [S -> Outcome]
  BY DEF Outcome
<1> HIDE DEF o, S
<1>5. /\ log' \in [Lane -> Seq(Outcome)]
      /\ \A l \in S : log'[l] # <<>> /\ Len(log'[l]) = rounds + 1
      /\ \A l \in Lane \ S : log'[l] = log[l]
      /\ Runs'
  <2>1. TypeOK /\ Runs /\ UNCHANGED <<given, rounds>> /\ S \subseteq Launchable
    BY <1>1
  <2> HIDE DEF WaveInv, StartGroup, given
  <2> QED BY <1>2, <1>3, <1>4, <2>1, RunsAppended
<1> USE DEF S
<1>6. running' = runners \ blocked
  OBVIOUS
<1>7. TypeOK'
  BY <1>1, <1>5, <1>6 DEF TypeOK, Launchable, Lane
<1>8. Grouped'
  BY GroupedKept
<1>9. Trees' /\ Before' /\ Work'
  BY <1>1, <1>6 DEF Trees, Before, Work, Lane
<1>10. Round'
  <2> SUFFICES ASSUME NEW l \in Launchable PROVE IF Due(l)' THEN Again(l)' ELSE Ran(l)'
    BY DEF Round, Launchable, Lane
  <2>1. l \in Lane /\ rounds \in Nat
    BY SizeIsLanes
  <2>2. Due(l)' <=> l \in runners \ blocked \/ \E i \in DOMAIN left : i > 1 /\ l \in left[i]
    BY <1>6 DEF Due
  <2>3. CASE l \in S
    <3>1. ~ Due(l)'
      BY <1>1, <2>2, <2>3 DEF Grouped
    <3>2. Ran(l)'
      BY <1>5, <2>1, <2>3, RanNow
    <3> QED BY <3>1, <3>2
  <2>4. CASE l \notin S
    <3>1. Due(l)' <=> Due(l)
      BY <1>1, <2>2, <2>4 DEF Due, Waiting, Launchable
    <3>2. log'[l] = log[l]
      BY <1>5, <2>1, <2>4
    <3> QED BY <3>1, <3>2 DEF Round, Again, Ran
  <2> QED BY <2>3, <2>4
<1>11. Verdict'
  BY DEF Verdict, Judged
<1> QED BY <1>5, <1>7, <1>8, <1>9, <1>10, <1>11

LEMMA WaveEndGroup ==
    ASSUME WaveInv, NEW outcome \in [running -> Outcome], EndGroup(outcome) PROVE WaveInv'
<1> USE DEF WaveInv, EndGroup, given, trees, verdict
<1>1. /\ left \in Seq(SUBSET Lane) /\ left # <<>> /\ running \subseteq left[1]
      /\ running \subseteq Launchable /\ 1 \in DOMAIN left
  BY DEF TypeOK, Work, Launchable
<1>2. /\ left' \in Seq(SUBSET Lane)
      /\ \A i \in DOMAIN left' : i + 1 \in DOMAIN left /\ left'[i] = left[i + 1] /\ i + 1 > 1
      /\ \A i, j \in DOMAIN left' : i + 1 = j + 1 => i = j
      /\ \A i \in DOMAIN left : i > 1 => i - 1 \in DOMAIN left' /\ left'[i - 1] = left[i]
  BY <1>1
<1>3. \A l \in running : Again(l)
  BY <1>1 DEF Round, Due
<1>4. /\ log' \in [Lane -> Seq(Outcome)]
      /\ \A l \in running : log'[l] # <<>> /\ Len(log'[l]) = rounds + 1
      /\ \A l \in Lane \ running : log'[l] = log[l]
      /\ Runs'
  BY <1>1, <1>3, RunsAppended
<1>5. TypeOK'
  BY <1>2, <1>4 DEF TypeOK, Launchable, Lane
<1>6. Grouped'
  BY <1>2 DEF Grouped, Apart
<1>7. Trees' /\ Before' /\ Work'
  BY DEF Trees, Before, Work, Lane
<1>8. Round'
  <2> SUFFICES ASSUME NEW l \in Launchable PROVE IF Due(l)' THEN Again(l)' ELSE Ran(l)'
    BY DEF Round, Launchable, Lane
  <2>1. l \in Lane /\ rounds \in Nat
    BY SizeIsLanes
  <2>2. Due(l)' <=> \E i \in DOMAIN left : i > 1 /\ l \in left[i]
    BY <1>2 DEF Due, Waiting
  <2>3. CASE l \in running
    <3>1. ~ Due(l)'
      BY <1>1, <2>2, <2>3 DEF Grouped
    <3>2. Ran(l)'
      BY <1>4, <2>1, <2>3, RanNow
    <3> QED BY <3>1, <3>2
  <2>4. CASE l \notin running
    <3>1. Due(l)' <=> Due(l)
      BY <2>2, <2>4 DEF Due
    <3>2. log'[l] = log[l]
      BY <1>4, <2>1, <2>4
    <3> QED BY <3>1, <3>2 DEF Round, Again, Ran
  <2> QED BY <2>3, <2>4
<1>9. Verdict'
  BY DEF Verdict, Judged
<1> QED BY <1>4, <1>5, <1>6, <1>7, <1>8, <1>9

LEMMA WaveGroupRaises ==
    ASSUME WaveInv, NEW alive \in SUBSET running, GroupRaises(alive) PROVE WaveInv'
<1> USE DEF WaveInv, GroupRaises, ToRelease, given
<1>1. /\ size \in Nat /\ made \in Nat /\ 1 <= made + 1 /\ 1 \in 1 .. size + 1
      /\ \A l \in Lane : ~ (l < 1)
  BY SizeIsLanes DEF TypeOK
<1>2. TypeOK'
  BY <1>1 DEF TypeOK, Launchable, Lane
<1>3. Grouped' /\ Runs'
  BY GroupedKept, RunsKept
<1>4. Trees'
  <2>1. \A l \in Lane : ~ (l > made) /\ made = size
    BY SizeIsLanes DEF Trees
  <2> QED BY <1>1, <2>1 DEF Trees, Lane
<1>5. Before' /\ Work' /\ Round'
  BY DEF Before, Work, Round
<1>6. Verdict'
  BY DEF Verdict, Judged
<1> QED BY <1>2, <1>3, <1>4, <1>5, <1>6

\* At the end of a round every lane has run, and its last outcome is what it was due to.
LEMMA RoundRan ==
    ASSUME WaveInv, RoundIsOver
    PROVE  /\ \A l \in Launchable : Ran(l)
           /\ \A l \in Launchable : /\ Last(log[l]) \in Outcome
                                    /\ log[l] \in Seq(Outcome)
                                    /\ Len(log[l]) \in Nat /\ Len(log[l]) >= 1
           /\ Typed \subseteq Launchable /\ Legacy \subseteq Launchable
           /\ \A l \in Launchable : /\ l \in Typed <=> Last(log[l]) = "typed"
                                    /\ l \in Legacy <=> Last(log[l]) = "untyped"
<1>1. \A l \in Launchable : Ran(l)
  BY DEF WaveInv, RoundIsOver, Round, Due, Waiting
<1>2. ASSUME NEW l \in Launchable
      PROVE  /\ Last(log[l]) \in Outcome /\ log[l] \in Seq(Outcome)
             /\ Len(log[l]) \in Nat /\ Len(log[l]) >= 1
  <2>1. log[l] \in Seq(Outcome) /\ log[l] # <<>>
    BY <1>1, SizeIsLanes DEF WaveInv, Ran
  <2>2. Len(log[l]) \in Nat /\ Len(log[l]) >= 1
    BY <2>1
  <2> QED BY <2>1, <2>2 DEF Last
<1>3. /\ Typed \subseteq Launchable /\ Legacy \subseteq Launchable
      /\ \A l \in Launchable : /\ l \in Typed <=> Last(log[l]) = "typed"
                               /\ l \in Legacy <=> Last(log[l]) = "untyped"
  BY DEF Typed, Legacy, FailedAs
<1> QED BY <1>1, <1>2, <1>3

\* Without a correction round each lane has one run, the last and the first.
LEMMA FirstRoundIsFirst ==
    ASSUME WaveInv, RoundIsOver, rounds = 0, NEW l \in Launchable
    PROVE  Len(log[l]) = 1 /\ Last(log[l]) = log[l][1]
<1>1. Len(log[l]) \in Nat /\ Len(log[l]) >= 1 /\ Len(log[l]) <= 0 + 1
  BY RoundRan DEF Ran
<1>2. Len(log[l]) = 1
  <2>1. \A n \in Nat : n >= 1 /\ n <= 0 + 1 => n = 1
    OBVIOUS
  <2> QED BY <1>1, <2>1
<1> QED BY <1>2 DEF Last

\* Where the first round was not aborted, no first run of abort failed typed.
LEMMA NotAborted ==
    ASSUME WaveInv, RoundIsOver, ~ Aborts, policy = "abort"
    PROVE  \A l \in Launchable : log[l] # <<>> /\ log[l][1] # "typed"
<1>1. CASE rounds = 0
  <2>1. Typed = {}
    BY <1>1 DEF Aborts
  <2>2. \A l \in Launchable : Last(log[l]) # "typed" /\ log[l] # <<>>
    BY <2>1, RoundRan DEF Ran
  <2> QED BY <1>1, <2>2, FirstRoundIsFirst
<1>2. CASE rounds # 0
  <2>1. rounds > 0
    BY <1>2, SizeIsLanes DEF WaveInv
  <2> QED BY <2>1 DEF WaveInv, Runs
<1> QED BY <1>1, <1>2

LEMMA WaveAbort == ASSUME WaveInv, Abort PROVE WaveInv'
<1> USE DEF Abort, given, trees, rest
<1>1. RoundIsOver /\ rounds = 0 /\ policy = "abort" /\ Typed # {}
  BY DEF Aborts
<1>2. TypeOK' /\ Before' /\ Work' /\ Round'
  BY DEF WaveInv, TypeOK, Before, Work, Round, Launchable, Lane
<1>3. Grouped' /\ Runs'
  BY GroupedKept, RunsKept DEF WaveInv
<1>4. Trees'
  BY <1>1 DEF WaveInv, Trees, RoundIsOver, Lane
<1>5. RetriesAreSpent
  <2>1. PICK j \in Launchable : log[j][1] = "typed"
    BY <1>1, RoundRan, FirstRoundIsFirst
  <2> QED BY <1>1, <2>1 DEF RetriesAreSpent
<1>6. Verdict'
  <2>1. ~ lost /\ halted' /\ UNCHANGED lost
    BY <1>1 DEF WaveInv, Verdict, RoundIsOver
  <2>2. RetriesAreSpent' /\ (Typed \cup Legacy)' = Typed \cup Legacy
    BY <1>5 DEF RetriesAreSpent, Typed, Legacy, FailedAs, Launchable, Lane
  <2> QED BY <1>1, <2>1, <2>2 DEF Verdict
<1> QED BY <1>2, <1>3, <1>4, <1>6 DEF WaveInv

\* A wave settles when nothing may be run again or no round is left.
LEMMA SettleSpends ==
    ASSUME WaveInv, Settle PROVE RetriesAreSpent
<1> SUFFICES ASSUME NEW l \in Launchable
             PROVE  /\ Last(log[l]) = "untyped" => Len(log[l]) = maxRounds + 1
                    /\ Last(log[l]) = "typed" /\ policy = "retry" =>
                         Len(log[l]) > maxRetries \/ Len(log[l]) = maxRounds + 1
  BY DEF RetriesAreSpent
<1>1. RoundIsOver /\ (Legacy \cup Eligible = {} \/ rounds = maxRounds)
  BY DEF Settle
<1>2. /\ Ran(l) /\ Len(log[l]) \in Nat /\ rounds \in Nat /\ maxRetries \in Nat
      /\ l \in Typed <=> Last(log[l]) = "typed"
      /\ l \in Legacy <=> Last(log[l]) = "untyped"
  BY <1>1, RoundRan, SizeIsLanes DEF WaveInv
<1>3. Last(log[l]) = "untyped" => Len(log[l]) = maxRounds + 1
  BY <1>1, <1>2 DEF Ran
<1>4. ASSUME Last(log[l]) = "typed", policy = "retry"
      PROVE  Len(log[l]) > maxRetries \/ Len(log[l]) = maxRounds + 1
  <2>1. Len(log[l]) = rounds + 1 \/ Len(log[l]) > maxRetries
    BY <1>2, <1>4 DEF Ran
  <2>2. rounds = maxRounds \/ ~ (rounds < maxRetries)
    BY <1>1, <1>2, <1>4 DEF Eligible
  <2> QED BY <1>2, <2>1, <2>2
<1> QED BY <1>3, <1>4

\* Without a halt nobody is left but who is done, or failed typed where that is final.
LEMMA SettledLanes ==
    ASSUME WaveInv, Settle, ~ halted', NEW l \in Launchable PROVE Settled(l)
<1>1. RoundIsOver /\ ~ Aborts /\ Legacy = {} /\ ~ (policy = "retry" /\ Typed # {})
  BY DEF Settle
<1>2. log[l] # <<>> /\ Last(log[l]) \in {"done", "typed"} /\ policy \in {"skip", "retry", "abort"}
      /\ log[l] \in Seq(Outcome) /\ Len(log[l]) \in Nat /\ Len(log[l]) >= 1 /\ l \in Lane
  BY <1>1, RoundRan, SizeIsLanes DEF Ran, Outcome, WaveInv, TypeOK
<1>3. CASE Last(log[l]) = "typed" /\ policy = "abort"
  <2>1. log[l][1] # "typed"
    BY <1>1, <1>3, NotAborted
  <2>2. Len(log[l]) # 1
    BY <1>3, <2>1 DEF Last
  <2>3. 1 \in 1 .. Len(log[l]) - 1
    <3>1. \A n \in Nat : n >= 1 /\ n # 1 => 1 \in 1 .. n - 1
      OBVIOUS
    <3> QED BY <1>2, <2>2, <3>1
  <2>4. log[l][1] = "untyped"
    BY <1>2, <1>3, <2>3 DEF WaveInv, Runs, Sound
  <2> QED BY <1>2, <1>3, <2>4 DEF Settled
<1>4. CASE Last(log[l]) = "done" \/ policy = "skip"
  BY <1>2, <1>4 DEF Settled
<1>5. policy # "retry" \/ Last(log[l]) # "typed"
  BY <1>1, RoundRan
<1> QED BY <1>2, <1>3, <1>4, <1>5

LEMMA WaveSettle == ASSUME WaveInv, Settle PROVE WaveInv'
<1> USE DEF given, trees, rest
<1>1. /\ RoundIsOver /\ pc' = "watch" /\ halted' \in BOOLEAN
      /\ halted' => Typed \cup Legacy # {}
      /\ UNCHANGED <<given, trees, rest, lost, erred>>
  BY DEF Settle
<1>2. TypeOK' /\ Before' /\ Work' /\ Round'
  BY <1>1 DEF WaveInv, TypeOK, Before, Work, Round, Launchable, Lane
<1>3. Grouped' /\ Runs'
  BY <1>1, GroupedKept, RunsKept DEF WaveInv
<1>4. Trees'
  BY <1>1 DEF WaveInv, Trees, RoundIsOver, Lane
<1>5. Verdict'
  <2>1. ~ lost
    BY <1>1 DEF WaveInv, Verdict, RoundIsOver
  <2>2. RetriesAreSpent' /\ (Typed \cup Legacy)' = Typed \cup Legacy
    BY <1>1, SettleSpends DEF RetriesAreSpent, Typed, Legacy, FailedAs, Launchable, Lane
  <2>3. ~ halted' => \A l \in Launchable' : Settled(l)'
    BY <1>1, SettledLanes DEF Settled, Launchable, Lane
  <2> QED BY <1>1, <2>1, <2>2, <2>3 DEF Verdict
<1> QED BY <1>2, <1>3, <1>4, <1>5 DEF WaveInv

LEMMA JoinedGroups ==
    ASSUME NEW S, NEW T, NEW s, NEW t, Alone(s, S), Alone(t, T), S \cap T = {}
    PROVE  Alone(s \o t, S \cup T)
<1> DEFINE groups == s \o t
           L == S \cup T
<1> USE DEF Alone
<1>1. PICK m \in Nat, n \in Nat : m = Len(s) /\ n = Len(t)
  OBVIOUS
<1>2. s \in Seq(SUBSET L) /\ t \in Seq(SUBSET L)
  OBVIOUS
<1>3. /\ DOMAIN s = 1 .. m /\ DOMAIN t = 1 .. n
      /\ groups \in Seq(SUBSET L) /\ DOMAIN groups = 1 .. m + n
      /\ \A i \in 1 .. m : groups[i] = s[i]
      /\ \A i \in 1 .. m + n : i \notin 1 .. m => groups[i] = t[i - m]
  BY <1>1, <1>2 DEF groups
<1> HIDE DEF groups, L
<1>4. \A i \in 1 .. m + n : i \in 1 .. m \/ (i \notin 1 .. m /\ i - m \in 1 .. n)
  BY <1>1
<1>5. \A i \in 1 .. m : i \in 1 .. m + n
  BY <1>1
<1>6. \A i \in 1 .. n : m + i \in 1 .. m + n /\ m + i \notin 1 .. m /\ (m + i) - m = i
  BY <1>1
<1>7. \A i \in 1 .. m : s[i] \subseteq S
  BY <1>3
<1>8. \A i \in 1 .. n : t[i] \subseteq T
  BY <1>3
<1>9. ASSUME NEW i \in 1 .. m + n PROVE \E l \in L : groups[i] = {l}
  <2>1. CASE i \in 1 .. m
    <3>1. i \in DOMAIN s /\ groups[i] = s[i]
      BY <2>1, <1>3
    <3> QED BY <3>1 DEF L
  <2>2. CASE i \notin 1 .. m
    <3>1. i - m \in DOMAIN t /\ groups[i] = t[i - m]
      BY <2>2, <1>3, <1>4
    <3> QED BY <3>1 DEF L
  <2> QED BY <2>1, <2>2
<1>10. ASSUME NEW i \in 1 .. m + n, NEW j \in 1 .. m + n, i # j
       PROVE  groups[i] \cap groups[j] = {}
  <2>1. CASE i \in 1 .. m /\ j \in 1 .. m
    BY <2>1, <1>3, <1>10
  <2>2. CASE i \notin 1 .. m /\ j \notin 1 .. m
    <3>1. i - m # j - m
      BY <1>1, <1>10
    <3>2. /\ i - m \in DOMAIN t /\ j - m \in DOMAIN t
          /\ groups[i] = t[i - m] /\ groups[j] = t[j - m]
      BY <2>2, <1>3, <1>4
    <3> QED BY <3>1, <3>2
  <2>3. CASE i \in 1 .. m /\ j \notin 1 .. m
    <3>1. groups[i] \subseteq S /\ groups[j] \subseteq T
      BY <2>3, <1>3, <1>4, <1>7, <1>8
    <3> QED BY <3>1
  <2>4. CASE i \notin 1 .. m /\ j \in 1 .. m
    <3>1. groups[j] \subseteq S /\ groups[i] \subseteq T
      BY <2>4, <1>3, <1>4, <1>7, <1>8
    <3> QED BY <3>1
  <2> QED BY <2>1, <2>2, <2>3, <2>4
<1>11. ASSUME NEW l \in L PROVE (\E i \in 1 .. m + n : l \in groups[i]) <=> l \in S \cup T
  <2>1. ASSUME NEW i \in 1 .. m + n, l \in groups[i] PROVE l \in S \cup T
    <3>1. groups[i] \subseteq S \/ groups[i] \subseteq T
      BY <1>3, <1>4, <1>7, <1>8
    <3> QED BY <2>1, <3>1
  <2>2. ASSUME l \in S PROVE \E i \in 1 .. m + n : l \in groups[i]
    <3>1. PICK i \in 1 .. m : l \in s[i]
      BY <2>2, <1>3
    <3>2. i \in 1 .. m + n /\ groups[i] = s[i]
      BY <1>3, <1>5
    <3> QED BY <3>1, <3>2
  <2>3. ASSUME l \in T PROVE \E i \in 1 .. m + n : l \in groups[i]
    <3>1. PICK i \in 1 .. n : l \in t[i]
      BY <2>3, <1>3
    <3>2. m + i \in 1 .. m + n /\ groups[m + i] = t[i]
      BY <1>3, <1>6
    <3> QED BY <3>1, <3>2
  <2> QED BY <2>1, <2>2, <2>3
<1>12. \A l \in S \cup T : \E i \in DOMAIN groups : l \in groups[i]
  BY <1>3, <1>11 DEF L
<1> QED BY <1>3, <1>9, <1>10, <1>12 DEF groups, L

\* What a correction round runs.
LEMMA CorrectionGroups ==
    ASSUME TypeOK, NEW S \in SUBSET Lane, NEW T \in SUBSET Lane, S \cap T = {}
    PROVE  Alone(Singly(S) \o Singly(T), S \cup T)
<1>1. size \in Nat /\ S \in SUBSET (1 .. size) /\ T \in SUBSET (1 .. size)
  BY SizeIsLanes DEF Lane
<1>2. Alone(Singly(S), S)
  BY <1>1, SinglyLists
<1>3. Alone(Singly(T), T)
  BY <1>1, SinglyLists
<1> QED BY <1>2, <1>3, JoinedGroups

LEMMA WaveCorrect == ASSUME WaveInv, Correct PROVE WaveInv'
<1> USE DEF given, trees
<1>1. /\ RoundIsOver /\ ~ Aborts /\ rounds < maxRounds /\ rounds' = rounds + 1
      /\ left' = Singly(Legacy) \o Singly(Eligible)
      /\ UNCHANGED <<given, trees, running, log, verdict, pc>>
      /\ pc = "launch" /\ pc' = "launch"
  BY DEF Correct, RoundIsOver
<1>2. /\ rounds \in Nat /\ rounds' \in Nat /\ rounds' > 0 /\ rounds' \in 0 .. maxRounds
      /\ maxRetries \in Nat /\ Launchable \subseteq Lane /\ TypeOK
  BY <1>1, SizeIsLanes DEF WaveInv, TypeOK
<1>3. /\ Legacy \in SUBSET Lane /\ Eligible \in SUBSET Lane /\ Legacy \cap Eligible = {}
  BY <1>1, <1>2, RoundRan DEF Eligible
<1>4. /\ left' \in Seq(SUBSET Lane)
      /\ \A i \in DOMAIN left' : \E l \in Lane : left'[i] = {l}
      /\ \A i, j \in DOMAIN left' : i # j => left'[i] \cap left'[j] = {}
      /\ \A l \in Lane : (\E i \in DOMAIN left' : l \in left'[i]) <=> l \in Legacy \cup Eligible
  <2>1. Alone(Singly(Legacy) \o Singly(Eligible), Legacy \cup Eligible)
    BY <1>2, <1>3, CorrectionGroups
  <2>2. Alone(left', Legacy \cup Eligible)
    BY <1>1, <2>1
  <2>3. Legacy \cup Eligible \subseteq Lane
    BY <1>3
  <2> QED BY <2>2, <2>3 DEF Alone
<1>5. TypeOK'
  BY <1>1, <1>2, <1>4 DEF TypeOK, Launchable, Lane, verdict
<1>6. Grouped'
  <2>1. ASSUME NEW l PROVE Apart({l})
    <3>1. Cardinality({l}) = 1
      BY FS_Singleton
    <3>2. Cardinality({l}) <= maxParallel
      BY <1>2, <3>1, SizeIsLanes DEF TypeOK
    <3> QED BY <3>2 DEF Apart
  <2>2. ASSUME NEW i \in DOMAIN left' PROVE Apart(left'[i])
    <3>1. PICK l \in Lane : left'[i] = {l}
      BY <1>4
    <3>2. Apart({l})
      BY <2>1
    <3> QED BY <3>1, <3>2
  <2>3. \A i \in DOMAIN left' : Apart(left[i])'
    BY <1>1, <2>2 DEF Apart
  <2> QED BY <1>4, <2>3 DEF Grouped
<1>7. Before' /\ Work' /\ Trees'
  BY <1>1 DEF WaveInv, Before, Work, Trees, Lane, verdict
<1>8. Round'
  <2> SUFFICES ASSUME NEW l \in Launchable PROVE IF Due(l)' THEN Again(l)' ELSE Ran(l)'
    BY <1>1 DEF Round, Launchable, Lane
  <2>1. Due(l)' <=> l \in Legacy \cup Eligible
    BY <1>1, <1>2, <1>4 DEF Due, Waiting
  <2>2. /\ Ran(l) /\ log'[l] = log[l] /\ Len(log[l]) \in Nat
        /\ l \in Typed <=> Last(log[l]) = "typed"
        /\ l \in Legacy <=> Last(log[l]) = "untyped"
    BY <1>1, RoundRan
  <2>3. CASE l \in Legacy
    <3>1. Len(log[l]) = rounds'
      BY <1>1, <2>2, <2>3 DEF Ran
    <3> QED BY <1>1, <2>1, <2>2, <2>3, <3>1 DEF Again
  <2>4. CASE l \in Eligible
    <3>1. l \in Typed /\ policy = "retry" /\ rounds < maxRetries
      BY <2>4 DEF Eligible
    <3>2. Len(log[l]) = rounds' /\ rounds' <= maxRetries
      BY <1>1, <1>2, <2>2, <3>1 DEF Ran
    <3> QED BY <1>1, <2>1, <2>2, <2>4, <3>1, <3>2 DEF Again
  <2>5. CASE l \notin Legacy \cup Eligible
    <3>1. Last(log[l]) # "untyped" /\ Len(log[l]) <= rounds' + 1
      BY <1>1, <1>2, <2>2, <2>5 DEF Ran
    <3>2. ASSUME Last(log[l]) = "typed", policy = "retry" PROVE Len(log[l]) > maxRetries
      <4>1. ~ (rounds < maxRetries)
        BY <2>2, <2>5, <3>2 DEF Eligible
      <4> QED BY <1>2, <2>2, <3>2, <4>1 DEF Ran
    <3> QED BY <1>1, <2>1, <2>2, <2>5, <3>1, <3>2 DEF Ran
  <2> QED BY <2>3, <2>4, <2>5
<1>9. Runs'
  <2>1. \A l \in Lane : Len(log'[l]) <= rounds' + 1
    <3> SUFFICES ASSUME NEW l \in Lane, NEW n, n = Len(log[l]) PROVE n <= rounds' + 1
      BY <1>1
    <3>1. n <= rounds + 1 /\ n \in Nat
      BY <1>2, SizeIsLanes DEF WaveInv, Runs
    <3> QED BY <1>1, <1>2, <3>1
  <2>2. policy = "abort" => \A l \in Launchable : log[l] # <<>> /\ log[l][1] # "typed"
    BY <1>1, NotAborted
  <2> QED BY <1>1, <2>1, <2>2 DEF WaveInv, Runs, Sound, Launchable, Lane
<1>10. Verdict'
  BY <1>1 DEF WaveInv, Verdict, Judged, verdict
<1> QED BY <1>5, <1>6, <1>7, <1>8, <1>9, <1>10 DEF WaveInv

LEMMA WaveLeaves ==
    ASSUME WaveInv, HaltEventRefused \/ \E seen \in BOOLEAN : Observe(seen)
    PROVE  WaveInv'
<1> USE DEF WaveInv, HaltEventRefused, Observe, ToRelease, given, rest
<1>1. /\ size \in Nat /\ made \in Nat /\ 1 <= made + 1 /\ 1 \in 1 .. size + 1
      /\ \A l \in Lane : ~ (l < 1)
      /\ pc = "watch" /\ pc' = "release" /\ at' = 1 /\ erred' \in BOOLEAN
      /\ lost' \in BOOLEAN /\ halted' \in BOOLEAN
      /\ UNCHANGED <<given, tree, made, rest>>
  <2>1. size \in Nat /\ made \in Nat
    BY SizeIsLanes
  <2>2. \A n \in Nat : 1 <= n + 1 /\ 1 \in 1 .. n + 1
    OBVIOUS
  <2>3. \A l \in 1 .. size : ~ (l < 1)
    BY <2>1
  <2>4. /\ pc = "watch" /\ pc' = "release" /\ at' = 1
        /\ UNCHANGED <<given, tree, made, rest>>
    OBVIOUS
  <2>5. erred' \in BOOLEAN /\ lost' \in BOOLEAN /\ halted' \in BOOLEAN
    BY DEF TypeOK
  <2> QED BY <2>1, <2>2, <2>3, <2>4, <2>5 DEF Lane
<1>2. TypeOK'
  BY <1>1 DEF TypeOK, Launchable, Lane
<1>3. Grouped' /\ Runs'
  BY GroupedKept, RunsKept
<1>4. Trees'
  <2>1. \A l \in Lane : ~ (l > made)
    BY SizeIsLanes DEF Trees
  <2> QED BY <1>1, <2>1 DEF Trees, Lane
<1>5. Before' /\ Work' /\ Round'
  BY <1>1 DEF Before, Work, Round
<1>6. Verdict'
  <2>1. /\ RetriesAreSpent' <=> RetriesAreSpent
        /\ (Typed \cup Legacy)' = Typed \cup Legacy
        /\ \A l \in Launchable' : Settled(l)' <=> Settled(l)
        /\ Launchable' = Launchable
    BY <1>1 DEF RetriesAreSpent, Typed, Legacy, FailedAs, Settled, Launchable, Lane
  <2>2. ~ halted => \A l \in Launchable : Settled(l)
    BY <1>1 DEF Verdict, Judged
  <2>3. ~ lost /\ RetriesAreSpent /\ (halted => Typed \cup Legacy # {})
    BY <1>1 DEF Verdict, Judged
  <2>4. /\ Judged' /\ ~ halted' => ~ halted
        /\ Judged' /\ ~ lost' /\ halted' => halted
    BY <1>1 DEF Judged
  <2> QED BY <1>1, <2>1, <2>2, <2>3, <2>4 DEF Verdict
<1> QED BY <1>2, <1>3, <1>4, <1>5, <1>6

LEMMA WaveReleases ==
    ASSUME WaveInv,
           \/ ReleaseTree \/ ReleaseFails \/ ReleasesEnd
           \/ \E fails \in BOOLEAN : Close(fails)
    PROVE  WaveInv'
<1> USE DEF WaveInv, ReleaseTree, ReleaseFails, ReleasesEnd, Close, given, trees, rest,
           verdict
<1>1. /\ pc \in {"release", "close"} /\ pc' \in {"release", "close", "returned", "raised"}
      /\ UNCHANGED <<given, made, rest, lost, halted>>
      /\ erred' \in BOOLEAN /\ (erred => erred')
  <2>1. erred \in BOOLEAN
    BY DEF TypeOK
  <2>2. CASE ReleaseTree \/ ReleaseFails \/ ReleasesEnd
    <3>1. CASE ReleaseTree
      BY <2>1, <3>1
    <3>2. CASE ReleaseFails
      BY <2>1, <3>2
    <3>3. CASE ReleasesEnd
      BY <2>1, <3>3
    <3> QED BY <2>2, <3>1, <3>2, <3>3
  <2>3. CASE \E fails \in BOOLEAN : Close(fails)
    BY <2>1, <2>3
  <2> QED BY <2>2, <2>3
<1>2. /\ size \in Nat /\ made \in Nat /\ made <= size /\ at \in Nat /\ at \in 1 .. size + 1
      /\ \A l \in Lane : l \in Nat
  BY SizeIsLanes DEF TypeOK
<1>3. TypeOK'
  <2>1. at' \in 1 .. size + 1
    BY <1>2
  <2>2. tree' \in [Lane -> {"none", "attested", "other", "partial"}]
    BY DEF TypeOK
  <2> QED BY <1>1, <2>1, <2>2 DEF TypeOK, Launchable, Lane
<1>4. Grouped' /\ Runs'
  BY GroupedKept, RunsKept
<1>5. Trees'
  <2>1. CASE ReleaseTree
    <3>1. /\ at \in Lane /\ at' = at + 1 /\ at' <= made + 1
          /\ pc' = "release" /\ UNCHANGED <<made, erred, running, size>>
      BY <2>1, <1>2 DEF Lane
    <3>2. tree'[at] = "none" /\ \A l \in Lane : l # at => tree'[l] = tree[l]
      BY <2>1, <3>1 DEF TypeOK
    <3>3. \A l \in Lane : l < at + 1 => l < at \/ l = at
      BY <1>2
    <3> QED BY <2>1, <3>1, <3>2, <3>3 DEF Trees, Lane
  <2>2. CASE ~ ReleaseTree
    <3>1. UNCHANGED <<tree, made, at, running, size>>
      BY <2>2
    <3>2. pc' # "release" /\ ~ erred' => at > made
      BY <2>2 DEF Trees
    <3> QED BY <1>1, <2>2, <3>1, <3>2 DEF Trees, Lane
  <2> QED BY <2>1, <2>2
<1>6. Before' /\ Work' /\ Round'
  BY <1>1 DEF Before, Work, Round
<1>7. Verdict'
  <2>1. /\ RetriesAreSpent' <=> RetriesAreSpent
        /\ (Typed \cup Legacy)' = Typed \cup Legacy
        /\ \A l \in Launchable' : Settled(l)' <=> Settled(l)
        /\ Launchable' = Launchable
    BY <1>1 DEF RetriesAreSpent, Typed, Legacy, FailedAs, Settled, Launchable, Lane
  <2>2. Judged' => Judged
    BY <1>1 DEF Judged
  <2> QED BY <1>1, <2>1, <2>2 DEF Verdict
<1> QED BY <1>3, <1>4, <1>5, <1>6, <1>7

LEMMA WaveNext == ASSUME WaveInv, [Next]_vars PROVE WaveInv'
<1>1. CASE Next
  BY <1>1, WaveObserver, WaveProvision, WaveProvisionFails, WaveStartGroup, WaveEndGroup,
     WaveGroupRaises, WaveAbort, WaveCorrect, WaveSettle, WaveLeaves, WaveReleases DEF Next
<1>2. CASE UNCHANGED vars
  <2> USE <1>2 DEF vars, given, trees, rest, verdict, WaveInv
  <2>1. TypeOK' /\ Grouped' /\ Before' /\ Trees' /\ Work'
    BY DEF TypeOK, Grouped, Apart, Before, Waiting, Trees, Work, Launchable, Lane
  <2>2. Round' /\ Runs'
    BY DEF Round, Due, Waiting, Again, Ran, Runs, Sound, Launchable, Lane
  <2>3. Verdict'
    BY DEF Verdict, Judged, Settled, RetriesAreSpent, Typed, Legacy, FailedAs, Launchable,
       Lane
  <2> QED BY <2>1, <2>2, <2>3
<1> QED BY <1>1, <1>2

LEMMA WaveInvariant == Spec => []WaveInv
<1>1. Init => WaveInv
  BY WaveInit
<1>2. WaveInv /\ [Next]_vars => WaveInv'
  BY WaveNext
<1> QED BY <1>1, <1>2, PTL DEF Spec

LEMMA WaveApart == ASSUME WaveInv PROVE WorkersAreApart
<1> USE DEF WaveInv
<1>1. running # {} => pc = "working" \/ erred
  BY DEF Trees, TypeOK
<1>2. ASSUME pc = "working"
      PROVE  /\ \A l \in Lane : tree[l] = "attested"
             /\ \A l, k \in running : l # k => repo[l] # repo[k]
             /\ Cardinality(running) <= maxParallel
  <2>1. \A l \in Lane : tree[l] = "attested"
    BY <1>2, SizeIsLanes DEF Trees
  <2>2. /\ 1 \in DOMAIN left /\ running \subseteq left[1] /\ Apart(left[1])
        /\ left[1] \in SUBSET Lane /\ maxParallel \in Nat
    BY <1>2 DEF Work, Grouped, TypeOK
  <2>3. IsFiniteSet(left[1]) /\ Cardinality(left[1]) \in Nat /\ Cardinality(running) \in Nat
    BY <2>2, SizeIsLanes, LanesAreFinite DEF Lane
  <2>4. Cardinality(running) <= Cardinality(left[1])
    BY <2>2, <2>3, FS_Subset
  <2> QED BY <2>1, <2>2, <2>3, <2>4 DEF Apart
<1> QED BY <1>1, <1>2 DEF WorkersAreApart

LEMMA WaveReleased == ASSUME WaveInv PROVE TreesAreReleased
<1> SUFFICES ASSUME pc \in {"returned", "raised"}, NEW l \in Lane, tree[l] # "none"
             PROVE  /\ pc = "raised"
                    /\ \/ tree[l] = "partial" /\ l = made + 1
                       \/ at <= l /\ l <= made
  BY DEF TreesAreReleased
<1>1. l \in Nat /\ at \in Nat /\ made \in Nat
  BY SizeIsLanes DEF WaveInv
<1>2. /\ ~ (l < at)
      /\ l > made => erred /\ tree[l] = "partial" /\ l = made + 1
      /\ ~ erred => at > made
      /\ pc = "returned" => ~ erred
  BY DEF WaveInv, Trees
<1> QED BY <1>1, <1>2

LEMMA WaveTold == ASSUME WaveInv PROVE VerdictTellsLanes
<1> USE DEF WaveInv
<1>1. RetriesAreAllowed
  <2> SUFFICES ASSUME NEW l \in Lane
               PROVE  /\ Len(log[l]) <= maxRounds + 1
                      /\ \A k \in 1 .. Len(log[l]) - 1 :
                            /\ \/ log[l][k] = "untyped"
                               \/ log[l][k] = "typed" /\ policy = "retry" /\ k <= maxRetries
                            /\ policy = "abort" => \A j \in Launchable : log[j][1] # "typed"
    BY DEF RetriesAreAllowed
  <2>1. /\ Len(log[l]) \in Nat /\ rounds \in Nat /\ rounds <= maxRounds /\ maxRounds \in Nat
        /\ Len(log[l]) <= rounds + 1 /\ Sound(l)
    BY SizeIsLanes DEF TypeOK, Runs
  <2>2. \A m, n, r \in Nat : m <= n + 1 /\ n <= r => m <= r + 1
    OBVIOUS
  <2>3. Len(log[l]) <= maxRounds + 1
    BY <2>1, <2>2
  <2>4. ASSUME NEW k \in 1 .. Len(log[l]) - 1, policy = "abort", NEW j \in Launchable
        PROVE  log[j][1] # "typed"
    <3>1. rounds > 0
      BY <2>1
    <3> QED BY <2>4, <3>1 DEF Runs
  <2> QED BY <2>1, <2>3, <2>4 DEF Sound
<1>2. pc = "returned" => Judged
  BY DEF Judged, Trees
<1> QED BY <1>1, <1>2 DEF Verdict, Settled, VerdictTellsLanes

\* Types of the wave: groups, worktrees, receipts and the way out.
THEOREM WaveTypeCorrect == Spec => []TypeOK
<1>1. WaveInv => TypeOK
  BY DEF WaveInv
<1> QED BY <1>1, WaveInvariant, PTL

\* While the groups are launched every lane has its worktree at the declared base,
\* and the workers that run at one time are at most max_parallel, no two of them on
\* one repository; a worker outlives its group only where the group raised.
THEOREM WorkersStayApart == Spec => []WorkersAreApart
<1>1. WaveInv => WorkersAreApart
  BY WaveApart
<1> QED BY <1>1, WaveInvariant, PTL

\* A dispatch that returned has released every worktree; one that raised leaves only
\* the tree acquire() made and gave up, or those from a failed release on.
THEOREM NoTreeIsForgotten == Spec => []TreesAreReleased
<1>1. WaveInv => TreesAreReleased
  BY WaveReleased
<1> QED BY <1>1, WaveInvariant, PTL

\* Lanes are run again only as far as policy and budget go; a wave that returns
\* without halting ran every launchable lane to an end its policy accepts, and one
\* that halts, unless it lost its observer, has a lane that failed with no run left.
THEOREM TheVerdictTells == Spec => []VerdictTellsLanes
<1>1. WaveInv => VerdictTellsLanes
  BY WaveTold
<1> QED BY <1>1, WaveInvariant, PTL

-----------------------------------------------------------------------------
(* One launch group.                                                       *)

\* What the constants are is known from here on.
USE GroupAssumption

Live(i) == pump[i] \in {"waiting", "beating"}

Unlaunched == passed \cup rejected

\* The preflight deals the lanes out in order: launched, done in place or blocked.
Sorting ==
    /\ seam = IF total = 1 THEN "inline" ELSE "fan_out"
    /\ passed \subseteq 1 .. total
    /\ rejected \subseteq 1 .. total
    /\ passed \cap rejected = {}
    /\ Len(group) <= total
    /\ Len(group) = total => Unlaunched = {}
    /\ \A k \in DOMAIN group : group[k] \in 1 .. total /\ group[k] \notin Unlaunched
    /\ \A j, k \in DOMAIN group : group[j] = group[k] => j = k
    /\ phase = "preflight" =>
          /\ turn <= total /\ Len(group) < turn
          /\ (\E l \in Unlaunched : l < turn) => Len(group) + 1 < turn
          /\ \A k \in DOMAIN group : group[k] < turn
          /\ \A l \in 1 .. total :
               l < turn /\ l \notin Unlaunched => \E k \in DOMAIN group : group[k] = l
    /\ phase \notin {"preflight", "raised"} =>
          \A l \in 1 .. total : l \notin Unlaunched => \E k \in DOMAIN group : group[k] = l

\* How many results there are for each place in the fan-out.
Place ==
    /\ Len(results) <= Len(group)
    /\ phase \in {"start", "started", "wait", "grace", "drain", "store", "ended", "collected"} =>
          turn <= Len(group)
    /\ phase \in {"preflight", "start"} => results = <<>>
    /\ phase \in {"started", "wait", "grace", "drain"} => Len(results) + 1 = turn
    /\ phase \in {"store", "ended"} => Len(results) = turn
    /\ phase \in {"collected", "leaving"} => Len(results) = Len(group)
    /\ phase = "raising" /\ seam = "fan_out" => Len(results) = Len(group) \/ Len(results) = turn

\* A result is of a child that is gone, with its whole group of processes.
Reaping ==
    /\ phase = "preflight" => \A i \in Child : leader[i] = "none"
    /\ phase = "start" => \A i \in Child : i >= turn => leader[i] = "none"
    /\ \A i \in Child : leader[i] = "none" => tail[i] = "none"
    /\ \A i \in Child : leader[i] = "dead" <=> how[i] # "none"
    /\ phase \in {"grace", "drain"} => timed
    /\ \A i \in DOMAIN results :
          /\ leader[i] # "alive" /\ tail[i] # "alive"
          /\ CASE results[i] = "launch_failed" -> leader[i] = "none"
               [] results[i] = "timed_out" -> timed /\ leader[i] = "dead"
               [] OTHER -> results[i] = how[i]

\* Only the child at hand has a heartbeat thread, and only while it is in the fan-out.
Pumping ==
    /\ \A i \in Child : Live(i) => i = turn /\ (i \in active \/ phase = "ended")
    /\ \A i \in active : /\ i = turn /\ i <= Len(group)
                         /\ phase \in {"wait", "grace", "drain", "store", "ended", "raising"}
                         /\ leader[i] # "none" /\ (phase = "store" => seam = "fan_out")
    /\ \A i \in Child : pump[i] = "beating" => beats[i] < MaxBeats

\* Until the first child is told of, and while a heartbeat thread may live.
Quiet ==
    \/ phase \in {"preflight", "start", "started", "wait", "grace", "drain", "store", "ended"}
    \/ active # {}

\* The lanes whose end is on the stream by now, exactly once.
ToTell(l) ==
    \/ l \in rejected /\ (phase = "preflight" => l < turn)
    \/ phase = "collected" /\ \E k \in DOMAIN group : k < turn /\ group[k] = l
    \/ /\ phase \in {"leaving", "returned"} /\ l \notin rejected
       /\ ~ (l \in passed /\ seam = "fan_out")

Streaming ==
    /\ Quiet => \A n \in DOMAIN stream : stream[n].kind # "heartbeat" => stream[n].lane \in rejected
    /\ phase \notin {"raising", "raised"} =>
          \A l \in 1 .. total : IF ToTell(l) THEN ToldOnce(l) ELSE Ends(l) = {}

GroupInv ==
    /\ GroupTypeOK
    /\ Sorting
    /\ Place
    /\ Reaping
    /\ Pumping
    /\ Streaming
    /\ SilentAfterTerminal

-----------------------------------------------------------------------------
LEMMA GroupFacts ==
    ASSUME GroupTypeOK, Sorting, Place
    PROVE  /\ MaxGroup \in Nat /\ Child = 1 .. MaxGroup /\ GroupLane = 1 .. MaxGroup
           /\ total \in Nat /\ 1 <= total /\ total <= MaxGroup
           /\ turn \in Nat /\ 1 <= turn /\ turn \in Child
           /\ Len(group) \in Nat /\ DOMAIN group = 1 .. Len(group) /\ Len(group) <= total
           /\ Len(results) \in Nat /\ DOMAIN results = 1 .. Len(results)
           /\ Len(results) <= Len(group)
           /\ \A i \in 1 .. Len(group) : i \in Child
           /\ \A i \in DOMAIN results : i \in Child /\ i <= Len(group)
<1> USE DEF ConstantsFit, GroupTypeOK, Child, GroupLane
<1>1. /\ MaxGroup \in Nat /\ Child = 1 .. MaxGroup /\ GroupLane = 1 .. MaxGroup
      /\ total \in Nat /\ 1 <= total /\ total <= MaxGroup
      /\ turn \in Nat /\ 1 <= turn /\ turn \in Child
  OBVIOUS
<1>2. /\ Len(group) \in Nat /\ DOMAIN group = 1 .. Len(group) /\ Len(group) <= total
      /\ Len(results) \in Nat /\ DOMAIN results = 1 .. Len(results)
      /\ Len(results) <= Len(group)
  BY DEF Sorting, Place
<1>3. \A m, n \in Nat : m <= n => \A i \in 1 .. m : i \in 1 .. n /\ i <= n
  OBVIOUS
<1> QED BY <1>1, <1>2, <1>3

\* A status of two lines, of which the sink took some.
LEMMA StatusEmitted ==
    ASSUME GroupTypeOK, NEW l \in GroupLane, NEW ok \in BOOLEAN, NEW taken \in 0 .. 2,
           EmitStatus(l, ok, taken), NEW n, n = Len(stream)
    PROVE  /\ n \in Nat /\ stream' \in Seq(Event) /\ DOMAIN stream' = 1 .. n + taken
           /\ \A k \in 1 .. n : stream'[k] = stream[k]
           /\ \A k \in 1 .. n + taken : k \notin 1 .. n =>
                 stream'[k].kind # "heartbeat" /\ stream'[k].lane = l
           /\ taken = 2 => <<stream'[n + 1], stream'[n + 2]>> = Status(l, ok)
<1> DEFINE told == SubSeq(Status(l, ok), 1, taken)
<1>1. /\ stream \in Seq(Event) /\ n \in Nat /\ DOMAIN stream = 1 .. n
      /\ stream' = stream \o told
  BY DEF GroupTypeOK, EmitStatus
<1>2. Status(l, ok) \in Seq(Event) /\ Len(Status(l, ok)) = 2
  BY DEF Status, Event, GroupLane
<1>3. /\ told \in Seq(Event) /\ Len(told) = taken
      /\ \A k \in 1 .. taken : told[k] = Status(l, ok)[k]
  <2> DEFINE s == Status(l, ok)
  <2>1. \A k \in 1 .. taken : k \in 1 .. 2 /\ s[k] \in Event /\ 1 + k - 1 = k
    BY <1>2
  <2>2. taken \in Int /\ 1 \in Int /\ taken - 1 + 1 = taken
    OBVIOUS
  <2> HIDE DEF s
  <2>3. /\ SubSeq(s, 1, taken) \in Seq(Event)
        /\ Len(SubSeq(s, 1, taken)) = IF 1 <= taken THEN taken - 1 + 1 ELSE 0
        /\ \A k \in 1 .. taken - 1 + 1 : SubSeq(s, 1, taken)[k] = s[1 + k - 1]
    BY <2>1, <2>2, SubSeqProperties
  <2> QED BY <2>1, <2>2, <2>3 DEF s
<1>4. \A k \in 1 .. 2 : Status(l, ok)[k].kind # "heartbeat" /\ Status(l, ok)[k].lane = l
  BY DEF Status
<1> HIDE DEF told
<1>5. /\ stream' \in Seq(Event) /\ DOMAIN stream' = 1 .. n + taken
      /\ \A k \in 1 .. n : stream'[k] = stream[k]
      /\ \A k \in 1 .. n + taken : k \notin 1 .. n => stream'[k] = told[k - n]
  BY <1>1, <1>3
<1>6. \A k \in 1 .. n + taken : k \notin 1 .. n => k - n \in 1 .. taken /\ k - n \in 1 .. 2
  BY <1>1
<1>7. \A k \in 1 .. n + taken : k \notin 1 .. n =>
         stream'[k].kind # "heartbeat" /\ stream'[k].lane = l
  BY <1>3, <1>4, <1>5, <1>6
<1>8. ASSUME taken = 2 PROVE <<stream'[n + 1], stream'[n + 2]>> = Status(l, ok)
  <2>1. /\ n + 1 \in 1 .. n + taken /\ n + 1 \notin 1 .. n
        /\ n + 1 - n = 1 /\ 1 \in 1 .. taken
        /\ n + 2 \in 1 .. n + taken /\ n + 2 \notin 1 .. n
        /\ n + 2 - n = 2 /\ 2 \in 1 .. taken
    BY <1>1, <1>8
  <2>2. stream'[n + 1] = Status(l, ok)[1] /\ stream'[n + 2] = Status(l, ok)[2]
    BY <1>3, <1>5, <2>1
  <2> QED BY <2>2 DEF Status
<1> QED BY <1>1, <1>5, <1>7, <1>8

LEMMA SortingKept ==
    ASSUME Sorting, UNCHANGED <<seam, total, passed, rejected, group>>,
           \/ phase' = phase /\ turn' = turn
           \/ phase' # "preflight" /\ (phase' = "raised" \/ phase \notin {"preflight", "raised"})
    PROVE  Sorting'
BY DEF Sorting, Unlaunched

LEMMA EndsKept ==
    ASSUME GroupTypeOK, Sorting, Place,
           UNCHANGED <<stream, passed, group>>,
           \A i \in Child : how[i] = "zero" => how'[i] = "zero",
           NEW l
    PROVE  Ends(l)' = Ends(l) /\ (ToldOnce(l) => ToldOnce(l)')
BY GroupFacts DEF Ends, ToldOnce, Status

LEMMA StreamingKept ==
    ASSUME GroupInv,
           UNCHANGED <<stream, total, passed, rejected, group, seam>>,
           \A i \in Child : how[i] = "zero" => how'[i] = "zero",
           Quiet' => Quiet,
           phase' \notin {"raising", "raised"} =>
              phase \notin {"raising", "raised"} /\ \A l \in 1 .. total : ToTell(l)' <=> ToTell(l)
    PROVE  Streaming' /\ SilentAfterTerminal'
<1>1. \A l : Ends(l)' = Ends(l) /\ (ToldOnce(l) => ToldOnce(l)')
  BY EndsKept DEF GroupInv
<1>2. Streaming'
  BY <1>1 DEF GroupInv, Streaming
<1>3. SilentAfterTerminal'
  BY DEF GroupInv, SilentAfterTerminal
<1> QED BY <1>2, <1>3
LEMMA EndsTold ==
    ASSUME GroupTypeOK, UNCHANGED <<total, passed, group, how>>,
           NEW l \in GroupLane, NEW ok \in BOOLEAN, NEW taken \in 0 .. 2,
           EmitStatus(l, ok, taken)
    PROVE  /\ \A m : m # l => Ends(m)' = Ends(m) /\ (ToldOnce(m) => ToldOnce(m)')
           /\ /\ Ends(l) = {} /\ taken = 2
              /\ ok /\ l \notin passed => \E i \in DOMAIN group : group[i] = l /\ how[i] = "zero"
              => ToldOnce(l)'
           /\ SilentAfterTerminal => SilentAfterTerminal'
<1>0. PICK n : n = Len(stream)
  OBVIOUS
<1>1. /\ n \in Nat /\ stream' \in Seq(Event) /\ DOMAIN stream' = 1 .. n + taken
      /\ \A k \in 1 .. n : stream'[k] = stream[k]
      /\ \A k \in 1 .. n + taken : k \notin 1 .. n =>
            stream'[k].kind # "heartbeat" /\ stream'[k].lane = l
      /\ taken = 2 => <<stream'[n + 1], stream'[n + 2]>> = Status(l, ok)
  BY <1>0, StatusEmitted
<1>2. DOMAIN stream = 1 .. n
  BY <1>0 DEF GroupTypeOK
<1>3. \A k \in 1 .. n : k \in 1 .. n + taken
  BY <1>1
<1>4. ASSUME NEW m, m # l
      PROVE Ends(m)' = Ends(m) /\ (ToldOnce(m) => ToldOnce(m)')
  <2>1. Ends(m)' = Ends(m)
    BY <1>1, <1>2, <1>3, <1>4 DEF Ends
  <2>2. ASSUME ToldOnce(m) PROVE ToldOnce(m)'
    <3>1. PICK r \in BOOLEAN, p \in 1 .. n, q \in 1 .. n :
             /\ p < q /\ Ends(m) = {p, q}
             /\ <<stream[p], stream[q]>> = Status(m, r)
             /\ r /\ m \notin passed => \E i \in DOMAIN group : group[i] = m /\ how[i] = "zero"
      BY <2>2, <1>2 DEF ToldOnce
    <3>2. p \in DOMAIN stream' /\ q \in DOMAIN stream'
      BY <1>1, <1>3
    <3>3. <<stream'[p], stream'[q]>> = Status(m, r)
      BY <1>1, <3>1
    <3> QED BY <2>1, <3>1, <3>2, <3>3 DEF ToldOnce, Status
  <2> QED BY <2>1, <2>2
<1>5. ASSUME Ends(l) = {}, taken = 2,
             ok /\ l \notin passed => \E i \in DOMAIN group : group[i] = l /\ how[i] = "zero"
      PROVE  ToldOnce(l)'
  <2>1. \A k \in 1 .. n + 2 : k \in 1 .. n \/ k = n + 1 \/ k = n + 2
    BY <1>1
  <2>2. /\ n + 1 \in 1 .. n + 2 /\ n + 2 \in 1 .. n + 2 /\ n + 1 < n + 2
        /\ n + 1 \notin 1 .. n /\ n + 2 \notin 1 .. n
    BY <1>1
  <2>3. \A k \in 1 .. n : ~ (stream'[k].lane = l /\ stream'[k].kind # "heartbeat")
    BY <1>1, <1>2, <1>5 DEF Ends
  <2>4. Ends(l)' = {n + 1, n + 2}
    BY <1>1, <1>5, <2>1, <2>2, <2>3 DEF Ends
  <2>5. <<stream'[n + 1], stream'[n + 2]>> = Status(l, ok)
    BY <1>1, <1>5
  <2> QED BY <1>1, <1>5, <2>2, <2>4, <2>5 DEF ToldOnce, Status
<1>6. ASSUME SilentAfterTerminal PROVE SilentAfterTerminal'
  <2> SUFFICES ASSUME NEW i \in 1 .. n + taken, NEW j \in 1 .. n + taken, i < j,
                      stream'[i].kind = "process_terminal", stream'[j].kind = "heartbeat"
               PROVE  /\ stream'[i].lane # stream'[j].lane
                      /\ Len(group) = total => stream'[i].child # stream'[j].child
    BY <1>1 DEF SilentAfterTerminal
  <2>1. j \in 1 .. n
    BY <1>1
  <2>2. i \in 1 .. n
    BY <2>1, <1>1
  <2> QED BY <2>1, <2>2, <1>1, <1>2, <1>6 DEF SilentAfterTerminal
<1> QED BY <1>4, <1>5, <1>6

LEMMA EndsBeat ==
    ASSUME GroupTypeOK, UNCHANGED <<passed, group, how>>,
           NEW e \in Event, e.kind = "heartbeat", stream' = Append(stream, e), NEW m
    PROVE  Ends(m)' = Ends(m) /\ (ToldOnce(m) => ToldOnce(m)')
<1>1. PICK n \in Nat : n = Len(stream)
  BY DEF GroupTypeOK
<1>2. /\ DOMAIN stream = 1 .. n /\ DOMAIN stream' = 1 .. n + 1
      /\ \A k \in 1 .. n : stream'[k] = stream[k]
      /\ stream'[n + 1] = e
  BY <1>1 DEF GroupTypeOK
<1>3. \A k \in 1 .. n + 1 : k \in 1 .. n \/ k = n + 1
  OBVIOUS
<1>4. \A k \in 1 .. n : k \in 1 .. n + 1
  OBVIOUS
<1>5. Ends(m)' = Ends(m)
  BY <1>2, <1>3, <1>4 DEF Ends
<1>6. ASSUME ToldOnce(m) PROVE ToldOnce(m)'
  <2>1. PICK r \in BOOLEAN, p \in 1 .. n, q \in 1 .. n :
           /\ p < q /\ Ends(m) = {p, q}
           /\ <<stream[p], stream[q]>> = Status(m, r)
           /\ r /\ m \notin passed => \E i \in DOMAIN group : group[i] = m /\ how[i] = "zero"
    BY <1>2, <1>6 DEF ToldOnce
  <2>2. p \in DOMAIN stream' /\ q \in DOMAIN stream'
    BY <1>2, <1>4
  <2>3. <<stream'[p], stream'[q]>> = Status(m, r)
    BY <1>2, <2>1
  <2> QED BY <1>5, <2>1, <2>2, <2>3 DEF ToldOnce, Status
<1> QED BY <1>5, <1>6

-----------------------------------------------------------------------------
(* The steps of the preflight.                                             *)

LEMMA PreflightFacts ==
    ASSUME GroupInv, phase = "preflight"
    PROVE  /\ results = <<>> /\ active = {} /\ (\A i \in Child : ~ Live(i))
           /\ \A i \in Child : leader[i] = "none" /\ tail[i] # "alive" /\ how[i] = "none"
           /\ turn \in 1 .. total /\ Len(group) < turn
BY GroupFacts DEF GroupInv, Sorting, Place, Reaping, Pumping, GroupTypeOK

\* What a step of the preflight leaves as it is, wherever it goes on.
LEMMA PreflightKept ==
    ASSUME GroupInv, phase = "preflight",
           phase' \in {"preflight", "start", "returned", "raised"},
           UNCHANGED <<leader, tail, how, results, pump, beats, active, seam, total>>,
           group' \in Seq(GroupLane), turn' \in Nat, turn' >= 1,
           phase' = "start" => group' # <<>> /\ turn' = 1
    PROVE  Place' /\ Reaping' /\ Pumping'
<1>1. Place'
  <2>1. results' = <<>> /\ Len(results') = 0 /\ Len(group') \in Nat
    BY PreflightFacts
  <2>2. phase' = "start" => turn' <= Len(group')
    OBVIOUS
  <2> QED BY <2>1, <2>2 DEF Place
<1>2. Reaping'
  <2>1. DOMAIN results' = {}
    BY PreflightFacts
  <2> QED BY <2>1, PreflightFacts DEF Reaping, GroupInv, Child
<1>3. Pumping'
  BY PreflightFacts DEF Pumping, Live, GroupInv, Child
<1> QED BY <1>1, <1>2, <1>3

LEMMA LaneSorted ==
    ASSUME GroupInv, phase = "preflight",
           UNCHANGED <<seam, groupGiven>>,
           NextLane(group'),
           \/ turn \in Unlaunched /\ group' = group
           \/ turn \notin Unlaunched /\ group' = Append(group, turn)
    PROVE  /\ Sorting' /\ group' \in Seq(GroupLane) /\ turn' \in GroupLane
           /\ phase' \in {"preflight", "start", "returned"}
           /\ phase' = "start" => group' # <<>> /\ turn' = 1
<1> USE DEF groupGiven
<1>1. PICK n \in Nat : n = Len(group)
  BY DEF GroupInv, GroupTypeOK
<1>2. /\ MaxGroup \in Nat /\ GroupLane = 1 .. MaxGroup /\ total \in Nat /\ total <= MaxGroup
      /\ turn \in Nat /\ 1 <= turn /\ turn <= total /\ n < turn /\ DOMAIN group = 1 .. n
      /\ \A k \in 1 .. n : group[k] < turn /\ group[k] \in 1 .. total /\ group[k] \notin Unlaunched
      /\ \A j, k \in 1 .. n : group[j] = group[k] => j = k
      /\ (\E l \in Unlaunched : l < turn) => n + 1 < turn
      /\ \A l \in 1 .. total : l < turn /\ l \notin Unlaunched => \E k \in 1 .. n : group[k] = l
  BY <1>1, GroupFacts DEF GroupInv, Sorting
<1>3. group' \in Seq(GroupLane)
  <2>1. turn \in GroupLane /\ group \in Seq(GroupLane)
    BY DEF GroupInv, GroupTypeOK
  <2> QED BY <2>1
<1>4. PICK m \in Nat : /\ m = Len(group') /\ DOMAIN group' = 1 .. m /\ m <= turn
                       /\ \A k \in 1 .. n : k \in 1 .. m /\ group'[k] = group[k]
                       /\ \A k \in 1 .. m :
                              k \in 1 .. n \/ (k = m /\ m = n + 1 /\ group'[k] = turn
                                               /\ turn \notin Unlaunched)
                       /\ turn \in Unlaunched => m = n
                       /\ turn \notin Unlaunched => m = n + 1 /\ m \in 1 .. m /\ group'[m] = turn
  <2>1. CASE turn \in Unlaunched /\ group' = group
    BY <1>1, <1>2, <2>1
  <2>2. CASE turn \notin Unlaunched /\ group' = Append(group, turn)
    <3>1. /\ n + 1 = Len(group') /\ DOMAIN group' = 1 .. n + 1
          /\ \A k \in 1 .. n : group'[k] = group[k]
          /\ group'[n + 1] = turn
      BY <1>1, <1>2, <2>2 DEF GroupInv, GroupTypeOK
    <3> QED BY <1>2, <2>2, <3>1
  <2> QED BY <2>1, <2>2
<1>5. \A k \in 1 .. m : group'[k] <= turn /\ group'[k] \in 1 .. total /\ group'[k] \notin Unlaunched
  BY <1>2, <1>4
<1>6. \A j, k \in 1 .. m : group'[j] = group'[k] => j = k
  <2> SUFFICES ASSUME NEW j \in 1 .. m, NEW k \in 1 .. m, group'[j] = group'[k] PROVE j = k
    OBVIOUS
  <2>1. CASE j \in 1 .. n /\ k \in 1 .. n
    BY <2>1, <1>2, <1>4
  <2>2. CASE j \notin 1 .. n /\ k \notin 1 .. n
    BY <2>2, <1>4
  <2>3. CASE j \in 1 .. n /\ k \notin 1 .. n
    BY <2>3, <1>2, <1>4
  <2>4. CASE j \notin 1 .. n /\ k \in 1 .. n
    BY <2>4, <1>2, <1>4
  <2> QED BY <2>1, <2>2, <2>3, <2>4
<1>7. \A l \in 1 .. total : l <= turn /\ l \notin Unlaunched => \E k \in 1 .. m : group'[k] = l
  <2> SUFFICES ASSUME NEW l \in 1 .. total, l <= turn, l \notin Unlaunched
               PROVE  \E k \in 1 .. m : group'[k] = l
    OBVIOUS
  <2>1. CASE l = turn
    BY <2>1, <1>4
  <2>2. CASE l # turn
    <3>1. l < turn
      BY <2>2, <1>2
    <3>2. PICK k \in 1 .. n : group[k] = l
      BY <3>1, <1>2
    <3> QED BY <3>2, <1>4
  <2> QED BY <2>1, <2>2
<1>8. (\E l \in Unlaunched : l <= turn) => m < turn
  <2> SUFFICES ASSUME NEW l \in Unlaunched, l <= turn PROVE m < turn
    OBVIOUS
  <2>1. l \in Nat
    BY <1>2 DEF Unlaunched, GroupInv, Sorting
  <2>2. CASE turn \in Unlaunched
    BY <2>2, <1>2, <1>4
  <2>3. CASE turn \notin Unlaunched
    <3>1. l < turn
      BY <2>1, <2>3, <1>2
    <3> QED BY <2>3, <3>1, <1>2, <1>4
  <2> QED BY <2>2, <2>3
<1>9. Unlaunched' = Unlaunched /\ \A l \in Unlaunched : l \in 1 .. total
  BY DEF Unlaunched, GroupInv, Sorting
<1>10. CASE turn < total
  <2>1. turn' = turn + 1 /\ phase' = "preflight"
    BY <1>10 DEF NextLane
  <2>2. \A l \in Nat : l < turn + 1 <=> l <= turn
    BY <1>2
  <2>3. /\ turn' <= total' /\ m < turn' /\ turn' \in GroupLane /\ m <= total /\ m # total
        /\ \A k \in 1 .. m : group'[k] < turn'
    BY <1>2, <1>4, <1>5, <1>10, <2>1
  <2>4. /\ (\E l \in Unlaunched : l < turn') => m + 1 < turn'
        /\ \A l \in 1 .. total : l < turn' /\ l \notin Unlaunched => \E k \in 1 .. m : group'[k] = l
    BY <1>2, <1>7, <1>8, <1>9, <2>1, <2>2
  <2> QED BY <1>3, <1>4, <1>5, <1>6, <1>9, <2>1, <2>3, <2>4 DEF Sorting, GroupInv
<1>11. CASE ~ (turn < total)
  <2>1. /\ turn = total /\ turn' = 1 /\ turn' \in GroupLane
        /\ phase' = IF group' = <<>> THEN "returned" ELSE "start"
    BY <1>2, <1>11 DEF NextLane
  <2>2. m <= total /\ (m = total => Unlaunched = {})
    BY <1>2, <1>4, <1>8, <1>9, <2>1
  <2>3. \A l \in 1 .. total : l \notin Unlaunched => \E k \in 1 .. m : group'[k] = l
    BY <1>7, <2>1
  <2> QED BY <1>3, <1>4, <1>5, <1>6, <1>9, <2>1, <2>2, <2>3 DEF Sorting, GroupInv
<1> QED BY <1>10, <1>11

\* A status told during the preflight.
LEMMA PreflightTells ==
    ASSUME GroupInv, phase = "preflight", NEW here, here = turn,
           here \in Unlaunched,
           UNCHANGED <<seam, groupGiven, group, how, active>>,
           NEW ok \in BOOLEAN, NEW taken \in 0 .. 2, EmitStatus(here, ok, taken),
           here \in rejected => ~ ok,
           \/ phase' = "raised"
           \/ taken = 2 /\ NextLane(group) /\ (turn \notin rejected => seam = "inline")
    PROVE  Streaming' /\ SilentAfterTerminal'
<1> USE DEF groupGiven
<1>1. /\ here \in GroupLane /\ turn \in GroupLane
      /\ turn \in 1 .. total /\ active = {} /\ GroupTypeOK
      /\ total \in Nat
      /\ Unlaunched = passed \cup rejected /\ rejected \subseteq 1 .. total
  BY PreflightFacts, GroupFacts DEF GroupInv, GroupTypeOK, Unlaunched, Sorting
<1>2. /\ \A m : m # here => Ends(m)' = Ends(m) /\ (ToldOnce(m) => ToldOnce(m)')
      /\ /\ Ends(here) = {} /\ taken = 2
         /\ ok /\ here \notin passed => \E i \in DOMAIN group : group[i] = here /\ how[i] = "zero"
         => ToldOnce(here)'
      /\ SilentAfterTerminal'
  <2>1. SilentAfterTerminal /\ UNCHANGED <<total, passed, group, how>>
    BY DEF GroupInv
  <2> QED BY <1>1, <2>1, EndsTold
<1>3. ASSUME phase' = "raised"
      PROVE  Streaming'
  BY <1>1, <1>2, <1>3 DEF Streaming, Quiet
<1>4. ASSUME taken = 2, NextLane(group), turn \notin rejected => seam = "inline"
      PROVE  Streaming'
  <2>1. /\ \A l \in 1 .. total : IF l \in rejected /\ l < turn THEN ToldOnce(l) ELSE Ends(l) = {}
        /\ \A k \in DOMAIN stream : stream[k].kind # "heartbeat" => stream[k].lane \in rejected
    BY <1>1 DEF GroupInv, Streaming, ToTell, Quiet
  <2>2. ToldOnce(here)'
    <3>1. Ends(here) = {}
      BY <1>1, <2>1
    <3>2. here \notin passed => ~ ok
      BY <1>1
    <3> QED BY <1>2, <1>4, <3>1, <3>2
  <2>3. \A l \in 1 .. total : l < turn + 1 <=> l < turn \/ l = turn
    BY <1>1
  <2>4. CASE turn \in rejected
    <3>1. Quiet' => \A k \in DOMAIN stream' :
             stream'[k].kind # "heartbeat" => stream'[k].lane \in rejected
      <4>1. PICK n \in Nat : n = Len(stream) /\ DOMAIN stream = 1 .. n
        BY <1>1 DEF GroupTypeOK
      <4>2. /\ DOMAIN stream' = 1 .. n + taken
            /\ \A k \in 1 .. n : stream'[k] = stream[k]
            /\ \A k \in 1 .. n + taken : k \notin 1 .. n => stream'[k].lane = turn
        BY <1>1, <4>1, StatusEmitted
      <4> QED BY <2>1, <2>4, <4>1, <4>2
    <3>2. \A l \in 1 .. total : ToTell(l)' <=> l \in rejected /\ l <= turn
      <4>1. CASE turn < total
        <5>1. phase' = "preflight" /\ turn' = turn + 1
          BY <1>4, <4>1 DEF NextLane
        <5>2. \A l \in 1 .. total : l < turn + 1 <=> l <= turn
          BY <1>1
        <5> QED BY <5>1, <5>2 DEF ToTell
      <4>2. CASE ~ (turn < total) /\ group # <<>>
        <5>1. phase' = "start" /\ \A l \in 1 .. total : l <= turn
          BY <1>1, <1>4, <4>2 DEF NextLane
        <5> QED BY <5>1 DEF ToTell
      <4>3. CASE ~ (turn < total) /\ group = <<>>
        <5>1. phase' = "returned" /\ \A l \in 1 .. total : l <= turn
          BY <1>1, <1>4, <4>3 DEF NextLane
        <5>2. \A l \in 1 .. total : l < turn \/ l = turn
          BY <1>1, <4>3
        <5>3. \A l \in 1 .. total : l < turn => l \in Unlaunched
          BY <1>1, <4>3 DEF GroupInv, Sorting
        <5>4. \A l \in 1 .. total : l \notin rejected => l \in passed
          BY <1>1, <5>2, <5>3
        <5>5. seam = "inline" => total = 1
          BY DEF GroupInv, Sorting
        <5>6. \A l \in 1 .. total : l \notin rejected => seam = "fan_out"
          BY <1>1, <2>4, <5>5 DEF GroupInv, GroupTypeOK
        <5> QED BY <5>1, <5>4, <5>6 DEF ToTell
      <4> QED BY <4>1, <4>2, <4>3
    <3>3. ASSUME NEW l \in 1 .. total
          PROVE IF ToTell(l)' THEN ToldOnce(l)' ELSE Ends(l)' = {}
      <4>1. CASE l = here
        <5>1. ToTell(l)'
          BY <1>1, <2>4, <3>2, <4>1
        <5> QED BY <2>2, <4>1, <5>1
      <4>2. CASE l # here
        <5>1. l <= turn <=> l < turn
          BY <1>1, <4>2
        <5> QED BY <1>2, <2>1, <3>2, <4>2, <5>1
      <4> QED BY <4>1, <4>2
    <3> QED BY <3>1, <3>3 DEF Streaming
  <2>5. CASE turn \notin rejected
    <3>1. total = 1 /\ turn = 1
      BY <1>1, <1>4, <2>5 DEF GroupInv, Sorting
    <3>2. group = <<>>
      BY <3>1, PreflightFacts, GroupFacts DEF GroupInv, GroupTypeOK
    <3>3. phase' = "returned"
      BY <1>4, <3>1, <3>2 DEF NextLane
    <3>4. total' = 1 /\ here = 1 /\ active' = {} /\ \A l \in 1 .. 1 : l = 1
      BY <1>1, <3>1
    <3>5. ToTell(here)' /\ ~ Quiet'
      BY <1>1, <2>5, <3>3, <3>4 DEF ToTell, Quiet, Unlaunched, GroupInv, Sorting
    <3> QED BY <2>2, <3>4, <3>5 DEF Streaming
  <2> QED BY <2>4, <2>5
<1> QED BY <1>2, <1>3, <1>4

\* A lane that goes to its group, or is passed over, tells nothing.
LEMMA PreflightPasses ==
    ASSUME GroupInv, Sorting', phase = "preflight",
           UNCHANGED <<seam, groupGiven, stream, how, active>>,
           turn \notin rejected, turn \in passed => seam = "fan_out",
           group' \in Seq(GroupLane),
           NextLane(group'),
           \A k \in DOMAIN group : k \in DOMAIN group' /\ group'[k] = group[k]
    PROVE  Streaming' /\ SilentAfterTerminal'
<1> USE DEF groupGiven
<1>1. /\ turn \in 1 .. total /\ active = {} /\ GroupTypeOK /\ total \in Nat
      /\ Unlaunched = passed \cup rejected /\ rejected \subseteq 1 .. total
  BY PreflightFacts, GroupFacts DEF GroupInv, GroupTypeOK, Unlaunched, Sorting
<1>2. /\ \A l \in 1 .. total : IF l \in rejected /\ l < turn THEN ToldOnce(l) ELSE Ends(l) = {}
      /\ \A k \in DOMAIN stream : stream[k].kind # "heartbeat" => stream[k].lane \in rejected
  BY <1>1 DEF GroupInv, Streaming, ToTell, Quiet
<1>3. \A l : Ends(l)' = Ends(l) /\ (ToldOnce(l) => ToldOnce(l)')
  BY DEF Ends, ToldOnce, Status
<1>4. \A l \in 1 .. total : l \in rejected => (l < turn <=> l < turn + 1)
  BY <1>1
<1>7. SilentAfterTerminal'
  <2>1. ASSUME Len(group') = total
        PROVE \A k \in DOMAIN stream : stream[k].kind = "process_terminal" => FALSE
    BY <1>1, <1>2, <2>1 DEF Sorting, Unlaunched
  <2> QED BY <2>1 DEF GroupInv, SilentAfterTerminal
<1>5. ASSUME turn < total PROVE Streaming'
  <2>1. phase' = "preflight" /\ turn' = turn + 1
    BY <1>5 DEF NextLane
  <2>2. \A l \in 1 .. total : ToTell(l)' <=> l \in rejected /\ l < turn
    BY <2>1, <1>4 DEF ToTell
  <2> QED BY <1>2, <1>3, <2>2 DEF Streaming
<1>6. ASSUME ~ (turn < total) PROVE Streaming'
  <2>1. turn = total /\ turn' = 1 /\ phase' = IF group' = <<>> THEN "returned" ELSE "start"
    BY <1>1, <1>6 DEF NextLane
  <2>2. \A l \in 1 .. total : l \in rejected => l < turn
    BY <1>1, <2>1
  <2>3. CASE group' # <<>>
    <3>1. \A l \in 1 .. total : ToTell(l)' <=> l \in rejected /\ l < turn
      BY <2>1, <2>2, <2>3 DEF ToTell
    <3> QED BY <1>2, <1>3, <3>1 DEF Streaming
  <2>4. CASE group' = <<>>
    <3>1. phase' = "returned" /\ DOMAIN group' = {}
      BY <2>1, <2>4
    <3>2. \A l \in 1 .. total : l \notin rejected => l \in passed
      BY <3>1, <1>1 DEF Sorting, Unlaunched
    <3>3. seam = "fan_out"
      BY <1>1, <3>2
    <3>4. \A l \in 1 .. total : ToTell(l)' <=> l \in rejected /\ l < turn
      BY <2>2, <3>1, <3>2, <3>3 DEF ToTell
    <3> QED BY <1>2, <1>3, <3>4 DEF Streaming
  <2> QED BY <2>3, <2>4
<1> QED BY <1>5, <1>6, <1>7

LEMMA PreflightTypes ==
    ASSUME GroupTypeOK, group' \in Seq(GroupLane), turn' \in GroupLane,
           phase' \in {"preflight", "start", "returned", "raised"},
           stream' \in Seq(Event),
           UNCHANGED <<fixed, processes, results, failed, groupGiven, pumps>>
    PROVE  GroupTypeOK'
BY DEF GroupTypeOK, fixed, processes, groupGiven, pumps

LEMMA GroupPreflight ==
    ASSUME GroupInv,
           \/ AnnounceFails \/ AcceptLane
           \/ \E taken \in 0 .. 2 : PassInPlace(taken) \/ RejectBlocked(taken)
    PROVE  GroupInv'
<1> USE DEF groupGiven, fixed, processes, pumps
<1>1. /\ phase = "preflight" /\ turn \in 1 .. total
      /\ turn \in GroupLane /\ turn \in Nat /\ turn >= 1
      /\ group \in Seq(GroupLane) /\ stream \in Seq(Event)
      /\ UNCHANGED <<leader, tail, how, results, pump, beats, active,
                     seam, total, passed, rejected>>
      /\ UNCHANGED <<fixed, processes, results, failed, groupGiven, pumps>>
      /\ GroupTypeOK /\ Sorting
      /\ rejected \subseteq Unlaunched
      /\ passed \cap rejected = {}
      /\ Unlaunched = passed \cup rejected
      /\ \A l \in GroupLane : l \in Nat /\ l >= 1
  <2>1. /\ phase = "preflight"
        /\ UNCHANGED <<fixed, processes, results, failed, groupGiven, pumps>>
    BY DEF AnnounceFails, AcceptLane, PassInPlace, RejectBlocked
  <2>2. /\ turn \in 1 .. total /\ turn \in Nat /\ turn >= 1
        /\ \A l \in GroupLane : l \in Nat /\ l >= 1
    BY <2>1, PreflightFacts, GroupFacts DEF GroupInv
  <2>3. /\ turn \in GroupLane /\ group \in Seq(GroupLane) /\ stream \in Seq(Event)
        /\ GroupTypeOK /\ Sorting
        /\ rejected \subseteq Unlaunched
        /\ passed \cap rejected = {}
        /\ Unlaunched = passed \cup rejected
    BY DEF GroupInv, GroupTypeOK, Sorting, Unlaunched
  <2> QED BY <2>1, <2>2, <2>3
<1>2. ASSUME phase' = "raised", UNCHANGED <<group, turn>>, stream' \in Seq(Event)
      PROVE  GroupTypeOK' /\ Sorting' /\ Place' /\ Reaping' /\ Pumping'
  <2>1. GroupTypeOK'
    BY <1>1, <1>2, PreflightTypes
  <2>2. Sorting'
    BY <1>1, <1>2, SortingKept
  <2>3. Place' /\ Reaping' /\ Pumping'
    BY <1>1, <1>2, PreflightKept
  <2> QED BY <2>1, <2>2, <2>3
<1>3. ASSUME NextLane(group'), stream' \in Seq(Event),
             \/ turn \in Unlaunched /\ group' = group
             \/ turn \notin Unlaunched /\ group' = Append(group, turn)
      PROVE  GroupTypeOK' /\ Sorting' /\ Place' /\ Reaping' /\ Pumping' /\ group' \in Seq(GroupLane)
  <2>1. /\ Sorting' /\ group' \in Seq(GroupLane) /\ turn' \in GroupLane
        /\ phase' \in {"preflight", "start", "returned"}
        /\ phase' = "start" => group' # <<>> /\ turn' = 1
    BY <1>1, <1>3, LaneSorted
  <2>2. GroupTypeOK'
    BY <1>1, <1>3, <2>1, PreflightTypes
  <2>3. Place' /\ Reaping' /\ Pumping'
    BY <1>1, <2>1, PreflightKept
  <2> QED BY <2>1, <2>2, <2>3
<1>4. CASE AnnounceFails
  <2>1. phase' = "raised" /\ UNCHANGED <<group, turn, stream>>
    BY <1>4 DEF AnnounceFails
  <2>2. Streaming' /\ SilentAfterTerminal'
    BY <1>1, <2>1, PreflightFacts
       DEF GroupInv, Streaming, Quiet, SilentAfterTerminal
  <2> QED BY <1>1, <1>2, <2>1, <2>2 DEF GroupInv
<1>5. CASE AcceptLane
  <2>1. /\ turn \notin Unlaunched /\ group' = Append(group, turn)
        /\ NextLane(group') /\ stream' = stream
    BY <1>5 DEF AcceptLane, Unlaunched, NextLane
  <2>2. GroupTypeOK' /\ Sorting' /\ Place' /\ Reaping' /\ Pumping' /\ group' \in Seq(GroupLane)
    BY <1>1, <1>3, <2>1
  <2>3. \A k \in DOMAIN group : k \in DOMAIN group' /\ group'[k] = group[k]
    BY <1>1, <2>1
  <2>4. Streaming' /\ SilentAfterTerminal'
    BY <1>1, <2>1, <2>2, <2>3, PreflightPasses
  <2> QED BY <2>2, <2>4 DEF GroupInv
<1>6. ASSUME NEW taken \in 0 .. 2, PassInPlace(taken) PROVE GroupInv'
  <2>1. turn \in passed /\ turn \in Unlaunched /\ turn \notin rejected
    BY <1>1, <1>6 DEF PassInPlace
  <2>2. CASE seam = "fan_out"
    <3>1. NextLane(group) /\ stream' = stream
      BY <1>6, <2>2 DEF PassInPlace
    <3>2. group' = group /\ NextLane(group')
      BY <3>1 DEF NextLane
    <3>3. GroupTypeOK' /\ Sorting' /\ Place' /\ Reaping' /\ Pumping' /\ group' \in Seq(GroupLane)
      BY <1>1, <1>3, <2>1, <3>1, <3>2
    <3>4. Streaming' /\ SilentAfterTerminal'
      BY <1>1, <2>1, <2>2, <3>1, <3>2, <3>3, PreflightPasses
    <3> QED BY <3>3, <3>4 DEF GroupInv
  <2>3. CASE seam = "inline"
    <3>1. PICK here \in GroupLane : here = turn
      BY <1>1
    <3>2. EmitStatus(here, TRUE, taken)
      <4>1. EmitStatus(turn, TRUE, taken)
        BY <1>6, <2>3 DEF PassInPlace
      <4> QED BY <3>1, <4>1 DEF EmitStatus
    <3>3. stream' \in Seq(Event)
      BY <1>1, <3>2, StatusEmitted
    <3>4. \/ taken = 2 /\ NextLane(group) /\ group' = group /\ NextLane(group')
          \/ phase' = "raised" /\ UNCHANGED <<group, turn>>
      BY <1>6, <2>3 DEF PassInPlace, NextLane
    <3>5. GroupTypeOK' /\ Sorting' /\ Place' /\ Reaping' /\ Pumping'
      BY <1>2, <1>3, <2>1, <3>3, <3>4
    <3>6. Streaming' /\ SilentAfterTerminal'
      <4>1. here \in Unlaunched /\ here \notin rejected /\ group' = group
        BY <2>1, <3>1, <3>4
      <4> QED BY <1>1, <2>3, <3>1, <3>2, <3>4, <4>1, PreflightTells
    <3> QED BY <3>5, <3>6 DEF GroupInv
  <2> QED BY <1>1, <2>2, <2>3 DEF GroupTypeOK
<1>7. ASSUME NEW taken \in 0 .. 2, RejectBlocked(taken) PROVE GroupInv'
  <2>1. PICK here \in GroupLane : here = turn
    BY <1>1
  <2>2. EmitStatus(here, FALSE, taken) /\ here \in rejected /\ here \in Unlaunched
    <3>1. EmitStatus(turn, FALSE, taken) /\ turn \in rejected
      BY <1>7 DEF RejectBlocked
    <3> QED BY <1>1, <2>1, <3>1 DEF EmitStatus
  <2>3. stream' \in Seq(Event)
    BY <1>1, <2>2, StatusEmitted
  <2>4. \/ taken = 2 /\ NextLane(group) /\ group' = group /\ NextLane(group')
        \/ phase' = "raised" /\ UNCHANGED <<group, turn>>
    BY <1>7 DEF RejectBlocked, NextLane
  <2>5. GroupTypeOK' /\ Sorting' /\ Place' /\ Reaping' /\ Pumping'
    BY <1>2, <1>3, <2>1, <2>2, <2>3, <2>4
  <2>6. Streaming' /\ SilentAfterTerminal'
    <3>1. group' = group /\ turn \in rejected
      BY <2>1, <2>2, <2>4
    <3> QED BY <1>1, <2>1, <2>2, <2>4, <3>1, PreflightTells
  <2> QED BY <2>5, <2>6 DEF GroupInv
<1> QED BY <1>4, <1>5, <1>6, <1>7

-----------------------------------------------------------------------------
(* The fan-out.                                                            *)

\* A step that leaves the stream, the group and the threads.
Aside == UNCHANGED <<fixed, group, groupGiven, stream, pumps>>

LEMMA LaunchesStart ==
    ASSUME GroupInv, Aside, Launch \/ LaunchFails
    PROVE  GroupInv'
<1> USE DEF Aside, fixed, processes, groupGiven, pumps, Launch,
           LaunchFails, NextLaunch, GroupInv
<1>1. /\ phase = "start" /\ turn \in Nat /\ turn >= 1
      /\ turn \in Child /\ turn <= Len(group)
      /\ Len(group) \in Nat
      /\ results = <<>> /\ Len(results) = 0 /\ active = {}
      /\ (\A i \in Child : ~ Live(i))
      /\ DOMAIN results = {} /\ UNCHANGED <<how, asked, results, failed>>
      /\ \A i \in 1 .. Len(group) : i \in Child /\ i \in GroupLane
      /\ Child = GroupLane
  BY GroupFacts DEF Place, Pumping
<1>2. /\ phase' \in {"start", "started", "raising"} /\ turn' \in 1 .. Len(group)
      /\ phase' = "start" => turn' = turn + 1
      /\ phase' = "started" => turn' = 1
      /\ phase' = "raising" => seam = "inline"
  BY <1>1
<1>3. GroupTypeOK'
  <2>1. turn' \in GroupLane
    BY <1>1, <1>2
  <2> QED BY <1>1, <1>2, <2>1 DEF GroupTypeOK
<1>4. Sorting'
  BY <1>1, <1>2, SortingKept
<1>5. Place'
  BY <1>1, <1>2 DEF Place
<1>6. Reaping'
  <2>1. \A i \in Child : i \in Nat
    BY GroupFacts
  <2>2. /\ leader[turn] = "none" /\ how[turn] = "none"
        /\ \A i \in Child : i >= turn => leader[i] = "none"
    BY <1>1, <2>1 DEF Reaping, GroupTypeOK
  <2>3. CASE Launch
    <3>1. /\ \A i \in Child : i # turn => leader'[i] = leader[i] /\ tail'[i] = tail[i]
          /\ leader'[turn] = "alive"
      BY <1>1, <2>3 DEF GroupTypeOK
    <3>2. phase' = "start" => \A i \in Child : i >= turn' => leader'[i] = "none"
      BY <1>1, <1>2, <2>1, <2>2, <3>1
    <3> QED BY <1>1, <1>2, <2>2, <3>1, <3>2 DEF Reaping, Child
  <2>4. CASE LaunchFails
    <3>1. UNCHANGED <<leader, tail>>
      BY <2>4
    <3>2. phase' = "start" => \A i \in Child : i >= turn' => leader'[i] = "none"
      BY <1>1, <1>2, <2>1, <2>2, <3>1
    <3> QED BY <1>1, <1>2, <3>1, <3>2 DEF Reaping, Child
  <2> QED BY <2>3, <2>4
<1>7. Pumping'
  BY <1>1 DEF Pumping, Live, Child
<1>8. Streaming' /\ SilentAfterTerminal'
  <2>1. Quiet
    BY <1>1 DEF Quiet
  <2>2. phase' \notin {"raising", "raised"} => \A l \in 1 .. total : ToTell(l)' <=> ToTell(l)
    BY <1>1, <1>2 DEF ToTell
  <2> QED BY <1>1, <2>1, <2>2, StreamingKept
<1> QED BY <1>3, <1>4, <1>5, <1>6, <1>7, <1>8

\* No child is told of while the fan-out runs.
LEMMA FanOutTells ==
    ASSUME GroupInv,
           UNCHANGED <<stream, total, passed, rejected, group, seam>>,
           \A i \in Child : how[i] = "zero" => how'[i] = "zero",
           phase \in {"start", "started", "wait", "grace", "drain", "store", "ended"},
           \/ phase' \in {"start", "started", "wait", "grace", "drain", "store", "ended", "raising"}
           \/ phase' = "collected" /\ turn' = 1
    PROVE  Streaming' /\ SilentAfterTerminal'
<1>1. Quiet
  BY DEF Quiet
<1>2. ASSUME NEW l, phase' \notin {"raising", "raised"} PROVE ToTell(l)' <=> ToTell(l)
  <2>1. \A k \in DOMAIN group : k \in Nat /\ ~ (k < 1)
    BY DEF GroupInv, GroupTypeOK
  <2> QED BY <1>2, <2>1 DEF ToTell
<1> QED BY <1>1, <1>2, StreamingKept

\* Where the dispatching thread is in the fan-out.
LEMMA FanOutFacts ==
    ASSUME GroupInv,
           phase \in {"start", "started", "wait", "grace", "drain", "store", "ended"}
    PROVE  /\ turn \in Nat /\ turn >= 1 /\ turn \in Child
           /\ turn \in GroupLane /\ turn <= Len(group)
           /\ turn \in DOMAIN group
           /\ Len(group) \in Nat /\ Len(results) \in Nat
           /\ \A i \in 1 .. Len(group) : i \in Child /\ i \in GroupLane
           /\ \A i \in Child : i \in Nat
           /\ Child = GroupLane
           /\ seam = "inline" => Len(group) = 1 /\ turn = 1
<1>1. turn <= Len(group)
  BY DEF GroupInv, Place
<1>2. /\ turn \in Nat /\ turn >= 1 /\ turn \in Child
      /\ turn \in GroupLane /\ turn \in DOMAIN group
      /\ Len(group) \in Nat /\ Len(results) \in Nat
      /\ \A i \in 1 .. Len(group) : i \in Child /\ i \in GroupLane
      /\ \A i \in Child : i \in Nat
      /\ Child = GroupLane
  BY <1>1, GroupFacts DEF GroupInv
<1>3. seam = "inline" => Len(group) = 1 /\ turn = 1
  <2>1. Len(group) <= total /\ (seam = "inline" => total = 1)
    BY DEF GroupInv, Sorting
  <2> QED BY <1>1, <1>2, <2>1
<1> QED BY <1>1, <1>2, <1>3

LEMMA NextChildGoesOn ==
    ASSUME GroupInv, phase \in {"store", "ended"}, seam = "fan_out",
           active = {},
           \A i \in Child : ~ Live(i),
           UNCHANGED <<group, results, leader, tail, how, pump, active, beats, seam, timed>>,
           NextChild
    PROVE  /\ Place' /\ Reaping' /\ Pumping' /\ turn' \in GroupLane
           /\ phase' \in {"started", "raising"} \/ (phase' = "collected" /\ turn' = 1)
<1>1. PICK m \in Nat : m = Len(group)
  BY FanOutFacts
<1>2. /\ turn \in Nat /\ turn >= 1 /\ turn <= m
      /\ Len(results) = turn /\ Len(results) \in Nat
      /\ \A i \in 1 .. m : i \in GroupLane
  BY <1>1, FanOutFacts DEF GroupInv, Place
<1>3. \/ turn < m /\ turn' = turn + 1 /\ phase' = "started"
      \/ turn = m /\ turn' = 1 /\ phase' \in {"raising", "collected"}
  BY <1>1, <1>2 DEF NextChild
<1>4. turn' \in GroupLane
      /\ (phase' \in {"started", "raising"} \/ (phase' = "collected" /\ turn' = 1))
  BY <1>2, <1>3
<1>5. Place'
  BY <1>1, <1>2, <1>3 DEF Place, GroupInv
<1>6. Reaping'
  BY <1>3 DEF Reaping, GroupInv, Child
<1>7. Pumping'
  BY DEF Pumping, Live, GroupInv, Child
<1> QED BY <1>4, <1>5, <1>6, <1>7

LEMMA NeverStartedStep ==
    ASSUME GroupInv, Aside, NeverStarted
    PROVE  GroupInv'
<1> USE DEF Aside, fixed, processes, groupGiven, pumps,
           NeverStarted, GroupInv
<1>1. /\ phase = "started" /\ phase' = "store" /\ turn' = turn
      /\ results' = Append(results, "launch_failed")
      /\ UNCHANGED <<leader, tail, how, asked, failed>> /\ results \in Seq(Result)
      /\ Len(results) + 1 = turn /\ active = {} /\ (\A i \in Child : ~ Live(i))
  BY DEF Place, Pumping, GroupTypeOK
<1>2. /\ turn \in Nat /\ turn <= Len(group) /\ turn \in Child /\ Len(results) \in Nat
  BY <1>1, FanOutFacts
<1>3. /\ results' \in Seq(Result)
      /\ Len(results') = turn /\ DOMAIN results' = 1 .. turn
      /\ \A i \in DOMAIN results : results'[i] = results[i]
      /\ \A i \in 1 .. turn : i \in DOMAIN results \/ (i = turn /\ results'[i] = "launch_failed")
  BY <1>1, <1>2 DEF Result
<1>4. GroupTypeOK'
  BY <1>1, <1>3 DEF GroupTypeOK
<1>5. Sorting'
  BY <1>1, SortingKept
<1>6. Place'
  BY <1>1, <1>2, <1>3 DEF Place
<1>7. Reaping'
  <2>1. leader[turn] = "none" /\ tail[turn] # "alive"
    BY <1>2 DEF Reaping
  <2>2. \A i \in 1 .. turn :
          /\ leader[i] # "alive" /\ tail[i] # "alive"
          /\ CASE results'[i] = "launch_failed" -> leader[i] = "none"
               [] results'[i] = "timed_out" -> timed /\ leader[i] = "dead"
               [] OTHER -> results'[i] = how[i]
    BY <1>3, <2>1 DEF Reaping
  <2> QED BY <1>1, <1>3, <2>2 DEF Reaping, Child
<1>8. Pumping'
  BY <1>1 DEF Pumping, Live, Child
<1>9. Streaming' /\ SilentAfterTerminal'
  BY <1>1, FanOutTells
<1> QED BY <1>4, <1>5, <1>6, <1>7, <1>8, <1>9

\* The children are reaped where they ended.
LEMMA ReapStep ==
    ASSUME GroupInv, Aside, Collect \/ Drain
    PROVE  GroupInv'
<1> USE DEF Aside, fixed, processes, groupGiven, pumps, GroupInv
<1> DEFINE outcome == IF phase = "wait" THEN how[turn] ELSE "timed_out"
<1>1. /\ phase \in {"wait", "drain"} /\ phase' \in {"store", "ended"} /\ turn' = turn
      /\ results' = Append(results, outcome) /\ (phase' = "store" => seam = "fan_out")
      /\ UNCHANGED <<leader, tail, how, asked, failed>> /\ results \in Seq(Result)
      /\ Len(results) + 1 = turn /\ Closed(turn)
  BY DEF Place, GroupTypeOK, Collect, Drain, Reaped
<1>2. /\ turn \in Nat /\ turn <= Len(group) /\ turn \in Child /\ Len(results) \in Nat
  BY <1>1, FanOutFacts
<1>3. /\ leader[turn] = "dead" /\ tail[turn] # "alive" /\ how[turn] \in Ending
      /\ outcome \in Result /\ outcome # "launch_failed"
      /\ outcome = "timed_out" => timed
      /\ outcome # "timed_out" => outcome = how[turn]
  <2>1. leader[turn] = "dead" /\ tail[turn] # "alive" /\ how[turn] \in Ending
    BY <1>1, <1>2 DEF Closed, Reaping, GroupTypeOK
  <2>2. how[turn] \notin {"launch_failed", "timed_out"}
    BY <2>1 DEF Ending
  <2>3. phase = "drain" => timed
    BY DEF Reaping
  <2> QED BY <1>1, <2>1, <2>2, <2>3 DEF Result
<1> HIDE DEF outcome
<1>4. /\ results' \in Seq(Result)
      /\ Len(results') = turn /\ DOMAIN results' = 1 .. turn
      /\ \A i \in DOMAIN results : results'[i] = results[i]
      /\ \A i \in 1 .. turn : i \in DOMAIN results \/ (i = turn /\ results'[i] = outcome)
  BY <1>1, <1>2, <1>3
<1>5. GroupTypeOK'
  BY <1>1, <1>4 DEF GroupTypeOK
<1>6. Sorting'
  BY <1>1, SortingKept
<1>7. Place'
  BY <1>1, <1>2, <1>4 DEF Place
<1>8. Reaping'
  <2>1. \A i \in 1 .. turn :
          /\ leader[i] # "alive" /\ tail[i] # "alive"
          /\ CASE results'[i] = "launch_failed" -> leader[i] = "none"
               [] results'[i] = "timed_out" -> timed /\ leader[i] = "dead"
               [] OTHER -> results'[i] = how[i]
    <3> SUFFICES ASSUME NEW i \in 1 .. turn
                 PROVE  /\ leader[i] # "alive" /\ tail[i] # "alive"
                        /\ CASE results'[i] = "launch_failed" -> leader[i] = "none"
                             [] results'[i] = "timed_out" -> timed /\ leader[i] = "dead"
                             [] OTHER -> results'[i] = how[i]
      OBVIOUS
    <3>1. CASE i \in DOMAIN results
      BY <3>1, <1>4 DEF Reaping
    <3>2. CASE i = turn /\ results'[i] = outcome
      BY <3>2, <1>3
    <3> QED BY <1>4, <3>1, <3>2
  <2> QED BY <1>1, <1>4, <2>1 DEF Reaping, Child
<1>9. Pumping'
  BY <1>1 DEF Pumping, Live, Child
<1>10. Streaming' /\ SilentAfterTerminal'
  BY <1>1, FanOutTells
<1> QED BY <1>5, <1>6, <1>7, <1>8, <1>9, <1>10

LEMMA EndStep ==
    ASSUME GroupInv, Aside,
           TimesOut \/ Kill \/ GraceEnds
    PROVE  GroupInv'
<1> USE DEF Aside, fixed, processes, groupGiven, pumps, GroupInv
<1>1. /\ phase \in {"wait", "grace"} /\ phase' \in {"grace", "drain"} /\ turn' = turn
      /\ UNCHANGED <<results, failed>>
      /\ (phase = "wait" => timed)
      /\ Len(results) + 1 = turn
  BY DEF TimesOut, Kill, GraceEnds, Place
<1>2. /\ turn \in Nat /\ turn <= Len(group) /\ turn \in Child /\ Len(results) \in Nat
      /\ timed /\ \A i \in DOMAIN results : i # turn
  BY <1>1, FanOutFacts DEF Reaping, GroupTypeOK
<1>3. /\ asked' \in [Child -> BOOLEAN]
      /\ \A i \in Child : i # turn => leader'[i] = leader[i] /\ tail'[i] = tail[i] /\ how'[i] = how[i]
      /\ \/ UNCHANGED <<leader, tail, how>>
         \/ /\ leader' \in [Child -> {"none", "alive", "dead"}]
            /\ tail' \in [Child -> {"none", "alive", "detached", "gone"}]
            /\ how' \in [Child -> Ending \cup {"none"}]
            /\ leader[turn] = "alive" /\ leader'[turn] = "dead" /\ how'[turn] = "signal"
            /\ how'[turn] # "none" /\ how'[turn] # "zero"
  <2>1. CASE TimesOut
    BY <1>2, <2>1 DEF TimesOut, GroupTypeOK
  <2>2. CASE Kill
    BY <1>2, <2>2 DEF Kill, GroupTypeOK, Ending
  <2>3. CASE GraceEnds
    BY <1>2, <2>3 DEF GraceEnds, GroupTypeOK
  <2> QED BY <2>1, <2>2, <2>3
<1>4. GroupTypeOK'
  BY <1>1, <1>3 DEF GroupTypeOK
<1>5. Sorting'
  BY <1>1, SortingKept
<1>6. Place'
  BY <1>1 DEF Place
<1>7. Reaping'
  <2>1. /\ \A i \in Child : leader'[i] = "none" => tail'[i] = "none"
        /\ \A i \in Child : leader'[i] = "dead" <=> how'[i] # "none"
    BY <1>3 DEF Reaping
  <2>2. \A i \in DOMAIN results :
          /\ leader'[i] # "alive" /\ tail'[i] # "alive"
          /\ CASE results[i] = "launch_failed" -> leader'[i] = "none"
               [] results[i] = "timed_out" -> timed /\ leader'[i] = "dead"
               [] OTHER -> results[i] = how'[i]
    <3>1. \A i \in DOMAIN results : i \in Child
      BY GroupFacts
    <3> QED BY <1>2, <1>3, <3>1 DEF Reaping
  <2> QED BY <1>1, <1>2, <2>1, <2>2 DEF Reaping, Child
<1>8. Pumping'
  <2>1. \A i \in Child : leader[i] # "none" => leader'[i] # "none"
    BY <1>3
  <2> QED BY <1>1, <1>2, <2>1 DEF Pumping, Live, Child
<1>9. Streaming' /\ SilentAfterTerminal'
  <2>1. \A i \in Child : how[i] = "zero" => how'[i] = "zero"
    BY <1>2, <1>3 DEF Reaping
  <2> QED BY <1>1, <2>1, FanOutTells
<1> QED BY <1>4, <1>5, <1>6, <1>7, <1>8, <1>9

LEMMA StoreStep ==
    ASSUME GroupInv, Aside, Store \/ StoreFails
    PROVE  GroupInv'
<1> USE DEF Aside, fixed, processes, groupGiven, pumps, GroupInv
<1>1. /\ phase = "store" /\ UNCHANGED <<leader, tail, how, asked, results, failed>>
      /\ Len(results) = turn /\ turn \in Child
      /\ turn \in GroupLane /\ seam \in {"inline", "fan_out"}
      /\ turn <= Len(group) /\ Len(group) \in Nat /\ turn \in Nat
      /\ seam = "inline" => Len(group) = 1 /\ turn = 1
  BY FanOutFacts DEF Store, StoreFails, Place, GroupTypeOK
<1>2. CASE phase' \in {"ended", "raising"} /\ turn' = turn
  <2>1. GroupTypeOK'
    BY <1>1, <1>2 DEF GroupTypeOK
  <2>2. Sorting'
    BY <1>1, <1>2, SortingKept
  <2>3. Place'
    BY <1>1, <1>2 DEF Place
  <2>4. Reaping'
    BY <1>1, <1>2 DEF Reaping, Child
  <2>5. Pumping'
    BY <1>1, <1>2 DEF Pumping, Live, Child
  <2>6. Streaming' /\ SilentAfterTerminal'
    BY <1>1, <1>2, FanOutTells
  <2> QED BY <2>1, <2>2, <2>3, <2>4, <2>5, <2>6
<1>3. CASE seam = "inline" /\ phase' = "collected" /\ turn' = turn
  <2>1. GroupTypeOK'
    BY <1>1, <1>3 DEF GroupTypeOK
  <2>2. Sorting'
    BY <1>1, <1>3, SortingKept
  <2>3. Place'
    BY <1>1, <1>3 DEF Place
  <2>4. Reaping'
    BY <1>1, <1>3 DEF Reaping, Child
  <2>5. Pumping'
    BY <1>1, <1>3 DEF Pumping, Live, Child
  <2>6. Streaming' /\ SilentAfterTerminal'
    BY <1>1, <1>3, FanOutTells
  <2> QED BY <2>1, <2>2, <2>3, <2>4, <2>5, <2>6
<1>4. CASE seam = "fan_out" /\ leader[turn] = "none" /\ NextChild
  <2>1. active = {} /\ \A i \in Child : ~ Live(i)
    BY <1>1, <1>4 DEF Pumping
  <2>2. /\ Place' /\ Reaping' /\ Pumping' /\ turn' \in GroupLane
        /\ phase' \in {"started", "raising"} \/ (phase' = "collected" /\ turn' = 1)
    BY <1>1, <1>4, <2>1, NextChildGoesOn
  <2>3. GroupTypeOK'
    BY <1>1, <2>2 DEF GroupTypeOK
  <2>4. Sorting'
    BY <1>1, <2>2, SortingKept
  <2>5. Streaming' /\ SilentAfterTerminal'
    BY <1>1, <2>2, FanOutTells
  <2> QED BY <2>2, <2>3, <2>4, <2>5
<1>5. \/ phase' \in {"ended", "raising"} /\ turn' = turn
      \/ seam = "inline" /\ phase' = "collected" /\ turn' = turn
      \/ seam = "fan_out" /\ leader[turn] = "none" /\ NextChild
  BY <1>1 DEF Store, StoreFails
<1> QED BY <1>2, <1>3, <1>4, <1>5

LEMMA StartedStep ==
    ASSUME GroupInv, StartPump \/ PumpCannotStart
    PROVE  GroupInv'
<1> USE DEF fixed, processes, groupGiven, pumps, GroupInv,
           NotifyStarted
<1>1. /\ phase = "started" /\ turn' = turn /\ phase' \in {"wait", "raising"}
      /\ phase' = "raising" => seam = "inline"
      /\ UNCHANGED <<fixed, group, leader, tail, how, asked, results,
                     groupGiven, stream, beats, stopped>>
      /\ failed' \in BOOLEAN /\ active = {} /\ (\A i \in Child : ~ Live(i))
      /\ Len(results) + 1 = turn /\ leader[turn] # "none"
  BY DEF StartPump, PumpCannotStart, GroupTypeOK, Place, Pumping
<1>2. /\ turn \in Nat /\ turn <= Len(group) /\ turn \in Child /\ Len(results) \in Nat
  BY <1>1, FanOutFacts
<1>3. \/ UNCHANGED <<pump, active>>
      \/ /\ phase' = "wait" /\ active' = {turn}
         /\ pump' \in [Child -> {"none", "waiting", "beating", "ended"}]
         /\ pump'[turn] = "waiting" /\ \A i \in Child : i # turn => pump'[i] = pump[i]
  BY <1>1, <1>2 DEF StartPump, PumpCannotStart, GroupTypeOK
<1>4. GroupTypeOK'
  BY <1>1, <1>2, <1>3 DEF GroupTypeOK
<1>5. Sorting'
  BY <1>1, SortingKept
<1>6. Place'
  BY <1>1, <1>2 DEF Place
<1>7. Reaping'
  BY <1>1 DEF Reaping, Child
<1>8. Pumping'
  BY <1>1, <1>2, <1>3 DEF Pumping, Live, Child
<1>9. Streaming' /\ SilentAfterTerminal'
  BY <1>1, FanOutTells
<1> QED BY <1>4, <1>5, <1>6, <1>7, <1>8, <1>9

LEMMA EndedStep ==
    ASSUME GroupInv, SignalPump \/ JoinPump
    PROVE  GroupInv'
<1> USE DEF fixed, processes, groupGiven, pumps, GroupInv,
           fanOutVars
<1>1. /\ phase = "ended"
      /\ UNCHANGED <<fixed, group, leader, tail, how, asked, results, failed,
                     groupGiven, stream, pump, beats>>
      /\ Len(results) = turn /\ turn \in Child
      /\ turn \in GroupLane /\ seam \in {"inline", "fan_out"}
      /\ turn <= Len(group) /\ Len(group) \in Nat /\ turn \in Nat
  BY FanOutFacts DEF SignalPump, JoinPump, NotifyEnded, Place,
     GroupTypeOK
<1>2. CASE SignalPump
  <2>1. /\ UNCHANGED <<phase, turn>> /\ active' \subseteq active
        /\ stopped' \in [Child -> BOOLEAN]
    BY <1>1, <1>2 DEF SignalPump, GroupTypeOK
  <2>2. GroupTypeOK'
    BY <1>1, <2>1 DEF GroupTypeOK
  <2>3. Sorting'
    BY <1>1, <2>1, SortingKept
  <2>4. Place' /\ Reaping'
    BY <1>1, <2>1 DEF Place, Reaping, Child
  <2>5. Pumping'
    BY <1>1, <2>1 DEF Pumping, Live, Child
  <2>6. Streaming' /\ SilentAfterTerminal'
    BY <1>1, <2>1, FanOutTells
  <2> QED BY <2>2, <2>3, <2>4, <2>5, <2>6
<1>3. CASE JoinPump
  <2>1. /\ UNCHANGED <<active, stopped>> /\ active = {} /\ \A i \in Child : ~ Live(i)
    BY <1>1, <1>3 DEF JoinPump, Pumping, Live, GroupTypeOK
  <2>2. CASE seam = "fan_out"
    <3>1. /\ Place' /\ Reaping' /\ Pumping' /\ turn' \in GroupLane
          /\ phase' \in {"started", "raising"} \/ (phase' = "collected" /\ turn' = 1)
      BY <1>1, <1>3, <2>1, <2>2, NextChildGoesOn DEF JoinPump, NotifyEnded
    <3>2. GroupTypeOK'
      BY <1>1, <2>1, <3>1 DEF GroupTypeOK
    <3>3. Sorting'
      BY <1>1, <3>1, SortingKept
    <3>4. Streaming' /\ SilentAfterTerminal'
      BY <1>1, <3>1, FanOutTells
    <3> QED BY <3>1, <3>2, <3>3, <3>4
  <2>3. CASE seam = "inline"
    <3>1. phase' = "store" /\ turn' = turn
      BY <1>3, <2>3 DEF JoinPump, NotifyEnded
    <3>2. GroupTypeOK'
      BY <1>1, <2>1, <3>1 DEF GroupTypeOK
    <3>3. Sorting'
      BY <1>1, <3>1, SortingKept
    <3>4. Place' /\ Reaping'
      BY <1>1, <3>1 DEF Place, Reaping, Child
    <3>5. Pumping'
      BY <1>1, <2>1, <3>1 DEF Pumping, Live, Child
    <3>6. Streaming' /\ SilentAfterTerminal'
      BY <1>1, <3>1, FanOutTells
    <3> QED BY <3>2, <3>3, <3>4, <3>5, <3>6
  <2> QED BY <1>1, <2>2, <2>3
<1> QED BY <1>2, <1>3

-----------------------------------------------------------------------------
(* The heartbeat threads and the Group!processes.                                *)

LEMMA PumpSteps ==
    ASSUME GroupInv, NEW i \in Child,
           PumpWakes(i) \/ BeatRefused(i)
    PROVE  GroupInv'
<1> USE DEF fixed, processes, groupGiven, fanOutVars, GroupInv
<1>1. /\ UNCHANGED <<fanOutVars, groupGiven, stream, beats, stopped, active>>
      /\ Live(i)
      /\ pump' \in [Child -> {"none", "waiting", "beating", "ended"}]
      /\ \A j \in Child : j # i => pump'[j] = pump[j]
      /\ pump'[i] = "beating" => beats[i] < MaxBeats
  <2>1. CASE PumpWakes(i)
    BY <2>1 DEF PumpWakes, Live, GroupTypeOK
  <2>2. CASE BeatRefused(i)
    BY <2>2 DEF BeatRefused, Live, GroupTypeOK
  <2> QED BY <2>1, <2>2
<1>2. GroupTypeOK'
  BY <1>1 DEF GroupTypeOK
<1>3. Sorting'
  BY <1>1, SortingKept
<1>4. Place' /\ Reaping'
  BY <1>1 DEF Place, Reaping, Child
<1>5. Pumping'
  BY <1>1 DEF Pumping, Live, Child
<1>6. Streaming' /\ SilentAfterTerminal'
  BY <1>1, StreamingKept DEF Quiet, ToTell
<1> QED BY <1>2, <1>3, <1>4, <1>5, <1>6

LEMMA BeatStep ==
    ASSUME GroupInv, NEW i \in Child, Beat(i)
    PROVE  GroupInv'
<1> USE DEF fixed, processes, groupGiven, fanOutVars, GroupInv
<1>1. /\ UNCHANGED <<fanOutVars, groupGiven, stopped, active>>
      /\ pump[i] = "beating" /\ Live(i)
      /\ i = turn /\ (i \in active \/ phase = "ended") /\ beats[i] < MaxBeats
      /\ pump' \in [Child -> {"none", "waiting", "beating", "ended"}]
      /\ pump'[i] = "waiting" /\ \A j \in Child : j # i => pump'[j] = pump[j]
  BY DEF Beat, Live, GroupTypeOK, Pumping
<1>2. /\ beats' \in [Child -> 0 .. MaxBeats] /\ \A j \in Child : j # i => beats'[j] = beats[j]
  <2>1. beats[i] \in Nat /\ MaxBeats \in Nat /\ beats \in [Child -> 0 .. MaxBeats]
    BY DEF GroupTypeOK, ConstantsFit
  <2>2. beats[i] + 1 \in 0 .. MaxBeats
    BY <1>1, <2>1
  <2>3. beats' = [beats EXCEPT ![i] = beats[i] + 1]
    BY DEF Beat
  <2> QED BY <2>1, <2>2, <2>3
<1>3. /\ Quiet /\ i \in DOMAIN group /\ i \in GroupLane
      /\ group[i] \in GroupLane /\ group[i] \notin Unlaunched
  <2>1. i <= Len(group) /\ Quiet
    BY <1>1 DEF Pumping, Quiet, Place
  <2>2. i \in DOMAIN group /\ i \in GroupLane
    BY <2>1, GroupFacts
  <2> QED BY <2>1, <2>2 DEF Sorting, GroupTypeOK
<1>4. PICK e \in Event : /\ e.kind = "heartbeat" /\ e.lane = group[i] /\ e.child = i
                         /\ stream' = Append(stream, e)
  <2> DEFINE e == [kind |-> "heartbeat", lane |-> group[i], child |-> i, ok |-> TRUE]
  <2>1. e \in Event
    BY <1>3 DEF Event
  <2>2. /\ e.kind = "heartbeat" /\ e.lane = group[i] /\ e.child = i
        /\ stream' = Append(stream, e)
    BY DEF Beat
  <2> QED BY <2>1, <2>2
<1>5. PICK n \in Nat : n = Len(stream) /\ DOMAIN stream = 1 .. n
  BY DEF GroupTypeOK
<1>6. /\ stream' \in Seq(Event) /\ DOMAIN stream' = 1 .. n + 1
      /\ \A k \in 1 .. n : stream'[k] = stream[k]
      /\ stream'[n + 1] = e
      /\ \A k \in 1 .. n + 1 : k \in 1 .. n \/ k = n + 1
  BY <1>4, <1>5 DEF GroupTypeOK
<1>7. GroupTypeOK'
  BY <1>1, <1>2, <1>6 DEF GroupTypeOK
<1>8. Sorting'
  BY <1>1, SortingKept
<1>9. Place' /\ Reaping'
  BY <1>1 DEF Place, Reaping, Child
<1>10. Pumping'
  BY <1>1, <1>2 DEF Pumping, Live, Child
<1>11. \A k \in 1 .. n : stream[k].kind # "heartbeat" => stream[k].lane \in rejected
  BY <1>3, <1>5 DEF Streaming
<1>12. Streaming'
  <2>1. \A m : Ends(m)' = Ends(m) /\ (ToldOnce(m) => ToldOnce(m)')
    BY <1>1, <1>4, EndsBeat
  <2>2. \A m : ToTell(m)' <=> ToTell(m)
    BY <1>1 DEF ToTell
  <2>3. \A k \in DOMAIN stream' : stream'[k].kind # "heartbeat" => stream'[k].lane \in rejected
    BY <1>4, <1>6, <1>11
  <2> QED BY <1>1, <2>1, <2>2, <2>3 DEF Streaming
<1>13. SilentAfterTerminal'
  <2> SUFFICES ASSUME NEW a \in 1 .. n + 1, NEW b \in 1 .. n + 1, a < b,
                      stream'[a].kind = "process_terminal", stream'[b].kind = "heartbeat"
               PROVE  /\ stream'[a].lane # stream'[b].lane
                      /\ Len(group) = total => stream'[a].child # stream'[b].child
    BY <1>1, <1>6 DEF SilentAfterTerminal
  <2>1. a \in 1 .. n
    BY <1>4, <1>6
  <2>2. stream[a].lane \in rejected /\ stream'[a] = stream[a] /\ stream[a].kind = "process_terminal"
    BY <1>6, <1>11, <2>1
  <2>3. CASE b \in 1 .. n
    BY <1>5, <1>6, <2>1, <2>3 DEF SilentAfterTerminal
  <2>4. CASE b = n + 1
    <3>1. stream'[b].lane = group[i]
      BY <1>4, <1>6, <2>4
    <3>2. stream[a].lane # group[i]
      BY <1>3, <2>2 DEF Unlaunched
    <3>3. Len(group) # total
      BY <2>2 DEF Sorting, Unlaunched
    <3> QED BY <2>2, <3>1, <3>2, <3>3
  <2> QED BY <1>6, <2>3, <2>4
<1> QED BY <1>7, <1>8, <1>9, <1>10, <1>12, <1>13

\* A process ends once, and stays as it ended.
LEMMA ProcessSteps ==
    ASSUME GroupInv, NEW i \in Child,
           ObeyStep(i) \/ ProcessStep(i)
    PROVE  GroupInv'
<1> USE DEF fixed, groupGiven, pumps, GroupInv
<1>1. /\ UNCHANGED <<fixed, group, asked, phase, turn, results, failed, groupGiven, stream, pumps>>
      /\ leader' \in [Child -> {"none", "alive", "dead"}]
      /\ tail' \in [Child -> {"none", "alive", "detached", "gone"}]
      /\ how' \in [Child -> Ending \cup {"none"}]
      /\ \A j \in Child : j # i => leader'[j] = leader[j] /\ tail'[j] = tail[j] /\ how'[j] = how[j]
      /\ \/ /\ leader[i] = "alive" /\ leader'[i] = "dead" /\ how'[i] \in Ending
            /\ tail'[i] = tail[i]
         \/ /\ tail[i] \in {"alive", "detached"} /\ tail'[i] \in {"detached", "gone"}
            /\ leader'[i] = leader[i] /\ how'[i] = how[i]
  <2>0. UNCHANGED <<groupGiven, stream, pumps>>
    BY DEF ObeyStep, ProcessStep
  <2>1. CASE ObeyStep(i)
    BY <2>1 DEF ObeyStep, Obeys, GroupTypeOK, Ending
  <2>2. CASE \E ending \in Ending : LeaderExits(i, ending)
    BY <2>0, <2>2 DEF LeaderExits, GroupTypeOK
  <2>3. CASE TailExits(i) \/ TailLetsGo(i)
    BY <2>0, <2>3 DEF TailExits, TailLetsGo, GroupTypeOK
  <2> QED BY <2>1, <2>2, <2>3 DEF ProcessStep
<1>2. GroupTypeOK'
  BY <1>1 DEF GroupTypeOK
<1>3. Sorting'
  BY <1>1, SortingKept
<1>4. Place'
  BY <1>1 DEF Place
<1>5. Reaping'
  <2>1. leader[i] # "none"
    BY <1>1 DEF Reaping
  <2>2. /\ phase # "preflight"
        /\ phase = "start" => \A j \in Child : j >= turn => leader'[j] = "none"
    BY <1>1, <2>1 DEF Reaping
  <2>3. /\ \A j \in Child : leader'[j] = "none" => tail'[j] = "none"
        /\ \A j \in Child : leader'[j] = "dead" <=> how'[j] # "none"
    BY <1>1, <2>1 DEF Reaping, Ending
  <2>4. \A j \in DOMAIN results :
          /\ leader'[j] # "alive" /\ tail'[j] # "alive"
          /\ CASE results[j] = "launch_failed" -> leader'[j] = "none"
               [] results[j] = "timed_out" -> timed /\ leader'[j] = "dead"
               [] OTHER -> results[j] = how'[j]
    <3>1. ASSUME NEW j \in DOMAIN results
          PROVE  leader'[j] = leader[j] /\ how'[j] = how[j] /\ tail'[j] # "alive"
      <4>1. j \in Child /\ leader[j] # "alive" /\ tail[j] # "alive"
        BY GroupFacts DEF Reaping
      <4> QED BY <1>1, <4>1
    <3> QED BY <1>1, <3>1 DEF Reaping
  <2> QED BY <1>1, <2>2, <2>3, <2>4 DEF Reaping, Child
<1>6. Pumping'
  <2>1. \A j \in Child : leader[j] # "none" => leader'[j] # "none"
    BY <1>1
  <2>2. \A j \in active : j \in Child
    BY DEF GroupTypeOK
  <2> QED BY <1>1, <2>1, <2>2 DEF Pumping, Live, Child
<1>7. Streaming' /\ SilentAfterTerminal'
  <2>1. \A j \in Child : how[j] = "zero" => how'[j] = "zero"
    BY <1>1 DEF Reaping
  <2> QED BY <1>1, <2>1, StreamingKept DEF Quiet, ToTell
<1> QED BY <1>2, <1>3, <1>4, <1>5, <1>6, <1>7

-----------------------------------------------------------------------------
(* What is told of the children, and the way out.                          *)

LEMMA TellStep ==
    ASSUME GroupInv, NEW present \in BOOLEAN, NEW taken \in 0 .. 2,
           Tell(present, taken)
    PROVE  GroupInv'
<1> USE DEF fixed, processes, groupGiven, pumps, GroupInv
<1> DEFINE ok == results[turn] = "zero" /\ present
<1>1. /\ phase = "collected" /\ active = {} /\ (\A i \in Child : ~ Live(i))
      /\ UNCHANGED <<fixed, group, leader, tail, how, asked, results, failed, groupGiven, pumps>>
      /\ EmitStatus(group[turn], ok, taken)
      /\ \/ phase' = "raising" /\ turn' = turn /\ taken < 2
         \/ taken = 2 /\ turn < Len(group) /\ turn' = turn + 1 /\ phase' = "collected"
         \/ taken = 2 /\ ~ (turn < Len(group)) /\ turn' = turn /\ phase' = "leaving"
  BY DEF Tell, Pumping
<1>2. PICK m \in Nat : /\ m = Len(group) /\ DOMAIN group = 1 .. m /\ turn \in 1 .. m
                       /\ Len(results) = m /\ DOMAIN results = 1 .. m
                       /\ \A k \in 1 .. m : k \in GroupLane /\ k \in Child
  <2>1. turn <= Len(group) /\ Len(results) = Len(group)
    BY <1>1 DEF Place
  <2>2. /\ Len(group) \in Nat /\ DOMAIN group = 1 .. Len(group) /\ turn \in Nat /\ 1 <= turn
        /\ DOMAIN results = 1 .. Len(results) /\ GroupLane = Child
        /\ \A k \in 1 .. Len(group) : k \in Child
    BY GroupFacts
  <2>3. turn \in 1 .. Len(group)
    BY <2>1, <2>2
  <2>4. \A k \in 1 .. Len(group) : k \in GroupLane /\ k \in Child
    BY <2>2
  <2>5. Len(group) \in Nat
    BY <2>2
  <2> WITNESS Len(group) \in Nat
  <2> QED BY <2>1, <2>2, <2>3, <2>4
<1>3. PICK here \in GroupLane : here = group[turn] /\ here \in 1 .. total /\ here \notin Unlaunched
  <2>1. turn \in DOMAIN group /\ group \in Seq(GroupLane)
    BY <1>2 DEF GroupTypeOK
  <2>2. group[turn] \in GroupLane /\ group[turn] \in 1 .. total /\ group[turn] \notin Unlaunched
    BY <2>1 DEF Sorting
  <2> QED BY <2>2
<1>4. PICK done \in BOOLEAN : done = ok
  OBVIOUS
<1>5. EmitStatus(here, done, taken)
  BY <1>1, <1>3, <1>4 DEF EmitStatus
<1>6. stream' \in Seq(Event)
  BY <1>5, StatusEmitted
<1>7. GroupTypeOK'
  <2>1. turn' \in GroupLane
    BY <1>1, <1>2
  <2> QED BY <1>1, <1>6, <2>1 DEF GroupTypeOK
<1>8. Sorting'
  BY <1>1, SortingKept
<1>9. Place'
  BY <1>1, <1>2 DEF Place
<1>10. Reaping'
  BY <1>1 DEF Reaping, Child
<1>11. Pumping'
  BY <1>1 DEF Pumping, Live, Child
<1>12. /\ \A l : l # here => Ends(l)' = Ends(l) /\ (ToldOnce(l) => ToldOnce(l)')
       /\ Ends(here) = {} /\ taken = 2 => ToldOnce(here)'
       /\ SilentAfterTerminal'
  <2>1. done => \E k \in DOMAIN group : group[k] = here /\ how[k] = "zero"
    <3>1. ASSUME done PROVE how[turn] = "zero"
      BY <1>2, <1>4, <3>1 DEF Reaping
    <3> QED BY <1>2, <1>3, <3>1
  <2>2. UNCHANGED <<total, passed, group, how>>
    BY <1>1
  <2> QED BY <1>5, <2>1, <2>2, EndsTold
<1>13. Streaming'
  <2>1. ~ Quiet'
    BY <1>1 DEF Quiet
  <2>2. CASE phase' = "raising"
    BY <2>1, <2>2 DEF Streaming
  <2>3. CASE taken = 2
    <3>1. \A l \in 1 .. total : IF ToTell(l) THEN ToldOnce(l) ELSE Ends(l) = {}
      BY <1>1 DEF Streaming
    <3>2. \A l : ToTell(l) <=> l \in rejected \/ \E k \in 1 .. m : k < turn /\ group[k] = l
      BY <1>1, <1>2 DEF ToTell
    <3>3. \A j, k \in 1 .. m : group[j] = group[k] => j = k
      BY <1>2 DEF Sorting
    <3>4. here \notin rejected /\ \A k \in 1 .. m : k < turn => group[k] # here
      BY <1>2, <1>3, <3>3 DEF Unlaunched
    <3>5. ~ ToTell(here)
      BY <3>2, <3>4
    <3>6. ToldOnce(here)'
      BY <1>3, <1>12, <2>3, <3>1, <3>5
    <3>7. ASSUME NEW l \in 1 .. total PROVE ToTell(l)' <=> l = here \/ ToTell(l)
      <4>1. CASE turn < m
        <5>1. phase' = "collected" /\ turn' = turn + 1
          BY <1>1, <1>2, <2>3, <4>1
        <5>2. ToTell(l)' <=> l \in rejected \/ \E k \in 1 .. m : k < turn + 1 /\ group[k] = l
          BY <1>1, <1>2, <5>1 DEF ToTell
        <5>3. \A k \in 1 .. m : k < turn + 1 <=> k < turn \/ k = turn
          BY <1>2
        <5> QED BY <1>2, <1>3, <3>2, <5>2, <5>3
      <4>2. CASE ~ (turn < m)
        <5>1. phase' = "leaving" /\ \A k \in 1 .. m : k < turn \/ k = turn
          BY <1>1, <1>2, <2>3, <4>2
        <5>2. ToTell(l)' <=> l \in rejected \/ ~ (l \in passed /\ seam = "fan_out")
          BY <1>1, <5>1 DEF ToTell
        <5>3. l \notin Unlaunched <=> \E k \in 1 .. m : group[k] = l
          BY <1>1, <1>2 DEF Sorting
        <5>4. seam = "inline" => l = here
          BY <1>3 DEF Sorting, GroupTypeOK
        <5>5. CASE l \in rejected
          BY <3>2, <5>2, <5>5
        <5>6. CASE l \notin Unlaunched
          <6>1. l = here \/ \E k \in 1 .. m : k < turn /\ group[k] = l
            BY <1>3, <5>1, <5>3, <5>6
          <6> QED BY <3>2, <5>2, <5>6, <6>1 DEF Unlaunched
        <5>7. CASE l \in passed /\ l \notin rejected
          <6>1. l # here /\ seam = "fan_out"
            BY <1>3, <5>4, <5>7 DEF Unlaunched, GroupTypeOK
          <6>2. ~ ToTell(l)
            BY <3>2, <5>3, <5>7 DEF Unlaunched
          <6> QED BY <5>2, <5>7, <6>1, <6>2
        <5> QED BY <5>5, <5>6, <5>7 DEF Unlaunched
      <4> QED BY <4>1, <4>2
    <3>8. ASSUME NEW l \in 1 .. total
          PROVE IF ToTell(l)' THEN ToldOnce(l)' ELSE Ends(l)' = {}
      BY <1>12, <3>1, <3>6, <3>7
    <3> QED BY <1>1, <2>1, <3>8 DEF Streaming
  <2> QED BY <1>1, <2>2, <2>3
<1> QED BY <1>7, <1>8, <1>9, <1>10, <1>11, <1>12, <1>13

LEMMA LeaveSteps ==
    ASSUME GroupInv, StopLeft \/ JoinLeft \/ Leave
    PROVE  GroupInv'
<1> USE DEF fixed, processes, groupGiven, pumps, fanOutVars,
           GroupInv
<1>1. /\ phase \in {"leaving", "raising"}
      /\ UNCHANGED <<fixed, group, leader, tail, how, asked, turn, results, failed,
                     groupGiven, stream, pump, beats>>
      /\ active' \subseteq active /\ stopped' \in [Child -> BOOLEAN]
      /\ \/ phase' = phase
         \/ active = {} /\ phase = "leaving" /\ phase' = "returned"
         \/ active = {} /\ phase = "raising" /\ phase' = "raised"
  BY DEF StopLeft, JoinLeft, Leave, GroupTypeOK
<1>2. \A i \in Child : Live(i) => i \in active /\ i \in active'
  <2>1. ASSUME JoinLeft PROVE \A i \in active : ~ Live(i)
    <3>1. turn \in Nat /\ active = {turn}
      BY <2>1, GroupFacts DEF JoinLeft, Pumping
    <3>2. First(active) = turn
      BY <3>1 DEF First
    <3> QED BY <2>1, <3>1, <3>2 DEF JoinLeft, Live
  <2>2. \A i \in Child : Live(i) => i \in active
    BY <1>1 DEF Pumping
  <2> QED BY <2>1, <2>2 DEF StopLeft, Leave
<1>3. GroupTypeOK'
  BY <1>1 DEF GroupTypeOK
<1>4. Sorting'
  BY <1>1, SortingKept
<1>5. Place' /\ Reaping'
  BY <1>1 DEF Place, Reaping, Child
<1>6. Pumping'
  <2>1. active # {} => phase' = phase
    BY <1>1
  <2> QED BY <1>1, <1>2, <2>1 DEF Pumping, Live, Child
<1>7. Streaming' /\ SilentAfterTerminal'
  BY <1>1, StreamingKept DEF Quiet, ToTell
<1> QED BY <1>3, <1>4, <1>5, <1>6, <1>7

-----------------------------------------------------------------------------
LEMMA GroupStart == ASSUME GroupInit PROVE GroupInv
<1> USE DEF GroupInit, FanOutInit, ConstantsFit
<1>1. GroupTypeOK
  <2>1. /\ total \in GroupLane
        /\ passed \subseteq 1 .. total
        /\ rejected \subseteq 1 .. total
        /\ turn = 1 /\ 1 \in GroupLane
        /\ 1 .. total \subseteq GroupLane
        /\ 0 \in 0 .. MaxBeats
    BY DEF GroupLane
  <2>2. /\ group = <<>> /\ results = <<>> /\ stream = <<>> /\ failed = FALSE
        /\ leader = [i \in Child |-> "none"] /\ tail = [i \in Child |-> "none"]
        /\ how = [i \in Child |-> "none"] /\ asked = [i \in Child |-> FALSE]
        /\ pump = [i \in Child |-> "none"] /\ beats = [i \in Child |-> 0]
        /\ stopped = [i \in Child |-> FALSE] /\ active = {} /\ phase = "preflight"
        /\ kind \in [Child -> Kind]
        /\ timed \in BOOLEAN
        /\ seam \in {"inline", "fan_out"}
    OBVIOUS
  <2>3. /\ group \in Seq(GroupLane)
        /\ results \in Seq(Result)
        /\ stream \in Seq(Event)
    BY <2>2
  <2>4. /\ leader \in [Child -> {"none", "alive", "dead"}]
        /\ tail \in [Child -> {"none", "alive", "gone"}]
        /\ how \in [Child -> Ending \cup {"none"}]
        /\ asked \in [Child -> BOOLEAN]
        /\ pump \in [Child -> {"none", "waiting", "beating", "ended"}]
        /\ beats \in [Child -> 0 .. MaxBeats] /\ stopped \in [Child -> BOOLEAN]
    BY <2>1, <2>2
  <2>5. /\ passed \subseteq GroupLane /\ rejected \subseteq GroupLane
        /\ turn \in GroupLane /\ active \subseteq Child
    BY <2>1, <2>2
  <2> HIDE DEF GroupInit, FanOutInit
  <2> QED BY <2>1, <2>2, <2>3, <2>4, <2>5 DEF GroupTypeOK
<1>2. Sorting
  BY DEF Sorting, Unlaunched, GroupLane
<1>3. Place /\ Reaping
  BY DEF Place, Reaping
<1>4. Pumping
  BY DEF Pumping, Live
<1>5. Streaming /\ SilentAfterTerminal
  BY DEF Streaming, ToTell, Ends, SilentAfterTerminal, GroupLane
<1> QED BY <1>1, <1>2, <1>3, <1>4, <1>5 DEF GroupInv

LEMMA GroupStep == ASSUME GroupInv, [GroupNext]_groupVars
                   PROVE GroupInv'
<1>1. ASSUME DispatcherStep PROVE GroupInv'
  <2>1. ASSUME FanOutStep PROVE GroupInv'
    <3>1. Aside
      BY <2>1 DEF FanOutStep, Aside, Launch, LaunchFails,
         NeverStarted, Collect, TimesOut, Kill,
                  GraceEnds, Drain, Store, StoreFails
    <3> QED BY <2>1, <3>1, LaunchesStart, NeverStartedStep, ReapStep, EndStep, StoreStep
            DEF FanOutStep
  <2> QED BY <1>1, <2>1, GroupPreflight, StartedStep, EndedStep, TellStep, LeaveSteps
          DEF DispatcherStep
<1>2. ASSUME NEW i \in Child,
             PumpStep(i) \/ ObeyStep(i) \/ ProcessStep(i) PROVE GroupInv'
  BY <1>2, PumpSteps, BeatStep, ProcessSteps DEF PumpStep
<1>3. ASSUME UNCHANGED groupVars PROVE GroupInv'
  <2> USE <1>3 DEF groupVars, fanOutVars, fixed, processes, groupGiven, pumps, GroupInv
  <2>1. GroupTypeOK'
    BY DEF GroupTypeOK
  <2>2. Sorting'
    BY SortingKept
  <2>3. Place' /\ Reaping' /\ Pumping'
    BY DEF Place, Reaping, Pumping, Live, Child
  <2>4. Streaming' /\ SilentAfterTerminal'
    BY StreamingKept DEF Quiet, ToTell
  <2> QED BY <2>1, <2>2, <2>3, <2>4
<1> QED BY <1>1, <1>2, <1>3 DEF GroupNext

LEMMA GroupInvariant == GroupSpec => []GroupInv
<1>1. GroupInit => GroupInv
  BY GroupStart
<1>2. GroupInv /\ [GroupNext]_groupVars => GroupInv'
  BY GroupStep
<1> QED BY <1>1, <1>2, PTL DEF GroupSpec

LEMMA GroupReaped == ASSUME GroupInv PROVE EveryChildReaped
<1>1. phase = "raising" /\ seam = "fan_out" /\ Len(results) < Len(group) => turn = Len(results)
  <2>1. Len(results) \in Nat /\ Len(group) \in Nat
    BY DEF GroupInv, GroupTypeOK
  <2> QED BY <2>1 DEF GroupInv, Place
<1> QED BY <1>1 DEF GroupInv, Reaping, Place, EveryChildReaped

LEMMA GroupTold == ASSUME GroupInv PROVE ReturnedHasTold
BY DEF GroupInv, Streaming, ToTell, ReturnedHasTold, Sorting

LEMMA GroupThreads == ASSUME GroupInv PROVE NoThreadLeaks
<1> SUFFICES ASSUME Done, NEW i \in Child PROVE pump[i] \in {"none", "ended"}
  BY DEF NoThreadLeaks
<1>1. ~ Live(i)
  BY DEF GroupInv, Pumping, Done
<1> QED BY <1>1 DEF GroupInv, GroupTypeOK, Live

\* Types of the fan-out, the heartbeat threads and the event stream.
THEOREM GroupTypeCorrect ==
    GroupSpec => []GroupTypeOK
<1>1. GroupInv => GroupTypeOK
  BY DEF GroupInv
<1> QED BY <1>1, GroupInvariant, PTL

\* No heartbeat of a lane follows its process_terminal on the stream, although the
\* thread that beats and the dispatcher that settles the lane write to one stream.
THEOREM LanesFallSilent ==
    GroupSpec => []SilentAfterTerminal
<1>1. GroupInv => SilentAfterTerminal
  BY DEF GroupInv
<1> QED BY <1>1, GroupInvariant, PTL

\* When the fan-out has collected its results no child that was started is still
\* alive, and each result says how its own child ended.
THEOREM ChildrenAreReaped ==
    GroupSpec => []EveryChildReaped
<1>1. GroupInv => EveryChildReaped
  BY GroupReaped
<1> QED BY <1>1, GroupInvariant, PTL

\* A group that returned has told of every lane it announced exactly once, in the
\* order the stream promises, and no lane is called good whose child failed.
THEOREM LanesAreToldOnce ==
    GroupSpec => []ReturnedHasTold
<1>1. GroupInv => ReturnedHasTold
  BY GroupTold
<1> QED BY <1>1, GroupInvariant, PTL

\* A group that is over, returned or raised, leaves no heartbeat thread behind.
THEOREM ThreadsDoNotLeak ==
    GroupSpec => []NoThreadLeaks
<1>1. GroupInv => NoThreadLeaks
  BY GroupThreads
<1> QED BY <1>1, GroupInvariant, PTL

-----------------------------------------------------------------------------
(***************************************************************************)
(* What the wave takes a group for (LaunchGroup).  GroupInv says of every  *)
(* step which lane it is about: before the launch nobody is at work, in    *)
(* the fan-out one child changes at a time, and when the lanes are told of *)
(* all results are in.                                                     *)
(***************************************************************************)

LEMMA ChildOfIsChild ==
    ASSUME NEW l, Commanded(l)
    PROVE  ChildOf(l) \in DOMAIN group /\ group[ChildOf(l)] = l
BY DEF Commanded, ChildOf

LEMMA WorkersKept ==
    ASSUME group' = group, \A i \in DOMAIN group : Fate(i)' = Fate(i)
    PROVE  Workers' = Workers
<1>1. \A l : Commanded(l)' = Commanded(l) /\ ChildOf(l)' = ChildOf(l)
  BY DEF Commanded, ChildOf
<1>2. \A l : Commanded(l) => Fate(ChildOf(l))' = Fate(ChildOf(l))
  BY <1>1, ChildOfIsChild DEF Fate
<1> QED BY <1>1, <1>2 DEF Workers

\* One child of the group comes to another fate, and with it its lane.
LEMMA WorkerMoves ==
    ASSUME GroupInv, group' = group, NEW i \in DOMAIN group, NEW fate, Fate(i)' = fate,
           \A j \in DOMAIN group : j # i => Fate(j)' = Fate(j)
    PROVE  /\ group[i] \in GroupLane
           /\ Workers[group[i]] = Fate(i)
           /\ Workers' = [Workers EXCEPT ![group[i]] = fate]
<1>1. group[i] \in GroupLane /\ \A j \in DOMAIN group : group[j] = group[i] => j = i
  BY DEF GroupInv, GroupTypeOK, Sorting
<1>2. \A l : Commanded(l)' = Commanded(l) /\ ChildOf(l)' = ChildOf(l)
  BY DEF Commanded, ChildOf
<1>3. Commanded(group[i]) /\ ChildOf(group[i]) = i
  BY <1>1, ChildOfIsChild DEF Commanded
<1>4. ASSUME NEW l, l # group[i], Commanded(l) PROVE Fate(ChildOf(l))' = Fate(ChildOf(l))
  <2>1. ChildOf(l) \in DOMAIN group /\ ChildOf(l) # i
    BY <1>4, ChildOfIsChild
  <2> QED BY <1>2, <2>1 DEF Fate
<1>5. Fate(ChildOf(group[i]))' = fate
  BY <1>2, <1>3 DEF Fate
<1> QED BY <1>1, <1>2, <1>3, <1>4, <1>5 DEF Workers

LEMMA NobodyYet ==
    ASSUME GroupInv, phase = "preflight"
    PROVE  Workers = [l \in GroupLane |-> "none"]
<1>1. \A i \in DOMAIN group : i \in Child
  BY GroupFacts DEF GroupInv
<1>2. \A l : Commanded(l) => Fate(ChildOf(l)) = "none"
  BY <1>1, PreflightFacts, ChildOfIsChild DEF Fate
<1> QED BY <1>2 DEF Workers

LEMMA NobodyStarted ==
    ASSUME GroupInv, phase = "preflight", UNCHANGED <<leader, tail, how>>,
           group' = group \/ group' = Append(group, turn)
    PROVE  Workers' = Workers
<1>1. \A i \in DOMAIN group' : i \in Child
  <2>1. PICK n \in Nat : n = Len(group) /\ DOMAIN group = 1 .. n /\ n < turn /\ turn \in Child
    BY GroupFacts, PreflightFacts DEF GroupInv
  <2>2. DOMAIN group' = 1 .. n \/ DOMAIN group' = 1 .. n + 1
    BY <2>1 DEF GroupInv, GroupTypeOK
  <2>3. turn \in Nat /\ \A i \in 1 .. turn : i \in Child
    BY GroupFacts DEF GroupInv
  <2> QED BY <2>1, <2>2, <2>3
<1>2. \A l : Commanded(l)' => ChildOf(l)' \in DOMAIN group'
  BY DEF Commanded, ChildOf
<1>3. \A l : Commanded(l)' => Fate(ChildOf(l))' = "none"
  BY <1>1, <1>2, PreflightFacts DEF Fate
<1>4. Workers' = [l \in GroupLane |-> "none"]
  BY <1>3 DEF Workers
<1> QED BY <1>4, NobodyYet

LEMMA TidingsKept ==
    ASSUME stream' = stream
    PROVE  Tidings' = Tidings
BY DEF Tidings, Says

LEMMA TidingsBeat ==
    ASSUME GroupInv, NEW e \in Event, e.kind = "heartbeat", stream' = Append(stream, e)
    PROVE  Tidings' = Tidings
<1>1. PICK n \in Nat : n = Len(stream) /\ DOMAIN stream = 1 .. n
  BY DEF GroupInv, GroupTypeOK
<1>2. /\ DOMAIN stream' = 1 .. n + 1 /\ stream'[n + 1] = e
      /\ \A k \in 1 .. n : stream'[k] = stream[k]
  BY <1>1 DEF GroupInv, GroupTypeOK
<1>3. \A k \in 1 .. n + 1 : k \in 1 .. n \/ k = n + 1
  OBVIOUS
<1>4. \A k \in 1 .. n : k \in 1 .. n + 1
  OBVIOUS
<1>5. \A l, ok : Says(l, ok)' = Says(l, ok)
  BY <1>1, <1>2, <1>3, <1>4 DEF Says
<1> QED BY <1>5 DEF Tidings

\* A status the sink refused a line of tells nothing of the lane; a whole one does.
LEMMA TidingsTold ==
    ASSUME GroupInv, NEW l \in GroupLane, NEW ok \in BOOLEAN, NEW taken \in 0 .. 2,
           EmitStatus(l, ok, taken)
    PROVE  /\ taken # 2 => Tidings' = Tidings
           /\ taken = 2 /\ Tidings[l] = "untold" =>
                 Tidings' = [Tidings EXCEPT ![l] = IF ok THEN "done" ELSE "failed"]
<1>1. PICK n \in Nat : n = Len(stream) /\ DOMAIN stream = 1 .. n
  BY DEF GroupInv, GroupTypeOK
<1> DEFINE lines == SubSeq(Status(l, ok), 1, taken)
<1>2. /\ stream \in Seq(Event) /\ stream' = stream \o lines
  BY DEF GroupInv, GroupTypeOK, EmitStatus
<1>3. Status(l, ok) \in Seq(Event) /\ Len(Status(l, ok)) = 2
  BY DEF Status, Event, GroupLane
<1>4. /\ lines \in Seq(Event) /\ Len(lines) = taken
      /\ \A k \in 1 .. taken : lines[k] = Status(l, ok)[k]
  BY <1>3, SubSeqProperties
<1> HIDE DEF lines
<1>5. /\ DOMAIN stream' = 1 .. n + taken
      /\ \A k \in 1 .. n : stream'[k] = stream[k]
      /\ \A k \in 1 .. taken : stream'[n + k] = lines[k]
  BY <1>1, <1>2, <1>4
<1>6. \A k \in 1 .. n : k \in 1 .. n + taken
  OBVIOUS
<1>7. CASE taken # 2
  <2>1. \A k \in 1 .. n + taken : k \in 1 .. n \/ (taken = 1 /\ k = n + 1)
    BY <1>7
  <2>2. taken = 1 => stream'[n + 1].kind = "process_terminal"
    BY <1>4, <1>5 DEF Status
  <2>3. \A m, b : Says(m, b)' = Says(m, b)
    BY <1>1, <1>5, <1>6, <2>1, <2>2 DEF Says
  <2> QED BY <1>7, <2>3 DEF Tidings
<1>8. CASE taken = 2
  <2>1. /\ \A k \in 1 .. n + 2 : k \in 1 .. n \/ k = n + 1 \/ k = n + 2
        /\ n + 1 \in 1 .. n + 2 /\ n + 2 \in 1 .. n + 2
    OBVIOUS
  <2>2. /\ stream'[n + 1].kind = "process_terminal"
        /\ stream'[n + 2].kind = "lane_terminal"
        /\ stream'[n + 2].lane = l /\ stream'[n + 2].ok = ok
    BY <1>4, <1>5, <1>8 DEF Status
  <2>3. \A m, b : Says(m, b)' <=> Says(m, b) \/ (m = l /\ b = ok)
    BY <1>1, <1>5, <1>6, <1>8, <2>1, <2>2 DEF Says
  <2> QED BY <1>8, <2>3 DEF Tidings
<1> QED BY <1>7, <1>8

LEMMA NoEndUntold ==
    ASSUME NEW l \in GroupLane, Ends(l) = {}
    PROVE  Tidings[l] = "untold"
BY DEF Tidings, Says, Ends

LEMMA ToldOnceIsTold ==
    ASSUME NEW l \in GroupLane, ToldOnce(l)
    PROVE  Tidings[l] # "untold"
BY DEF Tidings, Says, ToldOnce, Status

Shown == <<passed, rejected, Workers, Tidings, Call>>

\* Steps that nobody outside sees.
LEMMA Unseen ==
    ASSUME UNCHANGED <<passed, rejected>>, Workers' = Workers, Tidings' = Tidings,
           phase \notin {"returned", "raised"}, phase' \notin {"returned", "raised"}
    PROVE  UNCHANGED Shown
BY DEF Shown, Call, Done

LEMMA CallIsOpen ==
    /\ phase \notin {"returned", "raised"} => Call = "open"
    /\ phase \in {"returned", "raised"} => Call = phase
BY DEF Call, Done

LEMMA CallGoesOn ==
    /\ phase' \notin {"returned", "raised"} => Call' = "open"
    /\ phase' \in {"returned", "raised"} => Call' = phase'
BY DEF Call, Done

LEMMA CallRaises ==
    ASSUME UNCHANGED <<passed, rejected>>, Workers' = Workers, Tidings' = Tidings,
           phase \notin {"returned", "raised"}, phase' = "raised"
    PROVE  Promise!Next
<1>1. Call = "open" /\ Call' = "raised"
  BY CallIsOpen, CallGoesOn
<1> QED BY <1>1 DEF Promise!Next, Promise!Raise

LEMMA CallReturns ==
    ASSUME UNCHANGED <<passed, rejected>>, Workers' = Workers, Tidings' = Tidings,
           phase \notin {"returned", "raised"}, phase' = "returned", Promise!Settled
    PROVE  Promise!Next
<1>1. Call = "open" /\ Call' = "returned"
  BY CallIsOpen, CallGoesOn
<1> QED BY <1>1 DEF Promise!Next, Promise!Return

LEMMA LaneTold ==
    ASSUME GroupInv, UNCHANGED <<passed, rejected>>, Workers' = Workers,
           NEW l \in GroupLane, NEW ok \in BOOLEAN, EmitStatus(l, ok, 2),
           Tidings[l] = "untold", Workers[l] # "live",
           ok => l \in passed \/ Workers[l] = "well",
           phase \notin {"returned", "raised"},
           \/ phase' \notin {"returned", "raised"}
           \/ phase' = "returned" /\ Promise!Settled'
    PROVE  Promise!Next
<1>1. PICK as \in {"done", "failed"} : as = IF ok THEN "done" ELSE "failed"
  OBVIOUS
<1>2. Tidings' = [Tidings EXCEPT ![l] = as]
  BY <1>1, TidingsTold
<1>3. Call = "open" /\ (Call' = "open" \/ (Call' = "returned" /\ Promise!Settled'))
  BY CallIsOpen, CallGoesOn
<1>4. Promise!Tell(l, as)
  BY <1>1, <1>2, <1>3 DEF Promise!Tell
<1> QED BY <1>4 DEF Promise!Next

LEMMA PreflightUntold ==
    ASSUME GroupInv, phase = "preflight", turn \in passed \cup rejected, turn \in 1 .. total
    PROVE  Ends(turn) = {}
<1>1. ~ ToTell(turn)
  <2>1. turn \in Nat
    OBVIOUS
  <2> QED BY <2>1 DEF ToTell
<1> QED BY <1>1 DEF GroupInv, Streaming

LEMMA LaunchUntold ==
    ASSUME GroupInv, phase = "start", NEW i \in DOMAIN group
    PROVE  Ends(group[i]) = {}
<1>1. group[i] \in 1 .. total /\ group[i] \notin rejected
  BY DEF GroupInv, Sorting, Unlaunched
<1>2. ~ ToTell(group[i])
  BY <1>1 DEF ToTell
<1> QED BY <1>1, <1>2 DEF GroupInv, Streaming

LEMMA PromisePreflight ==
    ASSUME GroupInv,
           \/ AnnounceFails \/ AcceptLane
           \/ \E taken \in 0 .. 2 : PassInPlace(taken) \/ RejectBlocked(taken)
    PROVE  [Promise!Next]_Shown
<1>1. phase = "preflight" /\ UNCHANGED <<passed, rejected, leader, tail, how>>
  BY DEF AnnounceFails, AcceptLane, PassInPlace, RejectBlocked, groupGiven, processes
<1>2. turn \in GroupLane /\ turn \in 1 .. total
  BY <1>1, GroupFacts, PreflightFacts DEF GroupInv
<1>3. Workers[turn] = "none" /\ Promise!Settled
  BY <1>1, <1>2, NobodyYet DEF Promise!Settled
<1>4. ASSUME group' = group \/ group' = Append(group, turn)
      PROVE  Workers' = Workers /\ Promise!Settled'
  <2>1. Workers' = Workers
    BY <1>1, <1>4, NobodyStarted
  <2> QED BY <1>1, <2>1, NobodyYet DEF Promise!Settled
<1>5. CASE AnnounceFails
  BY <1>1, <1>4, <1>5, CallRaises, TidingsKept DEF AnnounceFails
<1>6. CASE AcceptLane
  <2>1. group' = Append(group, turn) /\ phase' \in {"preflight", "start"} /\ stream' = stream
    <3>1. Append(group, turn) # <<>>
      <4>1. group \in Seq(GroupLane) /\ Append(group, turn) \in Seq(GroupLane)
        BY <1>2 DEF GroupInv, GroupTypeOK
      <4>2. Append(group, turn)[Len(group) + 1] = turn /\ Len(Append(group, turn)) = Len(group) + 1
        BY <1>2, <4>1
      <4>3. Len(group) + 1 # 0
        BY <4>1
      <4> QED BY <4>2, <4>3
    <3> QED BY <1>6, <3>1 DEF AcceptLane, NextLane
  <2> QED BY <1>1, <1>4, <2>1, Unseen, TidingsKept
<1>7. ASSUME NEW ok \in BOOLEAN, NEW taken \in 0 .. 2, EmitStatus(turn, ok, taken),
             turn \in passed \cup rejected, ok => turn \in passed,
             IF taken = 2 THEN NextLane(group) ELSE phase' = "raised" /\ group' = group
      PROVE  Promise!Next
  <2>1. CASE taken = 2
    <3>1. group' = group /\ phase' \in {"preflight", "start", "returned"}
      BY <1>7, <2>1 DEF NextLane
    <3>2. Ends(turn) = {}
      BY <1>1, <1>2, <1>7, PreflightUntold
    <3> QED BY <1>1, <1>2, <1>3, <1>4, <1>7, <2>1, <3>1, <3>2, NoEndUntold, LaneTold
  <2>2. CASE taken # 2
    BY <1>1, <1>2, <1>4, <1>7, <2>2, TidingsTold, CallRaises
  <2> QED BY <2>1, <2>2
<1>8. ASSUME NEW taken \in 0 .. 2, PassInPlace(taken) PROVE [Promise!Next]_Shown
  <2>1. CASE seam = "fan_out"
    <3>1. NextLane(group) /\ stream' = stream
      BY <1>8, <2>1 DEF PassInPlace
    <3>2. group' = group /\ phase' \in {"preflight", "start", "returned"}
      BY <3>1 DEF NextLane
    <3> QED BY <1>1, <1>3, <1>4, <3>1, <3>2, CallReturns, Unseen, TidingsKept
  <2>2. CASE seam # "fan_out"
    <3>1. seam = "inline"
      BY <2>2 DEF GroupInv, GroupTypeOK
    <3>2. EmitStatus(turn, TRUE, taken) /\ turn \in passed
      BY <1>8, <3>1 DEF PassInPlace
    <3>3. IF taken = 2 THEN NextLane(group) ELSE phase' = "raised" /\ group' = group
      BY <1>8, <3>1 DEF PassInPlace
    <3> QED BY <1>7, <3>2, <3>3
  <2> QED BY <2>1, <2>2
<1>9. ASSUME NEW taken \in 0 .. 2, RejectBlocked(taken) PROVE [Promise!Next]_Shown
  <2>1. EmitStatus(turn, FALSE, taken) /\ turn \in rejected
    BY <1>9 DEF RejectBlocked
  <2>2. IF taken = 2 THEN NextLane(group) ELSE phase' = "raised" /\ group' = group
    BY <1>9 DEF RejectBlocked
  <2> QED BY <1>7, <2>1, <2>2
<1> QED BY <1>5, <1>6, <1>8, <1>9

LEMMA FatesStay ==
    ASSUME GroupInv, group' = group, stream' = stream, UNCHANGED <<passed, rejected>>,
           UNCHANGED <<leader, tail, how>>,
           phase \notin {"returned", "raised"}, phase' \notin {"returned", "raised"}
    PROVE  UNCHANGED Shown
<1>1. Workers' = Workers
  BY WorkersKept DEF Fate
<1> QED BY <1>1, TidingsKept, Unseen

LEMMA PromiseFanOut ==
    ASSUME GroupInv, FanOutStep \/ StartPump \/ PumpCannotStart \/ SignalPump \/ JoinPump
    PROVE  [Promise!Next]_Shown
<1>1. /\ UNCHANGED <<group, stream, passed, rejected>>
      /\ phase \in {"start", "started", "wait", "grace", "drain", "store", "ended"}
      /\ phase' \notin {"returned", "raised"}
  BY DEF FanOutStep, Launch, LaunchFails, NeverStarted, Collect, TimesOut, Kill, GraceEnds,
         Drain, Store, StoreFails, StartPump, PumpCannotStart, NotifyStarted, SignalPump,
         JoinPump, NotifyEnded, NextLaunch, NextChild, Reaped, groupGiven, fanOutVars, fixed
<1>2. /\ turn \in DOMAIN group /\ turn \in Child
      /\ group[turn] \notin passed \cup rejected
      /\ \A i \in DOMAIN group : i \in Child
      /\ Call = "open" /\ Call' = "open"
  <2>1. turn \in DOMAIN group /\ turn \in Child /\ \A i \in DOMAIN group : i \in Child
    BY <1>1, FanOutFacts, GroupFacts DEF GroupInv
  <2> QED BY <1>1, <2>1, CallIsOpen, CallGoesOn DEF GroupInv, Sorting, Unlaunched
<1>3. CASE Launch
  <2>1. PICK i \in DOMAIN group : i = turn
    BY <1>2
  <2>2. leader[i] = "none" /\ tail[i] # "alive" /\ leader'[i] = "alive"
    <3>1. phase = "start" /\ i \in Child /\ turn \in Nat /\ i >= turn
      BY <1>2, <1>3, <2>1, GroupFacts DEF Launch, GroupInv
    <3>2. leader[i] = "none" /\ tail[i] # "alive"
      BY <3>1 DEF GroupInv, Reaping
    <3> QED BY <1>3, <2>1, <3>1, <3>2 DEF Launch, GroupInv, GroupTypeOK
  <2>3. \A j \in DOMAIN group : j # i => Fate(j)' = Fate(j)
    BY <1>2, <1>3, <2>1 DEF Launch, Fate, GroupInv, GroupTypeOK
  <2>4. Fate(i) = "none" /\ Fate(i)' = "live"
    BY <2>2 DEF Fate
  <2>5. /\ group[i] \in GroupLane /\ Workers[group[i]] = "none"
        /\ Workers' = [Workers EXCEPT ![group[i]] = "live"]
    BY <1>1, <2>3, <2>4, WorkerMoves
  <2>6. Tidings[group[i]] = "untold"
    BY <1>2, <1>3, <2>5, LaunchUntold, NoEndUntold DEF Launch
  <2>7. Promise!Begin(group[i])
    BY <1>1, <1>2, <2>1, <2>5, <2>6, TidingsKept DEF Promise!Begin
  <2> QED BY <2>5, <2>7 DEF Promise!Next
<1>4. CASE Kill
  <2>1. PICK i \in DOMAIN group : i = turn
    BY <1>2
  <2>2. /\ i \in Child /\ leader[i] = "alive" /\ leader'[i] = "dead"
        /\ how'[i] = "signal"
    BY <1>2, <1>4, <2>1 DEF Kill, GroupInv, GroupTypeOK
  <2>3. \A j \in DOMAIN group : j # i => Fate(j)' = Fate(j)
    BY <1>2, <1>4, <2>1 DEF Kill, Fate, GroupInv, GroupTypeOK
  <2>4. Fate(i) = "live"
    BY <2>2 DEF Fate
  <2>5. CASE tail'[i] = "alive"
    <3>1. \A j \in DOMAIN group : Fate(j)' = Fate(j)
      BY <2>3, <2>4, <2>5 DEF Fate
    <3>2. Workers' = Workers
      BY <1>1, <3>1, WorkersKept
    <3> QED BY <1>1, <1>2, <3>2, TidingsKept, Unseen
  <2>6. CASE tail'[i] # "alive"
    <3>1. Fate(i)' = "badly"
      BY <2>2, <2>6 DEF Fate
    <3>2. /\ group[i] \in GroupLane /\ Workers[group[i]] = "live"
          /\ Workers' = [Workers EXCEPT ![group[i]] = "badly"]
      BY <1>1, <2>3, <2>4, <3>1, WorkerMoves
    <3>3. Promise!End(group[i], "badly")
      BY <1>1, <1>2, <3>2, TidingsKept DEF Promise!End
    <3> QED BY <3>2, <3>3 DEF Promise!Next
  <2> QED BY <2>5, <2>6
<1>5. CASE ~Launch /\ ~Kill
  <2>1. UNCHANGED <<leader, tail, how>>
    BY <1>5 DEF FanOutStep, LaunchFails, NeverStarted, Collect, TimesOut, GraceEnds,
         Drain, Store, StoreFails, StartPump, PumpCannotStart, NotifyStarted, SignalPump,
         JoinPump, NotifyEnded, processes, fanOutVars
  <2> QED BY <1>1, <2>1, FatesStay
<1> QED BY <1>3, <1>4, <1>5

LEMMA CollectedIsReaped ==
    ASSUME GroupInv, phase \in {"collected", "leaving"}, NEW i \in DOMAIN group
    PROVE  /\ Workers[group[i]] # "live"
           /\ results[i] = "zero" => Workers[group[i]] = "well"
<1>1. i \in DOMAIN results /\ i \in Child
  BY GroupFacts DEF GroupInv, Place
<1>2. leader[i] # "alive" /\ tail[i] # "alive"
  BY <1>1 DEF GroupInv, Reaping
<1>3. results[i] = "zero" => leader[i] = "dead" /\ how[i] = "zero"
  BY <1>1 DEF GroupInv, Reaping
<1>4. Workers[group[i]] = Fate(i)
  <2>1. group[i] \in GroupLane /\ \A j \in DOMAIN group : group[j] = group[i] => j = i
    BY DEF GroupInv, GroupTypeOK, Sorting
  <2>2. Commanded(group[i]) /\ ChildOf(group[i]) = i
    BY <2>1, ChildOfIsChild DEF Commanded
  <2> QED BY <2>1, <2>2 DEF Workers
<1> QED BY <1>2, <1>3, <1>4 DEF Fate

LEMMA LeavingIsSettled ==
    ASSUME GroupInv, phase = "leaving"
    PROVE  Promise!Settled
<1> SUFFICES ASSUME NEW l \in GroupLane, Workers[l] # "none"
             PROVE  Workers[l] # "live" /\ Tidings[l] # "untold"
  BY DEF Promise!Settled
<1>1. PICK i \in DOMAIN group : group[i] = l
  BY ChildOfIsChild DEF Workers
<1>2. l \in 1 .. total /\ l \notin passed \cup rejected
  BY <1>1 DEF GroupInv, Sorting, Unlaunched
<1>3. ToldOnce(l)
  BY <1>2 DEF GroupInv, Streaming, ToTell
<1> QED BY <1>1, <1>3, CollectedIsReaped, ToldOnceIsTold

LEMMA PromiseTell ==
    ASSUME GroupInv, NEW present \in BOOLEAN, NEW taken \in 0 .. 2, Tell(present, taken)
    PROVE  [Promise!Next]_Shown
<1>1. PICK ok \in BOOLEAN : ok <=> results[turn] = "zero" /\ present
  OBVIOUS
<1>2. /\ phase = "collected" /\ EmitStatus(group[turn], ok, taken)
      /\ UNCHANGED <<group, leader, tail, how, passed, rejected>>
      /\ phase' \notin {"returned", "raised"}
  BY <1>1 DEF Tell, processes, groupGiven
<1>3. turn \in DOMAIN group /\ group[turn] \in GroupLane
  <2>1. turn \in DOMAIN group
    BY <1>2, GroupFacts DEF GroupInv, Place
  <2> QED BY <2>1 DEF GroupInv, GroupTypeOK
<1>4. Workers' = Workers
  BY <1>2, WorkersKept DEF Fate
<1>5. CASE taken # 2
  BY <1>2, <1>3, <1>4, <1>5, TidingsTold, Unseen
<1>6. CASE taken = 2
  <2>1. Tidings[group[turn]] = "untold"
    <3>1. group[turn] \in 1 .. total /\ group[turn] \notin rejected
      BY <1>3 DEF GroupInv, Sorting, Unlaunched
    <3>2. ~ ToTell(group[turn])
      <4>1. \A k \in DOMAIN group : group[k] = group[turn] => k = turn
        BY <1>3 DEF GroupInv, Sorting
      <4>2. turn \in Nat
        BY GroupFacts DEF GroupInv
      <4> QED BY <1>2, <3>1, <4>1, <4>2 DEF ToTell
    <3>3. Ends(group[turn]) = {}
      BY <1>2, <3>1, <3>2 DEF GroupInv, Streaming
    <3> QED BY <1>3, <3>3, NoEndUntold
  <2>2. PICK l \in GroupLane : l = group[turn]
    BY <1>3
  <2> QED BY <1>1, <1>2, <1>3, <1>4, <1>6, <2>1, <2>2, CollectedIsReaped, LaneTold
<1> QED BY <1>5, <1>6

LEMMA PromiseLeave ==
    ASSUME GroupInv, StopLeft \/ JoinLeft \/ Leave
    PROVE  [Promise!Next]_Shown
<1>1. /\ UNCHANGED <<group, stream, leader, tail, how, passed, rejected>>
      /\ phase \in {"leaving", "raising"}
  BY DEF StopLeft, JoinLeft, Leave, fanOutVars, fixed, processes, groupGiven
<1>2. Workers' = Workers /\ Tidings' = Tidings
  BY <1>1, WorkersKept, TidingsKept DEF Fate
<1>3. CASE phase' = phase
  BY <1>1, <1>3, FatesStay
<1>4. CASE phase' # phase
  <2>1. IF phase = "leaving" THEN phase' = "returned" ELSE phase' = "raised"
    BY <1>4 DEF StopLeft, JoinLeft, Leave, fanOutVars
  <2>2. CASE phase = "leaving"
    BY <1>1, <1>2, <2>1, <2>2, LeavingIsSettled, CallReturns
  <2>3. CASE phase # "leaving"
    BY <1>1, <1>2, <2>1, <2>3, CallRaises
  <2> QED BY <2>2, <2>3
<1> QED BY <1>3, <1>4

LEMMA BeatsInGroup ==
    ASSUME GroupInv, NEW i \in Child, Live(i)
    PROVE  i \in DOMAIN group
<1>1. i = turn /\ (i \in active \/ phase = "ended")
  BY DEF GroupInv, Pumping
<1>2. CASE i \in active
  BY <1>2, GroupFacts DEF GroupInv, Pumping, Child
<1>3. CASE phase = "ended"
  BY <1>1, <1>3, FanOutFacts
<1> QED BY <1>1, <1>2, <1>3

LEMMA PromisePump ==
    ASSUME GroupInv, NEW i \in Child, PumpStep(i)
    PROVE  UNCHANGED Shown
<1>1. UNCHANGED <<group, leader, tail, how, phase, passed, rejected>>
  BY DEF PumpStep, PumpWakes, Beat, BeatRefused, fanOutVars, fixed, processes, groupGiven
<1>2. Workers' = Workers
  BY <1>1, WorkersKept DEF Fate
<1>3. Tidings' = Tidings
  <2>1. CASE Beat(i)
    <3>1. group[i] \in GroupLane /\ i \in GroupLane
      <4>1. Live(i)
        BY <2>1 DEF Beat, Live
      <4>2. i \in DOMAIN group
        BY <4>1, BeatsInGroup
      <4> QED BY <4>2, GroupFacts DEF GroupInv, GroupTypeOK
    <3>2. PICK e \in Event : /\ e.kind = "heartbeat" /\ stream' = Append(stream, e)
      BY <2>1, <3>1 DEF Beat, Event
    <3> QED BY <3>2, TidingsBeat
  <2>2. CASE ~ Beat(i)
    BY <2>2, TidingsKept DEF PumpStep, PumpWakes, BeatRefused
  <2> QED BY <2>1, <2>2
<1> QED BY <1>1, <1>2, <1>3 DEF Shown, Call, Done

LEMMA PromiseProcess ==
    ASSUME GroupInv, NEW i \in Child, ObeyStep(i) \/ ProcessStep(i)
    PROVE  [Promise!Next]_Shown
<1>1. /\ UNCHANGED <<group, stream, phase, passed, rejected>>
      /\ \/ leader[i] = "alive" \/ tail[i] = "alive"
         \/ tail[i] = "detached" /\ UNCHANGED <<leader, how>> /\ tail'[i] = "gone"
      /\ \A j \in Child : j # i => leader'[j] = leader[j] /\ tail'[j] = tail[j] /\ how'[j] = how[j]
  BY DEF ObeyStep, ProcessStep, LeaderExits, TailExits, TailLetsGo, Obeys, fixed, groupGiven,
         GroupInv, GroupTypeOK
<1>2. leader'[i] \in {"alive", "dead"}
  <2>1. leader[i] \in {"alive", "dead"}
    BY <1>1 DEF GroupInv, GroupTypeOK, Reaping
  <2> QED BY <2>1 DEF ObeyStep, ProcessStep, LeaderExits, TailExits, TailLetsGo, Obeys,
                      GroupInv, GroupTypeOK
<1>3. \A j \in DOMAIN group : j \in Child
  BY GroupFacts DEF GroupInv
<1>4. Call' = Call /\ Tidings' = Tidings
  BY <1>1, TidingsKept DEF Call, Done
<1>5. \A j \in DOMAIN group : j # i => Fate(j)' = Fate(j)
  BY <1>1, <1>3 DEF Fate
<1>6. PICK fate : fate = Fate(i)'
  OBVIOUS
\* A descendant without the pipes ends unseen.
<1>7. \/ Fate(i) = "live" /\ fate \in {"live", "well", "badly"}
      \/ fate = Fate(i)
  BY <1>1, <1>2, <1>6 DEF Fate
<1>8. CASE i \in DOMAIN group /\ fate # Fate(i)
  <2>1. PICK k \in DOMAIN group : k = i
    BY <1>8
  <2>2. /\ group[k] \in GroupLane /\ Workers[group[k]] = "live"
        /\ Workers' = [Workers EXCEPT ![group[k]] = fate]
    BY <1>1, <1>5, <1>6, <1>7, <1>8, <2>1, WorkerMoves
  <2>3. CASE fate = "live"
    <3>1. Workers' = Workers
      BY <2>2, <2>3 DEF Workers
    <3> QED BY <1>1, <1>4, <3>1 DEF Shown
  <2>4. CASE fate # "live"
    <3>1. Promise!End(group[k], fate)
      BY <1>1, <1>4, <2>2 DEF Promise!End
    <3> QED BY <1>7, <1>8, <2>2, <2>4, <3>1 DEF Promise!Next
  <2> QED BY <2>3, <2>4
<1>9. CASE i \notin DOMAIN group \/ fate = Fate(i)
  <2>1. Workers' = Workers
    BY <1>1, <1>5, <1>6, <1>9, WorkersKept
  <2> QED BY <1>1, <1>4, <2>1 DEF Shown
<1> QED BY <1>8, <1>9

LEMMA PromiseStart == ASSUME GroupInit PROVE Promise!Init
<1>1. GroupInv /\ phase = "preflight"
  BY GroupStart DEF GroupInit
<1>2. Workers = [l \in GroupLane |-> "none"] /\ Call = "open"
  BY <1>1, NobodyYet, CallIsOpen
<1>3. Tidings = [l \in GroupLane |-> "untold"]
  BY DEF GroupInit, Tidings, Says
<1>4. passed \in SUBSET GroupLane /\ rejected \in SUBSET (GroupLane \ passed)
  BY <1>1 DEF GroupInv, GroupTypeOK, Sorting
<1> QED BY <1>2, <1>3, <1>4 DEF Promise!Init

LEMMA PromiseStep ==
    ASSUME GroupInv, [GroupNext]_groupVars
    PROVE  [Promise!Next]_Shown
<1>1. CASE DispatcherStep
  BY <1>1, PromisePreflight, PromiseFanOut, PromiseTell, PromiseLeave DEF DispatcherStep
<1>2. CASE \E i \in Child : PumpStep(i) \/ ObeyStep(i) \/ ProcessStep(i)
  BY <1>2, PromisePump, PromiseProcess
<1>3. CASE UNCHANGED groupVars
  <2>1. UNCHANGED <<group, stream, leader, tail, how, phase, passed, rejected>>
    BY <1>3 DEF groupVars, fanOutVars, fixed, processes, groupGiven
  <2>2. Workers' = Workers
    BY <2>1, WorkersKept DEF Fate
  <2> QED BY <2>1, <2>2, TidingsKept DEF Shown, Call, Done
<1> QED BY <1>1, <1>2, <1>3 DEF GroupNext

\* A dispatch group is a LaunchGroup: every step of its thread, its workers and their
\* heartbeats starts, ends or tells of one lane, ends the call, or is none of the
\* wave's concern; and it returns only when all who worked have ended and been told of.
THEOREM GroupKeepsPromise == GroupSpec => KeepsPromise
<1>1. GroupInit => Promise!Init
  BY PromiseStart
<1>2. GroupInv /\ [GroupNext]_groupVars => [Promise!Next]_Shown
  BY PromiseStep
<1> QED BY <1>1, <1>2, GroupInvariant, PTL
        DEF GroupSpec, KeepsPromise, Promise!Spec, Shown
=============================================================================
