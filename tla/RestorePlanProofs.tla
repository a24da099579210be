------------------------- MODULE RestorePlanProofs -------------------------
(***************************************************************************)
(* Theorems about planRestore, for sessions and screens of any size.       *)
(***************************************************************************)
EXTENDS RestorePlan, FiniteSetTheorems, TLAPS

-----------------------------------------------------------------------------
(* Counting. *)

\* The how-manieth of its key the tab at p is.
Rank(w, p) == Cardinality({q \in 1 .. p : w[q] = w[p]})

\* Any set of positions of a stored window is finite.
LEMMA PositionsFinite ==
    ASSUME NEW w \in Seq(Key), NEW S \in SUBSET DOMAIN w
    PROVE  /\ IsFiniteSet(S) /\ Cardinality(S) \in Nat
           /\ Cardinality(S) <= Len(w)
           /\ S = DOMAIN w => Cardinality(S) = Len(w)
  <1>1. DOMAIN w = 1 .. Len(w) /\ Len(w) \in Nat
    OBVIOUS
  <1>2. IsFiniteSet(DOMAIN w) /\ Cardinality(DOMAIN w) = Len(w)
    <2>1. 1 \in Int /\ Len(w) \in Int
      BY <1>1
    <2>2. /\ IsFiniteSet(1 .. Len(w))
          /\ Cardinality(1 .. Len(w)) = IF 1 > Len(w) THEN 0 ELSE Len(w) - 1 + 1
      BY <2>1, FS_Interval
    <2> QED
      BY <1>1, <2>2
  <1>3. IsFiniteSet(S) /\ Cardinality(S) <= Cardinality(DOMAIN w)
    BY <1>2, FS_Subset
  <1> QED
    BY <1>2, <1>3, FS_CardinalityType

\* The tabs of one key have distinct ranks, from 1 to how many they are.
LEMMA RanksDistinct ==
    ASSUME NEW w \in Seq(Key), NEW k
    PROVE  /\ \A p \in DOMAIN w : w[p] = k => Rank(w, p) \in 1 .. Count(w, k)
           /\ \A p, r \in DOMAIN w : w[p] = k /\ w[r] = k /\ Rank(w, p) = Rank(w, r) => p = r
  <1> DEFINE S == {p \in DOMAIN w : w[p] = k}
             R(p) == {q \in 1 .. p : w[q] = k}
  <1>1. DOMAIN w = 1 .. Len(w) /\ Len(w) \in Nat
    OBVIOUS
  <1>2. \A p \in S : R(p) \subseteq S /\ p \in R(p) /\ Rank(w, p) = Cardinality(R(p))
    BY <1>1 DEF Rank
  <1>3. IsFiniteSet(S) /\ Count(w, k) = Cardinality(S) /\ Cardinality(S) \in Nat
    BY PositionsFinite DEF Count
  <1>4. \A p \in S : /\ IsFiniteSet(R(p)) /\ Cardinality(R(p)) <= Cardinality(S)
                     /\ Cardinality(R(p)) \in Nat /\ Cardinality(R(p)) # 0
    <2> TAKE p \in S
    <2> HIDE DEF S, R
    <2>1. IsFiniteSet(R(p)) /\ Cardinality(R(p)) <= Cardinality(S)
      BY <1>2, <1>3, FS_Subset
    <2> QED
      BY <1>2, <2>1, FS_CardinalityType, FS_EmptySet
  <1>5. \A p, r \in S : p < r => Rank(w, p) # Rank(w, r)
    <2> SUFFICES ASSUME NEW p \in S, NEW r \in S, p < r, Rank(w, p) = Rank(w, r)
                 PROVE FALSE
      OBVIOUS
    <2>1. R(p) \subseteq R(r) /\ r \notin R(p) /\ r \in R(r)
      BY <1>1
    <2>2. Cardinality(R(p)) = Cardinality(R(r)) /\ IsFiniteSet(R(r))
      BY <1>2, <1>4
    <2> HIDE DEF R
    <2> QED
      BY <2>1, <2>2, FS_Subset
  <1>6. \A p, r \in S : p < r \/ p = r \/ r < p
    BY <1>1
  <1>7. \A p \in S : Rank(w, p) \in 1 .. Count(w, k)
    <2> HIDE DEF S, R
    <2> QED
      BY <1>2, <1>3, <1>4
  <1>8. \A p, r \in S : Rank(w, p) = Rank(w, r) => p = r
    <2> HIDE DEF S, R
    <2> QED
      BY <1>5, <1>6
  <1> QED
    BY <1>7, <1>8

\* Of c tabs of one key, those whose rank exceeds n are c - n, or none.
LEMMA RankedAbove ==
    ASSUME NEW w \in Seq(Key), NEW k, NEW n \in Nat
    PROVE  Cardinality({p \in DOMAIN w : w[p] = k /\ Rank(w, p) > n})
             = IF Count(w, k) > n THEN Count(w, k) - n ELSE 0
  <1> DEFINE S == {p \in DOMAIN w : w[p] = k}
             c == Count(w, k)
             rank == [p \in S |-> Rank(w, p)]
             T == {p \in DOMAIN w : w[p] = k /\ Rank(w, p) > n}
             U == (n + 1) .. c
             above == [p \in T |-> Rank(w, p)]
  <1>1. IsFiniteSet(S) /\ c = Cardinality(S) /\ c \in Nat /\ IsFiniteSet(T)
    BY PositionsFinite DEF Count
  <1>2. rank \in Injection(S, 1 .. c)
    BY RanksDistinct DEF Injection, IsInjective
  <1>3. IsFiniteSet(1 .. c) /\ Cardinality(1 .. c) = c
    BY <1>1, FS_Interval
  <1>4. rank \in Surjection(S, 1 .. c)
    <2> HIDE DEF S, c, rank
    <2> QED
      BY <1>1, <1>2, <1>3, FS_Injection
  <1>5. \A u \in U : \E p \in T : above[p] = u
    <2> TAKE u \in U
    <2>1. u \in 1 .. c /\ u > n
      BY <1>1
    <2>2. PICK p \in S : rank[p] = u
      BY <2>1, <1>4 DEF Surjection
    <2> QED
      BY <2>1, <2>2
  <1>6. above \in Bijection(T, U)
    <2>1. above \in [T -> U]
      <3>1. \A p \in T : Rank(w, p) \in 1 .. c /\ Rank(w, p) > n
        BY RanksDistinct
      <3>2. \A p \in T : Rank(w, p) \in U
        <4> HIDE DEF T, c
        <4> QED
          BY <1>1, <3>1
      <3> HIDE DEF U, T
      <3> QED
        BY <3>2
    <2>2. \A p, r \in T : above[p] = above[r] => p = r
      BY RanksDistinct
    <2> HIDE DEF T, U, above
    <2> QED
      BY <1>5, <2>1, <2>2 DEF Bijection, Injection, IsInjective, Surjection
  <1>7. Cardinality(U) = Cardinality(T)
    <2> HIDE DEF T, U, above
    <2> QED
      BY <1>1, <1>6, FS_Bijection DEF ExistsBijection
  <1>8. Cardinality(U) = IF c > n THEN c - n ELSE 0
    <2> HIDE DEF c
    <2>1. n + 1 \in Int /\ c \in Int
      BY <1>1
    <2>2. Cardinality(U) = IF n + 1 > c THEN 0 ELSE c - (n + 1) + 1
      BY <2>1, FS_Interval
    <2> QED
      BY <1>1, <2>2
  <1> QED
    BY <1>7, <1>8

-----------------------------------------------------------------------------
(* Type correctness. *)

\* What a plan is made of: sequences, and counts of tabs.
LEMMA PlanTyped ==
    ASSUME TypeOK
    PROVE  /\ desired \in Seq(Seq(Key)) /\ open \in Seq([Key -> Nat])
           /\ Len(desired) \in Nat /\ Len(open) \in Nat /\ Done \in Nat
           /\ DOMAIN desired = 1 .. Len(desired) /\ DOMAIN open = 1 .. Len(open)
           /\ DOMAIN target = 1 .. Done /\ DOMAIN missing = 1 .. Done
           /\ \A i \in DOMAIN desired : desired[i] \in Seq(Key)
           /\ \A r \in DOMAIN open : open[r] \in [Key -> Nat]
           /\ \A i \in DOMAIN target : target[i] \in 0 .. Len(open) /\ i \in DOMAIN desired
  <1>1. desired \in Seq(Seq(Key)) /\ open \in Seq([Key -> Nat])
    BY SessionsAssumption, ScreensAssumption DEF TypeOK
  <1>2. target \in Seq(0 .. Len(open)) /\ missing \in Seq(SUBSET Nat)
        /\ Len(missing) = Len(target) /\ Len(target) <= Len(desired)
    BY DEF TypeOK, Done
  <1>3. /\ Len(desired) \in Nat /\ Len(open) \in Nat
        /\ DOMAIN desired = 1 .. Len(desired) /\ DOMAIN open = 1 .. Len(open)
    BY <1>1
  <1>4. /\ Done \in Nat /\ DOMAIN target = 1 .. Done /\ DOMAIN missing = 1 .. Done
    BY <1>2 DEF Done
  <1>5. \A i \in DOMAIN desired : desired[i] \in Seq(Key)
    BY <1>1
  <1>6. \A r \in DOMAIN open : open[r] \in [Key -> Nat]
    BY <1>1
  <1>7. \A i \in DOMAIN target : target[i] \in 0 .. Len(open)
    BY <1>2
  <1>8. \A i \in DOMAIN target : i \in DOMAIN desired
    BY <1>2, <1>3, <1>4 DEF Done
  <1> QED
    BY <1>1, <1>3, <1>4, <1>5, <1>6, <1>7, <1>8

\* A turn of the loop plans the next stored window, in one unclaimed open
\* window that is best, or whole.
LEMMA OneTurn ==
    ASSUME TypeOK, PlanWindow
    PROVE  LET n == Done + 1
               w == desired[n]
           IN  /\ n \in DOMAIN desired /\ w \in Seq(Key)
               /\ desired' = desired /\ open' = open
               /\ DOMAIN target' = 1 .. n /\ DOMAIN missing' = 1 .. n
               /\ \A i \in DOMAIN target : target'[i] = target[i] /\ missing'[i] = missing[i]
               /\ \/ target'[n] \in Best(w) /\ missing'[n] = Missing(w, target'[n])
                  \/ Best(w) = {} /\ target'[n] = 0 /\ missing'[n] = DOMAIN w
               /\ TypeOK'
  <1> DEFINE n == Done + 1
             w == desired[n]
  <1>1. n \in DOMAIN desired /\ w \in Seq(Key) /\ n \in 1 .. Len(desired)
    BY PlanTyped DEF PlanWindow
  <1>2. PICK r \in 0 .. Len(open), M \in SUBSET DOMAIN w :
            /\ target' = Append(target, r) /\ missing' = Append(missing, M)
            /\ \/ r \in Best(w) /\ M = Missing(w, r)
               \/ Best(w) = {} /\ r = 0 /\ M = DOMAIN w
    <2>1. CASE TopUp(w)
      <3>1. PICK r \in Best(w) : /\ target' = Append(target, r)
                                 /\ missing' = Append(missing, Missing(w, r))
        BY <2>1 DEF TopUp
      <3>2. r \in 0 .. Len(open) /\ Missing(w, r) \in SUBSET DOMAIN w
        BY PlanTyped DEF Best, Missing
      <3> QED
        BY <3>1, <3>2
    <2>2. CASE CreateWhole(w)
      <3>1. 0 \in 0 .. Len(open)
        BY PlanTyped
      <3> QED
        BY <2>2, <3>1 DEF CreateWhole
    <2> QED
      BY <2>1, <2>2 DEF PlanWindow
  <1>3. desired' = desired /\ open' = open
    BY DEF PlanWindow
  <1>4. target \in Seq(0 .. Len(open)) /\ missing \in Seq(SUBSET Nat) /\ Len(missing) = Len(target)
    BY DEF TypeOK, Done
  <1>5. /\ DOMAIN target' = 1 .. n /\ DOMAIN missing' = 1 .. n
        /\ target'[n] = r /\ missing'[n] = M
        /\ \A i \in DOMAIN target : target'[i] = target[i] /\ missing'[i] = missing[i]
    BY <1>2, <1>4, PlanTyped DEF Done
  <1>6. TypeOK'
    <2>1. M \in SUBSET Nat
      BY <1>1, <1>2
    <2>2. target' \in Seq(0 .. Len(open)) /\ missing' \in Seq(SUBSET Nat)
          /\ Len(target') = n /\ Len(missing') = n
      BY <1>2, <1>4, <2>1 DEF Done
    <2>3. \A i \in DOMAIN missing' : missing'[i] \subseteq DOMAIN desired[i]
      <3>1. \A i \in 1 .. n : i \in DOMAIN missing \/ i = n
        BY PlanTyped
      <3>2. \A i \in DOMAIN missing : missing[i] \subseteq DOMAIN desired[i]
        BY DEF TypeOK
      <3> QED
        BY <1>2, <1>5, <3>1, <3>2, PlanTyped
    <2>4. n <= Len(desired)
      BY <1>1, PlanTyped
    <2> HIDE DEF n
    <2> QED
      BY <1>3, <2>2, <2>3, <2>4 DEF TypeOK, Done
  <1> QED
    BY <1>1, <1>2, <1>3, <1>5, <1>6

\* The plan is well formed: each stored window is planned at most once, in
\* order, in an open window or a new one, and only its own tabs are created.
THEOREM TypeCorrect == Spec => []TypeOK
  <1>1. Init => TypeOK
    BY DEF Init, TypeOK, Done
  <1>2. TypeOK /\ [Next]_vars => TypeOK'
    <2>1. CASE UNCHANGED vars
      BY <2>1 DEF vars, TypeOK, Done
    <2> QED
      BY <2>1, OneTurn DEF Next
  <1> QED
    BY <1>1, <1>2, PTL DEF Spec

-----------------------------------------------------------------------------
(* Every window restored exactly, in a window of its own. *)

\* ExactlyRestored of one planned window.
Exact(i) ==
    \A k \in Key :
        Added(i, k) = IF Count(desired[i], k) > Present(i, k)
                      THEN Count(desired[i], k) - Present(i, k) ELSE 0

\* What Missing leaves to create of a key is what the open window lacks.
LEMMA MissingCounted ==
    ASSUME NEW w \in Seq(Key), NEW r \in DOMAIN open, open[r] \in [Key -> Nat], NEW k \in Key
    PROVE  Cardinality({p \in Missing(w, r) : w[p] = k})
             = IF Count(w, k) > open[r][k] THEN Count(w, k) - open[r][k] ELSE 0
  <1>1. {p \in Missing(w, r) : w[p] = k}
          = {p \in DOMAIN w : w[p] = k /\ Rank(w, p) > open[r][k]}
    BY DEF Missing, Rank
  <1> QED
    BY <1>1, RankedAbove

\* Each stored window comes back in a window of its own, with every tab as
\* often as it was stored, for any sessions and screens.
THEOREM RestoredExactly == Spec => []ExactlyRestored
  <1> DEFINE Own == \A i, j \in DOMAIN target : target[i] = target[j] /\ target[i] # 0 => i = j
             All == \A i \in DOMAIN target : Exact(i)
  <1>1. Init => Own /\ All
    BY DEF Init
  <1>2. TypeOK /\ Own /\ All /\ [Next]_vars => Own' /\ All'
    <2> SUFFICES ASSUME TypeOK, Own, All, [Next]_vars
                 PROVE Own' /\ All'
      OBVIOUS
    <2>1. CASE UNCHANGED vars
      BY <2>1 DEF vars, Exact, Added, Present
    <2>2. CASE PlanWindow
      <3> DEFINE n == Done + 1
                 w == desired[n]
      <3>1. /\ n \in DOMAIN desired /\ w \in Seq(Key)
            /\ desired' = desired /\ open' = open
            /\ DOMAIN target' = 1 .. n /\ DOMAIN missing' = 1 .. n
            /\ \A i \in DOMAIN target : target'[i] = target[i] /\ missing'[i] = missing[i]
            /\ \/ target'[n] \in Best(w) /\ missing'[n] = Missing(w, target'[n])
               \/ Best(w) = {} /\ target'[n] = 0 /\ missing'[n] = DOMAIN w
        BY <2>2, OneTurn
      <3>2. \A i \in DOMAIN target' : i \in DOMAIN target \/ i = n
        BY <3>1, PlanTyped
      <3>3. \A i \in DOMAIN target : target'[n] # 0 => target[i] # target'[n]
        BY <3>1 DEF Best, Claimed
      <3>4. Own'
        <4> SUFFICES ASSUME NEW i \in DOMAIN target', NEW j \in DOMAIN target',
                            target'[i] = target'[j], target'[i] # 0
                     PROVE i = j
          OBVIOUS
        <4> HIDE DEF n, w
        <4> QED
          BY <3>1, <3>2, <3>3
      <3>5. \A i \in DOMAIN target : Exact(i)'
        <4> TAKE i \in DOMAIN target
        <4>1. Exact(i)
          OBVIOUS
        <4>2. target'[i] = target[i] /\ missing'[i] = missing[i] /\ desired' = desired /\ open' = open
          BY <3>1
        <4> QED
          BY <4>1, <4>2 DEF Exact, Added, Present
      <3>6. ASSUME NEW k \in Key
            PROVE Cardinality({p \in missing'[n] : w[p] = k})
                    = LET had == IF target'[n] = 0 THEN 0 ELSE open[target'[n]][k]
                      IN IF Count(w, k) > had THEN Count(w, k) - had ELSE 0
        <4>1. CASE target'[n] \in Best(w) /\ missing'[n] = Missing(w, target'[n])
          <5>1. PICK r \in DOMAIN open : r = target'[n] /\ r # 0 /\ open[r] \in [Key -> Nat]
            BY <4>1, PlanTyped DEF Best
          <5>2. missing'[n] = Missing(w, r)
            BY <4>1, <5>1
          <5> HIDE DEF n, w
          <5>3. Cardinality({p \in Missing(w, r) : w[p] = k})
                  = IF Count(w, k) > open[r][k] THEN Count(w, k) - open[r][k] ELSE 0
            BY <3>1, <5>1, MissingCounted
          <5> QED
            BY <5>1, <5>2, <5>3
        <4>2. CASE target'[n] = 0 /\ missing'[n] = DOMAIN w
          <5>1. Cardinality({p \in missing'[n] : w[p] = k}) = Count(w, k)
            BY <4>2 DEF Count
          <5>2. Count(w, k) \in Nat
            <6>1. {p \in DOMAIN w : w[p] = k} \in SUBSET DOMAIN w
              OBVIOUS
            <6> HIDE DEF w
            <6> QED
              BY <3>1, <6>1, PositionsFinite DEF Count
          <5> HIDE DEF n, w
          <5> QED
            BY <4>2, <5>1, <5>2
        <4> QED
          BY <3>1, <4>1, <4>2
      <3>7. ASSUME NEW i, i = n
            PROVE Exact(i)'
        <4>1. desired'[i] = w
          BY <3>1, <3>7
        <4> HIDE DEF n, w
        <4> QED
          BY <3>1, <3>6, <3>7, <4>1 DEF Exact, Added, Present
      <3> QED
        BY <3>2, <3>4, <3>5, <3>7
    <2> QED
      BY <2>1, <2>2 DEF Next
  <1>3. Own /\ All => ExactlyRestored
    BY DEF ExactlyRestored, Exact
  <1> QED
    BY <1>1, <1>2, <1>3, TypeCorrect, PTL DEF Spec

-----------------------------------------------------------------------------
(* Nothing created when the browser restored everything. *)

\* An open window that holds all of w shares all of its tabs, and lacks none.
LEMMA HoldsAll ==
    ASSUME NEW w \in Seq(Key), w # <<>>, NEW r \in DOMAIN open, open[r] \in [Key -> Nat],
           \A k \in Key : open[r][k] >= Count(w, k)
    PROVE  Shared(w, r) = Len(w) /\ Resembles(w, r) /\ Missing(w, r) = {}
  <1>1. \A p \in DOMAIN w : w[p] \in Key /\ Rank(w, p) \in 1 .. Count(w, w[p]) /\ Count(w, w[p]) \in Nat
    <2> TAKE p \in DOMAIN w
    <2>1. Rank(w, p) \in 1 .. Count(w, w[p])
      BY RanksDistinct
    <2>2. Count(w, w[p]) \in Nat
      BY PositionsFinite DEF Count
    <2> QED
      BY <2>1, <2>2
  <1>2. \A p \in DOMAIN w : open[r][w[p]] > 0 /\ ~(Rank(w, p) > open[r][w[p]])
    BY <1>1
  <1>3. {p \in DOMAIN w : open[r][w[p]] > 0} = DOMAIN w
    BY <1>2
  <1>4. Shared(w, r) = Len(w)
    BY <1>3, PositionsFinite DEF Shared
  <1>5. Missing(w, r) = {}
    BY <1>2 DEF Missing, Rank
  <1>6. Len(w) \in Nat /\ Len(w) > 0
    OBVIOUS
  <1> QED
    BY <1>4, <1>5, <1>6 DEF Resembles

\* No open window shares more tabs with a stored one than that one has.
LEMMA SharedAtMost ==
    ASSUME NEW w \in Seq(Key), NEW r
    PROVE  Shared(w, r) \in Nat /\ Shared(w, r) <= Len(w)
  BY PositionsFinite DEF Shared

\* When the browser has brought every window back in order, each is found where
\* it is and nothing is created, even when windows share tabs.
THEOREM NothingCreatedTwice == Spec => []NothingTwice
  <1>1. Init => NothingTwice
    BY DEF Init, NothingTwice
  <1>2. TypeOK /\ NothingTwice /\ [Next]_vars => NothingTwice'
    <2> SUFFICES ASSUME TypeOK, NothingTwice, [Next]_vars
                 PROVE NothingTwice'
      OBVIOUS
    <2>1. CASE UNCHANGED vars
      BY <2>1 DEF vars, NothingTwice, RestoredInOrder
    <2>2. CASE PlanWindow
      <3> DEFINE n == Done + 1
                 w == desired[n]
      <3>1. /\ n \in DOMAIN desired /\ w \in Seq(Key)
            /\ desired' = desired /\ open' = open
            /\ DOMAIN target' = 1 .. n /\ DOMAIN missing' = 1 .. n
            /\ \A i \in DOMAIN target : target'[i] = target[i] /\ missing'[i] = missing[i]
            /\ \/ target'[n] \in Best(w) /\ missing'[n] = Missing(w, target'[n])
               \/ Best(w) = {} /\ target'[n] = 0 /\ missing'[n] = DOMAIN w
        BY <2>2, OneTurn
      <3>2. SUFFICES ASSUME RestoredInOrder
                     PROVE \A i \in DOMAIN missing' : target'[i] = i /\ missing'[i] = {}
        BY <3>1 DEF NothingTwice, RestoredInOrder
      <3>3. \A i \in DOMAIN target : target[i] = i /\ missing[i] = {}
        BY <3>2, PlanTyped DEF NothingTwice
      <3>4. Claimed = 1 .. Done
        BY <3>3, PlanTyped DEF Claimed
      <3>5. n \in DOMAIN open /\ open[n] \in [Key -> Nat] /\ n \in Nat
        BY <3>1, <3>2, PlanTyped DEF RestoredInOrder
      <3>6. Shared(w, n) = Len(w) /\ Resembles(w, n) /\ Missing(w, n) = {}
        <4>1. w # <<>> /\ \A k \in Key : open[n][k] >= Count(w, k)
          BY <3>1, <3>2 DEF RestoredInOrder
        <4> HIDE DEF n, w
        <4> QED
          BY <3>1, <3>5, <4>1, HoldsAll
      <3>7. \A q \in DOMAIN open \ Claimed : n <= q
        BY <3>4, PlanTyped
      <3>8. n \notin Claimed
        BY <3>4, PlanTyped
      <3>9. n \in Best(w)
        <4> HIDE DEF n, w
        <4>1. \A q \in DOMAIN open \ Claimed :
                 Shared(w, q) < Shared(w, n) \/ (Shared(w, q) = Shared(w, n) /\ n <= q)
          <5> TAKE q \in DOMAIN open \ Claimed
          <5>1. Shared(w, q) \in Nat /\ Shared(w, q) <= Len(w) /\ Len(w) \in Nat
            BY <3>1, SharedAtMost
          <5> QED
            BY <3>6, <3>7, <5>1
        <4> QED
          BY <3>5, <3>6, <3>8, <4>1 DEF Best
      <3>10. \A r \in Best(w) : r = n
        <4> HIDE DEF n, w
        <4> TAKE r \in Best(w)
        <4>1. r \in DOMAIN open \ Claimed /\ r \in Nat
          BY PlanTyped DEF Best
        <4>2. Shared(w, n) < Shared(w, r) \/ (Shared(w, n) = Shared(w, r) /\ r <= n)
          BY <3>5, <3>8 DEF Best
        <4>3. Shared(w, r) \in Nat /\ Shared(w, r) <= Len(w) /\ Len(w) \in Nat
          BY <3>1, SharedAtMost
        <4> QED
          BY <3>5, <3>6, <3>7, <4>1, <4>2, <4>3
      <3>11. target'[n] = n /\ missing'[n] = {}
        <4> HIDE DEF n, w
        <4> QED
          BY <3>1, <3>6, <3>9, <3>10
      <3>12. \A i \in DOMAIN missing' : i \in DOMAIN target \/ i = n
        BY <3>1, PlanTyped
      <3> HIDE DEF n, w
      <3> QED
        BY <3>1, <3>3, <3>11, <3>12
    <2> QED
      BY <2>1, <2>2 DEF Next
  <1> QED
    BY <1>1, <1>2, TypeCorrect, PTL DEF Spec

-----------------------------------------------------------------------------
(* A window of which a part is open is completed where it is. *)

\* Some tab of stored window i is open in window r.
Shares(i, r) == \E p \in DOMAIN desired[i] : open[r][desired[i][p]] > 0

LEMMA SharesIsShared ==
    ASSUME TypeOK, NEW i \in DOMAIN desired, NEW r
    PROVE  Shares(i, r) <=> Shared(desired[i], r) > 0
  <1> DEFINE w == desired[i]
             S == {p \in DOMAIN w : open[r][w[p]] > 0}
  <1>1. w \in Seq(Key)
    BY PlanTyped
  <1>2. S \in SUBSET DOMAIN w /\ (Shares(i, r) <=> S # {}) /\ Shared(w, r) = Cardinality(S)
    BY DEF Shares, Shared
  <1> HIDE DEF S, w
  <1>3. IsFiniteSet(S) /\ Cardinality(S) \in Nat
    BY <1>1, <1>2, PositionsFinite
  <1>4. Cardinality(S) = 0 <=> S = {}
    BY <1>3, FS_EmptySet
  <1> QED
    BY <1>2, <1>3, <1>4 DEF w

LEMMA OwnTabCounts ==
    ASSUME TypeOK, NEW i \in DOMAIN desired, NEW p \in DOMAIN desired[i]
    PROVE  desired[i][p] \in Key /\ Count(desired[i], desired[i][p]) > 0
  <1> DEFINE w == desired[i]
  <1>1. w \in Seq(Key) /\ w[p] \in Key
    BY PlanTyped
  <1> HIDE DEF w
  <1>2. Count(w, w[p]) \in Nat
    BY <1>1, PositionsFinite DEF Count
  <1>3. p \in DOMAIN w
    BY DEF w
  <1>4. Rank(w, p) \in 1 .. Count(w, w[p])
    BY <1>1, <1>3, RanksDistinct
  <1>5. Count(w, w[p]) > 0
    BY <1>2, <1>4
  <1> QED
    BY <1>1, <1>5 DEF w

\* Parts of distinct windows that share no tab: an open one has one home, and a
\* home has one part.
LEMMA OneHome ==
    ASSUME TypeOK, PartlyRestored, NEW i \in DOMAIN desired, NEW r \in DOMAIN open, Shares(i, r)
    PROVE  /\ \A j \in DOMAIN desired : Shares(j, r) => j = i
           /\ \A q \in DOMAIN open : Shares(i, q) => q = r
  <1>1. PICK h \in DOMAIN desired : \A k \in Key :
            /\ open[r][k] <= Count(desired[h], k)
            /\ \A q \in DOMAIN open \ {r} : open[q][k] = 0 \/ Count(desired[h], k) = 0
    BY DEF PartlyRestored
  <1>2. ASSUME NEW j \in DOMAIN desired, Shares(j, r)
        PROVE  j = h
    <2>1. PICK p \in DOMAIN desired[j] : open[r][desired[j][p]] > 0
      BY <1>2 DEF Shares
    <2> DEFINE k == desired[j][p]
    <2>2. k \in Key /\ Count(desired[j], k) > 0
      BY OwnTabCounts
    <2>3. open[r][k] \in Nat /\ Count(desired[h], k) \in Nat
      <3>1. desired[h] \in Seq(Key) /\ open[r] \in [Key -> Nat]
        BY PlanTyped
      <3>2. {q \in DOMAIN desired[h] : desired[h][q] = k} \in SUBSET DOMAIN desired[h]
        OBVIOUS
      <3> QED
        BY <2>2, <3>1, <3>2, PositionsFinite DEF Count
    <2> HIDE DEF k
    <2>4. Count(desired[h], k) > 0
      BY <1>1, <2>1, <2>2, <2>3 DEF k
    <2> QED
      BY <2>2, <2>4 DEF PartlyRestored
  <1>3. i = h
    BY <1>2
  <1>4. ASSUME NEW q \in DOMAIN open, Shares(i, q), q # r
        PROVE  FALSE
    <2>1. PICK p \in DOMAIN desired[i] : open[q][desired[i][p]] > 0
      BY <1>4 DEF Shares
    <2>2. desired[i][p] \in Key /\ Count(desired[i], desired[i][p]) > 0
      BY OwnTabCounts
    <2> QED
      BY <1>1, <1>3, <1>4, <2>1, <2>2
  <1> QED
    BY <1>2, <1>3, <1>4

\* So the part found is the only candidate, and no earlier window took it.
LEMMA OnlyItsPart ==
    ASSUME TypeOK, PartlyRestored, Done < Len(desired),
           \A j \in DOMAIN target : target[j] # 0 => Shares(j, target[j]),
           NEW r \in DOMAIN open, Resembles(desired[Done + 1], r)
    PROVE  Best(desired[Done + 1]) = {r}
  <1> DEFINE n == Done + 1
             w == desired[n]
  <1>1. n \in DOMAIN desired /\ n \notin DOMAIN target /\ w \in Seq(Key) /\ r # 0
    BY PlanTyped
  <1>2. Shares(n, r)
    BY <1>1, SharesIsShared DEF Resembles
  <1>3. \A q \in DOMAIN open : Shared(w, q) > 0 => q = r
    BY <1>1, <1>2, OneHome, SharesIsShared
  <1>4. r \notin Claimed
    <2> SUFFICES ASSUME NEW j \in DOMAIN target, target[j] = r
                 PROVE  FALSE
      BY DEF Claimed
    <2>1. j \in DOMAIN desired /\ Shares(j, r)
      BY <1>1, PlanTyped
    <2> QED
      BY <1>1, <1>2, <2>1, OneHome
  <1> HIDE DEF n
  <1>5. \A q \in DOMAIN open : Shared(w, q) \in Nat
    BY <1>1, SharedAtMost
  <1> HIDE DEF w
  <1>6. Resembles(w, r) /\ r \in Nat
    BY PlanTyped DEF w, n
  <1>7. r \in Best(w)
    BY <1>3, <1>4, <1>5, <1>6 DEF Best, Resembles
  <1>8. \A q \in Best(w) : q = r
    BY <1>3 DEF Best, Resembles
  <1> QED
    BY <1>7, <1>8 DEF w, n

\* A stored window of which three tabs in ten are open is found where they are,
\* in whatever order the browser brought the parts back.
THEOREM PartsAreCompleted == Spec => []CompletedInPlace
  <1> DEFINE Found == \A i \in DOMAIN target : target[i] # 0 => Shares(i, target[i])
  <1>1. Init => Found /\ CompletedInPlace
    BY DEF Init, CompletedInPlace
  <1>2. TypeOK /\ Found /\ CompletedInPlace /\ [Next]_vars => Found' /\ CompletedInPlace'
    <2> SUFFICES ASSUME TypeOK, Found, CompletedInPlace, [Next]_vars
                 PROVE Found' /\ CompletedInPlace'
      OBVIOUS
    <2>1. CASE UNCHANGED vars
      BY <2>1 DEF vars, Shares, CompletedInPlace, PartlyRestored
    <2>2. CASE PlanWindow
      <3> DEFINE n == Done + 1
                 w == desired[n]
      <3>1. /\ n \in DOMAIN desired /\ w \in Seq(Key)
            /\ desired' = desired /\ open' = open
            /\ DOMAIN target' = 1 .. n
            /\ \A i \in DOMAIN target : target'[i] = target[i]
            /\ \/ target'[n] \in Best(w)
               \/ Best(w) = {} /\ target'[n] = 0
        BY <2>2, OneTurn
      <3>2. \A i \in DOMAIN target' : i \in DOMAIN target \/ i = n
        BY <3>1, PlanTyped
      <3>3. \A i, r : Shares(i, r)' <=> Shares(i, r)
        BY <3>1 DEF Shares
      <3>4. target'[n] # 0 => Shares(n, target'[n])
        BY <3>1, SharesIsShared DEF Best, Resembles
      <3>5. Found'
        <4> HIDE DEF n, w
        <4> QED
          BY <3>1, <3>2, <3>3, <3>4
      <3>6. ASSUME PartlyRestored, NEW r \in DOMAIN open,
                   LET kept == {p \in DOMAIN w : open[r][w[p]] > 0}
                   IN  kept # {} /\ 10 * Cardinality(kept) >= 3 * Len(w)
            PROVE  target'[n] = r
        <4>1. Shares(n, r)
          BY <3>6 DEF Shares
        <4>2. Resembles(w, r)
          BY <3>1, <3>6, <4>1, SharesIsShared DEF Resembles, Shared
        <4>3. Best(w) = {r}
          BY <2>2, <3>6, <4>2, OnlyItsPart DEF PlanWindow
        <4> HIDE DEF n, w
        <4> QED
          BY <3>1, <4>3
      <3>7. CompletedInPlace'
        <4> SUFFICES ASSUME PartlyRestored, NEW i \in DOMAIN target', NEW r \in DOMAIN open,
                            LET kept == {p \in DOMAIN desired[i] : open[r][desired[i][p]] > 0}
                            IN  kept # {} /\ 10 * Cardinality(kept) >= 3 * Len(desired[i])
                     PROVE  target'[i] = r
          BY <3>1 DEF CompletedInPlace, PartlyRestored
        <4>1. CASE i \in DOMAIN target
          BY <3>1, <4>1 DEF CompletedInPlace
        <4>2. CASE i = n
          BY <3>6, <4>2
        <4> QED
          BY <3>2, <4>1, <4>2
      <3> QED
        BY <3>5, <3>7
    <2> QED
      BY <2>1, <2>2 DEF Next
  <1> QED
    BY <1>1, <1>2, TypeCorrect, PTL DEF Spec
=============================================================================
