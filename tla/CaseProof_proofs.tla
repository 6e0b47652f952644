---------------------------- MODULE CaseProof_proofs ----------------------------
(* Proofs about CaseProof and its interval algebra, for every value of the constants that
   the assumptions admit: any number of persons, motives, objects and places, any evidence
   that parses, any domain of ticks and any offsets of the canonical evidence.

   The library's FoldSet, FoldLeft and Iterate are CHOOSE expressions over functions.  That
   such a function exists is shown here by least counterexamples, since an induction
   theorem with an operator for its parameter cannot be instantiated.  *)
EXTENDS CaseProof, FiniteSetTheorems, SequenceTheorems, WellFoundedInduction, TLAPS

--------------------------------------------------------------------------------
(* Induction and recursion over finite sets and numbers *)

(* A set of numbers has a least one. *)
LEMMA LeastOf ==
  ASSUME NEW S \in SUBSET Nat, S # {}
  PROVE  \E i \in S : \A j \in S : i <= j
<1>1. IsWellFoundedOn(OpToRel(<, Nat), Nat)
  BY NatLessThanWellFounded
<1>2. PICK i \in S : \A j \in S : ~ (<<j, i>> \in OpToRel(<, Nat))
  BY <1>1, WFMin
<1>3. \A j \in S : ~ (j < i)
  BY <1>2 DEF OpToRel
<1> QED
  BY <1>3

(* A set of numbers that holds 0 and, with a number, the next one, holds all. *)
LEMMA EveryNumber ==
  ASSUME NEW G \in SUBSET Nat, 0 \in G, \A n \in G : n + 1 \in G
  PROVE  G = Nat
<1> SUFFICES ASSUME Nat \ G # {} PROVE FALSE
  OBVIOUS
<1>1. PICK n \in Nat \ G : \A m \in Nat \ G : n <= m
  BY LeastOf
<1>2. n # 0 /\ n - 1 \in Nat
  BY <1>1
<1>3. n - 1 \in G
  BY <1>1, <1>2
<1> QED
  BY <1>1, <1>2, <1>3

(* A set of subsets that holds {}, and a subset when it holds it without any one of its
   elements, holds all the subsets of a finite set. *)
LEMMA EverySubset ==
  ASSUME NEW S, IsFiniteSet(S), NEW G \in SUBSET SUBSET S, {} \in G,
         \A T \in SUBSET S : T # {} /\ (\A x \in T : T \ {x} \in G) => T \in G
  PROVE  G = SUBSET S
<1> DEFINE Sizes == {n \in Nat : \A T \in SUBSET S : Cardinality(T) = n => T \in G}
<1>0. \A T \in SUBSET S : IsFiniteSet(T) /\ Cardinality(T) \in Nat
  BY FS_Subset, FS_CardinalityType
<1>1. 0 \in Sizes
  BY <1>0, FS_EmptySet
<1>2. ASSUME NEW n \in Sizes PROVE n + 1 \in Sizes
  <2> SUFFICES ASSUME NEW T \in SUBSET S, Cardinality(T) = n + 1 PROVE T \in G
    OBVIOUS
  <2>1. T # {}
    BY <1>0, FS_EmptySet
  <2>2. \A x \in T : Cardinality(T \ {x}) = n
    BY <1>0, FS_RemoveElement
  <2>3. \A x \in T : T \ {x} \in G
    BY <1>2, <2>2
  <2> QED
    BY <2>1, <2>3
<1> HIDE DEF Sizes
<1>3. Sizes = Nat
  BY <1>1, <1>2, EveryNumber DEF Sizes
<1> QED
  BY <1>0, <1>3 DEF Sizes

(* What is defined for a set by what it is for the set without a picked element exists. *)
MayFold(S, V, base, pick, step) ==
  /\ IsFiniteSet(S)
  /\ base \in V
  /\ \A T \in SUBSET S : T # {} => pick[T] \in T
  /\ \A x \in S, v \in V : step[<<x, v>>] \in V

Fold(f, S, V, base, pick, step) ==
  /\ f \in [SUBSET S -> V]
  /\ \A T \in SUBSET S :
       f[T] = IF T = {} THEN base ELSE step[<<pick[T], f[T \ {pick[T]}]>>]

(* A fold of a finite set that picks an element, and folds the rest first, is what it says. *)
LEMMA FoldExists ==
  ASSUME NEW S, NEW V, NEW base, NEW pick, NEW step, MayFold(S, V, base, pick, step)
  PROVE  \E f : Fold(f, S, V, base, pick, step)
<1> USE DEF MayFold
<1> DEFINE Right(f, T) ==
             f[T] = IF T = {} THEN base ELSE step[<<pick[T], f[T \ {pick[T]}]>>]
           Reach == {n \in Nat : \E f \in [SUBSET S -> V] :
                       \A T \in SUBSET S : Cardinality(T) <= n => Right(f, T)}
<1>0. \A T \in SUBSET S : IsFiniteSet(T) /\ Cardinality(T) \in Nat
  BY FS_Subset, FS_CardinalityType
<1>1. 0 \in Reach
  <2> DEFINE f == [T \in SUBSET S |-> base]
  <2>1. \A T \in SUBSET S : Cardinality(T) <= 0 => T = {}
    BY <1>0, FS_EmptySet
  <2>2. \A T \in SUBSET S : Cardinality(T) <= 0 => Right(f, T)
    BY <2>1
  <2>3. f \in [SUBSET S -> V]
    OBVIOUS
  <2> HIDE DEF f, Right
  <2> QED
    BY <2>2, <2>3
<1>2. ASSUME NEW n \in Reach PROVE n + 1 \in Reach
  <2>1. PICK g \in [SUBSET S -> V] :
          \A T \in SUBSET S : Cardinality(T) <= n => Right(g, T)
    BY <1>2
  <2> DEFINE f == [T \in SUBSET S |->
                     IF T = {} THEN base ELSE step[<<pick[T], g[T \ {pick[T]}]>>]]
  <2>2. f \in [SUBSET S -> V]
    <3> SUFFICES ASSUME NEW T \in SUBSET S, T # {}
                 PROVE  step[<<pick[T], g[T \ {pick[T]}]>>] \in V
      OBVIOUS
    <3>1. pick[T] \in S /\ T \ {pick[T]} \in SUBSET S
      OBVIOUS
    <3>2. g[T \ {pick[T]}] \in V
      BY <3>1
    <3> QED
      BY <3>1, <3>2
  <2>3. \A T \in SUBSET S : Cardinality(T) <= n => f[T] = g[T]
    BY <2>1
  <2>4. ASSUME NEW T \in SUBSET S, Cardinality(T) <= n + 1 PROVE Right(f, T)
    <3>1. CASE T = {}
      BY <3>1
    <3>2. CASE T # {}
      <4>1. pick[T] \in T /\ T \ {pick[T]} \in SUBSET S
        BY <3>2
      <4>2. Cardinality(T \ {pick[T]}) = Cardinality(T) - 1
        BY <1>0, <4>1, FS_RemoveElement
      <4>3. Cardinality(T \ {pick[T]}) <= n
        BY <1>0, <2>4, <4>2
      <4>4. f[T \ {pick[T]}] = g[T \ {pick[T]}]
        BY <2>3, <4>1, <4>3
      <4> QED
        BY <3>2, <4>4
    <3> QED
      BY <3>1, <3>2
  <2> HIDE DEF f, Right
  <2> QED
    BY <2>2, <2>4
<1>a. Reach \in SUBSET Nat
  OBVIOUS
<1> HIDE DEF Reach, Right
<1>3. Reach = Nat
  BY <1>1, <1>2, <1>a, EveryNumber
<1>4. Cardinality(S) \in Reach
  BY <1>0, <1>3
<1>5. PICK f \in [SUBSET S -> V] :
        \A T \in SUBSET S : Cardinality(T) <= Cardinality(S) => Right(f, T)
  BY <1>4 DEF Reach
<1>6. \A T \in SUBSET S : Right(f, T)
  BY <1>5, FS_Subset
<1> QED
  BY <1>6 DEF Right, Fold

(* The same for a number and the one before. *)
MayIterate(N, V, base, step) == N \in Nat /\ base \in V /\ \A v \in V : step[v] \in V

Iteration(f, N, V, base, step) ==
  /\ f \in [0 .. N -> V]
  /\ \A n \in 0 .. N : f[n] = IF n = 0 THEN base ELSE step[f[n - 1]]

(* An iteration is its start at 0 and one step more at every later number. *)
LEMMA IterationExists ==
  ASSUME NEW N, NEW V, NEW base, NEW step, MayIterate(N, V, base, step)
  PROVE  \E f : Iteration(f, N, V, base, step)
<1> USE DEF MayIterate
<1> DEFINE Reach == {m \in Nat : \E f \in [0 .. m -> V] : \A n \in 0 .. m :
                       f[n] = IF n = 0 THEN base ELSE step[f[n - 1]]}
<1>1. 0 \in Reach
  <2> DEFINE f == [n \in 0 .. 0 |-> base]
  <2>1. f \in [0 .. 0 -> V] /\ \A n \in 0 .. 0 : n = 0 /\ f[n] = base
    OBVIOUS
  <2> HIDE DEF f
  <2> QED
    BY <2>1
<1>2. ASSUME NEW m \in Reach PROVE m + 1 \in Reach
  <2>1. PICK g \in [0 .. m -> V] :
          \A n \in 0 .. m : g[n] = IF n = 0 THEN base ELSE step[g[n - 1]]
    BY <1>2
  <2> DEFINE f == [n \in 0 .. m + 1 |-> IF n = m + 1 THEN step[g[m]] ELSE g[n]]
  <2>2. m \in Nat /\ \A n \in 0 .. m + 1 : n = m + 1 \/ n \in 0 .. m
    OBVIOUS
  <2>3. f \in [0 .. m + 1 -> V]
    BY <2>2
  <2>4. ASSUME NEW n \in 0 .. m + 1
        PROVE  f[n] = IF n = 0 THEN base ELSE step[f[n - 1]]
    <3>1. CASE n = m + 1
      BY <2>2, <3>1
    <3>2. CASE n \in 0 .. m
      <4>1. f[n] = g[n] /\ (n # 0 => f[n - 1] = g[n - 1])
        BY <2>2, <3>2
      <4> QED
        BY <2>1, <3>2, <4>1
    <3> QED
      BY <2>2, <3>1, <3>2
  <2> HIDE DEF f
  <2> QED
    BY <2>2, <2>3, <2>4
<1>a. Reach \in SUBSET Nat
  OBVIOUS
<1> HIDE DEF Reach
<1>3. Reach = Nat
  BY <1>1, <1>2, <1>a, EveryNumber
<1>4. N \in Reach
  BY <1>3
<1> QED
  BY <1>4 DEF Reach, Iteration

--------------------------------------------------------------------------------
(* Intervals, and sequences of them *)

Intervals == [lo : Int, hi : Int]

Covers(iv, t) == iv.lo <= t /\ t < iv.hi

Covered(ivs, t) == \E iv \in ivs : Covers(iv, t)

InOrder(s) == \A i, j \in DOMAIN s : i < j => s[i].hi <= s[j].lo

(* The sets of ticks of the solvers: no interval is empty, and none touches the next. *)
IntervalSets ==
  {s \in Seq(Intervals) :
     /\ \A k \in DOMAIN s : s[k].lo < s[k].hi
     /\ \A i, j \in DOMAIN s : i < j => s[i].hi < s[j].lo}

(* An interval is made of its ends. *)
LEMMA IntervalIs ==
  ASSUME NEW lo \in Int, NEW hi \in Int
  PROVE  Iv(lo, hi) \in Intervals /\ Iv(lo, hi).lo = lo /\ Iv(lo, hi).hi = hi
BY DEF Iv, Intervals

(* The ends of an interval are ticks. *)
LEMMA FieldsOf ==
  ASSUME NEW iv \in Intervals
  PROVE  iv.lo \in Int /\ iv.hi \in Int
BY DEF Intervals

(* The order in which intervals are merged is a strict linear order. *)
LEMMA EarlierOrders ==
  ASSUME NEW a \in Intervals, NEW b \in Intervals, NEW c \in Intervals
  PROVE  /\ a = b \/ Earlier(a, b) \/ Earlier(b, a)
         /\ Earlier(a, b) /\ Earlier(b, c) => Earlier(a, c)
         /\ Earlier(a, b) => a.lo <= b.lo
BY DEF Earlier, Intervals

(* Intervals that are finitely many, and not none, have a latest one. *)
LEMMA LatestExists ==
  ASSUME NEW S \in SUBSET Intervals, IsFiniteSet(S), S # {}
  PROVE  /\ Latest(S) \in S
         /\ \A other \in S : other = Latest(S) \/ Earlier(other, Latest(S))
<1> DEFINE IsLatest(iv, T) == \A other \in T : other = iv \/ Earlier(other, iv)
           G == {T \in SUBSET S : T = {} \/ \E iv \in T : IsLatest(iv, T)}
<1>1. {} \in G
  OBVIOUS
<1>2. ASSUME NEW T \in SUBSET S, NEW x \in T, T \ {x} \in G PROVE T \in G
  <2>1. CASE T \ {x} = {}
    <3>1. IsLatest(x, T)
      BY <2>1
    <3> QED
      BY <3>1
  <2>2. CASE T \ {x} # {}
    <3>1. PICK iv \in T \ {x} : IsLatest(iv, T \ {x})
      BY <1>2, <2>2
    <3>2. CASE Earlier(x, iv)
      <4>1. IsLatest(iv, T)
        BY <3>1, <3>2
      <4> QED
        BY <4>1
    <3>3. CASE Earlier(iv, x)
      <4>1. IsLatest(x, T)
        <5> SUFFICES ASSUME NEW other \in T, other # x PROVE Earlier(other, x)
          OBVIOUS
        <5>1. other = iv \/ Earlier(other, iv)
          BY <3>1
        <5> QED
          BY <3>3, <5>1, EarlierOrders
      <4> QED
        BY <4>1
    <3> QED
      BY <3>1, <3>2, <3>3, EarlierOrders
  <2> QED
    BY <2>1, <2>2
<1>3. G \in SUBSET SUBSET S
  OBVIOUS
<1> HIDE DEF G, IsLatest
<1>4. \A T \in SUBSET S : T # {} /\ (\A x \in T : T \ {x} \in G) => T \in G
  BY <1>2
<1>5. S \in G
  <2>1. G = SUBSET S
    BY <1>1, <1>3, <1>4, EverySubset
  <2> QED
    BY <2>1
<1>6. \E iv \in S : IsLatest(iv, S)
  BY <1>5 DEF G
<1> QED
  BY <1>6 DEF IsLatest, Latest

(* Merging an interval into intervals gives intervals. *)
LEMMA MergeType ==
  ASSUME NEW iv \in Intervals, NEW m \in Seq(Intervals)
  PROVE  Merge(iv, m) \in Seq(Intervals)
<1>1. CASE m = << >> \/ iv.lo > Last(m).hi
  BY <1>1 DEF Merge
<1>2. CASE ~ (m = << >> \/ iv.lo > Last(m).hi)
  <2>1. Len(m) \in DOMAIN m
    BY <1>2
  <2>0. m[Len(m)] \in Intervals
    BY <2>1
  <2>2. Later(m[Len(m)].hi, iv.hi) \in Int
    BY <2>0, FieldsOf DEF Later
  <2>3. [m[Len(m)] EXCEPT !.hi = Later(m[Len(m)].hi, iv.hi)] \in Intervals
    BY <2>0, <2>2 DEF Intervals
  <2>4. Merge(iv, m) = [m EXCEPT ![Len(m)] =
                          [m[Len(m)] EXCEPT !.hi = Later(m[Len(m)].hi, iv.hi)]]
    BY <1>2, <2>1 DEF Merge
  <2> QED
    BY <2>1, <2>3, <2>4, ExceptSeq
<1> QED
  BY <1>1, <1>2

(* An interval that begins no earlier than the last one is merged exactly. *)
LEMMA MergeIsExact ==
  ASSUME NEW m \in IntervalSets, NEW iv \in Intervals, iv.lo < iv.hi,
         m # << >> => m[Len(m)].lo <= iv.lo
  PROVE  LET r == Merge(iv, m)
         IN  /\ r \in IntervalSets
             /\ r # << >> /\ r[Len(r)].lo <= iv.lo
             /\ \A t \in Int : HoldsTick(r, t) <=> HoldsTick(m, t) \/ Covers(iv, t)
<1>0. /\ m \in Seq(Intervals) /\ Len(m) \in Nat /\ DOMAIN m = 1 .. Len(m)
      /\ \A k \in DOMAIN m : m[k].lo \in Int /\ m[k].hi \in Int /\ m[k].lo < m[k].hi
      /\ \A i, j \in DOMAIN m : i < j => m[i].hi < m[j].lo
      /\ iv.lo \in Int /\ iv.hi \in Int
  <2>1. m \in Seq(Intervals) /\ \A k \in DOMAIN m : m[k] \in Intervals
    BY DEF IntervalSets
  <2> QED
    BY <2>1, FieldsOf DEF IntervalSets
<1> DEFINE n == Len(m)
           r == Merge(iv, m)
<1>1. CASE m = << >> \/ iv.lo > Last(m).hi
  <2>1. r = Append(m, iv)
    BY <1>1 DEF Merge
  <2>2. /\ r \in Seq(Intervals) /\ Len(r) = n + 1 /\ DOMAIN r = 1 .. n + 1
        /\ \A k \in DOMAIN m : k \in DOMAIN r /\ r[k] = m[k]
        /\ r[n + 1] = iv
    BY <1>0, <2>1
  <2> HIDE DEF r
  <2>3. \A k \in DOMAIN m : m[k].hi < iv.lo
    <3> SUFFICES ASSUME NEW k \in DOMAIN m PROVE m[k].hi < iv.lo
      OBVIOUS
    <3>1. m # << >> /\ Last(m) = m[n] /\ n \in DOMAIN m
      BY <1>0 DEF Last
    <3>2. m[n].hi < iv.lo
      BY <1>0, <1>1, <3>1
    <3>3. k = n \/ m[k].hi < m[n].lo
      BY <1>0, <3>1
    <3> QED
      BY <1>0, <3>1, <3>2, <3>3
  <2>4. \A k \in DOMAIN r : k \in DOMAIN m \/ k = n + 1
    BY <1>0, <2>2
  <2>5. \A k \in DOMAIN r : r[k].lo < r[k].hi
    BY <1>0, <2>2, <2>4
  <2>6. \A i, j \in DOMAIN r : i < j => r[i].hi < r[j].lo
    BY <1>0, <2>2, <2>3, <2>4
  <2>7. r \in IntervalSets
    BY <2>2, <2>5, <2>6 DEF IntervalSets
  <2>8. r # << >> /\ r[Len(r)].lo <= iv.lo
    BY <1>0, <2>2
  <2>9. ASSUME NEW t \in Int PROVE HoldsTick(r, t) <=> HoldsTick(m, t) \/ Covers(iv, t)
    BY <1>0, <2>2, <2>4 DEF HoldsTick, Covers
  <2> QED
    BY <2>7, <2>8, <2>9 DEF r
<1>2. CASE m # << >> /\ iv.lo <= Last(m).hi
  <2> DEFINE hi == Later(m[n].hi, iv.hi)
  <2>1. n \in DOMAIN m /\ Last(m) = m[n] /\ m[n] \in Intervals
    BY <1>0, <1>2 DEF Last
  <2>2. hi \in Int /\ m[n].hi <= hi /\ iv.hi <= hi /\ (hi = m[n].hi \/ hi = iv.hi)
    BY <1>0, <2>1 DEF Later
  <2>0. ~ (m = << >> \/ iv.lo > Last(m).hi)
    BY <1>0, <1>2, <2>1
  <2>3. r = [m EXCEPT ![n] = [m[n] EXCEPT !.hi = hi]]
    BY <2>0, <2>1 DEF Merge
  <2> HIDE DEF hi
  <2>4. [m[n] EXCEPT !.hi = hi] \in Intervals
    BY <2>1, <2>2 DEF Intervals
  <2>5. [m[n] EXCEPT !.hi = hi].lo = m[n].lo /\ [m[n] EXCEPT !.hi = hi].hi = hi
    BY <2>1 DEF Intervals
  <2>6. /\ r \in Seq(Intervals) /\ Len(r) = n /\ DOMAIN r = DOMAIN m
        /\ r[n].lo = m[n].lo /\ r[n].hi = hi
        /\ \A k \in DOMAIN m : k # n => r[k] = m[k]
    BY <1>0, <2>1, <2>3, <2>4, <2>5, ExceptSeq
  <2> HIDE DEF r
  <2>7. \A k \in DOMAIN r : r[k].lo < r[k].hi
    BY <1>0, <2>1, <2>2, <2>6
  <2>8. \A i, j \in DOMAIN r : i < j => r[i].hi < r[j].lo
    BY <1>0, <2>1, <2>6
  <2>9. r \in IntervalSets
    BY <2>6, <2>7, <2>8 DEF IntervalSets
  <2>10. r # << >> /\ r[Len(r)].lo <= iv.lo
    BY <1>0, <1>2, <2>1, <2>6
  <2>11. ASSUME NEW t \in Int PROVE HoldsTick(r, t) <=> HoldsTick(m, t) \/ Covers(iv, t)
    <3>1. m[n].lo <= t /\ t < hi <=> (m[n].lo <= t /\ t < m[n].hi) \/ Covers(iv, t)
      BY <1>0, <1>2, <2>1, <2>2 DEF Covers
    <3> QED
      BY <2>1, <2>6, <3>1 DEF HoldsTick
  <2> QED
    BY <2>9, <2>10, <2>11 DEF r
<1>3. m # << >> => Last(m) = m[n] /\ n \in DOMAIN m
  BY <1>0 DEF Last
<1> QED
  BY <1>0, <1>1, <1>2, <1>3

--------------------------------------------------------------------------------
(* The algebra is exact *)

(* Merging the intervals from the earliest on: what has been merged is a set of ticks,
   holds what the intervals cover, and its last interval begins with one of them. *)
LEMMA MergingIsExact ==
  ASSUME NEW S \in SUBSET Intervals, IsFiniteSet(S), \A iv \in S : iv.lo < iv.hi
  PROVE  LET m == MapThenFoldSet(Merge, << >>, LAMBDA iv : iv, Latest, S)
         IN  /\ m \in IntervalSets
             /\ \A t \in Int : HoldsTick(m, t) <=> Covered(S, t)
<1> DEFINE iter == CHOOSE iter : iter = [T \in SUBSET S |->
                     IF T = {} THEN << >> ELSE Merge(Latest(T), iter[T \ {Latest(T)}])]
<1>1. MapThenFoldSet(Merge, << >>, LAMBDA iv : iv, Latest, S) = iter[S]
  BY DEF MapThenFoldSet
<1> HIDE DEF iter
<1>2. \A T \in SUBSET S : T # {} =>
        /\ Latest(T) \in T
        /\ \A other \in T : other = Latest(T) \/ Earlier(other, Latest(T))
  BY LatestExists, FS_Subset
<1>3. iter = [T \in SUBSET S |->
                IF T = {} THEN << >> ELSE Merge(Latest(T), iter[T \ {Latest(T)}])]
  <2> DEFINE pick == [T \in SUBSET S |-> Latest(T)]
             step == [x \in S \X Seq(Intervals) |-> Merge(x[1], x[2])]
  <2>1. \A T \in SUBSET S : T # {} => pick[T] \in T
    BY <1>2
  <2>2. \A x \in S, m \in Seq(Intervals) : step[<<x, m>>] \in Seq(Intervals)
    BY MergeType
  <2>3. << >> \in Seq(Intervals)
    OBVIOUS
  <2>4. PICK f \in [SUBSET S -> Seq(Intervals)] : \A T \in SUBSET S :
          f[T] = IF T = {} THEN << >> ELSE step[<<pick[T], f[T \ {pick[T]}]>>]
    <3>1. MayFold(S, Seq(Intervals), << >>, pick, step)
      BY <2>1, <2>2, <2>3 DEF MayFold
    <3> HIDE DEF pick, step
    <3>2. PICK f : Fold(f, S, Seq(Intervals), << >>, pick, step)
      BY <3>1, FoldExists
    <3> QED
      BY <3>2 DEF Fold
  <2>5. \A T \in SUBSET S :
          f[T] = IF T = {} THEN << >> ELSE Merge(Latest(T), f[T \ {Latest(T)}])
    <3> SUFFICES ASSUME NEW T \in SUBSET S, T # {}
                 PROVE  f[T] = Merge(Latest(T), f[T \ {Latest(T)}])
      BY <2>4
    <3>1. /\ pick[T] = Latest(T) /\ Latest(T) \in S
          /\ f[T \ {Latest(T)}] \in Seq(Intervals)
      BY <1>2
    <3>2. step[<<Latest(T), f[T \ {Latest(T)}]>>] = Merge(Latest(T), f[T \ {Latest(T)}])
      BY <3>1
    <3> QED
      BY <2>4, <3>1, <3>2
  <2>6. f = [T \in SUBSET S |->
               IF T = {} THEN << >> ELSE Merge(Latest(T), f[T \ {Latest(T)}])]
    BY <2>5
  <2> HIDE DEF pick, step
  <2> QED
    BY <2>6 DEF iter
<1> DEFINE Good(T) == /\ iter[T] \in IntervalSets
                      /\ \A t \in Int : HoldsTick(iter[T], t) <=> Covered(T, t)
                      /\ iter[T] # << >> =>
                           \E iv \in T : iter[T][Len(iter[T])].lo <= iv.lo
           G == {T \in SUBSET S : Good(T)}
<1>4. {} \in G
  <2>1. iter[{}] = << >>
    BY <1>3
  <2>2. << >> \in IntervalSets /\ \A t : ~ HoldsTick(<< >>, t) /\ ~ Covered({}, t)
    BY DEF IntervalSets, HoldsTick, Covered
  <2> QED
    BY <2>1, <2>2
<1>5. ASSUME NEW T \in SUBSET S, T # {}, T \ {Latest(T)} \in G PROVE T \in G
  <2> DEFINE x == Latest(T)
             U == T \ {x}
  <2>0. /\ iter[U] \in IntervalSets
        /\ \A t \in Int : HoldsTick(iter[U], t) <=> Covered(U, t)
        /\ iter[U] # << >> => \E iv \in U : iter[U][Len(iter[U])].lo <= iv.lo
        /\ U \in SUBSET S
    BY <1>5
  <2>1. /\ x \in T /\ x \in Intervals /\ x.lo < x.hi
        /\ iter[T] = Merge(x, iter[U])
    BY <1>2, <1>3, <1>5
  <2>2. \A iv \in U : iv.lo <= x.lo
    BY <1>2, <1>5, EarlierOrders
  <2> HIDE DEF x, U
  <2>3. iter[U] # << >> => iter[U][Len(iter[U])].lo <= x.lo
    <3>1. \A iv \in U : iv.lo \in Int /\ x.lo \in Int
      BY <2>0, <2>1, FieldsOf
    <3>2. iter[U] # << >> => iter[U][Len(iter[U])].lo \in Int
      <4>1. iter[U] \in Seq(Intervals)
        BY <2>0 DEF IntervalSets
      <4> QED
        BY <4>1, FieldsOf
    <3> QED
      BY <2>0, <2>2, <3>1, <3>2
  <2>4. /\ iter[T] \in IntervalSets
        /\ iter[T] # << >> /\ iter[T][Len(iter[T])].lo <= x.lo
        /\ \A t \in Int : HoldsTick(iter[T], t) <=> HoldsTick(iter[U], t) \/ Covers(x, t)
    BY <2>0, <2>1, <2>3, MergeIsExact
  <2>5. \A t : Covered(T, t) <=> Covered(U, t) \/ Covers(x, t)
    BY <2>1 DEF Covered, U
  <2>6. \A t \in Int : HoldsTick(iter[T], t) <=> Covered(T, t)
    BY <2>0, <2>4, <2>5
  <2>7. Good(T)
    BY <2>1, <2>4, <2>6
  <2> QED
    BY <2>7
<1>6. G \in SUBSET SUBSET S
  OBVIOUS
<1> HIDE DEF G
<1>7. S \in G
  <2>1. \A T \in SUBSET S : T # {} /\ (\A x \in T : T \ {x} \in G) => T \in G
    BY <1>2, <1>5
  <2>2. G = SUBSET S
    BY <1>4, <1>6, <2>1, EverySubset
  <2> QED
    BY <2>2
<1> QED
  BY <1>1, <1>7 DEF G

(* Normalizing intervals gives a set of ticks that holds what they cover. *)
LEMMA NormalizedIsExact ==
  ASSUME NEW S \in SUBSET Intervals, IsFiniteSet(S)
  PROVE  /\ Normalized(S) \in IntervalSets
         /\ \A t \in Int : HoldsTick(Normalized(S), t) <=> Covered(S, t)
<1> DEFINE R == {iv \in S : iv.hi > iv.lo}
<1>1. R \in SUBSET Intervals /\ IsFiniteSet(R)
  BY FS_Subset
<1>2. \A iv \in R : iv.lo < iv.hi
  BY <1>1, FieldsOf
<1>3. Normalized(S) = MapThenFoldSet(Merge, << >>, LAMBDA iv : iv, Latest, R)
  BY DEF Normalized
<1>4. \A t \in Int : Covered(R, t) <=> Covered(S, t)
  BY FieldsOf DEF Covered, Covers
<1> HIDE DEF R
<1> QED
  BY <1>3, <1>4, <1>1, <1>2, MergingIsExact

(* The image of a finite set is finite. *)
LEMMA ImageIsFinite ==
  ASSUME NEW S, IsFiniteSet(S), NEW f
  PROVE  IsFiniteSet({f[x] : x \in S})
<1> DEFINE T == {f[x] : x \in S}
           g == [x \in S |-> f[x]]
<1>1. g \in Surjection(S, T)
  BY DEF Surjection
<1> HIDE DEF g
<1> QED
  BY <1>1, FS_Surjection

(* The overlap of two intervals covers what both cover. *)
LEMMA OverlapIsExact ==
  ASSUME NEW x \in Intervals, NEW y \in Intervals
  PROVE  /\ Overlap(x, y) \in Intervals
         /\ \A t \in Int : Covers(Overlap(x, y), t) <=> Covers(x, t) /\ Covers(y, t)
<1>0. x.lo \in Int /\ x.hi \in Int /\ y.lo \in Int /\ y.hi \in Int
  BY FieldsOf
<1>1. Later(x.lo, y.lo) \in Int /\ Sooner(x.hi, y.hi) \in Int
  BY <1>0 DEF Later, Sooner
<1>2. /\ Overlap(x, y) \in Intervals
      /\ Overlap(x, y).lo = Later(x.lo, y.lo) /\ Overlap(x, y).hi = Sooner(x.hi, y.hi)
  BY <1>1, IntervalIs DEF Overlap
<1>3. ASSUME NEW t \in Int
      PROVE  Covers(Overlap(x, y), t) <=> Covers(x, t) /\ Covers(y, t)
  BY <1>0, <1>2 DEF Covers, Later, Sooner
<1> QED
  BY <1>2, <1>3

(* The walk through two sets has seen every pair of intervals of which it has passed one. *)
Both(a, b, k, l, t) == Covers(a[k], t) /\ Covers(b[l], t)

Walks(a, b) ==
  {w \in [out : SUBSET Intervals, i : 1 .. Len(a) + 1, j : 1 .. Len(b) + 1] :
     IsFiniteSet(w.out)}

Seen(a, b, w) ==
  \A t \in Int :
    Covered(w.out, t)
      <=> \E k \in DOMAIN a, l \in DOMAIN b : (k < w.i \/ l < w.j) /\ Both(a, b, k, l, t)

Through(a, b, w) == w.i > Len(a) \/ w.j > Len(b)

(* A step of the walk notes the overlap of its two intervals and passes one of them. *)
LEMMA AdvanceIsExact ==
  ASSUME NEW a \in Seq(Intervals), NEW b \in Seq(Intervals), NEW w \in Walks(a, b)
  PROVE  LET v == Advance(a, b, w)
         IN  /\ v \in Walks(a, b)
             /\ Through(a, b, w) => v = w
             /\ ~ Through(a, b, w) => v.i + v.j = w.i + w.j + 1
             /\ InOrder(a) /\ InOrder(b) /\ Seen(a, b, w) => Seen(a, b, v)
<1> DEFINE v == Advance(a, b, w)
<1>1. CASE Through(a, b, w)
  BY <1>1 DEF Through, Advance
<1>2. CASE ~ Through(a, b, w)
  <2> DEFINE x == a[w.i]
             y == b[w.j]
             first == x.hi < y.hi
  <2>1. /\ Len(a) \in Nat /\ Len(b) \in Nat
        /\ DOMAIN a = 1 .. Len(a) /\ DOMAIN b = 1 .. Len(b)
        /\ w.i \in 1 .. Len(a) + 1 /\ w.j \in 1 .. Len(b) + 1
        /\ w.out \in SUBSET Intervals /\ IsFiniteSet(w.out)
    BY DEF Walks
  <2>2. w.i \in DOMAIN a /\ w.j \in DOMAIN b
    BY <1>2, <2>1 DEF Through
  <2>3. x \in Intervals /\ y \in Intervals
    BY <2>2
  <2>4. v = [out |-> w.out \cup {Overlap(x, y)},
             i   |-> IF first THEN w.i + 1 ELSE w.i,
             j   |-> IF first THEN w.j ELSE w.j + 1]
    BY <1>2 DEF Through, Advance
  <2>5. /\ v.out = w.out \cup {Overlap(x, y)}
        /\ (first /\ v.i = w.i + 1 /\ v.j = w.j) \/ (~ first /\ v.i = w.i /\ v.j = w.j + 1)
        /\ v = [out |-> v.out, i |-> v.i, j |-> v.j]
    BY <2>4
  <2> HIDE DEF v
  <2>6. /\ v.out \in SUBSET Intervals /\ IsFiniteSet(v.out)
        /\ v.i \in 1 .. Len(a) + 1 /\ v.j \in 1 .. Len(b) + 1
    <3>1. Overlap(x, y) \in Intervals
      BY <2>3, OverlapIsExact
    <3>2. IsFiniteSet(w.out \cup {Overlap(x, y)})
      BY <2>1, FS_AddElement
    <3>3. v.i \in 1 .. Len(a) + 1 /\ v.j \in 1 .. Len(b) + 1
      BY <2>1, <2>2, <2>5
    <3> QED
      BY <2>1, <2>5, <3>1, <3>2, <3>3
  <2>7. v \in Walks(a, b)
    BY <2>5, <2>6 DEF Walks
  <2>8. v.i + v.j = w.i + w.j + 1
    <3>1. (v.i = w.i + 1 /\ v.j = w.j) \/ (v.i = w.i /\ v.j = w.j + 1)
      BY <2>5
    <3>2. w.i \in Int /\ w.j \in Int
      BY <2>1
    <3>3. v.i \in Int /\ v.j \in Int
      BY <3>1, <3>2
    <3> QED
      BY <3>1, <3>2, <3>3
  <2>9. ASSUME InOrder(a), InOrder(b), Seen(a, b, w), NEW t \in Int
        PROVE  Covered(v.out, t)
                 <=> \E k \in DOMAIN a, l \in DOMAIN b :
                        (k < v.i \/ l < v.j) /\ Both(a, b, k, l, t)
    <3>1. Covered(v.out, t) <=> Covered(w.out, t) \/ Both(a, b, w.i, w.j, t)
      <4>1. Covers(Overlap(x, y), t) <=> Both(a, b, w.i, w.j, t)
        BY <2>3, OverlapIsExact DEF Both
      <4> QED
        BY <2>5, <4>1 DEF Covered
    <3>2. Covered(w.out, t)
            <=> \E k \in DOMAIN a, l \in DOMAIN b :
                   (k < w.i \/ l < w.j) /\ Both(a, b, k, l, t)
      BY <2>9 DEF Seen
    <3>3. /\ \A k \in DOMAIN a : a[k].lo \in Int /\ a[k].hi \in Int
          /\ \A l \in DOMAIN b : b[l].lo \in Int /\ b[l].hi \in Int
      BY FieldsOf
    <3>4. CASE first
      <4>1. ASSUME NEW l \in DOMAIN b, l > w.j PROVE ~ Both(a, b, w.i, l, t)
        <5>1. b[w.j].hi <= b[l].lo
          BY <2>1, <2>2, <2>9, <4>1 DEF InOrder
        <5> QED
          BY <2>2, <3>3, <3>4, <5>1 DEF Both, Covers
      <4>2. v.i = w.i + 1 /\ v.j = w.j
        BY <2>5, <3>4
      <4>3. \A k \in DOMAIN a, l \in DOMAIN b :
              (k < v.i \/ l < v.j)
                <=> (k < w.i \/ l < w.j) \/ (k = w.i /\ l = w.j) \/ (k = w.i /\ l > w.j)
        BY <2>1, <4>2
      <4> HIDE DEF x, y, first
      <4> QED
        BY <2>2, <3>1, <3>2, <4>1, <4>3
    <3>5. CASE ~ first
      <4>1. ASSUME NEW k \in DOMAIN a, k > w.i PROVE ~ Both(a, b, k, w.j, t)
        <5>1. a[w.i].hi <= a[k].lo
          BY <2>1, <2>2, <2>9, <4>1 DEF InOrder
        <5> QED
          BY <2>2, <3>3, <3>5, <5>1 DEF Both, Covers
      <4>2. v.i = w.i /\ v.j = w.j + 1
        BY <2>5, <3>5
      <4>3. \A k \in DOMAIN a, l \in DOMAIN b :
              (k < v.i \/ l < v.j)
                <=> (k < w.i \/ l < w.j) \/ (k = w.i /\ l = w.j) \/ (l = w.j /\ k > w.i)
        BY <2>1, <4>2
      <4> HIDE DEF x, y, first
      <4> QED
        BY <2>2, <3>1, <3>2, <4>1, <4>3
    <3> QED
      BY <3>4, <3>5
  <2> HIDE DEF x, y, first
  <2> QED
    BY <1>2, <2>7, <2>8, <2>9 DEF Seen, v
<1> QED
  BY <1>1, <1>2

(* The intersection of two sets, however its first intervals touch, is a set that holds
   the ticks both hold. *)
LEMMA IntersectionIsExact ==
  ASSUME NEW a \in Seq(Intervals), NEW b \in Seq(Intervals), InOrder(a), InOrder(b)
  PROVE  /\ Intersection(a, b) \in IntervalSets
         /\ \A t \in Int :
              HoldsTick(Intersection(a, b), t) <=> HoldsTick(a, t) /\ HoldsTick(b, t)
<1> DEFINE N == Len(a) + Len(b)
           start == [out |-> {}, i |-> 1, j |-> 1]
           Walk == CHOOSE Walk : Walk =
                     [n \in 0 .. N |-> IF n = 0 THEN start ELSE Advance(a, b, Walk[n - 1])]
<1>0. Len(a) \in Nat /\ Len(b) \in Nat /\ N \in Nat
  OBVIOUS
<1>1. Intersection(a, b) = Normalized(Walk[N].out)
  BY DEF Intersection
<1>2. start \in Walks(a, b)
  <2>1. IsFiniteSet({})
    BY FS_EmptySet
  <2>2. start \in [out : SUBSET Intervals, i : 1 .. Len(a) + 1, j : 1 .. Len(b) + 1]
    BY <1>0
  <2> QED
    BY <2>1, <2>2 DEF Walks
<1> HIDE DEF Walk
<1>3. Walk = [n \in 0 .. N |-> IF n = 0 THEN start ELSE Advance(a, b, Walk[n - 1])]
  <2> DEFINE step == [w \in Walks(a, b) |-> Advance(a, b, w)]
  <2>1. \A w \in Walks(a, b) : step[w] \in Walks(a, b) /\ step[w] = Advance(a, b, w)
    BY AdvanceIsExact
  <2> HIDE DEF step, start, N
  <2>2. MayIterate(N, Walks(a, b), start, step)
    BY <1>0, <1>2, <2>1 DEF MayIterate
  <2>3. PICK f : Iteration(f, N, Walks(a, b), start, step)
    BY <2>2, IterationExists
  <2>4. ASSUME NEW n \in 0 .. N
        PROVE  f[n] = IF n = 0 THEN start ELSE Advance(a, b, f[n - 1])
    <3>1. n # 0 => n - 1 \in 0 .. N
      BY <1>0
    <3>2. n # 0 => f[n - 1] \in Walks(a, b)
      BY <2>3, <3>1 DEF Iteration
    <3> QED
      BY <2>1, <2>3, <3>2 DEF Iteration
  <2>5. f = [n \in 0 .. N |-> IF n = 0 THEN start ELSE Advance(a, b, f[n - 1])]
    BY <2>3, <2>4 DEF Iteration
  <2> QED
    BY <2>5 DEF Walk
<1> DEFINE Good(n) == /\ Walk[n] \in Walks(a, b) /\ Seen(a, b, Walk[n])
                      /\ Through(a, b, Walk[n]) \/ Walk[n].i + Walk[n].j = n + 2
           G == {n \in Nat : n <= N => Good(n)}
<1>4. 0 \in G
  <2>1. Walk[0] = start
    BY <1>0, <1>3
  <2>2. Seen(a, b, start)
    BY <1>0 DEF Seen, Covered
  <2> QED
    BY <1>2, <2>1, <2>2
<1>5. ASSUME NEW n \in G PROVE n + 1 \in G
  <2> SUFFICES ASSUME n + 1 <= N PROVE Good(n + 1)
    OBVIOUS
  <2>1. Good(n) /\ n \in Nat
    BY <1>0
  <2>2. Walk[n + 1] = Advance(a, b, Walk[n])
    <3>1. n + 1 \in 0 .. N /\ n + 1 # 0 /\ (n + 1) - 1 = n
      BY <1>0, <2>1
    <3> HIDE DEF start, N
    <3> QED
      BY <1>3, <3>1
  <2>3. Walk[n].i \in Int /\ Walk[n].j \in Int
    BY <2>1 DEF Walks
  <2> DEFINE w == Walk[n]
  <2> HIDE DEF w, G, start, N
  <2>4. /\ Advance(a, b, w) \in Walks(a, b)
        /\ Through(a, b, w) => Advance(a, b, w) = w
        /\ ~ Through(a, b, w) => Advance(a, b, w).i + Advance(a, b, w).j = w.i + w.j + 1
        /\ Seen(a, b, Advance(a, b, w))
    BY <2>1, AdvanceIsExact DEF w
  <2> QED
    BY <2>3, <2>4, <2>1, <2>2 DEF w
<1>6. G = Nat
  <2>1. G \in SUBSET Nat
    OBVIOUS
  <2> HIDE DEF G
  <2> QED
    BY <1>4, <1>5, <2>1, EveryNumber
<1>7. Good(N)
  BY <1>0, <1>6
<1> HIDE DEF G, start
<1> DEFINE w == Walk[N]
<1>8. w.i > Len(a) \/ w.j > Len(b)
  <2>1. w.i \in 1 .. Len(a) + 1 /\ w.j \in 1 .. Len(b) + 1
    BY <1>7 DEF Walks
  <2> QED
    BY <1>0, <1>7, <2>1 DEF Through
<1>9. ASSUME NEW t \in Int
      PROVE  Covered(w.out, t) <=> HoldsTick(a, t) /\ HoldsTick(b, t)
  <2>1. Covered(w.out, t) <=> \E k \in DOMAIN a, l \in DOMAIN b :
                                 (k < w.i \/ l < w.j) /\ Both(a, b, k, l, t)
    BY <1>7 DEF Seen
  <2>2. \A k \in DOMAIN a, l \in DOMAIN b : k < w.i \/ l < w.j
    <3>1. w.i \in Int /\ w.j \in Int
      BY <1>7 DEF Walks
    <3> QED
      BY <1>0, <1>8, <3>1
  <2> QED
    BY <2>1, <2>2 DEF Both, HoldsTick, Covers
<1>10. w.out \in SUBSET Intervals /\ IsFiniteSet(w.out)
  BY <1>7 DEF Walks
<1> HIDE DEF w
<1>11. Intersection(a, b) = Normalized(w.out)
  BY <1>1 DEF w
<1> QED
  BY <1>9, <1>10, <1>11, NormalizedIsExact

(* What is left of an interval after the cuts 1 .. k of a set of ticks: the kept pieces all
   end before the last of these cuts. *)
Cuttings == {c \in [kept : SUBSET Intervals, rest : Intervals] : IsFiniteSet(c.kept)}

Holds(c, t) == Covered(c.kept, t) \/ Covers(c.rest, t)

CutUpTo(c, iv, b, k) ==
  \A t \in Int :
    /\ Holds(c, t) <=> Covers(iv, t) /\ \A l \in DOMAIN b : l <= k => ~ Covers(b[l], t)
    /\ Covered(c.kept, t) => \E l \in DOMAIN b : l <= k /\ t < b[l].lo

(* After a cut what is kept and what is left are intervals again. *)
LEMMA CutType ==
  ASSUME NEW c \in Cuttings, NEW by \in Intervals
  PROVE  Cut(c, by) \in Cuttings
<1>1. CASE by.hi <= c.rest.lo \/ by.lo >= c.rest.hi
  BY <1>1 DEF Cut
<1>2. CASE ~ (by.hi <= c.rest.lo \/ by.lo >= c.rest.hi)
  <2> DEFINE piece == Iv(c.rest.lo, by.lo)
             rest == Iv(by.hi, c.rest.hi)
  <2>1. c.kept \in SUBSET Intervals /\ IsFiniteSet(c.kept) /\ c.rest \in Intervals
    BY DEF Cuttings
  <2>2. piece \in Intervals /\ rest \in Intervals
    BY <2>1, FieldsOf, IntervalIs
  <2>3. Cut(c, by) = [kept |-> c.kept \cup {piece}, rest |-> rest]
    BY <1>2 DEF Cut
  <2>4. IsFiniteSet(c.kept \cup {piece})
    BY <2>1, FS_AddElement
  <2> HIDE DEF piece, rest
  <2> QED
    BY <2>3, <2>4, <2>1, <2>2 DEF Cuttings
<1> QED
  BY <1>1, <1>2

(* What a cut leaves covers what was covered before and is not in the cut. *)
LEMMA CutIsExact ==
  ASSUME NEW b \in IntervalSets, NEW iv \in Intervals, NEW c \in Cuttings,
         NEW k \in Nat, k + 1 \in DOMAIN b, CutUpTo(c, iv, b, k)
  PROVE  CutUpTo(Cut(c, b[k + 1]), iv, b, k + 1)
<1> DEFINE by == b[k + 1]
           d == Cut(c, by)
<1>0. /\ c.kept \in SUBSET Intervals /\ c.rest \in Intervals
      /\ c.rest.lo \in Int /\ c.rest.hi \in Int
  BY FieldsOf DEF Cuttings
<1>1. /\ \A l \in DOMAIN b : b[l].lo \in Int /\ b[l].hi \in Int /\ b[l].lo < b[l].hi
      /\ \A l, m \in DOMAIN b : l < m => b[l].hi < b[m].lo
      /\ DOMAIN b \in SUBSET Nat
  <2>1. \A l \in DOMAIN b : b[l] \in Intervals
    BY DEF IntervalSets
  <2>2. b \in Seq(Intervals)
    BY DEF IntervalSets
  <2>3. DOMAIN b \in SUBSET Nat
    BY <2>2
  <2> QED
    BY <2>1, <2>3, FieldsOf DEF IntervalSets
<1>2. SUFFICES ASSUME NEW t \in Int
      PROVE  /\ Holds(d, t)
                  <=> Covers(iv, t) /\ \A l \in DOMAIN b : l <= k + 1 => ~ Covers(b[l], t)
             /\ Covered(d.kept, t) => \E l \in DOMAIN b : l <= k + 1 /\ t < b[l].lo
  BY DEF CutUpTo
<1>3. /\ Holds(c, t) <=> Covers(iv, t) /\ \A l \in DOMAIN b : l <= k => ~ Covers(b[l], t)
      /\ Covered(c.kept, t) => \E l \in DOMAIN b : l <= k /\ t < b[l].lo
  BY DEF CutUpTo
<1>4. \A l \in DOMAIN b : l <= k + 1 <=> l <= k \/ l = k + 1
  BY <1>1
<1>5. Covered(c.kept, t) => t < by.lo
  <2> SUFFICES ASSUME NEW l \in DOMAIN b, l <= k, t < b[l].lo PROVE t < by.lo
    BY <1>3
  <2>1. b[l].lo < b[l].hi /\ b[l].hi < b[k + 1].lo
    BY <1>1
  <2> QED
    BY <1>1, <2>1
<1>6. by.lo \in Int /\ by.hi \in Int /\ by.lo < by.hi
  BY <1>1
<1>7. /\ Holds(d, t) <=> Holds(c, t) /\ ~ Covers(by, t)
      /\ Covered(d.kept, t) => Covered(c.kept, t) \/ t < by.lo
  <2>1. CASE by.hi <= c.rest.lo \/ by.lo >= c.rest.hi
    <3>1. d = c
      BY <2>1 DEF Cut
    <3>2. Covers(c.rest, t) => ~ Covers(by, t)
      BY <1>0, <1>6, <2>1 DEF Covers
    <3>3. Covered(c.kept, t) => ~ Covers(by, t)
      BY <1>5, <1>6 DEF Covers
    <3> HIDE DEF d, by
    <3> QED
      BY <3>1, <3>2, <3>3 DEF Holds
  <2>2. CASE ~ (by.hi <= c.rest.lo \/ by.lo >= c.rest.hi)
    <3> DEFINE piece == Iv(c.rest.lo, by.lo)
               rest == Iv(by.hi, c.rest.hi)
    <3>1. d.kept = c.kept \cup {piece} /\ d.rest = rest
      BY <2>2 DEF Cut
    <3>2. /\ piece.lo = c.rest.lo /\ piece.hi = by.lo
          /\ rest.lo = by.hi /\ rest.hi = c.rest.hi
      BY <1>0, <1>6, IntervalIs
    <3> HIDE DEF d, piece, rest
    <3>3. Covers(piece, t) \/ Covers(rest, t) <=> Covers(c.rest, t) /\ ~ Covers(by, t)
      <4> HIDE DEF by
      <4> QED
        BY <1>0, <1>6, <2>2, <3>2 DEF Covers
    <3>4. Covers(piece, t) => t < by.lo
      BY <3>2 DEF Covers
    <3>5. Covered(d.kept, t) <=> Covered(c.kept, t) \/ Covers(piece, t)
      BY <3>1 DEF Covered
    <3>6. Covered(c.kept, t) => ~ Covers(by, t)
      BY <1>5, <1>6 DEF Covers
    <3> HIDE DEF by
    <3> QED
      BY <3>1, <3>3, <3>4, <3>5, <3>6 DEF Holds
  <2> QED
    BY <2>1, <2>2
<1> HIDE DEF d, by
<1>8. (\A l \in DOMAIN b : l <= k + 1 => ~ Covers(b[l], t))
         <=> (\A l \in DOMAIN b : l <= k => ~ Covers(b[l], t)) /\ ~ Covers(by, t)
  BY <1>4 DEF by
<1>9. Covered(d.kept, t) => \E l \in DOMAIN b : l <= k + 1 /\ t < b[l].lo
  BY <1>3, <1>4, <1>7 DEF by
<1> QED
  BY <1>3, <1>7, <1>8, <1>9

(* The fold over the cuts is their iteration. *)
LEMMA CuttingIs ==
  ASSUME NEW b \in Seq(Intervals), NEW iv \in Intervals
  PROVE  \E g \in [0 .. Len(b) -> Cuttings] :
           /\ g[0] = [kept |-> {}, rest |-> iv]
           /\ \A k \in 1 .. Len(b) : g[k] = Cut(g[k - 1], b[k])
           /\ FoldLeft(Cut, [kept |-> {}, rest |-> iv], b) = g[Len(b)]
<1> DEFINE S == DOMAIN b
           start == [kept |-> {}, rest |-> iv]
           iter == CHOOSE iter : iter = [T \in SUBSET S |->
                     IF T = {} THEN start ELSE Cut(iter[T \ {Max(T)}], b[Max(T)])]
<1>0. Len(b) \in Nat /\ S = 1 .. Len(b)
  OBVIOUS
<1>1. FoldLeft(Cut, start, b) = iter[S]
  BY DEF FoldLeft, MapThenFoldSet
<1> HIDE DEF iter
<1>2. ASSUME NEW T \in SUBSET S, T # {} PROVE Max(T) \in T /\ \A k \in T : k <= Max(T)
  <2> DEFINE Depth == {Len(b) - k : k \in T}
  <2>1. Depth \in SUBSET Nat /\ Depth # {}
    BY <1>0, <1>2
  <2>2. PICK d \in Depth : \A e \in Depth : d <= e
    BY <2>1, LeastOf
  <2>3. PICK k \in T : d = Len(b) - k
    BY <2>2
  <2>4. ASSUME NEW m \in T PROVE k >= m
    <3>1. Len(b) - m \in Depth
      OBVIOUS
    <3>2. Len(b) - k <= Len(b) - m
      BY <2>2, <2>3, <3>1
    <3>3. k \in Int /\ m \in Int
      BY <1>0
    <3> QED
      BY <1>0, <3>2, <3>3
  <2> QED
    BY <1>0, <2>4 DEF Max
<1>3. start \in Cuttings
  <2>1. IsFiniteSet({})
    BY FS_EmptySet
  <2> QED
    BY <2>1 DEF Cuttings
<1> HIDE DEF start
<1>4. iter = [T \in SUBSET S |->
                IF T = {} THEN start ELSE Cut(iter[T \ {Max(T)}], b[Max(T)])]
  <2> DEFINE pick == [T \in SUBSET S |-> Max(T)]
             step == [x \in S \X Cuttings |-> Cut(x[2], b[x[1]])]
  <2>1. \A T \in SUBSET S : T # {} => pick[T] \in T
    BY <1>2
  <2>2. \A k \in S, c \in Cuttings : step[<<k, c>>] = Cut(c, b[k])
    OBVIOUS
  <2>3. ASSUME NEW k \in S, NEW c \in Cuttings PROVE step[<<k, c>>] \in Cuttings
    <3>1. b[k] \in Intervals
      BY <1>0
    <3>2. Cut(c, b[k]) \in Cuttings
      BY <3>1, CutType
    <3> QED
      BY <2>2, <3>2
  <2>4. IsFiniteSet(S)
    BY <1>0, FS_Interval
  <2>5. \A T \in SUBSET S : pick[T] = Max(T)
    OBVIOUS
  <2> HIDE DEF pick, step
  <2>6. MayFold(S, Cuttings, start, pick, step)
    BY <1>3, <2>1, <2>3, <2>4 DEF MayFold
  <2>7. PICK f : Fold(f, S, Cuttings, start, pick, step)
    BY <2>6, FoldExists
  <2>8. ASSUME NEW T \in SUBSET S, T # {}
        PROVE  f[T] = Cut(f[T \ {Max(T)}], b[Max(T)])
    <3>1. Max(T) \in S /\ f[T \ {Max(T)}] \in Cuttings
      BY <1>2, <2>7, <2>8 DEF Fold
    <3> QED
      BY <2>2, <2>5, <2>7, <2>8, <3>1 DEF Fold
  <2>9. f = [T \in SUBSET S |->
               IF T = {} THEN start ELSE Cut(f[T \ {Max(T)}], b[Max(T)])]
    BY <2>7, <2>8 DEF Fold
  <2> QED
    BY <2>9 DEF iter
<1> DEFINE g == [k \in 0 .. Len(b) |-> iter[1 .. k]]
           G == {k \in Nat : k <= Len(b) => g[k] \in Cuttings}
<1>5. g[0] = start
  <2>1. 1 .. 0 = {}
    OBVIOUS
  <2> QED
    BY <1>0, <1>4, <2>1
<1>6. ASSUME NEW k \in 1 .. Len(b) PROVE g[k] = Cut(g[k - 1], b[k])
  <2> DEFINE T == 1 .. k
  <2>0. k \in Nat /\ 1 <= k /\ k <= Len(b)
    BY <1>0
  <2>1. T \in SUBSET S /\ T # {} /\ k \in T /\ \A m \in T : m <= k
    <3>1. k \in T /\ \A m \in T : m \in Nat /\ 1 <= m /\ m <= k
      BY <2>0
    <3>2. T \in SUBSET (1 .. Len(b))
      BY <1>0, <2>0
    <3> HIDE DEF T
    <3> QED
      BY <1>0, <3>1, <3>2
  <2>2. Max(T) = k
    <3>1. Max(T) \in T /\ \A m \in T : m <= Max(T)
      BY <1>2, <2>1
    <3> HIDE DEF T
    <3> QED
      BY <1>0, <2>1, <3>1
  <2>3. T \ {k} = 1 .. k - 1
    BY <1>0
  <2>4. iter[T] = Cut(iter[T \ {Max(T)}], b[Max(T)])
    BY <1>4, <2>1
  <2>5. k - 1 \in 0 .. Len(b) /\ k \in 0 .. Len(b)
    BY <1>0
  <2> QED
    BY <2>2, <2>3, <2>4, <2>5
<1>7. g[Len(b)] = iter[S]
  BY <1>0
<1>8. g \in [0 .. Len(b) -> Cuttings]
  <2> HIDE DEF g
  <2>1. 0 \in G
    BY <1>3, <1>5
  <2>2. ASSUME NEW k \in G PROVE k + 1 \in G
    <3> SUFFICES ASSUME k + 1 <= Len(b) PROVE g[k + 1] \in Cuttings
      OBVIOUS
    <3>1. k + 1 \in 1 .. Len(b) /\ (k + 1) - 1 = k /\ k <= Len(b)
      BY <1>0
    <3>2. g[k] \in Cuttings
      BY <3>1
    <3>3. b[k + 1] \in Intervals
      BY <1>0, <3>1
    <3>4. Cut(g[k], b[k + 1]) \in Cuttings
      BY <3>2, <3>3, CutType
    <3> QED
      BY <1>6, <3>1, <3>4
  <2>3. G \in SUBSET Nat
    OBVIOUS
  <2> HIDE DEF G
  <2>4. G = Nat
    BY <2>1, <2>2, <2>3, EveryNumber
  <2>5. \A k \in 0 .. Len(b) : g[k] \in Cuttings
    BY <1>0, <2>4 DEF G
  <2> QED
    BY <2>5 DEF g
<1> HIDE DEF g
<1> QED
  BY <1>1, <1>5, <1>6, <1>7, <1>8 DEF start

(* The pieces of an interval cover what it covers and the set cut from it does not hold. *)
LEMMA PiecesAreExact ==
  ASSUME NEW b \in IntervalSets, NEW iv \in Intervals
  PROVE  /\ Pieces(iv, b) \in SUBSET Intervals /\ IsFiniteSet(Pieces(iv, b))
         /\ \A t \in Int : Covered(Pieces(iv, b), t) <=> Covers(iv, t) /\ ~ HoldsTick(b, t)
<1> DEFINE start == [kept |-> {}, rest |-> iv]
<1>0. b \in Seq(Intervals) /\ Len(b) \in Nat /\ DOMAIN b = 1 .. Len(b)
  BY DEF IntervalSets
<1>1. PICK g \in [0 .. Len(b) -> Cuttings] :
        /\ g[0] = start
        /\ \A k \in 1 .. Len(b) : g[k] = Cut(g[k - 1], b[k])
        /\ FoldLeft(Cut, start, b) = g[Len(b)]
  BY <1>0, CuttingIs
<1> DEFINE G == {k \in Nat : k <= Len(b) => CutUpTo(g[k], iv, b, k)}
<1>2. 0 \in G
  BY <1>0, <1>1 DEF CutUpTo, Holds, Covered
<1>3. ASSUME NEW k \in G PROVE k + 1 \in G
  <2> SUFFICES ASSUME k + 1 <= Len(b) PROVE CutUpTo(g[k + 1], iv, b, k + 1)
    OBVIOUS
  <2>1. k + 1 \in 1 .. Len(b) /\ (k + 1) - 1 = k /\ k \in 0 .. Len(b)
    BY <1>0
  <2>2. g[k] \in Cuttings /\ CutUpTo(g[k], iv, b, k)
    BY <1>1, <2>1
  <2>3. CutUpTo(Cut(g[k], b[k + 1]), iv, b, k + 1)
    BY <1>0, <2>1, <2>2, CutIsExact
  <2> QED
    BY <1>1, <2>1, <2>3
<1>4. G \in SUBSET Nat
  OBVIOUS
<1> HIDE DEF G
<1>5. G = Nat
  BY <1>2, <1>3, <1>4, EveryNumber
<1> DEFINE end == g[Len(b)]
<1>6. CutUpTo(end, iv, b, Len(b)) /\ end \in Cuttings
  BY <1>0, <1>1, <1>5 DEF G
<1>7. Pieces(iv, b) = end.kept \cup {end.rest}
  BY <1>1 DEF Pieces
<1> HIDE DEF end
<1>8. /\ end.kept \in SUBSET Intervals /\ IsFiniteSet(end.kept) /\ end.rest \in Intervals
  BY <1>6 DEF Cuttings
<1>9. IsFiniteSet(end.kept \cup {end.rest})
  BY <1>8, FS_AddElement
<1>10. ASSUME NEW t \in Int
       PROVE  Covered(Pieces(iv, b), t) <=> Covers(iv, t) /\ ~ HoldsTick(b, t)
  <2>1. Covered(Pieces(iv, b), t) <=> Holds(end, t)
    BY <1>7 DEF Holds, Covered
  <2>2. \A l \in DOMAIN b : l <= Len(b)
    BY <1>0
  <2>3. (\A l \in DOMAIN b : l <= Len(b) => ~ Covers(b[l], t)) <=> ~ HoldsTick(b, t)
    BY <2>2 DEF HoldsTick, Covers
  <2> QED
    BY <1>6, <2>1, <2>3 DEF CutUpTo
<1> QED
  BY <1>7, <1>8, <1>9, <1>10

(* The difference of two sets is a set that holds the ticks only the first holds. *)
LEMMA DifferenceIsExact ==
  ASSUME NEW a \in IntervalSets, NEW b \in IntervalSets
  PROVE  /\ Difference(a, b) \in IntervalSets
         /\ \A t \in Int :
              HoldsTick(Difference(a, b), t) <=> HoldsTick(a, t) /\ ~ HoldsTick(b, t)
<1> DEFINE P == {Pieces(a[k], b) : k \in DOMAIN a}
<1>0. /\ \A k \in DOMAIN a : a[k] \in Intervals
      /\ Len(a) \in Nat /\ DOMAIN a = 1 .. Len(a)
  BY DEF IntervalSets
<1>1. \A k \in DOMAIN a :
        /\ Pieces(a[k], b) \in SUBSET Intervals /\ IsFiniteSet(Pieces(a[k], b))
        /\ \A t \in Int : Covered(Pieces(a[k], b), t) <=> Covers(a[k], t) /\ ~ HoldsTick(b, t)
  BY <1>0, PiecesAreExact
<1>2. IsFiniteSet(UNION P)
  <2> DEFINE f == [k \in DOMAIN a |-> Pieces(a[k], b)]
  <2>1. P = {f[k] : k \in DOMAIN a}
    OBVIOUS
  <2>2. IsFiniteSet(DOMAIN a)
    BY <1>0, FS_Interval
  <2> HIDE DEF f
  <2>3. IsFiniteSet({f[k] : k \in DOMAIN a})
    BY <2>2, ImageIsFinite
  <2>4. \A T \in P : IsFiniteSet(T)
    BY <1>1
  <2> QED
    BY <2>1, <2>3, <2>4, FS_UNION
<1>3. UNION P \in SUBSET Intervals
  BY <1>1
<1>4. ASSUME NEW t \in Int
      PROVE  Covered(UNION P, t) <=> HoldsTick(a, t) /\ ~ HoldsTick(b, t)
  <2>1. Covered(UNION P, t) <=> \E k \in DOMAIN a : Covered(Pieces(a[k], b), t)
    BY DEF Covered
  <2>2. (\E k \in DOMAIN a : Covered(Pieces(a[k], b), t))
          <=> \E k \in DOMAIN a : Covers(a[k], t) /\ ~ HoldsTick(b, t)
    BY <1>1
  <2> QED
    BY <2>1, <2>2 DEF HoldsTick, Covers
<1>5. Difference(a, b) = Normalized(UNION P)
  BY DEF Difference
<1> HIDE DEF P
<1> QED
  BY <1>2, <1>3, <1>4, <1>5, NormalizedIsExact

(* A set of ticks is empty just when it holds no tick. *)
LEMMA EmptyHoldsNothing ==
  ASSUME NEW s \in IntervalSets
  PROVE  s = << >> <=> \A t \in Int : ~ HoldsTick(s, t)
<1>0. s \in Seq(Intervals) /\ \A k \in DOMAIN s : s[k].lo \in Int /\ s[k].lo < s[k].hi
  BY FieldsOf DEF IntervalSets
<1>1. s = << >> => \A t \in Int : ~ HoldsTick(s, t)
  BY DEF HoldsTick
<1>2. s # << >> => 1 \in DOMAIN s
  BY <1>0
<1>3. s # << >> => HoldsTick(s, s[1].lo)
  BY <1>0, <1>2 DEF HoldsTick
<1> QED
  BY <1>0, <1>1, <1>2, <1>3

(* Two intervals of a set have a tick between them that the set does not hold. *)
LEMMA GapBetween ==
  ASSUME NEW s \in IntervalSets
  PROVE  /\ \A j, k \in DOMAIN s :
              j < k => ~ HoldsTick(s, s[j].hi) /\ s[j].hi \in s[j].lo .. s[k].lo
         /\ \A k \in DOMAIN s : HoldsTick(s, s[k].lo)
<1>0. /\ s \in Seq(Intervals) /\ DOMAIN s \in SUBSET Nat
      /\ \A k \in DOMAIN s : s[k].lo \in Int /\ s[k].hi \in Int /\ s[k].lo < s[k].hi
      /\ \A j, k \in DOMAIN s : j < k => s[j].hi < s[k].lo
  <2>1. s \in Seq(Intervals)
    BY DEF IntervalSets
  <2>2. DOMAIN s \in SUBSET Nat
    BY <2>1
  <2> QED
    BY <2>1, <2>2, FieldsOf DEF IntervalSets
<1>1. ASSUME NEW j \in DOMAIN s, NEW k \in DOMAIN s, j < k
      PROVE  ~ HoldsTick(s, s[j].hi) /\ s[j].hi \in s[j].lo .. s[k].lo
  <2>1. SUFFICES ASSUME NEW m \in DOMAIN s, s[m].lo <= s[j].hi, s[j].hi < s[m].hi
                 PROVE  FALSE
    BY <1>0, <1>1 DEF HoldsTick
  <2>2. CASE m <= j
    BY <1>0, <2>1, <2>2
  <2>3. CASE j < m
    BY <1>0, <2>1, <2>3
  <2> QED
    BY <1>0, <2>2, <2>3
<1>2. \A k \in DOMAIN s : HoldsTick(s, s[k].lo)
  BY <1>0 DEF HoldsTick
<1> QED
  BY <1>1, <1>2

--------------------------------------------------------------------------------
(* The time that stays possible *)

(* Windows intersected one after the other, in whatever order they are picked. *)
LEMMA InsideIsExact ==
  ASSUME NEW S, IsFiniteSet(S), \A p \in S : Window(p) \in Intervals, NEW set \in IntervalSets
  PROVE  /\ Inside(set, S) \in IntervalSets
         /\ \A t \in Int :
              HoldsTick(Inside(set, S), t)
                <=> HoldsTick(set, t) /\ \A p \in S : Covers(Window(p), t)
<1> DEFINE Pick(T) == CHOOSE x \in T : TRUE
           iter == CHOOSE iter : iter = [T \in SUBSET S |->
                     IF T = {} THEN set
                     ELSE Intersection(iter[T \ {Pick(T)}], <<Window(Pick(T))>>)]
<1>1. Inside(set, S) = iter[S]
  BY DEF Inside, FoldSet, MapThenFoldSet
<1> HIDE DEF iter
<1>2. ASSUME NEW p \in S, NEW h \in IntervalSets
      PROVE  /\ Intersection(h, <<Window(p)>>) \in IntervalSets
             /\ \A t \in Int : HoldsTick(Intersection(h, <<Window(p)>>), t)
                                 <=> HoldsTick(h, t) /\ Covers(Window(p), t)
  <2>1. <<Window(p)>> \in Seq(Intervals) /\ InOrder(<<Window(p)>>)
    BY DEF InOrder
  <2>2. h \in Seq(Intervals) /\ InOrder(h)
    <3>1. /\ h \in Seq(Intervals)
          /\ \A k \in DOMAIN h : h[k].lo \in Int /\ h[k].hi \in Int /\ h[k].lo < h[k].hi
          /\ \A j, k \in DOMAIN h : j < k => h[j].hi < h[k].lo
      BY FieldsOf DEF IntervalSets
    <3> QED
      BY <3>1 DEF InOrder
  <2>3. \A t : HoldsTick(<<Window(p)>>, t) <=> Covers(Window(p), t)
    BY DEF HoldsTick, Covers
  <2> QED
    BY <2>1, <2>2, <2>3, IntersectionIsExact
<1>3. \A T \in SUBSET S : T # {} => Pick(T) \in T
  OBVIOUS
<1> HIDE DEF Pick
<1>4. iter = [T \in SUBSET S |->
                IF T = {} THEN set
                ELSE Intersection(iter[T \ {Pick(T)}], <<Window(Pick(T))>>)]
  <2> DEFINE pick == [T \in SUBSET S |-> Pick(T)]
             step == [x \in S \X IntervalSets |-> Intersection(x[2], <<Window(x[1])>>)]
  <2>1. \A T \in SUBSET S : pick[T] = Pick(T)
    OBVIOUS
  <2>2. \A p \in S, h \in IntervalSets : step[<<p, h>>] = Intersection(h, <<Window(p)>>)
    OBVIOUS
  <2> HIDE DEF pick, step
  <2>3. MayFold(S, IntervalSets, set, pick, step)
    BY <1>2, <1>3, <2>1, <2>2 DEF MayFold
  <2>4. PICK f : Fold(f, S, IntervalSets, set, pick, step)
    BY <2>3, FoldExists
  <2>5. ASSUME NEW T \in SUBSET S, T # {}
        PROVE  f[T] = Intersection(f[T \ {Pick(T)}], <<Window(Pick(T))>>)
    <3>1. Pick(T) \in S /\ f[T \ {Pick(T)}] \in IntervalSets
      BY <1>3, <2>4, <2>5 DEF Fold
    <3> QED
      BY <2>1, <2>2, <2>4, <2>5, <3>1 DEF Fold
  <2>6. f = [T \in SUBSET S |->
               IF T = {} THEN set
               ELSE Intersection(f[T \ {Pick(T)}], <<Window(Pick(T))>>)]
    BY <2>4, <2>5 DEF Fold
  <2> QED
    BY <2>6 DEF iter
<1> DEFINE Good(T) ==
             /\ iter[T] \in IntervalSets
             /\ \A t \in Int : HoldsTick(iter[T], t)
                                 <=> HoldsTick(set, t) /\ \A p \in T : Covers(Window(p), t)
           G == {T \in SUBSET S : Good(T)}
<1>5. {} \in G
  <2>1. iter[{}] = set
    BY <1>4
  <2> QED
    BY <2>1
<1>6. ASSUME NEW T \in SUBSET S, T # {}, T \ {Pick(T)} \in G PROVE T \in G
  <2> DEFINE p == Pick(T)
             U == T \ {p}
  <2>1. p \in T /\ p \in S /\ U \in SUBSET S
    BY <1>3, <1>6
  <2>2. /\ iter[U] \in IntervalSets
        /\ \A t \in Int : HoldsTick(iter[U], t)
                            <=> HoldsTick(set, t) /\ \A q \in U : Covers(Window(q), t)
    BY <1>6
  <2>3. iter[T] = Intersection(iter[U], <<Window(p)>>)
    BY <1>4, <1>6
  <2>4. \A q : q \in T <=> q \in U \/ q = p
    BY <2>1
  <2> HIDE DEF p, U
  <2>5. /\ iter[T] \in IntervalSets
        /\ \A t \in Int : HoldsTick(iter[T], t) <=> HoldsTick(iter[U], t) /\ Covers(Window(p), t)
    BY <1>2, <2>1, <2>2, <2>3
  <2> QED
    BY <2>2, <2>4, <2>5
<1>7. G \in SUBSET SUBSET S
  OBVIOUS
<1> HIDE DEF G
<1>8. \A T \in SUBSET S : T # {} /\ (\A x \in T : T \ {x} \in G) => T \in G
  BY <1>3, <1>6
<1>9. G = SUBSET S
  BY <1>5, <1>7, <1>8, EverySubset
<1>10. S \in G
  BY <1>9
<1> QED
  BY <1>1, <1>10 DEF G

(* The same for excluded windows taken away. *)
LEMMA OutsideIsExact ==
  ASSUME NEW S, IsFiniteSet(S), NEW set \in IntervalSets,
         \A p \in S : Around(p) \in Intervals /\ Around(p).lo < Around(p).hi
  PROVE  /\ Outside(set, S) \in IntervalSets
         /\ \A t \in Int :
              HoldsTick(Outside(set, S), t)
                <=> HoldsTick(set, t) /\ \A p \in S : ~ Covers(Around(p), t)
<1> DEFINE Pick(T) == CHOOSE x \in T : TRUE
           iter == CHOOSE iter : iter = [T \in SUBSET S |->
                     IF T = {} THEN set
                     ELSE Difference(iter[T \ {Pick(T)}], <<Around(Pick(T))>>)]
<1>1. Outside(set, S) = iter[S]
  BY DEF Outside, FoldSet, MapThenFoldSet
<1> HIDE DEF iter
<1>2. ASSUME NEW p \in S, NEW h \in IntervalSets
      PROVE  /\ Difference(h, <<Around(p)>>) \in IntervalSets
             /\ \A t \in Int : HoldsTick(Difference(h, <<Around(p)>>), t)
                                 <=> HoldsTick(h, t) /\ ~ Covers(Around(p), t)
  <2>1. <<Around(p)>> \in IntervalSets
    BY DEF IntervalSets
  <2>2. \A t : HoldsTick(<<Around(p)>>, t) <=> Covers(Around(p), t)
    BY DEF HoldsTick, Covers
  <2> QED
    BY <2>1, <2>2, DifferenceIsExact
<1>3. \A T \in SUBSET S : T # {} => Pick(T) \in T
  OBVIOUS
<1> HIDE DEF Pick
<1>4. iter = [T \in SUBSET S |->
                IF T = {} THEN set
                ELSE Difference(iter[T \ {Pick(T)}], <<Around(Pick(T))>>)]
  <2> DEFINE pick == [T \in SUBSET S |-> Pick(T)]
             step == [x \in S \X IntervalSets |-> Difference(x[2], <<Around(x[1])>>)]
  <2>1. \A T \in SUBSET S : pick[T] = Pick(T)
    OBVIOUS
  <2>2. \A p \in S, h \in IntervalSets : step[<<p, h>>] = Difference(h, <<Around(p)>>)
    OBVIOUS
  <2> HIDE DEF pick, step
  <2>3. MayFold(S, IntervalSets, set, pick, step)
    BY <1>2, <1>3, <2>1, <2>2 DEF MayFold
  <2>4. PICK f : Fold(f, S, IntervalSets, set, pick, step)
    BY <2>3, FoldExists
  <2>5. ASSUME NEW T \in SUBSET S, T # {}
        PROVE  f[T] = Difference(f[T \ {Pick(T)}], <<Around(Pick(T))>>)
    <3>1. Pick(T) \in S /\ f[T \ {Pick(T)}] \in IntervalSets
      BY <1>3, <2>4, <2>5 DEF Fold
    <3> QED
      BY <2>1, <2>2, <2>4, <2>5, <3>1 DEF Fold
  <2>6. f = [T \in SUBSET S |->
               IF T = {} THEN set
               ELSE Difference(f[T \ {Pick(T)}], <<Around(Pick(T))>>)]
    BY <2>4, <2>5 DEF Fold
  <2> QED
    BY <2>6 DEF iter
<1> DEFINE Good(T) ==
             /\ iter[T] \in IntervalSets
             /\ \A t \in Int : HoldsTick(iter[T], t)
                                 <=> HoldsTick(set, t) /\ \A p \in T : ~ Covers(Around(p), t)
           G == {T \in SUBSET S : Good(T)}
<1>5. {} \in G
  <2>1. iter[{}] = set
    BY <1>4
  <2> QED
    BY <2>1
<1>6. ASSUME NEW T \in SUBSET S, T # {}, T \ {Pick(T)} \in G PROVE T \in G
  <2> DEFINE p == Pick(T)
             U == T \ {p}
  <2>1. p \in T /\ p \in S /\ U \in SUBSET S
    BY <1>3, <1>6
  <2>2. /\ iter[U] \in IntervalSets
        /\ \A t \in Int : HoldsTick(iter[U], t)
                            <=> HoldsTick(set, t) /\ \A q \in U : ~ Covers(Around(q), t)
    BY <1>6
  <2>3. iter[T] = Difference(iter[U], <<Around(p)>>)
    BY <1>4, <1>6
  <2>4. \A q : q \in T <=> q \in U \/ q = p
    BY <2>1
  <2> HIDE DEF p, U
  <2>5. /\ iter[T] \in IntervalSets
        /\ \A t \in Int :
             HoldsTick(iter[T], t) <=> HoldsTick(iter[U], t) /\ ~ Covers(Around(p), t)
    BY <1>2, <2>1, <2>2, <2>3
  <2> QED
    BY <2>2, <2>4, <2>5
<1>7. G \in SUBSET SUBSET S
  OBVIOUS
<1> HIDE DEF G
<1>8. \A T \in SUBSET S : T # {} /\ (\A x \in T : T \ {x} \in G) => T \in G
  BY <1>3, <1>6
<1>9. G = SUBSET S
  BY <1>5, <1>7, <1>8, EverySubset
<1>10. S \in G
  BY <1>9
<1> QED
  BY <1>1, <1>10 DEF G

(* The whole domain is a set that holds the ticks of the solvers. *)
LEMMA FullDomainHolds ==
  /\ FullDomain \in IntervalSets
  /\ \A t \in Int : HoldsTick(FullDomain, t) <=> t \in Ticks
<1>1. TimeMin \in Int /\ TimeMax \in Int /\ TimeMin < TimeMax
  BY CaseAssumption
<1> DEFINE iv == Iv(TimeMin, TimeMax)
<1>2. iv \in Intervals /\ iv.lo = TimeMin /\ iv.hi = TimeMax
  BY <1>1, IntervalIs
<1>3. FullDomain = <<iv>>
  BY DEF FullDomain
<1> HIDE DEF iv
<1>4. FullDomain \in IntervalSets
  BY <1>1, <1>2, <1>3 DEF IntervalSets
<1>5. \A t \in Int : HoldsTick(FullDomain, t) <=> t \in Ticks
  BY <1>1, <1>2, <1>3 DEF HoldsTick, Ticks
<1> QED
  BY <1>4, <1>5

(* What the parser lets through is finite and typed. *)
LEMMA PropsTyped ==
  ASSUME NEW facts, Typed(facts)
  PROVE  IsFiniteSet(Props(facts)) /\ \A p \in Props(facts) : ParsedProp(p)
<1> DEFINE D == Discoverable(facts)
           f == [x \in D |-> x.props]
<1>1. IsFiniteSet(D) /\ \A x \in D : x \in facts
  BY FS_Subset DEF Typed, Discoverable
<1>2. Props(facts) = UNION {f[x] : x \in D}
  BY DEF Props
<1>3. \A x \in D : IsFiniteSet(f[x])
  BY <1>1 DEF Typed
<1>4. \A p \in Props(facts) : ParsedProp(p)
  BY <1>1, <1>2 DEF Typed
<1> HIDE DEF f, D
<1>5. IsFiniteSet({f[x] : x \in D})
  BY <1>1, ImageIsFinite
<1>6. IsFiniteSet(UNION {f[x] : x \in D})
  BY <1>3, <1>5, FS_UNION
<1> QED
  BY <1>2, <1>4, <1>6

(* A statement about the time covers the ticks it allows. *)
LEMMA WindowIsExact ==
  ASSUME NEW p, ParsedProp(p), Bounds(p)
  PROVE  /\ Window(p) \in Intervals
         /\ \A t \in Ticks : Covers(Window(p), t) <=> Allows(p, t)
<1>0. TimeMin \in Int /\ TimeMax \in Int /\ Ticks \in SUBSET Int
  BY CaseAssumption DEF Ticks
<1>t. \A t \in Ticks : t \in Int /\ TimeMin <= t /\ t < TimeMax
  BY <1>0 DEF Ticks
<1>1. CASE p.type = "lastSeen"
  <2>1. p.at \in Int /\ Window(p) = Iv(p.at, TimeMax)
    BY <1>1 DEF ParsedProp, Window
  <2>2. Window(p) \in Intervals /\ Window(p).lo = p.at /\ Window(p).hi = TimeMax
    BY <1>0, <2>1, IntervalIs
  <2>3. \A t : Allows(p, t) <=> t >= p.at
    BY <1>1 DEF Allows
  <2> QED
    BY <1>0, <1>t, <2>1, <2>2, <2>3 DEF Covers
<1>2. CASE p.type = "bodyFound"
  <2>1. p.at \in Int /\ Window(p) = Iv(TimeMin, p.at)
    BY <1>2 DEF ParsedProp, Window
  <2>2. Window(p) \in Intervals /\ Window(p).lo = TimeMin /\ Window(p).hi = p.at
    BY <1>0, <2>1, IntervalIs
  <2>3. \A t : Allows(p, t) <=> t < p.at
    BY <1>2 DEF Allows
  <2> QED
    BY <1>0, <1>t, <2>1, <2>2, <2>3 DEF Covers
<1>3. CASE p.type \in {"noise", "sceneObserved"}
  <2>1. p.at \in Int /\ p.spread \in Nat /\ Window(p) = Iv(p.at - p.spread, p.at + p.spread + 1)
    BY <1>3 DEF ParsedProp, Window, Around
  <2>2. /\ Window(p) \in Intervals
        /\ Window(p).lo = p.at - p.spread /\ Window(p).hi = p.at + p.spread + 1
    <3>1. p.at - p.spread \in Int /\ p.at + p.spread + 1 \in Int
      BY <2>1
    <3> QED
      BY <2>1, <3>1, IntervalIs
  <2>3. \A t : Allows(p, t) <=> p.at - p.spread <= t /\ t <= p.at + p.spread
    BY <1>3 DEF Allows
  <2> QED
    BY <1>0, <1>t, <2>1, <2>2, <2>3 DEF Covers
<1> QED
  BY <1>1, <1>2, <1>3 DEF Bounds

(* An excluded window covers the ticks that its statement does not allow. *)
LEMMA AroundIsExact ==
  ASSUME NEW p, ParsedProp(p), Excludes(p)
  PROVE  /\ Around(p) \in Intervals /\ Around(p).lo < Around(p).hi
         /\ \A t \in Ticks : ~ Covers(Around(p), t) <=> Allows(p, t)
<1>0. Ticks \in SUBSET Int
  BY CaseAssumption DEF Ticks
<1>1. p.at \in Int /\ p.spread \in Nat /\ p.type = "timeExcluded"
  BY DEF ParsedProp, Excludes
<1>2. p.at - p.spread \in Int /\ p.at + p.spread + 1 \in Int
  BY <1>1
<1>3. /\ Around(p) \in Intervals
      /\ Around(p).lo = p.at - p.spread /\ Around(p).hi = p.at + p.spread + 1
  BY <1>2, IntervalIs DEF Around
<1>4. \A t : Allows(p, t) <=> t < p.at - p.spread \/ t > p.at + p.spread
  BY <1>1 DEF Allows
<1> QED
  BY <1>0, <1>1, <1>3, <1>4 DEF Covers

(* What the solver leaves of the time is what every statement allows. *)
LEMMA FeasibleIsExact ==
  ASSUME NEW facts, Typed(facts)
  PROVE  /\ FeasibleTime(facts) \in IntervalSets
         /\ PossibleTicks(facts) \in SUBSET Int
         /\ \A t \in Int : HoldsTick(FeasibleTime(facts), t) <=> t \in PossibleTicks(facts)
<1> DEFINE P == Props(facts)
           B == {p \in P : Bounds(p)}
           X == {p \in P : Excludes(p)}
           inside == Inside(FullDomain, B)
<1>0. /\ IsFiniteSet(P) /\ IsFiniteSet(B) /\ IsFiniteSet(X)
      /\ \A p \in P : ParsedProp(p)
      /\ Ticks \in SUBSET Int
  BY PropsTyped, CaseAssumption, FS_Subset DEF Ticks
<1>1. FeasibleTime(facts) = Outside(inside, X)
  BY DEF FeasibleTime
<1> HIDE DEF P
<1>2. /\ \A p \in B : Window(p) \in Intervals
      /\ \A p \in X : Around(p) \in Intervals /\ Around(p).lo < Around(p).hi
      /\ \A p \in B, t \in Ticks : Covers(Window(p), t) <=> Allows(p, t)
      /\ \A p \in X, t \in Ticks : ~ Covers(Around(p), t) <=> Allows(p, t)
  BY <1>0, WindowIsExact, AroundIsExact
<1> HIDE DEF B, X
<1>3. /\ inside \in IntervalSets
      /\ \A t \in Int : HoldsTick(inside, t) <=> t \in Ticks /\ \A p \in B : Covers(Window(p), t)
  BY <1>0, <1>2, FullDomainHolds, InsideIsExact
<1> HIDE DEF inside
<1>4. /\ FeasibleTime(facts) \in IntervalSets
      /\ \A t \in Int : HoldsTick(FeasibleTime(facts), t)
                          <=> HoldsTick(inside, t) /\ \A p \in X : ~ Covers(Around(p), t)
  BY <1>0, <1>1, <1>2, <1>3, OutsideIsExact
<1>5. PossibleTicks(facts) =
        {t \in Ticks : (\A p \in B : Allows(p, t)) /\ \A p \in X : Allows(p, t)}
  BY DEF PossibleTicks, P, B, X
<1>6. \A t \in Int : HoldsTick(FeasibleTime(facts), t) <=> t \in PossibleTicks(facts)
  BY <1>0, <1>2, <1>3, <1>4, <1>5
<1> QED
  BY <1>0, <1>4, <1>5, <1>6

(* A set of ticks has more than one interval just when it has a gap. *)
LEMMA OneRun ==
  ASSUME NEW s \in IntervalSets, NEW H \in SUBSET Int,
         \A t \in Int : HoldsTick(s, t) <=> t \in H
  PROVE  /\ Len(s) \in Nat
         /\ Len(s) > 1 <=> ~ Connected(H)
         /\ s = << >> <=> H = {}
<1>0. /\ s \in Seq(Intervals) /\ Len(s) \in Nat /\ DOMAIN s = 1 .. Len(s)
      /\ \A k \in DOMAIN s : s[k].lo \in Int /\ s[k].hi \in Int
  BY FieldsOf DEF IntervalSets
<1>1. ASSUME Len(s) > 1 PROVE ~ Connected(H)
  <2>1. 1 \in DOMAIN s /\ 2 \in DOMAIN s /\ 1 < 2
    BY <1>0, <1>1
  <2>2. /\ ~ HoldsTick(s, s[1].hi) /\ s[1].hi \in s[1].lo .. s[2].lo
        /\ HoldsTick(s, s[1].lo) /\ HoldsTick(s, s[2].lo)
    BY <2>1, GapBetween
  <2>3. s[1].lo \in H /\ s[2].lo \in H /\ s[1].hi \notin H
    BY <1>0, <2>1, <2>2
  <2> QED
    BY <2>2, <2>3 DEF Connected
<1>2. ASSUME Len(s) <= 1 PROVE Connected(H)
  <2> SUFFICES ASSUME NEW x \in H, NEW y \in H, NEW t \in x .. y PROVE t \in H
    BY DEF Connected
  <2>1. PICK j \in DOMAIN s : s[j].lo <= x /\ x < s[j].hi
    BY DEF HoldsTick
  <2>2. PICK k \in DOMAIN s : s[k].lo <= y /\ y < s[k].hi
    BY DEF HoldsTick
  <2>3. j = k
    BY <1>0, <1>2
  <2>4. x \in Int /\ y \in Int /\ s[j].lo \in Int /\ s[j].hi \in Int
    BY <1>0
  <2>5. t \in Int /\ x <= t /\ t <= y
    BY <2>4
  <2>6. s[j].lo <= x /\ y < s[j].hi
    BY <2>1, <2>2, <2>3
  <2>7. s[j].lo <= t /\ t < s[j].hi /\ t \in Int
    BY <2>4, <2>5, <2>6
  <2> QED
    BY <2>7 DEF HoldsTick
<1>3. s = << >> <=> H = {}
  BY EmptyHoldsNothing
<1> QED
  BY <1>0, <1>1, <1>2, <1>3

(* A person can be at the scene except while a sighting elsewhere rules it out. *)
LEMMA PresenceIsExact ==
  ASSUME NEW facts, Typed(facts), NEW roads, TravelRules(roads), NEW who
  PROVE  /\ Presence(roads, facts, who) \in IntervalSets
         /\ \A t \in Int : HoldsTick(Presence(roads, facts, who), t)
                             <=> t \in Ticks /\ ~ Away(roads, facts, who, t)
<1> DEFINE C == {p \in Props(facts) : Constrains(roads, p, who)}
           blocks == {Block(roads, p) : p \in C}
<1>0. IsFiniteSet(C) /\ \A p \in Props(facts) : ParsedProp(p)
  BY PropsTyped, FS_Subset
<1>1. ASSUME NEW p \in Props(facts), Sighting(p, who), p.place \in DOMAIN roads,
             roads[p.place] # NoRule
      PROVE  /\ Block(roads, p) \in Intervals
             /\ Block(roads, p).lo = p.at - p.spread
             /\ Block(roads, p).hi = p.at + p.spread + roads[p.place]
  <2>1. p.at \in Int /\ p.spread \in Nat
    BY <1>0, <1>1 DEF ParsedProp, Sighting
  <2>2. roads[p.place] \in Nat
    BY <1>1 DEF TravelRules
  <2>3. p.at - p.spread \in Int /\ p.at + p.spread + roads[p.place] \in Int
    BY <2>1, <2>2
  <2> QED
    BY <2>3, IntervalIs DEF Block
<1>2. blocks \in SUBSET Intervals
  BY <1>1 DEF Constrains
<1>3. IsFiniteSet(blocks)
  <2> DEFINE f == [p \in C |-> Block(roads, p)]
  <2>1. blocks = {f[p] : p \in C}
    OBVIOUS
  <2> HIDE DEF f, blocks, C
  <2> QED
    BY <1>0, <2>1, ImageIsFinite
<1>4. ASSUME NEW t \in Int PROVE Covered(blocks, t) <=> Away(roads, facts, who, t)
  <2>1. Covered(blocks, t) <=> \E p \in C : Covers(Block(roads, p), t)
    BY DEF Covered
  <2>2. ASSUME NEW p \in Props(facts)
        PROVE  Constrains(roads, p, who) /\ Covers(Block(roads, p), t)
                 <=> /\ Sighting(p, who) /\ p.place \in DOMAIN roads /\ roads[p.place] # NoRule
                     /\ p.at - p.spread <= t /\ t < p.at + p.spread + roads[p.place]
    <3>1. CASE Sighting(p, who) /\ p.place \in DOMAIN roads /\ roads[p.place] # NoRule
      <4>1. /\ Block(roads, p).lo = p.at - p.spread
            /\ Block(roads, p).hi = p.at + p.spread + roads[p.place]
            /\ Block(roads, p).lo \in Int /\ Block(roads, p).hi \in Int
        BY <1>1, <3>1, FieldsOf
      <4>2. Covers(Block(roads, p), t) => Block(roads, p).hi > Block(roads, p).lo
        BY <4>1 DEF Covers
      <4>3. Constrains(roads, p, who) <=> Block(roads, p).hi > Block(roads, p).lo
        BY <3>1 DEF Constrains
      <4>4. Covers(Block(roads, p), t)
              <=> p.at - p.spread <= t /\ t < p.at + p.spread + roads[p.place]
        BY <4>1 DEF Covers
      <4> QED
        BY <3>1, <4>2, <4>3, <4>4
    <3> QED
      BY <3>1 DEF Constrains
  <2>3. (\E p \in C : Covers(Block(roads, p), t))
          <=> \E p \in Props(facts) : Constrains(roads, p, who) /\ Covers(Block(roads, p), t)
    OBVIOUS
  <2> QED
    BY <2>1, <2>2, <2>3 DEF Away
<1>5. Presence(roads, facts, who) = Difference(FullDomain, Normalized(blocks))
  BY DEF Presence
<1> HIDE DEF blocks
<1>6. /\ Normalized(blocks) \in IntervalSets
      /\ \A t \in Int : HoldsTick(Normalized(blocks), t) <=> Covered(blocks, t)
  BY <1>2, <1>3, NormalizedIsExact
<1>7. /\ Difference(FullDomain, Normalized(blocks)) \in IntervalSets
      /\ \A t \in Int : HoldsTick(Difference(FullDomain, Normalized(blocks)), t)
           <=> HoldsTick(FullDomain, t) /\ ~ HoldsTick(Normalized(blocks), t)
  BY <1>6, FullDomainHolds, DifferenceIsExact
<1> QED
  BY <1>4, <1>5, <1>6, <1>7, FullDomainHolds

(* The intervals of a set are in order, with a gap after each. *)
LEMMA SetsAreInOrder ==
  ASSUME NEW s \in IntervalSets
  PROVE  s \in Seq(Intervals) /\ InOrder(s)
<1>1. /\ s \in Seq(Intervals)
      /\ \A k \in DOMAIN s : s[k].lo \in Int /\ s[k].hi \in Int /\ s[k].lo < s[k].hi
      /\ \A j, k \in DOMAIN s : j < k => s[j].hi < s[k].lo
  BY FieldsOf DEF IntervalSets
<1> QED
  BY <1>1 DEF InOrder

(* A person is excluded just when no tick that stays possible finds them at the scene. *)
LEMMA ExcludedIsExact ==
  ASSUME NEW facts, Typed(facts), NEW roads, TravelRules(roads), NEW who
  PROVE  Excluded(roads, facts, FeasibleTime(facts), who) <=> Cleared(roads, facts, who)
<1> DEFINE feasible == FeasibleTime(facts)
           presence == Presence(roads, facts, who)
           meet == Intersection(presence, feasible)
           possible == PossibleTicks(facts)
<1>1. /\ feasible \in IntervalSets /\ possible \in SUBSET Int
      /\ \A t \in Int : HoldsTick(feasible, t) <=> t \in possible
  BY FeasibleIsExact
<1>2. /\ presence \in IntervalSets
      /\ \A t \in Int : HoldsTick(presence, t) <=> t \in Ticks /\ ~ Away(roads, facts, who, t)
  BY PresenceIsExact
<1>3. possible \subseteq Ticks
  BY DEF PossibleTicks
<1> HIDE DEF feasible, presence, possible
<1>4. /\ meet \in IntervalSets
      /\ \A t \in Int : HoldsTick(meet, t) <=> HoldsTick(presence, t) /\ HoldsTick(feasible, t)
  BY <1>1, <1>2, SetsAreInOrder, IntersectionIsExact
<1> HIDE DEF meet
<1>5. feasible = << >> <=> possible = {}
  BY <1>1, OneRun
<1>6. meet = << >> <=> \A t \in Int : ~ HoldsTick(meet, t)
  BY <1>4, EmptyHoldsNothing
<1>7. meet = << >> <=> \A t \in possible : Away(roads, facts, who, t)
  BY <1>1, <1>2, <1>3, <1>4, <1>6
<1> QED
  BY <1>5, <1>7 DEF Excluded, Cleared, feasible, meet, presence, possible

(* What the solvers say of the time and of the persons is what the propositions say. *)
LEMMA SolveIsExact ==
  ASSUME NEW facts, Typed(facts), NEW roads, TravelRules(roads)
  PROVE  LET possible == PossibleTicks(facts)
             solved   == Solve(roads, facts)
             when     == solved.when
         IN  /\ \A t \in Ticks : HoldsTick(when.feasible, t) <=> t \in possible
             /\ \A k \in 1 .. Len(when.feasible) - 1 :
                  when.feasible[k].hi < when.feasible[k + 1].lo
             /\ when.overconstrained <=> possible = {}
             /\ when.ambiguous <=> ~ Connected(possible)
             /\ \A w \in FinalTargets :
                  w \in solved.who.excluded <=> Cleared(roads, facts, w)
<1> DEFINE possible == PossibleTicks(facts)
           feasible == FeasibleTime(facts)
           solved   == Solve(roads, facts)
<1>1. /\ feasible \in IntervalSets /\ possible \in SUBSET Int
      /\ \A t \in Int : HoldsTick(feasible, t) <=> t \in possible
  BY FeasibleIsExact
<1>2. /\ solved.when = When(facts)
      /\ When(facts).feasible = feasible
      /\ When(facts).overconstrained <=> feasible = << >>
      /\ When(facts).ambiguous <=> Len(feasible) > 1
  BY DEF Solve, When
<1>3. solved.who.excluded = {w \in Universe : Excluded(roads, facts, feasible, w)}
  BY DEF Solve, When, Who, Dimension
<1>4. ASSUME NEW w \in FinalTargets
      PROVE  w \in solved.who.excluded <=> Cleared(roads, facts, w)
  <2>1. w \in Universe
    BY DEF Universe
  <2> QED
    BY <1>3, <2>1, ExcludedIsExact
<1> HIDE DEF possible, feasible, solved
<1>5. Ticks \in SUBSET Int
  BY CaseAssumption DEF Ticks
<1>6. \A t \in Ticks : HoldsTick(feasible, t) <=> t \in possible
  BY <1>1, <1>5
<1>7. ASSUME NEW k \in 1 .. Len(feasible) - 1 PROVE feasible[k].hi < feasible[k + 1].lo
  <2>1. feasible \in Seq(Intervals)
    BY <1>1 DEF IntervalSets
  <2>2. k \in DOMAIN feasible /\ k + 1 \in DOMAIN feasible /\ k < k + 1
    BY <2>1
  <2> QED
    BY <1>1, <2>2 DEF IntervalSets
<1>8. (feasible = << >> <=> possible = {}) /\ (Len(feasible) > 1 <=> ~ Connected(possible))
  BY <1>1, OneRun
<1> QED
  BY <1>2, <1>4, <1>6, <1>7, <1>8 DEF possible, solved

--------------------------------------------------------------------------------
(* What the cited facts say *)

Kept(facts, used) == {f \in facts : f.id \in used}

(* When all that says one thing is cited, the cited facts say it as all do. *)
LEMMA KeptSays ==
  ASSUME NEW facts, NEW used, NEW said, CitedBy(facts, said) \subseteq used
  PROVE  /\ CitedBy(Kept(facts, used), said) = CitedBy(facts, said)
         /\ Props(Kept(facts, used)) \subseteq Props(facts)
         /\ \A p \in said : p \in Props(facts) => p \in Props(Kept(facts, used))
<1> DEFINE K == Kept(facts, used)
<1>1. Discoverable(K) \subseteq Discoverable(facts)
  BY DEF Kept, Discoverable
<1>2. ASSUME NEW f \in Discoverable(facts), f.props \cap said # {} PROVE f \in Discoverable(K)
  <2>1. f.id \in CitedBy(facts, said)
    BY <1>2 DEF CitedBy
  <2> QED
    BY <2>1 DEF Kept, Discoverable
<1> HIDE DEF K
<1>3. CitedBy(K, said) = CitedBy(facts, said)
  BY <1>1, <1>2 DEF CitedBy
<1>4. Props(K) \subseteq Props(facts)
  BY <1>1 DEF Props
<1>5. ASSUME NEW p \in said, p \in Props(facts) PROVE p \in Props(K)
  <2>1. PICK f \in Discoverable(facts) : p \in f.props
    BY <1>5 DEF Props
  <2>2. f \in Discoverable(K)
    BY <1>2, <2>1
  <2> QED
    BY <2>1, <2>2 DEF Props
<1> QED
  BY <1>3, <1>4, <1>5 DEF K

(* The time is found again from facts that hold all it cites. *)
LEMMA WhenKept ==
  ASSUME NEW facts, NEW used, When(facts).cites \subseteq used
  PROVE  When(Kept(facts, used)) = When(facts)
<1> DEFINE K == Kept(facts, used)
           Q == {p \in Props(facts) : SpeaksOfTime(p)}
<1>1. CitedBy(facts, Q) \subseteq used
  BY DEF When
<1>2. /\ CitedBy(K, Q) = CitedBy(facts, Q) /\ Props(K) \subseteq Props(facts)
      /\ \A p \in Q : p \in Props(K)
  BY <1>1, KeptSays
<1>3. {p \in Props(K) : SpeaksOfTime(p)} = Q
  BY <1>2
<1>4. {p \in Props(K) : Bounds(p)} = {p \in Props(facts) : Bounds(p)}
  BY <1>2 DEF SpeaksOfTime
<1>5. {p \in Props(K) : Excludes(p)} = {p \in Props(facts) : Excludes(p)}
  BY <1>2 DEF SpeaksOfTime
<1> HIDE DEF K
<1>6. FeasibleTime(K) = FeasibleTime(facts)
  BY <1>4, <1>5 DEF FeasibleTime
<1> QED
  BY <1>2, <1>3, <1>6 DEF When, K

(* So are the links of a person to the motive, *)
LEMMA LinkKept ==
  ASSUME NEW facts, NEW used, NEW w, Link(facts, w) \subseteq used
  PROVE  Link(Kept(facts, used), w) = Link(facts, w)
<1> DEFINE K == Kept(facts, used)
           Q == {p \in Props(facts) : p.type = "motiveLink" /\ p.person = w}
<1>1. /\ CitedBy(K, Q) = CitedBy(facts, Q) /\ Props(K) \subseteq Props(facts)
      /\ \A p \in Q : p \in Props(K)
  BY KeptSays DEF Link
<1>2. {p \in Props(K) : p.type = "motiveLink" /\ p.person = w} = Q
  BY <1>1
<1> HIDE DEF K
<1> QED
  BY <1>1, <1>2 DEF Link, K

(* the opportunity of a person, *)
LEMMA OpportunityKept ==
  ASSUME NEW facts, NEW used, NEW roads, NEW feasible, NEW w,
         Opportunity(roads, facts, feasible, w) \subseteq used
  PROVE  /\ Opportunity(roads, Kept(facts, used), feasible, w)
              = Opportunity(roads, facts, feasible, w)
         /\ Excluded(roads, Kept(facts, used), feasible, w)
              <=> Excluded(roads, facts, feasible, w)
<1> DEFINE K == Kept(facts, used)
           Q == {p \in Props(facts) : Constrains(roads, p, w)}
           A == {p \in Props(facts) : Sighting(p, w) /\ p.place = Scene}
<1>1. CASE feasible = << >>
  BY <1>1 DEF Opportunity, Excluded
<1>2. CASE feasible # << >>
  <2>1. CitedBy(facts, Q) \subseteq used
    BY <1>2 DEF Opportunity, Constraint
  <2>2. /\ CitedBy(K, Q) = CitedBy(facts, Q) /\ Props(K) \subseteq Props(facts)
        /\ \A p \in Q : p \in Props(K)
    BY <2>1, KeptSays
  <2>3. {p \in Props(K) : Constrains(roads, p, w)} = Q
    BY <2>2
  <2>4. ~ Excluded(roads, facts, feasible, w) => AtScene(K, w) = AtScene(facts, w)
    <3> SUFFICES ASSUME ~ Excluded(roads, facts, feasible, w)
                 PROVE  AtScene(K, w) = AtScene(facts, w)
      OBVIOUS
    <3>1. CitedBy(facts, A) \subseteq used
      BY <1>2 DEF Opportunity, AtScene
    <3>2. /\ CitedBy(K, A) = CitedBy(facts, A)
          /\ \A p \in A : p \in Props(K)
      BY <3>1, KeptSays
    <3>3. {p \in Props(K) : Sighting(p, w) /\ p.place = Scene} = A
      BY <2>2, <3>2
    <3> HIDE DEF K
    <3> QED
      BY <3>2, <3>3 DEF AtScene
  <2> HIDE DEF K
  <2>5. Constraint(roads, K, w) = Constraint(roads, facts, w)
    BY <2>2, <2>3 DEF Constraint
  <2>6. Presence(roads, K, w) = Presence(roads, facts, w)
    BY <2>3 DEF Presence
  <2>7. Excluded(roads, K, feasible, w) <=> Excluded(roads, facts, feasible, w)
    BY <2>6 DEF Excluded
  <2> QED
    BY <1>2, <2>4, <2>5, <2>7 DEF Opportunity, K
<1> QED
  BY <1>1, <1>2

(* the statements that speak of an alibi, *)
LEMMA AlibiKept ==
  ASSUME NEW facts, NEW used, NEW w, AlibiCites(facts, w) \subseteq used
  PROVE  AlibiCites(Kept(facts, used), w) = AlibiCites(facts, w)
<1> DEFINE K == Kept(facts, used)
           Claims(F)     == {p \in Props(F) : p.type = "alibi" /\ p.person = w}
           Departures(F) == {p.at : p \in {q \in Claims(F) : "at" \in DOMAIN q}}
           SeenBy(F)     == {p \in Props(F) : Sighting(p, w)
                              /\ (Departures(F) = {} \/ \E d \in Departures(F) : p.at >= d)}
           SeenThere(F)  == {p \in SeenBy(F) : p.place = Scene}
           Told(F)       == IF SeenThere(F) # {} THEN SeenThere(F) ELSE SeenBy(F)
<1>1. \A F : AlibiCites(F, w) =
               IF Claims(F) = {} THEN {} ELSE CitedBy(F, Claims(F)) \cup CitedBy(F, Told(F))
  BY DEF AlibiCites
<1>2. Props(K) \subseteq Props(facts)
  BY DEF Kept, Props, Discoverable
<1>3. CASE Claims(facts) = {}
  <2>1. Claims(K) = {}
    BY <1>2, <1>3
  <2> HIDE DEF Claims, Told, K
  <2> QED
    BY <1>1, <1>3, <2>1 DEF K
<1>4. CASE Claims(facts) # {}
  <2>1. CitedBy(facts, Claims(facts)) \subseteq used /\ CitedBy(facts, Told(facts)) \subseteq used
    <3> HIDE DEF Claims, Told
    <3> QED
      BY <1>1, <1>4
  <2>2. CitedBy(K, Claims(facts)) = CitedBy(facts, Claims(facts))
    BY <2>1, KeptSays
  <2>3. Claims(K) = Claims(facts)
    <3>1. \A p \in Claims(facts) : p \in Props(K)
      BY <2>1, KeptSays
    <3> HIDE DEF K
    <3> QED
      BY <1>2, <3>1
  <2>4. CitedBy(K, Told(facts)) = CitedBy(facts, Told(facts))
    BY <2>1, KeptSays
  <2>5. Told(facts) \subseteq Props(facts)
    OBVIOUS
  <2>6. \A p \in Told(facts) : p \in Props(K)
    <3> HIDE DEF Told
    <3> QED
      BY <2>1, <2>5, KeptSays
  <2>7. Departures(K) = Departures(facts)
    <3> HIDE DEF Claims, K
    <3> QED
      BY <2>3
  <2> HIDE DEF Claims, Departures, K
  <2>8. SeenBy(K) \subseteq SeenBy(facts)
    BY <1>2, <2>7
  <2>9. \A p \in SeenBy(facts) : p \in Props(K) => p \in SeenBy(K)
    BY <2>7
  <2>10. Told(K) = Told(facts)
    <3> HIDE DEF SeenBy
    <3>1. CASE SeenThere(facts) # {}
      <4>1. SeenThere(K) = SeenThere(facts)
        BY <2>6, <2>8, <2>9, <3>1
      <4> QED
        BY <3>1, <4>1
    <3>2. CASE SeenThere(facts) = {}
      <4>1. SeenThere(K) = {}
        BY <2>8, <3>2
      <4>2. SeenBy(K) = SeenBy(facts)
        BY <2>6, <2>8, <2>9, <3>2
      <4> QED
        BY <3>2, <4>1, <4>2
    <3> QED
      BY <3>1, <3>2
  <2> HIDE DEF Told
  <2> QED
    BY <1>1, <1>4, <2>2, <2>3, <2>4, <2>10 DEF K
<1> QED
  BY <1>3, <1>4

(* the person, *)
LEMMA WhoKept ==
  ASSUME NEW facts, NEW used, NEW roads, NEW feasible,
         Who(roads, facts, feasible).cites \subseteq used
  PROVE  Who(roads, Kept(facts, used), feasible) = Who(roads, facts, feasible)
<1> DEFINE K == Kept(facts, used)
           Cited(F, w) == Opportunity(roads, F, feasible, w) \cup AlibiCites(F, w) \cup Link(F, w)
<1>1. Who(roads, facts, feasible).cites = UNION {Cited(facts, w) : w \in Universe}
  BY DEF Who, Dimension
<1>2. \A w \in Universe : Cited(facts, w) \subseteq used
  BY <1>1
<1>3. ASSUME NEW w \in Universe
      PROVE  /\ Opportunity(roads, K, feasible, w) = Opportunity(roads, facts, feasible, w)
             /\ Excluded(roads, K, feasible, w) <=> Excluded(roads, facts, feasible, w)
             /\ AlibiCites(K, w) = AlibiCites(facts, w)
             /\ Link(K, w) = Link(facts, w)
  <2>1. /\ Opportunity(roads, facts, feasible, w) \subseteq used
        /\ AlibiCites(facts, w) \subseteq used /\ Link(facts, w) \subseteq used
    BY <1>2
  <2> QED
    BY <2>1, OpportunityKept, AlibiKept, LinkKept
<1> HIDE DEF K
<1>4. {w \in Universe : Excluded(roads, K, feasible, w)}
        = {w \in Universe : Excluded(roads, facts, feasible, w)}
  BY <1>3
<1>5. {w \in Universe : Opportunity(roads, K, feasible, w) \cup Link(K, w) # {}}
        = {w \in Universe : Opportunity(roads, facts, feasible, w) \cup Link(facts, w) # {}}
  BY <1>3
<1>6. UNION {Cited(K, w) : w \in Universe} = UNION {Cited(facts, w) : w \in Universe}
  BY <1>3
<1> QED
  BY <1>4, <1>5, <1>6 DEF Who, K

(* what speaks for or against a motive, *)
LEMMA GroundKept ==
  ASSUME NEW facts, NEW used, NEW type, NEW m, Ground(facts, type, m) \subseteq used
  PROVE  Ground(Kept(facts, used), type, m) = Ground(facts, type, m)
<1> DEFINE K == Kept(facts, used)
           Q == {p \in Props(facts) : p.type = type /\ p.motive = m}
<1>1. /\ CitedBy(K, Q) = CitedBy(facts, Q) /\ Props(K) \subseteq Props(facts)
      /\ \A p \in Q : p \in Props(K)
  BY KeptSays DEF Ground
<1>2. {p \in Props(K) : p.type = type /\ p.motive = m} = Q
  BY <1>1
<1> HIDE DEF K
<1> QED
  BY <1>1, <1>2 DEF Ground, K

(* the motive, *)
LEMMA WhyKept ==
  ASSUME NEW facts, NEW used, Why(facts).cites \subseteq used
  PROVE  Why(Kept(facts, used)) = Why(facts)
<1> DEFINE K == Kept(facts, used)
           Contrary(F, m) == Ground(F, "motiveContradicted", m)
           For(F, m)      == Ground(F, "motiveLink", m)
<1>1. Why(facts).cites = UNION {Contrary(facts, m) \cup For(facts, m) : m \in Candidates}
  BY DEF Why, Dimension
<1>2. \A m \in Candidates : Contrary(facts, m) \subseteq used /\ For(facts, m) \subseteq used
  BY <1>1
<1>3. \A m \in Candidates : Contrary(K, m) = Contrary(facts, m) /\ For(K, m) = For(facts, m)
  BY <1>2, GroundKept
<1> HIDE DEF K
<1>4. {m \in Candidates : Contrary(K, m) # {}} = {m \in Candidates : Contrary(facts, m) # {}}
  BY <1>3
<1>5. {m \in Candidates : For(K, m) # {}} = {m \in Candidates : For(facts, m) # {}}
  BY <1>3
<1>6. UNION {Contrary(K, m) \cup For(K, m) : m \in Candidates}
        = UNION {Contrary(facts, m) \cup For(facts, m) : m \in Candidates}
  BY <1>3
<1> QED
  BY <1>4, <1>5, <1>6 DEF Why, K

(* and the object. *)
LEMMA WeaponKept ==
  ASSUME NEW facts, NEW used, Weapon(facts).cites \subseteq used
  PROVE  Weapon(Kept(facts, used)) = Weapon(facts)
<1> DEFINE K == Kept(facts, used)
           Cited(F, w) == Match(F, w, TRUE) \cup Match(F, w, FALSE) \cup Trace(F, w)
<1>1. Weapon(facts).cites = UNION {Cited(facts, w) : w \in Weapons}
  BY DEF Weapon, Dimension
<1>2. \A w \in Weapons : Cited(facts, w) \subseteq used
  BY <1>1
<1>3. ASSUME NEW w \in Weapons
      PROVE  /\ Match(K, w, TRUE) = Match(facts, w, TRUE)
             /\ Match(K, w, FALSE) = Match(facts, w, FALSE)
             /\ Trace(K, w) = Trace(facts, w)
  <2>1. /\ Match(facts, w, TRUE) \subseteq used /\ Match(facts, w, FALSE) \subseteq used
        /\ Trace(facts, w) \subseteq used
    BY <1>2
  <2> QED
    BY <2>1, KeptSays DEF Match, Trace
<1> HIDE DEF K
<1>4. {w \in Weapons : Refuted(K, w)} = {w \in Weapons : Refuted(facts, w)}
  BY <1>3 DEF Refuted
<1>5. {w \in Weapons : Borne(K, w)} = {w \in Weapons : Borne(facts, w)}
  BY <1>3 DEF Borne
<1>6. UNION {Cited(K, w) : w \in Weapons} = UNION {Cited(facts, w) : w \in Weapons}
  BY <1>3
<1> QED
  BY <1>4, <1>5, <1>6 DEF Weapon, K

(* Solving the cited facts alone gives the whole proof again. *)
LEMMA CitedSuffices ==
  ASSUME NEW facts, NEW roads
  PROVE  LET solved == Solve(roads, facts)
         IN  Solve(roads, Kept(facts, solved.used)) = solved
<1> DEFINE solved == Solve(roads, facts)
           used   == solved.used
           K      == Kept(facts, used)
           when   == When(facts)
           who    == Who(roads, facts, when.feasible)
<1>1. used = when.cites \cup who.cites \cup Why(facts).cites \cup Weapon(facts).cites
  BY DEF Solve
<1>2. /\ when.cites \subseteq used /\ who.cites \subseteq used
      /\ Why(facts).cites \subseteq used /\ Weapon(facts).cites \subseteq used
  BY <1>1
<1> HIDE DEF used, solved
<1>3. When(K) = when
  BY <1>2, WhenKept
<1>4. Who(roads, K, when.feasible) = who
  BY <1>2, WhoKept
<1>5. Why(K) = Why(facts) /\ Weapon(K) = Weapon(facts)
  BY <1>2, WhyKept, WeaponKept
<1> HIDE DEF K
<1>6. Solve(roads, K) = Solve(roads, facts)
  BY <1>3, <1>4, <1>5 DEF Solve
<1> QED
  BY <1>6 DEF K, used, solved

(* With ids that occur once, only discoverable facts are cited. *)
LEMMA CitedIsDiscoverable ==
  ASSUME NEW facts, DistinctIds(facts), NEW roads
  PROVE  \A f \in Kept(facts, Solve(roads, facts).used) : f.discoverable
<1> DEFINE Ids == {g.id : g \in Discoverable(facts)}
<1>1. \A said : CitedBy(facts, said) \subseteq Ids
  BY DEF CitedBy
<1>2. When(facts).cites \subseteq Ids
  BY <1>1 DEF When
<1>3. \A w, feasible : Opportunity(roads, facts, feasible, w) \subseteq Ids
  BY <1>1 DEF Opportunity, Constraint, AtScene
<1>4. \A w : AlibiCites(facts, w) \subseteq Ids
  BY <1>1 DEF AlibiCites
<1>5. \A w : Link(facts, w) \subseteq Ids
  BY <1>1 DEF Link
<1>6. \A feasible : Who(roads, facts, feasible).cites \subseteq Ids
  BY <1>3, <1>4, <1>5 DEF Who, Dimension
<1>7. Why(facts).cites \subseteq Ids
  BY <1>1 DEF Why, Dimension, Ground
<1>8. Weapon(facts).cites \subseteq Ids
  BY <1>1 DEF Weapon, Dimension, Match, Trace
<1>9. Solve(roads, facts).used \subseteq Ids
  BY <1>2, <1>6, <1>7, <1>8 DEF Solve
<1> QED
  BY <1>9 DEF Kept, DistinctIds, Discoverable

--------------------------------------------------------------------------------
(* The canonical evidence *)

(* The canonical travel rules have the same distant place, and are their own canonical rules. *)
LEMMA RoadsFixed ==
  ASSUME NEW truth, NEW roads, TravelRules(roads)
  PROVE  LET new == CanonicalRoads(truth, roads)
         IN  /\ TravelRules(new) /\ DOMAIN new = DOMAIN roads
             /\ Open(roads) # {} => DistantPlace(roads) \in DOMAIN roads
             /\ Open(roads) # {} <=> DOMAIN roads # {}
             /\ DistantPlace(new) = DistantPlace(roads)
             /\ Elsewhere(truth, new) = Elsewhere(truth, roads)
             /\ CanonicalRoads(truth, new) = new
             /\ Elsewhere(truth, roads) # {} =>
                  new[DistantPlace(roads)] \in Nat /\ new[DistantPlace(roads)] >= MinOpportunity
<1> DEFINE new == CanonicalRoads(truth, roads)
           d   == DistantPlace(roads)
           First(K) == CHOOSE k \in K : \A l \in K : k <= l
<1>0. /\ MinOpportunity \in Nat /\ DefaultDistant \in Nat /\ MinOpportunity <= DefaultDistant
      /\ DOMAIN PlaceOrder \in SUBSET Nat
  <2>1. MinOpportunity \in Nat /\ DefaultDistant \in Nat /\ MinOpportunity <= DefaultDistant
    BY TimelineAssumption
  <2>2. PlaceOrder \in Seq(Places)
    BY CaseAssumption
  <2> QED
    BY <2>1, <2>2
<1>1. \A any : /\ Far(any) \in SUBSET Open(any) /\ Open(any) \in SUBSET DOMAIN PlaceOrder
               /\ \A k \in Open(any) : PlaceOrder[k] \in DOMAIN any
  BY DEF Far, Open
<1>2. ASSUME NEW K \in SUBSET DOMAIN PlaceOrder, K # {}
      PROVE  First(K) \in K /\ \A l \in K : First(K) <= l
  <2>1. \E k \in K : \A l \in K : k <= l
    <3>1. K \in SUBSET Nat
      BY <1>0
    <3> QED
      BY <1>2, <3>1, LeastOf
  <2> QED
    BY <2>1
<1>f. \A K : FirstOf(K) = PlaceOrder[First(K)]
  BY DEF FirstOf
<1>3. \A any : DistantPlace(any) = IF Far(any) = {} THEN PlaceOrder[First(Open(any))]
                                                    ELSE PlaceOrder[First(Far(any))]
  <2> HIDE DEF First
  <2> QED
    BY <1>f DEF DistantPlace
<1> HIDE DEF First
<1>4. Open(roads) # {} => d \in DOMAIN roads
  <2> SUFFICES ASSUME Open(roads) # {} PROVE d \in DOMAIN roads
    OBVIOUS
  <2>1. First(Open(roads)) \in Open(roads)
    BY <1>1, <1>2
  <2>2. Far(roads) # {} => First(Far(roads)) \in Open(roads)
    BY <1>1, <1>2
  <2> QED
    BY <1>1, <1>3, <2>1, <2>2
<1>o. Open(roads) # {} <=> DOMAIN roads # {}
  <2>1. DOMAIN roads \in SUBSET Places
    BY DEF TravelRules
  <2>2. \A place \in DOMAIN roads : \E k \in DOMAIN PlaceOrder : PlaceOrder[k] = place
    BY <2>1 DEF Places
  <2> QED
    BY <1>1, <2>2 DEF Open
<1>5. CASE Elsewhere(truth, roads) # {} /\ roads[d] < MinOpportunity
  <2>1. new = [roads EXCEPT ![d] = DefaultDistant]
    BY <1>5 DEF CanonicalRoads
  <2>o. Open(roads) # {} /\ d \in DOMAIN roads
    BY <1>4, <1>5 DEF Elsewhere
  <2>2. /\ TravelRules(new) /\ DOMAIN new = DOMAIN roads
        /\ new[d] = DefaultDistant /\ \A p \in DOMAIN roads : p # d => new[p] = roads[p]
    BY <1>0, <2>1, <2>o DEF TravelRules
  <2>3. Far(roads) = {}
    <3> SUFFICES ASSUME Far(roads) # {} PROVE FALSE
      OBVIOUS
    <3>1. d = PlaceOrder[First(Far(roads))] /\ First(Far(roads)) \in Far(roads)
      BY <1>1, <1>2, <1>3
    <3>2. roads[d] >= MinOpportunity
      BY <3>1 DEF Far
    <3>3. roads[d] \in Int
      BY <2>o DEF NoRule, TravelRules
    <3> QED
      BY <1>0, <1>5, <3>2, <3>3
  <2> DEFINE k0 == First(Open(roads))
  <2>4. /\ d = PlaceOrder[k0] /\ k0 \in Open(roads) /\ \A l \in Open(roads) : k0 <= l
    BY <1>1, <1>2, <1>3, <2>3, <2>o
  <2> HIDE DEF new, d, k0
  <2>5. Open(new) = Open(roads)
    BY <2>2 DEF Open
  <2>6. k0 \in Far(new)
    BY <1>0, <2>2, <2>4, <2>5 DEF Far
  <2>7. First(Far(new)) = k0
    <3>1. First(Far(new)) \in Far(new) /\ First(Far(new)) <= k0
      BY <1>1, <1>2, <2>6
    <3>2. k0 <= First(Far(new))
      BY <1>1, <2>4, <2>5, <3>1
    <3>3. First(Far(new)) \in Nat /\ k0 \in Nat
      BY <1>0, <1>1, <2>4, <3>1
    <3> QED
      BY <3>1, <3>2, <3>3
  <2>8. DistantPlace(new) = d /\ Elsewhere(truth, new) = Elsewhere(truth, roads)
    BY <1>3, <2>4, <2>5, <2>6, <2>7 DEF Elsewhere
  <2>9. CanonicalRoads(truth, new) = new
    BY <1>0, <2>2, <2>8 DEF CanonicalRoads
  <2> QED
    BY <1>0, <1>o, <2>o, <2>2, <2>8, <2>9 DEF new, d
<1>6. CASE ~ (Elsewhere(truth, roads) # {} /\ roads[d] < MinOpportunity)
  <2>1. new = roads
    BY <1>6 DEF CanonicalRoads
  <2>2. ASSUME Elsewhere(truth, roads) # {}
        PROVE  roads[d] >= MinOpportunity /\ roads[d] \in Nat
    <3>1. d \in DOMAIN roads
      BY <1>4, <2>2 DEF Elsewhere
    <3>2. roads[d] \in Nat \cup {NoRule}
      BY <3>1 DEF TravelRules
    <3> QED
      BY <1>0, <1>6, <2>2, <3>2 DEF NoRule
  <2> HIDE DEF new
  <2>3. CanonicalRoads(truth, roads) = new
    BY DEF new
  <2> HIDE DEF d
  <2> QED
    BY <1>4, <1>o, <2>1, <2>2, <2>3 DEF d
<1> QED
  BY <1>5, <1>6

(* Asking again for the canonical evidence of what it has been installed in changes nothing. *)
LEMMA CanonicalFixed ==
  ASSUME NEW truth, NEW roads, TravelRules(roads)
  PROVE  LET new == CanonicalRoads(truth, roads)
         IN  /\ CanonicalFacts(truth, new) = CanonicalFacts(truth, roads)
             /\ CanonicalRoads(truth, new) = new
<1> DEFINE new == CanonicalRoads(truth, roads)
<1>1. /\ DistantPlace(new) = DistantPlace(roads) /\ CanonicalRoads(truth, new) = new
      /\ Elsewhere(truth, new) = Elsewhere(truth, roads)
  BY RoadsFixed
<1> HIDE DEF new
<1>2. OpportunityFacts(truth, new) = OpportunityFacts(truth, roads)
  BY <1>1 DEF OpportunityFacts, SeenAway
<1> QED
  BY <1>1, <1>2 DEF CanonicalFacts, new

(* Each canonical fact says one thing. *)
Says1(type, at)         == [type |-> type, at |-> at]
Says2(type, at, spread) == [type |-> type, at |-> at, spread |-> spread]

Observation(truth, roads, who) ==
  [type |-> "observed", person |-> who, place |-> DistantPlace(roads),
   at |-> truth.tick + Timeline.alternate, spread |-> Timeline.alternateSpread]

AtTheScene(truth) ==
  [type |-> "observed", person |-> truth.murderer, place |-> Scene,
   at |-> truth.tick + Timeline.presence, spread |-> Timeline.presenceSpread]

AlibiOf(truth) ==
  [type |-> "alibi", person |-> truth.murderer, at |-> truth.tick + Timeline.alibi]

MotiveOf(truth) ==
  [type |-> "motiveLink", motive |-> truth.motive,
   person |-> IF truth.resolution = "SUICIDE" THEN Victim ELSE truth.murderer]

Against(m) == [type |-> "motiveContradicted", motive |-> m]
Matching(o, found) == [type |-> "match", object |-> o, found |-> found]

CanonicalProps(truth, roads) ==
  {Says1("lastSeen", truth.tick + Timeline.lastSeen),
   Says1("bodyFound", truth.tick + Timeline.bodyFound),
   Says2("sceneObserved", truth.tick + Timeline.observed, Timeline.observedSpread)}
  \cup {Observation(truth, roads, who) : who \in Elsewhere(truth, roads)}
  \cup {MotiveOf(truth)} \cup {Against(m) : m \in Motives \ {truth.motive}}
  \cup {Matching(truth.weapon, TRUE)}
  \cup {Matching(o, FALSE) : o \in OtherObjects(truth) \cap Objects}
  \cup {[type |-> "claims", person |-> w] : w \in Speakers}
  \cup (IF truth.resolution = "SUICIDE" THEN {}
        ELSE {AtTheScene(truth), AlibiOf(truth), [type |-> "trace", object |-> truth.weapon]})

(* What the canonical evidence says, all of it discoverable. *)
LEMMA CanonicalSays ==
  ASSUME NEW truth, truth.weapon \in Objects, NEW roads
  PROVE  /\ Props(CanonicalFacts(truth, roads)) = CanonicalProps(truth, roads)
         /\ \A f \in CanonicalFacts(truth, roads) :
              f.discoverable /\ \E p \in CanonicalProps(truth, roads) : f.props = {p}
<1> DEFINE CF == CanonicalFacts(truth, roads)
           CP == CanonicalProps(truth, roads)
           All == TimeFacts(truth) \cup OpportunityFacts(truth, roads) \cup MotiveFacts(truth)
                    \cup MatchFacts(truth) \cup WitnessFacts
                    \cup (IF truth.resolution = "SUICIDE" THEN {} ELSE MurdererFacts(truth))
<1>0. \A id, props : /\ Fact(id, props).id = id /\ Fact(id, props).discoverable = TRUE
                     /\ Fact(id, props).props = props
  BY DEF Fact
<1>1. \A f : f \in CF <=> f \in All /\ Resolves(f)
  BY DEF CanonicalFacts
<1>r. \A id, p : Resolves(Fact(id, {p})) <=> (p.type = "match" => p.object \in Objects)
  BY <1>0 DEF Resolves
<1>2. ASSUME NEW f \in TimeFacts(truth)
      PROVE  f.discoverable /\ Resolves(f) /\ \E p \in CP : f.props = {p}
  <2>1. \/ f = Fact(<<"when", "lastSeen">>,
                   {Says1("lastSeen", truth.tick + Timeline.lastSeen)})
        \/ f = Fact(<<"when", "bodyFound">>,
                   {Says1("bodyFound", truth.tick + Timeline.bodyFound)})
        \/ f = Fact(<<"when", "sceneObserved">>,
                   {Says2("sceneObserved", truth.tick + Timeline.observed,
                          Timeline.observedSpread)})
    BY DEF TimeFacts, Says1, Says2
  <2>2. /\ Says1("lastSeen", truth.tick + Timeline.lastSeen) \in CP
        /\ Says1("bodyFound", truth.tick + Timeline.bodyFound) \in CP
        /\ Says2("sceneObserved", truth.tick + Timeline.observed, Timeline.observedSpread) \in CP
    BY DEF CanonicalProps
  <2>3. /\ \A at : /\ Says1("lastSeen", at).type = "lastSeen"
                   /\ Says1("bodyFound", at).type = "bodyFound"
        /\ \A at, spread : Says2("sceneObserved", at, spread).type = "sceneObserved"
    BY DEF Says1, Says2
  <2> HIDE DEF CP
  <2> QED
    BY <1>0, <1>r, <2>1, <2>2, <2>3
<1>3. ASSUME NEW f \in OpportunityFacts(truth, roads)
      PROVE  f.discoverable /\ Resolves(f) /\ \E p \in CP : f.props = {p}
  <2>1. PICK who \in Elsewhere(truth, roads) :
          f = Fact(<<"opp", Slug(who, "target")>>, {Observation(truth, roads, who)})
    BY DEF OpportunityFacts, SeenAway, Observation
  <2>2. Observation(truth, roads, who) \in CP /\ Observation(truth, roads, who).type = "observed"
    BY DEF CanonicalProps, Observation
  <2> QED
    BY <1>0, <1>r, <2>1, <2>2
<1>4. ASSUME NEW f \in MotiveFacts(truth)
      PROVE  f.discoverable /\ Resolves(f) /\ \E p \in CP : f.props = {p}
  <2>1. CASE f = Fact(<<"motive", "link">>, {MotiveOf(truth)})
    <3>1. MotiveOf(truth) \in CP /\ MotiveOf(truth).type = "motiveLink"
      BY DEF CanonicalProps, MotiveOf
    <3> QED
      BY <1>0, <1>r, <2>1, <3>1
  <2>2. CASE \E m \in Motives \ {truth.motive} :
               f = Fact(<<"contradicted", Slug(m, "motive")>>, {Against(m)})
    <3>1. PICK m \in Motives \ {truth.motive} :
            f = Fact(<<"contradicted", Slug(m, "motive")>>, {Against(m)})
      BY <2>2
    <3>2. Against(m) \in CP /\ Against(m).type = "motiveContradicted"
      BY DEF CanonicalProps, Against
    <3> QED
      BY <1>0, <1>r, <3>1, <3>2
  <2> QED
    BY <2>1, <2>2 DEF MotiveFacts, MotiveOf, Against
<1>5. ASSUME NEW f \in MatchFacts(truth)
      PROVE  f.discoverable /\ (Resolves(f) => \E p \in CP : f.props = {p})
  <2>0. \A o, found : Matching(o, found).type = "match" /\ Matching(o, found).object = o
    BY DEF Matching
  <2>1. CASE f = Fact(<<"weapon", "true">>, {Matching(truth.weapon, TRUE)})
    <3>1. Matching(truth.weapon, TRUE) \in CP
      BY DEF CanonicalProps
    <3> HIDE DEF CP
    <3>2. f.discoverable /\ f.props = {Matching(truth.weapon, TRUE)}
      BY <1>0, <2>1
    <3> QED
      BY <3>1, <3>2
  <2>2. CASE \E o \in OtherObjects(truth) :
               f = Fact(<<"false", Slug(o, "weapon")>>, {Matching(o, FALSE)})
    <3>1. PICK o \in OtherObjects(truth) :
            f = Fact(<<"false", Slug(o, "weapon")>>, {Matching(o, FALSE)})
      BY <2>2
    <3>2. o \in Objects => Matching(o, FALSE) \in CP
      BY <3>1 DEF CanonicalProps
    <3> HIDE DEF CP
    <3>3. f.discoverable /\ f.props = {Matching(o, FALSE)}
      BY <1>0, <3>1
    <3>4. Resolves(f) => o \in Objects
      <4>1. Resolves(Fact(<<"false", Slug(o, "weapon")>>, {Matching(o, FALSE)}))
              => Matching(o, FALSE).object \in Objects
        BY <1>r, <2>0
      <4> QED
        BY <2>0, <3>1, <4>1
    <3> QED
      BY <3>2, <3>3, <3>4
  <2> QED
    BY <2>1, <2>2 DEF MatchFacts, Matching
<1>6. ASSUME NEW f \in WitnessFacts
      PROVE  f.discoverable /\ Resolves(f) /\ \E p \in CP : f.props = {p}
  <2>1. PICK w \in Speakers :
          f = Fact(<<"claims", Slug(w, "witness")>>, {[type |-> "claims", person |-> w]})
    BY DEF WitnessFacts
  <2>2. [type |-> "claims", person |-> w] \in CP
    BY DEF CanonicalProps
  <2> QED
    BY <1>0, <1>r, <2>1, <2>2
<1>7. ASSUME truth.resolution # "SUICIDE", NEW f \in MurdererFacts(truth)
      PROVE  f.discoverable /\ Resolves(f) /\ \E p \in CP : f.props = {p}
  <2>1. /\ AtTheScene(truth) \in CP /\ AlibiOf(truth) \in CP
        /\ [type |-> "trace", object |-> truth.weapon] \in CP
        /\ AtTheScene(truth).type = "observed" /\ AlibiOf(truth).type = "alibi"
    BY <1>7 DEF CanonicalProps, AtTheScene, AlibiOf
  <2>2. \/ f = Fact(<<"murderer", "presence">>, {AtTheScene(truth)})
        \/ f = Fact(<<"murderer", "alibi">>, {AlibiOf(truth)})
        \/ f = Fact(<<"murderer", "print">>, {[type |-> "trace", object |-> truth.weapon]})
    BY DEF MurdererFacts, AtTheScene, AlibiOf
  <2> QED
    BY <1>0, <1>r, <2>1, <2>2
<1>8. ASSUME NEW f \in CF PROVE f.discoverable /\ \E p \in CP : f.props = {p}
  <2> HIDE DEF CF, CP
  <2> QED
    BY <1>4, <1>5, <1>6, <1>7, <1>1, <1>2, <1>3
<1>9. ASSUME NEW p \in CP PROVE \E f \in CF : f.props = {p}
  <2> USE <1>0, <1>1, <1>r
  <2>1. CASE p \in {Says1("lastSeen", truth.tick + Timeline.lastSeen),
                    Says1("bodyFound", truth.tick + Timeline.bodyFound),
                    Says2("sceneObserved", truth.tick + Timeline.observed,
                          Timeline.observedSpread)}
    <3>1. \E f \in TimeFacts(truth) : f.props = {p}
      BY <2>1 DEF TimeFacts, Says1, Says2
    <3> HIDE DEF CF, CP
    <3> QED
      BY <1>2, <3>1
  <2>2. CASE \E who \in Elsewhere(truth, roads) : p = Observation(truth, roads, who)
    <3>1. \E f \in OpportunityFacts(truth, roads) : f.props = {p}
      <4>1. PICK who \in Elsewhere(truth, roads) : p = Observation(truth, roads, who)
        BY <2>2
      <4>2. Fact(<<"opp", Slug(who, "target")>>, {p}) \in OpportunityFacts(truth, roads)
        BY <4>1 DEF OpportunityFacts, SeenAway, Observation
      <4> QED
        BY <4>2
    <3> HIDE DEF CF, CP
    <3> QED
      BY <1>3, <3>1
  <2>3. CASE p = MotiveOf(truth) \/ \E m \in Motives \ {truth.motive} : p = Against(m)
    <3>1. \E f \in MotiveFacts(truth) : f.props = {p}
      <4>1. CASE p = MotiveOf(truth)
        <5>1. Fact(<<"motive", "link">>, {p}) \in MotiveFacts(truth)
          BY <4>1 DEF MotiveFacts, MotiveOf
        <5> QED
          BY <5>1
      <4>2. CASE \E m \in Motives \ {truth.motive} : p = Against(m)
        <5>1. PICK m \in Motives \ {truth.motive} : p = Against(m)
          BY <4>2
        <5>2. Fact(<<"contradicted", Slug(m, "motive")>>, {p}) \in MotiveFacts(truth)
          BY <5>1 DEF MotiveFacts, Against
        <5> QED
          BY <5>2
      <4> QED
        BY <2>3, <4>1, <4>2
    <3> HIDE DEF CF, CP
    <3> QED
      BY <1>4, <3>1
  <2>4. CASE \/ p = Matching(truth.weapon, TRUE)
             \/ \E o \in OtherObjects(truth) \cap Objects : p = Matching(o, FALSE)
    <3>1. \E f \in MatchFacts(truth) : f.props = {p} /\ Resolves(f)
      <4>1. CASE p = Matching(truth.weapon, TRUE)
        <5>1. Fact(<<"weapon", "true">>, {p}) \in MatchFacts(truth)
          BY <4>1 DEF MatchFacts, Matching
        <5>2. p.object \in Objects
          BY <4>1 DEF Matching
        <5> QED
          BY <5>1, <5>2
      <4>2. CASE \E o \in OtherObjects(truth) \cap Objects : p = Matching(o, FALSE)
        <5>1. PICK o \in OtherObjects(truth) \cap Objects : p = Matching(o, FALSE)
          BY <4>2
        <5>2. Fact(<<"false", Slug(o, "weapon")>>, {p}) \in MatchFacts(truth)
          BY <5>1 DEF MatchFacts, Matching
        <5>3. p.object \in Objects
          BY <5>1 DEF Matching
        <5> QED
          BY <5>2, <5>3
      <4> QED
        BY <2>4, <4>1, <4>2
    <3> HIDE DEF CF, CP
    <3> QED
      BY <3>1
  <2>5. CASE \E w \in Speakers : p = [type |-> "claims", person |-> w]
    <3>1. \E f \in WitnessFacts : f.props = {p}
      <4>1. PICK w \in Speakers : p = [type |-> "claims", person |-> w]
        BY <2>5
      <4>2. Fact(<<"claims", Slug(w, "witness")>>, {p}) \in WitnessFacts
        BY <4>1 DEF WitnessFacts
      <4> QED
        BY <4>2
    <3> HIDE DEF CF, CP
    <3> QED
      BY <1>6, <3>1
  <2>6. CASE /\ truth.resolution # "SUICIDE"
             /\ p \in {AtTheScene(truth), AlibiOf(truth),
                       [type |-> "trace", object |-> truth.weapon]}
    <3>1. \E f \in MurdererFacts(truth) : f.props = {p}
      <4>1. /\ Fact(<<"murderer", "presence">>, {AtTheScene(truth)}) \in MurdererFacts(truth)
            /\ Fact(<<"murderer", "alibi">>, {AlibiOf(truth)}) \in MurdererFacts(truth)
            /\ Fact(<<"murderer", "print">>, {[type |-> "trace", object |-> truth.weapon]})
                 \in MurdererFacts(truth)
        BY DEF MurdererFacts, AtTheScene, AlibiOf
      <4> QED
        BY <2>6, <4>1
    <3> HIDE DEF CF, CP
    <3> QED
      BY <1>7, <2>6, <3>1
  <2> QED
    BY <2>4, <2>5, <2>6, <2>1, <2>2, <2>3 DEF CanonicalProps
<1> HIDE DEF CF, CP
<1>10. Discoverable(CF) = CF
  BY <1>8 DEF Discoverable
<1>11. Props(CF) = CP
  BY <1>8, <1>9, <1>10 DEF Props
<1> QED
  BY <1>8, <1>11 DEF CF, CP

(* Matches of different objects, and matches found and not found, are different. *)
LEMMA MatchesDiffer ==
  ASSUME NEW o, NEW v
  PROVE  /\ Matching(o, TRUE) # Matching(v, FALSE)
         /\ Matching(o, TRUE) = Matching(v, TRUE) => o = v
         /\ Matching(o, FALSE) = Matching(v, FALSE) => o = v
<1>1. Matching(o, TRUE) # Matching(v, FALSE)
  BY DEF Matching
<1>2. Matching(o, TRUE).object = o /\ Matching(v, TRUE).object = v
  BY DEF Matching
<1>3. Matching(o, FALSE).object = o /\ Matching(v, FALSE).object = v
  BY DEF Matching
<1> QED
  BY <1>1, <1>2, <1>3

(* The statements of the canonical evidence by their type. *)
OfItsType(truth, roads, p) ==
  /\ p.type = "lastSeen" => p = Says1("lastSeen", truth.tick + Timeline.lastSeen)
  /\ p.type = "bodyFound" => p = Says1("bodyFound", truth.tick + Timeline.bodyFound)
  /\ p.type = "sceneObserved" =>
       p = Says2("sceneObserved", truth.tick + Timeline.observed, Timeline.observedSpread)
  /\ p.type = "observed" =>
       \/ p = AtTheScene(truth)
       \/ \E who \in Elsewhere(truth, roads) : p = Observation(truth, roads, who)
  /\ p.type = "motiveContradicted" => \E m \in Motives \ {truth.motive} : p = Against(m)
  /\ p.type = "match" =>
       \/ p = Matching(truth.weapon, TRUE)
       \/ \E o \in OtherObjects(truth) \cap Objects : p = Matching(o, FALSE)
  /\ p.type = "trace" => p = [type |-> "trace", object |-> truth.weapon]
  /\ p.type \in {"lastSeen", "bodyFound", "sceneObserved", "observed", "motiveContradicted",
                 "match", "trace", "alibi", "motiveLink", "claims"}

LEMMA CanonicalByType ==
  ASSUME NEW truth, NEW roads, NEW p \in CanonicalProps(truth, roads)
  PROVE  OfItsType(truth, roads, p)
<1>1. /\ \A at : Says1("lastSeen", at).type = "lastSeen"
      /\ \A at : Says1("bodyFound", at).type = "bodyFound"
      /\ \A at, spread : Says2("sceneObserved", at, spread).type = "sceneObserved"
  BY DEF Says1, Says2
<1>2. /\ \A who : Observation(truth, roads, who).type = "observed"
      /\ AtTheScene(truth).type = "observed" /\ AlibiOf(truth).type = "alibi"
  BY DEF Observation, AtTheScene, AlibiOf
<1>3. /\ MotiveOf(truth).type = "motiveLink" /\ \A m : Against(m).type = "motiveContradicted"
      /\ \A o, found : Matching(o, found).type = "match"
  BY DEF MotiveOf, Against, Matching
<1>4. CASE \/ p = Says1("lastSeen", truth.tick + Timeline.lastSeen)
           \/ p = Says1("bodyFound", truth.tick + Timeline.bodyFound)
  BY <1>1, <1>4 DEF OfItsType
<1>5. CASE p = Says2("sceneObserved", truth.tick + Timeline.observed, Timeline.observedSpread)
  BY <1>1, <1>5 DEF OfItsType
<1>6. CASE \E who \in Elsewhere(truth, roads) : p = Observation(truth, roads, who)
  <2>1. p.type = "observed"
    BY <1>2, <1>6
  <2> QED
    BY <1>6, <2>1 DEF OfItsType
<1>7. CASE p = AtTheScene(truth) \/ p = AlibiOf(truth)
  BY <1>2, <1>7 DEF OfItsType
<1>8. CASE p = MotiveOf(truth)
  BY <1>3, <1>8 DEF OfItsType
<1>9. CASE \E m \in Motives \ {truth.motive} : p = Against(m)
  <2>1. p.type = "motiveContradicted"
    BY <1>3, <1>9
  <2> QED
    BY <1>9, <2>1 DEF OfItsType
<1>10. CASE \/ p = Matching(truth.weapon, TRUE)
            \/ \E o \in OtherObjects(truth) \cap Objects : p = Matching(o, FALSE)
  <2>1. p.type = "match"
    BY <1>3, <1>10
  <2> QED
    BY <1>10, <2>1 DEF OfItsType
<1>11. CASE \E w \in Speakers : p = [type |-> "claims", person |-> w]
  <2>1. p.type = "claims"
    BY <1>11
  <2> QED
    BY <2>1 DEF OfItsType
<1>12. CASE p = [type |-> "trace", object |-> truth.weapon]
  <2>1. p.type = "trace"
    BY <1>12
  <2> QED
    BY <1>12, <2>1 DEF OfItsType
<1>13. \/ p \in {Says1("lastSeen", truth.tick + Timeline.lastSeen),
                 Says1("bodyFound", truth.tick + Timeline.bodyFound),
                 Says2("sceneObserved", truth.tick + Timeline.observed, Timeline.observedSpread)}
       \/ p \in {Observation(truth, roads, who) : who \in Elsewhere(truth, roads)}
       \/ p \in {MotiveOf(truth)} \/ p \in {Against(m) : m \in Motives \ {truth.motive}}
       \/ p \in {Matching(truth.weapon, TRUE)}
       \/ p \in {Matching(o, FALSE) : o \in OtherObjects(truth) \cap Objects}
       \/ p \in {[type |-> "claims", person |-> w] : w \in Speakers}
       \/ p \in {AtTheScene(truth), AlibiOf(truth), [type |-> "trace", object |-> truth.weapon]}
  BY Zenon DEF CanonicalProps
<1> QED
  <2>1. CASE p \in {[type |-> "claims", person |-> w] : w \in Speakers}
    BY <1>11, <2>1
  <2>2. CASE p \in {Observation(truth, roads, who) : who \in Elsewhere(truth, roads)}
    BY <1>6, <2>2
  <2>3. CASE p \in {Against(m) : m \in Motives \ {truth.motive}}
    BY <1>9, <2>3
  <2>4. CASE p \in {Matching(o, FALSE) : o \in OtherObjects(truth) \cap Objects}
    BY <1>10, <2>4
  <2>5. CASE p \in {AtTheScene(truth), AlibiOf(truth), [type |-> "trace", object |-> truth.weapon]}
    BY <1>7, <1>12, <2>5
  <2>6. CASE \/ p \in {Says1("lastSeen", truth.tick + Timeline.lastSeen),
                       Says1("bodyFound", truth.tick + Timeline.bodyFound),
                       Says2("sceneObserved", truth.tick + Timeline.observed,
                             Timeline.observedSpread)}
             \/ p \in {MotiveOf(truth)} \/ p \in {Matching(truth.weapon, TRUE)}
    BY <1>4, <1>5, <1>8, <1>10, <2>6
  <2> QED
    BY <1>13, <2>4, <2>5, <2>6, <2>1, <2>2, <2>3

(* Three facts are finitely many. *)
LEMMA ThreeAreFinite ==
  ASSUME NEW x, NEW y, NEW z
  PROVE  IsFiniteSet({x, y, z})
<1>1. IsFiniteSet({x} \cup {y})
  BY FS_Singleton, FS_AddElement
<1>2. IsFiniteSet(({x} \cup {y}) \cup {z})
  BY <1>1, FS_AddElement
<1>3. ({x} \cup {y}) \cup {z} = {x, y, z}
  OBVIOUS
<1> QED
  BY <1>2, <1>3

(* The canonical evidence is finite. *)
LEMMA CanonicalIsFinite ==
  ASSUME NEW truth, NEW roads
  PROVE  IsFiniteSet(CanonicalFacts(truth, roads))
<1>0. /\ IsFiniteSet(FinalTargets) /\ IsFiniteSet(Motives)
      /\ IsFiniteSet(Weapons) /\ IsFiniteSet(Sharp)
  BY CaseAssumption
<1>1. IsFiniteSet(TimeFacts(truth))
  BY ThreeAreFinite DEF TimeFacts
<1>2. IsFiniteSet(OpportunityFacts(truth, roads))
  <2> DEFINE S == Elsewhere(truth, roads)
             f == [who \in S |-> SeenAway(truth, roads, who)]
  <2>1. OpportunityFacts(truth, roads) = {f[who] : who \in S}
    BY DEF OpportunityFacts
  <2>2. S \subseteq FinalTargets
    BY DEF Elsewhere, OtherTargets
  <2>3. IsFiniteSet(S)
    BY <1>0, <2>2, FS_Subset
  <2> HIDE DEF S, f
  <2> QED
    BY <2>1, <2>3, ImageIsFinite
<1>3. IsFiniteSet(MotiveFacts(truth))
  <2> DEFINE S == Motives \ {truth.motive}
             f == [m \in S |-> Fact(<<"contradicted", Slug(m, "motive")>>, {Against(m)})]
             link == Fact(<<"motive", "link">>, {MotiveOf(truth)})
  <2>1. MotiveFacts(truth) = {f[m] : m \in S} \cup {link}
    BY DEF MotiveFacts, MotiveOf, Against
  <2>2. IsFiniteSet(S)
    BY <1>0, FS_Subset
  <2> HIDE DEF S, f, link
  <2>3. IsFiniteSet({f[m] : m \in S})
    BY <2>2, ImageIsFinite
  <2> QED
    BY <2>1, <2>3, FS_AddElement
<1>4. IsFiniteSet(MatchFacts(truth))
  <2> DEFINE S == OtherObjects(truth)
             f == [o \in S |-> Fact(<<"false", Slug(o, "weapon")>>, {Matching(o, FALSE)})]
             true == Fact(<<"weapon", "true">>, {Matching(truth.weapon, TRUE)})
  <2>1. MatchFacts(truth) = {f[o] : o \in S} \cup {true}
    BY DEF MatchFacts, Matching
  <2>2. IsFiniteSet(Sharp \cup Weapons) /\ S \subseteq Sharp \cup Weapons
    BY <1>0, FS_Union DEF OtherObjects
  <2>3. IsFiniteSet(S)
    BY <2>2, FS_Subset
  <2> HIDE DEF S, f, true
  <2>4. IsFiniteSet({f[o] : o \in S})
    BY <2>3, ImageIsFinite
  <2> QED
    BY <2>1, <2>4, FS_AddElement
<1>5. IsFiniteSet(WitnessFacts)
  <2> DEFINE f == [w \in Speakers |-> Fact(<<"claims", Slug(w, "witness")>>,
                                          {[type |-> "claims", person |-> w]})]
  <2>1. WitnessFacts = {f[w] : w \in Speakers}
    BY DEF WitnessFacts
  <2>0. Speakers \subseteq FinalTargets
    BY DEF FinalTargets, Speakers
  <2>2. IsFiniteSet(Speakers)
    BY <1>0, <2>0, FS_Subset
  <2> HIDE DEF f
  <2> QED
    BY <2>1, <2>2, ImageIsFinite
<1>6. IsFiniteSet(IF truth.resolution = "SUICIDE" THEN {} ELSE MurdererFacts(truth))
  BY ThreeAreFinite, FS_EmptySet DEF MurdererFacts
<1> DEFINE Rest == IF truth.resolution = "SUICIDE" THEN {} ELSE MurdererFacts(truth)
           All == TimeFacts(truth) \cup OpportunityFacts(truth, roads) \cup MotiveFacts(truth)
                    \cup MatchFacts(truth) \cup WitnessFacts \cup Rest
<1>7. CanonicalFacts(truth, roads) \in SUBSET All
  BY DEF CanonicalFacts
<1> HIDE DEF Rest
<1>8. IsFiniteSet(All)
  BY <1>4, <1>5, <1>6, <1>1, <1>2, <1>3, FS_Union DEF Rest
<1> HIDE DEF All
<1> QED
  BY <1>7, <1>8, FS_Subset

(* A crime that parses, and roads. *)
Parses(truth) ==
  /\ truth.tick \in Ticks /\ truth.tolerance \in Nat
  /\ truth.motive \in Motives /\ truth.weapon \in Objects
  /\ truth.resolution = "HOMICIDE" => truth.murderer \in FinalTargets

(* The offsets are numbers. *)
LEMMA TimelineIs ==
  /\ Timeline.lastSeen \in Int /\ Timeline.bodyFound \in Int /\ Timeline.observed \in Int
  /\ Timeline.alternate \in Int /\ Timeline.presence \in Int
  /\ Timeline.observedSpread \in Nat /\ Timeline.alternateSpread \in Nat
  /\ Timeline.presenceSpread \in Nat /\ MinOpportunity \in Nat
BY TimelineAssumption

(* The canonical evidence of a crime that parses is typed. *)
LEMMA CanonicalTyped ==
  ASSUME NEW truth, Parses(truth), NEW roads, TravelRules(roads)
  PROVE  Typed(CanonicalFacts(truth, roads))
<1> DEFINE CF == CanonicalFacts(truth, roads)
<1>0. truth.tick \in Int
  BY CaseAssumption DEF Parses, Ticks
<1>1. ASSUME NEW p \in CanonicalProps(truth, roads) PROVE ParsedProp(p)
  <2>0. OfItsType(truth, roads, p)
    BY CanonicalByType
  <2>1. CASE p.type \in {"lastSeen", "bodyFound"}
    <3>1. \/ p = Says1("lastSeen", truth.tick + Timeline.lastSeen)
          \/ p = Says1("bodyFound", truth.tick + Timeline.bodyFound)
      BY <2>0, <2>1 DEF OfItsType
    <3>2. p.at = truth.tick + Timeline.lastSeen \/ p.at = truth.tick + Timeline.bodyFound
      BY <3>1 DEF Says1
    <3>3. p.at \in Int
      BY <1>0, <3>2, TimelineIs
    <3> QED
      BY <2>1, <3>3 DEF ParsedProp
  <2>2. CASE p.type = "sceneObserved"
    <3>1. p = Says2("sceneObserved", truth.tick + Timeline.observed, Timeline.observedSpread)
      BY <2>0, <2>2 DEF OfItsType
    <3>2. p.at = truth.tick + Timeline.observed /\ p.spread = Timeline.observedSpread
      BY <3>1 DEF Says2
    <3>3. p.at \in Int /\ p.spread \in Nat
      BY <1>0, <3>2, TimelineIs
    <3> QED
      BY <2>2, <3>3 DEF ParsedProp
  <2>3. CASE p.type = "observed"
    <3>1. \/ p = AtTheScene(truth)
          \/ \E who \in Elsewhere(truth, roads) : p = Observation(truth, roads, who)
      BY <2>0, <2>3 DEF OfItsType
    <3>2. \/ p.at = truth.tick + Timeline.presence /\ p.spread = Timeline.presenceSpread
          \/ p.at = truth.tick + Timeline.alternate /\ p.spread = Timeline.alternateSpread
      BY <3>1 DEF AtTheScene, Observation
    <3>3. p.at \in Int /\ p.spread \in Nat
      BY <1>0, <3>2, TimelineIs
    <3> QED
      BY <2>3, <3>3 DEF ParsedProp
  <2>4. CASE p.type = "motiveContradicted"
    <3>1. \E m : p = Against(m)
      BY <2>0, <2>4 DEF OfItsType
    <3>2. p = [type |-> "motiveContradicted", motive |-> p.motive]
      BY <3>1 DEF Against
    <3> QED
      BY <2>4, <3>2 DEF ParsedProp
  <2>5. CASE p.type \in {"match", "trace", "alibi", "motiveLink", "claims"}
    BY <2>5 DEF ParsedProp
  <2> QED
    BY <2>4, <2>5, <2>0, <2>1, <2>2, <2>3 DEF OfItsType
<1>2. \A f \in CF : \E p \in CanonicalProps(truth, roads) : f.props = {p}
  BY CanonicalSays DEF Parses
<1>4. IsFiniteSet(CF)
  BY CanonicalIsFinite
<1> HIDE DEF CF
<1>6. \A f \in CF : IsFiniteSet(f.props) /\ \A p \in f.props : ParsedProp(p)
  <2> SUFFICES ASSUME NEW f \in CF
               PROVE  IsFiniteSet(f.props) /\ \A p \in f.props : ParsedProp(p)
    OBVIOUS
  <2>1. PICK p \in CanonicalProps(truth, roads) : f.props = {p}
    BY <1>2
  <2>2. IsFiniteSet({p})
    BY FS_Singleton
  <2> QED
    BY <1>1, <2>1, <2>2
<1>7. Typed(CF)
  BY <1>4, <1>6 DEF Typed
<1> QED
  BY <1>7 DEF CF

(* One candidate is left, and something speaks for it. *)
LEMMA OneIsLeft ==
  ASSUME NEW universe, NEW out, NEW supported, NEW cites, NEW x \in universe,
         x \in supported, \A y \in universe : y \in out <=> y # x
  PROVE  Answered(Dimension(universe, out, supported, cites), x)
<1>1. universe \ out = {x}
  OBVIOUS
<1>2. Cardinality({x}) = 1
  BY FS_Singleton
<1>3. (CHOOSE c \in {x} : TRUE) = x
  OBVIOUS
<1>4. {x} \ supported = {}
  OBVIOUS
<1> QED
  BY <1>3, <1>4, <1>1, <1>2 DEF Dimension, Answered

(* A candidate that is not out, with nothing that speaks for it, leaves the question open, *)
LEMMA NotSupported ==
  ASSUME NEW universe, NEW out, NEW supported, NEW cites, NEW x \in universe,
         x \notin out, x \notin supported
  PROVE  ~ Dimension(universe, out, supported, cites).unique
<1>1. x \in (universe \ out) \ supported
  OBVIOUS
<1>2. (universe \ out) \ supported # {}
  BY <1>1
<1> QED
  BY <1>2 DEF Dimension

(* so do two candidates that are not out, *)
LEMMA TwoAreLeft ==
  ASSUME NEW universe, NEW out, NEW supported, NEW cites, IsFiniteSet(universe),
         NEW x \in universe, NEW y \in universe, x # y, x \notin out, y \notin out
  PROVE  ~ Dimension(universe, out, supported, cites).unique
<1> DEFINE viable == universe \ out
<1>1. IsFiniteSet(viable) /\ x \in viable /\ y \in viable
  BY FS_Subset
<1>2. Dimension(universe, out, supported, cites).unique => Cardinality(viable) = 1
  BY DEF Dimension
<1> HIDE DEF viable
<1>3. Cardinality(viable) = 1 => \E z : viable = {z}
  BY <1>1, FS_Singleton
<1> QED
  BY <1>1, <1>2, <1>3

(* and so does a universe that is out altogether. *)
LEMMA NoneIsLeft ==
  ASSUME NEW universe, NEW out, NEW supported, NEW cites, \A x \in universe : x \in out
  PROVE  ~ Dimension(universe, out, supported, cites).unique
<1>1. universe \ out = {}
  OBVIOUS
<1>2. Cardinality({}) = 0
  BY FS_EmptySet
<1>3. Cardinality(universe \ out) # 1
  BY <1>1, <1>2
<1> QED
  BY <1>3 DEF Dimension

(* When a dimension has one candidate left, it is a candidate and every other one is out. *)
LEMMA OnlyWinnerIsLeft ==
  ASSUME NEW universe, NEW out, NEW supported, NEW cites, IsFiniteSet(universe),
         Dimension(universe, out, supported, cites).unique
  PROVE  /\ Dimension(universe, out, supported, cites).winner \in universe
         /\ \A y \in universe :
              y \in out <=> y # Dimension(universe, out, supported, cites).winner
<1> DEFINE viable == universe \ out
<1>1. IsFiniteSet(viable) /\ Cardinality(viable) = 1
  BY FS_Subset DEF Dimension
<1>2. PICK x : viable = {x}
  BY <1>1, FS_Singleton
<1>3. Dimension(universe, out, supported, cites).winner = CHOOSE c \in viable : TRUE
  BY DEF Dimension
<1>4. (CHOOSE c \in {x} : TRUE) = x
  OBVIOUS
<1>5. x \in universe
  BY <1>2
<1> QED
  BY <1>5, <1>2, <1>3, <1>4

(* Something is cited just when it is said. *)
LEMMA CitedWhenSaid ==
  ASSUME NEW facts, NEW said
  PROVE  CitedBy(facts, said) # {} <=> \E p \in said : p \in Props(facts)
BY DEF CitedBy, Props

(* What the canonical evidence leaves open of the time. *)
LEMMA CanonicalTime ==
  ASSUME NEW truth, Parses(truth), NEW roads
  PROVE  LET possible == PossibleTicks(CanonicalFacts(truth, roads))
             from  == truth.tick + Timeline.observed - Timeline.observedSpread
             until == truth.tick + Timeline.observed + Timeline.observedSpread
         IN  /\ truth.tick \in possible
             /\ \A t \in possible : t \in Int /\ from <= t /\ t <= until
             /\ Connected(possible)
<1> DEFINE facts == CanonicalFacts(truth, roads)
           possible == PossibleTicks(facts)
           CP == CanonicalProps(truth, roads)
           a == Says1("lastSeen", truth.tick + Timeline.lastSeen)
           b == Says1("bodyFound", truth.tick + Timeline.bodyFound)
           c == Says2("sceneObserved", truth.tick + Timeline.observed, Timeline.observedSpread)
<1>0. /\ TimeMin \in Int /\ TimeMax \in Int /\ truth.tick \in Ticks /\ truth.tick \in Int
      /\ \A t : t \in Ticks <=> t \in Int /\ TimeMin <= t /\ t < TimeMax
  BY CaseAssumption DEF Parses, Ticks
<1>1. a \in CP /\ b \in CP /\ c \in CP
  BY DEF CanonicalProps
<1>2. /\ a.type = "lastSeen" /\ a.at = truth.tick + Timeline.lastSeen
      /\ b.type = "bodyFound" /\ b.at = truth.tick + Timeline.bodyFound
      /\ c.type = "sceneObserved" /\ c.at = truth.tick + Timeline.observed
      /\ c.spread = Timeline.observedSpread
  BY DEF Says1, Says2
<1>3. ASSUME NEW p \in CP, Bounds(p) \/ Excludes(p) PROVE p = a \/ p = b \/ p = c
  <2>1. p.type \in {"lastSeen", "bodyFound", "noise", "sceneObserved", "timeExcluded"}
    BY <1>3 DEF Bounds, Excludes
  <2>2. OfItsType(truth, roads, p)
    BY CanonicalByType
  <2> HIDE DEF CP
  <2> QED
    BY <2>1, <2>2 DEF OfItsType
<1>4. Bounds(a) /\ Bounds(b) /\ Bounds(c)
  BY <1>2 DEF Bounds
<1> HIDE DEF a, b, c, CP
<1>5. Props(facts) = CP
  BY CanonicalSays DEF CP, Parses
<1> HIDE DEF facts
<1>6. \A t \in Ticks : t \in possible <=> Allows(a, t) /\ Allows(b, t) /\ Allows(c, t)
  BY <1>1, <1>3, <1>4, <1>5 DEF PossibleTicks
<1>7. ASSUME NEW t \in Ticks
      PROVE  t \in possible
               <=> /\ t >= truth.tick + Timeline.lastSeen /\ t < truth.tick + Timeline.bodyFound
                   /\ truth.tick + Timeline.observed - Timeline.observedSpread <= t
                   /\ t <= truth.tick + Timeline.observed + Timeline.observedSpread
  <2>1. Allows(a, t) <=> t >= truth.tick + Timeline.lastSeen
    BY <1>2 DEF Allows
  <2>2. Allows(b, t) <=> t < truth.tick + Timeline.bodyFound
    BY <1>2 DEF Allows
  <2>3. Allows(c, t) <=> c.at - c.spread <= t /\ t <= c.at + c.spread
    BY <1>2 DEF Allows
  <2>4. /\ c.at - c.spread = truth.tick + Timeline.observed - Timeline.observedSpread
        /\ c.at + c.spread = truth.tick + Timeline.observed + Timeline.observedSpread
    BY <1>0, <1>2, TimelineIs
  <2> HIDE DEF possible
  <2>5. Allows(c, t) <=> /\ truth.tick + Timeline.observed - Timeline.observedSpread <= t
                         /\ t <= truth.tick + Timeline.observed + Timeline.observedSpread
    BY <2>3, <2>4
  <2> QED
    BY <1>6, <2>1, <2>2, <2>5
<1>8. possible \subseteq Ticks
  BY DEF PossibleTicks
<1>9. truth.tick \in possible
  BY <1>0, <1>7, TimelineIs, TimelineAssumption
<1>10. Connected(possible)
  <2> SUFFICES ASSUME NEW x \in possible, NEW y \in possible, NEW t \in x .. y
               PROVE  t \in possible
    BY DEF Connected
  <2>1. x \in Ticks /\ y \in Ticks
    BY <1>8
  <2>2. t \in Int /\ x <= t /\ t <= y
    BY <1>0, <2>1
  <2>3. t \in Ticks
    BY <1>0, <2>1, <2>2
  <2> HIDE DEF possible
  <2> QED
    BY <1>0, <1>7, <2>1, <2>2, <2>3, TimelineIs
<1> HIDE DEF possible
<1> QED
  BY <1>0, <1>7, <1>8, <1>9, <1>10 DEF possible, facts

(* With a place to be at, the canonical evidence clears every target but the murderer;
   without one it clears nobody. *)
LEMMA CanonicalClears ==
  ASSUME NEW truth, Parses(truth), truth.resolution = "HOMICIDE",
         NEW roads, TravelRules(roads),
         CanonicalRoads(truth, roads) = roads,
         NEW w \in FinalTargets
  PROVE  Cleared(roads, CanonicalFacts(truth, roads), w)
           <=> w # truth.murderer /\ DOMAIN roads # {}
<1> DEFINE facts == CanonicalFacts(truth, roads)
           possible == PossibleTicks(facts)
           d == DistantPlace(roads)
<1>1. /\ truth.tick \in possible /\ truth.tick \in Int
      /\ \A t \in possible :
           /\ t \in Int
           /\ truth.tick + Timeline.observed - Timeline.observedSpread <= t
           /\ t <= truth.tick + Timeline.observed + Timeline.observedSpread
  BY CanonicalTime
<1>2. Props(facts) = CanonicalProps(truth, roads)
  BY CanonicalSays DEF Parses
<1>o. Open(roads) # {} <=> DOMAIN roads # {}
  BY RoadsFixed
<1> HIDE DEF facts, possible
<1>3. CASE w # truth.murderer /\ DOMAIN roads # {}
  <2> DEFINE p == Observation(truth, roads, w)
  <2>1. w \in Elsewhere(truth, roads)
    BY <1>3, <1>o DEF Elsewhere, OtherTargets
  <2>2. p \in Props(facts)
    BY <1>2, <2>1 DEF CanonicalProps
  <2>3. /\ Sighting(p, w) /\ p.place = d
        /\ p.at = truth.tick + Timeline.alternate /\ p.spread = Timeline.alternateSpread
    BY DEF Observation, Sighting
  <2>4. d \in DOMAIN roads
    BY <1>3, <1>o, RoadsFixed
  <2>5. roads[d] \in Nat /\ roads[d] >= MinOpportunity
    BY <2>1, RoadsFixed
  <2>6. roads[d] # NoRule
    BY <2>5 DEF NoRule
  <2> HIDE DEF p, d
  <2>7. ASSUME NEW t \in possible PROVE Away(roads, facts, w, t)
    <3>1. /\ truth.tick + Timeline.alternate - Timeline.alternateSpread <= t
          /\ t < truth.tick + Timeline.alternate + Timeline.alternateSpread + roads[d]
      BY <1>1, <2>5, TimelineIs, TimelineAssumption
    <3>2. p.at - p.spread <= t /\ t < p.at + p.spread + roads[p.place]
      BY <1>1, <2>3, <2>5, <3>1, TimelineIs
    <3>3. p.place \in DOMAIN roads /\ roads[p.place] # NoRule
      BY <2>3, <2>4, <2>6
    <3> QED
      BY <2>2, <2>3, <3>2, <3>3 DEF Away
  <2> QED
    BY <1>1, <1>3, <2>7 DEF Cleared, facts, possible
<1>4. CASE w = truth.murderer \/ DOMAIN roads = {}
  <2>1. ASSUME NEW p \in CanonicalProps(truth, roads), Sighting(p, w) PROVE p.place = Scene
    <3>1. p.type = "observed" /\ p.person = w
      BY <2>1 DEF Sighting
    <3>2. \A who : Observation(truth, roads, who).person = who
      BY DEF Observation
    <3>3. \A who \in Elsewhere(truth, roads) : who # truth.murderer /\ DOMAIN roads # {}
      BY <1>o DEF Elsewhere, OtherTargets
    <3>4. \A who \in Elsewhere(truth, roads) : p # Observation(truth, roads, who)
      BY <1>4, <3>1, <3>2, <3>3
    <3>5. AtTheScene(truth).place = Scene
      BY DEF AtTheScene
    <3>6. OfItsType(truth, roads, p)
      BY CanonicalByType
    <3> QED
      BY <3>1, <3>4, <3>5, <3>6 DEF OfItsType
  <2>2. Scene \notin DOMAIN roads
    BY CaseAssumption DEF TravelRules
  <2>3. ~ Away(roads, facts, w, truth.tick)
    BY <1>2, <2>1, <2>2 DEF Away
  <2> QED
    BY <1>1, <1>4, <2>3 DEF Cleared, facts, possible
<1> QED
  BY <1>3, <1>4

(* What the canonical evidence answers, it answers with the truth; and what it answers is
   told by the cast, the places and the names. *)
LEMMA CanonicalCloses ==
  ASSUME NEW truth, Parses(truth), NEW roads, TravelRules(roads),
         CanonicalRoads(truth, roads) = roads
  PROVE  LET solved == Solve(roads, CanonicalFacts(truth, roads))
             Alike(o) == Normal(o) = Normal(truth.weapon)
         IN  /\ Len(solved.when.feasible) = 1 /\ HoldsTick(solved.when.feasible, truth.tick)
             /\ truth.resolution = "HOMICIDE" =>
                  IF OtherTargets(truth) = {} \/ DOMAIN roads # {}
                  THEN Answered(solved.who, truth.murderer) ELSE ~ solved.who.unique
             /\ IF truth.motive \in Candidates
                THEN Answered(solved.why, truth.motive) ELSE ~ solved.why.unique
             /\ IF {o \in Weapons : Alike(o)} = {truth.weapon}
                THEN Answered(solved.weapon, truth.weapon) ELSE ~ solved.weapon.unique
<1> DEFINE facts == CanonicalFacts(truth, roads)
           feasible == FeasibleTime(facts)
           possible == PossibleTicks(facts)
           CP == CanonicalProps(truth, roads)
<1>0. Typed(facts) /\ Props(facts) = CP
  BY CanonicalTyped, CanonicalSays DEF Parses
<1>1. truth.tick \in possible /\ Connected(possible) /\ truth.tick \in Int
  BY CanonicalTime
<1> HIDE DEF facts
<1>2. /\ feasible \in IntervalSets /\ possible \in SUBSET Int
      /\ \A t \in Int : HoldsTick(feasible, t) <=> t \in possible
  BY <1>0, FeasibleIsExact
<1>3. Len(feasible) = 1 /\ HoldsTick(feasible, truth.tick)
  <2> HIDE DEF feasible, possible
  <2>1. Len(feasible) \in Nat /\ ~ (Len(feasible) > 1) /\ feasible # << >>
    BY <1>1, <1>2, OneRun
  <2>2. feasible \in Seq(Intervals)
    BY <1>2 DEF IntervalSets
  <2>3. Len(feasible) \in Nat \ {0}
    BY <2>1, <2>2, EmptySeq
  <2>o. \A n \in Nat \ {0} : ~ (n > 1) => n = 1
    OBVIOUS
  <2>4. Len(feasible) = 1
    BY <2>o, <2>1, <2>3
  <2> QED
    BY <1>1, <1>2, <2>4
<1>4. IF truth.motive \in Candidates
      THEN Answered(Why(facts), truth.motive) ELSE ~ Why(facts).unique
  <2> DEFINE out == {m \in Candidates : Ground(facts, "motiveContradicted", m) # {}}
             for == {m \in Candidates : Ground(facts, "motiveLink", m) # {}}
  <2>0. Candidates \subseteq Motives
    BY CaseAssumption
  <2>1. ASSUME NEW type, NEW m
        PROVE  Ground(facts, type, m) # {} <=> \E p \in CP : p.type = type /\ p.motive = m
    <3> DEFINE said == {p \in Props(facts) : p.type = type /\ p.motive = m}
    <3>1. Ground(facts, type, m) = CitedBy(facts, said)
      BY DEF Ground
    <3>2. (\E p \in said : p \in Props(facts)) <=> \E p \in CP : p.type = type /\ p.motive = m
      BY <1>0
    <3> HIDE DEF said
    <3> QED
      BY <3>1, <3>2, CitedWhenSaid
  <2>2. ASSUME NEW m \in Candidates PROVE m \in out <=> m # truth.motive
    <3>1. m # truth.motive => Against(m) \in CP
      BY <2>0 DEF CanonicalProps
    <3>2. Against(m).type = "motiveContradicted" /\ Against(m).motive = m
      BY DEF Against
    <3>3. ASSUME NEW p \in CP, p.type = "motiveContradicted", p.motive = m
          PROVE  m # truth.motive
      <4>0. OfItsType(truth, roads, p)
        BY CanonicalByType
      <4>1. \E n \in Motives \ {truth.motive} : p = Against(n)
        BY <3>3, <4>0 DEF OfItsType
      <4> QED
        BY <3>3, <4>1 DEF Against
    <3> HIDE DEF CP
    <3> QED
      BY <2>1, <3>1, <3>2, <3>3
  <2>3. ASSUME truth.motive \in Candidates PROVE truth.motive \in for
    <3>1. MotiveOf(truth) \in CP
      BY DEF CanonicalProps
    <3>2. MotiveOf(truth).type = "motiveLink" /\ MotiveOf(truth).motive = truth.motive
      BY DEF MotiveOf
    <3> HIDE DEF CP
    <3> QED
      BY <2>1, <2>3, <3>1, <3>2
  <2>4. PICK cites : Why(facts) = Dimension(Candidates, out, for, cites)
    BY DEF Why
  <2> HIDE DEF out, for
  <2>5. CASE truth.motive \in Candidates
    BY <2>4, <2>5, <2>2, <2>3, OneIsLeft
  <2>6. CASE truth.motive \notin Candidates
    <3>1. \A m \in Candidates : m \in out
      BY <2>2, <2>6
    <3> QED
      BY <2>4, <2>6, <3>1, NoneIsLeft
  <2> QED
    BY <2>5, <2>6
<1>5. ASSUME truth.resolution = "HOMICIDE"
      PROVE  IF OtherTargets(truth) = {} \/ DOMAIN roads # {}
             THEN Answered(Who(roads, facts, feasible), truth.murderer)
             ELSE ~ Who(roads, facts, feasible).unique
  <2> DEFINE out == {w \in Universe : Excluded(roads, facts, feasible, w)}
             for == {w \in Universe :
                       Opportunity(roads, facts, feasible, w) \cup Link(facts, w) # {}}
  <2>1. /\ truth.murderer \in FinalTargets /\ Universe = FinalTargets
        /\ IsFiniteSet(Universe)
    BY <1>5, CaseAssumption DEF Parses, Universe
  <2>2. ASSUME NEW w \in Universe
        PROVE  w \in out <=> w # truth.murderer /\ DOMAIN roads # {}
    <3>1. Excluded(roads, facts, feasible, w) <=> Cleared(roads, facts, w)
      BY <1>0, ExcludedIsExact
    <3>2. Cleared(roads, facts, w) <=> w # truth.murderer /\ DOMAIN roads # {}
      BY <1>5, <2>1, CanonicalClears DEF facts
    <3> QED
      BY <3>1, <3>2
  <2>3. truth.murderer \in for
    <3>1. MotiveOf(truth) \in CP
      BY DEF CanonicalProps
    <3>2. MotiveOf(truth).type = "motiveLink" /\ MotiveOf(truth).person = truth.murderer
      BY <1>5 DEF MotiveOf
    <3> HIDE DEF CP
    <3>3. Link(facts, truth.murderer) # {}
      BY <1>0, <3>1, <3>2, CitedWhenSaid DEF Link
    <3> QED
      BY <2>1, <3>3
  <2>4. PICK cites : Who(roads, facts, feasible) = Dimension(Universe, out, for, cites)
    BY DEF Who
  <2> HIDE DEF out, for
  <2>5. CASE OtherTargets(truth) = {} \/ DOMAIN roads # {}
    <3>1. \A w \in Universe : w \in out <=> w # truth.murderer
      BY <2>5, <2>1, <2>2 DEF OtherTargets
    <3> QED
      BY <2>5, <2>3, <2>4, <2>1, <3>1, OneIsLeft
  <2>6. CASE OtherTargets(truth) # {} /\ DOMAIN roads = {}
    <3>1. PICK other \in OtherTargets(truth) : TRUE
      BY <2>6
    <3>2. other \in Universe /\ other # truth.murderer
      BY <2>1 DEF OtherTargets
    <3>3. other \notin out /\ truth.murderer \notin out
      BY <2>6, <2>1, <2>2, <3>2
    <3> QED
      BY <2>6, <2>4, <2>1, <3>2, <3>3, TwoAreLeft
  <2> QED
    BY <2>5, <2>6
<1>6. IF {o \in Weapons : Normal(o) = Normal(truth.weapon)} = {truth.weapon}
      THEN Answered(Weapon(facts), truth.weapon) ELSE ~ Weapon(facts).unique
  <2> DEFINE out == {w \in Weapons : Refuted(facts, w)}
             for == {w \in Weapons : Borne(facts, w)}
             Alike(o) == Normal(o) = Normal(truth.weapon)
  <2>0. \A o, found : Matching(o, found).type = "match"
    BY DEF Matching
  <2>m. ASSUME NEW p \in CP, p.type = "match"
        PROVE  \/ p = Matching(truth.weapon, TRUE)
               \/ \E o \in OtherObjects(truth) : p = Matching(o, FALSE)
    <3>1. OfItsType(truth, roads, p)
      BY CanonicalByType
    <3> QED
      BY <2>m, <3>1 DEF OfItsType
  <2>1. ASSUME NEW w, NEW found
        PROVE  Match(facts, w, found) # {} <=> Matching(w, found) \in CP
    BY <1>0, CitedWhenSaid DEF Match, Matching
  <2>2. ASSUME NEW w \in Weapons PROVE Match(facts, w, TRUE) # {} <=> w = truth.weapon
    <3>1. ASSUME Matching(w, TRUE) \in CP PROVE w = truth.weapon
      <4> DEFINE p == Matching(w, TRUE)
      <4>0. p \in CP /\ p.type = "match"
        BY <2>0, <3>1
      <4> HIDE DEF p, CP
      <4>1. \/ p = Matching(truth.weapon, TRUE)
            \/ \E o \in OtherObjects(truth) : p = Matching(o, FALSE)
        BY <2>m, <4>0
      <4> QED
        BY <4>1, MatchesDiffer DEF p
    <3>2. Matching(truth.weapon, TRUE) \in CP
      BY DEF CanonicalProps
    <3> QED
      BY <2>1, <3>1, <3>2
  <2>3. ASSUME NEW w \in Weapons PROVE Match(facts, w, FALSE) # {} <=> ~ Alike(w)
    <3>1. ASSUME Matching(w, FALSE) \in CP PROVE ~ Alike(w)
      <4> DEFINE p == Matching(w, FALSE)
      <4>0. p \in CP /\ p.type = "match"
        BY <2>0, <3>1
      <4> HIDE DEF p, CP
      <4>1. \/ p = Matching(truth.weapon, TRUE)
            \/ \E o \in OtherObjects(truth) : p = Matching(o, FALSE)
        BY <2>m, <4>0
      <4>2. w \in OtherObjects(truth)
        BY <4>1, MatchesDiffer DEF p
      <4> QED
        BY <4>2 DEF OtherObjects
    <3>2. ASSUME ~ Alike(w) PROVE Matching(w, FALSE) \in CP
      <4>1. w \in OtherObjects(truth) \cap Objects
        BY <3>2, CaseAssumption DEF OtherObjects
      <4> QED
        BY <4>1 DEF CanonicalProps
    <3> QED
      BY <2>1, <3>1, <3>2
  <2>4. ASSUME NEW w \in Weapons, w # truth.weapon PROVE Trace(facts, w) = {}
    <3> DEFINE trace == [type |-> "trace", object |-> w]
    <3>1. trace.type = "trace" /\ trace.object = w
      OBVIOUS
    <3>2. [type |-> "trace", object |-> truth.weapon].object = truth.weapon
      OBVIOUS
    <3>3. Trace(facts, w) # {} => trace \in CP
      BY <1>0, CitedWhenSaid DEF Trace
    <3> HIDE DEF trace
    <3>4. ASSUME trace \in CP PROVE trace = [type |-> "trace", object |-> truth.weapon]
      <4>1. OfItsType(truth, roads, trace)
        BY <3>4, CanonicalByType
      <4> QED
        BY <3>1, <4>1 DEF OfItsType
    <3> QED
      BY <2>4, <3>1, <3>2, <3>3, <3>4
  <2>5. PICK cites : Weapon(facts) = Dimension(Weapons, out, for, cites)
    BY DEF Weapon
  <2>6. \A w \in Weapons : w \in out <=> w # truth.weapon /\ ~ Alike(w)
    BY <2>2, <2>3 DEF Refuted
  <2>7. \A w \in Weapons : w = truth.weapon => w \in for
    BY <2>2, <2>3 DEF Borne
  <2>8. \A w \in Weapons : w # truth.weapon => w \notin for
    BY <2>2, <2>4 DEF Borne
  <2> HIDE DEF out, for
  <2>9. CASE {o \in Weapons : Alike(o)} = {truth.weapon}
    <3>1. truth.weapon \in Weapons /\ \A w \in Weapons : w \in out <=> w # truth.weapon
      BY <2>9, <2>6
    <3>2. truth.weapon \in for
      BY <2>7, <3>1
    <3>3. Answered(Weapon(facts), truth.weapon)
      BY <2>5, <3>1, <3>2, OneIsLeft
    <3> QED
      BY <2>9, <3>3
  <2>10. CASE \E o \in Weapons : o # truth.weapon /\ Alike(o)
    <3>1. PICK o \in Weapons : o # truth.weapon /\ Alike(o)
      BY <2>10
    <3>2. o \notin out /\ o \notin for
      BY <2>6, <2>8, <3>1
    <3>3. ~ Weapon(facts).unique
      BY <2>5, <3>2, NotSupported
    <3>4. {v \in Weapons : Alike(v)} # {truth.weapon}
      BY <3>1
    <3> QED
      BY <3>3, <3>4
  <2>11. CASE /\ truth.weapon \notin Weapons
              /\ \A o \in Weapons : o # truth.weapon => ~ Alike(o)
    <3>1. \A w \in Weapons : w \in out
      BY <2>11, <2>6
    <3>2. ~ Weapon(facts).unique
      BY <2>5, <3>1, NoneIsLeft
    <3>3. {o \in Weapons : Alike(o)} # {truth.weapon}
      BY <2>11
    <3> QED
      BY <3>2, <3>3
  <2> QED
    BY <2>10, <2>11, <2>9
<1> DEFINE solved == Solve(roads, facts)
<1>7. /\ solved.why = Why(facts) /\ solved.weapon = Weapon(facts)
      /\ solved.when.feasible = feasible /\ solved.who = Who(roads, facts, feasible)
  BY DEF Solve, When
<1> HIDE DEF solved, feasible
<1> QED
  BY <1>3, <1>4, <1>5, <1>6, <1>7 DEF solved, facts

--------------------------------------------------------------------------------
(* What a verdict without an objection means *)

(* The accepted time is the tick of the crime, give or take the tolerance. *)
LEMMA AcceptedIsExact ==
  ASSUME NEW truth, Parses(truth)
  PROVE  /\ AcceptedTime(truth) \in IntervalSets
         /\ \A t \in Int : HoldsTick(AcceptedTime(truth), t)
              <=> truth.tick - truth.tolerance <= t /\ t <= truth.tick + truth.tolerance
<1> DEFINE iv == Iv(truth.tick - truth.tolerance, truth.tick + truth.tolerance + 1)
<1>0. truth.tick \in Int /\ truth.tolerance \in Nat
  BY CaseAssumption DEF Parses, Ticks
<1>1. truth.tick - truth.tolerance \in Int /\ truth.tick + truth.tolerance + 1 \in Int
  BY <1>0
<1>2. /\ iv \in Intervals /\ iv.lo = truth.tick - truth.tolerance
      /\ iv.hi = truth.tick + truth.tolerance + 1
  BY <1>1, IntervalIs
<1>3. AcceptedTime(truth) = Normalized({iv})
  BY DEF AcceptedTime
<1> HIDE DEF iv
<1>4. {iv} \in SUBSET Intervals /\ IsFiniteSet({iv})
  BY <1>2, FS_Singleton
<1>5. \A t : Covered({iv}, t) <=> Covers(iv, t)
  BY DEF Covered
<1>6. \A t \in Int : Covers(iv, t)
        <=> truth.tick - truth.tolerance <= t /\ t <= truth.tick + truth.tolerance
  BY <1>0, <1>2 DEF Covers
<1> QED
  BY <1>3, <1>4, <1>5, <1>6, NormalizedIsExact

(* Without an objection the propositions have one answer each, and it is the truth. *)
LEMMA VerdictMeans ==
  ASSUME NEW facts, Typed(facts), NEW roads, TravelRules(roads),
         NEW truth, Parses(truth),
         AmbiguousDimensions(truth, Solve(roads, facts)) = {},
         AllTrue(truth, Solve(roads, facts))
  PROVE  LET possible == PossibleTicks(facts)
             Contradicted(o) == Says(facts, [type |-> "match", object |-> o, found |-> FALSE])
             Matched(o)      == Says(facts, [type |-> "match", object |-> o, found |-> TRUE])
         IN  /\ truth.tick \in possible /\ Connected(possible)
             /\ possible \subseteq
                  (truth.tick - truth.tolerance) .. (truth.tick + truth.tolerance)
             /\ truth.resolution = "HOMICIDE" =>
                  \A w \in FinalTargets : Cleared(roads, facts, w) <=> w # truth.murderer
             /\ truth.motive \in Candidates /\ truth.weapon \in Weapons
             /\ \A m \in Candidates :
                  Says(facts, [type |-> "motiveContradicted", motive |-> m]) <=> m # truth.motive
             /\ \A o \in Weapons : Contradicted(o) /\ ~ Matched(o) <=> o # truth.weapon
<1> DEFINE solved == Solve(roads, facts)
           feasible == FeasibleTime(facts)
           possible == PossibleTicks(facts)
           when == When(facts)
           who == Who(roads, facts, feasible)
<1>0. /\ IsFiniteSet(FinalTargets) /\ IsFiniteSet(Candidates) /\ IsFiniteSet(Weapons)
      /\ truth.tick \in Int /\ truth.tolerance \in Nat
  <2>1. Candidates \subseteq Motives /\ IsFiniteSet(Motives)
    BY CaseAssumption
  <2>2. IsFiniteSet(Candidates)
    BY <2>1, FS_Subset
  <2> QED
    BY <2>2, CaseAssumption DEF Parses, Ticks
<1>1. /\ solved.when = when /\ solved.who = who
      /\ solved.why = Why(facts) /\ solved.weapon = Weapon(facts) /\ when.feasible = feasible
  BY DEF Solve, When
<1> HIDE DEF solved, when, who
<1>2. /\ truth.resolution = "HOMICIDE" => who.unique
      /\ Why(facts).unique /\ Weapon(facts).unique
  <2> DEFINE Left(d) == CASE d = "who"    -> truth.resolution = "HOMICIDE" /\ ~ solved.who.unique
                          [] d = "why"    -> ~ solved.why.unique
                          [] d = "weapon" -> ~ solved.weapon.unique
                          [] d = "when"   -> solved.when.ambiguous
  <2>1. \A d \in {"who", "why", "weapon", "when"} : ~ Left(d)
    BY DEF AmbiguousDimensions, solved
  <2>2. ~ Left("who") /\ ~ Left("why") /\ ~ Left("weapon")
    <3> HIDE DEF Left
    <3> QED
      BY <2>1
  <2>3. ~ (truth.resolution = "HOMICIDE" /\ ~ solved.who.unique)
    BY <2>2
  <2>4. ~ ~ solved.why.unique
    BY <2>2
  <2>5. ~ ~ solved.weapon.unique
    BY <2>2
  <2> QED
    BY <1>1, <2>3, <2>4, <2>5
<1>3. /\ truth.resolution = "HOMICIDE" => who.winner = truth.murderer
      /\ Why(facts).winner = truth.motive /\ Weapon(facts).winner = truth.weapon
      /\ Len(feasible) = 1 /\ Difference(feasible, AcceptedTime(truth)) = << >>
      /\ HoldsTick(feasible, truth.tick)
  BY <1>1 DEF AllTrue, TimeAccepted, solved
<1>4. /\ feasible \in IntervalSets /\ possible \in SUBSET Int
      /\ \A t \in Int : HoldsTick(feasible, t) <=> t \in possible
  BY FeasibleIsExact
<1>5. truth.tick \in possible /\ Connected(possible)
  <2> HIDE DEF feasible, possible
  <2>1. Len(feasible) > 1 <=> ~ Connected(possible)
    BY <1>4, OneRun
  <2> QED
    BY <1>0, <1>3, <1>4, <2>1
<1>6. ASSUME NEW t \in possible
      PROVE  t \in (truth.tick - truth.tolerance) .. (truth.tick + truth.tolerance)
  <2> HIDE DEF feasible, possible
  <2>1. /\ Difference(feasible, AcceptedTime(truth)) \in IntervalSets
        /\ \A u \in Int : HoldsTick(Difference(feasible, AcceptedTime(truth)), u)
                            <=> HoldsTick(feasible, u) /\ ~ HoldsTick(AcceptedTime(truth), u)
    BY <1>4, AcceptedIsExact, DifferenceIsExact
  <2>2. ~ HoldsTick(Difference(feasible, AcceptedTime(truth)), t) /\ t \in Int
    BY <1>3, <1>4, <2>1, EmptyHoldsNothing
  <2>3. HoldsTick(AcceptedTime(truth), t)
    BY <1>4, <2>1, <2>2
  <2>4. truth.tick - truth.tolerance <= t /\ t <= truth.tick + truth.tolerance
    BY <2>2, <2>3, AcceptedIsExact
  <2> QED
    BY <1>0, <2>2, <2>4
<1>7. ASSUME truth.resolution = "HOMICIDE", NEW w \in FinalTargets
      PROVE  Cleared(roads, facts, w) <=> w # truth.murderer
  <2> DEFINE out == {x \in Universe : Excluded(roads, facts, feasible, x)}
             for == {x \in Universe :
                       Opportunity(roads, facts, feasible, x) \cup Link(facts, x) # {}}
  <2>1. PICK cites : who = Dimension(Universe, out, for, cites)
    BY DEF who, Who
  <2>2. w \in Universe /\ Universe = FinalTargets
    BY DEF Universe
  <2>3. w \in out <=> Cleared(roads, facts, w)
    BY <2>2, ExcludedIsExact
  <2> HIDE DEF out, for, feasible
  <2>4. \A y \in Universe : y \in out <=> y # who.winner
    BY <1>0, <1>2, <1>7, <2>1, <2>2, OnlyWinnerIsLeft
  <2> QED
    BY <1>3, <1>7, <2>2, <2>3, <2>4
<1>w. truth.motive \in Candidates /\ truth.weapon \in Weapons
  <2>1. Why(facts).winner \in Candidates
    <3> DEFINE out == {n \in Candidates : Ground(facts, "motiveContradicted", n) # {}}
               for == {n \in Candidates : Ground(facts, "motiveLink", n) # {}}
    <3>1. PICK cites : Why(facts) = Dimension(Candidates, out, for, cites)
      BY DEF Why
    <3> HIDE DEF out, for
    <3> QED
      BY <1>0, <1>2, <3>1, OnlyWinnerIsLeft
  <2>2. Weapon(facts).winner \in Weapons
    <3> DEFINE out == {w \in Weapons : Refuted(facts, w)}
               for == {w \in Weapons : Borne(facts, w)}
    <3>1. PICK cites : Weapon(facts) = Dimension(Weapons, out, for, cites)
      BY DEF Weapon
    <3> HIDE DEF out, for
    <3> QED
      BY <1>0, <1>2, <3>1, OnlyWinnerIsLeft
  <2> QED
    BY <1>3, <2>1, <2>2
<1>8. ASSUME NEW m \in Candidates
      PROVE  Says(facts, [type |-> "motiveContradicted", motive |-> m]) <=> m # truth.motive
  <2> DEFINE out == {n \in Candidates : Ground(facts, "motiveContradicted", n) # {}}
             for == {n \in Candidates : Ground(facts, "motiveLink", n) # {}}
             said == {p \in Props(facts) : p.type = "motiveContradicted" /\ p.motive = m}
  <2>1. PICK cites : Why(facts) = Dimension(Candidates, out, for, cites)
    BY DEF Why
  <2>2. m \in out <=> \E p \in said : p \in Props(facts)
    <3>1. Ground(facts, "motiveContradicted", m) = CitedBy(facts, said)
      BY DEF Ground
    <3>2. CitedBy(facts, said) # {} <=> \E p \in said : p \in Props(facts)
      <4> HIDE DEF said
      <4> QED
        BY CitedWhenSaid
    <3> QED
      BY <3>1, <3>2
  <2>3. (\E p \in said : p \in Props(facts))
          <=> Says(facts, [type |-> "motiveContradicted", motive |-> m])
    <3>1. ASSUME NEW p \in said PROVE p = [type |-> "motiveContradicted", motive |-> m]
      BY PropsTyped DEF ParsedProp
    <3>2. ASSUME [type |-> "motiveContradicted", motive |-> m] \in Props(facts)
          PROVE  [type |-> "motiveContradicted", motive |-> m] \in said
      BY <3>2
    <3> HIDE DEF said
    <3>3. said \in SUBSET Props(facts)
      BY DEF said
    <3> QED
      BY <3>1, <3>2, <3>3 DEF Says
  <2> HIDE DEF out, for, said
  <2>4. \A y \in Candidates : y \in out <=> y # Why(facts).winner
    BY <1>0, <1>2, <2>1, OnlyWinnerIsLeft
  <2> QED
    BY <1>3, <2>2, <2>3, <2>4
<1>9. ASSUME NEW o \in Weapons
      PROVE  (/\ Says(facts, [type |-> "match", object |-> o, found |-> FALSE])
              /\ ~ Says(facts, [type |-> "match", object |-> o, found |-> TRUE]))
             <=> o # truth.weapon
  <2> DEFINE out == {w \in Weapons : Refuted(facts, w)}
             for == {w \in Weapons : Borne(facts, w)}
  <2>1. PICK cites : Weapon(facts) = Dimension(Weapons, out, for, cites)
    BY DEF Weapon
  <2>2. \A found : Match(facts, o, found) # {}
                     <=> Says(facts, [type |-> "match", object |-> o, found |-> found])
    BY CitedWhenSaid DEF Match, Says
  <2>3. o \in out <=> /\ Says(facts, [type |-> "match", object |-> o, found |-> FALSE])
                      /\ ~ Says(facts, [type |-> "match", object |-> o, found |-> TRUE])
    BY <2>2 DEF Refuted
  <2> HIDE DEF out, for
  <2>4. \A y \in Weapons : y \in out <=> y # Weapon(facts).winner
    BY <1>0, <1>2, <2>1, OnlyWinnerIsLeft
  <2> QED
    BY <1>3, <2>3, <2>4
<1> QED
  BY <1>5, <1>6, <1>7, <1>8, <1>9, <1>w

--------------------------------------------------------------------------------
(* The invariant *)

(* What the variables hold. *)
Stored ==
  /\ crime \in Crimes /\ flaw \in Flaws \cup {"structural"}
  /\ phase \in {"evidence", "graph", "validating", "repair", "regenerate", "failed", "published"}
  /\ malformed \in BOOLEAN /\ completed \in BOOLEAN /\ installed \in BOOLEAN
  /\ TravelRules(travel) /\ Typed(evidence)
  /\ evidence \in Answers \cup {{}} \/ installed
  /\ travel \in Roads \/ completed

(* A proof there is, is the one of the evidence there is. *)
ProofIsCurrent ==
  /\ phase \in {"evidence", "graph", "validating"} => proof = NoProof
  /\ proof # NoProof => proof = Solve(travel, evidence) /\ Coherent(travel, evidence)
  /\ phase = "published" =>
       /\ proof = Solve(travel, evidence) /\ WitnessesSpeak(evidence)
       /\ AmbiguousDimensions(crime, proof) = {} /\ AllTrue(crime, proof)

(* Until the graph is asked for, an installed evidence is the canonical one of the crime. *)
CompletionIsCanonical ==
  /\ phase = "evidence" => ~ installed
  /\ installed /\ phase = "graph" =>
       CanonicalFacts(crime, travel) = evidence /\ CanonicalRoads(crime, travel) = travel

ProofInv == Stored /\ ProofIsCurrent /\ CompletionIsCanonical

(* A proof is never mistaken for the absence of one. *)
LEMMA SolvedIsSomething ==
  ASSUME NEW roads, NEW facts
  PROVE  Solve(roads, facts) # NoProof
<1>1. DOMAIN Solve(roads, facts) = {"when", "who", "why", "weapon", "used"}
  BY DEF Solve
<1>2. DOMAIN NoProof = {"when"}
  BY DEF NoProof
<1> QED
  BY <1>1, <1>2

(* The crimes parse, *)
LEMMA TruthParses == \A truth \in Crimes : Parses(truth)
BY TruthAssumption DEF Parses, Ticks

(* so do the travel rules, *)
LEMMA RoadsAre == \A roads \in Roads : TravelRules(roads)
BY TruthAssumption

(* and so does a draft without evidence. *)
LEMMA NothingTyped == Typed({})
BY FS_EmptySet DEF Typed

(* The first state. *)
LEMMA ProofInvInit == Init => ProofInv
<1> SUFFICES ASSUME Init PROVE ProofInv
  OBVIOUS
<1>1. Stored
  BY RoadsAre, NothingTyped DEF Init, Stored
<1>2. ProofIsCurrent
  BY DEF Init, ProofIsCurrent
<1>3. CompletionIsCanonical
  BY DEF Init, CompletionIsCanonical
<1> QED
  BY <1>1, <1>2, <1>3 DEF ProofInv

(* What the installation of the canonical evidence brings about. *)
LEMMA InstallBrings ==
  ASSUME Stored, Install, UNCHANGED crime
  PROVE  /\ TravelRules(travel') /\ Typed(evidence)'
         /\ malformed' = FALSE /\ installed' = TRUE
         /\ CanonicalFacts(crime', travel') = evidence'
         /\ CanonicalRoads(crime', travel') = travel'
<1>1. Parses(crime) /\ TravelRules(travel)
  BY TruthParses DEF Stored
<1>2. evidence' = CanonicalFacts(crime, travel) /\ travel' = CanonicalRoads(crime, travel)
      /\ crime' = crime /\ malformed' = FALSE /\ installed' = TRUE
  BY DEF Install
<1>3. Typed(CanonicalFacts(crime, travel))
  BY <1>1, CanonicalTyped
<1>4. Typed(evidence')
  BY <1>2, <1>3
<1>5. TravelRules(travel')
  BY <1>1, <1>2, RoadsFixed
<1>6. CanonicalFacts(crime, travel') = evidence' /\ CanonicalRoads(crime, travel') = travel'
  BY <1>1, <1>2, CanonicalFixed
<1> QED
  BY <1>2, <1>4, <1>5, <1>6

(* Every step keeps what is stored well formed. *)
LEMMA StoredStep ==
  ASSUME Stored, [Next]_vars
  PROVE  Stored'
<1>1. CASE ReceiveEvidence
  <2>1. PICK answer \in Answers : evidence' = answer
    BY <1>1 DEF ReceiveEvidence
  <2>2. Typed(evidence')
    BY <2>1, EvidenceAssumption DEF Parsed
  <2> QED
    BY <1>1, <2>1, <2>2 DEF ReceiveEvidence, Stored
<1>2. CASE EvidenceMalformed
  <2>1. CASE MayComplete /\ Install /\ phase' = "graph"
    <3>1. /\ TravelRules(travel') /\ Typed(evidence')
          /\ malformed' = FALSE /\ installed' = TRUE
      BY <1>2, <2>1, InstallBrings DEF EvidenceMalformed
    <3> QED
      BY <1>2, <2>1, <3>1 DEF EvidenceMalformed, Stored
  <2>2. CASE ~ MayComplete
    BY <1>2, <2>2 DEF EvidenceMalformed, Stored
  <2> QED
    BY <1>2, <2>1, <2>2 DEF EvidenceMalformed
<1>3. CASE OfferCompletion
  <2>1. CASE MayComplete /\ Install
    <3>1. /\ TravelRules(travel') /\ Typed(evidence')
          /\ malformed' = FALSE /\ installed' = TRUE
      BY <1>3, <2>1, InstallBrings DEF OfferCompletion
    <3> QED
      BY <1>3, <2>1, <3>1 DEF OfferCompletion, Stored
  <2>2. CASE ~ MayComplete
    BY <1>3, <2>2 DEF OfferCompletion, Stored
  <2> QED
    BY <1>3, <2>1, <2>2 DEF OfferCompletion
<1>4. CASE ReceiveGraph
  BY <1>4 DEF ReceiveGraph, Stored
<1>5. CASE Validate
  <2>1. phase' \in {"repair", "failed", "regenerate", "published"}
    BY <1>5 DEF Validate, Outcome
  <2> QED
    BY <1>5, <2>1 DEF Validate, Stored
<1>6. CASE Repair
  <2>1. Repaired \subseteq Answers /\ "none" \in Flaws
    BY CaseAssumption
  <2>2. TravelRules(travel')
    BY <1>6, RoadsAre DEF Repair, Stored
  <2>3. Typed(evidence')
    BY <1>6, <2>1, EvidenceAssumption DEF Repair, Stored, Parsed
  <2>4. evidence' \in Answers \/ evidence' = evidence
    BY <1>6, <2>1 DEF Repair
  <2>5. evidence' \in Answers \cup {{}} \/ installed'
    BY <1>6, <2>4 DEF Repair, Stored
  <2>6. (travel \in Roads \/ completed)' /\ completed' = completed
    BY <1>6 DEF Repair, Stored
  <2>7. flaw' \in Flaws \cup {"structural"} /\ crime' \in Crimes
    BY <1>6, <2>1 DEF Repair, Stored
  <2>8. /\ malformed' \in BOOLEAN /\ completed' \in BOOLEAN /\ installed' \in BOOLEAN
        /\ phase' = "validating"
    BY <1>6 DEF Repair, Stored
  <2> QED
    BY <2>2, <2>3, <2>5, <2>6, <2>7, <2>8 DEF Stored
<1>7. CASE RepairRejected
  BY <1>7 DEF RepairRejected, Stored
<1>8. CASE Regenerate
  BY <1>8, RoadsAre, NothingTyped DEF Regenerate, Start, Stored
<1>9. CASE UNCHANGED vars
  BY <1>9 DEF vars, Stored
<1> QED
  BY <1>5, <1>6, <1>7, <1>8, <1>9, <1>1, <1>2, <1>3, <1>4 DEF Next

(* Every step keeps a proof current: what it is about only changes when it is dropped. *)
LEMMA ProofStep ==
  ASSUME ProofInv, [Next]_vars
  PROVE  ProofIsCurrent'
<1>0. ProofIsCurrent
  BY DEF ProofInv
<1>1. CASE ReceiveEvidence
  BY <1>0, <1>1 DEF ReceiveEvidence, ProofIsCurrent
<1>2. CASE EvidenceMalformed
  BY <1>0, <1>2 DEF EvidenceMalformed, ProofIsCurrent
<1>3. CASE OfferCompletion
  BY <1>0, <1>3 DEF OfferCompletion, ProofIsCurrent
<1>4. CASE ReceiveGraph
  BY <1>0, <1>4 DEF ReceiveGraph, ProofIsCurrent
<1>5. CASE Validate
  <2>1. /\ proof' = IF Solvable THEN Solve(travel, evidence) ELSE NoProof
        /\ phase' = Outcome(proof')
        /\ crime' = crime /\ travel' = travel /\ evidence' = evidence
    BY <1>5 DEF Validate
  <2>2. phase' \notin {"evidence", "graph", "validating"}
    BY <2>1 DEF Outcome
  <2>3. proof' # NoProof => proof' = Solve(travel, evidence) /\ Coherent(travel, evidence)
    BY <2>1 DEF Solvable, Structural
  <2>4. ASSUME phase' = "published"
        PROVE  /\ Solvable /\ AmbiguousDimensions(crime, proof') = {}
               /\ AllTrue(crime, proof')
    BY <2>1, <2>4 DEF Outcome
  <2>5. ASSUME phase' = "published"
        PROVE  proof' = Solve(travel, evidence) /\ WitnessesSpeak(evidence)
    BY <2>1, <2>4, <2>5 DEF Solvable
  <2> QED
    BY <2>3, <2>4, <2>5, <2>1, <2>2 DEF ProofIsCurrent
<1>6. CASE Repair
  BY <1>6 DEF Repair, ProofIsCurrent
<1>7. CASE RepairRejected
  BY <1>7 DEF RepairRejected, ProofIsCurrent
<1>8. CASE Regenerate
  BY <1>8 DEF Regenerate, ProofIsCurrent
<1>9. CASE UNCHANGED vars
  BY <1>0, <1>9 DEF vars, ProofIsCurrent
<1> QED
  BY <1>5, <1>6, <1>7, <1>8, <1>9, <1>1, <1>2, <1>3, <1>4 DEF Next

(* Every step keeps an installed evidence canonical until the graph has come. *)
LEMMA CompletionStep ==
  ASSUME ProofInv, [Next]_vars
  PROVE  CompletionIsCanonical'
<1>0. CompletionIsCanonical /\ Stored
  BY DEF ProofInv
<1>1. CASE ReceiveEvidence
  BY <1>0, <1>1 DEF ReceiveEvidence, CompletionIsCanonical
<1>2. CASE EvidenceMalformed
  <2>1. CASE MayComplete /\ Install /\ phase' = "graph"
    <3>1. CanonicalFacts(crime', travel') = evidence' /\ CanonicalRoads(crime', travel') = travel'
      BY <1>0, <1>2, <2>1, InstallBrings DEF EvidenceMalformed
    <3> QED
      BY <2>1, <3>1 DEF CompletionIsCanonical
  <2>2. CASE ~ MayComplete
    BY <1>2, <2>2 DEF EvidenceMalformed, CompletionIsCanonical
  <2> QED
    BY <1>2, <2>1, <2>2 DEF EvidenceMalformed
<1>3. CASE OfferCompletion
  <2>1. CASE MayComplete /\ Install
    <3>1. CanonicalFacts(crime', travel') = evidence' /\ CanonicalRoads(crime', travel') = travel'
      BY <1>0, <1>3, <2>1, InstallBrings DEF OfferCompletion
    <3> QED
      BY <1>3, <3>1 DEF OfferCompletion, CompletionIsCanonical
  <2>2. CASE ~ MayComplete
    BY <1>0, <1>3, <2>2 DEF OfferCompletion, CompletionIsCanonical
  <2> QED
    BY <1>3, <2>1, <2>2 DEF OfferCompletion
<1>4. CASE ReceiveGraph
  BY <1>4 DEF ReceiveGraph, CompletionIsCanonical
<1>5. CASE Validate
  <2>1. phase' \notin {"evidence", "graph"}
    BY <1>5 DEF Validate, Outcome
  <2> QED
    BY <2>1 DEF CompletionIsCanonical
<1>6. CASE Repair
  BY <1>6 DEF Repair, CompletionIsCanonical
<1>7. CASE RepairRejected
  BY <1>7 DEF RepairRejected, CompletionIsCanonical
<1>8. CASE Regenerate
  BY <1>8 DEF Regenerate, CompletionIsCanonical
<1>9. CASE UNCHANGED vars
  BY <1>0, <1>9 DEF vars, CompletionIsCanonical
<1> QED
  BY <1>5, <1>6, <1>7, <1>8, <1>9, <1>1, <1>2, <1>3, <1>4 DEF Next

(* The invariant the theorems below rest on: what is stored is typed, a proof is the one the
   solvers give for the evidence and the travel rules stored with it, and an installed
   evidence is canonical while the graph is asked for. *)
THEOREM ProofInvariant == Spec => []ProofInv
<1>1. ProofInv /\ [Next]_vars => ProofInv'
  BY StoredStep, ProofStep, CompletionStep DEF ProofInv
<1> QED
  BY ProofInvInit, <1>1, PTL DEF Spec

--------------------------------------------------------------------------------
(* The theorems *)

(* The variables hold what their comments say, and evidence or travel rules no provider
   wrote are there only after a completion. *)
THEOREM TypeCorrect == Spec => []TypeOK
<1>1. ProofInv => TypeOK
  <2> SUFFICES ASSUME ProofInv PROVE TypeOK
    OBVIOUS
  <2>1. Stored /\ ProofIsCurrent
    BY DEF ProofInv
  <2>2. phase = "published" => proof # NoProof
    BY <2>1, SolvedIsSomething DEF ProofIsCurrent
  <2> QED
    BY <2>1, <2>2 DEF Stored, TypeOK
<1> QED
  BY ProofInvariant, <1>1, PTL

(* The stored proof is exact for every evidence and all travel rules: its
   intervals are the maximal runs of the ticks that every discoverable statement allows, and
   it excludes just the persons whose sightings elsewhere rule out every one of them. *)
THEOREM SolverExact == Spec => []SolverIsExact
<1>1. ProofInv => SolverIsExact
  <2> SUFFICES ASSUME ProofInv, proof # NoProof PROVE SolverIsExact
    BY DEF SolverIsExact
  <2>1. /\ proof = Solve(travel, evidence) /\ Typed(evidence)
        /\ TravelRules(travel)
    BY DEF ProofInv, Stored, ProofIsCurrent
  <2> QED
    BY <2>1, SolveIsExact DEF SolverIsExact
<1> QED
  BY ProofInvariant, <1>1, PTL

(* The facts a proof cites are discoverable, and the solvers draw from them alone every
   conclusion they drew from all the evidence. *)
THEOREM CitedEnough == Spec => []CitedEvidenceSuffices
<1>1. ProofInv => CitedEvidenceSuffices
  <2> SUFFICES ASSUME ProofInv, proof # NoProof PROVE CitedEvidenceSuffices
    BY DEF CitedEvidenceSuffices
  <2>1. proof = Solve(travel, evidence) /\ DistinctIds(evidence)
    BY DEF ProofInv, ProofIsCurrent, Coherent
  <2>2. Kept(evidence, proof.used) = {f \in evidence : f.id \in proof.used}
    BY DEF Kept
  <2>3. Solve(travel, Kept(evidence, proof.used)) = proof
    BY <2>1, CitedSuffices
  <2>4. \A f \in Kept(evidence, proof.used) : f.discoverable
    BY <2>1, CitedIsDiscoverable
  <2> QED
    BY <2>2, <2>3, <2>4 DEF CitedEvidenceSuffices
<1> QED
  BY ProofInvariant, <1>1, PTL

(* A published case is solvable by its discoverable evidence, and by that evidence only the
   hidden truth can be concluded. *)
THEOREM PublishedIsSolved == Spec => []ValidMeansSolved
<1>1. ProofInv => ValidMeansSolved
  <2> SUFFICES ASSUME ProofInv, phase = "published" PROVE ValidMeansSolved
    BY DEF ValidMeansSolved
  <2>1. /\ AmbiguousDimensions(crime, Solve(travel, evidence)) = {}
        /\ AllTrue(crime, Solve(travel, evidence)) /\ WitnessesSpeak(evidence)
        /\ Typed(evidence) /\ TravelRules(travel)
    BY DEF ProofInv, Stored, ProofIsCurrent
  <2>2. Parses(crime)
    BY TruthParses DEF ProofInv, Stored
  <2> QED
    BY <2>1, <2>2, VerdictMeans DEF ValidMeansSolved
<1> QED
  BY ProofInvariant, <1>1, PTL

(* Whatever crime, cast, places, names and offsets the canonical evidence is computed from,
   computing it again changes nothing, and when validate_evidence has nothing against it, it
   answers with the truth just the questions that CompletionCloses says, and no other one. *)
THEOREM CompletionClosesAll == Spec => []CompletionCloses
<1>1. ProofInv => CompletionCloses
  <2> SUFFICES ASSUME ProofInv, installed, phase = "graph" PROVE CompletionCloses
    BY DEF CompletionCloses
  <2>1. /\ CanonicalFacts(crime, travel) = evidence /\ CanonicalRoads(crime, travel) = travel
        /\ TravelRules(travel)
    BY DEF ProofInv, Stored, CompletionIsCanonical
  <2>2. Parses(crime)
    BY TruthParses DEF ProofInv, Stored
  <2>3. LET solved == Solve(travel, CanonicalFacts(crime, travel))
            Alike(o) == Normal(o) = Normal(crime.weapon)
        IN  /\ Len(solved.when.feasible) = 1 /\ HoldsTick(solved.when.feasible, crime.tick)
            /\ crime.resolution = "HOMICIDE" =>
                 IF OtherTargets(crime) = {} \/ DOMAIN travel # {}
                 THEN Answered(solved.who, crime.murderer) ELSE ~ solved.who.unique
            /\ IF crime.motive \in Candidates
               THEN Answered(solved.why, crime.motive) ELSE ~ solved.why.unique
            /\ IF {o \in Weapons : Alike(o)} = {crime.weapon}
               THEN Answered(solved.weapon, crime.weapon) ELSE ~ solved.weapon.unique
    BY <2>1, <2>2, CanonicalCloses
  <2> QED
    BY <2>1, <2>3 DEF CompletionCloses
<1> QED
  BY ProofInvariant, <1>1, PTL

================================================================================
