-------------------------- MODULE TileRangesProofs --------------------------
(***************************************************************************)
(* What the operators of TileRanges return, for all lists of ranges and    *)
(* any tile size.  The loops of the code are folds; TLAPS cannot           *)
(* instantiate an induction rule that has a predicate for a parameter, so  *)
(* the rules are stated here for sets (Induction) and for functions        *)
(* (FoldExists, FoldSteps), and each loop is brought into that form once.  *)
(***************************************************************************)
EXTENDS TileRanges, FiniteSets, TLAPS, WellFoundedInduction, FiniteSetTheorems

-----------------------------------------------------------------------------
(* Induction. *)

LEMMA Induction ==
    ASSUME NEW n \in Nat, NEW S, 0 \in S, \A k \in 1..n : k - 1 \in S => k \in S
    PROVE  \A k \in 0..n : k \in S
  <1> DEFINE T == { k \in Nat : k <= n /\ k \notin S }
  <1> SUFFICES ASSUME T # {} PROVE FALSE
    OBVIOUS
  <1>1. T \subseteq Nat
    OBVIOUS
  <1>2. PICK x \in T : \A y \in T : ~(<<y, x>> \in OpToRel(<, Nat))
    BY <1>1, WFMin, NatLessThanWellFounded
  <1>3. \A y \in T : ~(y < x)
    BY <1>1, <1>2 DEF OpToRel
  <1>4. x \in 1..n /\ x - 1 \in Nat /\ x - 1 <= n
    OBVIOUS
  <1>5. x - 1 \in S
    BY <1>3, <1>4
  <1> QED BY <1>4, <1>5

\* The greatest element of a set that holds the bound of its elements.
LEMMA MaxIsTop ==
    ASSUME NEW n \in Nat, NEW s \in SUBSET (1..n), n \in s
    PROVE  Max(s) = n
  <1>1. \A y \in s : n >= y
    OBVIOUS
  <1>2. \A x \in s : (\A y \in s : x >= y) => x = n
    OBVIOUS
  <1> QED BY <1>1, <1>2 DEF Max

\* The function that FoldLeft is defined with, for a fold by a function o.
IsFold(it, V, o, base, n, seq) ==
    /\ it \in [SUBSET (1..n) -> V]
    /\ it[{}] = base
    /\ \A s \in SUBSET (1..n) :
          s # {} => Max(s) \in 1..n /\ it[s] = o[<<it[s \ {Max(s)}], seq[Max(s)]>>]

\* A fold by a function o over a sequence: the function that FoldLeft is defined
\* with exists.
LEMMA FoldExists ==
    ASSUME NEW V, NEW E, NEW o \in [V \X E -> V], NEW base \in V, NEW n \in Nat,
           NEW seq \in [1..n -> E]
    PROVE  \E it : IsFold(it, V, o, base, n, seq)
  <1> DEFINE Good(m, it) == IsFold(it, V, o, base, m, seq)
             S == { m \in 0..n : \E it : Good(m, it) }
  <1>1. 0 \in S
    <2>1. [s \in SUBSET (1..0) |-> base] \in [SUBSET (1..0) -> V]
      OBVIOUS
    <2>2. \A s \in SUBSET (1..0) : s = {}
      OBVIOUS
    <2>3. Good(0, [s \in SUBSET (1..0) |-> base])
      BY <2>1, <2>2 DEF IsFold
    <2> HIDE DEF Good
    <2> QED BY <2>3
  <1>2. ASSUME NEW m \in 1..n, m - 1 \in S PROVE m \in S
    <2>0. PICK old : Good(m - 1, old)
      BY <1>2
    <2>1. /\ old \in [SUBSET (1..(m - 1)) -> V]
          /\ old[{}] = base
          /\ \A s \in SUBSET (1..(m - 1)) :
                s # {} => Max(s) \in 1..(m - 1) /\ old[s] = o[<<old[s \ {Max(s)}], seq[Max(s)]>>]
      BY <2>0 DEF IsFold
    <2> DEFINE new == [s \in SUBSET (1..m) |-> IF m \in s THEN o[<<old[s \ {m}], seq[m]>>] ELSE old[s]]
    <2>2. \A s \in SUBSET (1..m) : s \ {m} \in SUBSET (1..(m - 1))
      OBVIOUS
    <2>3. \A s \in SUBSET (1..m) : m \notin s => s \in SUBSET (1..(m - 1))
      OBVIOUS
    <2>4. new \in [SUBSET (1..m) -> V]
      BY <2>1, <2>2, <2>3
    <2>5. new[{}] = base
      BY <2>1
    <2>6. ASSUME NEW s \in SUBSET (1..m), s # {}
          PROVE  Max(s) \in 1..m /\ new[s] = o[<<new[s \ {Max(s)}], seq[Max(s)]>>]
      <3>1. CASE m \in s
        <4>1. Max(s) = m
          BY <3>1, MaxIsTop
        <4>2. new[s \ {m}] = old[s \ {m}]
          OBVIOUS
        <4> QED BY <3>1, <4>1, <4>2
      <3>2. CASE m \notin s
        <4>1. s \in SUBSET (1..(m - 1))
          BY <2>3, <3>2
        <4>2. Max(s) \in 1..(m - 1) /\ old[s] = o[<<old[s \ {Max(s)}], seq[Max(s)]>>]
          BY <2>1, <2>6, <4>1
        <4>3. new[s] = old[s] /\ new[s \ {Max(s)}] = old[s \ {Max(s)}]
          BY <3>2
        <4>4. Max(s) \in 1..m
          BY <4>2
        <4> HIDE DEF new
        <4> QED BY <4>2, <4>3, <4>4
      <3> QED BY <3>1, <3>2
    <2> HIDE DEF new
    <2>7. Good(m, new)
      BY <2>4, <2>5, <2>6 DEF IsFold
    <2> HIDE DEF Good
    <2> QED BY <2>7
  <1>3. n \in S
    <2> HIDE DEF S
    <2>1. \A k \in 1..n : k - 1 \in S => k \in S
      BY <1>2
    <2>2. \A k \in 0..n : k \in S
      BY <1>1, <2>1, Induction, Zenon
    <2> QED BY <2>2
  <1> QED BY <1>3

\* A function that does a step of o wherever it is in V, and the states of a
\* loop with the steps of o.
Follows(g, V, o, base, n, seq) ==
    /\ g[{}] = base
    /\ \A s \in SUBSET (1..n) :
          s # {} /\ g[s \ {Max(s)}] \in V => g[s] = o[<<g[s \ {Max(s)}], seq[Max(s)]>>]

IsLoop(a, g, V, o, base, n, seq) ==
    /\ a \in [0..n -> V]
    /\ a[0] = base
    /\ \A k \in 1..n : a[k] = o[<<a[k - 1], seq[k]>>]
    /\ g[1..n] = a[n]

\* A function that does a step of o wherever it is in V, as the one that a
\* fold is defined with does, gives the states of a loop.
LEMMA FoldSteps ==
    ASSUME NEW V, NEW E, NEW o \in [V \X E -> V], NEW base \in V, NEW n \in Nat,
           NEW seq \in [1..n -> E], NEW g, Follows(g, V, o, base, n, seq)
    PROVE  \E a : IsLoop(a, g, V, o, base, n, seq)
  <1> DEFINE S == { k \in 0..n : g[1..k] \in V }
             a == [k \in 0..n |-> g[1..k]]
  <1>1. ASSUME NEW k \in 1..n, g[1..(k - 1)] \in V
        PROVE  g[1..k] = o[<<g[1..(k - 1)], seq[k]>>] /\ g[1..k] \in V
    <2>1. Max(1..k) = k
      BY MaxIsTop
    <2>2. 1..k \in SUBSET (1..n)
      OBVIOUS
    <2>3. k \in 1..k
      OBVIOUS
    <2>4. (1..k) \ {k} = 1..(k - 1)
      OBVIOUS
    <2>5. g[1..k] = o[<<g[1..(k - 1)], seq[k]>>]
      BY <1>1, <2>1, <2>2, <2>3, <2>4 DEF Follows
    <2> QED BY <1>1, <2>5
  <1>2. g[1..0] = base
    <2>1. 1..0 = {}
      OBVIOUS
    <2> QED BY <2>1 DEF Follows
  <1>3. \A k \in 0..n : k \in S
    <2>1. 0 \in S
      BY <1>2
    <2>a. ASSUME NEW k \in 1..n, k - 1 \in S PROVE k \in S
      <3>1. g[1..(k - 1)] \in V
        BY <2>a
      <3>2. g[1..k] \in V
        BY <1>1, <3>1
      <3> QED BY <3>2
    <2>2. \A k \in 1..n : k - 1 \in S => k \in S
      BY <2>a
    <2> HIDE DEF S
    <2> QED BY <2>1, <2>2, Induction, Zenon
  <1>4. \A k \in 0..n : g[1..k] \in V
    BY <1>3
  <1>5. a \in [0..n -> V]
    BY <1>4
  <1>6. a[0] = base /\ g[1..n] = a[n]
    BY <1>2
  <1>7. \A k \in 1..n : a[k] = o[<<a[k - 1], seq[k]>>]
    <2>1. ASSUME NEW k \in 1..n PROVE g[1..k] = o[<<g[1..(k - 1)], seq[k]>>]
      <3>1. k - 1 \in 0..n
        OBVIOUS
      <3> QED BY <1>1, <1>4, <3>1
    <2> QED BY <2>1
  <1> HIDE DEF a
  <1> QED BY <1>5, <1>6, <1>7 DEF IsLoop
-----------------------------------------------------------------------------
(* The loops. *)

\* The loop of SimplifyRanges, and the outer one of InvalidRangesRemaining.
MergeAll(base, sorted) == FoldLeft(MergeSorted, base, sorted)

VisitAll(base, ranges, size, valid, resident) ==
    FoldLeft(LAMBDA acc, r : ExtendByMissing(acc, IndicesBelow(r, size), valid \cap resident),
             base, ranges)

\* The states of the loop of the insertion sort.
InsertLoop(a, V, n, seq) ==
    /\ a \in [0..n -> V]
    /\ a[0] = <<>>
    /\ \A k \in 1..n : a[k] = InsertByStart(a[k - 1], seq[k])
    /\ SortByStart(seq) = a[n]

LEMMA InsertFold ==
    ASSUME NEW V, NEW E, NEW n \in Nat, NEW seq \in [1..n -> E], <<>> \in V,
           \A v \in V : \A e \in E : InsertByStart(v, e) \in V
    PROVE  \E a : InsertLoop(a, V, n, seq)
  <1> DEFINE Step(v, e) == InsertByStart(v, e)
             F(it) == [s \in SUBSET (1..n) |->
                         IF s = {} THEN <<>> ELSE Step(it[s \ {Max(s)}], seq[Max(s)])]
             o == [p \in V \X E |-> Step(p[1], p[2])]
             g == CHOOSE x : x = F(x)
  <1>1. SortByStart(seq) = g[1..n]
    <2>1. DOMAIN seq = 1..n
      OBVIOUS
    <2> QED BY <2>1, Zenon DEF FoldLeft, MapThenFoldSet, SortByStart
  <1>0. \A v \in V : \A e \in E : Step(v, e) \in V
    OBVIOUS
  <1> SUFFICES \E a \in [0..n -> V] :
                  /\ a[0] = <<>>
                  /\ \A k \in 1..n : a[k] = Step(a[k - 1], seq[k])
                  /\ g[1..n] = a[n]
    BY <1>1 DEF InsertLoop
  <1> HIDE DEF Step
  <1>2. o \in [V \X E -> V]
    BY <1>0
  <1>3. PICK it : IsFold(it, V, o, <<>>, n, seq)
    BY <1>2, FoldExists
  <1>4. it = F(it)
    <2>1. ASSUME NEW s \in SUBSET (1..n)
          PROVE  it[s] = IF s = {} THEN <<>> ELSE Step(it[s \ {Max(s)}], seq[Max(s)])
      BY <1>3 DEF IsFold
    <2> QED BY <1>3, <2>1 DEF IsFold
  <1>5. g = F(g)
    <2> HIDE DEF F
    <2> QED BY <1>4, Zenon
  <1> HIDE DEF g
  <1>6. g[{}] = <<>>
    BY <1>5
  <1>7. ASSUME NEW s \in SUBSET (1..n), s # {}, g[s \ {Max(s)}] \in V
        PROVE  g[s] = o[<<g[s \ {Max(s)}], seq[Max(s)]>>]
    <2>1. Max(s) \in 1..n
      BY <1>3, <1>7 DEF IsFold
    <2>2. g[s] = Step(g[s \ {Max(s)}], seq[Max(s)])
      BY <1>5, <1>7
    <2> QED BY <1>7, <2>1, <2>2
  <1>8. Follows(g, V, o, <<>>, n, seq)
    <2> HIDE DEF o
    <2> QED BY <1>6, <1>7 DEF Follows
  <1>9. PICK a : IsLoop(a, g, V, o, <<>>, n, seq)
    <2> HIDE DEF o
    <2> QED BY <1>2, <1>8, FoldSteps
  <1>10. ASSUME NEW k \in 1..n PROVE a[k] = Step(a[k - 1], seq[k])
    <2>1. a[k - 1] \in V /\ seq[k] \in E
      BY <1>9 DEF IsLoop
    <2>2. o[<<a[k - 1], seq[k]>>] = Step(a[k - 1], seq[k])
      BY <2>1
    <2> HIDE DEF o
    <2> QED BY <1>9, <2>2 DEF IsLoop
  <1>11. a \in [0..n -> V] /\ a[0] = <<>> /\ g[1..n] = a[n]
    BY <1>9 DEF IsLoop
  <1> QED BY <1>10, <1>11

\* The states of the loop of SimplifyRanges.
MergeLoop(a, V, base, n, seq) ==
    /\ a \in [0..n -> V]
    /\ a[0] = base
    /\ \A k \in 1..n : a[k] = MergeSorted(a[k - 1], seq[k])
    /\ MergeAll(base, seq) = a[n]

LEMMA MergeFold ==
    ASSUME NEW V, NEW E, NEW n \in Nat, NEW seq \in [1..n -> E], NEW base \in V,
           \A v \in V : \A e \in E : MergeSorted(v, e) \in V
    PROVE  \E a : MergeLoop(a, V, base, n, seq)
  <1> DEFINE Step(v, e) == MergeSorted(v, e)
             F(it) == [s \in SUBSET (1..n) |->
                         IF s = {} THEN base ELSE Step(it[s \ {Max(s)}], seq[Max(s)])]
             o == [p \in V \X E |-> Step(p[1], p[2])]
             g == CHOOSE x : x = F(x)
  <1>1. MergeAll(base, seq) = g[1..n]
    <2>1. DOMAIN seq = 1..n
      OBVIOUS
    <2> QED BY <2>1, Zenon DEF FoldLeft, MapThenFoldSet, MergeAll
  <1>0. \A v \in V : \A e \in E : Step(v, e) \in V
    OBVIOUS
  <1> SUFFICES \E a \in [0..n -> V] :
                  /\ a[0] = base
                  /\ \A k \in 1..n : a[k] = Step(a[k - 1], seq[k])
                  /\ g[1..n] = a[n]
    BY <1>1 DEF MergeLoop
  <1> HIDE DEF Step
  <1>2. o \in [V \X E -> V]
    BY <1>0
  <1>3. PICK it : IsFold(it, V, o, base, n, seq)
    BY <1>2, FoldExists
  <1>4. it = F(it)
    <2>1. ASSUME NEW s \in SUBSET (1..n)
          PROVE  it[s] = IF s = {} THEN base ELSE Step(it[s \ {Max(s)}], seq[Max(s)])
      BY <1>3 DEF IsFold
    <2> QED BY <1>3, <2>1 DEF IsFold
  <1>5. g = F(g)
    <2> HIDE DEF F
    <2> QED BY <1>4, Zenon
  <1> HIDE DEF g
  <1>6. g[{}] = base
    BY <1>5
  <1>7. ASSUME NEW s \in SUBSET (1..n), s # {}, g[s \ {Max(s)}] \in V
        PROVE  g[s] = o[<<g[s \ {Max(s)}], seq[Max(s)]>>]
    <2>1. Max(s) \in 1..n
      BY <1>3, <1>7 DEF IsFold
    <2>2. g[s] = Step(g[s \ {Max(s)}], seq[Max(s)])
      BY <1>5, <1>7
    <2> QED BY <1>7, <2>1, <2>2
  <1>8. Follows(g, V, o, base, n, seq)
    <2> HIDE DEF o
    <2> QED BY <1>6, <1>7 DEF Follows
  <1>9. PICK a : IsLoop(a, g, V, o, base, n, seq)
    <2> HIDE DEF o
    <2> QED BY <1>2, <1>8, FoldSteps
  <1>10. ASSUME NEW k \in 1..n PROVE a[k] = Step(a[k - 1], seq[k])
    <2>1. a[k - 1] \in V /\ seq[k] \in E
      BY <1>9 DEF IsLoop
    <2>2. o[<<a[k - 1], seq[k]>>] = Step(a[k - 1], seq[k])
      BY <2>1
    <2> HIDE DEF o
    <2> QED BY <1>9, <2>2 DEF IsLoop
  <1>11. a \in [0..n -> V] /\ a[0] = base /\ g[1..n] = a[n]
    BY <1>9 DEF IsLoop
  <1> QED BY <1>10, <1>11

\* The states of the loop of TileCount.
CountLoop(a, V, n, seq) ==
    /\ a \in [0..n -> V]
    /\ a[0] = 0
    /\ \A k \in 1..n : a[k] = a[k - 1] + (seq[k].index_end - seq[k].index_start + 1)
    /\ TileCount(seq) = a[n]

LEMMA CountFold ==
    ASSUME NEW V, NEW E, NEW n \in Nat, NEW seq \in [1..n -> E], 0 \in V,
           \A v \in V : \A e \in E : v + (e.index_end - e.index_start + 1) \in V
    PROVE  \E a : CountLoop(a, V, n, seq)
  <1> DEFINE Step(v, e) == v + (e.index_end - e.index_start + 1)
             F(it) == [s \in SUBSET (1..n) |->
                         IF s = {} THEN 0 ELSE Step(it[s \ {Max(s)}], seq[Max(s)])]
             o == [p \in V \X E |-> Step(p[1], p[2])]
             g == CHOOSE x : x = F(x)
  <1>1. TileCount(seq) = g[1..n]
    <2>1. DOMAIN seq = 1..n
      OBVIOUS
    <2> QED BY <2>1, Zenon DEF FoldLeft, MapThenFoldSet, TileCount
  <1>0. \A v \in V : \A e \in E : Step(v, e) \in V
    OBVIOUS
  <1> SUFFICES \E a \in [0..n -> V] :
                  /\ a[0] = 0
                  /\ \A k \in 1..n : a[k] = Step(a[k - 1], seq[k])
                  /\ g[1..n] = a[n]
    BY <1>1 DEF CountLoop
  <1> HIDE DEF Step
  <1>2. o \in [V \X E -> V]
    BY <1>0
  <1>3. PICK it : IsFold(it, V, o, 0, n, seq)
    BY <1>2, FoldExists
  <1>4. it = F(it)
    <2>1. ASSUME NEW s \in SUBSET (1..n)
          PROVE  it[s] = IF s = {} THEN 0 ELSE Step(it[s \ {Max(s)}], seq[Max(s)])
      BY <1>3 DEF IsFold
    <2> QED BY <1>3, <2>1 DEF IsFold
  <1>5. g = F(g)
    <2> HIDE DEF F
    <2> QED BY <1>4, Zenon
  <1> HIDE DEF g
  <1>6. g[{}] = 0
    BY <1>5
  <1>7. ASSUME NEW s \in SUBSET (1..n), s # {}, g[s \ {Max(s)}] \in V
        PROVE  g[s] = o[<<g[s \ {Max(s)}], seq[Max(s)]>>]
    <2>1. Max(s) \in 1..n
      BY <1>3, <1>7 DEF IsFold
    <2>2. g[s] = Step(g[s \ {Max(s)}], seq[Max(s)])
      BY <1>5, <1>7
    <2> QED BY <1>7, <2>1, <2>2
  <1>8. Follows(g, V, o, 0, n, seq)
    <2> HIDE DEF o
    <2> QED BY <1>6, <1>7 DEF Follows
  <1>9. PICK a : IsLoop(a, g, V, o, 0, n, seq)
    <2> HIDE DEF o
    <2> QED BY <1>2, <1>8, FoldSteps
  <1>10. ASSUME NEW k \in 1..n PROVE a[k] = Step(a[k - 1], seq[k])
    <2>1. a[k - 1] \in V /\ seq[k] \in E
      BY <1>9 DEF IsLoop
    <2>2. o[<<a[k - 1], seq[k]>>] = Step(a[k - 1], seq[k])
      BY <2>1
    <2> HIDE DEF o
    <2> QED BY <1>9, <2>2 DEF IsLoop
  <1>11. a \in [0..n -> V] /\ a[0] = 0 /\ g[1..n] = a[n]
    BY <1>9 DEF IsLoop
  <1> QED BY <1>10, <1>11

\* The states of the loop that adds missing indices.
MissingLoop(a, V, base, n, seq, present) ==
    /\ a \in [0..n -> V]
    /\ a[0] = base
    /\ \A k \in 1..n : a[k] = (IF seq[k] \in present THEN a[k - 1] ELSE ExtendRanges(a[k - 1], seq[k]))
    /\ ExtendByMissing(base, seq, present) = a[n]

LEMMA MissingFold ==
    ASSUME NEW V, NEW E, NEW n \in Nat, NEW seq \in [1..n -> E], NEW base \in V,
           NEW present,
           \A v \in V : \A e \in E : (IF e \in present THEN v ELSE ExtendRanges(v, e)) \in V
    PROVE  \E a : MissingLoop(a, V, base, n, seq, present)
  <1> DEFINE Step(v, e) == (IF e \in present THEN v ELSE ExtendRanges(v, e))
             F(it) == [s \in SUBSET (1..n) |->
                         IF s = {} THEN base ELSE Step(it[s \ {Max(s)}], seq[Max(s)])]
             o == [p \in V \X E |-> Step(p[1], p[2])]
             g == CHOOSE x : x = F(x)
  <1>1. ExtendByMissing(base, seq, present) = g[1..n]
    <2>1. DOMAIN seq = 1..n
      OBVIOUS
    <2> QED BY <2>1, Zenon DEF FoldLeft, MapThenFoldSet, ExtendByMissing
  <1>0. \A v \in V : \A e \in E : Step(v, e) \in V
    OBVIOUS
  <1> SUFFICES \E a \in [0..n -> V] :
                  /\ a[0] = base
                  /\ \A k \in 1..n : a[k] = Step(a[k - 1], seq[k])
                  /\ g[1..n] = a[n]
    BY <1>1 DEF MissingLoop
  <1> HIDE DEF Step
  <1>2. o \in [V \X E -> V]
    BY <1>0
  <1>3. PICK it : IsFold(it, V, o, base, n, seq)
    BY <1>2, FoldExists
  <1>4. it = F(it)
    <2>1. ASSUME NEW s \in SUBSET (1..n)
          PROVE  it[s] = IF s = {} THEN base ELSE Step(it[s \ {Max(s)}], seq[Max(s)])
      BY <1>3 DEF IsFold
    <2> QED BY <1>3, <2>1 DEF IsFold
  <1>5. g = F(g)
    <2> HIDE DEF F
    <2> QED BY <1>4, Zenon
  <1> HIDE DEF g
  <1>6. g[{}] = base
    BY <1>5
  <1>7. ASSUME NEW s \in SUBSET (1..n), s # {}, g[s \ {Max(s)}] \in V
        PROVE  g[s] = o[<<g[s \ {Max(s)}], seq[Max(s)]>>]
    <2>1. Max(s) \in 1..n
      BY <1>3, <1>7 DEF IsFold
    <2>2. g[s] = Step(g[s \ {Max(s)}], seq[Max(s)])
      BY <1>5, <1>7
    <2> QED BY <1>7, <2>1, <2>2
  <1>8. Follows(g, V, o, base, n, seq)
    <2> HIDE DEF o
    <2> QED BY <1>6, <1>7 DEF Follows
  <1>9. PICK a : IsLoop(a, g, V, o, base, n, seq)
    <2> HIDE DEF o
    <2> QED BY <1>2, <1>8, FoldSteps
  <1>10. ASSUME NEW k \in 1..n PROVE a[k] = Step(a[k - 1], seq[k])
    <2>1. a[k - 1] \in V /\ seq[k] \in E
      BY <1>9 DEF IsLoop
    <2>2. o[<<a[k - 1], seq[k]>>] = Step(a[k - 1], seq[k])
      BY <2>1
    <2> HIDE DEF o
    <2> QED BY <1>9, <2>2 DEF IsLoop
  <1>11. a \in [0..n -> V] /\ a[0] = base /\ g[1..n] = a[n]
    BY <1>9 DEF IsLoop
  <1> QED BY <1>10, <1>11

\* The states of the loop of ClipRanges.
ClipLoop(a, V, n, seq, limit) ==
    /\ a \in [0..n -> V]
    /\ a[0] = <<>>
    /\ \A k \in 1..n : a[k] = (IF Outside(seq[k], limit) THEN a[k - 1] ELSE Append(a[k - 1], ClipRange(seq[k], limit)))
    /\ ClipRanges(seq, limit) = a[n]

LEMMA ClipFold ==
    ASSUME NEW V, NEW E, NEW n \in Nat, NEW seq \in [1..n -> E], <<>> \in V,
           NEW limit,
           \A v \in V : \A e \in E : (IF Outside(e, limit) THEN v ELSE Append(v, ClipRange(e, limit))) \in V
    PROVE  \E a : ClipLoop(a, V, n, seq, limit)
  <1> DEFINE Step(v, e) == (IF Outside(e, limit) THEN v ELSE Append(v, ClipRange(e, limit)))
             F(it) == [s \in SUBSET (1..n) |->
                         IF s = {} THEN <<>> ELSE Step(it[s \ {Max(s)}], seq[Max(s)])]
             o == [p \in V \X E |-> Step(p[1], p[2])]
             g == CHOOSE x : x = F(x)
  <1>1. ClipRanges(seq, limit) = g[1..n]
    <2>1. DOMAIN seq = 1..n
      OBVIOUS
    <2> QED BY <2>1, Zenon DEF FoldLeft, MapThenFoldSet, ClipRanges
  <1>0. \A v \in V : \A e \in E : Step(v, e) \in V
    OBVIOUS
  <1> SUFFICES \E a \in [0..n -> V] :
                  /\ a[0] = <<>>
                  /\ \A k \in 1..n : a[k] = Step(a[k - 1], seq[k])
                  /\ g[1..n] = a[n]
    BY <1>1 DEF ClipLoop
  <1> HIDE DEF Step
  <1>2. o \in [V \X E -> V]
    BY <1>0
  <1>3. PICK it : IsFold(it, V, o, <<>>, n, seq)
    BY <1>2, FoldExists
  <1>4. it = F(it)
    <2>1. ASSUME NEW s \in SUBSET (1..n)
          PROVE  it[s] = IF s = {} THEN <<>> ELSE Step(it[s \ {Max(s)}], seq[Max(s)])
      BY <1>3 DEF IsFold
    <2> QED BY <1>3, <2>1 DEF IsFold
  <1>5. g = F(g)
    <2> HIDE DEF F
    <2> QED BY <1>4, Zenon
  <1> HIDE DEF g
  <1>6. g[{}] = <<>>
    BY <1>5
  <1>7. ASSUME NEW s \in SUBSET (1..n), s # {}, g[s \ {Max(s)}] \in V
        PROVE  g[s] = o[<<g[s \ {Max(s)}], seq[Max(s)]>>]
    <2>1. Max(s) \in 1..n
      BY <1>3, <1>7 DEF IsFold
    <2>2. g[s] = Step(g[s \ {Max(s)}], seq[Max(s)])
      BY <1>5, <1>7
    <2> QED BY <1>7, <2>1, <2>2
  <1>8. Follows(g, V, o, <<>>, n, seq)
    <2> HIDE DEF o
    <2> QED BY <1>6, <1>7 DEF Follows
  <1>9. PICK a : IsLoop(a, g, V, o, <<>>, n, seq)
    <2> HIDE DEF o
    <2> QED BY <1>2, <1>8, FoldSteps
  <1>10. ASSUME NEW k \in 1..n PROVE a[k] = Step(a[k - 1], seq[k])
    <2>1. a[k - 1] \in V /\ seq[k] \in E
      BY <1>9 DEF IsLoop
    <2>2. o[<<a[k - 1], seq[k]>>] = Step(a[k - 1], seq[k])
      BY <2>1
    <2> HIDE DEF o
    <2> QED BY <1>9, <2>2 DEF IsLoop
  <1>11. a \in [0..n -> V] /\ a[0] = <<>> /\ g[1..n] = a[n]
    BY <1>9 DEF IsLoop
  <1> QED BY <1>10, <1>11

\* The states of the outer loop of InvalidRangesRemaining.
RemainingLoop(a, V, base, n, seq, size, valid, resident) ==
    /\ a \in [0..n -> V]
    /\ a[0] = base
    /\ \A k \in 1..n : a[k] = ExtendByMissing(a[k - 1], IndicesBelow(seq[k], size), valid \cap resident)
    /\ VisitAll(base, seq, size, valid, resident) = a[n]

LEMMA RemainingFold ==
    ASSUME NEW V, NEW E, NEW n \in Nat, NEW seq \in [1..n -> E], NEW base \in V,
           NEW size, NEW valid, NEW resident,
           \A v \in V : \A e \in E : ExtendByMissing(v, IndicesBelow(e, size), valid \cap resident) \in V
    PROVE  \E a : RemainingLoop(a, V, base, n, seq, size, valid, resident)
  <1> DEFINE Step(v, e) == ExtendByMissing(v, IndicesBelow(e, size), valid \cap resident)
             F(it) == [s \in SUBSET (1..n) |->
                         IF s = {} THEN base ELSE Step(it[s \ {Max(s)}], seq[Max(s)])]
             o == [p \in V \X E |-> Step(p[1], p[2])]
             g == CHOOSE x : x = F(x)
  <1>1. VisitAll(base, seq, size, valid, resident) = g[1..n]
    <2>1. DOMAIN seq = 1..n
      OBVIOUS
    <2> QED BY <2>1, Zenon DEF FoldLeft, MapThenFoldSet, VisitAll
  <1>0. \A v \in V : \A e \in E : Step(v, e) \in V
    OBVIOUS
  <1> SUFFICES \E a \in [0..n -> V] :
                  /\ a[0] = base
                  /\ \A k \in 1..n : a[k] = Step(a[k - 1], seq[k])
                  /\ g[1..n] = a[n]
    BY <1>1 DEF RemainingLoop
  <1> HIDE DEF Step
  <1>2. o \in [V \X E -> V]
    BY <1>0
  <1>3. PICK it : IsFold(it, V, o, base, n, seq)
    BY <1>2, FoldExists
  <1>4. it = F(it)
    <2>1. ASSUME NEW s \in SUBSET (1..n)
          PROVE  it[s] = IF s = {} THEN base ELSE Step(it[s \ {Max(s)}], seq[Max(s)])
      BY <1>3 DEF IsFold
    <2> QED BY <1>3, <2>1 DEF IsFold
  <1>5. g = F(g)
    <2> HIDE DEF F
    <2> QED BY <1>4, Zenon
  <1> HIDE DEF g
  <1>6. g[{}] = base
    BY <1>5
  <1>7. ASSUME NEW s \in SUBSET (1..n), s # {}, g[s \ {Max(s)}] \in V
        PROVE  g[s] = o[<<g[s \ {Max(s)}], seq[Max(s)]>>]
    <2>1. Max(s) \in 1..n
      BY <1>3, <1>7 DEF IsFold
    <2>2. g[s] = Step(g[s \ {Max(s)}], seq[Max(s)])
      BY <1>5, <1>7
    <2> QED BY <1>7, <2>1, <2>2
  <1>8. Follows(g, V, o, base, n, seq)
    <2> HIDE DEF o
    <2> QED BY <1>6, <1>7 DEF Follows
  <1>9. PICK a : IsLoop(a, g, V, o, base, n, seq)
    <2> HIDE DEF o
    <2> QED BY <1>2, <1>8, FoldSteps
  <1>10. ASSUME NEW k \in 1..n PROVE a[k] = Step(a[k - 1], seq[k])
    <2>1. a[k - 1] \in V /\ seq[k] \in E
      BY <1>9 DEF IsLoop
    <2>2. o[<<a[k - 1], seq[k]>>] = Step(a[k - 1], seq[k])
      BY <2>1
    <2> HIDE DEF o
    <2> QED BY <1>9, <2>2 DEF IsLoop
  <1>11. a \in [0..n -> V] /\ a[0] = base /\ g[1..n] = a[n]
    BY <1>9 DEF IsLoop
  <1> QED BY <1>10, <1>11
-----------------------------------------------------------------------------
(* Lists of ranges. *)

\* Ranges that hold a tile, lists of them, lists that are in order and lists
\* whose ranges do not overlap.
FullRanges == { r \in [index_start : Int, index_end : Int] : r.index_start <= r.index_end }

Sorted(s) == \A i, j \in 1..Len(s) : i <= j => s[i].index_start <= s[j].index_start

Apart(s) == \A i, j \in 1..Len(s) : i < j => s[i].index_end < s[j].index_start

LEMMA InTilesInAll ==
    ASSUME NEW s \in Seq(FullRanges), NEW x
    PROVE  x \in TilesInAll(s) <=>
               /\ x \in Int
               /\ \E i \in 1..Len(s) : s[i].index_start <= x /\ x <= s[i].index_end
  <1>1. DOMAIN s = 1..Len(s) /\ \A i \in 1..Len(s) : s[i] \in FullRanges
    OBVIOUS
  <1>2. \A i \in 1..Len(s) : s[i].index_start \in Int /\ s[i].index_end \in Int
    BY <1>1 DEF FullRanges
  <1>3. x \in TilesInAll(s) <=> \E i \in 1..Len(s) : x \in TilesIn(s[i])
    BY <1>1 DEF TilesInAll
  <1> QED BY <1>2, <1>3 DEF TilesIn

LEMMA LeastNatural ==
    ASSUME NEW S \in SUBSET Nat, S # {}
    PROVE  \E x \in S : \A y \in S : x <= y
  <1>1. PICK x \in S : \A y \in S : ~(<<y, x>> \in OpToRel(<, Nat))
    BY WFMin, NatLessThanWellFounded
  <1>2. \A y \in S : ~(y < x)
    BY <1>1 DEF OpToRel
  <1> QED BY <1>2

\* InsertByStart keeps the order and adds the range.
LEMMA InsertStep ==
    ASSUME NEW acc \in Seq(FullRanges), Sorted(acc), NEW range \in FullRanges
    PROVE  LET new == InsertByStart(acc, range)
           IN  /\ new \in Seq(FullRanges) /\ Sorted(new) /\ Len(new) = Len(acc) + 1
               /\ \A x : (\E i \in 1..Len(new) : new[i] = x)
                            <=> x = range \/ \E i \in 1..Len(acc) : acc[i] = x
  <1> DEFINE len == Len(acc)
             Place(n) == /\ \A i \in 1..n : acc[i].index_start <= range.index_start
                         /\ \A i \in (n + 1)..len : range.index_start < acc[i].index_start
             before == CHOOSE n \in 0..len : Place(n)
             new == InsertByStart(acc, range)
  <1>0. /\ len \in Nat /\ range.index_start \in Int
        /\ \A i \in 1..len : acc[i] \in FullRanges /\ acc[i].index_start \in Int
    BY DEF FullRanges
  <1>1. \E n \in 0..len : Place(n)
    <2> DEFINE S == { n \in 0..len : \A i \in (n + 1)..len : range.index_start < acc[i].index_start }
    <2>1. S \in SUBSET Nat /\ len \in S
      BY <1>0
    <2>2. PICK n \in S : \A m \in S : n <= m
      BY <2>1, LeastNatural
    <2>3. ASSUME NEW i \in 1..n PROVE acc[i].index_start <= range.index_start
      <3>0. n \in 0..len
        OBVIOUS
      <3>1. n \in 1..len /\ n - 1 \in 0..len /\ ~(n - 1 \in S)
        <4> HIDE DEF S, len
        <4>1. n \in 1..len /\ n - 1 \in 0..len
          BY <1>0, <3>0
        <4>2. ~(n <= n - 1)
          BY <4>1
        <4> QED BY <2>2, <4>1, <4>2
      <3>2. PICK j \in ((n - 1) + 1)..len : ~(range.index_start < acc[j].index_start)
        BY <3>1
      <3>3. j = n
        BY <2>2, <3>1, <3>2
      <3>4. acc[n].index_start <= range.index_start
        BY <1>0, <3>1, <3>2, <3>3
      <3>5. acc[i].index_start <= acc[n].index_start
        BY <3>1 DEF Sorted
      <3>6. i \in 1..len
        BY <3>1
      <3> QED BY <1>0, <3>1, <3>4, <3>5, <3>6
    <2> QED BY <2>2, <2>3
  <1>2. before \in 0..len /\ Place(before)
    <2> HIDE DEF Place
    <2> QED BY <1>1
  <1>3. new = SubSeq(acc, 1, before) \o <<range>> \o SubSeq(acc, before + 1, len)
    <2>1. (before + 1) - 1 = before
      BY <1>2
    <2>2. new = InsertAt(acc, before + 1, range)
      BY DEF InsertByStart
    <2> HIDE DEF before, new
    <2> QED BY <2>1, <2>2 DEF InsertAt
  <1> HIDE DEF before, new
  <1>4. /\ new \in Seq(FullRanges) /\ Len(new) = len + 1
        /\ \A i \in 1..(len + 1) :
              new[i] = IF i <= before THEN acc[i] ELSE IF i = before + 1 THEN range ELSE acc[i - 1]
    <2> DEFINE a == SubSeq(acc, 1, before)
               b == SubSeq(acc, before + 1, len)
    <2>1. a \in Seq(FullRanges) /\ Len(a) = before /\ \A i \in 1..before : a[i] = acc[i]
      BY <1>0, <1>2
    <2>2. b \in Seq(FullRanges) /\ Len(b) = len - before
          /\ \A i \in 1..(len - before) : b[i] = acc[before + i]
      BY <1>0, <1>2
    <2>3. <<range>> \in Seq(FullRanges) /\ Len(<<range>>) = 1 /\ <<range>>[1] = range
      OBVIOUS
    <2>4. new = a \o <<range>> \o b
      BY <1>3
    <2> HIDE DEF a, b
    <2>5. a \o <<range>> \in Seq(FullRanges) /\ Len(a \o <<range>>) = before + 1
          /\ (\A i \in 1..before : (a \o <<range>>)[i] = acc[i])
          /\ (a \o <<range>>)[before + 1] = range
      BY <1>2, <2>1, <2>3
    <2> DEFINE c == a \o <<range>>
    <2> HIDE DEF c
    <2>6. c \in Seq(FullRanges) /\ Len(c) = before + 1 /\ (\A i \in 1..before : c[i] = acc[i])
          /\ c[before + 1] = range /\ new = c \o b
      BY <2>4, <2>5 DEF c
    <2>7. new \in Seq(FullRanges) /\ Len(new) = len + 1
      <3>0. c \in Seq(FullRanges) /\ b \in Seq(FullRanges)
        BY <2>2, <2>6
      <3>1. c \o b \in Seq(FullRanges) /\ Len(c \o b) = Len(c) + Len(b)
        BY ONLY <3>0
      <3>2. (before + 1) + (len - before) = len + 1
        BY <1>0, <1>2
      <3> HIDE DEF len
      <3> QED BY <2>2, <2>6, <3>1, <3>2
    <2>8. ASSUME NEW i \in 1..(len + 1)
          PROVE  new[i] = IF i <= before THEN acc[i]
                          ELSE IF i = before + 1 THEN range ELSE acc[i - 1]
      <3>1. CASE i <= before + 1
        <4>1. new[i] = c[i]
          BY <1>2, <2>2, <2>6, <3>1
        <4> QED BY <1>2, <2>6, <3>1, <4>1
      <3>2. CASE i > before + 1
        <4>1. new[i] = b[i - (before + 1)]
          BY <1>0, <1>2, <2>2, <2>6, <3>2
        <4>2. i - (before + 1) \in 1..(len - before) /\ before + (i - (before + 1)) = i - 1
          BY <1>0, <1>2, <3>2
        <4> QED BY <1>2, <2>2, <3>2, <4>1, <4>2
      <3> QED BY <1>2, <3>1, <3>2
    <2> QED BY <2>7, <2>8
  <1>5. Sorted(new)
    <2> SUFFICES ASSUME NEW i \in 1..(len + 1), NEW j \in 1..(len + 1), i <= j
                 PROVE  new[i].index_start <= new[j].index_start
      BY <1>4 DEF Sorted
    <2>1. \A p, q \in 1..len : p <= q => acc[p].index_start <= acc[q].index_start
      BY DEF Sorted
    <2>2. \A p \in 1..before : p \in 1..len /\ acc[p].index_start <= range.index_start
      BY <1>0, <1>2
    <2>3. \A p \in (before + 1)..len : p \in 1..len /\ range.index_start < acc[p].index_start
      BY <1>0, <1>2
    <2>4. /\ new[i] = IF i <= before THEN acc[i] ELSE IF i = before + 1 THEN range ELSE acc[i - 1]
          /\ new[j] = IF j <= before THEN acc[j] ELSE IF j = before + 1 THEN range ELSE acc[j - 1]
      BY <1>4
    <2>5. CASE i <= before /\ j <= before
      BY <1>2, <2>1, <2>2, <2>4, <2>5
    <2>6. CASE i <= before /\ j = before + 1
      BY <1>2, <2>2, <2>4, <2>6
    <2>7. CASE i <= before /\ j > before + 1
      <3>1. i \in 1..before /\ j - 1 \in (before + 1)..len /\ i \in 1..len /\ j - 1 \in 1..len /\ i <= j - 1
        BY <1>0, <1>2, <2>7
      <3>2. new[i] = acc[i] /\ new[j] = acc[j - 1]
        BY <1>2, <2>4, <2>7
      <3> QED BY <2>1, <3>1, <3>2
    <2>8. CASE i = before + 1 /\ j = before + 1
      BY <1>0, <1>2, <2>4, <2>8
    <2>9. CASE i = before + 1 /\ j > before + 1
      <3>1. j - 1 \in (before + 1)..len
        BY <1>0, <1>2, <2>9
      <3>2. new[i] = range /\ new[j] = acc[j - 1]
        BY <1>2, <2>4, <2>9
      <3> QED BY <1>0, <2>3, <3>1, <3>2
    <2>10. CASE i > before + 1
      <3>1. i - 1 \in 1..len /\ j - 1 \in 1..len /\ i - 1 <= j - 1
        BY <1>0, <1>2, <2>10
      <3>2. new[i] = acc[i - 1] /\ new[j] = acc[j - 1]
        BY <1>2, <2>4, <2>10
      <3> QED BY <2>1, <3>1, <3>2
    <2> QED BY <1>2, <2>5, <2>6, <2>7, <2>8, <2>9, <2>10
  <1>6. ASSUME NEW x, NEW i \in 1..(len + 1), new[i] = x
        PROVE  x = range \/ \E j \in 1..len : acc[j] = x
    <2>1. CASE i <= before
      <3>1. i \in 1..len /\ new[i] = acc[i]
        BY <1>0, <1>2, <1>4, <2>1
      <3> QED BY <1>6, <3>1
    <2>2. CASE i = before + 1
      BY <1>2, <1>4, <1>6, <2>2
    <2>3. CASE i > before + 1
      <3>1. i - 1 \in 1..len /\ new[i] = acc[i - 1]
        BY <1>0, <1>2, <1>4, <2>3
      <3> QED BY <1>6, <3>1
    <2> QED BY <1>2, <2>1, <2>2, <2>3
  <1>7. new[before + 1] = range /\ before + 1 \in 1..(len + 1)
    BY <1>0, <1>2, <1>4
  <1>8. ASSUME NEW j \in 1..len PROVE \E i \in 1..(len + 1) : new[i] = acc[j]
    <2>1. CASE j <= before
      <3>1. j \in 1..(len + 1) /\ new[j] = acc[j]
        BY <1>0, <1>2, <1>4, <2>1
      <3> QED BY <3>1
    <2>2. CASE j > before
      <3>1. j + 1 \in 1..(len + 1) /\ ~(j + 1 <= before) /\ j + 1 # before + 1 /\ (j + 1) - 1 = j
        BY <1>0, <1>2, <2>2
      <3>2. new[j + 1] = acc[j]
        BY <1>4, <3>1
      <3> QED BY <3>1, <3>2
    <2> QED BY <1>2, <2>1, <2>2
  <1>9. \A x : (\E i \in 1..Len(new) : new[i] = x)
                  <=> x = range \/ \E i \in 1..Len(acc) : acc[i] = x
    BY <1>4, <1>6, <1>7, <1>8
  <1> QED BY <1>4, <1>5, <1>9 DEF new

\* SortByStart returns the same ranges in order.
LEMMA SortResult ==
    ASSUME NEW ranges \in Seq(FullRanges)
    PROVE  LET s == SortByStart(ranges)
           IN  /\ s \in Seq(FullRanges) /\ Sorted(s) /\ Len(s) = Len(ranges)
               /\ TilesInAll(s) = TilesInAll(ranges)
  <1> DEFINE n == Len(ranges)
             V == { s \in Seq(FullRanges) : Sorted(s) }
             Same(s, k) == /\ Len(s) = k
                           /\ \A x : (\E i \in 1..k : s[i] = x) <=> (\E i \in 1..k : ranges[i] = x)
  <1>1. n \in Nat /\ ranges \in [1..n -> FullRanges]
    OBVIOUS
  <1>2. << >> \in V
    BY DEF Sorted
  <1>3. \A v \in V : \A e \in FullRanges : InsertByStart(v, e) \in V
    BY InsertStep
  <1>4. PICK a : InsertLoop(a, V, n, ranges)
    <2> HIDE DEF V, n
    <2> QED BY <1>1, <1>2, <1>3, InsertFold
  <1>a. /\ a \in [0..n -> V] /\ a[0] = << >> /\ SortByStart(ranges) = a[n]
        /\ \A k \in 1..n : a[k] = InsertByStart(a[k - 1], ranges[k])
    BY <1>4 DEF InsertLoop
  <1> DEFINE S == { k \in 0..n : Same(a[k], k) }
  <1>5. 0 \in S
    BY <1>1, <1>a
  <1>6. ASSUME NEW k \in 1..n, k - 1 \in S PROVE k \in S
    <2>1. a[k - 1] \in Seq(FullRanges) /\ Sorted(a[k - 1]) /\ Same(a[k - 1], k - 1)
      BY <1>1, <1>a, <1>6
    <2>2. ranges[k] \in FullRanges /\ a[k] = InsertByStart(a[k - 1], ranges[k])
      BY <1>1, <1>a
    <2>3. /\ Len(a[k]) = Len(a[k - 1]) + 1
          /\ \A x : (\E i \in 1..Len(a[k]) : a[k][i] = x)
                       <=> x = ranges[k] \/ \E i \in 1..Len(a[k - 1]) : a[k - 1][i] = x
      <3> DEFINE old == a[k - 1]
                 r == ranges[k]
      <3>1. old \in Seq(FullRanges) /\ Sorted(old) /\ r \in FullRanges
        BY <2>1, <2>2
      <3> HIDE DEF old, r
      <3> DEFINE new == InsertByStart(old, r)
      <3>2. /\ Len(new) = Len(old) + 1
            /\ \A x : (\E i \in 1..Len(new) : new[i] = x)
                         <=> x = r \/ \E i \in 1..Len(old) : old[i] = x
        BY <3>1, InsertStep
      <3>3. new = a[k]
        BY <2>2 DEF old, r
      <3> HIDE DEF new
      <3> QED BY <3>2, <3>3 DEF old, r
    <2>4. Len(a[k - 1]) = k - 1 /\ Len(a[k]) = k
      BY <2>1, <2>3
    <2>5. \A x : (\E i \in 1..k : ranges[i] = x)
                    <=> x = ranges[k] \/ \E i \in 1..(k - 1) : ranges[i] = x
      <3>1. \A i \in 1..k : i = k \/ i \in 1..(k - 1)
        OBVIOUS
      <3>2. k \in 1..k /\ \A i \in 1..(k - 1) : i \in 1..k
        OBVIOUS
      <3> QED BY <3>1, <3>2
    <2>6. \A x : (\E i \in 1..k : a[k][i] = x)
                    <=> x = ranges[k] \/ \E i \in 1..(k - 1) : a[k - 1][i] = x
      BY <2>3, <2>4
    <2>7. Same(a[k], k)
      BY <2>1, <2>4, <2>5, <2>6
    <2> HIDE DEF Same
    <2> QED BY <2>7
  <1>7. n \in S
    <2> HIDE DEF S
    <2>1. \A k \in 1..n : k - 1 \in S => k \in S
      BY <1>6
    <2>2. \A k \in 0..n : k \in S
      BY <1>1, <1>5, <2>1, Induction, Zenon
    <2> QED BY <1>1, <2>2
  <1>8. SortByStart(ranges) = a[n] /\ a[n] \in V /\ Same(a[n], n)
    BY <1>1, <1>a, <1>7
  <1> DEFINE s == SortByStart(ranges)
  <1>9. s \in Seq(FullRanges) /\ Sorted(s) /\ Same(s, n)
    BY <1>8
  <1> HIDE DEF s
  <1>10. ASSUME NEW x PROVE x \in TilesInAll(s) <=> x \in TilesInAll(ranges)
    <2> DEFINE Holds(r) == r.index_start <= x /\ x <= r.index_end
    <2>1. x \in TilesInAll(s) <=> x \in Int /\ \E i \in 1..n : Holds(s[i])
      BY <1>9, InTilesInAll
    <2>2. x \in TilesInAll(ranges) <=> x \in Int /\ \E i \in 1..n : Holds(ranges[i])
      BY InTilesInAll
    <2> HIDE DEF Holds, n
    <2>3. (\E i \in 1..n : Holds(s[i])) <=> (\E i \in 1..n : Holds(ranges[i]))
      BY <1>9
    <2> QED BY <2>1, <2>2, <2>3
  <1> QED BY <1>9, <1>10 DEF s

\* MergeSorted keeps ranges apart and adds the tiles of the range, which starts
\* no earlier than the last one.
LEMMA MergeStep ==
    ASSUME NEW acc \in Seq(FullRanges), Len(acc) > 0, NEW range \in FullRanges
    PROVE  LET new == MergeSorted(acc, range)
           IN  /\ new \in Seq(FullRanges) /\ Len(new) > 0
               /\ Apart(acc) /\ Last(acc).index_start <= range.index_start
                    => /\ Apart(new) /\ Last(new).index_start <= range.index_start
                       /\ \A x : x \in TilesInAll(new)
                                    <=> x \in TilesInAll(acc) \/ x \in TilesIn(range)
  <1> DEFINE n == Len(acc)
             last == acc[n]
             new == MergeSorted(acc, range)
             Good == /\ new \in Seq(FullRanges) /\ Len(new) > 0
                     /\ Apart(acc) /\ last.index_start <= range.index_start
                          => /\ Apart(new) /\ Last(new).index_start <= range.index_start
                             /\ \A x : x \in TilesInAll(new)
                                          <=> x \in TilesInAll(acc) \/ x \in TilesIn(range)
  <1>0. /\ n \in Nat /\ n > 0 /\ Last(acc) = last
        /\ range.index_start \in Int /\ range.index_end \in Int
        /\ range.index_start <= range.index_end
        /\ \A i \in 1..n : /\ acc[i] \in FullRanges /\ acc[i].index_start \in Int
                           /\ acc[i].index_end \in Int /\ acc[i].index_start <= acc[i].index_end
    BY DEF FullRanges, Last
  <1>1. last.index_start \in Int /\ last.index_end \in Int /\ last.index_start <= last.index_end
    BY <1>0
  <1>2. ASSUME last.index_end < range.index_start PROVE Good
    <2>1. new = Append(acc, range)
      BY <1>0, <1>2 DEF MergeSorted
    <2> HIDE DEF new
    <2>2. /\ new \in Seq(FullRanges) /\ Len(new) = n + 1 /\ new[n + 1] = range
          /\ \A i \in 1..n : new[i] = acc[i]
      BY <2>1
    <2>3. Last(new) = range
      BY <2>2 DEF Last
    <2>4. ASSUME Apart(acc) PROVE Apart(new)
      <3>1. ASSUME NEW i \in 1..(n + 1), NEW j \in 1..(n + 1), i < j
            PROVE  new[i].index_end < new[j].index_start
        <4>1. CASE j <= n
          <5>1. i \in 1..n /\ j \in 1..n
            BY <1>0, <3>1, <4>1
          <5> QED BY <2>2, <2>4, <3>1, <5>1 DEF Apart
        <4>2. CASE j = n + 1
          <5>1. i \in 1..n /\ n \in 1..n /\ new[j] = range /\ new[i] = acc[i]
            BY <1>0, <2>2, <3>1, <4>2
          <5>2. acc[i].index_end <= last.index_end
            <6>1. CASE i = n
              BY <1>0, <6>1
            <6>2. CASE i < n
              BY <1>0, <2>4, <5>1, <6>2 DEF Apart
            <6> QED BY <5>1, <6>1, <6>2
          <5> QED BY <1>0, <1>1, <1>2, <5>1, <5>2
        <4> QED BY <1>0, <4>1, <4>2
      <3> QED BY <2>2, <3>1 DEF Apart
    <2>5. ASSUME NEW x PROVE x \in TilesInAll(new) <=> x \in TilesInAll(acc) \/ x \in TilesIn(range)
      <3> DEFINE Holds(r) == r.index_start <= x /\ x <= r.index_end
      <3>1. x \in TilesInAll(new) <=> x \in Int /\ \E i \in 1..(n + 1) : Holds(new[i])
        BY <2>2, InTilesInAll
      <3>2. x \in TilesInAll(acc) <=> x \in Int /\ \E i \in 1..n : Holds(acc[i])
        BY InTilesInAll
      <3>3. x \in TilesIn(range) <=> x \in Int /\ Holds(range)
        BY <1>0 DEF TilesIn
      <3> HIDE DEF Holds
      <3>4. \A i \in 1..(n + 1) : i \in 1..n \/ i = n + 1
        BY <1>0
      <3>5. n + 1 \in 1..(n + 1) /\ \A i \in 1..n : i \in 1..(n + 1)
        BY <1>0
      <3> QED BY <2>2, <3>1, <3>2, <3>3, <3>4, <3>5
    <2> QED BY <1>0, <2>2, <2>3, <2>4, <2>5
  <1>3. ASSUME last.index_end >= range.index_start, last.index_end < range.index_end PROVE Good
    <2>1. new = [acc EXCEPT ![n].index_end = range.index_end]
      BY <1>0, <1>1, <1>3 DEF MergeSorted
    <2> HIDE DEF new
    <2> DEFINE wide == [last EXCEPT !.index_end = range.index_end]
    <2>2. /\ wide \in FullRanges /\ wide.index_start = last.index_start
          /\ wide.index_end = range.index_end
      BY <1>0, <1>1, <1>3 DEF FullRanges
    <2>3. new = [acc EXCEPT ![n] = wide]
      BY <2>1
    <2> HIDE DEF wide
    <2>4. /\ new \in Seq(FullRanges) /\ Len(new) = n /\ new[n] = wide
          /\ \A i \in 1..n : i # n => new[i] = acc[i]
      BY <1>0, <2>2, <2>3
    <2>5. Last(new) = wide
      BY <2>4 DEF Last
    <2>6. ASSUME Apart(acc) PROVE Apart(new)
      <3>1. ASSUME NEW i \in 1..n, NEW j \in 1..n, i < j
            PROVE  new[i].index_end < new[j].index_start
        <4>1. new[i] = acc[i] /\ new[j].index_start = acc[j].index_start
          BY <1>0, <2>2, <2>4, <3>1
        <4> QED BY <2>6, <3>1, <4>1 DEF Apart
      <3> QED BY <2>4, <3>1 DEF Apart
    <2>7. ASSUME last.index_start <= range.index_start, NEW x
          PROVE  x \in TilesInAll(new) <=> x \in TilesInAll(acc) \/ x \in TilesIn(range)
      <3> DEFINE Holds(r) == r.index_start <= x /\ x <= r.index_end
      <3>1. x \in TilesInAll(new) <=> x \in Int /\ \E i \in 1..n : Holds(new[i])
        BY <2>4, InTilesInAll
      <3>2. x \in TilesInAll(acc) <=> x \in Int /\ \E i \in 1..n : Holds(acc[i])
        BY InTilesInAll
      <3>3. x \in TilesIn(range) <=> x \in Int /\ Holds(range)
        BY <1>0 DEF TilesIn
      <3>4. x \in Int => (Holds(wide) <=> Holds(last) \/ Holds(range))
        BY <1>0, <1>1, <1>3, <2>2, <2>7
      <3> HIDE DEF Holds
      <3>5. n \in 1..n
        BY <1>0
      <3> QED BY <2>4, <3>1, <3>2, <3>3, <3>4, <3>5
    <2> QED BY <1>0, <2>2, <2>4, <2>5, <2>6, <2>7
  <1>4. ASSUME last.index_end >= range.index_start, ~(last.index_end < range.index_end) PROVE Good
    <2>1. new = acc
      BY <1>0, <1>1, <1>4 DEF MergeSorted
    <2>2. ASSUME last.index_start <= range.index_start, NEW x, x \in TilesIn(range)
          PROVE  x \in TilesInAll(acc)
      <3>1. x \in Int /\ n \in 1..n /\ last.index_start <= x /\ x <= last.index_end
        BY <1>0, <1>1, <1>4, <2>2 DEF TilesIn
      <3> QED BY <3>1, InTilesInAll
    <2> HIDE DEF new
    <2> QED BY <1>0, <2>1, <2>2
  <1>5. Good
    BY <1>0, <1>1, <1>2, <1>3, <1>4
  <1> QED BY <1>0, <1>5

\* SimplifyRanges returns ranges that do not overlap and hold the same tiles.
LEMMA SimplifyResult ==
    ASSUME NEW ranges \in Seq(FullRanges)
    PROVE  /\ SimplifyRanges(ranges) \in Seq(FullRanges)
           /\ Apart(SimplifyRanges(ranges))
           /\ TilesInAll(SimplifyRanges(ranges)) = TilesInAll(ranges)
  <1>1. CASE Len(ranges) < 2
    <2>1. SimplifyRanges(ranges) = ranges
      BY <1>1 DEF SimplifyRanges
    <2>2. Apart(ranges)
      <3>1. \A i, j \in 1..Len(ranges) : ~(i < j)
        BY <1>1
      <3> QED BY <3>1 DEF Apart
    <2> QED BY <2>1, <2>2
  <1>2. CASE ~(Len(ranges) < 2)
    <2> DEFINE s == SortByStart(ranges)
               rest == Tail(s)
               base == <<Head(s)>>
               m == Len(ranges) - 1
               V == { v \in Seq(FullRanges) : Len(v) > 0 }
    <2>1. /\ s \in Seq(FullRanges) /\ Sorted(s) /\ Len(s) = m + 1 /\ m \in Nat /\ m > 0
          /\ TilesInAll(s) = TilesInAll(ranges)
      BY <1>2, SortResult
    <2>2. SimplifyRanges(ranges) = MergeAll(base, rest)
      <3>1. SimplifyRanges(ranges) = FoldLeft(MergeSorted, <<Head(SortByStart(ranges))>>,
                                              Tail(SortByStart(ranges)))
        BY <1>2, Zenon DEF SimplifyRanges
      <3> QED BY <3>1, Zenon DEF MergeAll
    <2> HIDE DEF s, m
    <2>3. /\ rest \in [1..m -> FullRanges] /\ \A k \in 1..m : rest[k] = s[k + 1]
      <3>1. s # << >>
        BY <2>1
      <3>2. rest \in Seq(FullRanges) /\ Len(rest) = m
        BY <2>1, <3>1
      <3>3. \A k \in 1..m : rest[k] = s[k + 1]
        BY <2>1, <3>1
      <3> HIDE DEF rest
      <3> QED BY <3>2, <3>3
    <2>4. base \in V /\ Len(base) = 1 /\ base[1] = s[1] /\ s[1] \in FullRanges
      BY <2>1
    <2>5. \A v \in V : \A e \in FullRanges : MergeSorted(v, e) \in V
      BY MergeStep
    <2> HIDE DEF base, rest
    <2>6. PICK a : MergeLoop(a, V, base, m, rest)
      <3> HIDE DEF V
      <3> QED BY <2>1, <2>3, <2>4, <2>5, MergeFold
    <2>7. /\ a \in [0..m -> V] /\ a[0] = base /\ MergeAll(base, rest) = a[m]
          /\ \A k \in 1..m : a[k] = MergeSorted(a[k - 1], rest[k])
      BY <2>6 DEF MergeLoop
    <2> DEFINE Tiles(k) == \A x : x \in TilesInAll(a[k]) <=> \E i \in 1..(k + 1) : x \in TilesIn(s[i])
               Good(k) == /\ Apart(a[k]) /\ Last(a[k]).index_start <= s[k + 1].index_start
                          /\ Tiles(k)
               S == { k \in 0..m : Good(k) }
    <2>8. 0 \in S
      <3>1. Apart(base)
        <4>1. \A i, j \in 1..Len(base) : ~(i < j)
          BY <2>4
        <4> QED BY <4>1 DEF Apart
      <3>2. Last(base) = s[1] /\ s[1].index_start \in Int
        BY <2>4 DEF Last, FullRanges
      <3>3. ASSUME NEW x PROVE x \in TilesInAll(base) <=> x \in TilesIn(s[1])
        <4>1. DOMAIN base = {1}
          BY <2>4
        <4> QED BY <2>4, <4>1 DEF TilesInAll
      <3>4. \A i \in 1..(0 + 1) : i = 1
        OBVIOUS
      <3>5. Good(0)
        BY <2>7, <3>1, <3>2, <3>3, <3>4
      <3> HIDE DEF Good
      <3> QED BY <2>1, <3>5
    <2>9. ASSUME NEW k \in 1..m, k - 1 \in S PROVE k \in S
      <3> DEFINE old == a[k - 1]
                 r == s[k + 1]
      <3>1. Good(k - 1) /\ k - 1 \in 0..m /\ (k - 1) + 1 = k /\ k \in 0..m /\ k \in 1..(m + 1)
            /\ k + 1 \in 1..(m + 1)
        BY <2>1, <2>9
      <3>2. old \in Seq(FullRanges) /\ Len(old) > 0 /\ r \in FullRanges
        BY <2>1, <2>7, <3>1
      <3>3. a[k] = MergeSorted(old, r)
        BY <2>3, <2>7
      <3>4. Last(old).index_start <= r.index_start
        <4>1. Last(old).index_start <= s[k].index_start
          BY <3>1
        <4>2. s[k].index_start <= s[k + 1].index_start
          BY <2>1, <3>1 DEF Sorted
        <4>3. Last(old) \in FullRanges /\ s[k] \in FullRanges
          BY <2>1, <3>1, <3>2 DEF Last
        <4> QED BY <3>2, <4>1, <4>2, <4>3 DEF FullRanges
      <3>5. Apart(old)
        BY <3>1
      <3>6. \A x : x \in TilesInAll(old) <=> \E i \in 1..k : x \in TilesIn(s[i])
        BY <3>1
      <3> HIDE DEF old, r, Good
      <3> DEFINE new == MergeSorted(old, r)
      <3>7. /\ Apart(new) /\ Last(new).index_start <= r.index_start
            /\ \A x : x \in TilesInAll(new) <=> x \in TilesInAll(old) \/ x \in TilesIn(r)
        BY <3>2, <3>4, <3>5, MergeStep
      <3> HIDE DEF new
      <3>8. ASSUME NEW x
            PROVE  x \in TilesInAll(new) <=> \E i \in 1..(k + 1) : x \in TilesIn(s[i])
        <4>1. \A i \in 1..(k + 1) : i \in 1..k \/ i = k + 1
          OBVIOUS
        <4>2. k + 1 \in 1..(k + 1) /\ \A i \in 1..k : i \in 1..(k + 1)
          OBVIOUS
        <4> QED BY <3>6, <3>7, <4>1, <4>2 DEF r
      <3>9. new = a[k]
        BY <3>3 DEF new
      <3>10. Good(k)
        BY <3>7, <3>8, <3>9 DEF Good, r
      <3> QED BY <3>1, <3>10
    <2>10. m \in S
      <3> HIDE DEF S
      <3>1. \A k \in 1..m : k - 1 \in S => k \in S
        BY <2>9
      <3>2. \A k \in 0..m : k \in S
        BY <2>1, <2>8, <3>1, Induction, Zenon
      <3> QED BY <2>1, <3>2
    <2>11. Good(m)
      BY <2>10
    <2>12. SimplifyRanges(ranges) = a[m] /\ a[m] \in Seq(FullRanges)
      BY <2>1, <2>2, <2>7
    <2>13. ASSUME NEW x PROVE x \in TilesInAll(a[m]) <=> x \in TilesInAll(s)
      <3>1. DOMAIN s = 1..(m + 1)
        BY <2>1
      <3> QED BY <2>11, <3>1 DEF TilesInAll
    <2>14. TilesInAll(a[m]) = TilesInAll(ranges)
      BY <2>1, <2>13
    <2> QED BY <2>11, <2>12, <2>14
  <1> QED BY <1>1, <1>2

\* TileCount counts the tiles of ranges that do not overlap.
LEMMA CountResult ==
    ASSUME NEW s \in Seq(FullRanges), Apart(s)
    PROVE  /\ IsFiniteSet(TilesInAll(s))
           /\ TileCount(s) = Cardinality(TilesInAll(s))
  <1> DEFINE n == Len(s)
             U(k) == UNION { TilesIn(s[i]) : i \in 1..k }
  <1>1. /\ n \in Nat /\ s \in [1..n -> FullRanges]
        /\ \A i \in 1..n : /\ s[i].index_start \in Int /\ s[i].index_end \in Int
                           /\ s[i].index_start <= s[i].index_end
    BY DEF FullRanges
  <1>2. PICK a : CountLoop(a, Int, n, s)
    <2>1. 0 \in Int /\ \A v \in Int : \A e \in FullRanges :
                           v + (e.index_end - e.index_start + 1) \in Int
      BY DEF FullRanges
    <2> HIDE DEF n
    <2> QED BY <1>1, <2>1, CountFold
  <1>3. /\ a \in [0..n -> Int] /\ a[0] = 0 /\ TileCount(s) = a[n]
        /\ \A k \in 1..n : a[k] = a[k - 1] + (s[k].index_end - s[k].index_start + 1)
    BY <1>2 DEF CountLoop
  <1> DEFINE S == { k \in 0..n : IsFiniteSet(U(k)) /\ Cardinality(U(k)) = a[k] }
  <1>4. 0 \in S
    <2>1. U(0) = {}
      OBVIOUS
    <2> HIDE DEF U
    <2>2. IsFiniteSet(U(0)) /\ Cardinality(U(0)) = a[0]
      BY <1>3, <2>1, FS_EmptySet
    <2> QED BY <1>1, <2>2
  <1>5. ASSUME NEW k \in 1..n, k - 1 \in S PROVE k \in S
    <2> DEFINE old == U(k - 1)
               T == TilesIn(s[k])
    <2>1. IsFiniteSet(old) /\ Cardinality(old) = a[k - 1] /\ k - 1 \in 0..n /\ k \in 0..n
      BY <1>1, <1>5
    <2>2. IsFiniteSet(T) /\ Cardinality(T) = s[k].index_end - s[k].index_start + 1
      <3> DEFINE p == s[k].index_start
                 q == s[k].index_end
      <3>1. p \in Int /\ q \in Int /\ p <= q /\ T = p..q
        BY <1>1 DEF TilesIn
      <3> HIDE DEF p, q, T
      <3>2. IsFiniteSet(p..q) /\ Cardinality(p..q) = q - p + 1
        BY <3>1, FS_Interval
      <3> QED BY <3>1, <3>2 DEF p, q
    <2>3. U(k) = old \cup T
      <3>1. \A i \in 1..k : i \in 1..(k - 1) \/ i = k
        OBVIOUS
      <3>2. k \in 1..k /\ \A i \in 1..(k - 1) : i \in 1..k
        OBVIOUS
      <3> QED BY <3>1, <3>2
    <2>4. old \cap T = {}
      <3>1. ASSUME NEW x, NEW i \in 1..(k - 1), x \in TilesIn(s[i]), x \in T PROVE FALSE
        <4>1. i \in 1..n /\ i < k
          BY <1>1
        <4>2. s[i].index_end < s[k].index_start
          BY <4>1 DEF Apart
        <4> QED BY <1>1, <3>1, <4>1, <4>2 DEF TilesIn
      <3> QED BY <3>1
    <2> HIDE DEF old, T, U
    <2>5. IsFiniteSet(old \cup T)
          /\ Cardinality(old \cup T) = Cardinality(old) + Cardinality(T) - Cardinality(old \cap T)
      BY <2>1, <2>2, FS_Union
    <2>6. Cardinality(old \cap T) = 0
      BY <2>4, FS_EmptySet
    <2>7. a[k] = a[k - 1] + (s[k].index_end - s[k].index_start + 1)
          /\ a[k - 1] \in Int /\ a[k] \in Int
      BY <1>3, <2>1
    <2>8. Cardinality(U(k)) = a[k]
      BY <1>1, <2>1, <2>2, <2>3, <2>5, <2>6, <2>7
    <2>9. IsFiniteSet(U(k))
      BY <2>3, <2>5
    <2> QED BY <2>1, <2>8, <2>9
  <1>6. n \in S
    <2> HIDE DEF S
    <2>1. \A k \in 1..n : k - 1 \in S => k \in S
      BY <1>5
    <2>2. \A k \in 0..n : k \in S
      BY <1>1, <1>4, <2>1, Induction, Zenon
    <2> QED BY <1>1, <2>2
  <1>7. U(n) = TilesInAll(s)
    BY <1>1 DEF TilesInAll
  <1> QED BY <1>3, <1>6, <1>7

\* ExtendRanges adds one tile.
LEMMA ExtendStep ==
    ASSUME NEW acc \in Seq(FullRanges), NEW index \in Int
    PROVE  /\ ExtendRanges(acc, index) \in Seq(FullRanges)
           /\ \A x : x \in TilesInAll(ExtendRanges(acc, index)) <=> x \in TilesInAll(acc) \/ x = index
  <1> DEFINE n == Len(acc)
             new == ExtendRanges(acc, index)
             Good == /\ new \in Seq(FullRanges)
                     /\ \A x : x \in TilesInAll(new) <=> x \in TilesInAll(acc) \/ x = index
  <1>0. /\ n \in Nat
        /\ \A i \in 1..n : /\ acc[i] \in FullRanges /\ acc[i].index_start \in Int
                           /\ acc[i].index_end \in Int /\ acc[i].index_start <= acc[i].index_end
    BY DEF FullRanges
  <1>1. ASSUME acc # << >>, acc[n].index_end = index - 1 PROVE Good
    <2> DEFINE last == acc[n]
               wide == [last EXCEPT !.index_end = index]
    <2>0. n > 0 /\ n \in 1..n
      BY <1>0, <1>1
    <2>1. new = [acc EXCEPT ![n].index_end = index]
      BY <1>1 DEF ExtendRanges, Last
    <2>2. wide \in FullRanges /\ wide.index_start = last.index_start /\ wide.index_end = index
      BY <1>0, <1>1, <2>0 DEF FullRanges
    <2>3. new = [acc EXCEPT ![n] = wide]
      BY <2>1
    <2> HIDE DEF wide, new
    <2>4. /\ new \in Seq(FullRanges) /\ Len(new) = n /\ new[n] = wide
          /\ \A i \in 1..n : i # n => new[i] = acc[i]
      BY <2>0, <2>2, <2>3
    <2>5. ASSUME NEW x PROVE x \in TilesInAll(new) <=> x \in TilesInAll(acc) \/ x = index
      <3> DEFINE Holds(r) == r.index_start <= x /\ x <= r.index_end
      <3>1. x \in TilesInAll(new) <=> x \in Int /\ \E i \in 1..n : Holds(new[i])
        BY <2>4, InTilesInAll
      <3>2. x \in TilesInAll(acc) <=> x \in Int /\ \E i \in 1..n : Holds(acc[i])
        BY InTilesInAll
      <3>3. x \in Int => (Holds(wide) <=> Holds(last) \/ x = index)
        BY <1>0, <1>1, <2>0, <2>2
      <3> HIDE DEF Holds
      <3> QED BY <2>0, <2>4, <3>1, <3>2, <3>3
    <2> QED BY <2>4, <2>5
  <1>2. ASSUME ~(acc # << >> /\ acc[n].index_end = index - 1) PROVE Good
    <2> DEFINE one == TileRange(index, index)
    <2>1. new = Append(acc, one)
      BY <1>2 DEF ExtendRanges, Last
    <2>2. one \in FullRanges /\ one.index_start = index /\ one.index_end = index
      BY DEF FullRanges, TileRange
    <2> HIDE DEF one, new
    <2>3. /\ new \in Seq(FullRanges) /\ Len(new) = n + 1 /\ new[n + 1] = one
          /\ \A i \in 1..n : new[i] = acc[i]
      BY <2>1, <2>2
    <2>4. ASSUME NEW x PROVE x \in TilesInAll(new) <=> x \in TilesInAll(acc) \/ x = index
      <3> DEFINE Holds(r) == r.index_start <= x /\ x <= r.index_end
      <3>1. x \in TilesInAll(new) <=> x \in Int /\ \E i \in 1..(n + 1) : Holds(new[i])
        BY <2>3, InTilesInAll
      <3>2. x \in TilesInAll(acc) <=> x \in Int /\ \E i \in 1..n : Holds(acc[i])
        BY InTilesInAll
      <3>3. x \in Int => (Holds(one) <=> x = index)
        BY <2>2
      <3>4. \A i \in 1..(n + 1) : i \in 1..n \/ i = n + 1
        BY <1>0
      <3>5. n + 1 \in 1..(n + 1) /\ \A i \in 1..n : i \in 1..(n + 1)
        BY <1>0
      <3> HIDE DEF Holds
      <3> QED BY <2>3, <3>1, <3>2, <3>3, <3>4, <3>5
    <2> QED BY <2>3, <2>4
  <1>3. Good
    BY <1>1, <1>2
  <1> QED BY <1>3

\* ExtendByMissing adds the tiles that are not present.
LEMMA MissingResult ==
    ASSUME NEW base \in Seq(FullRanges), NEW n \in Nat, NEW indices \in [1..n -> Int], NEW present
    PROVE  /\ ExtendByMissing(base, indices, present) \in Seq(FullRanges)
           /\ \A x : x \in TilesInAll(ExtendByMissing(base, indices, present))
                       <=> \/ x \in TilesInAll(base)
                           \/ x \notin present /\ \E i \in 1..n : indices[i] = x
  <1> DEFINE V == Seq(FullRanges)
  <1>1. \A v \in V : \A e \in Int : (IF e \in present THEN v ELSE ExtendRanges(v, e)) \in V
    BY ExtendStep
  <1>2. PICK a : MissingLoop(a, V, base, n, indices, present)
    <2>1. base \in V
      OBVIOUS
    <2> HIDE DEF V
    <2> QED BY <1>1, <2>1, MissingFold
  <1>3. /\ a \in [0..n -> V] /\ a[0] = base /\ ExtendByMissing(base, indices, present) = a[n]
        /\ \A k \in 1..n : a[k] = (IF indices[k] \in present THEN a[k - 1]
                                   ELSE ExtendRanges(a[k - 1], indices[k]))
    BY <1>2 DEF MissingLoop
  <1> DEFINE Good(k) == \A x : x \in TilesInAll(a[k])
                                 <=> \/ x \in TilesInAll(base)
                                     \/ x \notin present /\ \E i \in 1..k : indices[i] = x
             S == { k \in 0..n : Good(k) }
  <1>4. 0 \in S
    <2>1. \A i \in 1..0 : FALSE
      OBVIOUS
    <2>2. Good(0)
      BY <1>3, <2>1
    <2> HIDE DEF Good
    <2> QED BY <2>2
  <1>5. ASSUME NEW k \in 1..n, k - 1 \in S PROVE k \in S
    <2> DEFINE old == a[k - 1]
               e == indices[k]
    <2>1. old \in Seq(FullRanges) /\ e \in Int /\ k \in 0..n
      BY <1>3
    <2>2. \A x : x \in TilesInAll(old)
                   <=> \/ x \in TilesInAll(base)
                       \/ x \notin present /\ \E i \in 1..(k - 1) : indices[i] = x
      BY <1>5
    <2>3. a[k] = IF e \in present THEN old ELSE ExtendRanges(old, e)
      BY <1>3
    <2> HIDE DEF old, e
    <2>4. \A x : x \in TilesInAll(a[k]) <=> x \in TilesInAll(old) \/ (x = e /\ x \notin present)
      BY <2>1, <2>3, ExtendStep
    <2>5. \A i \in 1..k : i \in 1..(k - 1) \/ i = k
      OBVIOUS
    <2>6. k \in 1..k /\ \A i \in 1..(k - 1) : i \in 1..k
      OBVIOUS
    <2>7. Good(k)
      BY <2>2, <2>4, <2>5, <2>6 DEF e
    <2> HIDE DEF Good
    <2> QED BY <2>1, <2>7
  <1>6. n \in S
    <2> HIDE DEF S
    <2>1. \A k \in 1..n : k - 1 \in S => k \in S
      BY <1>5
    <2>2. \A k \in 0..n : k \in S
      BY <1>4, <2>1, Induction, Zenon
    <2> QED BY <2>2
  <1>7. Good(n) /\ a[n] \in Seq(FullRanges)
    BY <1>3, <1>6
  <1> QED BY <1>3, <1>7

\* IndicesBelow lists the tiles of a range that are in the bitset.
LEMMA IndicesResult ==
    ASSUME NEW range \in FullRanges, NEW size \in Int
    PROVE  \E n \in Nat :
              /\ IndicesBelow(range, size) \in [1..n -> Int]
              /\ \A x : (\E i \in 1..n : IndicesBelow(range, size)[i] = x)
                          <=> x \in TilesIn(range) /\ x < size
  <1> DEFINE from == range.index_start
             to == range.index_end
             n == Higher(0, Lower(to, size - 1) - from + 1)
             f == IndicesBelow(range, size)
  <1>1. from \in Int /\ to \in Int
    BY DEF FullRanges
  <1>2. f = [k \in 1..n |-> from + k - 1] /\ TilesIn(range) = from..to
    BY DEF IndicesBelow, TilesIn
  <1> HIDE DEF from, to, f
  <1>3. /\ n \in Nat
        /\ \A x \in Int : from <= x /\ x <= to /\ x < size => x - from + 1 \in 1..n
        /\ \A k \in 1..n : /\ from + k - 1 \in Int /\ from <= from + k - 1
                           /\ from + k - 1 <= to /\ from + k - 1 < size
    BY <1>1 DEF Higher, Lower
  <1> HIDE DEF n
  <1>4. f \in [1..n -> Int]
    BY <1>2, <1>3
  <1>5. ASSUME NEW x, x \in from..to, x < size PROVE \E i \in 1..n : f[i] = x
    <2>1. x - from + 1 \in 1..n /\ from + (x - from + 1) - 1 = x
      BY <1>1, <1>3, <1>5
    <2> QED BY <1>2, <2>1
  <1>6. ASSUME NEW i \in 1..n PROVE f[i] \in from..to /\ f[i] < size
    BY <1>1, <1>2, <1>3
  <1>7. \A x : (\E i \in 1..n : f[i] = x) <=> x \in TilesIn(range) /\ x < size
    BY <1>2, <1>5, <1>6
  <1> QED BY <1>3, <1>4, <1>7 DEF f

\* InvalidRangesRemaining returns ranges that do not overlap and hold the tiles
\* in the bitset that are not painted.
LEMMA RemainingResult ==
    ASSUME NEW ranges \in Seq(FullRanges), NEW size \in Int, NEW valid, NEW resident
    PROVE  LET r == InvalidRangesRemaining(ranges, size, valid, resident)
           IN  /\ r \in Seq(FullRanges) /\ Apart(r)
               /\ \A x : x \in TilesInAll(r)
                           <=> x \in TilesInAll(ranges) /\ x < size /\ x \notin valid \cap resident
  <1> DEFINE n == Len(ranges)
             V == Seq(FullRanges)
             present == valid \cap resident
  <1>1. n \in Nat /\ ranges \in [1..n -> FullRanges]
    OBVIOUS
  <1>2. ASSUME NEW v \in V, NEW e \in FullRanges
        PROVE  LET w == ExtendByMissing(v, IndicesBelow(e, size), present)
               IN  /\ w \in V
                   /\ \A x : x \in TilesInAll(w)
                               <=> \/ x \in TilesInAll(v)
                                   \/ x \notin present /\ x \in TilesIn(e) /\ x < size
    <2> DEFINE f == IndicesBelow(e, size)
               w == ExtendByMissing(v, f, present)
    <2>1. PICK m \in Nat : /\ f \in [1..m -> Int]
                           /\ \A x : (\E i \in 1..m : f[i] = x) <=> x \in TilesIn(e) /\ x < size
      BY IndicesResult
    <2> HIDE DEF f, present
    <2>2. /\ w \in V
          /\ \A x : x \in TilesInAll(w)
                      <=> x \in TilesInAll(v) \/ (x \notin present /\ \E i \in 1..m : f[i] = x)
      BY <2>1, MissingResult
    <2> HIDE DEF w
    <2>3. \A x : x \in TilesInAll(w)
                   <=> x \in TilesInAll(v) \/ (x \notin present /\ x \in TilesIn(e) /\ x < size)
      BY <2>1, <2>2
    <2> QED BY <2>2, <2>3 DEF w, f
  <1>3. PICK a : RemainingLoop(a, V, << >>, n, ranges, size, valid, resident)
    <2>1. \A v \in V : \A e \in FullRanges :
             ExtendByMissing(v, IndicesBelow(e, size), valid \cap resident) \in V
      BY <1>2
    <2>2. << >> \in V
      OBVIOUS
    <2> HIDE DEF V, n
    <2> QED BY <1>1, <2>1, <2>2, RemainingFold
  <1> DEFINE result == VisitAll(<< >>, ranges, size, valid, resident)
  <1>4. /\ a \in [0..n -> V] /\ a[0] = << >> /\ result = a[n]
        /\ \A k \in 1..n : a[k] = ExtendByMissing(a[k - 1], IndicesBelow(ranges[k], size), present)
    BY <1>3 DEF RemainingLoop
  <1> HIDE DEF result
  <1> DEFINE Good(k) == \A x : x \in TilesInAll(a[k])
                                 <=> /\ x \notin present /\ x < size
                                     /\ \E i \in 1..k : x \in TilesIn(ranges[i])
             S == { k \in 0..n : Good(k) }
  <1>5. 0 \in S
    <2>1. \A i \in 1..0 : FALSE
      OBVIOUS
    <2>2. TilesInAll(<< >>) = {}
      BY DEF TilesInAll
    <2>3. Good(0)
      BY <1>4, <2>1, <2>2
    <2> HIDE DEF Good
    <2> QED BY <1>1, <2>3
  <1>6. ASSUME NEW k \in 1..n, k - 1 \in S PROVE k \in S
    <2> DEFINE old == a[k - 1]
               e == ranges[k]
    <2>1. old \in V /\ e \in FullRanges /\ k \in 0..n
      BY <1>1, <1>4
    <2>2. \A x : x \in TilesInAll(old)
                   <=> /\ x \notin present /\ x < size
                       /\ \E i \in 1..(k - 1) : x \in TilesIn(ranges[i])
      BY <1>6
    <2>3. a[k] = ExtendByMissing(old, IndicesBelow(e, size), present)
      BY <1>4
    <2> HIDE DEF old, e, present, V
    <2>4. \A x : x \in TilesInAll(a[k])
                   <=> \/ x \in TilesInAll(old)
                       \/ x \notin present /\ x \in TilesIn(e) /\ x < size
      BY <1>2, <2>1, <2>3
    <2>5. \A i \in 1..k : i \in 1..(k - 1) \/ i = k
      OBVIOUS
    <2>6. k \in 1..k /\ \A i \in 1..(k - 1) : i \in 1..k
      OBVIOUS
    <2>7. Good(k)
      BY <2>2, <2>4, <2>5, <2>6 DEF e
    <2> HIDE DEF Good
    <2> QED BY <2>1, <2>7
  <1>7. n \in S
    <2> HIDE DEF S
    <2>1. \A k \in 1..n : k - 1 \in S => k \in S
      BY <1>6
    <2>2. \A k \in 0..n : k \in S
      BY <1>1, <1>5, <2>1, Induction, Zenon
    <2> QED BY <1>1, <2>2
  <1>8. result \in Seq(FullRanges)
    BY <1>1, <1>4
  <1>9. ASSUME NEW x
        PROVE  x \in TilesInAll(result) <=> x \in TilesInAll(ranges) /\ x < size /\ x \notin present
    <2>1. x \in TilesInAll(ranges) <=> \E i \in 1..n : x \in TilesIn(ranges[i])
      BY <1>1 DEF TilesInAll
    <2>2. Good(n)
      BY <1>7
    <2> QED BY <1>4, <2>1, <2>2
  <1>10. InvalidRangesRemaining(ranges, size, valid, resident) = SimplifyRanges(result)
    BY Zenon DEF InvalidRangesRemaining, result, VisitAll
  <1> QED BY <1>8, <1>9, <1>10, SimplifyResult

\* ClipRanges keeps the tiles that are within the limit.
LEMMA ClipResult ==
    ASSUME NEW ranges \in Seq(FullRanges), NEW limit \in FullRanges
    PROVE  /\ ClipRanges(ranges, limit) \in Seq(FullRanges)
           /\ TilesInAll(ClipRanges(ranges, limit)) = TilesInAll(ranges) \cap TilesIn(limit)
  <1> DEFINE n == Len(ranges)
             V == Seq(FullRanges)
             Step(v, e) == IF Outside(e, limit) THEN v ELSE Append(v, ClipRange(e, limit))
  <1>1. n \in Nat /\ ranges \in [1..n -> FullRanges]
    OBVIOUS
  <1>2. ASSUME NEW v \in V, NEW e \in FullRanges
        PROVE  /\ Step(v, e) \in V
               /\ \A x : x \in TilesInAll(Step(v, e))
                           <=> x \in TilesInAll(v) \/ (x \in TilesIn(e) /\ x \in TilesIn(limit))
    <2>0. /\ e.index_start \in Int /\ e.index_end \in Int /\ e.index_start <= e.index_end
          /\ limit.index_start \in Int /\ limit.index_end \in Int
          /\ limit.index_start <= limit.index_end
      BY DEF FullRanges
    <2>1. CASE Outside(e, limit)
      <3>1. \A x : ~(x \in TilesIn(e) /\ x \in TilesIn(limit))
        BY <2>0, <2>1 DEF Outside, TilesIn
      <3> QED BY <2>1, <3>1
    <2>2. CASE ~Outside(e, limit)
      <3> DEFINE c == ClipRange(e, limit)
                 new == Append(v, c)
                 m == Len(v)
      <3>1. c \in FullRanges
        BY <2>0, <2>2 DEF FullRanges, ClipRange, TileRange, Higher, Lower, Outside
      <3>2. \A x : x \in TilesIn(c) <=> x \in TilesIn(e) /\ x \in TilesIn(limit)
        BY <2>0 DEF ClipRange, TileRange, Higher, Lower, TilesIn
      <3> HIDE DEF c
      <3>3. /\ new \in Seq(FullRanges) /\ Len(new) = m + 1 /\ new[m + 1] = c /\ m \in Nat
            /\ \A i \in 1..m : new[i] = v[i]
        BY <3>1
      <3> HIDE DEF new
      <3>4. ASSUME NEW x PROVE x \in TilesInAll(new) <=> x \in TilesInAll(v) \/ x \in TilesIn(c)
        <4>1. DOMAIN new = 1..(m + 1) /\ DOMAIN v = 1..m
          BY <3>3
        <4>2. \A i \in 1..(m + 1) : i \in 1..m \/ i = m + 1
          BY <3>3
        <4>3. m + 1 \in 1..(m + 1) /\ \A i \in 1..m : i \in 1..(m + 1)
          BY <3>3
        <4> QED BY <3>3, <4>1, <4>2, <4>3 DEF TilesInAll
      <3>5. Step(v, e) = new
        BY <2>2 DEF new, c
      <3> HIDE DEF Step
      <3> QED BY <3>2, <3>3, <3>4, <3>5
    <2> QED BY <2>1, <2>2
  <1>3. PICK a : ClipLoop(a, V, n, ranges, limit)
    <2>1. \A v \in V : \A e \in FullRanges :
             (IF Outside(e, limit) THEN v ELSE Append(v, ClipRange(e, limit))) \in V
      BY <1>2
    <2>2. << >> \in V
      OBVIOUS
    <2> HIDE DEF V, n
    <2> QED BY <1>1, <2>1, <2>2, ClipFold
  <1> DEFINE result == ClipRanges(ranges, limit)
  <1>4. /\ a \in [0..n -> V] /\ a[0] = << >> /\ result = a[n]
        /\ \A k \in 1..n : a[k] = Step(a[k - 1], ranges[k])
    BY <1>3 DEF ClipLoop
  <1> HIDE DEF result, Step
  <1> DEFINE Good(k) == \A x : x \in TilesInAll(a[k])
                                 <=> /\ x \in TilesIn(limit)
                                     /\ \E i \in 1..k : x \in TilesIn(ranges[i])
             S == { k \in 0..n : Good(k) }
  <1>5. 0 \in S
    <2>1. \A i \in 1..0 : FALSE
      OBVIOUS
    <2>2. TilesInAll(<< >>) = {}
      BY DEF TilesInAll
    <2>3. Good(0)
      BY <1>4, <2>1, <2>2
    <2> HIDE DEF Good
    <2> QED BY <1>1, <2>3
  <1>6. ASSUME NEW k \in 1..n, k - 1 \in S PROVE k \in S
    <2> DEFINE old == a[k - 1]
               e == ranges[k]
    <2>1. old \in V /\ e \in FullRanges /\ k \in 0..n
      BY <1>1, <1>4
    <2>2. \A x : x \in TilesInAll(old)
                   <=> x \in TilesIn(limit) /\ \E i \in 1..(k - 1) : x \in TilesIn(ranges[i])
      BY <1>6
    <2>3. a[k] = Step(old, e)
      BY <1>4
    <2> HIDE DEF old, e, V
    <2>4. \A x : x \in TilesInAll(a[k])
                   <=> x \in TilesInAll(old) \/ (x \in TilesIn(e) /\ x \in TilesIn(limit))
      BY <1>2, <2>1, <2>3
    <2>5. \A i \in 1..k : i \in 1..(k - 1) \/ i = k
      OBVIOUS
    <2>6. k \in 1..k /\ \A i \in 1..(k - 1) : i \in 1..k
      OBVIOUS
    <2>7. Good(k)
      BY <2>2, <2>4, <2>5, <2>6 DEF e
    <2> HIDE DEF Good
    <2> QED BY <2>1, <2>7
  <1>7. n \in S
    <2> HIDE DEF S
    <2>1. \A k \in 1..n : k - 1 \in S => k \in S
      BY <1>6
    <2>2. \A k \in 0..n : k \in S
      BY <1>1, <1>5, <2>1, Induction, Zenon
    <2> QED BY <1>1, <2>2
  <1>8. result \in Seq(FullRanges)
    BY <1>1, <1>4
  <1>9. ASSUME NEW x
        PROVE  x \in TilesInAll(result) <=> x \in TilesInAll(ranges) /\ x \in TilesIn(limit)
    <2>1. x \in TilesInAll(ranges) <=> \E i \in 1..n : x \in TilesIn(ranges[i])
      BY <1>1 DEF TilesInAll
    <2>2. Good(n)
      BY <1>7
    <2> QED BY <1>4, <2>1, <2>2
  <1> QED BY <1>8, <1>9 DEF result
-----------------------------------------------------------------------------
(* Division with remainder. *)

LEMMA DivMod ==
    ASSUME NEW n \in Int, NEW w \in Nat \ {0}
    PROVE  /\ n \div w \in Int /\ n % w \in 0..(w - 1)
           /\ n = w * (n \div w) + (n % w)
  OBVIOUS

LEMMA TimesMonotone ==
    ASSUME NEW a \in Int, NEW b \in Int, NEW w \in Nat \ {0}, a < b
    PROVE  w * a + w <= w * b
  OBVIOUS

LEMMA DivModUnique ==
    ASSUME NEW q \in Int, NEW w \in Nat \ {0}, NEW r \in 0..(w - 1), NEW n \in Int,
           n = w * q + r
    PROVE  n \div w = q /\ n % w = r
  <1> DEFINE d == n \div w
             m == n % w
  <1>1. d \in Int /\ m \in 0..(w - 1) /\ n = w * d + m
    BY DivMod
  <1> HIDE DEF d, m
  <1>2. CASE q < d
    <2>1. w * q + w <= w * d
      BY <1>1, <1>2, TimesMonotone
    <2> QED BY <1>1, <2>1
  <1>3. CASE d < q
    <2>1. w * d + w <= w * q
      BY <1>1, <1>3, TimesMonotone
    <2> QED BY <1>1, <2>1
  <1>4. CASE d = q
    <2> QED BY <1>1, <1>4 DEF d, m
  <1> QED BY <1>1, <1>2, <1>3, <1>4
-----------------------------------------------------------------------------
(* Rows, columns and pixels. *)

LEMMA TimesOrder ==
    ASSUME NEW a \in Int, NEW b \in Int, NEW w \in Nat \ {0}
    PROVE  /\ w * a < w * b => a < b
           /\ a <= b => w * a <= w * b
  <1>0. w * a \in Int /\ w * b \in Int
    OBVIOUS
  <1>1. ASSUME w * a < w * b PROVE a < b
    <2>1. CASE b < a
      <3>1. w * b + w <= w * a
        BY <2>1, TimesMonotone
      <3> QED BY <1>0, <1>1, <3>1
    <2>2. CASE b = a
      BY <1>0, <1>1, <2>2
    <2> QED BY <2>1, <2>2
  <1>2. ASSUME a <= b PROVE w * a <= w * b
    <2>1. CASE a < b
      <3>1. w * a + w <= w * b
        BY <2>1, TimesMonotone
      <3> QED BY <1>0, <3>1
    <2>2. CASE a = b
      BY <1>0, <2>2
    <2> QED BY <1>2, <2>1, <2>2
  <1> QED BY <1>1, <1>2

\* CeilDiv rounds up: it is the least number of pieces that hold the whole.
LEMMA CeilDivBounds ==
    ASSUME NEW a \in Int, NEW w \in Nat \ {0}
    PROVE  /\ CeilDiv(a, w) \in Int
           /\ w * CeilDiv(a, w) \in Int
           /\ a <= w * CeilDiv(a, w)
           /\ w * CeilDiv(a, w) < a + w
  <1> DEFINE n == a + w - 1
             q == n \div w
             m == n % w
  <1>1. q \in Int /\ m \in 0..(w - 1) /\ n = w * q + m
    BY DivMod
  <1>2. CeilDiv(a, w) = q
    BY DEF CeilDiv
  <1> HIDE DEF q, m
  <1>3. w * q \in Int
    BY <1>1
  <1>4. a <= w * q /\ w * q < a + w
    BY <1>1, <1>3
  <1> QED BY <1>1, <1>2, <1>3, <1>4

\* \div rounds down.
LEMMA FloorDivBounds ==
    ASSUME NEW a \in Int, NEW w \in Nat \ {0}
    PROVE  /\ a \div w \in Int
           /\ w * (a \div w) \in Int
           /\ w * (a \div w) <= a
           /\ a < w * (a \div w) + w
  <1> DEFINE q == a \div w
             m == a % w
  <1>1. q \in Int /\ m \in 0..(w - 1) /\ a = w * q + m
    BY DivMod
  <1> HIDE DEF q, m
  <1>2. w * q \in Int
    BY <1>1
  <1>3. w * q \in Int /\ w * q <= a /\ a < w * q + w
    BY <1>1, <1>2
  <1> QED BY <1>1, <1>3 DEF q

\* Pixels in the order of the cells that hold them: a pixel position before
\* another one is not in a later cell.
LEMMA CellOrder ==
    ASSUME NEW w \in Nat \ {0}, NEW low \in Int, NEW high \in Int, NEW a \in Int,
           w * low <= a, a < w * high
    PROVE  low < high
  <1>1. w * low \in Int /\ w * high \in Int
    OBVIOUS
  <1>2. w * low < w * high
    BY <1>1
  <1> QED BY <1>2, TimesOrder

\* A cell of a row between two others, and of a column between theirs, has an
\* index between the two.
LEMMA IndexBetween ==
    ASSUME NEW columns \in Nat \ {0},
           NEW c1 \in Int, NEW r1 \in Int, NEW c2 \in Int, NEW r2 \in Int, c1 <= c2, r1 <= r2
    PROVE  /\ CoordToIndex(columns, c1, r1) \in Int
           /\ CoordToIndex(columns, c2, r2) \in Int
           /\ CoordToIndex(columns, c1, r1) <= CoordToIndex(columns, c2, r2)
  <1>1. columns * r1 \in Int /\ columns * r2 \in Int /\ columns * r1 <= columns * r2
    BY TimesOrder
  <1>2. r1 * columns = columns * r1 /\ r2 * columns = columns * r2
    OBVIOUS
  <1> QED BY <1>1, <1>2 DEF CoordToIndex

\* A cell in a row between two others is between the first cell of the one and
\* the last cell of the other.
LEMMA RowsBetween ==
    ASSUME NEW columns \in Nat \ {0}, NEW c \in 0..(columns - 1),
           NEW r1 \in Int, NEW r \in Int, NEW r2 \in Int, r1 <= r, r <= r2
    PROVE  /\ CoordToIndex(columns, 0, r1) \in Int
           /\ CoordToIndex(columns, c, r) \in Int
           /\ CoordToIndex(columns, columns - 1, r2) \in Int
           /\ CoordToIndex(columns, 0, r1) <= CoordToIndex(columns, c, r)
           /\ CoordToIndex(columns, c, r) <= CoordToIndex(columns, columns - 1, r2)
  <1>1. /\ columns * r1 \in Int /\ columns * r2 \in Int /\ columns * r \in Int
        /\ columns * r1 <= columns * r /\ columns * r <= columns * r2
    BY TimesOrder
  <1>2. /\ r1 * columns = columns * r1 /\ r2 * columns = columns * r2
        /\ r * columns = columns * r
    OBVIOUS
  <1> QED BY <1>1, <1>2 DEF CoordToIndex

\* The last cell of a document has the last index.
LEMMA LastIndex ==
    ASSUME NEW columns \in Nat \ {0}, NEW rows \in Nat \ {0}
    PROVE  /\ CoordToIndex(columns, columns - 1, rows - 1) = columns * rows - 1
           /\ columns * rows \in Nat /\ columns * rows > 0
  <1>1. columns * rows \in Int /\ columns * (rows - 1) = columns * rows - columns
    OBVIOUS
  <1>2. (rows - 1) * columns = columns * (rows - 1)
    OBVIOUS
  <1>3. columns * (rows - 1) >= 0
    <2>1. columns * 0 <= columns * (rows - 1)
      BY TimesOrder
    <2> QED BY <2>1
  <1> QED BY <1>1, <1>2, <1>3 DEF CoordToIndex
-----------------------------------------------------------------------------
(* Invalidating a rectangle. *)

\* One direction of TileRect: the first and last cell of the part of a line
\* from "from" to "to" that is in a document "size" long, and the cells that
\* part touches.
LEMMA CellsOfLine ==
    ASSUME NEW from \in Nat, NEW to \in Int, NEW size \in Nat \ {0}, from < to, to <= size
    PROVE  LET P     == TileSizePx
               count == CeilDiv(size, P)
               first == from \div P
               last  == Lower(CeilDiv(to, P), count - 1)
           IN  /\ count \in Nat \ {0} /\ first \in Nat /\ last \in Int
               /\ first <= last /\ last <= count - 1
               /\ \A c \in 0..(count - 1) :
                      from < (c + 1) * P /\ to > c * P => first <= c /\ c <= last
  <1> DEFINE P     == TileSizePx
             count == CeilDiv(size, P)
             first == from \div P
             end   == CeilDiv(to, P)
             last  == Lower(end, count - 1)
  <1>0. P \in Nat \ {0}
    BY TileSizePxAssumption
  <1>1. count \in Int /\ P * count \in Int /\ size <= P * count
    BY <1>0, CeilDivBounds
  <1>2. first \in Int /\ P * first \in Int /\ P * first <= from /\ from < P * first + P
    BY <1>0, FloorDivBounds
  <1>3. end \in Int /\ P * end \in Int /\ to <= P * end
    BY <1>0, CeilDivBounds
  <1> HIDE DEF P, count, first, end
  <1>4. count > 0
    <2>1. P * 0 <= 0 /\ 0 < P * count
      BY <1>0, <1>1
    <2> QED BY <1>0, <1>1, <2>1, CellOrder
  <1>5. first >= 0
    <2>1. P * (first + 1) = P * first + P
      BY <1>0, <1>2
    <2>2. P * 0 <= from /\ from < P * (first + 1)
      BY <1>0, <1>2, <2>1
    <2>3. 0 < first + 1
      BY <1>0, <1>2, <2>2, CellOrder
    <2> QED BY <1>2, <2>3
  <1>6. first < end /\ first < count
    <2>1. from < P * end /\ from < P * count
      BY <1>1, <1>3
    <2> QED BY <1>0, <1>1, <1>2, <1>3, <2>1, CellOrder
  <1>7. last \in Int /\ first <= last /\ last <= count - 1
    BY <1>1, <1>2, <1>3, <1>6 DEF Lower
  <1>8. ASSUME NEW c \in 0..(count - 1), from < (c + 1) * P, to > c * P
        PROVE  first <= c /\ c <= last
    <2>1. (c + 1) * P = P * (c + 1) /\ c * P = P * c /\ P * c \in Int
      BY <1>0, <1>1
    <2>2. first < c + 1
      BY <1>0, <1>1, <1>2, <1>8, <2>1, CellOrder
    <2>3. P * c <= P * c /\ P * c < P * end
      BY <1>3, <1>8, <2>1
    <2>4. c < end
      BY <1>0, <1>1, <1>3, <2>1, <2>3, CellOrder
    <2> QED BY <1>1, <1>2, <1>3, <2>2, <2>4 DEF Lower
  <1> QED BY <1>1, <1>2, <1>4, <1>5, <1>7, <1>8 DEF P, count, first, end
-----------------------------------------------------------------------------
(* Scrolling. *)

\* The rows of LimitRows hold every row that the view, or a view that begins
\* at or after y_pos and ends within view_height of it, touches.
LEMMA LimitRowsHoldTheView ==
    ASSUME NEW y_pos \in Nat, NEW view_height \in Nat, NEW y \in Int, NEW end \in Int,
           y_pos <= y, end <= y_pos + view_height
    PROVE  LET limit == LimitRows(y_pos, view_height)
           IN  /\ limit.start \in Nat /\ limit.end \in Nat /\ limit.start <= limit.end
               /\ \A r \in Nat : y < (r + 1) * TileSizePx /\ end > r * TileSizePx
                                    => limit.start <= r /\ r <= limit.end
  <1> DEFINE P     == TileSizePx
             start == y_pos \div P
             n     == CeilDiv(view_height, P)
  <1>0. P \in Nat \ {0}
    BY TileSizePxAssumption
  <1>1. start \in Int /\ P * start \in Int /\ P * start <= y_pos /\ y_pos < P * start + P
    BY <1>0, FloorDivBounds
  <1>2. n \in Int /\ P * n \in Int /\ view_height <= P * n
    BY <1>0, CeilDivBounds
  <1>3. LimitRows(y_pos, view_height).start = start /\ LimitRows(y_pos, view_height).end = start + n
    BY DEF LimitRows
  <1> HIDE DEF P, start, n
  <1>4. start >= 0
    <2>1. P * (start + 1) = P * start + P
      BY <1>0, <1>1
    <2>2. P * 0 <= y_pos /\ y_pos < P * (start + 1)
      BY <1>0, <1>1, <2>1
    <2>3. 0 < start + 1
      BY <1>0, <1>1, <2>2, CellOrder
    <2> QED BY <1>1, <2>3
  <1>5. n >= 0
    <2>1. P * (n + 1) = P * n + P
      BY <1>0, <1>2
    <2>2. P * 0 <= view_height /\ view_height < P * (n + 1)
      BY <1>0, <1>2, <2>1
    <2>3. 0 < n + 1
      BY <1>0, <1>2, <2>2, CellOrder
    <2> QED BY <1>2, <2>3
  <1>6. ASSUME NEW r \in Nat, y < (r + 1) * P, end > r * P
        PROVE  start <= r /\ r <= start + n
    <2>1. (r + 1) * P = P * (r + 1) /\ r * P = P * r /\ P * r \in Int /\ P * (r + 1) \in Int
      BY <1>0
    <2>2. y_pos < P * (r + 1)
      BY <1>6, <2>1
    <2>3. start < r + 1
      BY <1>0, <1>1, <2>2, CellOrder
    <2>4. P * (start + n + 1) = P * start + P * n + P
      BY <1>0, <1>1, <1>2
    <2>5. P * r <= P * r /\ P * r < P * (start + n + 1)
      BY <1>0, <1>1, <1>2, <1>6, <2>1, <2>4
    <2>6. r < start + n + 1
      BY <1>0, <1>1, <1>2, <2>1, <2>5, CellOrder
    <2> QED BY <1>1, <1>2, <2>3, <2>6
  <1> QED BY <1>1, <1>2, <1>3, <1>4, <1>5, <1>6 DEF P
=============================================================================
