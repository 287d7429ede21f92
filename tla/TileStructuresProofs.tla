------------------------ MODULE TileStructuresProofs ------------------------
(***************************************************************************)
(* Proofs about AtomicBitset, for any number of threads and any size and   *)
(* width of the containers, and about the calls of MCTileRanges, for any   *)
(* tile size and any bounds on the arguments.                              *)
(***************************************************************************)
EXTENDS MCTileStructures, TileRangesProofs

-----------------------------------------------------------------------------
(* Indices, containers and bits. *)

LEMMA IndexParts ==
    ASSUME NEW i \in Int
    PROVE  /\ container_index(i) \in Int /\ bit_index(i) \in Bits
           /\ i = BitsPerContainer * container_index(i) + bit_index(i)
  BY DivMod, BitsetAssumption DEF container_index, bit_index, Bits

\* Containers are in the order of the indices they hold, and within one the
\* bits are.
LEMMA IndexOrder ==
    ASSUME NEW i \in Int, NEW j \in Int
    PROVE  /\ container_index(i) < container_index(j) => i < j
           /\ container_index(i) = container_index(j) => (i <= j <=> bit_index(i) <= bit_index(j))
           /\ container_index(i) = container_index(j) /\ bit_index(i) = bit_index(j) => i = j
  <1> DEFINE ci == container_index(i)
             cj == container_index(j)
             bi == bit_index(i)
             bj == bit_index(j)
             w == BitsPerContainer
  <1>1. /\ ci \in Int /\ cj \in Int /\ bi \in 0..(w - 1) /\ bj \in 0..(w - 1)
        /\ i = w * ci + bi /\ j = w * cj + bj /\ w \in Nat \ {0}
    BY IndexParts, BitsetAssumption DEF Bits
  <1> SUFFICES /\ ci < cj => i < j
               /\ ci = cj => (i <= j <=> bi <= bj)
               /\ ci = cj /\ bi = bj => i = j
    OBVIOUS
  <1> HIDE DEF ci, cj, bi, bj, w
  <1>2. ASSUME ci < cj PROVE i < j
    <2>1. w * ci + w <= w * cj
      BY <1>1, <1>2, TimesMonotone
    <2>2. w * ci \in Int /\ w * cj \in Int
      BY <1>1
    <2> QED BY <1>1, <2>1, <2>2
  <1>3. ASSUME ci = cj PROVE i <= j <=> bi <= bj
    BY <1>1, <1>3
  <1> QED BY <1>1, <1>2, <1>3

\* There are containers for all indices, and no other: the last index is in the
\* last one.
LEMMA IndexInContainers ==
    /\ container_count \in Nat \ {0}
    /\ \A i \in Indices : container_index(i) \in Containers
  <1> DEFINE w == BitsPerContainer
             last == Size - 1
             q == container_index(last)
             r == bit_index(last)
  <1>1. w \in Nat \ {0} /\ Size \in Nat \ {0} /\ last \in Nat
    BY BitsetAssumption
  <1>2. q \in Int /\ r \in 0..(w - 1) /\ last = w * q + r
    BY <1>1, IndexParts DEF Bits
  <1>3. container_index(0) = 0
    <2>1. 0 = w * 0 + 0
      BY <1>1
    <2> QED BY <1>1, <2>1, DivModUnique DEF container_index
  <1>4. q >= 0
    <2>1. ~(q < 0)
      BY <1>1, <1>3, IndexOrder
    <2> QED BY <1>2, <2>1
  <1>5. container_count = q + 1
    <2> HIDE DEF q, r
    <2>1. Size + w - 1 = w * (q + 1) + r
      <3>1. w * (q + 1) = w * q + w
        BY <1>1, <1>2
      <3> QED BY <1>1, <1>2, <3>1
    <2> QED BY <1>1, <1>2, <2>1, DivModUnique DEF container_count
  <1>6. ASSUME NEW i \in Indices PROVE container_index(i) \in 0..q
    <2>1. i \in Int /\ 0 <= i /\ i <= last
      BY <1>1 DEF Indices
    <2>2. container_index(i) \in Int
      BY <2>1, IndexParts
    <2>3. ~(container_index(i) < 0)
      BY <1>3, <2>1, IndexOrder
    <2>4. ~(q < container_index(i))
      BY <1>1, <2>1, IndexOrder
    <2> QED BY <1>2, <2>2, <2>3, <2>4
  <1> QED BY <1>2, <1>4, <1>5, <1>6 DEF Containers
-----------------------------------------------------------------------------
(* The masks keep what they should. *)

LEMMA ShiftRightOf ==
    ASSUME NEW e \in Int
    PROVE  ShiftRight(BitsPerContainer - e - 1) = { b \in Bits : b <= bit_index(e) }
  <1> DEFINE w == BitsPerContainer
             q == container_index(e)
             r == bit_index(e)
             n == w - e - 1
  <1>1. w \in Nat \ {0} /\ q \in Int /\ r \in 0..(w - 1) /\ e = w * q + r
    BY BitsetAssumption, IndexParts DEF Bits
  <1>2. n = w * (-q) + (w - 1 - r)
    <2> HIDE DEF q, r
    <2>1. w * (-q) = -(w * q)
      BY <1>1
    <2> QED BY <1>1, <2>1
  <1>3. n % w = w - 1 - r
    <2> HIDE DEF q, r
    <2>1. n \in Int /\ -q \in Int /\ w - 1 - r \in 0..(w - 1)
      BY <1>1
    <2>2. n = w * (-q) + (w - 1 - r) /\ w \in Nat \ {0}
      BY <1>1, <1>2
    <2>3. \A m, p \in Int : \A x \in 0..(w - 1) : m = w * p + x => m % w = x
      <3> HIDE DEF w
      <3>1. ASSUME NEW m \in Int, NEW p \in Int, NEW x \in 0..(w - 1), m = w * p + x
            PROVE  m % w = x
        BY <2>2, <3>1, DivModUnique
      <3> QED BY <3>1
    <2> HIDE DEF n, w
    <2> QED BY <2>1, <2>2, <2>3
  <1>4. w - 1 - (n % w) = r
    BY <1>1, <1>3
  <1> QED BY <1>4 DEF ShiftRight

LEMMA BitOfBit == ASSUME NEW b \in Bits PROVE b % BitsPerContainer = b /\ bit_index(b) = b
  <1>1. b = BitsPerContainer * 0 + b /\ b \in Int
    BY BitsetAssumption DEF Bits
  <1> QED BY <1>1, DivModUnique, BitsetAssumption DEF Bits, bit_index

\* SingleMask clears the bits from the first index to the last one.
LEMMA SingleMaskOf ==
    ASSUME NEW s \in Int, NEW e \in Int, bit_index(s) <= bit_index(e)
    PROVE  SingleMask(s, e) = { b \in Bits : ~(bit_index(s) <= b /\ b <= bit_index(e)) }
  <1>1. ShiftLeft(s) = { b \in Bits : b >= bit_index(s) }
    BY DEF ShiftLeft, bit_index
  <1>2. ShiftRight(BitsPerContainer - e - 1) = { b \in Bits : b <= bit_index(e) }
    BY ShiftRightOf
  <1>3. bit_index(s) \in Int /\ bit_index(e) \in Int /\ Bits \subseteq Int
    BY IndexParts, BitsetAssumption DEF Bits
  <1>4. \A b \in Bits : b \in SingleMask(s, e) <=> ~(bit_index(s) <= b /\ b <= bit_index(e))
    BY <1>1, <1>2, <1>3 DEF SingleMask
  <1>5. SingleMask(s, e) \subseteq Bits
    BY <1>1, <1>2 DEF SingleMask
  <1> QED BY <1>4, <1>5

LEMMA StartMaskOf ==
    ASSUME NEW s \in Int
    PROVE  StartMask(s) = { b \in Bits : b < bit_index(s) }
  <1>1. bit_index(s) \in Bits /\ bit_index(s) \in Int /\ \A b \in Bits : b \in Int
    BY IndexParts, BitsetAssumption DEF Bits
  <1>2. bit_index(s) % BitsPerContainer = bit_index(s)
    BY <1>1, BitOfBit
  <1>3. ShiftLeft(bit_index(s)) = { b \in Bits : b >= bit_index(s) }
    BY <1>2 DEF ShiftLeft
  <1>4. \A b \in Bits : b \in Int /\ (b < bit_index(s) <=> ~(b >= bit_index(s)))
    BY <1>1
  <1> QED BY <1>3, <1>4 DEF StartMask

LEMMA EndMaskOf ==
    ASSUME NEW e \in Int
    PROVE  EndMask(e) = { b \in Bits : b > bit_index(e) }
  <1>1. bit_index(e) \in Bits /\ bit_index(e) \in Int /\ \A b \in Bits : b \in Int
    BY IndexParts, BitsetAssumption DEF Bits
  <1>2. ShiftRight(BitsPerContainer - bit_index(e) - 1) = { b \in Bits : b <= bit_index(e) }
    BY <1>1, BitOfBit, ShiftRightOf
  <1>3. \A b \in Bits : b \in Int /\ (b > bit_index(e) <=> ~(b <= bit_index(e)))
    BY <1>1
  <1> QED BY <1>2, <1>3 DEF EndMask
-----------------------------------------------------------------------------
(* The inductive invariant.  CallIsPlaced says where a call is that has not *)
(* returned: ResetRange at a container after its first and not after its   *)
(* last one, Clear at any of them.                                         *)

CallIsPlaced(mine) ==
    /\ mine.kind = "ResetRange" => mine.first <= mine.last
    /\ (mine.kind = "ResetRange" /\ ~mine.done) =>
          container_index(mine.first) < mine.next /\ mine.next <= container_index(mine.last)
    /\ (mine.kind = "Clear" /\ ~mine.done) =>
          mine.first = 0 /\ mine.last = Size - 1 /\ mine.next < container_count
    /\ mine.kind \in {"none", "Set", "Reset"} => mine.done

\* ResetIsComplete for one thread.
CallIsComplete(t) ==
    op[t].kind \in {"Reset", "ResetRange", "Clear"} =>
        \A i \in Covered(op[t]) :
            (op[t].done \/ container_index(i) < op[t].next) /\ IsSet(i) => i \in raised[t]

BitsetInvariant ==
    /\ TypeOK
    /\ \A t \in Threads : CallIsPlaced(op[t])
    /\ ResetIsComplete

LEMMA Bounds ==
    /\ Indices \subseteq Nat /\ 0 \in Indices /\ Size - 1 \in Indices
    /\ container_count \in Nat \ {0} /\ Containers = 0..(container_count - 1)
    /\ \A i \in Indices : /\ container_index(i) \in Containers /\ bit_index(i) \in Bits
                          /\ container_index(i) \in 0..container_count
  <1>1. Indices \subseteq Nat /\ 0 \in Indices /\ Size - 1 \in Indices
    BY BitsetAssumption DEF Indices
  <1>2. container_count \in Nat \ {0} /\ Containers = 0..(container_count - 1)
    BY IndexInContainers DEF Containers
  <1>3. ASSUME NEW i \in Indices
        PROVE  /\ container_index(i) \in Containers /\ bit_index(i) \in Bits
               /\ container_index(i) \in 0..container_count
    <2>1. container_index(i) \in Containers /\ bit_index(i) \in Bits
      BY <1>1, <1>3, IndexInContainers, IndexParts
    <2> QED BY <1>2, <2>1
  <1> QED BY <1>1, <1>2, <1>3

LEMMA CallType ==
    ASSUME NEW kind \in {"none", "Set", "Reset", "ResetRange", "Clear"}, NEW first \in Indices,
           NEW last \in Indices, NEW next \in 0..container_count, NEW done \in BOOLEAN
    PROVE  Call(kind, first, last, next, done) \in Calls
  BY DEF Call, Calls

LEMMA BitsetInit == Init => BitsetInvariant
  <1> SUFFICES ASSUME Init PROVE BitsetInvariant
    OBVIOUS
  <1>1. Call("none", 0, 0, 0, TRUE) \in Calls
    <2>1. 0 \in Indices /\ 0 \in 0..container_count
      BY Bounds
    <2> QED BY <2>1, CallType
  <1>2. TypeOK
    BY <1>1 DEF Init, TypeOK
  <1>3. \A t \in Threads : op[t].kind = "none" /\ op[t].done
    BY DEF Init, Call
  <1> QED BY <1>2, <1>3 DEF BitsetInvariant, CallIsPlaced, ResetIsComplete

LEMMA KeepType ==
    ASSUME TypeOK, NEW c \in Containers, NEW mask, Keep(c, mask)
    PROVE  data' \in [Containers -> SUBSET Bits]
  BY DEF TypeOK, Keep

LEMMA BeginCall ==
    ASSUME TypeOK, NEW t \in Threads, NEW mine \in Calls, Begin(t, mine)
    PROVE  /\ op' \in [Threads -> Calls] /\ raised' \in [Threads -> SUBSET Indices]
           /\ op'[t] = mine
           /\ \A u \in Threads \ {t} : op'[u] = op[u] /\ raised'[u] = raised[u]
  BY DEF TypeOK, Begin
-----------------------------------------------------------------------------
(* What each access to a container does to the bits. *)

LEMMA KeepBits ==
    ASSUME TypeOK, NEW c \in Containers, NEW mask, Keep(c, mask), NEW i \in Indices
    PROVE  IsSet(i)' <=> IsSet(i) /\ (container_index(i) = c => bit_index(i) \in mask)
  BY Bounds DEF TypeOK, Keep, IsSet

LEMMA ZeroBits ==
    ASSUME TypeOK, NEW c \in Containers, data' = [data EXCEPT ![c] = {}], NEW i \in Indices
    PROVE  /\ data' \in [Containers -> SUBSET Bits]
           /\ IsSet(i)' <=> IsSet(i) /\ container_index(i) # c
  BY Bounds DEF TypeOK, IsSet

\* A step of thread t that clears bits: only bits of its call, and the call is as
\* far as it says.
Clears(t) ==
    /\ data' \in [Containers -> SUBSET Bits]
    /\ op' \in [Threads -> Calls] /\ raised' \in [Threads -> SUBSET Indices]
    /\ \A u \in Threads \ {t} : op'[u] = op[u] /\ raised'[u] = raised[u]
    /\ \A i \in Indices : /\ IsSet(i)' => IsSet(i)
                          /\ IsSet(i) /\ ~IsSet(i)' => i \in Covered(op'[t])
    /\ CallIsPlaced(op'[t])
    /\ CallIsComplete(t)'

LEMMA ResetClears ==
    ASSUME BitsetInvariant, NEW t \in Threads, NEW index \in Indices, Reset(t, index)
    PROVE  Clears(t)
  <1> DEFINE mine == Call("Reset", index, index, 0, TRUE)
  <1>a. TypeOK /\ container_index(index) \in Containers /\ 0 \in 0..container_count
    BY Bounds DEF BitsetInvariant
  <1>1. mine \in Calls
    BY <1>a, CallType
  <1>2. /\ op' \in [Threads -> Calls] /\ raised' \in [Threads -> SUBSET Indices]
        /\ op'[t] = mine
        /\ \A u \in Threads \ {t} : op'[u] = op[u] /\ raised'[u] = raised[u]
    BY <1>a, <1>1, BeginCall DEF Reset
  <1>3. data' \in [Containers -> SUBSET Bits]
    BY <1>a, KeepType DEF Reset
  <1>4. ASSUME NEW i \in Indices PROVE IsSet(i)' <=> IsSet(i) /\ i # index
    <2>1. IsSet(i)' <=>
            IsSet(i) /\ (container_index(i) = container_index(index)
                            => bit_index(i) \in Bits \ {bit_index(index)})
      BY <1>a, KeepBits DEF Reset
    <2>2. (container_index(i) = container_index(index) /\ bit_index(i) = bit_index(index))
             => i = index
      BY Bounds, IndexOrder
    <2> QED BY <2>1, <2>2, Bounds
  <1>5. Covered(op'[t]) = {index}
    BY <1>2, Bounds DEF Covered, Call
  <1>6. CallIsPlaced(op'[t])
    BY <1>2 DEF CallIsPlaced, Call
  <1>7. CallIsComplete(t)'
    BY <1>4, <1>5 DEF CallIsComplete
  <1> QED BY <1>2, <1>3, <1>4, <1>5, <1>6, <1>7 DEF Clears

LEMMA ResetRangeSingleClears ==
    ASSUME BitsetInvariant, NEW t \in Threads, NEW s \in Indices, NEW e \in Indices, s <= e,
           ResetRangeSingle(t, s, e)
    PROVE  Clears(t)
  <1> DEFINE mine == Call("ResetRange", s, e, 0, TRUE)
  <1>a. TypeOK /\ container_index(s) \in Containers /\ 0 \in 0..container_count
    BY Bounds DEF BitsetInvariant
  <1>1. mine \in Calls
    BY <1>a, CallType
  <1>2. /\ op' \in [Threads -> Calls] /\ raised' \in [Threads -> SUBSET Indices]
        /\ op'[t] = mine
        /\ \A u \in Threads \ {t} : op'[u] = op[u] /\ raised'[u] = raised[u]
    BY <1>a, <1>1, BeginCall DEF ResetRangeSingle
  <1>3. data' \in [Containers -> SUBSET Bits]
    BY <1>a, KeepType DEF ResetRangeSingle
  <1>4. ASSUME NEW i \in Indices PROVE IsSet(i)' <=> IsSet(i) /\ ~(s <= i /\ i <= e)
    <2>1. IsSet(i)' <=> IsSet(i) /\ (container_index(i) = container_index(s)
                                        => bit_index(i) \in SingleMask(s, e))
      BY <1>a, KeepBits DEF ResetRangeSingle
    <2>2. container_index(s) = container_index(e)
      BY DEF ResetRangeSingle
    <2>3. s \in Int /\ e \in Int /\ i \in Int
      BY Bounds
    <2>4. bit_index(s) <= bit_index(e)
      BY <2>2, <2>3, IndexOrder
    <2>5. SingleMask(s, e) = { b \in Bits : ~(bit_index(s) <= b /\ b <= bit_index(e)) }
      BY <2>3, <2>4, SingleMaskOf
    <2>6. container_index(i) = container_index(s)
            => (s <= i <=> bit_index(s) <= bit_index(i)) /\ (i <= e <=> bit_index(i) <= bit_index(e))
      BY <2>2, <2>3, IndexOrder
    <2>7. container_index(i) # container_index(s) => ~(s <= i /\ i <= e)
      <3>1. /\ container_index(i) < container_index(s) => i < s
            /\ container_index(e) < container_index(i) => e < i
        BY <2>3, IndexOrder
      <3>2. container_index(i) \in Int /\ container_index(s) \in Int
        BY <2>3, IndexParts
      <3> QED BY <2>2, <2>3, <3>1, <3>2
    <2> QED BY <2>1, <2>5, <2>6, <2>7, Bounds
  <1>5. Covered(op'[t]) = s..e
    BY <1>2 DEF Covered, Call
  <1>6. \A i \in Indices : i \in s..e <=> s <= i /\ i <= e
    BY Bounds
  <1>7. s..e \subseteq Indices
    BY Bounds DEF Indices
  <1>8. CallIsPlaced(op'[t])
    BY <1>2 DEF CallIsPlaced, Call
  <1>9. CallIsComplete(t)'
    BY <1>4, <1>5, <1>6, <1>7 DEF CallIsComplete
  <1> QED BY <1>2, <1>3, <1>4, <1>5, <1>6, <1>8, <1>9 DEF Clears

\* Indices in containers before, in and after a range.
LEMMA RangeOrder ==
    ASSUME NEW i \in Indices, NEW s \in Indices, NEW e \in Indices
    PROVE  /\ i \in s..e => container_index(s) <= container_index(i)
                            /\ container_index(i) <= container_index(e)
           /\ container_index(s) < container_index(i) => s <= i
           /\ container_index(i) < container_index(e) => i <= e
           /\ i \in s..e <=> s <= i /\ i <= e
           /\ container_index(i) \in Int /\ container_index(s) \in Int
           /\ container_index(e) \in Int /\ i \in Int /\ s \in Int /\ e \in Int
  <1>1. i \in Int /\ s \in Int /\ e \in Int
    BY Bounds
  <1>2. container_index(i) \in Int /\ container_index(s) \in Int /\ container_index(e) \in Int
    BY <1>1, IndexParts
  <1>3. /\ container_index(i) < container_index(s) => i < s
        /\ container_index(e) < container_index(i) => e < i
        /\ container_index(s) < container_index(i) => s < i
        /\ container_index(i) < container_index(e) => i < e
    BY <1>1, IndexOrder
  <1> QED BY <1>1, <1>2, <1>3

LEMMA ResetRangeFirstClears ==
    ASSUME BitsetInvariant, NEW t \in Threads, NEW s \in Indices, NEW e \in Indices, s <= e,
           ResetRangeFirst(t, s, e)
    PROVE  Clears(t)
  <1> DEFINE next == container_index(s) + 1
             mine == Call("ResetRange", s, e, next, FALSE)
  <1>a. /\ TypeOK /\ container_index(s) \in Containers /\ container_index(s) \in Int
        /\ container_index(s) < container_index(e) /\ next \in 0..container_count
        /\ container_index(e) \in Int
    BY Bounds DEF BitsetInvariant, ResetRangeFirst
  <1>1. mine \in Calls
    BY <1>a, CallType
  <1>2. /\ op' \in [Threads -> Calls] /\ raised' \in [Threads -> SUBSET Indices]
        /\ op'[t] = mine
        /\ \A u \in Threads \ {t} : op'[u] = op[u] /\ raised'[u] = raised[u]
    BY <1>a, <1>1, BeginCall DEF ResetRangeFirst
  <1>3. data' \in [Containers -> SUBSET Bits]
    BY <1>a, KeepType DEF ResetRangeFirst
  <1>4. ASSUME NEW i \in Indices
        PROVE  IsSet(i)' <=> IsSet(i) /\ ~(container_index(i) = container_index(s) /\ s <= i)
    <2>1. IsSet(i)' <=> IsSet(i) /\ (container_index(i) = container_index(s)
                                        => bit_index(i) \in StartMask(s))
      BY <1>a, KeepBits DEF ResetRangeFirst
    <2>2. s \in Int /\ i \in Int /\ bit_index(i) \in Bits
      BY Bounds
    <2>3. StartMask(s) = { b \in Bits : b < bit_index(s) }
      BY <2>2, StartMaskOf
    <2>4. container_index(i) = container_index(s) => (s <= i <=> bit_index(s) <= bit_index(i))
      BY <2>2, IndexOrder
    <2>5. bit_index(i) \in Int /\ bit_index(s) \in Int
      BY <2>2, IndexParts, BitsetAssumption DEF Bits
    <2> QED BY <2>1, <2>2, <2>3, <2>4, <2>5
  <1>5. Covered(op'[t]) = s..e /\ op'[t].next = next /\ ~op'[t].done
    BY <1>2 DEF Covered, Call
  <1>6. ASSUME NEW i \in Indices, IsSet(i), ~IsSet(i)' PROVE i \in Covered(op'[t])
    BY <1>a, <1>4, <1>5, <1>6, RangeOrder
  <1>7. ASSUME NEW i \in s..e, container_index(i) < next PROVE ~IsSet(i)'
    <2>1. i \in Indices
      BY Bounds DEF Indices
    <2>2. container_index(i) = container_index(s) /\ s <= i
      BY <1>a, <1>7, <2>1, RangeOrder
    <2> QED BY <1>4, <2>1, <2>2
  <1>8. CallIsPlaced(op'[t])
    BY <1>2, <1>a DEF CallIsPlaced, Call
  <1>9. CallIsComplete(t)'
    BY <1>5, <1>7 DEF CallIsComplete
  <1> QED BY <1>2, <1>3, <1>4, <1>6, <1>8, <1>9 DEF Clears

LEMMA ResetRangeMiddleClears ==
    ASSUME BitsetInvariant, NEW t \in Threads, ResetRangeMiddle(t)
    PROVE  Clears(t)
  <1> DEFINE mine == op[t]
             s == op[t].first
             e == op[t].last
             c == op[t].next
  <1>a. /\ TypeOK /\ mine \in Calls /\ mine.kind = "ResetRange" /\ ~mine.done
        /\ s \in Indices /\ e \in Indices /\ s <= e
        /\ container_index(s) < c /\ c < container_index(e)
    BY DEF BitsetInvariant, CallIsPlaced, ResetRangeMiddle, TypeOK, Calls
  <1>b. c \in Containers /\ c + 1 \in 0..container_count /\ c \in Int
    BY <1>a, Bounds DEF Calls
  <1>1. /\ op' = [op EXCEPT ![t].next = c + 1] /\ raised' = raised
        /\ op'[t] = [mine EXCEPT !.next = c + 1]
    BY <1>a DEF ResetRangeMiddle, TypeOK
  <1>2. /\ op'[t].kind = "ResetRange" /\ ~op'[t].done /\ op'[t].first = s /\ op'[t].last = e
        /\ op'[t].next = c + 1 /\ op'[t] \in Calls
    BY <1>a, <1>b, <1>1 DEF Calls
  <1>3. /\ op' \in [Threads -> Calls] /\ raised' \in [Threads -> SUBSET Indices]
        /\ \A u \in Threads \ {t} : op'[u] = op[u] /\ raised'[u] = raised[u]
    BY <1>a, <1>1, <1>2 DEF TypeOK
  <1>4. /\ data' \in [Containers -> SUBSET Bits]
        /\ \A i \in Indices : IsSet(i)' <=> IsSet(i) /\ container_index(i) # c
    <2>1. ASSUME NEW i \in Indices
          PROVE  /\ data' \in [Containers -> SUBSET Bits]
                 /\ IsSet(i)' <=> IsSet(i) /\ container_index(i) # c
      BY <1>a, <1>b, ZeroBits DEF ResetRangeMiddle
    <2> QED BY <2>1, Bounds
  <1>5. Covered(op'[t]) = s..e /\ Covered(op[t]) = s..e
    BY <1>2 DEF Covered
  <1>6. ASSUME NEW i \in Indices, IsSet(i), ~IsSet(i)' PROVE i \in Covered(op'[t])
    BY <1>a, <1>4, <1>5, <1>6, RangeOrder
  <1>7. ASSUME NEW i \in s..e, container_index(i) < c + 1, IsSet(i)' PROVE i \in raised'[t]
    <2>1. i \in Indices
      BY <1>a, Bounds DEF Indices
    <2>2. IsSet(i) /\ container_index(i) < c
      BY <1>b, <1>4, <1>7, <2>1, RangeOrder
    <2> QED BY <1>1, <1>5, <1>a, <2>2 DEF BitsetInvariant, ResetIsComplete
  <1>8. CallIsPlaced(op'[t])
    BY <1>2, <1>a, <1>b, RangeOrder DEF CallIsPlaced
  <1>9. CallIsComplete(t)'
    BY <1>2, <1>5, <1>7 DEF CallIsComplete
  <1> QED BY <1>3, <1>4, <1>6, <1>8, <1>9 DEF Clears

LEMMA ResetRangeLastClears ==
    ASSUME BitsetInvariant, NEW t \in Threads, ResetRangeLast(t)
    PROVE  Clears(t)
  <1> DEFINE mine == op[t]
             s == op[t].first
             e == op[t].last
             c == op[t].next
  <1>a. /\ TypeOK /\ mine \in Calls /\ mine.kind = "ResetRange" /\ ~mine.done
        /\ s \in Indices /\ e \in Indices /\ s <= e
        /\ container_index(s) < c /\ c = container_index(e)
    BY DEF BitsetInvariant, CallIsPlaced, ResetRangeLast, TypeOK, Calls
  <1>b. c \in Containers
    BY <1>a, Bounds
  <1>1. /\ op' = [op EXCEPT ![t].done = TRUE] /\ raised' = raised
        /\ op'[t] = [mine EXCEPT !.done = TRUE]
    BY <1>a DEF ResetRangeLast, TypeOK
  <1>2. /\ op'[t].kind = "ResetRange" /\ op'[t].done = TRUE
        /\ op'[t].first = s /\ op'[t].last = e /\ op'[t] \in Calls
    <2>1. [mine EXCEPT !.done = TRUE] \in Calls
      BY <1>a DEF Calls
    <2>2. /\ op'[t].kind = mine.kind /\ op'[t].first = mine.first /\ op'[t].last = mine.last
          /\ op'[t].done = TRUE
      BY <1>a, <1>1 DEF Calls
    <2> QED BY <1>a, <1>1, <2>1, <2>2
  <1>3. /\ op' \in [Threads -> Calls] /\ raised' \in [Threads -> SUBSET Indices]
        /\ \A u \in Threads \ {t} : op'[u] = op[u] /\ raised'[u] = raised[u]
    BY <1>a, <1>1, <1>2 DEF TypeOK
  <1>4. data' \in [Containers -> SUBSET Bits]
    BY <1>a, <1>b, KeepType DEF ResetRangeLast
  <1>5. ASSUME NEW i \in Indices
        PROVE  IsSet(i)' <=> IsSet(i) /\ ~(container_index(i) = container_index(e) /\ i <= e)
    <2>1. IsSet(i)' <=> IsSet(i) /\ (container_index(i) = container_index(e)
                                        => bit_index(i) \in EndMask(e))
      BY <1>a, <1>b, KeepBits DEF ResetRangeLast
    <2>2. e \in Int /\ i \in Int /\ bit_index(i) \in Bits
      <3>1. e \in Indices
        BY <1>a
      <3> HIDE DEF e
      <3> QED BY <3>1, Bounds
    <2>3. EndMask(e) = { b \in Bits : b > bit_index(e) }
      BY <2>2, EndMaskOf
    <2>4. container_index(i) = container_index(e) => (i <= e <=> bit_index(i) <= bit_index(e))
      BY <2>2, IndexOrder
    <2>5. bit_index(i) \in Int /\ bit_index(e) \in Int
      BY <2>2, IndexParts, BitsetAssumption DEF Bits
    <2> QED BY <2>1, <2>2, <2>3, <2>4, <2>5
  <1>6. Covered(op'[t]) = s..e /\ Covered(op[t]) = s..e
    BY <1>2 DEF Covered
  <1>7. ASSUME NEW i \in Indices, IsSet(i), ~IsSet(i)' PROVE i \in Covered(op'[t])
    BY <1>a, <1>5, <1>6, <1>7, RangeOrder
  <1>8. ASSUME NEW i \in s..e, IsSet(i)' PROVE i \in raised'[t]
    <2>1. i \in Indices
      BY <1>a, Bounds DEF Indices
    <2>2. IsSet(i) /\ container_index(i) < c
      BY <1>a, <1>5, <1>8, <2>1, RangeOrder
    <2> QED BY <1>1, <1>6, <1>a, <2>2 DEF BitsetInvariant, ResetIsComplete
  <1>9. CallIsPlaced(op'[t])
    BY <1>2, <1>a DEF CallIsPlaced
  <1>10. CallIsComplete(t)'
    BY <1>2, <1>6, <1>8 DEF CallIsComplete
  <1> QED BY <1>3, <1>4, <1>5, <1>7, <1>9, <1>10 DEF Clears

LEMMA ClearBeginClears ==
    ASSUME BitsetInvariant, NEW t \in Threads, ClearBegin(t)
    PROVE  Clears(t)
  <1> DEFINE mine == Call("Clear", 0, Size - 1, 0, FALSE)
  <1>a. /\ TypeOK /\ 0 \in 0..container_count /\ 0 \in Indices /\ Size - 1 \in Indices
        /\ 0 < container_count
    BY Bounds DEF BitsetInvariant
  <1>1. mine \in Calls
    BY <1>a, CallType
  <1>2. /\ op' \in [Threads -> Calls] /\ raised' \in [Threads -> SUBSET Indices]
        /\ op'[t] = mine
        /\ \A u \in Threads \ {t} : op'[u] = op[u] /\ raised'[u] = raised[u]
    BY <1>a, <1>1, BeginCall DEF ClearBegin
  <1>3. /\ data' \in [Containers -> SUBSET Bits]
        /\ \A i \in Indices : IsSet(i)' <=> IsSet(i)
    BY <1>a DEF ClearBegin, TypeOK, IsSet
  <1>4. CallIsPlaced(op'[t])
    BY <1>2, <1>a DEF CallIsPlaced, Call
  <1>5. Covered(op'[t]) = Indices /\ ~op'[t].done /\ op'[t].next = 0
    BY <1>2 DEF Covered, Call, Indices
  <1>6. \A i \in Indices : ~(container_index(i) < 0)
    BY Bounds
  <1>7. CallIsComplete(t)'
    BY <1>5, <1>6 DEF CallIsComplete
  <1> QED BY <1>2, <1>3, <1>4, <1>7 DEF Clears

LEMMA ClearContainerClears ==
    ASSUME BitsetInvariant, NEW t \in Threads, ClearContainer(t)
    PROVE  Clears(t)
  <1> DEFINE mine == op[t]
             c == op[t].next
             last == (op[t].next + 1 = container_count)
  <1>a. /\ TypeOK /\ mine \in Calls /\ mine.kind = "Clear" /\ ~mine.done
        /\ mine.first = 0 /\ mine.last = Size - 1 /\ c < container_count
    BY DEF BitsetInvariant, CallIsPlaced, ClearContainer, TypeOK
  <1>b. /\ c \in Containers /\ c + 1 \in 0..container_count /\ c \in Nat
        /\ container_count \in Nat
    <2>1. c \in 0..container_count
      BY <1>a DEF Calls
    <2> HIDE DEF c
    <2> QED BY <1>a, <2>1, Bounds
  <1>1. /\ op'[t] = [mine EXCEPT !.next = c + 1, !.done = last] /\ raised' = raised
        /\ op' \in [Threads -> Calls]
        /\ \A u \in Threads \ {t} : op'[u] = op[u]
    <2>1. [mine EXCEPT !.next = c + 1, !.done = last] \in Calls
      BY <1>a, <1>b DEF Calls
    <2>2. /\ op' = [op EXCEPT ![t].next = @ + 1, ![t].done = last]
          /\ op \in [Threads -> Calls] /\ raised' = raised
      BY <1>a DEF ClearContainer, TypeOK
    <2>3. op'[t] = [mine EXCEPT !.next = c + 1, !.done = last]
      BY <2>2
    <2>4. \A u \in Threads \ {t} : op'[u] = op[u]
      BY <2>2
    <2>5. op' \in [Threads -> Calls]
      BY <2>1, <2>2, <2>3, <2>4
    <2> QED BY <2>2, <2>3, <2>4, <2>5
  <1>2. /\ op'[t].kind = "Clear" /\ op'[t].first = 0 /\ op'[t].last = Size - 1
        /\ op'[t].next = c + 1 /\ (op'[t].done <=> c + 1 = container_count)
    BY <1>a, <1>1 DEF Calls
  <1>3. /\ raised' \in [Threads -> SUBSET Indices]
        /\ \A u \in Threads \ {t} : raised'[u] = raised[u]
    BY <1>a, <1>1 DEF TypeOK
  <1>4. /\ data' \in [Containers -> SUBSET Bits]
        /\ \A i \in Indices : IsSet(i)' <=> IsSet(i) /\ container_index(i) # c
    <2>1. ASSUME NEW i \in Indices
          PROVE  /\ data' \in [Containers -> SUBSET Bits]
                 /\ IsSet(i)' <=> IsSet(i) /\ container_index(i) # c
      BY <1>a, <1>b, ZeroBits DEF ClearContainer
    <2> QED BY <2>1, Bounds
  <1>5. Covered(op'[t]) = Indices /\ Covered(op[t]) = Indices
    BY <1>a, <1>2 DEF Covered, Indices
  <1>6. ASSUME NEW i \in Indices, IsSet(i)', op'[t].done \/ container_index(i) < c + 1
        PROVE  i \in raised'[t]
    <2>1. container_index(i) \in 0..(container_count - 1) /\ container_index(i) # c /\ IsSet(i)
      BY <1>4, <1>6, Bounds
    <2>2. op'[t].done => c + 1 = container_count
      BY <1>2
    <2>3. container_index(i) < c
      BY <1>6, <1>b, <2>1, <2>2
    <2> QED BY <1>1, <1>5, <1>a, <2>1, <2>3 DEF BitsetInvariant, ResetIsComplete
  <1>7. CallIsPlaced(op'[t])
    <2>1. c + 1 # container_count => c + 1 < container_count
      BY <1>b
    <2> QED BY <1>2, <2>1 DEF CallIsPlaced
  <1>8. CallIsComplete(t)'
    BY <1>2, <1>5, <1>6 DEF CallIsComplete
  <1> QED BY <1>1, <1>3, <1>4, <1>5, <1>7, <1>8 DEF Clears
-----------------------------------------------------------------------------
(* The invariant. *)

LEMMA ClearsPreserves ==
    ASSUME BitsetInvariant, NEW t \in Threads, actor' = t, Clears(t)
    PROVE  BitsetInvariant' /\ \A i \in Indices : IsSet(i)' # IsSet(i) => i \in Covered(op'[actor'])
  <1>1. TypeOK'
    BY DEF Clears, TypeOK
  <1>2. ASSUME NEW u \in Threads
        PROVE  CallIsPlaced(op'[u])
    BY DEF Clears, BitsetInvariant
  <1>3. ASSUME NEW u \in Threads
        PROVE  CallIsComplete(u)'
    <2>1. CASE u = t
      BY <2>1 DEF Clears
    <2>2. CASE u # t
      <3>1. op'[u] = op[u] /\ raised'[u] = raised[u] /\ op[u] \in Calls
        BY <2>2 DEF Clears, BitsetInvariant, TypeOK
      <3>2. Covered(op[u]) \subseteq Indices
        BY <3>1, BitsetAssumption DEF Covered, Calls, Indices
      <3>3. \A i \in Covered(op[u]) : IsSet(i)' => IsSet(i)
        BY <3>2 DEF Clears
      <3>4. CallIsComplete(u)
        BY DEF BitsetInvariant, ResetIsComplete, CallIsComplete
      <3> QED BY <3>1, <3>3, <3>4 DEF CallIsComplete
    <2> QED BY <2>1, <2>2
  <1>4. ResetIsComplete'
    BY <1>3 DEF ResetIsComplete, CallIsComplete
  <1>5. \A i \in Indices : IsSet(i)' # IsSet(i) => i \in Covered(op'[t])
    BY DEF Clears, IsSet
  <1> QED BY <1>1, <1>2, <1>4, <1>5 DEF BitsetInvariant

LEMMA SetPreserves ==
    ASSUME BitsetInvariant, NEW t \in Threads, actor' = t, NEW index \in Indices, Set(t, index)
    PROVE  BitsetInvariant' /\ \A i \in Indices : IsSet(i)' # IsSet(i) => i \in Covered(op'[actor'])
  <1> DEFINE mine == Call("Set", index, index, 0, TRUE)
  <1>a. /\ TypeOK /\ container_index(index) \in Containers /\ 0 \in 0..container_count
        /\ bit_index(index) \in Bits
    BY Bounds DEF BitsetInvariant
  <1>1. mine \in Calls
    BY <1>a, CallType
  <1>2. /\ op' \in [Threads -> Calls] /\ op'[t] = mine
        /\ \A u \in Threads \ {t} : op'[u] = op[u] /\ raised'[u] = raised[u] \cup {index}
    BY <1>a, <1>1 DEF Set, TypeOK
  <1>3. raised' \in [Threads -> SUBSET Indices]
    BY <1>a DEF Set, TypeOK
  <1>4. data' \in [Containers -> SUBSET Bits]
    BY <1>a DEF Set, TypeOK
  <1>5. ASSUME NEW i \in Indices PROVE IsSet(i)' <=> IsSet(i) \/ i = index
    <2>1. IsSet(i)' <=> IsSet(i) \/ (container_index(i) = container_index(index)
                                        /\ bit_index(i) = bit_index(index))
      BY <1>a, Bounds DEF Set, TypeOK, IsSet
    <2>2. (container_index(i) = container_index(index) /\ bit_index(i) = bit_index(index))
             => i = index
      BY Bounds, IndexOrder
    <2> QED BY <2>1, <2>2
  <1>6. Covered(op'[t]) = {index}
    BY <1>2, Bounds DEF Covered, Call
  <1>7. TypeOK'
    BY <1>2, <1>3, <1>4 DEF TypeOK
  <1>8. ASSUME NEW u \in Threads
        PROVE  CallIsPlaced(op'[u]) /\ CallIsComplete(u)'
    <2>1. CASE u = t
      BY <1>2, <2>1 DEF CallIsPlaced, CallIsComplete, Call
    <2>2. CASE u # t
      <3>1. op'[u] = op[u] /\ raised'[u] = raised[u] \cup {index} /\ op[u] \in Calls
        BY <1>2, <2>2 DEF BitsetInvariant, TypeOK
      <3>2. Covered(op[u]) \subseteq Indices
        BY <3>1, BitsetAssumption DEF Covered, Calls, Indices
      <3>3. \A i \in Covered(op[u]) : IsSet(i)' => IsSet(i) \/ i = index
        BY <1>5, <3>2
      <3>4. CallIsComplete(u) /\ CallIsPlaced(op[u])
        BY DEF BitsetInvariant, ResetIsComplete, CallIsComplete
      <3> QED BY <3>1, <3>3, <3>4 DEF CallIsComplete
    <2> QED BY <2>1, <2>2
  <1>9. ResetIsComplete'
    BY <1>8 DEF ResetIsComplete, CallIsComplete
  <1>10. \A i \in Indices : IsSet(i)' # IsSet(i) => i \in Covered(op'[t])
    BY <1>5, <1>6 DEF IsSet
  <1> QED BY <1>7, <1>8, <1>9, <1>10 DEF BitsetInvariant

LEMMA BitsetStep ==
    ASSUME BitsetInvariant, Next
    PROVE  BitsetInvariant' /\ \A i \in Indices : IsSet(i)' # IsSet(i) => i \in Covered(op'[actor'])
  <1> DEFINE Goal == BitsetInvariant' /\ \A i \in Indices :
                                             IsSet(i)' # IsSet(i) => i \in Covered(op'[actor'])
  <1> SUFFICES Goal
    OBVIOUS
  <1> HIDE DEF Goal
  <1>1. PICK t \in Threads :
           /\ actor' = t
           /\ \/ \E i \in Indices : Set(t, i) \/ Reset(t, i)
              \/ \E i, j \in Indices :
                    i <= j /\ (ResetRangeSingle(t, i, j) \/ ResetRangeFirst(t, i, j))
              \/ ResetRangeMiddle(t)
              \/ ResetRangeLast(t)
              \/ ClearBegin(t)
              \/ ClearContainer(t)
    BY DEF Next
  <1>2. ASSUME NEW i \in Indices, Set(t, i) PROVE Goal
    BY <1>1, <1>2, SetPreserves DEF Goal
  <1>3. ASSUME Clears(t) PROVE Goal
    BY <1>1, <1>3, ClearsPreserves DEF Goal
  <1>4. \/ \E i \in Indices : Set(t, i)
        \/ Clears(t)
    BY <1>1, ResetClears, ResetRangeSingleClears, ResetRangeFirstClears, ResetRangeMiddleClears,
       ResetRangeLastClears, ClearBeginClears, ClearContainerClears
  <1> QED BY <1>2, <1>3, <1>4

LEMMA BitsetStutter == BitsetInvariant /\ UNCHANGED vars => BitsetInvariant'
  BY DEF BitsetInvariant, vars, TypeOK, ResetIsComplete, IsSet, CallIsPlaced, Covered

\* Containers, calls and histories keep their types, in particular no bit beyond
\* a container's width is set and no call leaves the containers.
THEOREM TypeCorrect == Spec => []TypeOK
  <1>1. BitsetInvariant => TypeOK
    BY DEF BitsetInvariant
  <1> QED BY <1>1, BitsetInit, BitsetStep, BitsetStutter, PTL DEF Spec

\* Reset, ResetRange and Clear reset all of their range but what others set since:
\* the masks of the first and last container and the steps in between leave no
\* bit out, for every width, size and number of threads.
THEOREM ResetCorrect == Spec => []ResetIsComplete
  <1>1. BitsetInvariant => ResetIsComplete
    BY DEF BitsetInvariant
  <1> QED BY <1>1, BitsetInit, BitsetStep, BitsetStutter, PTL DEF Spec

\* No call changes a bit outside its range: the masks keep the others.
THEOREM OthersAreKept == Spec => OnlyCoveredBitsChange
  <1>1. BitsetInvariant /\ [Next]_vars
           => [ \A i \in Indices : IsSet(i)' # IsSet(i) => i \in Covered(op'[actor']) ]_vars
    BY BitsetStep
  <1> QED BY <1>1, BitsetInit, BitsetStep, BitsetStutter, PTL DEF Spec, OnlyCoveredBitsChange
-----------------------------------------------------------------------------
(* The calls of MCTileRanges. *)

LEMMA InvalidationStep ==
    ASSUME CallInvalidate
    PROVE  InvalidationCoversRect'
  <1>1. PICK width \in 1..MaxPx, height \in 1..MaxPx, w \in 1..MaxPx, h \in 1..MaxPx,
             x \in -1..MaxPx, y \in -1..MaxPx :
           LET rect == [x |-> x, y |-> y, width |-> w, height |-> h] IN
           /\ call' = [op |-> "invalidate", rect |-> rect, width |-> width, height |-> height]
           /\ result' = <<RangeInRect(rect, width, height)>>
    BY DEF CallInvalidate
  <1>0. /\ width \in Nat \ {0} /\ height \in Nat \ {0} /\ w \in Int /\ h \in Int
        /\ x \in Int /\ y \in Int
    BY RangesAssumption
  <1> DEFINE rect    == [x |-> x, y |-> y, width |-> w, height |-> h]
             left    == Higher(x, 0)
             top     == Higher(y, 0)
             right   == Lower(x + w, width)
             bottom  == Lower(y + h, height)
             columns == CeilDiv(width, TileSizePx)
             rows    == CeilDiv(height, TileSizePx)
             range   == RangeInRect(rect, width, height)
             cut     == [x |-> left, y |-> top, width |-> right - left, height |-> bottom - top]
             empty   == left >= right \/ top >= bottom
             first   == left \div TileSizePx
             last    == Lower(CeilDiv(right, TileSizePx), columns - 1)
             above   == top \div TileSizePx
             below   == Lower(CeilDiv(bottom, TileSizePx), rows - 1)
  <1>2. /\ left \in Nat /\ top \in Nat /\ right \in Int /\ bottom \in Int
        /\ right <= width /\ bottom <= height
    BY <1>0 DEF Higher, Lower
  <1>3. columns \in Nat \ {0} /\ rows \in Nat \ {0}
    BY <1>0, CellsOfLine
  <1>4. \A c, r : cut.width > 0 /\ cut.height > 0 /\ CellTouched(cut, c, r)
            => /\ ~empty
               /\ left < (c + 1) * TileSizePx /\ right > c * TileSizePx
               /\ top < (r + 1) * TileSizePx /\ bottom > r * TileSizePx
    <2> HIDE DEF left, right, top, bottom
    <2>1. left + (right - left) = right /\ top + (bottom - top) = bottom
      BY <1>2
    <2>2. right - left > 0 /\ bottom - top > 0 => ~empty
      BY <1>2
    <2> QED BY <2>1, <2>2 DEF CellTouched
  <1> DEFINE Goal == /\ \A c \in 0..(columns - 1), r \in 0..(rows - 1) :
                           cut.width > 0 /\ cut.height > 0 /\ CellTouched(cut, c, r)
                             => CoordToIndex(columns, c, r) \in TilesIn(range)
                     /\ range.index_start <= range.index_end
                     /\ range.index_end < columns * rows + 1
  <1>5. columns * rows \in Nat /\ columns * rows > 0
        /\ CoordToIndex(columns, columns - 1, rows - 1) = columns * rows - 1
    BY <1>3, LastIndex
  <1>6. ASSUME empty PROVE Goal
    <2>1. range = TileRange(CoordToIndex(columns, 0, 0),
                            CoordToIndex(columns, Lower(0, columns - 1), Lower(0, rows - 1)))
      BY <1>6 DEF RangeInRect, TileRect
    <2> HIDE DEF left, right, top, bottom, columns, rows, range, empty, cut
    <2>2. Lower(0, columns - 1) = 0 /\ Lower(0, rows - 1) = 0 /\ CoordToIndex(columns, 0, 0) = 0
      BY <1>3 DEF Lower, CoordToIndex
    <2>3. range.index_start = 0 /\ range.index_end = 0
      BY <2>1, <2>2 DEF TileRange
    <2> QED BY <1>4, <1>5, <1>6, <2>3
  <1>7. ASSUME ~empty PROVE Goal
    <2>1. range = TileRange(CoordToIndex(columns, first, above),
                            CoordToIndex(columns, last, below))
      BY <1>7 DEF RangeInRect, TileRect
    <2>2. left < right /\ top < bottom
      <3> HIDE DEF left, right, top, bottom
      <3> QED BY <1>2, <1>7
    <2>3. /\ first \in Nat /\ last \in Int /\ first <= last /\ last <= columns - 1
          /\ \A c \in 0..(columns - 1) :
                 left < (c + 1) * TileSizePx /\ right > c * TileSizePx => first <= c /\ c <= last
      <3> HIDE DEF left, right, top, bottom
      <3>1. right \in Int /\ width \in Nat \ {0} /\ left < right /\ right <= width /\ left \in Nat
        BY <1>0, <1>2, <2>2
      <3> QED BY ONLY <3>1, CellsOfLine
    <2>5. /\ above \in Nat /\ below \in Int /\ above <= below /\ below <= rows - 1
          /\ \A r \in 0..(rows - 1) :
                 top < (r + 1) * TileSizePx /\ bottom > r * TileSizePx => above <= r /\ r <= below
      <3> HIDE DEF left, right, top, bottom
      <3>1. bottom \in Int /\ height \in Nat \ {0} /\ top < bottom /\ bottom <= height /\ top \in Nat
        BY <1>0, <1>2, <2>2
      <3> QED BY ONLY <3>1, CellsOfLine
    <2>4. /\ range.index_start = CoordToIndex(columns, first, above)
          /\ range.index_end = CoordToIndex(columns, last, below)
      BY <2>1 DEF TileRange
    <2> HIDE DEF left, right, top, bottom, columns, rows, range, empty, cut, first, last, above, below
    <2>6. /\ first \in Int /\ last \in Int /\ first <= last /\ last <= columns - 1
          /\ above \in Int /\ below \in Int /\ above <= below /\ below <= rows - 1
          /\ columns - 1 \in Int /\ rows - 1 \in Int
      BY <1>3, <2>3, <2>5
    <2>7. /\ range.index_start \in Int /\ range.index_end \in Int
          /\ range.index_start <= range.index_end
      BY <1>3, <2>4, <2>6, IndexBetween
    <2>8. range.index_end <= CoordToIndex(columns, columns - 1, rows - 1)
      BY <1>3, <2>4, <2>6, IndexBetween
    <2>9. ASSUME NEW c \in 0..(columns - 1), NEW r \in 0..(rows - 1),
                 cut.width > 0, cut.height > 0, CellTouched(cut, c, r)
          PROVE  CoordToIndex(columns, c, r) \in TilesIn(range)
      <3>1. first <= c /\ c <= last /\ above <= r /\ r <= below
        BY <1>4, <2>3, <2>5, <2>9
      <3>2. c \in Int /\ r \in Int
        BY <1>3
      <3>3. range.index_start <= CoordToIndex(columns, c, r) /\ CoordToIndex(columns, c, r) \in Int
        BY <1>3, <2>4, <2>6, <3>1, <3>2, IndexBetween
      <3>4. CoordToIndex(columns, c, r) <= range.index_end
        BY <1>3, <2>4, <2>6, <3>1, <3>2, IndexBetween
      <3> QED BY <2>7, <3>3, <3>4 DEF TilesIn
    <2> QED BY <1>5, <2>7, <2>8, <2>9
  <1>8. Goal
    BY <1>6, <1>7
  <1>9. /\ call'.rect = rect /\ call'.width = width /\ call'.height = height
        /\ result'[1] = range
    BY <1>1
  <1> QED BY <1>8, <1>9 DEF InvalidationCoversRect

LEMMA ScrollStep ==
    ASSUME CallScroll
    PROVE  ViewIsScheduled'
  <1>1. PICK columns \in 1..MaxColumns, rows \in 1..MaxRows, y \in 0..MaxPx, h \in 1..MaxPx :
           /\ call' = [op |-> "scroll", columns |-> columns, rows |-> rows, y |-> y, h |-> h]
           /\ result' = <<LimitIndex(columns, y, h), NextScrollTileRange(columns, rows, y, h)>>
    BY DEF CallScroll
  <1>0. columns \in Nat \ {0} /\ rows \in Nat \ {0} /\ y \in Nat /\ h \in Nat \ {0}
    BY RangesAssumption
  <1> DEFINE size   == columns * rows - 1
             from   == Higher(0, y - h)
             limit  == LimitRows(y, h)
             wide   == LimitRows(from, h * 3)
             low    == Lower(wide.start, rows - 1)
             high   == Lower(wide.end, rows - 1)
             first  == LimitIndex(columns, y, h)
             second == NextScrollTileRange(columns, rows, y, h)
             view   == [x |-> 0, y |-> y, width |-> columns * TileSizePx, height |-> h]
  <1>2. /\ columns * rows \in Nat /\ columns * rows > 0
        /\ CoordToIndex(columns, columns - 1, rows - 1) = size
    BY <1>0, LastIndex
  <1>3. /\ limit.start \in Nat /\ limit.end \in Nat /\ limit.start <= limit.end
        /\ \A r \in Nat : y < (r + 1) * TileSizePx /\ y + h > r * TileSizePx
                             => limit.start <= r /\ r <= limit.end
    BY <1>0, LimitRowsHoldTheView
  <1>4. /\ wide.start \in Nat /\ wide.end \in Nat /\ wide.start <= wide.end
        /\ \A r \in Nat : y < (r + 1) * TileSizePx /\ y + h > r * TileSizePx
                             => wide.start <= r /\ r <= wide.end
    <2>1. from \in Nat /\ from <= y /\ y + h <= from + h * 3 /\ h * 3 \in Nat /\ y + h \in Int
      BY <1>0 DEF Higher
    <2> HIDE DEF from
    <2> QED BY <1>0, <2>1, LimitRowsHoldTheView
  <1>5. /\ first.index_start = CoordToIndex(columns, 0, limit.start)
        /\ first.index_end = CoordToIndex(columns, columns - 1, limit.end)
    BY DEF LimitIndex, TileRange
  <1>6. /\ second.index_start = Lower(low * columns, size)
        /\ second.index_end = Lower(high * columns + columns - 1, size)
    BY DEF NextScrollTileRange, TileRange
  <1>7. \A c, r : CellTouched(view, c, r)
                     => y < (r + 1) * TileSizePx /\ y + h > r * TileSizePx
    BY DEF CellTouched
  <1> HIDE DEF size, from, limit, wide, first, second, view
  <1>8. /\ low \in Nat /\ high \in Nat /\ low <= high /\ high <= rows - 1
        /\ \A r \in 0..(rows - 1) : wide.start <= r /\ r <= wide.end => low <= r /\ r <= high
    BY <1>0, <1>4 DEF Lower
  <1> HIDE DEF low, high
  <1>9. size \in Nat
    BY <1>2 DEF size
  <1>10. /\ low * columns = CoordToIndex(columns, 0, low) /\ low * columns \in Int
         /\ high * columns + columns - 1 = CoordToIndex(columns, columns - 1, high)
         /\ high * columns + columns - 1 \in Int
    <2>1. low * columns \in Int /\ high * columns \in Int
      BY <1>0, <1>8
    <2> HIDE DEF low, high
    <2> QED BY <1>0, <2>1 DEF CoordToIndex
  <1>11. ASSUME NEW c \in 0..(columns - 1), NEW r \in 0..(rows - 1), CellTouched(view, c, r)
         PROVE  /\ CoordToIndex(columns, c, r) \in TilesIn(first)
                /\ CoordToIndex(columns, c, r) \in TilesIn(second)
    <2>0. c \in Int /\ r \in Nat /\ r \in Int /\ 0 <= c /\ c <= columns - 1 /\ r <= rows - 1
      BY <1>0
    <2>1. y < (r + 1) * TileSizePx /\ y + h > r * TileSizePx
      BY <1>7, <1>11
    <2>2. limit.start <= r /\ r <= limit.end
      BY <1>3, <2>0, <2>1
    <2>3. low <= r /\ r <= high
      BY <1>4, <1>8, <2>0, <2>1
    <2>4. /\ limit.start \in Int /\ limit.end \in Int /\ low \in Int /\ high \in Int
          /\ columns - 1 \in Int /\ rows - 1 \in Int
      BY <1>0, <1>3, <1>8
    <2>a. ASSUME NEW r1 \in Int, NEW r2 \in Int, r1 <= r, r <= r2
          PROVE  /\ CoordToIndex(columns, 0, r1) \in Int
                 /\ CoordToIndex(columns, c, r) \in Int
                 /\ CoordToIndex(columns, columns - 1, r2) \in Int
                 /\ CoordToIndex(columns, 0, r1) <= CoordToIndex(columns, c, r)
                 /\ CoordToIndex(columns, c, r) <= CoordToIndex(columns, columns - 1, r2)
      BY <1>0, <2>0, <2>a, RowsBetween
    <2>5. /\ CoordToIndex(columns, 0, limit.start) \in Int
          /\ CoordToIndex(columns, c, r) \in Int
          /\ CoordToIndex(columns, columns - 1, limit.end) \in Int
          /\ CoordToIndex(columns, 0, limit.start) <= CoordToIndex(columns, c, r)
          /\ CoordToIndex(columns, c, r) <= CoordToIndex(columns, columns - 1, limit.end)
      BY <2>2, <2>4, <2>a
    <2>6. /\ first.index_start \in Int /\ first.index_end \in Int
          /\ first.index_start <= CoordToIndex(columns, c, r)
          /\ CoordToIndex(columns, c, r) <= first.index_end
      BY <1>5, <2>5
    <2>7. low * columns <= CoordToIndex(columns, c, r)
      BY <1>10, <2>3, <2>4, <2>a
    <2>8. CoordToIndex(columns, c, r) <= high * columns + columns - 1
      <3>1. CoordToIndex(columns, c, r) <= CoordToIndex(columns, columns - 1, high)
        BY <2>3, <2>4, <2>a
      <3> QED BY <1>10, <3>1
    <2>9. CoordToIndex(columns, c, r) <= size
      BY <1>0, <1>2, <2>0, <2>4, IndexBetween
    <2>10. CoordToIndex(columns, c, r) \in TilesIn(first)
      BY ONLY <2>5, <2>6 DEF TilesIn
    <2>11. CoordToIndex(columns, c, r) \in second.index_start .. second.index_end
      <3> DEFINE a == low * columns
                 b == high * columns + columns - 1
                 i == CoordToIndex(columns, c, r)
      <3>1. a \in Int /\ b \in Int /\ i \in Int /\ a <= i /\ i <= b /\ i <= size
        BY <1>10, <2>5, <2>7, <2>8, <2>9
      <3>2. second.index_start = Lower(a, size) /\ second.index_end = Lower(b, size)
        BY <1>6
      <3> HIDE DEF a, b, i
      <3>3. i \in second.index_start .. second.index_end
        BY <1>9, <3>1, <3>2 DEF Lower
      <3> QED BY <3>3 DEF i
    <2> QED BY <2>10, <2>11 DEF TilesIn
  <1>12. TilesIn(second) \subseteq 0..size
    <2>1. CoordToIndex(columns, 0, 0) <= CoordToIndex(columns, 0, low)
      <3>1. 0 \in 0..(columns - 1) /\ 0 \in Int /\ low \in Int /\ 0 <= low /\ low <= low
        BY <1>0, <1>8
      <3> QED BY <1>0, <3>1, RowsBetween
    <2>2. CoordToIndex(columns, 0, 0) = 0
      BY <1>0 DEF CoordToIndex
    <2>3. low * columns >= 0
      BY <1>10, <2>1, <2>2
    <2> DEFINE a == low * columns
               b == high * columns + columns - 1
    <2>4. a \in Int /\ b \in Int /\ a >= 0
      BY <1>10, <2>3
    <2>5. second.index_start = Lower(a, size) /\ second.index_end = Lower(b, size)
      BY <1>6
    <2> HIDE DEF a, b
    <2> QED BY <1>9, <2>4, <2>5 DEF Lower, TilesIn
  <1>13. /\ call'.op = "scroll" /\ call'.columns = columns /\ call'.rows = rows
         /\ call'.y = y /\ call'.h = h
         /\ result'[1] = first /\ result'[2] = second
    BY <1>1 DEF first, second
  <1>14. \A i \in 1..2 : i = 1 \/ i = 2
    OBVIOUS
  <1> QED BY <1>11, <1>12, <1>13, <1>14 DEF ViewIsScheduled, view, size

LEMMA ListsAreFull ==
    /\ WellFormed \subseteq FullRanges
    /\ Lists(MaxRanges) \subseteq Seq(FullRanges)
    /\ Lists(MaxVisited) \subseteq Seq(FullRanges)
  <1>1. \A a, b \in 0..MaxIndex : /\ TileRange(a, b).index_start = a
                                  /\ TileRange(a, b).index_end = b
                                  /\ TileRange(a, b) \in [index_start : Int, index_end : Int]
    BY DEF TileRange
  <1>2. WellFormed \subseteq FullRanges
    BY <1>1 DEF WellFormed, Ranges, FullRanges
  <1>3. ASSUME NEW n \in Nat, NEW f \in [1..n -> WellFormed] PROVE f \in Seq(FullRanges)
    BY <1>2
  <1>4. ASSUME NEW max \in Nat PROVE Lists(max) \subseteq Seq(FullRanges)
    <2>1. \A n \in 0..max : n \in Nat
      OBVIOUS
    <2>2. \A n \in 0..max : \A f \in [1..n -> WellFormed] : f \in Seq(FullRanges)
      BY <1>3, <2>1
    <2> QED BY <2>2 DEF Lists
  <1>5. MaxRanges \in Nat /\ MaxVisited \in Nat
    BY RangesAssumption
  <1> QED BY <1>2, <1>4, <1>5

LEMMA SimplifyStep ==
    ASSUME CallSimplify
    PROVE  SimplifiedRangesCountEachTileOnce'
  <1>1. PICK ranges \in Lists(MaxRanges) : /\ call' = [op |-> "simplify", ranges |-> ranges]
                                /\ result' = SimplifyRanges(ranges)
    BY DEF CallSimplify
  <1> DEFINE r == SimplifyRanges(ranges)
  <1>2. /\ r \in Seq(FullRanges) /\ Apart(r) /\ TilesInAll(r) = TilesInAll(ranges)
    BY ListsAreFull, SimplifyResult
  <1> HIDE DEF r
  <1>3. \A i \in 1..(Len(r) - 1) : r[i].index_end < r[i + 1].index_start
    <2>1. \A i \in 1..(Len(r) - 1) : i \in 1..Len(r) /\ i + 1 \in 1..Len(r) /\ i < i + 1
      BY <1>2
    <2> QED BY <1>2, <2>1 DEF Apart
  <1>4. TileCount(r) = Cardinality(TilesInAll(ranges))
    BY <1>2, CountResult
  <1>5. call'.ranges = ranges /\ result' = r
    BY <1>1 DEF r
  <1> QED BY <1>2, <1>3, <1>4, <1>5 DEF SimplifiedRangesCountEachTileOnce

LEMMA RemainingStep ==
    ASSUME CallRemaining
    PROVE  RemainingAreTheUnpainted'
  <1>1. PICK ranges \in Lists(MaxVisited), size \in 1..(MaxIndex + 1) :
           \E valid, lost \in SUBSET (0..(size - 1)) :
              /\ call' = [op |-> "remaining", ranges |-> ranges, size |-> size,
                          good |-> valid \ lost]
              /\ result' = InvalidRangesRemaining(ranges, size, valid, (0..MaxIndex) \ lost)
    BY DEF CallRemaining
  <1>2. PICK valid \in SUBSET (0..(size - 1)), lost \in SUBSET (0..(size - 1)) :
              /\ call' = [op |-> "remaining", ranges |-> ranges, size |-> size,
                          good |-> valid \ lost]
              /\ result' = InvalidRangesRemaining(ranges, size, valid, (0..MaxIndex) \ lost)
    BY <1>1
  <1> DEFINE resident == (0..MaxIndex) \ lost
             r == InvalidRangesRemaining(ranges, size, valid, resident)
  <1>3. ranges \in Seq(FullRanges) /\ size \in Int
    BY ListsAreFull
  <1>4. valid \cap resident = valid \ lost
    <2>1. 0..(size - 1) \subseteq 0..MaxIndex
      BY RangesAssumption
    <2> QED BY <2>1
  <1> HIDE DEF resident
  <1>5. \A x : x \in TilesInAll(r)
                 <=> x \in TilesInAll(ranges) /\ x < size /\ x \notin valid \cap resident
    BY <1>3, RemainingResult
  <1>6. call'.ranges = ranges /\ call'.size = size /\ call'.good = valid \ lost /\ result' = r
    BY <1>2 DEF resident
  <1> HIDE DEF r
  <1>7. TilesInAll(r) = { i \in TilesInAll(ranges) : i < size /\ i \notin valid \ lost }
    BY <1>4, <1>5
  <1> QED BY <1>6, <1>7 DEF RemainingAreTheUnpainted

LEMMA ClipStep ==
    ASSUME CallClip
    PROVE  ClippingKeepsTheView'
  <1>1. PICK ranges \in Lists(MaxVisited), limit \in WellFormed :
           /\ call' = [op |-> "clip", ranges |-> ranges, limit |-> limit]
           /\ result' = SimplifyRanges(ClipRanges(ranges, limit))
    BY DEF CallClip
  <1> DEFINE c == ClipRanges(ranges, limit)
  <1>2. c \in Seq(FullRanges) /\ TilesInAll(c) = TilesInAll(ranges) \cap TilesIn(limit)
    BY ListsAreFull, ClipResult
  <1> HIDE DEF c
  <1>3. TilesInAll(SimplifyRanges(c)) = TilesInAll(c)
    BY <1>2, SimplifyResult
  <1>4. call'.ranges = ranges /\ call'.limit = limit /\ result' = SimplifyRanges(c)
    BY <1>1 DEF c
  <1> QED BY <1>2, <1>3, <1>4 DEF ClippingKeepsTheView

\* A step that makes no call of one kind leaves no result of that kind, or the
\* one that was there.
LEMMA OtherSteps ==
    ASSUME [StructuresNext]_structureVars
    PROVE  \/ CallSimplify \/ CallRemaining \/ CallClip \/ CallInvalidate \/ CallScroll
           \/ call' = NoCall
           \/ call' = call /\ result' = result
  BY DEF StructuresNext, structureVars, RangesNext, Return, callVars

LEMMA CallKinds ==
    /\ CallSimplify => call'.op = "simplify"
    /\ CallRemaining => call'.op = "remaining"
    /\ CallClip => call'.op = "clip"
    /\ CallInvalidate => call'.op = "invalidate"
    /\ CallScroll => call'.op = "scroll"
    /\ NoCall.op = "none"
  <1>1. CallSimplify => call'.op = "simplify"
    BY DEF CallSimplify
  <1>2. CallRemaining => call'.op = "remaining"
    BY DEF CallRemaining
  <1>3. CallClip => call'.op = "clip"
    BY DEF CallClip
  <1>4. CallInvalidate => call'.op = "invalidate"
    BY DEF CallInvalidate
  <1>5. CallScroll => call'.op = "scroll"
    BY DEF CallScroll
  <1> QED BY <1>1, <1>2, <1>3, <1>4, <1>5 DEF NoCall

\* SimplifyRanges loses no tile, adds none and counts none twice, whatever the
\* ranges overlap, for lists of any length.
THEOREM SimplifyCorrect == StructuresSpec => []SimplifiedRangesCountEachTileOnce
  <1>1. StructuresInit => SimplifiedRangesCountEachTileOnce
    BY CallKinds DEF StructuresInit, RangesInit, SimplifiedRangesCountEachTileOnce
  <1>2. SimplifiedRangesCountEachTileOnce /\ [StructuresNext]_structureVars => SimplifiedRangesCountEachTileOnce'
    <2> SUFFICES ASSUME SimplifiedRangesCountEachTileOnce, [StructuresNext]_structureVars
                 PROVE  SimplifiedRangesCountEachTileOnce'
      OBVIOUS
    <2>1. CASE call' = call /\ result' = result
      BY <2>1 DEF SimplifiedRangesCountEachTileOnce
    <2> QED BY <2>1, OtherSteps, CallKinds, SimplifyStep DEF SimplifiedRangesCountEachTileOnce
  <1> QED BY <1>1, <1>2, PTL DEF StructuresSpec

\* InvalidRangesRemaining finds the tiles that are still to be painted, and only
\* those, for any size of the bitset and any state of the cache.
THEOREM RemainingCorrect == StructuresSpec => []RemainingAreTheUnpainted
  <1>1. StructuresInit => RemainingAreTheUnpainted
    BY CallKinds DEF StructuresInit, RangesInit, RemainingAreTheUnpainted
  <1>2. RemainingAreTheUnpainted /\ [StructuresNext]_structureVars => RemainingAreTheUnpainted'
    <2> SUFFICES ASSUME RemainingAreTheUnpainted, [StructuresNext]_structureVars
                 PROVE  RemainingAreTheUnpainted'
      OBVIOUS
    <2>1. CASE call' = call /\ result' = result
      BY <2>1 DEF RemainingAreTheUnpainted
    <2> QED BY <2>1, OtherSteps, CallKinds, RemainingStep DEF RemainingAreTheUnpainted
  <1> QED BY <1>1, <1>2, PTL DEF StructuresSpec

\* Merging tasks keeps just the tiles in the view.
THEOREM ClipCorrect == StructuresSpec => []ClippingKeepsTheView
  <1>1. StructuresInit => ClippingKeepsTheView
    BY CallKinds DEF StructuresInit, RangesInit, ClippingKeepsTheView
  <1>2. ClippingKeepsTheView /\ [StructuresNext]_structureVars => ClippingKeepsTheView'
    <2> SUFFICES ASSUME ClippingKeepsTheView, [StructuresNext]_structureVars
                 PROVE  ClippingKeepsTheView'
      OBVIOUS
    <2>1. CASE call' = call /\ result' = result
      BY <2>1 DEF ClippingKeepsTheView
    <2> QED BY <2>1, OtherSteps, CallKinds, ClipStep DEF ClippingKeepsTheView
  <1> QED BY <1>1, <1>2, PTL DEF StructuresSpec

\* An invalidation reaches every tile that a dirty rectangle touches and stays in
\* the bitset, for any tile size, document and rectangle.
THEOREM InvalidationCorrect == StructuresSpec => []InvalidationCoversRect
  <1>1. StructuresInit => InvalidationCoversRect
    BY CallKinds DEF StructuresInit, RangesInit, InvalidationCoversRect
  <1>2. InvalidationCoversRect /\ [StructuresNext]_structureVars => InvalidationCoversRect'
    <2> SUFFICES ASSUME InvalidationCoversRect, [StructuresNext]_structureVars
                 PROVE  InvalidationCoversRect'
      OBVIOUS
    <2>1. CASE call' = call /\ result' = result
      BY <2>1 DEF InvalidationCoversRect
    <2> QED BY <2>1, OtherSteps, CallKinds, InvalidationStep DEF InvalidationCoversRect
  <1> QED BY <1>1, <1>2, PTL DEF StructuresSpec

\* The ranges for scrolling hold every tile in the view, and the one that is
\* painted no tile outside the document, for any tile size, position and height.
THEOREM ViewCorrect == StructuresSpec => []ViewIsScheduled
  <1>1. StructuresInit => ViewIsScheduled
    BY CallKinds DEF StructuresInit, RangesInit, ViewIsScheduled
  <1>2. ViewIsScheduled /\ [StructuresNext]_structureVars => ViewIsScheduled'
    <2> SUFFICES ASSUME ViewIsScheduled, [StructuresNext]_structureVars
                 PROVE  ViewIsScheduled'
      OBVIOUS
    <2>1. CASE call' = call /\ result' = result
      BY <2>1 DEF ViewIsScheduled
    <2> QED BY <2>1, OtherSteps, CallKinds, ScrollStep DEF ViewIsScheduled
  <1> QED BY <1>1, <1>2, PTL DEF StructuresSpec
=============================================================================
