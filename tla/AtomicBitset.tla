---------------------------- MODULE AtomicBitset ----------------------------
(***************************************************************************)
(* atomic_bitset.{h,cc}: a bitset kept in containers of kBitsPerContainer  *)
(* bits, shared by the threads that paint tiles.  Each access to one       *)
(* container is one atomic step; ResetRange and Clear visit several        *)
(* containers and are therefore several steps, between which the other     *)
(* threads run.  A container is the set of its bits that are 1.            *)
(*                                                                         *)
(* ResetRange shifts by the unreduced index when both ends are in the same *)
(* container.  That is undefined in C++ from index kBitsPerContainer on;   *)
(* the 64-bit shift instructions the supported targets compile it to take  *)
(* the count modulo the width, and so do ShiftLeft and ShiftRight.         *)
(***************************************************************************)
EXTENDS Integers, FiniteSets

CONSTANTS Threads,             \* threads that use the bitset
          BitsPerContainer,    \* kBitsPerContainer
          Size                 \* size_

ASSUME BitsetAssumption ==
    /\ BitsPerContainer \in Nat \ {0}
    /\ Size \in Nat \ {0}

Bits == 0..(BitsPerContainer - 1)
Indices == 0..(Size - 1)

container_index(index) == index \div BitsPerContainer

\* A faulty bit_index that does not reduce the index.
bit_indexUnreduced(index) == index

bit_index(index) == index % BitsPerContainer

container_count == (Size + BitsPerContainer - 1) \div BitsPerContainer
Containers == 0..(container_count - 1)

VARIABLES data,      \* data_
          op,        \* the call each thread makes, or made last
          raised,    \* history: the bits set since that call began
          actor      \* history: the thread that made the last step

vars == <<data, op, raised, actor>>

\* The call a thread is in.  "next" is the container it visits next; a call
\* with done = TRUE has returned.
Call(kind, first, last, next, done) ==
    [kind |-> kind, first |-> first, last |-> last, next |-> next, done |-> done]

Calls == [kind : {"none", "Set", "Reset", "ResetRange", "Clear"}, first : Indices,
          last : Indices, next : 0..container_count, done : BOOLEAN]

\* The indices a call is about.
Covered(call) == call.first .. call.last

IsSet(index) == bit_index(index) \in data[container_index(index)]
-----------------------------------------------------------------------------
(* The words ResetRange builds; a word is the set of its bits that are 1. *)

ShiftLeft(n) == { b \in Bits : b >= n % BitsPerContainer }
ShiftRight(n) == { b \in Bits : b <= BitsPerContainer - 1 - (n % BitsPerContainer) }

\* A faulty SingleMask that is off by one at the upper end.
SingleMaskOffByOne(index_start, index_end) ==
    LET left  == ShiftLeft(index_start)
        right == ShiftRight(BitsPerContainer - bit_index(index_end))
    IN  (left \ right) \cup (right \ left)

\* kAllBitsSet << index_start, xor kAllBitsSet >> (kBitsPerContainer - index_end - 1)
SingleMask(index_start, index_end) ==
    LET left  == ShiftLeft(index_start)
        right == ShiftRight(BitsPerContainer - index_end - 1)
    IN  (left \ right) \cup (right \ left)

\* A faulty EndMask that clears the whole container.
EndMaskNothing(index_end) == {}

StartMask(index_start) == Bits \ ShiftLeft(bit_index(index_start))
EndMask(index_end) == Bits \ ShiftRight(BitsPerContainer - bit_index(index_end) - 1)
-----------------------------------------------------------------------------
Init ==
    /\ data = [c \in Containers |-> {}]
    /\ op = [t \in Threads |-> Call("none", 0, 0, 0, TRUE)]
    /\ raised = [t \in Threads |-> {}]
    /\ actor \in Threads

Keep(c, mask) == data' = [data EXCEPT ![c] = @ \cap mask]

Begin(t, call) ==
    /\ op[t].done
    /\ op' = [op EXCEPT ![t] = call]
    /\ raised' = [raised EXCEPT ![t] = {}]

Set(t, index) ==
    /\ op[t].done
    /\ data' = [data EXCEPT ![container_index(index)] = @ \cup {bit_index(index)}]
    /\ op' = [op EXCEPT ![t] = Call("Set", index, index, 0, TRUE)]
    /\ raised' = [u \in Threads |-> IF u = t THEN {} ELSE raised[u] \cup {index}]

Reset(t, index) ==
    /\ Begin(t, Call("Reset", index, index, 0, TRUE))
    /\ Keep(container_index(index), Bits \ {bit_index(index)})

\* Both ends in one container: one step.
ResetRangeSingle(t, index_start, index_end) ==
    /\ container_index(index_start) = container_index(index_end)
    /\ Begin(t, Call("ResetRange", index_start, index_end, 0, TRUE))
    /\ Keep(container_index(index_start), SingleMask(index_start, index_end))

\* A faulty ResetRangeFirst that leaves out the containers in the middle.
ResetRangeFirstSkips(t, index_start, index_end) ==
    /\ container_index(index_start) < container_index(index_end)
    /\ Begin(t, Call("ResetRange", index_start, index_end,
                     container_index(index_end), FALSE))
    /\ Keep(container_index(index_start), StartMask(index_start))

\* Otherwise the first container, then the ones in the middle, then the last.
ResetRangeFirst(t, index_start, index_end) ==
    /\ container_index(index_start) < container_index(index_end)
    /\ Begin(t, Call("ResetRange", index_start, index_end,
                     container_index(index_start) + 1, FALSE))
    /\ Keep(container_index(index_start), StartMask(index_start))

ResetRangeMiddle(t) ==
    /\ op[t].kind = "ResetRange" /\ ~op[t].done
    /\ op[t].next < container_index(op[t].last)
    /\ data' = [data EXCEPT ![op[t].next] = {}]
    /\ op' = [op EXCEPT ![t].next = @ + 1]
    /\ UNCHANGED raised

ResetRangeLast(t) ==
    /\ op[t].kind = "ResetRange" /\ ~op[t].done
    /\ op[t].next = container_index(op[t].last)
    /\ Keep(op[t].next, EndMask(op[t].last))
    /\ op' = [op EXCEPT ![t].done = TRUE]
    /\ UNCHANGED raised

ClearBegin(t) ==
    /\ Begin(t, Call("Clear", 0, Size - 1, 0, FALSE))
    /\ UNCHANGED data

ClearContainer(t) ==
    /\ op[t].kind = "Clear" /\ ~op[t].done
    /\ data' = [data EXCEPT ![op[t].next] = {}]
    /\ op' = [op EXCEPT ![t].next = @ + 1, ![t].done = (op[t].next + 1 = container_count)]
    /\ UNCHANGED raised

Next ==
    \E t \in Threads :
        /\ actor' = t
        /\ \/ \E i \in Indices : Set(t, i) \/ Reset(t, i)
           \/ \E i, j \in Indices :
                 i <= j /\ (ResetRangeSingle(t, i, j) \/ ResetRangeFirst(t, i, j))
           \/ ResetRangeMiddle(t)
           \/ ResetRangeLast(t)
           \/ ClearBegin(t)
           \/ ClearContainer(t)

Spec == Init /\ [][Next]_vars
-----------------------------------------------------------------------------
\* Types: each container holds bits of its width.
TypeOK ==
    /\ data \in [Containers -> SUBSET Bits]
    /\ op \in [Threads -> Calls]
    /\ raised \in [Threads -> SUBSET Indices]
    /\ actor \in Threads

\* A Reset, ResetRange or Clear leaves no bit of its range set, in all the
\* containers it has visited and in the end in the whole range, except bits
\* another thread set after the call began: no container of the range, and no
\* bit of the containers at its ends, is forgotten by the masks.
ResetIsComplete ==
    \A t \in Threads :
        op[t].kind \in {"Reset", "ResetRange", "Clear"} =>
            \A i \in Covered(op[t]) :
                (op[t].done \/ container_index(i) < op[t].next) /\ IsSet(i) => i \in raised[t]

\* No step disturbs a bit that is not the business of the calling thread: a
\* bit changes only if it lies in the range of the call the step belongs to.
\* Two threads that paint and invalidate different tiles of one container
\* never lose each other's updates.
OnlyCoveredBitsChange ==
    [][ \A i \in Indices : IsSet(i)' # IsSet(i) => i \in Covered(op'[actor']) ]_vars
=============================================================================
