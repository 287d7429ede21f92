-------------------------- MODULE MCTileStructures --------------------------
(***************************************************************************)
(* What the tile buffer is built from.  Two threads on a bitset of three   *)
(* containers of two bits, the last one only partly used: every shape of   *)
(* range (one container, two, three) occurs, and in each the first and     *)
(* last bit of a container.  And, while the bitset is as it was made, the  *)
(* calls of MCTileRanges.                                                  *)
(***************************************************************************)
EXTENDS AtomicBitset, MCTileRanges

Symmetry == Permutations(Threads)

structureVars == <<vars, callVars>>
StructuresInit == Init /\ RangesInit
StructuresNext ==
    \/ call = NoCall /\ Next /\ UNCHANGED callVars
    \/ (\A t \in Threads : op[t].kind = "none") /\ RangesNext /\ UNCHANGED vars
StructuresSpec == StructuresInit /\ [][StructuresNext]_structureVars
=============================================================================
