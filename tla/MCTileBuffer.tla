---------------------------- MODULE MCTileBuffer ----------------------------
(***************************************************************************)
(* Two workers and a pool of two slots.  At the first scale the document   *)
(* has three tiles in one column, so that tiles 0 and 2 share a slot, or   *)
(* two tiles in two columns, so that tile 1 moves when it is resized; at   *)
(* the second scale it has one tile.                                       *)
(***************************************************************************)
EXTENDS TileBuffer, TLC

CONSTANTS large, wide, small

MCColumns == [l \in Layouts |-> IF l = wide THEN 2 ELSE 1]
MCTileTotal == [l \in Layouts |-> IF l = large THEN 3 ELSE IF l = wide THEN 2 ELSE 1]
MCScale == [l \in Layouts |-> IF l = small THEN 2 ELSE 1]
Symmetry == Permutations(Workers)

\* The paints, edits and resizes affordable together: MaxPaints paints of an
\* untouched document, MaxChangedPaints of one that is edited, resized or
\* zoomed, which is never edited as well, and a second resize only with one
\* paint.
MaxChangedPaints == 2
MaxResizedSteps == 3
ContextsInUse == {active_context_hash} \cup { worker[w].context : w \in Workers }
Resized == resizes > 0 \/ layout # large \/ MCScale[small] \in ContextsInUse
Edited == \E t \in Tiles : version[t] > 0
Affordable ==
    /\ Edited' \/ Resized' => paints' <= MaxChangedPaints
    /\ Resized' => paints' + resizes' <= MaxResizedSteps /\ ~Edited'

MCNext == Next /\ Affordable
MCSpec == Init /\ [][MCNext]_vars
=============================================================================
