-------------------------- MODULE TileBufferProofs --------------------------
(***************************************************************************)
(* Proofs about TileBuffer, for any number of workers, tiles, slots,       *)
(* layouts and edits.                                                      *)
(***************************************************************************)
EXTENDS TileBuffer, TLAPS

\* Tile indices are naturals, and tile 0 exists: every layout has a tile.
LEMMA TilesAreNaturals == Tiles \subseteq Nat /\ 0 \in Tiles
  <1>1. \A l \in Layouts : TileTotal[l] \in Nat \ {0}
    BY TileBufferAssumption
  <1>2. Tiles \subseteq Nat
    BY <1>1 DEF Tiles
  <1>3. PICK l \in Layouts : TRUE
    BY TileBufferAssumption
  <1>4. 0 \in 0..(TileTotal[l] - 1)
    BY <1>1, <1>3
  <1>5. 0 \in Tiles
    BY <1>3, <1>4 DEF Tiles
  <1> QED BY <1>2, <1>5

\* tile % kPoolSize is an index of the pool.
LEMMA SlotIsASlot == \A t \in Tiles : Slot(t) \in Slots
  BY TilesAreNaturals, TileBufferAssumption DEF Slot, Slots

\* What a worker's record holds, and that marking workers keeps it so.
WorkerType == [pc : {"idle", "claim", "assign", "begin", "coord", "raster", "check",
                     "copy", "set"},
               tile : Tiles, context : Contexts \cup {NoContext},
               columns : SUBSET ColumnCounts, scales : SUBSET Contexts, disturbed : BOOLEAN]

LEMMA MarkType ==
    ASSUME NEW workers \in [Workers -> WorkerType], NEW W
    PROVE  /\ Mark(workers, W) \in [Workers -> WorkerType]
           /\ \A w \in Workers :
                /\ Mark(workers, W)[w].pc = workers[w].pc
                /\ Mark(workers, W)[w].tile = workers[w].tile
                /\ Mark(workers, W)[w].columns = workers[w].columns
                /\ Mark(workers, W)[w].scales = workers[w].scales
                /\ Mark(workers, W)[w].disturbed = (workers[w].disturbed \/ w \in W)
  BY DEF Mark, WorkerType

LEMMA DisturbType ==
    ASSUME NEW workers \in [Workers -> WorkerType], NEW W
    PROVE  /\ Disturb(workers, W) \in [Workers -> WorkerType]
           /\ \A w \in Workers :
                /\ Disturb(workers, W)[w].pc = workers[w].pc
                /\ Disturb(workers, W)[w].tile = workers[w].tile
                /\ Disturb(workers, W)[w].columns = workers[w].columns
                /\ Disturb(workers, W)[w].scales = workers[w].scales
  BY MarkType DEF Disturb
-----------------------------------------------------------------------------
(* Type correctness. *)

LEMMA CallType ==
    ASSUME NEW pc \in {"idle", "claim"}, NEW t \in Tiles, NEW c \in Contexts \cup {NoContext}
    PROVE  Call(pc, t, c) \in WorkerType
  BY DEF Call, WorkerType

LEMMA IdleType == Idle \in WorkerType
  BY CallType, TilesAreNaturals DEF Idle

LEMMA InitTypeOK == Init => TypeOK
  <1> SUFFICES ASSUME Init PROVE TypeOK
    OBVIOUS
  <1>1. worker \in [Workers -> WorkerType]
    BY IdleType DEF Init
  <1>2. /\ version \in [Tiles -> 0..MaxVersion]
        /\ resizes \in 0..MaxResizes /\ paints \in 0..MaxPaints
    BY TileBufferAssumption DEF Init
  <1> QED BY <1>1, <1>2 DEF Init, TypeOK, WorkerType

LEMMA WorkersTyped == TypeOK => worker \in [Workers -> WorkerType]
  BY DEF TypeOK, WorkerType

LEMMA AtType ==
    ASSUME TypeOK, NEW w \in Workers,
           NEW pc \in {"idle", "claim", "assign", "begin", "coord", "raster", "check", "copy", "set"}
    PROVE  At(w, pc) \in [Workers -> WorkerType]
  <1>1. worker \in [Workers -> WorkerType]
    BY WorkersTyped
  <1>2. [worker[w] EXCEPT !.pc = pc] \in WorkerType
    BY <1>1 DEF WorkerType
  <1> QED BY <1>1, <1>2 DEF At

LEMMA WorkerStepTypeOK ==
    ASSUME TypeOK, NEW w \in Workers, WorkerStep(w)
    PROVE  TypeOK'
  <1> USE SlotIsASlot
  <1>a. worker \in [Workers -> WorkerType]
    BY DEF TypeOK, WorkerType
  <1>1. ASSUME NEW t \in Tiles, NEW c \in Contexts, PaintTileRefused(w, t, c)
        PROVE  TypeOK'
    BY <1>1 DEF PaintTileRefused, TypeOK, ResetBits
  <1>2. ASSUME NEW t \in Tiles, NEW c \in Contexts, PaintTileEnter(w, t, c)
        PROVE  TypeOK'
    <2>1. worker' \in [Workers -> WorkerType]
      BY <1>2, <1>a, CallType DEF PaintTileEnter
    <2>2. paints' \in 0..MaxPaints
      <3>1. paints \in 0..MaxPaints /\ paints < MaxPaints /\ paints' = paints + 1
        BY <1>2 DEF PaintTileEnter, TypeOK
      <3>2. MaxPaints \in Nat
        BY TileBufferAssumption
      <3> QED BY <3>1, <3>2
    <2> QED BY <1>2, <2>1, <2>2 DEF PaintTileEnter, TypeOK, WorkerType, bufferVars
  <1>3. CASE ClaimEvict(w)
    <2>1. worker' \in [Workers -> WorkerType]
      BY <1>3, AtType, DisturbType DEF ClaimEvict
    <2> QED BY <1>3, <2>1 DEF ClaimEvict, InvalidatePoolTile, ResetBits, TypeOK, WorkerType
  <1>4. CASE ClaimOwned(w)
    BY <1>4, AtType DEF ClaimOwned, Goto, TypeOK, WorkerType, bufferVars
  <1>5. CASE ClaimAssign(w)
    BY <1>5, AtType DEF ClaimAssign, Goto, TypeOK, WorkerType
  <1>6. CASE PaintTileSkip(w)
    BY <1>6, IdleType DEF PaintTileSkip, Return, TypeOK, WorkerType, bufferVars
  <1>7. CASE FillBuffer(w)
    <2>1. worker' \in [Workers -> WorkerType]
      BY <1>7, AtType, DisturbType DEF FillBuffer, GotoWriting
    <2> QED BY <1>7, <2>1 DEF FillBuffer, TypeOK, WorkerType
  <1>8. CASE LokPaintTile(w)
    <2>1. worker' \in [Workers -> WorkerType]
      BY <1>8, AtType, DisturbType DEF LokPaintTile, GotoWriting
    <2>2. [tile |-> worker[w].tile, columns |-> worker[w].columns, scales |-> worker[w].scales,
           version |-> version[worker[w].tile]] \in Picture
      BY DEF TypeOK, Picture
    <2> QED BY <1>8, <2>1, <2>2 DEF LokPaintTile, TypeOK, WorkerType
  <1>9. CASE CheckContext(w)
    BY <1>9, AtType DEF CheckContext, Goto, TypeOK, WorkerType, bufferVars
  <1>10. CASE CopyImage(w)
    <2>1. worker' \in [Workers -> WorkerType]
      BY <1>10, AtType, DisturbType DEF CopyImage, GotoWriting
    <2>2. Slot(worker[w].tile) \in Slots
      BY DEF TypeOK
    <2> QED BY <1>10, <2>1, <2>2 DEF CopyImage, CopiedImage, Overwritten, TypeOK, WorkerType
  <1>11. CASE AbortBeforeCopy(w)
    BY <1>11, IdleType DEF AbortBeforeCopy, Return, ResetBits, TypeOK, WorkerType
  <1>12. CASE AbortAfterCopy(w)
    <2>1. [worker EXCEPT ![w] = Idle] \in [Workers -> WorkerType]
      BY <1>a, IdleType
    <2>2. worker' \in [Workers -> WorkerType]
      BY <1>12, <2>1, DisturbType DEF AbortAfterCopy
    <2>3. Slot(worker[w].tile) \in Slots
      BY DEF TypeOK
    <2> QED BY <1>12, <2>2, <2>3 DEF AbortAfterCopy, CopiedImage, ResetBits, TypeOK, WorkerType
  <1>13. CASE SetValid(w)
    BY <1>13, IdleType DEF SetValid, Return, TypeOK, WorkerType
  <1>14. CASE PaintTileRasterize(w)
    BY <1>14, AtType DEF PaintTileRasterize, Goto, TypeOK, WorkerType, bufferVars
  <1>15. CASE IndexToCoord(w)
    <2>1. worker' \in [Workers -> WorkerType]
      <3>1. Columns[layout] \in ColumnCounts
        BY DEF TypeOK, ColumnCounts
      <3> QED BY <1>15, <1>a, <3>1 DEF IndexToCoord, WorkerType
    <2> QED BY <1>15, <2>1 DEF IndexToCoord, TypeOK, WorkerType, bufferVars
  <1>16. CASE ReadScale(w)
    <2>1. worker' \in [Workers -> WorkerType]
      <3>1. Scale[requested] \in Contexts
        BY DEF TypeOK, Contexts
      <3> QED BY <1>16, <1>a, <3>1 DEF ReadScale, WorkerType
    <2> QED BY <1>16, <2>1 DEF ReadScale, TypeOK, WorkerType, bufferVars
  <1> QED
    BY <1>1, <1>2, <1>3, <1>4, <1>5, <1>6, <1>7, <1>8, <1>9, <1>10, <1>11, <1>12, <1>13,
       <1>14, <1>15, <1>16
    DEF WorkerStep

LEMMA RendererStepTypeOK ==
    ASSUME TypeOK, RendererStep
    PROVE  TypeOK'
  <1>a. worker \in [Workers -> WorkerType]
    BY DEF TypeOK, WorkerType
  <1>1. ASSUME NEW first \in Tiles, NEW last \in Tiles, InvalidateTiles(first, last)
        PROVE  TypeOK'
    <2>1. worker' \in [Workers -> WorkerType]
      BY <1>1, <1>a, DisturbType DEF InvalidateTiles
    <2> QED BY <1>1, <2>1 DEF InvalidateTiles, ResetBits, TypeOK, WorkerType
  <1>2. CASE InvalidateAllTiles
    <2>1. worker' \in [Workers -> WorkerType]
      BY <1>2, <1>a, DisturbType DEF InvalidateAllTiles
    <2> QED BY <1>2, <2>1 DEF InvalidateAllTiles, ResetBits, TypeOK, WorkerType
  <1>3. ASSUME NEW c \in Contexts \cup {NoContext}, SetActiveContext(c)
        PROVE  TypeOK'
    BY <1>3 DEF SetActiveContext, TypeOK
  <1>4. ASSUME NEW l \in Layouts, ResizeScale(l)
        PROVE  TypeOK'
    <2>1. resizes' \in 0..MaxResizes
      <3>1. resizes \in 0..MaxResizes /\ resizes < MaxResizes /\ resizes' = resizes + 1
        BY <1>4 DEF ResizeScale, TypeOK
      <3>2. MaxResizes \in Nat
        BY TileBufferAssumption
      <3> QED BY <3>1, <3>2
    <2>2. rescaling' \in BOOLEAN
      BY <1>4 DEF ResizeScale
    <2> QED BY <1>4, <2>1, <2>2 DEF ResizeScale, TypeOK
  <1>8. CASE ResizeDimensions
    BY <1>8 DEF ResizeDimensions, TypeOK
  <1>5. CASE ResizeBits
    <2>1. worker' \in [Workers -> WorkerType]
      BY <1>5, <1>a, MarkType DEF ResizeBits
    <2> QED BY <1>5, <2>1 DEF ResizeBits, ResetBits, TypeOK, WorkerType
  <1>6. CASE ResizeSlots
    BY <1>6 DEF ResizeSlots, TypeOK
  <1>7. CASE ResetScaleContext
    BY <1>7 DEF ResetScaleContext, TypeOK
  <1> QED
    BY <1>1, <1>2, <1>3, <1>4, <1>5, <1>6, <1>7, <1>8 DEF RendererStep

LEMMA EditTypeOK ==
    ASSUME TypeOK, NEW t \in Tiles, Edit(t)
    PROVE  TypeOK'
  <1>1. version[t] \in 0..MaxVersion /\ version[t] < MaxVersion
    BY DEF Edit, TypeOK
  <1>2. version[t] + 1 \in 0..MaxVersion
    <2>1. MaxVersion \in Nat
      BY TileBufferAssumption
    <2> QED BY <1>1, <2>1
  <1>3. version' \in [Tiles -> 0..MaxVersion]
    BY <1>2 DEF Edit, TypeOK
  <1> QED BY <1>3 DEF Edit, TypeOK, bufferVars

LEMMA NextTypeOK == TypeOK /\ [Next]_vars => TypeOK'
  <1>1. CASE UNCHANGED vars
    BY <1>1 DEF TypeOK, vars, bufferVars
  <1> QED
    BY <1>1, WorkerStepTypeOK, RendererStepTypeOK, EditTypeOK DEF Next

\* Every access of the tile buffer, by the renderer and by any number of
\* workers, stays inside the pool and the bitset's tiles.
THEOREM TypeCorrect == Spec => []TypeOK
  BY InitTypeOK, NextTypeOK, PTL DEF Spec
-----------------------------------------------------------------------------
(* Slots hold tiles that map to them.  With TypeOK the property is itself  *)
(* inductive: only five actions write what it is about.                    *)

LEMMA InitSlots == Init => SlotsHoldTheirTiles
  BY DEF Init, SlotsHoldTheirTiles

LEMMA WorkerStepSlots ==
    ASSUME TypeOK, SlotsHoldTheirTiles, NEW w \in Workers, WorkerStep(w)
    PROVE  SlotsHoldTheirTiles'
  <1>a. worker[w].tile \in Tiles /\ Slot(worker[w].tile) \in Slots
    BY SlotIsASlot DEF TypeOK
  <1>1. CASE ClaimEvict(w)
    BY <1>1 DEF ClaimEvict, InvalidatePoolTile, SlotsHoldTheirTiles, TypeOK
  <1>2. CASE ClaimAssign(w)
    BY <1>2, <1>a DEF ClaimAssign, SlotsHoldTheirTiles, TypeOK
  <1>3. CASE FillBuffer(w)
    BY <1>3, <1>a DEF FillBuffer, SlotsHoldTheirTiles, TypeOK
  <1>4. CASE LokPaintTile(w)
    BY <1>4, <1>a DEF LokPaintTile, SlotsHoldTheirTiles, TypeOK
  <1>5. CASE CopyImage(w)
    BY <1>5, <1>a DEF CopyImage, CopiedImage, SlotsHoldTheirTiles, TypeOK
  <1>6. CASE AbortAfterCopy(w)
    BY <1>6, <1>a DEF AbortAfterCopy, CopiedImage, SlotsHoldTheirTiles, TypeOK
  <1>7. CASE UNCHANGED <<pool_index_to_tile_index, pool_buffer, pool_paint_images>>
    BY <1>7 DEF SlotsHoldTheirTiles
  <1> QED
    BY <1>1, <1>2, <1>3, <1>4, <1>5, <1>6, <1>7
    DEF WorkerStep, PaintTileRefused, PaintTileEnter, ClaimOwned, PaintTileSkip,
        PaintTileRasterize, IndexToCoord, ReadScale, CheckContext, AbortBeforeCopy,
        SetValid, bufferVars

LEMMA NextSlots == TypeOK /\ SlotsHoldTheirTiles /\ [Next]_vars => SlotsHoldTheirTiles'
  <1> SUFFICES ASSUME TypeOK, SlotsHoldTheirTiles, [Next]_vars
               PROVE  SlotsHoldTheirTiles'
    OBVIOUS
  <1>1. ASSUME NEW w \in Workers, WorkerStep(w) PROVE SlotsHoldTheirTiles'
    BY <1>1, WorkerStepSlots
  <1>2. CASE ResizeSlots
    BY <1>2 DEF ResizeSlots, SlotsHoldTheirTiles
  <1>3. CASE UNCHANGED <<pool_index_to_tile_index, pool_buffer, pool_paint_images>>
    BY <1>3 DEF SlotsHoldTheirTiles
  <1>4. ASSUME RendererStep, ~ResizeSlots
        PROVE  UNCHANGED <<pool_index_to_tile_index, pool_buffer, pool_paint_images>>
    BY <1>4 DEF RendererStep, InvalidateTiles, InvalidateAllTiles, SetActiveContext,
                ResizeScale, ResizeDimensions, ResizeBits, ResetScaleContext
  <1>5. ASSUME NEW t \in Tiles, Edit(t)
        PROVE  UNCHANGED <<pool_index_to_tile_index, pool_buffer, pool_paint_images>>
    BY <1>5 DEF Edit, bufferVars
  <1>6. CASE UNCHANGED vars
    BY <1>3, <1>6 DEF vars, bufferVars
  <1> QED BY <1>1, <1>2, <1>3, <1>4, <1>5, <1>6 DEF Next

\* However the workers and the renderer interleave, the pool never puts a
\* tile, its pixels or its image in a slot it does not map to.
THEOREM SlotsCorrect == Spec => []SlotsHoldTheirTiles
  BY InitSlots, NextSlots, TypeCorrect, PTL DEF Spec
-----------------------------------------------------------------------------
(* What a step does to the record of each worker.                          *)

LEMMA DisturbOne ==
    ASSUME NEW workers \in [Workers -> WorkerType], NEW W, NEW u \in Workers
    PROVE  Disturb(workers, W)[u].disturbed =
               (workers[u].disturbed \/ (u \in W /\ Rasterized(u)))
  BY MarkType DEF Disturb

LEMMA AtOne ==
    ASSUME TypeOK, NEW w \in Workers, NEW pc
    PROVE  /\ At(w, pc)[w].pc = pc
           /\ At(w, pc)[w].tile = worker[w].tile
           /\ At(w, pc)[w].columns = worker[w].columns
           /\ At(w, pc)[w].scales = worker[w].scales
           /\ At(w, pc)[w].disturbed = worker[w].disturbed
           /\ \A u \in Workers \ {w} : At(w, pc)[u] = worker[u]
  BY DEF At, TypeOK

\* A worker that gives up after copying is idle; it has disturbed the others.
LEMMA AbortedAfterCopy ==
    ASSUME TypeOK, NEW w \in Workers, AbortAfterCopy(w)
    PROVE  /\ worker'[w].pc = "idle" /\ worker'[w].columns = {} /\ worker'[w].scales = {}
           /\ \A u \in Workers \ {w} :
                 /\ worker'[u].tile = worker[u].tile
                 /\ worker'[u].pc = worker[u].pc
                 /\ worker'[u].columns = worker[u].columns
                 /\ worker'[u].scales = worker[u].scales
                 /\ ~worker'[u].disturbed =>
                       ~worker[u].disturbed /\ ~(u \in OthersInSlot(w) /\ Rasterized(u))
  <1> DEFINE called == [worker EXCEPT ![w] = Idle]
  <1>1. called \in [Workers -> WorkerType]
    BY WorkersTyped, IdleType
  <1>2. called[w] = Idle /\ \A u \in Workers \ {w} : called[u] = worker[u]
    BY WorkersTyped
  <1>3. worker' = Disturb(called, OthersInSlot(w))
    BY DEF AbortAfterCopy
  <1> HIDE DEF called
  <1>4. worker'[w].pc = "idle" /\ worker'[w].columns = {} /\ worker'[w].scales = {}
    <2>1. /\ worker'[w].pc = Idle.pc
          /\ worker'[w].columns = Idle.columns /\ worker'[w].scales = Idle.scales
      BY <1>1, <1>2, <1>3, DisturbType
    <2> QED BY <2>1 DEF Idle, Call
  <1>5. ASSUME NEW u \in Workers \ {w}
        PROVE  /\ worker'[u].tile = worker[u].tile
               /\ worker'[u].pc = worker[u].pc
               /\ worker'[u].columns = worker[u].columns
               /\ worker'[u].scales = worker[u].scales
               /\ ~worker'[u].disturbed =>
                     ~worker[u].disturbed /\ ~(u \in OthersInSlot(w) /\ Rasterized(u))
    <2>1. /\ worker'[u].tile = worker[u].tile /\ worker'[u].pc = worker[u].pc
          /\ worker'[u].columns = worker[u].columns /\ worker'[u].scales = worker[u].scales
      BY <1>1, <1>2, <1>3, DisturbType
    <2>2. worker'[u].disturbed = (worker[u].disturbed \/ (u \in OthersInSlot(w) /\ Rasterized(u)))
      BY <1>1, <1>2, <1>3, DisturbOne
    <2> QED BY <2>1, <2>2
  <1> QED BY <1>4, <1>5

\* A worker that moves on and disturbs others.
LEMMA DisturbAt ==
    ASSUME TypeOK, NEW w \in Workers, NEW W,
           NEW pc \in {"idle", "claim", "assign", "begin", "coord", "raster", "check", "copy", "set"},
           worker' = Disturb(At(w, pc), W)
    PROVE  /\ worker'[w].pc = pc
           /\ worker'[w].tile = worker[w].tile
           /\ worker'[w].columns = worker[w].columns
           /\ worker'[w].scales = worker[w].scales
           /\ ~worker'[w].disturbed => ~worker[w].disturbed
           /\ w \notin W => worker'[w].disturbed = worker[w].disturbed
           /\ \A u \in Workers \ {w} :
                /\ worker'[u].tile = worker[u].tile
                /\ worker'[u].pc = worker[u].pc
                /\ worker'[u].columns = worker[u].columns
                /\ worker'[u].scales = worker[u].scales
                /\ ~worker'[u].disturbed =>
                      ~worker[u].disturbed /\ ~(u \in W /\ Rasterized(u))
  <1>1. At(w, pc) \in [Workers -> WorkerType]
    BY AtType
  <1>2. /\ worker'[w].pc = pc
        /\ worker'[w].tile = worker[w].tile
        /\ worker'[w].columns = worker[w].columns
        /\ worker'[w].scales = worker[w].scales
    BY <1>1, AtOne, DisturbType
  <1>3. worker'[w].disturbed = (worker[w].disturbed \/ (w \in W /\ Rasterized(w)))
    BY <1>1, AtOne, DisturbOne
  <1>4. ASSUME NEW u \in Workers \ {w}
        PROVE  /\ worker'[u].tile = worker[u].tile
               /\ worker'[u].pc = worker[u].pc
               /\ worker'[u].columns = worker[u].columns
               /\ worker'[u].scales = worker[u].scales
               /\ ~worker'[u].disturbed =>
                      ~worker[u].disturbed /\ ~(u \in W /\ Rasterized(u))
    <2>1. At(w, pc)[u] = worker[u]
      BY AtOne
    <2>2. /\ worker'[u].tile = worker[u].tile /\ worker'[u].pc = worker[u].pc
          /\ worker'[u].columns = worker[u].columns /\ worker'[u].scales = worker[u].scales
      BY <1>1, <2>1, DisturbType
    <2>3. worker'[u].disturbed = (worker[u].disturbed \/ (u \in W /\ Rasterized(u)))
      BY <1>1, <2>1, DisturbOne
    <2> QED BY <2>2, <2>3
  <1>5. (~worker'[w].disturbed => ~worker[w].disturbed)
        /\ (w \notin W => worker'[w].disturbed = worker[w].disturbed)
    BY <1>3 DEF TypeOK
  <1> QED BY <1>2, <1>4, <1>5
-----------------------------------------------------------------------------
(* The places workers read are of the current layout: PlacesInvariant is   *)
(* inductive together with TypeOK.                                         *)

LEMMA InitPlaces == Init => PlacesInvariant
  BY DEF Init, PlacesInvariant, ResizeToCome, Idle, Call

\* What worker u has read is kept or dropped.
ReadingKept(u) ==
    /\ worker'[u].pc \in {"raster", "check", "copy", "set"} => worker'[u].columns # {}
    /\ \/ worker'[u].columns = {} /\ worker'[u].scales = {}
       \/ /\ worker'[u].columns = worker[u].columns /\ worker'[u].scales = worker[u].scales
          /\ ~worker'[u].disturbed => ~worker[u].disturbed

LEMMA PlacesKept ==
    ASSUME PlacesInvariant, UNCHANGED <<requested, layout, resizing>>,
           \A u \in Workers : ReadingKept(u)
    PROVE  PlacesInvariant'
  BY DEF PlacesInvariant, ResizeToCome, ReadingKept

LEMMA ReadingUnchanged ==
    ASSUME PlacesInvariant, NEW u \in Workers, worker'[u].pc = worker[u].pc,
           worker'[u].columns = worker[u].columns, worker'[u].scales = worker[u].scales,
           ~worker'[u].disturbed => ~worker[u].disturbed
    PROVE  ReadingKept(u)
  BY DEF PlacesInvariant, ReadingKept

LEMMA WorkerStepPlaces ==
    ASSUME TypeOK, PlacesInvariant, NEW w \in Workers, WorkerStep(w)
    PROVE  PlacesInvariant'
  <1>a. worker \in [Workers -> WorkerType]
    BY DEF TypeOK, WorkerType
  \* A step by which w moves on without reading, and others may be disturbed.
  <1>b. ASSUME UNCHANGED <<requested, layout, resizing>>,
               worker'[w].pc \in {"raster", "check", "copy", "set"} => worker'[w].columns # {},
               \/ worker'[w].columns = {} /\ worker'[w].scales = {}
               \/ /\ worker'[w].columns = worker[w].columns /\ worker'[w].scales = worker[w].scales
                  /\ ~worker'[w].disturbed => ~worker[w].disturbed,
               \A u \in Workers \ {w} :
                  /\ worker'[u].pc = worker[u].pc
                  /\ worker'[u].columns = worker[u].columns /\ worker'[u].scales = worker[u].scales
                  /\ ~worker'[u].disturbed => ~worker[u].disturbed
        PROVE  PlacesInvariant'
    <2>1. ReadingKept(w)
      BY <1>b DEF ReadingKept
    <2>2. \A u \in Workers \ {w} : ReadingKept(u)
      BY <1>b, ReadingUnchanged
    <2> QED BY <1>b, <2>1, <2>2, PlacesKept
  <1>1. ASSUME NEW t \in Tiles, NEW c \in Contexts, PaintTileRefused(w, t, c)
        PROVE  PlacesInvariant'
    BY <1>1 DEF PaintTileRefused, PlacesInvariant, ResizeToCome
  <1>2. ASSUME NEW t \in Tiles, NEW c \in Contexts, PaintTileEnter(w, t, c)
        PROVE  PlacesInvariant'
    <2>1. worker'[w].pc = "claim" /\ worker'[w].columns = {} /\ worker'[w].scales = {}
      BY <1>2, <1>a DEF PaintTileEnter, Call
    <2>2. \A u \in Workers \ {w} : worker'[u] = worker[u]
      BY <1>2, <1>a DEF PaintTileEnter
    <2> QED BY <1>2, <1>b, <2>1, <2>2 DEF PaintTileEnter, bufferVars
  <1>3. CASE ClaimEvict(w)
    <2> DEFINE W == PaintersOf({pool_index_to_tile_index[Slot(worker[w].tile)]})
    <2>1. worker' = Disturb(At(w, "assign"), W) /\ UNCHANGED <<requested, layout, resizing>>
      BY <1>3 DEF ClaimEvict
    <2> HIDE DEF W
    <2> QED BY <1>b, <2>1, DisturbAt
  <1>4. CASE ClaimOwned(w)
    BY <1>4, <1>b, AtOne DEF ClaimOwned, Goto, bufferVars
  <1>5. CASE ClaimAssign(w)
    BY <1>5, <1>b, AtOne DEF ClaimAssign, Goto
  <1>6. CASE PaintTileSkip(w) \/ AbortBeforeCopy(w) \/ SetValid(w)
    <2>1. /\ worker'[w].pc = "idle" /\ worker'[w].columns = {} /\ worker'[w].scales = {}
          /\ \A u \in Workers \ {w} : worker'[u] = worker[u]
      BY <1>6, <1>a DEF PaintTileSkip, AbortBeforeCopy, SetValid, Return, Idle, Call
    <2>2. UNCHANGED <<requested, layout, resizing>>
      BY <1>6 DEF PaintTileSkip, AbortBeforeCopy, SetValid, bufferVars
    <2> QED BY <1>b, <2>1, <2>2
  <1>7. CASE FillBuffer(w)
    <2>1. worker' = Disturb(At(w, "raster"), OthersInSlot(w)) /\ worker[w].columns # {}
      BY <1>7 DEF FillBuffer, GotoWriting
    <2> QED BY <1>7, <1>b, <2>1, DisturbAt DEF FillBuffer
  <1>8. CASE LokPaintTile(w)
    <2>1. worker' = Disturb(At(w, "check"), OthersInSlot(w))
      BY <1>8 DEF LokPaintTile, GotoWriting
    <2>2. worker[w].columns # {}
      BY <1>8 DEF LokPaintTile, PlacesInvariant
    <2> QED BY <1>8, <1>b, <2>1, <2>2, DisturbAt DEF LokPaintTile
  <1>9. CASE CheckContext(w)
    BY <1>9, <1>b, AtOne DEF CheckContext, Goto, PlacesInvariant, bufferVars
  <1>10. CASE CopyImage(w)
    <2>1. worker' = Disturb(At(w, "set"), OthersInSlot(w))
      BY <1>10 DEF CopyImage, GotoWriting
    <2>2. worker[w].columns # {}
      BY <1>10 DEF CopyImage, PlacesInvariant
    <2> QED BY <1>10, <1>b, <2>1, <2>2, DisturbAt DEF CopyImage
  <1>11. CASE PaintTileRasterize(w)
    BY <1>11, <1>b, AtOne DEF PaintTileRasterize, Goto, bufferVars
  <1>12. CASE AbortAfterCopy(w)
    <2>1. UNCHANGED <<requested, layout, resizing>>
      BY <1>12 DEF AbortAfterCopy
    <2> QED BY <1>12, <1>b, <2>1, AbortedAfterCopy
  \* A reading is of the layout and scale of the moment.
  <1>13. CASE IndexToCoord(w) \/ ReadScale(w)
    <2>1. /\ UNCHANGED <<requested, layout, resizing>>
          /\ \A u \in Workers \ {w} : worker'[u] = worker[u]
          /\ worker'[w].pc = worker[w].pc
          /\ worker'[w].disturbed = worker[w].disturbed
          /\ worker[w].columns \subseteq worker'[w].columns
          /\ worker'[w].columns \subseteq worker[w].columns \cup {Columns[layout]}
          /\ worker'[w].scales \subseteq worker[w].scales \cup {Scale[requested]}
      BY <1>13, <1>a DEF IndexToCoord, ReadScale, bufferVars, WorkerType
    <2> QED BY <2>1 DEF PlacesInvariant, ResizeToCome
  <1> QED
    BY <1>1, <1>2, <1>3, <1>4, <1>5, <1>6, <1>7, <1>8, <1>9, <1>10, <1>11, <1>12, <1>13
    DEF WorkerStep

LEMMA RendererStepPlaces ==
    ASSUME TypeOK, PlacesInvariant, RendererStep
    PROVE  PlacesInvariant'
  <1>a. worker \in [Workers -> WorkerType]
    BY DEF TypeOK, WorkerType
  \* A step that only marks workers.
  <1>b. ASSUME NEW W, worker' = Disturb(worker, W), UNCHANGED <<requested, layout, resizing>>
        PROVE  PlacesInvariant'
    <2>1. ASSUME NEW u \in Workers PROVE ReadingKept(u)
      <3>1. /\ worker'[u].pc = worker[u].pc
            /\ worker'[u].columns = worker[u].columns /\ worker'[u].scales = worker[u].scales
        BY <1>a, <1>b, DisturbType
      <3>2. worker'[u].disturbed = (worker[u].disturbed \/ (u \in W /\ Rasterized(u)))
        BY <1>a, <1>b, DisturbOne
      <3> QED BY <3>1, <3>2, ReadingUnchanged
    <2> QED BY <1>b, <2>1, PlacesKept
  <1>1. ASSUME NEW first \in Tiles, NEW last \in Tiles, InvalidateTiles(first, last)
        PROVE  PlacesInvariant'
    BY <1>1, <1>b DEF InvalidateTiles
  <1>2. CASE InvalidateAllTiles
    BY <1>2, <1>b DEF InvalidateAllTiles
  <1>3. ASSUME NEW c \in Contexts \cup {NoContext}, SetActiveContext(c)
        PROVE  PlacesInvariant'
    BY <1>3 DEF SetActiveContext, PlacesInvariant, ResizeToCome
  <1>4. ASSUME NEW l \in Layouts, ResizeScale(l)
        PROVE  PlacesInvariant'
    BY <1>4 DEF ResizeScale, PlacesInvariant, ResizeToCome
  <1>5. CASE ResizeDimensions
    BY <1>5 DEF ResizeDimensions, PlacesInvariant, ResizeToCome
  \* When the resize has reached the bitset, the calls that read the old
  \* layout are disturbed and the others have read nothing.
  <1>6. CASE ResizeBits
    <2>1. layout' = layout /\ requested' = requested /\ resizing' = "slots"
      BY <1>6 DEF ResizeBits
    <2>2. requested = layout
      BY <1>6 DEF ResizeBits, PlacesInvariant
    <2>3. ASSUME NEW u \in Workers
          PROVE  /\ worker'[u].pc = worker[u].pc
                 /\ worker'[u].columns = worker[u].columns /\ worker'[u].scales = worker[u].scales
                 /\ worker'[u].disturbed = (worker[u].disturbed \/ Located(u))
      BY <1>6, <1>a, MarkType DEF ResizeBits
    <2> QED BY <2>1, <2>2, <2>3 DEF PlacesInvariant, ResizeToCome, Located
  <1>7. CASE ResizeSlots
    BY <1>7 DEF ResizeSlots, PlacesInvariant, ResizeToCome
  <1>8. CASE ResetScaleContext
    BY <1>8 DEF ResetScaleContext, PlacesInvariant, ResizeToCome
  <1> QED
    BY <1>1, <1>2, <1>3, <1>4, <1>5, <1>6, <1>7, <1>8 DEF RendererStep

LEMMA NextPlaces == TypeOK /\ PlacesInvariant /\ [Next]_vars => PlacesInvariant'
  <1>1. ASSUME PlacesInvariant, UNCHANGED vars PROVE PlacesInvariant'
    BY <1>1 DEF PlacesInvariant, ResizeToCome, vars, bufferVars
  <1>2. ASSUME PlacesInvariant, NEW t \in Tiles, Edit(t) PROVE PlacesInvariant'
    BY <1>2 DEF PlacesInvariant, ResizeToCome, Edit, bufferVars
  <1> QED
    BY <1>1, <1>2, WorkerStepPlaces, RendererStepPlaces DEF Next
-----------------------------------------------------------------------------
(* Freshness.  PixelsInvariant is inductive together with TypeOK and       *)
(* PlacesInvariant; its two conjuncts are kept apart.                      *)

ImagesFresh ==
    \A t \in valid_tile \ spoiled :
        ~ResetToCome(t) => pool_paint_images[Slot(t)] = Current(t)

WorkerFresh(w) ==
    (~worker[w].disturbed /\ ~ResetToCome(worker[w].tile)) =>
        /\ worker[w].pc \in {"check", "copy"} =>
              pool_buffer[Slot(worker[w].tile)] = Current(worker[w].tile)
        /\ worker[w].pc = "set" =>
              pool_paint_images[Slot(worker[w].tile)] = Current(worker[w].tile)

LEMMA FreshnessParts ==
    PixelsInvariant <=> ImagesFresh /\ \A w \in Workers : WorkerFresh(w)
  BY DEF PixelsInvariant, ImagesFresh, WorkerFresh

\* Nothing that freshness is about changes, except that bits are reset,
\* tiles are spoiled and workers other than W are disturbed.
LEMMA ImagesKept ==
    ASSUME ImagesFresh,
           valid_tile' \ spoiled' \subseteq valid_tile \ spoiled,
           UNCHANGED <<pool_paint_images, requested, layout, version, pending, resizing>>
    PROVE  ImagesFresh'
  BY DEF ImagesFresh, ResetToCome, ResizeToCome, Current

LEMMA WorkerKept ==
    ASSUME NEW u \in Workers, WorkerFresh(u),
           worker'[u].tile = worker[u].tile,
           worker'[u].pc = worker[u].pc,
           ~worker'[u].disturbed => ~worker[u].disturbed,
           Rasterized(u) /\ ~worker'[u].disturbed =>
               /\ pool_buffer'[Slot(worker[u].tile)] = pool_buffer[Slot(worker[u].tile)]
               /\ pool_paint_images'[Slot(worker[u].tile)]
                     = pool_paint_images[Slot(worker[u].tile)],
           UNCHANGED <<requested, layout, version, pending, resizing>>
    PROVE  WorkerFresh(u)'
  BY DEF WorkerFresh, ResetToCome, ResizeToCome, Current, Rasterized

\* A worker that has no pixels under way is fresh.
LEMMA WorkerIdle ==
    ASSUME NEW u \in Workers, worker'[u].pc \notin {"check", "copy", "set"}
    PROVE  WorkerFresh(u)'
  BY DEF WorkerFresh

LEMMA FreshAgain ==
    ASSUME ImagesFresh', \A w \in Workers : WorkerFresh(w)'
    PROVE  PixelsInvariant'
  BY DEF PixelsInvariant, ImagesFresh, WorkerFresh

LEMMA InitFresh == Init => PixelsInvariant
  BY DEF Init, PixelsInvariant, Idle, Call

\* A step of worker w that writes nothing in the pool, may reset bits, and
\* leaves w with no new pixels under way.
LEMMA QuietWorkerStep ==
    ASSUME TypeOK, PixelsInvariant, NEW w \in Workers,
           valid_tile' \ spoiled' \subseteq valid_tile \ spoiled,
           UNCHANGED <<pool_buffer, pool_paint_images, requested, layout, version, pending, resizing>>,
           WorkerFresh(w)',
           \A u \in Workers \ {w} : /\ worker'[u].tile = worker[u].tile
                                    /\ worker'[u].pc = worker[u].pc
                                    /\ ~worker'[u].disturbed => ~worker[u].disturbed
    PROVE  PixelsInvariant'
  <1>1. ImagesFresh'
    BY FreshnessParts, ImagesKept
  <1>2. ASSUME NEW u \in Workers \ {w} PROVE WorkerFresh(u)'
    <2>1. WorkerFresh(u)
      BY FreshnessParts
    <2>2. /\ pool_buffer'[Slot(worker[u].tile)] = pool_buffer[Slot(worker[u].tile)]
          /\ pool_paint_images'[Slot(worker[u].tile)] = pool_paint_images[Slot(worker[u].tile)]
      OBVIOUS
    <2> QED BY <2>1, <2>2, WorkerKept
  <1> QED BY <1>1, <1>2 DEF PixelsInvariant, ImagesFresh, WorkerFresh

\* A step of worker w that writes its slot: the others there are disturbed,
\* so the ones that are not have their pixels elsewhere.
LEMMA OthersFresh ==
    ASSUME TypeOK, PixelsInvariant, NEW w \in Workers, NEW u \in Workers \ {w},
           worker'[u].tile = worker[u].tile,
           worker'[u].pc = worker[u].pc,
           ~worker'[u].disturbed =>
               ~worker[u].disturbed /\ ~(u \in OthersInSlot(w) /\ Rasterized(u)),
           \A s \in Slots \ {Slot(worker[w].tile)} :
               pool_buffer'[s] = pool_buffer[s] /\ pool_paint_images'[s] = pool_paint_images[s],
           UNCHANGED <<requested, layout, version, pending, resizing>>
    PROVE  WorkerFresh(u)'
  <1>1. WorkerFresh(u)
    BY FreshnessParts
  <1>2. Slot(worker[u].tile) \in Slots
    BY SlotIsASlot DEF TypeOK
  <1>3. ASSUME Rasterized(u), ~worker'[u].disturbed
        PROVE  Slot(worker[u].tile) # Slot(worker[w].tile)
    BY <1>3 DEF OthersInSlot
  <1> QED BY <1>1, <1>2, <1>3, WorkerKept

LEMMA WorkerStepFresh ==
    ASSUME TypeOK, PlacesInvariant, PixelsInvariant, NEW w \in Workers, WorkerStep(w)
    PROVE  PixelsInvariant'
  <1>a. worker \in [Workers -> WorkerType]
    BY DEF TypeOK, WorkerType
  <1>b. worker[w].tile \in Tiles /\ Slot(worker[w].tile) \in Slots
    BY SlotIsASlot DEF TypeOK
  <1>c. ImagesFresh /\ \A u \in Workers : WorkerFresh(u)
    BY FreshnessParts
  <1>1. ASSUME NEW t \in Tiles, NEW c \in Contexts, PaintTileRefused(w, t, c)
        PROVE  PixelsInvariant'
    <2>1. worker'[w].pc \notin {"check", "copy", "set"}
      BY <1>1 DEF PaintTileRefused, Idle, Call
    <2> QED
      BY <1>1, <2>1, WorkerIdle, QuietWorkerStep DEF PaintTileRefused, ResetBits
  <1>2. ASSUME NEW t \in Tiles, NEW c \in Contexts, PaintTileEnter(w, t, c)
        PROVE  PixelsInvariant'
    <2>1. worker'[w].pc \notin {"check", "copy", "set"}
      BY <1>2, <1>a DEF PaintTileEnter, Call
    <2> QED
      BY <1>2, <1>a, <2>1, WorkerIdle, QuietWorkerStep DEF PaintTileEnter, bufferVars
  <1>3. CASE ClaimEvict(w)
    <2>1. /\ worker'[w].pc = "assign"
          /\ \A u \in Workers \ {w} : /\ worker'[u].tile = worker[u].tile
                                      /\ worker'[u].pc = worker[u].pc
                                      /\ ~worker'[u].disturbed => ~worker[u].disturbed
      BY <1>3, DisturbAt DEF ClaimEvict
    <2> QED
      BY <1>3, <2>1, WorkerIdle, QuietWorkerStep
      DEF ClaimEvict, InvalidatePoolTile, ResetBits
  <1>4. CASE ClaimOwned(w)
    <2>1. /\ worker'[w].pc = "begin"
          /\ \A u \in Workers \ {w} : worker'[u] = worker[u]
      BY <1>4, AtOne DEF ClaimOwned, Goto
    <2> QED BY <1>4, <2>1, WorkerIdle, QuietWorkerStep DEF ClaimOwned, bufferVars
  <1>5. CASE ClaimAssign(w)
    <2>1. /\ worker'[w].pc = "begin"
          /\ \A u \in Workers \ {w} : worker'[u] = worker[u]
      BY <1>5, AtOne DEF ClaimAssign, Goto
    <2> QED BY <1>5, <2>1, WorkerIdle, QuietWorkerStep DEF ClaimAssign
  <1>6. CASE PaintTileSkip(w)
    <2>1. /\ worker'[w].pc = "idle"
          /\ \A u \in Workers \ {w} : worker'[u] = worker[u]
      BY <1>6, <1>a DEF PaintTileSkip, Return, Idle, Call
    <2> QED BY <1>6, <2>1, WorkerIdle, QuietWorkerStep DEF PaintTileSkip, bufferVars
  <1>7. CASE FillBuffer(w)
    <2>1. worker' = Disturb(At(w, "raster"), OthersInSlot(w))
      BY <1>7 DEF FillBuffer, GotoWriting
    <2>2. ImagesFresh'
      BY <1>7, <1>c, ImagesKept DEF FillBuffer
    <2>3. WorkerFresh(w)'
      BY <2>1, DisturbAt, WorkerIdle
    <2>4. \A s \in Slots \ {Slot(worker[w].tile)} :
              pool_buffer'[s] = pool_buffer[s] /\ pool_paint_images'[s] = pool_paint_images[s]
      BY <1>7 DEF FillBuffer, TypeOK
    <2>5. ASSUME NEW u \in Workers \ {w} PROVE WorkerFresh(u)'
      BY <1>7, <2>1, <2>4, DisturbAt, OthersFresh DEF FillBuffer
    <2> QED BY <2>2, <2>3, <2>5, FreshAgain
  <1>8. CASE LokPaintTile(w)
    <2>1. worker' = Disturb(At(w, "check"), OthersInSlot(w))
      BY <1>8 DEF LokPaintTile, GotoWriting
    <2>2. ImagesFresh'
      BY <1>8, <1>c, ImagesKept DEF LokPaintTile
    <2>3. WorkerFresh(w)'
      <3>1. worker'[w].pc = "check" /\ worker'[w].tile = worker[w].tile
        BY <2>1, DisturbAt
      <3>2. pool_buffer'[Slot(worker[w].tile)] =
              [tile |-> worker[w].tile, columns |-> worker[w].columns,
               scales |-> worker[w].scales, version |-> version'[worker[w].tile]]
        BY <1>8, <1>b DEF LokPaintTile, TypeOK
      <3>3. UNCHANGED <<requested, layout, resizing>>
        BY <1>8 DEF LokPaintTile
      <3>4. ~worker'[w].disturbed => ~worker[w].disturbed
        BY <2>1, DisturbAt
      \* An undisturbed worker has read the columns and the scale of now.
      <3>5. ~worker[w].disturbed /\ ~ResizeToCome =>
              worker[w].columns = {Columns[layout]} /\ worker[w].scales = {Scale[requested]}
        BY <1>8 DEF LokPaintTile, PlacesInvariant
      <3> QED BY <3>1, <3>2, <3>3, <3>4, <3>5
              DEF WorkerFresh, Current, ResetToCome, ResizeToCome
    <2>4. \A s \in Slots \ {Slot(worker[w].tile)} :
              pool_buffer'[s] = pool_buffer[s] /\ pool_paint_images'[s] = pool_paint_images[s]
      BY <1>8 DEF LokPaintTile, TypeOK
    <2>5. ASSUME NEW u \in Workers \ {w} PROVE WorkerFresh(u)'
      BY <1>8, <2>1, <2>4, DisturbAt, OthersFresh DEF LokPaintTile
    <2> QED BY <2>2, <2>3, <2>5, FreshAgain
  <1>9. CASE CheckContext(w)
    <2>2. /\ worker'[w].pc = "copy" /\ worker'[w].tile = worker[w].tile
          /\ worker'[w].disturbed = worker[w].disturbed
          /\ \A u \in Workers \ {w} : worker'[u] = worker[u]
      BY <1>9, AtOne DEF CheckContext, Goto
    <2>3. WorkerFresh(w)'
      BY <1>9, <1>c, <2>2 DEF CheckContext, bufferVars, WorkerFresh, ResetToCome, ResizeToCome, Current
    <2> QED BY <1>9, <2>2, <2>3, QuietWorkerStep DEF CheckContext, bufferVars
  <1>10. CASE CopyImage(w)
    <2>1. worker' = Disturb(At(w, "set"), OthersInSlot(w))
      BY <1>10 DEF CopyImage, GotoWriting
    <2>2. /\ worker'[w].pc = "set" /\ worker'[w].tile = worker[w].tile
          /\ worker'[w].disturbed = worker[w].disturbed
      BY <2>1, DisturbAt DEF OthersInSlot
    <2>3. \A s \in Slots \ {Slot(worker[w].tile)} :
              pool_buffer'[s] = pool_buffer[s] /\ pool_paint_images'[s] = pool_paint_images[s]
      BY <1>10 DEF CopyImage, CopiedImage, TypeOK
    \* An undisturbed worker copies the current picture of its tile.
    <2>4. ~worker[w].disturbed /\ ~ResetToCome(worker[w].tile)
             => pool_paint_images'[Slot(worker[w].tile)] = Current(worker[w].tile)
      <3>1. pool_paint_images'[Slot(worker[w].tile)] = pool_buffer[Slot(worker[w].tile)]
        BY <1>10, <1>b DEF CopyImage, CopiedImage, TypeOK
      <3> QED BY <1>10, <1>c, <3>1 DEF CopyImage, WorkerFresh
    <2>5. UNCHANGED <<requested, layout, version, pending, resizing, valid_tile>>
      BY <1>10 DEF CopyImage
    <2>6. ImagesFresh'
      <3> SUFFICES ASSUME NEW t \in valid_tile \ spoiled', ~ResetToCome(t)
                   PROVE  pool_paint_images'[Slot(t)] = Current(t)
        BY <2>5 DEF ImagesFresh, ResetToCome, ResizeToCome, Current
      <3>1. t \in valid_tile \ spoiled /\ t \notin Overwritten(w)
        BY <1>10 DEF CopyImage
      <3>2. CASE Slot(t) = Slot(worker[w].tile)
        BY <2>4, <3>1, <3>2 DEF Overwritten
      <3>3. CASE Slot(t) # Slot(worker[w].tile)
        <4>1. Slot(t) \in Slots
          BY SlotIsASlot DEF TypeOK
        <4> QED BY <1>c, <2>3, <3>1, <3>3, <4>1 DEF ImagesFresh
      <3> QED BY <3>2, <3>3
    <2>7. WorkerFresh(w)'
      BY <2>2, <2>4, <2>5 DEF WorkerFresh, ResetToCome, ResizeToCome, Current
    <2>8. ASSUME NEW u \in Workers \ {w} PROVE WorkerFresh(u)'
      BY <2>1, <2>3, <2>5, DisturbAt, OthersFresh
    <2> QED BY <2>6, <2>7, <2>8, FreshAgain
  <1>11. CASE AbortBeforeCopy(w)
    <2>1. /\ worker'[w].pc = "idle"
          /\ \A u \in Workers \ {w} : worker'[u] = worker[u]
      BY <1>11, <1>a DEF AbortBeforeCopy, Return, Idle, Call
    <2> QED BY <1>11, <2>1, WorkerIdle, QuietWorkerStep DEF AbortBeforeCopy, ResetBits
  <1>12. CASE AbortAfterCopy(w)
    <2>1. ASSUME NEW u \in Workers \ {w}
          PROVE  /\ worker'[u].tile = worker[u].tile
                 /\ worker'[u].pc = worker[u].pc
                 /\ ~worker'[u].disturbed =>
                       ~worker[u].disturbed /\ ~(u \in OthersInSlot(w) /\ Rasterized(u))
      BY <1>12, AbortedAfterCopy
    <2>2. WorkerFresh(w)'
      BY <1>12, AbortedAfterCopy, WorkerIdle
    <2>3. \A s \in Slots \ {Slot(worker[w].tile)} :
              pool_buffer'[s] = pool_buffer[s] /\ pool_paint_images'[s] = pool_paint_images[s]
      BY <1>12 DEF AbortAfterCopy, CopiedImage, TypeOK
    <2>4. ASSUME NEW u \in Workers \ {w} PROVE WorkerFresh(u)'
      BY <1>12, <2>1, <2>3, OthersFresh DEF AbortAfterCopy
    <2>5. ImagesFresh'
      BY <1>12 DEF AbortAfterCopy, ResetBits, ImagesFresh, TypeOK
    <2> QED BY <2>2, <2>4, <2>5, FreshAgain
  <1>13. CASE SetValid(w)
    <2>1. /\ worker'[w].pc = "idle"
          /\ \A u \in Workers \ {w} : worker'[u] = worker[u]
      BY <1>13, <1>a DEF SetValid, Return, Idle, Call
    <2>2. UNCHANGED <<pool_buffer, pool_paint_images, requested, layout, version, pending, resizing>>
      BY <1>13 DEF SetValid
    <2>3. ImagesFresh'
      <3> SUFFICES ASSUME NEW t \in valid_tile' \ spoiled', ~ResetToCome(t)
                   PROVE  pool_paint_images[Slot(t)] = Current(t)
        BY <2>2 DEF ImagesFresh, ResetToCome, ResizeToCome, Current
      <3>1. CASE t = worker[w].tile
        <4>1. ~worker[w].disturbed
          BY <1>13, <3>1 DEF SetValid
        <4> QED BY <1>13, <1>c, <3>1, <4>1 DEF SetValid, WorkerFresh
      <3>2. CASE t # worker[w].tile
        <4>1. t \in valid_tile \ spoiled
          BY <1>13, <3>2 DEF SetValid
        <4> QED BY <1>c, <4>1 DEF ImagesFresh
      <3> QED BY <3>1, <3>2
    <2>4. WorkerFresh(w)'
      BY <2>1, WorkerIdle
    <2>5. ASSUME NEW u \in Workers \ {w} PROVE WorkerFresh(u)'
      BY <1>c, <2>1, <2>2, WorkerKept
    <2> QED BY <2>3, <2>4, <2>5, FreshAgain
  <1>14. CASE PaintTileRasterize(w)
    <2>1. /\ worker'[w].pc = "coord"
          /\ \A u \in Workers \ {w} : worker'[u] = worker[u]
      BY <1>14, AtOne DEF PaintTileRasterize, Goto
    <2> QED BY <1>14, <2>1, WorkerIdle, QuietWorkerStep DEF PaintTileRasterize, bufferVars
  <1>15. CASE IndexToCoord(w) \/ ReadScale(w)
    <2>1. /\ worker'[w].pc \in {"coord", "raster"}
          /\ \A u \in Workers \ {w} : worker'[u] = worker[u]
      BY <1>15, <1>a DEF IndexToCoord, ReadScale, WorkerType
    <2> QED BY <1>15, <2>1, WorkerIdle, QuietWorkerStep DEF IndexToCoord, ReadScale, bufferVars
  <1> QED
    BY <1>1, <1>2, <1>3, <1>4, <1>5, <1>6, <1>7, <1>8, <1>9, <1>10, <1>11, <1>12, <1>13,
       <1>14, <1>15
    DEF WorkerStep

LEMMA RendererStepFresh ==
    ASSUME TypeOK, PlacesInvariant, PixelsInvariant, RendererStep
    PROVE  PixelsInvariant'
  <1>a. worker \in [Workers -> WorkerType]
    BY DEF TypeOK, WorkerType
  <1>c. ImagesFresh /\ \A u \in Workers : WorkerFresh(u)
    BY FreshnessParts
  <1>1. ASSUME NEW first \in Tiles, NEW last \in Tiles, InvalidateTiles(first, last)
        PROVE  PixelsInvariant'
    <2> DEFINE S == first..last
    <2>1. /\ worker' = Disturb(worker, PaintersOf(S))
          /\ valid_tile' = valid_tile \ S /\ spoiled' = spoiled \ S
          /\ pending' = pending \ S
          /\ UNCHANGED <<pool_buffer, pool_paint_images, requested, layout, version, resizing>>
      BY <1>1 DEF InvalidateTiles, ResetBits
    <2> HIDE DEF S
    <2>2. ImagesFresh'
      BY <1>c, <2>1 DEF ImagesFresh, ResetToCome, ResizeToCome, Current
    <2>3. ASSUME NEW u \in Workers PROVE WorkerFresh(u)'
      <3>1. worker'[u].tile = worker[u].tile /\ worker'[u].pc = worker[u].pc
        BY <1>a, <2>1, DisturbType
      <3>2. worker'[u].disturbed =
              (worker[u].disturbed \/ (u \in PaintersOf(S) /\ Rasterized(u)))
        BY <1>a, <2>1, DisturbOne
      \* The painters of the reset tiles are disturbed; the tiles of the
      \* others were not waiting for this reset.
      <3>3. CASE worker[u].tile \in S
        BY <3>1, <3>2, <3>3 DEF WorkerFresh, PaintersOf, Rasterized
      <3>4. CASE worker[u].tile \notin S
        BY <1>c, <2>1, <3>1, <3>2, <3>4 DEF WorkerFresh, ResetToCome, ResizeToCome, Current
      <3> QED BY <3>3, <3>4
    <2> QED BY <2>2, <2>3, FreshAgain
  <1>2. CASE InvalidateAllTiles
    <2>1. ImagesFresh'
      BY <1>2 DEF InvalidateAllTiles, ResetBits, ImagesFresh, TypeOK
    <2>2. ASSUME NEW u \in Workers PROVE WorkerFresh(u)'
      <3>1. worker'[u].tile = worker[u].tile /\ worker'[u].pc = worker[u].pc
        BY <1>2, <1>a, DisturbType DEF InvalidateAllTiles
      <3>2. worker'[u].disturbed = (worker[u].disturbed \/ Rasterized(u))
        BY <1>2, <1>a, DisturbOne DEF InvalidateAllTiles
      <3> QED BY <3>1, <3>2 DEF WorkerFresh, Rasterized
    <2> QED BY <2>1, <2>2, FreshAgain
  <1>3. ASSUME NEW c \in Contexts \cup {NoContext}, SetActiveContext(c)
        PROVE  PixelsInvariant'
    BY <1>3 DEF SetActiveContext, PixelsInvariant, ResetToCome, ResizeToCome, Current
  <1>4. ASSUME NEW l \in Layouts, ResizeScale(l)
        PROVE  PixelsInvariant'
    BY <1>4 DEF ResizeScale, PixelsInvariant, ResetToCome, ResizeToCome
  <1>8. CASE ResizeDimensions
    BY <1>8 DEF ResizeDimensions, PixelsInvariant, ResetToCome, ResizeToCome
  <1>5. CASE ResizeBits
    <2>1. ImagesFresh'
      BY <1>5 DEF ResizeBits, ResetBits, ImagesFresh, TypeOK
    \* Every call that has pixels under way has read the old layout.
    <2>2. ASSUME NEW u \in Workers PROVE WorkerFresh(u)'
      <3>1. /\ worker'[u].pc = worker[u].pc
            /\ worker'[u].disturbed = (worker[u].disturbed \/ Located(u))
        BY <1>5, <1>a, MarkType DEF ResizeBits
      <3>2. Rasterized(u) => Located(u)
        BY DEF PlacesInvariant, Rasterized, Located
      <3> QED BY <3>1, <3>2 DEF WorkerFresh, Rasterized
    <2> QED BY <2>1, <2>2, FreshAgain
  <1>6. CASE ResizeSlots
    BY <1>6 DEF ResizeSlots, PixelsInvariant, ResetToCome, ResizeToCome, Current
  <1>7. CASE ResetScaleContext
    BY <1>7 DEF ResetScaleContext, PixelsInvariant, ResetToCome, ResizeToCome, Current
  <1> QED
    BY <1>1, <1>2, <1>3, <1>4, <1>5, <1>6, <1>7, <1>8 DEF RendererStep

\* An edit changes what is current for a tile whose reset it makes pending.
LEMMA EditFresh ==
    ASSUME TypeOK, PixelsInvariant, NEW tile \in Tiles, Edit(tile)
    PROVE  PixelsInvariant'
  <1>1. \A t \in Tiles : ~ResetToCome(t)' => ~ResetToCome(t) /\ Current(t)' = Current(t)
    BY DEF Edit, ResetToCome, ResizeToCome, Current, TypeOK, bufferVars
  <1>2. UNCHANGED <<valid_tile, spoiled, worker, pool_buffer, pool_paint_images>>
    BY DEF Edit, bufferVars
  <1>3. valid_tile \subseteq Tiles /\ \A w \in Workers : worker[w].tile \in Tiles
    BY DEF TypeOK
  <1>4. ImagesFresh /\ \A u \in Workers : WorkerFresh(u)
    BY FreshnessParts
  <1>5. ImagesFresh'
    BY <1>1, <1>2, <1>3, <1>4 DEF ImagesFresh
  <1>6. ASSUME NEW u \in Workers PROVE WorkerFresh(u)'
    BY <1>1, <1>2, <1>3, <1>4 DEF WorkerFresh
  <1> QED BY <1>5, <1>6, FreshAgain

LEMMA NextFresh ==
    TypeOK /\ PlacesInvariant /\ PixelsInvariant /\ [Next]_vars => PixelsInvariant'
  <1>1. ASSUME PixelsInvariant, UNCHANGED vars PROVE PixelsInvariant'
    BY <1>1 DEF PixelsInvariant, ResetToCome, ResizeToCome, Current, vars, bufferVars
  <1> QED
    BY <1>1, WorkerStepFresh, RendererStepFresh, EditFresh DEF Next

LEMMA FreshnessImplies == FreshnessInvariant /\ TypeOK => ValidTilesAreFresh
  BY DEF FreshnessInvariant, PixelsInvariant, ValidTilesAreFresh, Stale

\* What an undisturbed worker has read is of the current layout; what it has
\* under way, and the image of every valid tile that no race spoiled, is the
\* current picture of the document or is about to be reset.
THEOREM FreshnessCorrect == Spec => []FreshnessInvariant
  <1>1. Spec => []PlacesInvariant
    BY InitPlaces, NextPlaces, TypeCorrect, PTL DEF Spec
  <1>2. Spec => []PixelsInvariant
    BY <1>1, InitFresh, NextFresh, TypeCorrect, PTL DEF Spec
  <1> QED BY <1>1, <1>2, PTL DEF FreshnessInvariant

\* PaintTile can leave a stale tile marked valid only by the three races that
\* the history records: a tile that was reset or a slot that was written
\* between its rasterizing and its Set, a document that was resized or zoomed
\* between its reading of columns_ or scale_ and its Set, and two tiles of one
\* slot that are painted at the same time.
THEOREM ValidTilesCorrect == Spec => []ValidTilesAreFresh
  BY FreshnessCorrect, TypeCorrect, FreshnessImplies, PTL
=============================================================================
