----------------------------- MODULE TileBuffer -----------------------------
(***************************************************************************)
(* lok_tilebuffer.{h,cc}: the cache of painted tiles.  The renderer thread *)
(* resizes, rescales, invalidates and draws it; the threads of the pool    *)
(* fill it, one PaintTile call per worker at a time, with no lock between  *)
(* them.  A PaintTile call is split where another thread can observe or    *)
(* change something it uses: one action per step.                          *)
(*                                                                         *)
(* A layout stands for the document size and the scale Resize was given.   *)
(* It fixes columns_, the number of tiles (columns_ * rows_) and the scale,*)
(* which in turn fixes the context hash of the tasks made for it.  The     *)
(* pixels of a tile are abstracted to what they show: the tile, the values *)
(* of columns_ and scale_ its place was computed from, and the version of  *)
(* the document content.  A call on valid_tile_ is one step, as it is for  *)
(* documents whose bits fit in one container; AtomicBitset splits it for   *)
(* larger ones.                                                            *)
(***************************************************************************)
EXTENDS Integers, FiniteSets

CONSTANTS Workers,       \* threads of the pool that run PaintTile
          PoolSize,      \* kPoolSize
          Layouts,       \* the document sizes and scales that occur
          Columns,       \* columns_ of each layout
          TileTotal,     \* columns_ * rows_ of each layout
          Scale,         \* the scale of each layout
          MaxVersion,    \* bound: no edits after a tile has had so many
          MaxResizes,    \* bound: resizes and zooms
          MaxPaints,     \* bound: PaintTile calls that are not refused
          NoTile,        \* kInvalidTileIndex
          NoContext,     \* context hash 0
          Blank          \* a transparent buffer, or an image never set

ASSUME TileBufferAssumption ==
    /\ PoolSize \in Nat \ {0}
    /\ Layouts # {}
    /\ Columns \in [Layouts -> Nat \ {0}]
    /\ TileTotal \in [Layouts -> Nat \ {0}]
    /\ NoContext \notin { Scale[l] : l \in Layouts }
    /\ MaxVersion \in Nat /\ MaxResizes \in Nat /\ MaxPaints \in Nat

Tiles == UNION { 0..(TileTotal[l] - 1) : l \in Layouts }
Slots == 0..(PoolSize - 1)
Contexts == { Scale[l] : l \in Layouts }
ColumnCounts == { Columns[l] : l \in Layouts }
Picture == [tile : Tiles, columns : SUBSET ColumnCounts, scales : SUBSET Contexts,
            version : 0..MaxVersion]

ASSUME SentinelAssumption == NoTile \notin Tiles /\ Blank \notin Picture

VARIABLES
    requested,                  \* the document size and scale_
    layout,                     \* the layout columns_ and rows_ are of
    active_context_hash,        \* active_context_hash_
    bitset,                     \* the layout valid_tile_ was allocated for
    valid_tile,                 \* valid_tile_, as the set of its tiles
    pool_index_to_tile_index,   \* pool_index_to_tile_index_
    pool_buffer,                \* pool_buffer_
    pool_paint_images,          \* pool_paint_images_
    worker,                     \* the PaintTile call of each worker
    resizes,                    \* number of resizes, bounded by MaxResizes
    paints,                     \* number of PaintTile calls, bounded by MaxPaints
    resizing,                   \* how far the renderer is in Resize or ResetScale
    rescaling,                  \* it is in ResetScale
    version,                    \* external: the content of each tile, as LOK has it
    pending,                    \* external: tiles changed, INVALIDATE_TILES not handled
    spoiled                     \* history: tiles whose bit does not speak for their image

bufferVars == <<requested, layout, active_context_hash, bitset, valid_tile,
                pool_index_to_tile_index, pool_buffer, pool_paint_images>>
vars == <<bufferVars, worker, resizes, paints, resizing, rescaling, version, pending, spoiled>>

\* TileToPoolIndex: the slot of a tile, and whether the tile is in it.
Slot(tile) == tile % PoolSize
Resident(tile) == pool_index_to_tile_index[Slot(tile)] = tile

\* valid_tile_.Size() is the number of tiles plus one.
InBitset(tile) == tile < TileTotal[bitset] + 1

\* A worker has pixels under way between rasterizing and setting the bit.
Rasterized(w) == worker[w].pc \in {"check", "copy", "set"}

\* A worker has read columns_ or scale_ to find the place of its tile.
Located(w) == worker[w].columns # {} \/ worker[w].scales # {}

\* Workers, with those of W marked as disturbed (history).
Mark(workers, W) ==
    [w \in Workers |-> IF w \in W THEN [workers[w] EXCEPT !.disturbed = TRUE] ELSE workers[w]]

\* Marked are those of W that have pixels under way: their tile was reset, or
\* their slot written, in the meantime.
Disturb(workers, W) == Mark(workers, { w \in W : Rasterized(w) })

PaintersOf(S) == { w \in Workers : worker[w].tile \in S }
OthersInSlot(w) == { u \in Workers \ {w} : Slot(worker[u].tile) = Slot(worker[w].tile) }

\* Clear the bits of the tiles in S.
ResetBits(S) == valid_tile' = valid_tile \ S /\ spoiled' = spoiled \ S

\* A call of PaintTile: what it was given and what it has read so far.
Call(pc, tile, context) == [pc |-> pc, tile |-> tile, context |-> context,
                            columns |-> {}, scales |-> {}, disturbed |-> FALSE]
Idle == Call("idle", 0, NoContext)

At(w, pc) == [worker EXCEPT ![w].pc = pc]
Goto(w, pc) == worker' = At(w, pc)
GotoWriting(w, pc) == worker' = Disturb(At(w, pc), OthersInSlot(w))
Return(w) == worker' = [worker EXCEPT ![w] = Idle]

Mismatch(w) == active_context_hash # worker[w].context
-----------------------------------------------------------------------------
\* The buffer after the first Resize: nothing is painted.
Init ==
    /\ layout \in Layouts /\ requested = layout
    /\ active_context_hash = NoContext
    /\ bitset = layout
    /\ valid_tile = {}
    /\ pool_index_to_tile_index = [s \in Slots |-> NoTile]
    /\ pool_buffer = [s \in Slots |-> Blank]
    /\ pool_paint_images = [s \in Slots |-> Blank]
    /\ worker = [w \in Workers |-> Idle]
    /\ resizes = 0
    /\ paints = 0
    /\ resizing = "no" /\ rescaling = FALSE
    /\ version = [t \in Tiles |-> 0]
    /\ pending = {}
    /\ spoiled = {}
-----------------------------------------------------------------------------
(* PaintTile, on a worker. *)

\* Refused at once: the context is not the active one, or the index is
\* beyond the last tile.  Either way every bit is cleared.
PaintTileRefused(w, tile, context) ==
    /\ worker[w] = Idle
    /\ active_context_hash # context \/ tile > TileTotal[layout] - 1
    /\ ResetBits(Tiles)
    /\ UNCHANGED <<requested, layout, active_context_hash, bitset, pool_index_to_tile_index,
                   pool_buffer, pool_paint_images, worker, resizes, paints, resizing, rescaling, version, pending>>

PaintTileEnter(w, tile, context) ==
    /\ worker[w] = Idle
    /\ active_context_hash = context
    /\ tile <= TileTotal[layout] - 1
    /\ paints < MaxPaints
    /\ paints' = paints + 1
    /\ worker' = [worker EXCEPT ![w] = Call("claim", tile, context)]
    /\ UNCHANGED <<bufferVars, resizes, resizing, rescaling, version, pending, spoiled>>

\* The tile that owns the slot, if any, is evicted and no longer valid.
InvalidatePoolTile(slot) ==
    /\ ResetBits({pool_index_to_tile_index[slot]} \ {NoTile})
    /\ pool_index_to_tile_index' = [pool_index_to_tile_index EXCEPT ![slot] = NoTile]

\* The slot is free or owned by another tile: evict, then take it.
ClaimEvict(w) ==
    /\ worker[w].pc = "claim"
    /\ ~Resident(worker[w].tile)
    /\ InvalidatePoolTile(Slot(worker[w].tile))
    /\ worker' = Disturb(At(w, "assign"),
                         PaintersOf({pool_index_to_tile_index[Slot(worker[w].tile)]}))
    /\ UNCHANGED <<requested, layout, active_context_hash, bitset, pool_buffer,
                   pool_paint_images, resizes, paints, resizing, rescaling, version, pending>>

ClaimOwned(w) ==
    /\ worker[w].pc = "claim"
    /\ Resident(worker[w].tile)
    /\ Goto(w, "begin")
    /\ UNCHANGED <<bufferVars, resizes, paints, resizing, rescaling, version, pending, spoiled>>

\* A faulty ClaimAssign that takes the neighbouring slot.
ClaimAssignNextSlot(w) ==
    /\ worker[w].pc = "assign"
    /\ pool_index_to_tile_index' =
         [pool_index_to_tile_index EXCEPT ![Slot(worker[w].tile + 1)] = worker[w].tile]
    /\ Goto(w, "begin")
    /\ UNCHANGED <<requested, layout, active_context_hash, bitset, valid_tile, pool_buffer,
                   pool_paint_images, resizes, paints, resizing, rescaling, version, pending, spoiled>>

ClaimAssign(w) ==
    /\ worker[w].pc = "assign"
    /\ pool_index_to_tile_index' =
         [pool_index_to_tile_index EXCEPT ![Slot(worker[w].tile)] = worker[w].tile]
    /\ Goto(w, "begin")
    /\ UNCHANGED <<requested, layout, active_context_hash, bitset, valid_tile, pool_buffer,
                   pool_paint_images, resizes, paints, resizing, rescaling, version, pending, spoiled>>

MustRasterize(w) == InBitset(worker[w].tile) /\ worker[w].tile \notin valid_tile

\* Valid already, or the task is cancelled, which the renderer may do at any
\* moment before the flag is read: PaintTile returns the bit.
PaintTileSkip(w) ==
    /\ worker[w].pc = "begin"
    /\ \E cancelled \in BOOLEAN : cancelled \/ ~MustRasterize(w)
    /\ Return(w)
    /\ UNCHANGED <<bufferVars, resizes, paints, resizing, rescaling, version, pending, spoiled>>

PaintTileRasterize(w) ==
    /\ worker[w].pc = "begin"
    /\ MustRasterize(w)
    /\ Goto(w, "coord")
    /\ UNCHANGED <<bufferVars, resizes, paints, resizing, rescaling, version, pending, spoiled>>

\* Otherwise the tile's column and row are computed, each from a reading of
\* columns_, which the renderer may change in between ...
IndexToCoord(w) ==
    /\ worker[w].pc = "coord"
    /\ Cardinality(worker[w].columns) < 2
    /\ worker' = [worker EXCEPT ![w].columns = @ \cup {Columns[layout]}]
    /\ UNCHANGED <<bufferVars, resizes, paints, resizing, rescaling, version, pending, spoiled>>

\* ... the slot's buffer is made transparent ...
FillBuffer(w) ==
    /\ worker[w].pc = "coord"
    /\ worker[w].columns # {}
    /\ pool_buffer' = [pool_buffer EXCEPT ![Slot(worker[w].tile)] = Blank]
    /\ GotoWriting(w, "raster")
    /\ UNCHANGED <<requested, layout, active_context_hash, bitset, valid_tile,
                   pool_index_to_tile_index, pool_paint_images, resizes, paints, resizing,
                   rescaling, version, pending, spoiled>>

\* ... the place and the size in twips are computed, each from a reading of
\* scale_ ...
ReadScale(w) ==
    /\ worker[w].pc = "raster"
    /\ Cardinality(worker[w].scales) < 4
    /\ worker' = [worker EXCEPT ![w].scales = @ \cup {Scale[requested]}]
    /\ UNCHANGED <<bufferVars, resizes, paints, resizing, rescaling, version, pending, spoiled>>

\* ... and LOK paints into the buffer what the document shows there now.
LokPaintTile(w) ==
    /\ worker[w].pc = "raster"
    /\ worker[w].scales # {}
    /\ pool_buffer' = [pool_buffer EXCEPT ![Slot(worker[w].tile)] =
                         [tile |-> worker[w].tile, columns |-> worker[w].columns,
                          scales |-> worker[w].scales, version |-> version[worker[w].tile]]]
    /\ GotoWriting(w, "check")
    /\ UNCHANGED <<requested, layout, active_context_hash, bitset, valid_tile,
                   pool_index_to_tile_index, pool_paint_images, resizes, paints, resizing,
                   rescaling, version, pending, spoiled>>

\* The context is compared after rasterizing ...
CheckContext(w) ==
    /\ worker[w].pc = "check"
    /\ ~Mismatch(w)
    /\ Goto(w, "copy")
    /\ UNCHANGED <<bufferVars, resizes, paints, resizing, rescaling, version, pending, spoiled>>

\* ... the image is copied out of the buffer (history: the tiles of the slot
\* that are marked valid lose their image, except the worker's own tile if
\* the pixels are undisturbed) ...
CopiedImage(w) == [pool_paint_images EXCEPT ![Slot(worker[w].tile)] =
                      pool_buffer[Slot(worker[w].tile)]]
Overwritten(w) ==
    { t \in valid_tile : /\ Slot(t) = Slot(worker[w].tile)
                         /\ t # worker[w].tile \/ worker[w].disturbed }

\* ... and the context is compared again.
CopyImage(w) ==
    /\ worker[w].pc = "copy"
    /\ ~Mismatch(w)
    /\ pool_paint_images' = CopiedImage(w)
    /\ spoiled' = spoiled \cup Overwritten(w)
    /\ GotoWriting(w, "set")
    /\ UNCHANGED <<requested, layout, active_context_hash, bitset, valid_tile,
                   pool_index_to_tile_index, pool_buffer, resizes, paints, resizing, rescaling, version, pending>>

\* A mismatch at either comparison clears the bits and gives up.
AbortBeforeCopy(w) ==
    /\ worker[w].pc = "check"
    /\ Mismatch(w)
    /\ ResetBits(Tiles)
    /\ Return(w)
    /\ UNCHANGED <<requested, layout, active_context_hash, bitset, pool_index_to_tile_index,
                   pool_buffer, pool_paint_images, resizes, paints, resizing, rescaling, version, pending>>

AbortAfterCopy(w) ==
    /\ worker[w].pc = "copy"
    /\ Mismatch(w)
    /\ pool_paint_images' = CopiedImage(w)
    /\ ResetBits(Tiles)
    /\ worker' = Disturb([worker EXCEPT ![w] = Idle], OthersInSlot(w))
    /\ UNCHANGED <<requested, layout, active_context_hash, bitset, pool_index_to_tile_index,
                   pool_buffer, resizes, paints, resizing, rescaling, version, pending>>

\* A faulty SetValid that sets the bit of the following tile.
SetValidOffByOne(w) ==
    /\ worker[w].pc = "set"
    /\ valid_tile' = valid_tile \cup { t \in {worker[w].tile + 1} : InBitset(t) }
    /\ spoiled' = IF worker[w].disturbed THEN spoiled \cup {worker[w].tile}
                                         ELSE spoiled \ {worker[w].tile}
    /\ Return(w)
    /\ UNCHANGED <<requested, layout, active_context_hash, bitset, pool_index_to_tile_index,
                   pool_buffer, pool_paint_images, resizes, paints, resizing, rescaling, version, pending>>

\* The bit is set.  Beyond the end of the bitset the access is out of bounds;
\* the model leaves the bits alone.
SetValid(w) ==
    /\ worker[w].pc = "set"
    /\ valid_tile' = valid_tile \cup { t \in {worker[w].tile} : InBitset(t) }
    /\ spoiled' = IF worker[w].disturbed THEN spoiled \cup {worker[w].tile}
                                         ELSE spoiled \ {worker[w].tile}
    /\ Return(w)
    /\ UNCHANGED <<requested, layout, active_context_hash, bitset, pool_index_to_tile_index,
                   pool_buffer, pool_paint_images, resizes, paints, resizing, rescaling, version, pending>>
-----------------------------------------------------------------------------
(* The renderer thread. *)

\* A faulty InvalidateTiles whose range leaves out its last tile.
InvalidateTilesShort(first, last) ==
    /\ resizing = "no"
    /\ last <= TileTotal[layout] - 1
    /\ ResetBits(first..(last - 1))
    /\ worker' = Disturb(worker, PaintersOf(first..(last - 1)))
    /\ pending' = pending \ (first..last)
    /\ UNCHANGED <<requested, layout, active_context_hash, bitset, pool_index_to_tile_index,
                   pool_buffer, pool_paint_images, resizes, paints, resizing, rescaling, version>>

\* InvalidateTilesInTwipRect and InvalidateTilesInRect: ResetRange on the
\* range of the dirty rectangle.  It answers the changes LOK reported in it.
InvalidateTiles(first, last) ==
    /\ resizing = "no"
    /\ last <= TileTotal[layout] - 1
    /\ ResetBits(first..last)
    /\ worker' = Disturb(worker, PaintersOf(first..last))
    /\ pending' = pending \ (first..last)
    /\ UNCHANGED <<requested, layout, active_context_hash, bitset, pool_index_to_tile_index,
                   pool_buffer, pool_paint_images, resizes, paints, resizing, rescaling, version>>

\* SetActiveContext(0), then valid_tile_.Clear().
InvalidateAllTiles ==
    /\ resizing = "no"
    /\ active_context_hash' = NoContext
    /\ ResetBits(Tiles)
    /\ worker' = Disturb(worker, Workers)
    /\ UNCHANGED <<requested, layout, bitset, pool_index_to_tile_index, pool_buffer,
                   pool_paint_images, resizes, paints, resizing, rescaling, version, pending>>

\* PaintManager::PostCurrentTask activates the context of the task it posts;
\* SetZoom activates none.
SetActiveContext(context) ==
    /\ resizing = "no"
    /\ active_context_hash' = context
    /\ UNCHANGED <<requested, layout, bitset, valid_tile, pool_index_to_tile_index, pool_buffer,
                   pool_paint_images, worker, resizes, paints, resizing, rescaling, version, pending, spoiled>>

\* Resize, from ResetScale when the scale changes: the document's size and
\* scale_, then columns_ and rows_, then a new bitset, then the slots.
ResizeScale(new) ==
    /\ resizing = "no"
    /\ new # layout
    /\ resizes < MaxResizes
    /\ resizes' = resizes + 1
    /\ requested' = new
    /\ resizing' = "dimensions"
    /\ rescaling' = (Scale[new] # Scale[requested])
    /\ UNCHANGED <<layout, active_context_hash, bitset, valid_tile, pool_index_to_tile_index,
                   pool_buffer, pool_paint_images, worker, paints, version, pending, spoiled>>

ResizeDimensions ==
    /\ resizing = "dimensions"
    /\ layout' = requested
    /\ resizing' = "bits"
    /\ UNCHANGED <<requested, active_context_hash, bitset, valid_tile, pool_index_to_tile_index,
                   pool_buffer, pool_paint_images, worker, resizes, paints, rescaling, version,
                   pending, spoiled>>

\* A faulty ResizeBits that keeps the bits of the old layout.
ResizeBitsKeeps ==
    /\ resizing = "bits"
    /\ bitset' = layout
    /\ resizing' = "slots"
    /\ UNCHANGED <<requested, layout, active_context_hash, valid_tile, pool_index_to_tile_index,
                   pool_buffer, pool_paint_images, worker, resizes, paints, rescaling, version,
                   pending, spoiled>>

\* (History: the calls that read the old layout are disturbed.)
ResizeBits ==
    /\ resizing = "bits"
    /\ bitset' = layout
    /\ ResetBits(Tiles)
    /\ worker' = Mark(worker, { w \in Workers : Located(w) })
    /\ resizing' = "slots"
    /\ UNCHANGED <<requested, layout, active_context_hash, pool_index_to_tile_index, pool_buffer,
                   pool_paint_images, resizes, paints, rescaling, version, pending>>

ResizeSlots ==
    /\ resizing = "slots"
    /\ pool_index_to_tile_index' = [s \in Slots |-> NoTile]
    /\ resizing' = IF rescaling THEN "context" ELSE "no"
    /\ UNCHANGED <<requested, layout, active_context_hash, bitset, valid_tile, pool_buffer,
                   pool_paint_images, worker, resizes, paints, rescaling, version, pending, spoiled>>

\* ResetScale ends with SetActiveContext(0).
ResetScaleContext ==
    /\ resizing = "context"
    /\ active_context_hash' = NoContext
    /\ resizing' = "no"
    /\ UNCHANGED <<requested, layout, bitset, valid_tile, pool_index_to_tile_index, pool_buffer,
                   pool_paint_images, worker, resizes, paints, rescaling, version, pending, spoiled>>

\* External: LOK changes the content of a tile and reports it by a callback
\* that the renderer handles later.
Edit(tile) ==
    /\ \A t \in Tiles : version[t] < MaxVersion
    /\ version' = [version EXCEPT ![tile] = @ + 1]
    /\ pending' = pending \cup {tile}
    /\ UNCHANGED <<bufferVars, worker, resizes, paints, resizing, rescaling, spoiled>>
-----------------------------------------------------------------------------
WorkerStep(w) ==
    \/ \E t \in Tiles, c \in Contexts : PaintTileRefused(w, t, c) \/ PaintTileEnter(w, t, c)
    \/ ClaimEvict(w) \/ ClaimOwned(w) \/ ClaimAssign(w)
    \/ PaintTileSkip(w) \/ PaintTileRasterize(w) \/ IndexToCoord(w) \/ FillBuffer(w)
    \/ ReadScale(w) \/ LokPaintTile(w)
    \/ CheckContext(w) \/ CopyImage(w) \/ SetValid(w)
    \/ AbortBeforeCopy(w) \/ AbortAfterCopy(w)

RendererStep ==
    \/ \E first, last \in Tiles : first <= last /\ InvalidateTiles(first, last)
    \/ InvalidateAllTiles
    \/ \E c \in Contexts \cup {NoContext} : SetActiveContext(c)
    \/ \E l \in Layouts : ResizeScale(l)
    \/ ResizeDimensions \/ ResizeBits \/ ResizeSlots \/ ResetScaleContext

Next ==
    \/ \E w \in Workers : WorkerStep(w)
    \/ RendererStep
    \/ \E t \in Tiles : Edit(t)

Spec == Init /\ [][Next]_vars
-----------------------------------------------------------------------------
\* Types.
TypeOK ==
    /\ requested \in Layouts /\ layout \in Layouts /\ bitset \in Layouts
    /\ active_context_hash \in Contexts \cup {NoContext}
    /\ valid_tile \subseteq Tiles
    /\ pool_index_to_tile_index \in [Slots -> Tiles \cup {NoTile}]
    /\ pool_buffer \in [Slots -> Picture \cup {Blank}]
    /\ pool_paint_images \in [Slots -> Picture \cup {Blank}]
    /\ worker \in [Workers -> [pc : {"idle", "claim", "assign", "begin", "coord",
                                    "raster", "check", "copy", "set"},
                               tile : Tiles, context : Contexts \cup {NoContext},
                               columns : SUBSET ColumnCounts, scales : SUBSET Contexts,
                               disturbed : BOOLEAN]]
    /\ resizing \in {"no", "dimensions", "bits", "slots", "context"} /\ rescaling \in BOOLEAN
    /\ resizes \in 0..MaxResizes /\ paints \in 0..MaxPaints
    /\ version \in [Tiles -> 0..MaxVersion]
    /\ pending \subseteq Tiles
    /\ spoiled \subseteq Tiles

\* Whatever the interleaving, a slot is owned by, and its pixels and its
\* image show, a tile that maps to it.  So PaintToCanvas, which draws the
\* image of a slot as soon as the tile owns it, shows the tile itself or one
\* that is a multiple of kPoolSize away, never an arbitrary one.
SlotsHoldTheirTiles ==
    \A s \in Slots :
        /\ pool_index_to_tile_index[s] # NoTile => Slot(pool_index_to_tile_index[s]) = s
        /\ pool_buffer[s] # Blank => Slot(pool_buffer[s].tile) = s
        /\ pool_paint_images[s] # Blank => Slot(pool_paint_images[s].tile) = s

\* The picture of a tile as it should look now.
Current(tile) == [tile |-> tile, columns |-> {Columns[layout]}, scales |-> {Scale[requested]},
                  version |-> version[tile]]

\* A reset of the tile's bit is still to come: LOK's callback is not yet
\* handled, or Resize has not reached the bitset.
ResizeToCome == resizing \in {"dimensions", "bits"}
ResetToCome(tile) == tile \in pending \/ ResizeToCome

\* A tile that is marked valid although its image is not the current one.
Stale(tile) ==
    /\ tile \in valid_tile
    /\ Resident(tile)
    /\ ~ResetToCome(tile)
    /\ pool_paint_images[Slot(tile)] # Current(tile)

\* A valid tile in the pool shows the current content of the document, at the
\* place and scale of the current layout, unless a reset is still to come or
\* one of three races happened: a worker published the tile, its image or its
\* bit, although the tile was reset or the slot written while it had pixels
\* under way; or although the document was resized or zoomed since it read
\* columns_ or scale_, which it does before it paints; or another tile was
\* published in the slot of a tile that was valid.  There is no fourth way.
ValidTilesAreFresh == \A t \in Tiles : Stale(t) => t \in spoiled

\* Why that holds: unless a resize is still to reach the bitset, what an
\* undisturbed worker has read is of the current layout ...
PlacesInvariant ==
    /\ resizing # "dimensions" => layout = requested
    /\ \A w \in Workers :
          /\ worker[w].pc \in {"raster", "check", "copy", "set"} => worker[w].columns # {}
          /\ (~worker[w].disturbed /\ ~ResizeToCome) =>
                /\ worker[w].columns \subseteq {Columns[layout]}
                /\ worker[w].scales \subseteq {Scale[requested]}

\* ... so what it has under way is current, first in the buffer, then in the
\* image; and so is the image of a valid tile, whether the tile still owns its
\* slot or not.
PixelsInvariant ==
    /\ \A t \in valid_tile \ spoiled :
          ~ResetToCome(t) => pool_paint_images[Slot(t)] = Current(t)
    /\ \A w \in Workers :
          (~worker[w].disturbed /\ ~ResetToCome(worker[w].tile)) =>
              /\ worker[w].pc \in {"check", "copy"} =>
                    pool_buffer[Slot(worker[w].tile)] = Current(worker[w].tile)
              /\ worker[w].pc = "set" =>
                    pool_paint_images[Slot(worker[w].tile)] = Current(worker[w].tile)

FreshnessInvariant == PlacesInvariant /\ PixelsInvariant

\* lok_tilebuffer.cc: "because valid_tile is critical to render, check after
\* rasterization".  Read as a promise: no stale tile is ever marked valid.
CheckAfterRasterizationSuffices == \A t \in Tiles : ~Stale(t)

\* The assertion of AtomicBitset::Set, DCHECK_LT(index, size_), where
\* PaintTile calls it.
SetIsInBounds == \A w \in Workers : worker[w].pc = "set" => InBitset(worker[w].tile)
=============================================================================
