---------------------------- MODULE MCTileRanges ----------------------------
(***************************************************************************)
(* Calls of the operators of TileRanges with every small argument, each    *)
(* followed by a comparison of the result with a reference definition.     *)
(***************************************************************************)
EXTENDS TileRanges, FiniteSets

CONSTANTS MaxIndex,     \* tile indices are 0..MaxIndex
          MaxRanges,    \* longest list of ranges that is simplified
          MaxVisited,   \* longest list of ranges that is visited or clipped
          MaxPx,        \* document sides, view heights and positions, in pixels
          MaxColumns,   \* columns and rows of a document that is scrolled
          MaxRows

VARIABLES call,         \* the call made, with its arguments
          result        \* what it returned

callVars == <<call, result>>

ASSUME RangesAssumption ==
    /\ {MaxIndex, MaxRanges, MaxVisited} \subseteq Nat
    /\ {MaxPx, MaxColumns, MaxRows} \subseteq Nat \ {0}

Ranges == { TileRange(a, b) : a \in 0..MaxIndex, b \in 0..MaxIndex }
WellFormed == { r \in Ranges : r.index_start <= r.index_end }
Lists(max) == UNION { [1..n -> WellFormed] : n \in 0..max }
NoCall == [op |-> "none"]

RangesInit == call = NoCall /\ result = <<>>

CallSimplify ==
    \E ranges \in Lists(MaxRanges) :
        /\ call' = [op |-> "simplify", ranges |-> ranges]
        /\ result' = SimplifyRanges(ranges)

CallRemaining ==
    \E ranges \in Lists(MaxVisited), size \in 1..(MaxIndex + 1) :
        \E valid, lost \in SUBSET (0..(size - 1)) :
            /\ call' = [op |-> "remaining", ranges |-> ranges, size |-> size,
                        good |-> valid \ lost]
            /\ result' = InvalidRangesRemaining(ranges, size, valid, (0..MaxIndex) \ lost)

CallClip ==
    \E ranges \in Lists(MaxVisited), limit \in WellFormed :
        /\ call' = [op |-> "clip", ranges |-> ranges, limit |-> limit]
        /\ result' = SimplifyRanges(ClipRanges(ranges, limit))

CallInvalidate ==
    \E width, height, w, h \in 1..MaxPx, x, y \in -1..MaxPx :
        LET rect == [x |-> x, y |-> y, width |-> w, height |-> h] IN
        /\ call' = [op |-> "invalidate", rect |-> rect, width |-> width, height |-> height]
        /\ result' = <<RangeInRect(rect, width, height)>>

CallScroll ==
    \E columns \in 1..MaxColumns, rows \in 1..MaxRows, y \in 0..MaxPx, h \in 1..MaxPx :
        /\ y < rows * TileSizePx
        /\ call' = [op |-> "scroll", columns |-> columns, rows |-> rows, y |-> y, h |-> h]
        /\ result' = <<LimitIndex(columns, y, h),
                       NextScrollTileRange(columns, rows, y, h)>>

Return == call # NoCall /\ call' = NoCall /\ result' = <<>>

RangesNext ==
    \/ /\ call = NoCall
       /\ \/ CallSimplify \/ CallRemaining \/ CallClip
          \/ CallInvalidate \/ CallScroll
    \/ Return
-----------------------------------------------------------------------------
\* The cells, as (column, row), a rectangle or the rows y..y+h-1 really touch.
CellTouched(rect, column, row) ==
    /\ rect.x < (column + 1) * TileSizePx /\ rect.x + rect.width > column * TileSizePx
    /\ rect.y < (row + 1) * TileSizePx /\ rect.y + rect.height > row * TileSizePx

\* SimplifyRanges returns ranges in increasing order that do not overlap and
\* hold exactly the tiles of the input, and TileCount of them is the number
\* of those tiles.  PostCurrentTask relies on it: the barrier is created for
\* TileCount tiles and counts one per tile the posted jobs visit.
SimplifiedRangesCountEachTileOnce ==
    call.op = "simplify" =>
        /\ TilesInAll(result) = TilesInAll(call.ranges)
        /\ \A i \in 1..(Len(result) - 1) : result[i].index_end < result[i + 1].index_start
        /\ TileCount(result) = Cardinality(TilesInAll(call.ranges))

\* InvalidRangesRemaining finds each tile of the ranges that is invalid or
\* out of the pool, and no other, and stays inside the bitset.
RemainingAreTheUnpainted ==
    call.op = "remaining" =>
        TilesInAll(result) =
            { i \in TilesInAll(call.ranges) : i < call.size /\ i \notin call.good }

\* Clipping to the view and simplifying, as every MergeWith does, keeps
\* exactly the tiles in the view, so that no visible tile is lost by a merge.
ClippingKeepsTheView ==
    call.op = "clip" =>
        TilesInAll(result) = TilesInAll(call.ranges) \cap TilesIn(call.limit)

\* An invalidation reaches every tile that the dirty rectangle touches, and
\* its range lies in the bitset, whose size is columns * rows + 1.
InvalidationCoversRect ==
    call.op = "invalidate" =>
        LET columns == CeilDiv(call.width, TileSizePx)
            rows    == CeilDiv(call.height, TileSizePx)
        IN  /\ \A c \in 0..(columns - 1), r \in 0..(rows - 1) :
                  LET cut == [x |-> Higher(call.rect.x, 0), y |-> Higher(call.rect.y, 0),
                              width  |-> Lower(call.rect.x + call.rect.width, call.width)
                                            - Higher(call.rect.x, 0),
                              height |-> Lower(call.rect.y + call.rect.height, call.height)
                                            - Higher(call.rect.y, 0)]
                  IN  cut.width > 0 /\ cut.height > 0 /\ CellTouched(cut, c, r)
                        => CoordToIndex(columns, c, r) \in TilesIn(result[1])
            /\ result[1].index_start <= result[1].index_end
            /\ result[1].index_end < columns * rows + 1

\* Whatever the scroll position, the limit used to clip tasks and the range
\* prepared for scrolling hold every tile of the document in the view, and
\* the range prepared for scrolling holds no tile outside the document.
ViewIsScheduled ==
    call.op = "scroll" =>
        /\ \A c \in 0..(call.columns - 1), r \in 0..(call.rows - 1) :
              CellTouched([x |-> 0, y |-> call.y, width |-> call.columns * TileSizePx,
                           height |-> call.h], c, r)
                => \A i \in 1..2 : CoordToIndex(call.columns, c, r) \in TilesIn(result[i])
        /\ TilesIn(result[2]) \subseteq 0..(call.columns * call.rows - 1)
=============================================================================
