----------------------------- MODULE TileRanges -----------------------------
(***************************************************************************)
(* The arithmetic of tile ranges in lok_tilebuffer.cc: how a rectangle, a  *)
(* scroll position or a list of ranges is turned into the tile indices to  *)
(* invalidate, to paint and to count.  A tile index numbers the tiles row  *)
(* by row; a range is a pair of inclusive indices.  Everything here is a   *)
(* pure operator, used by PaintManager and OfficeWebPlugin.                *)
(***************************************************************************)
EXTENDS Integers, Sequences, SequencesExt

CONSTANT TileSizePx    \* kTileSizePx

ASSUME TileSizePxAssumption == TileSizePx \in Nat \ {0}

TileRange(first, last) == [index_start |-> first, index_end |-> last]

TilesIn(range) == range.index_start .. range.index_end

TilesInAll(ranges) == UNION { TilesIn(ranges[i]) : i \in DOMAIN ranges }

Lower(a, b) == IF a < b THEN a ELSE b
Higher(a, b) == IF a > b THEN a ELSE b
CeilDiv(a, b) == (a + b - 1) \div b
-----------------------------------------------------------------------------
(* Lists of ranges. *)

\* A faulty MergeSorted that takes touching ends for no overlap.
MergeSortedSplitsTouching(acc, range) ==
    CASE Last(acc).index_end <= range.index_start -> Append(acc, range)
      [] Last(acc).index_end > range.index_start /\ Last(acc).index_end < range.index_end
           -> [acc EXCEPT ![Len(acc)].index_end = range.index_end]
      [] OTHER -> acc

\* One turn of the loop of SimplifyRanges: append a range that starts after
\* the last one ends, otherwise stretch the last one if that is needed.
MergeSorted(acc, range) ==
    CASE Last(acc).index_end < range.index_start -> Append(acc, range)
      [] Last(acc).index_end >= range.index_start /\ Last(acc).index_end < range.index_end
           -> [acc EXCEPT ![Len(acc)].index_end = range.index_end]
      [] OTHER -> acc

\* One turn of an insertion sort.  std::sort may leave ranges with the same
\* first index in another order; they are merged into the same range.
InsertByStart(acc, range) ==
    LET before == CHOOSE n \in 0..Len(acc) :
                      /\ \A i \in 1..n : acc[i].index_start <= range.index_start
                      /\ \A i \in (n + 1)..Len(acc) : range.index_start < acc[i].index_start
    IN  InsertAt(acc, before + 1, range)

SortByStart(ranges) == FoldLeft(InsertByStart, <<>>, ranges)

\* Sorted by first index, with overlapping ranges merged; adjacent ranges
\* stay apart, and a list of fewer than two ranges is returned as it is.
SimplifyRanges(ranges) ==
    IF Len(ranges) < 2 THEN ranges
    ELSE LET sorted == SortByStart(ranges)
         IN  FoldLeft(MergeSorted, <<Head(sorted)>>, Tail(sorted))

TileCount(ranges) ==
    FoldLeft(LAMBDA n, r : n + (r.index_end - r.index_start + 1), 0, ranges)

\* Add one index to a list of ranges: the last range grows if the index
\* follows it, otherwise a new range begins.
ExtendRanges(acc, index) ==
    IF acc # <<>> /\ Last(acc).index_end = index - 1
    THEN [acc EXCEPT ![Len(acc)].index_end = index]
    ELSE Append(acc, TileRange(index, index))

\* A loop over indices that adds those that are not present.
ExtendByMissing(ranges, indices, present) ==
    FoldLeft(LAMBDA acc, i : IF i \in present THEN acc ELSE ExtendRanges(acc, i),
             ranges, indices)

\* A faulty IndicesBelow that lets the loop run one index too far.
IndicesBelowPlusOne(range, size) ==
    [k \in 1..Higher(0, Lower(range.index_end, size) - range.index_start + 1)
        |-> range.index_start + k - 1]

\* The indices a loop over a range visits while they are below size.
IndicesBelow(range, size) ==
    [k \in 1..Higher(0, Lower(range.index_end, size - 1) - range.index_start + 1)
        |-> range.index_start + k - 1]

\* The part of a list of ranges that still has to be painted: the tiles in
\* the bitset (of the given size) that are invalid or have lost their slot.
InvalidRangesRemaining(ranges, size, valid, resident) ==
    SimplifyRanges(FoldLeft(
        LAMBDA acc, r : ExtendByMissing(acc, IndicesBelow(r, size), valid \cap resident),
        <<>>, ranges))

Outside(range, limit) ==
    range.index_end < limit.index_start \/ range.index_start > limit.index_end

\* A faulty ClipRange that cuts only the end.
ClipRangeEnd(range, limit) ==
    TileRange(range.index_start, Lower(range.index_end, limit.index_end))

ClipRange(range, limit) ==
    TileRange(Higher(range.index_start, limit.index_start),
              Lower(range.index_end, limit.index_end))

ClipRanges(ranges, limit) ==
    FoldLeft(LAMBDA acc, r : IF Outside(r, limit) THEN acc
                             ELSE Append(acc, ClipRange(r, limit)), <<>>, ranges)
-----------------------------------------------------------------------------
(* Positions and rectangles, in pixels. *)

CoordToIndex(columns, x, y) == y * columns + x

\* LimitRange: the first row of a view and the row its bottom edge is in, at
\* the latest.
LimitRows(y_pos, view_height) ==
    LET start == IF y_pos < 0 THEN 0 ELSE y_pos \div TileSizePx
    IN  [start |-> start, end |-> start + CeilDiv(view_height, TileSizePx)]

LimitIndex(columns, y_pos, view_height) ==
    LET rows == LimitRows(y_pos, view_height)
    IN  TileRange(CoordToIndex(columns, 0, rows.start),
                  CoordToIndex(columns, columns - 1, rows.end))

\* A faulty NextScrollTileRange that only looks ahead.
NextScrollAhead(columns, rows, next_y_pos, view_height) ==
    LET limit == LimitRows(next_y_pos + view_height, view_height * 2)
    IN  TileRange(Lower(limit.start, rows - 1) * columns,
                  Lower(limit.end, rows - 1) * columns + columns - 1)

\* One view above and one below the next scroll position, inside the document.
NextScrollTileRange(columns, rows, next_y_pos, view_height) ==
    LET limit == LimitRows(Higher(0, next_y_pos - view_height), view_height * 3)
        last  == columns * rows - 1
    IN  TileRange(Lower(Lower(limit.start, rows - 1) * columns, last),
                  Lower(Lower(limit.end, rows - 1) * columns + columns - 1, last))

\* TileRect: the cells a pixel rectangle touches once it is cut to the
\* container; gfx makes an empty intersection the empty rectangle at (0, 0).
TileRect(rect, width, height) ==
    LET left   == Higher(rect.x, 0)
        top    == Higher(rect.y, 0)
        right  == Lower(rect.x + rect.width, width)
        bottom == Lower(rect.y + rect.height, height)
    IN  IF left >= right \/ top >= bottom
        THEN [x |-> 0, y |-> 0, right |-> 0, bottom |-> 0]
        ELSE [x      |-> left \div TileSizePx,
              y      |-> top \div TileSizePx,
              right  |-> CeilDiv(right, TileSizePx),
              bottom |-> CeilDiv(bottom, TileSizePx)]

\* A faulty RangeInRect whose range ends in the row of its first cell.
RangeInRectFirstRow(rect, width, height) ==
    LET columns == CeilDiv(width, TileSizePx)
        cells   == TileRect(rect, width, height)
    IN  TileRange(CoordToIndex(columns, cells.x, cells.y),
                  CoordToIndex(columns, Lower(cells.right, columns - 1), cells.y))

\* The range InvalidateTilesInRect and InvalidateTilesInTwipRect compute.
\* The right and bottom cell are exclusive bounds but are used as inclusive
\* ones, so that a range may hold a column and a row too many.
RangeInRect(rect, width, height) ==
    LET columns == CeilDiv(width, TileSizePx)
        rows    == CeilDiv(height, TileSizePx)
        cells   == TileRect(rect, width, height)
    IN  TileRange(CoordToIndex(columns, cells.x, cells.y),
                  CoordToIndex(columns, Lower(cells.right, columns - 1),
                                        Lower(cells.bottom, rows - 1)))
=============================================================================
