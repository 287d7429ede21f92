------------------------ MODULE OfficeWebPluginProofs ------------------------
(***************************************************************************)
(* Proofs about the office web plugin and its paint manager, for any       *)
(* documents, views, zoom levels and numbers of inputs.                    *)
(***************************************************************************)
EXTENDS MCOfficeWebPlugin, TileRangesProofs

-----------------------------------------------------------------------------
(* What the manager's operations leave alone. *)

\* A manager with its fields, and a buffer with its.
IsManager(m) ==
    /\ DOMAIN m = {"current_task", "next_task", "skip_render", "posts", "buffer"}
    /\ DOMAIN m.buffer = {"scale", "rows", "y_pos", "context", "valid", "resident", "fresh"}

\* n is m with bits cleared, and with other tasks, posts, position, context
\* and owners.
Shrinks(m, n) ==
    /\ IsManager(n)
    /\ n.buffer.valid \subseteq m.buffer.valid /\ n.buffer.fresh = m.buffer.fresh
    /\ n.buffer.rows = m.buffer.rows /\ n.buffer.scale = m.buffer.scale

LEMMA ShrinksRefl == \A m : IsManager(m) => Shrinks(m, m)
  BY DEF Shrinks

LEMMA ShrinksTrans == \A a, b, c : Shrinks(a, b) /\ Shrinks(b, c) => Shrinks(a, c)
  BY DEF Shrinks

LEMMA PostShrinks == ASSUME NEW m, IsManager(m) PROVE Shrinks(m, PostCurrentTask(m))
  <1>1. CASE m.skip_render \/ m.current_task = NoTask \/ m.buffer.rows = 0
    BY <1>1, ShrinksRefl DEF PostCurrentTask
  <1>2. CASE ~(m.skip_render \/ m.current_task = NoTask \/ m.buffer.rows = 0)
    <2> DEFINE ranges == SimplifyRanges(m.current_task.tile_ranges)
               post == [id |-> Unused({ p.id : p \in m.posts }), task |-> m.current_task.id,
                        context |-> m.current_task.scale,
                        jobs |-> ToSet(ranges), left |-> TileCount(ranges),
                        cancelled |-> FALSE, silenced |-> FALSE, calling |-> FALSE]
               y == m.posts \cup {post}
    <2>1. PostCurrentTask(m) = [m EXCEPT !.buffer.context = m.current_task.scale,
                                         !.posts = @ \cup {post}]
      BY <1>2 DEF PostCurrentTask
    <2>2. PostCurrentTask(m) = [m EXCEPT !.buffer.context = m.current_task.scale, !.posts = y]
      BY <2>1
    <2> HIDE DEF y
    <2> QED BY <2>2 DEF Shrinks, IsManager
  <1> QED BY <1>1, <1>2

LEMMA CancelShrinks == ASSUME NEW m, IsManager(m), NEW task PROVE Shrinks(m, CancelTask(m, task))
  <1> DEFINE x == { IF p.task = task.id THEN [p EXCEPT !.cancelled = TRUE] ELSE p : p \in m.posts }
  <1>1. CancelTask(m, task) = [m EXCEPT !.posts = x]
    BY DEF CancelTask
  <1> HIDE DEF x
  <1> QED BY <1>1 DEF Shrinks, IsManager

LEMMA NextShrinks ==
  ASSUME NEW m, IsManager(m), NEW ranges
  PROVE  Shrinks(m, ScheduleNextPaint(m, ranges))
  <1> DEFINE merged == WithRemaining(m, WithMissing(m, ranges))
             next == IF merged = NoTask THEN NoTask ELSE MergeWith(m, merged, <<>>)
             current == m.current_task
             scrolled == /\ next # NoTask /\ current # NoTask
                         /\ ~IsSameTask(current, next)
                         /\ current.y_pos # next.y_pos
             settled == IF scrolled THEN CancelTask(m, current) ELSE m
             ready == [settled EXCEPT !.current_task = next, !.next_task = NoTask]
  <1>1. ScheduleNextPaint(m, ranges) = PostCurrentTask(ready)
    BY DEF ScheduleNextPaint, ReplaceCurrent
  <1> HIDE DEF next, current, scrolled
  <1>2. Shrinks(m, settled)
    BY CancelShrinks, ShrinksRefl
  <1> HIDE DEF settled
  <1>3. Shrinks(settled, ready)
    BY <1>2 DEF Shrinks, IsManager
  <1> HIDE DEF ready
  <1>4. Shrinks(ready, PostCurrentTask(ready))
    BY <1>3, PostShrinks DEF Shrinks
  <1> QED BY <1>1, <1>2, <1>3, <1>4, ShrinksTrans

LEMMA ScheduleShrinks ==
  ASSUME NEW m, IsManager(m), NEW y_pos, NEW height, NEW scale, NEW ranges
  PROVE  Shrinks(m, SchedulePaint(m, y_pos, height, scale, ranges))
  <1>1. CASE m.current_task = NoTask
    <2> DEFINE x == Task(m, y_pos, height, scale, ranges)
               n == [m EXCEPT !.current_task = x]
    <2>1. SchedulePaint(m, y_pos, height, scale, ranges) = PostCurrentTask(n)
      BY <1>1 DEF SchedulePaint
    <2> HIDE DEF x
    <2>2. Shrinks(m, n)
      BY DEF Shrinks, IsManager
    <2> HIDE DEF n
    <2>3. Shrinks(n, PostCurrentTask(n))
      BY <2>2, PostShrinks DEF Shrinks
    <2> QED BY <2>1, <2>2, <2>3, ShrinksTrans
  <1>2. CASE m.current_task # NoTask
    <2> DEFINE joined == IF m.next_task = NoTask THEN ranges
                         ELSE ranges \o m.next_task.tile_ranges \o m.current_task.tile_ranges
               x == Task(m, y_pos, height, scale, SimplifyRanges(joined))
               n == [m EXCEPT !.next_task = x]
    <2>1. SchedulePaint(m, y_pos, height, scale, ranges) = ScheduleNextPaint(n, <<>>)
      BY <1>2 DEF SchedulePaint
    <2> HIDE DEF x
    <2>2. Shrinks(m, n)
      BY DEF Shrinks, IsManager
    <2> HIDE DEF n
    <2>3. Shrinks(n, ScheduleNextPaint(n, <<>>))
      BY <2>2, NextShrinks DEF Shrinks
    <2> QED BY <2>1, <2>2, <2>3, ShrinksTrans
  <1> QED BY <1>1, <1>2

LEMMA ResumeShrinks ==
  ASSUME NEW m, IsManager(m), NEW paint_next \in BOOLEAN
  PROVE  Shrinks(m, ResumePaint(m, paint_next)) /\ Shrinks(m, PausePaint(m))
  <1> DEFINE n == [m EXCEPT !.skip_render = FALSE]
             o == IF n.current_task # NoTask THEN n
                  ELSE [n EXCEPT !.current_task = m.next_task, !.next_task = NoTask]
  <1>1. Shrinks(m, PausePaint(m))
    BY DEF PausePaint, Shrinks, IsManager
  <1>2. ResumePaint(m, paint_next) = IF ~paint_next THEN n ELSE PostCurrentTask(o)
    BY DEF ResumePaint
  <1>3. Shrinks(m, n)
    BY DEF Shrinks, IsManager
  <1> HIDE DEF n
  <1>4. Shrinks(n, o)
    BY <1>3, ShrinksRefl DEF Shrinks, IsManager
  <1> HIDE DEF o
  <1>5. Shrinks(o, PostCurrentTask(o))
    BY <1>4, PostShrinks DEF Shrinks
  <1>6. Shrinks(m, PostCurrentTask(o))
    BY <1>3, <1>4, <1>5, ShrinksTrans
  <1> QED BY <1>1, <1>2, <1>3, <1>6

LEMMA InvalidateShrinks ==
  ASSUME NEW m, IsManager(m), NEW y, NEW height
  PROVE  /\ Shrinks(m, InvalidateRows(m, y, height))
         /\ InvalidateRows(m, y, height).buffer.valid =
               m.buffer.valid \ TilesIn(RangeOfRows(m, y, height))
  BY DEF InvalidateRows, RangeOfRows, Shrinks, IsManager

LEMMA InAreaShrinks ==
  ASSUME NEW m, IsManager(m), NEW range, NEW height
  PROVE  Shrinks(m, ScheduleInArea(m, range, height))
  <1> DEFINE y == scroll_y_position
             ranges == << ClipRange(range, LimitIndex(1, y, height)) >>
  <1>1. \/ ScheduleInArea(m, range, height) = m
        \/ ScheduleInArea(m, range, height) = SchedulePaint(m, y, height, zoom, ranges)
    BY DEF ScheduleInArea
  <1> HIDE DEF ranges
  <1> QED BY <1>1, ScheduleShrinks, ShrinksRefl

LEMMA AvailableShrinks ==
  ASSUME NEW m, IsManager(m), NEW invalidate \in BOOLEAN, NEW height
  PROVE  Shrinks(m, ScheduleAvailableAreaPaint(m, invalidate, height))
  <1> DEFINE n == IF invalidate THEN InvalidateRows(m, scroll_y_position, height) ELSE m
             range == RangeOfRows(m, scroll_y_position, height)
  <1>1. \/ ScheduleAvailableAreaPaint(m, invalidate, height) = m
        \/ ScheduleAvailableAreaPaint(m, invalidate, height) = ScheduleInArea(n, range, height)
    BY DEF ScheduleAvailableAreaPaint
  <1>2. Shrinks(m, n)
    BY InvalidateShrinks, ShrinksRefl
  <1> HIDE DEF n, range
  <1>3. Shrinks(n, ScheduleInArea(n, range, height))
    BY <1>2, InAreaShrinks DEF Shrinks
  <1> QED BY <1>1, <1>2, <1>3, ShrinksRefl, ShrinksTrans
-----------------------------------------------------------------------------
(* Valid tiles are current.                                                *)

PluginTypes ==
    /\ IsManager(pm) /\ zoom \in Zooms /\ doc_rows \in DocRows
    /\ pm.buffer.rows \in Nat /\ pm.buffer.scale \in Zooms
    /\ \A t \in pm.buffer.valid : t \in Int => t <= pm.buffer.rows - 1
    /\ reports \subseteq Nat \cup {Empty, EmptyPage}
    /\ "reset" \notin owed => reports \subseteq Nat
PluginInvariant == PluginTypes /\ ValidTilesAreCurrent

LEMMA Numbers == Zooms \subseteq Nat \ {0} /\ DocRows \subseteq Nat \ {0} /\ TileSizePx = 1
  BY PluginAssumption

LEMMA PluginInit == MCInit => PluginInvariant
  <1> SUFFICES ASSUME MCInit PROVE PluginInvariant
    OBVIOUS
  <1>1. /\ zoom \in Zooms /\ doc_rows \in DocRows /\ reports = {}
        /\ pm = Manager(Buffer(zoom, doc_rows * zoom, 0))
    BY DEF MCInit, Init
  <1>2. doc_rows * zoom \in Nat
    BY <1>1, Numbers
  <1>3. /\ IsManager(pm) /\ pm.buffer.rows = doc_rows * zoom /\ pm.buffer.scale = zoom
        /\ pm.buffer.valid = {}
    BY <1>1 DEF IsManager, Manager, Buffer
  <1> QED BY <1>1, <1>2, <1>3 DEF PluginInvariant, PluginTypes, ValidTilesAreCurrent

\* Bits are cleared, and nothing else that matters changes.
LEMMA ShrinkKeeps ==
  ASSUME PluginInvariant, Shrinks(pm, pm'), zoom' \in Zooms, doc_rows' \in DocRows,
         reports' = reports, "reset" \in owed => "reset" \in owed'
  PROVE  PluginInvariant'
  <1>1. PluginTypes'
    BY DEF PluginInvariant, PluginTypes, Shrinks
  <1>2. ValidTilesAreCurrent'
    BY DEF PluginInvariant, ValidTilesAreCurrent, TilesOfRow, Shrinks
  <1> QED BY <1>1, <1>2 DEF PluginInvariant

\* All bits are cleared, for a new size or a new scale.
LEMMA ClearKeeps ==
  ASSUME PluginInvariant, IsManager(pm'), pm'.buffer.valid = {}, pm'.buffer.rows \in Nat,
         pm'.buffer.scale \in Zooms, zoom' \in Zooms, doc_rows' \in DocRows, reports' = reports,
         "reset" \in owed => "reset" \in owed'
  PROVE  PluginInvariant'
  BY DEF PluginInvariant, PluginTypes, ValidTilesAreCurrent

LEMMA ResetScaleFacts ==
  ASSUME NEW m, IsManager(m), doc_rows \in DocRows, NEW scale \in Zooms
  PROVE  \/ ResetScale(m, scale) = m
         \/ /\ IsManager(ResetScale(m, scale)) /\ ResetScale(m, scale).buffer.valid = {}
            /\ ResetScale(m, scale).buffer.rows \in Nat
            /\ ResetScale(m, scale).buffer.scale = scale
  <1>1. doc_rows * scale \in Nat
    BY Numbers
  <1> DEFINE rows == doc_rows * scale
             n == Resize(m, rows)
  <1> HIDE DEF rows
  <1>2. IsManager(n) /\ n.buffer.valid = {} /\ n.buffer.rows = rows
    BY DEF Resize, IsManager
  <1>3. ResetScale(m, scale) = IF m.buffer.scale = scale THEN m
                               ELSE [n EXCEPT !.buffer.scale = scale, !.buffer.context = NoContext]
    BY DEF ResetScale, rows
  <1> HIDE DEF n
  <1>4. CASE m.buffer.scale # scale
    <2>1. ResetScale(m, scale) = [n EXCEPT !.buffer.scale = scale, !.buffer.context = NoContext]
      BY <1>3, <1>4
    <2> DEFINE o == [n EXCEPT !.buffer.scale = scale, !.buffer.context = NoContext]
    <2>2. IsManager(o) /\ o.buffer.valid = {} /\ o.buffer.rows = rows /\ o.buffer.scale = scale
      BY <1>2 DEF IsManager
    <2> HIDE DEF o
    <2>3. rows \in Nat
      BY <1>1 DEF rows
    <2> QED BY <2>1, <2>2, <2>3 DEF o
  <1> QED BY <1>3, <1>4

LEMMA PaintScaledKeeps ==
  ASSUME PluginInvariant, PaintScaled, UNCHANGED owed
  PROVE  PluginInvariant'
  <1>0. PluginTypes
    BY DEF PluginInvariant
  <1> DEFINE paused == IF update_debounce_timer # "none" /\ ~scrolling THEN PausePaint(pm) ELSE pm
             n == ResetScale(paused, zoom)
  <1>1. pm' = ScheduleAvailableAreaPaint(n, TRUE, available_height) /\ UNCHANGED <<zoom, doc_rows, reports>>
    BY DEF PaintScaled
  <1>2. Shrinks(pm, paused)
    BY <1>0, ShrinksRefl, ResumeShrinks DEF PluginTypes
  <1> HIDE DEF paused
  <1>3. \/ n = paused
        \/ IsManager(n) /\ n.buffer.valid = {} /\ n.buffer.rows \in Nat /\ n.buffer.scale = zoom
    BY <1>0, <1>2, ResetScaleFacts DEF PluginTypes, Shrinks
  <1> HIDE DEF n
  <1>4. Shrinks(n, pm')
    BY <1>1, <1>2, <1>3, AvailableShrinks DEF Shrinks
  <1>5. CASE n = paused
    <2>1. Shrinks(pm, pm')
      BY <1>2, <1>4, <1>5, ShrinksTrans
    <2> QED BY <1>0, <1>1, <2>1, ShrinkKeeps DEF PluginTypes
  <1>6. CASE n # paused
    <2>1. /\ IsManager(pm') /\ pm'.buffer.valid = {} /\ pm'.buffer.rows \in Nat
          /\ pm'.buffer.scale \in Zooms
      BY <1>0, <1>3, <1>4, <1>6 DEF Shrinks, PluginTypes
    <2> QED BY <1>0, <1>1, <2>1, ClearKeeps DEF PluginTypes
  <1> QED BY <1>5, <1>6

LEMMA PaintKeeps ==
  ASSUME PluginInvariant, Paint, UNCHANGED owed
  PROVE  PluginInvariant'
  <1>0. PluginTypes
    BY DEF PluginInvariant
  <1> DEFINE paused == IF update_debounce_timer # "none" /\ ~scrolling THEN PausePaint(pm) ELSE pm
             ranges == Missing
             n == ScheduleNextPaint(paused, ranges)
  <1>1. /\ pm' = ScheduleAvailableAreaPaint(n, TRUE, available_height) \/ pm' = n
        /\ UNCHANGED <<zoom, doc_rows, reports>>
    BY DEF Paint
  <1> HIDE DEF ranges
  <1>2. Shrinks(pm, paused)
    BY <1>0, ShrinksRefl, ResumeShrinks DEF PluginTypes
  <1> HIDE DEF paused
  <1>3. Shrinks(paused, n)
    BY <1>2, NextShrinks DEF Shrinks
  <1> HIDE DEF n
  <1>4. Shrinks(n, pm')
    <2>1. IsManager(n)
      BY <1>3 DEF Shrinks
    <2>2. CASE pm' = n
      BY <2>1, <2>2, ShrinksRefl
    <2>3. CASE pm' # n
      BY <1>1, <2>1, <2>3, AvailableShrinks
    <2> QED BY <2>2, <2>3
  <1>5. Shrinks(pm, pm')
    BY <1>2, <1>3, <1>4, ShrinksTrans
  <1> QED BY <1>0, <1>1, <1>5, ShrinkKeeps DEF PluginTypes

\* The range of a row of the document holds all of its tiles there are.
LEMMA RowIsCovered ==
  ASSUME NEW rows \in Nat, NEW scale \in Nat \ {0}, NEW r \in Nat, NEW t \in Int, t <= rows - 1,
         t \in (r * scale)..((r + 1) * scale - 1)
  PROVE  t \in TilesIn(RangeInRect([x |-> 0, y |-> r * scale, width |-> 1, height |-> scale], 1, rows))
  <1> DEFINE top == r * scale
  <1>1. top \in Nat /\ (r + 1) * scale = top + scale
    OBVIOUS
  <1>2. t >= top /\ t <= top + scale - 1
    BY <1>1
  <1> HIDE DEF top
  <1> DEFINE bottom == IF top + scale < rows THEN top + scale ELSE rows
             rect == [x |-> 0, y |-> top, width |-> 1, height |-> scale]
  <1>3. top < bottom /\ bottom \in Nat
    BY <1>1, <1>2
  <1>4. CeilDiv(1, TileSizePx) = 1 /\ CeilDiv(rows, TileSizePx) = rows
        /\ CeilDiv(bottom, TileSizePx) = bottom /\ top \div TileSizePx = top
        /\ 0 \div TileSizePx = 0
    BY <1>1, <1>3, Numbers DEF CeilDiv
  <1>5. /\ Higher(rect.x, 0) = 0 /\ Higher(rect.y, 0) = top
        /\ Lower(rect.x + rect.width, 1) = 1
        /\ Lower(rect.y + rect.height, rows) = bottom
    BY <1>1 DEF Higher, Lower
  <1>6. TileRect(rect, 1, rows) = [x |-> 0, y |-> top, right |-> 1, bottom |-> bottom]
    BY <1>1, <1>3, <1>4, <1>5 DEF TileRect
  <1>7. RangeInRect(rect, 1, rows) = TileRange(top, IF bottom < rows - 1 THEN bottom ELSE rows - 1)
    BY <1>1, <1>3, <1>4, <1>6 DEF RangeInRect, CoordToIndex, Lower
  <1>8. t >= top /\ t <= bottom /\ t <= rows - 1
    BY <1>1, <1>2
  <1>9. t \in TilesIn(RangeInRect(rect, 1, rows))
    BY <1>3, <1>7, <1>8 DEF TilesIn, TileRange
  <1> QED BY <1>9 DEF top

LEMMA RectKeeps ==
  ASSUME PluginInvariant, NEW r \in reports, HandleInvalidateRect(r), UNCHANGED owed
  PROVE  PluginInvariant'
  <1>0. PluginTypes /\ ValidTilesAreCurrent
    BY DEF PluginInvariant
  <1> DEFINE scale == pm.buffer.scale
             y == r * scale
             range == RangeOfRows(pm, y, scale)
             n == InvalidateRows(pm, y, scale)
  <1>1. /\ pm' = ScheduleInArea(n, range, available_height)
        /\ UNCHANGED <<zoom, doc_rows>> /\ reports' = reports \ {r}
    BY DEF HandleInvalidateRect, pluginVars
  <1>2. r \in Nat
    BY <1>0 DEF PluginTypes, HandleInvalidateRect
  <1>3. Shrinks(pm, n) /\ n.buffer.valid = pm.buffer.valid \ TilesIn(range)
    BY <1>0, InvalidateShrinks DEF PluginTypes
  <1> HIDE DEF n
  <1>4. Shrinks(n, pm')
    BY <1>1, <1>3, InAreaShrinks DEF Shrinks
  <1>5. Shrinks(pm, pm') /\ pm'.buffer.valid \subseteq pm.buffer.valid \ TilesIn(range)
    BY <1>3, <1>4, ShrinksTrans DEF Shrinks
  <1>6. ASSUME NEW t \in pm.buffer.valid, t \in TilesOfRow(r) PROVE t \in TilesIn(range)
    <2>1. scale \in Nat \ {0} /\ pm.buffer.rows \in Nat
      BY <1>0, Numbers DEF PluginTypes
    <2>2. t \in (r * scale)..((r + 1) * scale - 1)
      BY <1>6 DEF TilesOfRow
    <2>3. t \in Int
      BY <2>2
    <2>4. t <= pm.buffer.rows - 1
      BY <1>0, <1>6, <2>3 DEF PluginTypes
    <2> QED BY <1>2, <2>1, <2>2, <2>3, <2>4, RowIsCovered DEF RangeOfRows
  <1> HIDE DEF range
  <1>7. PluginTypes'
    BY <1>0, <1>1, <1>5 DEF PluginTypes, Shrinks
  <1>8. ValidTilesAreCurrent'
    BY <1>0, <1>1, <1>5, <1>6 DEF ValidTilesAreCurrent, TilesOfRow, Shrinks
  <1> QED BY <1>7, <1>8 DEF PluginInvariant

\* A tile that is painted becomes valid and current at once.
LEMMA PaintTileFacts ==
  ASSUME NEW B, DOMAIN B = {"scale", "rows", "y_pos", "context", "valid", "resident", "fresh"},
         B.rows \in Nat, NEW tile, NEW context, NEW cancelled, NEW b,
         b = PaintTile(B, tile, context, cancelled).buffer
  PROVE  /\ DOMAIN b = DOMAIN B /\ b.rows = B.rows /\ b.scale = B.scale
         /\ B.fresh \subseteq b.fresh
         /\ b.valid \subseteq B.valid \cup {tile}
         /\ b.valid \ b.fresh \subseteq B.valid \ B.fresh
         /\ tile \in b.valid \ B.valid /\ tile \in Int => tile <= B.rows - 1
  <1>1. CASE B.context # context \/ tile > B.rows - 1
    <2>1. b = [B EXCEPT !.valid = {}]
      BY <1>1 DEF PaintTile
    <2>2. /\ DOMAIN b = DOMAIN B /\ b.rows = B.rows /\ b.scale = B.scale /\ b.fresh = B.fresh
          /\ b.valid = {}
      BY <2>1
    <2> QED BY <2>2
  <1>2. CASE ~(B.context # context \/ tile > B.rows - 1) /\ ~cancelled /\ tile \notin B.valid
    <2>1. b = [B EXCEPT !.resident = @ \cup {tile}, !.valid = @ \cup {tile}, !.fresh = @ \cup {tile}]
      BY <1>2 DEF PaintTile
    <2>2. tile \in Int => tile <= B.rows - 1
      BY <1>2
    <2>3. /\ DOMAIN b = DOMAIN B /\ b.rows = B.rows /\ b.scale = B.scale
          /\ b.fresh = B.fresh \cup {tile} /\ b.valid = B.valid \cup {tile}
      BY <2>1
    <2> QED BY <2>2, <2>3
  <1>3. CASE ~(B.context # context \/ tile > B.rows - 1) /\ ~(~cancelled /\ tile \notin B.valid)
    <2>1. b = [B EXCEPT !.resident = @ \cup {tile}]
      BY <1>3 DEF PaintTile
    <2>2. /\ DOMAIN b = DOMAIN B /\ b.rows = B.rows /\ b.scale = B.scale /\ b.fresh = B.fresh
          /\ b.valid = B.valid
      BY <2>1
    <2> QED BY <2>2
  <1> QED BY <1>1, <1>2, <1>3

LEMMA WorkKeeps ==
  ASSUME PluginInvariant, NEW post, NEW job, Work(post, job), UNCHANGED owed
  PROVE  PluginInvariant'
  <1>0. PluginTypes /\ ValidTilesAreCurrent
    BY DEF PluginInvariant
  <1> DEFINE tile == job.index_start
             paint == PaintTile(pm.buffer, tile, post.context, post.cancelled)
             rest  == IF paint.result /\ tile < job.index_end
                      THEN {TileRange(tile + 1, job.index_end)} ELSE {}
             later == [post EXCEPT !.jobs = (@ \ {job}) \cup rest, !.left = @ - 1]
             kept  == { p \in {later} : p.jobs # {} \/ p.left = 0 }
             b == paint.buffer
             posts == (pm.posts \ {post}) \cup kept
  <1>1. pm' = [pm EXCEPT !.buffer = b, !.posts = posts] /\ UNCHANGED <<zoom, doc_rows, reports>>
    BY DEF Work, VisitTile, pluginVars
  <1>a. b = PaintTile(pm.buffer, tile, post.context, post.cancelled).buffer
    OBVIOUS
  <1> HIDE DEF b, posts, tile
  <1>2. /\ DOMAIN b = DOMAIN pm.buffer /\ b.rows = pm.buffer.rows /\ b.scale = pm.buffer.scale
        /\ pm.buffer.fresh \subseteq b.fresh
        /\ b.valid \subseteq pm.buffer.valid \cup {tile}
        /\ b.valid \ b.fresh \subseteq pm.buffer.valid \ pm.buffer.fresh
        /\ tile \in b.valid \ pm.buffer.valid /\ tile \in Int => tile <= pm.buffer.rows - 1
    <2> DEFINE B == pm.buffer
    <2>1. /\ DOMAIN B = {"scale", "rows", "y_pos", "context", "valid", "resident", "fresh"}
          /\ B.rows \in Nat
      BY <1>0 DEF PluginTypes, IsManager
    <2>2. b = PaintTile(B, tile, post.context, post.cancelled).buffer
      BY <1>a
    <2> HIDE DEF B
    <2>3. /\ DOMAIN b = DOMAIN B /\ b.rows = B.rows /\ b.scale = B.scale
          /\ B.fresh \subseteq b.fresh
          /\ b.valid \subseteq B.valid \cup {tile}
          /\ b.valid \ b.fresh \subseteq B.valid \ B.fresh
          /\ tile \in b.valid \ B.valid /\ tile \in Int => tile <= B.rows - 1
      BY <2>1, <2>2, PaintTileFacts
    <2> QED BY <2>3 DEF B
  <1>3. IsManager(pm') /\ pm'.buffer = b
    BY <1>0, <1>1, <1>2 DEF PluginTypes, IsManager
  <1>4. PluginTypes'
    BY <1>0, <1>1, <1>2, <1>3 DEF PluginTypes
  <1>5. ValidTilesAreCurrent'
    BY <1>0, <1>1, <1>2, <1>3 DEF ValidTilesAreCurrent, TilesOfRow
  <1> QED BY <1>4, <1>5 DEF PluginInvariant

LEMMA EditRowKeeps ==
  ASSUME PluginInvariant, NEW r \in 0..(doc_rows - 1), EditRow(r), UNCHANGED owed
  PROVE  PluginInvariant'
  <1>0. PluginTypes /\ ValidTilesAreCurrent
    BY DEF PluginInvariant
  <1>1. /\ pm' = [pm EXCEPT !.buffer.fresh = @ \ TilesOfRow(r)]
        /\ reports' = reports \cup {r} /\ UNCHANGED <<zoom, doc_rows>>
    BY DEF EditRow, pluginVars
  <1> DEFINE row == TilesOfRow(r)
  <1>2. \A q : TilesOfRow(q)' = (q * pm'.buffer.scale)..((q + 1) * pm'.buffer.scale - 1)
    BY DEF TilesOfRow
  <1>3. /\ IsManager(pm') /\ pm'.buffer.rows = pm.buffer.rows /\ pm'.buffer.scale = pm.buffer.scale
        /\ pm'.buffer.valid = pm.buffer.valid /\ pm'.buffer.fresh = pm.buffer.fresh \ row
    <2> HIDE DEF row
    <2>1. pm' = [pm EXCEPT !.buffer.fresh = @ \ row]
      BY <1>1 DEF row
    <2> QED BY <1>0, <2>1 DEF PluginTypes, IsManager
  <1>4. r \in Nat
    BY <1>0, Numbers DEF PluginTypes
  <1>5. PluginTypes'
    BY <1>0, <1>1, <1>3, <1>4 DEF PluginTypes
  <1>6. ValidTilesAreCurrent'
    BY <1>0, <1>1, <1>3 DEF ValidTilesAreCurrent, TilesOfRow
  <1> QED BY <1>5, <1>6 DEF PluginInvariant

\* A full invalidation is reported: nothing is promised any more.
LEMMA ExcusedKeeps ==
  ASSUME PluginTypes, IsManager(pm'), "reset" \in owed', zoom' = zoom, doc_rows' = doc_rows,
         pm'.buffer.rows = pm.buffer.rows, pm'.buffer.scale = pm.buffer.scale,
         pm'.buffer.valid \subseteq pm.buffer.valid,
         reports' \subseteq reports \cup {Empty, EmptyPage}
  PROVE  PluginInvariant'
  BY DEF PluginInvariant, PluginTypes, ValidTilesAreCurrent

LEMMA EditAllKeeps ==
  ASSUME PluginInvariant, NEW report \in {Empty, EmptyPage}, EditAll(report), "reset" \in owed'
  PROVE  PluginInvariant'
  <1>0. PluginTypes
    BY DEF PluginInvariant
  <1>1. /\ pm' = [pm EXCEPT !.buffer.fresh = {}]
        /\ reports' = reports \cup {report} /\ UNCHANGED <<zoom, doc_rows>>
    BY DEF EditAll, pluginVars
  <1>2. /\ IsManager(pm') /\ pm'.buffer.rows = pm.buffer.rows /\ pm'.buffer.scale = pm.buffer.scale
        /\ pm'.buffer.valid = pm.buffer.valid
    BY <1>0, <1>1 DEF PluginTypes, IsManager
  <1> QED BY <1>0, <1>1, <1>2, ExcusedKeeps

LEMMA EmptyKeeps ==
  ASSUME PluginInvariant, NEW r \in reports, UNCHANGED owed,
         HandleInvalidateEmpty(r) \/ IgnoreInvalidateEmpty(r)
  PROVE  PluginInvariant'
  <1>0. PluginTypes
    BY DEF PluginInvariant
  <1>1. r \in {Empty, EmptyPage} /\ reports' = reports \ {r} /\ UNCHANGED <<zoom, doc_rows>>
        /\ (pm' = pm \/ pm' = ScheduleAvailableAreaPaint(pm, TRUE, available_height))
    BY DEF HandleInvalidateEmpty, IgnoreInvalidateEmpty, pluginVars
  <1>2. "reset" \in owed'
    BY <1>0, <1>1 DEF PluginTypes, Empty, EmptyPage
  <1>3. Shrinks(pm, pm')
    BY <1>0, <1>1, ShrinksRefl, AvailableShrinks DEF PluginTypes
  <1> QED BY <1>0, <1>1, <1>2, <1>3, ExcusedKeeps DEF Shrinks

LEMMA ScrollKeeps ==
  ASSUME PluginInvariant, NEW y_position, UpdateScroll(y_position), UNCHANGED owed
  PROVE  PluginInvariant'
  <1>0. PluginTypes
    BY DEF PluginInvariant
  <1> DEFINE y == Lower(y_position, Higher(doc_rows * zoom - view_height, 0))
             ranges == << NextScrollTileRange(1, pm.buffer.rows, y, view_height) >>
             n == [pm EXCEPT !.buffer.y_pos = y]
             moved == ResumePaint(n, FALSE)
  <1>1. /\ pm' = SchedulePaint(moved, y, view_height, zoom, ranges)
        /\ UNCHANGED <<zoom, doc_rows, reports>>
    BY DEF UpdateScroll
  <1> HIDE DEF y, ranges
  <1>2. Shrinks(pm, n)
    BY <1>0 DEF PluginTypes, Shrinks, IsManager
  <1> HIDE DEF n
  <1>3. Shrinks(n, moved)
    BY <1>2, ResumeShrinks DEF Shrinks
  <1> HIDE DEF moved
  <1>4. Shrinks(moved, pm')
    BY <1>1, <1>3, ScheduleShrinks DEF Shrinks
  <1>5. Shrinks(pm, pm')
    BY <1>2, <1>3, <1>4, ShrinksTrans
  <1> QED BY <1>0, <1>1, <1>5, ShrinkKeeps DEF PluginTypes

LEMMA ViewportKeeps ==
  ASSUME PluginInvariant, NEW height, OnViewportChanged(height),
         "reset" \in owed => "reset" \in owed'
  PROVE  PluginInvariant'
  <1>0. PluginTypes
    BY DEF PluginInvariant
  <1>1. /\ \/ pm' = pm
           \/ pm' = ScheduleAvailableAreaPaint(pm, FALSE, AvailableHeight(height))
        /\ UNCHANGED <<zoom, doc_rows, reports>>
    BY DEF OnViewportChanged
  <1>2. Shrinks(pm, pm')
    BY <1>0, <1>1, AvailableShrinks, ShrinksRefl DEF PluginTypes
  <1> QED BY <1>0, <1>1, <1>2, ShrinkKeeps DEF PluginTypes

LEMMA SizeKeeps ==
  ASSUME PluginInvariant, NEW rows \in DocRows, HandleDocumentSizeChanged(rows),
         "reset" \in owed => "reset" \in owed'
  PROVE  PluginInvariant'
  <1>0. PluginTypes
    BY DEF PluginInvariant
  <1> DEFINE all == rows * pm.buffer.scale
  <1>1. pm' = Resize(pm, all) /\ doc_rows' = rows /\ UNCHANGED <<zoom, reports>>
    BY DEF HandleDocumentSizeChanged, pluginVars
  <1>2. all \in Nat
    <2>1. rows \in Nat /\ pm.buffer.scale \in Nat
      BY <1>0, Numbers DEF PluginTypes
    <2> QED BY <2>1
  <1> HIDE DEF all
  <1>3. /\ IsManager(pm') /\ pm'.buffer.valid = {} /\ pm'.buffer.rows = all
        /\ pm'.buffer.scale = pm.buffer.scale
    BY <1>0, <1>1 DEF PluginTypes, IsManager, Resize
  <1> QED BY <1>0, <1>1, <1>2, <1>3, ClearKeeps DEF PluginTypes

\* The steps that change the manager's tasks, posts and context at most.
LEMMA OthersKeep ==
  ASSUME PluginInvariant, "reset" \in owed => "reset" \in owed',
         \/ TryResumePaint \/ DebouncedResumePaint \/ TenMillisecondsPass
         \/ Expose \/ DebounceUpdates \/ StopDebouncing \/ InvalidateAllTiles
         \/ \E z \in Zooms : SetZoom(z)
         \/ \E post \in pm.posts : BarrierCheck(post) \/ BarrierCall(post)
  PROVE  PluginInvariant'
  <1>0. PluginTypes /\ IsManager(pm)
    BY DEF PluginInvariant, PluginTypes
  <1>1. CASE TryResumePaint \/ TenMillisecondsPass \/ Expose \/ StopDebouncing
    <2>1. UNCHANGED <<pm, zoom, doc_rows, reports>>
      BY <1>1 DEF TryResumePaint, TenMillisecondsPass, Expose, StopDebouncing, pluginVars
    <2>2. Shrinks(pm, pm')
      BY <1>0, <2>1, ShrinksRefl
    <2> QED BY <1>0, <2>1, <2>2, ShrinkKeeps DEF PluginTypes
  <1>2. CASE DebouncedResumePaint \/ DebounceUpdates
    <2>1. UNCHANGED <<zoom, doc_rows, reports>> /\ (pm' = ResumePaint(pm, TRUE) \/ pm' = PausePaint(pm))
      BY <1>2 DEF DebouncedResumePaint, DebounceUpdates, pluginVars
    <2>2. Shrinks(pm, pm')
      BY <1>0, <2>1, ResumeShrinks
    <2> QED BY <1>0, <2>1, <2>2, ShrinkKeeps DEF PluginTypes
  <1>3. CASE InvalidateAllTiles
    <2>1. UNCHANGED <<zoom, doc_rows, reports>>
          /\ pm' = [pm EXCEPT !.buffer.context = NoContext, !.buffer.valid = {}]
      BY <1>3 DEF InvalidateAllTiles, pluginVars
    <2>2. Shrinks(pm, pm')
      BY <1>0, <2>1 DEF Shrinks, IsManager
    <2> QED BY <1>0, <2>1, <2>2, ShrinkKeeps DEF PluginTypes
  <1>4. ASSUME NEW z \in Zooms, SetZoom(z) PROVE PluginInvariant'
    <2>1. UNCHANGED <<doc_rows, reports>> /\ zoom' \in Zooms
          /\ pm' = [pm EXCEPT !.buffer.context = NoContext]
      BY <1>4 DEF SetZoom
    <2>2. Shrinks(pm, pm')
      BY <1>0, <2>1 DEF Shrinks, IsManager
    <2> QED BY <1>0, <2>1, <2>2, ShrinkKeeps DEF PluginTypes
  <1>5. ASSUME NEW post \in pm.posts, BarrierCheck(post) \/ BarrierCall(post) PROVE PluginInvariant'
    <2>1. UNCHANGED <<zoom, doc_rows, reports>>
          /\ (pm' = CompletedCheck(pm, post) \/ pm' = CompletedCall(pm, post))
      BY <1>5 DEF BarrierCheck, BarrierCall, pluginVars
    <2>2. Shrinks(pm, CompletedCall(pm, post))
      BY <1>0 DEF Shrinks, IsManager, CompletedCall
    <2> DEFINE x == (pm.posts \ {post}) \cup
                        { p \in {[post EXCEPT !.calling = TRUE]} : ~post.silenced /\ ~post.cancelled }
    <2>3. CompletedCheck(pm, post) = [pm EXCEPT !.posts = x]
      BY DEF CompletedCheck
    <2> HIDE DEF x
    <2>4. Shrinks(pm, CompletedCheck(pm, post))
      BY <1>0, <2>3 DEF Shrinks, IsManager
    <2>5. Shrinks(pm, pm')
      BY <2>1, <2>2, <2>4
    <2> QED BY <1>0, <2>1, <2>5, ShrinkKeeps DEF PluginTypes
  <1> QED BY <1>1, <1>2, <1>3, <1>4, <1>5

LEMMA PluginStep == PluginInvariant /\ MCNext => PluginInvariant'
  <1> SUFFICES ASSUME PluginInvariant, MCNext PROVE PluginInvariant'
    OBVIOUS
  <1>0. "reset" \in owed => "reset" \in owed'
    BY DEF MCNext
  <1>1. CASE (Handlers \/ Pool \/ ScrollOrEdit \/ StopDebouncing) /\ owed' = owed
    <2>1. CASE Handlers
      BY <1>0, <1>1, <2>1, PaintScaledKeeps, PaintKeeps, RectKeeps, EmptyKeeps, OthersKeep DEF Handlers
    <2>2. CASE Pool
      BY <1>0, <1>1, <2>2, WorkKeeps, OthersKeep DEF Pool
    <2>3. CASE ScrollOrEdit
      BY <1>1, <2>3, ScrollKeeps, EditRowKeeps DEF ScrollOrEdit
    <2>4. CASE StopDebouncing
      BY <1>0, <2>4, OthersKeep
    <2> QED BY <1>1, <2>1, <2>2, <2>3, <2>4
  <1>2. CASE InvalidateAllTiles \/ Expose \/ DebounceUpdates \/ \E z \in Zooms : SetZoom(z)
    BY <1>0, <1>2, OthersKeep
  <1>3. ASSUME NEW d \in DocRows, HandleDocumentSizeChanged(d) PROVE PluginInvariant'
    BY <1>0, <1>3, SizeKeeps
  <1>4. ASSUME NEW report \in {Empty, EmptyPage}, EditAll(report), owed' = owed \cup {"reset"}
        PROVE  PluginInvariant'
    BY <1>4, EditAllKeeps
  <1>5. ASSUME NEW h, OnViewportChanged(h) PROVE PluginInvariant'
    BY <1>0, <1>5, ViewportKeeps
  <1> QED BY <1>1, <1>2, <1>3, <1>4, <1>5 DEF MCNext

LEMMA PluginStutter == PluginInvariant /\ UNCHANGED mcVars => PluginInvariant'
  BY DEF PluginInvariant, PluginTypes, ValidTilesAreCurrent, TilesOfRow, mcVars, vars, pluginVars

\* Whatever invalidations, zooms, resizes, pauses and late jobs do: a tile that
\* is marked valid shows the document as it is, or the callback that resets it
\* is still under way (OfficeWebPlugin::HandleInvalidateTiles,
\* TileBuffer::InvalidateTilesInTwipRect, PaintManager).
THEOREM PluginCorrect == MCSpec => []ValidTilesAreCurrent
  <1>1. PluginInvariant /\ [MCNext]_mcVars => PluginInvariant'
    BY PluginStep, PluginStutter
  <1>2. PluginInvariant => ValidTilesAreCurrent
    BY DEF PluginInvariant
  <1> QED BY <1>1, <1>2, PluginInit, PTL DEF MCSpec
-----------------------------------------------------------------------------
(* Tasks, posts and the buffer: what a task's ranges, a barrier's count and *)
(* the sets of tiles are like.                                             *)

GoodRanges(s) == s \in Seq(FullRanges) /\ TilesInAll(s) \subseteq Nat

GoodTask(t) ==
    t # NoTask => /\ GoodRanges(t.tile_ranges)
                  /\ t.y_pos \in Nat /\ t.view_height \in Nat /\ t.scale \in Zooms

\* The tiles that jobs still have to visit.
Ahead(jobs) == UNION { TilesIn(job) : job \in jobs }

\* No two jobs visit the same tile, and the barrier counts all of them.
GoodJobs(jobs, left) ==
    /\ \A j \in jobs : j \in FullRanges /\ j.index_start \in Nat
    /\ \A j, k \in jobs : j # k => TilesIn(j) \cap TilesIn(k) = {}
    /\ IsFiniteSet(Ahead(jobs))
    /\ left \in Int /\ left >= Cardinality(Ahead(jobs))

GoodPost(p) ==
    /\ DOMAIN p = {"id", "task", "context", "jobs", "left", "cancelled", "silenced", "calling"}
    /\ GoodJobs(p.jobs, p.left)

GoodBuffer(b) ==
    /\ DOMAIN b = {"scale", "rows", "y_pos", "context", "valid", "resident", "fresh"}
    /\ b.rows \in Nat \ {0} /\ b.y_pos \in Nat /\ b.scale \in Zooms
    /\ b.context \in Zooms \cup {NoContext}
    /\ b.valid \subseteq 0..(b.rows - 1) /\ b.resident \subseteq 0..(b.rows - 1)
    /\ b.fresh \subseteq 0..(b.rows - 1)

GoodManager(m) ==
    /\ DOMAIN m = {"current_task", "next_task", "skip_render", "posts", "buffer"}
    /\ GoodBuffer(m.buffer)
    /\ GoodTask(m.current_task) /\ GoodTask(m.next_task)
    /\ \A p \in m.posts : GoodPost(p)

LEMMA NoRangesGood == GoodRanges(<< >>)
  BY DEF GoodRanges, TilesInAll

LEMMA OneRangeGood ==
  ASSUME NEW r \in FullRanges, r.index_start \in Nat
  PROVE  GoodRanges(<< r >>)
  <1>1. << r >> \in Seq(FullRanges)
    OBVIOUS
  <1> DEFINE s == << r >>
  <1>2. s \in Seq(FullRanges) /\ Len(s) = 1 /\ s[1] = r
    BY <1>1
  <1> HIDE DEF s
  <1>3. \A x : x \in TilesInAll(s) => x \in Int /\ r.index_start <= x
    BY <1>2, InTilesInAll
  <1>4. \A x : x \in TilesInAll(s) => x \in Nat
    BY <1>3
  <1> QED BY <1>2, <1>4 DEF GoodRanges, s

LEMMA ConcatGood ==
  ASSUME NEW s, NEW t, GoodRanges(s), GoodRanges(t)
  PROVE  GoodRanges(s \o t)
  <1>1. s \in Seq(FullRanges) /\ t \in Seq(FullRanges) /\ s \o t \in Seq(FullRanges)
    BY DEF GoodRanges
  <1> DEFINE u == s \o t
  <1>2. /\ Len(u) = Len(s) + Len(t) /\ Len(s) \in Nat /\ Len(t) \in Nat
        /\ \A i \in 1..Len(u) : \/ i \in 1..Len(s) /\ u[i] = s[i]
                                \/ i - Len(s) \in 1..Len(t) /\ u[i] = t[i - Len(s)]
    BY <1>1
  <1> HIDE DEF u
  <1>3. ASSUME NEW x, x \in TilesInAll(u) PROVE x \in Nat
    <2>1. PICK i \in 1..Len(u) : x \in Int /\ u[i].index_start <= x /\ x <= u[i].index_end
      BY <1>1, <1>3, InTilesInAll DEF u
    <2>2. CASE i \in 1..Len(s) /\ u[i] = s[i]
      <3>1. x \in TilesInAll(s)
        BY <1>1, <2>1, <2>2, InTilesInAll
      <3> QED BY <3>1 DEF GoodRanges
    <2>3. CASE i - Len(s) \in 1..Len(t) /\ u[i] = t[i - Len(s)]
      <3> DEFINE j == i - Len(s)
      <3>0. j \in 1..Len(t) /\ u[i] = t[j]
        BY <2>3
      <3> HIDE DEF j
      <3>1. x \in TilesInAll(t)
        BY <1>1, <2>1, <3>0, InTilesInAll
      <3> QED BY <3>1 DEF GoodRanges
    <2> QED BY <1>2, <2>2, <2>3
  <1> QED BY <1>1, <1>3 DEF GoodRanges, u

LEMMA SimplifyGood ==
  ASSUME NEW s, GoodRanges(s)
  PROVE  GoodRanges(SimplifyRanges(s))
  BY SimplifyResult DEF GoodRanges

LEMMA ClipGood ==
  ASSUME NEW s, GoodRanges(s), NEW limit \in FullRanges
  PROVE  GoodRanges(ClipRanges(s, limit))
  BY ClipResult DEF GoodRanges

LEMMA RemainingGood ==
  ASSUME NEW s, GoodRanges(s), NEW size \in Int, NEW valid, NEW resident
  PROVE  GoodRanges(InvalidRangesRemaining(s, size, valid, resident))
  <1> DEFINE r == InvalidRangesRemaining(s, size, valid, resident)
  <1>1. /\ r \in Seq(FullRanges)
        /\ \A x : x \in TilesInAll(r) => x \in TilesInAll(s)
    BY RemainingResult DEF GoodRanges
  <1> HIDE DEF r
  <1>2. GoodRanges(r)
    BY <1>1 DEF GoodRanges
  <1> QED BY <1>2 DEF r

LEMMA LimitIsFull ==
  ASSUME NEW y \in Nat, NEW height \in Nat
  PROVE  LimitIndex(1, y, height) \in FullRanges /\ LimitIndex(1, y, height).index_start = y
  <1>1. y \div TileSizePx = y /\ CeilDiv(height, TileSizePx) = height
    BY Numbers DEF CeilDiv
  <1>2. LimitRows(y, height) = [start |-> y, end |-> y + height]
    BY <1>1 DEF LimitRows
  <1>3. LimitIndex(1, y, height) = TileRange(y, y + height)
    BY <1>2 DEF LimitIndex, CoordToIndex
  <1> QED BY <1>3 DEF FullRanges, TileRange

\* What a range has in common with a limit it is not outside of.
LEMMA ClippedIsFull ==
  ASSUME NEW range \in FullRanges, NEW limit \in FullRanges, ~Outside(range, limit),
         range.index_start \in Nat
  PROVE  ClipRange(range, limit) \in FullRanges /\ ClipRange(range, limit).index_start \in Nat
  <1> DEFINE a == range.index_start
             b == range.index_end
             c == limit.index_start
             d == limit.index_end
  <1>1. a \in Nat /\ b \in Int /\ c \in Int /\ d \in Int /\ a <= b /\ c <= d
    BY DEF FullRanges
  <1>2. ~(b < c \/ a > d)
    BY DEF Outside
  <1>3. ClipRange(range, limit) = TileRange(Higher(a, c), Lower(b, d))
    BY DEF ClipRange
  <1> HIDE DEF a, b, c, d
  <1>4. Higher(a, c) \in Nat /\ Lower(b, d) \in Int /\ Higher(a, c) <= Lower(b, d)
    BY <1>1, <1>2 DEF Higher, Lower
  <1> QED BY <1>3, <1>4 DEF FullRanges, TileRange

LEMMA BandIsFull ==
  ASSUME NEW m, m.buffer.rows \in Nat \ {0}, NEW y \in Nat, NEW height \in Nat
  PROVE  RangeOfRows(m, y, height) \in FullRanges /\ RangeOfRows(m, y, height).index_start \in Nat
  <1> DEFINE rows == m.buffer.rows
             rect == [x |-> 0, y |-> y, width |-> 1, height |-> height]
             bottom == IF y + height < rows THEN y + height ELSE rows
  <1>1. RangeOfRows(m, y, height) = RangeInRect(rect, 1, rows) /\ rows \in Nat \ {0}
    BY DEF RangeOfRows
  <1> HIDE DEF rows
  <1>2. /\ Higher(rect.x, 0) = 0 /\ Higher(rect.y, 0) = y
        /\ Lower(rect.x + rect.width, 1) = 1 /\ Lower(rect.y + rect.height, rows) = bottom
    BY <1>1 DEF Higher, Lower
  <1>3. CeilDiv(1, TileSizePx) = 1 /\ CeilDiv(rows, TileSizePx) = rows
        /\ CeilDiv(bottom, TileSizePx) = bottom /\ y \div TileSizePx = y
        /\ 0 \div TileSizePx = 0
    BY <1>1, Numbers DEF CeilDiv
  <1>4. CASE y >= bottom
    <2>1. TileRect(rect, 1, rows) = [x |-> 0, y |-> 0, right |-> 0, bottom |-> 0]
      BY <1>2, <1>4 DEF TileRect
    <2>2. RangeInRect(rect, 1, rows) = TileRange(0, 0)
      BY <1>1, <1>3, <2>1 DEF RangeInRect, CoordToIndex, Lower
    <2> QED BY <1>1, <2>2 DEF FullRanges, TileRange
  <1>5. CASE y < bottom
    <2>1. TileRect(rect, 1, rows) = [x |-> 0, y |-> y, right |-> 1, bottom |-> bottom]
      BY <1>1, <1>2, <1>3, <1>5 DEF TileRect
    <2>2. RangeInRect(rect, 1, rows) = TileRange(y, IF bottom < rows - 1 THEN bottom ELSE rows - 1)
      BY <1>1, <1>3, <2>1 DEF RangeInRect, CoordToIndex, Lower
    <2> QED BY <1>1, <1>5, <2>2 DEF FullRanges, TileRange
  <1> QED BY <1>1, <1>4, <1>5

LEMMA ScrollRangeIsFull ==
  ASSUME NEW rows \in Nat \ {0}, NEW y \in Nat, NEW height \in Nat
  PROVE  /\ NextScrollTileRange(1, rows, y, height) \in FullRanges
         /\ NextScrollTileRange(1, rows, y, height).index_start \in Nat
  <1> DEFINE top == Higher(0, y - height)
  <1>1. top \in Nat
    BY DEF Higher
  <1> HIDE DEF top
  <1>2. top \div TileSizePx = top /\ CeilDiv(height * 3, TileSizePx) = height * 3
    BY <1>1, Numbers DEF CeilDiv
  <1>3. LimitRows(top, height * 3) = [start |-> top, end |-> top + height * 3]
    BY <1>1, <1>2 DEF LimitRows
  <1> DEFINE a == Lower(top, rows - 1)
             b == Lower(top + height * 3, rows - 1)
  <1>4. a \in Nat /\ b \in Nat /\ a <= b /\ a <= rows - 1 /\ b <= rows - 1
    BY <1>1 DEF Lower
  <1>5. NextScrollTileRange(1, rows, y, height) = TileRange(Lower(a * 1, 1 * rows - 1), Lower(b * 1 + 1 - 1, 1 * rows - 1))
    BY <1>3 DEF NextScrollTileRange, top
  <1> HIDE DEF a, b
  <1>6. Lower(a * 1, 1 * rows - 1) = a /\ Lower(b * 1 + 1 - 1, 1 * rows - 1) = b
    BY <1>4 DEF Lower
  <1> QED BY <1>4, <1>5, <1>6 DEF FullRanges, TileRange
-----------------------------------------------------------------------------
(* The manager's operations keep it so. *)

LEMMA TaskGood ==
  ASSUME NEW m, NEW y \in Nat, NEW height \in Nat, NEW scale \in Zooms,
         NEW ranges, GoodRanges(ranges)
  PROVE  GoodTask(Task(m, y, height, scale, ranges))
  BY DEF GoodTask, Task

LEMMA MergeGood ==
  ASSUME NEW m, NEW task, GoodTask(task), task # NoTask, NEW ranges, GoodRanges(ranges)
  PROVE  GoodTask(MergeWith(m, task, ranges))
  <1> DEFINE limit == LimitIndex(1, task.y_pos, task.view_height)
             all == task.tile_ranges \o ranges
             clipped == ClipRanges(all, limit)
             simple == SimplifyRanges(clipped)
  <1>1. /\ GoodRanges(task.tile_ranges) /\ task.y_pos \in Nat /\ task.view_height \in Nat
        /\ task.scale \in Zooms
    BY DEF GoodTask
  <1>2. limit \in FullRanges
    BY <1>1, LimitIsFull
  <1> HIDE DEF limit
  <1>3. GoodRanges(all)
    BY <1>1, ConcatGood
  <1> HIDE DEF all
  <1>4. GoodRanges(clipped)
    BY <1>2, <1>3, ClipGood
  <1> HIDE DEF clipped
  <1>5. GoodRanges(simple)
    BY <1>4, SimplifyGood
  <1>6. MergeWith(m, task, ranges) = Task(m, task.y_pos, task.view_height, task.scale, simple)
    BY DEF MergeWith, simple, clipped, all, limit
  <1> HIDE DEF simple
  <1> QED BY <1>1, <1>5, <1>6, TaskGood

\* The jobs and the count that PostCurrentTask gives a post.
LEMMA PostedJobsGood ==
  ASSUME NEW s, GoodRanges(s)
  PROVE  GoodJobs(ToSet(SimplifyRanges(s)), TileCount(SimplifyRanges(s)))
  <1> DEFINE r == SimplifyRanges(s)
  <1>1. r \in Seq(FullRanges) /\ Apart(r) /\ TilesInAll(r) \subseteq Nat
    BY SimplifyResult DEF GoodRanges
  <1> HIDE DEF r
  <1>2. IsFiniteSet(TilesInAll(r)) /\ TileCount(r) = Cardinality(TilesInAll(r))
    BY <1>1, CountResult
  <1>3. /\ Len(r) \in Nat /\ DOMAIN r = 1..Len(r)
        /\ \A i \in 1..Len(r) : /\ r[i] \in FullRanges
                                /\ r[i].index_start \in Int /\ r[i].index_end \in Int
                                /\ r[i].index_start <= r[i].index_end
    BY <1>1 DEF FullRanges
  <1>4. ToSet(r) = { r[i] : i \in 1..Len(r) }
    BY <1>3 DEF ToSet
  <1>5. Ahead(ToSet(r)) = TilesInAll(r)
    BY <1>3, <1>4 DEF Ahead, TilesInAll
  <1>6. ASSUME NEW j \in ToSet(r) PROVE j \in FullRanges /\ j.index_start \in Nat
    <2>1. PICK i \in 1..Len(r) : j = r[i]
      BY <1>4
    <2>2. j.index_start \in TilesInAll(r)
      BY <1>1, <1>3, <2>1, InTilesInAll
    <2> QED BY <1>1, <1>3, <2>1, <2>2
  <1>7. ASSUME NEW j \in ToSet(r), NEW k \in ToSet(r), j # k PROVE TilesIn(j) \cap TilesIn(k) = {}
    <2>1. PICK i \in 1..Len(r) : j = r[i]
      BY <1>4
    <2>2. PICK h \in 1..Len(r) : k = r[h]
      BY <1>4
    <2>3. i < h \/ h < i
      BY <1>7, <2>1, <2>2
    <2>4. r[i].index_end < r[h].index_start \/ r[h].index_end < r[i].index_start
      BY <1>1, <2>3 DEF Apart
    <2>5. /\ j.index_start \in Int /\ j.index_end \in Int
          /\ k.index_start \in Int /\ k.index_end \in Int
          /\ j.index_end < k.index_start \/ k.index_end < j.index_start
      BY <1>3, <2>1, <2>2, <2>4
    <2> QED BY <2>5 DEF TilesIn
  <1>8. Cardinality(TilesInAll(r)) \in Nat
    BY <1>2, FS_CardinalityType
  <1>9. GoodJobs(ToSet(r), TileCount(r))
    BY <1>2, <1>5, <1>6, <1>7, <1>8 DEF GoodJobs
  <1> QED BY <1>9 DEF r

LEMMA PostGood == ASSUME NEW m, GoodManager(m) PROVE GoodManager(PostCurrentTask(m))
  <1>1. CASE m.skip_render \/ m.current_task = NoTask \/ m.buffer.rows = 0
    BY <1>1 DEF PostCurrentTask
  <1>2. CASE ~(m.skip_render \/ m.current_task = NoTask \/ m.buffer.rows = 0)
    <2> DEFINE ranges == SimplifyRanges(m.current_task.tile_ranges)
               jobs == ToSet(ranges)
               left == TileCount(ranges)
               id == Unused({ p.id : p \in m.posts })
               scale == m.current_task.scale
               post == [id |-> id, task |-> m.current_task.id, context |-> scale,
                        jobs |-> jobs, left |-> left,
                        cancelled |-> FALSE, silenced |-> FALSE, calling |-> FALSE]
               posts == m.posts \cup {post}
    <2>1. PostCurrentTask(m) = [m EXCEPT !.buffer.context = scale, !.posts = posts]
      BY <1>2 DEF PostCurrentTask
    <2>2. GoodRanges(m.current_task.tile_ranges) /\ scale \in Zooms
      BY <1>2 DEF GoodManager, GoodTask
    <2>3. GoodJobs(jobs, left)
      BY <2>2, PostedJobsGood
    <2> HIDE DEF jobs, left, id, scale
    <2>4. GoodPost(post)
      BY <2>3 DEF GoodPost
    <2> HIDE DEF post
    <2>5. \A p \in posts : GoodPost(p)
      BY <2>4 DEF GoodManager
    <2> HIDE DEF posts
    <2> DEFINE n == [m EXCEPT !.buffer.context = scale, !.posts = posts]
    <2>6. /\ DOMAIN n = {"current_task", "next_task", "skip_render", "posts", "buffer"}
          /\ n.posts = posts /\ n.current_task = m.current_task /\ n.next_task = m.next_task
          /\ n.buffer = [m.buffer EXCEPT !.context = scale]
      BY DEF GoodManager
    <2>7. GoodBuffer(n.buffer)
      BY <2>2, <2>6 DEF GoodBuffer, GoodManager
    <2>8. GoodManager(n)
      BY <2>5, <2>6, <2>7 DEF GoodManager
    <2> QED BY <2>1, <2>8
  <1> QED BY <1>1, <1>2

LEMMA CancelGood == ASSUME NEW m, GoodManager(m), NEW task PROVE GoodManager(CancelTask(m, task))
  <1> DEFINE x == { IF p.task = task.id THEN [p EXCEPT !.cancelled = TRUE] ELSE p : p \in m.posts }
  <1>1. CancelTask(m, task) = [m EXCEPT !.posts = x]
    BY DEF CancelTask
  <1>2. ASSUME NEW p, GoodPost(p) PROVE GoodPost([p EXCEPT !.cancelled = TRUE])
    BY <1>2 DEF GoodPost
  <1>3. \A q \in x : GoodPost(q)
    BY <1>2 DEF GoodManager
  <1> HIDE DEF x
  <1> QED BY <1>1, <1>3 DEF GoodManager

LEMMA TasksGood ==
  ASSUME NEW m, GoodManager(m), NEW current, GoodTask(current), NEW next, GoodTask(next)
  PROVE  GoodManager([m EXCEPT !.current_task = current, !.next_task = next])
  BY DEF GoodManager

LEMMA NextGood ==
  ASSUME NEW m, GoodManager(m), NEW ranges, GoodRanges(ranges)
  PROVE  GoodManager(ScheduleNextPaint(m, ranges))
  <1> DEFINE missing == WithMissing(m, ranges)
             merged == WithRemaining(m, missing)
             next == IF merged = NoTask THEN NoTask ELSE MergeWith(m, merged, <<>>)
             current == m.current_task
             scrolled == /\ next # NoTask /\ current # NoTask
                         /\ ~IsSameTask(current, next)
                         /\ current.y_pos # next.y_pos
             settled == IF scrolled THEN CancelTask(m, current) ELSE m
             ready == [settled EXCEPT !.current_task = next, !.next_task = NoTask]
  <1>0. ScheduleNextPaint(m, ranges) = PostCurrentTask(ready)
    BY DEF ScheduleNextPaint, ReplaceCurrent
  <1>1. GoodTask(missing)
    BY MergeGood DEF WithMissing, GoodManager
  <1> HIDE DEF missing
  <1>2. GoodTask(merged)
    <2> DEFINE remaining == InvalidRangesRemaining(m.current_task.tile_ranges,
                              m.buffer.rows + 1, m.buffer.valid, m.buffer.resident)
    <2>1. CASE missing = NoTask \/ m.current_task = NoTask
      BY <1>1, <2>1 DEF WithRemaining
    <2>2. CASE ~(missing = NoTask \/ m.current_task = NoTask)
      <3>1. m.buffer.rows + 1 \in Int /\ GoodRanges(m.current_task.tile_ranges)
        BY <2>2 DEF GoodManager, GoodBuffer, GoodTask
      <3>2. GoodRanges(remaining)
        BY <3>1, RemainingGood
      <3>3. merged = IF CanMergeWith(m.current_task, missing) /\ remaining # <<>>
                     THEN MergeWith(m, missing, remaining) ELSE missing
        BY <2>2 DEF WithRemaining
      <3> HIDE DEF remaining, merged
      <3> QED BY <1>1, <2>2, <3>2, <3>3, MergeGood
    <2> QED BY <2>1, <2>2
  <1> HIDE DEF merged
  <1>3. GoodTask(next)
    BY <1>2, MergeGood, NoRangesGood DEF GoodTask
  <1> HIDE DEF next, current, scrolled
  <1>4. GoodManager(settled)
    BY CancelGood
  <1> HIDE DEF settled
  <1>5. GoodTask(NoTask)
    BY DEF GoodTask
  <1>6. GoodManager(ready)
    BY <1>3, <1>4, <1>5, TasksGood
  <1> HIDE DEF ready
  <1> QED BY <1>0, <1>6, PostGood

LEMMA ScheduleGood ==
  ASSUME NEW m, GoodManager(m), NEW y_pos \in Nat, NEW height \in Nat, NEW scale \in Zooms,
         NEW ranges, GoodRanges(ranges)
  PROVE  GoodManager(SchedulePaint(m, y_pos, height, scale, ranges))
  <1>1. CASE m.current_task = NoTask
    <2> DEFINE x == Task(m, y_pos, height, scale, ranges)
               n == [m EXCEPT !.current_task = x]
    <2>1. SchedulePaint(m, y_pos, height, scale, ranges) = PostCurrentTask(n)
      BY <1>1 DEF SchedulePaint
    <2>2. GoodTask(x)
      BY TaskGood
    <2> HIDE DEF x
    <2>3. GoodManager(n)
      BY <2>2 DEF GoodManager
    <2> HIDE DEF n
    <2> QED BY <2>1, <2>3, PostGood
  <1>2. CASE m.current_task # NoTask
    <2> DEFINE joined == IF m.next_task = NoTask THEN ranges
                         ELSE ranges \o m.next_task.tile_ranges \o m.current_task.tile_ranges
               simple == SimplifyRanges(joined)
               x == Task(m, y_pos, height, scale, simple)
               n == [m EXCEPT !.next_task = x]
    <2>1. SchedulePaint(m, y_pos, height, scale, ranges) = ScheduleNextPaint(n, <<>>)
      BY <1>2 DEF SchedulePaint
    <2>2. GoodRanges(joined)
      <3>1. CASE m.next_task # NoTask
        <4>1. GoodRanges(m.next_task.tile_ranges) /\ GoodRanges(m.current_task.tile_ranges)
          BY <1>2, <3>1 DEF GoodManager, GoodTask
        <4> DEFINE a == m.next_task.tile_ranges
                   b == m.current_task.tile_ranges
        <4> HIDE DEF a, b
        <4>2. GoodRanges(ranges \o a)
          BY <4>1, ConcatGood DEF a
        <4> DEFINE c == ranges \o a
        <4> HIDE DEF c
        <4>3. GoodRanges(c \o b)
          BY <4>1, <4>2, ConcatGood DEF b, c
        <4>4. joined = c \o b
          BY <3>1 DEF a, b, c
        <4> QED BY <4>3, <4>4
      <3> QED BY <3>1
    <2> HIDE DEF joined
    <2>3. GoodRanges(simple)
      BY <2>2, SimplifyGood
    <2> HIDE DEF simple
    <2>4. GoodTask(x)
      BY <2>3, TaskGood
    <2> HIDE DEF x
    <2>5. GoodManager(n)
      BY <2>4 DEF GoodManager
    <2> HIDE DEF n
    <2> QED BY <2>1, <2>5, NextGood, NoRangesGood
  <1> QED BY <1>1, <1>2

LEMMA ResumeGood ==
  ASSUME NEW m, GoodManager(m), NEW paint_next \in BOOLEAN
  PROVE  GoodManager(ResumePaint(m, paint_next)) /\ GoodManager(PausePaint(m))
  <1> DEFINE n == [m EXCEPT !.skip_render = FALSE]
             o == IF n.current_task # NoTask THEN n
                  ELSE [n EXCEPT !.current_task = m.next_task, !.next_task = NoTask]
  <1>1. GoodManager(PausePaint(m))
    BY DEF PausePaint, GoodManager
  <1>2. ResumePaint(m, paint_next) = IF ~paint_next THEN n ELSE PostCurrentTask(o)
    BY DEF ResumePaint
  <1>3. GoodManager(n)
    BY DEF GoodManager
  <1> HIDE DEF n
  <1>4. GoodTask(m.next_task) /\ GoodTask(NoTask)
    BY DEF GoodManager, GoodTask
  <1>5. GoodManager(o)
    BY <1>3, <1>4, TasksGood
  <1> HIDE DEF o
  <1>6. GoodManager(PostCurrentTask(o))
    BY <1>5, PostGood
  <1> QED BY <1>1, <1>2, <1>3, <1>6
LEMMA InvalidateGood ==
  ASSUME NEW m, GoodManager(m), NEW y, NEW height
  PROVE  GoodManager(InvalidateRows(m, y, height))
  <1> DEFINE gone == TilesIn(RangeInRect([x |-> 0, y |-> y, width |-> 1, height |-> height],
                                         1, m.buffer.rows))
             n == [m EXCEPT !.buffer.valid = @ \ gone]
  <1>1. InvalidateRows(m, y, height) = n
    BY DEF InvalidateRows
  <1> HIDE DEF gone
  <1>2. /\ DOMAIN n = {"current_task", "next_task", "skip_render", "posts", "buffer"}
        /\ n.posts = m.posts /\ n.current_task = m.current_task /\ n.next_task = m.next_task
        /\ n.buffer = [m.buffer EXCEPT !.valid = @ \ gone]
    BY DEF GoodManager
  <1>3. GoodBuffer(n.buffer)
    BY <1>2 DEF GoodBuffer, GoodManager
  <1> QED BY <1>1, <1>2, <1>3 DEF GoodManager

\* The numbers the handlers start from.
PluginScalars ==
    /\ zoom \in Zooms /\ doc_rows \in DocRows /\ view_height \in ViewHeights
    /\ available_height \in 1..view_height
    /\ scroll_y_position \in Nat
    /\ update_debounce_timer \in {"none", "stopped", "running"}

LEMMA Heights == ViewHeights \subseteq Nat \ {0}
  BY PluginAssumption

LEMMA AvailableIsNat == PluginScalars => available_height \in Nat
  BY DEF PluginScalars

\* Cut to a document that is not empty.
LEMMA CutHeight ==
  ASSUME zoom \in Zooms, doc_rows \in DocRows, NEW height \in ViewHeights
  PROVE  AvailableHeight(height) \in 1..height
  <1> DEFINE rows == doc_rows * zoom
  <1>1. rows \in Nat \ {0}
    BY Numbers
  <1> HIDE DEF rows
  <1>2. Lower(height, rows) \in 1..height
    BY <1>1, Heights DEF Lower
  <1> QED BY <1>2 DEF AvailableHeight, rows

LEMMA ClippedGood ==
  ASSUME NEW range \in FullRanges, range.index_start \in Nat, NEW y \in Nat, NEW height \in Nat,
         ~Outside(range, LimitIndex(1, y, height))
  PROVE  GoodRanges(<< ClipRange(range, LimitIndex(1, y, height)) >>)
  <1> DEFINE limit == LimitIndex(1, y, height)
             r == ClipRange(range, limit)
  <1>1. limit \in FullRanges
    BY LimitIsFull
  <1>2. r \in FullRanges /\ r.index_start \in Nat
    <2> HIDE DEF limit
    <2>1. ~Outside(range, limit)
      BY DEF limit
    <2> QED BY <1>1, <2>1, ClippedIsFull
  <1> HIDE DEF r
  <1>3. GoodRanges(<< r >>)
    BY <1>2, OneRangeGood
  <1> QED BY <1>3 DEF r

LEMMA InAreaGood ==
  ASSUME NEW m, GoodManager(m), PluginScalars, NEW range \in FullRanges,
         range.index_start \in Nat, NEW height \in Nat
  PROVE  GoodManager(ScheduleInArea(m, range, height))
  <1> DEFINE y == scroll_y_position
             limit == LimitIndex(1, y, height)
             ranges == << ClipRange(range, limit) >>
  <1>0. y \in Nat /\ zoom \in Zooms
    BY DEF PluginScalars
  <1>1. ScheduleInArea(m, range, height) =
            IF Outside(range, limit) THEN m ELSE SchedulePaint(m, y, height, zoom, ranges)
    BY DEF ScheduleInArea
  <1>2. CASE ~Outside(range, limit)
    <2>1. GoodRanges(ranges)
      BY <1>0, <1>2, ClippedGood
    <2> HIDE DEF ranges
    <2>2. GoodManager(SchedulePaint(m, y, height, zoom, ranges))
      BY <1>0, <2>1, ScheduleGood
    <2> QED BY <1>1, <1>2, <2>2
  <1> QED BY <1>1, <1>2

LEMMA AvailableGood ==
  ASSUME NEW m, GoodManager(m), PluginScalars, NEW invalidate \in BOOLEAN, NEW height \in Nat
  PROVE  GoodManager(ScheduleAvailableAreaPaint(m, invalidate, height))
  <1> DEFINE n == IF invalidate THEN InvalidateRows(m, scroll_y_position, height) ELSE m
             range == RangeOfRows(m, scroll_y_position, height)
  <1>1. \/ ScheduleAvailableAreaPaint(m, invalidate, height) = m
        \/ ScheduleAvailableAreaPaint(m, invalidate, height) = ScheduleInArea(n, range, height)
    BY DEF ScheduleAvailableAreaPaint
  <1>2. GoodManager(n)
    BY InvalidateGood
  <1>3. m.buffer.rows \in Nat \ {0} /\ scroll_y_position \in Nat
    BY DEF GoodManager, GoodBuffer, PluginScalars
  <1>4. range \in FullRanges /\ range.index_start \in Nat
    BY <1>3, BandIsFull
  <1> HIDE DEF n, range
  <1>5. GoodManager(ScheduleInArea(n, range, height))
    BY <1>2, <1>4, InAreaGood
  <1> QED BY <1>1, <1>5

LEMMA MissingGood ==
  ASSUME GoodManager(pm), PluginScalars
  PROVE  GoodRanges(Missing)
  <1> DEFINE y == pm.buffer.y_pos
             n == Cardinality(Wanted)
             indices == [i \in 1..n |-> y + i - 1]
             s == ExtendByMissing(<<>>, indices, pm.buffer.resident)
  <1>1. y \in Nat /\ pm.buffer.rows \in Nat /\ view_height \in Nat
    BY Heights DEF GoodManager, GoodBuffer, PluginScalars
  <1>2. Lower(y + view_height, pm.buffer.rows) - 1 \in Int
    BY <1>1 DEF Lower
  <1>3. n \in Nat
    <2> DEFINE b == Lower(y + view_height, pm.buffer.rows) - 1
    <2>1. Wanted = y..b
      BY DEF Wanted
    <2> HIDE DEF b, y
    <2>2. IsFiniteSet(y..b)
      BY <1>1, <1>2, FS_Interval DEF b
    <2> QED BY <2>1, <2>2, FS_CardinalityType
  <1>4. Missing = s
    BY DEF Missing
  <1> HIDE DEF y, n
  <1>5. indices \in [1..n -> Int] /\ \A i \in 1..n : indices[i] \in Nat
    BY <1>1, <1>3
  <1>6. << >> \in Seq(FullRanges) /\ TilesInAll(<< >>) = {}
    BY DEF TilesInAll
  <1> HIDE DEF indices
  <1> DEFINE empty == << >>
  <1>7. s = ExtendByMissing(empty, indices, pm.buffer.resident) /\ empty \in Seq(FullRanges)
        /\ TilesInAll(empty) = {}
    BY <1>6
  <1> HIDE DEF s, empty
  <1>8. /\ s \in Seq(FullRanges)
        /\ \A x : x \in TilesInAll(s) => \/ x \in TilesInAll(empty)
                                         \/ \E i \in 1..n : indices[i] = x
    BY <1>3, <1>5, <1>7, MissingResult
  <1>9. GoodRanges(s)
    BY <1>5, <1>7, <1>8 DEF GoodRanges
  <1> QED BY <1>4, <1>9

\* A tile is visited: the count and what is ahead go down together.
LEMMA VisitedJobsGood ==
  ASSUME NEW jobs, NEW left, GoodJobs(jobs, left), NEW job \in jobs, NEW rest,
         rest \in {{}, {TileRange(job.index_start + 1, job.index_end)}},
         rest # {} => job.index_start < job.index_end
  PROVE  GoodJobs((jobs \ {job}) \cup rest, left - 1)
  <1> DEFINE tile == job.index_start
             end == job.index_end
             later == TileRange(tile + 1, end)
             new == (jobs \ {job}) \cup rest
  <1>1. job \in FullRanges /\ tile \in Nat /\ end \in Int /\ tile <= end
    BY DEF GoodJobs, FullRanges
  <1>2. TilesIn(job) = tile..end
    BY DEF TilesIn
  <1>3. TilesIn(later) = (tile + 1)..end
    BY DEF TilesIn, TileRange
  <1>4. rest # {} => later \in FullRanges /\ later.index_start \in Nat
    <2> HIDE DEF tile, end
    <2>1. rest # {} => tile < end
      BY DEF tile, end
    <2> QED BY <1>1, <2>1 DEF FullRanges, TileRange
  <1>5. rest = {} \/ rest = {later}
    OBVIOUS
  <1> HIDE DEF tile, end, later
  <1>6. TilesIn(later) \subseteq TilesIn(job) \ {tile} /\ tile \in TilesIn(job)
    BY <1>1, <1>2, <1>3
  <1>7. \A j \in new : j \in FullRanges /\ j.index_start \in Nat
    BY <1>4, <1>5 DEF GoodJobs
  <1>8. \A j, k \in new : j # k => TilesIn(j) \cap TilesIn(k) = {}
    BY <1>5, <1>6 DEF GoodJobs
  <1>9. tile \in Ahead(jobs) /\ Ahead(new) \subseteq Ahead(jobs) \ {tile}
    <2>1. tile \in Ahead(jobs)
      BY <1>6 DEF Ahead
    <2>2. ASSUME NEW x \in Ahead(new) PROVE x \in Ahead(jobs) \ {tile}
      <3>1. PICK j \in new : x \in TilesIn(j)
        BY DEF Ahead
      <3>2. CASE j \in jobs \ {job}
        <4>1. TilesIn(j) \cap TilesIn(job) = {}
          BY <3>2 DEF GoodJobs
        <4> QED BY <1>6, <3>1, <3>2, <4>1 DEF Ahead
      <3>3. CASE j \in rest
        <4>1. j = later
          BY <1>5, <3>3
        <4> QED BY <1>6, <3>1, <4>1 DEF Ahead
      <3> QED BY <3>1, <3>2, <3>3
    <2> QED BY <2>1, <2>2
  <1> HIDE DEF new
  <1> DEFINE S == Ahead(jobs)
             T == Ahead(new)
  <1>10. IsFiniteSet(S) /\ left \in Int /\ left >= Cardinality(S)
    BY DEF GoodJobs
  <1> HIDE DEF S, T
  <1>11. IsFiniteSet(S \ {tile}) /\ Cardinality(S \ {tile}) = Cardinality(S) - 1
    BY <1>9, <1>10, FS_RemoveElement DEF S
  <1> DEFINE R == S \ {tile}
  <1>12. T \subseteq R
    BY <1>9 DEF S, T
  <1>13. IsFiniteSet(R) /\ Cardinality(R) = Cardinality(S) - 1
    BY <1>11
  <1> HIDE DEF R
  <1>14. IsFiniteSet(T) /\ Cardinality(T) <= Cardinality(R)
    BY <1>12, <1>13, FS_Subset
  <1>15. Cardinality(T) \in Nat /\ Cardinality(S) \in Nat
    BY <1>10, <1>14, FS_CardinalityType
  <1>16. left - 1 \in Int /\ left - 1 >= Cardinality(T)
    BY <1>10, <1>13, <1>14, <1>15
  <1>17. GoodJobs(new, left - 1)
    BY <1>7, <1>8, <1>14, <1>16 DEF GoodJobs, T
  <1> QED BY <1>17 DEF new

LEMMA PaintTileGood ==
  ASSUME NEW B, GoodBuffer(B), NEW tile \in Nat, NEW context, NEW cancelled
  PROVE  GoodBuffer(PaintTile(B, tile, context, cancelled).buffer)
  <1> DEFINE b == PaintTile(B, tile, context, cancelled).buffer
  <1>1. CASE B.context # context \/ tile > B.rows - 1
    <2>1. b = [B EXCEPT !.valid = {}]
      BY <1>1 DEF PaintTile
    <2> QED BY <2>1 DEF GoodBuffer
  <1>2. CASE ~(B.context # context \/ tile > B.rows - 1) /\ ~cancelled /\ tile \notin B.valid
    <2>1. b = [B EXCEPT !.resident = @ \cup {tile}, !.valid = @ \cup {tile}, !.fresh = @ \cup {tile}]
      BY <1>2 DEF PaintTile
    <2>2. B.rows \in Nat
      BY DEF GoodBuffer
    <2>3. tile \in 0..(B.rows - 1)
      BY <1>2, <2>2
    <2> QED BY <2>1, <2>3 DEF GoodBuffer
  <1>3. CASE ~(B.context # context \/ tile > B.rows - 1) /\ ~(~cancelled /\ tile \notin B.valid)
    <2>1. b = [B EXCEPT !.resident = @ \cup {tile}]
      BY <1>3 DEF PaintTile
    <2>2. B.rows \in Nat
      BY DEF GoodBuffer
    <2>3. tile \in 0..(B.rows - 1)
      BY <1>3, <2>2
    <2> QED BY <2>1, <2>3 DEF GoodBuffer
  <1> QED BY <1>1, <1>2, <1>3

LEMMA VisitGood ==
  ASSUME NEW m, GoodManager(m), NEW post \in m.posts, NEW job \in post.jobs
  PROVE  GoodManager(VisitTile(m, post, job))
  <1> DEFINE tile == job.index_start
             paint == PaintTile(m.buffer, tile, post.context, post.cancelled)
             rest  == IF paint.result /\ tile < job.index_end
                      THEN {TileRange(tile + 1, job.index_end)} ELSE {}
             jobs == (post.jobs \ {job}) \cup rest
             later == [post EXCEPT !.jobs = jobs, !.left = @ - 1]
             kept  == { p \in {later} : p.jobs # {} \/ p.left = 0 }
             b == paint.buffer
             posts == (m.posts \ {post}) \cup kept
             n == [m EXCEPT !.buffer = b, !.posts = posts]
  <1>1. VisitTile(m, post, job) = n
    BY DEF VisitTile
  <1>2. GoodPost(post) /\ GoodBuffer(m.buffer)
    BY DEF GoodManager
  <1>3. tile \in Nat
    BY <1>2 DEF GoodPost, GoodJobs
  <1>4. GoodBuffer(b)
    BY <1>2, <1>3, PaintTileGood
  <1>5. /\ rest \in {{}, {TileRange(job.index_start + 1, job.index_end)}}
        /\ rest # {} => job.index_start < job.index_end
    OBVIOUS
  <1> HIDE DEF rest, b, tile
  <1>6. GoodJobs(jobs, post.left - 1)
    BY <1>2, <1>5, VisitedJobsGood DEF GoodPost
  <1> HIDE DEF jobs
  <1>7. GoodPost(later)
    BY <1>2, <1>6 DEF GoodPost
  <1> HIDE DEF later
  <1>8. \A p \in posts : GoodPost(p)
    BY <1>7 DEF GoodManager
  <1> HIDE DEF posts
  <1>9. GoodManager(n)
    BY <1>4, <1>8 DEF GoodManager
  <1> QED BY <1>1, <1>9

LEMMA CompletedGood ==
  ASSUME NEW m, GoodManager(m), NEW post \in m.posts
  PROVE  GoodManager(CompletedCheck(m, post)) /\ GoodManager(CompletedCall(m, post))
  <1> DEFINE called == [post EXCEPT !.calling = TRUE]
             x == (m.posts \ {post}) \cup { p \in {called} : ~post.silenced /\ ~post.cancelled }
  <1>1. CompletedCheck(m, post) = [m EXCEPT !.posts = x]
    BY DEF CompletedCheck
  <1>2. GoodPost(called)
    BY DEF GoodManager, GoodPost
  <1> HIDE DEF called
  <1>3. \A p \in x : GoodPost(p)
    BY <1>2 DEF GoodManager
  <1> HIDE DEF x
  <1>4. GoodManager(CompletedCheck(m, post))
    BY <1>1, <1>3 DEF GoodManager
  <1>5. GoodManager(CompletedCall(m, post))
    BY DEF GoodManager, CompletedCall
  <1> QED BY <1>4, <1>5
-----------------------------------------------------------------------------
(* Types, and the count of a barrier. *)

BarrierInvariant ==
    /\ GoodManager(pm) /\ PluginScalars
    /\ shown \subseteq Tiles

LEMMA BarrierInit == MCInit => BarrierInvariant
  <1> SUFFICES ASSUME MCInit PROVE BarrierInvariant
    OBVIOUS
  <1>1. /\ zoom \in Zooms /\ doc_rows \in DocRows /\ view_height \in ViewHeights
        /\ available_height = AvailableHeight(view_height)
        /\ scroll_y_position = 0 /\ update_debounce_timer = "none" /\ shown = {}
        /\ pm = Manager(Buffer(zoom, doc_rows * zoom, 0))
    BY DEF MCInit, Init
  <1> DEFINE rows == doc_rows * zoom
  <1>2. rows \in Nat \ {0}
    BY <1>1, Numbers
  <1> HIDE DEF rows
  <1>3. GoodBuffer(Buffer(zoom, rows, 0))
    BY <1>1, <1>2 DEF GoodBuffer, Buffer
  <1>4. GoodManager(pm)
    <2> DEFINE B == Buffer(zoom, rows, 0)
    <2>1. pm = Manager(B)
      BY <1>1 DEF rows
    <2> HIDE DEF B
    <2> QED BY <1>3, <2>1 DEF GoodManager, Manager, GoodTask, B
  <1>5. available_height \in 1..view_height
    BY <1>1, CutHeight
  <1> QED BY <1>1, <1>4, <1>5 DEF BarrierInvariant, PluginScalars

\* The manager is still good, the buffer has its size, and the screen shows
\* no more than it did.
LEMMA ShownKeeps ==
  ASSUME BarrierInvariant, GoodManager(pm'), PluginScalars',
         pm'.buffer.rows = pm.buffer.rows, shown' \subseteq shown \cup pm.buffer.fresh
  PROVE  BarrierInvariant'
  BY DEF BarrierInvariant, Tiles, GoodManager, GoodBuffer

LEMMA BlankKeeps ==
  ASSUME GoodManager(pm'), PluginScalars', shown' = {}
  PROVE  BarrierInvariant'
  BY DEF BarrierInvariant

LEMMA GoodIsManager == ASSUME NEW m, GoodManager(m) PROVE IsManager(m)
  BY DEF GoodManager, GoodBuffer, IsManager

LEMMA ResizeGood ==
  ASSUME NEW m, GoodManager(m), NEW rows \in Nat \ {0}
  PROVE  GoodManager(Resize(m, rows))
  <1> DEFINE n == Resize(m, rows)
  <1>1. /\ DOMAIN n = {"current_task", "next_task", "skip_render", "posts", "buffer"}
        /\ n.posts = m.posts /\ n.current_task = m.current_task /\ n.next_task = m.next_task
        /\ n.buffer = [m.buffer EXCEPT !.rows = rows, !.valid = {}, !.resident = {}, !.fresh = {}]
    BY DEF GoodManager, GoodBuffer, Resize
  <1> HIDE DEF n
  <1>2. GoodBuffer(n.buffer)
    BY <1>1 DEF GoodBuffer, GoodManager
  <1>3. GoodManager(n)
    BY <1>1, <1>2 DEF GoodManager
  <1> QED BY <1>3 DEF n

LEMMA ResetScaleGood ==
  ASSUME NEW m, GoodManager(m), doc_rows \in DocRows, NEW scale \in Zooms
  PROVE  GoodManager(ResetScale(m, scale))
  <1> DEFINE rows == doc_rows * scale
             n == Resize(m, rows)
             o == [n EXCEPT !.buffer.scale = scale, !.buffer.context = NoContext]
  <1>1. rows \in Nat \ {0}
    BY Numbers
  <1>2. ResetScale(m, scale) = IF m.buffer.scale = scale THEN m ELSE o
    BY DEF ResetScale
  <1> HIDE DEF rows
  <1>3. GoodManager(n)
    BY <1>1, ResizeGood
  <1> HIDE DEF n
  <1>4. /\ DOMAIN o = {"current_task", "next_task", "skip_render", "posts", "buffer"}
        /\ o.posts = n.posts /\ o.current_task = n.current_task /\ o.next_task = n.next_task
        /\ o.buffer = [n.buffer EXCEPT !.scale = scale, !.context = NoContext]
    BY <1>3 DEF GoodManager, GoodBuffer
  <1> HIDE DEF o
  <1>5. GoodBuffer(o.buffer)
    BY <1>3, <1>4 DEF GoodBuffer, GoodManager
  <1>6. GoodManager(o)
    BY <1>3, <1>4, <1>5 DEF GoodManager
  <1> QED BY <1>2, <1>6

LEMMA BarrierPaintScaled ==
  ASSUME BarrierInvariant, PaintScaled
  PROVE  BarrierInvariant'
  <1>0. GoodManager(pm) /\ PluginScalars /\ zoom \in Zooms /\ doc_rows \in DocRows
    BY DEF BarrierInvariant, PluginScalars
  <1> DEFINE paused == IF update_debounce_timer # "none" /\ ~scrolling THEN PausePaint(pm) ELSE pm
             n == ResetScale(paused, zoom)
  <1>1. /\ pm' = ScheduleAvailableAreaPaint(n, TRUE, available_height) /\ shown' = {}
        /\ UNCHANGED <<zoom, doc_rows, view_height, available_height, scroll_y_position, update_debounce_timer>>
    BY DEF PaintScaled, timerVars
  <1>2. GoodManager(paused)
    BY <1>0, ResumeGood
  <1> HIDE DEF paused
  <1>3. GoodManager(n)
    BY <1>0, <1>2, ResetScaleGood
  <1> HIDE DEF n
  <1>4. GoodManager(pm')
    BY <1>0, <1>1, <1>3, AvailableGood, AvailableIsNat
  <1>5. PluginScalars'
    BY <1>0, <1>1 DEF PluginScalars
  <1> QED BY <1>1, <1>4, <1>5, BlankKeeps

LEMMA BarrierPaint ==
  ASSUME BarrierInvariant, Paint
  PROVE  BarrierInvariant'
  <1>0. GoodManager(pm) /\ PluginScalars
    BY DEF BarrierInvariant
  <1> DEFINE paused == IF update_debounce_timer # "none" /\ ~scrolling THEN PausePaint(pm) ELSE pm
             ranges == Missing
             n == ScheduleNextPaint(paused, ranges)
  <1>1. /\ pm' = ScheduleAvailableAreaPaint(n, TRUE, available_height) \/ pm' = n
        /\ UNCHANGED <<zoom, doc_rows, view_height, available_height, scroll_y_position, update_debounce_timer>>
        /\ shown' \subseteq pm.buffer.fresh
    BY DEF Paint, timerVars
  <1>2. GoodRanges(ranges)
    BY <1>0, MissingGood
  <1> HIDE DEF ranges
  <1>3. GoodManager(paused) /\ Shrinks(pm, paused)
    BY <1>0, ResumeGood, ResumeShrinks, ShrinksRefl, GoodIsManager
  <1> HIDE DEF paused
  <1>4. GoodManager(n) /\ Shrinks(paused, n)
    BY <1>2, <1>3, NextGood, NextShrinks, GoodIsManager
  <1> HIDE DEF n
  <1>5. GoodManager(pm') /\ Shrinks(n, pm')
    BY <1>0, <1>1, <1>4, AvailableGood, AvailableIsNat, AvailableShrinks, ShrinksRefl, GoodIsManager
  <1>6. pm'.buffer.rows = pm.buffer.rows
    BY <1>3, <1>4, <1>5 DEF Shrinks
  <1>7. PluginScalars'
    BY <1>0, <1>1 DEF PluginScalars
  <1> QED BY <1>1, <1>5, <1>6, <1>7, ShownKeeps

LEMMA BarrierRect ==
  ASSUME BarrierInvariant, NEW r \in Nat, HandleInvalidateRect(r)
  PROVE  BarrierInvariant'
  <1>0. GoodManager(pm) /\ PluginScalars
    BY DEF BarrierInvariant
  <1> DEFINE scale == pm.buffer.scale
             y == r * scale
             range == RangeOfRows(pm, y, scale)
             n == InvalidateRows(pm, y, scale)
  <1>1. /\ pm' = ScheduleInArea(n, range, available_height)
        /\ UNCHANGED <<zoom, doc_rows, view_height, available_height, scroll_y_position, update_debounce_timer, shown>>
    BY DEF HandleInvalidateRect, pluginVars
  <1>2. /\ scale \in Nat /\ pm.buffer.rows \in Nat \ {0} /\ scroll_y_position \in Nat
    BY <1>0, Numbers DEF GoodManager, GoodBuffer, PluginScalars
  <1> HIDE DEF scale
  <1>3. y \in Nat
    BY <1>2
  <1> HIDE DEF y
  <1>4. range \in FullRanges /\ range.index_start \in Nat
    BY <1>2, <1>3, BandIsFull
  <1>5. GoodManager(n) /\ Shrinks(pm, n)
    BY <1>0, InvalidateGood, InvalidateShrinks, GoodIsManager
  <1> HIDE DEF n, range
  <1>6. GoodManager(pm') /\ Shrinks(n, pm')
    BY <1>0, <1>1, <1>4, <1>5, InAreaGood, InAreaShrinks, GoodIsManager, AvailableIsNat
  <1>7. pm'.buffer.rows = pm.buffer.rows
    BY <1>5, <1>6 DEF Shrinks
  <1>8. PluginScalars'
    BY <1>0, <1>1 DEF PluginScalars
  <1> QED BY <1>1, <1>6, <1>7, <1>8, ShownKeeps

LEMMA BarrierScroll ==
  ASSUME BarrierInvariant, NEW y_position \in Nat, UpdateScroll(y_position)
  PROVE  BarrierInvariant'
  <1>0. GoodManager(pm) /\ PluginScalars
    BY DEF BarrierInvariant
  <1> DEFINE y == Lower(y_position, Higher(doc_rows * zoom - view_height, 0))
             range == NextScrollTileRange(1, pm.buffer.rows, y, view_height)
             n == [pm EXCEPT !.buffer.y_pos = y]
             moved == ResumePaint(n, FALSE)
  <1>1. /\ pm' = SchedulePaint(moved, y, view_height, zoom, << range >>)
        /\ scroll_y_position' = y /\ shown' = {}
        /\ UNCHANGED <<zoom, doc_rows, view_height, available_height, update_debounce_timer>>
    BY DEF UpdateScroll, timerVars
  <1>2. /\ zoom \in Zooms /\ zoom \in Nat /\ doc_rows \in Nat /\ view_height \in Nat
        /\ pm.buffer.rows \in Nat \ {0}
    BY <1>0, Numbers, Heights DEF GoodManager, GoodBuffer, PluginScalars
  <1>3. y \in Nat
    <2> DEFINE a == doc_rows * zoom
    <2>1. a \in Nat
      BY <1>2
    <2> HIDE DEF a
    <2>2. Lower(y_position, Higher(a - view_height, 0)) \in Nat
      BY <1>2, <2>1 DEF Lower, Higher
    <2> QED BY <2>2 DEF a
  <1> HIDE DEF y
  <1>4. range \in FullRanges /\ range.index_start \in Nat
    BY <1>2, <1>3, ScrollRangeIsFull
  <1> HIDE DEF range
  <1> DEFINE ranges == << range >>
  <1>5. GoodRanges(ranges)
    BY <1>4, OneRangeGood
  <1>6. pm' = SchedulePaint(moved, y, view_height, zoom, ranges)
    BY <1>1
  <1> HIDE DEF ranges
  <1>7. /\ DOMAIN n = {"current_task", "next_task", "skip_render", "posts", "buffer"}
        /\ n.posts = pm.posts /\ n.current_task = pm.current_task /\ n.next_task = pm.next_task
        /\ n.buffer = [pm.buffer EXCEPT !.y_pos = y]
    BY <1>0 DEF GoodManager
  <1> HIDE DEF n
  <1>8. GoodBuffer(n.buffer)
    BY <1>0, <1>3, <1>7 DEF GoodBuffer, GoodManager
  <1>9. GoodManager(n)
    BY <1>0, <1>7, <1>8 DEF GoodManager
  <1>10. GoodManager(moved)
    BY <1>9, ResumeGood
  <1> HIDE DEF moved
  <1>11. GoodManager(pm')
    BY <1>2, <1>3, <1>5, <1>6, <1>10, ScheduleGood
  <1>12. PluginScalars'
    BY <1>0, <1>1, <1>3 DEF PluginScalars
  <1> QED BY <1>1, <1>11, <1>12, BlankKeeps

LEMMA BarrierViewport ==
  ASSUME BarrierInvariant, NEW height \in ViewHeights, OnViewportChanged(height)
  PROVE  BarrierInvariant'
  <1>0. GoodManager(pm) /\ PluginScalars /\ zoom \in Zooms /\ doc_rows \in DocRows
    BY DEF BarrierInvariant, PluginScalars
  <1> DEFINE area == AvailableHeight(height)
  <1>1. /\ pm' = pm \/ pm' = ScheduleAvailableAreaPaint(pm, FALSE, area)
        /\ view_height' = height /\ available_height' = area
        /\ UNCHANGED <<zoom, doc_rows, scroll_y_position, update_debounce_timer, shown>>
    BY DEF OnViewportChanged, timerVars
  <1>2. area \in 1..height /\ height \in Nat
    BY <1>0, CutHeight, Heights
  <1> HIDE DEF area
  <1>3. area \in Nat
    BY <1>2
  <1>4. PluginScalars'
    BY <1>0, <1>1, <1>2 DEF PluginScalars
  <1>5. GoodManager(pm') /\ Shrinks(pm, pm')
    BY <1>0, <1>1, <1>3, AvailableGood, AvailableIsNat, AvailableShrinks, ShrinksRefl, GoodIsManager
  <1>6. pm'.buffer.rows = pm.buffer.rows
    BY <1>5 DEF Shrinks
  <1> QED BY <1>1, <1>4, <1>5, <1>6, ShownKeeps

\* The zoom is a positive number, so the position it moves to is a number.
LEMMA BarrierZoom ==
  ASSUME BarrierInvariant, NEW z \in Zooms, SetZoom(z)
  PROVE  BarrierInvariant'
  <1>0. GoodManager(pm) /\ PluginScalars
    BY DEF BarrierInvariant
  <1>1. /\ pm' = [pm EXCEPT !.buffer.context = NoContext] /\ zoom' = z /\ shown' = {}
        /\ scroll_y_position' = (z * scroll_y_position) \div zoom
        /\ UNCHANGED <<doc_rows, view_height, available_height, update_debounce_timer>>
    BY DEF SetZoom, timerVars
  <1>2. zoom \in Nat \ {0} /\ z \in Nat /\ scroll_y_position \in Nat
    BY <1>0, Numbers DEF PluginScalars
  <1>3. scroll_y_position' \in Nat
    <2> DEFINE a == z * scroll_y_position
    <2>1. a \in Nat
      BY <1>2
    <2> HIDE DEF a
    <2>2. a \div zoom \in Nat
      BY <1>2, <2>1
    <2> QED BY <1>1, <2>2 DEF a
  <1>4. /\ DOMAIN pm' = {"current_task", "next_task", "skip_render", "posts", "buffer"}
        /\ pm'.posts = pm.posts /\ pm'.current_task = pm.current_task
        /\ pm'.next_task = pm.next_task
        /\ pm'.buffer = [pm.buffer EXCEPT !.context = NoContext]
    BY <1>0, <1>1 DEF GoodManager
  <1>5. GoodBuffer(pm'.buffer)
    BY <1>0, <1>4 DEF GoodBuffer, GoodManager
  <1>6. GoodManager(pm')
    BY <1>0, <1>4, <1>5 DEF GoodManager
  <1>7. PluginScalars'
    BY <1>0, <1>1, <1>3 DEF PluginScalars
  <1> QED BY <1>1, <1>6, <1>7, BlankKeeps

LEMMA BarrierSize ==
  ASSUME BarrierInvariant, NEW rows \in DocRows, HandleDocumentSizeChanged(rows)
  PROVE  BarrierInvariant'
  <1>0. GoodManager(pm) /\ PluginScalars
    BY DEF BarrierInvariant
  <1> DEFINE all == rows * pm.buffer.scale
  <1>1. /\ pm' = Resize(pm, all) /\ doc_rows' = rows /\ shown' = {}
        /\ UNCHANGED <<zoom, view_height, available_height, scroll_y_position, update_debounce_timer>>
    BY DEF HandleDocumentSizeChanged, pluginVars, timerVars
  <1>2. all \in Nat \ {0}
    <2>1. rows \in Nat \ {0} /\ pm.buffer.scale \in Nat \ {0}
      BY <1>0, Numbers DEF GoodManager, GoodBuffer
    <2> QED BY <2>1
  <1> HIDE DEF all
  <1>3. GoodManager(pm')
    BY <1>0, <1>1, <1>2, ResizeGood
  <1>4. PluginScalars'
    BY <1>0, <1>1 DEF PluginScalars
  <1> QED BY <1>1, <1>3, <1>4, BlankKeeps

\* The document changes, or every bit is cleared.
LEMMA BarrierEdit ==
  ASSUME BarrierInvariant,
         \/ InvalidateAllTiles
         \/ \E r \in 0..(doc_rows - 1) : EditRow(r)
         \/ \E report \in {Empty, EmptyPage} : EditAll(report)
  PROVE  BarrierInvariant'
  <1>0. GoodManager(pm) /\ PluginScalars
    BY DEF BarrierInvariant
  <1>1. /\ UNCHANGED <<zoom, doc_rows, view_height, available_height, scroll_y_position, update_debounce_timer>>
        /\ shown' \subseteq shown
    BY DEF InvalidateAllTiles, EditRow, EditAll, pluginVars, timerVars
  <1>2. PICK gone : \/ pm' = [pm EXCEPT !.buffer.fresh = @ \ gone]
                    \/ pm' = [pm EXCEPT !.buffer.context = NoContext, !.buffer.valid = {}]
    <2>1. CASE InvalidateAllTiles
      BY <2>1 DEF InvalidateAllTiles
    <2>2. ASSUME NEW r \in 0..(doc_rows - 1), EditRow(r)
          PROVE  \E gone : pm' = [pm EXCEPT !.buffer.fresh = @ \ gone]
      BY <2>2 DEF EditRow
    <2>3. ASSUME NEW report, EditAll(report)
          PROVE  \E gone : pm' = [pm EXCEPT !.buffer.fresh = @ \ gone]
      <3>1. pm' = [pm EXCEPT !.buffer.fresh = {}]
        BY <2>3 DEF EditAll
      <3>2. pm' = [pm EXCEPT !.buffer.fresh = @ \ pm.buffer.fresh]
        BY <3>1
      <3> QED BY <3>2
    <2> QED BY <2>1, <2>2, <2>3
  <1>3. /\ DOMAIN pm' = {"current_task", "next_task", "skip_render", "posts", "buffer"}
        /\ pm'.posts = pm.posts /\ pm'.current_task = pm.current_task
        /\ pm'.next_task = pm.next_task
        /\ \/ pm'.buffer = [pm.buffer EXCEPT !.fresh = @ \ gone]
           \/ pm'.buffer = [pm.buffer EXCEPT !.context = NoContext, !.valid = {}]
    BY <1>0, <1>2 DEF GoodManager, GoodBuffer
  <1>4. GoodBuffer(pm'.buffer) /\ pm'.buffer.rows = pm.buffer.rows
    BY <1>0, <1>3 DEF GoodBuffer, GoodManager
  <1>5. GoodManager(pm')
    BY <1>0, <1>3, <1>4 DEF GoodManager
  <1>6. PluginScalars'
    BY <1>0, <1>1 DEF PluginScalars
  <1> QED BY <1>1, <1>4, <1>5, <1>6, ShownKeeps

LEMMA BarrierPool ==
  ASSUME BarrierInvariant, Pool
  PROVE  BarrierInvariant'
  <1>0. GoodManager(pm) /\ PluginScalars
    BY DEF BarrierInvariant
  <1>1. PICK post \in pm.posts : \/ \E job \in post.jobs : Work(post, job)
                                 \/ BarrierCheck(post)
                                 \/ BarrierCall(post)
    BY DEF Pool
  <1>2. UNCHANGED <<zoom, doc_rows, view_height, available_height, scroll_y_position, update_debounce_timer, shown>>
    BY <1>1 DEF Work, BarrierCheck, BarrierCall, pluginVars, timerVars
  <1>3. PluginScalars'
    BY <1>0, <1>2 DEF PluginScalars
  <1>4. GoodManager(pm') /\ pm'.buffer.rows = pm.buffer.rows
    <2>1. ASSUME NEW job \in post.jobs, Work(post, job)
          PROVE  GoodManager(pm') /\ pm'.buffer.rows = pm.buffer.rows
      <3>1. pm' = VisitTile(pm, post, job)
        BY <2>1 DEF Work
      <3>2. GoodManager(pm')
        BY <1>0, <3>1, VisitGood
      <3> DEFINE B == pm.buffer
                 tile == job.index_start
                 b == PaintTile(B, tile, post.context, post.cancelled).buffer
      <3>3. pm'.buffer = b
        BY <1>0, <3>1 DEF VisitTile, GoodManager
      <3>4. /\ DOMAIN B = {"scale", "rows", "y_pos", "context", "valid", "resident", "fresh"}
            /\ B.rows \in Nat
        BY <1>0 DEF GoodManager, GoodBuffer
      <3>5. b.rows = B.rows
        <4> HIDE DEF B, tile
        <4> QED BY <3>4, PaintTileFacts
      <3> QED BY <3>2, <3>3, <3>5
    <2>2. CASE BarrierCheck(post)
      <3>1. pm' = CompletedCheck(pm, post)
        BY <2>2 DEF BarrierCheck
      <3>2. GoodManager(pm')
        BY <1>0, <3>1, CompletedGood
      <3>3. pm'.buffer = pm.buffer
        BY <1>0, <3>1 DEF CompletedCheck, GoodManager
      <3> QED BY <3>2, <3>3
    <2>3. CASE BarrierCall(post)
      <3>1. pm' = CompletedCall(pm, post)
        BY <2>3 DEF BarrierCall
      <3>2. GoodManager(pm')
        BY <1>0, <3>1, CompletedGood
      <3>3. pm'.buffer = pm.buffer
        BY <1>0, <3>1 DEF CompletedCall, GoodManager
      <3> QED BY <3>2, <3>3
    <2> QED BY <1>1, <2>1, <2>2, <2>3
  <1> QED BY <1>2, <1>3, <1>4, ShownKeeps

\* The handlers and inputs that change no range.
LEMMA BarrierOthers ==
  ASSUME BarrierInvariant,
         \/ TryResumePaint \/ DebouncedResumePaint \/ TenMillisecondsPass
         \/ Expose \/ DebounceUpdates \/ StopDebouncing
         \/ \E r \in reports : HandleInvalidateEmpty(r) \/ IgnoreInvalidateEmpty(r)
  PROVE  BarrierInvariant'
  <1>0. GoodManager(pm) /\ PluginScalars /\ IsManager(pm)
    BY GoodIsManager DEF BarrierInvariant
  <1>1. /\ UNCHANGED <<zoom, doc_rows, view_height, available_height, scroll_y_position, shown>>
        /\ update_debounce_timer' \in {update_debounce_timer, "none", "stopped", "running"}
        /\ \/ pm' = pm \/ pm' = ResumePaint(pm, TRUE) \/ pm' = PausePaint(pm)
           \/ pm' = ScheduleAvailableAreaPaint(pm, TRUE, available_height)
    BY DEF TryResumePaint, DebouncedResumePaint, TenMillisecondsPass, Expose, DebounceUpdates,
           StopDebouncing, HandleInvalidateEmpty, IgnoreInvalidateEmpty, pluginVars, timerVars
  <1>2. GoodManager(pm')
    BY <1>0, <1>1, ResumeGood, AvailableGood, AvailableIsNat
  <1>3. Shrinks(pm, pm')
    BY <1>0, <1>1, ShrinksRefl, ResumeShrinks, AvailableShrinks
  <1>4. pm'.buffer.rows = pm.buffer.rows
    BY <1>3 DEF Shrinks
  <1>5. PluginScalars'
    BY <1>0, <1>1 DEF PluginScalars
  <1> QED BY <1>1, <1>2, <1>4, <1>5, ShownKeeps

LEMMA BarrierStep == PluginInvariant /\ BarrierInvariant /\ MCNext => BarrierInvariant'
  <1> SUFFICES ASSUME PluginInvariant, BarrierInvariant, MCNext PROVE BarrierInvariant'
    OBVIOUS
  <1>1. CASE Handlers
    <2>1. ASSUME NEW r \in reports, HandleInvalidateRect(r) PROVE BarrierInvariant'
      <3>1. r \in Nat
        BY <2>1 DEF PluginInvariant, PluginTypes, HandleInvalidateRect
      <3> QED BY <2>1, <3>1, BarrierRect
    <2> QED BY <1>1, <2>1, BarrierPaintScaled, BarrierPaint, BarrierOthers DEF Handlers
  <1>2. CASE ScrollOrEdit
    <2>1. ASSUME NEW y \in 0..(doc_rows * zoom), UpdateScroll(y) PROVE BarrierInvariant'
      <3>1. y \in Nat
        OBVIOUS
      <3> QED BY <2>1, <3>1, BarrierScroll
    <2> QED BY <1>2, <2>1, BarrierEdit DEF ScrollOrEdit
  <1>3. CASE \/ OnViewportChanged(view_height)
             \/ \E h \in ViewHeights \ {view_height} : OnViewportChanged(h)
    BY <1>3, BarrierViewport DEF BarrierInvariant, PluginScalars
  <1> QED BY <1>1, <1>2, <1>3, BarrierPool, BarrierOthers, BarrierZoom, BarrierEdit, BarrierSize
         DEF MCNext

LEMMA BarrierStutter == BarrierInvariant /\ UNCHANGED mcVars => BarrierInvariant'
  BY DEF BarrierInvariant, PluginScalars, Tiles, mcVars, vars, pluginVars, timerVars

\* The tiles that are valid, current, in their slots or on the screen are
\* tiles of the document as it is now, whatever the order of zooms, resizes
\* and late jobs (TileBuffer::PaintTile, TileBuffer::Resize).
THEOREM PluginTypeCorrect == MCSpec => []TypeOK
  <1>1. BarrierInvariant => TypeOK
    BY DEF BarrierInvariant, PluginScalars, GoodManager, GoodBuffer, TypeOK, Tiles
  <1>2. PluginInvariant /\ [MCNext]_mcVars => PluginInvariant'
    BY PluginStep, PluginStutter
  <1>3. PluginInvariant /\ BarrierInvariant /\ [MCNext]_mcVars => BarrierInvariant'
    BY BarrierStep, BarrierStutter
  <1> QED BY <1>1, <1>2, <1>3, PluginInit, BarrierInit, PTL DEF MCSpec

\* However tasks are merged, clipped, cancelled and posted again: the barrier
\* of a post never runs out before its jobs have visited their tiles
\* (PaintManager::PostCurrentTask, TileBuffer::PaintTileRange,
\* SimplifyRanges and TileCount).
THEOREM BarriersCorrect == MCSpec => []BarriersCountTheirTiles
  <1>1. BarrierInvariant => BarriersCountTheirTiles
    BY DEF BarrierInvariant, GoodManager, GoodPost, GoodJobs, Ahead, BarriersCountTheirTiles
  <1>2. PluginInvariant /\ [MCNext]_mcVars => PluginInvariant'
    BY PluginStep, PluginStutter
  <1>3. PluginInvariant /\ BarrierInvariant /\ [MCNext]_mcVars => BarrierInvariant'
    BY BarrierStep, BarrierStutter
  <1> QED BY <1>1, <1>2, <1>3, PluginInit, BarrierInit, PTL DEF MCSpec
=============================================================================
