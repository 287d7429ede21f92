--------------------------- MODULE OfficeWebPlugin ---------------------------
(***************************************************************************)
(* office_web_plugin.{h,cc}: how the plugin keeps what is on the screen    *)
(* equal to the document.  Every handler runs on the renderer thread and   *)
(* is one action; the jobs it posts run on the thread pool between them    *)
(* (PaintManager).  LOK's callbacks arrive on the renderer thread, some    *)
(* time after the change they report.                                      *)
(*                                                                         *)
(* A tile is one unit of length high at every scale, so the document has   *)
(* doc_rows * zoom rows of tiles and a row r of the document covers the    *)
(* tiles r * zoom up to (r + 1) * zoom - 1.  The snapshot shown while      *)
(* tiles are missing is left out: it never counts as showing a tile.       *)
(***************************************************************************)
EXTENDS PaintManager

CONSTANTS Zooms,        \* the zoom levels, positive integers
          DocRows,      \* the heights the document may have, at zoom 1
          ViewHeights,  \* the heights of the plugin's rectangle
          Inputs,       \* the kinds of input that occur
          MaxInputs     \* bound: inputs in a behaviour

ASSUME PluginAssumption ==
    /\ TileSizePx = 1
    /\ Zooms \subseteq Nat \ {0} /\ DocRows \subseteq Nat \ {0}
    /\ ViewHeights \subseteq Nat \ {0}
    /\ NoContext \notin Zooms

VARIABLES
    pm,                     \* paint_manager_ and tile_buffer_
    zoom,                   \* zoom_
    doc_rows,               \* external: the document's height
    scroll_y_position,      \* scroll_y_position_
    view_height,            \* height of plugin_rect_
    available_height,       \* height of available_area_: cut to the document
    scale_pending,          \* scale_pending_
    scrolling,              \* scrolling_
    update_debounce_timer,  \* update_debounce_timer_: none, stopped or running
    resume_posted,          \* a TryResumePaint task is posted
    full_invalidation_recent, \* less than 10 ms since last_full_invalidation_time_
    container_invalid,      \* the container is to be painted
    reports,                \* external: INVALIDATE_TILES callbacks under way
    shown,                  \* tiles of the screen that show the document as it is
    inputs                  \* number of inputs so far

pluginVars == <<zoom, scroll_y_position, view_height, available_height, scale_pending,
                scrolling>>
timerVars == <<update_debounce_timer, resume_posted, full_invalidation_recent>>
vars == <<pm, pluginVars, timerVars, doc_rows, container_invalid, reports, shown, inputs>>

Tiles == 0..(pm.buffer.rows - 1)

\* The tiles of the current layout that show row r of the document.
TilesOfRow(r) == (r * pm.buffer.scale)..((r + 1) * pm.buffer.scale - 1)

\* The payload of INVALIDATE_TILES: a row of the document, or EMPTY, which is
\* everything, with or without the number of a page.
Empty == -1
EmptyPage == -2

Input(kind) == inputs < MaxInputs /\ kind \in Inputs /\ inputs' = inputs + 1
-----------------------------------------------------------------------------
(* What the handlers have in common. *)

\* A faulty Resize that keeps the bits and the owners.
ResizeKeeps(m, rows) == [m EXCEPT !.buffer.rows = rows]

\* TileBuffer::Resize and ResetScale.
Resize(m, rows) ==
    [m EXCEPT !.buffer.rows = rows, !.buffer.valid = {}, !.buffer.resident = {},
              !.buffer.fresh = {}]

ResetScale(m, scale) ==
    IF m.buffer.scale = scale THEN m
    ELSE [Resize(m, doc_rows * scale) EXCEPT !.buffer.scale = scale,
                                             !.buffer.context = NoContext]

\* InvalidateTilesInRect on a band of rows, unless it is a dry run.
InvalidateRows(m, y, height) ==
    [m EXCEPT !.buffer.valid = @ \ TilesIn(
        RangeInRect([x |-> 0, y |-> y, width |-> 1, height |-> height], 1, m.buffer.rows))]

RangeOfRows(m, y, height) ==
    RangeInRect([x |-> 0, y |-> y, width |-> 1, height |-> height], 1, m.buffer.rows)

\* OnGeometryChanged: the rectangle, cut to the height the document has now.
\* Nothing else computes available_area_ anew, not a zoom nor a new document
\* size.
AvailableHeight(height) == Lower(height, doc_rows * zoom)

\* Schedule what a range has in common with an area of that height at the
\* scroll position, if anything.
ScheduleInArea(m, range, height) ==
    LET limit == LimitIndex(1, scroll_y_position, height) IN
    IF Outside(range, limit) THEN m
    ELSE SchedulePaint(m, scroll_y_position, height, zoom, <<ClipRange(range, limit)>>)

ScheduleAvailableAreaPaint(m, invalidate, height) ==
    IF m.buffer.rows = 0 THEN m
    ELSE ScheduleInArea(IF invalidate THEN InvalidateRows(m, scroll_y_position, height) ELSE m,
                        RangeOfRows(m, scroll_y_position, height), height)
-----------------------------------------------------------------------------
\* RenderDocument has mounted a document in a plugin whose geometry is
\* known: the buffer has its size, and the container is to be painted.
Init ==
    /\ zoom \in Zooms /\ doc_rows \in DocRows /\ view_height \in ViewHeights
    /\ available_height = AvailableHeight(view_height)
    /\ pm = Manager(Buffer(zoom, doc_rows * zoom, 0))
    /\ scroll_y_position = 0
    /\ scale_pending = FALSE /\ scrolling = FALSE
    /\ update_debounce_timer = "none"
    /\ resume_posted = FALSE /\ full_invalidation_recent = FALSE
    /\ container_invalid = TRUE
    /\ reports = {} /\ shown = {}
    /\ inputs = 0
-----------------------------------------------------------------------------
(* The renderer thread. *)

\* What PaintToCanvas looks for, finds missing and draws.  The dry run asks
\* only whether a tile owns its slot.
Wanted == pm.buffer.y_pos..(Lower(pm.buffer.y_pos + view_height, pm.buffer.rows) - 1)
Missing == ExtendByMissing(<<>>, [i \in 1..Cardinality(Wanted) |-> pm.buffer.y_pos + i - 1],
                           pm.buffer.resident)
Drawn == { t \in Wanted : (scrolling \/ (Missing = <<>> /\ ~scale_pending))
                          /\ \A u \in Wanted : u <= t => u \in pm.buffer.resident }

\* Paint with a new scale pending: the old tiles have been used a last time.
PaintScaled ==
    /\ container_invalid
    /\ scale_pending
    /\ LET paused == IF update_debounce_timer # "none" /\ ~scrolling
                     THEN PausePaint(pm) ELSE pm
       IN  pm' = ScheduleAvailableAreaPaint(ResetScale(paused, zoom), TRUE, available_height)
    /\ shown' = {}
    /\ scale_pending' = FALSE /\ scrolling' = FALSE
    /\ container_invalid' = FALSE
    /\ UNCHANGED <<zoom, scroll_y_position, view_height, available_height, timerVars, doc_rows,
                   reports, inputs>>

\* A faulty Paint that does not schedule what is missing.
PaintForgetsMissing ==
    /\ container_invalid
    /\ ~scale_pending
    /\ pm' = ScheduleNextPaint(pm, <<>>)
    /\ shown' = Drawn \cap pm.buffer.fresh
    /\ scrolling' = FALSE
    /\ container_invalid' = FALSE
    /\ UNCHANGED <<zoom, scroll_y_position, view_height, available_height, scale_pending,
                   timerVars, doc_rows, reports, inputs>>

\* Paint otherwise: draw, then go on with the missing tiles.
Paint ==
    /\ container_invalid
    /\ ~scale_pending
    /\ LET paused == IF update_debounce_timer # "none" /\ ~scrolling
                     THEN PausePaint(pm) ELSE pm
           next   == ScheduleNextPaint(paused, Missing)
       IN  pm' = IF next.current_task = NoTask /\ Missing # <<>>
                 THEN ScheduleAvailableAreaPaint(next, TRUE, available_height) ELSE next
    /\ shown' = Drawn \cap pm.buffer.fresh
    /\ scrolling' = FALSE
    /\ container_invalid' = FALSE
    /\ UNCHANGED <<zoom, scroll_y_position, view_height, available_height, scale_pending,
                   timerVars, doc_rows, reports, inputs>>

\* The position is cut to the document; the range around it is painted.
UpdateScroll(y_position) ==
    /\ Input("scroll")
    /\ LET y     == Lower(y_position, Higher(doc_rows * zoom - view_height, 0))
           range == NextScrollTileRange(1, pm.buffer.rows, y, view_height)
           moved == ResumePaint([pm EXCEPT !.buffer.y_pos = y], FALSE)
       IN  /\ scroll_y_position' = y
           /\ pm' = SchedulePaint(moved, y, view_height, zoom, <<range>>)
    /\ shown' = {}
    /\ scrolling' = TRUE
    /\ UNCHANGED <<zoom, view_height, available_height, scale_pending, timerVars, doc_rows,
                   container_invalid, reports>>

SetZoom(new) ==
    /\ Input("zoom")
    /\ new # zoom
    /\ zoom' = new
    /\ scroll_y_position' = (new * scroll_y_position) \div zoom
    /\ scale_pending' = TRUE
    /\ pm' = [pm EXCEPT !.buffer.context = NoContext]
    /\ container_invalid' = TRUE
    /\ shown' = {}
    /\ UNCHANGED <<view_height, available_height, scrolling, timerVars, doc_rows, reports>>

\* A new rectangle, perhaps of the same height: the available area is cut to
\* the document, but only a new height asks for a paint.
OnViewportChanged(height) ==
    /\ Input("viewport")
    /\ view_height' = height
    /\ available_height' = AvailableHeight(height)
    /\ pm' = IF height = view_height THEN pm
             ELSE ScheduleAvailableAreaPaint(pm, FALSE, AvailableHeight(height))
    /\ container_invalid' = TRUE
    /\ UNCHANGED <<zoom, scroll_y_position, scale_pending, scrolling, timerVars, doc_rows,
                   reports, shown>>

\* The host invalidates the container for reasons of its own.
Expose ==
    /\ Input("expose")
    /\ container_invalid' = TRUE
    /\ UNCHANGED <<pm, pluginVars, timerVars, doc_rows, reports, shown>>

\* A faulty HandleInvalidateRect that schedules the range but keeps its bits.
HandleInvalidateRectKeepsBits(r) ==
    /\ r \in reports \ {Empty, EmptyPage}
    /\ reports' = reports \ {r}
    /\ LET scale == pm.buffer.scale
           range == RangeOfRows(pm, r * scale, scale)
           limit == LimitIndex(1, scroll_y_position, available_height)
       IN  /\ pm' = ScheduleInArea(pm, range, available_height)
           /\ resume_posted' = (resume_posted \/ ~Outside(range, limit))
    /\ UNCHANGED <<pluginVars, update_debounce_timer, full_invalidation_recent, doc_rows,
                   container_invalid, shown, inputs>>

\* HandleInvalidateTiles, for a rectangle: the row's tiles are reset; those
\* in view are scheduled, and the debounce timer is restarted by a task.
HandleInvalidateRect(r) ==
    /\ r \in reports \ {Empty, EmptyPage}
    /\ reports' = reports \ {r}
    /\ LET scale == pm.buffer.scale
           range == RangeOfRows(pm, r * scale, scale)
           limit == LimitIndex(1, scroll_y_position, available_height)
       IN  /\ pm' = ScheduleInArea(InvalidateRows(pm, r * scale, scale), range,
                                   available_height)
           /\ resume_posted' = (resume_posted \/ ~Outside(range, limit))
    /\ UNCHANGED <<pluginVars, update_debounce_timer, full_invalidation_recent, doc_rows,
                   container_invalid, shown, inputs>>

\* HandleInvalidateTiles, for everything: the view, and only the view, is
\* reset and scheduled; within 10 ms of the last one, or with a page number
\* that is not last_intersect_ (either may be the case), it is ignored.
HandleInvalidateEmpty(r) ==
    /\ r \in reports \cap {Empty, EmptyPage}
    /\ ~full_invalidation_recent
    /\ reports' = reports \ {r}
    /\ pm' = ScheduleAvailableAreaPaint(pm, TRUE, available_height)
    /\ resume_posted' = TRUE
    /\ full_invalidation_recent' = TRUE
    /\ UNCHANGED <<pluginVars, update_debounce_timer, doc_rows, container_invalid, shown, inputs>>

IgnoreInvalidateEmpty(r) ==
    /\ r \in reports \cap {Empty, EmptyPage}
    /\ full_invalidation_recent \/ r = EmptyPage
    /\ reports' = reports \ {r}
    /\ UNCHANGED <<pm, pluginVars, timerVars, doc_rows, container_invalid, shown, inputs>>

\* LOK_CALLBACK_DOCUMENT_SIZE_CHANGED.
HandleDocumentSizeChanged(rows) ==
    /\ Input("size")
    /\ rows # doc_rows
    /\ doc_rows' = rows
    /\ pm' = Resize(pm, rows * pm.buffer.scale)
    /\ shown' = {}
    /\ UNCHANGED <<pluginVars, timerVars, container_invalid, reports>>

InvalidateAllTiles ==
    /\ Input("invalidate")
    /\ pm' = [pm EXCEPT !.buffer.context = NoContext, !.buffer.valid = {}]
    /\ UNCHANGED <<pluginVars, timerVars, doc_rows, container_invalid, reports, shown>>

\* DebounceUpdates with a positive interval, and with zero.
DebounceUpdates ==
    /\ Input("debounce")
    /\ update_debounce_timer' = "running"
    /\ pm' = PausePaint(pm)
    /\ UNCHANGED <<pluginVars, resume_posted, full_invalidation_recent, doc_rows,
                   container_invalid, reports, shown>>

StopDebouncing ==
    /\ Input("stop_debouncing")
    /\ update_debounce_timer # "none"
    /\ update_debounce_timer' = "none"
    /\ UNCHANGED <<pm, pluginVars, resume_posted, full_invalidation_recent, doc_rows,
                   container_invalid, reports, shown>>

TryResumePaint ==
    /\ resume_posted
    /\ resume_posted' = FALSE
    /\ update_debounce_timer' = IF update_debounce_timer = "none" THEN "none" ELSE "running"
    /\ UNCHANGED <<pm, pluginVars, full_invalidation_recent, doc_rows, container_invalid,
                   reports, shown, inputs>>

DebouncedResumePaint ==
    /\ update_debounce_timer = "running"
    /\ update_debounce_timer' = "stopped"
    /\ pm' = ResumePaint(pm, TRUE)
    /\ UNCHANGED <<pluginVars, resume_posted, full_invalidation_recent, doc_rows,
                   container_invalid, reports, shown, inputs>>

TenMillisecondsPass ==
    /\ full_invalidation_recent
    /\ full_invalidation_recent' = FALSE
    /\ UNCHANGED <<pm, pluginVars, update_debounce_timer, resume_posted, doc_rows,
                   container_invalid, reports, shown, inputs>>
-----------------------------------------------------------------------------
(* The thread pool. *)

Work(post, job) ==
    /\ pm' = VisitTile(pm, post, job)
    /\ UNCHANGED <<pluginVars, timerVars, doc_rows, container_invalid, reports, shown, inputs>>

BarrierCheck(post) ==
    /\ post.left = 0 /\ ~post.calling
    /\ pm' = CompletedCheck(pm, post)
    /\ UNCHANGED <<pluginVars, timerVars, doc_rows, container_invalid, reports, shown, inputs>>

\* InvalidatePluginContainer, and the InvalidateWeakContainer it posts.
BarrierCall(post) ==
    /\ post.calling
    /\ pm' = CompletedCall(pm, post)
    /\ container_invalid' = TRUE
    /\ UNCHANGED <<pluginVars, timerVars, doc_rows, reports, shown, inputs>>
-----------------------------------------------------------------------------
(* External: LOK changes a row of the document, or all of it, and reports. *)

EditRow(r) ==
    /\ Input("edit")
    /\ pm' = [pm EXCEPT !.buffer.fresh = @ \ TilesOfRow(r)]
    /\ shown' = shown \ TilesOfRow(r)
    /\ reports' = reports \cup {r}
    /\ UNCHANGED <<pluginVars, timerVars, doc_rows, container_invalid>>

EditAll(report) ==
    /\ Input("edit_all")
    /\ pm' = [pm EXCEPT !.buffer.fresh = {}]
    /\ shown' = {}
    /\ reports' = reports \cup {report}
    /\ UNCHANGED <<pluginVars, timerVars, doc_rows, container_invalid>>
-----------------------------------------------------------------------------
Handlers ==
    \/ PaintScaled \/ Paint
    \/ \E r \in reports : \/ HandleInvalidateRect(r)
                           \/ HandleInvalidateEmpty(r) \/ IgnoreInvalidateEmpty(r)
    \/ TryResumePaint \/ DebouncedResumePaint \/ TenMillisecondsPass

Pool ==
    \E post \in pm.posts :
        \/ \E job \in post.jobs : Work(post, job)
        \/ BarrierCheck(post)
        \/ BarrierCall(post)

\* Input after which the plugin always paints by itself.
ScrollOrEdit ==
    \/ \E y \in 0..(doc_rows * zoom) : UpdateScroll(y)
    \/ \E r \in 0..(doc_rows - 1) : EditRow(r)

Environment ==
    \/ ScrollOrEdit
    \/ \E z \in Zooms : SetZoom(z)
    \/ \E h \in ViewHeights : OnViewportChanged(h)
    \/ \E d \in DocRows : HandleDocumentSizeChanged(d)
    \/ Expose \/ InvalidateAllTiles
    \/ DebounceUpdates \/ StopDebouncing
    \/ \E report \in {Empty, EmptyPage} : EditAll(report)

Next == Handlers \/ Pool \/ Environment

\* The renderer thread runs every task that is posted to it, the timer fires
\* and the thread pool runs every job; input need never come.  This is weak
\* fairness of the handlers and of Pool, with what enables them spelled out
\* where that is cheaper to check: an invalid container is painted only by
\* Paint or PaintScaled, a report is removed only by its handler, and Pool is
\* enabled while there are posts.
Fairness ==
    /\ WF_vars(TryResumePaint)
    /\ []<>~container_invalid
    /\ []<>(reports = {})
    /\ []<>(update_debounce_timer # "running")
    /\ []<>(pm.posts = {}) \/ []<><<Pool>>_vars

Spec == Init /\ [][Next]_vars
FairSpec == Spec /\ Fairness
-----------------------------------------------------------------------------
\* Types.
TypeOK ==
    /\ zoom \in Zooms /\ doc_rows \in DocRows /\ view_height \in ViewHeights
    /\ available_height \in 1..view_height
    /\ scroll_y_position \in Nat
    /\ pm.buffer.valid \subseteq Tiles /\ pm.buffer.fresh \subseteq Tiles
    /\ pm.buffer.resident \subseteq Tiles
    /\ pm.buffer.context \in Zooms \cup {NoContext}
    /\ shown \subseteq Tiles
    /\ update_debounce_timer \in {"none", "stopped", "running"}

\* The count of a barrier never runs out before its jobs do: its closure runs
\* once, after the last of the tiles it was made for, and no job runs it
\* again.  That takes SimplifyRanges to leave no overlap and TileCount to
\* agree with the tiles PaintTileRange visits.
BarriersCountTheirTiles ==
    \A post \in pm.posts :
        post.left >= Cardinality(UNION { TilesIn(job) : job \in post.jobs })

\* The screen shows the document as it is.
ScreenIsCurrent ==
    /\ ~scale_pending
    /\ Wanted \subseteq shown

\* libreoffice.d.ts: "Debounces updates that cause paints at a provided
\* interval".  A debounced update is delayed, not lost: once input stops, the
\* screen comes to show the document.
DebouncedUpdatesArePainted == <>[]ScreenIsCurrent
==============================================================================
