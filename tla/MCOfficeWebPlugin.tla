-------------------------- MODULE MCOfficeWebPlugin --------------------------
(***************************************************************************)
(* The plugin with a history variable that tells the inputs after which it *)
(* paints by itself from the others.                                       *)
(***************************************************************************)
EXTENDS OfficeWebPlugin

VARIABLE owed   \* what the plugin does not do for the screen by itself

mcVars == <<vars, owed>>

MCInit == Init /\ owed = {}

\* After a zoom or a new document size, the available area is smaller than
\* what can be seen of the document; a new height of the view makes up for it.
AreaOwed ==
    IF available_height' < Lower(view_height', doc_rows' * zoom') THEN {"area"} ELSE {}

\* A new document size and InvalidateAllTiles clear tiles and drop the jobs
\* under way, but neither schedules a paint nor invalidates the container:
\* the host has to expose it.  A debounced paint may stay paused.  A full
\* invalidation resets the view alone and may be ignored.
MCNext ==
    \/ (Handlers \/ Pool \/ ScrollOrEdit \/ StopDebouncing) /\ owed' = owed
    \/ (\E z \in Zooms : SetZoom(z)) /\ owed' = owed \cup AreaOwed
    \/ OnViewportChanged(view_height) /\ owed' = owed
    \/ (\E h \in ViewHeights \ {view_height} : OnViewportChanged(h)) /\ owed' = owed \ {"area"}
    \/ (\E d \in DocRows : HandleDocumentSizeChanged(d)) /\ owed' = owed \cup {"expose"} \cup AreaOwed
    \/ InvalidateAllTiles /\ owed' = owed \cup {"expose"}
    \/ Expose /\ owed' = owed \ {"expose"}
    \/ DebounceUpdates /\ owed' = owed \cup {"resume"}
    \/ (\E report \in {Empty, EmptyPage} : EditAll(report)) /\ owed' = owed \cup {"reset"}
MCSpec == MCInit /\ [][MCNext]_mcVars /\ Fairness

\* What a run can afford of it: three rows of tiles, and a view of several
\* rows only as long as nothing but paints of the host is owed.
Affordable ==
    /\ doc_rows * zoom <= 3
    /\ view_height > 1 => owed \subseteq {"area", "expose"}
BoundedInit == MCInit /\ Affordable
BoundedNext == MCNext /\ Affordable'
BoundedSpec == BoundedInit /\ [][BoundedNext]_mcVars /\ Fairness
-----------------------------------------------------------------------------
\* A tile that is marked valid shows the document as it is, or the callback
\* that will reset it is still under way: whatever HandleInvalidateTiles,
\* zooms, resizes, pauses and late jobs do to the bits, none is left set
\* wrongly.  The exception is a full invalidation.
ValidTilesAreCurrent ==
    "reset" \notin owed =>
        \A t \in pm.buffer.valid \ pm.buffer.fresh :
            \E r \in reports : t \in TilesOfRow(r)

\* No task goes beyond the end of the buffer.
TasksAreInDocument ==
    \A task \in {pm.current_task, pm.next_task} \ {NoTask} :
        \A i \in DOMAIN task.tile_ranges : task.tile_ranges[i].index_end < pm.buffer.rows

\* Once input stops, the screen comes to show the document and goes on
\* showing it, whatever order the jobs, barriers, callbacks and paints of the
\* last inputs run in; after a new document size or InvalidateAllTiles, once
\* the host has exposed the plugin.  The exceptions: SetZoom moves
\* scroll_y_position_ but not the y_pos_ of the buffer, and the two agree
\* again only after the next UpdateScroll; a zoom or a new size leaves
\* available_area_ as it was, and what it does not cover is not painted before
\* the view has a new height; a document that shrinks leaves tasks beyond its
\* end, whose jobs give up; and after DebounceUpdates or a full invalidation
\* nothing is promised.
ScreenSettles ==
    <>[](pm.buffer.y_pos = scroll_y_position /\ owed = {} /\ TasksAreInDocument)
        => <>[]ScreenIsCurrent
==============================================================================
