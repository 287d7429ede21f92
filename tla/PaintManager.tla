---------------------------- MODULE PaintManager ----------------------------
(***************************************************************************)
(* paint_manager.{h,cc}: decides which tiles the thread pool paints.  The  *)
(* renderer thread holds at most a current and a next task; a task that is *)
(* posted becomes one job per range, and the jobs share a barrier that     *)
(* asks the container for a repaint when the last tile has been visited.   *)
(*                                                                         *)
(* The operations are operators on the manager's state, a record pm, so    *)
(* that a handler of the plugin, which calls several of them, is one step. *)
(* pm.buffer is what the manager sees of client_->GetTileBuffer(): the     *)
(* geometry, the bits and the owners.  PaintTile is one step here;         *)
(* TileBuffer splits it.  There is one document, one column of tiles, and  *)
(* a pool no smaller than the document, so that no tile loses its slot;    *)
(* the active context is then the scale of the task it was set for.        *)
(***************************************************************************)
EXTENDS TileRanges, FiniteSets

CONSTANTS NoTask,       \* an empty std::unique_ptr<Task>
          NoContext     \* context hash 0

\* valid: valid_tile_; resident: the tiles that own their slot; fresh
\* (external): the tiles whose image shows what the document contains now.
Buffer(scale, rows, y_pos) ==
    [scale |-> scale, rows |-> rows, y_pos |-> y_pos, context |-> NoContext,
     valid |-> {}, resident |-> {}, fresh |-> {}]

\* The manager as it is constructed.  A post is one execution of
\* PostCurrentTask: the ranges its jobs still have to visit, the count of its
\* barrier, and the flags its closures hold.
Manager(buffer) ==
    [current_task |-> NoTask, next_task |-> NoTask, skip_render |-> FALSE,
     posts |-> {}, buffer |-> buffer]

Unused(ids) == CHOOSE i \in 1..(Cardinality(ids) + 1) : i \notin ids

\* A task has an id, which stands for its two flags: they are created with
\* the task and always set together.
TaskId(pm) == Unused({ t.id : t \in {pm.current_task, pm.next_task} \ {NoTask} }
                        \cup { p.task : p \in pm.posts })

Task(pm, y_pos, view_height, scale, ranges) ==
    [id |-> TaskId(pm), y_pos |-> y_pos, view_height |-> view_height,
     scale |-> scale, tile_ranges |-> ranges]

\* CancelFlag::Set on the flags of a task, as its posts see them.
CancelTask(pm, task) ==
    [pm EXCEPT !.posts = { IF p.task = task.id THEN [p EXCEPT !.cancelled = TRUE] ELSE p
                           : p \in pm.posts }]
-----------------------------------------------------------------------------
(* The renderer thread. *)

\* A faulty PostCurrentTask whose barrier counts the ranges, not their
\* tiles.
PostCurrentTaskCountsRanges(pm) ==
    IF pm.skip_render \/ pm.current_task = NoTask \/ pm.buffer.rows = 0
    THEN pm
    ELSE [pm EXCEPT
            !.buffer.context = pm.current_task.scale,
            !.posts = @ \cup {
                [id |-> Unused({ p.id : p \in pm.posts }), task |-> pm.current_task.id,
                 context |-> pm.current_task.scale,
                 jobs |-> ToSet(SimplifyRanges(pm.current_task.tile_ranges)),
                 left |-> Len(pm.current_task.tile_ranges),
                 cancelled |-> FALSE, silenced |-> FALSE, calling |-> FALSE]}]

PostCurrentTask(pm) ==
    IF pm.skip_render \/ pm.current_task = NoTask \/ pm.buffer.rows = 0
    THEN pm
    ELSE LET ranges == SimplifyRanges(pm.current_task.tile_ranges) IN
         [pm EXCEPT
            !.buffer.context = pm.current_task.scale,
            !.posts = @ \cup {
                [id |-> Unused({ p.id : p \in pm.posts }), task |-> pm.current_task.id,
                 context |-> pm.current_task.scale,
                 jobs |-> ToSet(ranges), left |-> TileCount(ranges),
                 cancelled |-> FALSE, silenced |-> FALSE, calling |-> FALSE]}]

\* Same document, same scale, and "overlapping", which holds both ways only
\* where the two views start at the same row.
CanMergeWith(task, other) ==
    /\ task.scale = other.scale
    /\ other.y_pos >= task.y_pos /\ other.y_pos < task.y_pos + task.view_height
    /\ task.y_pos >= other.y_pos /\ task.y_pos < other.y_pos + other.view_height

\* A task with ranges added, clipped to its own view.
MergeWith(pm, task, ranges) ==
    Task(pm, task.y_pos, task.view_height, task.scale,
         SimplifyRanges(ClipRanges(task.tile_ranges \o ranges,
                                   LimitIndex(1, task.y_pos, task.view_height))))

\* The two steps that merge: the missing tiles, then what is left of the
\* current task; the third merge only clips.
WithMissing(pm, ranges) ==
    LET base == IF pm.next_task # NoTask THEN pm.next_task ELSE pm.current_task
    IN  IF ranges # <<>> /\ base # NoTask THEN MergeWith(pm, base, ranges) ELSE pm.next_task

WithRemaining(pm, next) ==
    IF next = NoTask \/ pm.current_task = NoTask THEN next
    ELSE LET remaining == InvalidRangesRemaining(pm.current_task.tile_ranges,
                              pm.buffer.rows + 1, pm.buffer.valid, pm.buffer.resident)
         IN  IF CanMergeWith(pm.current_task, next) /\ remaining # <<>>
             THEN MergeWith(pm, next, remaining) ELSE next

\* The loop that compares the ranges stops at the end of the current task's.
IsSameTask(current, next) == IsPrefix(current.tile_ranges, next.tile_ranges)

\* Replaces the current task by the next one, or by none.  The flags of the
\* old one are set only if it was for another scroll position.
ReplaceCurrent(pm, next) ==
    LET current  == pm.current_task
        scrolled == /\ next # NoTask /\ current # NoTask
                    /\ ~IsSameTask(current, next)
                    /\ current.y_pos # next.y_pos
        settled  == IF scrolled THEN CancelTask(pm, current) ELSE pm
    IN  PostCurrentTask([settled EXCEPT !.current_task = next, !.next_task = NoTask])

\* The result of the call is whether there is a current task now.
ScheduleNextPaint(pm, ranges) ==
    LET merged == WithRemaining(pm, WithMissing(pm, ranges))
    IN  ReplaceCurrent(pm, IF merged = NoTask THEN NoTask ELSE MergeWith(pm, merged, <<>>))

\* Nothing scheduled: start at once, with the ranges as given.  Otherwise the
\* ranges become the next task, joined with those of a next task that waits.
SchedulePaint(pm, y_pos, view_height, scale, ranges) ==
    IF pm.current_task = NoTask
    THEN PostCurrentTask([pm EXCEPT !.current_task =
                              Task(pm, y_pos, view_height, scale, ranges)])
    ELSE LET joined == IF pm.next_task = NoTask THEN ranges
                       ELSE ranges \o pm.next_task.tile_ranges \o pm.current_task.tile_ranges
         IN  ScheduleNextPaint(
                 [pm EXCEPT !.next_task =
                      Task(pm, y_pos, view_height, scale, SimplifyRanges(joined))], <<>>)

PausePaint(pm) == [pm EXCEPT !.skip_render = TRUE]

ResumePaint(pm, paint_next) ==
    LET resumed == [pm EXCEPT !.skip_render = FALSE] IN
    IF ~paint_next THEN resumed
    ELSE PostCurrentTask(
             IF resumed.current_task # NoTask THEN resumed
             ELSE [resumed EXCEPT !.current_task = pm.next_task, !.next_task = NoTask])
-----------------------------------------------------------------------------
(* The thread pool. *)

\* TileBuffer::PaintTile: what it leaves in the buffer and what it returns.
\* A cancelled task still takes the slot.
PaintTile(buffer, tile, context, cancelled) ==
    IF buffer.context # context \/ tile > buffer.rows - 1
    THEN [buffer |-> [buffer EXCEPT !.valid = {}], result |-> FALSE]
    ELSE IF ~cancelled /\ tile \notin buffer.valid
         THEN [buffer |-> [buffer EXCEPT !.resident = @ \cup {tile}, !.valid = @ \cup {tile},
                                         !.fresh = @ \cup {tile}],
               result |-> TRUE]
         ELSE [buffer |-> [buffer EXCEPT !.resident = @ \cup {tile}],
               result |-> tile \in buffer.valid]

\* One turn of PaintTileRange, for one job of a post: paint the tile, count
\* down the barrier, and go on unless the tile failed or was the last one.
\* A post that can no longer reach the end of its barrier is dropped.
VisitTile(pm, post, job) ==
    LET tile  == job.index_start
        paint == PaintTile(pm.buffer, tile, post.context, post.cancelled)
        rest  == IF paint.result /\ tile < job.index_end
                 THEN {TileRange(tile + 1, job.index_end)} ELSE {}
        later == [post EXCEPT !.jobs = (@ \ {job}) \cup rest, !.left = @ - 1]
        kept  == { p \in {later} : p.jobs # {} \/ p.left = 0 }
    IN  [pm EXCEPT !.buffer = paint.buffer, !.posts = (@ \ {post}) \cup kept]

\* The barrier's closure reads the two flags ...
CompletedCheck(pm, post) ==
    [pm EXCEPT !.posts = (@ \ {post}) \cup
        { p \in {[post EXCEPT !.calling = TRUE]} : ~post.silenced /\ ~post.cancelled }]

\* ... and then calls client->InvalidatePluginContainer().
CompletedCall(pm, post) == [pm EXCEPT !.posts = @ \ {post}]
=============================================================================
