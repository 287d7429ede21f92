# Verification of electron-libreoffice

The repository adds to Electron a plugin that renders office documents with
LibreOfficeKit (LOK), in `src/electron/office`; the rest is Electron's own shell,
in `src/electron/shell` and `src/electron/lib`. This directory holds TLA+ models
of the office code and of those services of the shell that keep state across
callbacks, processes and threads, TLC configurations that check them, and TLAPS
proofs.

## The system

A page creates an office client, loads a document, gets a document client, and
hands it to an `<embed>` element whose plugin renders it. Three kinds of thread
take part: the renderer thread (JavaScript, layout, painting), the thread pool
(rasterizing tiles, starting LOK, loading and saving) and LOK's own callbacks,
which are posted back to the renderer thread through observer lists.

| Component | State | Operations | Interacts with |
|---|---|---|---|
| Tile ranges (`lok_tilebuffer`) | none | simplify, count, clip, limit to a view, range of a rectangle | paint manager, plugin |
| Atomic bitset | containers of 64 bits | set, reset, reset a range, clear | tile buffer, from all threads, no lock |
| Tile buffer | layout, active context, valid bits, a pool of slots with owner, pixels and image | paint a tile (pool), invalidate, resize, rescale, draw (renderer) | bitset, LOK, paint manager |
| Paint manager | current and next task, pause flag; posted jobs and their barriers | schedule, merge, post, pause, resume | tile buffer, thread pool, plugin |
| Office web plugin | zoom, scroll position, geometry, pending scale, debounce timer | paint, scroll, zoom, viewport, invalidation, size change, debounce, mount, destroy | all of the above, the document client |
| Office instance | the LOK office, the observers | create, initialize (pool), unset, add and remove observers, dispatch callbacks | office clients, document clients |
| Office client | loaded signal, waiting loads | load a document, be told of the office, be destroyed | office instance, JavaScript |
| Document holder | a LOK document and its views by reference | new view, post work to the pool, observers | document client, tile buffer |
| Document client | mounts, readiness, buffered state changes, listeners, a renderer to restore | mount, unmount, remount, events, save, commands | office instance, plugin, JavaScript |
| Callback payloads, keys, promises, V8 glue | none | parse, format, translate | all |

Around it, the main process of Electron serves pages and JavaScript. Its
services run on the UI thread and are driven by messages of other processes, by
tasks of other threads and by JavaScript, which may call back into them from
within every event and every settled promise:

| Service | State | Driven by |
|---|---|---|
| Permission manager | requests with the permissions still open | pages, the application's handler, frames that go |
| Debugger | the agent's session, promises of commands | JavaScript, the DevTools agent |
| Net log | the exporter, the promise of a start | JavaScript, a file opened elsewhere, the network service |
| Proxy lookup | a queue and one pipe | callers, the network service |
| Node stream loader | what is read and written | a Node stream, a data pipe, the client |
| Quitting (`browser.cc`, windows) | quit and exit flags, the window list, the calls on the stack | events that run JavaScript, pages |
| Node bindings | who has libuv's loop | the main thread, the polling thread, script contexts |
| Web requests, WebSockets | a request, its paused pipes, the listener that is asked | the page, the network service, listeners |
| Asar loader | range, block and hash so far | sniffing, ranges, chunks |
| Web frames | a raw pointer to a host, a pipe to its renderer | navigations, crashes, deletions |
| HID chooser | devices shown, permissions | the device service, JavaScript, frames |
| Message ports | ends of pipes, started, closed, pinned | JavaScript, pipes, the garbage collector |
| Net requests | body, its getter, the response and its reader | Node's streams, the network service |
| Downloads | the object, the download, the target path | Chromium's download, the dialog, the garbage collector |

What is hard in it: tiles are painted by several threads into a shared pool
without a lock while the renderer thread invalidates, resizes and draws it; a
task that is replaced keeps its jobs running; LOK reports a change some time
after it made it; painting can be paused by one handler and must be resumed by
another; the office starts on another thread while clients register with it;
clients, views and plugins are dropped in any order by the page, the layout, the
garbage collector and an unload, while events for them are posted. In the
services: re-entrance, answers that come when who asked is gone or has asked
anew, pipes that are paused by one step and must be resumed by another, and
objects with different lifetimes that point at each other.

What makes it correct: a tile that is marked valid shows the document (tile
buffer); every dirty or visible tile is scheduled and counted once (ranges,
paint manager); no update of a bit is lost (bitset); once input stops, the
screen shows the document (plugin); every client is told once that the office
is there and every load is settled (instance, client); a client that is shown
is kept, observers are there when they are called, a renderer is restored by
one plugin and for its own document, and early state changes are reported once
(document client); a request of a page or of JavaScript is answered once, by what
was decided for it, and work that was begun is concluded (services).

## The modules

* `TileRanges` - the arithmetic of tile indices as pure operators. One operator
  per function of `lok_tilebuffer.cc`; loops are folds. `MCTileRanges` extends it,
  calls each of them with every argument up to its bounds (`RangesAssumption`)
  and compares with a reference definition.
* `AtomicBitset` - one action per access to a container, so that `ResetRange`
  and `Clear` are several steps. A word is the set of its 1 bits, and the masks
  are built with shifts that take their count modulo the width, as the compiled
  code does for the one shift by an unreduced index. History variables record
  which bits were set since a call began and which thread made a step.
* `TileBuffer` - `PaintTile` on any number of workers, split at every access
  that another thread can observe, against the renderer's invalidations,
  context changes, and the parts of `Resize` and `ResetScale`. `PaintTile` reads
  `columns_` and `scale_` more than once before LOK paints (`IndexToCoord`,
  `ReadScale`), and pixels are abstracted to the tile, the values of the two
  that its place was computed from, and the content version they show. `Edit`
  is external: LOK changes a tile and reports it; `InvalidateTiles` handles the
  report. The flag `disturbed` of a worker and the set `spoiled` are history
  variables that name the three races the code does have: a tile is published
  although it was reset, or its slot written, while its pixels were under way;
  or although the document was resized or zoomed since its place was read; or
  another tile is published in the slot of a valid one.
* `TileBufferProofs`, `DocumentClientProofs` - the theorems about the module of
  that name. `TileRangesProofs` - lemmas on what the operators of `TileRanges`
  return, which `TileStructuresProofs` (bitset and ranges, the two halves of
  `MCTileStructures`) and `OfficeWebPluginProofs` use.
* `PaintManager` - the manager's operations as operators on a record, because
  handlers of the plugin call several of them in one step on one thread; the
  jobs and barriers that run on the pool are its `VisitTile`, `CompletedCheck`
  and `CompletedCall`. It uses `TileRanges` for every range it handles.
* `OfficeWebPlugin` - composes the manager with the handlers of the plugin, one
  action each: `PaintScaled` and `Paint` are the two branches of `Paint`,
  `HandleInvalidateRect`, `HandleInvalidateEmpty` and `IgnoreInvalidateEmpty`
  those of `HandleInvalidateTiles`, `DebounceUpdates` and `StopDebouncing`
  those of `DebounceUpdates`. `PaintToCanvas` is `Wanted`, `Missing` and
  `Drawn`. The heights of `plugin_rect_`, from which is drawn, and of
  `available_area_`, for which is scheduled, are two variables: only
  `OnViewportChanged` cuts the latter to the document. A tile is one unit high
  at every scale and there is one column. `MCOfficeWebPlugin` adds a history
  variable of the paints that are owed (`MCSpec`, which the proofs are about);
  `BoundedSpec` is what its run explores of that.
* `OfficeInstance` - `Create`, the steps of `Initialize`, `Unset` and
  `AddLoadObserver`, which read and write `instance_` without a lock, and of the
  office clients that wait: deferred loads, `OnLoaded`, destruction.
* `DocumentClient` - document clients, the views and observers of documents
  (`document_holder.cc`, `office_instance.cc`) and the part of the plugin that
  shows a client. A client stands for its view as well. `RenderDocument` and
  `RestoreDocument` are the two branches of `RenderDocument`; `Delete` is the
  destructor, reached by the garbage collector (`Collect`) and by an unload
  (`OnDestroyedClient`). The renderer thread runs posted tasks in order, but the
  tasks of one `Notify` in any order. Of a renderer only the tile buffer is
  followed, and of that only whose tiles it shows. `is_ready_` starts with any
  value, as the constructor leaves it uninitialized.

Of the shell, one module per service, in which one action is a call, an event, a
message or a task. Where JavaScript can run in the middle of a function, the
function is cut there, and what is still to be done is part of the state (the
stack of `Browser`, `running` of `ProxyingRequest`, `clearing` of `Debugger`,
`completing` of `ProxyLookup`, `resuming` of `NetRequest`).

* `PermissionManager`, `Debugger`, `NetLog`, `ProxyLookup` - the four that keep
  callbacks or promises.
* `NodeStreamLoader`, `NetRequest`, `AsarLoader` - bodies: the chunks of a stream,
  of an upload and of a response, and the bytes of an archive.
* `ProxyingRequest`, `ProxyingWebSocket` - what the webRequest listeners see of
  requests and of handshakes.
* `Browser` - how the application quits. `NodeBindings` - the loop that two
  threads hand to each other.
* `WebFrameMain`, `DownloadItem`, `MessagePort`, `HidChooser` - objects that follow
  something that lives elsewhere.
* `RequestService` - the abstract specification of the services that take
  requests: a request is new, pending, and then answered or dropped, once.
  Each service defines `Status`, what has become of its requests, and
  `RequestsAreAnsweredOnce` instantiates `RequestService` with it.
* `MCServices` - all of them in one module. They share no state, so `part` says
  which one is explored while the others stay in their initial states; the
  state space is the sum, not the product. An invariant speaks of the part it
  belongs to.
* `ServicesProofs` (promises, callbacks, turns; the office instance; streams, net
  requests, HID devices), `ObjectProofs` (frames, downloads, windows, message
  ports, the bytes of an archive), `RequestProofs` (web requests, WebSockets; the
  types of all parts; that they implement `RequestService`) - the theorems about
  the parts of `MCServices`.

The definitions named "A faulty ..." in front of an operator are mutations of
it: each shows that a property notices a plausible mistake in that operator.
They take no part in any specification.

## The runs

| Run | Checks | Bounds |
|---|---|---|
| `structures` | a reset that returned is complete up to bits set since, and no step changes a bit outside its own call; lists of ranges are simplified to the same tiles without overlap and counted right; what remains, what is clipped, what a rectangle and a scroll position cover | two threads, three containers of two bits, the last one partly used: all shapes of range; indices to 4, three ranges, sides and positions of a few pixels: every relative position of two ranges, and of a rectangle to a tile border |
| `tiles` | types, slots, and the freshness of valid tiles with edits and across resizes | two workers, two slots and three layouts: three tiles in one column, two in two columns at the same scale, one at another; four `PaintTile` calls, or two and an edit, or two and a resize, or one and two resizes, there and back (1.3 million states) |
| `tile_stale` | violated: the check after rasterization keeps stale tiles out | two `PaintTile` calls, one edit |
| `tile_bounds` | violated: `Set` is in bounds | one resize |
| `plugin` | types; barriers count their tiles; a valid tile is current or its report is under way; once input stops the screen shows the document | any two inputs of ten kinds, two zooms, documents of one or three rows, views one or three rows high, also higher than the document; three rows of tiles at most (1.1 million states) |
| `plugin_debounce` | violated: debounced updates are painted | debounce, edit, expose, three inputs |
| `documents` | types and no negative mount count; shown clients are mounted and live, observers are live, registered types are observed, tile buffers have one owner and show the right document, early state changes are reported once and in order | two clients of one or two documents, two plugins, any three of render, listen, event and unload, with any creation, destruction and collection in between |
| `instance_lost` | violated: a client added after Create is told | two clients |
| `services` | the sixteen parts, see below | two or three of each thing that is counted (120,000 states) |
| `net_log` | violated: a log whose exporter is gone has its promise settled | two logs |
| `web_request` | violated: a preflight is not redirected | two redirects |
| `websocket` | violated: a challenge is answered | one handshake |

`services` checks of every part its types, and that what is asked for is done in
the end (`WorkConcludes`); of every part with requests that it implements
`RequestService` (`RequestsAreAnsweredOnce`); and of each part what it is for:

| Property | Part |
|---|---|
| `ToldOnce` | office instance: a client is told once, not before there is an office |
| `AnswersAreDecided` | permissions: an answer is what was decided on each; lookups: the answer goes to the request it was made for |
| `CommandsAreKept` | debugger: no promise is forgotten, also in the loop that rejects them |
| `LogsAreTheirOwn` | net log: files and replies are those of the log in progress |
| `BodyIsComplete` | streams, uploads and responses: whole and in order before they are called complete |
| `SentBytesAreVerified` | asar: what is sent has been hashed as whole blocks |
| `QuitsAreOrderly` | quitting: no window is left at shutdown, a cancelled quit stays cancelled |
| `OneThreadAtATime` | Node's loop is run or polled by one thread |
| `HeadersWaitForListeners`, `PageIsNotConfused` | web requests and WebSockets: nothing is sent or told before the listeners have answered, and what a page is told is in order and ends once |
| `ObjectsFollowTheirs` | frames and downloads: no pointer dangles, no pipe goes to the wrong renderer, a download has its object and its path while it can go on |
| `ChoicesAreThere` | HID: a chooser shows the devices that are there, a permission ends with the removal of its device |
| `MessagesArriveInOrder` | ports: messages in order through any transfer, every end in one place |

Their bounds are the smallest in which the cases meet: two logs so that a late
file can meet the next one, two choosers and two interfaces of one device, three
environments so that one is freed while another is left, three hosts for a
navigation during a navigation, two pairs of ports and a fifth port for an end
that is sent through another pipe, three chunks with a body asked for twice, two
redirects, blocks of three bytes and files of up to seven, so that ranges begin
and end on, before and after the border of a block.

In a run with two inputs each input causes several posts, jobs, barriers and
paints, which interleave freely; races between an input and what an earlier one
left running need no more. In `documents` two clients and two plugins are enough
for a client shown twice, a plugin that switches, two views of a document, and a
renderer that is handed over or asked for under a wrong key; the shortest
violations of the mutants take two or three inputs. Deadlock is not checked where the environment may
simply stop (inputs are bounded, clients come and go); in the tile runs paints
and edits are bounded but the renderer can always change the context.

The runs that are expected to fail show what the code does against what a
comment, an assertion, a test or a doc of the repository says of it:

* `tile_stale`: a worker rasterizes, the document changes, the invalidation
  resets the bit, the worker's `Set` puts it back. The comment in `PaintTile`
  trusts a check of the context, which an invalidation does not change.
* `tile_bounds`: a smaller bitset is installed between the last context check
  and `Set`, against the assertion in `AtomicBitset::Set`.
* `plugin_debounce`: the timer fires, the container is exposed, `Paint` pauses
  the manager again, and nothing restarts the timer.
* `instance_lost`: `AddLoadObserver` tests and registers in two steps.
* `net_log`: `stopLogging` takes the exporter while the file is being opened; the
  promise of `startLogging` is not settled, against the comment where the late
  file is dropped.
* `web_request`: a listener redirects a CORS preflight. The comment "CORS preflight
  doesn't support redirect." stands where a preflight does not come by; where it
  does, the redirect goes to a client that a preflight has not got.
* `websocket`: a challenge is passed on as `kIoPending`, for which the header
  promises a later decision and the switch has `NOTREACHED()`.

`ScreenSettles` has exceptions that are worth knowing. Without any of them the run
finds a plugin that stays wrong, so each is something the code does:

* `SetZoom` rescales `scroll_y_position_` but not the tile buffer's `y_pos_`. While
  the two differ, `Paint` looks for tiles at one position and tasks are clipped to
  another, and the property promises nothing until the next scroll.
* `available_area_` was cut to the height the document had when the geometry last
  changed. After a zoom in, or when the document grows, what is below it is never
  scheduled; `Paint` finds those tiles missing, invalidates and schedules the area
  it has, valid as it is, and may go on so for ever. The property waits for a new
  height of the view (`AreaOwed`).
* A document that shrinks leaves tasks whose ranges go beyond its end. Their jobs
  give up at the first tile that is not there, their barriers never complete, and
  no repaint is asked for (`TasksAreInDocument`).
* While updates are debounced (see `plugin_debounce`) nothing is promised, and after
  a size change or `InvalidateAllTiles`, for which the code itself asks for no
  paint, the property waits until the container is exposed.

The properties of `DocumentClient` hold up to exceptions that they name:

* Deleting one view of a document erases the observer lists of all its views
  (`RemoveDocumentObservers(document_id)`), and `On` does not register a type
  again: the other views hear nothing any more (`RegisteredTypesAreObserved`).
* An unload empties `document_` of the plugins but leaves them in the observer
  lists, and `Destroy` then does not remove them (`ObserversAreLive`). A plugin
  made after the unload, or told before, may keep a client that is deleted
  (`ShownClientsAreLive`).
* A plugin that was told and then restores under a key that finds nothing keeps
  the tiles of the document it showed before (`TilesAreOfTheDocument`).
* Rendering the same client again mounts it again, so `ShownClientsAreMounted`
  is an inequality and such a client is never released.
* A notification that was posted before its list was erased calls a client that
  is gone; the model gives this undefined call no effect.

An EMPTY invalidation resets only the tiles in view, and nothing within 10 ms of
the one before, so tiles outside the view that were painted earlier keep their
old images; `ValidTilesAreCurrent` and `ScreenSettles` except them.

The properties of the services name their exceptions too, each of them something
the code really does:

* A permission handler that is removed by its own call leaves a null callback to
  be run for the next permission; the model stops there (`crashed`).
* A command sent to a new debugger session from within the loop that clears the
  old one is rejected with the others (`ClosedMeansClosed`).
* A log that was stopped before its start was answered lets its file or reply be
  taken for that of the next one (`overtaken`).
* A web request whose CORS redirect is followed by a new network loader has a
  header pipe that nobody paused; one whose network service crashed is not
  answered, as the client pipe has no disconnect handler (`recreated`,
  `network_lost`).
* A web request that is to start, or to start again after a redirect, when the
  target factory is gone, with the network service or with the last pipe of its
  page, goes on without a loader and is not answered (`Stranded`).
* A loader of an archive that fails before the validator has its range ends the
  process for a file that is in order.
* An interface of a shown HID device that becomes suitable is looked for where it
  is not, and a page that forgets the last device it has makes the loop erase the
  set it walks, or looks up a device that is gone (`hid_undefined`); after the
  device service is lost the old list can still be chosen from. The run has two
  interfaces of one device, so that forgetting takes all there is; what is left of
  a larger set is covered by the proof.
* `hid-device-removed` is emitted after the context has erased the device and before
  it revokes the permission. JavaScript may choose the device then, with the
  callback of `select-hid-device`, also after the page has its answer; the `DCHECK`
  of `GrantDevicePermission` fails, and the permission is there until the event
  returns (`removing`).
* A write to a net request that fails ends it with an error that is also thrown, as
  the body has no listener for it; the loader runs on, and JavaScript is told its
  error or its response as well (`uncaught`). `abort()` emits its event after an
  error or after the end of the response, where the documentation says it has no
  effect; JavaScript asked for that, and it is not counted as a second answer.
* `setSavePath` after the place of a download was decided changes only what
  `getSavePath` answers (`"late"`); the documentation keeps it to `will-download`.
  An update after a download is done tells `done` again. A save dialog that ends
  after its session uses a delegate that is gone, and nothing is promised then
  (`dialog_undefined`).
* The network service asks for a chunked body again while a chunk is written:
  the write is never finished (`UploadStalls`).
* An object made for the old host of a frame, by a message sent while the old page
  was unloaded, stays with it until the next navigation.
* Freeing a Node environment runs the loop while the thread may poll it.

## Fairness

In `OfficeWebPlugin` the renderer thread runs every task posted to it, a running
timer fires, and the pool runs every job: an invalid container is painted again
and again, a report is handled, and the pool either is empty or makes a step,
infinitely often. This is weak fairness of the handlers, spelled out as state
predicates because each of them is the only way out of the state that enables
it. Inputs have no fairness. In `OfficeInstance` posted tasks run and calls
return; nobody has to create, unset, load or destroy anything. In the services,
tasks of the UI thread run, calls return, and messages of a pipe arrive. Beyond
that a module assumes of others only what its own code waits for without a
timeout: that listeners and handlers answer, that the network and device
services reply or their pipes close, that a stream's reader reads on and the
writer of a body ends it. Nobody has to ask, quit, navigate, crash or let go.
Safety runs have no fairness.

## The proofs

`TileBufferProofs` proves, for any number of workers, slots, tiles, layouts,
edits, resizes and paints, from the assumptions that the pool and every layout
have at least one slot and tile and that the sentinels are none of them
(`TileBufferAssumption`, `SentinelAssumption`):

* `TypeCorrect`: `Spec => []TypeOK`.
* `SlotsCorrect`: `Spec => []SlotsHoldTheirTiles`. With the types it is
  inductive; only the actions that write a slot are of interest.
* `FreshnessCorrect`: `Spec => []FreshnessInvariant`, and from it
  `ValidTilesCorrect`: `Spec => []ValidTilesAreFresh`.

`ValidTilesAreFresh` alone is not inductive: setting a bit is right only if the
image published before is current, and publishing is right only if the pixels
are. `FreshnessInvariant` says so for each worker: as long as it is undisturbed
and no reset of its tile is to come, what it has read of `columns_` and `scale_` is
of the current layout (`PlacesInvariant`), the buffer is current from rasterizing
until copying, and the image from copying until `Set` (`PixelsInvariant`). It also speaks of valid
tiles that lost their slot, which may get it back. The proof has one step per
action. Steps that write no slot go through `QuietWorkerStep`; steps that write
one disturb the other workers there, so that an undisturbed worker has its
pixels in another slot (`OthersFresh`). An edit or a resize makes a reset
pending for everything it makes stale; the reset itself disturbs the painters.

`TileStructuresProofs`, of the bitset, for any number of threads, width and size of
at least one bit (`BitsetAssumption`): `TypeCorrect`; `ResetCorrect`, that `ResetIsComplete`
holds; and `OthersAreKept`, the action property `OnlyCoveredBitsChange`. What is
added to `ResetIsComplete` is `CallIsPlaced`, at which container a `ResetRange` or
`Clear` is that has not returned. The arithmetic is in lemmas of its own: division
with remainder, the masks of the first and last container and of those between,
and that a mask holds the bits of its range in its container and no others.

Of the ranges, for any tile size, any bounds and lists of any length
(`TileSizePxAssumption`, `RangesAssumption`), `TileStructuresProofs` proves all that
`structures` checks:

* `SimplifyCorrect`: the result of `SimplifyRanges` is sorted and apart and has the
  tiles of the argument, so that `TileCount` is a cardinality. The loop keeps a list
  that is sorted and apart and whose last range starts no later than the next
  one; sorting is a permutation.
* `RemainingCorrect`, `ClipCorrect`: what the loops of `InvalidRangesRemaining` and
  `ClipRanges` have collected so far is what the ranges visited so far call for.
* `InvalidationCorrect`, `ViewCorrect`: arithmetic of rows and columns, with division
  rounded down and up.

These are inductions over lists. The library's induction rules take a predicate as
a parameter, which the provers cannot instantiate; `TileRangesProofs` therefore
states induction for a *set* of numbers (`Induction`, from the well-foundedness of
`<`), and derives from it that a fold over a sequence is a function on its prefixes,
each value got from the one before (`FoldExists`, `FoldSteps`). Each loop is brought
into that form once, and its invariant is then a set comprehension.

`OfficeWebPluginProofs`, for any documents, views, zooms and numbers of inputs
(`PluginAssumption`; a tile is one unit, as in the model):

* `PluginCorrect`: `MCSpec => []ValidTilesAreCurrent`. No operation of the manager sets
  a bit (`Shrinks`); only a visit does, with the image of the moment, and what makes
  a tile stale leaves a report to be handled.
* `PluginTypeCorrect`, `BarriersCorrect`: `TypeOK` and `BarriersCountTheirTiles`. The
  inductive `BarrierInvariant` says that the jobs of a post are full ranges, pairwise
  disjoint, and that its barrier counts at least the tiles ahead of them
  (`GoodJobs`), and of tasks that they hold full ranges of tile indices. It is
  needed because a post takes its jobs from a list and its barrier from
  `TileCount`: they agree because `SimplifyRanges` leaves no overlap
  (`TileRangesProofs`), and a visit takes one tile off both.

`DocumentClientProofs`, for any finite sets of clients and plugins that are
disjoint and do not contain the sentinels, and any number of inputs
(`ConstantsAssumption`): all of the invariants of `documents`. They need each
other, so there is one `DocumentInvariant`. Beside the properties it says when a
weak pointer and `document_` agree (`WellFormed`); that at least as many mounts are
counted as plugins show a client (`Counted`, with finite cardinalities), from which
`ShownClientsAreMounted` follows; who will be told of an unload (`Told`), from which
`ShownClientsAreLive` follows; that a plugin that was not told still finds its lists
(`Observed`); and whose tiles wait to be restored (`Made`, `Pictured`).

The proofs about the services assume (`ServicesAssumption`) that commands, logs,
lookups, hosts, choosers and ports are positive numbers (0 stands for none of them,
and they are handed out in order), that an end of a pipe has the number of the port
it is made with, that the bounds are numbers and a body may be read at least once,
and that a block of an archive is longer than what is read of it for sniffing. The
last is a fact about archives, not about the code: the packer writes blocks of 4 MB
and `net::kMaxBytesToSniff` is 1024, but `archive.cc` itself asks only that
`block_size` is positive. Each part has an invariant,
an `Init` lemma, one lemma per action or group of actions, and a lemma that a part
that is not explored stutters; a theorem puts them together.

* `OneThreadCorrect` (Node's loop): running the loop, the semaphore, the poll and the
  posted task are one token, of which there is at most one until shutdown.
* `AnswersCorrect`: lookups are answered in the order they were made, and the one in
  progress is the front. For permissions, `remaining_results_` of a pending request
  counts those of its permissions that are undecided, and a callback that
  JavaScript still holds is for one of them.
* `CommandsCorrect` (debugger): every unsettled command is in `pending_requests_`, and
  each loop on the stack that rejects commands is still to come to it.
* `LogsCorrect`: unless a log was overtaken, at most one thing is outstanding, the
  file or the start of the current log, and its promise is still there.
* `ToldOnceCorrect` (office instance, an invariant of the `Spec` of that module, for any
  finite set of clients): a client is told by `AddLoadObserver`, and then never joins
  the list, or by the notification of those in the list, which is made once.
* `ObjectsCorrect`: one host of a frame is committed, and the object points to it or to
  the one that is being unloaded, never to one that is speculative; an object of a
  download is there, pinned, as long as the download can go on, and while it is
  there its path is where the file goes, unless it was set too late.
* `QuitsCorrect`: the invariant and the action property of `QuitsAreOrderly`. Open windows
  are in the list; from `will-quit` on there are only windows that were made too
  late; a `will-quit` on the stack whose handler has done nothing is the innermost
  call; and a quit in progress was not cancelled. The stack of listeners can be of
  any depth.
* `BodiesCorrect`: what was read, is on the way and was written of a stream, of an
  upload and of a response is each a run of consecutive chunks, and the runs join.
* `ChoicesCorrect` (HID): applying the messages under way to the devices that the
  context knows gives, one after the other, what the device service knew when it
  sent them, and at the end the devices that are plugged in (`HidPipe`). So a list
  that arrives is the list of the devices known at that moment. A permission is for
  a device that is known or being removed, because what can be chosen is on the
  list (`HidPermits`).
* `PagesCorrect`, `HeadersCorrect`: at most one thing is under way for a request, a
  posted task, a method of the proxy or the answer of a listener (`OneTurn`), and
  the stage of the network side, what is in the two pipes and what the page was told
  fit together (`Stage`, `NetworkWaits`, `HeadersWait`, `Preflights`). For a
  WebSocket, how far the handshake is tells which listeners have passed it.
* `MessagesCorrect` (ports): an end of a pipe has at most one place, a port or one
  message of one pipe, and is open exactly while it has one (`PortPlaces`); what was
  posted to an end is what was emitted there, followed, while it is open, by what
  waits (`PortOrder`). So an end that travels through another pipe is not doubled,
  and what is posted to it meanwhile waits in order.
* `BytesCorrect` (asar): while the task writes, the validator has hashed just the bytes
  of its block up to the position written, its offset in the file agrees with that
  position, and every earlier block from that of the first byte on was compared
  (`HashesUpTo`, `AsarWriting`). The first block is hashed from its start although
  the range begins inside it, and the last one to its end although the range ends
  before; both need the lemmas about blocks and positions.
* `ServicesTypeCorrect`: `ServicesSpec => []TypeOK`, the types of all parts, from the
  invariants of those parts whose types depend on them.
* `RequestsCorrect`: `ServicesSpec => RequestsAreAnsweredOnce`, the refinement. A step of
  a part is shown to advance the status of its requests (`Advances`, one lemma for each
  of the eleven parts with requests), and `AdvanceIsMove` makes that a step of
  `RequestService`. Most parts need the invariants above, and in addition only
  which states a request can be in; a HID chooser needs that at most one list is
  under way to it, and only while it waits for one (`ChooserStates`), and that only a
  chooser that has had its list can be chosen from (`CanChoose`); and a net request
  needs that its loader runs on after JavaScript was told something only because a
  write has failed (`ToldByWrite`).

The exceptions that a property names (above and in its comment) are part of what
is proved: there is no other way to break it.

Every invariant that a passing run checks is stated by a theorem, and so are the
action properties and the refinement. Only model-checked is liveness
(`ScreenSettles`, `WorkConcludes`): fairness is beyond the prover. The runs that
are expected to fail have nothing to prove.

## Not modelled

The snapshot shown while tiles are missing and `MakeSnapshot` (images are only
copied); the transfer of a paint manager between plugins, `ClearTasks` and
`OnDestroy`; notifications of plugins in `DocumentClient`, which only cause
painting; the listeners of the page; saving, commands and clipboard of the
document client; input events and key tables (forwarded to LOK); promises, V8 glue and
string formatting. Memory is sequentially consistent in
all models. That is what the atomics of the bits are in the code, which are called
with their default order; the fields of the layout and the slots are plain, so for
those the models show fewer behaviours than the C++ memory model allows.
In `OfficeWebPlugin` the pool is no smaller than the document and `PaintTile`
is one step; eviction and the steps of `PaintTile` are the subject of
`TileBuffer`.

Of the shell: the serial and USB choosers; full screen, geometry, menus, tray,
notifications and the rest of the window system; off-screen rendering; the
frontend of the developer tools; the tables of `web_contents`, `app` and
`session` that forward calls to Chromium; IPC helpers in JavaScript; and of the
services that are modelled, what the table of components lists. Most of the
shell's hundred thousand lines are bindings: an accessor that converts an
argument and calls Chromium has no state of which anything could be said. The
models cover the code that waits for something; what they leave out of a file is
mostly conversion.

## Plan

1. Done: ranges, bitset, tile buffer with proofs, paint manager and plugin,
   office instance and clients, document clients with their observers, mounts
   and restored renderers; the services of the shell and their refinement of
   `RequestService`.
2. Done: the proofs of all invariants, action properties and the refinement, for
   every value of the constants.
3. An abstract specification of the tile cache (a partial map from tiles to
   content) that `TileBuffer` implements up to the recorded races.
4. `ClearTasks` and `OnDestroy` of the paint manager, and its transfer to another
   plugin, in `OfficeWebPlugin`: jobs and barriers that outlive a plugin.
5. The serial chooser, whose ports are reported on a pipe that is not ordered
   with the list.
