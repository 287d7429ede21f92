--------------------------- MODULE DocumentClient ---------------------------
(***************************************************************************)
(* document_client.cc with the document observers of office_instance.cc,   *)
(* the views of document_holder.cc, and the part of office_web_plugin.cc   *)
(* that shows a client: RenderDocument, Destroy and OnDestroyed.  A client *)
(* is a view of a document, so it also stands for its view id; a document  *)
(* is named after the client that was loaded with it.  Everything here     *)
(* runs on the renderer thread; notifications and EmitReady are tasks      *)
(* posted to it.  The office is there as long as there are documents.      *)
(***************************************************************************)
EXTENDS Naturals, Sequences, FiniteSets

CONSTANTS
    Clients,        \* DocumentClients, and their views
    Plugins,        \* OfficeWebPlugins, and their restore keys and first tile buffers
    None,           \* an empty document_, a missing restore key
    Empty,          \* what a tile buffer shows that was never resized
    PageTypes,      \* the types of event the page listens to
    LokTypes,       \* the types of event that LOK sends
    MaxInputs       \* bound: renders, listeners, document events and unloads together

ASSUME ConstantsAssumption ==
    /\ IsFiniteSet(Clients) /\ IsFiniteSet(Plugins) /\ Clients \cap Plugins = {}
    /\ None \notin Clients \cup Plugins /\ Empty \notin Clients
    /\ MaxInputs \in Nat

\* LOK callback types: the internal monitors of a client, and what a plugin
\* observes.
InternalMonitors == {"size", "invalidate", "state"}
PluginMonitors == {"size", "invalidate", "cursor"}
Types == InternalMonitors \cup PluginMonitors \cup PageTypes \cup LokTypes

VARIABLES
    life,                   \* of a client: none, live, gone
    document,               \* document_holder_ of a client
    event_types_registered, \* event_types_registered_
    is_ready,               \* is_ready_
    state_change_buffer,    \* state_change_buffer_
    held, reported,         \* history: changes buffered, and emitted with ready, in order
    mount_counter,          \* mount_counter_; mounted_ is set while it is positive
    to_restore,             \* tile_buffers_to_restore_ of all clients
    plugin,                 \* life of a plugin: none, live, gone
    document_,              \* document_ of a plugin
    document_client_,       \* document_client_ of a plugin, a weak pointer
    doomed,                 \* doomed_
    tile_buffer,            \* tile_buffer_ of a plugin
    tiles,                  \* whose tiles a tile buffer shows
    observers,              \* document_event_observers_: <<view, type, observer>>
    destroyed_observers,    \* destroyed_observers_
    tasks,                  \* the tasks posted to the renderer thread
    unloads, unloaded,      \* history: was there an unload, and the plugins it found
    inputs

clientVars == <<life, document, event_types_registered, is_ready, state_change_buffer,
                held, reported, mount_counter, to_restore>>
pluginVars == <<plugin, document_, document_client_, doomed, tile_buffer, tiles>>
history == <<unloads, unloaded>>
vars == <<clientVars, pluginVars, observers, destroyed_observers, tasks, history, inputs>>

Init ==
    /\ life = [c \in Clients |-> "none"]
    /\ document = [c \in Clients |-> None]
    /\ event_types_registered = [c \in Clients |-> {}]
    /\ is_ready = [c \in Clients |-> FALSE]
    /\ state_change_buffer = [c \in Clients |-> <<>>]
    /\ held = [c \in Clients |-> <<>>] /\ reported = [c \in Clients |-> <<>>]
    /\ mount_counter = [c \in Clients |-> 0]
    /\ to_restore = {}
    /\ plugin = [p \in Plugins |-> "none"]
    /\ document_ = [p \in Plugins |-> None]
    /\ document_client_ = [p \in Plugins |-> None]
    /\ doomed = [p \in Plugins |-> FALSE]
    /\ tile_buffer = [p \in Plugins |-> p]
    /\ tiles = [p \in Plugins |-> Empty]
    /\ observers = {} /\ destroyed_observers = {} /\ tasks = <<>>
    /\ unloads = FALSE /\ unloaded = {} /\ inputs = 0

Live(c) == c \in Clients /\ life[c] = "live"

\* A view registers HandleDocumentCallback with LOK when it is made; the
\* client owns the one holder of the view whose destructor deregisters it.
CallbackRegistered(c) == Live(c)

\* operator== of DocumentHolderWithView compares holder and view.
SameView(c, d) == c = d

Input == inputs < MaxInputs /\ inputs' = inputs + 1

\* The views of the document that view c belongs to.
ViewsOfDocument(c) == {v \in Clients : document[v] = document[c]}
-----------------------------------------------------------------------------
(* document_event_observers_.  document_id_to_document_event_ids_ lists the *)
(* keys of this map by document: both are written together.                 *)

AddDocumentObservers(obs, c, types, o) == obs \cup {<<c, t, o>> : t \in types}

\* RemoveDocumentObservers(document_id, observer)
RemoveObserverFromDocument(obs, c, o) ==
    {e \in obs : ~(e[1] \in ViewsOfDocument(c) /\ e[3] = o)}

\* RemoveDocumentObservers(document_id): the lists of every view are erased.
RemoveDocumentObservers(obs, c) == {e \in obs : e[1] \notin ViewsOfDocument(c)}
-----------------------------------------------------------------------------
(* Making and dropping clients. *)

\* The constructor.  It leaves is_ready_ uninitialized.
Construct(c, d) ==
    /\ life[c] = "none"
    /\ life' = [life EXCEPT ![c] = "live"]
    /\ document' = [document EXCEPT ![c] = d]
    /\ event_types_registered' = [event_types_registered EXCEPT ![c] = InternalMonitors]
    /\ observers' = AddDocumentObservers(observers, c, InternalMonitors, c)
    /\ destroyed_observers' = destroyed_observers \cup {c}
    /\ \E b \in BOOLEAN : is_ready' = [is_ready EXCEPT ![c] = b]
    /\ UNCHANGED <<state_change_buffer, held, reported, mount_counter, to_restore,
                   pluginVars, tasks, history, inputs>>

\* ResolveLoadWithDocumentClient: a document of its own.
ResolveLoad(c) == Construct(c, c)

\* NewView: DocumentHolderWithView makes a view because the holder is shared.
NewView(c, from) == Live(from) /\ Construct(c, document[from])

\* The destructor.  The tile buffers that wait in the client go with it.
Delete(c) ==
    /\ life' = [life EXCEPT ![c] = "gone"]
    /\ event_types_registered' = [event_types_registered EXCEPT ![c] = {}]
    /\ is_ready' = [is_ready EXCEPT ![c] = FALSE]
    /\ state_change_buffer' = [state_change_buffer EXCEPT ![c] = <<>>]
    /\ held' = [held EXCEPT ![c] = <<>>]
    /\ reported' = [reported EXCEPT ![c] = <<>>]
    /\ mount_counter' = [mount_counter EXCEPT ![c] = 0]
    /\ to_restore' = {r \in to_restore : r.client # c}
    /\ observers' = RemoveDocumentObservers(observers, c)
    /\ destroyed_observers' = destroyed_observers \ {c}
    /\ UNCHANGED <<document, pluginVars, history, inputs>>

\* The garbage collector may take a client that mounted_ does not hold.
Collect(c) ==
    /\ Live(c)
    /\ mount_counter[c] = 0
    /\ Delete(c)
    /\ UNCHANGED tasks

\* A faulty On that forgets to register.
OnForgets(c, t) ==
    /\ Live(c) /\ Input
    /\ t \notin event_types_registered[c]
    /\ event_types_registered' = [event_types_registered EXCEPT ![c] = @ \cup {t}]
    /\ UNCHANGED <<life, document, is_ready, state_change_buffer, held, reported,
                   mount_counter, to_restore, pluginVars, observers, destroyed_observers,
                   tasks, history>>

\* On, for a type that is not registered yet.  The listeners are the page's.
On(c, t) ==
    /\ Live(c) /\ Input
    /\ t \notin event_types_registered[c]
    /\ event_types_registered' = [event_types_registered EXCEPT ![c] = @ \cup {t}]
    /\ observers' = AddDocumentObservers(observers, c, {t}, c)
    /\ UNCHANGED <<life, document, is_ready, state_change_buffer, held, reported,
                   mount_counter, to_restore, pluginVars, destroyed_observers, tasks, history>>
-----------------------------------------------------------------------------
(* Mounting. *)

\* A faulty Mount that counts the first mount only.
MountOnce(counter, c) == [counter EXCEPT ![c] = 1]

Mount(counter, c) == [counter EXCEPT ![c] = @ + 1]

\* A faulty Unmount that does not ask whether the client is there.
UnmountUnchecked(counter, c) ==
    IF c \in Clients THEN [counter EXCEPT ![c] = @ - 1] ELSE counter

\* document_client_ is a weak pointer: a client that is gone is not told.
Unmount(counter, c) == IF Live(c) THEN [counter EXCEPT ![c] = @ - 1] ELSE counter

\* The first mount posts EmitReady.
PostReady(c) ==
    IF mount_counter[c] = 0 THEN Append(tasks, [kind |-> "ready", to |-> c]) ELSE tasks

\* MarkRendererWillRemount
MarkRendererWillRemount(c, key, b) ==
    {r \in to_restore : ~(r.client = c /\ r.key = key)}
        \cup {[client |-> c, key |-> key, tile_buffer |-> b]}

\* A faulty search that ignores whose renderer it is.
RestorableByKey(c, key) == {r \in to_restore : r.key = key}

Restorable(c, key) == {r \in to_restore : r.client = c /\ r.key = key}

\* A faulty GetRestoredRenderer that leaves the renderer in the map.
RestoredRemain(c, key) == to_restore

\* GetRestoredRenderer moves the renderer out of the map.
GetRestoredRenderer(c, key) == to_restore \ Restorable(c, key)
-----------------------------------------------------------------------------
(* The plugins. *)

NewPlugin(p) ==
    /\ plugin[p] = "none"
    /\ plugin' = [plugin EXCEPT ![p] = "live"]
    /\ destroyed_observers' = destroyed_observers \cup {p}
    /\ UNCHANGED <<clientVars, document_, document_client_, doomed, tile_buffer, tiles,
                   observers, tasks, history, inputs>>

\* needs_reset of RenderDocument
NeedsReset(p, c) == document_[p] # None /\ ~SameView(document_[p], c)

\* RenderDocument without a restore, or of a plugin that shows a document:
\* the tile buffer is resized for the client, which makes all tiles invalid.
RenderDocument(p, c) ==
    /\ plugin[p] = "live" /\ Live(c)
    /\ Input
    /\ mount_counter' = Mount(IF NeedsReset(p, c) THEN Unmount(mount_counter, document_client_[p])
                                                  ELSE mount_counter, c)
    /\ tasks' = PostReady(c)
    /\ observers' =
         AddDocumentObservers(
            IF document_[p] = None THEN observers
                                   ELSE RemoveObserverFromDocument(observers, document_[p], p),
            c, PluginMonitors, p)
    /\ document_' = [document_ EXCEPT ![p] = c]
    /\ document_client_' = [document_client_ EXCEPT ![p] = c]
    /\ tiles' = [tiles EXCEPT ![tile_buffer[p]] = c]
    /\ UNCHANGED <<life, document, event_types_registered, is_ready, state_change_buffer,
                   held, reported, to_restore, plugin, doomed, tile_buffer,
                   destroyed_observers, history>>

\* RenderDocument with a restore key while document_ is empty.  A tile
\* buffer found under the key is taken over unless it is empty; without one
\* the plugin keeps its own as it is.
RestoreDocument(p, c, key) ==
    /\ plugin[p] = "live" /\ Live(c) /\ document_[p] = None
    /\ Input
    /\ mount_counter' = Mount(mount_counter, c)
    /\ tasks' = PostReady(c)
    /\ observers' = AddDocumentObservers(observers, c, PluginMonitors, p)
    /\ document_' = [document_ EXCEPT ![p] = c]
    /\ document_client_' = [document_client_ EXCEPT ![p] = c]
    /\ to_restore' = GetRestoredRenderer(c, key)
    /\ LET usable == {r \in Restorable(c, key) : tiles[r.tile_buffer] # Empty}
       IN  tile_buffer' = [tile_buffer EXCEPT ![p] =
              IF usable = {} THEN @ ELSE (CHOOSE r \in usable : TRUE).tile_buffer]
    /\ UNCHANGED <<life, document, event_types_registered, is_ready, state_change_buffer,
                   held, reported, plugin, doomed, tiles, destroyed_observers,
                   history>>

\* A faulty Destroy that leaves the plugin among the document's observers.
DestroyObserved(p) ==
    /\ plugin[p] = "live"
    /\ plugin' = [plugin EXCEPT ![p] = "gone"]
    /\ document_' = [document_ EXCEPT ![p] = None]
    /\ document_client_' = [document_client_ EXCEPT ![p] = None]
    /\ mount_counter' = Unmount(mount_counter, document_client_[p])
    /\ to_restore' =
         IF Live(document_client_[p])
         THEN MarkRendererWillRemount(document_client_[p], p, tile_buffer[p]) ELSE to_restore
    /\ destroyed_observers' = destroyed_observers \ {p}
    /\ UNCHANGED <<life, document, event_types_registered, is_ready, state_change_buffer,
                   held, reported, doomed, tile_buffer, tiles,
                   observers, tasks, history, inputs>>

Destroy(p) ==
    /\ plugin[p] = "live"
    /\ plugin' = [plugin EXCEPT ![p] = "gone"]
    /\ document_' = [document_ EXCEPT ![p] = None]
    /\ document_client_' = [document_client_ EXCEPT ![p] = None]
    /\ mount_counter' = Unmount(mount_counter, document_client_[p])
    /\ to_restore' =
         IF Live(document_client_[p])
         THEN MarkRendererWillRemount(document_client_[p], p, tile_buffer[p]) ELSE to_restore
    /\ destroyed_observers' = IF doomed[p] THEN destroyed_observers
                                           ELSE destroyed_observers \ {p}
    /\ observers' = IF document_[p] = None THEN observers
                    ELSE RemoveObserverFromDocument(observers, document_[p], p)
    /\ UNCHANGED <<life, document, event_types_registered, is_ready, state_change_buffer,
                   held, reported, doomed, tile_buffer, tiles,
                   tasks, history, inputs>>
-----------------------------------------------------------------------------
(* What LOK and the page's end send, and the tasks that come of it. *)

\* Only notifications to the client are followed here; those to plugins
\* only cause painting.
HandleDocumentCallback(c, t) ==
    /\ CallbackRegistered(c)
    /\ Input
    /\ tasks' = IF <<c, t, c>> \in observers
                THEN Append(tasks, [kind |-> "event", to |-> c, type |-> t, change |-> inputs'])
                ELSE tasks
    /\ UNCHANGED <<clientVars, pluginVars, observers, destroyed_observers, history>>

\* Notify posts a task for each observer, in the order of a hash map: an
\* entry of the queue stands for all of them, and they run in any order.
PostDestroyed(obs) ==
    IF obs = {} THEN tasks ELSE Append(tasks, [kind |-> "destroyed", to |-> obs])

\* A faulty HandleBeforeUnload that tells the clients only.
HandleUnloadOfClients ==
    /\ Input
    /\ unloads' = TRUE
    /\ unloaded' = unloaded \cup {p \in Plugins : plugin[p] = "live"}
    /\ tasks' = PostDestroyed(destroyed_observers \cap Clients)
    /\ UNCHANGED <<clientVars, pluginVars, observers, destroyed_observers>>

\* HandleBeforeUnload: OnDestroyed is posted to the destroyed observers.  The
\* page may stay.
HandleBeforeUnload ==
    /\ Input
    /\ unloads' = TRUE
    /\ unloaded' = unloaded \cup {p \in Plugins : plugin[p] = "live"}
    /\ tasks' = PostDestroyed(destroyed_observers)
    /\ UNCHANGED <<clientVars, pluginVars, observers, destroyed_observers>>

Run(kind) == tasks # <<>> /\ Head(tasks).kind = kind /\ tasks' = Tail(tasks)

\* HandleInvalidate
HandleInvalidate(c) == is_ready' = [is_ready EXCEPT ![c] = TRUE]

\* HandleStateChange: changes are kept until the client is ready.
HandleStateChange(c, n) ==
    LET Kept(buffer) == IF is_ready[c] THEN buffer ELSE Append(buffer, n)
    IN  /\ state_change_buffer' = [state_change_buffer EXCEPT ![c] = Kept(@)]
        /\ held' = [held EXCEPT ![c] = Kept(@)]

\* DocumentCallback of a client; other types are only forwarded.  A list
\* that was erased still holds its observers, so a notification that was
\* posted before comes; when its client is gone this is undefined, and the
\* memory it would write is no longer part of this state.
DocumentCallback ==
    /\ Run("event")
    /\ LET c == Head(tasks).to
           t == Head(tasks).type
       IN  /\ IF Live(c) /\ t = "invalidate" THEN HandleInvalidate(c)
                                             ELSE UNCHANGED is_ready
           /\ IF Live(c) /\ t = "state" THEN HandleStateChange(c, Head(tasks).change)
                                        ELSE UNCHANGED <<state_change_buffer, held>>
    /\ UNCHANGED <<life, document, event_types_registered, reported, mount_counter,
                   to_restore, pluginVars, observers, destroyed_observers, history, inputs>>

\* A faulty EmitReady that does not clear the buffer.
EmitReadyKeeps ==
    /\ Run("ready")
    /\ LET c == Head(tasks).to
       IN  IF Live(c)
           THEN reported' = [reported EXCEPT ![c] = @ \o state_change_buffer[c]]
           ELSE UNCHANGED reported
    /\ UNCHANGED <<life, document, event_types_registered, is_ready, state_change_buffer,
                   held, mount_counter, to_restore, pluginVars, observers,
                   destroyed_observers, history, inputs>>

\* EmitReady is posted with a weak pointer.
EmitReady ==
    /\ Run("ready")
    /\ LET c == Head(tasks).to
       IN  IF Live(c)
           THEN /\ reported' = [reported EXCEPT ![c] = @ \o state_change_buffer[c]]
                /\ state_change_buffer' = [state_change_buffer EXCEPT ![c] = <<>>]
           ELSE UNCHANGED <<reported, state_change_buffer>>
    /\ UNCHANGED <<life, document, event_types_registered, is_ready, held, mount_counter,
                   to_restore, pluginVars, observers, destroyed_observers, history, inputs>>

\* The task posted for destroyed observer o runs.
RunDestroyed(o) ==
    /\ tasks # <<>> /\ Head(tasks).kind = "destroyed" /\ o \in Head(tasks).to
    /\ tasks' = IF Head(tasks).to = {o} THEN Tail(tasks)
                                         ELSE [tasks EXCEPT ![1].to = @ \ {o}]

\* OnDestroyed of a client deletes it ...
OnDestroyedClient(c) ==
    /\ RunDestroyed(c)
    /\ c \in destroyed_observers
    /\ Delete(c)

\* ... and of a plugin lets go of the document.
OnDestroyedPlugin(p) ==
    /\ RunDestroyed(p)
    /\ p \in destroyed_observers
    /\ doomed' = [doomed EXCEPT ![p] = TRUE]
    /\ document_' = [document_ EXCEPT ![p] = None]
    /\ destroyed_observers' = destroyed_observers \ {p}
    /\ UNCHANGED <<clientVars, plugin, document_client_, tile_buffer, tiles, observers,
                   history, inputs>>

\* Who has left destroyed_observers_ is not called.
SkipDestroyed(o) ==
    /\ RunDestroyed(o)
    /\ o \notin destroyed_observers
    /\ UNCHANGED <<clientVars, pluginVars, observers, destroyed_observers, history, inputs>>
-----------------------------------------------------------------------------
Next ==
    \/ \E c \in Clients :
          \/ ResolveLoad(c) \/ Collect(c)
          \/ \E from \in Clients : NewView(c, from)
          \/ \E t \in PageTypes : On(c, t)
          \/ \E t \in LokTypes : HandleDocumentCallback(c, t)
    \/ \E p \in Plugins :
          \/ NewPlugin(p) \/ Destroy(p)
          \/ \E c \in Clients :
                \/ RenderDocument(p, c)
                \/ \E key \in Plugins : RestoreDocument(p, c, key)
    \/ HandleBeforeUnload
    \/ DocumentCallback \/ EmitReady
    \/ \E c \in Clients : OnDestroyedClient(c)
    \/ \E p \in Plugins : OnDestroyedPlugin(p)
    \/ \E o \in Clients \cup Plugins : SkipDestroyed(o)

Spec == Init /\ [][Next]_vars
-----------------------------------------------------------------------------
Lives == {"none", "live", "gone"}
LivePlugins == {p \in Plugins : plugin[p] = "live"}

\* OnDestroyed is on its way to o.
Doom(o) == \E i \in DOMAIN tasks : tasks[i].kind = "destroyed" /\ o \in tasks[i].to

\* The types of the state; no mount is undone twice, so mount_counter_ does
\* not become negative.
TypeOK ==
    /\ life \in [Clients -> Lives] /\ plugin \in [Plugins -> Lives]
    /\ document \in [Clients -> Clients \cup {None}]
    /\ event_types_registered \in [Clients -> SUBSET Types]
    /\ is_ready \in [Clients -> BOOLEAN] /\ doomed \in [Plugins -> BOOLEAN]
    /\ state_change_buffer \in [Clients -> Seq(Nat)]
    /\ held \in [Clients -> Seq(Nat)] /\ reported \in [Clients -> Seq(Nat)]
    /\ mount_counter \in [Clients -> 0 .. MaxInputs]
    /\ to_restore \subseteq [client : Clients, key : Plugins, tile_buffer : Plugins]
    /\ document_ \in [Plugins -> Clients \cup {None}]
    /\ document_client_ \in [Plugins -> Clients \cup {None}]
    /\ tile_buffer \in [Plugins -> Plugins]
    /\ tiles \in [Plugins -> Clients \cup {Empty}]
    /\ observers \subseteq Clients \X Types \X (Clients \cup Plugins)
    /\ destroyed_observers \subseteq Clients \cup Plugins
    /\ unloads \in BOOLEAN /\ unloaded \subseteq Plugins /\ inputs \in 0 .. MaxInputs

\* A client that plugins show is mounted at least once for each of them, so
\* that the garbage collector leaves it alone (Mount, Unmount).
ShownClientsAreMounted ==
    \A c \in Clients :
        Live(c) => mount_counter[c] >= Cardinality({p \in LivePlugins : document_client_[p] = c})

\* A plugin shows a client that is there, or an unload will tell it to let
\* go (OnDestroyed).  Two plugins are not told: one made after an unload that
\* shows a client about to be deleted, and one that was told before, because
\* it has left the list.
ShownClientsAreLive ==
    \A p \in LivePlugins :
        (document_[p] # None /\ (~unloads \/ p \in unloaded))
            => Live(document_[p]) \/ Doom(p) \/ doomed[p]

\* Document events are dispatched to clients and plugins that are there.
\* The exception is a plugin that OnDestroyed told: that empties document_
\* but leaves the plugin in the lists, and its Destroy then has no document
\* to remove itself from.
ObserversAreLive ==
    \A e \in observers :
        /\ Live(e[1])
        /\ e[3] = e[1] \/ e[3] \in LivePlugins \/ (e[3] \in Plugins /\ doomed[e[3]])

\* A client hears the types it has registered for, as long as no other view
\* of its document is deleted: the destructor of one view erases the lists
\* of all, and On does not register a type again.
RegisteredTypesAreObserved ==
    \A c \in Clients :
        (Live(c) /\ \A v \in ViewsOfDocument(c) : life[v] # "gone")
            => \A t \in event_types_registered[c] : <<c, t, c>> \in observers

\* A tile buffer belongs to one plugin, or waits in one client to be
\* restored under one key.
TileBuffersHaveOneOwner ==
    /\ \A p, q \in LivePlugins : p # q => tile_buffer[p] # tile_buffer[q]
    /\ \A r \in to_restore :
          /\ \A p \in LivePlugins : tile_buffer[p] # r.tile_buffer
          /\ \A s \in to_restore : s.tile_buffer = r.tile_buffer => s = r

\* A plugin draws tiles of the client it shows, also after renderers were
\* restored and documents changed.  Once OnDestroyed emptied a document_
\* this ends: a restore key that finds nothing leaves the tiles of the
\* document before, and Destroy hands them on.
TilesAreOfTheDocument ==
    (\A p \in Plugins : ~doomed[p]) =>
        \A p \in LivePlugins :
            document_[p] # None => tiles[tile_buffer[p]] \in {document_[p], Empty}

\* A state change that came before the client was ready is in the buffer or
\* was emitted with "ready" once, in the order of the changes.
HeldChangesAreReportedOnce ==
    \A c \in Clients : held[c] = reported[c] \o state_change_buffer[c]
=============================================================================
