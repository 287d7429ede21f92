------------------------ MODULE DocumentClientProofs ------------------------
(***************************************************************************)
(* Proofs about DocumentClient, for any number of clients, plugins, types  *)
(* of event and inputs.                                                    *)
(***************************************************************************)
EXTENDS DocumentClient, FiniteSetTheorems, SequenceTheorems, TLAPS

-----------------------------------------------------------------------------
(* The inductive invariant, in the parts that the properties need.         *)

Observers == Clients \cup Plugins
Tasks == [kind : {"ready"}, to : Clients]
         \cup [kind : {"event"}, to : Clients, type : LokTypes, change : Nat]
         \cup [kind : {"destroyed"}, to : SUBSET Observers]

\* The queue, and when the documents of clients and plugins are there.  A
\* plugin's weak pointer follows document_ until OnDestroyed empties that.
WellFormed ==
    /\ tasks \in Seq(Tasks)
    /\ \A c \in Clients :
          /\ life[c] = "none" <=> document[c] = None
          /\ c \in destroyed_observers => life[c] # "none"
    /\ \A p \in Plugins :
          /\ p \in destroyed_observers => plugin[p] # "none"
          /\ plugin[p] # "live" => document_client_[p] = None
          /\ document_[p] # None => document_client_[p] = document_[p]
          /\ ~doomed[p] => document_client_[p] = document_[p]
          /\ document_client_[p] # None => life[document_client_[p]] # "none"

\* The plugins that show c.
ShownBy(c) == { p \in Plugins : document_client_[p] = c }

\* Every showing plugin has mounted its client, and every mount was an input.
Counted ==
    \A c \in Clients :
        /\ mount_counter[c] <= inputs
        /\ Live(c) => Cardinality(ShownBy(c)) <= mount_counter[c]

\* Who will be told of an unload.
Told ==
    /\ \A p \in LivePlugins : p \in destroyed_observers \/ doomed[p]
    /\ \A p \in LivePlugins : p \in unloaded => Doom(p) \/ doomed[p]
    /\ \A p \in unloaded : plugin[p] # "none"
    /\ ~unloads =>
          /\ \A o \in Observers : ~Doom(o)
          /\ \A p \in Plugins : document_[p] # None => Live(document_[p])

\* An observing plugin that was not told can still find its lists.
Observed ==
    \A e \in observers :
        (e[3] \in Plugins /\ ~doomed[e[3]]) =>
            /\ document_[e[3]] # None
            /\ document[e[1]] = document[document_[e[3]]]

\* Tile buffers come from plugins that have been made.
Made ==
    /\ \A p \in Plugins : plugin[p] = "none" => tile_buffer[p] = p /\ tiles[p] = Empty /\ ~doomed[p]
    /\ \A p \in LivePlugins : plugin[tile_buffer[p]] # "none"
    /\ \A r \in to_restore : plugin[r.tile_buffer] # "none"

\* Whose tiles wait to be restored, and that a plugin without a document has none.
Pictured ==
    (\A p \in Plugins : ~doomed[p]) =>
        /\ \A r \in to_restore : tiles[r.tile_buffer] \in {r.client, Empty}
        /\ \A p \in LivePlugins : document_[p] = None => tiles[tile_buffer[p]] = Empty

DocumentInvariant ==
    /\ TypeOK /\ WellFormed /\ Counted /\ Told
    /\ ObserversAreLive /\ Observed
    /\ RegisteredTypesAreObserved
    /\ TileBuffersHaveOneOwner /\ Made
    /\ TilesAreOfTheDocument /\ Pictured
    /\ HeldChangesAreReportedOnce

-----------------------------------------------------------------------------
(* The queue of tasks, and who OnDestroyed is on its way to.               *)

\* Posting a task.
LEMMA PostTask ==
    ASSUME tasks \in Seq(Tasks), NEW t \in Tasks, tasks' = Append(tasks, t)
    PROVE  /\ tasks' \in Seq(Tasks)
           /\ \A o : Doom(o)' <=> Doom(o) \/ (t.kind = "destroyed" /\ o \in t.to)
  <1>1. /\ tasks' \in Seq(Tasks) /\ Len(tasks') = Len(tasks) + 1 /\ Len(tasks) \in Nat
        /\ \A i \in 1 .. Len(tasks) : tasks'[i] = tasks[i]
        /\ tasks'[Len(tasks) + 1] = t
    BY AppendProperties
  <1>2. DOMAIN tasks = 1 .. Len(tasks) /\ DOMAIN tasks' = 1 .. Len(tasks) + 1
    BY <1>1
  <1> QED BY <1>1, <1>2 DEF Doom

\* Running a task that is not an OnDestroyed.
LEMMA RunTask ==
    ASSUME tasks \in Seq(Tasks), NEW kind, kind # "destroyed", Run(kind)
    PROVE  /\ tasks' \in Seq(Tasks)
           /\ \A o : Doom(o)' <=> Doom(o)
  <1>1. /\ tasks # <<>> /\ tasks' = Tail(tasks) /\ tasks[1].kind # "destroyed"
    BY DEF Run
  <1>2. /\ tasks' \in Seq(Tasks) /\ Len(tasks) \in Nat \ {0} /\ Len(tasks') = Len(tasks) - 1
        /\ \A i \in 1 .. Len(tasks) - 1 : tasks'[i] = tasks[i + 1]
    BY <1>1, HeadTailProperties, EmptySeq
  <1>3. DOMAIN tasks = 1 .. Len(tasks) /\ DOMAIN tasks' = 1 .. Len(tasks) - 1
    BY <1>2
  <1>4. ASSUME NEW o, Doom(o) PROVE Doom(o)'
    <2> PICK i \in 1 .. Len(tasks) : tasks[i].kind = "destroyed" /\ o \in tasks[i].to
      BY <1>3, <1>4 DEF Doom
    <2>1. i - 1 \in 1 .. Len(tasks) - 1 /\ tasks'[i - 1] = tasks[i]
      BY <1>1, <1>2
    <2> QED BY <2>1, <1>3 DEF Doom
  <1>5. ASSUME NEW o, Doom(o)' PROVE Doom(o)
    <2> PICK i \in 1 .. Len(tasks) - 1 : tasks'[i].kind = "destroyed" /\ o \in tasks'[i].to
      BY <1>3, <1>5 DEF Doom
    <2>1. i + 1 \in 1 .. Len(tasks) /\ tasks'[i] = tasks[i + 1]
      BY <1>2
    <2> QED BY <2>1, <1>3 DEF Doom
  <1> QED BY <1>2, <1>4, <1>5

\* Running the OnDestroyed of one observer leaves those of the others.
LEMMA RunOneDestroyed ==
    ASSUME tasks \in Seq(Tasks), NEW o \in Observers, RunDestroyed(o)
    PROVE  /\ tasks' \in Seq(Tasks) /\ Doom(o)
           /\ \A u : u # o => (Doom(u)' <=> Doom(u))
  <1>1. /\ Len(tasks) \in Nat \ {0} /\ DOMAIN tasks = 1 .. Len(tasks)
        /\ tasks[1] \in Tasks /\ tasks[1].kind = "destroyed" /\ o \in tasks[1].to
    BY EmptySeq DEF RunDestroyed
  <1>2. tasks[1] \in [kind : {"destroyed"}, to : SUBSET Observers]
    BY <1>1 DEF Tasks
  <1>3. Doom(o)
    BY <1>1 DEF Doom
  <1>4. CASE Head(tasks).to = {o}
    <2>1. /\ tasks' = Tail(tasks) /\ tasks[1].to = {o}
      BY <1>4 DEF RunDestroyed
    <2>2. /\ tasks' \in Seq(Tasks) /\ Len(tasks') = Len(tasks) - 1
          /\ \A i \in 1 .. Len(tasks) - 1 : tasks'[i] = tasks[i + 1]
      BY <1>1, <2>1, HeadTailProperties, EmptySeq
    <2>3. DOMAIN tasks' = 1 .. Len(tasks) - 1
      BY <2>2, <1>1
    <2>4. ASSUME NEW u, u # o, Doom(u) PROVE Doom(u)'
      <3> PICK i \in 1 .. Len(tasks) : tasks[i].kind = "destroyed" /\ u \in tasks[i].to
        BY <1>1, <2>4 DEF Doom
      <3>1. i # 1
        BY <2>1, <2>4
      <3>2. i - 1 \in 1 .. Len(tasks) - 1 /\ tasks'[i - 1] = tasks[i]
        BY <3>1, <1>1, <2>2
      <3> QED BY <3>2, <2>3 DEF Doom
    <2>5. ASSUME NEW u, Doom(u)' PROVE Doom(u)
      <3> PICK i \in 1 .. Len(tasks) - 1 : tasks'[i].kind = "destroyed" /\ u \in tasks'[i].to
        BY <2>3, <2>5 DEF Doom
      <3>1. i + 1 \in 1 .. Len(tasks) /\ tasks'[i] = tasks[i + 1]
        BY <1>1, <2>2
      <3> QED BY <3>1, <1>1 DEF Doom
    <2> QED BY <1>3, <2>2, <2>4, <2>5
  <1>5. CASE Head(tasks).to # {o}
    <2> DEFINE rest == [tasks[1] EXCEPT !.to = @ \ {o}]
    <2>1. /\ rest \in Tasks /\ rest.kind = "destroyed" /\ rest.to = tasks[1].to \ {o}
      BY <1>2 DEF Tasks
    <2>2. tasks' = [tasks EXCEPT ![1] = rest]
      BY <1>5 DEF RunDestroyed
    <2> HIDE DEF rest
    <2>3. /\ tasks' \in Seq(Tasks) /\ DOMAIN tasks' = 1 .. Len(tasks)
          /\ tasks'[1] = rest /\ \A i \in 2 .. Len(tasks) : tasks'[i] = tasks[i]
      BY <1>1, <2>1, <2>2, ExceptSeq
    <2> QED BY <1>1, <1>3, <2>1, <2>3 DEF Doom
  <1> QED BY <1>4, <1>5
-----------------------------------------------------------------------------
(* The parts of the invariant that a step leaves alone.                    *)

LEMMA CountedKept ==
    Counted /\ UNCHANGED <<life, mount_counter, document_client_, inputs>> => Counted'
  BY DEF Counted, Live, ShownBy

LEMMA ToldKept ==
    Told /\ UNCHANGED <<life, plugin, document_, doomed, destroyed_observers, tasks,
                       unloads, unloaded>> => Told'
  BY DEF Told, Live, Doom, LivePlugins

LEMMA ObserversKept ==
    ObserversAreLive /\ Observed
        /\ UNCHANGED <<life, document, plugin, document_, doomed, observers>>
        => ObserversAreLive' /\ Observed'
  BY DEF ObserversAreLive, Observed, Live, LivePlugins

LEMMA RegisteredKept ==
    RegisteredTypesAreObserved
        /\ UNCHANGED <<life, document, event_types_registered, observers>>
        => RegisteredTypesAreObserved'
  BY DEF RegisteredTypesAreObserved, Live, ViewsOfDocument

LEMMA OwnersKept ==
    TileBuffersHaveOneOwner /\ Made
        /\ UNCHANGED <<plugin, doomed, tile_buffer, tiles, to_restore>>
        => TileBuffersHaveOneOwner' /\ Made'
  BY DEF TileBuffersHaveOneOwner, Made, LivePlugins

LEMMA TilesKept ==
    TilesAreOfTheDocument /\ Pictured
        /\ UNCHANGED <<plugin, document_, doomed, tile_buffer, tiles, to_restore>>
        => TilesAreOfTheDocument' /\ Pictured'
  BY DEF TilesAreOfTheDocument, Pictured, LivePlugins

LEMMA HeldKept ==
    HeldChangesAreReportedOnce /\ UNCHANGED <<held, reported, state_change_buffer>>
        => HeldChangesAreReportedOnce'
  BY DEF HeldChangesAreReportedOnce

LEMMA InvariantKept == DocumentInvariant /\ UNCHANGED vars => DocumentInvariant'
  <1> SUFFICES ASSUME DocumentInvariant, UNCHANGED vars PROVE DocumentInvariant'
    OBVIOUS
  <1> USE DEF DocumentInvariant, vars, clientVars, pluginVars, history
  <1>1. TypeOK'
    BY DEF TypeOK
  <1>2. WellFormed'
    BY DEF WellFormed
  <1> QED
    BY <1>1, <1>2, CountedKept, ToldKept, ObserversKept, RegisteredKept, OwnersKept, TilesKept,
       HeldKept

\* The plugins that show a client are finitely many.
LEMMA ShownIsFinite ==
    ASSUME NEW c
    PROVE  /\ IsFiniteSet(ShownBy(c)) /\ Cardinality(ShownBy(c)) \in Nat
           /\ Cardinality(ShownBy(c)) = 0 <=> ShownBy(c) = {}
  <1>1. ShownBy(c) \in SUBSET Plugins
    BY DEF ShownBy
  <1> QED BY <1>1, ConstantsAssumption, FS_Subset, FS_CardinalityType, FS_EmptySet

LEMMA DocumentInit == Init => DocumentInvariant
  <1> SUFFICES ASSUME Init PROVE DocumentInvariant
    OBVIOUS
  <1> USE ConstantsAssumption DEF Init
  <1>1. TypeOK
    <2>1. /\ state_change_buffer \in [Clients -> Seq(Nat)]
          /\ held \in [Clients -> Seq(Nat)] /\ reported \in [Clients -> Seq(Nat)]
      BY EmptySeq
    <2>2. is_ready \in [Clients -> BOOLEAN] /\ doomed \in [Plugins -> BOOLEAN]
      OBVIOUS
    <2>3. /\ life \in [Clients -> Lives] /\ plugin \in [Plugins -> Lives]
          /\ document \in [Clients -> Clients \cup {None}]
          /\ event_types_registered \in [Clients -> SUBSET Types]
          /\ mount_counter \in [Clients -> 0 .. MaxInputs] /\ inputs \in 0 .. MaxInputs
      BY DEF Lives
    <2>4. /\ document_ \in [Plugins -> Clients \cup {None}]
          /\ document_client_ \in [Plugins -> Clients \cup {None}]
          /\ tile_buffer \in [Plugins -> Plugins] /\ tiles \in [Plugins -> Clients \cup {Empty}]
      OBVIOUS
    <2> QED BY <2>1, <2>2, <2>3, <2>4 DEF TypeOK
  <1>2. WellFormed
    BY DEF WellFormed
  <1>3. Counted
    BY DEF Counted, Live
  <1>4. Told
    BY DEF Told, Doom, LivePlugins
  <1>5. ObserversAreLive /\ Observed
    BY DEF ObserversAreLive, Observed
  <1>6. RegisteredTypesAreObserved
    BY DEF RegisteredTypesAreObserved
  <1>7. TileBuffersHaveOneOwner /\ Made
    BY DEF TileBuffersHaveOneOwner, Made, LivePlugins
  <1>8. TilesAreOfTheDocument /\ Pictured
    BY DEF TilesAreOfTheDocument, Pictured, LivePlugins
  <1>9. HeldChangesAreReportedOnce
    BY ConcatEmptySeq, EmptySeq DEF HeldChangesAreReportedOnce
  <1> QED
    BY <1>1, <1>2, <1>3, <1>4, <1>5, <1>6, <1>7, <1>8, <1>9 DEF DocumentInvariant
-----------------------------------------------------------------------------
(* One lemma for each action: the parts of the invariant that it disturbs, *)
(* and then the others.                                                    *)

LEMMA ConstructStep ==
    ASSUME DocumentInvariant, NEW c \in Clients, NEW d \in Clients, Construct(c, d)
    PROVE  DocumentInvariant'
  <1> USE DEF DocumentInvariant, Construct, pluginVars, history
  <1>1. TypeOK'
    <2>1. observers' \subseteq Clients \X Types \X (Clients \cup Plugins)
      BY DEF TypeOK, AddDocumentObservers, Types
    <2>2. is_ready' \in [Clients -> BOOLEAN]
      BY DEF TypeOK
    <2>3. /\ life' \in [Clients -> Lives] /\ document' \in [Clients -> Clients \cup {None}]
          /\ event_types_registered' \in [Clients -> SUBSET Types]
          /\ destroyed_observers' \subseteq Clients \cup Plugins
      BY DEF TypeOK, Lives, Types
    <2> QED BY <2>1, <2>2, <2>3 DEF TypeOK
  <1>2. WellFormed'
    BY ConstantsAssumption DEF WellFormed, TypeOK
  <1>3. Counted'
    <2>1. ShownBy(c) = {} /\ mount_counter[c] \in Nat
      BY ConstantsAssumption DEF WellFormed, ShownBy, TypeOK
    <2>2. Cardinality(ShownBy(c)) = 0
      BY <2>1, ShownIsFinite
    <2>3. Cardinality(ShownBy(c)) <= mount_counter[c]
      BY <2>1, <2>2
    <2> QED BY <2>3 DEF Counted, Live, ShownBy, TypeOK
  <1>4. Told'
    BY ConstantsAssumption DEF Told, Live, Doom, LivePlugins, TypeOK
  <1>5. ObserversAreLive' /\ Observed'
    <2>1. ASSUME NEW e \in observers' PROVE e \in observers \/ (e[1] = c /\ e[3] = c)
      BY <2>1 DEF AddDocumentObservers
    <2>2. \A e \in observers : e[1] \in Clients /\ life[e[1]] # "none"
      BY DEF ObserversAreLive, Live
    <2>3. ObserversAreLive'
      BY <2>1, <2>2 DEF ObserversAreLive, Live, LivePlugins, TypeOK
    <2>4. Observed'
      <3>1. \A p \in Plugins : document_[p] # c
        BY ConstantsAssumption DEF WellFormed
      <3>2. \A v \in Clients : v # c => document'[v] = document[v]
        BY DEF TypeOK
      <3>3. \A p \in Plugins : document_[p] # None => document_[p] \in Clients
        BY DEF TypeOK
      <3> QED BY <2>1, <2>2, <3>1, <3>2, <3>3, ConstantsAssumption DEF Observed
    <2> QED BY <2>3, <2>4
  <1>6. RegisteredTypesAreObserved'
    BY DEF RegisteredTypesAreObserved, Live, ViewsOfDocument, AddDocumentObservers, TypeOK
  <1> QED
    BY <1>1, <1>2, <1>3, <1>4, <1>5, <1>6, OwnersKept, TilesKept, HeldKept

\* The destructor.  No plugin shows the client, or there was an unload.
LEMMA DeleteStep ==
    ASSUME DocumentInvariant, NEW c \in Clients, life[c] # "none", Delete(c),
           tasks' \in Seq(Tasks), \A p \in Plugins : Doom(p)' <=> Doom(p),
           unloads \/ (ShownBy(c) = {} /\ UNCHANGED tasks)
    PROVE  DocumentInvariant'
  <1> USE DEF DocumentInvariant, Delete, pluginVars, history
  <1>1. TypeOK'
    <2>1. /\ state_change_buffer' \in [Clients -> Seq(Nat)]
          /\ held' \in [Clients -> Seq(Nat)] /\ reported' \in [Clients -> Seq(Nat)]
      BY EmptySeq DEF TypeOK
    <2>2. is_ready' \in [Clients -> BOOLEAN]
      BY DEF TypeOK
    <2>3. /\ life' \in [Clients -> Lives]
          /\ event_types_registered' \in [Clients -> SUBSET Types]
          /\ mount_counter' \in [Clients -> 0 .. MaxInputs]
      BY ConstantsAssumption DEF TypeOK, Lives
    <2>4. observers' \subseteq observers /\ to_restore' \subseteq to_restore
          /\ destroyed_observers' \subseteq destroyed_observers
      BY DEF RemoveDocumentObservers
    <2> QED BY <2>1, <2>2, <2>3, <2>4 DEF TypeOK
  <1>2. WellFormed'
    BY DEF WellFormed, TypeOK
  <1>3. Counted'
    <2>1. \A d \in Clients : mount_counter'[d] = IF d = c THEN 0 ELSE mount_counter[d]
      BY DEF TypeOK
    <2>2. \A d \in Clients : Live(d)' => d # c /\ Live(d)
      BY DEF Live, TypeOK
    <2>3. UNCHANGED inputs /\ inputs >= 0 /\ \A d : ShownBy(d)' = ShownBy(d)
      BY DEF ShownBy, TypeOK
    <2> QED BY <2>1, <2>2, <2>3 DEF Counted
  <1>4. Told'
    <2>1. \A p \in Plugins : p \in destroyed_observers => p \in destroyed_observers'
      BY ConstantsAssumption
    <2>2. CASE unloads
      BY <2>1, <2>2 DEF Told, LivePlugins
    <2>3. CASE ShownBy(c) = {} /\ UNCHANGED tasks
      <3>1. \A p \in Plugins : document_[p] # c
        BY <2>3, ConstantsAssumption DEF WellFormed, ShownBy
      <3>2. \A o : Doom(o)' <=> Doom(o)
        BY <2>3 DEF Doom
      <3> QED BY <2>1, <3>1, <3>2 DEF Told, LivePlugins, Live, TypeOK
    <2> QED BY <2>2, <2>3
  <1>5. ObserversAreLive' /\ Observed'
    BY ConstantsAssumption
    DEF ObserversAreLive, Observed, Live, LivePlugins, RemoveDocumentObservers, ViewsOfDocument, TypeOK
  <1>6. RegisteredTypesAreObserved'
    BY DEF RegisteredTypesAreObserved, Live, ViewsOfDocument, RemoveDocumentObservers, TypeOK
  <1>7. TileBuffersHaveOneOwner' /\ Made'
    BY DEF TileBuffersHaveOneOwner, Made, LivePlugins
  <1>8. TilesAreOfTheDocument' /\ Pictured'
    BY DEF TilesAreOfTheDocument, Pictured, LivePlugins
  <1>9. HeldChangesAreReportedOnce'
    BY ConcatEmptySeq, EmptySeq DEF HeldChangesAreReportedOnce, TypeOK
  <1> QED
    BY <1>1, <1>2, <1>3, <1>4, <1>5, <1>6, <1>7, <1>8, <1>9
\* A client that is not mounted is shown by no plugin.
LEMMA CollectStep ==
    ASSUME DocumentInvariant, NEW c \in Clients, Collect(c)
    PROVE  DocumentInvariant'
  <1>1. Live(c) /\ mount_counter[c] = 0 /\ Delete(c) /\ UNCHANGED tasks
    BY DEF Collect
  <1>2. Cardinality(ShownBy(c)) <= 0 /\ Cardinality(ShownBy(c)) \in Nat
    BY <1>1, ShownIsFinite DEF DocumentInvariant, Counted
  <1>3. ShownBy(c) = {}
    BY <1>2, ShownIsFinite
  <1>4. life[c] # "none" /\ tasks' \in Seq(Tasks) /\ \A p \in Plugins : Doom(p)' <=> Doom(p)
    BY <1>1 DEF DocumentInvariant, WellFormed, Live, Doom
  <1> QED BY <1>1, <1>3, <1>4, DeleteStep

\* OnDestroyed is on its way to the client, so there was an unload.
LEMMA OnDestroyedClientStep ==
    ASSUME DocumentInvariant, NEW c \in Clients, OnDestroyedClient(c)
    PROVE  DocumentInvariant'
  <1>1. RunDestroyed(c) /\ Delete(c) /\ tasks \in Seq(Tasks) /\ c \in Observers
    BY DEF OnDestroyedClient, DocumentInvariant, WellFormed, Observers
  <1>2. /\ tasks' \in Seq(Tasks) /\ Doom(c)
        /\ \A p \in Plugins : Doom(p)' <=> Doom(p)
    BY <1>1, RunOneDestroyed, ConstantsAssumption
  <1>3. unloads
    BY <1>1, <1>2 DEF DocumentInvariant, Told
  <1>4. life[c] # "none"
    BY DEF OnDestroyedClient, DocumentInvariant, WellFormed
  <1> QED BY <1>1, <1>2, <1>3, <1>4, DeleteStep

LEMMA OnStep ==
    ASSUME DocumentInvariant, NEW c \in Clients, NEW t \in PageTypes, On(c, t)
    PROVE  DocumentInvariant'
  <1> USE DEF DocumentInvariant, On, Input, pluginVars, history
  <1>1. \A e \in observers' : e \in observers \/ (e[1] = c /\ e[3] = c)
    BY DEF AddDocumentObservers
  <1>2. TypeOK'
    <2>1. observers' \subseteq Clients \X Types \X (Clients \cup Plugins)
      BY DEF TypeOK, AddDocumentObservers, Types
    <2>2. /\ event_types_registered' \in [Clients -> SUBSET Types]
          /\ inputs' \in 0 .. MaxInputs
      BY ConstantsAssumption DEF TypeOK, Types
    <2> QED BY <2>1, <2>2 DEF TypeOK
  <1>3. WellFormed'
    BY DEF WellFormed
  <1>4. Counted'
    <2>1. inputs' >= inputs /\ inputs' \in Nat /\ \A d : ShownBy(d)' = ShownBy(d)
      BY DEF TypeOK, ShownBy
    <2> QED BY <2>1 DEF Counted, Live, TypeOK
  <1>5. ObserversAreLive' /\ Observed'
    BY <1>1, ConstantsAssumption DEF ObserversAreLive, Observed, Live, LivePlugins
  <1>6. RegisteredTypesAreObserved'
    BY DEF RegisteredTypesAreObserved, Live, ViewsOfDocument, AddDocumentObservers, TypeOK
  <1> QED
    BY <1>2, <1>3, <1>4, <1>5, <1>6, ToldKept, OwnersKept, TilesKept, HeldKept

LEMMA NewPluginStep ==
    ASSUME DocumentInvariant, NEW p \in Plugins, NewPlugin(p)
    PROVE  DocumentInvariant'
  <1> USE DEF DocumentInvariant, NewPlugin, clientVars, history
  <1>1. \A q \in Plugins : plugin'[q] = IF q = p THEN "live" ELSE plugin[q]
    BY DEF TypeOK
  <1>2. TypeOK'
    <2>1. plugin' \in [Plugins -> Lives] /\ destroyed_observers' \subseteq Clients \cup Plugins
      BY DEF TypeOK, Lives
    <2> QED BY <2>1 DEF TypeOK
  <1>3. document_[p] = None
    BY DEF WellFormed
  <1>4. WellFormed'
    BY <1>1, ConstantsAssumption DEF WellFormed
  <1>5. Told'
    <2>1. p \notin unloaded /\ unloaded \subseteq Plugins
      BY DEF Told, TypeOK
    <2>2. UNCHANGED <<unloads, unloaded, doomed, document_>>
      OBVIOUS
    <2>3. \A o : (Doom(o)' <=> Doom(o)) /\ (Live(o)' <=> Live(o))
      BY DEF Doom, Live
    <2> QED BY <1>1, <2>1, <2>2, <2>3 DEF Told, LivePlugins
  <1>6. ObserversAreLive' /\ Observed'
    BY <1>1 DEF ObserversAreLive, Observed, Live, LivePlugins
  <1>7. TileBuffersHaveOneOwner' /\ Made'
    BY <1>1 DEF TileBuffersHaveOneOwner, Made, LivePlugins, TypeOK
  <1>8. TilesAreOfTheDocument' /\ Pictured'
    BY <1>1, <1>3 DEF TilesAreOfTheDocument, Pictured, LivePlugins, Made
  <1> QED
    BY <1>2, <1>4, <1>5, <1>6, <1>7, <1>8, CountedKept, RegisteredKept, HeldKept

LEMMA HandleDocumentCallbackStep ==
    ASSUME DocumentInvariant, NEW c \in Clients, NEW t \in LokTypes, HandleDocumentCallback(c, t)
    PROVE  DocumentInvariant'
  <1> USE DEF DocumentInvariant, HandleDocumentCallback, Input, clientVars, pluginVars, history
  <1>1. TypeOK'
    <2>1. inputs' \in 0 .. MaxInputs
      BY ConstantsAssumption DEF TypeOK
    <2> QED BY <2>1 DEF TypeOK
  <1>2. tasks' \in Seq(Tasks) /\ \A o : Doom(o)' <=> Doom(o)
    <2> DEFINE event == [kind |-> "event", to |-> c, type |-> t, change |-> inputs']
    <2>1. event \in Tasks /\ event.kind # "destroyed"
      BY DEF TypeOK, Tasks
    <2>2. tasks \in Seq(Tasks) /\ (UNCHANGED tasks \/ tasks' = Append(tasks, event))
      BY DEF WellFormed
    <2> HIDE DEF event
    <2>3. CASE UNCHANGED tasks
      BY <2>2, <2>3 DEF Doom
    <2>4. CASE tasks' = Append(tasks, event)
      BY <2>1, <2>2, <2>4, PostTask
    <2> QED BY <2>2, <2>3, <2>4
  <1>3. WellFormed'
    BY <1>2 DEF WellFormed
  <1>4. Counted'
    <2>1. inputs' >= inputs /\ inputs' \in Nat /\ \A d : ShownBy(d)' = ShownBy(d)
      BY DEF TypeOK, ShownBy
    <2> QED BY <2>1 DEF Counted, Live, TypeOK
  <1>5. Told'
    BY <1>2 DEF Told, LivePlugins, Live
  <1> QED
    BY <1>1, <1>3, <1>4, <1>5, ObserversKept, RegisteredKept, OwnersKept, TilesKept, HeldKept

\* All plugins that are there and were not told are told now.
LEMMA HandleBeforeUnloadStep ==
    ASSUME DocumentInvariant, HandleBeforeUnload
    PROVE  DocumentInvariant'
  <1> USE DEF DocumentInvariant, HandleBeforeUnload, Input, clientVars, pluginVars
  <1>1. TypeOK'
    <2>1. inputs' \in 0 .. MaxInputs /\ unloads' \in BOOLEAN /\ unloaded' \subseteq Plugins
      BY ConstantsAssumption DEF TypeOK
    <2> QED BY <2>1 DEF TypeOK
  <1>2. /\ tasks' \in Seq(Tasks)
        /\ \A o : Doom(o)' <=> Doom(o) \/ o \in destroyed_observers
    <2> DEFINE call == [kind |-> "destroyed", to |-> destroyed_observers]
    <2>1. call \in Tasks /\ call.kind = "destroyed" /\ call.to = destroyed_observers
      BY DEF TypeOK, Tasks, Observers
    <2>2. /\ tasks \in Seq(Tasks)
          /\ (destroyed_observers = {} /\ UNCHANGED tasks) \/ tasks' = Append(tasks, call)
      BY DEF WellFormed, PostDestroyed
    <2> HIDE DEF call
    <2>3. CASE destroyed_observers = {} /\ UNCHANGED tasks
      BY <2>2, <2>3 DEF Doom
    <2>4. CASE tasks' = Append(tasks, call)
      BY <2>1, <2>2, <2>4, PostTask
    <2> QED BY <2>2, <2>3, <2>4
  <1>3. WellFormed'
    BY <1>2 DEF WellFormed
  <1>4. Counted'
    <2>1. inputs' >= inputs /\ inputs' \in Nat /\ \A d : ShownBy(d)' = ShownBy(d)
      BY DEF TypeOK, ShownBy
    <2> QED BY <2>1 DEF Counted, Live, TypeOK
  <1>5. Told'
    <2>1. unloads' = TRUE /\ unloaded' = unloaded \cup LivePlugins /\ UNCHANGED <<plugin, doomed>>
      BY DEF LivePlugins
    <2> QED BY <1>2, <2>1 DEF Told, LivePlugins
  <1> QED
    BY <1>1, <1>3, <1>4, <1>5, ObserversKept, RegisteredKept, OwnersKept, TilesKept, HeldKept

\* Adding to the end of the buffer adds to the end of what was held.
LEMMA AppendOfConcat ==
    ASSUME NEW s \in Seq(Nat), NEW t \in Seq(Nat), NEW n \in Nat
    PROVE  Append(s \o t, n) = s \o Append(t, n)
  <1>1. /\ s \o t \in Seq(Nat) /\ Append(t, n) \in Seq(Nat)
        /\ Append(s \o t, n) \in Seq(Nat) /\ s \o Append(t, n) \in Seq(Nat)
    BY ConcatProperties, AppendProperties
  <1>2. Len(Append(s \o t, n)) = Len(s \o Append(t, n))
    BY <1>1
  <1>3. \A i \in 1 .. Len(Append(s \o t, n)) : Append(s \o t, n)[i] = (s \o Append(t, n))[i]
    BY <1>1
  <1> QED BY <1>1, <1>2, <1>3, SeqEqual

LEMMA DocumentCallbackStep ==
    ASSUME DocumentInvariant, DocumentCallback
    PROVE  DocumentInvariant'
  <1> DEFINE c == Head(tasks).to
             n == Head(tasks).change
  <1> USE DEF DocumentInvariant
  <1>1. /\ Run("event") /\ tasks \in Seq(Tasks)
        /\ UNCHANGED <<life, document, event_types_registered, reported, mount_counter,
                       to_restore, pluginVars, observers, destroyed_observers, history, inputs>>
    BY DEF DocumentCallback, WellFormed
  <1>2. tasks' \in Seq(Tasks) /\ \A o : Doom(o)' <=> Doom(o)
    BY <1>1, RunTask
  <1>3. c \in Clients /\ n \in Nat
    <2>1. tasks # <<>> /\ Head(tasks).kind = "event"
      BY <1>1 DEF Run
    <2>2. Head(tasks) \in Tasks
      BY <1>1, <2>1, HeadTailProperties
    <2> QED BY <2>1, <2>2 DEF Tasks
  <1>4. is_ready' \in [Clients -> BOOLEAN]
    BY <1>3 DEF TypeOK, DocumentCallback, HandleInvalidate
  <1>5. \/ UNCHANGED <<state_change_buffer, held>>
        \/ /\ state_change_buffer' = [state_change_buffer EXCEPT ![c] = Append(@, n)]
           /\ held' = [held EXCEPT ![c] = Append(@, n)]
    BY <1>3 DEF DocumentCallback, HandleStateChange, TypeOK
  <1> HIDE DEF c, n
  <1>6. /\ state_change_buffer' \in [Clients -> Seq(Nat)] /\ held' \in [Clients -> Seq(Nat)]
        /\ HeldChangesAreReportedOnce'
    <2>1. CASE UNCHANGED <<state_change_buffer, held>>
      BY <1>1, <2>1, HeldKept DEF TypeOK
    <2>2. CASE /\ state_change_buffer' = [state_change_buffer EXCEPT ![c] = Append(@, n)]
               /\ held' = [held EXCEPT ![c] = Append(@, n)]
      <3>1. /\ state_change_buffer[c] \in Seq(Nat) /\ held[c] \in Seq(Nat) /\ reported[c] \in Seq(Nat)
        BY <1>3 DEF TypeOK
      <3>2. /\ Append(state_change_buffer[c], n) \in Seq(Nat) /\ Append(held[c], n) \in Seq(Nat)
            /\ Append(held[c], n) = reported[c] \o Append(state_change_buffer[c], n)
        <4>1. Append(state_change_buffer[c], n) \in Seq(Nat) /\ Append(held[c], n) \in Seq(Nat)
          BY <3>1, <1>3, AppendProperties
        <4>2. Append(reported[c] \o state_change_buffer[c], n)
                = reported[c] \o Append(state_change_buffer[c], n)
          BY <3>1, <1>3, AppendOfConcat
        <4>3. held[c] = reported[c] \o state_change_buffer[c]
          BY <1>3 DEF HeldChangesAreReportedOnce
        <4> QED BY <4>1, <4>2, <4>3
      <3>3. UNCHANGED reported
        BY <1>1
      <3> QED BY <3>2, <3>3, <2>2, <1>3 DEF TypeOK, HeldChangesAreReportedOnce
    <2> QED BY <1>5, <2>1, <2>2
  <1>7. TypeOK'
    BY <1>1, <1>4, <1>6 DEF TypeOK, pluginVars, history
  <1>8. WellFormed'
    BY <1>1, <1>2 DEF WellFormed, pluginVars
  <1>9. Told'
    BY <1>1, <1>2 DEF Told, LivePlugins, Live, pluginVars, history
  <1> QED
    BY <1>1, <1>6, <1>7, <1>8, <1>9, CountedKept, ObserversKept, RegisteredKept, OwnersKept,
       TilesKept
    DEF pluginVars

LEMMA EmitReadyStep ==
    ASSUME DocumentInvariant, EmitReady
    PROVE  DocumentInvariant'
  <1> DEFINE c == Head(tasks).to
  <1> USE DEF DocumentInvariant
  <1>1. /\ Run("ready") /\ tasks \in Seq(Tasks)
        /\ UNCHANGED <<life, document, event_types_registered, is_ready, held, mount_counter,
                       to_restore, pluginVars, observers, destroyed_observers, history, inputs>>
    BY DEF EmitReady, WellFormed
  <1>2. tasks' \in Seq(Tasks) /\ \A o : Doom(o)' <=> Doom(o)
    BY <1>1, RunTask
  <1>3. \/ UNCHANGED <<reported, state_change_buffer>>
        \/ /\ c \in Clients
           /\ reported' = [reported EXCEPT ![c] = @ \o state_change_buffer[c]]
           /\ state_change_buffer' = [state_change_buffer EXCEPT ![c] = <<>>]
    BY DEF EmitReady, Live
  <1> HIDE DEF c
  <1>4. /\ state_change_buffer' \in [Clients -> Seq(Nat)] /\ reported' \in [Clients -> Seq(Nat)]
        /\ HeldChangesAreReportedOnce'
    <2>1. CASE UNCHANGED <<reported, state_change_buffer>>
      BY <1>1, <2>1, HeldKept DEF TypeOK
    <2>2. CASE /\ c \in Clients
               /\ reported' = [reported EXCEPT ![c] = @ \o state_change_buffer[c]]
               /\ state_change_buffer' = [state_change_buffer EXCEPT ![c] = <<>>]
      <3>1. state_change_buffer[c] \in Seq(Nat) /\ reported[c] \in Seq(Nat)
        BY <2>2 DEF TypeOK
      <3>2. reported[c] \o state_change_buffer[c] \in Seq(Nat) /\ <<>> \in Seq(Nat)
        BY <3>1, ConcatProperties, EmptySeq
      <3>3. (reported[c] \o state_change_buffer[c]) \o <<>> = reported[c] \o state_change_buffer[c]
        BY <3>2, ConcatEmptySeq
      <3>4. UNCHANGED held
        BY <1>1
      <3> QED BY <2>2, <3>2, <3>3, <3>4 DEF TypeOK, HeldChangesAreReportedOnce
    <2> QED BY <1>3, <2>1, <2>2
  <1>5. TypeOK'
    BY <1>1, <1>4 DEF TypeOK, pluginVars, history
  <1>6. WellFormed'
    BY <1>1, <1>2 DEF WellFormed, pluginVars
  <1>7. Told'
    BY <1>1, <1>2 DEF Told, LivePlugins, Live, pluginVars, history
  <1> QED
    BY <1>1, <1>4, <1>5, <1>6, <1>7, CountedKept, ObserversKept, RegisteredKept, OwnersKept,
       TilesKept
    DEF pluginVars

\* The plugin is told; it keeps its weak pointer and stays among the observers of
\* document events.
LEMMA OnDestroyedPluginStep ==
    ASSUME DocumentInvariant, NEW p \in Plugins, OnDestroyedPlugin(p)
    PROVE  DocumentInvariant'
  <1> USE DEF DocumentInvariant
  <1>1. RunDestroyed(p) /\ tasks \in Seq(Tasks) /\ p \in Observers
    BY DEF OnDestroyedPlugin, WellFormed, Observers
  <1>2. tasks' \in Seq(Tasks) /\ Doom(p) /\ \A o : o # p => (Doom(o)' <=> Doom(o))
    BY <1>1, RunOneDestroyed
  <1>3. unloads = TRUE
    BY <1>1, <1>2 DEF Told, TypeOK
  <1>4. /\ \A q \in Plugins : doomed'[q] <=> q = p \/ doomed[q]
        /\ \A q \in Plugins : document_'[q] = IF q = p THEN None ELSE document_[q]
    BY DEF OnDestroyedPlugin, TypeOK
  <1>5. /\ destroyed_observers' = destroyed_observers \ {p}
        /\ UNCHANGED <<clientVars, plugin, document_client_, tile_buffer, tiles, observers,
                       history, inputs>>
    BY DEF OnDestroyedPlugin
  <1>6. TypeOK'
    <2>1. /\ doomed' \in [Plugins -> BOOLEAN] /\ document_' \in [Plugins -> Clients \cup {None}]
      BY DEF OnDestroyedPlugin, TypeOK
    <2> QED BY <1>5, <2>1 DEF TypeOK, clientVars, history
  <1>7. WellFormed'
    BY <1>2, <1>4, <1>5 DEF WellFormed, clientVars
  <1>8. Told'
    BY <1>2, <1>3, <1>4, <1>5 DEF Told, LivePlugins, history
  <1>9. ObserversAreLive' /\ Observed'
    BY <1>4, <1>5 DEF ObserversAreLive, Observed, LivePlugins, Live, clientVars
  <1>10. doomed'[p] = TRUE
    BY DEF OnDestroyedPlugin, TypeOK
  <1>11. TileBuffersHaveOneOwner' /\ Made'
    <2>1. plugin[p] # "none"
      BY DEF OnDestroyedPlugin, WellFormed
    <2> QED BY <1>4, <1>5, <2>1 DEF TileBuffersHaveOneOwner, Made, LivePlugins, clientVars
  <1>12. TilesAreOfTheDocument' /\ Pictured'
    BY <1>10 DEF TilesAreOfTheDocument, Pictured
  <1> QED
    BY <1>5, <1>6, <1>7, <1>8, <1>9, <1>11, <1>12, CountedKept, RegisteredKept, HeldKept
    DEF clientVars

\* A plugin that is there and was not told is among the destroyed observers.
LEMMA SkipDestroyedStep ==
    ASSUME DocumentInvariant, NEW o \in Observers, SkipDestroyed(o)
    PROVE  DocumentInvariant'
  <1> USE DEF DocumentInvariant
  <1>1. RunDestroyed(o) /\ tasks \in Seq(Tasks) /\ o \notin destroyed_observers
    BY DEF SkipDestroyed, WellFormed
  <1>2. tasks' \in Seq(Tasks) /\ Doom(o) /\ \A u : u # o => (Doom(u)' <=> Doom(u))
    BY <1>1, RunOneDestroyed
  <1>3. unloads = TRUE
    BY <1>2 DEF Told, TypeOK
  <1>4. UNCHANGED <<clientVars, pluginVars, observers, destroyed_observers, history, inputs>>
    BY DEF SkipDestroyed
  <1>5. TypeOK'
    BY <1>4 DEF TypeOK, clientVars, pluginVars, history
  <1>6. WellFormed'
    BY <1>2, <1>4 DEF WellFormed, clientVars, pluginVars
  <1>7. Told'
    BY <1>1, <1>2, <1>3, <1>4 DEF Told, LivePlugins, clientVars, pluginVars, history
  <1> QED
    BY <1>4, <1>5, <1>6, <1>7, CountedKept, ObserversKept, RegisteredKept, OwnersKept, TilesKept,
       HeldKept
    DEF clientVars, pluginVars
-----------------------------------------------------------------------------
(* Showing a client.                                                       *)

\* What happens to the number of plugins that show a client when one of them turns
\* to d.
LEMMA Turning ==
    ASSUME TypeOK, NEW p \in Plugins, NEW d,
           document_client_' = [document_client_ EXCEPT ![p] = d]
    PROVE  \A e \in Clients :
              /\ Cardinality(ShownBy(e)) \in Nat /\ Cardinality(ShownBy(e)') \in Nat
              /\ Cardinality(ShownBy(e)') = Cardinality(ShownBy(e))
                    + (IF e = d THEN 1 ELSE 0) - (IF e = document_client_[p] THEN 1 ELSE 0)
  <1> SUFFICES ASSUME NEW e \in Clients
               PROVE  /\ Cardinality(ShownBy(e)) \in Nat /\ Cardinality(ShownBy(e)') \in Nat
                      /\ Cardinality(ShownBy(e)') = Cardinality(ShownBy(e))
                            + (IF e = d THEN 1 ELSE 0) - (IF e = document_client_[p] THEN 1 ELSE 0)
    OBVIOUS
  <1> DEFINE N == ShownBy(e)
  <1>1. IsFiniteSet(N) /\ Cardinality(N) \in Nat
    BY ShownIsFinite
  <1>2. /\ p \in N <=> document_client_[p] = e
        /\ ShownBy(e)' = IF e = d THEN N \cup {p} ELSE N \ {p}
    BY DEF ShownBy, TypeOK
  <1> HIDE DEF N
  <1>3. /\ Cardinality(N \cup {p}) = IF p \in N THEN Cardinality(N) ELSE Cardinality(N) + 1
        /\ Cardinality(N \ {p}) = IF p \in N THEN Cardinality(N) - 1 ELSE Cardinality(N)
        /\ IsFiniteSet(N \cup {p}) /\ IsFiniteSet(N \ {p})
    BY <1>1, FS_AddElement, FS_RemoveElement
  <1>4. Cardinality(N \cup {p}) \in Nat /\ Cardinality(N \ {p}) \in Nat
    BY <1>3, FS_CardinalityType
  <1> QED BY <1>1, <1>2, <1>3, <1>4 DEF N

\* The first mount posts a task that dooms nobody.
LEMMA PostReadyTask ==
    ASSUME TypeOK, WellFormed, NEW c \in Clients, tasks' = PostReady(c)
    PROVE  tasks' \in Seq(Tasks) /\ \A o : Doom(o)' <=> Doom(o)
  <1> DEFINE ready == [kind |-> "ready", to |-> c]
  <1>1. ready \in Tasks /\ ready.kind # "destroyed"
    BY DEF Tasks
  <1>2. tasks \in Seq(Tasks) /\ (UNCHANGED tasks \/ tasks' = Append(tasks, ready))
    BY DEF PostReady, WellFormed
  <1> HIDE DEF ready
  <1>3. CASE UNCHANGED tasks
    BY <1>2, <1>3 DEF Doom
  <1>4. CASE tasks' = Append(tasks, ready)
    BY <1>1, <1>2, <1>4, PostTask
  <1> QED BY <1>2, <1>3, <1>4

LEMMA DestroyStep ==
    ASSUME DocumentInvariant, NEW p \in Plugins, Destroy(p)
    PROVE  DocumentInvariant'
  <1> DEFINE q == document_client_[p]
  <1> USE DEF DocumentInvariant
  <1>1. /\ plugin[p] = "live" /\ q \in Clients \cup {None}
        /\ \A u \in Plugins : plugin'[u] = IF u = p THEN "gone" ELSE plugin[u]
        /\ \A u \in Plugins : document_'[u] = IF u = p THEN None ELSE document_[u]
        /\ \A u \in Plugins : document_client_'[u] = IF u = p THEN None ELSE document_client_[u]
    BY DEF Destroy, TypeOK
  <1>2. UNCHANGED <<life, document, event_types_registered, is_ready, state_change_buffer,
                    held, reported, doomed, tile_buffer, tiles, tasks, history, inputs>>
    BY DEF Destroy
  <1>3. \A o \in Observers : o # p => (o \in destroyed_observers' <=> o \in destroyed_observers)
    BY DEF Destroy
  <1>4. /\ destroyed_observers' \subseteq destroyed_observers
        /\ p \notin destroyed_observers' \/ doomed[p]
    BY DEF Destroy
  <1>5. /\ mount_counter' \in [Clients -> 0 .. MaxInputs]
        /\ Counted'
    <2>1. document_client_' = [document_client_ EXCEPT ![p] = None]
      BY DEF Destroy
    <2>2. \A e \in Clients :
              /\ Cardinality(ShownBy(e)) \in Nat /\ Cardinality(ShownBy(e)') \in Nat
              /\ Cardinality(ShownBy(e)') =
                    Cardinality(ShownBy(e)) - (IF e = q THEN 1 ELSE 0)
      <3>1. \A e \in Clients : e # None
        BY ConstantsAssumption
      <3>2. \A e \in Clients :
              /\ Cardinality(ShownBy(e)) \in Nat /\ Cardinality(ShownBy(e)') \in Nat
              /\ Cardinality(ShownBy(e)') = Cardinality(ShownBy(e))
                    + (IF e = None THEN 1 ELSE 0) - (IF e = document_client_[p] THEN 1 ELSE 0)
        BY <2>1, Turning
      <3> QED BY <3>1, <3>2
    <2>3. \A e \in Clients : mount_counter'[e] =
              IF e = q /\ Live(e) THEN mount_counter[e] - 1 ELSE mount_counter[e]
      BY DEF Destroy, Unmount, TypeOK, Live
    <2>4. mount_counter' \in [Clients -> 0 .. MaxInputs]
      <3>1. \A e \in Clients : mount_counter'[e] \in 0 .. MaxInputs
        <4>1. ASSUME NEW e \in Clients PROVE mount_counter'[e] \in 0 .. MaxInputs
          <5>1. mount_counter[e] \in 0 .. MaxInputs
            BY DEF TypeOK
          <5>2. CASE e = q /\ Live(e)
            <6>1. /\ Cardinality(ShownBy(e)) <= mount_counter[e]
                  /\ mount_counter'[e] = mount_counter[e] - 1
              BY <2>3, <5>2 DEF Counted
            <6>2. Cardinality(ShownBy(e)) \in Nat /\ Cardinality(ShownBy(e)) - 1 \in Nat
              BY <2>2, <5>2
            <6> QED BY <5>1, <6>1, <6>2, ConstantsAssumption
          <5> QED BY <2>3, <5>1, <5>2
        <4> QED BY <4>1
      <3>2. mount_counter' = [e \in Clients |-> mount_counter'[e]]
        BY DEF Destroy, Unmount, TypeOK
      <3> QED BY <3>1, <3>2
    <2>5. Counted'
      BY <1>2, <2>2, <2>3 DEF Counted, Live, TypeOK
    <2> QED BY <2>4, <2>5
  <1>6. to_restore' \subseteq to_restore \cup {[client |-> q, key |-> p, tile_buffer |-> tile_buffer[p]]}
        /\ (to_restore' \subseteq to_restore \/ Live(q))
    BY DEF Destroy, MarkRendererWillRemount
  <1>7. TypeOK'
    <2>1. to_restore' \subseteq [client : Clients, key : Plugins, tile_buffer : Plugins]
      BY <1>6 DEF TypeOK, Live
    <2>2. /\ plugin' \in [Plugins -> Lives] /\ document_' \in [Plugins -> Clients \cup {None}]
          /\ document_client_' \in [Plugins -> Clients \cup {None}]
          /\ observers' \subseteq observers
      BY DEF Destroy, TypeOK, Lives, RemoveObserverFromDocument
    <2> QED BY <1>2, <1>4, <1>5, <2>1, <2>2 DEF TypeOK, history
  <1>8. WellFormed'
    BY <1>1, <1>2, <1>4 DEF WellFormed
  <1>9. Told'
    <2>1. \A u \in Plugins : u # p => (u \in destroyed_observers' <=> u \in destroyed_observers)
      BY <1>3 DEF Observers
    <2>2. UNCHANGED <<unloads, unloaded, doomed>> /\ unloaded \subseteq Plugins
      BY <1>2 DEF history, TypeOK
    <2>3. \A o : (Doom(o)' <=> Doom(o)) /\ (Live(o)' <=> Live(o))
      BY <1>2 DEF Doom, Live
    <2> QED BY <1>1, <2>1, <2>2, <2>3 DEF Told, LivePlugins
  <1>10. observers' \subseteq observers
    BY DEF Destroy, RemoveObserverFromDocument
  <1>11. \A e \in observers' : e[3] = p => doomed[p]
    <2> SUFFICES ASSUME NEW e \in observers', e[3] = p, ~doomed[p] PROVE FALSE
      OBVIOUS
    <2>1. document_[p] # None /\ document[e[1]] = document[document_[p]] /\ e[1] \in Clients
      BY <1>10 DEF Observed, ObserversAreLive, Live
    <2> QED BY <2>1 DEF Destroy, RemoveObserverFromDocument, ViewsOfDocument
  <1>12. ObserversAreLive' /\ Observed'
    BY <1>1, <1>2, <1>10, <1>11 DEF ObserversAreLive, Observed, Live, LivePlugins
  <1>13. RegisteredTypesAreObserved'
    <2>1. \A c \in Clients, t \in Types : <<c, t, c>> \in observers => <<c, t, c>> \in observers'
      BY ConstantsAssumption DEF Destroy, RemoveObserverFromDocument
    <2> QED BY <1>2, <2>1 DEF RegisteredTypesAreObserved, Live, ViewsOfDocument, TypeOK
  <1>14. TileBuffersHaveOneOwner' /\ Made'
    <2>1. \A u \in LivePlugins' : u \in LivePlugins /\ u # p /\ u \in Plugins
      BY <1>1 DEF LivePlugins
    <2>2. p \in LivePlugins
      BY <1>1 DEF LivePlugins
    <2>3. \A r \in to_restore' : r \in to_restore
             \/ r = [client |-> q, key |-> p, tile_buffer |-> tile_buffer[p]]
      BY <1>6
    <2> HIDE DEF q
    <2>4. TileBuffersHaveOneOwner'
      BY <1>2, <2>1, <2>2, <2>3 DEF TileBuffersHaveOneOwner
    <2>5. /\ \A u \in Plugins : plugin[u] # "none" => plugin'[u] # "none"
          /\ \A u \in Plugins : plugin'[u] = "none" => plugin[u] = "none"
      BY <1>1
    <2>6. /\ \A u \in Plugins : tile_buffer[u] \in Plugins
          /\ \A r \in to_restore : r.tile_buffer \in Plugins
      BY DEF TypeOK
    <2>7. \A u \in LivePlugins' : plugin'[tile_buffer[u]] # "none"
      BY <2>1, <2>5, <2>6 DEF Made
    <2>8. \A r \in to_restore' : plugin'[r.tile_buffer] # "none"
      BY <2>2, <2>3, <2>5, <2>6 DEF Made
    <2> QED BY <1>2, <2>4, <2>5, <2>7, <2>8 DEF Made
  <1>15. TilesAreOfTheDocument' /\ Pictured'
    <2> SUFFICES ASSUME \A u \in Plugins : ~doomed[u]
                 PROVE  TilesAreOfTheDocument' /\ Pictured'
      BY <1>2 DEF TilesAreOfTheDocument, Pictured
    <2>1. document_[p] = q
      BY DEF WellFormed
    <2>2. Live(q) => tiles[tile_buffer[p]] \in {q, Empty}
      BY <1>1, <2>1, ConstantsAssumption DEF TilesAreOfTheDocument, LivePlugins, Live
    <2>3. \A r \in to_restore' : r \in to_restore
             \/ (Live(q) /\ r = [client |-> q, key |-> p, tile_buffer |-> tile_buffer[p]])
      BY <1>6
    <2> HIDE DEF q
    <2>4. \A r \in to_restore' : tiles[r.tile_buffer] \in {r.client, Empty}
      BY <2>2, <2>3 DEF Pictured
    <2>5. \A u \in LivePlugins' : u \in LivePlugins /\ document_'[u] = document_[u]
      BY <1>1 DEF LivePlugins
    <2> QED BY <1>2, <2>4, <2>5 DEF TilesAreOfTheDocument, Pictured
  <1> QED
    BY <1>2, <1>5, <1>7, <1>8, <1>9, <1>12, <1>13, <1>14, <1>15, HeldKept

\* Counting a mount that is an input of its own: the new client gets one more, and
\* the one before loses no more than the plugin that showed it.
LEMMA MountCounted ==
    ASSUME DocumentInvariant, NEW p \in Plugins, NEW c \in Clients, Live(c), Input,
           UNCHANGED life, document_client_' = [document_client_ EXCEPT ![p] = c],
           NEW lost, lost = None \/ (lost # c /\ lost = document_client_[p]),
           mount_counter' = Mount(Unmount(mount_counter, lost), c)
    PROVE  mount_counter' \in [Clients -> 0 .. MaxInputs] /\ Counted'
  <1> USE DEF DocumentInvariant
  <1>1. \A e \in Clients :
              /\ Cardinality(ShownBy(e)) \in Nat /\ Cardinality(ShownBy(e)') \in Nat
              /\ Cardinality(ShownBy(e)') = Cardinality(ShownBy(e))
                    + (IF e = c THEN 1 ELSE 0) - (IF e = document_client_[p] THEN 1 ELSE 0)
    BY Turning
  <1>2. inputs \in Nat /\ inputs' = inputs + 1 /\ inputs' <= MaxInputs /\ MaxInputs \in Nat
    BY ConstantsAssumption DEF Input, TypeOK
  <1>3. /\ mount_counter'[c] = mount_counter[c] + 1
        /\ \A e \in Clients : e # c => mount_counter'[e] =
              IF e = lost /\ Live(e) THEN mount_counter[e] - 1 ELSE mount_counter[e]
    BY ConstantsAssumption DEF Mount, Unmount, TypeOK, Live
  <1>4. ASSUME NEW e \in Clients
        PROVE  /\ mount_counter'[e] \in 0 .. MaxInputs /\ mount_counter'[e] <= inputs'
               /\ Live(e)' => Cardinality(ShownBy(e)') <= mount_counter'[e]
    <2>1. /\ mount_counter[e] \in Nat /\ mount_counter[e] <= inputs
          /\ Live(e)' <=> Live(e)
          /\ Live(e) => Cardinality(ShownBy(e)) <= mount_counter[e]
      BY DEF Counted, TypeOK, Live
    <2>2. CASE e = c
      <3>1. /\ mount_counter'[e] = mount_counter[e] + 1
            /\ Cardinality(ShownBy(e)') <= Cardinality(ShownBy(e)) + 1
        BY <1>1, <1>3, <2>2
      <3> QED BY <1>1, <1>2, <2>1, <3>1
    <2>3. CASE e # c /\ e = lost /\ Live(e)
      <3>1. e = document_client_[p]
        BY <2>3, ConstantsAssumption
      <3>2. /\ mount_counter'[e] = mount_counter[e] - 1
            /\ Cardinality(ShownBy(e)') = Cardinality(ShownBy(e)) - 1
        BY <1>1, <1>3, <2>3, <3>1
      <3>3. Cardinality(ShownBy(e)) \in Nat /\ Cardinality(ShownBy(e)') \in Nat
        BY <1>1
      <3>4. Cardinality(ShownBy(e)) <= mount_counter[e]
        BY <2>1, <2>3
      <3> QED BY <1>2, <2>1, <3>2, <3>3, <3>4
    <2>4. CASE e # c /\ ~(e = lost /\ Live(e))
      <3>1. /\ mount_counter'[e] = mount_counter[e]
            /\ Cardinality(ShownBy(e)') <= Cardinality(ShownBy(e))
        BY <1>1, <1>3, <2>4
      <3> QED BY <1>1, <1>2, <2>1, <3>1
    <2> QED BY <2>2, <2>3, <2>4
  <1>5. mount_counter' = [e \in Clients |-> mount_counter'[e]]
    BY DEF Mount, Unmount, TypeOK
  <1>6. mount_counter' \in [Clients -> 0 .. MaxInputs]
    BY <1>4, <1>5
  <1> QED BY <1>4, <1>6 DEF Counted

\* What rendering and restoring share: plugin p shows the live client c, observes
\* its document, and no longer observes the one before.
LEMMA ShowStep ==
    ASSUME DocumentInvariant, NEW p \in Plugins, NEW c \in Clients, Live(c), plugin[p] = "live",
           tasks' = PostReady(c),
           document_' = [document_ EXCEPT ![p] = c],
           document_client_' = [document_client_ EXCEPT ![p] = c],
           NEW obs, observers' = AddDocumentObservers(obs, c, PluginMonitors, p),
           obs \subseteq observers,
           \A e \in observers : e[3] # p => e \in obs,
           \A e \in obs : e[3] = p => doomed[p],
           UNCHANGED <<life, document, event_types_registered, plugin, doomed,
                       destroyed_observers, history>>
    PROVE  /\ WellFormed' /\ Told' /\ ObserversAreLive' /\ Observed' /\ RegisteredTypesAreObserved'
           /\ document_' \in [Plugins -> Clients \cup {None}]
           /\ document_client_' \in [Plugins -> Clients \cup {None}]
           /\ observers' \subseteq Clients \X Types \X (Clients \cup Plugins)
  <1> USE DEF DocumentInvariant
  <1>1. /\ \A u \in Plugins : document_'[u] = IF u = p THEN c ELSE document_[u]
        /\ \A u \in Plugins : document_client_'[u] = IF u = p THEN c ELSE document_client_[u]
        /\ document_' \in [Plugins -> Clients \cup {None}]
        /\ document_client_' \in [Plugins -> Clients \cup {None}]
    BY DEF TypeOK
  <1>2. \A e \in observers' : e \in obs \/ (e[1] = c /\ e[3] = p)
    BY DEF AddDocumentObservers
  <1>3. tasks' \in Seq(Tasks) /\ \A o : Doom(o)' <=> Doom(o)
    BY PostReadyTask
  <1>4. observers' \subseteq Clients \X Types \X (Clients \cup Plugins)
    BY DEF TypeOK, AddDocumentObservers, Types
  <1>5. WellFormed'
    BY <1>1, <1>3, ConstantsAssumption DEF WellFormed, Live
  <1>6. Told'
    BY <1>1, <1>3 DEF Told, LivePlugins, Live, history
  <1>7. ObserversAreLive'
    BY <1>2 DEF ObserversAreLive, Live, LivePlugins
  <1>8. Observed'
    BY <1>1, <1>2, ConstantsAssumption DEF Observed
  <1>9. RegisteredTypesAreObserved'
    <2>1. \A d \in Clients, t \in Types : <<d, t, d>> \in observers => <<d, t, d>> \in observers'
      BY ConstantsAssumption DEF AddDocumentObservers
    <2> QED BY <2>1 DEF RegisteredTypesAreObserved, Live, ViewsOfDocument, TypeOK
  <1> QED BY <1>1, <1>4, <1>5, <1>6, <1>7, <1>8, <1>9

LEMMA RenderDocumentStep ==
    ASSUME DocumentInvariant, NEW p \in Plugins, NEW c \in Clients, RenderDocument(p, c)
    PROVE  DocumentInvariant'
  <1> DEFINE obs == IF document_[p] = None THEN observers
                    ELSE RemoveObserverFromDocument(observers, document_[p], p)
             lost == IF NeedsReset(p, c) THEN document_client_[p] ELSE None
  <1> USE DEF DocumentInvariant
  <1>1. /\ plugin[p] = "live" /\ Live(c) /\ Input /\ tasks' = PostReady(c)
        /\ document_' = [document_ EXCEPT ![p] = c]
        /\ document_client_' = [document_client_ EXCEPT ![p] = c]
        /\ observers' = AddDocumentObservers(obs, c, PluginMonitors, p)
        /\ tiles' = [tiles EXCEPT ![tile_buffer[p]] = c]
        /\ UNCHANGED <<life, document, event_types_registered, is_ready, state_change_buffer,
                       held, reported, to_restore, plugin, doomed, tile_buffer,
                       destroyed_observers, history>>
    BY DEF RenderDocument
  <1>2. mount_counter' = Mount(Unmount(mount_counter, lost), c)
    BY ConstantsAssumption DEF RenderDocument, Unmount, Live
  <1>3. lost = None \/ (lost # c /\ lost = document_client_[p])
    BY DEF NeedsReset, SameView, WellFormed
  <1>4. /\ obs \subseteq observers
        /\ \A e \in observers : e[3] # p => e \in obs
        /\ \A e \in obs : e[3] = p => doomed[p]
    <2>1. ASSUME NEW e \in obs, e[3] = p, ~doomed[p] PROVE FALSE
      <3>1. e \in observers
        BY <2>1 DEF RemoveObserverFromDocument
      <3>2. document_[p] # None /\ document[e[1]] = document[document_[p]] /\ e[1] \in Clients
        BY <2>1, <3>1 DEF Observed, ObserversAreLive, Live
      <3> QED BY <2>1, <3>2 DEF RemoveObserverFromDocument, ViewsOfDocument
    <2>2. obs \subseteq observers /\ \A e \in observers : e[3] # p => e \in obs
      BY DEF RemoveObserverFromDocument
    <2> QED BY <2>1, <2>2
  <1> HIDE DEF obs, lost
  <1>5. /\ WellFormed' /\ Told' /\ ObserversAreLive' /\ Observed' /\ RegisteredTypesAreObserved'
        /\ document_' \in [Plugins -> Clients \cup {None}]
        /\ document_client_' \in [Plugins -> Clients \cup {None}]
        /\ observers' \subseteq Clients \X Types \X (Clients \cup Plugins)
    BY <1>1, <1>4, ShowStep
  <1>6. mount_counter' \in [Clients -> 0 .. MaxInputs] /\ Counted'
    BY <1>1, <1>2, <1>3, MountCounted
  <1>7. TypeOK'
    <2>1. inputs' \in 0 .. MaxInputs /\ tiles' \in [Plugins -> Clients \cup {Empty}]
      BY <1>1, ConstantsAssumption DEF Input, TypeOK
    <2> QED BY <1>1, <1>5, <1>6, <2>1 DEF TypeOK, history
  <1>8. /\ tile_buffer[p] \in Plugins /\ p \in LivePlugins
        /\ \A u \in Plugins : tiles'[u] = IF u = tile_buffer[p] THEN c ELSE tiles[u]
        /\ \A u \in Plugins : document_'[u] = IF u = p THEN c ELSE document_[u]
        /\ UNCHANGED LivePlugins
    BY <1>1 DEF TypeOK, LivePlugins
  <1>9. TileBuffersHaveOneOwner'
    BY <1>1, <1>8 DEF TileBuffersHaveOneOwner
  <1>10. Made'
    BY <1>1, <1>8 DEF Made
  <1>11. TilesAreOfTheDocument' /\ Pictured'
    <2>1. /\ \A u \in LivePlugins : u \in Plugins /\ tile_buffer[u] \in Plugins
          /\ \A r \in to_restore : r.tile_buffer \in Plugins
      BY DEF TypeOK, LivePlugins
    <2>2. /\ \A u \in LivePlugins : u # p => tiles'[tile_buffer[u]] = tiles[tile_buffer[u]]
          /\ \A r \in to_restore : tiles'[r.tile_buffer] = tiles[r.tile_buffer]
      BY <1>8, <2>1 DEF TileBuffersHaveOneOwner
    <2> QED
      BY <1>1, <1>8, <2>1, <2>2, ConstantsAssumption DEF TilesAreOfTheDocument, Pictured
  <1> QED
    BY <1>1, <1>5, <1>6, <1>7, <1>9, <1>10, <1>11, HeldKept

LEMMA RestoreDocumentStep ==
    ASSUME DocumentInvariant, NEW p \in Plugins, NEW c \in Clients, NEW key \in Plugins,
           RestoreDocument(p, c, key)
    PROVE  DocumentInvariant'
  <1> DEFINE usable == {r \in Restorable(c, key) : tiles[r.tile_buffer] # Empty}
             taken == CHOOSE r \in usable : TRUE
  <1> USE DEF DocumentInvariant
  <1>1. /\ plugin[p] = "live" /\ Live(c) /\ Input /\ tasks' = PostReady(c) /\ document_[p] = None
        /\ document_' = [document_ EXCEPT ![p] = c]
        /\ document_client_' = [document_client_ EXCEPT ![p] = c]
        /\ observers' = AddDocumentObservers(observers, c, PluginMonitors, p)
        /\ to_restore' = to_restore \ Restorable(c, key)
        /\ tile_buffer' = [tile_buffer EXCEPT ![p] =
                             IF usable = {} THEN @ ELSE taken.tile_buffer]
        /\ UNCHANGED <<life, document, event_types_registered, is_ready, state_change_buffer,
                       held, reported, plugin, doomed, tiles, destroyed_observers, history>>
    BY DEF RestoreDocument, GetRestoredRenderer
  <1>2. mount_counter' = Mount(Unmount(mount_counter, None), c)
    BY ConstantsAssumption DEF RestoreDocument, Unmount, Live
  <1>3. \A e \in observers : e[3] = p => doomed[p]
    BY <1>1 DEF Observed
  <1>4. /\ WellFormed' /\ Told' /\ ObserversAreLive' /\ Observed' /\ RegisteredTypesAreObserved'
        /\ document_' \in [Plugins -> Clients \cup {None}]
        /\ document_client_' \in [Plugins -> Clients \cup {None}]
        /\ observers' \subseteq Clients \X Types \X (Clients \cup Plugins)
    BY <1>1, <1>3, ShowStep
  <1>5. mount_counter' \in [Clients -> 0 .. MaxInputs] /\ Counted'
    BY <1>1, <1>2, MountCounted
  <1>6. \/ usable = {} /\ UNCHANGED tile_buffer
        \/ /\ taken \in to_restore /\ taken.client = c /\ taken \notin to_restore'
           /\ tile_buffer' = [tile_buffer EXCEPT ![p] = taken.tile_buffer]
    <2>1. CASE usable = {}
      BY <1>1, <2>1 DEF TypeOK
    <2>2. CASE usable # {}
      <3>1. taken \in usable
        BY <2>2
      <3>2. taken \in to_restore /\ taken.client = c /\ taken \in Restorable(c, key)
        BY <3>1 DEF Restorable
      <3>3. tile_buffer' = [tile_buffer EXCEPT ![p] = taken.tile_buffer]
        <4> HIDE DEF taken, usable
        <4> QED BY <1>1, <2>2
      <3>4. taken \notin to_restore'
        BY <1>1, <3>2
      <3> HIDE DEF taken
      <3> QED BY <3>2, <3>3, <3>4
    <2> QED BY <2>1, <2>2
  <1> HIDE DEF taken, usable
  <1>7. TypeOK'
    <2>1. inputs' \in 0 .. MaxInputs /\ to_restore' \subseteq to_restore
      BY <1>1, ConstantsAssumption DEF Input, TypeOK
    <2>2. tile_buffer' \in [Plugins -> Plugins]
      BY <1>6 DEF TypeOK
    <2> QED BY <1>1, <1>4, <1>5, <2>1, <2>2 DEF TypeOK, history
  <1>8. /\ p \in LivePlugins /\ LivePlugins \subseteq Plugins /\ UNCHANGED LivePlugins
        /\ to_restore' \subseteq to_restore
        /\ \A u \in Plugins : document_'[u] = IF u = p THEN c ELSE document_[u]
        /\ \A u \in Plugins : u # p => tile_buffer'[u] = tile_buffer[u]
    BY <1>1, <1>6 DEF TypeOK, LivePlugins
  <1>9. CASE UNCHANGED tile_buffer
    <2>1. TileBuffersHaveOneOwner' /\ Made'
      BY <1>1, <1>8, <1>9 DEF TileBuffersHaveOneOwner, Made
    <2>2. TilesAreOfTheDocument' /\ Pictured'
      BY <1>1, <1>8, <1>9 DEF TilesAreOfTheDocument, Pictured
    <2> QED BY <1>1, <1>4, <1>5, <1>7, <2>1, <2>2, HeldKept
  <1>10. CASE /\ taken \in to_restore /\ taken.client = c /\ taken \notin to_restore'
              /\ tile_buffer' = [tile_buffer EXCEPT ![p] = taken.tile_buffer]
    <2>1. tile_buffer'[p] = taken.tile_buffer
      BY <1>10 DEF TypeOK
    <2>2. TileBuffersHaveOneOwner'
      BY <1>8, <1>10, <2>1 DEF TileBuffersHaveOneOwner
    <2>3. Made'
      BY <1>1, <1>8, <1>10, <2>1 DEF Made
    <2>4. TilesAreOfTheDocument' /\ Pictured'
      BY <1>1, <1>8, <1>10, <2>1, ConstantsAssumption DEF TilesAreOfTheDocument, Pictured
    <2> QED BY <1>1, <1>4, <1>5, <1>7, <2>2, <2>3, <2>4, HeldKept
  <1> QED BY <1>6, <1>9, <1>10

LEMMA DocumentStep == DocumentInvariant /\ [Next]_vars => DocumentInvariant'
  <1> SUFFICES ASSUME DocumentInvariant, [Next]_vars PROVE DocumentInvariant'
    OBVIOUS
  <1>1. ASSUME NEW c \in Clients, ResolveLoad(c) PROVE DocumentInvariant'
    BY <1>1, ConstructStep DEF ResolveLoad
  <1>2. ASSUME NEW c \in Clients, NEW from \in Clients, NewView(c, from) PROVE DocumentInvariant'
    <2>1. document[from] \in Clients /\ Construct(c, document[from])
      BY <1>2 DEF NewView, Live, DocumentInvariant, WellFormed, TypeOK
    <2> QED BY <2>1, ConstructStep
  <1> QED
    BY <1>1, <1>2, CollectStep, OnStep, HandleDocumentCallbackStep, NewPluginStep, DestroyStep,
       RenderDocumentStep, RestoreDocumentStep, HandleBeforeUnloadStep, DocumentCallbackStep,
       EmitReadyStep, OnDestroyedClientStep, OnDestroyedPluginStep, SkipDestroyedStep,
       InvariantKept
    DEF Next, Observers
-----------------------------------------------------------------------------
(* The theorems.                                                           *)

LEMMA DocumentInvariantHolds == Spec => []DocumentInvariant
  BY DocumentInit, DocumentStep, PTL DEF Spec

\* The state of clients and plugins keeps its types: mount_counter_ in particular
\* never becomes negative, because Unmount is only called by a plugin that mounted.
THEOREM TypeCorrect == Spec => []TypeOK
  <1>1. DocumentInvariant => TypeOK
    BY DEF DocumentInvariant
  <1> QED BY <1>1, DocumentInvariantHolds, PTL

\* A client that plugins show is mounted at least once for each of them (Mount and
\* Unmount of DocumentClient).
THEOREM MountedCorrect == Spec => []ShownClientsAreMounted
  <1>1. DocumentInvariant => ShownClientsAreMounted
    <2> SUFFICES ASSUME DocumentInvariant, NEW c \in Clients, Live(c)
                 PROVE  mount_counter[c] >= Cardinality({p \in LivePlugins : document_client_[p] = c})
      BY DEF ShownClientsAreMounted
    <2>1. {p \in LivePlugins : document_client_[p] = c} = ShownBy(c)
      BY ConstantsAssumption DEF DocumentInvariant, WellFormed, LivePlugins, ShownBy
    <2>2. Cardinality(ShownBy(c)) \in Nat /\ mount_counter[c] \in Nat
      BY ShownIsFinite DEF DocumentInvariant, TypeOK
    <2>3. Cardinality(ShownBy(c)) <= mount_counter[c]
      BY DEF DocumentInvariant, Counted
    <2> QED BY <2>1, <2>2, <2>3
  <1> QED BY <1>1, DocumentInvariantHolds, PTL

\* A plugin shows a client that is there, or an unload will tell it to let go
\* (OfficeWebPlugin::OnDestroyed).
THEOREM ShownCorrect == Spec => []ShownClientsAreLive
  <1>1. DocumentInvariant => ShownClientsAreLive
    BY DEF DocumentInvariant, Told, ShownClientsAreLive, LivePlugins
  <1> QED BY <1>1, DocumentInvariantHolds, PTL

\* Document events are dispatched to clients and plugins that are there, except to
\* plugins that OnDestroyed told (document_event_observers_ of OfficeInstance).
THEOREM ObserversCorrect == Spec => []ObserversAreLive
  <1>1. DocumentInvariant => ObserversAreLive
    BY DEF DocumentInvariant
  <1> QED BY <1>1, DocumentInvariantHolds, PTL

\* A client hears every type it registered for with On, as long as no other view of
\* its document was deleted.
THEOREM RegisteredCorrect == Spec => []RegisteredTypesAreObserved
  <1>1. DocumentInvariant => RegisteredTypesAreObserved
    BY DEF DocumentInvariant
  <1> QED BY <1>1, DocumentInvariantHolds, PTL

\* A tile buffer belongs to one plugin or waits in one client to be restored
\* (MarkRendererWillRemount and GetRestoredRenderer).
THEOREM OwnersCorrect == Spec => []TileBuffersHaveOneOwner
  <1>1. DocumentInvariant => TileBuffersHaveOneOwner
    BY DEF DocumentInvariant
  <1> QED BY <1>1, DocumentInvariantHolds, PTL

\* A plugin draws tiles of the client it shows, through any sequence of renders,
\* restores and closed documents (RenderDocument and Destroy of OfficeWebPlugin).
THEOREM TilesCorrect == Spec => []TilesAreOfTheDocument
  <1>1. DocumentInvariant => TilesAreOfTheDocument
    BY DEF DocumentInvariant
  <1> QED BY <1>1, DocumentInvariantHolds, PTL

\* A state change that came before the client was ready waits in the buffer or was
\* emitted once, in order (HandleStateChange and EmitReady).
THEOREM HeldCorrect == Spec => []HeldChangesAreReportedOnce
  <1>1. DocumentInvariant => HeldChangesAreReportedOnce
    BY DEF DocumentInvariant
  <1> QED BY <1>1, DocumentInvariantHolds, PTL
=============================================================================
