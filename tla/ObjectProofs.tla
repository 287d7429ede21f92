---------------------------- MODULE ObjectProofs ----------------------------
(***************************************************************************)
(* Proofs about the services of MCServices that keep objects for           *)
(* JavaScript (frames, downloads, windows while the application quits and  *)
(* message ports), and about the bytes that are served from an archive.    *)
(***************************************************************************)
EXTENDS MCServices, Integers, TLAPS

-----------------------------------------------------------------------------
(* Frames.  One host of the frame is committed; a host that is unloaded    *)
(* has a renderer; and the object points to a host that is committed or    *)
(* being unloaded, never to a speculative one.  A committed host without a *)
(* renderer has either crashed, or its renderer was never made, and then   *)
(* the object of the frame already points to it.                           *)

LEMMA HostNumbers == 0 \notin Hosts /\ -1 \notin Hosts
  BY ServicesAssumption

\* The two boolean variables, the pointer and the pipe.
FrameObject ==
    /\ disposed \in BOOLEAN /\ renderer_api \in BOOLEAN /\ from_inactive \in BOOLEAN
    /\ web_frame \in {"none", "yes", "destroyed"}
    /\ render_frame \in Hosts \cup {0} /\ receiver_at \in Hosts \cup {0, -1}
    /\ web_frame = "none" => render_frame = 0 /\ disposed = FALSE
    /\ web_frame = "destroyed" => render_frame = 0
    /\ web_frame # "none" => (disposed = TRUE <=> render_frame = 0)
    /\ receiver_at \in Hosts => receiver_at = render_frame
FrameHosts ==
    /\ host \in [Hosts -> {"none", "speculative", "current", "inactive", "sad", "deleted"}]
    /\ live \subseteq Hosts /\ \A h \in live : host[h] \in {"speculative", "current", "inactive"}
    /\ \A h \in Hosts : host[h] = "inactive" => h \in live
    /\ \A g, h \in Hosts : host[g] \in {"current", "sad"} /\ host[h] \in {"current", "sad"} => g = h
FramePointer ==
    /\ render_frame # 0 => host[render_frame] \in {"current", "inactive", "sad"}
    /\ web_frame = "yes" /\ from_inactive = FALSE =>
          \A h \in Hosts : host[h] = "current" => render_frame = h
FrameScript ==
    script \in {"new", "running", "answered", "dropped"} /\ script_at \in Hosts \cup {0}
FrameInvariant == FrameObject /\ FrameHosts /\ FramePointer /\ FrameScript

LEMMA FrameInit == Framing!Init => FrameInvariant
  BY HostNumbers
  DEF Framing!Init, FrameInvariant, FrameObject, FrameHosts, FramePointer, FrameScript,
      Framing!NoHost

\* Setting up the pipe binds it to the host that the object points to.
LEMMA MaybeSetupKeeps ==
  ASSUME FrameObject, NEW alive, Framing!MaybeSetupMojoConnection(alive), disposed = FALSE,
         web_frame # "none", UNCHANGED <<web_frame, render_frame, disposed, from_inactive>>
  PROVE  FrameObject'
  <1>1. render_frame \in Hosts
    BY DEF FrameObject
  <1>2. renderer_api' = TRUE /\ receiver_at' = Framing!SetUp(render_frame, receiver_at, alive)
    BY DEF Framing!MaybeSetupMojoConnection
  <1>3. receiver_at' \in Hosts \cup {-1} /\ (receiver_at' \in Hosts => receiver_at' = render_frame)
    <2>1. CASE receiver_at \notin {0, -1}
      <3>1. receiver_at' = receiver_at
        BY <1>2, <2>1 DEF Framing!SetUp, Framing!NoHost, Framing!Pending
      <3> QED BY <2>1, <3>1 DEF FrameObject
    <2>2. CASE receiver_at \in {0, -1} /\ render_frame \in alive
      <3>1. receiver_at' = render_frame
        BY <1>2, <2>2 DEF Framing!SetUp, Framing!NoHost, Framing!Pending
      <3> QED BY <1>1, <3>1
    <2>3. CASE receiver_at \in {0, -1} /\ render_frame \notin alive
      <3>1. receiver_at' = -1
        BY <1>2, <2>3 DEF Framing!SetUp, Framing!NoHost, Framing!Pending
      <3> QED BY <3>1, HostNumbers
    <2> QED BY <2>1, <2>2, <2>3
  <1> QED BY <1>2, <1>3 DEF FrameObject

LEMMA MarkDisposedKeeps ==
  ASSUME FrameObject, Framing!MarkRenderFrameDisposed, web_frame' \in {"yes", "destroyed"},
         from_inactive' \in BOOLEAN
  PROVE  FrameObject' /\ render_frame' = 0
  BY HostNumbers
  DEF FrameObject, Framing!MarkRenderFrameDisposed, Framing!TeardownMojoConnection, Framing!NoHost

LEMMA FrameObjectKept ==
  ASSUME FrameObject,
         UNCHANGED <<web_frame, render_frame, disposed, renderer_api, receiver_at, from_inactive>>
  PROVE  FrameObject'
  BY DEF FrameObject

LEMMA FrameStep == FrameInvariant /\ Framing!Next => FrameInvariant'
  <1> SUFFICES ASSUME FrameInvariant, Framing!Next PROVE FrameInvariant'
    OBVIOUS
  <1>0. FrameObject /\ FrameHosts /\ FramePointer /\ FrameScript
    BY DEF FrameInvariant
  <1>1. ASSUME NEW h \in Hosts, Framing!NavigationStarts(h) PROVE FrameInvariant'
    <2> USE <1>1 DEF Framing!NavigationStarts
    <2>1. FrameObject'
      BY <1>0, FrameObjectKept
    <2>2. FrameHosts'
      BY <1>0 DEF FrameHosts
    <2>3. FramePointer'
      BY <1>0 DEF FramePointer, FrameHosts, FrameObject
    <2> QED BY <1>0, <2>1, <2>2, <2>3 DEF FrameInvariant, FrameScript
  <1>2. ASSUME NEW h \in Hosts, Framing!RenderFrameCreated(h) PROVE FrameInvariant'
    <2> USE <1>2 DEF Framing!RenderFrameCreated
    <2>1. FrameObject'
      <3>1. CASE web_frame = "yes" /\ disposed = FALSE
        BY <1>0, <3>1, MaybeSetupKeeps
      <3>2. CASE ~(web_frame = "yes" /\ disposed = FALSE)
        <4>1. UNCHANGED <<renderer_api, receiver_at>>
          BY <1>0, <3>2 DEF Framing!MaybeSetupMojoConnection, FrameObject
        <4> QED BY <1>0, <4>1, FrameObjectKept
      <3> QED BY <3>1, <3>2
    <2>2. FrameHosts'
      BY <1>0 DEF FrameHosts
    <2>3. FramePointer'
      BY <1>0 DEF FramePointer
    <2> QED BY <1>0, <2>1, <2>2, <2>3 DEF FrameInvariant, FrameScript
  <1>3. ASSUME NEW h \in Hosts, Framing!RenderFrameHostChanged(h) PROVE FrameInvariant'
    <2> USE <1>3 DEF Framing!RenderFrameHostChanged
    <2>1. /\ host' \in [Hosts -> {"none", "speculative", "current", "inactive", "sad", "deleted"}]
          /\ host'[h] = "current" /\ host[h] = "speculative"
          /\ \A g \in Hosts : g # h =>
                host'[g] = IF host[g] \in {"current", "sad"}
                           THEN (IF g \in live THEN "inactive" ELSE "deleted") ELSE host[g]
      BY <1>0 DEF FrameHosts
    <2>2. FrameHosts'
      BY <1>0, <2>1 DEF FrameHosts
    <2>3. CASE web_frame = "yes"
      <3>1. /\ disposed' = FALSE /\ render_frame' = h /\ renderer_api' = TRUE
            /\ receiver_at' = h /\ h # 0
        BY <2>3, HostNumbers
        DEF Framing!UpdateRenderFrameHost, Framing!SetUp, Framing!NoHost, Framing!Pending
      <3>2. FrameObject'
        BY <1>0, <2>3, <3>1 DEF FrameObject
      <3>3. FramePointer'
        BY <1>0, <2>1, <3>1 DEF FramePointer, FrameHosts
      <3> QED BY <1>0, <2>2, <3>2, <3>3 DEF FrameInvariant, FrameScript
    <2>4. CASE web_frame # "yes"
      <3>1. FrameObject'
        BY <1>0, <2>4, FrameObjectKept
      <3>2. render_frame' = 0 /\ web_frame' # "yes"
        BY <1>0, <2>4 DEF FrameObject
      <3>3. FramePointer'
        BY <3>2 DEF FramePointer
      <3> QED BY <1>0, <2>2, <3>1, <3>3 DEF FrameInvariant, FrameScript
    <2> QED BY <2>3, <2>4
  <1>4. ASSUME NEW h \in Hosts,
               Framing!RendererCrashes(h) \/ (Framing!HostGoes(h) /\ h \in live)
        PROVE  FrameInvariant'
    <2>0. /\ Framing!RenderFrameDeleted(h) /\ h \in live
          /\ UNCHANGED <<frame, web_frame, script_at, from_inactive>>
          /\ host' \in [Hosts -> {"none", "speculative", "current", "inactive", "sad", "deleted"}]
          /\ \A g \in Hosts : g # h => host'[g] = host[g]
          /\ host'[h] \in {"sad", "deleted"} /\ (host'[h] = "sad" => host[h] = "current")
      BY <1>0, <1>4 DEF Framing!RendererCrashes, Framing!HostGoes, FrameHosts
    <2> USE DEF Framing!RenderFrameDeleted
    <2>1. FrameHosts'
      BY <1>0, <2>0 DEF FrameHosts
    <2>2. FrameScript'
      BY <1>0, <2>0 DEF FrameScript, Framing!ScriptWithout
    <2>3. CASE web_frame = "yes" /\ render_frame = h
      <3>1. FrameObject' /\ render_frame' = 0
        BY <1>0, <2>0, <2>3, MarkDisposedKeeps DEF FrameObject
      <3>2. \A g \in Hosts : host'[g] = "current" => g # h /\ host[g] = "current"
        BY <2>0
      <3>3. FramePointer'
        BY <1>0, <2>0, <2>3, <3>1, <3>2 DEF FramePointer
      <3> QED BY <2>1, <2>2, <3>1, <3>3 DEF FrameInvariant
    <2>4. CASE ~(web_frame = "yes" /\ render_frame = h)
      <3>1. UNCHANGED <<render_frame, disposed, renderer_api, receiver_at>>
        BY <2>0, <2>4
      <3>2. render_frame # h
        BY <1>0, <2>4, HostNumbers DEF FrameObject
      <3>3. FrameObject'
        BY <1>0, <2>0, <3>1, FrameObjectKept
      <3>4. FramePointer'
        BY <1>0, <2>0, <3>1, <3>2 DEF FramePointer, FrameObject
      <3> QED BY <2>1, <2>2, <3>3, <3>4 DEF FrameInvariant
    <2> QED BY <2>3, <2>4
  <1>5. ASSUME NEW h \in Hosts, Framing!HostGoes(h), h \notin live PROVE FrameInvariant'
    <2> USE <1>5 DEF Framing!HostGoes
    <2>1. FrameObject'
      BY <1>0, FrameObjectKept
    <2>2. host[h] = "speculative"
      BY <1>0 DEF FrameHosts
    <2>3. FrameHosts'
      BY <1>0, <2>2 DEF FrameHosts
    <2>4. FramePointer'
      BY <1>0, <2>2 DEF FramePointer, FrameHosts, FrameObject
    <2> QED BY <1>0, <2>1, <2>3, <2>4 DEF FrameInvariant, FrameScript
  <1>6. ASSUME NEW h \in Hosts, Framing!From(h) PROVE FrameInvariant'
    <2> USE <1>6 DEF Framing!From
    <2>1. FrameObject'
      BY <1>0, HostNumbers DEF FrameObject
    <2>2. FrameHosts'
      BY <1>0 DEF FrameHosts
    <2>3. FramePointer'
      BY <1>0 DEF FramePointer, FrameHosts
    <2> QED BY <1>0, <2>1, <2>2, <2>3 DEF FrameInvariant, FrameScript
  <1>7. CASE Framing!FrameDeleted
    <2> USE <1>7 DEF Framing!FrameDeleted
    <2>1. FrameHosts'
      BY <1>0 DEF FrameHosts, Framing!Exists
    <2>2. FrameScript'
      BY <1>0 DEF FrameScript
    <2>3. FrameObject' /\ render_frame' = 0 /\ web_frame' # "yes"
      <3>1. CASE web_frame = "yes"
        BY <1>0, <3>1, MarkDisposedKeeps DEF FrameObject
      <3>2. CASE web_frame # "yes"
        BY <1>0, <3>2, FrameObjectKept DEF FrameObject
      <3> QED BY <3>1, <3>2
    <2> QED BY <2>1, <2>2, <2>3 DEF FrameInvariant, FramePointer
  <1>8. CASE Framing!OnRendererConnectionError
    <2> USE <1>8 DEF Framing!OnRendererConnectionError, Framing!TeardownMojoConnection
    <2>1. FrameObject'
      BY <1>0, HostNumbers DEF FrameObject, Framing!NoHost
    <2> QED BY <1>0, <2>1 DEF FrameInvariant, FrameHosts, FramePointer, FrameScript
  <1>9. CASE Framing!Send
    <2> USE <1>9 DEF Framing!Send
    <2>1. FrameObject'
      <3>1. disposed = FALSE
        BY <1>0 DEF FrameObject
      <3> QED BY <1>0, <3>1, MaybeSetupKeeps
    <2> QED BY <1>0, <2>1 DEF FrameInvariant, FrameHosts, FramePointer, FrameScript
  <1>10. CASE Framing!ExecuteJavaScript
    <2> USE <1>10 DEF Framing!ExecuteJavaScript
    <2>1. FrameObject'
      BY <1>0, FrameObjectKept
    <2>2. FrameScript'
      <3>1. script' \in {"answered", "running", "dropped"}
        OBVIOUS
      <3> QED BY <1>0, <3>1 DEF FrameScript, FrameObject
    <2> QED BY <1>0, <2>1, <2>2 DEF FrameInvariant, FrameHosts, FramePointer
  <1>11. CASE Framing!ScriptReturns
    <2> USE <1>11 DEF Framing!ScriptReturns
    <2>1. FrameObject'
      BY <1>0, FrameObjectKept
    <2> QED BY <1>0, <2>1 DEF FrameInvariant, FrameHosts, FramePointer, FrameScript
  <1>12. ASSUME NEW h \in Hosts, Framing!RendererCrashes(h) \/ Framing!HostGoes(h)
         PROVE  FrameInvariant'
    <2>1. CASE Framing!RendererCrashes(h)
      BY <1>4, <2>1
    <2>2. CASE Framing!HostGoes(h) /\ h \in live
      BY <1>4, <2>2
    <2>3. CASE Framing!HostGoes(h) /\ h \notin live
      BY <1>5, <2>3
    <2> QED BY <1>12, <2>1, <2>2, <2>3
  <1> QED
    BY <1>1, <1>2, <1>3, <1>6, <1>7, <1>8, <1>9, <1>10, <1>11, <1>12 DEF Framing!Next

LEMMA FrameStutter == FrameInvariant /\ Framing!NoStep => FrameInvariant'
  BY DEF FrameInvariant, FrameObject, FrameHosts, FramePointer, FrameScript, Framing!NoStep,
         Framing!frameVars

LEMMA FrameSafe == FrameInvariant => Framing!TypeOK /\ Framing!FramesFollowTheirNode
  <1> SUFFICES ASSUME FrameInvariant PROVE Framing!TypeOK /\ Framing!FramesFollowTheirNode
    OBVIOUS
  <1>0. FrameObject /\ FrameHosts /\ FramePointer /\ FrameScript
    BY DEF FrameInvariant
  <1>1. Framing!TypeOK
    BY <1>0
    DEF FrameObject, FrameHosts, FrameScript, Framing!TypeOK, Framing!Exists, Framing!NoHost,
        Framing!Pending
  <1>2. Framing!FramesFollowTheirNode
    BY <1>0
    DEF FrameObject, FrameHosts, FramePointer, Framing!FramesFollowTheirNode, Framing!Exists,
        Framing!NoHost
  <1> QED BY <1>1, <1>2

-----------------------------------------------------------------------------
(* Downloads.  What the property says of the object and the download needs *)
(* more: before the download there is nothing; and a file has a place only *)
(* when the target is decided, after which a path that JavaScript sets is  *)
(* a late one.                                                             *)

DownloadObject ==
    /\ item \in {"none", "in_progress", "interrupted", "failed", "complete", "cancelled", "gone"}
    /\ wrapper \in {"none", "yes", "gone"}
    /\ download_item \in BOOLEAN /\ wrapper_pinned \in BOOLEAN
    /\ item = "none" <=> wrapper = "none"
    /\ download_item = TRUE => item \notin {"none", "gone"} /\ wrapper = "yes"
    /\ item \in {"in_progress", "interrupted"} => download_item = TRUE
    /\ (wrapper_pinned = TRUE) <=> (item \in {"in_progress", "interrupted"})
DownloadEvents ==
    /\ done_events \in {0, 1, 2}
    /\ item \in {"none", "in_progress", "interrupted"} => done_events = 0
    /\ item \in {"failed", "complete", "cancelled"} => done_events \in {1, 2}
DownloadPlace ==
    /\ forced \in BOOLEAN /\ manager \in BOOLEAN
    /\ wrapper_held \in BOOLEAN /\ dialog_undefined \in BOOLEAN
    /\ save_path \in {"none", "script", "late", "before", "dialog"}
    /\ target \in {"none", "generating", "dialog", "decided", "lost"}
    /\ target_path \in {"none", "forced", "script", "late", "before", "dialog"}
    /\ item = "none" => target = "none"
    /\ target # "decided" => target_path = "none"
    /\ target_path \notin {"none", "forced"} /\ wrapper = "yes" =>
          target_path = save_path \/ save_path = "late"
DownloadInvariant == DownloadObject /\ DownloadEvents /\ DownloadPlace

LEMMA DownloadInit == Downloading!Init => DownloadInvariant
  BY DEF Downloading!Init, DownloadInvariant, DownloadObject, DownloadEvents, DownloadPlace

\* A download that can go on and changes its state tells so if it is done.
LEMMA UpdatedKeeps ==
  ASSUME DownloadObject, DownloadEvents,
         NEW state \in {"in_progress", "interrupted", "failed", "complete", "cancelled"},
         item \in {"in_progress", "interrupted"},
         Downloading!OnDownloadUpdated(state), UNCHANGED <<wrapper, download_item>>
  PROVE  DownloadObject' /\ DownloadEvents' /\ item' # "none"
  <1>1. item' = state /\ download_item = TRUE /\ download_item' = TRUE /\ done_events = 0
    BY DEF DownloadObject, DownloadEvents, Downloading!OnDownloadUpdated
  <1>2. CASE state \in {"failed", "complete", "cancelled"}
    <2>1. done_events' = 1 /\ wrapper_pinned' = FALSE
      BY <1>1, <1>2 DEF Downloading!OnDownloadUpdated, Downloading!IsDone, Downloading!MaxDoneEvents
    <2> QED BY <1>1, <1>2, <2>1 DEF DownloadObject, DownloadEvents
  <1>3. CASE state \in {"in_progress", "interrupted"}
    <2>1. done_events' = 0 /\ wrapper_pinned' = wrapper_pinned
      BY <1>1, <1>3 DEF Downloading!OnDownloadUpdated, Downloading!IsDone
    <2> QED BY <1>1, <1>3, <2>1 DEF DownloadObject, DownloadEvents
  <1> QED BY <1>2, <1>3

\* One that is done is told to be done again.
LEMMA DoneAgainKeeps ==
  ASSUME DownloadObject, DownloadEvents,
         NEW state \in {"failed", "complete", "cancelled"},
         item \in {"failed", "complete", "cancelled"},
         Downloading!OnDownloadUpdated(state), UNCHANGED <<wrapper, download_item>>
  PROVE  DownloadObject' /\ DownloadEvents' /\ item' # "none"
  <1>1. item' = state /\ done_events \in {1, 2} /\ wrapper_pinned = FALSE
    BY DEF DownloadObject, DownloadEvents, Downloading!OnDownloadUpdated
  <1>2. done_events' \in {1, 2} /\ wrapper_pinned' = FALSE
    BY <1>1 DEF Downloading!OnDownloadUpdated, Downloading!MaxDoneEvents
  <1> QED BY <1>1, <1>2 DEF DownloadObject, DownloadEvents

\* The download is gone, and its object lets it go.
LEMMA GoneKeeps ==
  ASSUME DownloadObject, DownloadEvents, item # "none", item' = "gone",
         download_item' = FALSE, wrapper_pinned' = FALSE, UNCHANGED <<wrapper, done_events>>
  PROVE  DownloadObject' /\ DownloadEvents'
  BY DEF DownloadObject, DownloadEvents

LEMMA DownloadObjectKept ==
  ASSUME DownloadObject, DownloadEvents,
         UNCHANGED <<item, wrapper, download_item, wrapper_pinned, done_events>>
  PROVE  DownloadObject' /\ DownloadEvents'
  BY DEF DownloadObject, DownloadEvents

LEMMA DownloadPlaceKept ==
  ASSUME DownloadPlace, item' = "none" => item = "none", wrapper' = "yes" => wrapper = "yes",
         manager' \in BOOLEAN, wrapper_held' \in BOOLEAN,
         UNCHANGED <<forced, save_path, target, target_path, dialog_undefined>>
  PROVE  DownloadPlace'
  BY DEF DownloadPlace

LEMMA CreatedKeeps ==
  ASSUME DownloadInvariant, NEW state \in {"in_progress", "interrupted"},
         NEW has_path \in BOOLEAN, NEW path \in BOOLEAN, NEW prevented \in BOOLEAN,
         Downloading!OnDownloadCreated(state, has_path, path, prevented)
  PROVE  DownloadInvariant'
  <1> USE DEF Downloading!OnDownloadCreated
  <1>0. DownloadObject /\ DownloadEvents /\ DownloadPlace
    BY DEF DownloadInvariant
  <1>1. DownloadObject' /\ DownloadEvents' /\ item' # "none"
    <2>1. CASE prevented = TRUE
      <3>1. /\ item' = "gone" /\ done_events' = 1 /\ download_item' = FALSE
            /\ wrapper_pinned' = FALSE /\ wrapper' = "yes"
        BY <2>1
      <3> QED BY <3>1 DEF DownloadObject, DownloadEvents
    <2>2. CASE prevented = FALSE
      <3>1. /\ item' = state /\ done_events' = done_events /\ download_item' = TRUE
            /\ wrapper_pinned' = TRUE /\ wrapper' = "yes" /\ item = "none"
        BY <2>2
      <3> QED BY <1>0, <3>1 DEF DownloadObject, DownloadEvents
    <2> QED BY <2>1, <2>2
  <1>2. DownloadPlace'
    <2>1. target = "none" /\ target_path = "none"
      BY <1>0 DEF DownloadPlace
    <2>2. save_path' \in {"none", "script", "before"}
      OBVIOUS
    <2>3. forced' \in BOOLEAN /\ wrapper_held' \in BOOLEAN
      OBVIOUS
    <2>4. UNCHANGED <<target, target_path, manager, dialog_undefined>>
      OBVIOUS
    <2> HIDE DEF Downloading!OnDownloadCreated
    <2> QED BY <1>0, <1>1, <2>1, <2>2, <2>3, <2>4 DEF DownloadPlace
  <1> QED BY <1>1, <1>2 DEF DownloadInvariant

LEMMA TargetKeeps ==
  ASSUME DownloadInvariant,
         Downloading!DetermineDownloadTarget \/ Downloading!OnDownloadPathGenerated
  PROVE  DownloadInvariant'
  <1>0. DownloadObject /\ DownloadEvents /\ DownloadPlace
    BY DEF DownloadInvariant
  <1>u. UNCHANGED <<item, forced, wrapper, download_item, wrapper_pinned, wrapper_held, save_path,
                    manager, done_events, dialog_undefined>>
    BY DEF Downloading!DetermineDownloadTarget, Downloading!OnDownloadPathGenerated
  <1>1. DownloadObject' /\ DownloadEvents'
    BY <1>0, <1>u, DownloadObjectKept
  <1>2. item # "none" /\ target # "decided"
    BY <1>0
    DEF Downloading!DetermineDownloadTarget, Downloading!OnDownloadPathGenerated, DownloadPlace
  <1>3. \/ target' = "decided" /\ target_path' = "forced"
        \/ target' = "decided" /\ target_path' = save_path
        \/ target' \in {"generating", "dialog", "lost"} /\ target_path' = target_path
    <2>1. CASE Downloading!DetermineDownloadTarget
      BY <1>0, <2>1
      DEF Downloading!DetermineDownloadTarget, Downloading!Decide, DownloadPlace
    <2>2. CASE Downloading!OnDownloadPathGenerated
      <3>1. CASE ~manager \/ ~Downloading!Exists(item)
        BY <1>0, <2>2, <3>1 DEF Downloading!OnDownloadPathGenerated, DownloadPlace
      <3>2. CASE manager /\ Downloading!Exists(item) /\ Downloading!KnownPath # "none"
        BY <1>0, <2>2, <3>2
        DEF Downloading!OnDownloadPathGenerated, Downloading!Decide, Downloading!KnownPath
      <3>3. CASE manager /\ Downloading!Exists(item) /\ Downloading!KnownPath = "none"
        BY <1>0, <2>2, <3>3 DEF Downloading!OnDownloadPathGenerated
      <3> QED BY <3>1, <3>2, <3>3
    <2> QED BY <2>1, <2>2
  <1>4. DownloadPlace'
    BY <1>0, <1>u, <1>2, <1>3 DEF DownloadPlace
  <1> QED BY <1>1, <1>4 DEF DownloadInvariant

LEMMA DialogKeeps ==
  ASSUME DownloadInvariant, NEW canceled \in BOOLEAN,
         Downloading!OnDownloadSaveDialogDone(canceled)
  PROVE  DownloadInvariant'
  <1> USE DEF Downloading!OnDownloadSaveDialogDone
  <1>0. DownloadObject /\ DownloadEvents /\ DownloadPlace
    BY DEF DownloadInvariant
  <1>1. UNCHANGED <<forced, wrapper, download_item, wrapper_held, manager>>
        /\ dialog_undefined' \in BOOLEAN
    OBVIOUS
  <1>2. target = "dialog" /\ item # "none" /\ target_path = "none"
    BY <1>0 DEF DownloadPlace
  <1>3. CASE ~manager \/ ~Downloading!Exists(item)
    <2>1. target' = "lost"
          /\ UNCHANGED <<target_path, save_path, item, done_events, wrapper_pinned>>
      BY <1>3
    <2> HIDE DEF Downloading!OnDownloadSaveDialogDone
    <2>2. DownloadObject' /\ DownloadEvents'
      BY <1>0, <1>1, <2>1, DownloadObjectKept
    <2>3. DownloadPlace'
      BY <1>0, <1>1, <1>2, <2>1 DEF DownloadPlace
    <2> QED BY <2>2, <2>3 DEF DownloadInvariant
  <1>4. CASE ~(~manager \/ ~Downloading!Exists(item)) /\ canceled = TRUE
    <2>1. target' = "decided" /\ target_path' = "none" /\ UNCHANGED save_path
      BY <1>4 DEF Downloading!Decide
    <2>2. IF Downloading!IsDone(item) THEN UNCHANGED <<item, done_events, wrapper_pinned>>
          ELSE Downloading!OnDownloadUpdated("cancelled")
      BY <1>4
    <2>3. item # "gone"
      BY <1>4 DEF Downloading!Exists
    <2> HIDE DEF Downloading!OnDownloadSaveDialogDone
    <2>4. DownloadObject' /\ DownloadEvents' /\ item' # "none"
      <3>1. CASE Downloading!IsDone(item)
        BY <1>0, <1>1, <1>2, <2>2, <3>1, DownloadObjectKept
      <3>2. CASE ~Downloading!IsDone(item)
        <4>1. item \in {"in_progress", "interrupted"}
          BY <1>0, <1>2, <2>3, <3>2 DEF Downloading!IsDone, DownloadObject
        <4> QED BY <1>0, <1>1, <2>2, <3>2, <4>1, UpdatedKeeps
      <3> QED BY <3>1, <3>2
    <2>5. DownloadPlace'
      BY <1>0, <1>1, <2>1, <2>4 DEF DownloadPlace
    <2> QED BY <2>4, <2>5 DEF DownloadInvariant
  <1>5. CASE ~(~manager \/ ~Downloading!Exists(item)) /\ canceled = FALSE
    <2>1. /\ target' = "decided" /\ target_path' = "dialog"
          /\ save_path' = IF wrapper = "yes" THEN "dialog" ELSE save_path
          /\ UNCHANGED <<item, done_events, wrapper_pinned>>
      BY <1>5 DEF Downloading!Decide
    <2> HIDE DEF Downloading!OnDownloadSaveDialogDone
    <2>2. DownloadObject' /\ DownloadEvents'
      BY <1>0, <1>1, <2>1, DownloadObjectKept
    <2>3. DownloadPlace'
      BY <1>0, <1>1, <1>2, <2>1 DEF DownloadPlace
    <2> QED BY <2>2, <2>3 DEF DownloadInvariant
  <1> QED BY <1>3, <1>4, <1>5

LEMMA DownloadStep == DownloadInvariant /\ Downloading!Next => DownloadInvariant'
  <1> SUFFICES ASSUME DownloadInvariant, Downloading!Next PROVE DownloadInvariant'
    OBVIOUS
  <1>0. DownloadObject /\ DownloadEvents /\ DownloadPlace
    BY DEF DownloadInvariant
  <1>1. CASE Downloading!OnDownloadDestroyed
    <2> USE <1>1 DEF Downloading!OnDownloadDestroyed, Downloading!Exists
    <2>1. DownloadObject' /\ DownloadEvents'
      BY <1>0, GoneKeeps
    <2>2. DownloadPlace'
      BY <1>0, DownloadPlaceKept DEF DownloadPlace
    <2> QED BY <2>1, <2>2 DEF DownloadInvariant
  <1>2. CASE Downloading!Shutdown
    <2> USE <1>2 DEF Downloading!Shutdown, Downloading!Exists
    <2>1. DownloadObject' /\ DownloadEvents'
      BY <1>0 DEF DownloadObject, DownloadEvents
    <2>2. DownloadPlace'
      BY <1>0, DownloadPlaceKept DEF DownloadPlace
    <2> QED BY <2>1, <2>2 DEF DownloadInvariant
  <1>3. CASE Downloading!SetSavePath
    <2> USE <1>3 DEF Downloading!SetSavePath
    <2>1. DownloadObject' /\ DownloadEvents'
      BY <1>0, DownloadObjectKept
    <2>2. DownloadPlace'
      BY <1>0 DEF DownloadPlace
    <2> QED BY <2>1, <2>2 DEF DownloadInvariant
  <1>4. CASE Downloading!Cancel
    <2> USE <1>4 DEF Downloading!Cancel
    <2> DEFINE state == IF item = "complete" THEN "complete" ELSE "cancelled"
    <2>1. /\ item \in {"in_progress", "interrupted", "failed", "complete", "cancelled"}
          /\ state \in {"complete", "cancelled"}
      BY <1>0 DEF DownloadObject
    <2>4. Downloading!OnDownloadUpdated(state) /\ UNCHANGED <<wrapper, download_item>>
      OBVIOUS
    <2> HIDE DEF state
    <2>2. DownloadObject' /\ DownloadEvents' /\ item' # "none"
      <3> HIDE DEF Downloading!Cancel
      <3>1. CASE item \in {"in_progress", "interrupted"}
        BY <1>0, <2>1, <2>4, <3>1, UpdatedKeeps
      <3>2. CASE item \in {"failed", "complete", "cancelled"}
        BY <1>0, <2>1, <2>4, <3>2, DoneAgainKeeps
      <3> QED BY <2>1, <3>1, <3>2
    <2>3. DownloadPlace'
      BY <1>0, <2>2, DownloadPlaceKept DEF DownloadPlace
    <2> QED BY <2>2, <2>3 DEF DownloadInvariant
  <1>5. CASE Downloading!Resume
    <2> USE <1>5 DEF Downloading!Resume
    <2>1. DownloadObject' /\ DownloadEvents' /\ item' # "none"
      BY <1>0, UpdatedKeeps
    <2>2. DownloadPlace'
      BY <1>0, <2>1 DEF DownloadPlace
    <2> QED BY <2>1, <2>2 DEF DownloadInvariant
  <1>6. CASE Downloading!Release
    <2> USE <1>6 DEF Downloading!Release
    <2>1. DownloadObject' /\ DownloadEvents'
      BY <1>0, DownloadObjectKept
    <2>2. DownloadPlace'
      BY <1>0, DownloadPlaceKept DEF DownloadPlace
    <2> QED BY <2>1, <2>2 DEF DownloadInvariant
  <1>7. CASE Downloading!Collect
    <2> USE <1>7 DEF Downloading!Collect
    <2>1. item # "none" /\ item' # "none" /\ item \notin {"in_progress", "interrupted"}
      BY <1>0 DEF DownloadObject
    <2>2. DownloadObject' /\ DownloadEvents'
      BY <1>0, <2>1 DEF DownloadObject, DownloadEvents
    <2>3. DownloadPlace'
      BY <1>0, <2>1, DownloadPlaceKept DEF DownloadPlace
    <2> QED BY <2>2, <2>3 DEF DownloadInvariant
  <1>8. ASSUME NEW state \in {"in_progress", "complete", "failed", "interrupted"},
               Downloading!Progress(state)
        PROVE  DownloadInvariant'
    <2> USE <1>8 DEF Downloading!Progress
    <2>1. DownloadObject' /\ DownloadEvents' /\ item' # "none"
      BY <1>0, UpdatedKeeps
    <2>2. DownloadPlace'
      BY <1>0, <2>1, DownloadPlaceKept DEF DownloadPlace
    <2> QED BY <2>1, <2>2 DEF DownloadInvariant
  <1>9. CASE Downloading!UpdatedAgain
    <2> USE <1>9 DEF Downloading!UpdatedAgain
    <2>1. item \in {"failed", "complete", "cancelled"}
      BY <1>0 DEF Downloading!IsDone
    <2>2. DownloadObject' /\ DownloadEvents' /\ item' # "none"
      BY <1>0, <2>1, DoneAgainKeeps
    <2>3. DownloadPlace'
      BY <1>0, <2>2, DownloadPlaceKept DEF DownloadPlace
    <2> QED BY <2>2, <2>3 DEF DownloadInvariant
  <1> QED
    BY <1>1, <1>2, <1>3, <1>4, <1>5, <1>6, <1>7, <1>8, <1>9, CreatedKeeps, TargetKeeps, DialogKeeps
    DEF Downloading!Next, Downloading!SaveDialog, Downloading!Ends

LEMMA DownloadStutter == DownloadInvariant /\ Downloading!NoStep => DownloadInvariant'
  BY DEF DownloadInvariant, DownloadObject, DownloadEvents, DownloadPlace, Downloading!NoStep,
         Downloading!downloadVars

LEMMA DownloadSafe ==
  DownloadInvariant => Downloading!TypeOK /\ Downloading!DownloadsKeepTheirObject
  <1> SUFFICES ASSUME DownloadInvariant
               PROVE  Downloading!TypeOK /\ Downloading!DownloadsKeepTheirObject
    OBVIOUS
  <1>0. DownloadObject /\ DownloadEvents /\ DownloadPlace
    BY DEF DownloadInvariant
  <1>1. Downloading!TypeOK
    BY <1>0
    DEF DownloadObject, DownloadEvents, DownloadPlace, Downloading!TypeOK, Downloading!MaxDoneEvents
  <1>2. Downloading!DownloadsKeepTheirObject
    BY <1>0
    DEF DownloadObject, DownloadEvents, DownloadPlace, Downloading!DownloadsKeepTheirObject,
        Downloading!IsDone, Downloading!Exists
  <1> QED BY <1>1, <1>2

-----------------------------------------------------------------------------
(* Windows and quitting.  The calls on the stack are looked at from the    *)
(* innermost one; the facts below say what a call and a return do to what  *)
(* the invariant says of the stack and of the list of windows, so that the *)
(* proofs of the actions need no positions.                                *)

BrowserEvents == {"before-quit", "will-quit", "quit", "window-all-closed", "close", "closed",
                  "CloseAllWindows", "DestroyAllWindows"}
BrowserCalls == { c \in [call : BrowserEvents, window : Windows \cup {0}, list : Seq(Windows)] :
                     c.call \in {"close", "closed"} => c.window \in Windows }
Quits(s) == \E i \in 1..Len(s) : s[i].call = "will-quit"
ClosedIn(s, pages) ==
    \A i \in 1..Len(s) : s[i].call = "closed" =>
        s[i].window \in Windows /\ pages[s[i].window] = "closed"
Listed(s) == { s[i] : i \in 1..Len(s) }

LEMMA EventFacts ==
  ASSUME NEW event \in BrowserEvents, NEW w \in Windows \cup {0},
         event \in {"close", "closed"} => w \in Windows
  PROVE  /\ Quitting!Event(event, w) \in BrowserCalls
         /\ Quitting!Event(event, w).call = event /\ Quitting!Event(event, w).window = w
  BY DEF Quitting!Event, BrowserCalls

LEMMA LoopFacts ==
  ASSUME NEW loop \in {"CloseAllWindows", "DestroyAllWindows"}, NEW list \in Seq(Windows)
  PROVE  Quitting!Loop(loop, list) \in BrowserCalls /\ Quitting!Loop(loop, list).call = loop
  BY DEF Quitting!Loop, BrowserCalls, BrowserEvents

\* A call on top of others.
LEMMA CallFacts ==
  ASSUME NEW C, NEW s \in Seq(C), NEW e \in C, NEW pages
  PROVE  /\ <<e>> \o s \in Seq(C) /\ <<e>> \o s # <<>>
         /\ Head(<<e>> \o s) = e /\ Tail(<<e>> \o s) = s
         /\ Quits(<<e>> \o s) <=> e.call = "will-quit" \/ Quits(s)
         /\ ClosedIn(<<e>> \o s, pages) <=>
               /\ e.call = "closed" => e.window \in Windows /\ pages[e.window] = "closed"
               /\ ClosedIn(s, pages)
  <1> DEFINE t == <<e>> \o s
  <1>1. /\ t \in Seq(C) /\ t # <<>> /\ Len(t) = Len(s) + 1 /\ t[1] = e
        /\ \A i \in 1..Len(s) : t[i + 1] = s[i]
    OBVIOUS
  <1>2. Head(t) = e /\ Tail(t) = s
    OBVIOUS
  <1>3. \A i \in 1..Len(t) : i = 1 \/ (i - 1 \in 1..Len(s) /\ t[i] = s[i - 1])
    OBVIOUS
  <1>4. 1 \in 1..Len(t) /\ \A i \in 1..Len(s) : i + 1 \in 1..Len(t)
    BY <1>1
  <1> HIDE DEF t
  <1>5. Quits(t) <=> e.call = "will-quit" \/ Quits(s)
    BY <1>1, <1>3, <1>4 DEF Quits
  <1>6. ClosedIn(t, pages) <=>
          /\ e.call = "closed" => e.window \in Windows /\ pages[e.window] = "closed"
          /\ ClosedIn(s, pages)
    <2>1. ASSUME ClosedIn(t, pages)
          PROVE  /\ e.call = "closed" => e.window \in Windows /\ pages[e.window] = "closed"
                 /\ ClosedIn(s, pages)
      BY <1>1, <1>4, <2>1 DEF ClosedIn
    <2>2. ASSUME e.call = "closed" => e.window \in Windows /\ pages[e.window] = "closed",
                 ClosedIn(s, pages)
          PROVE  ClosedIn(t, pages)
      BY <1>1, <1>3, <2>2 DEF ClosedIn
    <2> QED BY <2>1, <2>2
  <1> QED BY <1>1, <1>2, <1>5, <1>6 DEF t

\* The innermost call and the rest.
LEMMA ReturnFacts ==
  ASSUME NEW C, NEW s \in Seq(C), s # <<>>, NEW pages
  PROVE  /\ Tail(s) \in Seq(C) /\ Head(s) \in C
         /\ Quits(s) <=> Head(s).call = "will-quit" \/ Quits(Tail(s))
         /\ ClosedIn(s, pages) <=>
               /\ Head(s).call = "closed" => Head(s).window \in Windows /\ pages[Head(s).window] = "closed"
               /\ ClosedIn(Tail(s), pages)
  <1> DEFINE h == Head(s)
             r == Tail(s)
  <1>1. r \in Seq(C) /\ h \in C /\ s = <<h>> \o r
    OBVIOUS
  <1> HIDE DEF h, r
  <1>2. /\ Quits(<<h>> \o r) <=> h.call = "will-quit" \/ Quits(r)
        /\ ClosedIn(<<h>> \o r, pages) <=>
               /\ h.call = "closed" => h.window \in Windows /\ pages[h.window] = "closed"
               /\ ClosedIn(r, pages)
    BY <1>1, CallFacts
  <1>3. /\ Quits(s) <=> h.call = "will-quit" \/ Quits(r)
        /\ ClosedIn(s, pages) <=>
               /\ h.call = "closed" => h.window \in Windows /\ pages[h.window] = "closed"
               /\ ClosedIn(r, pages)
    BY <1>1, <1>2
  <1> QED BY <1>1, <1>3 DEF h, r

LEMMA NoCallFacts == ASSUME NEW pages PROVE ~Quits(<<>>) /\ ClosedIn(<<>>, pages)
  BY DEF Quits, ClosedIn

\* A window that is closed stays so.
LEMMA ClosedStays ==
  ASSUME NEW s, NEW old, NEW new, ClosedIn(s, old),
         \A w \in Windows : old[w] = "closed" => new[w] = "closed"
  PROVE  ClosedIn(s, new)
  BY DEF ClosedIn

LEMMA ListedFacts ==
  ASSUME NEW s \in Seq(Windows), NEW w \in Windows
  PROVE  /\ s = <<>> <=> Listed(s) = {}
         /\ Append(s, w) \in Seq(Windows) /\ Listed(Append(s, w)) = Listed(s) \cup {w}
  <1>1. /\ Append(s, w) \in Seq(Windows) /\ Len(Append(s, w)) = Len(s) + 1
        /\ \A i \in 1..Len(s) : Append(s, w)[i] = s[i]
        /\ Append(s, w)[Len(s) + 1] = w
    OBVIOUS
  <1>2. s # <<>> => 1 \in 1..Len(s)
    OBVIOUS
  <1>3. s = <<>> => 1..Len(s) = {}
    OBVIOUS
  <1> DEFINE t == Append(s, w)
  <1> HIDE DEF t
  <1>4. \A i \in 1..Len(t) : i \in 1..Len(s) \/ i = Len(s) + 1
    BY <1>1 DEF t
  <1>5. Len(s) + 1 \in 1..Len(t) /\ \A i \in 1..Len(s) : i \in 1..Len(t)
    BY <1>1 DEF t
  <1>6. Listed(t) = Listed(s) \cup {w}
    BY <1>1, <1>4, <1>5 DEF t, Listed
  <1> QED BY <1>1, <1>2, <1>3, <1>6 DEF t, Listed

LEMMA ListConcat ==
  ASSUME NEW S, NEW a \in Seq(S), NEW b \in Seq(S)
  PROVE  /\ a \o b \in Seq(S) /\ Len(a \o b) = Len(a) + Len(b)
         /\ \A i \in 1..Len(a) : (a \o b)[i] = a[i]
         /\ \A i \in 1..Len(b) : (a \o b)[Len(a) + i] = b[i]
  OBVIOUS

LEMMA WithoutFacts ==
  ASSUME NEW s \in Seq(Windows), NEW w
  PROVE  /\ Quitting!Without(s, w) \in Seq(Windows)
         /\ Listed(Quitting!Without(s, w)) \subseteq Listed(s)
         /\ Listed(s) \ {w} \subseteq Listed(Quitting!Without(s, w))
  <1>1. CASE \A i \in DOMAIN s : s[i] # w
    BY <1>1 DEF Quitting!Without
  <1>2. CASE ~ \A i \in DOMAIN s : s[i] # w
    <2> DEFINE at == CHOOSE i \in DOMAIN s : s[i] = w
               t == SubSeq(s, 1, at - 1) \o SubSeq(s, at + 1, Len(s))
    <2>1. at \in DOMAIN s /\ s[at] = w /\ DOMAIN s = 1..Len(s)
      BY <1>2
    <2>2. Quitting!Without(s, w) = t
      BY <1>2 DEF Quitting!Without
    <2> HIDE DEF at
    <2>3. /\ SubSeq(s, 1, at - 1) \in Seq(Windows) /\ Len(SubSeq(s, 1, at - 1)) = at - 1
          /\ \A i \in 1..(at - 1) : SubSeq(s, 1, at - 1)[i] = s[i]
      BY <2>1
    <2>4. /\ SubSeq(s, at + 1, Len(s)) \in Seq(Windows)
          /\ Len(SubSeq(s, at + 1, Len(s))) = Len(s) - at
          /\ \A i \in 1..(Len(s) - at) : SubSeq(s, at + 1, Len(s))[i] = s[at + i]
      BY <2>1
    <2>5. /\ t \in Seq(Windows) /\ Len(t) = Len(s) - 1
          /\ \A i \in 1..(at - 1) : t[i] = s[i]
          /\ \A i \in at..(Len(s) - 1) : t[i] = s[i + 1]
      <3> DEFINE a == SubSeq(s, 1, at - 1)
                 b == SubSeq(s, at + 1, Len(s))
      <3>1. a \in Seq(Windows) /\ b \in Seq(Windows) /\ Len(a) = at - 1 /\ Len(b) = Len(s) - at
        BY <2>3, <2>4
      <3> HIDE DEF a, b
      <3>2. /\ a \o b \in Seq(Windows) /\ Len(a \o b) = Len(a) + Len(b)
            /\ \A i \in 1..Len(a) : (a \o b)[i] = a[i]
            /\ \A i \in 1..Len(b) : (a \o b)[Len(a) + i] = b[i]
        <4>1. a \in Seq(Windows) /\ b \in Seq(Windows)
          BY <3>1
        <4> HIDE DEF t
        <4> QED BY ONLY <4>1, ListConcat
      <3>3. t = a \o b
        BY DEF a, b
      <3> HIDE DEF t
      <3>4. t \in Seq(Windows) /\ Len(t) = Len(s) - 1
        <4>1. at \in Nat /\ Len(s) \in Nat /\ Len(t) = (at - 1) + (Len(s) - at)
          BY <2>1, <3>1, <3>2, <3>3
        <4> QED BY <3>2, <3>3, <4>1
      <3>5. ASSUME NEW i \in 1..(at - 1) PROVE t[i] = s[i]
        BY <2>3, <3>1, <3>2, <3>3 DEF a
      <3>6. ASSUME NEW i \in at..(Len(s) - 1) PROVE t[i] = s[i + 1]
        <4>1. i - at + 1 \in 1..(Len(s) - at) /\ (at - 1) + (i - at + 1) = i
              /\ at + (i - at + 1) = i + 1
          BY <2>1
        <4>2. b[i - at + 1] = s[at + (i - at + 1)]
          BY <2>4, <4>1 DEF b
        <4>3. (a \o b)[(at - 1) + (i - at + 1)] = b[i - at + 1]
          BY <3>1, <3>2, <4>1
        <4> QED BY <3>3, <4>1, <4>2, <4>3
      <3> QED BY <3>4, <3>5, <3>6
    <2> HIDE DEF t
    <2>6. ASSUME NEW i \in 1..Len(t) PROVE \E j \in 1..Len(s) : t[i] = s[j]
      <3>1. CASE i < at
        BY <2>1, <2>5, <3>1
      <3>2. CASE i >= at
        BY <2>1, <2>5, <3>2
      <3> QED BY <2>1, <3>1, <3>2
    <2>7. ASSUME NEW j \in 1..Len(s), s[j] # w PROVE \E i \in 1..Len(t) : t[i] = s[j]
      <3>1. CASE j < at
        BY <2>1, <2>5, <3>1
      <3>2. CASE j > at
        <4>1. j - 1 \in at..(Len(s) - 1) /\ j - 1 \in 1..Len(t) /\ (j - 1) + 1 = j
          BY <2>1, <2>5, <3>2
        <4> QED BY <2>5, <4>1
      <3> QED BY <2>1, <2>7, <3>1, <3>2
    <2>8. Listed(t) \subseteq Listed(s)
      BY <2>6 DEF Listed
    <2>9. Listed(s) \ {w} \subseteq Listed(t)
      BY <2>7 DEF Listed
    <2> QED BY <2>2, <2>5, <2>8, <2>9
  <1> QED BY <1>1, <1>2

\* Open windows are in the list, and events for closed windows find them closed.
BrowserPages ==
    /\ windows \in Seq(Windows) /\ page \in [Windows -> Quitting!Pages]
    /\ stack \in Seq(BrowserCalls) /\ too_new \subseteq Windows
    /\ \A w \in Windows : page[w] \notin {"none", "closed"} => w \in Listed(windows)
    /\ ClosedIn(stack, page)
\* At will-quit, and from then on, there are only windows that were made too
\* late; and if nothing happens in its handler, it is the innermost call.  A
\* quit in progress was not cancelled.
Undisturbed == too_new = {} /\ is_exiting = FALSE /\ is_shutdown = FALSE
BrowserQuits ==
    /\ is_quitting \in BOOLEAN /\ is_exiting \in BOOLEAN /\ is_shutdown \in BOOLEAN
    /\ cancelled \in BOOLEAN
    /\ is_shutdown = TRUE \/ Quits(stack) => Listed(windows) \subseteq too_new
    /\ Undisturbed /\ Quits(stack) =>
          Head(stack).call = "will-quit" /\ ~Quits(Tail(stack)) /\ is_quitting = TRUE
    /\ is_quitting = TRUE /\ is_shutdown = FALSE => cancelled = FALSE
BrowserInvariant == BrowserPages /\ BrowserQuits

LEMMA BrowserInit == Quitting!Init => BrowserInvariant
  <1> SUFFICES ASSUME Quitting!Init PROVE BrowserInvariant
    OBVIOUS
  <1> USE DEF Quitting!Init
  <1>1. ~Quits(stack) /\ ClosedIn(stack, page)
    BY NoCallFacts
  <1>2. \A w \in Windows : page[w] = "none"
    OBVIOUS
  <1>3. windows \in Seq(Windows) /\ stack \in Seq(BrowserCalls)
    OBVIOUS
  <1>4. page \in [Windows -> Quitting!Pages]
    BY DEF Quitting!Pages
  <1> QED BY <1>1, <1>2, <1>3, <1>4 DEF BrowserInvariant, BrowserPages, BrowserQuits

\* While the innermost call is another one, no will-quit is undisturbed.
LEMMA QuitElsewhere ==
  ASSUME BrowserQuits, Undisturbed, Head(stack).call # "will-quit"
  PROVE  ~Quits(stack)
  BY DEF BrowserQuits

\* A window that is open keeps will-quit from being undisturbed.
LEMMA OpenDisturbs ==
  ASSUME BrowserInvariant, NEW w \in Windows, page[w] \notin {"none", "closed"}, Undisturbed
  PROVE  ~Quits(stack)
  BY DEF BrowserInvariant, BrowserPages, BrowserQuits, Undisturbed

\* The steps that leave the windows and the progress of the quit, or stop it,
\* and whose stack has no will-quit that was not there.
LEMMA QuitsKept ==
  ASSUME BrowserQuits, UNCHANGED <<is_exiting, is_shutdown, windows, too_new>>,
         is_quitting' \in BOOLEAN, cancelled' \in BOOLEAN,
         is_quitting' = TRUE => is_quitting = TRUE /\ cancelled' = cancelled,
         Quits(stack') => Quits(stack), Undisturbed => ~Quits(stack')
  PROVE  BrowserQuits'
  BY DEF BrowserQuits, Undisturbed

\* The steps that close windows, and leave the list.
LEMMA PagesKept ==
  ASSUME BrowserPages, UNCHANGED <<windows, too_new>>,
         page' \in [Windows -> Quitting!Pages], stack' \in Seq(BrowserCalls),
         \A w \in Windows : page'[w] \in {page[w], "closed"}
             \/ page[w] \in {"bare", "loaded", "asked", "closing"},
         \A w \in Windows : page[w] = "closed" => page'[w] = "closed",
         ClosedIn(stack', page')
  PROVE  BrowserPages'
  BY DEF BrowserPages

LEMMA QuitKeeps ==
  ASSUME BrowserInvariant, Quitting!Quit
  PROVE  BrowserInvariant'
  <1> USE DEF Quitting!Quit
  <1>0. BrowserPages /\ BrowserQuits /\ stack \in Seq(BrowserCalls)
    BY DEF BrowserInvariant, BrowserPages
  <1> DEFINE e == Quitting!Event("before-quit", 0)
  <1>1. e \in BrowserCalls /\ e.call = "before-quit"
    BY EventFacts DEF BrowserEvents
  <1>2. stack' = <<e>> \o stack /\ ~is_quitting
        /\ UNCHANGED <<is_quitting, is_exiting, is_shutdown, windows, page, too_new, cancelled>>
    OBVIOUS
  <1> HIDE DEF e, Quitting!Quit
  <1>3. /\ stack' \in Seq(BrowserCalls) /\ (Quits(stack') => Quits(stack))
        /\ (ClosedIn(stack, page) => ClosedIn(stack', page))
    BY <1>0, <1>1, <1>2, CallFacts
  <1>4. ~(Undisturbed /\ Quits(stack))
    BY <1>0, <1>2 DEF BrowserQuits
  <1>5. BrowserQuits'
    BY <1>0, <1>2, <1>3, <1>4, QuitsKept DEF BrowserQuits
  <1>6. BrowserPages'
    BY <1>0, <1>2, <1>3 DEF BrowserPages
  <1> QED BY <1>5, <1>6 DEF BrowserInvariant

\* NotifyAndShutdown: will-quit on top of calls without one.
LEMMA NotifyKeeps ==
  ASSUME BrowserInvariant, NEW rest \in Seq(BrowserCalls), stack' = Quitting!Notify(rest),
         Quits(rest) => Quits(stack), Undisturbed => ~Quits(stack),
         UNCHANGED <<is_exiting, is_shutdown, too_new>>,
         windows' = <<>>, is_quitting' = TRUE,
         cancelled' = FALSE \/ (cancelled' = cancelled /\ is_quitting = TRUE)
  PROVE  BrowserQuits'
  <1>0. BrowserQuits
    BY DEF BrowserInvariant
  <1>1. Listed(windows') = {}
    BY DEF Listed
  <1>2. CASE is_shutdown = TRUE
    BY <1>0, <1>1, <1>2 DEF BrowserQuits, Undisturbed
  <1>3. CASE is_shutdown = FALSE
    <2> DEFINE e == Quitting!Event("will-quit", 0)
    <2>1. e \in BrowserCalls /\ e.call = "will-quit"
      BY EventFacts DEF BrowserEvents
    <2>2. stack' = <<e>> \o rest
      BY <1>3 DEF Quitting!Notify
    <2> HIDE DEF e
    <2>3. Head(stack') = e /\ Tail(stack') = rest
      BY <2>1, <2>2, CallFacts
    <2> QED BY <1>0, <1>1, <1>3, <2>1, <2>3 DEF BrowserQuits, Undisturbed
  <1> QED BY <1>0, <1>2, <1>3 DEF BrowserQuits

LEMMA NotifyTyped ==
  ASSUME NEW rest \in Seq(BrowserCalls), NEW pages, ClosedIn(rest, pages)
  PROVE  Quitting!Notify(rest) \in Seq(BrowserCalls) /\ ClosedIn(Quitting!Notify(rest), pages)
  <1> DEFINE e == Quitting!Event("will-quit", 0)
  <1>1. e \in BrowserCalls /\ e.call = "will-quit"
    BY EventFacts DEF BrowserEvents
  <1>2. Quitting!Notify(rest) = IF is_shutdown THEN rest ELSE <<e>> \o rest
    BY DEF Quitting!Notify
  <1> HIDE DEF e
  <1>3. <<e>> \o rest \in Seq(BrowserCalls) /\ ClosedIn(<<e>> \o rest, pages)
    BY <1>1, CallFacts
  <1> QED BY <1>2, <1>3

\* A window is closed, and the event is on top of calls that were there.
LEMMA CloseNowKeeps ==
  ASSUME BrowserInvariant, NEW w \in Windows, NEW rest \in Seq(BrowserCalls),
         ClosedIn(rest, page), Quits(rest) => Quits(stack), Undisturbed => ~Quits(rest),
         Quitting!CloseNow(w, rest),
         UNCHANGED <<is_quitting, is_exiting, is_shutdown, windows, too_new, cancelled>>
  PROVE  BrowserInvariant'
  <1>0. BrowserPages /\ BrowserQuits
    BY DEF BrowserInvariant
  <1> DEFINE e == Quitting!Event("closed", w)
  <1>1. e \in BrowserCalls /\ e.call = "closed" /\ e.window = w
    BY EventFacts DEF BrowserEvents
  <1>2. stack' = <<e>> \o rest /\ page' = [page EXCEPT ![w] = "closed"]
    BY DEF Quitting!CloseNow
  <1> HIDE DEF e
  <1>3. /\ page' \in [Windows -> Quitting!Pages] /\ page'[w] = "closed"
        /\ \A v \in Windows : page'[v] \in {page[v], "closed"}
    BY <1>0, <1>2 DEF BrowserPages, Quitting!Pages
  <1>4. ClosedIn(rest, page')
    BY <1>3, ClosedStays
  <1>5. /\ stack' \in Seq(BrowserCalls) /\ (Quits(stack') <=> Quits(rest))
        /\ ClosedIn(stack', page')
    BY <1>1, <1>2, <1>3, <1>4, CallFacts
  <1>6. BrowserQuits'
    BY <1>0, <1>5, QuitsKept DEF BrowserQuits
  <1>7. BrowserPages'
    BY <1>0, <1>3, <1>5, PagesKept
  <1> QED BY <1>6, <1>7 DEF BrowserInvariant

\* A call that is on top of the others, or in the place of the innermost one,
\* and closes nothing.
LEMMA PushKeeps ==
  ASSUME BrowserInvariant, NEW e \in BrowserCalls, e.call \notin {"will-quit", "closed"},
         NEW rest \in Seq(BrowserCalls), ClosedIn(rest, page),
         Quits(rest) => Quits(stack), Undisturbed => ~Quits(rest),
         stack' = <<e>> \o rest,
         UNCHANGED <<is_quitting, is_exiting, is_shutdown, windows, page, too_new, cancelled>>
  PROVE  BrowserInvariant'
  <1>0. BrowserPages /\ BrowserQuits
    BY DEF BrowserInvariant
  <1>1. /\ stack' \in Seq(BrowserCalls) /\ (Quits(stack') <=> Quits(rest))
        /\ ClosedIn(stack', page)
    BY CallFacts
  <1>2. BrowserQuits'
    BY <1>0, <1>1, QuitsKept DEF BrowserQuits
  <1>3. BrowserPages'
    BY <1>0, <1>1 DEF BrowserPages
  <1> QED BY <1>2, <1>3 DEF BrowserInvariant

\* What is left when the innermost call is not will-quit and returns.
LEMMA RestFacts ==
  ASSUME BrowserInvariant, stack # <<>>, Quitting!Top.call # "will-quit"
  PROVE  /\ Tail(stack) \in Seq(BrowserCalls) /\ ClosedIn(Tail(stack), page)
         /\ Quitting!Top \in BrowserCalls
         /\ Quits(Tail(stack)) => Quits(stack)
         /\ Undisturbed => ~Quits(stack) /\ ~Quits(Tail(stack))
  <1>0. BrowserPages /\ BrowserQuits
    BY DEF BrowserInvariant
  <1>1. /\ Tail(stack) \in Seq(BrowserCalls) /\ Head(stack) \in BrowserCalls
        /\ Quits(stack) <=> Head(stack).call = "will-quit" \/ Quits(Tail(stack))
        /\ ClosedIn(Tail(stack), page)
    BY <1>0, ReturnFacts DEF BrowserPages
  <1> QED BY <1>0, <1>1, QuitElsewhere DEF Quitting!Top

LEMMA PopKeeps ==
  ASSUME BrowserInvariant, stack # <<>>, Quitting!Top.call # "will-quit", stack' = Tail(stack),
         page' = page, UNCHANGED <<is_exiting, is_shutdown, windows, too_new>>,
         is_quitting' \in BOOLEAN, cancelled' \in BOOLEAN,
         is_quitting' = TRUE => is_quitting = TRUE /\ cancelled' = cancelled
  PROVE  BrowserInvariant'
  <1>0. BrowserPages /\ BrowserQuits
    BY DEF BrowserInvariant
  <1>1. BrowserQuits'
    BY <1>0, RestFacts, QuitsKept
  <1>2. BrowserPages'
    BY <1>0, RestFacts DEF BrowserPages
  <1> QED BY <1>1, <1>2 DEF BrowserInvariant

LEMMA ReturnBeforeQuitKeeps ==
  ASSUME BrowserInvariant, NEW prevented \in BOOLEAN, Quitting!ReturnBeforeQuit(prevented)
  PROVE  BrowserInvariant'
  <1> USE DEF Quitting!ReturnBeforeQuit, Quitting!InCall
  <1>0. BrowserPages /\ BrowserQuits /\ windows \in Seq(Windows)
    BY DEF BrowserInvariant, BrowserPages
  <1>1. stack # <<>> /\ Quitting!Top.call = "before-quit"
        /\ UNCHANGED <<is_exiting, is_shutdown, windows, page, too_new>>
    OBVIOUS
  <1>2. /\ Tail(stack) \in Seq(BrowserCalls) /\ ClosedIn(Tail(stack), page)
        /\ Quits(Tail(stack)) => Quits(stack)
        /\ Undisturbed => ~Quits(stack) /\ ~Quits(Tail(stack))
    BY <1>1, RestFacts
  <1>3. CASE prevented = TRUE
    <2>1. is_quitting' = FALSE /\ cancelled' = TRUE /\ stack' = Tail(stack)
      BY <1>3
    <2> HIDE DEF Quitting!ReturnBeforeQuit
    <2> QED BY <1>1, <2>1, PopKeeps
  <1>4. CASE prevented = FALSE /\ windows = <<>>
    <2>1. is_quitting' = TRUE /\ cancelled' = FALSE /\ stack' = Quitting!Notify(Tail(stack))
      BY <1>4
    <2> HIDE DEF Quitting!ReturnBeforeQuit
    <2>2. BrowserQuits'
      BY <1>1, <1>2, <1>4, <2>1, NotifyKeeps
    <2>3. stack' \in Seq(BrowserCalls) /\ ClosedIn(stack', page)
      BY <1>2, <2>1, NotifyTyped
    <2>4. BrowserPages'
      BY <1>0, <1>1, <2>3 DEF BrowserPages
    <2> QED BY <2>2, <2>4 DEF BrowserInvariant
  <1>5. CASE prevented = FALSE /\ windows # <<>>
    <2> DEFINE e == Quitting!Loop("CloseAllWindows", windows)
    <2>1. e \in BrowserCalls /\ e.call = "CloseAllWindows"
      BY <1>0, LoopFacts DEF BrowserEvents
    <2>2. is_quitting' = TRUE /\ cancelled' = FALSE /\ stack' = <<e>> \o Tail(stack)
      BY <1>5
    <2> HIDE DEF e, Quitting!ReturnBeforeQuit
    <2>3. /\ stack' \in Seq(BrowserCalls) /\ (Quits(stack') <=> Quits(Tail(stack)))
          /\ ClosedIn(stack', page)
      BY <1>2, <2>1, <2>2, CallFacts
    <2>4. BrowserPages'
      BY <1>0, <1>1, <2>3 DEF BrowserPages
    <2>5. BrowserQuits'
      BY <1>0, <1>1, <1>2, <2>2, <2>3 DEF BrowserQuits, Undisturbed
    <2> QED BY <2>4, <2>5 DEF BrowserInvariant
  <1> QED BY <1>3, <1>4, <1>5

\* Shutdown, on top of calls: what it does to the stack.
LEMMA ShutdownTyped ==
  ASSUME NEW rest \in Seq(BrowserCalls), ClosedIn(rest, page), Quitting!Shutdown(rest),
         is_shutdown \in BOOLEAN
  PROVE  /\ stack' \in Seq(BrowserCalls) /\ ClosedIn(stack', page) /\ is_shutdown' = TRUE
         /\ is_quitting' = TRUE \/ is_quitting' = is_quitting
  <1> DEFINE e == Quitting!Event("quit", 0)
  <1>1. e \in BrowserCalls /\ e.call = "quit"
    BY EventFacts DEF BrowserEvents
  <1>2. /\ is_shutdown' = TRUE
        /\ \/ stack' = rest /\ is_quitting' = is_quitting
           \/ stack' = <<e>> \o rest /\ is_quitting' = TRUE
    BY DEF Quitting!Shutdown
  <1> HIDE DEF e
  <1>3. <<e>> \o rest \in Seq(BrowserCalls) /\ ClosedIn(<<e>> \o rest, page)
    BY <1>1, CallFacts
  <1> QED BY <1>2, <1>3

LEMMA ReturnWillQuitKeeps ==
  ASSUME BrowserInvariant, NEW prevented \in BOOLEAN, Quitting!ReturnWillQuit(prevented)
  PROVE  BrowserInvariant'
  <1> USE DEF Quitting!ReturnWillQuit, Quitting!InCall
  <1>0. BrowserPages /\ BrowserQuits
    BY DEF BrowserInvariant
  <1>1. stack # <<>> /\ Quitting!Top.call = "will-quit"
        /\ UNCHANGED <<is_exiting, windows, page, too_new>>
    OBVIOUS
  <1>2. /\ Tail(stack) \in Seq(BrowserCalls) /\ ClosedIn(Tail(stack), page) /\ Quits(stack)
    BY <1>0, <1>1, ReturnFacts DEF BrowserPages, Quitting!Top
  <1>3. Listed(windows) \subseteq too_new
    BY <1>0, <1>2 DEF BrowserQuits
  <1>4. CASE prevented = TRUE
    <2>1. is_quitting' = FALSE /\ cancelled' = TRUE /\ stack' = Tail(stack)
          /\ UNCHANGED is_shutdown
      BY <1>4
    <2> HIDE DEF Quitting!ReturnWillQuit
    <2>2. BrowserQuits'
      BY <1>0, <1>1, <1>2, <1>3, <2>1 DEF BrowserQuits, Undisturbed
    <2>3. BrowserPages'
      BY <1>0, <1>1, <1>2, <2>1 DEF BrowserPages
    <2> QED BY <2>2, <2>3 DEF BrowserInvariant
  <1>5. CASE prevented = FALSE
    <2>1. Quitting!Shutdown(Tail(stack)) /\ UNCHANGED cancelled
      BY <1>5
    <2> HIDE DEF Quitting!ReturnWillQuit
    <2>2. /\ stack' \in Seq(BrowserCalls) /\ ClosedIn(stack', page) /\ is_shutdown' = TRUE
          /\ is_quitting' = TRUE \/ is_quitting' = is_quitting
      BY <1>0, <1>2, <2>1, ShutdownTyped DEF BrowserQuits
    <2>3. BrowserQuits'
      BY <1>0, <1>1, <1>3, <2>1, <2>2 DEF BrowserQuits, Undisturbed
    <2>4. BrowserPages'
      BY <1>0, <1>1, <2>2 DEF BrowserPages
    <2> QED BY <2>3, <2>4 DEF BrowserInvariant
  <1> QED BY <1>4, <1>5

LEMMA ExitKeeps ==
  ASSUME BrowserInvariant, Quitting!Exit
  PROVE  BrowserInvariant'
  <1> USE DEF Quitting!Exit
  <1>0. BrowserPages /\ BrowserQuits /\ windows \in Seq(Windows) /\ stack \in Seq(BrowserCalls)
        /\ ClosedIn(stack, page)
    BY DEF BrowserInvariant, BrowserPages
  <1>1. is_exiting' = TRUE /\ cancelled' = FALSE /\ is_quitting' = TRUE
        /\ UNCHANGED <<windows, page, too_new>>
    OBVIOUS
  <1>2. CASE windows = <<>>
    <2> DEFINE e == Quitting!Event("quit", 0)
    <2>1. e \in BrowserCalls /\ e.call = "quit"
      BY EventFacts DEF BrowserEvents
    <2>2. is_shutdown' = TRUE /\ (stack' = stack \/ stack' = <<e>> \o stack)
      BY <1>2
    <2> HIDE DEF e, Quitting!Exit
    <2>3. stack' \in Seq(BrowserCalls) /\ ClosedIn(stack', page)
      <3>1. <<e>> \o stack \in Seq(BrowserCalls) /\ ClosedIn(<<e>> \o stack, page)
        BY <1>0, <2>1, CallFacts
      <3> QED BY <1>0, <2>2, <3>1
    <2>4. Listed(windows) = {}
      BY <1>2 DEF Listed
    <2>5. BrowserQuits'
      BY <1>0, <1>1, <2>2, <2>4 DEF BrowserQuits, Undisturbed
    <2>6. BrowserPages'
      BY <1>0, <1>1, <2>3 DEF BrowserPages
    <2> QED BY <2>5, <2>6 DEF BrowserInvariant
  <1>3. CASE windows # <<>>
    <2> DEFINE e == Quitting!Loop("DestroyAllWindows", windows)
    <2>1. e \in BrowserCalls /\ e.call = "DestroyAllWindows"
      BY <1>0, LoopFacts DEF BrowserEvents
    <2>2. stack' = <<e>> \o stack /\ UNCHANGED is_shutdown
      BY <1>3
    <2> HIDE DEF e, Quitting!Exit
    <2>3. stack' \in Seq(BrowserCalls) /\ ClosedIn(stack', page) /\ (Quits(stack') <=> Quits(stack))
      BY <1>0, <2>1, <2>2, CallFacts
    <2>4. BrowserQuits'
      BY <1>0, <1>1, <2>2, <2>3 DEF BrowserQuits, Undisturbed
    <2>5. BrowserPages'
      BY <1>0, <1>1, <2>3 DEF BrowserPages
    <2> QED BY <2>4, <2>5 DEF BrowserInvariant
  <1> QED BY <1>2, <1>3

LEMMA NewWindowKeeps ==
  ASSUME BrowserInvariant, NEW w \in Windows, NEW form \in {"bare", "loaded"},
         Quitting!NewWindow(w, form)
  PROVE  BrowserInvariant'
  <1> USE DEF Quitting!NewWindow
  <1>0. BrowserPages /\ BrowserQuits /\ windows \in Seq(Windows) /\ stack \in Seq(BrowserCalls)
        /\ ClosedIn(stack, page) /\ too_new \subseteq Windows
    BY DEF BrowserInvariant, BrowserPages
  <1>1. /\ page[w] = "none" /\ page' = [page EXCEPT ![w] = form] /\ windows' = Append(windows, w)
        /\ UNCHANGED <<is_quitting, is_exiting, is_shutdown, stack, cancelled>>
    OBVIOUS
  <1>2. DOMAIN stack = 1..Len(stack)
    BY <1>0
  <1>3. IF is_shutdown \/ Quits(stack) THEN too_new' = too_new \cup {w} ELSE too_new' = too_new
    BY <1>2 DEF Quits
  <1> HIDE DEF Quitting!NewWindow
  <1>4. windows' \in Seq(Windows) /\ Listed(windows') = Listed(windows) \cup {w}
    BY <1>0, <1>1, ListedFacts
  <1>5. /\ page' \in [Windows -> Quitting!Pages]
        /\ \A v \in Windows : v # w => page'[v] = page[v]
    BY <1>0, <1>1 DEF BrowserPages, Quitting!Pages
  <1>6. ClosedIn(stack, page')
    BY <1>0, <1>1, <1>5, ClosedStays
  <1>7. BrowserPages'
    BY <1>0, <1>1, <1>3, <1>4, <1>5, <1>6 DEF BrowserPages
  <1>8. BrowserQuits'
    <2>1. too_new' = {} => too_new = {}
      BY <1>3
    <2>2. is_shutdown = TRUE \/ Quits(stack) => Listed(windows') \subseteq too_new'
      BY <1>0, <1>3, <1>4 DEF BrowserQuits
    <2> QED BY <1>0, <1>1, <2>1, <2>2 DEF BrowserQuits, Undisturbed
  <1> QED BY <1>7, <1>8 DEF BrowserInvariant

LEMMA CloseKeeps ==
  ASSUME BrowserInvariant, NEW w \in Windows, Quitting!Close(w) \/ Quitting!Destroy(w)
  PROVE  BrowserInvariant'
  <1>0. stack \in Seq(BrowserCalls) /\ ClosedIn(stack, page)
    BY DEF BrowserInvariant, BrowserPages
  <1>1. UNCHANGED <<is_quitting, is_exiting, is_shutdown, windows, too_new, cancelled>>
        /\ page[w] \notin {"none", "closed"}
    BY DEF Quitting!Close, Quitting!Destroy, Quitting!IsOpen
  <1>2. Undisturbed => ~Quits(stack)
    BY <1>1, OpenDisturbs
  <1>3. CASE Quitting!Close(w)
    <2> DEFINE e == Quitting!Event("close", w)
    <2>1. e \in BrowserCalls /\ e.call = "close"
      BY EventFacts DEF BrowserEvents
    <2>2. stack' = <<e>> \o stack /\ page' = page
      BY <1>3 DEF Quitting!Close
    <2> HIDE DEF e
    <2> QED BY <1>0, <1>1, <1>2, <2>1, <2>2, PushKeeps
  <1>4. CASE Quitting!Destroy(w)
    <2>1. Quitting!CloseNow(w, stack)
      BY <1>4 DEF Quitting!Destroy
    <2> QED BY <1>0, <1>1, <1>2, <2>1, CloseNowKeeps
  <1> QED BY <1>3, <1>4

LEMMA ReturnCloseKeeps ==
  ASSUME BrowserInvariant, NEW prevented \in BOOLEAN, Quitting!ReturnClose(prevented)
  PROVE  BrowserInvariant'
  <1> USE DEF Quitting!ReturnClose, Quitting!InCall
  <1>0. BrowserPages /\ BrowserQuits /\ page \in [Windows -> Quitting!Pages]
    BY DEF BrowserInvariant, BrowserPages
  <1>1. stack # <<>> /\ Quitting!Top.call = "close"
        /\ UNCHANGED <<is_exiting, is_shutdown, windows, too_new>>
    OBVIOUS
  <1>2. /\ Tail(stack) \in Seq(BrowserCalls) /\ ClosedIn(Tail(stack), page)
        /\ Quits(Tail(stack)) => Quits(stack)
        /\ Undisturbed => ~Quits(stack) /\ ~Quits(Tail(stack))
        /\ Quitting!Top \in BrowserCalls
    BY <1>1, RestFacts
  <1> DEFINE w == Quitting!Top.window
  <1>w. w \in Windows
    BY <1>1, <1>2 DEF BrowserCalls
  <1>3. CASE prevented = TRUE
    <2>1. /\ is_quitting' = FALSE /\ cancelled' = (cancelled \/ is_quitting)
          /\ stack' = Tail(stack) /\ page' = page
      BY <1>3 DEF Quitting!WindowCloseCancelled
    <2>2. cancelled' \in BOOLEAN
      BY <2>1
    <2> HIDE DEF Quitting!ReturnClose
    <2> QED BY <1>1, <2>1, <2>2, PopKeeps
  <1>4. CASE prevented = FALSE /\ page[w] = "bare"
    <2>1. Quitting!CloseNow(w, Tail(stack)) /\ UNCHANGED <<is_quitting, cancelled>>
      BY <1>4
    <2> HIDE DEF w, Quitting!ReturnClose
    <2> QED BY <1>1, <1>2, <1>w, <2>1, CloseNowKeeps
  <1>5. CASE prevented = FALSE /\ page[w] # "bare"
    <2>1. /\ stack' = Tail(stack) /\ UNCHANGED <<is_quitting, cancelled>>
          /\ page' = [page EXCEPT ![w] = IF @ = "loaded" THEN "asked" ELSE @]
      BY <1>5
    <2> HIDE DEF w, Quitting!ReturnClose
    <2>2. /\ page' \in [Windows -> Quitting!Pages]
          /\ \A v \in Windows : page'[v] = page[v] \/ page[v] = "loaded"
      BY <1>0, <2>1 DEF Quitting!Pages
    <2>3. \A v \in Windows : page[v] = "closed" => page'[v] = "closed"
      BY <2>2
    <2>4. ClosedIn(stack', page')
      <3>1. ClosedIn(Tail(stack), page')
        BY <1>2, <2>3, ClosedStays
      <3> QED BY <2>1, <3>1
    <2>5. BrowserPages'
      BY <1>0, <1>1, <1>2, <2>1, <2>2, <2>3, <2>4, PagesKept
    <2>6. BrowserQuits'
      BY <1>0, <1>1, <1>2, <2>1, QuitsKept DEF BrowserQuits
    <2> QED BY <2>5, <2>6 DEF BrowserInvariant
  <1> QED BY <1>3, <1>4, <1>5

\* The last window that is closed makes the application quit, or tells it.
LEMMA ReturnClosedKeeps ==
  ASSUME BrowserInvariant, Quitting!ReturnClosed
  PROVE  BrowserInvariant'
  <1> USE DEF Quitting!ReturnClosed, Quitting!InCall
  <1>0. BrowserPages /\ BrowserQuits /\ windows \in Seq(Windows) /\ stack \in Seq(BrowserCalls)
        /\ ClosedIn(stack, page)
    BY DEF BrowserInvariant, BrowserPages
  <1>1. stack # <<>> /\ Quitting!Top.call = "closed"
        /\ UNCHANGED <<is_exiting, page, too_new, cancelled>>
    OBVIOUS
  <1>2. /\ Tail(stack) \in Seq(BrowserCalls) /\ ClosedIn(Tail(stack), page)
        /\ Quits(Tail(stack)) => Quits(stack)
        /\ Undisturbed => ~Quits(stack) /\ ~Quits(Tail(stack))
    BY <1>1, RestFacts
  <1>3. page[Quitting!Top.window] = "closed"
    BY <1>0, <1>1, ReturnFacts DEF Quitting!Top
  <1>4. windows' \in Seq(Windows) /\ Listed(windows') \subseteq Listed(windows)
        /\ Listed(windows) \ {Quitting!Top.window} \subseteq Listed(windows')
    BY <1>0, WithoutFacts
  <1>5. \A w \in Windows : page[w] \notin {"none", "closed"} => w \in Listed(windows')
    BY <1>0, <1>3, <1>4 DEF BrowserPages
  <1>6. ASSUME stack' \in Seq(BrowserCalls), ClosedIn(stack', page) PROVE BrowserPages'
    BY <1>0, <1>1, <1>4, <1>5, <1>6 DEF BrowserPages
  <1>7. CASE windows' = <<>> /\ is_exiting
    <2>1. Quitting!Shutdown(Tail(stack))
      BY <1>7
    <2> HIDE DEF Quitting!ReturnClosed
    <2>2. /\ stack' \in Seq(BrowserCalls) /\ ClosedIn(stack', page) /\ is_shutdown' = TRUE
          /\ is_quitting' = TRUE \/ is_quitting' = is_quitting
      BY <1>0, <1>2, <2>1, ShutdownTyped DEF BrowserQuits
    <2>3. Listed(windows') = {}
      BY <1>7 DEF Listed
    <2>4. BrowserQuits'
      BY <1>0, <1>1, <2>2, <2>3 DEF BrowserQuits, Undisturbed
    <2> QED BY <1>6, <2>2, <2>4 DEF BrowserInvariant
  <1>8. CASE ~(windows' = <<>> /\ is_exiting) /\ windows' # <<>>
    <2>1. stack' = Tail(stack) /\ UNCHANGED <<is_shutdown, is_quitting>>
      BY <1>8
    <2> HIDE DEF Quitting!ReturnClosed
    <2>2. BrowserQuits'
      BY <1>0, <1>1, <1>2, <1>4, <2>1 DEF BrowserQuits, Undisturbed
    <2> QED BY <1>2, <1>6, <2>1, <2>2 DEF BrowserInvariant
  <1>9. CASE ~(windows' = <<>> /\ is_exiting) /\ windows' = <<>> /\ is_quitting
    <2>1. stack' = Quitting!Notify(Tail(stack)) /\ UNCHANGED <<is_shutdown, is_quitting>>
      BY <1>9
    <2> HIDE DEF Quitting!ReturnClosed
    <2>2. is_quitting = TRUE /\ is_quitting' = TRUE
      BY <1>0, <1>9, <2>1 DEF BrowserQuits
    <2>3. BrowserQuits'
      BY <1>1, <1>2, <1>9, <2>1, <2>2, NotifyKeeps
    <2>4. stack' \in Seq(BrowserCalls) /\ ClosedIn(stack', page)
      BY <1>2, <2>1, NotifyTyped
    <2> QED BY <1>6, <2>3, <2>4 DEF BrowserInvariant
  <1>10. CASE ~(windows' = <<>> /\ is_exiting) /\ windows' = <<>> /\ ~is_quitting
    <2> DEFINE e == Quitting!Event("window-all-closed", 0)
    <2>1. e \in BrowserCalls /\ e.call = "window-all-closed"
      BY EventFacts DEF BrowserEvents
    <2>2. stack' = <<e>> \o Tail(stack) /\ UNCHANGED <<is_shutdown, is_quitting>>
      BY <1>10
    <2> HIDE DEF e, Quitting!ReturnClosed
    <2>3. stack' \in Seq(BrowserCalls) /\ ClosedIn(stack', page)
          /\ (Quits(stack') <=> Quits(Tail(stack)))
      BY <1>2, <2>1, <2>2, CallFacts
    <2>4. BrowserQuits'
      BY <1>0, <1>1, <1>2, <1>4, <2>2, <2>3 DEF BrowserQuits, Undisturbed
    <2> QED BY <1>6, <2>3, <2>4 DEF BrowserInvariant
  <1> QED BY <1>7, <1>8, <1>9, <1>10

LEMMA CloseNextKeeps ==
  ASSUME BrowserInvariant, Quitting!CloseNext
  PROVE  BrowserInvariant'
  <1> USE DEF Quitting!CloseNext
  <1>1. stack # <<>> /\ Quitting!Top.call \in {"CloseAllWindows", "DestroyAllWindows"}
        /\ UNCHANGED <<is_quitting, is_exiting, is_shutdown, windows, too_new, cancelled>>
    BY DEF Quitting!Loops
  <1>2. /\ Tail(stack) \in Seq(BrowserCalls) /\ ClosedIn(Tail(stack), page)
        /\ Quits(Tail(stack)) => Quits(stack)
        /\ Undisturbed => ~Quits(stack) /\ ~Quits(Tail(stack))
        /\ Quitting!Top \in BrowserCalls
    BY <1>1, RestFacts
  <1>3. CASE Quitting!Top.list = <<>>
    <2>1. stack' = Tail(stack) /\ page' = page
      BY <1>3
    <2>2. is_quitting \in BOOLEAN /\ cancelled \in BOOLEAN
      BY DEF BrowserInvariant, BrowserQuits
    <2> HIDE DEF Quitting!CloseNext
    <2> QED BY <1>1, <2>1, <2>2, PopKeeps
  <1>4. CASE Quitting!Top.list # <<>>
    <2> DEFINE w == Head(Quitting!Top.list)
               l == Tail(Quitting!Top.list)
               r == Quitting!Loop(Quitting!Top.call, l)
               rest == <<r>> \o Tail(stack)
               e == Quitting!Event("close", w)
    <2>1. w \in Windows /\ l \in Seq(Windows)
      <3>1. Quitting!Top.list \in Seq(Windows)
        BY <1>2 DEF BrowserCalls
      <3> QED BY <1>4, <3>1
    <2>2. \/ stack' = rest /\ page' = page
          \/ stack' = <<e>> \o rest /\ page' = page
          \/ Quitting!CloseNow(w, rest)
      BY <1>1, <1>4
    <2> HIDE DEF w, l, Quitting!CloseNext
    <2>3. r \in BrowserCalls /\ r.call \in {"CloseAllWindows", "DestroyAllWindows"}
      BY <1>1, <2>1, LoopFacts
    <2>4. e \in BrowserCalls /\ e.call = "close"
      BY <2>1, EventFacts DEF BrowserEvents
    <2> HIDE DEF r, e
    <2>5. rest \in Seq(BrowserCalls) /\ ClosedIn(rest, page) /\ (Quits(rest) <=> Quits(Tail(stack)))
      BY <1>2, <2>3, CallFacts
    <2>6. CASE stack' = rest /\ page' = page
      BY <1>1, <1>2, <2>3, <2>6, PushKeeps
    <2> HIDE DEF rest
    <2>7. CASE stack' = <<e>> \o rest /\ page' = page
      BY <1>1, <1>2, <2>4, <2>5, <2>7, PushKeeps
    <2>8. CASE Quitting!CloseNow(w, rest)
      BY <1>1, <1>2, <2>1, <2>5, <2>8, CloseNowKeeps
    <2> QED BY <2>2, <2>6, <2>7, <2>8
  <1> QED BY <1>3, <1>4

\* From the message loop there is no call on the stack.
LEMMA PageKeeps ==
  ASSUME BrowserInvariant, NEW w \in Windows,
         \/ Quitting!PageCloses(w) \/ Quitting!PageStays(w) \/ Quitting!WebContentsDestroyed(w)
  PROVE  BrowserInvariant'
  <1>0. BrowserPages /\ BrowserQuits /\ page \in [Windows -> Quitting!Pages]
        /\ stack \in Seq(BrowserCalls) /\ ClosedIn(stack, page)
    BY DEF BrowserInvariant, BrowserPages
  <1>1. stack = <<>> /\ UNCHANGED <<is_exiting, is_shutdown, windows, too_new>>
    BY DEF Quitting!PageCloses, Quitting!PageStays, Quitting!WebContentsDestroyed
  <1>2. ~Quits(stack)
    BY <1>1, NoCallFacts
  <1>3. CASE Quitting!PageCloses(w) \/ Quitting!PageStays(w)
    <2>1. /\ stack' = stack /\ page[w] \in {"loaded", "asked"}
          /\ page' = [page EXCEPT ![w] = "closing"] \/ page' = [page EXCEPT ![w] = "loaded"]
      BY <1>3 DEF Quitting!PageCloses, Quitting!PageStays
    <2>2. \/ is_quitting' = is_quitting /\ cancelled' = cancelled
          \/ is_quitting' = FALSE /\ cancelled' = (cancelled \/ is_quitting)
      BY <1>3 DEF Quitting!PageCloses, Quitting!PageStays, Quitting!WindowCloseCancelled
    <2>3. is_quitting' \in BOOLEAN /\ cancelled' \in BOOLEAN
      BY <1>0, <2>2 DEF BrowserQuits
    <2>4. /\ page' \in [Windows -> Quitting!Pages]
          /\ \A v \in Windows : page'[v] = page[v] \/ page[v] \in {"loaded", "asked"}
      BY <1>0, <2>1 DEF Quitting!Pages
    <2>5. ClosedIn(stack, page')
      BY <1>0, <2>4, ClosedStays
    <2>6. BrowserPages'
      BY <1>0, <1>1, <2>1, <2>4, <2>5, PagesKept
    <2>7. BrowserQuits'
      BY <1>0, <1>1, <1>2, <2>1, <2>2, <2>3, QuitsKept
    <2> QED BY <2>6, <2>7 DEF BrowserInvariant
  <1>4. CASE Quitting!WebContentsDestroyed(w)
    <2>1. Quitting!CloseNow(w, stack) /\ UNCHANGED <<is_quitting, cancelled>>
      BY <1>4 DEF Quitting!WebContentsDestroyed
    <2> QED BY <1>0, <1>1, <1>2, <2>1, CloseNowKeeps
  <1> QED BY <1>3, <1>4

LEMMA ReturnEventKeeps ==
  ASSUME BrowserInvariant, Quitting!ReturnEvent
  PROVE  BrowserInvariant'
  <1>1. is_quitting \in BOOLEAN /\ cancelled \in BOOLEAN
    BY DEF BrowserInvariant, BrowserQuits
  <1> QED BY <1>1, PopKeeps DEF Quitting!ReturnEvent, Quitting!InCall

LEMMA BrowserStep == BrowserInvariant /\ Quitting!Next => BrowserInvariant'
  BY QuitKeeps, ExitKeeps, NewWindowKeeps, CloseKeeps, PageKeeps, ReturnBeforeQuitKeeps,
     ReturnWillQuitKeeps, ReturnCloseKeeps, ReturnClosedKeeps, ReturnEventKeeps, CloseNextKeeps
  DEF Quitting!Next, Quitting!Return

LEMMA BrowserStutter == BrowserInvariant /\ Quitting!NoStep => BrowserInvariant'
  BY DEF BrowserInvariant, BrowserPages, BrowserQuits, Undisturbed, Quitting!NoStep,
         Quitting!browserVars

LEMMA BrowserSafe == BrowserInvariant => Quitting!WindowsAreGoneAtShutdown
  <1> SUFFICES ASSUME BrowserInvariant, is_shutdown, NEW i \in DOMAIN windows
               PROVE  windows[i] \in too_new
    BY DEF Quitting!WindowsAreGoneAtShutdown
  <1>1. windows \in Seq(Windows) /\ Listed(windows) \subseteq too_new
    BY DEF BrowserInvariant, BrowserPages, BrowserQuits
  <1>2. i \in 1..Len(windows)
    BY <1>1
  <1> QED BY <1>1, <1>2 DEF Listed

\* Only app.exit(), the last window of it, or a will-quit that was not disturbed
\* and not cancelled shuts down.
LEMMA ShutdownIsMeant ==
  ASSUME BrowserInvariant, Quitting!Next, is_shutdown', ~is_shutdown
  PROVE  ~cancelled \/ is_exiting' \/ too_new # {}
  <1>0. BrowserQuits /\ BrowserPages
    BY DEF BrowserInvariant
  <1>1. CASE Quitting!Exit \/ Quitting!ReturnClosed
    <2>1. CASE Quitting!Exit
      BY <2>1 DEF Quitting!Exit
    <2>2. CASE Quitting!ReturnClosed
      <3>1. CASE is_exiting = TRUE
        BY <2>2, <3>1 DEF Quitting!ReturnClosed
      <3>2. CASE is_exiting = FALSE
        <4>1. is_shutdown' = is_shutdown
          BY <2>2, <3>2 DEF Quitting!ReturnClosed
        <4> QED BY <4>1
      <3> QED BY <1>0, <3>1, <3>2 DEF BrowserQuits
    <2> QED BY <1>1, <2>1, <2>2
  <1>2. ASSUME NEW prevented \in BOOLEAN, Quitting!ReturnWillQuit(prevented)
        PROVE  ~cancelled \/ is_exiting' \/ too_new # {}
    <2>1. stack # <<>> /\ Head(stack).call = "will-quit" /\ is_exiting' = is_exiting
      BY <1>2 DEF Quitting!ReturnWillQuit, Quitting!InCall, Quitting!Top
    <2>2. Quits(stack)
      BY <1>0, <2>1, ReturnFacts DEF BrowserPages
    <2> QED BY <1>0, <2>1, <2>2 DEF BrowserQuits, Undisturbed
  <1>3. CASE UNCHANGED is_shutdown
    BY <1>3
  <1> QED
    BY <1>1, <1>2, <1>3
    DEF Quitting!Next, Quitting!Return, Quitting!Quit, Quitting!NewWindow, Quitting!Close,
        Quitting!Destroy, Quitting!PageCloses, Quitting!PageStays, Quitting!WebContentsDestroyed,
        Quitting!ReturnBeforeQuit, Quitting!ReturnClose, Quitting!ReturnEvent, Quitting!CloseNext

-----------------------------------------------------------------------------
(* Message ports.  An end of a pipe has at most one place: one port has it *)
(* or one message of one pipe carries it; it is open exactly while it has  *)
(* one.  What was posted to an end is what was emitted at it, followed,    *)
(* while it is open, by what waits.                                        *)

LEMMA PortNumbers ==
    /\ Ports \subseteq Nat /\ PipeEnds \subseteq Nat /\ PipeEnds \subseteq Ports
    /\ 0 \notin PipeEnds /\ -1 \notin PipeEnds /\ 0 # -1
  BY ServicesAssumption

PortMessage == [id : PortMessages, ends : SUBSET PipeEnds]

\* Message i of pipe f carries the end e.
Carries(pipes, f, i, e) == i \in 1..Len(pipes[f]) /\ e \in pipes[f][i].ends

OnePlace(ends, pipes) ==
    /\ \A p, q \in Ports : ends[p] = ends[q] /\ ends[p] \in PipeEnds => p = q
    /\ \A p \in Ports, f \in PipeEnds, i \in Nat : ~Carries(pipes, f, i, ends[p])
    /\ \A e, f, g \in PipeEnds, i, j \in Nat :
          Carries(pipes, f, i, e) /\ Carries(pipes, g, j, e) => f = g /\ i = j
HasPlace(ends, pipes, e) ==
    \/ \E p \in Ports : ends[p] = e
    \/ \E f \in PipeEnds, i \in Nat : Carries(pipes, f, i, e)

PortTypes ==
    /\ ports \in [Ports -> {"none", "yes", "gone"}]
    /\ held \subseteq Ports
    /\ end_of \in [Ports -> PipeEnds \cup {0, -1}]
    /\ started_ports \subseteq Ports /\ closed_ports \subseteq Ports /\ open_ends \subseteq PipeEnds
    /\ pipe \in [PipeEnds -> Seq(PortMessage)]
    /\ posted_to \in [PipeEnds -> Seq(PortMessage)]
    /\ accepted_at \in [PipeEnds -> Seq(PortMessage)]
PortPlaces ==
    /\ OnePlace(end_of, pipe)
    /\ \A e \in PipeEnds : e \in open_ends <=> HasPlace(end_of, pipe, e)
PortOrder ==
    \A e \in PipeEnds : \E rest \in Seq(PortMessage) :
        posted_to[e] = accepted_at[e] \o rest /\ (e \in open_ends => rest = pipe[e])
PortPins ==
    /\ pinned = { p \in Ports : p \in started_ports /\ p \notin closed_ports /\ end_of[p] # 0 }
    /\ \A p \in Ports : ports[p] = "none" =>
          p \notin started_ports /\ p \notin closed_ports /\ end_of[p] = 0
PortInvariant == PortTypes /\ PortPlaces /\ PortOrder /\ PortPins

LEMMA PortInit == Porting!Init => PortInvariant
  <1> SUFFICES ASSUME Porting!Init PROVE PortInvariant
    OBVIOUS
  <1> USE PortNumbers DEF Porting!Init, Porting!NoEnd
  <1>1. PortTypes
    BY DEF PortTypes
  <1>2. \A f \in PipeEnds, i \in Nat : \A e : ~Carries(pipe, f, i, e)
    BY DEF Carries
  <1>3. OnePlace(end_of, pipe)
    BY <1>2 DEF OnePlace
  <1>4. PortPlaces
    <2>1. ASSUME NEW e \in PipeEnds PROVE e \in open_ends <=> HasPlace(end_of, pipe, e)
      <3>1. e \in Ports /\ end_of[e] = e /\ e \in open_ends
        OBVIOUS
      <3> QED BY <3>1 DEF HasPlace
    <2> QED BY <1>3, <2>1 DEF PortPlaces
  <1>5. PortOrder
    <2>1. << >> \in Seq(PortMessage) /\ << >> \o << >> = << >>
      OBVIOUS
    <2> QED BY <2>1 DEF PortOrder
  <1>6. PortPins
    <2>1. started_ports = {} /\ closed_ports = {} /\ pinned = {}
      OBVIOUS
    <2>2. \A p \in Ports : ports[p] = "none" => end_of[p] = 0
      OBVIOUS
    <2> QED BY <2>1, <2>2 DEF PortPins
  <1> QED BY <1>1, <1>4, <1>5, <1>6 DEF PortInvariant

-----------------------------------------------------------------------------
(* Closing ends. *)

LEMMA InsideIsCarried ==
  ASSUME PortTypes, NEW f \in PipeEnds
  PROVE  /\ Porting!Inside(f) \subseteq PipeEnds
         /\ \A e : e \in Porting!Inside(f) <=> \E i \in Nat : Carries(pipe, f, i, e)
  <1>1. pipe[f] \in Seq(PortMessage)
    BY DEF PortTypes
  <1>2. Porting!Range(pipe[f]) = { pipe[f][i] : i \in 1..Len(pipe[f]) }
    BY <1>1 DEF Porting!Range
  <1>3. \A i \in 1..Len(pipe[f]) : pipe[f][i] \in PortMessage
    BY <1>1
  <1>4. \A e : e \in Porting!Inside(f) <=> \E i \in 1..Len(pipe[f]) : e \in pipe[f][i].ends
    BY <1>2 DEF Porting!Inside
  <1>5. Len(pipe[f]) \in Nat
    BY <1>1
  <1> QED BY <1>3, <1>4, <1>5 DEF Carries, PortMessage

\* The ends that are closed are S, and what the pipes of closed ends carry.
LEMMA ClosedIsLeast ==
  ASSUME PortTypes, NEW S \in SUBSET PipeEnds, NEW C, C = Porting!ClosedWith(S)
  PROVE  /\ C \subseteq PipeEnds /\ S \subseteq C
         /\ \A f \in C, i \in Nat : \A e : Carries(pipe, f, i, e) => e \in C
         /\ \A e \in C : e \in S \/ \E f \in C, i \in Nat : Carries(pipe, f, i, e)
  <1> DEFINE Good(T) == S \subseteq T /\ \A t \in T : Porting!Inside(t) \subseteq T
  <1>1. C = { e \in PipeEnds : \A T \in SUBSET PipeEnds : Good(T) => e \in T }
    BY DEF Porting!ClosedWith
  <1>2. C \subseteq PipeEnds /\ S \subseteq C
    BY <1>1
  <1>3. \A f \in PipeEnds : Porting!Inside(f) \subseteq PipeEnds
    BY InsideIsCarried
  <1>4. \A f \in C : Porting!Inside(f) \subseteq C
    BY <1>1, <1>2, <1>3
  <1>5. ASSUME NEW e \in C, e \notin S, \A f \in C : e \notin Porting!Inside(f) PROVE FALSE
    <2>1. C \ {e} \in SUBSET PipeEnds /\ Good(C \ {e})
      BY <1>2, <1>4, <1>5
    <2> QED BY <1>1, <2>1, <1>5
  <1> HIDE DEF Good
  <1>6. \A f \in C, i \in Nat : \A e : Carries(pipe, f, i, e) => e \in C
    BY <1>2, <1>4, InsideIsCarried
  <1>7. ASSUME NEW e \in C, e \notin S PROVE \E f \in C, i \in Nat : Carries(pipe, f, i, e)
    <2>1. PICK f \in C : e \in Porting!Inside(f)
      BY <1>5, <1>7
    <2> QED BY <1>2, <2>1, InsideIsCarried
  <1> QED BY <1>2, <1>6, <1>7

\* Ports lose the ends in S, and S is closed: each end still has one place, and
\* is open while it has one.
LEMMA CloseEndsKeeps ==
  ASSUME PortTypes, PortPlaces, PortOrder, NEW S \in SUBSET PipeEnds, Porting!CloseEnds(S),
         end_of' \in [Ports -> PipeEnds \cup {0, -1}],
         \A q \in Ports : end_of[q] \in S => end_of'[q] \in {0, -1},
         \A q \in Ports : end_of[q] \notin S => end_of'[q] = end_of[q] \/ end_of'[q] \in {0, -1},
         \A q \in Ports : end_of[q] \in PipeEnds \ S => end_of'[q] = end_of[q],
         \A e \in S : \E q \in Ports : end_of[q] = e
  PROVE  /\ PortPlaces' /\ PortOrder'
         /\ pipe' \in [PipeEnds -> Seq(PortMessage)] /\ open_ends' \subseteq PipeEnds
         /\ UNCHANGED <<posted_to, accepted_at>>
  <1> DEFINE C == Porting!ClosedWith(S)
  <1>1. /\ C \subseteq PipeEnds /\ S \subseteq C
        /\ \A f \in C, i \in Nat : \A e : Carries(pipe, f, i, e) => e \in C
        /\ \A e \in C : e \in S \/ \E f \in C, i \in Nat : Carries(pipe, f, i, e)
    BY ClosedIsLeast
  <1>2. /\ open_ends' = open_ends \ C
        /\ pipe' = [e \in PipeEnds |-> IF e \in C THEN <<>> ELSE pipe[e]]
        /\ UNCHANGED <<posted_to, accepted_at>>
    BY DEF Porting!CloseEnds
  <1> HIDE DEF C
  <1>3. pipe' \in [PipeEnds -> Seq(PortMessage)] /\ open_ends' \subseteq PipeEnds
    BY <1>2 DEF PortTypes
  <1>4. \A f \in PipeEnds, i \in Nat : \A e :
           Carries(pipe', f, i, e) <=> f \notin C /\ Carries(pipe, f, i, e)
    BY <1>2 DEF Carries
  <1>5. /\ \A p, q \in Ports : end_of[p] = end_of[q] /\ end_of[p] \in PipeEnds => p = q
        /\ \A p \in Ports, f \in PipeEnds, i \in Nat : ~Carries(pipe, f, i, end_of[p])
        /\ \A e, f, g \in PipeEnds, i, j \in Nat :
              Carries(pipe, f, i, e) /\ Carries(pipe, g, j, e) => f = g /\ i = j
    BY DEF PortPlaces, OnePlace
  <1>6. \A q \in Ports : end_of'[q] \in PipeEnds => end_of'[q] = end_of[q] /\ end_of[q] \notin S
    BY PortNumbers
  <1>7. \A f \in PipeEnds, i \in Nat : \A e : Carries(pipe, f, i, e) => e \in PipeEnds
    BY InsideIsCarried
  <1>8. OnePlace(end_of', pipe')
    <2>1. \A p, q \in Ports : end_of'[p] = end_of'[q] /\ end_of'[p] \in PipeEnds => p = q
      BY <1>5, <1>6
    <2>2. \A p \in Ports, f \in PipeEnds, i \in Nat : ~Carries(pipe', f, i, end_of'[p])
      BY <1>4, <1>5, <1>6, <1>7
    <2>3. \A e, f, g \in PipeEnds, i, j \in Nat :
              Carries(pipe', f, i, e) /\ Carries(pipe', g, j, e) => f = g /\ i = j
      BY <1>4, <1>5
    <2> QED BY <2>1, <2>2, <2>3 DEF OnePlace
  <1>9. ASSUME NEW e \in PipeEnds PROVE e \in open_ends' <=> HasPlace(end_of', pipe', e)
    <2>1. e \in open_ends <=> HasPlace(end_of, pipe, e)
      BY DEF PortPlaces
    <2>2. CASE e \in C
      <3>1. \A q \in Ports : end_of'[q] # e
        BY <1>1, <1>5, <1>6, <2>2
      <3>2. \A f \in PipeEnds, i \in Nat : ~Carries(pipe', f, i, e)
        <4> SUFFICES ASSUME NEW f \in PipeEnds, NEW i \in Nat, f \notin C, Carries(pipe, f, i, e)
                     PROVE  FALSE
          BY <1>4
        <4>1. CASE e \in S
          BY <1>5, <4>1
        <4>2. CASE e \notin S
          BY <1>1, <1>5, <2>2, <4>2
        <4> QED BY <4>1, <4>2
      <3> QED BY <1>2, <2>2, <3>1, <3>2 DEF HasPlace
    <2>3. CASE e \notin C
      <3>1. \A q \in Ports : end_of'[q] = e <=> end_of[q] = e
        BY <1>1, <1>6, <2>3
      <3>2. \A f \in PipeEnds, i \in Nat : Carries(pipe', f, i, e) <=> Carries(pipe, f, i, e)
        BY <1>1, <1>4, <2>3
      <3> QED BY <1>2, <2>1, <2>3, <3>1, <3>2 DEF HasPlace
    <2> QED BY <2>2, <2>3
  <1>10. PortPlaces'
    BY <1>8, <1>9 DEF PortPlaces
  <1>11. PortOrder'
    BY <1>2 DEF PortOrder
  <1> QED BY <1>2, <1>3, <1>10, <1>11

\* A port is closed: it loses its end.
LEMMA ClosePortKeeps ==
  ASSUME PortInvariant, NEW p \in Ports, Porting!ClosePort(p), ports[p] = "yes"
  PROVE  PortInvariant'
  <1> USE DEF Porting!NoEnd, Porting!NewPipe, Porting!IsNeutered
  <1>0. PortTypes /\ PortPlaces /\ PortOrder /\ PortPins
    BY DEF PortInvariant
  <1>1. /\ p \notin closed_ports /\ closed_ports' = closed_ports \cup {p}
        /\ end_of' = IF end_of[p] = 0 THEN end_of ELSE [end_of EXCEPT ![p] = -1]
        /\ pinned' = pinned \ {p} /\ Porting!CloseEnds({end_of[p]} \cap PipeEnds)
        /\ UNCHANGED <<ports, held, started_ports>>
    BY DEF Porting!ClosePort
  <1> DEFINE S == {end_of[p]} \cap PipeEnds
  <1>2. /\ end_of' \in [Ports -> PipeEnds \cup {0, -1}]
        /\ \A q \in Ports : q # p => end_of'[q] = end_of[q]
        /\ end_of'[p] \in {0, -1} /\ (end_of'[p] = 0 <=> end_of[p] = 0)
    BY <1>0, <1>1, PortNumbers DEF PortTypes
  <1>3. \A e \in S : \E q \in Ports : end_of[q] = e
    OBVIOUS
  <1>4. \A q \in Ports : end_of[q] \in S => q = p
    BY <1>0 DEF PortPlaces, OnePlace
  <1>5. \A q \in Ports : end_of[q] \in PipeEnds \ S => q # p
    OBVIOUS
  <1>6. Porting!CloseEnds(S) /\ S \in SUBSET PipeEnds
    BY <1>1
  <1> HIDE DEF S
  <1>7. /\ PortPlaces' /\ PortOrder'
        /\ pipe' \in [PipeEnds -> Seq(PortMessage)] /\ open_ends' \subseteq PipeEnds
        /\ UNCHANGED <<posted_to, accepted_at>>
    BY <1>0, <1>2, <1>3, <1>4, <1>5, <1>6, CloseEndsKeeps
  <1>8. PortTypes'
    BY <1>0, <1>1, <1>2, <1>7 DEF PortTypes
  <1>9. PortPins'
    <2>1. \A q \in Ports : ports'[q] = "none" =>
             q \notin started_ports' /\ q \notin closed_ports' /\ end_of'[q] = 0
      BY <1>0, <1>1, <1>2 DEF PortPins
    <2>2. pinned' = { q \in Ports :
                        q \in started_ports' /\ q \notin closed_ports' /\ end_of'[q] # 0 }
      BY <1>0, <1>1, <1>2 DEF PortPins
    <2> QED BY <2>1, <2>2 DEF PortPins
  <1> QED BY <1>7, <1>8, <1>9 DEF PortInvariant

LEMMA CollectKeeps ==
  ASSUME PortInvariant, NEW p \in Ports, Porting!Collect(p)
  PROVE  PortInvariant'
  <1> USE DEF Porting!NoEnd
  <1>0. PortTypes /\ PortPlaces /\ PortOrder /\ PortPins
    BY DEF PortInvariant
  <1>1. /\ ports[p] = "yes" /\ p \notin held /\ p \notin pinned
        /\ ports' = [ports EXCEPT ![p] = "gone"]
        /\ end_of' = [end_of EXCEPT ![p] = 0]
        /\ Porting!CloseEnds({end_of[p]} \cap PipeEnds)
        /\ UNCHANGED <<held, started_ports, closed_ports, pinned>>
    BY DEF Porting!Collect
  <1> DEFINE S == {end_of[p]} \cap PipeEnds
  <1>2. /\ end_of' \in [Ports -> PipeEnds \cup {0, -1}]
        /\ \A q \in Ports : q # p => end_of'[q] = end_of[q]
        /\ end_of'[p] = 0
    BY <1>0, <1>1 DEF PortTypes
  <1>3. \A e \in S : \E q \in Ports : end_of[q] = e
    OBVIOUS
  <1>4. \A q \in Ports : end_of[q] \in S => q = p
    BY <1>0 DEF PortPlaces, OnePlace
  <1>5. \A q \in Ports : end_of[q] \in PipeEnds \ S => q # p
    OBVIOUS
  <1>6. Porting!CloseEnds(S) /\ S \in SUBSET PipeEnds
    BY <1>1
  <1> HIDE DEF S
  <1>7. /\ PortPlaces' /\ PortOrder'
        /\ pipe' \in [PipeEnds -> Seq(PortMessage)] /\ open_ends' \subseteq PipeEnds
        /\ UNCHANGED <<posted_to, accepted_at>>
    BY <1>0, <1>2, <1>3, <1>4, <1>5, <1>6, CloseEndsKeeps
  <1>8. PortTypes'
    BY <1>0, <1>1, <1>2, <1>7 DEF PortTypes
  <1>9. PortPins'
    <2>0. /\ ports'[p] = "gone" /\ \A q \in Ports : q # p => ports'[q] = ports[q]
      BY <1>0, <1>1 DEF PortTypes
    <2>1. \A q \in Ports : ports'[q] = "none" =>
             q \notin started_ports' /\ q \notin closed_ports' /\ end_of'[q] = 0
      BY <1>0, <1>1, <1>2, <2>0 DEF PortPins
    <2>2. pinned' = { q \in Ports :
                        q \in started_ports' /\ q \notin closed_ports' /\ end_of'[q] # 0 }
      BY <1>0, <1>1, <1>2 DEF PortPins
    <2> QED BY <2>1, <2>2 DEF PortPins
  <1> QED BY <1>7, <1>8, <1>9 DEF PortInvariant

\* Start, and JavaScript loses a reference.
LEMMA StartKeeps ==
  ASSUME PortInvariant, NEW p \in Ports, Porting!Start(p) \/ Porting!Release(p)
  PROVE  PortInvariant'
  <1>0. PortTypes /\ PortPlaces /\ PortOrder /\ PortPins
    BY DEF PortInvariant
  <1>1. /\ UNCHANGED <<ports, end_of, closed_ports, open_ends, pipe, posted_to, accepted_at>>
        /\ ports[p] = "yes" /\ held' \subseteq held
        /\ \/ started_ports' = started_ports \cup {p} /\ pinned' = pinned \cup {p}
              /\ p \notin closed_ports /\ end_of[p] # 0
           \/ UNCHANGED <<started_ports, pinned>>
    BY DEF Porting!Start, Porting!Release, Porting!Call, Porting!Usable, Porting!IsEntangled,
           Porting!IsNeutered, Porting!NoEnd
  <1>2. PortTypes'
    BY <1>0, <1>1 DEF PortTypes
  <1>3. PortPlaces' /\ PortOrder'
    BY <1>0, <1>1 DEF PortPlaces, PortOrder
  <1>4. PortPins'
    BY <1>0, <1>1 DEF PortPins
  <1> QED BY <1>2, <1>3, <1>4 DEF PortInvariant
-----------------------------------------------------------------------------
(* Posting. *)

LEMMA MessageAppended ==
  ASSUME NEW s \in Seq(PortMessage), NEW m \in PortMessage
  PROVE  /\ Append(s, m) \in Seq(PortMessage) /\ Len(Append(s, m)) = Len(s) + 1
         /\ \A i \in 1..Len(s) : Append(s, m)[i] = s[i]
         /\ Append(s, m)[Len(s) + 1] = m
         /\ \A r \in Seq(PortMessage) : Append(r \o s, m) = r \o Append(s, m)
  <1>1. /\ Append(s, m) \in Seq(PortMessage) /\ Len(Append(s, m)) = Len(s) + 1
        /\ \A i \in 1..Len(s) : Append(s, m)[i] = s[i]
        /\ Append(s, m)[Len(s) + 1] = m
    OBVIOUS
  <1>2. ASSUME NEW r \in Seq(PortMessage) PROVE Append(r \o s, m) = r \o Append(s, m)
    OBVIOUS
  <1> QED BY <1>1, <1>2

\* The ports in T hand their ends to a message that is put into the pipe at to.
LEMMA PostKeeps ==
  ASSUME PortTypes, PortPlaces, PortOrder, NEW T \in SUBSET Ports, NEW ends, NEW m \in PortMessage,
         NEW to \in open_ends,
         ends = { end_of[q] : q \in T } \ {-1}, \A q \in T : end_of[q] # 0,
         m.ends = ends,
         end_of' = [p \in Ports |-> IF p \in T THEN 0 ELSE end_of[p]],
         pipe' = [pipe EXCEPT ![to] = Append(@, m)],
         posted_to' = [posted_to EXCEPT ![to] = Append(@, m)],
         UNCHANGED <<open_ends, accepted_at>>
  PROVE  /\ PortPlaces' /\ PortOrder'
         /\ pipe' \in [PipeEnds -> Seq(PortMessage)]
         /\ posted_to' \in [PipeEnds -> Seq(PortMessage)]
  <1>0. to \in PipeEnds /\ pipe[to] \in Seq(PortMessage) /\ posted_to[to] \in Seq(PortMessage)
    BY DEF PortTypes
  <1>1. /\ Append(pipe[to], m) \in Seq(PortMessage)
        /\ Len(Append(pipe[to], m)) = Len(pipe[to]) + 1
        /\ \A i \in 1..Len(pipe[to]) : Append(pipe[to], m)[i] = pipe[to][i]
        /\ Append(pipe[to], m)[Len(pipe[to]) + 1] = m
        /\ \A r \in Seq(PortMessage) : Append(r \o pipe[to], m) = r \o Append(pipe[to], m)
    BY <1>0, MessageAppended
  <1>2. pipe'[to] = Append(pipe[to], m) /\ \A f \in PipeEnds : f # to => pipe'[f] = pipe[f]
    BY <1>0 DEF PortTypes
  <1>3. pipe' \in [PipeEnds -> Seq(PortMessage)]
    BY <1>0, <1>1 DEF PortTypes
  <1>4. Append(posted_to[to], m) \in Seq(PortMessage)
    BY <1>0, MessageAppended
  <1>5. posted_to' \in [PipeEnds -> Seq(PortMessage)]
    BY <1>0, <1>4 DEF PortTypes
  <1> DEFINE n == Len(pipe[to]) + 1
  <1>6. n \in Nat /\ n \notin 1..Len(pipe[to])
    BY <1>0
  <1>7. ASSUME NEW f \in PipeEnds, NEW i \in Nat, NEW e
        PROVE  Carries(pipe', f, i, e) <=>
                  Carries(pipe, f, i, e) \/ (f = to /\ i = n /\ e \in ends)
    <2>1. CASE f # to
      BY <1>2, <2>1 DEF Carries
    <2>2. CASE f = to /\ i \in 1..Len(pipe[to])
      <3>1. i # n /\ i \in 1..Len(pipe'[to]) /\ pipe'[to][i] = pipe[to][i]
        BY <1>0, <1>1, <1>2, <2>2
      <3> QED BY <2>2, <3>1 DEF Carries
    <2>3. CASE f = to /\ i = n
      <3>1. i \in 1..Len(pipe'[to]) /\ pipe'[to][i] = m /\ i \notin 1..Len(pipe[to])
        BY <1>0, <1>1, <1>2, <2>3
      <3> QED BY <2>3, <3>1 DEF Carries
    <2>4. CASE f = to /\ i # n /\ i \notin 1..Len(pipe[to])
      <3>1. i \notin 1..Len(pipe'[to])
        BY <1>0, <1>1, <1>2, <2>4
      <3> QED BY <2>4, <3>1 DEF Carries
    <2> QED BY <2>1, <2>2, <2>3, <2>4
  <1> HIDE DEF n
  <1>8. /\ \A p, q \in Ports : end_of[p] = end_of[q] /\ end_of[p] \in PipeEnds => p = q
        /\ \A p \in Ports, f \in PipeEnds, i \in Nat : ~Carries(pipe, f, i, end_of[p])
        /\ \A e, f, g \in PipeEnds, i, j \in Nat :
              Carries(pipe, f, i, e) /\ Carries(pipe, g, j, e) => f = g /\ i = j
    BY DEF PortPlaces, OnePlace
  <1>9. /\ \A q \in Ports : end_of'[q] = IF q \in T THEN 0 ELSE end_of[q]
        /\ 0 \notin PipeEnds /\ 0 \notin ends
    BY PortNumbers
  <1>10. ends \subseteq PipeEnds /\ \A e \in ends : \E q \in T : end_of[q] = e
    BY DEF PortTypes
  <1>11. \A f \in PipeEnds, i \in Nat : \A e : Carries(pipe, f, i, e) => e \in PipeEnds
    BY InsideIsCarried
  <1>12. OnePlace(end_of', pipe')
    <2>1. \A p, q \in Ports : end_of'[p] = end_of'[q] /\ end_of'[p] \in PipeEnds => p = q
      BY <1>8, <1>9
    <2>2. ASSUME NEW p \in Ports, NEW f \in PipeEnds, NEW i \in Nat, Carries(pipe', f, i, end_of'[p])
          PROVE  FALSE
      <3>1. end_of'[p] \in PipeEnds
        BY <1>7, <1>10, <1>11, <2>2
      <3>2. p \notin T /\ end_of'[p] = end_of[p]
        BY <1>9, <3>1
      <3>3. end_of[p] \notin ends
        BY <1>8, <1>10, <3>1, <3>2
      <3> QED BY <1>7, <1>8, <2>2, <3>2, <3>3
    <2>3. ASSUME NEW e \in PipeEnds, NEW f \in PipeEnds, NEW g \in PipeEnds, NEW i \in Nat, NEW j \in Nat,
                 Carries(pipe', f, i, e), Carries(pipe', g, j, e)
          PROVE  f = g /\ i = j
      <3>1. CASE e \in ends
        <4>1. ~Carries(pipe, f, i, e) /\ ~Carries(pipe, g, j, e)
          BY <1>8, <1>10, <3>1
        <4> QED BY <1>7, <2>3, <4>1
      <3>2. CASE e \notin ends
        BY <1>7, <1>8, <2>3, <3>2
      <3> QED BY <3>1, <3>2
    <2> QED BY <2>1, <2>2, <2>3 DEF OnePlace
  <1>13. ASSUME NEW e \in PipeEnds PROVE e \in open_ends' <=> HasPlace(end_of', pipe', e)
    <2>1. e \in open_ends <=> HasPlace(end_of, pipe, e)
      BY DEF PortPlaces
    <2>2. CASE e \in ends
      <3>1. HasPlace(end_of, pipe, e)
        BY <1>10, <2>2 DEF HasPlace
      <3>2. Carries(pipe', to, n, e)
        BY <1>0, <1>6, <1>7, <2>2
      <3> QED BY <1>0, <1>6, <2>1, <3>1, <3>2 DEF HasPlace, n
    <2>3. CASE e \notin ends
      <3>1. \A q \in Ports : end_of'[q] = e <=> end_of[q] = e
        BY <1>9, <2>3, PortNumbers
      <3>2. \A f \in PipeEnds, i \in Nat : Carries(pipe', f, i, e) <=> Carries(pipe, f, i, e)
        BY <1>7, <2>3
      <3> QED BY <2>1, <3>1, <3>2 DEF HasPlace
    <2> QED BY <2>2, <2>3
  <1>14. PortPlaces'
    BY <1>12, <1>13 DEF PortPlaces
  <1>15. PortOrder'
    <2> SUFFICES ASSUME NEW e \in PipeEnds
                 PROVE  \E rest \in Seq(PortMessage) :
                           posted_to'[e] = accepted_at'[e] \o rest /\ (e \in open_ends' => rest = pipe'[e])
      BY DEF PortOrder
    <2>1. PICK rest \in Seq(PortMessage) :
              posted_to[e] = accepted_at[e] \o rest /\ (e \in open_ends => rest = pipe[e])
      BY DEF PortOrder
    <2>2. CASE e # to
      <3>1. posted_to'[e] = posted_to[e] /\ pipe'[e] = pipe[e]
        BY <1>0, <2>2 DEF PortTypes
      <3> QED BY <2>1, <3>1
    <2>3. CASE e = to
      <3>1. posted_to'[e] = Append(accepted_at[e] \o pipe[to], m)
        BY <1>0, <2>1, <2>3 DEF PortTypes
      <3>2. accepted_at[e] \in Seq(PortMessage)
        BY DEF PortTypes
      <3>3. posted_to'[e] = accepted_at[e] \o Append(pipe[to], m)
        BY <1>1, <3>1, <3>2
      <3> QED BY <1>1, <1>2, <2>3, <3>3
    <2> QED BY <2>2, <2>3
  <1> QED BY <1>3, <1>5, <1>14, <1>15

LEMMA PostMessageKeeps ==
  ASSUME PortInvariant, NEW p \in Ports, NEW T \in SUBSET Ports, Porting!PostMessage(p, T)
  PROVE  PortInvariant'
  <1> USE DEF Porting!NoEnd, Porting!NewPipe
  <1>0. PortTypes /\ PortPlaces /\ PortOrder /\ PortPins
    BY DEF PortInvariant
  <1> DEFINE to == Porting!Peer(end_of[p])
             ends == { end_of[q] : q \in T } \ {-1}
  <1>1. /\ \A q \in T : ports[q] = "yes" /\ end_of[q] # 0
        /\ end_of' = [q \in Ports |-> IF q \in T THEN 0 ELSE end_of[q]]
        /\ pinned' = pinned \ T
        /\ UNCHANGED <<ports, held, started_ports, closed_ports>>
    BY DEF Porting!PostMessage, Porting!Transferable, Porting!Usable, Porting!IsNeutered,
           Porting!Disentangle
  <1>2. PICK id \in PortMessages :
            IF to \in open_ends
            THEN /\ pipe' = [pipe EXCEPT ![to] = Append(@, [id |-> id, ends |-> ends])]
                 /\ posted_to' = [posted_to EXCEPT ![to] = Append(@, [id |-> id, ends |-> ends])]
                 /\ UNCHANGED <<open_ends, accepted_at>>
            ELSE Porting!CloseEnds(ends)
    BY DEF Porting!PostMessage, Porting!NextMessage
  <1>3. /\ end_of' \in [Ports -> PipeEnds \cup {0, -1}]
        /\ \A q \in Ports : end_of'[q] = IF q \in T THEN 0 ELSE end_of[q]
        /\ ends \subseteq PipeEnds
    BY <1>0, <1>1 DEF PortTypes
  <1>4. /\ PortPlaces' /\ PortOrder'
        /\ pipe' \in [PipeEnds -> Seq(PortMessage)] /\ open_ends' \subseteq PipeEnds
        /\ posted_to' \in [PipeEnds -> Seq(PortMessage)]
        /\ UNCHANGED accepted_at
    <2>1. CASE to \in open_ends
      <3> DEFINE m == [id |-> id, ends |-> ends]
      <3>1. m \in PortMessage /\ m.ends = ends
        BY <1>3 DEF PortMessage
      <3>2. /\ pipe' = [pipe EXCEPT ![to] = Append(@, m)]
            /\ posted_to' = [posted_to EXCEPT ![to] = Append(@, m)]
            /\ UNCHANGED <<open_ends, accepted_at>>
        BY <1>2, <2>1
      <3>3. ends = { end_of[q] : q \in T } \ {-1}
        OBVIOUS
      <3> HIDE DEF m, to, ends
      <3>4. /\ PortPlaces' /\ PortOrder'
            /\ pipe' \in [PipeEnds -> Seq(PortMessage)]
            /\ posted_to' \in [PipeEnds -> Seq(PortMessage)]
        BY <1>0, <1>1, <2>1, <3>1, <3>2, <3>3, PostKeeps
      <3> QED BY <1>0, <3>2, <3>4 DEF PortTypes
    <2>2. CASE to \notin open_ends
      <3>1. Porting!CloseEnds(ends)
        BY <1>2, <2>2
      <3>2. \A q \in Ports : end_of[q] \in ends => q \in T
        <4> SUFFICES ASSUME NEW q \in Ports, NEW r \in T, end_of[q] = end_of[r], end_of[q] \in ends
                     PROVE  q \in T
          OBVIOUS
        <4>1. q = r
          BY <1>0, <1>3 DEF PortPlaces, OnePlace
        <4> QED BY <4>1
      <3>3. \A q \in Ports : end_of[q] \in PipeEnds \ ends => q \notin T
        BY PortNumbers
      <3>4. \A e \in ends : \E q \in Ports : end_of[q] = e
        OBVIOUS
      <3> HIDE DEF ends
      <3>5. /\ PortPlaces' /\ PortOrder'
            /\ pipe' \in [PipeEnds -> Seq(PortMessage)] /\ open_ends' \subseteq PipeEnds
            /\ UNCHANGED <<posted_to, accepted_at>>
        BY <1>0, <1>3, <3>1, <3>2, <3>3, <3>4, CloseEndsKeeps
      <3> QED BY <1>0, <3>5 DEF PortTypes
    <2> QED BY <2>1, <2>2
  <1>5. PortTypes'
    BY <1>0, <1>1, <1>3, <1>4 DEF PortTypes
  <1>6. PortPins'
    <2>1. \A q \in Ports : ports'[q] = "none" =>
             q \notin started_ports' /\ q \notin closed_ports' /\ end_of'[q] = 0
      BY <1>0, <1>1, <1>3 DEF PortPins
    <2>2. pinned' = { q \in Ports :
                        q \in started_ports' /\ q \notin closed_ports' /\ end_of'[q] # 0 }
      BY <1>0, <1>1, <1>3 DEF PortPins
    <2> QED BY <2>1, <2>2 DEF PortPins
  <1> QED BY <1>4, <1>5, <1>6 DEF PortInvariant
-----------------------------------------------------------------------------
(* Accepting. *)

LEMMA MessageTaken ==
  ASSUME NEW s \in Seq(PortMessage), s # << >>
  PROVE  /\ Head(s) \in PortMessage /\ Head(s) = s[1] /\ Len(s) >= 1
         /\ Tail(s) \in Seq(PortMessage) /\ Len(Tail(s)) = Len(s) - 1
         /\ \A i \in 1..Len(Tail(s)) : Tail(s)[i] = s[i + 1]
         /\ \A r \in Seq(PortMessage) : r \o s = Append(r, Head(s)) \o Tail(s)
  <1>1. /\ Head(s) \in PortMessage /\ Head(s) = s[1] /\ Len(s) >= 1
        /\ Tail(s) \in Seq(PortMessage) /\ Len(Tail(s)) = Len(s) - 1
        /\ \A i \in 1..Len(Tail(s)) : Tail(s)[i] = s[i + 1]
    OBVIOUS
  <1>2. ASSUME NEW r \in Seq(PortMessage) PROVE r \o s = Append(r, Head(s)) \o Tail(s)
    OBVIOUS
  <1> QED BY <1>1, <1>2

\* Each end of a message goes to a port of its own, which had none.
LEMMA NewPortsAreOwn ==
  ASSUME PortTypes, NEW ends \in SUBSET PipeEnds, NEW new \in Porting!NewPorts(ends), NEW own,
         own = [q \in Ports |-> IF \E e \in ends : new[e] = q
                                THEN CHOOSE e \in ends : new[e] = q ELSE end_of[q]]
  PROVE  /\ \A e \in ends : new[e] \in Ports /\ ports[new[e]] = "none" /\ own[new[e]] = e
         /\ \A q \in Ports : own[q] = end_of[q] \/ (own[q] \in ends /\ new[own[q]] = q)
         /\ \A q \in Ports : (\A e \in ends : new[e] # q) => own[q] = end_of[q]
  <1>1. /\ new \in [ends -> Porting!FreePorts]
        /\ \A e, f \in ends : e < f => new[e] < new[f]
    BY DEF Porting!NewPorts
  <1>2. \A e \in ends : new[e] \in Ports /\ ports[new[e]] = "none"
    BY <1>1 DEF Porting!FreePorts
  <1>3. ASSUME NEW e \in ends, NEW f \in ends, new[e] = new[f] PROVE e = f
    <2>1. e \in Nat /\ f \in Nat /\ new[e] \in Nat
      BY <1>2, PortNumbers
    <2>2. e < f \/ f < e \/ e = f
      BY <2>1
    <2>3. ~(new[e] < new[f]) /\ ~(new[f] < new[e])
      BY <1>3, <2>1
    <2> QED BY <1>1, <2>2, <2>3
  <1>4. ASSUME NEW q \in Ports, NEW e \in ends, new[e] = q
        PROVE  own[q] \in ends /\ new[own[q]] = q
    BY <1>4
  <1>5. \A q \in Ports : (\A e \in ends : new[e] # q) => own[q] = end_of[q]
    OBVIOUS
  <1>6. ASSUME NEW e \in ends PROVE own[new[e]] = e
    BY <1>2, <1>3, <1>4, <1>6
  <1> QED BY <1>2, <1>4, <1>5, <1>6

LEMMA AcceptKeeps ==
  ASSUME PortInvariant, NEW p \in Ports, Porting!Accept(p)
  PROVE  PortInvariant'
  <1>0. PortTypes /\ PortPlaces /\ PortOrder /\ PortPins
    BY DEF PortInvariant
  <1> DEFINE at == end_of[p]
             m == Head(pipe[at])
             ends == m.ends
  <1>1. /\ at \in PipeEnds /\ pipe[at] # << >>
        /\ pipe' = [pipe EXCEPT ![at] = Tail(@)]
        /\ accepted_at' = [accepted_at EXCEPT ![at] = Append(@, m)]
        /\ UNCHANGED <<started_ports, closed_ports, pinned, open_ends, posted_to>>
    BY DEF Porting!Accept
  <1>2. PICK new \in Porting!NewPorts(ends) :
            /\ end_of' = [q \in Ports |-> IF \E e \in ends : new[e] = q
                                          THEN CHOOSE e \in ends : new[e] = q ELSE end_of[q]]
            /\ ports' = [q \in Ports |-> IF \E e \in ends : new[e] = q THEN "yes" ELSE ports[q]]
            /\ held' = held \cup { q \in Ports : \E e \in ends : new[e] = q }
    BY DEF Porting!Accept
  <1>3. pipe[at] \in Seq(PortMessage) /\ Len(pipe[at]) \in Nat
    BY <1>0, <1>1 DEF PortTypes
  <1>4. /\ m \in PortMessage /\ m = pipe[at][1] /\ Len(pipe[at]) >= 1
        /\ Tail(pipe[at]) \in Seq(PortMessage) /\ Len(Tail(pipe[at])) = Len(pipe[at]) - 1
        /\ \A i \in 1..Len(Tail(pipe[at])) : Tail(pipe[at])[i] = pipe[at][i + 1]
        /\ \A r \in Seq(PortMessage) : r \o pipe[at] = Append(r, m) \o Tail(pipe[at])
    BY <1>1, <1>3, MessageTaken
  <1>5. ends \in SUBSET PipeEnds
    BY <1>4 DEF PortMessage
  <1>6. /\ \A e \in ends : new[e] \in Ports /\ ports[new[e]] = "none" /\ end_of'[new[e]] = e
        /\ \A q \in Ports : end_of'[q] = end_of[q] \/ (end_of'[q] \in ends /\ new[end_of'[q]] = q)
        /\ \A q \in Ports : (\A e \in ends : new[e] # q) => end_of'[q] = end_of[q]
    BY <1>0, <1>2, <1>5, NewPortsAreOwn
  <1>7. pipe'[at] = Tail(pipe[at]) /\ \A f \in PipeEnds : f # at => pipe'[f] = pipe[f]
    BY <1>0, <1>1 DEF PortTypes
  <1>8. \A e : Carries(pipe, at, 1, e) <=> e \in ends
    BY <1>3, <1>4 DEF Carries
  <1> HIDE DEF m, ends, at
  <1>9. ASSUME NEW f \in PipeEnds, NEW i \in Nat, NEW e
        PROVE  Carries(pipe', f, i, e) <=>
                  IF f = at THEN i >= 1 /\ Carries(pipe, at, i + 1, e) ELSE Carries(pipe, f, i, e)
    <2>1. CASE f # at
      BY <1>7, <2>1 DEF Carries
    <2>2. CASE f = at
      <3>1. i \in 1..Len(Tail(pipe[at])) <=> i >= 1 /\ i + 1 \in 1..Len(pipe[at])
        BY <1>3, <1>4
      <3> QED BY <1>4, <1>7, <2>2, <3>1 DEF Carries
    <2> QED BY <2>1, <2>2
  <1>10. /\ \A q, r \in Ports : end_of[q] = end_of[r] /\ end_of[q] \in PipeEnds => q = r
         /\ \A q \in Ports, f \in PipeEnds, i \in Nat : ~Carries(pipe, f, i, end_of[q])
         /\ \A e, f, g \in PipeEnds, i, j \in Nat :
               Carries(pipe, f, i, e) /\ Carries(pipe, g, j, e) => f = g /\ i = j
    BY <1>0 DEF PortPlaces, OnePlace
  <1>11. \A q \in Ports : end_of[q] \notin ends
    BY <1>1, <1>8, <1>10
  <1>12. \A e \in ends, f \in PipeEnds, i \in Nat : ~Carries(pipe', f, i, e)
    <2> SUFFICES ASSUME NEW e \in ends, NEW f \in PipeEnds, NEW i \in Nat, Carries(pipe', f, i, e)
                 PROVE  FALSE
      OBVIOUS
    <2>1. Carries(pipe, at, 1, e) /\ 1 \in Nat /\ e \in PipeEnds
      BY <1>5, <1>8
    <2>2. CASE f = at
      <3>1. i >= 1 /\ i + 1 \in Nat /\ Carries(pipe, at, i + 1, e)
        BY <1>9, <2>2
      <3>2. i + 1 = 1
        BY <1>1, <1>10, <2>1, <3>1
      <3> QED BY <3>1, <3>2
    <2>3. CASE f # at
      BY <1>1, <1>9, <1>10, <2>1, <2>3
    <2> QED BY <2>2, <2>3
  <1>13. ASSUME NEW e, e \notin ends, NEW f \in PipeEnds, NEW i \in Nat
         PROVE  Carries(pipe, f, i, e) <=>
                   IF f = at THEN i >= 2 /\ Carries(pipe', at, i - 1, e) ELSE Carries(pipe', f, i, e)
    <2>1. CASE f # at
      BY <1>9, <2>1
    <2>2. CASE f = at /\ i >= 2
      <3>1. i - 1 \in Nat /\ i - 1 >= 1 /\ (i - 1) + 1 = i
        BY <2>2
      <3> QED BY <1>9, <2>2, <3>1
    <2>3. CASE f = at /\ i = 1
      BY <1>8, <1>13, <2>3
    <2>4. CASE f = at /\ i = 0
      BY <1>3, <2>4 DEF Carries
    <2> QED BY <2>1, <2>2, <2>3, <2>4
  <1>14. OnePlace(end_of', pipe')
    <2>1. ASSUME NEW q \in Ports, NEW r \in Ports, end_of'[q] = end_of'[r], end_of'[q] \in PipeEnds
          PROVE  q = r
      <3>1. CASE end_of'[q] \in ends
        BY <1>6, <1>11, <2>1, <3>1
      <3>2. CASE end_of'[q] \notin ends
        BY <1>6, <1>10, <2>1, <3>2
      <3> QED BY <3>1, <3>2
    <2>2. ASSUME NEW q \in Ports, NEW f \in PipeEnds, NEW i \in Nat PROVE ~Carries(pipe', f, i, end_of'[q])
      <3>1. CASE end_of'[q] \in ends
        BY <1>12, <3>1
      <3>2. CASE end_of'[q] \notin ends
        <4>1. end_of'[q] = end_of[q]
          BY <1>6, <3>2
        <4>2. i + 1 \in Nat
          OBVIOUS
        <4>3. ~Carries(pipe, at, i + 1, end_of[q]) /\ ~Carries(pipe, f, i, end_of[q])
          BY <1>1, <1>10, <4>2
        <4> QED BY <1>9, <4>1, <4>3
      <3> QED BY <3>1, <3>2
    <2>3. ASSUME NEW e \in PipeEnds, NEW f \in PipeEnds, NEW g \in PipeEnds, NEW i \in Nat, NEW j \in Nat,
                 Carries(pipe', f, i, e), Carries(pipe', g, j, e)
          PROVE  f = g /\ i = j
      <3>1. /\ IF f = at THEN Carries(pipe, at, i + 1, e) ELSE Carries(pipe, f, i, e)
            /\ IF g = at THEN Carries(pipe, at, j + 1, e) ELSE Carries(pipe, g, j, e)
            /\ i + 1 \in Nat /\ j + 1 \in Nat
        BY <1>9, <2>3
      <3>2. f = g
        BY <1>1, <1>10, <3>1
      <3>3. IF f = at THEN i + 1 = j + 1 ELSE i = j
        BY <1>1, <1>10, <3>1, <3>2
      <3> QED BY <3>2, <3>3
    <2> QED BY <2>1, <2>2, <2>3 DEF OnePlace
  <1>15. ASSUME NEW e \in PipeEnds PROVE e \in open_ends' <=> HasPlace(end_of', pipe', e)
    <2>1. e \in open_ends' <=> HasPlace(end_of, pipe, e)
      BY <1>0, <1>1 DEF PortPlaces
    <2>2. CASE e \in ends
      <3>1. HasPlace(end_of, pipe, e)
        BY <1>1, <1>8, <2>2 DEF HasPlace
      <3>2. HasPlace(end_of', pipe', e)
        BY <1>6, <2>2 DEF HasPlace
      <3> QED BY <2>1, <3>1, <3>2
    <2>3. CASE e \notin ends
      <3>1. ASSUME NEW q \in Ports PROVE end_of'[q] = e <=> end_of[q] = e
        <4>1. CASE \A x \in ends : new[x] # q
          BY <1>6, <4>1
        <4>2. CASE \E x \in ends : new[x] = q
          <5>1. PICK x \in ends : new[x] = q
            BY <4>2
          <5>2. end_of'[q] = x /\ ports[q] = "none"
            BY <1>6, <5>1
          <5>3. end_of[q] = 0
            BY <1>0, <5>2 DEF PortPins
          <5> QED BY <2>3, <5>2, <5>3, PortNumbers
        <4> QED BY <4>1, <4>2
      <3>2. (\E f \in PipeEnds, i \in Nat : Carries(pipe', f, i, e))
              => \E f \in PipeEnds, i \in Nat : Carries(pipe, f, i, e)
        <4> SUFFICES ASSUME NEW f \in PipeEnds, NEW i \in Nat, Carries(pipe', f, i, e)
                     PROVE  \E g \in PipeEnds, j \in Nat : Carries(pipe, g, j, e)
          OBVIOUS
        <4>1. i + 1 \in Nat
          OBVIOUS
        <4> QED BY <1>1, <1>9, <4>1
      <3>3. (\E f \in PipeEnds, i \in Nat : Carries(pipe, f, i, e))
              => \E f \in PipeEnds, i \in Nat : Carries(pipe', f, i, e)
        <4> SUFFICES ASSUME NEW f \in PipeEnds, NEW i \in Nat, Carries(pipe, f, i, e)
                     PROVE  \E g \in PipeEnds, j \in Nat : Carries(pipe', g, j, e)
          OBVIOUS
        <4>1. IF f = at THEN i >= 2 /\ Carries(pipe', at, i - 1, e) ELSE Carries(pipe', f, i, e)
          BY <1>13, <2>3
        <4>2. i >= 2 => i - 1 \in Nat
          OBVIOUS
        <4> QED BY <1>1, <4>1, <4>2
      <3> QED BY <2>1, <3>1, <3>2, <3>3 DEF HasPlace
    <2> QED BY <2>2, <2>3
  <1>16. PortPlaces'
    BY <1>14, <1>15 DEF PortPlaces
  <1>17. accepted_at[at] \in Seq(PortMessage) /\ Append(accepted_at[at], m) \in Seq(PortMessage)
    BY <1>0, <1>1, <1>4, MessageAppended DEF PortTypes
  <1>18. PortOrder'
    <2> SUFFICES ASSUME NEW e \in PipeEnds
                 PROVE  \E rest \in Seq(PortMessage) :
                           posted_to'[e] = accepted_at'[e] \o rest /\ (e \in open_ends' => rest = pipe'[e])
      BY DEF PortOrder
    <2>1. PICK rest \in Seq(PortMessage) :
              posted_to[e] = accepted_at[e] \o rest /\ (e \in open_ends => rest = pipe[e])
      BY <1>0 DEF PortOrder
    <2>2. CASE e # at
      <3>1. accepted_at'[e] = accepted_at[e] /\ pipe'[e] = pipe[e]
        BY <1>0, <1>1, <2>2 DEF PortTypes
      <3> QED BY <1>1, <2>1, <3>1
    <2>3. CASE e = at
      <3>1. at \in open_ends
        BY <1>0, <1>1 DEF PortPlaces, HasPlace, at
      <3>2. accepted_at'[e] = Append(accepted_at[at], m)
        BY <1>0, <1>1, <2>3 DEF PortTypes
      <3>3. posted_to'[e] = Append(accepted_at[at], m) \o Tail(pipe[at])
        BY <1>1, <1>4, <1>17, <2>1, <2>3, <3>1
      <3> QED BY <1>4, <1>7, <2>3, <3>2, <3>3
    <2> QED BY <2>2, <2>3
  <1>19. PortTypes'
    <2>1. ports' \in [Ports -> {"none", "yes", "gone"}] /\ held' \subseteq Ports
      BY <1>0, <1>2 DEF PortTypes
    <2>2. end_of' \in [Ports -> PipeEnds \cup {0, -1}]
      <3>1. \A q \in Ports : end_of'[q] \in PipeEnds \cup {0, -1}
        BY <1>0, <1>5, <1>6 DEF PortTypes
      <3> QED BY <1>2, <3>1
    <2>3. pipe' \in [PipeEnds -> Seq(PortMessage)]
      BY <1>0, <1>1, <1>4 DEF PortTypes
    <2>4. accepted_at' \in [PipeEnds -> Seq(PortMessage)]
      BY <1>0, <1>1, <1>17 DEF PortTypes
    <2> QED BY <1>0, <1>1, <2>1, <2>2, <2>3, <2>4 DEF PortTypes
  <1>20. PortPins'
    <2>1. ASSUME NEW q \in Ports, ports'[q] = "none"
          PROVE  q \notin started_ports' /\ q \notin closed_ports' /\ end_of'[q] = 0
      <3>1. ports[q] = "none" /\ \A e \in ends : new[e] # q
        BY <1>2, <2>1
      <3> QED BY <1>0, <1>1, <1>6, <3>1 DEF PortPins
    <2>2. ASSUME NEW q \in Ports, q \in started_ports PROVE end_of'[q] = end_of[q]
      BY <1>0, <1>6, <2>2 DEF PortPins
    <2>3. pinned' = { q \in Ports :
                        q \in started_ports' /\ q \notin closed_ports' /\ end_of'[q] # 0 }
      BY <1>0, <1>1, <2>2 DEF PortPins
    <2> QED BY <2>1, <2>3 DEF PortPins
  <1> QED BY <1>16, <1>18, <1>19, <1>20 DEF PortInvariant
-----------------------------------------------------------------------------
LEMMA PortStep == PortInvariant /\ Porting!Next => PortInvariant'
  <1> SUFFICES ASSUME PortInvariant, Porting!Next PROVE PortInvariant'
    OBVIOUS
  <1>1. ASSUME NEW p \in Ports, NEW T \in SUBSET Ports, Porting!PostMessage(p, T)
        PROVE  PortInvariant'
    BY <1>1, PostMessageKeeps
  <1>2. ASSUME NEW p \in Ports, Porting!Start(p) \/ Porting!Release(p) PROVE PortInvariant'
    BY <1>2, StartKeeps
  <1>3. ASSUME NEW p \in Ports, Porting!Close(p) PROVE PortInvariant'
    BY <1>3, ClosePortKeeps DEF Porting!Close, Porting!Call, Porting!Usable
  <1>4. ASSUME NEW p \in Ports, Porting!Collect(p) PROVE PortInvariant'
    BY <1>4, CollectKeeps
  <1>5. ASSUME NEW p \in Ports, Porting!Accept(p) PROVE PortInvariant'
    BY <1>5, AcceptKeeps
  <1>6. ASSUME NEW p \in Ports, Porting!OnConnectionError(p) PROVE PortInvariant'
    BY <1>6, ClosePortKeeps DEF Porting!OnConnectionError
  <1> QED
    BY <1>1, <1>2, <1>3, <1>4, <1>5, <1>6 DEF Porting!Next, Porting!Receive

LEMMA PortStutter == PortInvariant /\ UNCHANGED Porting!portVars => PortInvariant'
  BY DEF PortInvariant, PortTypes, PortPlaces, PortOrder, PortPins, Porting!portVars

LEMMA PrefixOfConcat ==
  ASSUME NEW s \in Seq(PortMessage), NEW r \in Seq(PortMessage)
  PROVE  Porting!IsPrefix(s, s \o r)
  <1>1. /\ s \o r \in Seq(PortMessage) /\ Len(s \o r) = Len(s) + Len(r)
        /\ \A i \in 1..Len(s) : (s \o r)[i] = s[i]
    OBVIOUS
  <1>2. Len(s) <= Len(s \o r)
    BY <1>1
  <1>3. SubSeq(s, 1, Len(s)) = SubSeq(s \o r, 1, Len(s))
    BY <1>1, <1>2
  <1> QED BY <1>2, <1>3 DEF Porting!IsPrefix

LEMMA PortSafe == PortInvariant => Porting!MessagesArriveInOrder
  <1> SUFFICES ASSUME PortInvariant PROVE Porting!MessagesArriveInOrder
    OBVIOUS
  <1>0. PortTypes /\ PortPlaces /\ PortOrder /\ PortPins
    BY DEF PortInvariant
  <1>1. ASSUME NEW e \in PipeEnds
        PROVE  LET places == Porting!Owners(e) \cup Porting!Carriers(e)
               IN  (e \in open_ends <=> places # {}) /\ \A x, y \in places : x = y
    <2> DEFINE places == Porting!Owners(e) \cup Porting!Carriers(e)
    <2>1. \A x : x \in Porting!Owners(e) <=> \E p \in Ports : end_of[p] = e /\ x = <<"port", p>>
      BY DEF Porting!Owners
    <2>2. \A f \in PipeEnds : e \in Porting!Inside(f) <=> \E i \in Nat : Carries(pipe, f, i, e)
      BY <1>0, InsideIsCarried
    <2>3. \A x : x \in Porting!Carriers(e) <=>
             \E f \in PipeEnds : (\E i \in Nat : Carries(pipe, f, i, e)) /\ x = <<"pipe", f>>
      BY <2>2 DEF Porting!Carriers
    <2>4. places # {} <=> HasPlace(end_of, pipe, e)
      BY <2>1, <2>3 DEF HasPlace
    <2>5. e \in open_ends <=> places # {}
      BY <1>0, <2>4 DEF PortPlaces
    <2>6. ASSUME NEW x \in places, NEW y \in places PROVE x = y
      BY <1>0, <2>1, <2>3 DEF PortPlaces, OnePlace
    <2> QED BY <2>5, <2>6
  <1>2. ASSUME NEW e \in PipeEnds
        PROVE  IF e \in open_ends THEN accepted_at[e] \o pipe[e] = posted_to[e]
               ELSE Porting!IsPrefix(accepted_at[e], posted_to[e])
    <2>1. PICK rest \in Seq(PortMessage) :
              posted_to[e] = accepted_at[e] \o rest /\ (e \in open_ends => rest = pipe[e])
      BY <1>0 DEF PortOrder
    <2>2. Porting!IsPrefix(accepted_at[e], accepted_at[e] \o rest)
      BY <1>0, PrefixOfConcat DEF PortTypes
    <2> QED BY <2>1, <2>2
  <1>3. pinned = { p \in Ports : Porting!HasPendingActivity(p) }
    BY <1>0
    DEF PortPins, Porting!HasPendingActivity, Porting!IsEntangled, Porting!IsNeutered, Porting!NoEnd
  <1> QED BY <1>1, <1>2, <1>3 DEF Porting!MessagesArriveInOrder
-----------------------------------------------------------------------------
(* The parts together: each takes its steps or stands still.               *)

\* The object of a frame follows it from host to host, and the object of a
\* download is there as long as the download can go on (api::WebFrameMain,
\* api::DownloadItem).
THEOREM ObjectsCorrect == ServicesSpec => []ObjectsFollowTheirs
  <1>1. ServicesInit => FrameInvariant /\ DownloadInvariant
    BY FrameInit, DownloadInit DEF ServicesInit
  <1>2. FrameInvariant /\ [ServicesNext]_serviceVars => FrameInvariant'
    BY FrameStep, FrameStutter DEF ServicesNext, serviceVars, Framing!NoStep
  <1>3. DownloadInvariant /\ [ServicesNext]_serviceVars => DownloadInvariant'
    BY DownloadStep, DownloadStutter DEF ServicesNext, serviceVars, Downloading!NoStep
  <1>4. FrameInvariant /\ DownloadInvariant => ObjectsFollowTheirs
    BY FrameSafe, DownloadSafe DEF ObjectsFollowTheirs
  <1> QED BY <1>1, <1>2, <1>3, <1>4, PTL DEF ServicesSpec

\* No window but those made too late is left at shutdown, and a quit that was
\* cancelled does not shut down by itself (Browser, WindowList).
THEOREM QuitsCorrect == ServicesSpec => QuitsAreOrderly
  <1>1. ServicesInit => BrowserInvariant
    BY BrowserInit DEF ServicesInit
  <1>2. BrowserInvariant /\ [ServicesNext]_serviceVars => BrowserInvariant'
    BY BrowserStep, BrowserStutter DEF ServicesNext, serviceVars, Quitting!NoStep
  <1>3. BrowserInvariant => Quitting!WindowsAreGoneAtShutdown
    BY BrowserSafe
  <1>4. BrowserInvariant /\ [ServicesNext]_serviceVars =>
          [is_shutdown' /\ ~is_shutdown => ~cancelled \/ is_exiting' \/ too_new # {}]_
              (Quitting!browserVars)
    BY ShutdownIsMeant DEF ServicesNext, serviceVars, Quitting!NoStep
  <1> QED
    BY <1>1, <1>2, <1>3, <1>4, PTL
    DEF ServicesSpec, QuitsAreOrderly, Quitting!CancelledQuitsStayCancelled

\* However ports are posted, started, closed and collected, an end of a pipe has
\* one place while it is open, messages are emitted in the order they were
\* posted, and a port is pinned exactly while messages can reach it
\* (MessagePort::PostMessage, Accept, Close).
THEOREM MessagesCorrect == ServicesSpec => []MessagesArriveInOrder
  <1>1. ServicesInit => PortInvariant
    BY PortInit DEF ServicesInit
  <1>2. PortInvariant /\ [ServicesNext]_serviceVars => PortInvariant'
    BY PortStep, PortStutter DEF ServicesNext, serviceVars, Porting!NoStep
  <1>3. PortInvariant => MessagesArriveInOrder
    BY PortSafe DEF MessagesArriveInOrder
  <1> QED BY <1>1, <1>2, <1>3, PTL DEF ServicesSpec

-----------------------------------------------------------------------------
(* The bytes of an archive.  While the task writes, the validator hashes   *)
(* one block at a time: its hash holds the bytes of the current block from *)
(* its start to the reading position, every block from the one of the      *)
(* first byte to the current one has been verified, and the bytes that     *)
(* were sent are those between the first byte and the reading position.    *)

LEMMA BlockSizes ==
  BlockSize \in Nat \ {0} /\ MaxSniff \in Nat \ {0} /\ MaxSniff < BlockSize /\ MaxSize \in Nat
  BY ServicesAssumption

LEMMA BlockOrder ==
  ASSUME NEW a \in Int, NEW b \in Int, NEW w \in Nat \ {0}
  PROVE  /\ a * w < b * w => a < b
         /\ a <= b => a * w <= b * w
         /\ (a + 1) * w = a * w + w /\ (a - 1) * w = a * w - w /\ a * w \in Int
         /\ (a + b) * w = a * w + b * w /\ (a + b - 1) * w = a * w + (b - 1) * w
  <1>1. b = a + (b - a) /\ (b - a) * w = b * w - a * w
    OBVIOUS
  <1> QED BY <1>1

LEMMA BlockOf ==
  ASSUME NEW n \in Int, NEW w \in Nat \ {0}
  PROVE  /\ n \div w \in Int /\ (n \div w) * w \in Int
         /\ (n \div w) * w <= n /\ n < (n \div w) * w + w
  OBVIOUS

LEMMA BlockUnique ==
  ASSUME NEW n \in Int, NEW w \in Nat \ {0}, NEW q \in Int, q * w <= n, n < q * w + w
  PROVE  n \div w = q
  <1> DEFINE r == n \div w
  <1>1. r \in Int /\ r * w \in Int /\ r * w <= n /\ n < r * w + w
    BY BlockOf
  <1> HIDE DEF r
  <1>2. q * w < (r + 1) * w /\ r * w < (q + 1) * w
    BY <1>1, BlockOrder
  <1>3. q < r + 1 /\ r < q + 1
    BY <1>1, <1>2, BlockOrder
  <1>4. r = q
    BY <1>1, <1>3
  <1> QED BY <1>4 DEF r

LEMMA PositionsFacts ==
  ASSUME NEW a \in Int, NEW c \in Int, a <= c
  PROVE  /\ Archive!Positions(a, c) \in Seq(Int) /\ Len(Archive!Positions(a, c)) = c - a
         /\ \A i \in 1..(c - a) : Archive!Positions(a, c)[i] = a + i - 1
         /\ Archive!Positions(a, c) = [i \in 1..(c - a) |-> a + i - 1]
         /\ (Archive!Positions(a, c) = <<>> <=> a = c)
  <1> DEFINE n == c - a
             s == Archive!Positions(a, c)
  <1>1. n \in Nat
    OBVIOUS
  <1>2. s = [i \in 1..n |-> a + i - 1]
    <2>1. (IF c > a THEN c - a ELSE 0) = n
      OBVIOUS
    <2> QED BY <2>1 DEF Archive!Positions
  <1> HIDE DEF n, s
  <1>3. s \in Seq(Int) /\ Len(s) = n
    BY <1>1, <1>2
  <1>4. s = <<>> <=> n = 0
    BY <1>1, <1>2, <1>3
  <1> QED BY <1>2, <1>3, <1>4 DEF n, s

LEMMA PositionsJoin ==
  ASSUME NEW a \in Int, NEW b \in Int, NEW c \in Int, a <= b, b <= c
  PROVE  Archive!Positions(a, b) \o Archive!Positions(b, c) = Archive!Positions(a, c)
  <1> DEFINE s == Archive!Positions(a, b)
             t == Archive!Positions(b, c)
             u == Archive!Positions(a, c)
             n == b - a
             m == c - b
  <1>1. s \in Seq(Int) /\ Len(s) = n /\ \A i \in 1..n : s[i] = a + i - 1
    BY PositionsFacts
  <1>2. t \in Seq(Int) /\ Len(t) = m /\ \A i \in 1..m : t[i] = b + i - 1
    BY PositionsFacts
  <1>3. u = [i \in 1..(n + m) |-> a + i - 1]
    <2>1. a <= c /\ c - a = n + m
      OBVIOUS
    <2> QED BY <2>1, PositionsFacts
  <1>4. n \in Nat /\ m \in Nat /\ b = a + n
    OBVIOUS
  <1> HIDE DEF s, t, u, n, m
  <1>5. s \o t = [i \in 1..(n + m) |-> IF i <= n THEN s[i] ELSE t[i - n]]
    <2> DEFINE w == s \o t
    <2>0. s \in Seq(Int) /\ t \in Seq(Int) /\ Len(s) = n /\ Len(t) = m
      BY <1>1, <1>2
    <2>1. w \in Seq(Int) /\ Len(w) = n + m
      BY <2>0
    <2>2. \A i \in 1..(n + m) : w[i] = IF i <= n THEN s[i] ELSE t[i - n]
      BY <1>1, <1>2, <1>4
    <2> HIDE DEF w
    <2>3. w = [i \in 1..(n + m) |-> w[i]]
      BY <2>1
    <2>4. w = [i \in 1..(n + m) |-> IF i <= n THEN s[i] ELSE t[i - n]]
      BY <2>2, <2>3
    <2> QED BY <2>4 DEF w
  <1>6. ASSUME NEW i \in 1..(n + m) PROVE (IF i <= n THEN s[i] ELSE t[i - n]) = a + i - 1
    <2>1. CASE i <= n
      BY <1>1, <1>4, <2>1
    <2>2. CASE i > n
      <3>1. i - n \in 1..m
        BY <1>4, <2>2
      <3>2. t[i - n] = b + (i - n) - 1
        BY <1>2, <3>1
      <3> QED BY <1>4, <2>2, <3>2
    <2> QED BY <1>4, <2>1, <2>2
  <1>7. s \o t = u
    BY <1>3, <1>5, <1>6
  <1> QED BY <1>7 DEF s, t, u

LEMMA PositionsCut ==
  ASSUME NEW a \in Int, NEW c \in Int, NEW k \in Nat, NEW l \in Nat, k <= l, l <= c - a
  PROVE  SubSeq(Archive!Positions(a, c), k + 1, l) = Archive!Positions(a + k, a + l)
  <1> DEFINE s == Archive!Positions(a, c)
             u == Archive!Positions(a + k, a + l)
             n == l - k
  <1>1. s \in Seq(Int) /\ Len(s) = c - a /\ \A i \in 1..(c - a) : s[i] = a + i - 1
    <2>1. a <= c
      OBVIOUS
    <2> QED BY <2>1, PositionsFacts
  <1>2. u = [i \in 1..n |-> a + k + i - 1]
    <2> DEFINE b == a + k
               d == a + l
    <2>1. b \in Int /\ d \in Int /\ b <= d /\ d - b = n
      OBVIOUS
    <2> HIDE DEF b, d
    <2>2. Archive!Positions(b, d) = [i \in 1..(d - b) |-> b + i - 1]
      BY <2>1, PositionsFacts
    <2>3. Archive!Positions(b, d) = [i \in 1..n |-> b + i - 1]
      BY <2>1, <2>2
    <2> QED BY <2>3 DEF b, d
  <1>3. n \in Nat
    OBVIOUS
  <1> HIDE DEF s, u
  <1>4. SubSeq(s, k + 1, l) = [i \in 1..n |-> s[k + i]]
    <2>1. SubSeq(s, k + 1, l) = [i \in 1..(l - (k + 1) + 1) |-> s[(k + 1) + i - 1]]
      BY <1>1
    <2>2. l - (k + 1) + 1 = n
      OBVIOUS
    <2>3. \A i \in 1..n : (k + 1) + i - 1 = k + i
      OBVIOUS
    <2> QED BY <2>1, <2>2, <2>3
  <1>5. ASSUME NEW i \in 1..n PROVE s[k + i] = a + k + i - 1
    <2>1. k + i \in 1..(c - a)
      OBVIOUS
    <2>2. s[k + i] = a + (k + i) - 1
      BY <1>1, <2>1
    <2> QED BY <2>2
  <1>6. SubSeq(s, k + 1, l) = u
    BY <1>2, <1>4, <1>5
  <1> QED BY <1>6 DEF s, u

\* A file of the archive has a hash for each of its blocks; a range is one.
AsarTypes ==
    /\ info.offset \in Nat /\ info.size \in Nat /\ info.blocks = info.size \div BlockSize + 1
    /\ \/ byte_range = Archive!NoRange
       \/ byte_range[1] \in Nat /\ byte_range[2] \in Nat /\ byte_range[1] <= byte_range[2]

\* The validator has hashed the bytes of its block up to a position.
HashesUpTo(v, pos) ==
    /\ DOMAIN v = {"block", "hash", "total", "verified", "fatal"}
    /\ v.fatal = FALSE /\ v.total \in Nat /\ v.block \in Nat
    /\ v.block * BlockSize <= pos /\ pos < v.block * BlockSize + BlockSize
    /\ v.hash = Archive!Positions(info.offset + v.block * BlockSize, info.offset + pos)
    /\ v.verified \subseteq 0..(info.blocks - 1)

\* The block of a position of the file has a hash.
LEMMA BlockHasHash ==
  ASSUME AsarTypes, NEW b \in Int, b * BlockSize <= info.size
  PROVE  b <= info.blocks - 1 /\ info.blocks - 1 \in Int
  <1> DEFINE n == info.size
             q == n \div BlockSize
  <1>0. n \in Int /\ BlockSize \in Nat \ {0}
    BY BlockSizes DEF AsarTypes
  <1>1. q \in Int /\ q * BlockSize \in Int /\ n < q * BlockSize + BlockSize
        /\ b * BlockSize \in Int
    <2> HIDE DEF n
    <2> QED BY <1>0, BlockOf, BlockOrder
  <1>2. info.blocks = q + 1
    BY DEF AsarTypes
  <1> HIDE DEF q
  <1>3. b * BlockSize < (q + 1) * BlockSize
    BY <1>0, <1>1, BlockOrder
  <1>4. b < q + 1
    BY <1>1, <1>3, BlockSizes, BlockOrder
  <1> QED BY <1>1, <1>2, <1>4

LEMMA OnReadResult ==
  ASSUME AsarTypes, NEW v, NEW pos \in Nat, NEW end \in Nat, pos <= end, end <= info.size,
         HashesUpTo(v, pos)
  PROVE  LET w == Archive!OnRead(v, info.offset + pos, info.offset + end)
         IN  /\ HashesUpTo(w, end) /\ w.total = v.total + (end - pos)
             /\ v.block <= w.block
             /\ w.verified = v.verified \cup { k \in Nat : v.block <= k /\ k < w.block }
  <1> DEFINE B == BlockSize
             off == info.offset
             b == v.block
             base == b * B
             from == off + base
             bytes == v.hash \o Archive!Positions(off + pos, off + end)
             len == end - base
             full == Len(bytes) \div B
             Full(i) == SubSeq(bytes, (i - 1) * B + 1, i * B)
             w == Archive!OnRead(v, off + pos, off + end)
             c == b + full
  <1>0. /\ B \in Nat \ {0} /\ off \in Nat /\ b \in Nat /\ base \in Nat /\ base <= pos
        /\ info.size \in Nat /\ from \in Nat
        /\ v.hash = Archive!Positions(from, off + pos)
    <2>1. B \in Nat \ {0} /\ off \in Nat /\ b \in Nat /\ base <= pos /\ info.size \in Nat
      BY BlockSizes DEF AsarTypes, HashesUpTo
    <2>2. base \in Nat
      BY <2>1
    <2> QED BY <2>1, <2>2 DEF HashesUpTo
  <1>00. v.total \in Nat /\ v.fatal = FALSE
         /\ DOMAIN v = {"block", "hash", "total", "verified", "fatal"}
         /\ v.verified \subseteq 0..(info.blocks - 1)
    BY DEF HashesUpTo
  <1> HIDE DEF B, off, b, base
  <1>1. bytes = Archive!Positions(from, off + end)
    <2> DEFINE p == off + pos
               e == off + end
    <2>1. from \in Int /\ p \in Int /\ e \in Int /\ from <= p /\ p <= e
      BY <1>0
    <2> HIDE DEF p, e
    <2>2. Archive!Positions(from, p) \o Archive!Positions(p, e) = Archive!Positions(from, e)
      BY <2>1, PositionsJoin
    <2> QED BY <1>0, <2>2 DEF p, e
  <1>2. len \in Nat /\ Len(bytes) = len
    <2> DEFINE e == off + end
    <2>1. e \in Int /\ from \in Int /\ from <= e /\ e - from = len /\ len \in Nat
      BY <1>0
    <2>2. bytes = Archive!Positions(from, e)
      BY <1>1
    <2> HIDE DEF e, from, bytes, len
    <2>3. Len(Archive!Positions(from, e)) = e - from
      BY <2>1, PositionsFacts
    <2> QED BY <2>1, <2>2, <2>3
  <1>3. full \in Nat /\ full * B <= len /\ len < full * B + B /\ full * B \in Int
    <2> DEFINE n == Len(bytes)
    <2>1. n = len
      BY <1>2
    <2> HIDE DEF n, len
    <2>2. n \div B \in Int /\ (n \div B) * B \in Int /\ (n \div B) * B <= n /\ n < (n \div B) * B + B
      BY <1>0, <1>2, <2>1, BlockOf
    <2>3. n \div B \in Nat
      BY <1>0, <1>2, <2>1
    <2> QED BY <2>1, <2>2, <2>3 DEF n
  <1> HIDE DEF full
  <1>4. c \in Nat /\ c * B = base + full * B /\ base + full * B <= end /\ end < c * B + B
        /\ c * B \in Int
    <2>1. c \in Nat /\ c * B = b * B + full * B
      BY <1>0, <1>3, BlockOrder
    <2>2. c * B = base + full * B
      BY <2>1 DEF base
    <2> QED BY <1>0, <1>3, <2>1, <2>2 DEF len
  <1>5. c <= info.blocks - 1 /\ info.blocks - 1 \in Int
    <2>1. c * B <= info.size /\ c \in Int
      BY <1>0, <1>4
    <2> HIDE DEF c
    <2> QED BY <2>1, BlockHasHash DEF B
  <1>6. ~(pos < end /\ b + (Len(bytes) - 1) \div B > info.blocks - 1)
    <2> DEFINE n == Len(bytes) - 1
               q == n \div B
    <2>1. n \in Int /\ n = len - 1
      <3> HIDE DEF len, bytes
      <3> QED BY <1>2
    <2> HIDE DEF n
    <2>2. q \in Int /\ q * B \in Int /\ q * B <= n
      BY <1>0, <2>1, BlockOf
    <2> HIDE DEF q
    <2>3. q * B < (full + 1) * B
      BY <1>0, <1>2, <1>3, <2>1, <2>2, BlockOrder
    <2>4. q < full + 1
      BY <1>0, <1>3, <2>2, <2>3, BlockOrder
    <2>5. b + q <= c
      BY <1>0, <1>3, <2>2, <2>4
    <2> QED BY <1>0, <1>3, <1>4, <1>5, <2>2, <2>5 DEF q, n
  <1>7. ASSUME NEW i \in 1..full PROVE Full(i) = Archive!BlockBytes(b + i - 1)
    <2> DEFINE k == (i - 1) * B
               l == i * B
    <2>1. k \in Nat /\ l \in Nat /\ l = k + B /\ l <= full * B
      <3>1. i \in Int /\ full \in Int /\ i <= full /\ i - 1 \in Nat
        BY <1>3
      <3>2. i * B <= full * B /\ (i - 1) * B = i * B - B
        BY <1>0, <3>1, BlockOrder
      <3>3. k \in Nat /\ l \in Nat
        BY <1>0, <3>1
      <3> QED BY <1>0, <3>2, <3>3
    <2>2. (b + i - 1) * B = base + k /\ (b + i - 1 + 1) * B = base + l
      <3>1. b \in Int /\ i \in Int
        BY <1>0
      <3>2. (b + i - 1) * B = b * B + (i - 1) * B /\ (b + i) * B = b * B + i * B
        BY <1>0, <3>1, BlockOrder
      <3>3. b + i - 1 + 1 = b + i
        BY <3>1
      <3> QED BY <3>2, <3>3 DEF base
    <2> HIDE DEF k, l
    <2>3. base + l <= info.size
      BY <1>0, <1>3, <1>4, <2>1
    <2>4. Archive!Least(base + l, info.size) = base + l
      BY <1>0, <2>1, <2>3 DEF Archive!Least
    <2>5. Archive!BlockBytes(b + i - 1) = Archive!Positions(off + (base + k), off + (base + l))
      BY <2>2, <2>4 DEF Archive!BlockBytes, B, off
    <2>6. SubSeq(bytes, k + 1, l) = Archive!Positions(from + k, from + l)
      <3> DEFINE e == off + end
      <3>1. from \in Int /\ e \in Int /\ k <= l /\ l <= e - from
        BY <1>0, <1>2, <1>3, <2>1
      <3>2. bytes = Archive!Positions(from, e)
        BY <1>1
      <3> HIDE DEF e, bytes, from
      <3>3. SubSeq(Archive!Positions(from, e), k + 1, l) = Archive!Positions(from + k, from + l)
        BY <2>1, <3>1, PositionsCut
      <3> QED BY <3>2, <3>3
    <2>7. from + k = off + (base + k) /\ from + l = off + (base + l)
      BY <1>0, <2>1
    <2>8. Full(i) = SubSeq(bytes, k + 1, l)
      BY DEF k, l
    <2> QED BY <2>5, <2>6, <2>7, <2>8
  <1> DEFINE hash == SubSeq(bytes, full * B + 1, Len(bytes))
             seen == { b + i - 1 : i \in 1..full }
  <1>8. hash = Archive!Positions(off + c * B, off + end)
    <2> DEFINE e == off + end
               k == full * B
    <2>1. from \in Int /\ e \in Int /\ k \in Nat /\ len \in Nat /\ k <= len /\ len <= e - from
      BY <1>0, <1>2, <1>3
    <2>2. bytes = Archive!Positions(from, e) /\ hash = SubSeq(bytes, k + 1, len)
      BY <1>1, <1>2
    <2>3. from + k = off + c * B /\ from + len = e
      BY <1>0, <1>2, <1>3, <1>4
    <2> HIDE DEF e, k, hash, len, bytes, from
    <2>4. SubSeq(Archive!Positions(from, e), k + 1, len) = Archive!Positions(from + k, from + len)
      BY <2>1, PositionsCut
    <2> QED BY <2>2, <2>3, <2>4 DEF e
  <1>9. Len(Archive!Positions(off + pos, off + end)) = end - pos
    <2> DEFINE p == off + pos
               e == off + end
    <2>1. p \in Int /\ e \in Int /\ p <= e /\ e - p = end - pos
      BY <1>0
    <2> HIDE DEF p, e
    <2>2. Len(Archive!Positions(p, e)) = e - p
      BY <2>1, PositionsFacts
    <2> QED BY <2>1, <2>2 DEF p, e
  <1>10. w = [v EXCEPT !.hash = hash, !.block = b + full, !.total = v.total + (end - pos),
                       !.verified = v.verified \cup seen]
    <2>1. off + pos < off + end <=> pos < end
      BY <1>0
    <2>2. ~(\/ off + pos < off + end /\ b + (Len(bytes) - 1) \div B > info.blocks - 1
            \/ \E i \in 1..full : Full(i) # Archive!BlockBytes(b + i - 1))
      BY <1>6, <1>7, <2>1
    <2> HIDE DEF hash
    <2> QED BY <1>9, <2>2 DEF Archive!OnRead, full, B, b, hash
  <1>11. seen = { k \in Nat : b <= k /\ k < c }
    <2>1. ASSUME NEW k \in Nat, b <= k, k < c PROVE k \in seen
      <3>1. k - b + 1 \in 1..full /\ k = b + (k - b + 1) - 1
        BY <1>0, <1>3, <2>1
      <3> QED BY <3>1
    <2>2. ASSUME NEW i \in 1..full PROVE b + i - 1 \in Nat /\ b <= b + i - 1 /\ b + i - 1 < c
      BY <1>0, <1>3
    <2> QED BY <2>1, <2>2
  <1>12. v.verified \cup seen \subseteq 0..(info.blocks - 1)
    BY <1>0, <1>00, <1>4, <1>5, <1>11
  <1> HIDE DEF hash, seen, w
  <1>13. /\ w.hash = hash /\ w.block = c /\ w.total = v.total + (end - pos)
         /\ w.verified = v.verified \cup seen /\ w.fatal = FALSE
         /\ DOMAIN w = {"block", "hash", "total", "verified", "fatal"}
    BY <1>00, <1>10
  <1>14. w.total \in Nat
    BY <1>00, <1>13
  <1> HIDE DEF c
  <1>15. HashesUpTo(w, end)
    BY <1>0, <1>4, <1>8, <1>12, <1>13, <1>14 DEF HashesUpTo, B, off
  <1>16. b <= c
    BY <1>0, <1>3 DEF c
  <1> QED BY <1>11, <1>13, <1>15, <1>16 DEF w, b, off

\* A block that is compared as a whole has its hash.
Compared(v, w) ==
    /\ w.fatal = FALSE /\ w.hash = <<>> /\ w.block = v.block + 1
    /\ w.verified = v.verified \cup {v.block}

LEMMA CompareResult ==
  ASSUME NEW v, DOMAIN v = {"block", "hash", "total", "verified", "fatal"}, v.fatal = FALSE,
         v.hash = Archive!BlockBytes(v.block)
  PROVE  Compared(v, Archive!CompareHash(v))
  <1>1. Archive!CompareHash(v) =
            [v EXCEPT !.hash = <<>>, !.block = v.block + 1, !.verified = v.verified \cup {v.block}]
    BY DEF Archive!CompareHash
  <1> DEFINE w == Archive!CompareHash(v)
             seen == v.verified \cup {v.block}
  <1>2. w = [v EXCEPT !.hash = <<>>, !.block = v.block + 1, !.verified = seen]
    BY <1>1
  <1> HIDE DEF w, seen
  <1>3. w.fatal = FALSE /\ w.hash = <<>> /\ w.block = v.block + 1 /\ w.verified = seen
    BY <1>2
  <1> QED BY <1>3 DEF Compared, w, seen

LEMMA OnDoneResult ==
  ASSUME AsarTypes, NEW v, NEW pos \in Nat, pos <= info.size, HashesUpTo(v, pos), NEW range,
         range.start \in Int, range.extra \in Int, range.max = info.offset + info.size,
         range.start + v.total - range.extra = info.offset + pos
  PROVE  /\ Compared(v, Archive!OnDone(v, range))
         /\ v.block + 1 <= info.blocks
  <1> DEFINE B == BlockSize
             off == info.offset
             size == info.size
             b == v.block
             base == b * B
             missing == range.max - range.start - v.total + range.extra
             needed == Archive!Least(B - Len(v.hash), Archive!Unsigned(missing))
             offset == range.start + v.total - range.extra
  <1>0. /\ B \in Nat \ {0} /\ off \in Nat /\ b \in Nat /\ base \in Nat /\ base <= pos
        /\ pos < base + B /\ size \in Nat /\ v.hash = Archive!Positions(off + base, off + pos)
        /\ v.fatal = FALSE
    <2>1. B \in Nat \ {0} /\ off \in Nat /\ b \in Nat /\ base <= pos /\ size \in Nat
          /\ pos < base + B
      BY BlockSizes DEF AsarTypes, HashesUpTo
    <2>2. base \in Nat
      BY <2>1
    <2> QED BY <2>1, <2>2 DEF HashesUpTo
  <1>1. b <= info.blocks - 1 /\ info.blocks - 1 \in Int /\ b + 1 <= info.blocks /\ info.blocks \in Int
    <2>1. base <= size
      BY <1>0
    <2>2. b <= info.blocks - 1 /\ info.blocks - 1 \in Int
      BY <1>0, <2>1, BlockHasHash DEF base, B, size
    <2>3. info.blocks \in Int
      <3>1. size \div B \in Int
        BY <1>0, BlockOf
      <3> QED BY <3>1 DEF AsarTypes
    <2> QED BY <1>0, <2>2, <2>3
  <1>2. Len(v.hash) = pos - base
    <2> DEFINE p == off + base
               e == off + pos
    <2>1. p \in Int /\ e \in Int /\ p <= e /\ e - p = pos - base
      BY <1>0
    <2> HIDE DEF p, e
    <2>2. Len(Archive!Positions(p, e)) = e - p
      BY <2>1, PositionsFacts
    <2> QED BY <1>0, <2>1, <2>2 DEF p, e
  <1>3. missing = size - pos /\ offset = off + pos
    <2>1. v.total \in Nat
      BY DEF HashesUpTo
    <2> QED BY <1>0, <2>1
  <1> DEFINE last == Archive!Least(base + B, size)
  <1>4. Archive!BlockBytes(b) = Archive!Positions(off + base, off + last)
    <2>1. (b + 1) * B = base + B
      BY <1>0, BlockOrder
    <2> QED BY <2>1 DEF Archive!BlockBytes
  <1>5. last \in Nat /\ pos <= last /\ last <= size /\ (pos = size => last = pos)
    BY <1>0 DEF Archive!Least
  <1>6. pos < size => needed = last - pos
    <2> DEFINE n == Len(v.hash)
    <2>1. n = pos - base
      BY <1>2
    <2> HIDE DEF n, base, B, missing, size
    <2>2. pos < size => Archive!Unsigned(missing) = size - pos
      BY <1>0, <1>3 DEF Archive!Unsigned
    <2>3. pos < size => Archive!Least(B - n, size - pos) = Archive!Least(base + B, size) - pos
      BY <1>0, <2>1 DEF Archive!Least
    <2> QED BY <2>2, <2>3 DEF n
  <1> HIDE DEF missing, needed, offset, last, B, off, size, b, base
  <1>7. CASE pos = size
    <2>1. missing = 0
      BY <1>0, <1>3, <1>7
    <2>2. ~(v.fatal \/ (v.hash = <<>> /\ v.block > info.blocks - 1))
      BY <1>0, <1>1 DEF b
    <2>3. v.hash # <<>> \/ v.block <= info.blocks - 1
      BY <1>1 DEF b
    <2>4. Archive!OnDone(v, range) = Archive!CompareHash(v)
      BY <1>0, <2>1, <2>2, <2>3 DEF Archive!OnDone, missing
    <2>5. v.hash = Archive!BlockBytes(v.block)
      BY <1>0, <1>4, <1>5, <1>7 DEF b
    <2>6. Compared(v, Archive!CompareHash(v))
      BY <2>5, CompareResult DEF HashesUpTo
    <2> QED BY <1>1, <2>4, <2>6 DEF b
  <1>8. CASE pos # size
    <2>1. missing # 0 /\ pos < size
      BY <1>0, <1>3, <1>8 DEF size
    <2>2. ~(v.fatal \/ (v.hash = <<>> /\ v.block > info.blocks - 1))
      BY <1>0, <1>1 DEF b
    <2> DEFINE u == [v EXCEPT !.hash = v.hash \o Archive!Positions(offset, offset + needed)]
    <2>3. ~(offset + needed > info.offset + info.size)
      BY <1>0, <1>3, <1>5, <1>6, <2>1 DEF off, size
    <2>4. Archive!OnDone(v, range) = Archive!CompareHash(u)
      BY <2>1, <2>2, <2>3 DEF Archive!OnDone, missing, needed, offset, B
    <2>5. v.hash \o Archive!Positions(offset, offset + needed) = Archive!BlockBytes(b)
      <3> DEFINE x == off + base
                 y == off + pos
                 z == off + last
      <3>1. x \in Int /\ y \in Int /\ z \in Int /\ x <= y /\ y <= z
        BY <1>0, <1>5
      <3>2. offset = y /\ offset + needed = z
        BY <1>0, <1>3, <1>5, <1>6, <2>1
      <3>3. v.hash = Archive!Positions(x, y) /\ Archive!BlockBytes(b) = Archive!Positions(x, z)
        BY <1>0, <1>4
      <3> HIDE DEF x, y, z
      <3>4. Archive!Positions(x, y) \o Archive!Positions(y, z) = Archive!Positions(x, z)
        BY <3>1, PositionsJoin
      <3> QED BY <3>2, <3>3, <3>4
    <2> DEFINE h == v.hash \o Archive!Positions(offset, offset + needed)
    <2>6. u = [v EXCEPT !.hash = h] /\ h = Archive!BlockBytes(v.block)
      BY <2>5 DEF b
    <2> HIDE DEF h, u
    <2>7. /\ DOMAIN u = {"block", "hash", "total", "verified", "fatal"} /\ u.fatal = FALSE
          /\ u.hash = Archive!BlockBytes(u.block) /\ u.block = v.block /\ u.verified = v.verified
      BY <2>6 DEF HashesUpTo
    <2>8. Compared(u, Archive!CompareHash(u))
      BY <2>7, CompareResult
    <2> QED BY <1>1, <2>4, <2>7, <2>8 DEF Compared, b
  <1> QED BY <1>7, <1>8

-----------------------------------------------------------------------------
\* While the task writes: how far it has come, and what was hashed and sent.
AsarWriting ==
    /\ served = "none"
    /\ producer[1] \in Nat /\ producer[2] = Archive!End
    /\ Archive!First <= producer[1] /\ producer[1] <= producer[2]
    /\ HashesUpTo(validator, producer[1])
    /\ validator_range.start \in Int /\ validator_range.extra \in Int
    /\ validator_range.max = info.offset + info.size
    /\ validator_range.start + validator.total - validator_range.extra = info.offset + producer[1]
    /\ \A k \in Nat : Archive!First \div BlockSize <= k /\ k < validator.block => k \in validator.verified
    /\ sent = Archive!Positions(Archive!First, producer[1])

\* Before the task runs, the loader is as it was made.
AsarFresh ==
    /\ validator = [block |-> 0, hash |-> <<>>, total |-> 0, verified |-> {}, fatal |-> FALSE]
    /\ validator_range = [start |-> 0, extra |-> 0, max |-> 0]
    /\ sent = <<>> /\ served = "none"

AsarInvariant ==
    /\ AsarTypes
    /\ asar_state \in {"new", "posted", "writing", "done"}
    /\ asar_state \in {"new", "posted"} => AsarFresh
    /\ asar_state = "writing" => AsarWriting
    /\ asar_state = "done" => Archive!TypeOK /\ Archive!SentBytesAreVerified

LEMMA BoundsFacts ==
  ASSUME AsarTypes
  PROVE  /\ Archive!First \in Nat /\ Archive!End \in Nat /\ Archive!End <= info.size
         /\ Archive!Sniffed \in Nat /\ Archive!Sniffed <= info.size
         /\ Archive!Sniffed <= MaxSniff /\ info.offset \in Nat /\ info.size \in Nat
         /\ Archive!Sniffed < MaxSniff => Archive!Sniffed = info.size
         /\ Archive!Satisfiable => Archive!First <= Archive!End
         /\ Archive!Satisfiable /\ Archive!First >= Archive!Sniffed =>
              \/ info.size = 0 /\ Archive!First = 0 /\ Archive!End = 0 /\ Archive!Sniffed = 0
              \/ /\ Archive!First < Archive!End /\ Archive!Sniffed = MaxSniff
                 /\ Archive!First < info.size
  BY BlockSizes DEF AsarTypes, Archive!First, Archive!End, Archive!Sniffed, Archive!Least, Archive!Satisfiable

LEMMA AsarInit == Archive!Init => AsarInvariant
  <1> SUFFICES ASSUME Archive!Init PROVE AsarInvariant
    OBVIOUS
  <1>1. /\ asar_state = "new" /\ AsarFresh /\ byte_range = Archive!NoRange
        /\ info = [offset |-> 0, size |-> 0, blocks |-> 1]
    BY DEF Archive!Init, AsarFresh
  <1>2. 0 \div BlockSize = 0
    <2>1. 0 * BlockSize = 0
      BY BlockSizes
    <2> QED BY <2>1, BlockSizes, BlockUnique
  <1> QED BY <1>1, <1>2 DEF AsarInvariant, AsarTypes

\* A loader that writes, or is done with the bytes up to a position.
LEMMA WritingIsTyped ==
  ASSUME AsarTypes, asar_state = "writing", AsarWriting
  PROVE  Archive!TypeOK /\ Archive!SentBytesAreVerified
  <1>1. /\ Archive!First \in Nat /\ Archive!End <= info.size /\ Archive!End \in Nat
        /\ producer[1] \in Nat /\ Archive!First <= producer[1] /\ producer[1] <= info.size
        /\ info.offset \in Nat /\ info.size \in Nat
    BY BoundsFacts DEF AsarWriting
  <1>2. /\ validator.block \in Nat /\ validator.block * BlockSize <= producer[1]
        /\ producer[1] < validator.block * BlockSize + BlockSize /\ validator.fatal = FALSE
        /\ validator.hash = Archive!Positions(info.offset + validator.block * BlockSize,
                                              info.offset + producer[1])
        /\ validator.verified \subseteq 0..(info.blocks - 1) /\ served = "none"
    BY DEF AsarWriting, HashesUpTo
  <1>3. validator.block \in 0..info.blocks
    <2>0. validator.block * BlockSize \in Int
      BY <1>2, BlockSizes
    <2>1. validator.block * BlockSize <= info.size
      BY <1>1, <1>2, <2>0
    <2>2. validator.block <= info.blocks - 1 /\ info.blocks - 1 \in Int
      BY <1>2, <2>1, BlockHasHash
    <2>3. info.blocks \in Int
      <3>1. info.size \div BlockSize \in Int
        BY <1>1, BlockSizes, BlockOf
      <3> QED BY <3>1 DEF AsarTypes
    <2> QED BY <1>2, <2>2, <2>3
  <1>4. Len(validator.hash) < 2 * BlockSize
    <2> DEFINE x == info.offset + validator.block * BlockSize
               y == info.offset + producer[1]
    <2>0. validator.block * BlockSize \in Int
      BY <1>2, BlockSizes
    <2>1. x \in Int /\ y \in Int /\ x <= y /\ y - x < BlockSize
      BY <1>1, <1>2, <2>0, BlockSizes
    <2>2. validator.hash = Archive!Positions(x, y)
      BY <1>2
    <2> HIDE DEF x, y
    <2>3. Len(Archive!Positions(x, y)) = y - x
      BY <2>1, PositionsFacts
    <2> QED BY <2>1, <2>2, <2>3, BlockSizes
  <1>5. Archive!TypeOK
    BY <1>2, <1>3, <1>4 DEF Archive!TypeOK
  <1>6. sent = Archive!Positions(Archive!First, Archive!First + Len(sent))
    <2> DEFINE x == Archive!First
               y == producer[1]
    <2>1. x \in Int /\ y \in Int /\ x <= y /\ sent = Archive!Positions(x, y)
      BY <1>1 DEF AsarWriting
    <2> HIDE DEF x, y
    <2>2. Len(sent) = y - x
      BY <2>1, PositionsFacts
    <2>3. x + Len(sent) = y
      BY <2>1, <2>2
    <2>4. sent = Archive!Positions(x, x + Len(sent))
      BY <2>1, <2>3
    <2> QED BY <2>4 DEF x
  <1>7. Archive!SentBytesAreVerified
    BY <1>2, <1>6 DEF Archive!SentBytesAreVerified
  <1> QED BY <1>5, <1>7

\* The validator has a range and hashes what is left of its block: all that
\* was sent is verified.
LEMMA DoneKeeps ==
  ASSUME AsarTypes, UNCHANGED <<info, byte_range>>, asar_state' = "done",
         NEW v, NEW pos \in Nat, NEW e \in Nat, pos <= info.size, HashesUpTo(v, pos),
         validator' = Archive!OnDone(v, validator_range'),
         validator_range'.start \in Int, validator_range'.extra \in Int,
         validator_range'.max = info.offset + info.size,
         validator_range'.start + v.total - validator_range'.extra = info.offset + pos,
         sent' = Archive!Positions(Archive!First, e), Archive!First <= e, e <= pos,
         \A k \in Nat : Archive!First \div BlockSize <= k /\ k < v.block => k \in v.verified,
         served' \in {"OK", "FAILED"}, served' = "OK" => e = Archive!End
  PROVE  AsarInvariant'
  <1> DEFINE first == Archive!First
             B == BlockSize
             b == v.block
             low == first \div B
  <1>1. /\ first \in Nat /\ Archive!End \in Nat /\ B \in Nat \ {0} /\ info.size \in Nat
    BY BoundsFacts, BlockSizes
  <1>2. /\ b \in Nat /\ pos < b * B + B /\ v.verified \subseteq 0..(info.blocks - 1)
    BY DEF HashesUpTo
  <1>3. Compared(v, validator') /\ b + 1 <= info.blocks
    BY OnDoneResult
  <1>4. AsarTypes'
    BY DEF AsarTypes
  <1>5. Archive!First' = first /\ Archive!End' = Archive!End
    BY DEF Archive!First, Archive!End, Archive!Least, Archive!NoRange
  <1>6. info.blocks \in Int
    <2>1. info.size \div B \in Int
      BY <1>1, BlockOf
    <2> QED BY <2>1 DEF AsarTypes
  <1>7. Archive!TypeOK'
    <2>1. validator'.block = b + 1 /\ validator'.hash = <<>> /\ validator'.verified = v.verified \cup {b}
      BY <1>3 DEF Compared
    <2>2. Len(validator'.hash) = 0
      BY <2>1
    <2>3. validator'.block \in 0..info.blocks /\ validator'.verified \subseteq 0..(info.blocks - 1)
      BY <1>2, <1>3, <1>6, <2>1
    <2>4. 0 < 2 * B
      BY <1>1
    <2> QED BY <2>2, <2>3, <2>4 DEF Archive!TypeOK
  <1> HIDE DEF first, B, b, low
  <1>8. /\ sent' = Archive!Positions(first, e) /\ Len(sent') = e - first /\ DOMAIN sent' = 1..(e - first)
        /\ \A i \in 1..(e - first) : sent'[i] = first + i - 1
    <2> DEFINE s == Archive!Positions(first, e)
    <2>1. first <= e /\ sent' = s /\ first \in Int /\ e \in Int
      BY <1>1 DEF first
    <2>2. s \in Seq(Int) /\ Len(s) = e - first /\ \A i \in 1..(e - first) : s[i] = first + i - 1
      BY <2>1, PositionsFacts
    <2> HIDE DEF s
    <2>3. DOMAIN s = 1..(e - first)
      BY <2>2
    <2> QED BY <2>1, <2>2, <2>3 DEF s
  <1>9. first + Len(sent') = e
    BY <1>1, <1>8
  <1>10. ASSUME NEW i \in DOMAIN sent' PROVE sent'[i] \div B \in validator'.verified
    <2> DEFINE x == sent'[i]
               q == x \div B
    <2>1. x \in Nat /\ first <= x /\ x < pos
      BY <1>1, <1>8
    <2> HIDE DEF x
    <2>2. q \in Int /\ q * B \in Int /\ q * B <= x /\ x < q * B + B /\ q \in Nat
      BY <1>1, <2>1, BlockOf
    <2>3. low \in Int /\ low * B \in Int /\ low * B <= first
      BY <1>1, BlockOf DEF low
    <2> HIDE DEF q
    <2>4. b * B \in Int /\ (b + 1) * B = b * B + B /\ (q + 1) * B = q * B + B
      BY <1>1, <1>2, <2>2, BlockOrder
    <2>5. q * B < (b + 1) * B /\ low * B < (q + 1) * B
      BY <1>1, <1>2, <2>1, <2>2, <2>3, <2>4 DEF b, B
    <2>6. q < b + 1 /\ low < q + 1
      BY <1>1, <1>2, <2>2, <2>3, <2>5, BlockOrder DEF b
    <2>7. q = b \/ (low <= q /\ q < b)
      BY <1>2, <2>2, <2>3, <2>6 DEF b
    <2>8. q = b \/ q \in v.verified
      BY <2>2, <2>7 DEF low, first, B, b
    <2>9. q \in validator'.verified
      BY <1>3, <2>8 DEF Compared, b
    <2> QED BY <2>9 DEF q, x
  <1>11. served' = "OK" => Len(sent') = (IF Archive!End > first THEN Archive!End - first ELSE 0)
    BY <1>1, <1>8 DEF first
  <1>12. Archive!SentBytesAreVerified'
    <2>1. sent' = Archive!Positions(first, first + Len(sent'))
      BY <1>8, <1>9
    <2>2. validator'.fatal = FALSE
      BY <1>3 DEF Compared
    <2>3. sent' = Archive!Positions(Archive!First', Archive!First' + Len(sent'))
      BY <1>5, <2>1
    <2>4. served' = "OK" => Len(sent') = (IF Archive!End' > Archive!First' THEN Archive!End' - Archive!First' ELSE 0)
      BY <1>5, <1>11
    <2> QED BY <1>10, <2>2, <2>3, <2>4 DEF Archive!SentBytesAreVerified, Archive!Positions, B
  <1> QED BY <1>4, <1>7, <1>12 DEF AsarInvariant

LEMMA AsarCreate ==
  ASSUME AsarInvariant, NEW offset \in {0, 1}, NEW size \in 0..MaxSize, NEW range \in Archive!Ranges,
         Archive!CreateAsarURLLoader(offset, size, range)
  PROVE  AsarInvariant'
  <1>1. /\ asar_state = "new" /\ asar_state' = "posted"
        /\ info' = [offset |-> offset, size |-> size, blocks |-> size \div BlockSize + 1]
        /\ byte_range' = range /\ UNCHANGED <<validator, validator_range, sent, served>>
    BY DEF Archive!CreateAsarURLLoader
  <1>2. AsarFresh'
    BY <1>1 DEF AsarInvariant, AsarFresh
  <1>3. AsarTypes'
    BY <1>1, BlockSizes DEF AsarTypes, Archive!Ranges
  <1> QED BY <1>1, <1>2, <1>3 DEF AsarInvariant

LEMMA SniffedFacts ==
  ASSUME AsarTypes, AsarFresh
  PROVE  LET v == Archive!SniffedValidator
         IN  HashesUpTo(v, Archive!Sniffed) /\ v.total = Archive!Sniffed /\ v.block = 0
             /\ v.verified = {}
  <1> DEFINE n == Archive!Sniffed
             v == Archive!SniffedValidator
  <1>1. n \in Nat /\ n <= info.size /\ n < BlockSize /\ info.offset \in Nat
    BY BoundsFacts, BlockSizes
  <1>2. HashesUpTo(validator, 0)
    <2> DEFINE a == info.offset
    <2>1. 0 * BlockSize = 0 /\ a + 0 = a /\ 0 < BlockSize /\ a \in Int /\ a <= a
      BY <1>1, BlockSizes
    <2> HIDE DEF a
    <2>2. Archive!Positions(a, a) = <<>>
      BY <2>1, PositionsFacts
    <2>3. /\ DOMAIN validator = {"block", "hash", "total", "verified", "fatal"}
          /\ validator.block = 0 /\ validator.hash = <<>> /\ validator.total = 0
          /\ validator.verified = {} /\ validator.fatal = FALSE
      BY DEF AsarFresh
    <2>4. validator.hash = Archive!Positions(info.offset + validator.block * BlockSize, info.offset + 0)
      BY <2>1, <2>2, <2>3 DEF a
    <2>5. validator.block * BlockSize <= 0 /\ 0 < validator.block * BlockSize + BlockSize
      BY <2>1, <2>3, BlockSizes
    <2> QED BY <2>3, <2>4, <2>5 DEF HashesUpTo
  <1>3. v = Archive!OnRead(validator, info.offset + 0, info.offset + n)
    BY <1>1 DEF Archive!SniffedValidator
  <1> HIDE DEF n, v
  <1>4. /\ HashesUpTo(v, n) /\ v.total = validator.total + (n - 0)
        /\ v.verified = validator.verified \cup { k \in Nat : validator.block <= k /\ k < v.block }
    BY <1>1, <1>2, <1>3, OnReadResult
  <1>5. v.total = n
    BY <1>1, <1>4 DEF AsarFresh
  <1>6. v.block = 0
    <2>1. v.block \in Nat /\ v.block * BlockSize <= n
      BY <1>4 DEF HashesUpTo
    <2>2. v.block * BlockSize < 1 * BlockSize
      BY <1>1, <2>1, BlockSizes
    <2>3. v.block < 1
      BY <2>1, <2>2, BlockSizes, BlockOrder
    <2> QED BY <2>1, <2>3
  <1>7. v.verified = {}
    BY <1>4, <1>6 DEF AsarFresh
  <1> QED BY <1>4, <1>5, <1>6, <1>7 DEF n, v

\* OnDone, whatever range the validator has.
LEMMA OnDoneTypes ==
  ASSUME AsarTypes, NEW v, NEW pos \in Nat, pos <= info.size, HashesUpTo(v, pos), NEW range,
         range.start \in Int, range.extra \in Int, range.max \in Int
  PROVE  LET w == Archive!OnDone(v, range)
         IN  /\ w.block \in 0..info.blocks /\ Len(w.hash) < 2 * BlockSize
             /\ w.verified \subseteq 0..(info.blocks - 1)
  <1> DEFINE B == BlockSize
             b == v.block
             n == Len(v.hash)
             missing == range.max - range.start - v.total + range.extra
             needed == Archive!Least(B - n, Archive!Unsigned(missing))
             offset == range.start + v.total - range.extra
             w == Archive!OnDone(v, range)
             rest == Archive!Positions(offset, offset + needed)
             u == [v EXCEPT !.hash = v.hash \o rest]
             Fine(x) == /\ x.block \in 0..info.blocks /\ Len(x.hash) < 2 * B
                        /\ x.verified \subseteq 0..(info.blocks - 1)
  <1>1. /\ B \in Nat \ {0} /\ b \in Nat /\ b * B <= pos /\ pos < b * B + B
        /\ info.offset \in Nat /\ info.size \in Nat /\ b * B \in Int
        /\ v.verified \subseteq 0..(info.blocks - 1) /\ v.total \in Nat
        /\ DOMAIN v = {"block", "hash", "total", "verified", "fatal"}
    <2>1. B \in Nat \ {0} /\ b \in Nat
      BY BlockSizes DEF HashesUpTo
    <2>2. b * B \in Int
      BY <2>1
    <2> QED BY <2>1, <2>2 DEF HashesUpTo, AsarTypes
  <1>2. b <= info.blocks - 1 /\ info.blocks \in Int
    <2>1. b * B <= info.size
      BY <1>1
    <2>2. info.size \div B \in Int
      <3> DEFINE z == info.size
      <3>1. z \in Int
        BY <1>1
      <3> HIDE DEF z
      <3>2. z \div B \in Int
        BY <1>1, <3>1, BlockOf
      <3> QED BY <3>2 DEF z
    <2>3. info.blocks \in Int
      BY <2>2 DEF AsarTypes
    <2>4. b \in Int
      BY <1>1
    <2> HIDE DEF b
    <2> QED BY <2>1, <2>3, <2>4, BlockHasHash
  <1>3. n \in Nat /\ n < B /\ v.hash \in Seq(Int)
    <2> DEFINE x == info.offset + b * B
               y == info.offset + pos
    <2>1. x \in Int /\ y \in Int /\ x <= y /\ y - x < B /\ y - x \in Nat
      BY <1>1
    <2>2. v.hash = Archive!Positions(x, y)
      BY DEF HashesUpTo
    <2> HIDE DEF x, y
    <2> QED BY <2>1, <2>2, PositionsFacts
  <1>30. Len(v.hash) < 2 * B
    BY <1>1, <1>3
  <1> HIDE DEF n, b, B
  <1>4. offset \in Int /\ needed \in Int /\ needed <= B - n
    <2>1. missing \in Int
      BY <1>1
    <2> HIDE DEF missing
    <2>2. Archive!Unsigned(missing) \in Int
      BY <2>1, ServicesAssumption DEF Archive!Unsigned
    <2> QED BY <1>1, <1>3, <2>2 DEF Archive!Least
  <1>5. \/ w = v \/ w = [v EXCEPT !.fatal = TRUE]
        \/ w = Archive!CompareHash(v) \/ w = Archive!CompareHash(u)
    BY DEF Archive!OnDone, n, B
  <1> HIDE DEF needed, offset
  <1>6. rest \in Seq(Int) /\ Len(rest) < 2 * B - n
    <2> DEFINE y == offset + needed
    <2>0. y \in Int /\ y - offset = needed
      BY <1>4
    <2> HIDE DEF y
    <2>1. CASE offset <= y
      <3>1. Archive!Positions(offset, y) \in Seq(Int) /\ Len(Archive!Positions(offset, y)) = y - offset
        BY <1>4, <2>0, <2>1, PositionsFacts
      <3>2. y - offset < 2 * B - n
        BY <1>1, <1>3, <1>4, <2>0
      <3> QED BY <3>1, <3>2 DEF y
    <2>2. CASE ~(offset <= y)
      <3>1. Archive!Positions(offset, y) = <<>>
        BY <1>4, <2>0, <2>2 DEF Archive!Positions
      <3>2. 0 < 2 * B - n
        BY <1>1, <1>3
      <3>3. rest = <<>>
        BY <3>1 DEF y
      <3> HIDE DEF rest
      <3>4. rest \in Seq(Int) /\ Len(rest) = 0
        BY <3>3
      <3> QED BY <3>2, <3>4
    <2> QED BY <2>1, <2>2
  <1>7. ASSUME NEW x, DOMAIN x = {"block", "hash", "total", "verified", "fatal"}, x.block = b,
               x.verified = v.verified, x.hash \in Seq(Int), Len(x.hash) < 2 * B
        PROVE  Fine(Archive!CompareHash(x)) /\ Fine(x)
    <2> DEFINE seen == x.verified \cup {x.block}
               y == Archive!CompareHash(x)
    <2>1. \/ y = [x EXCEPT !.hash = <<>>, !.block = x.block + 1, !.verified = seen]
          \/ y = [x EXCEPT !.fatal = TRUE]
      BY DEF Archive!CompareHash
    <2>2. seen \subseteq 0..(info.blocks - 1)
      BY <1>1, <1>2, <1>7
    <2> HIDE DEF seen, y
    <2>3. /\ y.block \in {b, b + 1} /\ (y.hash = <<>> \/ y.hash = x.hash)
          /\ (y.verified = seen \/ y.verified = v.verified)
      BY <1>7, <2>1
    <2>40. Len(y.hash) < 2 * B
      <3>1. CASE y.hash = <<>>
        <4>1. Len(y.hash) = 0
          BY <3>1
        <4> QED BY <1>1, <4>1
      <3> QED BY <1>7, <2>3, <3>1
    <2>41. y.block \in 0..info.blocks
      BY <1>1, <1>2, <2>3
    <2>42. y.verified \subseteq 0..(info.blocks - 1)
      BY <1>1, <2>2, <2>3
    <2>4. Fine(y)
      BY <2>40, <2>41, <2>42
    <2>5. Fine(x)
      BY <1>1, <1>2, <1>7
    <2> QED BY <2>4, <2>5 DEF y
  <1>8. Fine(Archive!CompareHash(v)) /\ Fine(v)
    <2>1. v.block = b
      BY DEF b
    <2> QED BY <1>1, <1>3, <1>30, <1>7, <2>1
  <1>9. Fine(Archive!CompareHash(u))
    <2> DEFINE h == v.hash \o rest
    <2>1. h \in Seq(Int) /\ Len(h) = n + Len(rest) /\ Len(rest) \in Nat
      BY <1>3, <1>6 DEF n
    <2>2. Len(h) < 2 * B
      BY <1>1, <1>3, <1>6, <2>1
    <2> HIDE DEF h
    <2>3. u = [v EXCEPT !.hash = h]
      BY DEF h
    <2> HIDE DEF u
    <2>4. /\ DOMAIN u = {"block", "hash", "total", "verified", "fatal"} /\ u.block = b
          /\ u.verified = v.verified /\ u.hash = h
      BY <1>1, <2>3 DEF b
    <2> QED BY <1>7, <2>1, <2>2, <2>4
  <1>10. Fine([v EXCEPT !.fatal = TRUE])
    BY <1>1, <1>8
  <1> HIDE DEF w, u, Fine
  <1>11. Fine(w)
    BY <1>5, <1>8, <1>9, <1>10
  <1> QED BY <1>11 DEF Fine, w, B

LEMMA AsarStartFails ==
  ASSUME AsarInvariant, NEW error \in {"FAILED", "RANGE_NOT_SATISFIABLE"}, Archive!StartFails(error)
  PROVE  AsarInvariant'
  <1> DEFINE v == Archive!SniffedValidator
             range == validator_range
             n == Archive!Sniffed
  <1>1. /\ asar_state = "posted" /\ asar_state' = "done" /\ served' = error
        /\ validator' = Archive!OnDone(v, range)
        /\ UNCHANGED <<info, byte_range, validator_range, sent>>
    BY DEF Archive!StartFails
  <1>2. AsarTypes /\ AsarFresh
    BY <1>1 DEF AsarInvariant
  <1>3. HashesUpTo(v, n) /\ n \in Nat /\ n <= info.size
    BY <1>2, SniffedFacts, BoundsFacts
  <1>4. range.start = 0 /\ range.extra = 0 /\ range.max = 0
    BY <1>2 DEF AsarFresh
  <1> HIDE DEF v, range, n
  <1>5. /\ validator'.block \in 0..info.blocks /\ Len(validator'.hash) < 2 * BlockSize
        /\ validator'.verified \subseteq 0..(info.blocks - 1)
    BY <1>1, <1>2, <1>3, <1>4, OnDoneTypes
  <1>6. Archive!TypeOK'
    BY <1>1, <1>5 DEF Archive!TypeOK
  <1>7. AsarTypes'
    BY <1>1, <1>2 DEF AsarTypes
  <1>8. Archive!SentBytesAreVerified'
    <2>1. sent' = <<>> /\ Len(sent') = 0 /\ DOMAIN sent' = {}
      BY <1>1, <1>2 DEF AsarFresh
    <2>2. Archive!First' \in Nat
      BY <1>7 DEF AsarTypes, Archive!First, Archive!NoRange
    <2> DEFINE f == Archive!First'
    <2>3. Archive!Positions(f, f + Len(sent')) = <<>>
      <3>0. f \in Nat
        BY <2>2
      <3> HIDE DEF f
      <3>1. f + Len(sent') = f /\ f \in Int /\ f <= f
        BY <2>1, <3>0
      <3>2. Archive!Positions(f, f) = <<>>
        BY <3>1, PositionsFacts
      <3> QED BY <3>1, <3>2
    <2>4. (Archive!Positions(Archive!First, Archive!First + Len(sent)))' = Archive!Positions(f, f + Len(sent'))
      BY DEF Archive!Positions
    <2>5. validator_range'.max = 0 /\ served' # "none" /\ served' # "OK"
      BY <1>1, <1>4 DEF range
    <2> HIDE DEF f
    <2> QED BY <2>1, <2>3, <2>4, <2>5 DEF Archive!SentBytesAreVerified
  <1> QED BY <1>1, <1>6, <1>7, <1>8 DEF AsarInvariant

\* The validator gets its range at a position and has hashed up to it; what
\* precedes the position has been sent, as far as it was asked for.
LEMMA WritingKeeps ==
  ASSUME AsarTypes, UNCHANGED <<info, byte_range>>, asar_state' = "writing", served' = "none",
         NEW pos \in Nat, producer' = <<pos, Archive!End>>, Archive!First <= pos,
         pos <= Archive!End, HashesUpTo(validator', pos),
         validator_range'.start = info.offset + pos, validator_range'.extra = validator'.total,
         validator_range'.max = info.offset + info.size,
         sent' = Archive!Positions(Archive!First, pos),
         validator'.block <= Archive!First \div BlockSize
  PROVE  AsarInvariant'
  <1>1. AsarTypes'
    BY DEF AsarTypes
  <1>2. Archive!First' = Archive!First /\ Archive!End' = Archive!End
    BY DEF Archive!First, Archive!End, Archive!Least, Archive!NoRange
  <1>3. producer'[1] = pos /\ producer'[2] = Archive!End
    OBVIOUS
  <1>4. validator'.total \in Nat /\ validator'.block \in Nat
    BY DEF HashesUpTo
  <1>5. HashesUpTo(validator, producer[1])'
    BY <1>3 DEF HashesUpTo, Archive!Positions
  <1>6. sent' = (Archive!Positions(Archive!First, producer[1]))'
    BY <1>2, <1>3 DEF Archive!Positions
  <1>7. \A k \in Nat : ~(Archive!First' \div BlockSize <= k /\ k < validator'.block)
    <2> DEFINE q == Archive!First \div BlockSize
    <2>1. q \in Int
      BY BoundsFacts, BlockSizes, BlockOf
    <2>2. validator'.block <= q
      OBVIOUS
    <2> HIDE DEF q
    <2> QED BY <1>2, <1>4, <2>1, <2>2 DEF q
  <1>8. info.offset \in Nat /\ info.size \in Nat
    BY DEF AsarTypes
  <1>9. validator_range'.start + validator'.total - validator_range'.extra = info'.offset + producer'[1]
    BY <1>3, <1>4, <1>8
  <1>10. AsarWriting'
    BY <1>2, <1>3, <1>4, <1>5, <1>6, <1>7, <1>8, <1>9 DEF AsarWriting
  <1> QED BY <1>1, <1>10 DEF AsarInvariant

\* The validator's block is the block of its position.
LEMMA BlockOfHash ==
  ASSUME NEW v, NEW pos \in Nat, HashesUpTo(v, pos)
  PROVE  v.block = pos \div BlockSize
  <1> DEFINE b == v.block
  <1>1. b \in Int /\ b * BlockSize <= pos /\ pos < b * BlockSize + BlockSize
    BY DEF HashesUpTo
  <1> HIDE DEF b
  <1>2. pos \div BlockSize = b
    BY <1>1, BlockSizes, BlockUnique
  <1> QED BY <1>2 DEF b

LEMMA AsarStart ==
  ASSUME AsarInvariant, Archive!Start
  PROVE  AsarInvariant'
  <1> DEFINE off == info.offset
             size == info.size
             B == BlockSize
             First == Archive!First
             End == Archive!End
             n == Archive!Sniffed
             S == Archive!SniffedValidator
             in_prefix == First < n
             first == IF in_prefix THEN n ELSE First
             start_block == first \div B
             whole == ~in_prefix /\ first >= B
             drop_from == IF start_block = 0 THEN MaxSniff ELSE start_block * B
             to_drop == Archive!Unsigned(first - drop_from)
             head == n + (IF whole THEN B - MaxSniff ELSE 0)
             range(dropped) == [start |-> off + first, extra |-> dropped, max |-> off + size]
             v == IF whole THEN Archive!OnRead(S, off + MaxSniff, off + B) ELSE S
             u == [v EXCEPT !.block = start_block]
  <1>1. /\ asar_state = "posted" /\ Archive!Satisfiable /\ UNCHANGED <<info, byte_range>>
        /\ sent' = IF in_prefix THEN Archive!Positions(First, Archive!Least(End, n)) ELSE <<>>
        /\ producer' = <<first, End>>
        /\ IF first >= End
           THEN /\ validator_range' = range(head) /\ validator' = Archive!OnDone(v, range(head))
                /\ asar_state' = "done" /\ served' = "OK"
           ELSE /\ validator_range' = range(head + to_drop)
                /\ validator' = Archive!OnRead(u, off + drop_from, off + drop_from + to_drop)
                /\ asar_state' = "writing" /\ served' = served
    BY DEF Archive!Start
  <1>2. AsarTypes /\ AsarFresh /\ served = "none"
    BY <1>1 DEF AsarInvariant, AsarFresh
  <1>3. /\ HashesUpTo(S, n) /\ S.total = n /\ S.block = 0 /\ S.verified = {}
    BY <1>2, SniffedFacts
  <1>4. /\ First \in Nat /\ End \in Nat /\ End <= size /\ n \in Nat /\ n <= size /\ n <= MaxSniff
        /\ off \in Nat /\ size \in Nat /\ (n < MaxSniff => n = size) /\ First <= End
        /\ First >= n => \/ size = 0 /\ First = 0 /\ End = 0 /\ n = 0
                         \/ First < End /\ n = MaxSniff /\ First < size
    BY <1>1, <1>2, BoundsFacts
  <1>5. B \in Nat \ {0} /\ MaxSniff \in Nat \ {0} /\ MaxSniff < B
    BY BlockSizes
  <1>6. ASSUME NEW x \in Nat, x < B PROVE x \div B = 0
    <2>1. 0 * B = 0
      BY <1>5
    <2> QED BY <1>5, <1>6, <2>1, BlockUnique
  <1>60. \A x : HashesUpTo(x, n) => DOMAIN x = {"block", "hash", "total", "verified", "fatal"}
    BY DEF HashesUpTo
  <1> HIDE DEF off, size, B, First, End, n, S
  <1>7. CASE first >= End
    <2>1. /\ ~whole /\ v = S /\ head = n /\ first = n
          /\ IF in_prefix THEN End <= n ELSE First = 0 /\ End = 0 /\ n = 0
      BY <1>4, <1>5, <1>7
    <2>2. sent' = Archive!Positions(First, End)
      <3>1. CASE in_prefix
        <4>1. Archive!Least(End, n) = End
          BY <1>4, <2>1, <3>1 DEF Archive!Least
        <4> QED BY <1>1, <3>1, <4>1
      <3>2. CASE ~in_prefix
        <4>1. First = End /\ First \in Int
          BY <1>4, <2>1, <3>2
        <4>2. Archive!Positions(First, First) = <<>>
          BY <4>1, PositionsFacts
        <4> QED BY <1>1, <3>2, <4>1, <4>2
      <3> QED BY <3>1, <3>2
    <2>3. /\ validator_range' = range(head) /\ validator' = Archive!OnDone(S, range(head))
          /\ asar_state' = "done" /\ served' = "OK"
      BY <1>1, <1>7, <2>1
    <2>4. /\ validator_range'.start = off + n /\ validator_range'.extra = n
          /\ validator_range'.max = off + size
      BY <2>1, <2>3
    <2>5. validator_range'.start + S.total - validator_range'.extra = off + n
      BY <1>3, <1>4, <2>4
    <2>6. End <= n
      BY <1>4, <2>1
    <2>7. validator' = Archive!OnDone(S, validator_range')
      BY <2>3
    <2>8. \A k \in Nat : ~(k < S.block)
      BY <1>3
    <2>9. validator_range'.start \in Int /\ validator_range'.extra \in Int
      BY <1>4, <2>4
    <2> HIDE DEF range, head
    <2> QED BY <1>1, <1>2, <1>3, <1>4, <2>2, <2>3, <2>4, <2>5, <2>6, <2>7, <2>8, <2>9, DoneKeeps
               DEF off, size, First, End
  <1>8. CASE ~(first >= End)
    <2>0. /\ validator_range' = range(head + to_drop) /\ asar_state' = "writing" /\ served' = "none"
          /\ validator' = Archive!OnRead(u, off + drop_from, off + drop_from + to_drop)
      BY <1>1, <1>2, <1>8
    <2>1. n = MaxSniff /\ first \in Nat /\ first < End /\ First <= first /\ first <= size /\ first >= n
      BY <1>4, <1>5, <1>8
    <2>2. sent' = Archive!Positions(First, first)
      <3>1. CASE in_prefix
        <4>1. Archive!Least(End, n) = n
          BY <1>4, <2>1, <3>1 DEF Archive!Least
        <4> QED BY <1>1, <3>1, <4>1
      <3>2. CASE ~in_prefix
        <4>1. first = First /\ First \in Int
          BY <1>4, <3>2
        <4>2. Archive!Positions(First, First) = <<>>
          BY <4>1, PositionsFacts
        <4> QED BY <1>1, <3>2, <4>1, <4>2
      <3> QED BY <3>1, <3>2
    <2>3. start_block \in Int /\ start_block * B \in Int /\ start_block * B <= first
          /\ first < start_block * B + B /\ start_block \in Nat
      <3> DEFINE f == first
      <3>1. f \in Nat
        BY <2>1
      <3> HIDE DEF f
      <3>2. /\ f \div B \in Int /\ (f \div B) * B \in Int /\ (f \div B) * B <= f
            /\ f < (f \div B) * B + B
        BY <1>5, <3>1, BlockOf
      <3>3. f \div B \in Nat
        BY <1>5, <3>1
      <3> QED BY <3>2, <3>3 DEF f
    <2>4. start_block \in Nat /\ (start_block = 0 <=> first < B)
      <3>1. first < B => start_block = 0
        BY <1>6, <2>1
      <3>2. start_block = 0 => first < B
        <4>1. 0 * B = 0
          BY <1>5
        <4> HIDE DEF start_block, first
        <4> QED BY <1>5, <2>1, <2>3, <4>1
      <3> QED BY <2>3, <3>1, <3>2
    <2>5. whole <=> start_block # 0
      BY <1>4, <1>5, <2>1, <2>4
    <2> HIDE DEF start_block
    \* Before what is dropped is read, the validator is at the start of it.
    <2>6. /\ drop_from \in Nat /\ drop_from <= first /\ HashesUpTo(u, drop_from) /\ u.total = head
      <3>1. CASE start_block = 0
        <4>1. v = S /\ head = n /\ drop_from = n
          BY <2>1, <2>5, <3>1, <1>4
        <4>2. u = [S EXCEPT !.block = 0]
          BY <3>1, <4>1
        <4> HIDE DEF u
        <4>3. /\ DOMAIN u = DOMAIN S /\ u.block = S.block /\ u.hash = S.hash /\ u.total = S.total
              /\ u.verified = S.verified /\ u.fatal = S.fatal
          BY <1>3, <1>60, <4>2
        <4>4. HashesUpTo(u, n)
          BY <1>3, <4>3 DEF HashesUpTo
        <4> QED BY <1>3, <1>4, <2>1, <4>1, <4>3, <4>4
      <3>2. CASE start_block # 0
        <4>1. v = Archive!OnRead(S, off + n, off + B) /\ drop_from = start_block * B
              /\ head = n + (B - n)
          BY <2>1, <2>5, <3>2
        <4>2. n <= B /\ B <= size /\ head = B
          BY <1>4, <1>5, <2>1, <2>4, <3>2, <4>1
        <4> HIDE DEF v
        <4>3. HashesUpTo(v, B) /\ v.total = S.total + (B - n)
          <5>1. v = Archive!OnRead(S, info.offset + n, info.offset + B)
            BY <4>1 DEF off
          <5>2. n \in Nat /\ B \in Nat /\ n <= B /\ B <= info.size
            BY <1>4, <1>5, <4>2 DEF size
          <5> QED BY <1>2, <1>3, <5>1, <5>2, OnReadResult
        <4>4. v.total = B
          BY <1>3, <1>4, <1>5, <4>3
        <4>5. v.block = 1
          <5>1. v.block = B \div B
            BY <1>5, <4>3, BlockOfHash DEF B
          <5>2. 1 * B = B
            BY <1>5
          <5>3. B \div B = 1
            BY <1>5, <5>2, BlockUnique
          <5> QED BY <5>1, <5>3
        <4>6. v.hash = <<>>
          <5>1. v.hash = Archive!Positions(off + v.block * B, off + B)
            BY <4>3 DEF HashesUpTo, off, B
          <5>2. v.block * B = B
            BY <1>5, <4>5
          <5> DEFINE e == off + B
          <5>3. e \in Int /\ v.hash = Archive!Positions(e, e)
            BY <1>4, <1>5, <5>1, <5>2
          <5> HIDE DEF e
          <5> QED BY <5>3, PositionsFacts
        <4>7. /\ DOMAIN v = {"block", "hash", "total", "verified", "fatal"} /\ v.fatal = FALSE
              /\ v.verified \subseteq 0..(info.blocks - 1)
          BY <4>3 DEF HashesUpTo
        <4>8. /\ DOMAIN u = {"block", "hash", "total", "verified", "fatal"} /\ u.fatal = FALSE
              /\ u.verified = v.verified /\ u.hash = <<>> /\ u.block = start_block /\ u.total = B
          BY <4>4, <4>6, <4>7
        <4> HIDE DEF u
        <4> DEFINE d == start_block * B
        <4>9. Archive!Positions(off + d, off + d) = <<>> /\ d \in Nat
          <5>1. d \in Nat
            BY <1>5, <2>4
          <5> DEFINE e == off + d
          <5>2. e \in Int
            BY <1>4, <5>1
          <5> HIDE DEF e
          <5>3. Archive!Positions(e, e) = <<>>
            BY <5>2, PositionsFacts
          <5> QED BY <5>1, <5>3 DEF e
        <4>10. HashesUpTo(u, d)
          <5>1. d <= d /\ d < d + B
            BY <1>5, <4>9
          <5> QED BY <1>5, <2>4, <4>7, <4>8, <4>9, <5>1 DEF HashesUpTo, off, B
        <4> QED BY <2>3, <4>1, <4>2, <4>8, <4>9, <4>10
      <3> QED BY <3>1, <3>2
    <2> HIDE DEF drop_from, u, head
    <2>7. to_drop = first - drop_from /\ off + drop_from + to_drop = off + first
      BY <1>4, <2>1, <2>6 DEF Archive!Unsigned
    <2>8. validator' = Archive!OnRead(u, off + drop_from, off + first)
      BY <2>0, <2>7
    <2> HIDE DEF first, to_drop, range
    <2>9. HashesUpTo(validator', first) /\ validator'.total = u.total + (first - drop_from)
      BY <1>2, <1>4, <2>1, <2>6, <2>8, OnReadResult DEF off, size
    <2>10. validator'.block = first \div B
      BY <2>1, <2>9, BlockOfHash DEF B
    <2>11. validator'.block <= First \div B
      <3>1. CASE in_prefix
        <4>1. first = n /\ n < B /\ First < B
          BY <1>4, <1>5, <3>1 DEF first
        <4>2. first \div B = 0 /\ First \div B = 0
          BY <1>4, <1>6, <4>1
        <4> QED BY <2>10, <4>2
      <3>2. CASE ~in_prefix
        <4>1. first = First
          BY <3>2 DEF first
        <4>2. First \div B \in Int
          BY <1>4, <1>5, BlockOf
        <4> QED BY <2>10, <4>1, <4>2
      <3> QED BY <3>1, <3>2
    <2>12. /\ validator_range'.start = off + first /\ validator_range'.extra = validator'.total
           /\ validator_range'.max = off + size
      BY <2>0, <2>6, <2>7, <2>9 DEF range
    <2>13. producer' = <<first, End>> /\ first <= End
      BY <1>1, <1>4, <2>1
    <2> QED BY <1>1, <1>2, <2>0, <2>1, <2>2, <2>9, <2>11, <2>12, <2>13, WritingKeeps
               DEF off, size, First, End, B
  <1> QED BY <1>7, <1>8

LEMMA AsarProduce ==
  ASSUME AsarInvariant, NEW n \in 1..MaxSize, Archive!Produce(n)
  PROVE  AsarInvariant'
  <1> DEFINE p == producer[1]
             e == producer[1] + n
  <1>1. /\ asar_state = "writing" /\ asar_state' = "writing"
        /\ n <= producer[2] - producer[1] /\ producer' = <<p + n, producer[2]>>
        /\ validator' = Archive!OnRead(validator, info.offset + p, info.offset + p + n)
        /\ sent' = sent \o Archive!Positions(p, p + n)
        /\ UNCHANGED <<info, byte_range, validator_range, served>>
    BY DEF Archive!Produce
  <1>2. AsarTypes /\ AsarWriting
    BY <1>1 DEF AsarInvariant
  <1>3. /\ p \in Nat /\ producer[2] = Archive!End /\ Archive!First <= p /\ p <= producer[2]
        /\ HashesUpTo(validator, p) /\ sent = Archive!Positions(Archive!First, p)
        /\ validator_range.start \in Int /\ validator_range.extra \in Int
        /\ validator_range.max = info.offset + info.size
        /\ validator_range.start + validator.total - validator_range.extra = info.offset + p
        /\ \A k \in Nat : Archive!First \div BlockSize <= k /\ k < validator.block
                              => k \in validator.verified
        /\ served = "none"
    BY <1>2 DEF AsarWriting
  <1>4. /\ Archive!First \in Nat /\ Archive!End \in Nat /\ Archive!End <= info.size
        /\ info.offset \in Nat /\ info.size \in Nat
    BY <1>2, BoundsFacts
  <1>5. n \in Nat
    BY BlockSizes
  <1>6. e \in Nat /\ p <= e /\ e <= Archive!End /\ e <= info.size /\ info.offset + p + n = info.offset + e
    BY <1>1, <1>3, <1>4, <1>5
  <1>7. producer'[1] = e /\ producer'[2] = producer[2]
    BY <1>1
  <1>70. validator' = Archive!OnRead(validator, info.offset + p, info.offset + e)
    BY <1>1, <1>6
  <1>71. sent' = sent \o Archive!Positions(p, e)
    BY <1>1
  <1> HIDE DEF p, e
  <1>8. /\ HashesUpTo(validator', e) /\ validator'.total = validator.total + (e - p)
        /\ validator.block <= validator'.block
        /\ validator'.verified = validator.verified
              \cup { k \in Nat : validator.block <= k /\ k < validator'.block }
    BY <1>2, <1>3, <1>6, <1>70, OnReadResult
  <1>9. sent' = Archive!Positions(Archive!First, e)
    <2> DEFINE f == Archive!First
    <2>1. f \in Int /\ p \in Int /\ e \in Int /\ f <= p /\ p <= e /\ sent = Archive!Positions(f, p)
      BY <1>3, <1>4, <1>6
    <2> HIDE DEF f
    <2>2. Archive!Positions(f, p) \o Archive!Positions(p, e) = Archive!Positions(f, e)
      BY <2>1, PositionsJoin
    <2> QED BY <1>71, <2>1, <2>2 DEF f
  <1>10. AsarTypes'
    BY <1>1, <1>2 DEF AsarTypes
  <1>11. Archive!First' = Archive!First /\ Archive!End' = Archive!End
    BY <1>1 DEF Archive!First, Archive!End, Archive!Least, Archive!NoRange
  <1>12. HashesUpTo(validator, producer[1])'
    BY <1>1, <1>7, <1>8 DEF HashesUpTo, Archive!Positions
  <1>13. sent' = (Archive!Positions(Archive!First, producer[1]))'
    BY <1>7, <1>9, <1>11 DEF Archive!Positions
  <1>14. \A k \in Nat : Archive!First' \div BlockSize <= k /\ k < validator'.block
                            => k \in validator'.verified
    <2>1. validator.block \in Nat /\ validator'.block \in Nat
      BY <1>3, <1>8 DEF HashesUpTo
    <2>2. \A k \in Nat : k < validator.block \/ validator.block <= k
      BY <2>1
    <2> QED BY <1>3, <1>8, <1>11, <2>2
  <1>15. validator_range.start + validator'.total - validator_range.extra = info.offset + e
    <2>1. validator.total \in Nat
      BY <1>3 DEF HashesUpTo
    <2> QED BY <1>3, <1>4, <1>6, <1>8, <2>1
  <1>16. AsarWriting'
    <2>2. served' = "none" /\ producer'[1] \in Nat /\ producer'[2] = Archive!End'
      BY <1>1, <1>3, <1>6, <1>7, <1>11
    <2>3. Archive!First' <= producer'[1] /\ producer'[1] <= producer'[2]
      BY <1>3, <1>4, <1>6, <1>7, <1>11
    <2>4. /\ validator_range'.start \in Int /\ validator_range'.extra \in Int
          /\ validator_range'.max = info'.offset + info'.size
      BY <1>1, <1>3
    <2>5. validator_range'.start + validator'.total - validator_range'.extra
            = info'.offset + producer'[1]
      BY <1>1, <1>7, <1>15
    <2> QED BY <1>12, <1>13, <1>14, <2>2, <2>3, <2>4, <2>5 DEF AsarWriting
  <1> QED BY <1>1, <1>10, <1>16 DEF AsarInvariant

LEMMA AsarWritten ==
  ASSUME AsarInvariant, NEW result \in {"OK", "FAILED"}, Archive!OnFileWritten(result)
  PROVE  AsarInvariant'
  <1> DEFINE p == producer[1]
  <1>1. /\ asar_state = "writing" /\ asar_state' = "done" /\ served' = result
        /\ result = "OK" => p = producer[2]
        /\ validator' = Archive!OnDone(validator, validator_range)
        /\ UNCHANGED <<info, byte_range, validator_range, sent>>
    BY DEF Archive!OnFileWritten
  <1>2. AsarTypes /\ AsarWriting
    BY <1>1 DEF AsarInvariant
  <1>3. /\ p \in Nat /\ producer[2] = Archive!End /\ Archive!First <= p /\ p <= producer[2]
        /\ HashesUpTo(validator, p) /\ sent = Archive!Positions(Archive!First, p)
        /\ validator_range.start \in Int /\ validator_range.extra \in Int
        /\ validator_range.max = info.offset + info.size
        /\ validator_range.start + validator.total - validator_range.extra = info.offset + p
        /\ \A k \in Nat : Archive!First \div BlockSize <= k /\ k < validator.block
                              => k \in validator.verified
    BY <1>2 DEF AsarWriting
  <1>4. p <= info.size /\ p <= p
    <2>1. Archive!End <= info.size /\ Archive!End \in Nat /\ info.size \in Nat
      BY <1>2, BoundsFacts
    <2> QED BY <1>3, <2>1
  <1> HIDE DEF p
  <1> QED BY <1>1, <1>2, <1>3, <1>4, DoneKeeps

LEMMA AsarStep == AsarInvariant /\ Archive!Next => AsarInvariant'
  BY AsarCreate, AsarStartFails, AsarStart, AsarProduce, AsarWritten DEF Archive!Next, Archive!Work

LEMMA AsarStutter == AsarInvariant /\ Archive!NoStep => AsarInvariant'
  <1> SUFFICES ASSUME AsarInvariant, Archive!NoStep PROVE AsarInvariant'
    OBVIOUS
  <1>1. /\ asar_state' = asar_state /\ info' = info /\ byte_range' = byte_range
        /\ validator' = validator /\ validator_range' = validator_range
        /\ producer' = producer /\ sent' = sent /\ served' = served
    BY DEF Archive!NoStep, Archive!asarVars
  <1> QED BY <1>1 DEF AsarInvariant, AsarTypes, AsarFresh, AsarWriting, HashesUpTo, Archive!TypeOK,
            Archive!SentBytesAreVerified, Archive!First, Archive!End, Archive!Positions,
            Archive!Least, Archive!NoRange

LEMMA FreshIsTyped ==
  ASSUME AsarTypes, asar_state \in {"new", "posted"}, AsarFresh
  PROVE  Archive!TypeOK /\ Archive!SentBytesAreVerified
  <1>1. /\ validator.block = 0 /\ validator.hash = <<>> /\ validator.verified = {}
        /\ validator.fatal = FALSE /\ sent = <<>> /\ served = "none" /\ Len(<<>>) = 0
    BY DEF AsarFresh
  <1>2. 0 <= info.blocks /\ info.blocks \in Int
    <2> DEFINE n == info.size
    <2>1. n \in Nat
      BY DEF AsarTypes
    <2> HIDE DEF n
    <2>2. n \div BlockSize \in Nat
      BY <2>1, BlockSizes
    <2>3. info.blocks = n \div BlockSize + 1
      BY DEF AsarTypes, n
    <2> QED BY <2>2, <2>3
  <1>3. 0 < 2 * BlockSize
    BY BlockSizes
  <1>4. Len(validator.hash) = 0
    BY <1>1
  <1>5. Archive!TypeOK
    BY <1>1, <1>2, <1>3, <1>4 DEF Archive!TypeOK
  <1>6. sent = Archive!Positions(Archive!First, Archive!First + Len(sent))
    <2> DEFINE f == Archive!First
    <2>1. f \in Int /\ f <= f
      BY BoundsFacts
    <2> HIDE DEF f
    <2>2. Len(sent) = 0
      BY <1>1
    <2>3. f + Len(sent) = f
      BY <2>1, <2>2
    <2>4. Archive!Positions(f, f) = <<>>
      BY <2>1, PositionsFacts
    <2> QED BY <1>1, <2>3, <2>4 DEF f
  <1>7. Archive!SentBytesAreVerified
    BY <1>1, <1>6 DEF Archive!SentBytesAreVerified
  <1> QED BY <1>5, <1>7

LEMMA AsarResult == AsarInvariant => Archive!TypeOK /\ Archive!SentBytesAreVerified
  BY FreshIsTyped, WritingIsTyped DEF AsarInvariant

\* Whatever the size of the file, the range and the chunks: the client gets the
\* bytes of the range once and in order, when the loader is done every block of
\* which a byte was sent has been hashed as a whole, and no intact file ends the
\* process, unless the loader has failed before the validator had its range
\* (AsarURLLoader::Start, AsarFileValidator::OnRead, FinishBlock, OnDone).
THEOREM BytesCorrect == ServicesSpec => []SentBytesAreVerified
  <1>1. ServicesInit => AsarInvariant
    BY AsarInit DEF ServicesInit
  <1>2. AsarInvariant /\ [ServicesNext]_serviceVars => AsarInvariant'
    BY AsarStep, AsarStutter DEF ServicesNext, serviceVars, Archive!NoStep
  <1>3. AsarInvariant => SentBytesAreVerified
    BY AsarResult DEF SentBytesAreVerified
  <1> QED BY <1>1, <1>2, <1>3, PTL DEF ServicesSpec
=============================================================================
