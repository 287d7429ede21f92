----------------------------- MODULE WebFrameMain -----------------------------
(***************************************************************************)
(* api/electron_api_web_frame_main.cc and the part of WebContents that     *)
(* drives it: the object JavaScript uses for a frame of a page.  A frame   *)
(* (tree node) has a host, which a navigation replaces: the new host is    *)
(* speculative until it is committed, and the old one lives on until its   *)
(* page is unloaded, or dies at once if its renderer has crashed.          *)
(* WebFrameMain is looked up by the frame, but keeps a raw pointer to a    *)
(* host and a pipe to the renderer of that host.  Prerendering and the     *)
(* back-forward cache are left out.                                        *)
(***************************************************************************)
EXTENDS Integers

CONSTANT Hosts      \* the hosts the frame has in turn, 1..n

VARIABLES
    host,           \* external: "none", "speculative", "current", "inactive" (while it
                    \* is unloaded), "sad" (current, but crashed), "deleted"
    live,           \* external: hosts that have a render frame in a renderer
    frame,          \* external: the frame is there, or "deleted"
    web_frame,      \* the object: "none", "yes", or "destroyed"
    render_frame,   \* render_frame_, or NoHost
    disposed,       \* render_frame_disposed_
    renderer_api,   \* renderer_api_ is bound
    receiver_at,    \* the other end: NoHost, Pending (pending_receiver_), or a host
    script,         \* executeJavaScript: "new", "running", "answered" or "dropped"
    script_at,      \* the host that runs it
    from_inactive   \* history: the object was made for a host that was being unloaded

frameVars == <<host, live, frame, web_frame, render_frame, disposed, renderer_api, receiver_at,
               script, script_at, from_inactive>>

NoHost == 0
Pending == -1

Init ==
    /\ host = [h \in Hosts |-> IF h = 1 THEN "current" ELSE "none"] /\ live = {}
    /\ frame = "yes"
    /\ web_frame = "none" /\ render_frame = NoHost /\ disposed = FALSE
    /\ renderer_api = FALSE /\ receiver_at = NoHost
    /\ script = "new" /\ script_at = NoHost /\ from_inactive = FALSE

Exists(h) == host[h] \in {"speculative", "current", "inactive", "sad"}
-----------------------------------------------------------------------------
(* The methods of the object, as functions of its pointer and pipe. *)

\* MaybeSetupMojoConnection; the receiver is passed on once the frame is live.
SetUp(pointer, at, alive) ==
    CASE at \notin {NoHost, Pending} -> at
      [] at \in {NoHost, Pending} /\ pointer \in alive -> pointer
      [] at \in {NoHost, Pending} /\ pointer \notin alive -> Pending

MaybeSetupMojoConnection(alive) ==
    IF disposed THEN UNCHANGED <<renderer_api, receiver_at>>
    ELSE renderer_api' = TRUE /\ receiver_at' = SetUp(render_frame, receiver_at, alive)

TeardownMojoConnection == renderer_api' = FALSE /\ receiver_at' = NoHost

MarkRenderFrameDisposed ==
    render_frame' = NoHost /\ disposed' = TRUE /\ TeardownMojoConnection

\* A faulty UpdateRenderFrameHost that keeps the pipe to the old renderer.
UpdateRenderFrameHostKeepsPipe(h) ==
    /\ disposed' = FALSE /\ render_frame' = h
    /\ renderer_api' = TRUE
    /\ receiver_at' = SetUp(h, receiver_at, live)

UpdateRenderFrameHost(h) ==
    /\ disposed' = FALSE /\ render_frame' = h
    /\ renderer_api' = TRUE
    /\ receiver_at' = SetUp(h, NoHost, live)

\* What becomes of the script if the renderer of host h goes away: the
\* callback is destroyed with its promise.
ScriptWithout(h) == IF script = "running" /\ script_at = h THEN "dropped" ELSE script
-----------------------------------------------------------------------------
(* WebContents, told by the content layer. *)

\* External: a navigation makes a host.
NavigationStarts(h) ==
    /\ frame = "yes" /\ host[h] = "none" /\ \A g \in Hosts : host[g] # "speculative"
    /\ \A g \in Hosts : g < h => host[g] # "none"
    /\ host' = [host EXCEPT ![h] = "speculative"]
    /\ UNCHANGED <<live, frame, web_frame, render_frame, disposed, renderer_api, receiver_at,
                   script, script_at, from_inactive>>

\* RenderFrameCreated and HandleNewRenderFrame.  A speculative host does too.
RenderFrameCreated(h) ==
    /\ host[h] \in {"speculative", "current"} /\ h \notin live
    /\ live' = live \cup {h}
    /\ IF web_frame = "yes" THEN MaybeSetupMojoConnection(live')
       ELSE UNCHANGED <<renderer_api, receiver_at>>
    /\ UNCHANGED <<host, frame, web_frame, render_frame, disposed, script, script_at,
                   from_inactive>>

\* RenderFrameHostChanged: the navigation is committed.  A host without a
\* render frame is deleted at once.
RenderFrameHostChanged(h) ==
    /\ host[h] = "speculative" /\ h \in live
    /\ host' = [g \in Hosts |->
                   CASE g = h -> "current"
                     [] g # h /\ host[g] \in {"current", "sad"} ->
                           IF g \in live THEN "inactive" ELSE "deleted"
                     [] OTHER -> host[g]]
    /\ IF web_frame = "yes" THEN UpdateRenderFrameHost(h)
       ELSE UNCHANGED <<render_frame, disposed, renderer_api, receiver_at>>
    /\ UNCHANGED <<live, frame, web_frame, script, script_at, from_inactive>>

\* A faulty RenderFrameDeleted that does not compare the hosts.
RenderFrameDeletedAny(h) ==
    /\ live' = live \ {h} /\ script' = ScriptWithout(h)
    /\ IF web_frame = "yes" THEN MarkRenderFrameDisposed
       ELSE UNCHANGED <<render_frame, disposed, renderer_api, receiver_at>>

\* RenderFrameDeleted, for a host that was live.
RenderFrameDeleted(h) ==
    /\ live' = live \ {h} /\ script' = ScriptWithout(h)
    /\ IF web_frame = "yes" /\ render_frame = h THEN MarkRenderFrameDisposed
       ELSE UNCHANGED <<render_frame, disposed, renderer_api, receiver_at>>

\* The renderer of a host crashes; the current host stays, until a navigation
\* brings another one.
RendererCrashes(h) ==
    /\ h \in live
    /\ host' = [host EXCEPT ![h] = IF @ = "current" THEN "sad" ELSE "deleted"]
    /\ RenderFrameDeleted(h)
    /\ UNCHANGED <<frame, web_frame, script_at, from_inactive>>

\* The old page is unloaded, or a navigation is given up.
HostGoes(h) ==
    /\ host[h] \in {"inactive", "speculative"}
    /\ host' = [host EXCEPT ![h] = "deleted"]
    /\ IF h \in live THEN RenderFrameDeleted(h)
       ELSE UNCHANGED <<live, script, render_frame, disposed, renderer_api, receiver_at>>
    /\ UNCHANGED <<frame, web_frame, script_at, from_inactive>>

\* The frame is removed: its host goes, then FrameDeleted destroys the object.
FrameDeleted ==
    /\ frame = "yes" /\ frame' = "deleted"
    /\ host' = [h \in Hosts |-> IF Exists(h) THEN "deleted" ELSE host[h]] /\ live' = {}
    /\ script' = IF script = "running" THEN "dropped" ELSE script
    /\ IF web_frame = "yes" THEN web_frame' = "destroyed" /\ MarkRenderFrameDisposed
       ELSE UNCHANGED <<web_frame, render_frame, disposed, renderer_api, receiver_at>>
    /\ UNCHANGED <<script_at, from_inactive>>

\* The renderer closes its end: OnRendererConnectionError.
OnRendererConnectionError ==
    /\ renderer_api /\ receiver_at \in Hosts
    /\ TeardownMojoConnection
    /\ UNCHANGED <<host, live, frame, web_frame, render_frame, disposed, script, script_at,
                   from_inactive>>
-----------------------------------------------------------------------------
(* JavaScript. *)

\* From, for the sender of an IPC message or a getter: an object is made for
\* the frame of host h, if it has none.
From(h) ==
    /\ host[h] \in {"current", "sad"} \/ (host[h] = "inactive" /\ h \in live)
    /\ web_frame = "none" /\ web_frame' = "yes"
    /\ render_frame' = h
    /\ from_inactive' = (host[h] = "inactive")
    /\ UNCHANGED <<host, live, frame, disposed, renderer_api, receiver_at, script, script_at>>

\* send and postMessage; a disposed frame throws.
Send ==
    /\ web_frame # "none" /\ ~disposed
    /\ MaybeSetupMojoConnection(live)
    /\ UNCHANGED <<host, live, frame, web_frame, render_frame, disposed, script, script_at,
                   from_inactive>>

ExecuteJavaScript ==
    /\ web_frame # "none" /\ script = "new"
    /\ script' = CASE disposed -> "answered"
                   [] ~disposed /\ render_frame \in live -> "running"
                   [] ~disposed /\ render_frame \notin live -> "dropped"
    /\ script_at' = render_frame
    /\ UNCHANGED <<host, live, frame, web_frame, render_frame, disposed, renderer_api,
                   receiver_at, from_inactive>>

\* External: the renderer has run the script.
ScriptReturns ==
    /\ script = "running" /\ script' = "answered"
    /\ UNCHANGED <<script_at, host, live, frame, web_frame, render_frame, disposed,
                   renderer_api, receiver_at, from_inactive>>
-----------------------------------------------------------------------------
Next ==
    \/ \E h \in Hosts :
          \/ NavigationStarts(h) \/ RenderFrameCreated(h) \/ RenderFrameHostChanged(h)
          \/ RendererCrashes(h) \/ HostGoes(h) \/ From(h)
    \/ FrameDeleted \/ OnRendererConnectionError
    \/ Send \/ ExecuteJavaScript \/ ScriptReturns

\* A renderer that is there runs the script in the end.
Fairness == WF_frameVars(ScriptReturns)
NoStep == UNCHANGED frameVars
Spec == Init /\ [][Next]_frameVars /\ Fairness
-----------------------------------------------------------------------------
\* Types.
TypeOK ==
    /\ host \in [Hosts -> {"none", "speculative", "current", "inactive", "sad", "deleted"}]
    /\ live \subseteq { h \in Hosts : Exists(h) }
    /\ web_frame \in {"none", "yes", "destroyed"}
    /\ render_frame \in Hosts \cup {NoHost}
    /\ {disposed, renderer_api, from_inactive} \subseteq BOOLEAN
    /\ receiver_at \in Hosts \cup {NoHost, Pending} /\ script_at \in Hosts \cup {NoHost}
    /\ script \in {"new", "running", "answered", "dropped"}

\* The script, for RequestService.
Status == [r \in {1} |-> IF script = "running" THEN "pending" ELSE script]

\* However navigations, crashes and unloading interleave: the raw pointer
\* never outlives its host, and is null exactly when the object is marked as
\* disposed; messages go to the renderer of the host it points to; and while
\* the frame has a live page, the object is that page's.  The exception: an
\* object that was made for the old host of a frame, by a message that the
\* old page sent while it was unloaded, stays with it until the next navigation.
FramesFollowTheirNode ==
    /\ render_frame # NoHost => Exists(render_frame)
    /\ web_frame # "none" => (disposed <=> render_frame = NoHost)
    /\ receiver_at \in Hosts => receiver_at = render_frame
    /\ web_frame = "yes" /\ ~from_inactive =>
          \A h \in live : host[h] = "current" => render_frame = h
==============================================================================
