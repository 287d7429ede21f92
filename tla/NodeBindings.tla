----------------------------- MODULE NodeBindings -----------------------------
(***************************************************************************)
(* common/node_bindings.cc: Node's event loop inside Chromium's.  A thread *)
(* of its own polls libuv's loop; when something is ready it posts a task  *)
(* to the main thread, which runs the loop once without waiting and then   *)
(* lets the thread poll again, through a semaphore.  In a renderer, Node   *)
(* environments come and go with the frames (electron_renderer_client.cc), *)
(* and uv_env_ is the one the loop is run for.                             *)
(***************************************************************************)
EXTENDS Naturals, FiniteSets

CONSTANT Environments   \* the Node environments, 1..n in the order of creation

VARIABLES
    environments,   \* environments_ of the renderer client
    created,        \* number of environments so far
    uv_env,         \* uv_env_, or NoEnv
    initialized,    \* initialized_
    embed_sem,      \* embed_sem_
    embed_thread,   \* where the thread is
    embed_closed,   \* embed_closed_
    uv_tasks,       \* UvRunOnce tasks posted to the main thread
    main_thread,    \* what the main thread is doing
    uv_events,      \* external: the loop has events that are ready
    uv_async,       \* external: dummy_uv_handle_ was sent
    skipped         \* history: a UvRunOnce found no environment

nodeVars == <<environments, created, uv_env, initialized, embed_sem, embed_thread, embed_closed,
              uv_tasks, main_thread, uv_events, uv_async, skipped>>

NoEnv == 0

Init ==
    /\ environments = {} /\ created = 0 /\ uv_env = NoEnv
    /\ initialized = FALSE
    /\ embed_sem = 0 /\ embed_thread = "none" /\ embed_closed = FALSE
    /\ uv_tasks = 0 /\ main_thread = "idle"
    /\ uv_events = FALSE /\ uv_async = FALSE
    /\ skipped = FALSE
-----------------------------------------------------------------------------
(* The main thread. *)

\* A faulty StartPolling that runs the loop whenever it is called.
StartPollingAgain ==
    /\ initialized' = TRUE
    /\ main_thread' = "uv_run"

\* StartPolling: the first time, run the loop once.
StartPolling ==
    /\ initialized' = TRUE
    /\ main_thread' = IF initialized THEN "idle" ELSE "uv_run"

\* DidCreateScriptContext: the thread is created with the first environment;
\* an environment becomes uv_env_ if there is none.
DidCreateScriptContext ==
    /\ main_thread = "idle"
    /\ created + 1 \in Environments
    /\ created' = created + 1
    /\ environments' = environments \cup {created'}
    /\ embed_thread' = IF embed_thread = "none" THEN "waiting" ELSE embed_thread
    /\ IF uv_env = NoEnv THEN uv_env' = created' /\ StartPolling
       ELSE UNCHANGED <<uv_env, initialized, main_thread>>
    /\ UNCHANGED <<embed_sem, embed_closed, uv_tasks, uv_events, uv_async, skipped>>

\* A faulty WillReleaseScriptContext that leaves the loop with the freed environment.
WillReleaseScriptContextKeeps(e) ==
    /\ main_thread = "idle"
    /\ e \in environments
    /\ environments' = environments \ {e}
    /\ main_thread' = "freeing"
    /\ UNCHANGED <<created, uv_env, initialized, embed_sem, embed_thread, embed_closed, uv_tasks,
                   uv_events, uv_async, skipped>>

\* WillReleaseScriptContext up to FreeEnvironment ...
WillReleaseScriptContext(e) ==
    /\ main_thread = "idle"
    /\ e \in environments
    /\ environments' = environments \ {e}
    /\ uv_env' = IF e = uv_env THEN NoEnv ELSE uv_env
    /\ main_thread' = "freeing"
    /\ UNCHANGED <<created, initialized, embed_sem, embed_thread, embed_closed, uv_tasks,
                   uv_events, uv_async, skipped>>

\* ... which also runs the loop, whatever the thread is doing.
FreeEnvironment ==
    /\ main_thread = "freeing"
    /\ main_thread' = "idle"
    /\ uv_events' = FALSE /\ uv_async' = FALSE
    /\ UNCHANGED <<environments, created, uv_env, initialized, embed_sem, embed_thread,
                   embed_closed, uv_tasks, skipped>>

\* A posted UvRunOnce starts; without an environment it does nothing, and
\* does not tell the thread.
UvRunOnce ==
    /\ main_thread = "idle" /\ uv_tasks > 0
    /\ uv_tasks' = uv_tasks - 1
    /\ IF uv_env = NoEnv THEN skipped' = TRUE /\ UNCHANGED main_thread
       ELSE main_thread' = "uv_run" /\ UNCHANGED skipped
    /\ UNCHANGED <<environments, created, uv_env, initialized, embed_sem, embed_thread,
                   embed_closed, uv_events, uv_async>>

\* uv_run deals with the events, and the thread may poll again.
UvRunEnd ==
    /\ main_thread = "uv_run"
    /\ uv_events' = FALSE /\ uv_async' = FALSE
    /\ embed_sem' = embed_sem + 1
    /\ main_thread' = "idle"
    /\ UNCHANGED <<environments, created, uv_env, initialized, embed_thread, embed_closed,
                   uv_tasks, skipped>>

\* ~NodeBindings, once there is a thread: close, and wake it wherever it is.
Close ==
    /\ main_thread = "idle" /\ embed_thread # "none"
    /\ embed_closed' = TRUE
    /\ embed_sem' = embed_sem + 1
    /\ main_thread' = "closing"
    /\ UNCHANGED <<environments, created, uv_env, initialized, embed_thread, uv_tasks, uv_events,
                   uv_async, skipped>>

\* A faulty destructor that does not wake a poll.
CloseWithoutWakeup ==
    /\ main_thread = "closing"
    /\ main_thread' = "joining"
    /\ UNCHANGED <<environments, created, uv_env, initialized, embed_sem, embed_thread,
                   embed_closed, uv_tasks, uv_events, uv_async, skipped>>

WakeupEmbedThread ==
    /\ main_thread = "closing"
    /\ uv_async' = TRUE
    /\ main_thread' = "joining"
    /\ UNCHANGED <<environments, created, uv_env, initialized, embed_sem, embed_thread,
                   embed_closed, uv_tasks, uv_events, skipped>>

\* uv_thread_join returns; the tasks go with the weak pointers.
Joined ==
    /\ main_thread = "joining" /\ embed_thread = "gone"
    /\ main_thread' = "gone" /\ uv_tasks' = 0
    /\ UNCHANGED <<environments, created, uv_env, initialized, embed_sem, embed_thread,
                   embed_closed, uv_events, uv_async, skipped>>
-----------------------------------------------------------------------------
(* EmbedThreadRunner. *)

SemWait ==
    /\ embed_thread = "waiting" /\ embed_sem > 0
    /\ embed_sem' = embed_sem - 1
    /\ embed_thread' = IF embed_closed THEN "gone" ELSE "polling"
    /\ UNCHANGED <<environments, created, uv_env, initialized, embed_closed, uv_tasks,
                   main_thread, uv_events, uv_async, skipped>>

PollEvents ==
    /\ embed_thread = "polling" /\ (uv_events \/ uv_async)
    /\ embed_thread' = IF embed_closed THEN "gone" ELSE "waking"
    /\ UNCHANGED <<environments, created, uv_env, initialized, embed_sem, embed_closed, uv_tasks,
                   main_thread, uv_events, uv_async, skipped>>

WakeupMainThread ==
    /\ embed_thread = "waking"
    /\ uv_tasks' = uv_tasks + 1
    /\ embed_thread' = "waiting"
    /\ UNCHANGED <<environments, created, uv_env, initialized, embed_sem, embed_closed,
                   main_thread, uv_events, uv_async, skipped>>

\* External: I/O or a timer of an environment becomes ready.
EventIsReady ==
    /\ environments # {} /\ ~uv_events
    /\ uv_events' = TRUE
    /\ UNCHANGED <<environments, created, uv_env, initialized, embed_sem, embed_thread,
                   embed_closed, uv_tasks, main_thread, uv_async, skipped>>
-----------------------------------------------------------------------------
MainThread == UvRunOnce \/ UvRunEnd \/ FreeEnvironment \/ WakeupEmbedThread \/ Joined
EmbedThread == SemWait \/ PollEvents \/ WakeupMainThread

Next ==
    \/ DidCreateScriptContext \/ \E e \in Environments : WillReleaseScriptContext(e)
    \/ Close \/ MainThread \/ EmbedThread
    \/ EventIsReady

\* Both threads go on.
Fairness == WF_nodeVars(MainThread) /\ WF_nodeVars(EmbedThread)
NoStep == UNCHANGED nodeVars
Spec == Init /\ [][Next]_nodeVars /\ Fairness
-----------------------------------------------------------------------------
\* Types.
TypeOK ==
    /\ environments \subseteq Environments /\ created \in Environments \cup {0}
    /\ uv_env \in environments \cup {NoEnv}
    /\ embed_sem \in Nat /\ uv_tasks \in Nat
    /\ embed_thread \in {"none", "waiting", "polling", "waking", "gone"}
    /\ main_thread \in {"idle", "uv_run", "freeing", "closing", "joining", "gone"}

\* The loop is not thread safe: the thread does not poll, nor is about to,
\* while UvRunOnce runs it on the main thread.  (Freeing an environment is not
\* covered: it runs the loop while the thread may poll.)
OneThreadAtATime ==
    main_thread = "uv_run" => embed_thread = "waiting" /\ embed_sem = 0 /\ uv_tasks = 0

\* Events that are ready while the loop has an environment are dealt with.  The
\* exception: a UvRunOnce that ran between two environments was the last one.
EventsAreOver == ~uv_events \/ uv_env = NoEnv \/ skipped \/ embed_closed
===============================================================================
