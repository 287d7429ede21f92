-------------------------- MODULE ProxyingWebSocket --------------------------
(***************************************************************************)
(* net/proxying_websocket.cc: the handshake of a page's WebSocket passes   *)
(* through the webRequest listeners of the application.  The proxy is      *)
(* driven by messages of the network service (the handshake, the header    *)
(* and the authentication pipe, which are paused together), by the answers *)
(* of listeners, which are posted as tasks, and by the ends of both pipes, *)
(* and deletes itself.  CreateWebSocket of electron_browser_client.cc is   *)
(* the only caller and always asks for extra headers, so the header pipe   *)
(* is there once the request is started.                                   *)
(***************************************************************************)
EXTENDS Naturals

VARIABLES
    proxy,              \* "new", "yes", or "no" when it was deleted
    started,            \* the factory was run: the pipes and their handlers are set
    listener,           \* event a listener was asked for, not answered yet, or "none"
    ws_continuation,    \* callbacks_ of WebRequest for this id, or "none"
    ws_posted,          \* posted continuation and its result, or NoTask
    ws_paused,          \* the pipes of the network service are paused
    send_headers,       \* on_before_send_headers_callback_ is set
    headers_received,   \* on_headers_received_callback_ is set
    auth_required,      \* auth_required_callback_ is set
    ws_network,         \* external: the network's state, or the message it sent last
    ws_page,            \* external: "waiting", "connected", "failed" or "gone"
    reported,           \* how often listeners were told the end of the request
    passed              \* history: events no listener objected to

wsVars == <<proxy, started, listener, ws_continuation, ws_posted, ws_paused, send_headers,
            headers_received, auth_required, ws_network, ws_page, reported, passed>>

NoTask == <<"none", "none">>
WsEvents == {"onBeforeRequest", "onBeforeSendHeaders", "onHeadersReceived"}
WsContinuations == {"ContinueToStartRequest", "OnBeforeSendHeadersComplete",
                    "OnHeadersReceivedComplete", "OnHeadersReceivedCompleteForAuth"}
Messages == {"OnBeforeSendHeaders", "OnHeadersReceived", "OnAuthRequired",
             "OnConnectionEstablished", "disconnect"}

Init ==
    /\ proxy = "new" /\ started = FALSE
    /\ listener = "none" /\ ws_continuation = "none" /\ ws_posted = NoTask
    /\ ws_paused = FALSE
    /\ send_headers = FALSE /\ headers_received = FALSE /\ auth_required = FALSE
    /\ ws_network = "none" /\ ws_page = "waiting"
    /\ reported = 0 /\ passed = {}
-----------------------------------------------------------------------------
\* HandleResponseEvent of WebRequest with a listener, which answers later.
AskListener(event, then) ==
    /\ listener' = event /\ ws_continuation' = then
    /\ UNCHANGED passed

\* ... and without one: go on at once.
NoListener(event) ==
    passed' = passed \cup {event} /\ UNCHANGED <<listener, ws_continuation>>

\* delete this: the destructor answers the header callbacks, the pipes close.
Delete ==
    /\ proxy' = "no" /\ ws_posted' = NoTask /\ ws_paused' = FALSE
    /\ send_headers' = FALSE /\ headers_received' = FALSE /\ auth_required' = FALSE
    /\ ws_network' = "none"
    /\ UNCHANGED started

\* OnError, and OnErrorOccurred of WebRequest, which forgets the continuation.
OnError ==
    /\ reported' = reported + 1 /\ ws_continuation' = "none"
    /\ ws_page' = IF ws_page = "gone" THEN "gone" ELSE "failed"
    /\ Delete
    /\ UNCHANGED <<listener, passed>>

\* ContinueToStartRequest: the network service is asked.
ContinueToStartRequest ==
    started' = TRUE /\ ws_network' = "OnBeforeSendHeaders"

\* A faulty ContinueToCompleted that is not the end of the proxy.
ContinueToCompletedKeeps ==
    /\ reported' = reported + 1 /\ ws_continuation' = "none"
    /\ ws_page' = IF ws_page = "gone" THEN "gone" ELSE "connected"
    /\ ws_network' = "none"
    /\ UNCHANGED <<proxy, ws_posted, ws_paused, send_headers, headers_received, auth_required,
                   started, listener, passed>>

\* ContinueToCompleted: listeners are told, and the page gets its socket.
ContinueToCompleted ==
    /\ reported' = reported + 1 /\ ws_continuation' = "none"
    /\ ws_page' = IF ws_page = "gone" THEN "gone" ELSE "connected"
    /\ Delete
    /\ UNCHANGED <<listener, passed>>
-----------------------------------------------------------------------------
\* StartProxying and Start.
StartProxying ==
    /\ proxy = "new" /\ proxy' = "yes"
    /\ \/ /\ AskListener("onBeforeRequest", "ContinueToStartRequest")
          /\ UNCHANGED <<started, ws_network>>
       \/ NoListener("onBeforeRequest") /\ ContinueToStartRequest
    /\ UNCHANGED <<ws_posted, ws_paused, send_headers, headers_received, auth_required, ws_page,
                   reported>>

\* WebRequest::OnListenerResult: the continuation is posted, if there still is one.
OnListenerResult(result) ==
    /\ listener # "none" /\ listener' = "none"
    /\ IF ws_continuation = "none" THEN UNCHANGED <<ws_posted, ws_continuation>>
       ELSE ws_posted' = <<ws_continuation, result>> /\ ws_continuation' = "none"
    /\ passed' = IF ws_continuation # "none" /\ result = "OK"
                 THEN passed \cup {listener} ELSE passed
    /\ UNCHANGED <<proxy, started, ws_paused, send_headers, headers_received, auth_required,
                   ws_network, ws_page, reported>>

\* The network service's turn, once it has the answer it waits for.
Receives(message) ==
    proxy = "yes" /\ started /\ ~ws_paused /\ ws_network = message

\* OnBeforeSendHeaders and OnBeforeRequestComplete.
OnBeforeSendHeaders ==
    /\ Receives("OnBeforeSendHeaders")
    /\ \/ /\ AskListener("onBeforeSendHeaders", "OnBeforeSendHeadersComplete")
          /\ send_headers' = TRUE /\ ws_network' = "waiting"
       \/ /\ NoListener("onBeforeSendHeaders")
          /\ ws_network' = "handshake" /\ UNCHANGED send_headers
    /\ UNCHANGED <<proxy, started, ws_posted, ws_paused, headers_received, auth_required, ws_page,
                   reported>>

\* A faulty OnHeadersReceived that answers the network service before the listener has.
OnHeadersReceivedAtOnce ==
    /\ Receives("OnHeadersReceived")
    /\ \/ AskListener("onHeadersReceived", "OnHeadersReceivedComplete")
       \/ NoListener("onHeadersReceived")
    /\ ws_network' = "answered"
    /\ UNCHANGED <<proxy, started, ws_posted, ws_paused, send_headers, headers_received,
                   auth_required, ws_page, reported>>

\* OnHeadersReceived and ContinueToHeadersReceived: a listener pauses the pipes.
OnHeadersReceived ==
    /\ Receives("OnHeadersReceived")
    /\ \/ /\ AskListener("onHeadersReceived", "OnHeadersReceivedComplete")
          /\ headers_received' = TRUE /\ ws_network' = "waiting" /\ ws_paused' = TRUE
       \/ /\ NoListener("onHeadersReceived")
          /\ ws_network' = "answered" /\ UNCHANGED <<headers_received, ws_paused>>
    /\ UNCHANGED <<proxy, started, ws_posted, send_headers, auth_required, ws_page, reported>>

\* OnAuthRequired: the listener of onHeadersReceived is asked again.  Then
\* OnHeadersReceivedCompleteForAuth passes kIoPending to
\* OnAuthRequiredComplete, which only resumes the pipes.
OnAuthRequired ==
    /\ Receives("OnAuthRequired")
    /\ auth_required' = TRUE /\ ws_network' = "waiting"
    /\ \/ /\ AskListener("onHeadersReceived", "OnHeadersReceivedCompleteForAuth")
          /\ ws_paused' = TRUE
       \/ NoListener("onHeadersReceived") /\ UNCHANGED ws_paused
    /\ UNCHANGED <<proxy, started, ws_posted, send_headers, headers_received, ws_page, reported>>

OnConnectionEstablished == Receives("OnConnectionEstablished") /\ ContinueToCompleted

\* The ends of the pipes; the one of the page is not paused.
OnMojoConnectionErrorWithCustomReason == Receives("disconnect") /\ OnError
OnMojoConnectionError == proxy = "yes" /\ started /\ ws_page = "gone" /\ OnError

\* A posted continuation runs.
RunContinuation ==
    /\ proxy = "yes" /\ ws_posted # NoTask
    /\ IF ws_posted[2] # "OK" THEN OnError
       ELSE /\ ws_posted' = NoTask
            /\ CASE ws_posted[1] = "ContinueToStartRequest" ->
                       /\ ContinueToStartRequest
                       /\ UNCHANGED <<send_headers, headers_received, ws_paused>>
                 [] ws_posted[1] = "OnBeforeSendHeadersComplete" ->
                       /\ send_headers' = FALSE
                       /\ ws_network' = IF ws_network = "waiting" THEN "handshake" ELSE ws_network
                       /\ UNCHANGED <<started, headers_received, ws_paused>>
                 [] ws_posted[1] = "OnHeadersReceivedComplete" ->
                       /\ headers_received' = FALSE /\ ws_paused' = FALSE
                       /\ ws_network' = IF ws_network = "waiting" THEN "answered" ELSE ws_network
                       /\ UNCHANGED <<started, send_headers>>
                 [] ws_posted[1] = "OnHeadersReceivedCompleteForAuth" ->
                       /\ ws_paused' = FALSE
                       /\ UNCHANGED <<started, send_headers, headers_received, ws_network>>
            /\ UNCHANGED <<proxy, listener, ws_continuation, auth_required, ws_page, reported,
                           passed>>
-----------------------------------------------------------------------------
\* External: the network service goes on.  After a challenge (401) that is
\* answered it would start over; it may fail at any time.
NetworkSends(message) ==
    /\ \/ ws_network = "handshake" /\ message = "OnHeadersReceived"
       \/ ws_network = "answered" /\ message \in {"OnAuthRequired", "OnConnectionEstablished"}
       \/ ws_network \in {"waiting", "handshake", "answered"} /\ message = "disconnect"
    /\ ws_network' = message
    /\ UNCHANGED <<proxy, started, listener, ws_continuation, ws_posted, ws_paused, send_headers,
                   headers_received, auth_required, ws_page, reported, passed>>

\* External: the page goes away.
PageGoes ==
    /\ proxy = "yes" /\ ws_page = "waiting" /\ ws_page' = "gone"
    /\ UNCHANGED <<proxy, started, listener, ws_continuation, ws_posted, ws_paused, send_headers,
                   headers_received, auth_required, ws_network, reported, passed>>
-----------------------------------------------------------------------------
Task ==
    \/ OnBeforeSendHeaders \/ OnHeadersReceived \/ OnAuthRequired \/ OnConnectionEstablished
    \/ OnMojoConnectionErrorWithCustomReason \/ OnMojoConnectionError \/ RunContinuation
Answer == \E result \in {"OK", "ERR_BLOCKED_BY_CLIENT"} : OnListenerResult(result)
Handshake == ws_network # "waiting" /\ \E message \in Messages : NetworkSends(message)

Next ==
    \/ StartProxying
    \/ Task \/ Answer
    \/ \E message \in Messages : NetworkSends(message)
    \/ PageGoes

\* Tasks and messages are run, the network service goes on, and listeners
\* answer; otherwise the handshake waits for them.
Fairness == WF_wsVars(Task) /\ WF_wsVars(Answer) /\ WF_wsVars(Handshake)
NoStep == UNCHANGED wsVars
Spec == Init /\ [][Next]_wsVars /\ Fairness
-----------------------------------------------------------------------------
\* Types.
TypeOK ==
    /\ proxy \in {"new", "yes", "no"}
    /\ {started, ws_paused, send_headers, headers_received, auth_required} \subseteq BOOLEAN
    /\ listener \in WsEvents \cup {"none"}
    /\ ws_continuation \in WsContinuations \cup {"none"}
    /\ ws_network \in Messages \cup {"none", "waiting", "handshake", "answered"}
    /\ ws_page \in {"waiting", "connected", "failed", "gone"}
    /\ reported \in Nat /\ passed \subseteq WsEvents

\* The handshake, for RequestService.
Status == [r \in {1} |->
    CASE proxy = "new"                          -> "new"
      [] ws_page = "gone" /\ proxy # "new"      -> "dropped"
      [] ws_page = "waiting" /\ proxy = "yes"   -> "pending"
      [] OTHER                                  -> "answered"]

\* A page is connected only after no listener objected to any of the three
\* events, and listeners are told the end of a request exactly once, when the
\* proxy is deleted, whichever of the answers, messages and ends of pipes
\* came first.
SocketsWaitForListeners ==
    /\ ws_page = "connected" => passed = WsEvents /\ listener = "none"
    /\ reported = IF proxy = "no" THEN 1 ELSE 0

\* proxying_websocket.h, AuthRequiredResponse: "|callback| will be invoked when
\* the decision is made", and OnAuthRequiredComplete says NOTREACHED() where
\* it is not.  So a challenge is answered.
ChallengesAreAnswered == auth_required ~> ~auth_required
==============================================================================
