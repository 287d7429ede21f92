--------------------------- MODULE ProxyingRequest ---------------------------
(***************************************************************************)
(* An InProgressRequest of net/proxying_url_loader_factory.cc with its     *)
(* part of api/electron_api_web_request.cc: a request of a page that       *)
(* passes through the webRequest listeners of the application on its way   *)
(* to the network service and back.  It is driven by messages of three     *)
(* pipes (the page's, the network's client pipe and its header pipe), by   *)
(* the answers of listeners, which are posted as tasks, and pauses the     *)
(* pipes meanwhile.  A method that calls another one synchronously leaves  *)
(* it in running, and nothing else happens on the UI thread until it ran.  *)
(***************************************************************************)
EXTENDS Naturals, Sequences

CONSTANT MaxHops    \* bound: redirects

VARIABLES
    kind,               \* "header_client", "plain", or "preflight", which has the header client
    in_progress,        \* "new", "yes", or "no" when it was removed
    running,            \* <<continuation, error>> to run now, or Idle
    continuation,       \* callbacks_ of WebRequest for this request, or "none"
    asked_listeners,    \* response events JavaScript has not answered
    posted,             \* posted continuations
    redirect_url,       \* redirect_url_ is not empty
    override_redirect,  \* override_headers_ are those of a redirect
    follow_params,      \* pending_follow_redirect_params_ is set
    send_callback,      \* on_before_send_headers_callback_ is set
    received_callback,  \* on_headers_received_callback_ is set
    target_loader,      \* target_loader_ is bound
    client_receiver,    \* proxied_client_receiver_: "unbound", "bound", "paused"
    header_receiver,    \* header_client_receiver_: same
    target_client,      \* what the page has been told last
    network,            \* external: what the network service does for the request
    client_pipe,        \* messages on their way to proxied_client_receiver_
    header_pipe,        \* message on its way to header_client_receiver_, or "none"
    hops,               \* number of redirects
    target_factory,     \* target_factory_ is bound
    recreated,          \* history: a CORS redirect has made a new network loader
    network_lost,       \* history: the network service has crashed
    null_used           \* a callback or pipe was used that is not set

listenerVars == <<continuation, asked_listeners, posted, redirect_url, override_redirect>>
headerVars == <<send_callback, received_callback>>
pipeVars == <<client_receiver, header_receiver>>
networkVars == <<network, client_pipe, header_pipe>>
\* What few of the actions change.
lastingVars == <<target_factory, recreated, network_lost, null_used>>
requestVars == <<kind, in_progress, running, listenerVars, follow_params, headerVars,
                 target_loader, pipeVars, target_client, networkVars, hops, lastingVars>>

Idle == <<>>
ResponseEvents == {"onBeforeRequest", "onBeforeSendHeaders", "onHeadersReceived"}
Continuations == {"ContinueToStartRequest", "ContinueToBeforeSendHeaders",
                  "ContinueToSendHeaders", "ContinueToHandleOverrideHeaders",
                  "ContinueToResponseStarted", "ContinueToBeforeRedirect"}

UsesHeaderClient == kind # "plain"
ForCorsPreflight == kind = "preflight"

Init ==
    /\ kind \in {"header_client", "plain", "preflight"}
    /\ in_progress = "new" /\ running = Idle
    /\ continuation = "none" /\ asked_listeners = {} /\ posted = <<>>
    /\ redirect_url = FALSE /\ override_redirect = FALSE /\ follow_params = FALSE
    /\ send_callback = FALSE /\ received_callback = FALSE
    /\ target_loader = FALSE
    /\ client_receiver = "unbound" /\ header_receiver = "unbound"
    /\ target_client = "waiting"
    /\ network = "none" /\ client_pipe = <<>> /\ header_pipe = "none"
    /\ hops = 0
    /\ target_factory = TRUE
    /\ recreated = FALSE /\ network_lost = FALSE /\ null_used = FALSE

Ready == in_progress = "yes" /\ running = Idle /\ ~null_used
Runs(method) == in_progress = "yes" /\ running = <<method, "OK">> /\ ~null_used

Paused(receiver) == IF receiver = "bound" THEN "paused" ELSE receiver
Resumed(receiver) == IF receiver = "paused" THEN "bound" ELSE receiver

\* HandleResponseEvent with a listener for the URL: it is asked, and will
\* be answered by a task; without one, go on at once.
Ask(event, then) ==
    /\ continuation' = then
    /\ asked_listeners' = asked_listeners \cup {event}
    /\ running' = Idle
GoOn(then) ==
    /\ running' = <<then, "OK">>
    /\ UNCHANGED <<continuation, asked_listeners>>

\* What the page is told, if it may be told that now.
Tell(message) ==
    target_client' =
        IF ForCorsPreflight THEN target_client ELSE
        CASE message = "redirect" /\ target_client = "waiting"       -> "redirected"
          [] message = "response" /\ target_client = "waiting"       -> "responded"
          [] message = "complete" /\ target_client = "responded"     -> "complete"
          [] message = "error" /\ target_client # "complete"         -> "complete"
          [] OTHER                                                   -> "confused"

\* RemoveRequest and the destructor, which answers the header callbacks.
Remove ==
    /\ in_progress' = "no" /\ running' = Idle
    /\ continuation' = "none" /\ posted' = <<>>
    /\ send_callback' = FALSE /\ received_callback' = FALSE
    /\ client_receiver' = "unbound" /\ header_receiver' = "unbound" /\ target_loader' = FALSE
    /\ network' = "none" /\ client_pipe' = <<>> /\ header_pipe' = "none"
    /\ UNCHANGED <<kind, asked_listeners, redirect_url, override_redirect, follow_params, hops,
                   lastingVars>>

OnRequestError == Tell("error") /\ Remove
-----------------------------------------------------------------------------
(* The page's side. *)

\* RestartInternal: onBeforeRequest.  While it is blocked, both pipes are.
RestartInternal ==
    LET then == IF UsesHeaderClient THEN "ContinueToStartRequest"
                ELSE "ContinueToBeforeSendHeaders"
    IN  /\ redirect_url' = FALSE
        /\ \/ /\ Ask("onBeforeRequest", then)
              /\ client_receiver' = Paused(client_receiver)
              /\ header_receiver' = Paused(header_receiver)
           \/ GoOn(then) /\ UNCHANGED pipeVars

\* CreateLoaderAndStart.
CreateLoaderAndStart ==
    /\ in_progress = "new" /\ ~ForCorsPreflight
    /\ in_progress' = "yes"
    /\ RestartInternal
    /\ UNCHANGED <<kind, posted, override_redirect, follow_params, headerVars, target_loader,
                   target_client, networkVars, hops, lastingVars>>

\* OnLoaderForCorsPreflightCreated: the network has started already, and asks.
OnLoaderForCorsPreflightCreated ==
    /\ in_progress = "new" /\ ForCorsPreflight
    /\ in_progress' = "yes"
    /\ network' = "asking" /\ header_pipe' = "OnBeforeSendHeaders"
    /\ redirect_url' = FALSE
    /\ \/ Ask("onBeforeRequest", "ContinueToStartRequest") /\ header_receiver' = "paused"
       \/ GoOn("ContinueToStartRequest") /\ header_receiver' = "bound"
    /\ UNCHANGED <<kind, posted, override_redirect, follow_params, headerVars, target_loader,
                   client_receiver, target_client, client_pipe, hops, lastingVars>>

\* External: the network loader is told to follow its redirect; one that has
\* ended or crashed meanwhile does not.
Follows(to) == network' = IF network = "redirected" THEN to ELSE network

\* The page follows the redirect it was told of.  With the header client the
\* network follows at once, and asks when it comes to the headers.
FollowRedirect ==
    /\ Ready /\ target_client = "redirected"
    /\ target_client' = "waiting"
    /\ IF target_loader /\ UsesHeaderClient
       THEN Follows("following") /\ UNCHANGED follow_params
       ELSE follow_params' = (follow_params \/ target_loader) /\ UNCHANGED network
    /\ RestartInternal
    /\ UNCHANGED <<kind, in_progress, posted, override_redirect, headerVars, target_loader,
                   client_pipe, header_pipe, hops, lastingVars>>

\* The page goes away: one of its two pipes is disconnected.
OnClientDisconnected ==
    /\ Ready /\ ~ForCorsPreflight
    /\ OnRequestError
-----------------------------------------------------------------------------
(* WebRequest. *)

\* JavaScript answers an event.  The answer runs whatever continuation the
\* request has now.
OnListenerResult(event, answer) ==
    /\ Ready /\ event \in asked_listeners
    /\ asked_listeners' = asked_listeners \ {event}
    /\ IF continuation = "none" THEN UNCHANGED <<posted, redirect_url, override_redirect>>
       ELSE /\ posted' = Append(posted,
                            <<continuation, IF answer = "cancel" THEN "BLOCKED" ELSE "OK">>)
            /\ redirect_url' =
                  (redirect_url \/ (event = "onBeforeRequest" /\ answer = "redirect"))
            /\ override_redirect' =
                  (override_redirect \/ (event = "onHeadersReceived" /\ answer = "redirect"))
    /\ continuation' = "none"
    /\ UNCHANGED <<kind, in_progress, running, follow_params, headerVars, target_loader, pipeVars,
                   target_client, networkVars, hops, lastingVars>>

RunPosted ==
    /\ Ready /\ posted # <<>>
    /\ running' = Head(posted) /\ posted' = Tail(posted)
    /\ UNCHANGED <<kind, in_progress, continuation, asked_listeners, redirect_url,
                   override_redirect, follow_params, headerVars, target_loader, pipeVars,
                   target_client, networkVars, hops, lastingVars>>

ContinuationFails ==
    /\ in_progress = "yes" /\ running # Idle /\ ~null_used
    /\ running[2] # "OK"
    /\ OnRequestError
-----------------------------------------------------------------------------
(* The way to the network. *)

\* Redirected by a listener: give up the network loader and tell the page.
Disconnect ==
    /\ client_receiver' = "unbound" /\ header_receiver' = "unbound" /\ target_loader' = FALSE
    /\ network' = "none" /\ client_pipe' = <<>> /\ header_pipe' = "none"
    /\ running' = <<"ContinueToBeforeRedirect", "OK">>

HandleBeforeRequestRedirect ==
    /\ redirect_url
    /\ \/ Runs("ContinueToStartRequest") /\ UsesHeaderClient
       \/ Runs("ContinueToBeforeSendHeaders") /\ ~UsesHeaderClient
    /\ Disconnect
    /\ UNCHANGED <<kind, in_progress, listenerVars, follow_params, headerVars, target_client, hops,
                   lastingVars>>

\* A faulty ContinueToBeforeSendHeaders that does not wait for its listener.
ContinueToBeforeSendHeadersAtOnce ==
    /\ Runs("ContinueToBeforeSendHeaders")
    /\ UsesHeaderClient \/ ~redirect_url
    /\ client_receiver' = Resumed(client_receiver)
    /\ asked_listeners' = asked_listeners \cup {"onBeforeSendHeaders"}
    /\ running' = <<"ContinueToSendHeaders", "OK">>
    /\ UNCHANGED <<kind, in_progress, posted, redirect_url, override_redirect, follow_params,
                   headerVars, target_loader, header_receiver, target_client, networkVars, hops,
                   lastingVars, continuation>>

\* onBeforeSendHeaders.  The client pipe is resumed, also if it is blocked.
ContinueToBeforeSendHeaders ==
    /\ Runs("ContinueToBeforeSendHeaders")
    /\ UsesHeaderClient \/ ~redirect_url
    /\ client_receiver' = Resumed(client_receiver)
    /\ \/ Ask("onBeforeSendHeaders", "ContinueToSendHeaders")
       \/ GoOn("ContinueToSendHeaders")
    /\ UNCHANGED <<kind, in_progress, posted, redirect_url, override_redirect, follow_params,
                   headerVars, target_loader, header_receiver, target_client, networkVars, hops,
                   lastingVars>>

\* The headers go out: by answering the network, by following the redirect, or
\* with the loader that is still to be created.
ContinueToSendHeaders ==
    /\ Runs("ContinueToSendHeaders")
    /\ client_receiver' = Resumed(client_receiver)
    /\ IF UsesHeaderClient
       THEN /\ null_used' = ~send_callback
            /\ send_callback' = FALSE
            /\ network' = IF network = "asking" THEN "sent" ELSE network
            /\ running' = Idle
            /\ UNCHANGED follow_params
       ELSE /\ IF follow_params /\ target_loader THEN Follows("sent") ELSE UNCHANGED network
            /\ follow_params' = FALSE
            /\ running' = <<"ContinueToStartRequest", "OK">>
            /\ UNCHANGED <<send_callback, null_used>>
    /\ UNCHANGED <<kind, in_progress, listenerVars, received_callback, target_loader,
                   header_receiver, target_client, client_pipe, header_pipe, hops, target_factory,
                   recreated, network_lost>>

ContinueToStartRequest ==
    /\ Runs("ContinueToStartRequest")
    /\ ~(UsesHeaderClient /\ redirect_url)
    /\ header_receiver' = Resumed(header_receiver)
    /\ running' = Idle
    /\ IF ForCorsPreflight \/ target_loader \/ ~target_factory
       THEN /\ client_receiver' = Resumed(client_receiver)
            /\ UNCHANGED <<target_loader, network, client_pipe>>
       ELSE /\ target_loader' = TRUE /\ client_receiver' = "bound"
            /\ network' = IF UsesHeaderClient THEN "started" ELSE "sent"
            /\ client_pipe' = <<>>
    /\ UNCHANGED <<kind, in_progress, listenerVars, follow_params, headerVars, target_client,
                   header_pipe, hops, lastingVars>>
-----------------------------------------------------------------------------
(* The header pipe. *)

OnBeforeSendHeaders ==
    /\ Ready /\ header_receiver = "bound" /\ header_pipe = "OnBeforeSendHeaders"
    /\ header_pipe' = "none"
    /\ send_callback' = TRUE
    /\ running' = <<"ContinueToBeforeSendHeaders", "OK">>
    /\ UNCHANGED <<kind, in_progress, listenerVars, follow_params, received_callback,
                   target_loader, pipeVars, target_client, network, client_pipe, hops,
                   lastingVars>>

\* A faulty HandleResponseOrRedirectHeaders that lets the client pipe run on.
HandleHeadersUnpaused(then) ==
    /\ override_redirect' = FALSE /\ redirect_url' = FALSE
    /\ Ask("onHeadersReceived", then) \/ GoOn(then)
    /\ UNCHANGED <<posted, header_receiver, client_receiver>>

\* HandleResponseOrRedirectHeaders: onHeadersReceived.
HandleResponseOrRedirectHeaders(then) ==
    /\ override_redirect' = FALSE /\ redirect_url' = FALSE
    /\ \/ Ask("onHeadersReceived", then) /\ client_receiver' = Paused(client_receiver)
       \/ GoOn(then) /\ UNCHANGED client_receiver
    /\ UNCHANGED <<posted, header_receiver>>

OnHeadersReceived ==
    /\ Ready /\ header_receiver = "bound" /\ header_pipe = "OnHeadersReceived"
    /\ header_pipe' = "none"
    /\ received_callback' = TRUE
    /\ HandleResponseOrRedirectHeaders("ContinueToHandleOverrideHeaders")
    /\ UNCHANGED <<kind, in_progress, follow_params, send_callback, target_loader, target_client,
                   network, client_pipe, hops, lastingVars>>

\* The network is answered; a preflight is over, unless a proxy wants to be
\* authenticated first.  (The test for a redirected preflight cannot hold: its
\* redirect was run by HandleBeforeRequestRedirect.)
ContinueToHandleOverrideHeaders ==
    /\ Runs("ContinueToHandleOverrideHeaders")
    /\ \/ /\ ForCorsPreflight /\ received_callback
          /\ Remove
          /\ UNCHANGED target_client
       \/ /\ ForCorsPreflight => ~received_callback \/ hops < MaxHops
          /\ hops' = IF ForCorsPreflight THEN hops + 1 ELSE hops
          /\ null_used' = ~received_callback
          /\ received_callback' = FALSE
          /\ network' = IF network # "asking_received" THEN network
                        ELSE IF ForCorsPreflight THEN "following"
                        ELSE IF override_redirect THEN "overridden" ELSE "received"
          /\ override_redirect' = FALSE
          /\ client_receiver' = IF ForCorsPreflight THEN client_receiver
                                ELSE Resumed(client_receiver)
          /\ running' = Idle
          /\ UNCHANGED <<kind, in_progress, continuation, asked_listeners, posted, redirect_url,
                         follow_params, send_callback, target_loader, header_receiver,
                         target_client, client_pipe, header_pipe, target_factory, recreated,
                         network_lost>>
-----------------------------------------------------------------------------
(* The client pipe. *)

Receives(message) ==
    /\ Ready /\ client_receiver = "bound"
    /\ client_pipe # <<>> /\ Head(client_pipe) = message
    /\ client_pipe' = Tail(client_pipe)

\* OnReceiveResponse and OnReceiveRedirect: with the header client the
\* listeners have seen the headers.
OnReceive(message, then) ==
    /\ Receives(message)
    /\ IF UsesHeaderClient
       THEN GoOn(then) /\ UNCHANGED <<posted, redirect_url, override_redirect, pipeVars>>
       ELSE HandleResponseOrRedirectHeaders(then)
    /\ UNCHANGED <<kind, in_progress, follow_params, headerVars, target_loader, target_client,
                   network, header_pipe, hops, lastingVars>>
OnReceiveResponse == OnReceive("OnReceiveResponse", "ContinueToResponseStarted")
OnReceiveRedirect == OnReceive("OnReceiveRedirect", "ContinueToBeforeRedirect")

OnCompleteError ==
    /\ Ready /\ client_receiver = "bound"
    /\ client_pipe # <<>> /\ Head(client_pipe) = "OnCompleteError"
    /\ OnRequestError

OnComplete ==
    /\ Ready /\ client_receiver = "bound"
    /\ client_pipe # <<>> /\ Head(client_pipe) = "OnComplete"
    /\ Tell("complete") /\ Remove

\* A listener has turned the response into a redirect: the network is not told.
ResponseIsRedirect ==
    /\ Runs("ContinueToResponseStarted")
    /\ override_redirect
    /\ Disconnect
    /\ UNCHANGED <<kind, in_progress, listenerVars, follow_params, headerVars, target_client, hops,
                   lastingVars>>

ContinueToResponseStarted ==
    /\ Runs("ContinueToResponseStarted")
    /\ ~override_redirect
    /\ client_receiver' = Resumed(client_receiver)
    /\ Tell("response")
    /\ running' = Idle
    /\ UNCHANGED <<kind, in_progress, listenerVars, follow_params, headerVars, target_loader,
                   header_receiver, networkVars, hops, lastingVars>>

\* The page is told; a preflight has none.
ContinueToBeforeRedirect ==
    /\ Runs("ContinueToBeforeRedirect")
    /\ client_receiver' = Resumed(client_receiver)
    /\ Tell("redirect")
    /\ null_used' = ForCorsPreflight
    /\ hops' = hops + 1
    /\ running' = Idle
    /\ UNCHANGED <<kind, in_progress, listenerVars, follow_params, headerVars, target_loader,
                   header_receiver, networkVars, target_factory, recreated, network_lost>>
-----------------------------------------------------------------------------
(* External: the network service. *)

NetworkStep(from, to) ==
    /\ Ready /\ network \in from /\ network' = to
    /\ UNCHANGED <<kind, in_progress, running, listenerVars, follow_params, headerVars,
                   target_loader, client_receiver, target_client, hops, target_factory,
                   network_lost, null_used>>

\* OnLoaderCreated: a loader with the header client comes with a header pipe
\* of its own, and asks.  A CORS redirect may be followed with a new loader,
\* whose pipe is bound without regard to the one it replaces.
OnLoaderCreated ==
    /\ NetworkStep({"started", "following"}, "asking")
    /\ ~ForCorsPreflight
    /\ header_receiver' = "bound"
    /\ header_pipe' = "OnBeforeSendHeaders"
    /\ recreated' = (recreated \/ network = "following")
    /\ UNCHANGED client_pipe

AskToSendHeaders ==
    /\ NetworkStep({"following"}, "asking")
    /\ header_pipe' = "OnBeforeSendHeaders"
    /\ UNCHANGED <<header_receiver, client_pipe, recreated>>

AskToReceiveHeaders ==
    /\ kind # "plain"
    /\ NetworkStep({"sent"}, "asking_received")
    /\ header_pipe' = "OnHeadersReceived"
    /\ UNCHANGED <<header_receiver, client_pipe, recreated>>

SendToClient(from, to, message) ==
    /\ ~ForCorsPreflight
    /\ NetworkStep(from, to)
    /\ client_pipe' = Append(client_pipe, message)
    /\ UNCHANGED <<header_receiver, header_pipe, recreated>>

\* With the header client, "sent" is left for a redirect only in the case of
\* an HSTS upgrade.
Answered == IF kind = "plain" THEN {"sent", "received"} ELSE {"received"}
SendRedirect ==
    hops < MaxHops /\ SendToClient({"sent", "received", "overridden"}, "redirected", "OnReceiveRedirect")
SendResponse == SendToClient(Answered, "body", "OnReceiveResponse")
SendComplete == SendToClient({"body"}, "done", "OnComplete")
SendError == SendToClient({"started", "following", "asking", "sent", "asking_received",
                           "received", "overridden", "body", "redirected"}, "done",
                          "OnCompleteError")

\* The loader of a preflight goes away: its header pipe is disconnected.
OnPreflightDisconnected ==
    /\ Ready /\ ForCorsPreflight
    /\ OnRequestError

\* The network service crashes, and OnTargetFactoryError forgets the factory.
\* No disconnect handler is set on the client pipe.
NetworkCrash ==
    /\ ~network_lost /\ ~ForCorsPreflight
    /\ Ready
    /\ network_lost' = TRUE /\ target_factory' = FALSE
    /\ network' = (IF network = "none" THEN "none" ELSE "done") /\ header_pipe' = "none"
    /\ UNCHANGED <<kind, in_progress, running, listenerVars, follow_params, headerVars,
                   target_loader, pipeVars, target_client, client_pipe, hops, recreated,
                   null_used>>

\* OnProxyBindingError: the page has closed its last pipe to the factory (its
\* frame has another document, say), and the factory lives on for the request.
OnProxyBindingError ==
    /\ Ready /\ ~ForCorsPreflight /\ target_factory
    /\ target_factory' = FALSE
    /\ UNCHANGED <<kind, in_progress, running, listenerVars, follow_params, headerVars,
                   target_loader, pipeVars, target_client, networkVars, hops, recreated,
                   network_lost, null_used>>
-----------------------------------------------------------------------------
Answer == \E event \in ResponseEvents, answer \in {"proceed", "cancel", "redirect"} :
              /\ answer = "redirect" => hops < MaxHops
              /\ OnListenerResult(event, answer)

Methods ==
    \/ HandleBeforeRequestRedirect \/ ContinueToBeforeSendHeaders \/ ContinueToSendHeaders
    \/ ContinueToStartRequest \/ ContinueToHandleOverrideHeaders
    \/ ResponseIsRedirect \/ ContinueToResponseStarted \/ ContinueToBeforeRedirect
    \/ ContinuationFails

Messages ==
    \/ RunPosted \/ OnBeforeSendHeaders \/ OnHeadersReceived
    \/ OnReceiveResponse \/ OnReceiveRedirect \/ OnComplete \/ OnCompleteError

Network ==
    \/ OnLoaderCreated \/ AskToSendHeaders \/ AskToReceiveHeaders
    \/ SendRedirect \/ SendResponse \/ SendComplete \/ SendError

Next ==
    \/ CreateLoaderAndStart \/ OnLoaderForCorsPreflightCreated
    \/ FollowRedirect \/ OnClientDisconnected
    \/ Answer \/ Methods \/ Messages \/ Network
    \/ OnPreflightDisconnected \/ NetworkCrash \/ OnProxyBindingError

\* Calls return, messages arrive, the listeners answer, the network service
\* and the page go on.
Fairness ==
    /\ WF_requestVars(Methods) /\ WF_requestVars(Messages) /\ WF_requestVars(Network)
    /\ WF_requestVars(FollowRedirect)
    /\ \A event \in ResponseEvents :
          WF_requestVars(\E answer \in {"proceed", "cancel"} : OnListenerResult(event, answer))

NoStep == UNCHANGED requestVars
Spec == Init /\ [][Next]_requestVars /\ Fairness
-----------------------------------------------------------------------------
\* Types.
TypeOK ==
    /\ in_progress \in {"new", "yes", "no"}
    /\ running \in {Idle} \cup (Continuations \X {"OK", "BLOCKED"})
    /\ continuation \in Continuations \cup {"none"}
    /\ asked_listeners \subseteq ResponseEvents
    /\ {client_receiver, header_receiver} \subseteq {"unbound", "bound", "paused"}
    /\ hops \in Nat

\* The one request, for RequestService.
Status == [r \in {1} |->
    CASE in_progress = "new" -> "new"
      [] in_progress = "yes" -> "pending"
      [] in_progress = "no"  -> "answered"]

\* The exception to its answer: the target factory is gone, and the request that
\* was to start or, after a redirect, to start again goes on without a loader.
Stranded ==
    /\ Ready /\ ~ForCorsPreflight /\ ~target_factory /\ ~target_loader
    /\ continuation = "none" /\ posted = <<>> /\ target_client = "waiting"

\* The headers of a request leave only after every listener that was asked
\* about this hop has answered.  The exception: the new loader of a CORS
\* redirect, whose header pipe is not paused.
HeadersWaitForListeners ==
    [][network' = "sent" /\ network # "sent" =>
          {"onBeforeRequest", "onBeforeSendHeaders"} \cap asked_listeners' = {}
          \/ recreated]_requestVars

\* The page sees redirects, each of which it follows, one response and its
\* completion, in this order, or an error instead of what is left of them; and
\* the callbacks and pipes of the network and of the page are there when they
\* are used.  The exceptions: a redirected preflight, and again a new loader of a
\* CORS redirect.
PageIsNotConfused ==
    \/ recreated \/ (ForCorsPreflight /\ redirect_url)
    \/ target_client # "confused" /\ ~null_used

\* ContinueToBeforeSendHeaders: "CORS preflight doesn't support redirect."  A
\* listener that redirects one makes it fail.
PreflightsAreNotRedirected == ~(ForCorsPreflight /\ Runs("ContinueToBeforeRedirect"))
==============================================================================
