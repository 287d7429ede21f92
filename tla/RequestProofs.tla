---------------------------- MODULE RequestProofs ----------------------------
(***************************************************************************)
(* Proofs about the requests of pages that pass through the webRequest     *)
(* listeners of the application, the handshake of a WebSocket and a        *)
(* request for a URL, and about the services as a whole.                   *)
(***************************************************************************)
EXTENDS ServicesProofs, ObjectProofs

-----------------------------------------------------------------------------
(* The proxied WebSocket.  At most one answer is outstanding, of the       *)
(* listener of the one continuation; while it is, the network service      *)
(* waits or has given up; and how far the handshake has come tells which   *)
(* events have passed.                                                     *)

EventOf(then) ==
    IF then = "none" THEN "none"
    ELSE IF then = "ContinueToStartRequest" THEN "onBeforeRequest"
    ELSE IF then = "OnBeforeSendHeadersComplete" THEN "onBeforeSendHeaders"
    ELSE "onHeadersReceived"
Outstanding(then) == ws_continuation = then \/ ws_posted[1] = then
SocketTypes ==
    /\ proxy \in {"new", "yes", "no"} /\ started \in BOOLEAN
    /\ ws_continuation \in Sockets!WsContinuations \cup {"none"}
    /\ ws_posted[1] \in Sockets!WsContinuations \cup {"none"}
    /\ ws_posted = <<ws_posted[1], ws_posted[2]>>
    /\ (ws_posted[1] = "none" <=> ws_posted = Sockets!NoTask)
    /\ passed \subseteq Sockets!WsEvents
    /\ reported = IF proxy = "no" THEN 1 ELSE 0
    /\ proxy # "yes" => ws_continuation = "none" /\ ws_posted[1] = "none" /\ ws_network = "none"
    /\ proxy = "new" => listener = "none" /\ started = FALSE
    /\ ws_page = "connected" => proxy = "no" /\ passed = Sockets!WsEvents /\ listener = "none"
SocketWaits ==
    /\ listener = EventOf(ws_continuation)
    /\ ws_continuation = "none" \/ ws_posted[1] = "none"
    /\ ~(ws_continuation = "none" /\ ws_posted[1] = "none") => ws_network \in {"none", "waiting", "disconnect"}
    /\ started = FALSE <=> Outstanding("ContinueToStartRequest")
    /\ started = FALSE => ws_network = "none"
SocketPassed ==
    /\ ws_posted[2] = "OK" => EventOf(ws_posted[1]) \in passed
    /\ started = TRUE => "onBeforeRequest" \in passed
    /\ Outstanding("OnHeadersReceivedComplete") \/ ws_network \in {"handshake", "OnHeadersReceived"}
          => "onBeforeSendHeaders" \in passed
    /\ ws_network \in {"answered", "OnAuthRequired", "OnConnectionEstablished"}
          => "onBeforeSendHeaders" \in passed /\ "onHeadersReceived" \in passed
SocketInvariant == SocketTypes /\ (proxy = "yes" => SocketWaits /\ SocketPassed)

LEMMA SocketInit == Sockets!Init => SocketInvariant
  <1> SUFFICES ASSUME Sockets!Init PROVE SocketInvariant
    OBVIOUS
  <1> USE DEF Sockets!Init
  <1>1. started \in BOOLEAN
    OBVIOUS
  <1>2. ws_posted = <<ws_posted[1], ws_posted[2]>> /\ ws_posted[1] = "none"
    BY DEF Sockets!NoTask
  <1>3. passed \subseteq Sockets!WsEvents /\ reported = IF proxy = "no" THEN 1 ELSE 0
    OBVIOUS
  <1>4. /\ ws_posted = Sockets!NoTask /\ proxy = "new" /\ ws_continuation = "none"
        /\ ws_network = "none" /\ listener = "none" /\ started = FALSE /\ ws_page = "waiting"
    OBVIOUS
  <1> QED BY ONLY <1>1, <1>2, <1>3, <1>4 DEF SocketInvariant, SocketTypes

\* The proxy is deleted, and its listeners are told.
LEMMA SocketDeleted ==
  ASSUME SocketInvariant, proxy = "yes", reported' = reported + 1, ws_continuation' = "none",
         Sockets!Delete, UNCHANGED <<listener, passed>>,
         ws_page' = "connected" => ws_network = "OnConnectionEstablished"
  PROVE  SocketInvariant'
  <1>1. /\ proxy' = "no" /\ ws_posted' = Sockets!NoTask /\ ws_network' = "none" /\ started' = started
    BY DEF Sockets!Delete
  <1>2. SocketTypes /\ SocketWaits /\ SocketPassed
    BY DEF SocketInvariant
  <1>3. reported' = 1
    BY <1>2 DEF SocketTypes
  <1>4. ws_network = "OnConnectionEstablished" => passed = Sockets!WsEvents /\ listener = "none"
    <2> SUFFICES ASSUME ws_network = "OnConnectionEstablished"
                 PROVE  passed = Sockets!WsEvents /\ listener = "none"
      OBVIOUS
    <2>1. ws_continuation = "none" /\ started = TRUE
      BY <1>2 DEF SocketTypes, SocketWaits
    <2>2. listener = "none"
      BY <1>2, <2>1 DEF SocketWaits, EventOf
    <2>3. Sockets!WsEvents \subseteq passed
      BY <1>2, <2>1 DEF SocketPassed, Sockets!WsEvents
    <2> QED BY <1>2, <2>2, <2>3 DEF SocketTypes
  <1>5. /\ ws_posted'[1] = "none" /\ ws_posted' = <<ws_posted'[1], ws_posted'[2]>>
    BY <1>1 DEF Sockets!NoTask
  <1> QED BY <1>1, <1>2, <1>3, <1>4, <1>5 DEF SocketInvariant, SocketTypes

LEMMA SocketError == ASSUME SocketInvariant, proxy = "yes", Sockets!OnError PROVE SocketInvariant'
  <1>1. ws_page' # "connected"
    BY DEF Sockets!OnError
  <1> QED BY <1>1, SocketDeleted DEF Sockets!OnError

LEMMA SocketConnected == ASSUME SocketInvariant, Sockets!OnConnectionEstablished PROVE SocketInvariant'
  BY SocketDeleted DEF Sockets!OnConnectionEstablished, Sockets!Receives, Sockets!ContinueToCompleted

LEMMA SocketStart == ASSUME SocketInvariant, Sockets!StartProxying PROVE SocketInvariant'
  <1> USE DEF Sockets!StartProxying
  <1>1. /\ proxy = "new" /\ proxy' = "yes" /\ UNCHANGED <<ws_posted, ws_page, reported>>
    OBVIOUS
  <1>2. /\ ws_continuation = "none" /\ ws_posted[1] = "none" /\ ws_network = "none"
        /\ listener = "none" /\ started = FALSE /\ ws_page # "connected" /\ reported = 0
        /\ SocketTypes /\ ws_posted[2] = "none"
    BY <1>1 DEF SocketInvariant, SocketTypes, Sockets!NoTask
  <1>3. CASE /\ listener' = "onBeforeRequest" /\ ws_continuation' = "ContinueToStartRequest"
             /\ UNCHANGED <<passed, started, ws_network>>
    <2>1. SocketTypes'
      BY <1>1, <1>2, <1>3 DEF SocketTypes, Sockets!WsContinuations
    <2>2. SocketWaits'
      BY <1>1, <1>2, <1>3 DEF SocketWaits, Outstanding, EventOf
    <2>3. SocketPassed'
      BY <1>1, <1>2, <1>3 DEF SocketPassed, Outstanding
    <2> QED BY <2>1, <2>2, <2>3 DEF SocketInvariant
  <1>4. CASE /\ passed' = passed \cup {"onBeforeRequest"} /\ UNCHANGED <<listener, ws_continuation>>
             /\ started' = TRUE /\ ws_network' = "OnBeforeSendHeaders"
    <2>1. SocketTypes'
      BY <1>1, <1>2, <1>4 DEF SocketTypes, Sockets!WsEvents
    <2>2. SocketWaits'
      BY <1>1, <1>2, <1>4 DEF SocketWaits, Outstanding, EventOf
    <2>3. SocketPassed'
      BY <1>1, <1>2, <1>4 DEF SocketPassed, Outstanding
    <2> QED BY <2>1, <2>2, <2>3 DEF SocketInvariant
  <1> QED BY <1>3, <1>4 DEF Sockets!AskListener, Sockets!NoListener, Sockets!ContinueToStartRequest

\* The listener's answer is posted, or comes too late.
LEMMA SocketAnswered ==
  ASSUME NEW r, r \in {"OK", "ERR_BLOCKED_BY_CLIENT"}, SocketInvariant, Sockets!OnListenerResult(r)
  PROVE  SocketInvariant'
  <1> USE DEF Sockets!OnListenerResult
  <1>1. /\ listener # "none" /\ listener' = "none"
        /\ UNCHANGED <<proxy, started, ws_network, ws_page, reported>>
    OBVIOUS
  <1>2. SocketTypes /\ (proxy = "yes" => SocketWaits /\ SocketPassed)
    BY DEF SocketInvariant
  <1>3. proxy # "new"
    BY <1>1, <1>2 DEF SocketTypes
  <1>4. CASE ws_continuation = "none"
    <2>1. UNCHANGED <<ws_posted, ws_continuation, passed>>
      BY <1>4
    <2>2. SocketTypes'
      BY <1>1, <1>2, <1>3, <2>1 DEF SocketTypes
    <2>3. proxy # "yes"
      BY <1>1, <1>2, <1>4 DEF SocketWaits, EventOf
    <2> QED BY <1>1, <2>2, <2>3 DEF SocketInvariant
  <1>5. CASE ws_continuation # "none"
    <2>1. /\ ws_posted' = <<ws_continuation, r>> /\ ws_continuation' = "none"
          /\ passed' = IF r = "OK" THEN passed \cup {listener} ELSE passed
      BY <1>5
    <2>2. proxy = "yes"
      BY <1>2, <1>3, <1>5 DEF SocketTypes
    <2>3. ws_continuation \in Sockets!WsContinuations /\ ws_page # "connected"
      BY <1>2, <1>5, <2>2 DEF SocketTypes
    <2>4. listener = EventOf(ws_continuation) /\ ws_posted[1] = "none" /\ SocketWaits /\ SocketPassed
      BY <1>2, <1>5, <2>2 DEF SocketWaits
    <2>5. listener \in Sockets!WsEvents
      BY <1>1, <2>4 DEF EventOf, Sockets!WsEvents
    <2>6. ws_posted'[1] = ws_continuation /\ ws_posted'[2] = r
      BY <2>1
    <2>7. SocketTypes'
      <3>1. passed' \subseteq Sockets!WsEvents
        BY <1>2, <2>1, <2>5 DEF SocketTypes
      <3>2. ws_posted'[1] # "none" /\ ws_posted' # Sockets!NoTask
        BY <1>5, <2>1, <2>6 DEF Sockets!NoTask
      <3>3. /\ ws_posted'[1] \in Sockets!WsContinuations /\ ws_posted' = <<ws_posted'[1], ws_posted'[2]>>
        BY <2>1, <2>3, <2>6
      <3> QED BY <1>1, <1>2, <2>1, <2>2, <2>3, <3>1, <3>2, <3>3 DEF SocketTypes
    <2>8. SocketWaits'
      BY <1>1, <1>5, <2>1, <2>4, <2>6 DEF SocketWaits, Outstanding, EventOf
    <2>9. SocketPassed'
      <3>1. passed \subseteq passed' /\ (r = "OK" => EventOf(ws_continuation) \in passed')
        BY <2>1, <2>4
      <3> QED BY <1>1, <2>1, <2>4, <2>6, <3>1 DEF SocketPassed, Outstanding, EventOf
    <2> QED BY <1>1, <2>7, <2>8, <2>9 DEF SocketInvariant
  <1> QED BY <1>4, <1>5

\* A message of the network service is handled: its listener is asked, or it is answered at once.
LEMMA SocketAsks ==
  ASSUME NEW event \in {"onBeforeSendHeaders", "onHeadersReceived"},
         NEW then \in {"OnBeforeSendHeadersComplete", "OnHeadersReceivedComplete",
                       "OnHeadersReceivedCompleteForAuth"},
         EventOf(then) = event, then # "OnBeforeSendHeadersComplete" => "onBeforeSendHeaders" \in passed,
         SocketInvariant, proxy = "yes", started = TRUE,
         ws_network \in {"OnBeforeSendHeaders", "OnHeadersReceived", "OnAuthRequired"},
         Sockets!AskListener(event, then), ws_network' = "waiting",
         UNCHANGED <<proxy, started, ws_posted, ws_page, reported>>
  PROVE  SocketInvariant'
  <1>1. SocketTypes /\ SocketWaits /\ SocketPassed
    BY DEF SocketInvariant
  <1>2. listener' = event /\ ws_continuation' = then /\ passed' = passed
    BY DEF Sockets!AskListener
  <1>3. ws_continuation = "none" /\ ws_posted[1] = "none" /\ ws_page # "connected"
    BY <1>1 DEF SocketWaits, SocketTypes
  <1>4. SocketTypes'
    BY <1>1, <1>2, <1>3 DEF SocketTypes, Sockets!WsContinuations
  <1>5. SocketWaits'
    BY <1>1, <1>2, <1>3 DEF SocketWaits, Outstanding
  <1>6. SocketPassed'
    BY <1>1, <1>2, <1>3 DEF SocketPassed, Outstanding
  <1> QED BY <1>4, <1>5, <1>6 DEF SocketInvariant

LEMMA SocketGoesOn ==
  ASSUME NEW event \in {"onBeforeSendHeaders", "onHeadersReceived"},
         SocketInvariant, proxy = "yes", started = TRUE,
         ws_network \in {"OnBeforeSendHeaders", "OnHeadersReceived", "OnAuthRequired"},
         ws_network' \in {"handshake", "answered", "waiting"},
         ws_network' = "handshake" => event = "onBeforeSendHeaders",
         ws_network' = "answered" => event = "onHeadersReceived" /\ "onBeforeSendHeaders" \in passed,
         Sockets!NoListener(event), UNCHANGED <<proxy, started, ws_posted, ws_page, reported>>
  PROVE  SocketInvariant'
  <1>1. SocketTypes /\ SocketWaits /\ SocketPassed
    BY DEF SocketInvariant
  <1>2. passed' = passed \cup {event} /\ UNCHANGED <<listener, ws_continuation>>
    BY DEF Sockets!NoListener
  <1>3. ws_continuation = "none" /\ ws_posted[1] = "none" /\ ws_page # "connected"
    BY <1>1 DEF SocketWaits, SocketTypes
  <1>4. SocketTypes'
    BY <1>1, <1>2, <1>3 DEF SocketTypes, Sockets!WsEvents
  <1>5. SocketWaits'
    BY <1>1, <1>2, <1>3 DEF SocketWaits, Outstanding, EventOf
  <1>6. SocketPassed'
    BY <1>1, <1>2, <1>3 DEF SocketPassed, Outstanding
  <1> QED BY <1>4, <1>5, <1>6 DEF SocketInvariant

LEMMA SocketHeaders == ASSUME SocketInvariant, Sockets!OnBeforeSendHeaders PROVE SocketInvariant'
  <1> USE DEF Sockets!OnBeforeSendHeaders, Sockets!Receives
  <1>1. CASE Sockets!AskListener("onBeforeSendHeaders", "OnBeforeSendHeadersComplete") /\ ws_network' = "waiting"
    BY <1>1, SocketAsks, EventOf("OnBeforeSendHeadersComplete") = "onBeforeSendHeaders" DEF EventOf
  <1>2. CASE Sockets!NoListener("onBeforeSendHeaders") /\ ws_network' = "handshake"
    BY <1>2, SocketGoesOn
  <1> QED BY <1>1, <1>2

LEMMA SocketReceived == ASSUME SocketInvariant, Sockets!OnHeadersReceived PROVE SocketInvariant'
  <1> USE DEF Sockets!OnHeadersReceived, Sockets!Receives
  <1>1. "onBeforeSendHeaders" \in passed
    BY DEF SocketInvariant, SocketPassed
  <1>2. CASE Sockets!AskListener("onHeadersReceived", "OnHeadersReceivedComplete") /\ ws_network' = "waiting"
    BY <1>1, <1>2, SocketAsks, EventOf("OnHeadersReceivedComplete") = "onHeadersReceived" DEF EventOf
  <1>3. CASE Sockets!NoListener("onHeadersReceived") /\ ws_network' = "answered"
    BY <1>1, <1>3, SocketGoesOn
  <1> QED BY <1>2, <1>3

LEMMA SocketAuth == ASSUME SocketInvariant, Sockets!OnAuthRequired PROVE SocketInvariant'
  <1> USE DEF Sockets!OnAuthRequired, Sockets!Receives
  <1>1. "onBeforeSendHeaders" \in passed
    BY DEF SocketInvariant, SocketPassed
  <1>2. CASE Sockets!AskListener("onHeadersReceived", "OnHeadersReceivedCompleteForAuth")
    BY <1>1, <1>2, SocketAsks, EventOf("OnHeadersReceivedCompleteForAuth") = "onHeadersReceived" DEF EventOf
  <1>3. CASE Sockets!NoListener("onHeadersReceived")
    BY <1>1, <1>3, SocketGoesOn
  <1> QED BY <1>2, <1>3

LEMMA SocketRuns == ASSUME SocketInvariant, Sockets!RunContinuation PROVE SocketInvariant'
  <1> USE DEF Sockets!RunContinuation
  <1>1. CASE ws_posted[2] # "OK"
    BY <1>1, SocketError
  <1>2. CASE ws_posted[2] = "OK"
    <2>1. /\ proxy = "yes" /\ ws_posted # Sockets!NoTask /\ ws_posted' = Sockets!NoTask
          /\ UNCHANGED <<proxy, listener, ws_continuation, ws_page, reported, passed>>
      BY <1>2
    <2>2. SocketTypes /\ SocketWaits /\ SocketPassed
      BY <2>1 DEF SocketInvariant
    <2>3. /\ ws_posted[1] \in Sockets!WsContinuations /\ EventOf(ws_posted[1]) \in passed
          /\ ws_continuation = "none" /\ ws_page # "connected"
          /\ ws_network \in {"none", "waiting", "disconnect"}
      BY <1>2, <2>1, <2>2 DEF SocketTypes, SocketWaits, SocketPassed
    <2>4. ws_posted'[1] = "none" /\ ws_posted'[2] = "none" /\ ws_posted' = <<ws_posted'[1], ws_posted'[2]>>
      BY <2>1 DEF Sockets!NoTask
    <2>5. CASE ws_posted[1] = "ContinueToStartRequest"
      <3>1. started' = TRUE /\ ws_network' = "OnBeforeSendHeaders"
        BY <1>2, <2>5 DEF Sockets!ContinueToStartRequest
      <3>2. SocketTypes'
        BY <2>1, <2>2, <2>3, <2>4, <3>1 DEF SocketTypes
      <3>3. SocketWaits'
        BY <2>1, <2>2, <2>3, <2>4, <3>1 DEF SocketWaits, Outstanding
      <3>4. SocketPassed'
        BY <2>1, <2>2, <2>3, <2>4, <2>5, <3>1 DEF SocketPassed, Outstanding, EventOf
      <3> QED BY <3>2, <3>3, <3>4 DEF SocketInvariant
    <2>6. CASE ws_posted[1] # "ContinueToStartRequest"
      <3>1. /\ started' = started
            /\ \/ ws_network' = ws_network
               \/ ws_posted[1] = "OnBeforeSendHeadersComplete" /\ ws_network' = "handshake"
               \/ ws_posted[1] = "OnHeadersReceivedComplete" /\ ws_network' = "answered"
        BY <1>2, <2>3, <2>6 DEF Sockets!WsContinuations
      <3>2. started = TRUE
        BY <2>2, <2>3, <2>6 DEF SocketTypes, SocketWaits, Outstanding
      <3>3. SocketTypes'
        BY <2>1, <2>2, <2>3, <2>4, <3>1 DEF SocketTypes
      <3>4. SocketWaits'
        BY <2>1, <2>2, <2>3, <2>4, <3>1, <3>2 DEF SocketWaits, Outstanding
      <3>5. SocketPassed'
        <4>1. "onBeforeRequest" \in passed /\ ws_posted'[2] # "OK"
          BY <2>2, <2>4, <3>2 DEF SocketPassed
        <4>2. ws_posted[1] = "OnHeadersReceivedComplete" => "onBeforeSendHeaders" \in passed
          BY <2>2 DEF SocketPassed, Outstanding
        <4>3. ~Outstanding("OnHeadersReceivedComplete")'
          BY <2>1, <2>3, <2>4 DEF Outstanding
        <4> QED BY <2>1, <2>3, <3>1, <4>1, <4>2, <4>3 DEF SocketPassed, EventOf
      <3> QED BY <3>3, <3>4, <3>5 DEF SocketInvariant
    <2> QED BY <2>5, <2>6
  <1> QED BY <1>1, <1>2

LEMMA SocketNetwork == ASSUME NEW message, SocketInvariant, Sockets!NetworkSends(message) PROVE SocketInvariant'
  <1> USE DEF Sockets!NetworkSends
  <1>1. /\ ws_network \in {"handshake", "answered", "waiting"}
        /\ ws_network' \in {"OnHeadersReceived", "OnAuthRequired", "OnConnectionEstablished", "disconnect"}
        /\ ws_network' = "OnHeadersReceived" => ws_network = "handshake"
        /\ ws_network' \in {"OnAuthRequired", "OnConnectionEstablished"} => ws_network = "answered"
        /\ ws_network = "waiting" => ws_network' = "disconnect"
        /\ UNCHANGED <<proxy, started, listener, ws_continuation, ws_posted, ws_page, reported, passed>>
    OBVIOUS
  <1>2. SocketTypes /\ (proxy = "yes" => SocketWaits /\ SocketPassed)
    BY DEF SocketInvariant
  <1>3. proxy = "yes" /\ SocketWaits /\ SocketPassed
    BY <1>1, <1>2 DEF SocketTypes
  <1>4. SocketTypes'
    BY <1>1, <1>2, <1>3 DEF SocketTypes
  <1>5. SocketWaits'
    BY <1>1, <1>3 DEF SocketWaits, Outstanding
  <1>6. SocketPassed'
    BY <1>1, <1>3 DEF SocketPassed, Outstanding
  <1> QED BY <1>4, <1>5, <1>6 DEF SocketInvariant

LEMMA SocketKept ==
  ASSUME SocketInvariant, ws_page' # "connected" \/ ws_page' = ws_page,
         UNCHANGED <<proxy, started, listener, ws_continuation, ws_posted, ws_network, reported, passed>>
  PROVE  SocketInvariant'
  <1>1. SocketTypes'
    BY DEF SocketInvariant, SocketTypes
  <1>2. proxy' = "yes" => SocketWaits' /\ SocketPassed'
    BY DEF SocketInvariant, SocketWaits, SocketPassed, Outstanding
  <1> QED BY <1>1, <1>2 DEF SocketInvariant

LEMMA SocketPage == ASSUME SocketInvariant, Sockets!PageGoes PROVE SocketInvariant'
  BY SocketKept DEF Sockets!PageGoes

LEMMA SocketEnds ==
  ASSUME SocketInvariant,
         Sockets!OnMojoConnectionErrorWithCustomReason \/ Sockets!OnMojoConnectionError
  PROVE  SocketInvariant'
  BY SocketError DEF Sockets!OnMojoConnectionErrorWithCustomReason, Sockets!OnMojoConnectionError, Sockets!Receives

LEMMA SocketStep == SocketInvariant /\ Sockets!Next => SocketInvariant'
  BY SocketStart, SocketAnswered, SocketHeaders, SocketReceived, SocketAuth, SocketConnected, SocketEnds,
     SocketRuns, SocketNetwork, SocketPage
     DEF Sockets!Next, Sockets!Task, Sockets!Answer

LEMMA SocketStutter == SocketInvariant /\ Sockets!NoStep => SocketInvariant'
  BY SocketKept DEF Sockets!NoStep, Sockets!wsVars

LEMMA SocketSafe == SocketInvariant => Sockets!SocketsWaitForListeners
  BY DEF SocketInvariant, SocketTypes, Sockets!SocketsWaitForListeners

-----------------------------------------------------------------------------
(* A request for a URL.  Its next step is one continuation, which runs,    *)
(* waits for a listener or is posted.  What the page has been told, the    *)
(* messages on the client pipe and the state of the network service tell   *)
(* how far the request has come; which continuation it can be follows from *)
(* that, and so do the header callbacks that are set.  After a CORS        *)
(* redirect with a new loader none of this holds.                          *)

One(m) == <<m>>
Two(m, n) == <<m, n>>

Turn == IF running # Proxying!Idle THEN running[1]
        ELSE IF continuation # "none" THEN continuation
        ELSE IF posted # <<>> THEN posted[1][1] ELSE "none"
Held == running = Proxying!Idle

AskedFor(c) ==
    IF c \in {"ContinueToStartRequest", "ContinueToBeforeSendHeaders"} THEN "onBeforeRequest"
    ELSE IF c = "ContinueToSendHeaders" THEN "onBeforeSendHeaders" ELSE "onHeadersReceived"

\* A continuation and its result.
IsTask(p) == \E c \in Proxying!Continuations, r \in {"OK", "BLOCKED"} : p = Two(c, r)
OneTurn ==
    /\ running = Proxying!Idle \/ IsTask(running)
    /\ continuation \in Proxying!Continuations \cup {"none"}
    /\ posted = <<>> \/ \E p : IsTask(p) /\ posted = One(p)
    /\ running # Proxying!Idle => continuation = "none" /\ posted = <<>>
    /\ continuation # "none" => posted = <<>>
    /\ asked_listeners = IF continuation = "none" THEN {} ELSE {AskedFor(continuation)}

\* The client pipe holds first, and then perhaps the error that ends a
\* network loader in the state n; or it holds the end of a body as well.
Ends(n) == \/ client_pipe = <<>> /\ network \in {n, "done"}
           \/ client_pipe = One("OnCompleteError") /\ network = "done"
EndsAfter(m, n) == \/ client_pipe = One(m) /\ network \in {n, "done"}
                   \/ client_pipe = Two(m, "OnCompleteError") /\ network = "done"
NoLoader == client_pipe = <<>> /\ network = "none"
Sending == {"started", "sent", "received", "overridden"}
Early == \/ NoLoader
         \/ \E n \in Sending \cup {"following", "asking", "asking_received", "redirected"} : Ends(n)

Stage ==
    \/ /\ target_client = "waiting" /\ Early
       /\ Turn \notin {"ContinueToResponseStarted", "ContinueToBeforeRedirect"}
    \/ /\ target_client = "waiting" /\ Turn = "none"
       /\ \/ EndsAfter("OnReceiveRedirect", "redirected") \/ EndsAfter("OnReceiveResponse", "body")
          \/ client_pipe = Two("OnReceiveResponse", "OnComplete") /\ network = "done"
    \/ /\ \/ target_client = "waiting" /\ Turn = "ContinueToBeforeRedirect"
          \/ target_client = "redirected" /\ Turn = "none"
       /\ Ends("redirected") \/ NoLoader
    \/ /\ \/ target_client = "waiting" /\ Turn = "ContinueToResponseStarted"
          \/ target_client = "responded" /\ Turn = "none"
       /\ Ends("body") \/ (client_pipe = One("OnComplete") /\ network = "done")
NetworkWaits ==
    /\ network \in Sending => Turn = "none" \/ (kind = "plain" /\ Turn = "ContinueToStartRequest" /\ ~Held)
    /\ network = "following" => Turn \in {"none", "ContinueToStartRequest"}
    /\ Turn = "ContinueToResponseStarted" /\ Held => client_receiver # "bound"
    /\ target_loader = FALSE /\ kind # "preflight" => NoLoader /\ header_pipe = "none"
HeadersWait ==
    /\ header_pipe \in {"none", "OnBeforeSendHeaders", "OnHeadersReceived"}
    /\ header_pipe # "none" => target_client = "waiting" /\ client_pipe \in {<<>>, One("OnCompleteError")}
    /\ header_pipe = "OnBeforeSendHeaders" =>
          network \in {"asking", "done"} /\ Turn \in {"none", "ContinueToStartRequest"}
    /\ header_pipe = "OnHeadersReceived" => network \in {"asking_received", "done"} /\ Turn = "none"
    /\ Turn = "ContinueToStartRequest" /\ Held => header_receiver # "bound"
    /\ Turn \in {"ContinueToBeforeSendHeaders", "ContinueToSendHeaders"} =>
          kind = "plain" \/ (send_callback = TRUE /\ network \in {"asking", "done"})
    /\ Turn = "ContinueToHandleOverrideHeaders" =>
          kind # "plain" /\ received_callback = TRUE /\ network \in {"asking_received", "done"}
    /\ kind = "plain" => /\ header_pipe = "none" /\ network \notin {"started", "following"}
                         /\ Turn = "ContinueToStartRequest" => ~Held
Preflights ==
    kind = "preflight" =>
        /\ client_pipe = <<>> /\ target_client = "waiting" /\ network # "done"
        /\ Turn # "ContinueToResponseStarted" /\ continuation # "ContinueToBeforeSendHeaders"
        /\ Turn = "ContinueToBeforeRedirect" => redirect_url = TRUE
        /\ redirect_url = TRUE => /\ continuation = "none"
                                  /\ Turn \in {"ContinueToStartRequest", "ContinueToBeforeRedirect"}
RequestTypes ==
    /\ kind \in {"header_client", "plain", "preflight"} /\ target_client # "confused"
    /\ in_progress \in {"new", "yes", "no"}
    /\ null_used = TRUE => kind = "preflight" /\ redirect_url = TRUE
RequestFlags == {null_used, redirect_url, target_loader} \subseteq BOOLEAN
RequestNew ==
    /\ running = Proxying!Idle /\ continuation = "none" /\ asked_listeners = {} /\ posted = <<>>
    /\ target_client = "waiting" /\ NoLoader /\ header_pipe = "none"
    /\ redirect_url = FALSE /\ target_loader = FALSE /\ null_used = FALSE
RequestShape == OneTurn /\ Stage /\ NetworkWaits /\ HeadersWait /\ Preflights
RequestInvariant ==
    \/ recreated = TRUE
    \/ /\ recreated = FALSE /\ RequestTypes /\ RequestFlags
       /\ in_progress = "new" => RequestNew
       /\ in_progress = "yes" /\ null_used = FALSE => RequestShape

LEMMA MessageAppend ==
  ASSUME NEW S, NEW s \in Seq(S), NEW e \in S
  PROVE  /\ Append(s, e) \in Seq(S) /\ Len(Append(s, e)) = Len(s) + 1 /\ Append(s, e)[Len(s) + 1] = e
         /\ \A i \in 1..Len(s) : Append(s, e)[i] = s[i]
  OBVIOUS

LEMMA PipeFacts ==
  /\ \A m : One(m) # <<>> /\ Head(One(m)) = m /\ Tail(One(m)) = <<>> /\ Append(<<>>, m) = One(m) /\ One(m)[1] = m
  /\ \A m, n : /\ Two(m, n) # <<>> /\ Head(Two(m, n)) = m /\ Tail(Two(m, n)) = One(n)
               /\ Append(One(m), n) = Two(m, n) /\ Two(m, n)[1] = m /\ Two(m, n)[2] = n
  /\ \A m, n, x : Two(m, n) # One(x)
  <1>1. \A m : One(m) # <<>> /\ Head(One(m)) = m /\ Tail(One(m)) = <<>> /\ Append(<<>>, m) = One(m) /\ One(m)[1] = m
    BY DEF One
  <1>2. \A m, n : Two(m, n) # <<>> /\ Head(Two(m, n)) = m /\ Two(m, n)[1] = m /\ Two(m, n)[2] = n
    BY DEF Two
  <1>3. ASSUME NEW m, NEW n PROVE Tail(Two(m, n)) = One(n)
    <2>1. Two(m, n) \in Seq({m, n}) /\ Len(Two(m, n)) = 2 /\ Two(m, n)[2] = n
      BY DEF Two
    <2>2. One(n) \in Seq({m, n}) /\ Len(One(n)) = 1 /\ One(n)[1] = n
      BY DEF One
    <2> DEFINE t == Tail(Two(m, n))
    <2>3. t \in Seq({m, n}) /\ Len(t) = 1 /\ t[1] = n
      BY <2>1
    <2> HIDE DEF t
    <2>4. t = One(n)
      BY <2>2, <2>3
    <2> QED BY <2>4 DEF t
  <1>4. ASSUME NEW m, NEW n PROVE Append(One(m), n) = Two(m, n)
    <2>1. Two(m, n) \in Seq({m, n}) /\ Len(Two(m, n)) = 2 /\ Two(m, n)[1] = m /\ Two(m, n)[2] = n
      BY DEF Two
    <2>2. One(m) \in Seq({m, n}) /\ Len(One(m)) = 1 /\ One(m)[1] = m
      BY DEF One
    <2> DEFINE t == Append(One(m), n)
    <2>3. /\ t \in Seq({m, n}) /\ Len(t) = Len(One(m)) + 1 /\ t[Len(One(m)) + 1] = n
          /\ \A i \in 1..Len(One(m)) : t[i] = One(m)[i]
      <3> DEFINE S == {m, n}
                 s == One(m)
      <3>1. s \in Seq(S) /\ n \in S
        BY <2>2
      <3> HIDE DEF S, s
      <3>2. /\ Append(s, n) \in Seq(S) /\ Len(Append(s, n)) = Len(s) + 1 /\ Append(s, n)[Len(s) + 1] = n
            /\ \A i \in 1..Len(s) : Append(s, n)[i] = s[i]
        BY <3>1, MessageAppend
      <3> QED BY <3>2 DEF S, s
    <2> HIDE DEF t
    <2>4. t \in Seq({m, n}) /\ Len(t) = 2 /\ t[1] = m /\ t[2] = n
      BY <2>2, <2>3
    <2>5. t = Two(m, n)
      BY <2>1, <2>4
    <2> QED BY <2>5 DEF t
  <1>5. \A m, n, x : Two(m, n) # One(x)
    <2>1. \A m, n, x : Len(Two(m, n)) = 2 /\ Len(One(x)) = 1
      BY DEF One, Two
    <2> QED BY <2>1
  <1> QED BY <1>1, <1>2, <1>3, <1>4, <1>5

\* The turns: a continuation is run, waits for a listener, or is posted.
LEMMA TurnOf ==
  ASSUME OneTurn
  PROVE  /\ Turn \in Proxying!Continuations \cup {"none"}
         /\ Turn = "none" => running = Proxying!Idle /\ continuation = "none" /\ posted = <<>> /\ asked_listeners = {}
         /\ \A m, r : running = Two(m, r) =>
               /\ Turn = m /\ running # Proxying!Idle /\ continuation = "none" /\ posted = <<>> /\ asked_listeners = {}
         /\ ~Held => continuation = "none" /\ posted = <<>> /\ asked_listeners = {} /\ Turn # "none"
         /\ running = Proxying!Idle /\ continuation # "none" =>
               /\ Turn = continuation /\ posted = <<>> /\ asked_listeners = {AskedFor(Turn)}
  <1> USE DEF OneTurn, Proxying!Idle
  <1>1. "none" \notin Proxying!Continuations
    BY DEF Proxying!Continuations
  <1>2. running # Proxying!Idle => Turn = running[1] /\ Turn \in Proxying!Continuations
    BY PipeFacts DEF Turn, IsTask
  <1>3. running = Proxying!Idle /\ continuation # "none" => Turn = continuation
    BY DEF Turn
  <1>4. running = Proxying!Idle /\ continuation = "none" /\ posted # <<>> => Turn \in Proxying!Continuations
    BY PipeFacts DEF Turn, IsTask
  <1>5. running = Proxying!Idle /\ continuation = "none" /\ posted = <<>> => Turn = "none"
    BY DEF Turn
  <1>6. Turn \in Proxying!Continuations \cup {"none"}
    BY <1>2, <1>3, <1>4, <1>5
  <1>7. Turn = "none" => running = Proxying!Idle /\ continuation = "none" /\ posted = <<>> /\ asked_listeners = {}
    BY <1>1, <1>2, <1>3, <1>4
  <1>8. ~Held => continuation = "none" /\ posted = <<>> /\ asked_listeners = {} /\ Turn # "none"
    BY <1>1, <1>2 DEF Held
  <1>9. \A m, r : running = Two(m, r) => running # Proxying!Idle /\ running[1] = m
    BY PipeFacts
  <1>10. running = Proxying!Idle /\ continuation # "none" =>
            /\ Turn = continuation /\ posted = <<>> /\ asked_listeners = {AskedFor(Turn)}
    BY <1>3
  <1> QED BY <1>2, <1>6, <1>7, <1>8, <1>9, <1>10 DEF Held

LEMMA TurnAsks ==
  ASSUME NEW c \in Proxying!Continuations, NEW event, event = AskedFor(c), asked_listeners = {}, posted = <<>>,
         Proxying!Ask(event, c), posted' = posted
  PROVE  OneTurn' /\ Turn' = c /\ Held' /\ continuation' = c
  <1>1. /\ continuation' = c /\ running' = Proxying!Idle /\ posted' = <<>> /\ asked_listeners' = {AskedFor(c)}
    BY DEF Proxying!Ask
  <1>2. c # "none"
    BY DEF Proxying!Continuations
  <1>3. OneTurn'
    BY <1>1, <1>2 DEF OneTurn
  <1> QED BY <1>1, <1>2, <1>3 DEF Turn, Held

LEMMA TurnRuns ==
  ASSUME NEW c \in Proxying!Continuations, continuation = "none", asked_listeners = {}, posted = <<>>,
         running' = Two(c, "OK"), UNCHANGED <<continuation, asked_listeners, posted>>
  PROVE  OneTurn' /\ Turn' = c /\ ~Held' /\ continuation' = "none"
  <1>1. IsTask(running') /\ running' # Proxying!Idle /\ running'[1] = c
    BY PipeFacts DEF IsTask, Proxying!Idle
  <1>2. OneTurn'
    BY <1>1 DEF OneTurn
  <1> QED BY <1>1, <1>2 DEF Turn, Held

LEMMA TurnEnds ==
  ASSUME continuation = "none", asked_listeners = {}, posted = <<>>,
         running' = Proxying!Idle, UNCHANGED <<continuation, asked_listeners, posted>>
  PROVE  OneTurn' /\ Turn' = "none" /\ Held' /\ continuation' = "none"
  BY DEF OneTurn, Turn, Held

LEMMA TurnKept ==
  ASSUME OneTurn, UNCHANGED <<running, continuation, asked_listeners, posted>>
  PROVE  OneTurn' /\ Turn' = Turn /\ (Held' <=> Held) /\ continuation' = continuation
  BY DEF OneTurn, Turn, Held, IsTask

\* A posted continuation takes its turn; an answered listener hands it on.
LEMMA TurnPosted ==
  ASSUME OneTurn, running = Proxying!Idle, posted # <<>>, running' = Head(posted), posted' = Tail(posted),
         UNCHANGED <<continuation, asked_listeners>>
  PROVE  OneTurn' /\ Turn' = Turn /\ ~Held' /\ continuation' = "none" /\ continuation = "none"
  <1>1. PICK p : IsTask(p) /\ posted = One(p)
    BY DEF OneTurn
  <1>2. continuation = "none" /\ asked_listeners = {}
    BY DEF OneTurn
  <1>3. running' = p /\ posted' = <<>> /\ posted[1] = p
    BY <1>1, PipeFacts
  <1>4. p # Proxying!Idle
    BY <1>1, PipeFacts DEF IsTask, Proxying!Idle
  <1>5. OneTurn'
    BY <1>1, <1>2, <1>3, <1>4 DEF OneTurn, IsTask
  <1>6. Turn = p[1] /\ Turn' = p[1] /\ ~Held'
    BY <1>2, <1>3, <1>4 DEF Turn, Held
  <1> QED BY <1>2, <1>5, <1>6

LEMMA TurnAnswered ==
  ASSUME OneTurn, running = Proxying!Idle, continuation # "none",
         NEW r \in {"OK", "BLOCKED"}, posted' = Append(posted, <<continuation, r>>),
         asked_listeners' = asked_listeners \ {AskedFor(continuation)}, continuation' = "none", running' = running
  PROVE  OneTurn' /\ Turn' = Turn /\ Held'
  <1>1. posted = <<>> /\ asked_listeners = {AskedFor(continuation)} /\ continuation \in Proxying!Continuations
    BY DEF OneTurn
  <1> DEFINE p == Two(continuation, r)
  <1>2. IsTask(p) /\ p[1] = continuation
    BY <1>1, PipeFacts DEF IsTask
  <1>3. posted' = One(p)
    BY <1>1, PipeFacts DEF Two
  <1> HIDE DEF p
  <1>4. posted' # <<>> /\ posted'[1] = p
    BY <1>3, PipeFacts
  <1>5. asked_listeners' = {}
    BY <1>1
  <1>6. OneTurn'
    BY <1>2, <1>3, <1>5 DEF OneTurn, IsTask
  <1> QED BY <1>2, <1>4, <1>6 DEF Turn, Held

\* The message at the head of the client pipe.
LEMMA PipeHead ==
  ASSUME Stage, client_pipe # <<>>
  PROVE  /\ Head(client_pipe) = "OnReceiveRedirect" =>
               /\ target_client = "waiting" /\ Turn = "none"
               /\ \/ client_pipe = One("OnReceiveRedirect") /\ network \in {"redirected", "done"}
                  \/ client_pipe = Two("OnReceiveRedirect", "OnCompleteError") /\ network = "done"
         /\ Head(client_pipe) = "OnReceiveResponse" =>
               /\ target_client = "waiting" /\ Turn = "none"
               /\ \/ client_pipe = One("OnReceiveResponse") /\ network \in {"body", "done"}
                  \/ client_pipe = Two("OnReceiveResponse", "OnCompleteError") /\ network = "done"
                  \/ client_pipe = Two("OnReceiveResponse", "OnComplete") /\ network = "done"
         /\ Head(client_pipe) = "OnComplete" =>
               \/ target_client = "waiting" /\ Turn = "ContinueToResponseStarted"
               \/ target_client = "responded"
  BY PipeFacts DEF Stage, Early, NoLoader, Ends, EndsAfter

LEMMA PipeTail ==
  ASSUME Stage, client_pipe # <<>>
  PROVE  /\ Head(client_pipe) = "OnReceiveRedirect" =>
               \/ Tail(client_pipe) = <<>> /\ network \in {"redirected", "done"}
               \/ Tail(client_pipe) = One("OnCompleteError") /\ network = "done"
         /\ Head(client_pipe) = "OnReceiveResponse" =>
               \/ Tail(client_pipe) = <<>> /\ network \in {"body", "done"}
               \/ Tail(client_pipe) = One("OnCompleteError") /\ network = "done"
               \/ Tail(client_pipe) = One("OnComplete") /\ network = "done"
  BY PipeFacts, PipeHead

LEMMA RequestInit == Proxying!Init => RequestInvariant
  <1> SUFFICES ASSUME Proxying!Init PROVE RequestInvariant
    OBVIOUS
  <1> USE DEF Proxying!Init
  <1>1. RequestTypes
    BY DEF RequestTypes
  <1>2. RequestFlags
    BY DEF RequestFlags
  <1>3. RequestNew
    BY DEF RequestNew, NoLoader
  <1> QED BY <1>1, <1>2, <1>3 DEF RequestInvariant

\* The request is removed: the page has been told, or goes.
LEMMA RequestRemoved ==
  ASSUME RequestInvariant, recreated = FALSE, in_progress = "yes", null_used = FALSE,
         Proxying!Remove, target_client' # "confused"
  PROVE  RequestInvariant'
  <1>1. RequestTypes /\ RequestFlags
    BY DEF RequestInvariant
  <1>2. /\ in_progress' = "no" /\ target_loader' = FALSE
        /\ UNCHANGED <<kind, redirect_url, recreated, null_used>>
    BY DEF Proxying!Remove, Proxying!lastingVars
  <1>3. RequestTypes'
    BY <1>1, <1>2 DEF RequestTypes
  <1>4. RequestFlags'
    BY <1>1, <1>2 DEF RequestFlags
  <1> QED BY <1>2, <1>3, <1>4 DEF RequestInvariant

LEMMA RequestAlive ==
  ASSUME RequestInvariant, recreated = FALSE, in_progress = "yes", ~null_used
  PROVE  /\ null_used = FALSE /\ RequestTypes /\ RequestFlags /\ RequestShape
         /\ OneTurn /\ Stage /\ NetworkWaits /\ HeadersWait /\ Preflights
         /\ target_client \in {"waiting", "redirected", "responded"}
         /\ redirect_url \in BOOLEAN /\ target_loader \in BOOLEAN
         /\ kind \in {"header_client", "plain", "preflight"}
  <1>1. null_used = FALSE /\ RequestTypes /\ RequestFlags
    BY DEF RequestInvariant, RequestFlags
  <1>2. RequestShape
    BY <1>1 DEF RequestInvariant
  <1> QED BY <1>1, <1>2 DEF RequestShape, Stage, RequestFlags, RequestTypes

LEMMA RequestFails ==
  ASSUME RequestInvariant, recreated = FALSE, in_progress = "yes", ~null_used, Proxying!OnRequestError
  PROVE  RequestInvariant'
  <1>1. target_client \in {"waiting", "redirected", "responded"}
    BY RequestAlive
  <1>2. target_client' # "confused"
    BY <1>1 DEF Proxying!OnRequestError, Proxying!Tell
  <1> QED BY <1>2, RequestAlive, RequestRemoved DEF Proxying!OnRequestError

\* What is left to show of a step after which the request is still there.
LEMMA RequestGoesOn ==
  ASSUME RequestInvariant, recreated = FALSE, in_progress = "yes", ~null_used,
         UNCHANGED <<kind, in_progress, recreated, null_used>>,
         redirect_url' \in BOOLEAN, target_loader' \in BOOLEAN,
         OneTurn', Stage', NetworkWaits', HeadersWait', Preflights'
  PROVE  RequestInvariant'
  <1>1. RequestTypes /\ null_used = FALSE
    BY RequestAlive
  <1>2. RequestTypes'
    <2>1. target_client' # "confused"
      BY DEF Stage
    <2> QED BY <1>1, <2>1 DEF RequestTypes
  <1>3. RequestFlags'
    BY <1>1 DEF RequestFlags
  <1> QED BY <1>1, <1>2, <1>3 DEF RequestInvariant, RequestShape

\* The steps that end a request.
LEMMA RequestEnds ==
  ASSUME RequestInvariant, recreated = FALSE,
         \/ Proxying!OnClientDisconnected \/ Proxying!OnPreflightDisconnected
         \/ Proxying!ContinuationFails \/ Proxying!OnCompleteError
  PROVE  RequestInvariant'
  BY RequestFails DEF Proxying!OnClientDisconnected, Proxying!OnPreflightDisconnected,
     Proxying!ContinuationFails, Proxying!OnCompleteError, Proxying!Ready

LEMMA RequestCompletes == ASSUME RequestInvariant, recreated = FALSE, Proxying!OnComplete PROVE RequestInvariant'
  <1> USE DEF Proxying!OnComplete, Proxying!Ready
  <1>1. Stage /\ OneTurn /\ NetworkWaits /\ Preflights
    BY RequestAlive
  <1>2. \/ target_client = "waiting" /\ Turn = "ContinueToResponseStarted"
        \/ target_client = "responded"
    BY <1>1, PipeHead
  <1>3. target_client = "responded"
    BY <1>1, <1>2 DEF NetworkWaits, Held
  <1>4. target_client' # "confused"
    BY <1>3 DEF Proxying!Tell
  <1> QED BY <1>4, RequestAlive, RequestRemoved

LEMMA RequestPosted == ASSUME RequestInvariant, recreated = FALSE, Proxying!RunPosted PROVE RequestInvariant'
  <1> USE DEF Proxying!RunPosted, Proxying!Ready
  <1>1. /\ OneTurn /\ Stage /\ NetworkWaits /\ HeadersWait /\ Preflights
        /\ redirect_url \in BOOLEAN /\ target_loader \in BOOLEAN
    BY RequestAlive
  <1>2. OneTurn' /\ Turn' = Turn /\ ~Held' /\ continuation' = "none" /\ continuation = "none" /\ Held
    BY <1>1, TurnPosted DEF Held
  <1>3. /\ UNCHANGED <<kind, in_progress, redirect_url, target_loader, client_receiver, header_receiver,
                       target_client, network, client_pipe, header_pipe, recreated, null_used,
                       send_callback, received_callback>>
    BY DEF Proxying!headerVars, Proxying!pipeVars, Proxying!networkVars, Proxying!lastingVars
  <1>4. Stage'
    BY <1>1, <1>2, <1>3 DEF Stage, Early, NoLoader, Ends, EndsAfter
  <1>5. NetworkWaits'
    BY <1>1, <1>2, <1>3 DEF NetworkWaits, NoLoader
  <1>6. HeadersWait'
    BY <1>1, <1>2, <1>3 DEF HeadersWait
  <1>7. Preflights'
    BY <1>1, <1>2, <1>3 DEF Preflights
  <1> QED BY <1>1, <1>2, <1>3, <1>4, <1>5, <1>6, <1>7, RequestGoesOn

LEMMA RequestAnswered ==
  ASSUME NEW event, NEW answer, RequestInvariant, recreated = FALSE, Proxying!OnListenerResult(event, answer)
  PROVE  RequestInvariant'
  <1> USE DEF Proxying!OnListenerResult, Proxying!Ready
  <1>1. /\ OneTurn /\ Stage /\ NetworkWaits /\ HeadersWait /\ Preflights
        /\ redirect_url \in BOOLEAN /\ target_loader \in BOOLEAN
    BY RequestAlive
  <1>2. continuation # "none" /\ event = AskedFor(continuation) /\ continuation \in Proxying!Continuations
    BY <1>1 DEF OneTurn
  <1>3. Turn = continuation /\ Held
    BY <1>1, <1>2, TurnOf DEF Held
  <1>4. PICK r \in {"OK", "BLOCKED"} : posted' = Append(posted, <<continuation, r>>)
    BY <1>2
  <1>5. OneTurn' /\ Turn' = Turn /\ Held'
    BY <1>1, <1>2, <1>4, TurnAnswered
  <1>6. /\ continuation' = "none"
        /\ UNCHANGED <<kind, in_progress, target_loader, client_receiver, header_receiver,
                       target_client, network, client_pipe, header_pipe, recreated, null_used,
                       send_callback, received_callback>>
    BY DEF Proxying!headerVars, Proxying!pipeVars, Proxying!networkVars, Proxying!lastingVars
  <1>7. redirect_url' = (redirect_url \/ (event = "onBeforeRequest" /\ answer = "redirect"))
    BY <1>2
  <1>8. redirect_url' \in BOOLEAN
    BY <1>7
  <1>9. Stage'
    BY <1>1, <1>5, <1>6 DEF Stage, Early, NoLoader, Ends, EndsAfter
  <1>10. NetworkWaits'
    BY <1>1, <1>3, <1>5, <1>6 DEF NetworkWaits, NoLoader
  <1>11. HeadersWait'
    BY <1>1, <1>3, <1>5, <1>6 DEF HeadersWait
  <1>12. Preflights'
    <2>1. kind = "preflight" => redirect_url = FALSE
      BY <1>1, <1>2 DEF Preflights
    <2>2. kind = "preflight" /\ redirect_url' = TRUE => continuation = "ContinueToStartRequest"
      <3>1. kind = "preflight" /\ redirect_url' = TRUE => event = "onBeforeRequest"
        BY <1>7, <2>1
      <3> QED BY <1>1, <1>2, <3>1 DEF Preflights, AskedFor
    <2> QED BY <1>1, <1>3, <1>5, <1>6, <2>1, <2>2 DEF Preflights
  <1> QED BY <1>1, <1>5, <1>6, <1>8, <1>9, <1>10, <1>11, <1>12, RequestGoesOn

\* The page follows a redirect.
LEMMA RequestFollows == ASSUME RequestInvariant, recreated = FALSE, Proxying!FollowRedirect PROVE RequestInvariant'
  <1> USE DEF Proxying!FollowRedirect, Proxying!Ready
  <1>1. /\ OneTurn /\ Stage /\ NetworkWaits /\ HeadersWait /\ Preflights
        /\ redirect_url \in BOOLEAN /\ target_loader \in BOOLEAN
        /\ kind \in {"header_client", "plain", "preflight"}
    BY RequestAlive
  <1>2. Turn = "none" /\ (Ends("redirected") \/ NoLoader)
    BY <1>1 DEF Stage
  <1>3. asked_listeners = {} /\ posted = <<>> /\ continuation = "none"
    BY <1>1, <1>2, TurnOf
  <1>4. kind # "preflight" /\ header_pipe = "none"
    BY <1>1 DEF Preflights, HeadersWait
  <1> DEFINE c == IF kind # "plain" THEN "ContinueToStartRequest" ELSE "ContinueToBeforeSendHeaders"
  <1>5. c \in Proxying!Continuations /\ AskedFor(c) = "onBeforeRequest"
    BY DEF Proxying!Continuations, AskedFor
  <1>6. OneTurn' /\ Turn' = c /\ (Held' => header_receiver' # "bound") /\ (Held' => continuation' = c)
    <2>1. \/ Proxying!Ask("onBeforeRequest", c) /\ header_receiver' = Proxying!Paused(header_receiver)
          \/ Proxying!GoOn(c)
      BY DEF Proxying!RestartInternal, Proxying!UsesHeaderClient
    <2>2. posted' = posted
      OBVIOUS
    <2> HIDE DEF c
    <2>3. CASE Proxying!Ask("onBeforeRequest", c) /\ header_receiver' = Proxying!Paused(header_receiver)
      BY <1>3, <1>5, <2>2, <2>3, TurnAsks DEF Proxying!Paused
    <2>4. CASE Proxying!GoOn(c)
      <3>1. running' = Two(c, "OK") /\ UNCHANGED <<continuation, asked_listeners, posted>>
        BY <2>2, <2>4 DEF Proxying!GoOn, Two
      <3> QED BY <1>3, <1>5, <3>1, TurnRuns
    <2> QED BY <2>1, <2>3, <2>4
  <1>7. /\ target_client' = "waiting" /\ redirect_url' = FALSE
        /\ UNCHANGED <<kind, in_progress, target_loader, client_pipe, header_pipe, recreated, null_used,
                       send_callback, received_callback>>
    BY DEF Proxying!RestartInternal, Proxying!headerVars, Proxying!lastingVars
  <1>8. /\ \/ network' = network
           \/ network = "redirected" /\ network' = "following" /\ kind # "plain"
    BY DEF Proxying!Follows, Proxying!UsesHeaderClient
  <1>9. Turn' \in {"ContinueToStartRequest", "ContinueToBeforeSendHeaders"} /\ (Turn' = "ContinueToStartRequest" <=> kind # "plain")
    BY <1>6
  <1>10. Early'
    BY <1>2, <1>7, <1>8 DEF Early, Ends, NoLoader, Sending
  <1>11. Stage'
    BY <1>7, <1>9, <1>10 DEF Stage
  <1>12. network' \notin Sending /\ (network' = "following" => kind # "plain")
    BY <1>2, <1>8 DEF Ends, NoLoader, Sending
  <1>13. NetworkWaits'
    <2>1. target_loader = FALSE => NoLoader' /\ header_pipe' = "none"
      BY <1>1, <1>4, <1>7, <1>8 DEF NetworkWaits, NoLoader
    <2> QED BY <1>7, <1>9, <1>12, <2>1 DEF NetworkWaits
  <1>14. HeadersWait'
    BY <1>1, <1>2, <1>4, <1>6, <1>7, <1>8, <1>9 DEF HeadersWait
  <1>15. Preflights'
    BY <1>4, <1>7 DEF Preflights
  <1> QED BY <1>1, <1>6, <1>7, <1>11, <1>13, <1>14, <1>15, RequestGoesOn

\* The listeners redirect: the network loader is given up.
LEMMA RequestDisconnects ==
  ASSUME RequestInvariant, recreated = FALSE, in_progress = "yes", ~null_used,
         ~Held, target_client = "waiting", kind = "preflight" => redirect_url = TRUE,
         Proxying!Disconnect,
         UNCHANGED <<kind, in_progress, continuation, asked_listeners, posted, redirect_url, target_client, recreated, null_used>>
  PROVE  RequestInvariant'
  <1>1. /\ OneTurn /\ redirect_url \in BOOLEAN /\ Preflights
    BY RequestAlive
  <1>2. continuation = "none" /\ posted = <<>> /\ asked_listeners = {}
    BY <1>1, TurnOf
  <1>3. /\ NoLoader' /\ header_pipe' = "none" /\ target_loader' = FALSE
    BY DEF Proxying!Disconnect, NoLoader
  <1>4. running' = Two("ContinueToBeforeRedirect", "OK")
    BY DEF Proxying!Disconnect, Two
  <1>5. OneTurn' /\ Turn' = "ContinueToBeforeRedirect" /\ ~Held' /\ continuation' = "none"
    BY <1>2, <1>4, TurnRuns DEF Proxying!Continuations
  <1>6. Stage'
    BY <1>3, <1>5 DEF Stage
  <1>7. NetworkWaits'
    BY <1>3, <1>5 DEF NetworkWaits, NoLoader, Sending
  <1>8. HeadersWait'
    BY <1>3, <1>5 DEF HeadersWait, NoLoader
  <1>9. Preflights'
    BY <1>1, <1>3, <1>5 DEF Preflights, NoLoader
  <1> QED BY <1>1, <1>3, <1>5, <1>6, <1>7, <1>8, <1>9, RequestGoesOn

LEMMA RequestRedirected ==
  ASSUME RequestInvariant, recreated = FALSE, Proxying!HandleBeforeRequestRedirect \/ Proxying!ResponseIsRedirect
  PROVE  RequestInvariant'
  <1>1. PICK m \in {"ContinueToStartRequest", "ContinueToBeforeSendHeaders", "ContinueToResponseStarted"} :
          /\ Proxying!Runs(m) /\ Proxying!Disconnect
          /\ m # "ContinueToResponseStarted" => redirect_url
          /\ UNCHANGED <<kind, in_progress, continuation, asked_listeners, posted, redirect_url, target_client,
                         recreated, null_used>>
    BY DEF Proxying!HandleBeforeRequestRedirect, Proxying!ResponseIsRedirect, Proxying!listenerVars,
           Proxying!lastingVars
  <1>2. in_progress = "yes" /\ running = Two(m, "OK") /\ ~null_used
    BY <1>1 DEF Proxying!Runs, Two
  <1>3. OneTurn /\ Stage /\ Preflights /\ redirect_url \in BOOLEAN
    BY <1>2, RequestAlive
  <1>4. Turn = m /\ ~Held
    BY <1>2, <1>3, TurnOf DEF Held
  <1>5. target_client = "waiting"
    BY <1>3, <1>4 DEF Stage
  <1>6. kind = "preflight" => redirect_url = TRUE
    BY <1>1, <1>3, <1>4 DEF Preflights
  <1> QED BY <1>1, <1>2, <1>4, <1>5, <1>6, RequestDisconnects

\* A method runs, and what it has found.
LEMMA RequestRuns ==
  ASSUME RequestInvariant, recreated = FALSE, NEW m, Proxying!Runs(m)
  PROVE  /\ in_progress = "yes" /\ ~null_used /\ null_used = FALSE
         /\ OneTurn /\ Stage /\ NetworkWaits /\ HeadersWait /\ Preflights
         /\ target_client \in {"waiting", "redirected", "responded"}
         /\ redirect_url \in BOOLEAN /\ target_loader \in BOOLEAN
         /\ kind \in {"header_client", "plain", "preflight"}
         /\ Turn = m /\ ~Held /\ continuation = "none" /\ posted = <<>> /\ asked_listeners = {}
  <1>1. in_progress = "yes" /\ running = Two(m, "OK") /\ ~null_used
    BY DEF Proxying!Runs, Two
  <1> QED BY <1>1, RequestAlive, TurnOf DEF Held

LEMMA RequestBeforeHeaders ==
  ASSUME RequestInvariant, recreated = FALSE, Proxying!ContinueToBeforeSendHeaders
  PROVE  RequestInvariant'
  <1> USE DEF Proxying!ContinueToBeforeSendHeaders
  <1>1. /\ in_progress = "yes" /\ ~null_used
        /\ OneTurn /\ Stage /\ NetworkWaits /\ HeadersWait /\ Preflights
        /\ redirect_url \in BOOLEAN /\ target_loader \in BOOLEAN
        /\ Turn = "ContinueToBeforeSendHeaders" /\ continuation = "none" /\ posted = <<>> /\ asked_listeners = {}
    BY RequestRuns
  <1>2. /\ UNCHANGED <<kind, in_progress, posted, redirect_url, target_loader, header_receiver,
                       target_client, network, client_pipe, header_pipe, recreated, null_used,
                       send_callback, received_callback>>
    BY DEF Proxying!headerVars, Proxying!networkVars, Proxying!lastingVars
  <1>3. OneTurn' /\ Turn' = "ContinueToSendHeaders" /\ continuation' # "ContinueToBeforeSendHeaders"
    <2>1. "ContinueToSendHeaders" \in Proxying!Continuations /\ AskedFor("ContinueToSendHeaders") = "onBeforeSendHeaders"
      BY DEF Proxying!Continuations, AskedFor
    <2>2. CASE Proxying!Ask("onBeforeSendHeaders", "ContinueToSendHeaders")
      BY <1>1, <1>2, <2>1, <2>2, TurnAsks
    <2>3. CASE Proxying!GoOn("ContinueToSendHeaders")
      <3>1. running' = Two("ContinueToSendHeaders", "OK") /\ UNCHANGED <<continuation, asked_listeners, posted>>
        BY <1>2, <2>3 DEF Proxying!GoOn, Two
      <3> QED BY <1>1, <2>1, <3>1, TurnRuns
    <2> QED BY <2>2, <2>3
  <1>4. Stage'
    BY <1>1, <1>2, <1>3 DEF Stage, Early, NoLoader, Ends
  <1>5. NetworkWaits'
    BY <1>1, <1>2, <1>3 DEF NetworkWaits, NoLoader
  <1>6. HeadersWait'
    BY <1>1, <1>2, <1>3 DEF HeadersWait
  <1>7. Preflights'
    BY <1>1, <1>2, <1>3 DEF Preflights
  <1> QED BY <1>1, <1>2, <1>3, <1>4, <1>5, <1>6, <1>7, RequestGoesOn

LEMMA RequestSendHeaders ==
  ASSUME RequestInvariant, recreated = FALSE, Proxying!ContinueToSendHeaders
  PROVE  RequestInvariant'
  <1> USE DEF Proxying!ContinueToSendHeaders
  <1>1. /\ in_progress = "yes" /\ ~null_used /\ null_used = FALSE
        /\ OneTurn /\ Stage /\ NetworkWaits /\ HeadersWait /\ Preflights
        /\ redirect_url \in BOOLEAN /\ target_loader \in BOOLEAN
        /\ Turn = "ContinueToSendHeaders" /\ continuation = "none" /\ posted = <<>> /\ asked_listeners = {}
    BY RequestRuns
  <1>2. /\ UNCHANGED <<kind, in_progress, continuation, asked_listeners, posted, redirect_url, target_loader,
                       header_receiver, target_client, client_pipe, header_pipe, recreated, received_callback>>
    BY DEF Proxying!listenerVars
  <1>3. target_client = "waiting" /\ Early /\ header_pipe = "none"
        /\ (kind = "preflight" => redirect_url = FALSE)
    BY <1>1 DEF Stage, HeadersWait, Preflights
  <1>4. CASE kind # "plain"
    <2>1. send_callback = TRUE /\ network \in {"asking", "done"}
      BY <1>1, <1>4 DEF HeadersWait
    <2>2. null_used' = FALSE /\ running' = Proxying!Idle
          /\ network' = IF network = "asking" THEN "sent" ELSE network
      BY <1>4, <2>1 DEF Proxying!UsesHeaderClient
    <2>3. OneTurn' /\ Turn' = "none" /\ Held' /\ continuation' = "none"
      BY <1>1, <1>2, <2>2, TurnEnds
    <2>4. Early'
      BY <1>2, <1>3, <2>1, <2>2 DEF Early, NoLoader, Ends, Sending
    <2>5. Stage'
      BY <1>2, <1>3, <2>3, <2>4 DEF Stage
    <2>6. NetworkWaits'
      BY <1>1, <1>2, <2>1, <2>2, <2>3 DEF NetworkWaits, NoLoader
    <2>7. HeadersWait'
      BY <1>2, <1>3, <1>4, <2>3 DEF HeadersWait
    <2>8. Preflights'
      BY <1>1, <1>2, <1>3, <2>2, <2>3 DEF Preflights
    <2> QED BY <1>1, <1>2, <2>2, <2>3, <2>5, <2>6, <2>7, <2>8, RequestGoesOn
  <1>5. CASE kind = "plain"
    <2>1. /\ running' = Two("ContinueToStartRequest", "OK") /\ null_used' = null_used
          /\ \/ network' = network
             \/ network = "redirected" /\ network' = "sent" /\ target_loader
      BY <1>5 DEF Proxying!UsesHeaderClient, Proxying!Follows, Two
    <2>2. OneTurn' /\ Turn' = "ContinueToStartRequest" /\ ~Held' /\ continuation' = "none"
      BY <1>1, <1>2, <2>1, TurnRuns DEF Proxying!Continuations
    <2>3. Early'
      BY <1>2, <1>3, <2>1 DEF Early, NoLoader, Ends, Sending
    <2>4. Stage'
      BY <1>2, <1>3, <2>2, <2>3 DEF Stage
    <2>5. NetworkWaits'
      BY <1>1, <1>2, <1>5, <2>1, <2>2 DEF NetworkWaits, NoLoader
    <2>6. HeadersWait'
      BY <1>1, <1>2, <1>3, <1>5, <2>1, <2>2 DEF HeadersWait
    <2>7. Preflights'
      BY <1>2, <1>5 DEF Preflights
    <2> QED BY <1>1, <1>2, <2>1, <2>2, <2>4, <2>5, <2>6, <2>7, RequestGoesOn
  <1> QED BY <1>4, <1>5

LEMMA RequestStarts ==
  ASSUME RequestInvariant, recreated = FALSE, Proxying!ContinueToStartRequest
  PROVE  RequestInvariant'
  <1> USE DEF Proxying!ContinueToStartRequest
  <1>1. /\ in_progress = "yes" /\ ~null_used
        /\ OneTurn /\ Stage /\ NetworkWaits /\ HeadersWait /\ Preflights
        /\ redirect_url \in BOOLEAN /\ target_loader \in BOOLEAN
        /\ kind \in {"header_client", "plain", "preflight"}
        /\ Turn = "ContinueToStartRequest" /\ continuation = "none" /\ posted = <<>> /\ asked_listeners = {}
    BY RequestRuns
  <1>2. /\ UNCHANGED <<kind, in_progress, continuation, asked_listeners, posted, redirect_url, 
                       target_client, header_pipe, recreated, null_used, send_callback, received_callback>>
        /\ running' = Proxying!Idle
    BY DEF Proxying!listenerVars, Proxying!headerVars, Proxying!lastingVars
  <1>3. OneTurn' /\ Turn' = "none" /\ Held' /\ continuation' = "none"
    BY <1>1, <1>2, TurnEnds
  <1>4. target_client = "waiting" /\ Early
    BY <1>1 DEF Stage
  <1>5. kind = "preflight" => redirect_url = FALSE
    BY <1>1 DEF Proxying!UsesHeaderClient
  <1>6. CASE UNCHANGED <<target_loader, network, client_pipe>>
    <2>1. Stage'
      BY <1>2, <1>3, <1>4, <1>6 DEF Stage, Early, NoLoader, Ends
    <2>2. NetworkWaits'
      BY <1>1, <1>2, <1>3, <1>6 DEF NetworkWaits, NoLoader
    <2>3. HeadersWait'
      BY <1>1, <1>2, <1>3, <1>6 DEF HeadersWait
    <2>4. Preflights'
      BY <1>1, <1>2, <1>3, <1>5, <1>6 DEF Preflights
    <2> QED BY <1>1, <1>2, <1>3, <1>6, <2>1, <2>2, <2>3, <2>4, RequestGoesOn
  <1>7. CASE /\ kind # "preflight" /\ ~target_loader /\ target_loader' = TRUE /\ client_pipe' = <<>>
             /\ network' = IF kind # "plain" THEN "started" ELSE "sent"
    <2>1. target_loader = FALSE /\ header_pipe = "none"
      BY <1>1, <1>7 DEF NetworkWaits
    <2>2. Early'
      BY <1>7 DEF Early, Ends, Sending
    <2>3. Stage'
      BY <1>2, <1>3, <1>4, <2>2 DEF Stage
    <2>4. NetworkWaits'
      BY <1>3, <1>7 DEF NetworkWaits
    <2>5. HeadersWait'
      BY <1>2, <1>3, <1>7, <2>1 DEF HeadersWait
    <2>6. Preflights'
      BY <1>2, <1>7 DEF Preflights
    <2> QED BY <1>1, <1>2, <1>3, <1>7, <2>3, <2>4, <2>5, <2>6, RequestGoesOn
  <1> QED BY <1>6, <1>7 DEF Proxying!UsesHeaderClient, Proxying!ForCorsPreflight

\* The header pipe: a message is taken, and the next method runs or is asked about.
LEMMA RequestAsksToSend ==
  ASSUME RequestInvariant, recreated = FALSE, Proxying!OnBeforeSendHeaders
  PROVE  RequestInvariant'
  <1> USE DEF Proxying!OnBeforeSendHeaders, Proxying!Ready
  <1>1. /\ OneTurn /\ Stage /\ NetworkWaits /\ HeadersWait /\ Preflights
        /\ redirect_url \in BOOLEAN /\ target_loader \in BOOLEAN
    BY RequestAlive
  <1>2. /\ UNCHANGED <<kind, in_progress, continuation, asked_listeners, posted, redirect_url, target_loader,
                       client_receiver, header_receiver,
                       target_client, network, client_pipe, recreated, null_used, received_callback>>
        /\ header_pipe' = "none" /\ send_callback' = TRUE
    BY DEF Proxying!listenerVars, Proxying!pipeVars, Proxying!lastingVars
  <1>3. Turn = "none" /\ target_client = "waiting" /\ network \in {"asking", "done"}
        /\ kind # "plain" /\ client_pipe \in {<<>>, One("OnCompleteError")}
    <2>1. Held
      BY DEF Held
    <2> QED BY <1>1, <2>1 DEF HeadersWait
  <1>4. running' = Two("ContinueToBeforeSendHeaders", "OK")
    BY DEF Two
  <1>5. asked_listeners = {} /\ posted = <<>> /\ continuation = "none"
    BY <1>1, <1>3, TurnOf
  <1>6. OneTurn' /\ Turn' = "ContinueToBeforeSendHeaders" /\ ~Held' /\ continuation' = "none"
    BY <1>2, <1>4, <1>5, TurnRuns DEF Proxying!Continuations
  <1>7. Stage'
    <2>1. Early
      BY <1>1, <1>3, PipeFacts DEF Stage, EndsAfter, Ends, Early
    <2> QED BY <1>2, <1>3, <1>6, <2>1 DEF Stage, Early, NoLoader, Ends
  <1>8. NetworkWaits'
    BY <1>1, <1>2, <1>3, <1>6 DEF NetworkWaits, NoLoader, Sending
  <1>9. HeadersWait'
    BY <1>2, <1>3, <1>6 DEF HeadersWait
  <1>10. Preflights'
    BY <1>1, <1>2, <1>3, <1>6 DEF Preflights
  <1> QED BY <1>1, <1>2, <1>6, <1>7, <1>8, <1>9, <1>10, RequestGoesOn

\* onHeadersReceived: the next method runs or waits.
LEMMA TurnOfHeaders ==
  ASSUME NEW c \in {"ContinueToHandleOverrideHeaders", "ContinueToResponseStarted", "ContinueToBeforeRedirect"},
         OneTurn, Turn = "none", Proxying!HandleResponseOrRedirectHeaders(c)
  PROVE  /\ OneTurn' /\ Turn' = c /\ redirect_url' = FALSE /\ header_receiver' = header_receiver
         /\ Held' => client_receiver' # "bound"
         /\ continuation' \in {"none", c}
  <1>1. asked_listeners = {} /\ posted = <<>> /\ continuation = "none"
    BY TurnOf
  <1>2. c \in Proxying!Continuations /\ AskedFor(c) = "onHeadersReceived"
    BY DEF Proxying!Continuations, AskedFor
  <1>3. posted' = posted /\ redirect_url' = FALSE /\ header_receiver' = header_receiver
    BY DEF Proxying!HandleResponseOrRedirectHeaders
  <1>4. CASE Proxying!Ask("onHeadersReceived", c) /\ client_receiver' = Proxying!Paused(client_receiver)
    BY <1>1, <1>2, <1>3, <1>4, TurnAsks DEF Proxying!Paused
  <1>5. CASE Proxying!GoOn(c)
    <2>1. running' = Two(c, "OK") /\ UNCHANGED <<continuation, asked_listeners, posted>>
      BY <1>3, <1>5 DEF Proxying!GoOn, Two
    <2> QED BY <1>1, <1>2, <1>3, <2>1, TurnRuns
  <1> QED BY <1>4, <1>5 DEF Proxying!HandleResponseOrRedirectHeaders

LEMMA RequestHeadersReceived ==
  ASSUME RequestInvariant, recreated = FALSE, Proxying!OnHeadersReceived
  PROVE  RequestInvariant'
  <1> USE DEF Proxying!OnHeadersReceived, Proxying!Ready
  <1>1. /\ OneTurn /\ Stage /\ NetworkWaits /\ HeadersWait /\ Preflights
        /\ redirect_url \in BOOLEAN /\ target_loader \in BOOLEAN
    BY RequestAlive
  <1>2. /\ UNCHANGED <<kind, in_progress, target_loader, target_client, network, client_pipe, recreated, null_used,
                       send_callback>>
        /\ header_pipe' = "none" /\ received_callback' = TRUE
    BY DEF Proxying!lastingVars
  <1>3. /\ Turn = "none" /\ target_client = "waiting" /\ network \in {"asking_received", "done"}
        /\ kind # "plain" /\ client_pipe \in {<<>>, One("OnCompleteError")}
    BY <1>1 DEF HeadersWait
  <1>4. /\ OneTurn' /\ Turn' = "ContinueToHandleOverrideHeaders" /\ redirect_url' = FALSE
        /\ continuation' # "ContinueToBeforeSendHeaders"
    BY <1>1, <1>3, TurnOfHeaders
  <1>5. Early
    BY <1>1, <1>3, PipeFacts DEF Stage, EndsAfter, Ends, Early
  <1>6. Stage'
    BY <1>2, <1>3, <1>4, <1>5 DEF Stage, Early, NoLoader, Ends
  <1>7. NetworkWaits'
    BY <1>1, <1>2, <1>3, <1>4 DEF NetworkWaits, NoLoader, Sending
  <1>8. HeadersWait'
    BY <1>2, <1>3, <1>4 DEF HeadersWait
  <1>9. Preflights'
    BY <1>1, <1>2, <1>3, <1>4 DEF Preflights
  <1> QED BY <1>1, <1>2, <1>4, <1>6, <1>7, <1>8, <1>9, RequestGoesOn

LEMMA RequestOverrides ==
  ASSUME RequestInvariant, recreated = FALSE, Proxying!ContinueToHandleOverrideHeaders
  PROVE  RequestInvariant'
  <1> USE DEF Proxying!ContinueToHandleOverrideHeaders
  <1>1. /\ in_progress = "yes" /\ ~null_used /\ null_used = FALSE
        /\ OneTurn /\ Stage /\ NetworkWaits /\ HeadersWait /\ Preflights
        /\ target_client \in {"waiting", "redirected", "responded"}
        /\ redirect_url \in BOOLEAN /\ target_loader \in BOOLEAN
        /\ Turn = "ContinueToHandleOverrideHeaders" /\ continuation = "none" /\ posted = <<>> /\ asked_listeners = {}
    BY RequestRuns
  <1>2. CASE Proxying!Remove /\ UNCHANGED target_client
    BY <1>1, <1>2, RequestRemoved
  <1>3. CASE ~Proxying!Remove
    <2>1. /\ null_used' = ~received_callback /\ running' = Proxying!Idle
          /\ network' = IF network # "asking_received" THEN network
                        ELSE IF Proxying!ForCorsPreflight THEN "following"
                        ELSE IF override_redirect THEN "overridden" ELSE "received"
          /\ UNCHANGED <<kind, in_progress, continuation, asked_listeners, posted, redirect_url,
                         send_callback, target_loader, header_receiver, target_client, client_pipe, header_pipe,
                         recreated>>
      BY <1>3
    <2>2. kind # "plain" /\ received_callback = TRUE /\ network \in {"asking_received", "done"} /\ header_pipe = "none"
      BY <1>1 DEF HeadersWait
    <2>3. null_used' = null_used
      BY <1>1, <2>1, <2>2
    <2>4. OneTurn' /\ Turn' = "none" /\ Held' /\ continuation' = "none"
      BY <1>1, <2>1, TurnEnds
    <2>5. target_client = "waiting" /\ Early
      BY <1>1 DEF Stage
    <2>6. /\ network' \in {"done", "following", "overridden", "received"} /\ (network = "done" <=> network' = "done")
      BY <2>1, <2>2
    <2>7. Early'
      BY <2>1, <2>2, <2>5, <2>6 DEF Early, NoLoader, Ends, Sending
    <2>8. Stage'
      BY <2>1, <2>4, <2>5, <2>7 DEF Stage
    <2>9. NetworkWaits'
      BY <1>1, <2>1, <2>2, <2>4 DEF NetworkWaits, NoLoader
    <2>10. HeadersWait'
      BY <2>1, <2>2, <2>4 DEF HeadersWait
    <2>11. Preflights'
      BY <1>1, <2>1, <2>4, <2>6 DEF Preflights
    <2> QED BY <1>1, <2>1, <2>3, <2>4, <2>8, <2>9, <2>10, <2>11, RequestGoesOn
  <1> QED BY <1>2, <1>3

\* The client pipe.
LEMMA RequestReceives ==
  ASSUME NEW message, NEW then, RequestInvariant, recreated = FALSE,
         \/ message = "OnReceiveResponse" /\ then = "ContinueToResponseStarted"
         \/ message = "OnReceiveRedirect" /\ then = "ContinueToBeforeRedirect",
         Proxying!OnReceive(message, then)
  PROVE  RequestInvariant'
  <1> USE DEF Proxying!OnReceive, Proxying!Receives, Proxying!Ready
  <1>1. /\ OneTurn /\ Stage /\ NetworkWaits /\ HeadersWait /\ Preflights
        /\ redirect_url \in BOOLEAN /\ target_loader \in BOOLEAN
    BY RequestAlive
  <1>2. /\ UNCHANGED <<kind, in_progress, target_loader, target_client, network, header_pipe, recreated, null_used,
                       send_callback, received_callback>>
        /\ client_pipe' = Tail(client_pipe) /\ client_pipe # <<>> /\ Head(client_pipe) = message
    BY DEF Proxying!lastingVars, Proxying!headerVars
  <1>3. Turn = "none" /\ target_client = "waiting"
    BY <1>1, <1>2, PipeHead
  <1>4. /\ message = "OnReceiveRedirect" =>
             \/ client_pipe' = <<>> /\ network \in {"redirected", "done"}
             \/ client_pipe' = One("OnCompleteError") /\ network = "done"
        /\ message = "OnReceiveResponse" =>
             \/ client_pipe' = <<>> /\ network \in {"body", "done"}
             \/ client_pipe' = One("OnCompleteError") /\ network = "done"
             \/ client_pipe' = One("OnComplete") /\ network = "done"
    BY <1>1, <1>2, PipeTail
  <1>5. kind # "preflight" /\ header_pipe = "none"
    <2>1. kind # "preflight"
      BY <1>1, <1>2 DEF Preflights
    <2>2. client_pipe # One("OnCompleteError")
      BY <1>2, PipeFacts
    <2> QED BY <1>1, <1>2, <2>1, <2>2 DEF HeadersWait
  <1>6. target_loader # FALSE
    BY <1>1, <1>2, <1>5 DEF NetworkWaits, NoLoader
  <1>7. OneTurn' /\ Turn' = then /\ (Held' => client_receiver' # "bound") /\ redirect_url' \in BOOLEAN
    <2>1. CASE kind # "plain"
      <3>1. running' = Two(then, "OK") /\ UNCHANGED <<continuation, asked_listeners, posted, redirect_url>>
        BY <2>1 DEF Proxying!UsesHeaderClient, Proxying!GoOn, Two
      <3>2. asked_listeners = {} /\ posted = <<>> /\ continuation = "none" /\ then \in Proxying!Continuations
        BY <1>1, <1>3, TurnOf DEF Proxying!Continuations
      <3> QED BY <1>1, <3>1, <3>2, TurnRuns
    <2>2. CASE kind = "plain"
      BY <1>1, <1>3, <2>2, TurnOfHeaders DEF Proxying!UsesHeaderClient
    <2> QED BY <2>1, <2>2
  <1>8. Stage'
    BY <1>2, <1>3, <1>4, <1>7 DEF Stage, Ends
  <1>9. NetworkWaits'
    BY <1>2, <1>4, <1>6, <1>7 DEF NetworkWaits, Sending
  <1>10. HeadersWait'
    BY <1>1, <1>2, <1>4, <1>5, <1>7 DEF HeadersWait
  <1>11. Preflights'
    BY <1>2, <1>5 DEF Preflights
  <1> QED BY <1>1, <1>2, <1>7, <1>8, <1>9, <1>10, <1>11, RequestGoesOn

LEMMA RequestResponds ==
  ASSUME RequestInvariant, recreated = FALSE, Proxying!ContinueToResponseStarted
  PROVE  RequestInvariant'
  <1> USE DEF Proxying!ContinueToResponseStarted
  <1>1. /\ in_progress = "yes" /\ ~null_used
        /\ OneTurn /\ Stage /\ NetworkWaits /\ HeadersWait /\ Preflights
        /\ redirect_url \in BOOLEAN /\ target_loader \in BOOLEAN
        /\ Turn = "ContinueToResponseStarted" /\ continuation = "none" /\ posted = <<>> /\ asked_listeners = {}
    BY RequestRuns
  <1>2. /\ UNCHANGED <<kind, in_progress, continuation, asked_listeners, posted, redirect_url, target_loader,
                       network, client_pipe, header_pipe, recreated, null_used>>
        /\ running' = Proxying!Idle
    BY DEF Proxying!listenerVars, Proxying!networkVars, Proxying!lastingVars
  <1>3. OneTurn' /\ Turn' = "none" /\ Held' /\ continuation' = "none"
    BY <1>1, <1>2, TurnEnds
  <1>4. target_client = "waiting" /\ kind # "preflight" /\ header_pipe = "none"
        /\ (Ends("body") \/ (client_pipe = One("OnComplete") /\ network = "done"))
    BY <1>1 DEF Stage, Preflights, HeadersWait
  <1>5. target_client' = "responded"
    BY <1>4 DEF Proxying!Tell, Proxying!ForCorsPreflight
  <1>6. Stage'
    BY <1>2, <1>3, <1>4, <1>5 DEF Stage, Ends
  <1>7. NetworkWaits'
    BY <1>1, <1>2, <1>3 DEF NetworkWaits, NoLoader
  <1>8. HeadersWait'
    BY <1>1, <1>2, <1>3, <1>4 DEF HeadersWait
  <1>9. Preflights'
    BY <1>2, <1>4 DEF Preflights
  <1> QED BY <1>1, <1>2, <1>3, <1>6, <1>7, <1>8, <1>9, RequestGoesOn

LEMMA RequestRedirects ==
  ASSUME RequestInvariant, recreated = FALSE, Proxying!ContinueToBeforeRedirect
  PROVE  RequestInvariant'
  <1> USE DEF Proxying!ContinueToBeforeRedirect
  <1>1. /\ in_progress = "yes" /\ ~null_used /\ null_used = FALSE
        /\ OneTurn /\ Stage /\ NetworkWaits /\ HeadersWait /\ Preflights
        /\ redirect_url \in BOOLEAN /\ target_loader \in BOOLEAN
        /\ kind \in {"header_client", "plain", "preflight"}
        /\ Turn = "ContinueToBeforeRedirect" /\ continuation = "none" /\ posted = <<>> /\ asked_listeners = {}
    BY RequestRuns
  <1>2. /\ UNCHANGED <<kind, in_progress, continuation, asked_listeners, posted, redirect_url, target_loader,
                       network, client_pipe, header_pipe, recreated>>
        /\ running' = Proxying!Idle /\ null_used' = (kind = "preflight")
    BY DEF Proxying!listenerVars, Proxying!networkVars, Proxying!ForCorsPreflight
  <1>3. target_client = "waiting" /\ header_pipe = "none" /\ (Ends("redirected") \/ NoLoader)
    BY <1>1 DEF Stage, HeadersWait
  <1>4. CASE kind = "preflight"
    <2>1. redirect_url = TRUE /\ target_client' = target_client
      BY <1>1, <1>4 DEF Preflights, Proxying!Tell, Proxying!ForCorsPreflight
    <2>2. null_used' = TRUE
      BY <1>2, <1>4
    <2>3. RequestTypes'
      BY <1>1, <1>2, <1>3, <1>4, <2>1 DEF RequestTypes
    <2>4. RequestFlags'
      BY <1>1, <1>2, <2>2 DEF RequestFlags
    <2> QED BY <1>1, <1>2, <2>2, <2>3, <2>4 DEF RequestInvariant
  <1>5. CASE kind # "preflight"
    <2>1. target_client' = "redirected"
      BY <1>3, <1>5 DEF Proxying!Tell, Proxying!ForCorsPreflight
    <2>2. null_used' = null_used
      BY <1>1, <1>2, <1>5
    <2>3. OneTurn' /\ Turn' = "none" /\ Held' /\ continuation' = "none"
      BY <1>1, <1>2, TurnEnds
    <2>4. Stage'
      BY <1>2, <1>3, <2>1, <2>3 DEF Stage, Ends, NoLoader
    <2>5. NetworkWaits'
      BY <1>1, <1>2, <2>3 DEF NetworkWaits, NoLoader
    <2>6. HeadersWait'
      BY <1>1, <1>2, <1>3, <2>3 DEF HeadersWait
    <2>7. Preflights'
      BY <1>2, <1>5 DEF Preflights
    <2> QED BY <1>1, <1>2, <2>2, <2>3, <2>4, <2>5, <2>6, <2>7, RequestGoesOn
  <1> QED BY <1>4, <1>5

\* The network service: it asks through the header pipe.
LEMMA RequestNetworkAsks ==
  ASSUME RequestInvariant, recreated = FALSE, recreated' = FALSE,
         NEW from, NEW to, Proxying!NetworkStep(from, to), client_pipe' = client_pipe, kind # "plain",
         \/ /\ to = "asking" /\ header_pipe' = "OnBeforeSendHeaders" /\ network \in {"started", "following"}
            /\ header_receiver' = header_receiver \/ network = "started"
         \/ /\ to = "asking_received" /\ header_pipe' = "OnHeadersReceived" /\ network = "sent"
            /\ header_receiver' = header_receiver
  PROVE  RequestInvariant'
  <1> USE DEF Proxying!NetworkStep, Proxying!Ready
  <1>1. /\ OneTurn /\ Stage /\ NetworkWaits /\ HeadersWait /\ Preflights
        /\ redirect_url \in BOOLEAN /\ target_loader \in BOOLEAN
    BY RequestAlive
  <1>2. /\ UNCHANGED <<kind, in_progress, running, continuation, asked_listeners, posted, redirect_url, target_loader,
                       client_receiver, target_client, recreated, null_used, send_callback, received_callback>>
        /\ network' = to /\ Held
    BY DEF Proxying!listenerVars, Proxying!headerVars, Held
  <1>3. OneTurn' /\ Turn' = Turn /\ (Held' <=> Held) /\ continuation' = continuation
    BY <1>1, <1>2, TurnKept
  <1>4. /\ Turn = "none" \/ (network = "following" /\ Turn = "ContinueToStartRequest")
    BY <1>1, <1>2 DEF NetworkWaits, Sending
  <1>5. target_client = "waiting" /\ client_pipe = <<>>
    BY <1>1 DEF Stage, Early, NoLoader, Ends, EndsAfter
  <1>6. Early'
    BY <1>2, <1>5 DEF Early, Ends
  <1>7. Stage'
    BY <1>2, <1>3, <1>4, <1>5, <1>6 DEF Stage
  <1>8. NetworkWaits'
    BY <1>1, <1>2, <1>3, <1>4 DEF NetworkWaits, NoLoader, Sending
  <1>9. HeadersWait'
    BY <1>1, <1>2, <1>3, <1>4, <1>5 DEF HeadersWait
  <1>10. Preflights'
    BY <1>1, <1>2, <1>3 DEF Preflights
  <1> QED BY <1>1, <1>2, <1>3, <1>7, <1>8, <1>9, <1>10, RequestGoesOn

\* ... and it sends through the client pipe.
LEMMA RequestNetworkSends ==
  ASSUME RequestInvariant, recreated = FALSE, NEW from, NEW to, NEW message,
         Proxying!SendToClient(from, to, message),
         \/ /\ message = "OnReceiveRedirect" /\ to = "redirected" /\ network \in {"sent", "received", "overridden"}
         \/ /\ message = "OnReceiveResponse" /\ to = "body" /\ network \in {"sent", "received"}
         \/ /\ message = "OnComplete" /\ to = "done" /\ network = "body"
         \/ /\ message = "OnCompleteError" /\ to = "done" /\ network \notin {"none", "done"}
  PROVE  RequestInvariant'
  <1> USE DEF Proxying!SendToClient, Proxying!NetworkStep, Proxying!Ready
  <1>1. /\ OneTurn /\ Stage /\ NetworkWaits /\ HeadersWait /\ Preflights
        /\ redirect_url \in BOOLEAN /\ target_loader \in BOOLEAN
    BY RequestAlive
  <1>2. /\ UNCHANGED <<kind, in_progress, running, continuation, asked_listeners, posted, redirect_url, target_loader,
                       client_receiver, header_receiver, target_client, header_pipe, recreated, null_used,
                       send_callback, received_callback>>
        /\ network' = to /\ Held /\ kind # "preflight" /\ client_pipe' = Append(client_pipe, message)
    BY DEF Proxying!listenerVars, Proxying!headerVars, Proxying!ForCorsPreflight, Held
  <1>3. OneTurn' /\ Turn' = Turn /\ (Held' <=> Held) /\ continuation' = continuation
    BY <1>1, <1>2, TurnKept
  <1>4. /\ network = "body" => \/ client_pipe = <<>> \/ client_pipe = One("OnReceiveResponse")
        /\ network = "redirected" => \/ client_pipe = <<>> \/ client_pipe = One("OnReceiveRedirect")
        /\ network \notin {"body", "redirected", "done"} => client_pipe = <<>> /\ target_client = "waiting" /\ Early
    BY <1>1 DEF Stage, Early, NoLoader, Ends, EndsAfter, Sending
  <1>5. target_loader # FALSE
    BY <1>1, <1>2 DEF NetworkWaits, NoLoader
  <1>6. /\ client_pipe = <<>> => client_pipe' = One(message)
        /\ client_pipe = One("OnReceiveResponse") => client_pipe' = Two("OnReceiveResponse", message)
        /\ client_pipe = One("OnReceiveRedirect") => client_pipe' = Two("OnReceiveRedirect", message)
    BY <1>2, PipeFacts
  <1>7. network \in Sending => Turn = "none"
    BY <1>1, <1>2 DEF NetworkWaits
  <1>8. Stage'
    <2>1. CASE message \in {"OnReceiveRedirect", "OnReceiveResponse"}
      <3>1. network \in Sending /\ network \notin {"body", "redirected", "done"}
        BY <2>1 DEF Sending
      <3>2. Turn' = "none" /\ client_pipe' = One(message) /\ target_client' = "waiting"
        BY <1>2, <1>3, <1>4, <1>6, <1>7, <3>1
      <3> QED BY <1>2, <2>1, <3>2 DEF Stage, EndsAfter
    <2>2. CASE message = "OnComplete"
      <3>1. CASE client_pipe = <<>>
        <4>1. \/ target_client = "waiting" /\ Turn = "ContinueToResponseStarted"
              \/ target_client = "responded" /\ Turn = "none"
          BY <1>1, <2>2, <3>1, PipeFacts DEF Stage, Early, NoLoader, Ends, EndsAfter, Sending
        <4> QED BY <1>2, <1>3, <1>6, <2>2, <3>1, <4>1 DEF Stage
      <3>2. CASE client_pipe = One("OnReceiveResponse")
        <4>1. target_client = "waiting" /\ Turn = "none"
          BY <1>1, <2>2, <3>2, PipeFacts, PipeHead
        <4> QED BY <1>2, <1>3, <1>6, <2>2, <3>2, <4>1 DEF Stage
      <3> QED BY <1>4, <2>2, <3>1, <3>2
    <2>3. CASE message = "OnCompleteError" /\ network \notin {"body", "redirected"}
      <3>1. client_pipe' = One("OnCompleteError") /\ network' = "done" /\ target_client' = "waiting"
        BY <1>2, <1>4, <1>6, <2>3
      <3>2. Turn \notin {"ContinueToResponseStarted", "ContinueToBeforeRedirect"}
        BY <1>1, <1>4, <2>3, PipeFacts DEF Stage, NoLoader, Ends, EndsAfter
      <3> QED BY <1>3, <3>1, <3>2 DEF Stage, Early, Ends
    <2>4. CASE message = "OnCompleteError" /\ network = "body"
      <3>1. CASE client_pipe = <<>>
        <4>1. \/ target_client = "waiting" /\ Turn = "ContinueToResponseStarted"
              \/ target_client = "responded" /\ Turn = "none"
          BY <1>1, <2>4, <3>1, PipeFacts DEF Stage, Early, NoLoader, Ends, EndsAfter, Sending
        <4> QED BY <1>2, <1>3, <1>6, <2>4, <3>1, <4>1 DEF Stage, Ends
      <3>2. CASE client_pipe = One("OnReceiveResponse")
        <4>1. target_client = "waiting" /\ Turn = "none"
          BY <1>1, <3>2, PipeFacts, PipeHead
        <4> QED BY <1>2, <1>3, <1>6, <2>4, <3>2, <4>1 DEF Stage, EndsAfter
      <3> QED BY <1>4, <2>4, <3>1, <3>2
    <2>5. CASE message = "OnCompleteError" /\ network = "redirected"
      <3>1. CASE client_pipe = <<>>
        <4>1. client_pipe' = One("OnCompleteError") /\ network' = "done"
          BY <1>2, <1>6, <2>5, <3>1
        <4>2. \/ target_client = "waiting" /\ Turn \notin {"ContinueToResponseStarted", "ContinueToBeforeRedirect"}
              \/ target_client = "waiting" /\ Turn = "ContinueToBeforeRedirect"
              \/ target_client = "redirected" /\ Turn = "none"
          BY <1>1, <2>5, <3>1, PipeFacts DEF Stage, NoLoader, Ends, EndsAfter
        <4> QED BY <1>2, <1>3, <4>1, <4>2 DEF Stage, Ends, Early
      <3>2. CASE client_pipe = One("OnReceiveRedirect")
        <4>1. target_client = "waiting" /\ Turn = "none"
          BY <1>1, <3>2, PipeFacts, PipeHead
        <4> QED BY <1>2, <1>3, <1>6, <2>5, <3>2, <4>1 DEF Stage, EndsAfter
      <3> QED BY <1>4, <2>5, <3>1, <3>2
    <2> QED BY <2>1, <2>2, <2>3, <2>4, <2>5
  <1>9. NetworkWaits'
    BY <1>1, <1>2, <1>3, <1>5 DEF NetworkWaits, Sending
  <1>10. HeadersWait'
    <2>1. header_pipe # "none" => /\ network \in {"asking", "asking_received"} /\ network' = "done"
                                  /\ client_pipe' = One("OnCompleteError")
      BY <1>1, <1>2, <1>4, <1>6 DEF HeadersWait
    <2>2. Turn \in {"ContinueToBeforeSendHeaders", "ContinueToSendHeaders", "ContinueToHandleOverrideHeaders"}
             => kind = "plain" \/ network' = "done"
      BY <1>1, <1>2 DEF HeadersWait
    <2> QED BY <1>1, <1>2, <1>3, <2>1, <2>2 DEF HeadersWait
  <1>11. Preflights'
    BY <1>2 DEF Preflights
  <1> QED BY <1>1, <1>2, <1>3, <1>8, <1>9, <1>10, <1>11, RequestGoesOn

LEMMA RequestNetwork == ASSUME RequestInvariant, recreated = FALSE, Proxying!Network PROVE RequestInvariant'
  <1>1. CASE Proxying!OnLoaderCreated
    <2>1. CASE network = "following"
      <3>1. recreated' = TRUE
        BY <1>1, <2>1 DEF Proxying!OnLoaderCreated
      <3> QED BY <3>1 DEF RequestInvariant
    <2>2. CASE network # "following"
      <3>1. /\ Proxying!NetworkStep({"started", "following"}, "asking") /\ network = "started" /\ recreated' = FALSE
            /\ header_pipe' = "OnBeforeSendHeaders" /\ client_pipe' = client_pipe
        BY <1>1, <2>2 DEF Proxying!OnLoaderCreated, Proxying!NetworkStep
      <3>2. kind # "plain"
        <4>1. HeadersWait
          BY <3>1, RequestAlive DEF Proxying!NetworkStep, Proxying!Ready
        <4> QED BY <3>1, <4>1 DEF HeadersWait
      <3> QED BY <3>1, <3>2, RequestNetworkAsks
    <2> QED BY <2>1, <2>2
  <1>2. CASE Proxying!AskToSendHeaders
    <2>1. /\ Proxying!NetworkStep({"following"}, "asking") /\ network = "following" /\ recreated' = FALSE
          /\ header_pipe' = "OnBeforeSendHeaders" /\ client_pipe' = client_pipe /\ header_receiver' = header_receiver
      BY <1>2 DEF Proxying!AskToSendHeaders, Proxying!NetworkStep
    <2>2. kind # "plain"
      <3>1. HeadersWait
        BY <2>1, RequestAlive DEF Proxying!NetworkStep, Proxying!Ready
      <3> QED BY <2>1, <3>1 DEF HeadersWait
    <2> QED BY <2>1, <2>2, RequestNetworkAsks
  <1>3. CASE Proxying!AskToReceiveHeaders
    <2>1. /\ Proxying!NetworkStep({"sent"}, "asking_received") /\ network = "sent" /\ recreated' = FALSE /\ kind # "plain"
          /\ header_pipe' = "OnHeadersReceived" /\ client_pipe' = client_pipe /\ header_receiver' = header_receiver
      BY <1>3 DEF Proxying!AskToReceiveHeaders, Proxying!NetworkStep
    <2> QED BY <2>1, RequestNetworkAsks
  <1>4. CASE Proxying!SendRedirect
    <2>1. /\ Proxying!SendToClient({"sent", "received", "overridden"}, "redirected", "OnReceiveRedirect")
          /\ network \in {"sent", "received", "overridden"}
      BY <1>4 DEF Proxying!SendRedirect, Proxying!SendToClient, Proxying!NetworkStep
    <2> QED BY <2>1, RequestNetworkSends
  <1>5. CASE Proxying!SendResponse
    <2>1. /\ Proxying!SendToClient(Proxying!Answered, "body", "OnReceiveResponse")
          /\ network \in {"sent", "received"}
      BY <1>5 DEF Proxying!SendResponse, Proxying!SendToClient, Proxying!NetworkStep, Proxying!Answered
    <2> QED BY <2>1, RequestNetworkSends
  <1>6. CASE Proxying!SendComplete
    <2>1. Proxying!SendToClient({"body"}, "done", "OnComplete") /\ network = "body"
      BY <1>6 DEF Proxying!SendComplete, Proxying!SendToClient, Proxying!NetworkStep
    <2> QED BY <2>1, RequestNetworkSends
  <1>7. CASE Proxying!SendError
    <2> DEFINE from == {"started", "following", "asking", "sent", "asking_received",
                        "received", "overridden", "body", "redirected"}
    <2>1. Proxying!SendToClient(from, "done", "OnCompleteError") /\ network \notin {"none", "done"}
      BY <1>7 DEF Proxying!SendError, Proxying!SendToClient, Proxying!NetworkStep
    <2> HIDE DEF from
    <2> QED BY <2>1, RequestNetworkSends
  <1> QED BY <1>1, <1>2, <1>3, <1>4, <1>5, <1>6, <1>7 DEF Proxying!Network

\* The factory is lost, but no loader.
LEMMA RequestKeepsLoader ==
  ASSUME RequestInvariant, recreated = FALSE, in_progress = "yes", ~null_used,
         UNCHANGED <<kind, in_progress, running, continuation, asked_listeners, posted, redirect_url, target_loader,
                     client_receiver, header_receiver, target_client, client_pipe, recreated, null_used,
                     send_callback, received_callback, network>>,
         header_pipe' = header_pipe \/ header_pipe' = "none"
  PROVE  RequestInvariant'
  <1>1. /\ OneTurn /\ Stage /\ NetworkWaits /\ HeadersWait /\ Preflights
        /\ redirect_url \in BOOLEAN /\ target_loader \in BOOLEAN
    BY RequestAlive
  <1>2. OneTurn' /\ Turn' = Turn /\ (Held' <=> Held) /\ continuation' = continuation
    BY <1>1, TurnKept
  <1>3. Stage'
    <2>1. (NoLoader <=> NoLoader') /\ (\A n : Ends(n) <=> Ends(n)') /\ (\A m, n : EndsAfter(m, n) <=> EndsAfter(m, n)')
      BY DEF NoLoader, Ends, EndsAfter
    <2>2. Early <=> Early'
      BY <2>1 DEF Early
    <2> QED BY <1>1, <1>2, <2>1, <2>2 DEF Stage
  <1>4. NetworkWaits'
    BY <1>1, <1>2 DEF NetworkWaits, NoLoader
  <1>5. HeadersWait'
    BY <1>1, <1>2 DEF HeadersWait
  <1>6. Preflights'
    BY <1>1, <1>2 DEF Preflights
  <1> QED BY <1>1, <1>2, <1>3, <1>4, <1>5, <1>6, RequestGoesOn

LEMMA RequestUnbound ==
  ASSUME RequestInvariant, recreated = FALSE, Proxying!OnProxyBindingError
  PROVE  RequestInvariant'
  <1>1. in_progress = "yes" /\ ~null_used
    BY DEF Proxying!OnProxyBindingError, Proxying!Ready
  <1>2. /\ UNCHANGED <<kind, in_progress, running, continuation, asked_listeners, posted, redirect_url, target_loader,
                       client_receiver, header_receiver, target_client, client_pipe, recreated, null_used,
                       send_callback, received_callback, network>>
        /\ header_pipe' = header_pipe
    BY DEF Proxying!OnProxyBindingError, Proxying!listenerVars, Proxying!headerVars, Proxying!pipeVars,
       Proxying!networkVars
  <1> QED BY <1>1, <1>2, RequestKeepsLoader

LEMMA RequestCrash == ASSUME RequestInvariant, recreated = FALSE, Proxying!NetworkCrash PROVE RequestInvariant'
  <1> USE DEF Proxying!NetworkCrash, Proxying!Ready
  <1>0. CASE network = "none"
    <2>1. in_progress = "yes" /\ ~null_used
      OBVIOUS
    <2>2. /\ UNCHANGED <<kind, in_progress, running, continuation, asked_listeners, posted, redirect_url, target_loader,
                         client_receiver, header_receiver, target_client, client_pipe, recreated, null_used,
                         send_callback, received_callback, network>>
          /\ header_pipe' = "none"
      BY <1>0 DEF Proxying!listenerVars, Proxying!headerVars, Proxying!pipeVars
    <2> QED BY <2>1, <2>2, RequestKeepsLoader
  <1> SUFFICES ASSUME network # "none" PROVE RequestInvariant'
    BY <1>0
  <1>1. /\ OneTurn /\ Stage /\ NetworkWaits /\ HeadersWait /\ Preflights
        /\ redirect_url \in BOOLEAN /\ target_loader \in BOOLEAN
    BY RequestAlive
  <1>2. /\ UNCHANGED <<kind, in_progress, running, continuation, asked_listeners, posted, redirect_url, target_loader,
                       client_receiver, header_receiver, target_client, client_pipe, recreated, null_used,
                       send_callback, received_callback>>
        /\ network # "none" /\ network' = "done" /\ header_pipe' = "none" /\ kind # "preflight"
    BY DEF Proxying!listenerVars, Proxying!headerVars, Proxying!pipeVars, Proxying!ForCorsPreflight
  <1>3. OneTurn' /\ Turn' = Turn /\ (Held' <=> Held) /\ continuation' = continuation
    BY <1>1, <1>2, TurnKept
  <1>4. Stage'
    <2>1. \A n : Ends(n) => Ends(n)'
      BY <1>2 DEF Ends
    <2>2. \A m, n : EndsAfter(m, n) => EndsAfter(m, n)'
      BY <1>2 DEF EndsAfter
    <2>3. ~NoLoader
      BY <1>2 DEF NoLoader
    <2>4. Early => Early'
      BY <2>1, <2>3 DEF Early
    <2> QED BY <1>1, <1>2, <1>3, <2>1, <2>2, <2>3, <2>4 DEF Stage
  <1>5. NetworkWaits'
    BY <1>1, <1>2, <1>3 DEF NetworkWaits, NoLoader, Sending
  <1>6. HeadersWait'
    BY <1>1, <1>2, <1>3 DEF HeadersWait
  <1>7. Preflights'
    BY <1>2 DEF Preflights
  <1> QED BY <1>1, <1>2, <1>3, <1>4, <1>5, <1>6, <1>7, RequestGoesOn

\* A request comes into being.
LEMMA RequestMade ==
  ASSUME RequestInvariant, recreated = FALSE, Proxying!CreateLoaderAndStart \/ Proxying!OnLoaderForCorsPreflightCreated
  PROVE  RequestInvariant'
  <1> USE DEF Proxying!CreateLoaderAndStart, Proxying!OnLoaderForCorsPreflightCreated, Proxying!RestartInternal,
              Proxying!ForCorsPreflight, Proxying!UsesHeaderClient
  <1>1. /\ in_progress = "new" /\ in_progress' = "yes" /\ redirect_url' = FALSE
        /\ UNCHANGED <<kind, posted, target_loader, target_client, client_pipe, recreated, null_used>>
    BY DEF Proxying!networkVars, Proxying!lastingVars
  <1>2. RequestNew /\ RequestTypes /\ RequestFlags
    BY <1>1 DEF RequestInvariant
  <1>3. /\ continuation = "none" /\ asked_listeners = {} /\ posted = <<>>
        /\ target_client = "waiting" /\ client_pipe = <<>> /\ network = "none" /\ header_pipe = "none"
        /\ target_loader = FALSE /\ null_used = FALSE
    BY <1>2 DEF RequestNew, NoLoader
  <1> DEFINE c == IF kind # "plain" THEN "ContinueToStartRequest" ELSE "ContinueToBeforeSendHeaders"
  <1>4. c \in Proxying!Continuations /\ AskedFor(c) = "onBeforeRequest"
    BY DEF Proxying!Continuations, AskedFor
  <1>5. \/ /\ kind # "preflight" /\ network' = network /\ header_pipe' = header_pipe
           /\ \/ Proxying!Ask("onBeforeRequest", c) /\ header_receiver' = Proxying!Paused(header_receiver)
              \/ Proxying!GoOn(c)
        \/ /\ kind = "preflight" /\ network' = "asking" /\ header_pipe' = "OnBeforeSendHeaders"
           /\ \/ Proxying!Ask("onBeforeRequest", c) /\ header_receiver' = "paused"
              \/ Proxying!GoOn(c)
    BY DEF Proxying!networkVars
  <1>6. /\ Turn' = c => /\ Turn' \in {"ContinueToStartRequest", "ContinueToBeforeSendHeaders"}
                        /\ Turn' = "ContinueToStartRequest" <=> kind # "plain"
    OBVIOUS
  <1>7. kind = "preflight" => c = "ContinueToStartRequest"
    OBVIOUS
  <1> HIDE DEF c
  <1>8. OneTurn' /\ Turn' = c /\ (Held' => header_receiver' # "bound") /\ continuation' \in {"none", c}
    <2>1. CASE Proxying!Ask("onBeforeRequest", c) /\ header_receiver' # "bound"
      BY <1>1, <1>3, <1>4, <2>1, TurnAsks
    <2>2. CASE Proxying!GoOn(c)
      <3>1. running' = Two(c, "OK") /\ UNCHANGED <<continuation, asked_listeners, posted>>
        BY <1>1, <2>2 DEF Proxying!GoOn, Two
      <3> QED BY <1>3, <1>4, <3>1, TurnRuns
    <2> QED BY <1>5, <2>1, <2>2 DEF Proxying!Paused
  <1>9. /\ Turn' \in {"ContinueToStartRequest", "ContinueToBeforeSendHeaders"}
        /\ (Turn' = "ContinueToStartRequest") <=> (kind # "plain")
    BY <1>6, <1>8
  <1>10. network' \in {"none", "asking"} /\ client_pipe' = <<>> /\ target_client' = "waiting"
    BY <1>1, <1>3, <1>5
  <1>11. Early'
    BY <1>10 DEF Early, NoLoader, Ends
  <1>12. Stage'
    BY <1>9, <1>10, <1>11 DEF Stage
  <1>13. NetworkWaits'
    BY <1>1, <1>3, <1>5, <1>9, <1>10 DEF NetworkWaits, NoLoader, Sending
  <1>14. HeadersWait'
    <2>1. Held' => header_receiver' # "bound"
      BY <1>8
    <2>2. kind' = "plain" => header_pipe' = "none" /\ Turn' # "ContinueToStartRequest"
      BY <1>1, <1>3, <1>5, <1>9
    <2>3. header_pipe' # "none" => network' = "asking" /\ header_pipe' = "OnBeforeSendHeaders" /\ Turn' = "ContinueToStartRequest"
      BY <1>3, <1>5, <1>9
    <2>4. Turn' = "ContinueToBeforeSendHeaders" => kind' = "plain"
      BY <1>1, <1>9
    <2> QED BY <1>9, <1>10, <2>1, <2>2, <2>3, <2>4 DEF HeadersWait
  <1>15. Preflights'
    BY <1>1, <1>7, <1>8, <1>10 DEF Preflights
  <1>16. RequestTypes' /\ null_used' = FALSE
    BY <1>1, <1>2, <1>3 DEF RequestTypes
  <1>17. RequestFlags'
    BY <1>1, <1>2, <1>16 DEF RequestFlags
  <1> QED BY <1>1, <1>8, <1>12, <1>13, <1>14, <1>15, <1>16, <1>17 DEF RequestInvariant, RequestShape

LEMMA RecreatedKept ==
  ASSUME Proxying!Next, ~Proxying!OnLoaderCreated
  PROVE  recreated' = recreated
  <1> USE DEF Proxying!lastingVars, Proxying!Remove, Proxying!OnRequestError
  <1>1. CASE \/ Proxying!CreateLoaderAndStart \/ Proxying!OnLoaderForCorsPreflightCreated
             \/ Proxying!FollowRedirect \/ Proxying!OnClientDisconnected \/ Proxying!Answer
             \/ Proxying!OnPreflightDisconnected \/ Proxying!NetworkCrash \/ Proxying!OnProxyBindingError
    BY <1>1 DEF Proxying!CreateLoaderAndStart, Proxying!OnLoaderForCorsPreflightCreated,
       Proxying!FollowRedirect, Proxying!OnClientDisconnected, Proxying!Answer, Proxying!OnListenerResult,
       Proxying!OnPreflightDisconnected, Proxying!NetworkCrash, Proxying!OnProxyBindingError
  <1>2. CASE Proxying!Methods
    BY <1>2 DEF Proxying!Methods, Proxying!HandleBeforeRequestRedirect, Proxying!ContinueToBeforeSendHeaders,
       Proxying!ContinueToSendHeaders, Proxying!ContinueToStartRequest, Proxying!ContinueToHandleOverrideHeaders,
       Proxying!ResponseIsRedirect, Proxying!ContinueToResponseStarted, Proxying!ContinueToBeforeRedirect,
       Proxying!ContinuationFails
  <1>3. CASE Proxying!Messages
    BY <1>3 DEF Proxying!Messages, Proxying!RunPosted, Proxying!OnBeforeSendHeaders, Proxying!OnHeadersReceived,
       Proxying!OnReceiveResponse, Proxying!OnReceiveRedirect, Proxying!OnReceive, Proxying!OnComplete,
       Proxying!OnCompleteError
  <1>4. CASE Proxying!Network
    BY <1>4 DEF Proxying!Network, Proxying!AskToSendHeaders, Proxying!AskToReceiveHeaders, Proxying!SendRedirect,
       Proxying!SendResponse, Proxying!SendComplete, Proxying!SendError, Proxying!SendToClient
  <1> QED BY <1>1, <1>2, <1>3, <1>4 DEF Proxying!Next

LEMMA NotSent ==
  ASSUME Proxying!Next, ~(Proxying!ContinueToSendHeaders \/ Proxying!ContinueToStartRequest)
  PROVE  ~(network' = "sent" /\ network # "sent")
  <1> USE DEF Proxying!networkVars, Proxying!Remove, Proxying!OnRequestError
  <1>1. CASE \/ Proxying!CreateLoaderAndStart \/ Proxying!OnLoaderForCorsPreflightCreated
             \/ Proxying!OnClientDisconnected \/ Proxying!Answer
             \/ Proxying!OnPreflightDisconnected \/ Proxying!NetworkCrash \/ Proxying!OnProxyBindingError
    BY <1>1 DEF Proxying!CreateLoaderAndStart, Proxying!OnLoaderForCorsPreflightCreated,
       Proxying!OnClientDisconnected, Proxying!Answer, Proxying!OnListenerResult,
       Proxying!OnPreflightDisconnected, Proxying!NetworkCrash, Proxying!OnProxyBindingError
  <1>2. CASE Proxying!FollowRedirect
    BY <1>2 DEF Proxying!FollowRedirect, Proxying!Follows
  <1>3. CASE Proxying!ContinueToHandleOverrideHeaders
    BY <1>3 DEF Proxying!ContinueToHandleOverrideHeaders
  <1>4. CASE Proxying!Methods /\ ~Proxying!ContinueToHandleOverrideHeaders
    BY <1>4 DEF Proxying!Methods, Proxying!HandleBeforeRequestRedirect, Proxying!ContinueToBeforeSendHeaders,
       Proxying!ResponseIsRedirect, Proxying!ContinueToResponseStarted, Proxying!ContinueToBeforeRedirect,
       Proxying!ContinuationFails, Proxying!Disconnect
  <1>5. CASE Proxying!Messages
    BY <1>5 DEF Proxying!Messages, Proxying!RunPosted, Proxying!OnBeforeSendHeaders, Proxying!OnHeadersReceived,
       Proxying!OnReceiveResponse, Proxying!OnReceiveRedirect, Proxying!OnReceive, Proxying!OnComplete,
       Proxying!OnCompleteError
  <1>6. CASE Proxying!Network
    BY <1>6 DEF Proxying!Network, Proxying!OnLoaderCreated, Proxying!AskToSendHeaders,
       Proxying!AskToReceiveHeaders, Proxying!SendRedirect, Proxying!SendResponse, Proxying!SendComplete,
       Proxying!SendError, Proxying!SendToClient, Proxying!NetworkStep
  <1> QED BY <1>1, <1>2, <1>3, <1>4, <1>5, <1>6 DEF Proxying!Next

LEMMA RequestStep == RequestInvariant /\ Proxying!Next => RequestInvariant'
  <1> SUFFICES ASSUME RequestInvariant, Proxying!Next PROVE RequestInvariant'
    OBVIOUS
  <1>1. CASE recreated = TRUE
    <2>1. recreated' = TRUE
      <3>1. CASE Proxying!OnLoaderCreated
        BY <1>1, <3>1 DEF Proxying!OnLoaderCreated
      <3>2. CASE ~Proxying!OnLoaderCreated
        BY <1>1, <3>2, RecreatedKept
      <3> QED BY <3>1, <3>2
    <2> QED BY <2>1 DEF RequestInvariant
  <1>2. CASE recreated = FALSE
    BY <1>2, RequestMade, RequestFollows, RequestEnds, RequestAnswered, RequestRedirected,
       RequestBeforeHeaders, RequestSendHeaders, RequestStarts, RequestOverrides, RequestResponds,
       RequestRedirects, RequestPosted, RequestAsksToSend, RequestHeadersReceived, RequestReceives,
       RequestCompletes, RequestNetwork, RequestCrash, RequestUnbound
       DEF Proxying!Next, Proxying!Answer, Proxying!Methods, Proxying!Messages,
           Proxying!OnReceiveResponse, Proxying!OnReceiveRedirect
  <1> QED BY <1>1, <1>2 DEF RequestInvariant

LEMMA RequestStutter == RequestInvariant /\ Proxying!NoStep => RequestInvariant'
  <1> SUFFICES ASSUME RequestInvariant, Proxying!NoStep PROVE RequestInvariant'
    OBVIOUS
  <1>1. UNCHANGED <<kind, in_progress, running, continuation, asked_listeners, posted, redirect_url,
                    send_callback, received_callback, target_loader,
                    client_receiver, header_receiver, target_client, network, client_pipe, header_pipe,
                    recreated, null_used>>
    BY DEF Proxying!NoStep, Proxying!requestVars, Proxying!listenerVars, Proxying!headerVars,
           Proxying!pipeVars, Proxying!networkVars, Proxying!lastingVars
  <1>2. Turn' = Turn /\ (Held' <=> Held) /\ (NoLoader <=> NoLoader')
    BY <1>1 DEF Turn, Held, NoLoader
  <1>3. Early => Early'
    BY <1>1 DEF Early, NoLoader, Ends
  <1>4. OneTurn => OneTurn'
    BY <1>1 DEF OneTurn, IsTask
  <1>5. Stage => Stage'
    BY <1>1, <1>2, <1>3 DEF Stage, Ends, EndsAfter
  <1>6. (NetworkWaits => NetworkWaits') /\ (HeadersWait => HeadersWait') /\ (Preflights => Preflights')
    BY <1>1, <1>2 DEF NetworkWaits, HeadersWait, Preflights
  <1>7. (RequestTypes => RequestTypes') /\ (RequestNew => RequestNew')
    BY <1>1, <1>2 DEF RequestTypes, RequestNew
  <1>8. RequestFlags => RequestFlags'
    BY <1>1 DEF RequestFlags
  <1>9. RequestShape => RequestShape'
    BY <1>4, <1>5, <1>6 DEF RequestShape
  <1> QED BY <1>1, <1>7, <1>8, <1>9 DEF RequestInvariant

LEMMA RequestSafe == RequestInvariant => Proxying!PageIsNotConfused
  <1> SUFFICES ASSUME RequestInvariant, recreated = FALSE PROVE Proxying!PageIsNotConfused
    BY DEF RequestInvariant, Proxying!PageIsNotConfused
  <1>1. target_client # "confused" /\ (null_used = TRUE => kind = "preflight" /\ redirect_url = TRUE)
    BY DEF RequestInvariant, RequestTypes
  <1>2. null_used = TRUE \/ null_used = FALSE
    BY DEF RequestInvariant, RequestFlags
  <1> QED BY <1>1, <1>2 DEF Proxying!PageIsNotConfused, Proxying!ForCorsPreflight

\* The network service gets the headers only from a method that runs, and
\* then no listener is asked.
LEMMA HeadersLeave ==
  ASSUME RequestInvariant, Proxying!Next, network' = "sent", network # "sent", ~recreated
  PROVE  {"onBeforeRequest", "onBeforeSendHeaders"} \cap asked_listeners' = {}
  <1>1. recreated = FALSE
    BY DEF RequestInvariant
  <1>2. CASE Proxying!ContinueToSendHeaders \/ Proxying!ContinueToStartRequest
    <2>1. asked_listeners' = asked_listeners
      BY <1>2 DEF Proxying!ContinueToSendHeaders, Proxying!ContinueToStartRequest, Proxying!listenerVars
    <2>2. asked_listeners = {}
      BY <1>1, <1>2, RequestRuns DEF Proxying!ContinueToSendHeaders, Proxying!ContinueToStartRequest
    <2> QED BY <2>1, <2>2
  <1>3. CASE ~(Proxying!ContinueToSendHeaders \/ Proxying!ContinueToStartRequest)
    BY <1>3, NotSent
  <1> QED BY <1>2, <1>3
-----------------------------------------------------------------------------
(* The parts together: each takes its steps or stands still.               *)

\* A page sees the redirects, the response and the end of its request in
\* order and once, the callbacks and pipes that are used are set, and a
\* WebSocket is connected only after no listener has objected and told of
\* once (ProxyingURLLoaderFactory::InProgressRequest, ProxyingWebSocket).
THEOREM PagesCorrect == ServicesSpec => []PageIsNotConfused
  <1>1. ServicesInit => SocketInvariant /\ RequestInvariant
    BY SocketInit, RequestInit DEF ServicesInit
  <1>2. SocketInvariant /\ [ServicesNext]_serviceVars => SocketInvariant'
    BY SocketStep, SocketStutter DEF ServicesNext, serviceVars, Sockets!NoStep
  <1>3. RequestInvariant /\ [ServicesNext]_serviceVars => RequestInvariant'
    BY RequestStep, RequestStutter DEF ServicesNext, serviceVars, Proxying!NoStep
  <1>4. SocketInvariant /\ RequestInvariant => PageIsNotConfused
    BY SocketSafe, RequestSafe DEF PageIsNotConfused
  <1> QED BY <1>1, <1>2, <1>3, <1>4, PTL DEF ServicesSpec

\* The headers of a request leave only when every listener that was asked
\* about this hop has answered (InProgressRequest::ContinueToSendHeaders and
\* ContinueToStartRequest).
THEOREM HeadersCorrect == ServicesSpec => HeadersWaitForListeners
  <1>1. ServicesInit => RequestInvariant
    BY RequestInit DEF ServicesInit
  <1>2. RequestInvariant /\ [ServicesNext]_serviceVars => RequestInvariant'
    BY RequestStep, RequestStutter DEF ServicesNext, serviceVars, Proxying!NoStep
  <1>3. RequestInvariant /\ [ServicesNext]_serviceVars =>
          [network' = "sent" /\ network # "sent" =>
              {"onBeforeRequest", "onBeforeSendHeaders"} \cap asked_listeners' = {} \/ recreated]_
              (Proxying!requestVars)
    BY HeadersLeave DEF ServicesNext, serviceVars, Proxying!NoStep
  <1> QED
    BY <1>1, <1>2, <1>3, PTL
    DEF ServicesSpec, HeadersWaitForListeners, Proxying!HeadersWaitForListeners
-----------------------------------------------------------------------------
(* The services implement RequestService: whatever happens in a part, each *)
(* of its requests moves from new to pending to answered or dropped, and   *)
(* never back.                                                             *)

\* From the status f of the requests S to their status g: a request that is
\* settled stays so, and one that is pending does not become new again.
States == {"new", "pending", "answered", "dropped"}
Advances(S, f, g) ==
    /\ f \in [S -> States] /\ g \in [S -> States]
    /\ \A r \in S : f[r] = g[r] \/ f[r] = "new" \/ (f[r] = "pending" /\ g[r] # "new")

\* Every such step of a part is a step of RequestService.
LEMMA AdvanceIsMove ==
  ASSUME NEW S, Advances(S, PartStatus, PartStatus')
  PROVE  Service!Next
  <1> DEFINE f == PartStatus
             g == PartStatus'
  <1>1. /\ f \in [S -> States] /\ g \in [S -> States]
        /\ \A r \in S : f[r] = g[r] \/ f[r] = "new" \/ (f[r] = "pending" /\ g[r] # "new")
    BY DEF Advances
  <1> HIDE DEF f, g
  <1>2. DOMAIN f = S /\ DOMAIN g = S
    BY <1>1
  <1> DEFINE F == [r \in AllRequests |-> IF r \in DOMAIN f THEN f[r] ELSE "new"]
             G == [r \in AllRequests |-> IF r \in DOMAIN g THEN g[r] ELSE "new"]
  <1>3. G \in [AllRequests -> States]
    BY <1>1, <1>2 DEF States
  <1>4. ASSUME NEW r \in AllRequests, G[r] # F[r]
        PROVE  <<F[r], G[r]>> \in Service!Moves
    <2>1. CASE r \in S
      <3>1. F[r] = f[r] /\ G[r] = g[r] /\ f[r] \in States /\ g[r] \in States
        BY <1>1, <1>2, <2>1
      <3> QED BY <1>1, <1>4, <2>1, <3>1 DEF Service!Moves, States
    <2>2. CASE r \notin S
      BY <1>2, <1>4, <2>2
    <2> QED BY <2>1, <2>2
  <1> QED BY <1>3, <1>4 DEF Service!Next, RequestStatus, f, g, F, G, States

-----------------------------------------------------------------------------
(* One lemma per part. *)

LEMMA FrameAdvances ==
  ASSUME FrameInvariant, FrameInvariant', Framing!Next
  PROVE  Advances({1}, Framing!Status, Framing!Status')
  <1>1. script \in {"new", "running", "answered", "dropped"} /\ script' \in {"new", "running", "answered", "dropped"}
    BY DEF FrameInvariant, FrameScript
  <1>2. disposed \in BOOLEAN
    BY DEF FrameInvariant, FrameObject
  <1>3. script' = script \/ script = "new" \/ (script = "running" /\ script' # "new")
    BY <1>1, <1>2 DEF Framing!Next, Framing!NavigationStarts, Framing!RenderFrameCreated,
       Framing!RenderFrameHostChanged, Framing!RendererCrashes, Framing!RenderFrameDeleted, Framing!HostGoes,
       Framing!From, Framing!FrameDeleted, Framing!OnRendererConnectionError, Framing!Send,
       Framing!ExecuteJavaScript, Framing!ScriptReturns, Framing!ScriptWithout
  <1> QED BY <1>1, <1>3 DEF Advances, Framing!Status, States

LEMMA StreamAdvances ==
  ASSUME StreamInvariant, StreamInvariant', Streaming!Next
  PROVE  Advances({1}, Streaming!Status, Streaming!Status')
  <1>1. /\ completed \in {"new", "no", "OK", "FAILED", "NO_PIPE"} /\ end_result \in {"OK", "FAILED"}
        /\ completed' \in {"new", "no", "OK", "FAILED", "NO_PIPE"}
    BY DEF StreamInvariant, StreamTypes
  <1>2. completed' = completed \/ completed = "new" \/ (completed = "no" /\ completed' # "new")
    BY <1>1 DEF Streaming!Next, Streaming!Start, Streaming!Push, Streaming!PushEnd, Streaming!Fail,
       Streaming!OnDisconnect, Streaming!Work, Streaming!Emit, Streaming!SkipReadable,
       Streaming!NotifyReadableReads, Streaming!NotifyReadable, Streaming!OnEnd, Streaming!NotifyComplete,
       Streaming!ReadReturnsBuffer, Streaming!ReadReturnsNothing, Streaming!DidWrite, Streaming!DidNotWrite,
       Streaming!Alive, Streaming!Running
  <1> QED BY <1>1, <1>2 DEF Advances, Streaming!Status, Streaming!Alive, States

\* A loader's request is made once, and RemoveRequest is the end of it.
LEMMA ProxiedMoves ==
  ASSUME Proxying!Next
  PROVE  in_progress' = in_progress \/ in_progress' = "no" \/ (in_progress = "new" /\ in_progress' = "yes")
  <1> USE DEF Proxying!Remove, Proxying!OnRequestError
  <1>1. CASE \/ Proxying!CreateLoaderAndStart \/ Proxying!OnLoaderForCorsPreflightCreated
             \/ Proxying!FollowRedirect \/ Proxying!OnClientDisconnected \/ Proxying!Answer
             \/ Proxying!OnPreflightDisconnected \/ Proxying!NetworkCrash \/ Proxying!OnProxyBindingError
    BY <1>1 DEF Proxying!CreateLoaderAndStart, Proxying!OnLoaderForCorsPreflightCreated,
       Proxying!FollowRedirect, Proxying!OnClientDisconnected, Proxying!Answer, Proxying!OnListenerResult,
       Proxying!OnPreflightDisconnected, Proxying!NetworkCrash, Proxying!OnProxyBindingError
  <1>2. CASE Proxying!Methods
    BY <1>2 DEF Proxying!Methods, Proxying!HandleBeforeRequestRedirect, Proxying!ContinueToBeforeSendHeaders,
       Proxying!ContinueToSendHeaders, Proxying!ContinueToStartRequest, Proxying!ContinueToHandleOverrideHeaders,
       Proxying!ResponseIsRedirect, Proxying!ContinueToResponseStarted, Proxying!ContinueToBeforeRedirect,
       Proxying!ContinuationFails
  <1>3. CASE Proxying!Messages
    BY <1>3 DEF Proxying!Messages, Proxying!RunPosted, Proxying!OnBeforeSendHeaders, Proxying!OnHeadersReceived,
       Proxying!OnReceiveResponse, Proxying!OnReceiveRedirect, Proxying!OnReceive, Proxying!OnComplete,
       Proxying!OnCompleteError
  <1>4. CASE Proxying!Network
    BY <1>4 DEF Proxying!Network, Proxying!OnLoaderCreated, Proxying!AskToSendHeaders,
       Proxying!AskToReceiveHeaders, Proxying!SendRedirect, Proxying!SendResponse, Proxying!SendComplete,
       Proxying!SendError, Proxying!SendToClient, Proxying!NetworkStep
  <1> QED BY <1>1, <1>2, <1>3, <1>4 DEF Proxying!Next

ProxiedStates == in_progress \in {"new", "yes", "no"}

LEMMA ProxiedAdvances ==
  ASSUME ProxiedStates, Proxying!Next
  PROVE  ProxiedStates' /\ Advances({1}, Proxying!Status, Proxying!Status')
  BY ProxiedMoves DEF ProxiedStates, Advances, Proxying!Status, States

\* A handshake whose proxy is there is pending or its page is gone; without it
\* the page was told how it went, or is gone.
HandshakeStates ==
    /\ ws_page \in {"waiting", "connected", "failed", "gone"}
    /\ proxy = "new" => ws_page = "waiting"
    /\ proxy = "yes" => ws_page \in {"waiting", "gone"}
    /\ proxy = "no" => ws_page # "waiting"

LEMMA HandshakeMoves ==
  ASSUME HandshakeStates, SocketInvariant, Sockets!Next
  PROVE  \/ UNCHANGED <<proxy, ws_page>>
         \/ proxy = "new" /\ proxy' = "yes" /\ ws_page' = ws_page
         \/ proxy = "yes" /\ proxy' = "yes" /\ ws_page = "waiting" /\ ws_page' = "gone"
         \/ /\ proxy = "yes" /\ proxy' = "no"
            /\ IF ws_page = "gone" THEN ws_page' = "gone" ELSE ws_page' \in {"connected", "failed"}
  BY DEF Sockets!Next, Sockets!StartProxying, Sockets!Task, Sockets!Answer, Sockets!NetworkSends, Sockets!PageGoes,
     Sockets!OnBeforeSendHeaders, Sockets!OnHeadersReceived, Sockets!OnAuthRequired,
     Sockets!OnConnectionEstablished, Sockets!OnMojoConnectionErrorWithCustomReason,
     Sockets!OnMojoConnectionError, Sockets!RunContinuation, Sockets!OnListenerResult, Sockets!OnError,
     Sockets!Delete, Sockets!ContinueToCompleted, Sockets!Receives

LEMMA HandshakeAdvances ==
  ASSUME HandshakeStates, SocketInvariant, Sockets!Next
  PROVE  HandshakeStates' /\ Advances({1}, Sockets!Status, Sockets!Status')
  <1>1. proxy \in {"new", "yes", "no"}
    BY DEF SocketInvariant, SocketTypes
  <1>2. HandshakeStates'
    BY <1>1, HandshakeMoves DEF HandshakeStates
  <1>3. ws_page \in {"waiting", "connected", "failed", "gone"}
    BY DEF HandshakeStates
  <1>4. Advances({1}, Sockets!Status, Sockets!Status')
    BY <1>1, <1>2, <1>3, HandshakeMoves DEF HandshakeStates, Advances, Sockets!Status, States
  <1> QED BY <1>2, <1>4

\* A loader that was ended by its validator makes no further step.
ArchiveStates == asar_state \in {"new", "posted", "writing", "done"}

LEMMA ArchiveAdvances ==
  ASSUME ArchiveStates, Archive!Next
  PROVE  ArchiveStates' /\ Advances({1}, Archive!Status, Archive!Status')
  <1>1. \/ asar_state = "new" /\ asar_state' = "posted"
        \/ asar_state = "posted" /\ asar_state' \in {"writing", "done"}
        \/ asar_state = "writing" /\ ~validator.fatal /\ asar_state' \in {"writing", "done"}
    BY DEF Archive!Next, Archive!CreateAsarURLLoader, Archive!Work, Archive!StartFails, Archive!Start,
       Archive!Produce, Archive!OnFileWritten
  <1> QED BY <1>1 DEF ArchiveStates, Advances, Archive!Status, States

\* Lookups are answered in the order they were made, so each of them once.
LEMMA LookupAdvances ==
  ASSUME LookupInvariant, LookupInvariant', Lookup!Next
  PROVE  Advances(Lookups, Lookup!Status, Lookup!Status')
  <1>1. /\ proxies \in Seq(Lookups) /\ Len(proxies) \in Nat /\ asked \in Nat /\ Len(proxies) <= asked
        /\ \A i \in 1..Len(proxies) : proxies[i] = i
    BY DEF LookupInvariant, LookupOrder, Lookup!TypeOK
  <1>2. /\ proxies' \in Seq(Lookups) /\ Len(proxies') \in Nat /\ asked' \in Nat
        /\ \A i \in 1..Len(proxies') : proxies'[i] = i
    BY DEF LookupInvariant, LookupOrder, Lookup!TypeOK
  <1>3. Lookups \subseteq Nat \ {0}
    BY ServicesAssumption
  <1>4. ASSUME NEW r \in Lookups
        PROVE  Lookup!Status[r] = IF r <= Len(proxies) THEN "answered"
                                  ELSE IF r <= asked THEN "pending" ELSE "new"
    BY <1>1, <1>3, <1>4 DEF Lookup!Status
  <1>5. ASSUME NEW r \in Lookups
        PROVE  Lookup!Status'[r] = IF r <= Len(proxies') THEN "answered"
                                   ELSE IF r <= asked' THEN "pending" ELSE "new"
    BY <1>2, <1>3, <1>5 DEF Lookup!Status
  <1>6. Len(proxies) <= Len(proxies') /\ asked <= asked'
    <2>1. CASE Lookup!ResolveProxy
      BY <1>1, <2>1 DEF Lookup!ResolveProxy
    <2>2. CASE Lookup!OnProxyLookupComplete
      <3>1. Head(pending_lookups) \in Lookups /\ proxies' = Append(proxies, Head(pending_lookups)) /\ asked' = asked
        BY <2>2 DEF Lookup!OnProxyLookupComplete, LookupInvariant, LookupOrder, Lookup!TypeOK,
                    Lookup!LookupIsForTheFront
      <3> QED BY <1>1, <3>1
    <2>3. CASE Lookup!StartNext
      BY <1>1, <2>3 DEF Lookup!StartNext
    <2> QED BY <2>1, <2>2, <2>3 DEF Lookup!Next, Lookup!Complete
  <1>7. Lookup!Status \in [Lookups -> States] /\ Lookup!Status' \in [Lookups -> States]
    <2>1. \A r \in Lookups : Lookup!Status[r] \in States /\ Lookup!Status'[r] \in States
      BY <1>4, <1>5 DEF States
    <2> QED BY <2>1 DEF Lookup!Status
  <1>8. ASSUME NEW r \in Lookups
        PROVE  \/ Lookup!Status[r] = Lookup!Status'[r] \/ Lookup!Status[r] = "new"
               \/ Lookup!Status[r] = "pending" /\ Lookup!Status'[r] # "new"
    BY <1>1, <1>2, <1>3, <1>4, <1>5, <1>6, <1>8
  <1> QED BY <1>7, <1>8 DEF Advances

\* A command is settled once: Settle leaves a promise alone that is settled.
LEMMA CommandAdvances ==
  ASSUME DebuggerInvariant, DebuggerInvariant', Debugging!Next
  PROVE  Advances(Commands, Debugging!Status, Debugging!Status')
  <1>0. Commands \subseteq Nat
    BY ServicesAssumption
  <1>1. /\ previous_request_id \in Nat /\ previous_request_id' \in Nat /\ Commands \subseteq Nat
        /\ command_result \in [Commands -> {"none", "reply", "closed", "no_target"}]
        /\ command_result' \in [Commands -> {"none", "reply", "closed", "no_target"}]
        /\ \A c \in Commands : c > previous_request_id => command_result[c] = "none"
    BY <1>0 DEF DebuggerInvariant, DebuggerTypes
  <1>2. previous_request_id <= previous_request_id'
    <2>1. previous_request_id' \in {previous_request_id, previous_request_id + 1}
      BY DEF Debugging!Next, Debugging!Attach, Debugging!SendCommand, Debugging!AgentHostClosed,
         Debugging!Clear, Debugging!ClearCall, Debugging!ClearReject, Debugging!ClearEnd, Debugging!Reply,
         Debugging!DispatchProtocolMessage
    <2> QED BY <1>1, <2>1
  <1>3. ASSUME NEW c \in Commands, command_result[c] # "none" PROVE command_result'[c] # "none"
    BY <1>1, <1>3 DEF Debugging!Next, Debugging!Attach, Debugging!SendCommand, Debugging!AgentHostClosed,
       Debugging!Clear, Debugging!ClearCall, Debugging!ClearReject, Debugging!ClearEnd, Debugging!Reply,
       Debugging!DispatchProtocolMessage, Debugging!Settle
  <1> QED BY <1>1, <1>2, <1>3 DEF Advances, Debugging!Status, States

\* The promise of a start that was overtaken is dropped for good.
LEMMA LogAdvances ==
  ASSUME NetLogInvariant, NetLogInvariant', Logging!Next
  PROVE  Advances(Logs, Logging!Status, Logging!Status')
  <1>0. Logs \subseteq Nat
    BY ServicesAssumption
  <1>1. /\ Logs \subseteq Nat /\ logs \in Nat /\ logs' \in Nat
        /\ pending_start_promise = logs /\ pending_start_promise' = logs'
        /\ start_result \in [Logs -> {"none", "pending", "resolved", "rejected"}]
        /\ start_result' \in [Logs -> {"none", "pending", "resolved", "rejected"}]
        /\ \A s \in Logs : s > logs => start_result[s] = "none"
    BY <1>0 DEF NetLogInvariant, NetLogTypes, Logging!TypeOK
  <1> DEFINE Same == logs' = logs /\ start_result' = start_result
             Starts == logs' = logs + 1 /\ start_result' = [start_result EXCEPT ![logs + 1] = "pending"]
             Settles ==
                /\ logs' = logs
                /\ \E result \in {"resolved", "rejected"} :
                      start_result' = [start_result EXCEPT ![logs] = IF @ = "pending" THEN result ELSE @]
  <1>2. Same \/ Starts \/ Settles
    <2>1. ASSUME NEW result \in {"resolved", "rejected"}, Logging!SettleStart(result), logs' = logs
          PROVE  Same \/ Settles
      BY <1>1, <2>1 DEF Logging!SettleStart
    <2>2. CASE Logging!StartLogging
      BY <2>2 DEF Logging!StartLogging
    <2>3. CASE Logging!StopLogging \/ Logging!FileIsTooLate \/ Logging!StartNetLogAfterCreateFile
      BY <2>3 DEF Logging!StopLogging, Logging!FileIsTooLate, Logging!StartNetLogAfterCreateFile
    <2>4. CASE Logging!FileIsInvalid
      BY <2>1, <2>4 DEF Logging!FileIsInvalid
    <2>5. ASSUME NEW s \in Logs, NEW result \in {"resolved", "rejected"}, Logging!NetLogStarted(s, result)
          PROVE  Same \/ Settles
      BY <2>1, <2>5 DEF Logging!NetLogStarted
    <2>6. ASSUME NEW s \in Logs, NEW result \in {"resolved", "rejected"}, Logging!Stopped(s, result)
          PROVE  Same
      BY <2>6 DEF Logging!Stopped
    <2>7. ASSUME NEW s \in Logs, Logging!OnConnectionError(s)
          PROVE  Same \/ Settles
      BY <2>1, <2>7 DEF Logging!OnConnectionError
    <2> QED BY <2>2, <2>3, <2>4, <2>5, <2>6, <2>7 DEF Logging!Next, Logging!FileOpened, Logging!ServiceReplies
  <1>3. ASSUME NEW s \in Logs
        PROVE  Logging!Status[s] = IF start_result[s] \in {"resolved", "rejected"} THEN "answered"
                                   ELSE IF start_result[s] = "none" THEN "new"
                                   ELSE IF s = logs THEN "pending" ELSE "dropped"
    BY <1>1, <1>3 DEF Logging!Status
  <1>4. ASSUME NEW s \in Logs
        PROVE  Logging!Status'[s] = IF start_result'[s] \in {"resolved", "rejected"} THEN "answered"
                                    ELSE IF start_result'[s] = "none" THEN "new"
                                    ELSE IF s = logs' THEN "pending" ELSE "dropped"
    BY <1>1, <1>4 DEF Logging!Status
  <1>5. Logging!Status \in [Logs -> States] /\ Logging!Status' \in [Logs -> States]
    <2>1. \A s \in Logs : Logging!Status[s] \in States /\ Logging!Status'[s] \in States
      BY <1>3, <1>4 DEF States
    <2> QED BY <2>1 DEF Logging!Status
  <1>6. ASSUME NEW s \in Logs
        PROVE  \/ Logging!Status[s] = Logging!Status'[s] \/ Logging!Status[s] = "new"
               \/ Logging!Status[s] = "pending" /\ Logging!Status'[s] # "new"
    BY <1>1, <1>2, <1>3, <1>4, <1>6
  <1> QED BY <1>5, <1>6 DEF Advances

\* A request that was answered or dropped is not in pending_requests_ any
\* more, and only those are answered.
LEMMA PermissionMoves ==
  ASSUME PermissionInvariant, Permissions!Next, NEW r \in Requests
  PROVE  /\ r \in made => r \in made'
         /\ r \in made /\ r \in pending_requests' => r \in pending_requests
         /\ answers'[r] # answers[r] => r \notin made \/ r \in pending_requests
  <1>1. PermissionTypes
    BY DEF PermissionInvariant
  <1> USE DEF PermissionTypes, Permissions!requestVars
  <1>2. ASSUME NEW q \in Requests, NEW n \in 0..MaxPermissions, Permissions!RequestUnhandled(q, n)
        PROVE  /\ r \in made => r \in made'
               /\ r \in made /\ r \in pending_requests' => r \in pending_requests
               /\ answers'[r] # answers[r] => r \notin made \/ r \in pending_requests
    BY <1>1, <1>2 DEF Permissions!RequestUnhandled
  <1>3. ASSUME NEW q \in Requests, NEW n \in 0..MaxPermissions, Permissions!RequestPermissionsWithDetails(q, n)
        PROVE  /\ r \in made => r \in made'
               /\ r \in made /\ r \in pending_requests' => r \in pending_requests
               /\ answers'[r] # answers[r] => r \notin made \/ r \in pending_requests
    BY <1>1, <1>3 DEF Permissions!RequestPermissionsWithDetails
  <1>4. CASE Permissions!Ask \/ Permissions!SetHandler \/ \E q \in Requests : Permissions!DestroyFrame(q)
    BY <1>1, <1>4 DEF Permissions!Ask, Permissions!RunHandler, Permissions!RunNullHandler, Permissions!SetHandler,
                      Permissions!DestroyFrame
  <1>5. CASE Permissions!Respond
    BY <1>1, <1>5 DEF Permissions!Respond, Permissions!OnPermissionResponse
  <1>6. CASE Permissions!RemoveHandler
    BY <1>1, <1>6 DEF Permissions!RemoveHandler
  <1> QED BY <1>2, <1>3, <1>4, <1>5, <1>6 DEF Permissions!Next

LEMMA PermissionAdvances ==
  ASSUME PermissionInvariant, PermissionInvariant', Permissions!Next
  PROVE  Advances(Requests, Permissions!Status, Permissions!Status')
  <1>1. ASSUME NEW r \in Requests
        PROVE  /\ Len(answers[r]) \in Nat /\ Len(answers[r]) <= 1
               /\ answers[r] # <<>> => r \in made /\ r \notin pending_requests
               /\ r \in pending_requests => r \in made
    BY <1>1 DEF PermissionInvariant, PermissionTypes, AskedInvariant, AskedSized, AskedMatched
  <1>2. ASSUME NEW r \in Requests
        PROVE  Len(answers'[r]) \in Nat /\ Len(answers'[r]) <= 1
    BY <1>2 DEF PermissionInvariant, PermissionTypes, AskedInvariant, AskedSized
  <1>3. ASSUME NEW r \in Requests
        PROVE  Permissions!Status[r] = IF answers[r] # <<>> THEN "answered"
                                       ELSE IF r \in pending_requests THEN "pending"
                                       ELSE IF r \in made THEN "dropped" ELSE "new"
    BY <1>1, <1>3 DEF Permissions!Status
  <1>4. ASSUME NEW r \in Requests
        PROVE  Permissions!Status'[r] = IF answers'[r] # <<>> THEN "answered"
                                        ELSE IF r \in pending_requests' THEN "pending"
                                        ELSE IF r \in made' THEN "dropped" ELSE "new"
    BY <1>2, <1>4 DEF Permissions!Status
  <1>5. Permissions!Status \in [Requests -> States] /\ Permissions!Status' \in [Requests -> States]
    <2>1. \A r \in Requests : Permissions!Status[r] \in States /\ Permissions!Status'[r] \in States
      BY <1>3, <1>4 DEF States
    <2> QED BY <2>1 DEF Permissions!Status
  <1>6. ASSUME NEW r \in Requests
        PROVE  \/ Permissions!Status[r] = Permissions!Status'[r] \/ Permissions!Status[r] = "new"
               \/ Permissions!Status[r] = "pending" /\ Permissions!Status'[r] # "new"
    BY <1>1, <1>3, <1>4, <1>6, PermissionMoves
  <1> QED BY <1>5, <1>6 DEF Advances

\* The request of net.request: what JavaScript was told stays, and it is told
\* nothing more once the loader was given up in silence.
LoaderStates ==
    /\ url_loader \in {"none", "running", "null"} /\ silent \in BOOLEAN
    /\ response = "none" => consumed = <<>>
    /\ silent = TRUE => url_loader = "null"

LEMMA EndIsLast ==
  ASSUME NEW c, Pieces(c, 0)
  PROVE  /\ Len(c) \in Nat /\ (c = <<>> => Len(c) = 0)
         /\ (c # <<>> /\ c[Len(c)] = 0) <=> Len(c) > MaxDown
  <1>1. c \in Seq(Nat) /\ Len(c) \in Nat /\ MaxDown \in Nat
    BY ServicesAssumption DEF Pieces
  <1>2. CASE c # <<>>
    <2>1. Len(c) \in 1..Len(c) /\ Len(c) > 0
      BY <1>1, <1>2
    <2>2. c[Len(c)] = Piece(0 + Len(c))
      BY <2>1 DEF Pieces
    <2> QED BY <1>1, <1>2, <2>1, <2>2 DEF Piece
  <1>3. CASE c = <<>>
    BY <1>1, <1>3
  <1> QED BY <1>2, <1>3

LEMMA PushGrows ==
  ASSUME ResponseInvariant, NEW queue \in Seq(Nat), NEW push, NEW has_resume, NEW waits,
         Requesting!PushInternalData(push, queue, has_resume, waits)
  PROVE  Len(consumed') \in Nat /\ Len(consumed) <= Len(consumed')
  <1>1. PICK k \in 0..Len(queue) : consumed' = consumed \o SubSeq(queue, 1, k)
    BY DEF Requesting!PushInternalData
  <1>2. consumed \in Seq(Nat) /\ Len(consumed) \in Nat
    BY DEF ResponseInvariant, Pieces
  <1>3. SubSeq(queue, 1, k) \in Seq(Nat) /\ Len(SubSeq(queue, 1, k)) \in Nat
    BY <1>1
  <1> QED BY <1>1, <1>2, <1>3, ConcatFacts

\* What a step does to all that the status depends on.
LEMMA ToldMoves ==
  ASSUME UploadInvariant, ResponseInvariant, LoaderStates, Requesting!Next
  PROVE  /\ LoaderStates' /\ (url_loader # "none" => url_loader' # "none")
         /\ outcome # "none" => outcome' # "none"
         /\ Len(consumed) <= Len(consumed')
         /\ silent = TRUE => silent' = TRUE
         /\ silent = FALSE /\ silent' = TRUE => outcome = "none" /\ consumed = <<>>
  <1> DEFINE Goal == /\ LoaderStates' /\ (url_loader # "none" => url_loader' # "none")
                     /\ outcome # "none" => outcome' # "none"
                     /\ Len(consumed) <= Len(consumed')
                     /\ silent = TRUE => silent' = TRUE
                     /\ silent = FALSE /\ silent' = TRUE => outcome = "none" /\ consumed = <<>>
  <1>1. /\ Len(consumed) \in Nat /\ data \in Seq(Nat) /\ loaded \in Nat
        /\ downstream \in BOOLEAN /\ (downstream = FALSE /\ writer = "idle" => url_loader = "none")
        /\ url_loader \in {"none", "running", "null"} /\ silent \in BOOLEAN
        /\ response = "none" => consumed = <<>>
        /\ silent = TRUE => url_loader = "null"
    BY DEF ResponseInvariant, Pieces, UploadInvariant, NetTypes, NetWriter, LoaderStates
  <1>2. ASSUME UNCHANGED <<response, consumed, silent>>, outcome # "none" => outcome' # "none",
               \/ url_loader' = url_loader
               \/ url_loader = "none" /\ url_loader' = "running"
               \/ url_loader = "running" /\ url_loader' = "null"
        PROVE  Goal
    BY <1>1, <1>2 DEF LoaderStates
  <1>3. ASSUME response = "open", response' = response, silent' = silent, outcome' = outcome,
               url_loader' = url_loader \/ (url_loader = "running" /\ url_loader' = "null"),
               NEW queue \in Seq(Nat), NEW push, NEW has_resume, NEW waits,
               Requesting!PushInternalData(push, queue, has_resume, waits)
        PROVE  Goal
    BY <1>1, <1>3, PushGrows DEF LoaderStates
  <1>4. CASE Requesting!Write
    <2>1. /\ UNCHANGED <<response, consumed, silent>> /\ writer = "idle" /\ outcome = "none"
          /\ url_loader' = url_loader \/ (downstream = FALSE /\ url_loader' = "running")
      BY <1>1, <1>4 DEF Requesting!Write, Requesting!downloadVars, Requesting!Destroyed
    <2> QED BY <1>1, <1>2, <2>1
  <1>5. CASE Requesting!Final \/ Requesting!Getter \/ Requesting!ReadsAgain \/ Requesting!ResumeReturns
    <2>1. /\ UNCHANGED <<response, consumed, silent, url_loader>>
          /\ outcome # "none" => outcome' # "none"
      BY <1>5 DEF Requesting!Final, Requesting!Getter, Requesting!ReadsAgain, Requesting!ResumeReturns,
         Requesting!GetSize, Requesting!StartReading, Requesting!OnWriteChunkComplete, Requesting!UploadEnds,
         Requesting!WriteChunk, Requesting!WriteFails, Requesting!Destroyed, Requesting!downloadVars
    <2> QED BY <1>2, <2>1
  <1>6. CASE Requesting!Abort \/ Requesting!OnError
    <2>1. /\ UNCHANGED <<consumed, silent>> /\ (response' = "none" => response = "none")
          /\ outcome # "none" => outcome' # "none"
          /\ url_loader' = url_loader \/ (url_loader = "running" /\ url_loader' = "null")
      BY <1>6 DEF Requesting!Abort, Requesting!OnError, Requesting!Die, Requesting!DropLoader,
         Requesting!networkVars
    <2> QED BY <1>1, <2>1 DEF LoaderStates
  <1>7. CASE Requesting!ChallengeLost
    <2>1. /\ UNCHANGED <<response, consumed, outcome>> /\ response = "none" /\ url_loader = "running"
          /\ url_loader' = "null" /\ silent' = (outcome = "none")
      BY <1>7 DEF Requesting!ChallengeLost, Requesting!DropLoader, Requesting!downloadVars
    <2>2. silent' \in BOOLEAN /\ silent = FALSE
      BY <1>1, <2>1
    <2> QED BY <1>1, <2>1, <2>2 DEF LoaderStates
  <1>8. CASE Requesting!OnResponseStarted
    BY <1>1, <1>8 DEF Requesting!OnResponseStarted, LoaderStates
  <1>9. CASE Requesting!OnDataReceived
    <2>1. Append(data, loaded + 1) \in Seq(Nat)
      BY <1>1
    <2> QED BY <1>3, <1>9, <2>1 DEF Requesting!OnDataReceived
  <1>10. CASE Requesting!Read
    BY <1>1, <1>3, <1>10 DEF Requesting!Read
  <1>11. CASE Requesting!OnComplete
    <2>1. Append(data, Requesting!End) \in Seq(Nat)
      BY <1>1 DEF Requesting!End
    <2> QED BY <1>3, <1>11, <2>1 DEF Requesting!OnComplete, Requesting!DropLoader
  <1> QED BY <1>4, <1>5, <1>6, <1>7, <1>8, <1>9, <1>10, <1>11 DEF Requesting!Next, Requesting!Loader

\* JavaScript is told again only after a write has failed: the loader runs on,
\* or its response is read, although there was an event.
ToldByWrite ==
    /\ url_loader = "running" \/ response = "open" => outcome = "none" \/ uncaught = TRUE
    /\ outcome = "again" => uncaught = TRUE
    /\ outcome = "error" /\ Len(consumed) > MaxDown => uncaught = TRUE
ToldStates == LoaderStates /\ ToldByWrite

LEMMA ToldStatesInit == Requesting!Init => ToldStates
  BY ServicesAssumption DEF Requesting!Init, ToldStates, LoaderStates, ToldByWrite

LEMMA ToldStatesStutter == ToldStates /\ Requesting!NoStep => ToldStates'
  BY DEF Requesting!NoStep, Requesting!netVars, Requesting!uploadVars, Requesting!networkVars,
         Requesting!downloadVars, ToldStates, LoaderStates, ToldByWrite

LEMMA ToldByWriteStep ==
  ASSUME UploadInvariant, ResponseInvariant, ToldStates, Requesting!Next
  PROVE  ToldByWrite'
  <1> USE DEF ToldByWrite
  <1>1. /\ Len(consumed) \in Nat /\ Len(data) \in Nat /\ MaxDown \in Nat /\ loaded \in Nat /\ loaded <= MaxDown
        /\ url_loader = "running" => ~(Len(consumed) > MaxDown)
        /\ ToldByWrite
    BY ServicesAssumption DEF ResponseInvariant, Pieces, ToldStates
  <1>2. \/ Requesting!WriteChunk("first") \/ Requesting!WriteChunk("later") \/ Requesting!WriteFails(writer)
        => (outcome' = outcome /\ uncaught' = uncaught) \/ uncaught' = TRUE
    BY DEF Requesting!WriteChunk, Requesting!WriteFails
  <1>3. ASSUME UNCHANGED <<response, consumed, url_loader>>,
               (outcome' = outcome /\ uncaught' = uncaught) \/ uncaught' = TRUE
        PROVE  ToldByWrite'
    BY <1>1, <1>3
  <1>4. CASE Requesting!Write
    <2>1. /\ UNCHANGED <<response, consumed>> /\ outcome = "none"
          /\ \/ url_loader' = url_loader /\ Requesting!WriteChunk("later")
             \/ UNCHANGED <<outcome, uncaught>>
      BY <1>4 DEF Requesting!Write, Requesting!Destroyed, Requesting!downloadVars
    <2> QED BY <1>2, <1>3, <2>1
  <1>5. CASE Requesting!Final \/ Requesting!Getter \/ Requesting!ReadsAgain \/ Requesting!ResumeReturns
    <2>1. /\ UNCHANGED <<response, consumed, url_loader>>
          /\ \/ UNCHANGED <<outcome, uncaught>>
             \/ Requesting!WriteChunk("first") \/ Requesting!WriteFails(writer)
      BY <1>5 DEF Requesting!Final, Requesting!Getter, Requesting!ReadsAgain, Requesting!ResumeReturns,
         Requesting!GetSize, Requesting!StartReading, Requesting!OnWriteChunkComplete, Requesting!UploadEnds,
         Requesting!downloadVars
    <2> QED BY <1>2, <1>3, <2>1
  <1>6. CASE Requesting!Abort
    <2>1. /\ UNCHANGED <<consumed, uncaught>> /\ response' # "open" /\ url_loader' # "running"
          /\ outcome' = IF outcome = "none" THEN "abort" ELSE outcome
      BY <1>6 DEF Requesting!Abort, Requesting!Die, Requesting!DropLoader
    <2> QED BY <1>1, <2>1
  <1>7. CASE Requesting!OnError
    <2>1. /\ UNCHANGED <<consumed, uncaught>> /\ response' # "open" /\ url_loader' # "running"
          /\ url_loader = "running" /\ outcome' = IF outcome = "none" THEN "error" ELSE "again"
      BY <1>7 DEF Requesting!OnError, Requesting!Die, Requesting!DropLoader
    <2> QED BY <1>1, <2>1
  <1>8. CASE Requesting!ChallengeLost
    <2>1. UNCHANGED <<response, consumed, outcome, uncaught>> /\ url_loader' = "null"
      BY <1>8 DEF Requesting!ChallengeLost, Requesting!DropLoader, Requesting!downloadVars
    <2> QED BY <1>1, <2>1
  <1>9. CASE Requesting!OnResponseStarted
    <2>1. UNCHANGED <<url_loader, consumed, outcome, uncaught>> /\ url_loader = "running"
      BY <1>9 DEF Requesting!OnResponseStarted
    <2> QED BY <1>1, <2>1
  <1>10. CASE Requesting!OnDataReceived \/ Requesting!Read \/ Requesting!OnComplete
    <2>1. /\ UNCHANGED <<response, outcome, uncaught>> /\ response = "open"
      BY <1>10 DEF Requesting!OnDataReceived, Requesting!Read, Requesting!OnComplete
    <2> QED BY <1>1, <2>1
  <1> QED BY <1>4, <1>5, <1>6, <1>7, <1>8, <1>9, <1>10 DEF Requesting!Next, Requesting!Loader

LEMMA ToldAdvances ==
  ASSUME UploadInvariant, ResponseInvariant, ResponseInvariant', ToldStates, Requesting!Next
  PROVE  ToldStates' /\ Advances({1}, Requesting!Status, Requesting!Status')
  <1> DEFINE Told == outcome # "none" \/ Len(consumed) > MaxDown
             At == IF url_loader = "none" THEN "new" ELSE IF silent = TRUE THEN "dropped"
                   ELSE IF Told THEN "answered" ELSE "pending"
  <1>0. LoaderStates
    BY DEF ToldStates
  <1>1. Requesting!Status = [r \in {1} |-> At]
    <2>1. /\ Requesting!IsTold <=> Told
          /\ Requesting!TellsAgain <=> (outcome = "again" \/ (outcome = "error" /\ Len(consumed) > MaxDown))
      BY EndIsLast DEF Requesting!IsTold, Requesting!TellsAgain, Requesting!EndIsRead, Requesting!Last,
         Requesting!End, ResponseInvariant
    <2>2. silent \in BOOLEAN /\ ~(Requesting!TellsAgain /\ ~uncaught)
      BY <2>1 DEF ToldStates, LoaderStates, ToldByWrite
    <2> HIDE DEF Told
    <2> QED BY <2>1, <2>2 DEF Requesting!Status
  <1>2. LoaderStates' /\ ToldStates'
    BY <1>0, ToldMoves, ToldByWriteStep DEF ToldStates
  <1>3. Requesting!Status' = [r \in {1} |-> At']
    <2>1. /\ Requesting!IsTold' <=> Told'
          /\ Requesting!TellsAgain' <=> (outcome' = "again" \/ (outcome' = "error" /\ Len(consumed') > MaxDown))
      BY EndIsLast DEF Requesting!IsTold, Requesting!TellsAgain, Requesting!EndIsRead, Requesting!Last,
         Requesting!End, ResponseInvariant
    <2>2. silent' \in BOOLEAN /\ ~(Requesting!TellsAgain' /\ ~uncaught')
      BY <1>2, <2>1 DEF ToldStates, LoaderStates, ToldByWrite
    <2> HIDE DEF Told
    <2> QED BY <2>1, <2>2 DEF Requesting!Status
  <1>4. MaxDown \in Nat /\ Len(consumed) \in Nat /\ Len(consumed') \in Nat /\ silent \in BOOLEAN
        /\ (consumed = <<>> => Len(consumed) = 0)
    BY <1>0, ServicesAssumption, EndIsLast DEF LoaderStates, ResponseInvariant
  <1>5. At = At' \/ At = "new" \/ (At = "pending" /\ At' # "new")
    <2>1. Told => Told'
      BY <1>0, <1>4, ToldMoves
    <2>2. /\ url_loader # "none" => url_loader' # "none"
          /\ silent = TRUE => silent' = TRUE
          /\ silent = FALSE /\ silent' = TRUE => outcome = "none" /\ consumed = <<>>
      BY <1>0, ToldMoves
    <2>3. silent = FALSE /\ silent' = TRUE => ~Told
      <3>1. CASE silent = FALSE /\ silent' = TRUE
        <4>1. outcome = "none" /\ Len(consumed) = 0
          BY <1>4, <2>2, <3>1
        <4>2. ~(Len(consumed) > MaxDown)
          BY <1>4, <4>1
        <4> QED BY <4>1, <4>2
      <3> QED BY <3>1
    <2> HIDE DEF Told
    <2> QED BY <1>4, <2>1, <2>2, <2>3
  <1>6. At \in States /\ At' \in States
    BY DEF States
  <1> HIDE DEF At
  <1> QED BY <1>1, <1>2, <1>3, <1>5, <1>6 DEF Advances

\* A list that is under way to a chooser is the one it waits for, if the
\* controller of the frame is still its own.
Lists(s, f, c) ==
    /\ IsSequence(s)
    /\ \A i \in 1..Len(s) : s[i].type = "OnGotDevices" =>
          /\ s[i].for \in Choosers /\ f[s[i].for] # "new"
          /\ s[i].for = c => f[c] = "listing"
    /\ \A i, j \in 1..Len(s) :
          s[i].type = "OnGotDevices" /\ s[j].type = "OnGotDevices" /\ s[i].for = s[j].for => i = j
ChooserStates ==
    /\ chooser \in [Choosers -> {"new", "listing", "selecting", "done"}]
    /\ controller \in Choosers \cup {0} /\ (controller # 0 => chooser[controller] # "new")
    /\ Lists(hid_pipe, chooser, controller)

LEMMA ListsAppend ==
  ASSUME NEW s, NEW f, NEW c, Lists(s, f, c), NEW m,
         m.type = "OnGotDevices" =>
            /\ m.for \in Choosers /\ f[m.for] # "new" /\ (m.for = c => f[c] = "listing")
            /\ \A i \in 1..Len(s) : s[i].type = "OnGotDevices" => s[i].for # m.for
  PROVE  Lists(Append(s, m), f, c)
  <1> DEFINE t == Append(s, m)
  <1>1. /\ IsSequence(t) /\ Len(s) \in Nat /\ Len(t) = Len(s) + 1 /\ t[Len(s) + 1] = m
        /\ \A i \in 1..Len(s) : t[i] = s[i]
    BY SequenceAppend DEF Lists
  <1> HIDE DEF t
  <1>2. \A i \in 1..Len(t) : i \in 1..Len(s) \/ i = Len(s) + 1
    BY <1>1
  <1>3. ASSUME NEW i \in 1..Len(t), t[i].type = "OnGotDevices"
        PROVE  t[i].for \in Choosers /\ f[t[i].for] # "new" /\ (t[i].for = c => f[c] = "listing")
    <2>1. CASE i \in 1..Len(s)
      <3>1. t[i] = s[i]
        BY <1>1, <2>1
      <3> QED BY <1>3, <2>1, <3>1 DEF Lists
    <2>2. CASE i = Len(s) + 1
      <3>1. t[i] = m
        BY <1>1, <2>2
      <3> QED BY <1>3, <3>1
    <2> QED BY <1>2, <2>1, <2>2
  <1>4. ASSUME NEW i \in 1..Len(t), NEW j \in 1..Len(t), t[i].type = "OnGotDevices",
               t[j].type = "OnGotDevices", t[i].for = t[j].for
        PROVE  i = j
    <2>1. CASE i \in 1..Len(s) /\ j \in 1..Len(s)
      <3>1. t[i] = s[i] /\ t[j] = s[j]
        BY <1>1, <2>1
      <3> QED BY <1>4, <2>1, <3>1 DEF Lists
    <2>2. CASE i \in 1..Len(s) /\ j = Len(s) + 1
      <3>1. t[i] = s[i] /\ t[j] = m
        BY <1>1, <2>2
      <3> QED BY <1>4, <2>2, <3>1
    <2>3. CASE j \in 1..Len(s) /\ i = Len(s) + 1
      <3>1. t[j] = s[j] /\ t[i] = m
        BY <1>1, <2>3
      <3> QED BY <1>4, <2>3, <3>1
    <2> QED BY <1>2, <2>1, <2>2, <2>3
  <1>5. Lists(t, f, c)
    BY <1>1, <1>3, <1>4 DEF Lists
  <1> QED BY <1>5 DEF t

LEMMA ListsTail ==
  ASSUME NEW s, NEW f, NEW c, Lists(s, f, c), s # <<>>
  PROVE  /\ Lists(Tail(s), f, c)
         /\ Head(s).type = "OnGotDevices" =>
               /\ Head(s).for \in Choosers /\ (Head(s).for = c => f[c] = "listing")
               /\ \A i \in 1..Len(Tail(s)) : Tail(s)[i].type = "OnGotDevices" => Tail(s)[i].for # Head(s).for
  <1> DEFINE t == Tail(s)
             h == Head(s)
  <1>1. /\ IsSequence(t) /\ Len(s) \in Nat \ {0} /\ Len(t) = Len(s) - 1 /\ h = s[1]
        /\ \A i \in 1..(Len(s) - 1) : t[i] = s[i + 1]
    BY SequenceTail DEF Lists
  <1> HIDE DEF t, h
  <1>2. 1 \in 1..Len(s) /\ \A i \in 1..Len(t) : t[i] = s[i + 1] /\ i + 1 \in 1..Len(s) /\ i + 1 # 1
    BY <1>1
  <1>3. Lists(t, f, c)
    <2>1. ASSUME NEW i \in 1..Len(t), t[i].type = "OnGotDevices"
          PROVE  t[i].for \in Choosers /\ f[t[i].for] # "new" /\ (t[i].for = c => f[c] = "listing")
      BY <1>2, <2>1 DEF Lists
    <2>2. ASSUME NEW i \in 1..Len(t), NEW j \in 1..Len(t), t[i].type = "OnGotDevices",
                 t[j].type = "OnGotDevices", t[i].for = t[j].for
          PROVE  i = j
      <3>1. i + 1 = j + 1
        BY <1>2, <2>2 DEF Lists
      <3> QED BY <1>1, <3>1
    <2> QED BY <1>1, <2>1, <2>2 DEF Lists
  <1>4. h.type = "OnGotDevices" =>
               /\ h.for \in Choosers /\ (h.for = c => f[c] = "listing")
               /\ \A i \in 1..Len(t) : t[i].type = "OnGotDevices" => t[i].for # h.for
    BY <1>1, <1>2 DEF Lists
  <1> QED BY <1>3, <1>4 DEF t, h

\* The lists under way stay as they should when choosers move on.
LEMMA ListsChange ==
  ASSUME NEW s, NEW f, NEW c, Lists(s, f, c), NEW g, NEW d,
         \A q \in Choosers : f[q] # "new" => g[q] # "new",
         \A i \in 1..Len(s) : s[i].type = "OnGotDevices" /\ s[i].for = d => g[d] = "listing"
  PROVE  Lists(s, g, d)
  BY DEF Lists

\* What a step may do to the callbacks of the choosers.
ChooserStep(f, g) ==
    \A q \in Choosers : \/ g[q] = f[q]
                        \/ f[q] = "new" /\ g[q] = "listing"
                        \/ f[q] # "new" /\ g[q] = "done"
                        \/ f[q] = "listing" /\ g[q] = "selecting"

LEMMA RunChooserMoves ==
  ASSUME ChooserStates, NEW r \in Choosers, Choosing!RunChooser(r)
  PROVE  ChooserStates' /\ ChooserStep(chooser, chooser')
  <1> DEFINE all == Choosing!List("InitDeviceList", 0)
             got == Choosing!List("OnGotDevices", r)
             s2 == IF hid_manager THEN hid_pipe ELSE Append(hid_pipe, all)
  <1>1. all.type = "InitDeviceList" /\ got.type = "OnGotDevices" /\ got.for = r
    BY DEF Choosing!List
  <1>2. /\ chooser \in [Choosers -> {"new", "listing", "selecting", "done"}]
        /\ controller # 0 => chooser[controller] # "new"
        /\ Lists(hid_pipe, chooser, controller) /\ 0 \notin Choosers
    BY ServicesAssumption DEF ChooserStates
  <1>3. /\ chooser[r] = "new" /\ hid_pipe' = Append(s2, got) /\ controller' = r
        /\ chooser' = [q \in Choosers |-> CASE q = r                    -> "listing"
                                            [] q # r /\ q = controller  -> "done"
                                            [] OTHER                    -> chooser[q]]
    BY DEF Choosing!RunChooser
  <1> HIDE DEF all, got
  <1>4. Lists(s2, chooser, controller)
    <2>1. CASE hid_manager
      BY <1>2, <2>1
    <2>2. CASE ~hid_manager
      <3>1. Lists(Append(hid_pipe, all), chooser, controller)
        BY <1>1, <1>2, ListsAppend
      <3> QED BY <2>2, <3>1
    <2> QED BY <2>1, <2>2
  <1> HIDE DEF s2
  <1>5. \A i \in 1..Len(s2) : s2[i].type = "OnGotDevices" => s2[i].for # r
    BY <1>3, <1>4 DEF Lists
  <1>6. /\ chooser'[r] = "listing"
        /\ \A q \in Choosers : /\ chooser[q] # "new" => chooser'[q] # "new"
                               /\ chooser'[q] \in {"new", "listing", "selecting", "done"}
    BY <1>2, <1>3
  <1>7. Lists(s2, chooser', r)
    BY <1>4, <1>5, <1>6, ListsChange
  <1>8. Lists(hid_pipe', chooser', controller')
    <2>1. Lists(Append(s2, got), chooser', r)
      BY <1>1, <1>5, <1>6, <1>7, ListsAppend
    <2> QED BY <1>3, <2>1
  <1>9. ChooserStep(chooser, chooser')
    BY <1>2, <1>3 DEF ChooserStep
  <1>10. chooser' \in [Choosers -> {"new", "listing", "selecting", "done"}]
    BY <1>3, <1>6
  <1> QED BY <1>3, <1>6, <1>8, <1>9, <1>10 DEF ChooserStates

\* A callback that is run: the request of the controller is over.
LEMMA CallbackMoves ==
  ASSUME ChooserStates, NEW s, Lists(s, chooser, controller), NEW d,
         d = 0 \/ (d = controller /\ \A i \in 1..Len(s) : s[i].type = "OnGotDevices" => s[i].for # controller),
         NEW to \in {"selecting", "done"},
         to = "selecting" => controller # 0 /\ chooser[controller] = "listing",
         chooser' = [chooser EXCEPT ![controller] = to], hid_pipe' = s, controller' = d
  PROVE  ChooserStates' /\ ChooserStep(chooser, chooser')
  <1>1. /\ chooser \in [Choosers -> {"new", "listing", "selecting", "done"}]
        /\ controller \in Choosers \cup {0} /\ (controller # 0 => chooser[controller] # "new")
        /\ 0 \notin Choosers
    BY ServicesAssumption DEF ChooserStates
  <1>2. /\ chooser' \in [Choosers -> {"new", "listing", "selecting", "done"}]
        /\ \A q \in Choosers : chooser'[q] = IF q = controller THEN to ELSE chooser[q]
    BY <1>1
  <1>3. ChooserStep(chooser, chooser')
    BY <1>1, <1>2 DEF ChooserStep
  <1>4. Lists(s, chooser', d)
    <2>1. \A q \in Choosers : chooser[q] # "new" => chooser'[q] # "new"
      BY <1>2
    <2>2. \A i \in 1..Len(s) : s[i].type = "OnGotDevices" => s[i].for # d
      BY <1>1 DEF Lists
    <2> QED BY <2>1, <2>2, ListsChange
  <1>5. d # 0 => chooser'[d] # "new"
    BY <1>1, <1>2
  <1> QED BY <1>1, <1>2, <1>3, <1>4, <1>5 DEF ChooserStates

\* A message that is received, which leaves the choosers alone.
LEMMA ReceiveMoves ==
  ASSUME ChooserStates, hid_pipe # <<>>, hid_pipe' = Tail(hid_pipe), UNCHANGED <<controller, chooser>>
  PROVE  ChooserStates' /\ ChooserStep(chooser, chooser')
  <1>1. Lists(Tail(hid_pipe), chooser, controller)
    BY ListsTail DEF ChooserStates
  <1>2. Lists(hid_pipe', chooser', controller')
    BY <1>1
  <1> QED BY <1>2 DEF ChooserStates, ChooserStep

LEMMA GotDevicesMoves ==
  ASSUME ChooserStates, NEW prevented \in BOOLEAN, Choosing!OnGotDevices(prevented)
  PROVE  ChooserStates' /\ ChooserStep(chooser, chooser')
  <1> DEFINE m == Head(hid_pipe)
             t == Tail(hid_pipe)
             to == IF prevented = TRUE THEN "selecting" ELSE "done"
  <1>1. /\ hid_pipe # <<>> /\ hid_pipe' = t /\ m.type = "OnGotDevices" /\ controller' = controller
        /\ IF m.for # controller THEN chooser' = chooser
           ELSE chooser' = [chooser EXCEPT ![controller] = to]
    BY DEF Choosing!OnGotDevices, Choosing!Receives, Choosing!Message, Choosing!RunCallback
  <1>2. /\ Lists(t, chooser, controller) /\ m.for \in Choosers /\ (m.for = controller => chooser[controller] = "listing")
        /\ \A i \in 1..Len(t) : t[i].type = "OnGotDevices" => t[i].for # m.for
    BY <1>1, ListsTail DEF ChooserStates
  <1>3. CASE m.for # controller
    BY <1>1, <1>3, ReceiveMoves
  <1>4. CASE m.for = controller
    <2>1. controller # 0 /\ to \in {"selecting", "done"}
      BY <1>2, <1>4, ServicesAssumption
    <2> HIDE DEF t, m, to
    <2> QED BY <1>1, <1>2, <1>4, <2>1, CallbackMoves
  <1> QED BY <1>3, <1>4

\* The callback of select-hid-device is there only once the devices are listed.
CanChoose ==
    /\ can_choose \in BOOLEAN
    /\ can_choose = TRUE /\ controller # 0 => chooser[controller] \in {"selecting", "done"}

\* A step that neither sends nor receives, nor touches the choosers.
LEMMA ChoosersStay ==
  ASSUME ChooserStates, UNCHANGED <<hid_pipe, controller, chooser>>
  PROVE  ChooserStates' /\ ChooserStep(chooser, chooser')
  BY DEF ChooserStates, ChooserStep, Lists

LEMMA ChooseMoves ==
  ASSUME ChooserStates, CanChoose, (\E choice : Choosing!Choose(choice)) \/ Choosing!RenderFrameDeleted
  PROVE  ChooserStates' /\ ChooserStep(chooser, chooser')
  <1>1. /\ hid_pipe' = hid_pipe /\ chooser' = [chooser EXCEPT ![controller] = "done"]
        /\ \/ controller' = 0
           \/ controller' = controller /\ controller # 0 /\ can_choose = TRUE
    BY DEF Choosing!Choose, Choosing!RenderFrameDeleted, Choosing!RunCallback, Choosing!NoController, CanChoose
  <1>2. Lists(hid_pipe, chooser, controller)
    BY DEF ChooserStates
  <1>3. controller # 0 /\ can_choose = TRUE =>
           \A i \in 1..Len(hid_pipe) : hid_pipe[i].type = "OnGotDevices" => hid_pipe[i].for # controller
    BY <1>2 DEF Lists, CanChoose
  <1> QED BY <1>1, <1>2, <1>3, CallbackMoves

LEMMA CanChooseStep ==
  ASSUME ChooserStates, CanChoose, Choosing!Next
  PROVE  CanChoose'
  <1>1. CASE \/ \E r \in Choosers : Choosing!RunChooser(r)
             \/ Choosing!Chooses \/ Choosing!RenderFrameDeleted
    <2>1. can_choose' = FALSE
      BY <1>1 DEF Choosing!RunChooser, Choosing!Chooses, Choosing!Choose, Choosing!RenderFrameDeleted
    <2> QED BY <2>1 DEF CanChoose
  <1>2. ASSUME NEW prevented \in BOOLEAN, Choosing!OnGotDevices(prevented) PROVE CanChoose'
    <2>1. controller' = controller /\ chooser \in [Choosers -> {"new", "listing", "selecting", "done"}]
      BY <1>2 DEF Choosing!OnGotDevices, ChooserStates
    <2>2. CASE UNCHANGED <<chooser, can_choose>>
      BY <2>1, <2>2 DEF CanChoose
    <2>3. CASE Head(hid_pipe).for = controller /\ can_choose' = TRUE
      <3>1. \E to \in {"selecting", "done"} : chooser' = [chooser EXCEPT ![controller] = to]
        BY <1>2, <2>3 DEF Choosing!OnGotDevices, Choosing!Message, Choosing!RunCallback
      <3>2. controller \in Choosers \cup {0}
        BY DEF ChooserStates
      <3> QED BY <2>1, <2>3, <3>1, <3>2 DEF CanChoose
    <2> QED BY <1>2, <2>2, <2>3 DEF Choosing!OnGotDevices, Choosing!Message
  <1>3. CASE \/ Choosing!InitDeviceList \/ Choosing!DeviceAdded \/ Choosing!DeviceChanged
             \/ Choosing!DeviceRemoved \/ Choosing!DeviceRevoked \/ Choosing!OnHidManagerConnectionError
             \/ \E g \in Guids : Choosing!RevokeDevicePermission(g)
             \/ \E g \in Guids : (\E ok \in BOOLEAN : Choosing!PlugIn(g, ok)) \/ Choosing!Unplug(g) \/ Choosing!Change(g)
    <2>1. UNCHANGED <<controller, chooser, can_choose>>
      BY <1>3 DEF Choosing!InitDeviceList, Choosing!DeviceAdded, Choosing!DeviceChanged, Choosing!DeviceRemoved,
         Choosing!DeviceRevoked, Choosing!OnHidManagerConnectionError, Choosing!RevokeDevicePermission,
         Choosing!PlugIn, Choosing!Unplug, Choosing!Change, Choosing!Reports
    <2> QED BY <2>1 DEF CanChoose
  <1> QED BY <1>1, <1>2, <1>3 DEF Choosing!Next, Choosing!Receive

LEMMA ReportMoves ==
  ASSUME ChooserStates, NEW m, m.type # "OnGotDevices", Choosing!Reports(m)
  PROVE  ChooserStates' /\ ChooserStep(chooser, chooser')
  <1>1. hid_pipe' \in {hid_pipe, Append(hid_pipe, m)} /\ controller' = controller /\ chooser' = chooser
    BY DEF Choosing!Reports
  <1>2. Lists(hid_pipe, chooser, controller)
    BY DEF ChooserStates
  <1>3. Lists(Append(hid_pipe, m), chooser, controller)
    BY <1>2, ListsAppend
  <1>4. Lists(hid_pipe', chooser', controller')
    BY <1>1, <1>2, <1>3
  <1> QED BY <1>1, <1>4 DEF ChooserStates, ChooserStep

LEMMA LostMoves ==
  ASSUME ChooserStates, Choosing!OnHidManagerConnectionError
  PROVE  ChooserStates' /\ ChooserStep(chooser, chooser')
  <1>1. hid_pipe' = <<>> /\ controller' = controller /\ chooser' = chooser
    BY DEF Choosing!OnHidManagerConnectionError
  <1>2. Lists(<<>>, chooser, controller)
    BY SequenceEmpty DEF Lists
  <1>3. Lists(hid_pipe', chooser', controller')
    BY <1>1, <1>2
  <1> QED BY <1>1, <1>3 DEF ChooserStates, ChooserStep

LEMMA ChooserAdvances ==
  ASSUME ChooserStates, CanChoose, Choosing!Next
  PROVE  ChooserStates' /\ Advances(Choosers, Choosing!Status, Choosing!Status')
  <1>1. ChooserStates' /\ ChooserStep(chooser, chooser')
    <2>1. CASE \E r \in Choosers : Choosing!RunChooser(r)
      BY <2>1, RunChooserMoves
    <2>2. CASE Choosing!InitDeviceList \/ Choosing!DeviceAdded \/ Choosing!DeviceChanged \/ Choosing!DeviceRemoved
      <3>1. hid_pipe # <<>> /\ hid_pipe' = Tail(hid_pipe) /\ UNCHANGED <<controller, chooser>>
        BY <2>2 DEF Choosing!InitDeviceList, Choosing!DeviceAdded, Choosing!DeviceChanged, Choosing!DeviceRemoved,
           Choosing!Receives
      <3> QED BY <3>1, ReceiveMoves
    <2>3. CASE \E prevented \in BOOLEAN : Choosing!OnGotDevices(prevented)
      BY <2>3, GotDevicesMoves
    <2>4. CASE Choosing!DeviceRevoked \/ \E g \in Guids : Choosing!RevokeDevicePermission(g)
      <3>1. UNCHANGED <<hid_pipe, controller, chooser>>
        BY <2>4 DEF Choosing!DeviceRevoked, Choosing!RevokeDevicePermission
      <3> QED BY <3>1, ChoosersStay
    <2>5. CASE Choosing!Chooses \/ Choosing!RenderFrameDeleted
      BY <2>5, ChooseMoves DEF Choosing!Chooses
    <2>6. CASE Choosing!OnHidManagerConnectionError
      BY <2>6, LostMoves
    <2>7. CASE \E g \in Guids : (\E ok \in BOOLEAN : Choosing!PlugIn(g, ok)) \/ Choosing!Unplug(g) \/ Choosing!Change(g)
      <3>1. \E m : m.type # "OnGotDevices" /\ Choosing!Reports(m)
        <4>1. ASSUME NEW type \in {"DeviceAdded", "DeviceRemoved", "DeviceChanged"}, NEW g, NEW ok
              PROVE  /\ Choosing!Device(type, g).type # "OnGotDevices"
                     /\ [Choosing!Device(type, g) EXCEPT !.ok = ok].type # "OnGotDevices"
          BY <4>1 DEF Choosing!Device
        <4> QED BY <2>7, <4>1 DEF Choosing!PlugIn, Choosing!Unplug, Choosing!Change
      <3> QED BY <3>1, ReportMoves
    <2> QED BY <2>1, <2>2, <2>3, <2>4, <2>5, <2>6, <2>7 DEF Choosing!Next, Choosing!Receive
  <1>2. /\ chooser \in [Choosers -> {"new", "listing", "selecting", "done"}]
        /\ chooser' \in [Choosers -> {"new", "listing", "selecting", "done"}]
    BY <1>1 DEF ChooserStates
  <1>3. Choosing!Status \in [Choosers -> States] /\ Choosing!Status' \in [Choosers -> States]
    BY <1>2 DEF Choosing!Status, States
  <1>4. ASSUME NEW q \in Choosers
        PROVE  \/ Choosing!Status[q] = Choosing!Status'[q] \/ Choosing!Status[q] = "new"
               \/ Choosing!Status[q] = "pending" /\ Choosing!Status'[q] # "new"
    BY <1>1, <1>2, <1>4 DEF ChooserStep, Choosing!Status
  <1> QED BY <1>1, <1>3, <1>4 DEF Advances

-----------------------------------------------------------------------------
(* The parts together. *)

LEMMA StatesInit ==
  /\ Proxying!Init => ProxiedStates
  /\ Sockets!Init => HandshakeStates
  /\ Archive!Init => ArchiveStates
  /\ Requesting!Init => ToldStates
  /\ Choosing!Init => ChooserStates /\ CanChoose
  <1>1. Proxying!Init => ProxiedStates
    BY DEF Proxying!Init, ProxiedStates
  <1>2. Sockets!Init => HandshakeStates
    BY DEF Sockets!Init, HandshakeStates
  <1>3. Archive!Init => ArchiveStates
    BY DEF Archive!Init, ArchiveStates
  <1>4. Requesting!Init => ToldStates
    BY ToldStatesInit
  <1>5. ASSUME Choosing!Init PROVE ChooserStates
    <2>1. hid_pipe \in Seq({}) /\ Len(hid_pipe) = 0
      BY <1>5 DEF Choosing!Init
    <2>2. Lists(hid_pipe, chooser, controller)
      BY <2>1 DEF Lists, IsSequence
    <2> QED BY <1>5, <2>2 DEF Choosing!Init, ChooserStates, Choosing!NoController
  <1>6. Choosing!Init => CanChoose
    BY DEF Choosing!Init, CanChoose
  <1> QED BY <1>1, <1>2, <1>3, <1>4, <1>5, <1>6

LEMMA StatesStutter ==
  /\ ProxiedStates /\ Proxying!NoStep => ProxiedStates'
  /\ HandshakeStates /\ Sockets!NoStep => HandshakeStates'
  /\ ArchiveStates /\ Archive!NoStep => ArchiveStates'
  /\ ToldStates /\ Requesting!NoStep => ToldStates'
  /\ ChooserStates /\ Choosing!NoStep => ChooserStates'
  /\ CanChoose /\ Choosing!NoStep => CanChoose'
  <1>1. ProxiedStates /\ Proxying!NoStep => ProxiedStates'
    BY DEF Proxying!NoStep, Proxying!requestVars, ProxiedStates
  <1>2. HandshakeStates /\ Sockets!NoStep => HandshakeStates'
    BY DEF Sockets!NoStep, Sockets!wsVars, HandshakeStates
  <1>3. ArchiveStates /\ Archive!NoStep => ArchiveStates'
    BY DEF Archive!NoStep, Archive!asarVars, ArchiveStates
  <1>4. ToldStates /\ Requesting!NoStep => ToldStates'
    BY ToldStatesStutter
  <1>5. ASSUME ChooserStates, Choosing!NoStep PROVE ChooserStates'
    <2>1. UNCHANGED <<hid_pipe, chooser, controller>>
      BY <1>5 DEF Choosing!NoStep, Choosing!hidVars
    <2> QED BY <1>5, <2>1 DEF ChooserStates, Lists
  <1>6. CanChoose /\ Choosing!NoStep => CanChoose'
    BY DEF CanChoose, Choosing!NoStep, Choosing!hidVars
  <1> QED BY <1>1, <1>2, <1>3, <1>4, <1>5, <1>6

\* What every part needs for its requests.
ServiceInvariant ==
    /\ part \in Parts
    /\ PermissionInvariant /\ DebuggerInvariant /\ NetLogInvariant /\ LookupInvariant
    /\ StreamInvariant /\ FrameInvariant
    /\ ProxiedStates /\ ArchiveStates
    /\ SocketInvariant /\ HandshakeStates
    /\ UploadInvariant /\ ResponseInvariant /\ ToldStates
    /\ ChooserStates /\ CanChoose

LEMMA ServiceInvariantInit == ServicesInit => ServiceInvariant
  BY PermissionInit, DebuggerInit, NetLogInit, LookupInit, StreamInit, FrameInit, SocketInit,
     UploadInit, ResponseInit, StatesInit
  DEF ServicesInit, ServiceInvariant

LEMMA ServiceInvariantStep == ServiceInvariant /\ [ServicesNext]_serviceVars => ServiceInvariant'
  <1> SUFFICES ASSUME ServiceInvariant, [ServicesNext]_serviceVars PROVE ServiceInvariant'
    OBVIOUS
  <1> USE DEF ServicesNext, serviceVars
  <1>1. (part \in Parts)'
    BY DEF ServiceInvariant, Parts
  <1>2. PermissionInvariant'
    BY PermissionStep, PermissionStutter DEF ServiceInvariant, Permissions!NoStep
  <1>3. DebuggerInvariant'
    BY DebuggerStep, DebuggerStutter DEF ServiceInvariant, Debugging!NoStep
  <1>4. NetLogInvariant'
    BY NetLogStep, NetLogStutter DEF ServiceInvariant, Logging!NoStep
  <1>5. LookupInvariant'
    BY LookupStep, LookupStutter DEF ServiceInvariant, Lookup!NoStep
  <1>6. StreamInvariant'
    BY StreamStep, StreamStutter DEF ServiceInvariant, Streaming!NoStep
  <1>7. FrameInvariant'
    BY FrameStep, FrameStutter DEF ServiceInvariant, Framing!NoStep
  <1>8. ProxiedStates'
    BY ProxiedAdvances, StatesStutter DEF ServiceInvariant, Proxying!NoStep
  <1>9. ArchiveStates'
    BY ArchiveAdvances, StatesStutter DEF ServiceInvariant, Archive!NoStep
  <1>10. SocketInvariant'
    BY SocketStep, SocketStutter DEF ServiceInvariant, Sockets!NoStep
  <1>11. HandshakeStates'
    BY HandshakeAdvances, StatesStutter DEF ServiceInvariant, Sockets!NoStep
  <1>12. UploadInvariant'
    BY UploadStep, UploadStutter DEF ServiceInvariant, Requesting!NoStep
  <1>13. ResponseInvariant'
    BY ResponseStep, ResponseStutter DEF ServiceInvariant, Requesting!NoStep
  <1>14. ToldStates'
    BY <1>13, ToldAdvances, StatesStutter DEF ServiceInvariant, Requesting!NoStep
  <1>15. ChooserStates' /\ CanChoose'
    BY ChooserAdvances, CanChooseStep, StatesStutter DEF ServiceInvariant, Choosing!NoStep
  <1> QED BY <1>1, <1>2, <1>3, <1>4, <1>5, <1>6, <1>7, <1>8, <1>9, <1>10, <1>11, <1>12, <1>13,
             <1>14, <1>15 DEF ServiceInvariant

\* The status of the part that is explored, before and after a step.
LEMMA StatusOfPart ==
  ASSUME part' = part
  PROVE  /\ part = "permissions" => PartStatus = Permissions!Status /\ PartStatus' = Permissions!Status'
         /\ part = "debugger" => PartStatus = Debugging!Status /\ PartStatus' = Debugging!Status'
         /\ part = "net_log" => PartStatus = Logging!Status /\ PartStatus' = Logging!Status'
         /\ part = "lookup" => PartStatus = Lookup!Status /\ PartStatus' = Lookup!Status'
         /\ part = "stream" => PartStatus = Streaming!Status /\ PartStatus' = Streaming!Status'
         /\ part = "web_request" => PartStatus = Proxying!Status /\ PartStatus' = Proxying!Status'
         /\ part = "asar" => PartStatus = Archive!Status /\ PartStatus' = Archive!Status'
         /\ part = "web_socket" => PartStatus = Sockets!Status /\ PartStatus' = Sockets!Status'
         /\ part = "frame" => PartStatus = Framing!Status /\ PartStatus' = Framing!Status'
         /\ part = "hid" => PartStatus = Choosing!Status /\ PartStatus' = Choosing!Status'
         /\ part = "net_request" => PartStatus = Requesting!Status /\ PartStatus' = Requesting!Status'
         /\ part \in {"office", "quit", "node", "port", "download"} =>
               PartStatus = [r \in {} |-> "new"] /\ PartStatus' = [r \in {} |-> "new"]
  BY DEF PartStatus

LEMMA PartStutters ==
  ASSUME UNCHANGED serviceVars
  PROVE  PartStatus' = PartStatus
  <1> USE DEF serviceVars
  <1>1. Permissions!Status' = Permissions!Status
    BY DEF Permissions!Status, Permissions!permissionVars, Permissions!requestVars
  <1>2. Debugging!Status' = Debugging!Status
    BY DEF Debugging!Status, Debugging!debuggerVars
  <1>3. Logging!Status' = Logging!Status
    BY DEF Logging!Status, Logging!netLogVars
  <1>4. Lookup!Status' = Lookup!Status
    BY DEF Lookup!Status, Lookup!lookupVars
  <1>5. Streaming!Status' = Streaming!Status
    BY DEF Streaming!Status, Streaming!streamVars, Streaming!Alive
  <1>6. Proxying!Status' = Proxying!Status
    BY DEF Proxying!Status, Proxying!requestVars
  <1>7. Archive!Status' = Archive!Status
    BY DEF Archive!Status, Archive!asarVars
  <1>8. Sockets!Status' = Sockets!Status
    BY DEF Sockets!Status, Sockets!wsVars
  <1>9. Framing!Status' = Framing!Status
    BY DEF Framing!Status, Framing!frameVars
  <1>10. Choosing!Status' = Choosing!Status
    BY DEF Choosing!Status, Choosing!hidVars
  <1>11. Requesting!Status' = Requesting!Status
    BY DEF Requesting!Status, Requesting!netVars, Requesting!uploadVars, Requesting!networkVars,
           Requesting!downloadVars, Requesting!IsTold, Requesting!TellsAgain, Requesting!EndIsRead, Requesting!Last, Requesting!End
  <1>12. part' = part
    OBVIOUS
  <1> QED BY <1>1, <1>2, <1>3, <1>4, <1>5, <1>6, <1>7, <1>8, <1>9, <1>10, <1>11, <1>12 DEF PartStatus

\* At the start no request was made.
LEMMA ServiceInit == ServicesInit => Service!Init
  <1> SUFFICES ASSUME ServicesInit PROVE Service!Init
    OBVIOUS
  <1> USE DEF ServicesInit
  <1>1. Permissions!Status = [r \in Requests |-> "new"]
    <2>1. ASSUME NEW r \in Requests
          PROVE  answers[r] = <<>> /\ Len(answers[r]) = 0 /\ r \notin pending_requests /\ r \notin made
      BY <2>1 DEF Permissions!Init
    <2> QED BY <2>1 DEF Permissions!Status
  <1>2. Debugging!Status = [r \in Commands |-> "new"]
    <2>1. ASSUME NEW r \in Commands
          PROVE  command_result[r] = "none" /\ ~(r <= previous_request_id)
      BY <2>1, ServicesAssumption DEF Debugging!Init
    <2> QED BY <2>1 DEF Debugging!Status
  <1>3. Logging!Status = [r \in Logs |-> "new"]
    BY DEF Logging!Init, Logging!Status
  <1>4. Lookup!Status = [r \in Lookups |-> "new"]
    <2>1. proxies = <<>> /\ DOMAIN proxies = {} /\ asked = 0
      BY DEF Lookup!Init
    <2>2. ASSUME NEW r \in Lookups PROVE ~(r <= asked)
      BY <2>1, <2>2, ServicesAssumption
    <2> QED BY <2>1, <2>2 DEF Lookup!Status
  <1>5. Streaming!Status = [r \in {1} |-> "new"]
    BY DEF Streaming!Init, Streaming!Status
  <1>6. Proxying!Status = [r \in {1} |-> "new"]
    BY DEF Proxying!Init, Proxying!Status
  <1>7. Archive!Status = [r \in {1} |-> "new"]
    BY DEF Archive!Init, Archive!Status
  <1>8. Sockets!Status = [r \in {1} |-> "new"]
    BY DEF Sockets!Init, Sockets!Status
  <1>9. Framing!Status = [r \in {1} |-> "new"]
    BY DEF Framing!Init, Framing!Status
  <1>10. Choosing!Status = [r \in Choosers |-> "new"]
    BY DEF Choosing!Init, Choosing!Status
  <1>11. Requesting!Status = [r \in {1} |-> "new"]
    BY DEF Requesting!Init, Requesting!Status
  <1>12. \E S : PartStatus = [r \in S |-> "new"]
    BY <1>1, <1>2, <1>3, <1>4, <1>5, <1>6, <1>7, <1>8, <1>9, <1>10, <1>11 DEF PartStatus
  <1> QED BY <1>12 DEF Service!Init, RequestStatus

\* A step of a part moves the requests of that part.
LEMMA ServiceStep ==
  ASSUME ServiceInvariant, ServiceInvariant', ServicesNext
  PROVE  Service!Next
  <1>1. /\ part' = part /\ part \in Parts
    BY DEF ServicesNext, ServiceInvariant
  <1>2. CASE part = "permissions"
    <2>1. Advances(Requests, PartStatus, PartStatus')
      BY <1>1, <1>2, PermissionAdvances, StatusOfPart DEF ServicesNext, ServiceInvariant
    <2> QED BY <2>1, AdvanceIsMove
  <1>3. CASE part = "debugger"
    <2>1. Advances(Commands, PartStatus, PartStatus')
      BY <1>1, <1>3, CommandAdvances, StatusOfPart DEF ServicesNext, ServiceInvariant
    <2> QED BY <2>1, AdvanceIsMove
  <1>4. CASE part = "net_log"
    <2>1. Advances(Logs, PartStatus, PartStatus')
      BY <1>1, <1>4, LogAdvances, StatusOfPart DEF ServicesNext, ServiceInvariant
    <2> QED BY <2>1, AdvanceIsMove
  <1>5. CASE part = "lookup"
    <2>1. Advances(Lookups, PartStatus, PartStatus')
      BY <1>1, <1>5, LookupAdvances, StatusOfPart DEF ServicesNext, ServiceInvariant
    <2> QED BY <2>1, AdvanceIsMove
  <1>6. CASE part = "stream"
    <2>1. Advances({1}, PartStatus, PartStatus')
      BY <1>1, <1>6, StreamAdvances, StatusOfPart DEF ServicesNext, ServiceInvariant
    <2> QED BY <2>1, AdvanceIsMove
  <1>7. CASE part = "web_request"
    <2>1. Advances({1}, PartStatus, PartStatus')
      BY <1>1, <1>7, ProxiedAdvances, StatusOfPart DEF ServicesNext, ServiceInvariant
    <2> QED BY <2>1, AdvanceIsMove
  <1>8. CASE part = "asar"
    <2>1. Advances({1}, PartStatus, PartStatus')
      BY <1>1, <1>8, ArchiveAdvances, StatusOfPart DEF ServicesNext, ServiceInvariant
    <2> QED BY <2>1, AdvanceIsMove
  <1>9. CASE part = "web_socket"
    <2>1. Advances({1}, PartStatus, PartStatus')
      BY <1>1, <1>9, HandshakeAdvances, StatusOfPart DEF ServicesNext, ServiceInvariant
    <2> QED BY <2>1, AdvanceIsMove
  <1>10. CASE part = "frame"
    <2>1. Advances({1}, PartStatus, PartStatus')
      BY <1>1, <1>10, FrameAdvances, StatusOfPart DEF ServicesNext, ServiceInvariant
    <2> QED BY <2>1, AdvanceIsMove
  <1>11. CASE part = "hid"
    <2>1. Advances(Choosers, PartStatus, PartStatus')
      BY <1>1, <1>11, ChooserAdvances, StatusOfPart DEF ServicesNext, ServiceInvariant
    <2> QED BY <2>1, AdvanceIsMove
  <1>12. CASE part = "net_request"
    <2>1. Advances({1}, PartStatus, PartStatus')
      BY <1>1, <1>12, ToldAdvances, StatusOfPart DEF ServicesNext, ServiceInvariant
    <2> QED BY <2>1, AdvanceIsMove
  <1>13. CASE part \in {"office", "quit", "node", "port", "download"}
    <2>1. PartStatus = [r \in {} |-> "new"] /\ PartStatus' = [r \in {} |-> "new"]
      BY <1>1, <1>13, StatusOfPart
    <2>2. Advances({}, PartStatus, PartStatus')
      BY <2>1 DEF Advances
    <2> QED BY <2>2, AdvanceIsMove
  <1> QED BY <1>1, <1>2, <1>3, <1>4, <1>5, <1>6, <1>7, <1>8, <1>9, <1>10, <1>11, <1>12, <1>13 DEF Parts

\* The services implement RequestService: a promise, a callback, a loader's
\* client or a page's request is settled at most once, after it was made, and
\* what was settled or dropped does not come back, whatever the callers, the
\* services behind and JavaScript do, and in whatever order.
THEOREM RequestsCorrect == ServicesSpec => RequestsAreAnsweredOnce
  <1>1. ServiceInvariant /\ ServiceInvariant' /\ [ServicesNext]_serviceVars => [Service!Next]_RequestStatus
    <2> SUFFICES ASSUME ServiceInvariant, ServiceInvariant', [ServicesNext]_serviceVars
                 PROVE  [Service!Next]_RequestStatus
      OBVIOUS
    <2>1. CASE ServicesNext
      BY <2>1, ServiceStep
    <2>2. CASE UNCHANGED serviceVars
      BY <2>2, PartStutters DEF RequestStatus
    <2> QED BY <2>1, <2>2
  <1> QED
    BY <1>1, ServiceInit, ServiceInvariantInit, ServiceInvariantStep, PTL
    DEF ServicesSpec, RequestsAreAnsweredOnce, Service!Spec

-----------------------------------------------------------------------------
(* The types of the services.  Most follow from what was proved above.     *)
(* What is left are counters, flags that no other proof looks at, and the  *)
(* types of a proxied request, also of one whose loader was recreated.     *)

QuitCounts == calls \in 0..MaxCalls /\ newer \subseteq Windows

LEMMA QuitCountsInit == Quitting!Init => QuitCounts
  BY ServicesAssumption DEF Quitting!Init, QuitCounts

LEMMA QuitCountsStep == QuitCounts /\ Quitting!Next => QuitCounts'
  <1> SUFFICES ASSUME QuitCounts, Quitting!Next PROVE QuitCounts'
    OBVIOUS
  <1>0. MaxCalls \in Nat
    BY ServicesAssumption
  <1>1. \/ calls' = calls \/ Quitting!Call
    BY DEF Quitting!Next, Quitting!Quit, Quitting!Exit, Quitting!NewWindow, Quitting!Close,
       Quitting!Destroy, Quitting!PageCloses, Quitting!PageStays, Quitting!WebContentsDestroyed,
       Quitting!Return, Quitting!ReturnBeforeQuit, Quitting!ReturnWillQuit, Quitting!ReturnClose,
       Quitting!ReturnClosed, Quitting!ReturnEvent, Quitting!CloseNext
  <1>2. newer' \subseteq newer \cup Windows
    BY DEF Quitting!Next, Quitting!Quit, Quitting!Exit, Quitting!NewWindow, Quitting!Close,
       Quitting!Destroy, Quitting!PageCloses, Quitting!PageStays, Quitting!WebContentsDestroyed,
       Quitting!Return, Quitting!ReturnBeforeQuit, Quitting!ReturnWillQuit, Quitting!ReturnClose,
       Quitting!ReturnClosed, Quitting!ReturnEvent, Quitting!CloseNext
  <1>3. calls' \in 0..MaxCalls
    BY <1>0, <1>1 DEF QuitCounts, Quitting!Call
  <1> QED BY <1>2, <1>3 DEF QuitCounts

LEMMA QuitCountsStutter == QuitCounts /\ Quitting!NoStep => QuitCounts'
  BY DEF QuitCounts, Quitting!NoStep, Quitting!browserVars

LEMMA QuitTypes == BrowserInvariant /\ QuitCounts => Quitting!TypeOK
  BY DEF BrowserInvariant, BrowserPages, BrowserQuits, QuitCounts, Quitting!TypeOK

-----------------------------------------------------------------------------
\* Of a request that waits or is gone nothing runs; posted continuations are
\* those of the request.
Turns == Proxying!Continuations \X {"OK", "BLOCKED"}
Receivers == {"unbound", "bound", "paused"}
ProxiedTypes ==
    /\ running \in {<<>>} \cup Turns /\ posted \in Seq(Turns)
    /\ continuation \in Proxying!Continuations \cup {"none"}
    /\ asked_listeners \subseteq Proxying!ResponseEvents
    /\ client_receiver \in Receivers /\ header_receiver \in Receivers
    /\ hops \in Nat

LEMMA ProxiedTypesInit == Proxying!Init => ProxiedTypes
  BY DEF Proxying!Init, Proxying!Idle, ProxiedTypes, Receivers

LEMMA ReceiverTypes ==
  ASSUME NEW r \in Receivers
  PROVE  Proxying!Paused(r) \in Receivers /\ Proxying!Resumed(r) \in Receivers
  BY DEF Receivers, Proxying!Paused, Proxying!Resumed

LEMMA AskTypes ==
  ASSUME ProxiedTypes, NEW then \in Proxying!Continuations, NEW event \in Proxying!ResponseEvents,
         Proxying!Ask(event, then) \/ Proxying!GoOn(then)
  PROVE  /\ running' \in {<<>>} \cup Turns
         /\ continuation' \in Proxying!Continuations \cup {"none"}
         /\ asked_listeners' \subseteq Proxying!ResponseEvents
  BY DEF ProxiedTypes, Proxying!Ask, Proxying!GoOn, Proxying!Idle, Turns

LEMMA RemoveTypes ==
  ASSUME ProxiedTypes, Proxying!Remove
  PROVE  ProxiedTypes'
  <1>1. /\ running' = <<>> /\ continuation' = "none" /\ posted' = <<>>
        /\ client_receiver' = "unbound" /\ header_receiver' = "unbound"
        /\ asked_listeners' = asked_listeners /\ hops' = hops
    BY DEF Proxying!Remove, Proxying!Idle
  <1> QED BY <1>1 DEF ProxiedTypes, Receivers

\* The events and the continuations.
LEMMA TurnTypes ==
  /\ {"onBeforeRequest", "onBeforeSendHeaders", "onHeadersReceived"} \subseteq Proxying!ResponseEvents
  /\ \A c \in {"ContinueToStartRequest", "ContinueToBeforeSendHeaders", "ContinueToSendHeaders",
               "ContinueToHandleOverrideHeaders", "ContinueToResponseStarted",
               "ContinueToBeforeRedirect"} :
        c \in Proxying!Continuations /\ <<c, "OK">> \in Turns
  BY DEF Proxying!ResponseEvents, Proxying!Continuations, Turns

LEMMA RestartTypes ==
  ASSUME ProxiedTypes, Proxying!RestartInternal, UNCHANGED <<posted, hops>>
  PROVE  ProxiedTypes'
  <1> DEFINE then == IF Proxying!UsesHeaderClient THEN "ContinueToStartRequest"
                     ELSE "ContinueToBeforeSendHeaders"
  <1>1. then \in Proxying!Continuations /\ "onBeforeRequest" \in Proxying!ResponseEvents
    BY TurnTypes
  <1>2. \/ /\ Proxying!Ask("onBeforeRequest", then)
           /\ client_receiver' = Proxying!Paused(client_receiver)
           /\ header_receiver' = Proxying!Paused(header_receiver)
        \/ Proxying!GoOn(then) /\ UNCHANGED <<client_receiver, header_receiver>>
    BY DEF Proxying!RestartInternal, Proxying!pipeVars
  <1> HIDE DEF then
  <1>3. /\ running' \in {<<>>} \cup Turns
        /\ continuation' \in Proxying!Continuations \cup {"none"}
        /\ asked_listeners' \subseteq Proxying!ResponseEvents
    BY <1>1, <1>2, AskTypes
  <1>4. client_receiver' \in Receivers /\ header_receiver' \in Receivers
    BY <1>2, ReceiverTypes DEF ProxiedTypes
  <1> QED BY <1>3, <1>4 DEF ProxiedTypes

LEMMA HeadersTypes ==
  ASSUME ProxiedTypes, NEW then \in Proxying!Continuations,
         Proxying!HandleResponseOrRedirectHeaders(then), UNCHANGED hops
  PROVE  ProxiedTypes'
  <1>1. /\ \/ Proxying!Ask("onHeadersReceived", then)
              /\ client_receiver' = Proxying!Paused(client_receiver)
           \/ Proxying!GoOn(then) /\ UNCHANGED client_receiver
        /\ UNCHANGED <<posted, header_receiver>>
    BY DEF Proxying!HandleResponseOrRedirectHeaders
  <1>2. /\ running' \in {<<>>} \cup Turns
        /\ continuation' \in Proxying!Continuations \cup {"none"}
        /\ asked_listeners' \subseteq Proxying!ResponseEvents
    BY <1>1, AskTypes, TurnTypes
  <1>3. client_receiver' \in Receivers
    BY <1>1, ReceiverTypes DEF ProxiedTypes
  <1> QED BY <1>1, <1>2, <1>3 DEF ProxiedTypes

\* A method ends, or goes on with another one.
LEMMA MethodTypes ==
  ASSUME ProxiedTypes, NEW next \in {<<>>} \cup Turns, running' = next,
         client_receiver' \in {client_receiver, Proxying!Resumed(client_receiver), "unbound", "bound"},
         header_receiver' \in {header_receiver, Proxying!Resumed(header_receiver), "unbound", "bound"},
         hops' \in {hops, hops + 1}, UNCHANGED <<continuation, asked_listeners, posted>>
  PROVE  ProxiedTypes'
  <1>1. client_receiver' \in Receivers /\ header_receiver' \in Receivers
    BY ReceiverTypes DEF ProxiedTypes, Receivers
  <1>2. hops' \in Nat
    BY DEF ProxiedTypes
  <1> QED BY <1>1, <1>2 DEF ProxiedTypes

LEMMA ProxiedTypesStep == ProxiedTypes /\ Proxying!Next => ProxiedTypes'
  <1> SUFFICES ASSUME ProxiedTypes, Proxying!Next PROVE ProxiedTypes'
    OBVIOUS
  <1> USE DEF Proxying!Idle
  <1>1. CASE Proxying!CreateLoaderAndStart \/ Proxying!FollowRedirect
    BY <1>1, RestartTypes DEF Proxying!CreateLoaderAndStart, Proxying!FollowRedirect
  <1>2. CASE Proxying!OnLoaderForCorsPreflightCreated
    <2>1. /\ \/ Proxying!Ask("onBeforeRequest", "ContinueToStartRequest")
             \/ Proxying!GoOn("ContinueToStartRequest")
          /\ header_receiver' \in {"paused", "bound"}
          /\ UNCHANGED <<posted, client_receiver, hops>>
      BY <1>2 DEF Proxying!OnLoaderForCorsPreflightCreated
    <2>2. /\ running' \in {<<>>} \cup Turns
          /\ continuation' \in Proxying!Continuations \cup {"none"}
          /\ asked_listeners' \subseteq Proxying!ResponseEvents
      BY <2>1, AskTypes, TurnTypes
    <2> QED BY <2>1, <2>2 DEF ProxiedTypes, Receivers
  <1>3. CASE \/ Proxying!OnClientDisconnected \/ Proxying!ContinuationFails \/ Proxying!OnComplete
             \/ Proxying!OnCompleteError \/ Proxying!OnPreflightDisconnected
    BY <1>3, RemoveTypes DEF Proxying!OnClientDisconnected, Proxying!ContinuationFails,
       Proxying!OnComplete, Proxying!OnCompleteError, Proxying!OnPreflightDisconnected,
       Proxying!OnRequestError
  <1>4. CASE Proxying!Answer
    <2>1. PICK event \in Proxying!ResponseEvents, answer \in {"proceed", "cancel", "redirect"} :
              Proxying!OnListenerResult(event, answer)
      BY <1>4 DEF Proxying!Answer
    <2>2. /\ asked_listeners' \subseteq asked_listeners /\ continuation' = "none"
          /\ UNCHANGED <<running, client_receiver, header_receiver, hops>>
      BY <2>1 DEF Proxying!OnListenerResult, Proxying!pipeVars
    <2>3. posted' \in Seq(Turns)
      <3>1. CASE continuation = "none"
        BY <2>1, <3>1 DEF Proxying!OnListenerResult, ProxiedTypes
      <3>2. CASE continuation # "none"
        <4> DEFINE t == <<continuation, IF answer = "cancel" THEN "BLOCKED" ELSE "OK">>
        <4>1. t \in Turns
          BY <3>2 DEF ProxiedTypes, Turns
        <4>2. posted' = Append(posted, t)
          BY <2>1, <3>2 DEF Proxying!OnListenerResult
        <4> HIDE DEF t
        <4> QED BY <4>1, <4>2 DEF ProxiedTypes
      <3> QED BY <3>1, <3>2
    <2> QED BY <2>2, <2>3 DEF ProxiedTypes
  <1>5. CASE Proxying!RunPosted
    <2>1. /\ posted # <<>> /\ running' = Head(posted) /\ posted' = Tail(posted)
          /\ UNCHANGED <<continuation, asked_listeners, client_receiver, header_receiver, hops>>
      BY <1>5 DEF Proxying!RunPosted, Proxying!pipeVars
    <2>2. posted \in Seq(Turns)
      BY DEF ProxiedTypes
    <2>3. Head(posted) \in Turns /\ Tail(posted) \in Seq(Turns)
      BY <2>1, <2>2
    <2> QED BY <2>1, <2>3 DEF ProxiedTypes
  <1>6. CASE Proxying!HandleBeforeRequestRedirect \/ Proxying!ResponseIsRedirect
    <2>1. /\ running' = <<"ContinueToBeforeRedirect", "OK">>
          /\ client_receiver' = "unbound" /\ header_receiver' = "unbound" /\ hops' = hops
          /\ UNCHANGED <<continuation, asked_listeners, posted>>
      BY <1>6 DEF Proxying!HandleBeforeRequestRedirect, Proxying!ResponseIsRedirect,
         Proxying!Disconnect, Proxying!listenerVars
    <2> QED BY <2>1, MethodTypes, TurnTypes
  <1>7. CASE Proxying!ContinueToBeforeSendHeaders
    <2>1. /\ \/ Proxying!Ask("onBeforeSendHeaders", "ContinueToSendHeaders")
             \/ Proxying!GoOn("ContinueToSendHeaders")
          /\ client_receiver' = Proxying!Resumed(client_receiver)
          /\ UNCHANGED <<posted, header_receiver, hops>>
      BY <1>7 DEF Proxying!ContinueToBeforeSendHeaders
    <2>2. /\ running' \in {<<>>} \cup Turns
          /\ continuation' \in Proxying!Continuations \cup {"none"}
          /\ asked_listeners' \subseteq Proxying!ResponseEvents
      BY <2>1, AskTypes, TurnTypes
    <2> QED BY <2>1, <2>2, ReceiverTypes DEF ProxiedTypes
  <1>8. CASE Proxying!ContinueToSendHeaders
    <2>1. /\ running' \in {<<>>, <<"ContinueToStartRequest", "OK">>}
          /\ client_receiver' = Proxying!Resumed(client_receiver)
          /\ UNCHANGED <<continuation, asked_listeners, posted, header_receiver, hops>>
      BY <1>8 DEF Proxying!ContinueToSendHeaders, Proxying!listenerVars
    <2>2. running' \in {<<>>} \cup Turns
      BY <2>1, TurnTypes
    <2> QED BY <2>1, <2>2, MethodTypes
  <1>9. CASE Proxying!ContinueToStartRequest
    <2>1. /\ running' = <<>>
          /\ client_receiver' \in {Proxying!Resumed(client_receiver), "bound"}
          /\ header_receiver' = Proxying!Resumed(header_receiver)
          /\ UNCHANGED <<continuation, asked_listeners, posted, hops>>
      BY <1>9 DEF Proxying!ContinueToStartRequest, Proxying!listenerVars
    <2> QED BY <2>1, MethodTypes
  <1>10. CASE Proxying!OnBeforeSendHeaders
    <2>1. /\ running' = <<"ContinueToBeforeSendHeaders", "OK">>
          /\ UNCHANGED <<continuation, asked_listeners, posted, client_receiver, header_receiver,
                         hops>>
      BY <1>10 DEF Proxying!OnBeforeSendHeaders, Proxying!listenerVars, Proxying!pipeVars
    <2> QED BY <2>1, MethodTypes, TurnTypes
  <1>11. CASE Proxying!OnHeadersReceived
    BY <1>11, HeadersTypes, TurnTypes DEF Proxying!OnHeadersReceived
  <1>12. CASE Proxying!ContinueToHandleOverrideHeaders
    <2>1. CASE Proxying!Remove
      BY <2>1, RemoveTypes
    <2>2. CASE ~Proxying!Remove
      <3>1. /\ running' = <<>>
            /\ client_receiver' \in {client_receiver, Proxying!Resumed(client_receiver)}
            /\ hops' \in {hops, hops + 1}
            /\ UNCHANGED <<continuation, asked_listeners, posted, header_receiver>>
        BY <1>12, <2>2 DEF Proxying!ContinueToHandleOverrideHeaders
      <3> QED BY <3>1, MethodTypes
    <2> QED BY <2>1, <2>2
  <1>13. CASE Proxying!OnReceiveResponse \/ Proxying!OnReceiveRedirect
    <2>1. PICK then \in {"ContinueToResponseStarted", "ContinueToBeforeRedirect"},
               message \in {"OnReceiveResponse", "OnReceiveRedirect"} :
              Proxying!OnReceive(message, then)
      BY <1>13 DEF Proxying!OnReceiveResponse, Proxying!OnReceiveRedirect
    <2>2. then \in Proxying!Continuations /\ hops' = hops
      BY <2>1, TurnTypes DEF Proxying!OnReceive
    <2>3. CASE Proxying!HandleResponseOrRedirectHeaders(then)
      BY <2>2, <2>3, HeadersTypes
    <2>4. CASE ~Proxying!HandleResponseOrRedirectHeaders(then)
      <3>1. Proxying!GoOn(then) /\ UNCHANGED <<posted, client_receiver, header_receiver>>
        BY <2>1, <2>4 DEF Proxying!OnReceive, Proxying!pipeVars
      <3>2. /\ running' \in {<<>>} \cup Turns
            /\ continuation' \in Proxying!Continuations \cup {"none"}
            /\ asked_listeners' \subseteq Proxying!ResponseEvents
        BY <2>2, <3>1, AskTypes, TurnTypes
      <3> QED BY <2>2, <3>1, <3>2 DEF ProxiedTypes
    <2> QED BY <2>3, <2>4
  <1>14. CASE Proxying!ContinueToResponseStarted \/ Proxying!ContinueToBeforeRedirect
    <2>1. /\ running' = <<>> /\ client_receiver' = Proxying!Resumed(client_receiver)
          /\ hops' \in {hops, hops + 1}
          /\ UNCHANGED <<continuation, asked_listeners, posted, header_receiver>>
      BY <1>14 DEF Proxying!ContinueToResponseStarted, Proxying!ContinueToBeforeRedirect,
         Proxying!listenerVars
    <2> QED BY <2>1, MethodTypes
  <1>15. CASE Proxying!Network \/ Proxying!NetworkCrash \/ Proxying!OnProxyBindingError
    <2>1. /\ header_receiver' \in {header_receiver, "bound"}
          /\ UNCHANGED <<running, continuation, asked_listeners, posted, client_receiver, hops>>
      BY <1>15 DEF Proxying!Network, Proxying!NetworkCrash, Proxying!OnProxyBindingError, Proxying!OnLoaderCreated,
         Proxying!AskToSendHeaders, Proxying!AskToReceiveHeaders, Proxying!SendRedirect,
         Proxying!SendResponse, Proxying!SendComplete, Proxying!SendError, Proxying!SendToClient,
         Proxying!NetworkStep, Proxying!listenerVars, Proxying!pipeVars
    <2> QED BY <2>1 DEF ProxiedTypes, Receivers
  <1> QED BY <1>1, <1>2, <1>3, <1>4, <1>5, <1>6, <1>7, <1>8, <1>9, <1>10, <1>11, <1>12, <1>13,
             <1>14, <1>15 DEF Proxying!Next, Proxying!Methods, Proxying!Messages

LEMMA ProxiedTypesStutter == ProxiedTypes /\ Proxying!NoStep => ProxiedTypes'
  BY DEF ProxiedTypes, Proxying!NoStep, Proxying!requestVars, Proxying!listenerVars,
     Proxying!pipeVars

LEMMA ProxiedTyped == ProxiedStates /\ ProxiedTypes => Proxying!TypeOK
  BY DEF ProxiedStates, ProxiedTypes, Turns, Receivers, Proxying!TypeOK, Proxying!Idle

-----------------------------------------------------------------------------
\* The flags of a handshake, the listener it asks and what its network does.
SocketFlags ==
    /\ ws_paused \in BOOLEAN /\ send_headers \in BOOLEAN
    /\ headers_received \in BOOLEAN /\ auth_required \in BOOLEAN
    /\ listener \in Sockets!WsEvents \cup {"none"}
    /\ ws_network \in Sockets!Messages \cup {"none", "waiting", "handshake", "answered"}

LEMMA SocketFlagsInit == Sockets!Init => SocketFlags
  BY DEF Sockets!Init, SocketFlags

LEMMA SocketFlagsStep == SocketInvariant /\ SocketFlags /\ Sockets!Next => SocketFlags'
  <1> SUFFICES ASSUME SocketInvariant, SocketFlags, Sockets!Next PROVE SocketFlags'
    OBVIOUS
  <1> USE DEF SocketFlags, Sockets!Messages, Sockets!WsEvents
  <1>1. CASE \/ Sockets!OnConnectionEstablished \/ Sockets!OnMojoConnectionErrorWithCustomReason
             \/ Sockets!OnMojoConnectionError
    BY <1>1 DEF Sockets!OnConnectionEstablished, Sockets!OnMojoConnectionErrorWithCustomReason,
       Sockets!OnMojoConnectionError, Sockets!ContinueToCompleted, Sockets!OnError, Sockets!Delete
  <1>2. CASE Sockets!RunContinuation
    <2>1. CASE ws_posted[2] # "OK"
      BY <1>2, <2>1 DEF Sockets!RunContinuation, Sockets!OnError, Sockets!Delete
    <2>2. CASE ws_posted[2] = "OK"
      <3>1. UNCHANGED <<listener, auth_required>>
        BY <1>2, <2>2 DEF Sockets!RunContinuation
      <3>2. CASE ws_posted[1] = "ContinueToStartRequest"
        BY <1>2, <2>2, <3>1, <3>2 DEF Sockets!RunContinuation, Sockets!ContinueToStartRequest
      <3>3. CASE ws_posted[1] = "OnBeforeSendHeadersComplete"
        BY <1>2, <2>2, <3>1, <3>3 DEF Sockets!RunContinuation
      <3>4. CASE ws_posted[1] = "OnHeadersReceivedComplete"
        BY <1>2, <2>2, <3>1, <3>4 DEF Sockets!RunContinuation
      <3>5. CASE ws_posted[1] = "OnHeadersReceivedCompleteForAuth"
        BY <1>2, <2>2, <3>1, <3>5 DEF Sockets!RunContinuation
      <3>6. ws_posted[1] \in Sockets!WsContinuations
        BY <1>2 DEF Sockets!RunContinuation, SocketInvariant, SocketTypes
      <3> QED BY <3>2, <3>3, <3>4, <3>5, <3>6 DEF Sockets!WsContinuations
    <2> QED BY <2>1, <2>2
  <1>3. CASE Sockets!StartProxying
    BY <1>3 DEF Sockets!StartProxying, Sockets!AskListener, Sockets!NoListener,
       Sockets!ContinueToStartRequest
  <1>4. CASE Sockets!OnBeforeSendHeaders \/ Sockets!OnHeadersReceived \/ Sockets!OnAuthRequired
    BY <1>4 DEF Sockets!OnBeforeSendHeaders, Sockets!OnHeadersReceived, Sockets!OnAuthRequired,
       Sockets!AskListener, Sockets!NoListener
  <1>5. CASE Sockets!Answer
    BY <1>5 DEF Sockets!Answer, Sockets!OnListenerResult
  <1>6. CASE \E message \in Sockets!Messages : Sockets!NetworkSends(message)
    BY <1>6 DEF Sockets!NetworkSends
  <1>7. CASE Sockets!PageGoes
    BY <1>7 DEF Sockets!PageGoes
  <1> QED BY <1>1, <1>2, <1>3, <1>4, <1>5, <1>6, <1>7 DEF Sockets!Next, Sockets!Task

LEMMA SocketFlagsStutter == SocketFlags /\ Sockets!NoStep => SocketFlags'
  BY DEF SocketFlags, Sockets!NoStep, Sockets!wsVars

LEMMA SocketTyped == SocketInvariant /\ HandshakeStates /\ SocketFlags => Sockets!TypeOK
  <1> SUFFICES ASSUME SocketInvariant, HandshakeStates, SocketFlags PROVE Sockets!TypeOK
    OBVIOUS
  <1>1. reported \in Nat /\ started \in BOOLEAN
    BY DEF SocketInvariant, SocketTypes
  <1>2. {started, ws_paused, send_headers, headers_received, auth_required} \subseteq BOOLEAN
    BY <1>1 DEF SocketFlags
  <1> QED BY <1>1, <1>2 DEF SocketInvariant, SocketTypes, HandshakeStates, SocketFlags, Sockets!TypeOK

-----------------------------------------------------------------------------
\* The flags of a request for a URL, its pipes and what its caller was told.
ReadPipes == 0..MaxReads
Outcomes == {"none", "abort", "error", "again"}
NetFlags ==
    /\ size_callback \in BOOLEAN /\ should_push \in BOOLEAN /\ resume \in BOOLEAN
    /\ net_waits \in BOOLEAN /\ aborted \in BOOLEAN /\ uncaught \in BOOLEAN
    /\ data_producer \in ReadPipes /\ upload_pipe \in ReadPipes
    /\ getter_pipe \in Seq(ReadPipes)
    /\ upload \in {"none", "reading", "whole", "failed"}
    /\ response \in {"none", "open", "destroyed"} /\ outcome \in Outcomes

LEMMA NetFlagsInit == Requesting!Init => NetFlags
  <1> SUFFICES ASSUME Requesting!Init PROVE NetFlags
    OBVIOUS
  <1>1. 0 \in ReadPipes /\ <<>> \in Seq(ReadPipes)
    BY ServicesAssumption DEF ReadPipes
  <1> QED BY <1>1 DEF Requesting!Init, Requesting!NoPipe, NetFlags, Outcomes

LEMMA WriteFlags ==
  ASSUME NetFlags, NEW how \in {"first", "later"},
         Requesting!WriteChunk(how) \/ Requesting!WriteFails(how)
  PROVE  uncaught' \in BOOLEAN /\ outcome' \in Outcomes
  BY DEF NetFlags, Requesting!WriteChunk, Requesting!WriteFails, Outcomes

LEMMA PushFlags ==
  ASSUME NEW push, NEW queue, NEW has \in BOOLEAN, NEW waits \in BOOLEAN,
         Requesting!PushInternalData(push, queue, has, waits)
  PROVE  should_push' \in BOOLEAN /\ resume' \in BOOLEAN /\ net_waits' \in BOOLEAN
  <1>1. PICK more \in BOOLEAN : /\ should_push' = more /\ resume' = (has /\ ~more)
                                /\ net_waits' = (waits /\ ~(has /\ more))
    BY DEF Requesting!PushInternalData
  <1> QED BY <1>1

LEMMA NetFlagsStep == NetFlags /\ Requesting!Next => NetFlags'
  <1> SUFFICES ASSUME NetFlags, Requesting!Next PROVE NetFlags'
    OBVIOUS
  <1>0. MaxReads \in Nat /\ 0 \in ReadPipes /\ 1 \in ReadPipes /\ <<>> \in Seq(ReadPipes)
    BY ServicesAssumption DEF ReadPipes
  <1> USE DEF Requesting!NoPipe, Requesting!GetSizeCall
  <1>1. CASE Requesting!Write
    <2>1. /\ UNCHANGED <<size_callback, should_push, resume, net_waits, aborted, data_producer, response>>
      BY <1>1 DEF Requesting!Write, Requesting!downloadVars
    <2>2. CASE downstream
      <3>1. /\ Requesting!WriteChunk("later") /\ UNCHANGED <<getter_pipe, upload, upload_pipe>>
        BY <1>1, <2>2 DEF Requesting!Write
      <3> QED BY <2>1, <3>1, WriteFlags DEF NetFlags
    <2>3. CASE ~downstream
      <3>1. /\ getter_pipe' = <<0, 1>> /\ upload' = "reading" /\ upload_pipe' = 1
            /\ UNCHANGED <<outcome, uncaught>>
        BY <1>1, <2>3 DEF Requesting!Write
      <3>2. <<0, 1>> \in Seq(ReadPipes)
        BY <1>0
      <3> QED BY <1>0, <2>1, <3>1, <3>2 DEF NetFlags
    <2> QED BY <2>2, <2>3
  <1>2. CASE Requesting!Final
    <2>1. /\ UNCHANGED <<should_push, resume, net_waits, aborted, uncaught, upload_pipe, upload, response, outcome>>
          /\ \/ UNCHANGED <<size_callback, data_producer, getter_pipe>>
             \/ size_callback' = FALSE /\ data_producer' = 0 /\ getter_pipe' = <<>>
      BY <1>2 DEF Requesting!Final, Requesting!Finished, Requesting!downloadVars
    <2> QED BY <1>0, <2>1 DEF NetFlags
  <1>3. CASE Requesting!Abort \/ Requesting!OnError
    <2>1. Requesting!Die /\ aborted' \in BOOLEAN
      BY <1>3 DEF Requesting!Abort, Requesting!OnError, NetFlags
    <2>2. UNCHANGED <<size_callback, uncaught, data_producer, getter_pipe>>
      BY <1>3 DEF Requesting!Abort, Requesting!OnError, Requesting!uploadVars
    <2>3. UNCHANGED <<should_push, resume, net_waits>>
      BY <2>1 DEF Requesting!Die
    <2>4. outcome' \in Outcomes /\ response' \in {"none", "open", "destroyed"}
      BY <1>3, <2>1 DEF Requesting!Abort, Requesting!OnError, Requesting!Die, NetFlags, Outcomes
    <2>5. \/ upload' = "failed" /\ upload_pipe' = 0
          \/ UNCHANGED <<upload, upload_pipe>>
      BY <2>1 DEF Requesting!Die, Requesting!DropLoader, Requesting!networkVars
    <2> QED BY <1>0, <2>1, <2>2, <2>3, <2>4, <2>5 DEF NetFlags
  <1>4. CASE Requesting!Read
    <2>1. PICK queue : Requesting!PushInternalData(TRUE, queue, resume, net_waits)
      BY <1>4 DEF Requesting!Read
    <2>2. should_push' \in BOOLEAN /\ resume' \in BOOLEAN /\ net_waits' \in BOOLEAN
      BY <2>1, PushFlags DEF NetFlags
    <2>3. UNCHANGED <<size_callback, aborted, uncaught, data_producer, getter_pipe, upload, upload_pipe, response,
                      outcome>>
      BY <1>4 DEF Requesting!Read, Requesting!uploadVars, Requesting!networkVars
    <2> QED BY <2>2, <2>3 DEF NetFlags
  <1>5. CASE Requesting!OnDataReceived
    <2>1. PICK push, queue : Requesting!PushInternalData(push, queue, TRUE, TRUE)
      BY <1>5 DEF Requesting!OnDataReceived
    <2>2. should_push' \in BOOLEAN /\ resume' \in BOOLEAN /\ net_waits' \in BOOLEAN
      BY <2>1, PushFlags
    <2>3. UNCHANGED <<size_callback, aborted, uncaught, data_producer, getter_pipe, upload, upload_pipe, response,
                      outcome>>
      BY <1>5 DEF Requesting!OnDataReceived, Requesting!uploadVars, Requesting!networkVars
    <2> QED BY <2>2, <2>3 DEF NetFlags
  <1>6. CASE Requesting!OnComplete
    <2>1. PICK push, queue : Requesting!PushInternalData(push, queue, FALSE, FALSE)
      BY <1>6 DEF Requesting!OnComplete
    <2>2. should_push' \in BOOLEAN /\ resume' \in BOOLEAN /\ net_waits' \in BOOLEAN
      BY <2>1, PushFlags
    <2>3. /\ UNCHANGED <<size_callback, aborted, uncaught, data_producer, getter_pipe, response, outcome>>
          /\ upload' = "failed" /\ upload_pipe' = 0
      BY <1>6 DEF Requesting!OnComplete, Requesting!uploadVars, Requesting!DropLoader
    <2> QED BY <1>0, <2>2, <2>3 DEF NetFlags
  <1>7. CASE Requesting!GetSize \/ Requesting!StartReading
    <2>1. /\ getter_pipe # <<>> /\ getter_pipe' = Tail(getter_pipe)
          /\ UNCHANGED <<should_push, resume, net_waits, aborted, upload, upload_pipe, response>>
      BY <1>7 DEF Requesting!GetSize, Requesting!StartReading, Requesting!Gets,
         Requesting!networkVars, Requesting!downloadVars
    <2>2. getter_pipe \in Seq(ReadPipes)
      BY DEF NetFlags
    <2>3. Head(getter_pipe) \in ReadPipes /\ Tail(getter_pipe) \in Seq(ReadPipes)
      BY <2>1, <2>2
    <2>4. CASE Requesting!GetSize
      BY <2>1, <2>3, <2>4 DEF Requesting!GetSize, NetFlags
    <2>5. CASE Requesting!StartReading
      <3>1. data_producer' = Head(getter_pipe) /\ size_callback' = size_callback
        BY <2>5 DEF Requesting!StartReading
      <3>2. Requesting!WriteChunk("first") \/ UNCHANGED <<outcome, uncaught>>
        BY <2>5 DEF Requesting!StartReading
      <3>3. uncaught' \in BOOLEAN /\ outcome' \in Outcomes
        BY <3>2, WriteFlags DEF NetFlags
      <3> QED BY <2>1, <2>3, <3>1, <3>3 DEF NetFlags
    <2> QED BY <1>7, <2>4, <2>5
  <1>8. CASE Requesting!OnWriteChunkComplete
    <2>1. /\ writer \in {"first", "later"}
          /\ UNCHANGED <<should_push, resume, net_waits, aborted, upload, upload_pipe, response>>
          /\ \/ UNCHANGED <<size_callback, data_producer, getter_pipe, outcome, uncaught>>
             \/ /\ size_callback' = FALSE /\ data_producer' = 0 /\ getter_pipe' = <<>>
                /\ Requesting!WriteFails(writer)
      BY <1>8 DEF Requesting!OnWriteChunkComplete, Requesting!Finished, Requesting!downloadVars
    <2>2. uncaught' \in BOOLEAN /\ outcome' \in Outcomes
      BY <2>1, WriteFlags DEF NetFlags
    <2> QED BY <1>0, <2>1, <2>2 DEF NetFlags
  <1>9. CASE Requesting!UploadEnds
    BY <1>9 DEF Requesting!UploadEnds, Requesting!uploadVars, Requesting!downloadVars, NetFlags
  <1>10. CASE Requesting!ReadsAgain
    <2>1. /\ UNCHANGED <<size_callback, should_push, resume, net_waits, aborted, uncaught, data_producer,
                         response, outcome>>
          /\ \/ upload' = "failed" /\ UNCHANGED <<upload_pipe, getter_pipe>>
             \/ /\ upload' = "reading" /\ upload_pipe < MaxReads /\ upload_pipe' = upload_pipe + 1
                /\ getter_pipe' = Append(getter_pipe, upload_pipe + 1)
      BY <1>10 DEF Requesting!ReadsAgain, Requesting!downloadVars
    <2>2. upload_pipe < MaxReads => upload_pipe + 1 \in ReadPipes
      BY <1>0 DEF NetFlags, ReadPipes
    <2> DEFINE n == upload_pipe + 1
    <2>3. getter_pipe \in Seq(ReadPipes)
      BY DEF NetFlags
    <2> HIDE DEF n
    <2>4. n \in ReadPipes => Append(getter_pipe, n) \in Seq(ReadPipes)
      BY <2>3
    <2>5. getter_pipe' \in Seq(ReadPipes) /\ upload_pipe' \in ReadPipes
      BY <2>1, <2>2, <2>4 DEF n, NetFlags
    <2> QED BY <2>1, <2>5 DEF NetFlags
  <1>11. CASE Requesting!OnResponseStarted \/ Requesting!ResumeReturns
    <2>1. /\ UNCHANGED <<size_callback, should_push, resume, net_waits, aborted, uncaught, data_producer,
                         upload_pipe, getter_pipe, upload, outcome>>
          /\ response' \in {response, "open"}
      BY <1>11 DEF Requesting!OnResponseStarted, Requesting!ResumeReturns, Requesting!uploadVars,
         Requesting!networkVars
    <2> QED BY <2>1 DEF NetFlags
  <1>12. CASE Requesting!ChallengeLost
    <2>1. /\ UNCHANGED <<size_callback, should_push, resume, net_waits, aborted, uncaught, data_producer,
                         getter_pipe, response, outcome>>
          /\ upload' = "failed" /\ upload_pipe' = 0
      BY <1>12 DEF Requesting!ChallengeLost, Requesting!uploadVars, Requesting!downloadVars,
         Requesting!DropLoader
    <2> QED BY <1>0, <2>1 DEF NetFlags
  <1> QED BY <1>1, <1>2, <1>3, <1>4, <1>5, <1>6, <1>7, <1>8, <1>9, <1>10, <1>11, <1>12
          DEF Requesting!Next, Requesting!Getter, Requesting!Loader

LEMMA NetFlagsStutter == NetFlags /\ Requesting!NoStep => NetFlags'
  BY DEF NetFlags, Requesting!NoStep, Requesting!netVars, Requesting!uploadVars,
     Requesting!networkVars, Requesting!downloadVars

LEMMA NetTyped == UploadInvariant /\ ToldStates /\ NetFlags => Requesting!TypeOK
  <1> SUFFICES ASSUME UploadInvariant, ToldStates, NetFlags PROVE Requesting!TypeOK
    OBVIOUS
  <1>1. {ended, downstream, size_callback, is_writing, finished, should_push, resume, net_waits,
         aborted, silent, uncaught} \subseteq BOOLEAN
    BY DEF UploadInvariant, NetTypes, ToldStates, LoaderStates, NetFlags
  <1> QED BY <1>1 DEF UploadInvariant, NetTypes, ToldStates, LoaderStates, NetFlags, Outcomes, ReadPipes,
                      Requesting!TypeOK

-----------------------------------------------------------------------------
\* The devices that are known, shown, permitted or reported are devices of the
\* service.  A message that adds, changes or removes a device names one.
NamesDevices(m) ==
    /\ DOMAIN m.list \subseteq Guids
    /\ m.type \in {"DeviceAdded", "DeviceChanged", "DeviceRemoved"} => m.guid \in Guids
HidGuids ==
    /\ plugged \in [Guids -> {"no", "yes", "gone"}]
    /\ hid_manager \in BOOLEAN /\ observing \in BOOLEAN
    /\ hid_lost \in BOOLEAN /\ hid_undefined \in BOOLEAN
    /\ DOMAIN hid_devices \subseteq Guids /\ ephemeral \subseteq Guids /\ removing \subseteq Guids
    /\ Choosing!Shown(device_map) \subseteq Guids
    /\ IsSequence(hid_pipe) /\ \A i \in 1..Len(hid_pipe) : NamesDevices(hid_pipe[i])

LEMMA ItemsAreOf ==
  ASSUME NEW S, S \subseteq Guids
  PROVE  Choosing!Shown(Choosing!Items(S)) \subseteq Guids
  BY DEF Choosing!Shown, Choosing!Items

LEMMA NoItemsShown == Choosing!Shown(Choosing!NoItems) \subseteq Guids
  BY DEF Choosing!Shown, Choosing!NoItems

LEMMA HidGuidsInit == Choosing!Init => HidGuids
  <1> SUFFICES ASSUME Choosing!Init PROVE HidGuids
    OBVIOUS
  <1>1. IsSequence(hid_pipe) /\ 1..Len(hid_pipe) = {}
    BY SequenceEmpty DEF Choosing!Init
  <1>2. Choosing!Shown(device_map) \subseteq Guids
    BY NoItemsShown DEF Choosing!Init
  <1> QED BY <1>1, <1>2 DEF Choosing!Init, HidGuids

\* A message is put at the end of the pipe, and the first one received.
LEMMA SendNamed ==
  ASSUME NEW s, IsSequence(s), \A i \in 1..Len(s) : NamesDevices(s[i]), NEW m, NamesDevices(m)
  PROVE  IsSequence(Append(s, m)) /\ \A i \in 1..Len(Append(s, m)) : NamesDevices(Append(s, m)[i])
  <1> DEFINE t == Append(s, m)
  <1>1. /\ IsSequence(t) /\ Len(s) \in Nat /\ Len(t) = Len(s) + 1
        /\ t[Len(s) + 1] = m /\ \A i \in 1..Len(s) : t[i] = s[i]
    BY SequenceAppend
  <1> HIDE DEF t
  <1>2. ASSUME NEW i \in 1..Len(t) PROVE NamesDevices(t[i])
    <2>1. i \in 1..Len(s) \/ i = Len(s) + 1
      BY <1>1
    <2> QED BY <1>1, <2>1
  <1> QED BY <1>1, <1>2 DEF t

LEMMA ReceiveNamed ==
  ASSUME HidGuids, hid_pipe # <<>>, hid_pipe' = Tail(hid_pipe)
  PROVE  /\ IsSequence(hid_pipe') /\ \A i \in 1..Len(hid_pipe') : NamesDevices(hid_pipe'[i])
         /\ NamesDevices(Head(hid_pipe))
  <1>1. IsSequence(hid_pipe) /\ \A i \in 1..Len(hid_pipe) : NamesDevices(hid_pipe[i])
    BY DEF HidGuids
  <1>2. /\ IsSequence(hid_pipe') /\ Len(hid_pipe) \in Nat \ {0} /\ Len(hid_pipe') = Len(hid_pipe) - 1
        /\ Head(hid_pipe) = hid_pipe[1]
        /\ \A i \in 1..(Len(hid_pipe) - 1) : hid_pipe'[i] = hid_pipe[i + 1]
    BY <1>1, SequenceTail
  <1>3. ASSUME NEW i \in 1..Len(hid_pipe') PROVE NamesDevices(hid_pipe'[i])
    <2>1. i \in 1..(Len(hid_pipe) - 1) /\ i + 1 \in 1..Len(hid_pipe)
      BY <1>2
    <2> QED BY <1>1, <1>2, <2>1
  <1>4. 1 \in 1..Len(hid_pipe)
    BY <1>2
  <1> QED BY <1>1, <1>2, <1>3, <1>4

\* Nothing is chosen that is not shown.
LEMMA ChosenAreOf ==
  ASSUME NEW map, Choosing!Shown(map) \subseteq Guids, NEW choice
  PROVE  Choosing!Chosen(map, choice) \subseteq Guids
  BY DEF Choosing!Shown, Choosing!Chosen

LEMMA HidGuidsStep == HidGuids /\ Choosing!Next => HidGuids'
  <1> SUFFICES ASSUME HidGuids, Choosing!Next PROVE HidGuids'
    OBVIOUS
  <1>0. Choosing!Present \subseteq Guids
    BY DEF Choosing!Present
  <1>1. ASSUME NEW r \in Choosers, Choosing!RunChooser(r) PROVE HidGuids'
    <2>1. /\ device_map' = Choosing!NoItems /\ observing' = FALSE /\ hid_manager' = TRUE
          /\ UNCHANGED <<plugged, hid_devices, ephemeral, removing, hid_lost, hid_undefined>>
      BY <1>1 DEF Choosing!RunChooser
    <2> DEFINE first == Choosing!List("InitDeviceList", 0)
               second == Choosing!List("OnGotDevices", r)
    <2>2. NamesDevices(first) /\ NamesDevices(second)
      BY <1>0 DEF NamesDevices, Choosing!List
    <2>3. hid_pipe' = Append(hid_pipe, second) \/ hid_pipe' = Append(Append(hid_pipe, first), second)
      BY <1>1 DEF Choosing!RunChooser
    <2> HIDE DEF first, second
    <2>4. IsSequence(hid_pipe) /\ \A i \in 1..Len(hid_pipe) : NamesDevices(hid_pipe[i])
      BY DEF HidGuids
    <2>5. IsSequence(hid_pipe') /\ \A i \in 1..Len(hid_pipe') : NamesDevices(hid_pipe'[i])
      <3> DEFINE s == Append(hid_pipe, first)
      <3>1. IsSequence(s) /\ \A i \in 1..Len(s) : NamesDevices(s[i])
        BY <2>2, <2>4, SendNamed
      <3> HIDE DEF s
      <3>2. hid_pipe' = Append(hid_pipe, second) \/ hid_pipe' = Append(s, second)
        BY <2>3 DEF s
      <3> QED BY <2>2, <2>4, <3>1, <3>2, SendNamed
    <2>6. Choosing!Shown(device_map') \subseteq Guids
      BY <2>1, NoItemsShown
    <2>7. Choosing!Shown(device_map)' = Choosing!Shown(device_map')
      BY DEF Choosing!Shown
    <2> QED BY <2>1, <2>5, <2>6, <2>7 DEF HidGuids
  <1>2. CASE Choosing!RenderFrameDeleted
    <2>1. /\ device_map' = Choosing!NoItems /\ observing' = FALSE
          /\ UNCHANGED <<plugged, hid_devices, ephemeral, removing, hid_lost, hid_undefined, hid_manager, hid_pipe>>
      BY <1>2 DEF Choosing!RenderFrameDeleted
    <2>2. Choosing!Shown(device_map)' \subseteq Guids
      BY <2>1, NoItemsShown DEF Choosing!Shown
    <2> QED BY <2>1, <2>2 DEF HidGuids
  <1>3. ASSUME NEW choice \in Choosing!Choices, Choosing!Choose(choice) PROVE HidGuids'
    <2>1. /\ ephemeral' = ephemeral \cup Choosing!Chosen(device_map, choice)
          /\ UNCHANGED <<plugged, hid_devices, removing, hid_lost, hid_undefined, hid_manager, hid_pipe, observing,
                         device_map>>
      BY <1>3 DEF Choosing!Choose
    <2>2. Choosing!Chosen(device_map, choice) \subseteq Guids
      BY ChosenAreOf DEF HidGuids
    <2>3. Choosing!Shown(device_map)' \subseteq Guids
      BY <2>1 DEF HidGuids, Choosing!Shown
    <2> QED BY <2>1, <2>2, <2>3 DEF HidGuids
  <1>4. CASE Choosing!Receive /\ ~Choosing!DeviceRevoked
    <2>1. /\ hid_pipe # <<>> /\ hid_pipe' = Tail(hid_pipe)
          /\ UNCHANGED <<plugged, hid_manager, hid_lost>>
      BY <1>4 DEF Choosing!Receive, Choosing!InitDeviceList, Choosing!DeviceAdded,
         Choosing!DeviceChanged, Choosing!OnGotDevices, Choosing!DeviceRemoved, Choosing!Receives
    <2> DEFINE m == Head(hid_pipe)
    <2>2. /\ IsSequence(hid_pipe') /\ \A i \in 1..Len(hid_pipe') : NamesDevices(hid_pipe'[i])
          /\ NamesDevices(m)
      BY <2>1, ReceiveNamed
    <2>3. Choosing!Message = m
      BY DEF Choosing!Message
    <2> HIDE DEF m
    <2>4. CASE Choosing!InitDeviceList
      <3>1. /\ DOMAIN hid_devices' = DOMAIN hid_devices \cup DOMAIN m.list
            /\ UNCHANGED <<ephemeral, removing, observing, device_map, hid_undefined>>
        BY <2>3, <2>4 DEF Choosing!InitDeviceList
      <3>2. Choosing!Shown(device_map)' \subseteq Guids
        BY <3>1 DEF HidGuids, Choosing!Shown
      <3> QED BY <2>1, <2>2, <3>1, <3>2 DEF HidGuids, NamesDevices
    <2>5. ASSUME NEW prevented, Choosing!OnGotDevices(prevented) PROVE HidGuids'
      <3> DEFINE S == { g \in DOMAIN m.list : m.list[g] }
      <3>1. /\ UNCHANGED <<ephemeral, removing, hid_devices, hid_undefined>>
            /\ \/ UNCHANGED <<device_map, observing>>
               \/ device_map' = Choosing!Items(S) /\ observing' = TRUE
        BY <2>3, <2>5 DEF Choosing!OnGotDevices
      <3>2. S \subseteq Guids
        BY <2>2 DEF NamesDevices
      <3> HIDE DEF S
      <3>3. Choosing!Shown(Choosing!Items(S)) \subseteq Guids
        BY <3>2, ItemsAreOf
      <3>4. Choosing!Shown(device_map') \subseteq Guids
        BY <3>1, <3>3 DEF HidGuids
      <3>5. Choosing!Shown(device_map)' = Choosing!Shown(device_map')
        BY DEF Choosing!Shown
      <3> QED BY <2>1, <2>2, <3>1, <3>4, <3>5 DEF HidGuids
    <2>6. CASE Choosing!DeviceAdded \/ Choosing!DeviceChanged
      <3>0. m.guid \in Guids
        BY <2>2, <2>3, <2>6
        DEF Choosing!DeviceAdded, Choosing!DeviceChanged, Choosing!Receives, NamesDevices
      <3> DEFINE A == Choosing!Shown(device_map) \cup {m.guid}
                 B == Choosing!Shown(device_map) \ {m.guid}
      <3>1. /\ DOMAIN hid_devices' = DOMAIN hid_devices \cup {m.guid}
            /\ UNCHANGED <<ephemeral, removing, observing>>
        BY <2>3, <2>6 DEF Choosing!DeviceAdded, Choosing!DeviceChanged, Choosing!Known
      <3>2. hid_undefined' \in BOOLEAN
        BY <2>6 DEF Choosing!DeviceAdded, Choosing!DeviceChanged, HidGuids
      <3>3. device_map' \in {device_map, Choosing!Items(A), Choosing!Items(B)}
        BY <2>3, <2>6 DEF Choosing!DeviceAdded, Choosing!DeviceChanged, Choosing!With, Choosing!Without
      <3>4. A \subseteq Guids /\ B \subseteq Guids
        BY <3>0 DEF HidGuids
      <3> HIDE DEF A, B
      <3>5. Choosing!Shown(device_map') \subseteq Guids
        BY <3>3, <3>4, ItemsAreOf DEF HidGuids
      <3>6. Choosing!Shown(device_map)' = Choosing!Shown(device_map')
        BY DEF Choosing!Shown
      <3>7. DOMAIN hid_devices' \subseteq Guids
        BY <3>0, <3>1 DEF HidGuids
      <3> QED BY <2>1, <2>2, <3>1, <3>2, <3>5, <3>6, <3>7 DEF HidGuids
    <2>7. CASE Choosing!DeviceRemoved
      <3>1. /\ DOMAIN hid_devices' \subseteq DOMAIN hid_devices /\ removing' = {m.guid}
            /\ UNCHANGED <<ephemeral, observing, hid_undefined, device_map>>
        BY <2>3, <2>7 DEF Choosing!DeviceRemoved
      <3>2. m.guid \in Guids
        BY <2>2, <2>3, <2>7 DEF Choosing!DeviceRemoved, Choosing!Receives, NamesDevices
      <3>3. Choosing!Shown(device_map)' \subseteq Guids
        BY <3>1 DEF HidGuids, Choosing!Shown
      <3> QED BY <2>1, <2>2, <3>1, <3>2, <3>3 DEF HidGuids
    <2> QED BY <1>4, <2>4, <2>5, <2>6, <2>7 DEF Choosing!Receive
  <1>5. CASE Choosing!OnHidManagerConnectionError
    <2>1. /\ hid_manager' = FALSE /\ hid_pipe' = <<>> /\ DOMAIN hid_devices' = {} /\ ephemeral' = {}
          /\ observing' = FALSE /\ hid_lost' = TRUE
          /\ UNCHANGED <<plugged, removing, device_map, hid_undefined>>
      BY <1>5 DEF Choosing!OnHidManagerConnectionError
    <2>2. Choosing!Shown(device_map)' \subseteq Guids
      BY <2>1 DEF HidGuids, Choosing!Shown
    <2>3. IsSequence(hid_pipe') /\ 1..Len(hid_pipe') = {}
      BY <2>1, SequenceEmpty
    <2> QED BY <2>1, <2>2, <2>3 DEF HidGuids
  <1>6. ASSUME NEW g \in Guids,
               (\E ok \in BOOLEAN : Choosing!PlugIn(g, ok)) \/ Choosing!Unplug(g) \/ Choosing!Change(g)
        PROVE  HidGuids'
    <2>1. PICK m : NamesDevices(m) /\ Choosing!Reports(m)
      <3>1. ASSUME NEW ok \in BOOLEAN
            PROVE  NamesDevices([Choosing!Device("DeviceAdded", g) EXCEPT !.ok = ok])
        BY DEF NamesDevices, Choosing!Device
      <3>2. NamesDevices(Choosing!Device("DeviceRemoved", g))
        BY DEF NamesDevices, Choosing!Device
      <3>3. NamesDevices([Choosing!Device("DeviceChanged", g) EXCEPT !.ok = ~@])
        BY DEF NamesDevices, Choosing!Device
      <3> QED BY <1>6, <3>1, <3>2, <3>3 DEF Choosing!PlugIn, Choosing!Unplug, Choosing!Change
    <2>2. plugged' \in [Guids -> {"no", "yes", "gone"}]
      BY <1>6 DEF Choosing!PlugIn, Choosing!Unplug, Choosing!Change, HidGuids
    <2>3. /\ hid_pipe' = Append(hid_pipe, m) \/ hid_pipe' = hid_pipe
          /\ UNCHANGED <<hid_devices, removing, ephemeral, hid_lost, hid_undefined, hid_manager, observing,
                         device_map>>
      BY <2>1 DEF Choosing!Reports
    <2>4. IsSequence(hid_pipe') /\ \A i \in 1..Len(hid_pipe') : NamesDevices(hid_pipe'[i])
      BY <2>1, <2>3, SendNamed DEF HidGuids
    <2>5. Choosing!Shown(device_map)' \subseteq Guids
      BY <2>3 DEF HidGuids, Choosing!Shown
    <2> QED BY <2>2, <2>3, <2>4, <2>5 DEF HidGuids
  <1>7. CASE Choosing!DeviceRevoked
    <2> DEFINE B == Choosing!Shown(device_map) \ removing
    <2>1. /\ ephemeral' \subseteq ephemeral /\ removing' = {} /\ device_map' \in {device_map, Choosing!Items(B)}
          /\ UNCHANGED <<plugged, hid_devices, hid_lost, hid_undefined, hid_manager, hid_pipe, observing>>
      BY <1>7 DEF Choosing!DeviceRevoked
    <2>2. B \subseteq Guids
      BY DEF HidGuids
    <2> HIDE DEF B
    <2>3. Choosing!Shown(device_map') \subseteq Guids
      BY <2>1, <2>2, ItemsAreOf DEF HidGuids
    <2>4. Choosing!Shown(device_map)' = Choosing!Shown(device_map')
      BY DEF Choosing!Shown
    <2> QED BY <2>1, <2>3, <2>4 DEF HidGuids
  <1>8. ASSUME NEW g \in Guids, Choosing!RevokeDevicePermission(g) PROVE HidGuids'
    <2>1. /\ ephemeral' \subseteq ephemeral /\ hid_undefined' \in BOOLEAN
          /\ UNCHANGED <<plugged, hid_devices, removing, hid_lost, hid_manager, hid_pipe, observing, device_map>>
      BY <1>8 DEF Choosing!RevokeDevicePermission
    <2>2. Choosing!Shown(device_map)' \subseteq Guids
      BY <2>1 DEF HidGuids, Choosing!Shown
    <2> QED BY <2>1, <2>2 DEF HidGuids
  <1> QED BY <1>1, <1>2, <1>3, <1>4, <1>5, <1>6, <1>7, <1>8 DEF Choosing!Next, Choosing!Chooses, Choosing!Receive

LEMMA HidGuidsStutter == HidGuids /\ Choosing!NoStep => HidGuids'
  BY DEF HidGuids, Choosing!NoStep, Choosing!hidVars, Choosing!Shown

LEMMA HidTyped == HidGuids /\ ChooserStates /\ CanChoose => Choosing!TypeOK
  <1> SUFFICES ASSUME HidGuids, ChooserStates, CanChoose PROVE Choosing!TypeOK
    OBVIOUS
  <1>1. {hid_manager, observing, can_choose, hid_lost, hid_undefined} \subseteq BOOLEAN
    BY DEF HidGuids, CanChoose
  <1> QED BY <1>1 DEF HidGuids, ChooserStates, Choosing!TypeOK, Choosing!NoController

-----------------------------------------------------------------------------
\* What every part needs for its types.
TypesInvariant ==
    /\ ServiceInvariant /\ NodeInvariant /\ AsarInvariant /\ PortInvariant /\ DownloadInvariant
    /\ BrowserInvariant /\ QuitCounts
    /\ ProxiedTypes /\ SocketFlags /\ NetFlags /\ HidGuids

LEMMA TypesInit == ServicesInit => TypesInvariant
  BY ServiceInvariantInit, NodeInit, AsarInit, PortInit, DownloadInit, BrowserInit, QuitCountsInit,
     ProxiedTypesInit, SocketFlagsInit, NetFlagsInit, HidGuidsInit
  DEF ServicesInit, TypesInvariant

LEMMA TypesStep == TypesInvariant /\ [ServicesNext]_serviceVars => TypesInvariant'
  <1> SUFFICES ASSUME TypesInvariant, [ServicesNext]_serviceVars PROVE TypesInvariant'
    OBVIOUS
  <1> USE DEF ServicesNext, serviceVars
  <1>1. ServiceInvariant'
    BY ServiceInvariantStep DEF TypesInvariant
  <1>2. NodeInvariant'
    BY NodeStep, NodeStutter DEF TypesInvariant, Looping!NoStep
  <1>3. AsarInvariant'
    BY AsarStep, AsarStutter DEF TypesInvariant, Archive!NoStep
  <1>4. PortInvariant'
    BY PortStep, PortStutter DEF TypesInvariant, Porting!NoStep
  <1>5. DownloadInvariant'
    BY DownloadStep, DownloadStutter DEF TypesInvariant, Downloading!NoStep
  <1>6. BrowserInvariant'
    BY BrowserStep, BrowserStutter DEF TypesInvariant, Quitting!NoStep
  <1>7. QuitCounts'
    BY QuitCountsStep, QuitCountsStutter DEF TypesInvariant, Quitting!NoStep
  <1>8. ProxiedTypes'
    BY ProxiedTypesStep, ProxiedTypesStutter DEF TypesInvariant, Proxying!NoStep
  <1>9. SocketFlags'
    BY SocketFlagsStep, SocketFlagsStutter DEF TypesInvariant, ServiceInvariant, Sockets!NoStep
  <1>10. NetFlags'
    BY NetFlagsStep, NetFlagsStutter DEF TypesInvariant, Requesting!NoStep
  <1>11. HidGuids'
    BY HidGuidsStep, HidGuidsStutter DEF TypesInvariant, Choosing!NoStep
  <1> QED BY <1>1, <1>2, <1>3, <1>4, <1>5, <1>6, <1>7, <1>8, <1>9, <1>10, <1>11 DEF TypesInvariant

LEMMA TypesFollow == TypesInvariant => TypeOK
  <1> SUFFICES ASSUME TypesInvariant PROVE TypeOK
    OBVIOUS
  <1>0. /\ ServiceInvariant /\ NodeInvariant /\ AsarInvariant /\ PortInvariant /\ DownloadInvariant
        /\ BrowserInvariant /\ QuitCounts /\ ProxiedTypes /\ SocketFlags /\ NetFlags /\ HidGuids
    BY DEF TypesInvariant
  <1>1. Permissions!TypeOK
    BY <1>0 DEF ServiceInvariant, PermissionInvariant, PermissionTypes, PermissionStates,
       Permissions!TypeOK
  <1>2. Debugging!TypeOK
    <2>1. DebuggerTypes /\ clearing \in Seq(DebuggerFrames)
      BY <1>0 DEF ServiceInvariant, DebuggerInvariant
    <2>2. \A i \in DOMAIN clearing : clearing[i] \in DebuggerFrames
      BY <2>1
    <2> QED BY <2>1, <2>2 DEF DebuggerTypes, DebuggerFrames, Debugging!TypeOK
  <1>3. Logging!TypeOK /\ Lookup!TypeOK
    BY <1>0 DEF ServiceInvariant, NetLogInvariant, NetLogTypes, LookupInvariant, LookupOrder
  <1>4. Streaming!TypeOK
    <2>1. StreamTypes /\ MaxChunks \in Nat
      BY <1>0, ServicesAssumption DEF ServiceInvariant, StreamInvariant
    <2> QED BY <2>1 DEF StreamTypes, Streaming!TypeOK
  <1>5. Quitting!TypeOK
    BY <1>0, QuitTypes
  <1>6. Looping!TypeOK
    BY <1>0 DEF NodeInvariant
  <1>7. Proxying!TypeOK
    BY <1>0, ProxiedTyped DEF ServiceInvariant
  <1>8. Archive!TypeOK
    BY <1>0, AsarResult
  <1>9. Sockets!TypeOK
    BY <1>0, SocketTyped DEF ServiceInvariant
  <1>10. Framing!TypeOK
    BY <1>0, FrameSafe DEF ServiceInvariant
  <1>11. Choosing!TypeOK
    BY <1>0, HidTyped DEF ServiceInvariant
  <1>12. Porting!TypeOK
    BY <1>0 DEF PortInvariant, PortTypes, PortPins, Porting!TypeOK, Porting!NoEnd, Porting!NewPipe
  <1>13. Requesting!TypeOK
    BY <1>0, NetTyped DEF ServiceInvariant
  <1>14. Downloading!TypeOK
    BY <1>0 DEF DownloadInvariant, DownloadObject, DownloadEvents, DownloadPlace, Downloading!TypeOK,
                Downloading!MaxDoneEvents
  <1> QED BY <1>1, <1>2, <1>3, <1>4, <1>5, <1>6, <1>7, <1>8, <1>9, <1>10, <1>11, <1>12, <1>13, <1>14
          DEF TypeOK

\* The variables of the part that is explored have their types, whatever the
\* constants are.
THEOREM ServicesTypeCorrect == ServicesSpec => []TypeOK
  BY TypesInit, TypesStep, TypesFollow, PTL DEF ServicesSpec
=============================================================================
