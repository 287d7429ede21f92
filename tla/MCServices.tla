------------------------------ MODULE MCServices ------------------------------
(***************************************************************************)
(* The asynchronous services around the documents: the office instance and *)
(* the components of the Electron shell that keep requests of pages or of  *)
(* JavaScript.  They do not share state, so each is explored by itself:    *)
(* part says which one, and the others stay as they were made.             *)
(***************************************************************************)
EXTENDS OfficeInstance, Sequences

CONSTANTS Requests, Commands, Logs, Lookups, Environments, Windows,
          MaxPermissions, MaxSessions, MaxChunks, MaxCalls, MaxHops,
          BlockSize, MaxSniff, MaxSize, Word, Hosts, Guids, Composite, Choosers, MaxPipe,
          Ports, PipeEnds, PortMessages, MaxPortCalls, MaxUp, MaxDown, MaxReads

\* Commands, logs, lookups, hosts, choosers and ports are numbered from 1, an end
\* of a pipe like the port that is made with it; the bounds are numbers, and a body
\* may be read once; and the packer's blocks are longer than what is read for
\* sniffing.
ASSUME ServicesAssumption ==
    /\ Commands \cup Logs \cup Lookups \cup Hosts \cup Choosers \subseteq Nat \ {0}
    /\ Ports \subseteq Nat \ {0} /\ PipeEnds \subseteq Ports
    /\ {MaxPermissions, MaxSessions, MaxChunks, MaxCalls, MaxDown, MaxSize, Word} \subseteq Nat
    /\ MaxReads \in Nat \ {0}
    /\ BlockSize \in Nat /\ MaxSniff \in 1..(BlockSize - 1)

VARIABLE part

VARIABLES request_handler, made, permissions, pending_requests, results, remaining_results,
          asking, callbacks, frames_gone, answers, decided, cut_short, crashed
Permissions == INSTANCE PermissionManager

VARIABLES agent_host, sessions, previous_request_id, pending_commands, command_session,
          command_result, clearing, sent_in_clearing, undefined
Debugging == INSTANCE Debugger

VARIABLES net_log_exporter, logs, pending_start_promise, promise_moved, start_result,
          stop_result, opening, starting, stopping, log_files, too_late, overtaken,
          service_lost, moved_from
Logging == INSTANCE NetLog

VARIABLES asked, pending_lookups, receiver, completing, proxies
Lookup == INSTANCE ProxyLookup

VARIABLES stream, buffered, produced, ticks, flags, end_result, reading, from_loop, writing,
          body, completed, client_gone
Streaming == INSTANCE NodeStreamLoader

VARIABLES is_quitting, is_exiting, is_shutdown, windows, page, stack, calls, newer, too_new,
          cancelled
Quitting == INSTANCE Browser

VARIABLES environments, created, uv_env, initialized, embed_sem, embed_thread, embed_closed,
          uv_tasks, main_thread, uv_events, uv_async, skipped
Looping == INSTANCE NodeBindings

VARIABLES kind, in_progress, running, continuation, asked_listeners, posted, redirect_url,
          override_redirect, follow_params, send_callback, received_callback, target_loader,
          client_receiver, header_receiver, target_client, network, client_pipe, header_pipe,
          hops, target_factory, recreated, network_lost, null_used
Proxying == INSTANCE ProxyingRequest

VARIABLES asar_state, info, byte_range, validator, validator_range, producer, sent, served
Archive == INSTANCE AsarLoader

VARIABLES proxy, started, listener, ws_continuation, ws_posted, ws_paused, send_headers,
          headers_received, auth_required, ws_network, ws_page, reported, passed
Sockets == INSTANCE ProxyingWebSocket

VARIABLES host, live, frame, web_frame, render_frame, disposed, renderer_api, receiver_at,
          script, script_at, from_inactive
Framing == INSTANCE WebFrameMain

VARIABLES plugged, suitable, hid_manager, hid_pipe, hid_devices, removing, ephemeral,
          controller, observing, device_map, chooser, can_choose, hid_lost, hid_undefined
Choosing == INSTANCE HidChooser

VARIABLES ports, held, end_of, started_ports, closed_ports, pinned, open_ends, pipe, posted_to,
          accepted_at, port_calls
Porting == INSTANCE MessagePort

VARIABLES chunks, writer, ended, downstream, size_callback, data_producer, is_writing,
          bytes_written, finished, getter_pipe, upload, upload_pipe, upload_size, uploaded,
          url_loader, response, should_push, data, resume, resuming, net_waits, loaded,
          consumed, aborted, outcome, silent, uncaught
Requesting == INSTANCE NetRequest

VARIABLES item, forced, wrapper, download_item, wrapper_pinned, wrapper_held, save_path,
          target, target_path, manager, done_events, dialog_undefined
Downloading == INSTANCE DownloadItem

Parts == {"office", "permissions", "debugger", "net_log", "lookup", "stream", "quit", "node",
          "web_request", "asar", "web_socket", "frame", "hid", "port", "net_request",
          "download"}

serviceVars == <<part, vars, Permissions!permissionVars, Debugging!debuggerVars,
                 Logging!netLogVars, Lookup!lookupVars, Streaming!streamVars,
                 Quitting!browserVars, Looping!nodeVars, Proxying!requestVars,
                 Archive!asarVars, Sockets!wsVars, Framing!frameVars, Choosing!hidVars,
                 Porting!portVars, Requesting!netVars, Downloading!downloadVars>>

ServicesInit ==
    /\ part \in Parts
    /\ Init
    /\ Permissions!Init /\ Debugging!Init /\ Logging!Init /\ Lookup!Init
    /\ Streaming!Init /\ Quitting!Init /\ Looping!Init
    /\ Proxying!Init /\ (part # "web_request" => kind = "plain")
    /\ Archive!Init /\ Sockets!Init /\ Framing!Init /\ Choosing!Init
    /\ Porting!Init /\ Requesting!Init /\ Downloading!Init

ServicesNext ==
    /\ UNCHANGED part
    /\ IF part = "office" THEN Next ELSE UNCHANGED vars
    /\ IF part = "permissions" THEN Permissions!Next ELSE Permissions!NoStep
    /\ IF part = "debugger" THEN Debugging!Next ELSE Debugging!NoStep
    /\ IF part = "net_log" THEN Logging!Next ELSE Logging!NoStep
    /\ IF part = "lookup" THEN Lookup!Next ELSE Lookup!NoStep
    /\ IF part = "stream" THEN Streaming!Next ELSE Streaming!NoStep
    /\ IF part = "quit" THEN Quitting!Next ELSE Quitting!NoStep
    /\ IF part = "node" THEN Looping!Next ELSE Looping!NoStep
    /\ IF part = "web_request" THEN Proxying!Next ELSE Proxying!NoStep
    /\ IF part = "asar" THEN Archive!Next ELSE Archive!NoStep
    /\ IF part = "web_socket" THEN Sockets!Next ELSE Sockets!NoStep
    /\ IF part = "frame" THEN Framing!Next ELSE Framing!NoStep
    /\ IF part = "hid" THEN Choosing!Next ELSE Choosing!NoStep
    /\ IF part = "port" THEN Porting!Next ELSE Porting!NoStep
    /\ IF part = "net_request" THEN Requesting!Next ELSE Requesting!NoStep
    /\ IF part = "download" THEN Downloading!Next ELSE Downloading!NoStep

\* The fairness of each part; a part that is not explored has no fair action
\* enabled in its initial state.
ServicesSpec ==
    /\ ServicesInit /\ [][ServicesNext]_serviceVars
    /\ Fairness
    /\ Permissions!Fairness /\ Debugging!Fairness /\ Logging!Fairness /\ Lookup!Fairness
    /\ Streaming!Fairness /\ Quitting!Fairness /\ Looping!Fairness /\ Proxying!Fairness
    /\ Archive!Fairness /\ Sockets!Fairness /\ Framing!Fairness /\ Choosing!Fairness
    /\ Porting!Fairness /\ Requesting!Fairness /\ Downloading!Fairness
-----------------------------------------------------------------------------
\* The type invariants of the parts.  (The properties look at the part that is
\* explored; the others are in their initial states.)
TypeOK ==
    CASE part = "permissions" -> Permissions!TypeOK
      [] part = "debugger"    -> Debugging!TypeOK
      [] part = "net_log"     -> Logging!TypeOK
      [] part = "lookup"      -> Lookup!TypeOK
      [] part = "stream"      -> Streaming!TypeOK
      [] part = "quit"        -> Quitting!TypeOK
      [] part = "node"        -> Looping!TypeOK
      [] part = "web_request" -> Proxying!TypeOK
      [] part = "asar"        -> Archive!TypeOK
      [] part = "web_socket"  -> Sockets!TypeOK
      [] part = "frame"       -> Framing!TypeOK
      [] part = "hid"         -> Choosing!TypeOK
      [] part = "port"        -> Porting!TypeOK
      [] part = "net_request" -> Requesting!TypeOK
      [] part = "download"    -> Downloading!TypeOK
      [] OTHER             -> TRUE

\* What has become of the requests of the part.
PartStatus ==
    CASE part = "permissions" -> Permissions!Status
      [] part = "debugger"    -> Debugging!Status
      [] part = "net_log"     -> Logging!Status
      [] part = "lookup"      -> Lookup!Status
      [] part = "stream"      -> Streaming!Status
      [] part = "web_request" -> Proxying!Status
      [] part = "asar"        -> Archive!Status
      [] part = "web_socket"  -> Sockets!Status
      [] part = "frame"       -> Framing!Status
      [] part = "hid"         -> Choosing!Status
      [] part = "net_request" -> Requesting!Status
      [] OTHER                -> [r \in {} |-> "new"]
\* The only request of a loader, a handshake or a frame is 1.
AllRequests == {1} \cup Requests \cup Commands \cup Logs \cup Lookups \cup Choosers
RequestStatus ==
    [r \in AllRequests |-> IF r \in DOMAIN PartStatus THEN PartStatus[r] ELSE "new"]
Service == INSTANCE RequestService WITH Requests <- AllRequests, status <- RequestStatus

\* Every service implements RequestService: a promise or callback is settled
\* at most once, after it was made, and what was settled or dropped does not
\* become pending again.  The exception: a net request whose write has failed,
\* which is told of the failure and, while its loader runs on, of another.
RequestsAreAnsweredOnce == Service!Spec

\* What is asked of a service is done in the end: every request is settled, a
\* document that is registered is loaded or its load refused, a quit closes the
\* last window or is cancelled, the events of Node's loop are handled, a message
\* at a started port is emitted, and where a download goes is decided.  The
\* exceptions of the requests: the start of a log, see LogsAreTheirOwn;
\* undefined behaviour; a web request whose network service crashed or made a
\* new loader for a CORS redirect, or that is to start, or to start again, when
\* its factory's last pipe was closed; a WebSocket that was challenged; a HID
\* chooser that lost the device service; and a net request whose body is asked
\* for again while a chunk is written.
Excused ==
    \/ part = "net_log"
    \/ crashed \/ undefined
    \/ recreated \/ network_lost \/ null_used \/ Proxying!Stranded
    \/ auth_required \/ hid_lost \/ hid_undefined \/ Requesting!UploadStalls
SomeArePending == \E status \in {PartStatus} : \E r \in DOMAIN status : status[r] = "pending"
AClient == CHOOSE c \in Clients : TRUE      \* clients are interchangeable
Waits ==
    CASE part = "office"   -> LoadIsRegistered(AClient)
      [] part = "quit"     -> is_quitting
      [] part = "node"     -> uv_events \/ embed_closed
      [] part = "port"     -> \E m \in PortMessages : Porting!Waiting(m)
      [] part = "download" -> Downloading!TargetIsAwaited
      [] OTHER             -> SomeArePending
Concludes ==
    CASE part = "office"   -> LoadIsSettled(AClient)
      [] part = "quit"     -> Quitting!QuitIsOver
      [] part = "node"     -> Looping!EventsAreOver /\ (embed_closed => main_thread = "gone")
      [] part = "port"     -> \A m \in PortMessages : ~Porting!Waiting(m)
      [] part = "download" -> ~Downloading!TargetIsAwaited
      [] OTHER             -> ~SomeArePending \/ Excused
WorkConcludes == Waits ~> Concludes

\* A page's permission request is answered only with what JavaScript or the
\* lack of a handler decided for every permission in it; and the proxies that
\* a lookup finds go to the request it was made for.
AnswersAreDecided ==
    /\ part = "permissions" => Permissions!AnswersAreDecided
    /\ part = "lookup" => Lookup!LookupIsForTheFront

\* The debugger keeps the promise of every command it has sent until the
\* command is answered or the session ends, and a closed session has none.
CommandsAreKept ==
    part = "debugger" => Debugging!CommandsAreKept /\ Debugging!ClosedMeansClosed

\* The promise of a net log is settled by its own log's start and stop.
LogsAreTheirOwn == part = "net_log" => Logging!LogsAreTheirOwn

\* The client of a Node stream gets all of the stream, in order, before it is
\* told that the body is complete; the network service takes the body of a net
\* request for whole only if it is; and its response is whole and in order.
BodyIsComplete ==
    /\ part = "stream" => Streaming!BodyIsComplete
    /\ part = "net_request" => Requesting!NetBodiesAreWhole

\* No window is left when the browser shuts down, and a quit that a window or
\* a listener refused does not shut down by itself.
QuitsAreOrderly ==
    []Quitting!WindowsAreGoneAtShutdown /\ Quitting!CancelledQuitsStayCancelled

\* Node's loop is run or polled by one of the two threads at a time.
OneThreadAtATime == part = "node" => Looping!OneThreadAtATime

\* The headers of a web request are not sent before the listeners that were
\* asked about them have answered.
HeadersWaitForListeners == Proxying!HeadersWaitForListeners

\* What a page is told of its request is in order and ends once, and a
\* WebSocket is connected only after no listener has objected.
PageIsNotConfused ==
    /\ part = "web_request" => Proxying!PageIsNotConfused
    /\ part = "web_socket" => Sockets!SocketsWaitForListeners

\* The bytes of an archive that a page gets are bytes whose hash was compared.
SentBytesAreVerified == part = "asar" => Archive!SentBytesAreVerified

\* The objects that JavaScript has for frames and downloads: the object of a
\* frame follows the frame from host to host, and its pipe does; the object of a
\* download is there as long as the download can go on, and knows where its file
\* goes unless JavaScript set the path when that was decided.  No raw pointer
\* dangles, up to a save dialog that ends after its session.
ObjectsFollowTheirs ==
    /\ part = "frame" => Framing!FramesFollowTheirNode
    /\ part = "download" => Downloading!DownloadsKeepTheirObject

\* A HID chooser shows the devices that are there, and a permission does not
\* outlive the removal of its device; JavaScript, which is told of it before it
\* is done, may still choose the device.
ChoicesAreThere == part = "hid" => Choosing!ChoicesAreThere

\* Messages are emitted in the order they were posted, whichever ports their
\* pipe passes through, and every end of a pipe is in one place.
MessagesArriveInOrder == part = "port" => Porting!MessagesArriveInOrder
===============================================================================
