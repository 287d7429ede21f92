-------------------------------- MODULE NetLog --------------------------------
(***************************************************************************)
(* api/electron_api_net_log.cc: a log is started by opening its file on    *)
(* another sequence and then calling the exporter in the network service,  *)
(* and stopped by a call whose reply owns the exporter.  The reply of the  *)
(* file, the two replies of the service and the loss of its pipe arrive as *)
(* tasks of the UI thread, in between calls of JavaScript.                 *)
(***************************************************************************)
EXTENDS Naturals, Sequences

CONSTANT Logs   \* the calls of StartLogging that find no exporter, 1..n in order

VARIABLES
    net_log_exporter,       \* the log net_log_exporter_ was bound for, or NoLog
    logs,                   \* number of logs so far
    pending_start_promise,  \* the log whose promise pending_start_promise_ holds
    promise_moved,          \* the promise was moved out of pending_start_promise_
    start_result,           \* how the promise of each StartLogging was settled
    stop_result,            \* how the promise of each StopLogging was settled
    opening,                \* files being opened, in order
    starting,               \* number of unanswered Start calls of each exporter
    stopping,               \* exporters that live in the callback of a Stop
    log_files,              \* files each exporter was started with
    too_late,               \* history: files that found no exporter
    overtaken,              \* history: a log lost its exporter before its start was answered
    service_lost,           \* history: a pipe was disconnected
    moved_from              \* a moved-from promise was settled

netLogVars == <<net_log_exporter, logs, pending_start_promise, promise_moved, start_result,
                stop_result, opening, starting, stopping, log_files, too_late, overtaken,
                service_lost, moved_from>>

NoLog == 0

Init ==
    /\ net_log_exporter = NoLog /\ logs = 0
    /\ pending_start_promise = NoLog /\ promise_moved = FALSE
    /\ start_result = [s \in Logs |-> "none"]
    /\ stop_result = [s \in Logs |-> "none"]
    /\ opening = <<>> /\ starting = [s \in Logs |-> 0] /\ stopping = {}
    /\ log_files = [s \in Logs |-> {}]
    /\ too_late = {} /\ overtaken = FALSE /\ service_lost = FALSE /\ moved_from = FALSE

\* Settling the promise in pending_start_promise_; a second time has no
\* effect in V8, and one that was moved out has no context to settle it in.
SettleStart(result) ==
    IF promise_moved THEN moved_from' = TRUE /\ UNCHANGED start_result
    ELSE /\ start_result' = [start_result EXCEPT ![pending_start_promise] =
                                IF @ = "pending" THEN result ELSE @]
         /\ UNCHANGED moved_from
IsBeingStarted(s) ==
    s # NoLog /\ (starting[s] > 0 \/ \E i \in DOMAIN opening : opening[i] = s)
-----------------------------------------------------------------------------
\* A faulty StartLogging that does not test for a log in progress.
StartLoggingAgain ==
    /\ ~moved_from
    /\ logs + 1 \in Logs
    /\ logs' = logs + 1
    /\ net_log_exporter' = logs'
    /\ pending_start_promise' = logs' /\ promise_moved' = FALSE
    /\ start_result' = [start_result EXCEPT ![logs'] = "pending"]
    /\ opening' = Append(opening, logs')
    /\ UNCHANGED <<stop_result, starting, stopping, log_files, too_late, overtaken,
                   service_lost, moved_from>>

StartLogging ==
    /\ ~moved_from
    /\ net_log_exporter = NoLog
    /\ logs + 1 \in Logs
    /\ logs' = logs + 1
    /\ net_log_exporter' = logs'
    /\ pending_start_promise' = logs' /\ promise_moved' = FALSE
    /\ start_result' = [start_result EXCEPT ![logs'] = "pending"]
    /\ opening' = Append(opening, logs')
    /\ UNCHANGED <<stop_result, starting, stopping, log_files, too_late, overtaken,
                   service_lost, moved_from>>

\* StartNetLogAfterCreateFile, which knows neither the log it was posted for ...
FileIsTooLate ==
    /\ ~moved_from /\ opening # <<>>
    /\ net_log_exporter = NoLog
    /\ opening' = Tail(opening)
    /\ too_late' = too_late \cup {Head(opening)}
    /\ UNCHANGED <<net_log_exporter, logs, pending_start_promise, promise_moved, start_result,
                   stop_result, starting, stopping, log_files, overtaken, service_lost,
                   moved_from>>

FileIsInvalid ==
    /\ ~moved_from /\ opening # <<>>
    /\ net_log_exporter # NoLog
    /\ opening' = Tail(opening)
    /\ SettleStart("rejected")
    /\ net_log_exporter' = NoLog
    /\ starting' = [starting EXCEPT ![net_log_exporter] = 0]
    /\ UNCHANGED <<logs, pending_start_promise, promise_moved, stop_result, stopping, log_files,
                   too_late, overtaken, service_lost>>

\* ... nor whether it was started already.
StartNetLogAfterCreateFile ==
    /\ ~moved_from /\ opening # <<>>
    /\ net_log_exporter # NoLog
    /\ opening' = Tail(opening)
    /\ starting' = [starting EXCEPT ![net_log_exporter] = @ + 1]
    /\ log_files' = [log_files EXCEPT ![net_log_exporter] = @ \cup {Head(opening)}]
    /\ UNCHANGED <<net_log_exporter, logs, pending_start_promise, promise_moved, start_result,
                   stop_result, stopping, too_late, overtaken, service_lost, moved_from>>

\* The service replies to a Start; ResolvePromiseWithNetError takes the promise.
NetLogStarted(s, result) ==
    /\ ~moved_from /\ starting[s] > 0
    /\ starting' = [starting EXCEPT ![s] = @ - 1]
    /\ SettleStart(result)
    /\ promise_moved' = TRUE
    /\ UNCHANGED <<net_log_exporter, logs, pending_start_promise, stop_result, opening, stopping,
                   log_files, too_late, overtaken, service_lost>>

\* The exporter is moved into the callback.  Without one, the promise is
\* rejected at once and nothing changes.
StopLogging ==
    /\ ~moved_from
    /\ net_log_exporter # NoLog
    /\ stopping' = stopping \cup {net_log_exporter}
    /\ stop_result' = [stop_result EXCEPT ![net_log_exporter] = "pending"]
    /\ overtaken' = (overtaken \/ IsBeingStarted(net_log_exporter))
    /\ net_log_exporter' = NoLog
    /\ UNCHANGED <<logs, pending_start_promise, promise_moved, start_result, opening, starting,
                   log_files, too_late, service_lost, moved_from>>

\* The service replies to a Stop, possibly with an error and before the reply
\* to a Start; the exporter goes with the callback, and its replies with it.
Stopped(s, result) ==
    /\ ~moved_from /\ s \in stopping
    /\ stopping' = stopping \ {s}
    /\ stop_result' = [stop_result EXCEPT ![s] = result]
    /\ starting' = [starting EXCEPT ![s] = 0]
    /\ UNCHANGED <<net_log_exporter, logs, pending_start_promise, promise_moved, start_result,
                   opening, log_files, too_late, overtaken, service_lost, moved_from>>

\* The pipe of an exporter is closed by the service.  The handler resets
\* net_log_exporter_, whichever log that is, and rejects the promise of
\* StartLogging; the promise of StopLogging is destroyed with the callback.
OnConnectionError(s) ==
    /\ ~moved_from
    /\ s = net_log_exporter \/ s \in stopping
    /\ net_log_exporter' = NoLog
    /\ SettleStart("rejected")
    /\ starting' = [t \in Logs |-> IF t \in {s, net_log_exporter} THEN 0 ELSE starting[t]]
    /\ stopping' = stopping \ {s}
    /\ stop_result' = [stop_result EXCEPT ![s] = IF s \in stopping THEN "dropped" ELSE @]
    /\ service_lost' = TRUE
    /\ overtaken' = (overtaken \/ IsBeingStarted(net_log_exporter))
    /\ UNCHANGED <<logs, pending_start_promise, promise_moved, opening, log_files, too_late>>
-----------------------------------------------------------------------------
FileOpened == FileIsTooLate \/ FileIsInvalid \/ StartNetLogAfterCreateFile
ServiceReplies == \E s \in Logs, result \in {"resolved", "rejected"} :
                     NetLogStarted(s, result) \/ Stopped(s, result)

Next ==
    \/ StartLogging \/ StopLogging
    \/ FileOpened \/ ServiceReplies
    \/ \E s \in Logs : OnConnectionError(s)

\* Files are opened, and the service replies.
Fairness == WF_netLogVars(FileOpened) /\ WF_netLogVars(ServiceReplies)
NoStep == UNCHANGED netLogVars
Spec == Init /\ [][Next]_netLogVars /\ Fairness
-----------------------------------------------------------------------------
\* Types.
TypeOK ==
    /\ {net_log_exporter, logs, pending_start_promise} \subseteq Logs \cup {NoLog}
    /\ start_result \in [Logs -> {"none", "pending", "resolved", "rejected"}]
    /\ stop_result \in [Logs -> {"none", "pending", "resolved", "rejected", "dropped"}]
    /\ starting \in [Logs -> Nat]
    /\ stopping \subseteq Logs /\ log_files \in [Logs -> SUBSET Logs]

\* What has become of the promise of each StartLogging, for RequestService: it
\* is lost if another one takes its place in pending_start_promise_.
Status == [s \in Logs |->
    CASE start_result[s] \in {"resolved", "rejected"}               -> "answered"
      [] start_result[s] = "pending" /\ s = pending_start_promise   -> "pending"
      [] start_result[s] = "pending" /\ s # pending_start_promise   -> "dropped"
      [] OTHER                                                      -> "new"]

\* A log is written to the file it was started with, and every reply finds the
\* promise it is for, as the two DCHECKs of pending_start_promise_ want it.
\* The exceptions: a log stopped or disconnected before its start was
\* answered, whose file or reply is then taken for that of the next log, and a
\* service that is lost while logging.
LogsAreTheirOwn ==
    /\ overtaken \/ \A s \in Logs : log_files[s] \subseteq {s}
    /\ moved_from => overtaken \/ service_lost

\* StartNetLogAfterCreateFile: "Theoretically the mojo pipe could have been
\* closed by the time we get here via the connection error handler. If so, the
\* promise has already been resolved."
LatePromisesAreSettled == \A s \in too_late : start_result[s] # "pending"
===============================================================================
