------------------------------ MODULE NetRequest ------------------------------
(***************************************************************************)
(* lib/browser/api/net.ts and api/electron_api_url_loader.cc: net.request  *)
(* of the main process.  ClientRequest writes a chunked body through       *)
(* ChunkedBodyStream to JSChunkedDataPipeGetter, which the network service *)
(* reads from; SimpleURLLoaderWrapper passes the response to               *)
(* IncomingMessage, a Node stream with back-pressure.  The network service *)
(* may ask for the body again (a redirect that keeps the method, a         *)
(* challenge, a connection that was lost), fail, or respond before the     *)
(* body is sent.  Node's streams call _write and _read one at a time, and  *)
(* are external, as is the network service.  Progress and headers are left *)
(* out, and so are bodies that are not chunked, which are sent with the    *)
(* request.                                                                *)
(***************************************************************************)
EXTENDS Integers, Sequences, SequencesExt

CONSTANTS MaxUp,        \* bound: chunks that JavaScript writes
          MaxDown,      \* bound: chunks of the response
          MaxReads      \* bound: how often the network service asks for the body

VARIABLES
    chunks,         \* chunks that were given to _write
    writer,         \* "idle", "first" (_pendingChunk) or "later": how the chunk that is
                    \* being written was given; "stuck" if its callback is not run
    ended,          \* end() was called and _final has run
    downstream,     \* _downstream of ChunkedBodyStream
    size_callback,  \* size_callback_ is set
    data_producer,  \* number of the pipe of data_producer_, or NoPipe
    is_writing,     \* is_writing_
    bytes_written,  \* bytes_written_, in chunks
    finished,       \* Finished() has run: body_func_ and receiver_ are reset
    getter_pipe,    \* messages to the getter: GetSizeCall, or the pipe of StartReading
    upload,         \* external: "none", "reading", "whole" or "failed"
    upload_pipe,    \* external: number of the pipe the network service reads
    upload_size,    \* external: answer to GetSize, or NoSize
    uploaded,       \* external: chunks it has read
    url_loader,     \* loader_: "none", "running", "null"
    response,       \* _response: "none", "open", "destroyed"
    should_push,    \* _shouldPush
    data,           \* _data
    resume,         \* _resume is set
    resuming,       \* calls of resume() that have not returned
    net_waits,      \* external: the loader waits for resume()
    loaded,         \* external: chunks of the response that were sent
    consumed,       \* external: what was pushed to the readers of the response
    aborted,        \* _aborted
    outcome,        \* what JavaScript was told: "none", "abort", "error", or "again" if it
                    \* was told an error after that
    silent,         \* a challenge was lost, and JavaScript was told nothing before
    uncaught        \* the error of a write was emitted by the body, which has no listener

uploadVars == <<chunks, writer, ended, downstream, size_callback, data_producer, is_writing,
                bytes_written, finished, getter_pipe>>
networkVars == <<upload, upload_pipe, upload_size, uploaded>>
downloadVars == <<response, should_push, data, resume, resuming, net_waits, loaded,
                  consumed>>
netVars == <<uploadVars, networkVars, downloadVars, url_loader, aborted, outcome, silent,
             uncaught>>

NoPipe == 0
NoSize == -1
GetSizeCall == 0
End == 0            \* null, the end of the response
Range1(n) == [i \in 1..n |-> i]

Init ==
    /\ chunks = 0 /\ writer = "idle" /\ ended = FALSE /\ downstream = FALSE
    /\ size_callback = FALSE /\ data_producer = NoPipe /\ is_writing = FALSE
    /\ bytes_written = 0 /\ finished = FALSE /\ getter_pipe = <<>>
    /\ upload = "none" /\ upload_pipe = NoPipe /\ upload_size = NoSize /\ uploaded = <<>>
    /\ url_loader = "none"
    /\ response = "none" /\ should_push = FALSE /\ data = <<>> /\ resume = FALSE
    /\ resuming = 0 /\ net_waits = FALSE /\ loaded = 0 /\ consumed = <<>>
    /\ aborted = FALSE /\ outcome = "none" /\ silent = FALSE /\ uncaught = FALSE

\* JavaScript runs one call at a time.
Idle == resuming = 0
Destroyed == ended \/ outcome # "none"
-----------------------------------------------------------------------------
(* The end of the request. *)

\* Cancel, and the end of OnComplete: the network service drops the request.
DropLoader == url_loader' = "null" /\ upload' = "failed" /\ upload_pipe' = NoPipe
              /\ UNCHANGED <<upload_size, uploaded>>

\* _die: the response is destroyed, and the loader cancelled.
Die ==
    /\ response' = IF response = "open" THEN "destroyed" ELSE response
    /\ IF url_loader = "running" THEN DropLoader ELSE UNCHANGED <<url_loader, networkVars>>
    /\ UNCHANGED <<should_push, data, resume, resuming, net_waits, loaded, consumed>>

\* A faulty abort that leaves the loader running.
AbortKeepsLoader ==
    /\ Idle /\ ~aborted /\ aborted' = TRUE
    /\ outcome' = IF outcome = "none" THEN "abort" ELSE outcome
    /\ UNCHANGED <<uploadVars, networkVars, downloadVars, url_loader, silent, uncaught>>

\* abort, also before the request is started or after it has failed or ended:
\* the event is emitted the first time, whatever JavaScript was told.
Abort ==
    /\ Idle /\ ~aborted /\ aborted' = TRUE /\ Die
    /\ outcome' = IF outcome = "none" THEN "abort" ELSE outcome
    /\ UNCHANGED <<uploadVars, silent, uncaught>>

\* OnComplete(false), or a redirect that the policy or JavaScript does not
\* follow.  A stream that is destroyed emits its error all the same.
OnError ==
    /\ Idle /\ url_loader = "running" /\ Die
    /\ outcome' = IF outcome = "none" THEN "error" ELSE "again"
    /\ UNCHANGED <<uploadVars, aborted, silent, uncaught>>

\* OnAuthRequired: the network service gives up the challenge, and Cancel is
\* called without a word to JavaScript.
ChallengeLost ==
    /\ Idle /\ url_loader = "running" /\ response = "none"
    /\ DropLoader /\ silent' = (outcome = "none")
    /\ UNCHANGED <<uploadVars, downloadVars, aborted, outcome, uncaught>>
-----------------------------------------------------------------------------
(* The body of the request. *)

\* Finished: the getter is done with.
Finished ==
    /\ finished' = TRUE /\ data_producer' = NoPipe /\ size_callback' = FALSE
    /\ getter_pipe' = <<>>

\* What a rejected write does: the callback of the chunk gets the error, which
\* ends ClientRequest, and then the body, which has no listener, emits it.
\* Only for the first chunk is it looked at whether the request was aborted.
WriteFails(how) ==
    IF how = "first" /\ aborted
    THEN writer' = "stuck" /\ UNCHANGED <<outcome, uncaught>>
    ELSE /\ writer' = "stuck" /\ uncaught' = TRUE
         /\ outcome' = IF Destroyed THEN outcome ELSE "error"

\* WriteChunk of the getter, called by the body for a chunk.
WriteChunk(how) ==
    IF is_writing \/ ~size_callback
    THEN WriteFails(how) /\ UNCHANGED <<is_writing, bytes_written>>
    ELSE /\ is_writing' = TRUE /\ bytes_written' = bytes_written + 1
         /\ writer' = how /\ UNCHANGED <<outcome, uncaught>>

\* _write of ClientRequest and of the body; the first one starts the request.
Write ==
    /\ Idle /\ ~Destroyed /\ writer = "idle" /\ chunks < MaxUp
    /\ chunks' = chunks + 1
    /\ IF downstream
       THEN WriteChunk("later") /\ UNCHANGED <<url_loader, getter_pipe, upload, upload_pipe>>
       ELSE /\ writer' = "first"
            /\ url_loader' = "running" /\ getter_pipe' = <<GetSizeCall, 1>>
            /\ upload' = "reading" /\ upload_pipe' = 1
            /\ UNCHANGED <<is_writing, bytes_written, outcome, uncaught>>
    /\ UNCHANGED <<ended, downstream, size_callback, data_producer, finished, upload_size,
                   uploaded, downloadVars, aborted, silent>>

\* _final of ClientRequest and of the body, and Done.  Without a chunk the
\* body has no downstream: _final throws, and the request is never made.
Final ==
    /\ Idle /\ ~Destroyed /\ writer = "idle" /\ downstream
    /\ ended' = TRUE
    /\ IF size_callback
       THEN Finished /\ upload_size' = (IF url_loader = "running" THEN bytes_written
                                        ELSE upload_size)
       ELSE UNCHANGED <<finished, data_producer, size_callback, getter_pipe, upload_size>>
    /\ UNCHANGED <<chunks, writer, downstream, is_writing, bytes_written, upload, upload_pipe,
                   uploaded, downloadVars, url_loader, aborted, outcome, silent, uncaught>>

Gets == Idle /\ ~finished /\ getter_pipe # <<>> /\ getter_pipe' = Tail(getter_pipe)

GetSize ==
    /\ Gets /\ Head(getter_pipe) = GetSizeCall
    /\ size_callback' = TRUE
    /\ UNCHANGED <<chunks, writer, ended, downstream, data_producer, is_writing, bytes_written,
                   finished, networkVars, downloadVars, url_loader, aborted, outcome, silent,
                   uncaught>>

\* A faulty StartReading that counts the body anew.
StartReadingAnew ==
    /\ Gets /\ Head(getter_pipe) # GetSizeCall
    /\ data_producer' = Head(getter_pipe) /\ downstream' = TRUE
    /\ bytes_written' = IF ~downstream /\ writer = "first" THEN 1 ELSE 0
    /\ is_writing' = (is_writing \/ (~downstream /\ writer = "first"))
    /\ writer' = IF downstream /\ is_writing THEN "stuck" ELSE writer
    /\ UNCHANGED <<chunks, ended, size_callback, finished, networkVars, downloadVars,
                   url_loader, aborted, outcome, silent, uncaught>>

\* StartReading of the getter and startReading of the body.  The second time
\* the body throws, but the getter has the new pipe; a write to the old one
\* is given up with its promise.
StartReading ==
    /\ Gets /\ Head(getter_pipe) # GetSizeCall
    /\ data_producer' = Head(getter_pipe)
    /\ downstream' = TRUE
    /\ IF ~downstream /\ writer = "first" THEN WriteChunk("first")
       ELSE /\ writer' = IF is_writing THEN "stuck" ELSE writer
            /\ UNCHANGED <<is_writing, bytes_written, outcome, uncaught>>
    /\ UNCHANGED <<chunks, ended, size_callback, finished, networkVars, downloadVars,
                   url_loader, aborted, silent>>

\* OnWriteChunkComplete: the chunk is in the pipe, or the other end is closed.
OnWriteChunkComplete ==
    /\ Idle /\ is_writing /\ writer \in {"first", "later"}
    /\ is_writing' = FALSE
    /\ IF data_producer = upload_pipe /\ upload = "reading"
       THEN /\ writer' = "idle" /\ uploaded' = Append(uploaded, chunks)
            /\ UNCHANGED <<finished, data_producer, size_callback, getter_pipe, outcome, uncaught>>
       ELSE WriteFails(writer) /\ Finished /\ UNCHANGED uploaded
    /\ UNCHANGED <<chunks, ended, downstream, bytes_written, upload, upload_pipe, upload_size,
                   downloadVars, url_loader, aborted, silent>>
-----------------------------------------------------------------------------
(* External: the network service reads the body. *)

\* It has all of it if it has as much as it was told.  If the getter is gone
\* before, or what it has is not what it was told, the request fails.
UploadEnds ==
    /\ upload = "reading" /\ finished
    /\ upload' = IF upload_size = Len(uploaded) THEN "whole" ELSE "failed"
    /\ UNCHANGED <<uploadVars, upload_pipe, upload_size, uploaded, downloadVars, url_loader,
                   aborted, outcome, silent, uncaught>>

\* It needs the body again.
ReadsAgain ==
    /\ Idle /\ url_loader = "running" /\ response = "none" /\ upload \in {"reading", "whole"}
    /\ upload_pipe < MaxReads
    /\ IF finished THEN upload' = "failed" /\ UNCHANGED <<upload_pipe, uploaded, getter_pipe>>
       ELSE /\ upload_pipe' = upload_pipe + 1 /\ uploaded' = <<>> /\ upload' = "reading"
            /\ getter_pipe' = Append(getter_pipe, upload_pipe + 1)
    /\ UNCHANGED <<chunks, writer, ended, downstream, size_callback, data_producer, is_writing,
                   bytes_written, finished, upload_size, downloadVars, url_loader, aborted,
                   outcome, silent, uncaught>>
-----------------------------------------------------------------------------
(* The response. *)

OnResponseStarted ==
    /\ Idle /\ url_loader = "running" /\ upload # "failed" /\ response = "none"
    /\ response' = "open"
    /\ UNCHANGED <<uploadVars, networkVars, should_push, data, resume, resuming, net_waits, loaded,
                   consumed, url_loader, aborted, outcome, silent, uncaught>>

\* _pushInternalData, when queue is what is to be pushed and has_resume says
\* whether there is a callback, waits whether the loader waits for it: k
\* items are pushed, until push returns false.
\* Then resume() is called, unless the reader is to wait.
PushInternalData(push, queue, has_resume, waits) ==
    \E k \in 0..Len(queue), more \in BOOLEAN :
        /\ IF push THEN k < Len(queue) => ~more ELSE k = 0 /\ ~more
        /\ push /\ queue # <<>> => k > 0
        /\ push /\ queue = <<>> => more
        /\ consumed' = consumed \o SubSeq(queue, 1, k)
        /\ data' = SubSeq(queue, k + 1, Len(queue))
        /\ should_push' = more
        /\ resume' = (has_resume /\ ~more)
        /\ resuming' = IF has_resume /\ more THEN resuming + 1 ELSE resuming
        /\ net_waits' = (waits /\ ~(has_resume /\ more))

\* OnDataReceived and _storeInternalData; it can come from within resume().
OnDataReceived ==
    /\ url_loader = "running" /\ response = "open" /\ ~net_waits /\ loaded < MaxDown
    /\ loaded' = loaded + 1
    /\ PushInternalData(should_push, Append(data, loaded + 1), TRUE, TRUE)
    /\ UNCHANGED <<uploadVars, networkVars, response, url_loader, aborted, outcome, silent,
                   uncaught>>

\* A faulty _pushInternalData that forgets the callback after it has called it.
ResumeReturnsForgets ==
    /\ resuming > 0 /\ resuming' = resuming - 1 /\ resume' = FALSE
    /\ UNCHANGED <<uploadVars, networkVars, response, should_push, data, net_waits, loaded, consumed,
                   url_loader, aborted, outcome, silent, uncaught>>

ResumeReturns ==
    /\ resuming > 0 /\ resuming' = resuming - 1
    /\ UNCHANGED <<uploadVars, networkVars, response, should_push, data, resume, net_waits, loaded,
                   consumed, url_loader, aborted, outcome, silent, uncaught>>

\* _read: the reader wants more.
Read ==
    /\ Idle /\ response = "open" /\ ~should_push
    /\ PushInternalData(TRUE, data, resume, net_waits)
    /\ UNCHANGED <<uploadVars, networkVars, response, loaded, url_loader, aborted, outcome,
                   silent, uncaught>>

\* OnComplete(true); the loader completes once its data were taken.
OnComplete ==
    /\ Idle /\ url_loader = "running" /\ response = "open" /\ loaded = MaxDown /\ ~net_waits
    /\ PushInternalData(should_push, Append(data, End), FALSE, FALSE)
    /\ DropLoader
    /\ UNCHANGED <<uploadVars, response, loaded, aborted, outcome, silent, uncaught>>
-----------------------------------------------------------------------------
Getter == GetSize \/ StartReading \/ OnWriteChunkComplete \/ UploadEnds
Fails == upload = "failed" /\ response = "none" /\ OnError
Responds == upload = "whole" /\ OnResponseStarted
Loader == OnDataReceived \/ ResumeReturns \/ OnComplete

Next ==
    \/ Write \/ Final \/ Abort \/ Read
    \/ Getter \/ Loader
    \/ ReadsAgain \/ OnResponseStarted \/ OnError \/ ChallengeLost

\* The getter's messages are received and its writes end; the network service
\* responds to a whole body, or reports that it failed, and sends the rest of a
\* response; the reader reads, and the writer ends the body.
Fairness ==
    /\ WF_netVars(Getter) /\ WF_netVars(Fails) /\ WF_netVars(Responds) /\ WF_netVars(Loader)
    /\ WF_netVars(Read) /\ WF_netVars(Final)
NoStep == UNCHANGED netVars
Spec == Init /\ [][Next]_netVars /\ Fairness
-----------------------------------------------------------------------------
\* Types.
TypeOK ==
    /\ writer \in {"idle", "first", "later", "stuck"}
    /\ {ended, downstream, size_callback, is_writing, finished, should_push, resume, net_waits,
        aborted, silent, uncaught} \subseteq BOOLEAN
    /\ data_producer \in 0..MaxReads /\ upload_pipe \in 0..MaxReads
    /\ upload \in {"none", "reading", "whole", "failed"}
    /\ url_loader \in {"none", "running", "null"}
    /\ response \in {"none", "open", "destroyed"}
    /\ outcome \in {"none", "abort", "error", "again"}

\* The request, for RequestService: JavaScript gets the whole response, or an
\* event; that it is told an error or the end of the response after an error, or
\* an error after its own abort, is no state of a request.  The exception:
\* a write that failed.  ClientRequest emits its error, which is also thrown,
\* since the body has no listener; but the loader goes on, and its error or the
\* response comes after it.
EndIsRead == consumed # <<>> /\ Last(consumed) = End
IsTold == outcome # "none" \/ EndIsRead
TellsAgain == outcome = "again" \/ (outcome = "error" /\ EndIsRead)
Status == [r \in {1} |->
    IF url_loader = "none" THEN "new"
    ELSE IF TellsAgain /\ ~uncaught THEN "told again"
    ELSE IF silent THEN "dropped"
    ELSE IF IsTold THEN "answered"
    ELSE "pending"]

\* The exception to its answer: the network service asked for the body again
\* while a chunk was written, and the body waits for the write for ever.
UploadStalls == is_writing /\ writer = "stuck"

\* The network service takes a body for whole only if it is all that
\* JavaScript wrote, also when it asked for the body again while it was
\* written: then the getter's pipe has only the rest, but bytes_written_ counts
\* all.  And the readers of the response get its chunks in order and its end
\* last, however they wait and whether or not resume() returns with more.
NetBodiesAreWhole ==
    /\ upload = "whole" => uploaded = Range1(chunks) /\ ended
    /\ IsPrefix(consumed, Append(Range1(MaxDown), End))
==============================================================================
