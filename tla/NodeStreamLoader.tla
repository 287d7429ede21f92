--------------------------- MODULE NodeStreamLoader ---------------------------
(***************************************************************************)
(* net/node_stream_loader.cc: the body of a response that a protocol       *)
(* handler gives as a Node stream is read chunk by chunk and written to a  *)
(* data pipe.  The loader is driven by the stream's events, by the end of  *)
(* each write and by the loss of its client.  A read() called from the     *)
(* message loop runs the ticks Node has queued before it returns, so the   *)
(* events may come while the loader is reading.                            *)
(***************************************************************************)
EXTENDS Naturals, Sequences

CONSTANT MaxChunks      \* bound: chunks the stream produces

VARIABLES
    stream,         \* external: "open", "ending" (end pushed, not read), "ended", "failed"
    buffered,       \* external: chunks the stream holds
    produced,       \* external: number of chunks so far
    ticks,          \* external: events the stream has queued
    flags,          \* those of readable_, is_reading_, is_writing_, ended_ and
                    \* has_read_waiting_ that are set
    end_result,     \* result_
    reading,        \* what the read() on the stack will return, or NoRead
    from_loop,      \* that read() was called from the message loop
    writing,        \* chunks being written
    body,           \* chunks the client was given
    completed,      \* what OnComplete reported, just before the deletion, or "no";
                    \* "new" before the loader is constructed
    client_gone     \* history: the client has closed a pipe

emitterVars == <<stream, buffered, produced>>
readVars == <<reading, from_loop>>
streamVars == <<emitterVars, ticks, flags, end_result, readVars, writing, body, completed,
                client_gone>>

NoRead == <<0>>
Flags == {"readable", "is_reading", "is_writing", "ended", "has_read_waiting"}

Init ==
    /\ stream = "open" /\ buffered = <<>> /\ produced = 0 /\ ticks = {}
    /\ flags = {} /\ end_result = "OK"
    /\ reading = NoRead /\ from_loop = FALSE /\ writing = <<>>
    /\ body = <<>> /\ completed = "new" /\ client_gone = FALSE

Alive == completed = "no"

\* JavaScript runs: in the message loop, or in the ticks a read() runs.
Running == Alive /\ (reading # NoRead => from_loop)
-----------------------------------------------------------------------------
(* External: the Readable stream. *)

Push ==
    /\ Running /\ stream = "open" /\ produced < MaxChunks
    /\ produced' = produced + 1
    /\ buffered' = Append(buffered, produced')
    /\ ticks' = ticks \cup {"readable"}
    /\ UNCHANGED <<stream, flags, end_result, readVars, writing, body, completed, client_gone>>

PushEnd ==
    /\ Running /\ stream = "open"
    /\ stream' = "ending"
    /\ ticks' = ticks \cup {"readable"}
    /\ UNCHANGED <<buffered, produced, flags, end_result, readVars, writing, body, completed,
                   client_gone>>

Fail ==
    /\ Running /\ stream \in {"open", "ending"}
    /\ stream' = "failed"
    /\ ticks' = {"error"}
    /\ UNCHANGED <<buffered, produced, flags, end_result, readVars, writing, body, completed,
                   client_gone>>

\* A queued "readable" is not emitted if the data has been read meanwhile.
SkipReadable ==
    /\ Running /\ "readable" \in ticks
    /\ buffered = <<>> /\ stream = "open"
    /\ ticks' = ticks \ {"readable"}
    /\ UNCHANGED <<emitterVars, flags, end_result, readVars, writing, body, completed, client_gone>>

\* read() takes all there is, and queues "end" if that was the last of it.
\* left: the ticks still queued.
Read(left) ==
    /\ reading' = buffered
    /\ buffered' = <<>>
    /\ stream' = IF stream = "ending" THEN "ended" ELSE stream
    /\ ticks' = IF stream = "ending" THEN left \cup {"end"} ELSE left
    /\ UNCHANGED produced
-----------------------------------------------------------------------------
(* The loader. *)

\* The constructor: Start.  If no data pipe can be made, that is all.
Start ==
    /\ completed = "new"
    /\ completed' \in {"no", "NO_PIPE"}
    /\ UNCHANGED <<emitterVars, ticks, flags, end_result, readVars, writing, body, client_gone>>

\* The event "readable" when the loader is neither readable nor reading:
\* ReadMore.  It is called from JavaScript, so its read() runs no ticks.
NotifyReadableReads ==
    /\ Running /\ "readable" \in ticks
    /\ buffered # <<>> \/ stream # "open"
    /\ flags \cap {"readable", "is_reading"} = {}
    /\ flags' = flags \cup {"is_reading"}
    /\ from_loop' = FALSE
    /\ Read(ticks \ {"readable"})
    /\ UNCHANGED <<end_result, writing, body, completed, client_gone>>

\* A faulty NotifyReadable that forgets the event while reading.
NotifyReadableForgets ==
    /\ Running /\ "readable" \in ticks
    /\ buffered # <<>> \/ stream # "open"
    /\ flags \cap {"readable", "is_reading"} # {}
    /\ flags' = flags \cup {"readable"}
    /\ ticks' = ticks \ {"readable"}
    /\ UNCHANGED <<emitterVars, end_result, readVars, writing, body, completed, client_gone>>

\* Otherwise the event is noted: by readable_, which DidWrite tests, and by
\* has_read_waiting_, which the read() on the stack is followed by.
NotifyReadable ==
    /\ Running /\ "readable" \in ticks
    /\ buffered # <<>> \/ stream # "open"
    /\ flags \cap {"readable", "is_reading"} # {}
    /\ flags' = flags \cup {"readable"}
                \cup (IF {"readable", "is_reading"} \subseteq flags THEN {"has_read_waiting"}
                      ELSE {})
    /\ ticks' = ticks \ {"readable"}
    /\ UNCHANGED <<emitterVars, end_result, readVars, writing, body, completed, client_gone>>

\* NotifyComplete waits for the read or the write, or deletes the loader.
NotifyComplete(error) ==
    /\ IF flags \cap {"is_reading", "is_writing"} # {}
       THEN /\ flags' = flags \cup {"ended"}
            /\ end_result' = error
            /\ UNCHANGED completed
       ELSE completed' = error /\ UNCHANGED <<flags, end_result>>

\* The events "end" and "error".
OnEnd(event, error) ==
    /\ Running /\ event \in ticks
    /\ ticks' = ticks \ {event}
    /\ NotifyComplete(error)
    /\ UNCHANGED <<emitterVars, readVars, writing, body, client_gone>>

\* The client closes the pipe of the loader.
OnDisconnect ==
    /\ Alive /\ reading = NoRead /\ ticks = {}
    /\ ~client_gone /\ client_gone' = TRUE
    /\ NotifyComplete("FAILED")
    /\ UNCHANGED <<emitterVars, ticks, readVars, writing, body>>

\* The rest of ReadMore when read() returns a buffer: write it.
ReadReturnsBuffer ==
    /\ Alive /\ reading \notin {NoRead, <<>>}
    /\ from_loop => ticks = {}
    /\ writing' = reading /\ reading' = NoRead
    /\ flags' = (flags \ {"is_reading"}) \cup {"is_writing"}
                \cup (IF from_loop THEN {} ELSE {"readable"})
    /\ UNCHANGED <<emitterVars, ticks, end_result, from_loop, body, completed, client_gone>>

\* When it returns nothing: read again if an event came meanwhile, and
\* otherwise wait for one, or complete if that has come.
ReadReturnsNothing ==
    /\ Alive /\ reading = <<>>
    /\ from_loop => ticks = {}
    /\ IF "has_read_waiting" \in flags
       THEN /\ flags' = flags \ {"has_read_waiting"}
            /\ Read(ticks)
            /\ UNCHANGED completed
       ELSE /\ flags' = (flags \ {"is_reading", "readable"})
                        \cup (IF from_loop THEN {} ELSE {"readable"})
            /\ reading' = NoRead
            /\ completed' = IF "ended" \in flags THEN end_result ELSE completed
            /\ UNCHANGED <<emitterVars, ticks>>
    /\ UNCHANGED <<end_result, from_loop, writing, body, client_gone>>

\* A faulty DidWrite that completes without reading the rest.
DidWriteCompletes ==
    /\ Alive /\ writing # <<>> /\ reading = NoRead /\ ticks = {}
    /\ body' = body \o writing /\ writing' = <<>>
    /\ completed' = end_result
    /\ UNCHANGED <<emitterVars, ticks, flags, end_result, readVars, client_gone>>

\* A write that is done: complete if told to, or read on.
DidWrite ==
    /\ Alive /\ writing # <<>> /\ reading = NoRead /\ ticks = {}
    /\ body' = body \o writing /\ writing' = <<>>
    /\ IF "ended" \in flags
       THEN /\ completed' = end_result
            /\ flags' = flags \ {"is_writing"}
            /\ UNCHANGED <<emitterVars, ticks, readVars>>
       ELSE IF "readable" \in flags
       THEN /\ flags' = (flags \ {"is_writing"}) \cup {"is_reading"}
            /\ from_loop' = TRUE
            /\ Read(ticks)
            /\ UNCHANGED completed
       ELSE /\ completed' = "FAILED"
            /\ flags' = flags \ {"is_writing"}
            /\ UNCHANGED <<emitterVars, ticks, readVars>>
    /\ UNCHANGED <<end_result, client_gone>>

\* A write that failed: the client has closed the data pipe.
DidNotWrite ==
    /\ Alive /\ writing # <<>> /\ reading = NoRead /\ ticks = {}
    /\ writing' = <<>> /\ client_gone' = TRUE
    /\ flags' = flags \ {"is_writing"}
    /\ completed' = IF "ended" \in flags THEN end_result ELSE "FAILED"
    /\ UNCHANGED <<emitterVars, ticks, end_result, readVars, body>>
-----------------------------------------------------------------------------
Emit == SkipReadable \/ NotifyReadableReads \/ NotifyReadable \/ OnEnd("end", "OK")
        \/ OnEnd("error", "FAILED")
Work == Emit \/ ReadReturnsBuffer \/ ReadReturnsNothing \/ DidWrite \/ DidNotWrite

Next == Start \/ Push \/ PushEnd \/ Fail \/ OnDisconnect \/ Work

\* Ticks run, calls return and writes end; the stream ends or fails.
Fairness == WF_streamVars(Work) /\ WF_streamVars(PushEnd)
NoStep == UNCHANGED streamVars
Spec == Init /\ [][Next]_streamVars /\ Fairness
-----------------------------------------------------------------------------
\* Types.
TypeOK ==
    /\ stream \in {"open", "ending", "ended", "failed"}
    /\ ticks \subseteq {"readable", "end", "error"} /\ flags \subseteq Flags
    /\ produced \in 0..MaxChunks
    /\ end_result \in {"OK", "FAILED"} /\ completed \in {"new", "no", "OK", "FAILED", "NO_PIPE"}

\* The one request of the loader, for RequestService.
Status == [r \in {1} |->
    IF completed = "new" THEN "new" ELSE IF Alive THEN "pending" ELSE "answered"]

\* A response that completes with net::OK has given its client all chunks of
\* the stream, in order, whatever the interleaving of the stream's events with
\* reads and writes; and it fails only if the stream, its client or the pipe
\* did.  A client that is gone does not care.
BodyIsComplete ==
    /\ \A i \in DOMAIN body : body[i] = i
    /\ completed = "OK" => client_gone \/ (Len(body) = produced /\ stream = "ended")
    /\ completed = "FAILED" => client_gone \/ stream = "failed"
===============================================================================
