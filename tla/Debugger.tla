------------------------------- MODULE Debugger -------------------------------
(***************************************************************************)
(* api/electron_api_debugger.cc: commands sent to a DevTools agent, each   *)
(* with a promise that its reply settles.  All of it runs on the UI        *)
(* thread, but settling a promise first runs the microtasks that are due   *)
(* (gin_helper::MicrotasksScope), so JavaScript may call the debugger      *)
(* while ClearPendingRequests iterates over the promises.                  *)
(***************************************************************************)
EXTENDS Naturals, Sequences

CONSTANTS Commands,     \* the ids of the commands, 1..n in the order they are sent
          MaxSessions   \* bound: calls of Attach

VARIABLES
    agent_host,             \* the session agent_host_ stands for, or NoSession
    sessions,               \* number of sessions so far
    previous_request_id,    \* previous_request_id_
    pending_commands,       \* pending_requests_
    command_session,        \* history: the session each command was sent in
    command_result,         \* how each promise was settled
    clearing,               \* the ClearPendingRequests on the stack, innermost first
    sent_in_clearing,       \* history: commands sent while one was on the stack
    undefined               \* a promise was destroyed while it was being settled

debuggerVars == <<agent_host, sessions, previous_request_id, pending_commands, command_session,
                  command_result, clearing, sent_in_clearing, undefined>>

NoSession == 0

Init ==
    /\ agent_host = NoSession /\ sessions = 0 /\ previous_request_id = 0
    /\ pending_commands = {}
    /\ command_session = [c \in Commands |-> NoSession]
    /\ command_result = [c \in Commands |-> "none"]
    /\ clearing = <<>> /\ sent_in_clearing = {}
    /\ undefined = FALSE

\* A frame of ClearPendingRequests: the command it is at, and whether it has
\* called into the promise, which runs JavaScript before it rejects.
Frame(at, called) == [at |-> at, called |-> called]

\* JavaScript runs: from the message loop or from the microtasks of a Reject.
Running == ~undefined /\ (clearing # <<>> => clearing[1].called)

Settle(commands, result) ==
    command_result' = [c \in Commands |->
        IF c \in commands /\ command_result[c] = "none" THEN result ELSE command_result[c]]
-----------------------------------------------------------------------------
Attach ==
    /\ Running
    /\ agent_host = NoSession
    /\ sessions < MaxSessions
    /\ sessions' = sessions + 1
    /\ agent_host' = sessions + 1
    /\ UNCHANGED <<previous_request_id, pending_commands, command_session, command_result,
                   clearing, sent_in_clearing, undefined>>

SendCommand ==
    /\ Running
    /\ previous_request_id + 1 \in Commands
    /\ LET c == previous_request_id + 1 IN
       /\ previous_request_id' = c
       /\ command_session' = [command_session EXCEPT ![c] = agent_host]
       /\ IF agent_host = NoSession
          THEN Settle({c}, "no_target") /\ UNCHANGED pending_commands
          ELSE pending_commands' = pending_commands \cup {c} /\ UNCHANGED command_result
       /\ sent_in_clearing' = IF clearing = <<>> THEN sent_in_clearing
                              ELSE sent_in_clearing \cup {c}
    /\ UNCHANGED <<agent_host, sessions, clearing, undefined>>

\* DispatchProtocolMessage with the reply to a command: the promise is taken
\* out and settled.  A reply nobody waits for is dropped.
DispatchProtocolMessage(c) ==
    /\ Running /\ clearing = <<>>
    /\ agent_host # NoSession
    /\ command_session[c] = agent_host
    /\ c \in pending_commands
    /\ pending_commands' = pending_commands \ {c}
    /\ Settle({c}, "reply")
    /\ UNCHANGED <<agent_host, sessions, previous_request_id, command_session, clearing,
                   sent_in_clearing, undefined>>

\* A faulty AgentHostClosed that leaves the promises alone.
AgentHostClosedKeeps ==
    /\ Running
    /\ agent_host # NoSession
    /\ agent_host' = NoSession
    /\ UNCHANGED <<clearing, sessions, previous_request_id, pending_commands, command_session,
                   command_result, sent_in_clearing, undefined>>

\* Detach, or the target is closed: ClearPendingRequests starts.
AgentHostClosed ==
    /\ Running
    /\ agent_host # NoSession
    /\ agent_host' = NoSession
    /\ clearing' = <<Frame(0, FALSE)>> \o clearing
    /\ UNCHANGED <<sessions, previous_request_id, pending_commands, command_session,
                   command_result, sent_in_clearing, undefined>>

\* The promises the loop has not reached, in the order of their ids.
Ahead == { c \in pending_commands : c > clearing[1].at }

\* The loop calls RejectWithErrorMessage on the next promise.
ClearCall ==
    /\ ~undefined /\ clearing # <<>> /\ ~clearing[1].called
    /\ \E c \in Ahead :
          /\ \A d \in Ahead : c <= d
          /\ clearing' = [clearing EXCEPT ![1] = Frame(c, TRUE)]
    /\ UNCHANGED <<agent_host, sessions, previous_request_id, pending_commands, command_session,
                   command_result, sent_in_clearing, undefined>>

\* After the microtasks, the promise is rejected, unless one of them has
\* cleared the map and so destroyed it.
ClearReject ==
    /\ ~undefined /\ clearing # <<>> /\ clearing[1].called
    /\ IF clearing[1].at \in pending_commands
       THEN /\ Settle({clearing[1].at}, "closed")
            /\ clearing' = [clearing EXCEPT ![1] = Frame(clearing[1].at, FALSE)]
            /\ UNCHANGED undefined
       ELSE undefined' = TRUE /\ UNCHANGED <<command_result, clearing>>
    /\ UNCHANGED <<agent_host, sessions, previous_request_id, pending_commands, command_session,
                   sent_in_clearing>>

\* The end of the loop, and pending_requests_.clear().
ClearEnd ==
    /\ ~undefined /\ clearing # <<>> /\ ~clearing[1].called
    /\ Ahead = {}
    /\ pending_commands' = {}
    /\ clearing' = Tail(clearing)
    /\ UNCHANGED <<agent_host, sessions, previous_request_id, command_session, command_result,
                   sent_in_clearing, undefined>>
-----------------------------------------------------------------------------
Clear == ClearCall \/ ClearReject \/ ClearEnd
Reply == \E c \in Commands : DispatchProtocolMessage(c)

Next == Attach \/ SendCommand \/ AgentHostClosed \/ Clear \/ Reply

\* The loop goes on, and the agent replies.
Fairness == WF_debuggerVars(Clear) /\ WF_debuggerVars(Reply)
NoStep == UNCHANGED debuggerVars
Spec == Init /\ [][Next]_debuggerVars /\ Fairness
-----------------------------------------------------------------------------
\* Types.
TypeOK ==
    /\ agent_host \in 0..MaxSessions /\ sessions \in 0..MaxSessions
    /\ previous_request_id \in Commands \cup {0}
    /\ pending_commands \subseteq Commands
    /\ command_session \in [Commands -> 0..MaxSessions]
    /\ command_result \in [Commands -> {"none", "reply", "closed", "no_target"}]
    /\ \A i \in DOMAIN clearing : clearing[i] \in [at : Commands \cup {0}, called : BOOLEAN]

\* What has become of each command, for RequestService.
Status == [c \in Commands |->
    IF command_result[c] # "none" THEN "answered"
    ELSE IF c <= previous_request_id THEN "pending" ELSE "new"]

\* No promise is forgotten: as long as it is unsettled it is in the map, and
\* either the agent it waits for is attached or a loop is on its way to
\* reject it, also when JavaScript sends commands, attaches and detaches from
\* within that loop.
CommandsAreKept ==
    ~undefined => \A c \in Commands : Status[c] = "pending" =>
        /\ c \in pending_commands
        /\ \/ command_session[c] = agent_host
           \/ \E i \in DOMAIN clearing :
                 c > clearing[i].at \/ (c = clearing[i].at /\ clearing[i].called)

\* "target closed while handling command" is true: the session the command
\* was sent in is over.  The exception: a command sent to a new session from
\* within the loop that clears the old one is rejected with the others.
ClosedMeansClosed ==
    \A c \in Commands : command_result[c] = "closed" =>
        command_session[c] # agent_host \/ c \in sent_in_clearing
===============================================================================
