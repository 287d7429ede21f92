----------------------------- MODULE MessagePort -----------------------------
(***************************************************************************)
(* api/message_port.cc and lib/browser/message-port-main.ts:               *)
(* MessagePortMain, the ports of JavaScript in the main process.  A port   *)
(* object has one end of a pipe; posting a message can hand the ends of    *)
(* other ports to the receiver, which makes new port objects for them.     *)
(* Messages wait in the pipe, wherever its end is, until a port that has   *)
(* the end is started.  A port that is started and has its end may not be  *)
(* collected, so it pins itself.  The pipes are Mojo's and external.       *)
(***************************************************************************)
EXTENDS Naturals, FiniteSets, Sequences, SequencesExt

CONSTANTS Ports,         \* port objects, 1..n; those for received ends come last
          PipeEnds,      \* ends of pipes: 1 and 2 are peers, 3 and 4, ...
          PortMessages,  \* messages, 1..n in the order they are posted
          MaxPortCalls   \* bound: calls of JavaScript

VARIABLES
    ports,          \* objects: "none", "yes", or "gone" when collected
    held,           \* ports that JavaScript has a reference to
    end_of,         \* port_: the end of each port, NoEnd when neutered, or NewPipe
    started_ports,  \* started_
    closed_ports,   \* closed_
    pinned,         \* pinned_
    open_ends,      \* external: ends of pipes that exist
    pipe,           \* external: the messages that wait at each end
    posted_to,      \* history: messages that were put into the pipe to this end
    accepted_at,    \* history: messages that a port with this end emitted
    port_calls      \* number of calls of JavaScript so far

portVars == <<ports, held, end_of, started_ports, closed_ports, pinned, open_ends, pipe,
              posted_to, accepted_at, port_calls>>

NoEnd == 0
NewPipe == -1       \* the end of a pipe whose other end was dropped, see Close
Peer(e) == IF e % 2 = 1 THEN e + 1 ELSE e - 1

Init ==
    /\ ports = [p \in Ports |-> IF p \in PipeEnds THEN "yes" ELSE "none"]   \* CreatePair
    /\ held = Ports \cap PipeEnds
    /\ end_of = [p \in Ports |-> IF p \in PipeEnds THEN p ELSE NoEnd]
    /\ started_ports = {} /\ closed_ports = {} /\ pinned = {}
    /\ open_ends = PipeEnds
    /\ pipe = [e \in PipeEnds |-> <<>>]
    /\ posted_to = [e \in PipeEnds |-> <<>>] /\ accepted_at = [e \in PipeEnds |-> <<>>]
    /\ port_calls = 0

IsNeutered(p) == end_of[p] = NoEnd
IsEntangled(p) == p \notin closed_ports /\ ~IsNeutered(p)
HasPendingActivity(p) == p \in started_ports /\ IsEntangled(p)
Usable(p) == ports[p] = "yes" /\ p \in held

\* JavaScript calls a method of the port, or loses its reference.
Call(p) == Usable(p) /\ port_calls < MaxPortCalls /\ port_calls' = port_calls + 1
FreePorts == { p \in Ports : ports[p] = "none" }

Posted == UNION { Range(posted_to[e]) : e \in PipeEnds }
NextMessage == { m \in PortMessages : m \notin { x.id : x \in Posted }
                                  /\ \A k \in 1..(m - 1) : k \in { x.id : x \in Posted } }

\* External: the ends that are closed with those in S, the ends in the
\* messages that wait at a closed end.
Inside(e) == UNION { m.ends : m \in Range(pipe[e]) }
ClosedWith(S) ==
    { e \in PipeEnds : \A T \in SUBSET PipeEnds :
          (S \subseteq T /\ \A t \in T : Inside(t) \subseteq T) => e \in T }
CloseEnds(S) ==
    /\ open_ends' = open_ends \ ClosedWith(S)
    /\ pipe' = [e \in PipeEnds |-> IF e \in ClosedWith(S) THEN <<>> ELSE pipe[e]]
    /\ UNCHANGED <<posted_to, accepted_at>>
-----------------------------------------------------------------------------
\* A faulty Disentangle that keeps the end.
DisentangleKeeps(T) == UNCHANGED <<end_of, pinned>>

\* Disentangle, of the ports in T: they are neutered, and not pinned any more.
Disentangle(T) ==
    /\ end_of' = [p \in Ports |-> IF p \in T THEN NoEnd ELSE end_of[p]]
    /\ pinned' = pinned \ T

\* What DisentanglePorts accepts, of a message that p posts.
Transferable(p, T) == p \notin T /\ \A q \in T : Usable(q) /\ ~IsNeutered(q)

\* PostMessage and DisentanglePorts.  Calls that throw, for a port that is
\* neutered, listed twice, or the source itself, change nothing.  A pipe whose
\* other end is gone drops the message and the ends in it.  (The number of
\* Ports bounds how many ends are passed on.)
PostMessage(p, T) ==
    /\ Call(p) /\ IsEntangled(p) /\ Transferable(p, T)
    /\ Cardinality(T) + Cardinality(UNION { Inside(e) : e \in PipeEnds }) <= Cardinality(FreePorts)
    /\ Disentangle(T)
    /\ LET to   == Peer(end_of[p])
           ends == { end_of[q] : q \in T } \ {NewPipe}
       IN  \E m \in NextMessage :
              IF to \in open_ends
              THEN /\ pipe' = [pipe EXCEPT ![to] = Append(@, [id |-> m, ends |-> ends])]
                   /\ posted_to' = [posted_to EXCEPT ![to] = Append(@, [id |-> m, ends |-> ends])]
                   /\ UNCHANGED <<open_ends, accepted_at>>
              ELSE CloseEnds(ends)
    /\ UNCHANGED <<ports, held, started_ports, closed_ports>>

\* A faulty Start that does not pin the port.
StartUnpinned(p) ==
    /\ Call(p) /\ IsEntangled(p) /\ p \notin started_ports
    /\ started_ports' = started_ports \cup {p}
    /\ UNCHANGED <<ports, held, end_of, closed_ports, pinned, open_ends, pipe, posted_to,
                   accepted_at>>

Start(p) ==
    /\ Call(p) /\ IsEntangled(p) /\ p \notin started_ports
    /\ started_ports' = started_ports \cup {p}
    /\ pinned' = pinned \cup {p}
    /\ UNCHANGED <<ports, held, end_of, closed_ports, open_ends, pipe, posted_to, accepted_at>>

\* Close: the end is dropped, and another one, of a new pipe that nobody reads,
\* takes its place, so that the port is not neutered.
ClosePort(p) ==
    /\ p \notin closed_ports /\ closed_ports' = closed_ports \cup {p}
    /\ end_of' = IF IsNeutered(p) THEN end_of ELSE [end_of EXCEPT ![p] = NewPipe]
    /\ pinned' = pinned \ {p}
    /\ CloseEnds({end_of[p]} \cap PipeEnds)
    /\ UNCHANGED <<ports, held, started_ports>>
Close(p) == Call(p) /\ ClosePort(p)

\* The connection error handler; the connector of a port that is not started
\* is paused and does not call it, nor one that has messages to read.
OnConnectionError(p) ==
    /\ ports[p] = "yes" /\ p \in started_ports /\ end_of[p] \in PipeEnds
    /\ Peer(end_of[p]) \notin open_ends /\ pipe[end_of[p]] = <<>>
    /\ ClosePort(p) /\ UNCHANGED port_calls

\* The new ports for the ends of a message: the next ones, in order.
NewPorts(ends) ==
    { new \in [ends -> FreePorts] :
        /\ \A e, f \in ends : e < f => new[e] < new[f]
        /\ \A e \in ends, q \in FreePorts : q < new[e] => \E f \in ends : q = new[f] }

\* Accept: the port emits the message, with a new port for each end in it.
Accept(p) ==
    /\ ports[p] = "yes" /\ p \in started_ports /\ end_of[p] \in PipeEnds
    /\ pipe[end_of[p]] # <<>>
    /\ LET at == end_of[p]
           m  == Head(pipe[at])
       IN  /\ \E new \in NewPorts(m.ends) :
                 LET Made(q) == \E e \in m.ends : new[e] = q
                 IN  /\ end_of' = [q \in Ports |-> IF Made(q)
                                                    THEN CHOOSE e \in m.ends : new[e] = q
                                                    ELSE end_of[q]]
                     /\ ports' = [q \in Ports |-> IF Made(q) THEN "yes" ELSE ports[q]]
                     /\ held' = held \cup { q \in Ports : Made(q) }
           /\ pipe' = [pipe EXCEPT ![at] = Tail(@)]
           /\ accepted_at' = [accepted_at EXCEPT ![at] = Append(@, m)]
    /\ UNCHANGED <<started_ports, closed_ports, pinned, open_ends, posted_to, port_calls>>

\* JavaScript loses its reference ...
Release(p) ==
    /\ Call(p) /\ held' = held \ {p}
    /\ UNCHANGED <<ports, end_of, started_ports, closed_ports, pinned, open_ends, pipe,
                   posted_to, accepted_at>>

\* ... and the object is collected, unless it is pinned: ~MessagePort.
Collect(p) ==
    /\ ports[p] = "yes" /\ p \notin held \cup pinned
    /\ ports' = [ports EXCEPT ![p] = "gone"]
    /\ end_of' = [end_of EXCEPT ![p] = NoEnd]
    /\ CloseEnds({end_of[p]} \cap PipeEnds)
    /\ UNCHANGED <<held, started_ports, closed_ports, pinned, port_calls>>
-----------------------------------------------------------------------------
Receive == \E p \in Ports : Accept(p) \/ OnConnectionError(p)

Next ==
    \/ \E p \in Ports :
          \/ \E T \in SUBSET Ports : PostMessage(p, T)
          \/ Start(p) \/ Close(p) \/ Release(p) \/ Collect(p)
    \/ Receive

\* The main thread runs the tasks of the connectors.
Fairness == WF_portVars(Receive)
NoStep == UNCHANGED portVars
Spec == Init /\ [][Next]_portVars /\ Fairness
-----------------------------------------------------------------------------
\* Types.
TypeOK ==
    /\ ports \in [Ports -> {"none", "yes", "gone"}]
    /\ held \subseteq Ports /\ pinned \subseteq Ports
    /\ end_of \in [Ports -> PipeEnds \cup {NoEnd, NewPipe}]
    /\ started_ports \subseteq Ports /\ closed_ports \subseteq Ports /\ open_ends \subseteq PipeEnds

\* Where an end is: with ports, and in messages that wait.
Owners(e) == { <<"port", p>> : p \in { q \in Ports : end_of[q] = e } }
Carriers(e) == { <<"pipe", f>> : f \in { g \in PipeEnds : e \in Inside(g) } }

\* However ports are passed on, started, closed and collected: an end has one
\* place, so no two ports read or write the same pipe, and it is open exactly
\* while it has one; what is emitted at an end is what was posted to it, in
\* order, whichever ports had the end; and a port is kept from collection
\* exactly while messages could still reach it.
MessagesArriveInOrder ==
    /\ \A e \in PipeEnds :
          LET places == Owners(e) \cup Carriers(e)
          IN  (e \in open_ends <=> places # {}) /\ \A x, y \in places : x = y
    /\ \A e \in PipeEnds : IF e \in open_ends THEN accepted_at[e] \o pipe[e] = posted_to[e]
                       ELSE IsPrefix(accepted_at[e], posted_to[e])
    /\ pinned = { p \in Ports : HasPendingActivity(p) }

\* A message that waits at a port that is started; it is emitted in the end, if
\* the port keeps its end.
Waiting(m) == \E p \in Ports : p \in started_ports /\ end_of[p] \in PipeEnds
                               /\ m \in { x.id : x \in Range(pipe[end_of[p]]) }
==============================================================================
