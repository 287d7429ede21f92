----------------------------- MODULE ProxyLookup -----------------------------
(***************************************************************************)
(* net/resolve_proxy_helper.cc: session.resolveProxy asks the network      *)
(* service for one URL at a time; the others wait in a queue.  Answering a *)
(* request runs JavaScript, which may ask again before the next lookup is  *)
(* started.                                                                *)
(***************************************************************************)
EXTENDS Naturals, Sequences

CONSTANT Lookups    \* the calls of ResolveProxy, 1..n in order

VARIABLES
    asked,              \* number of calls so far
    pending_lookups,    \* pending_requests_
    receiver,           \* the request receiver_ is bound for, or NoLookup
    completing,         \* OnProxyLookupComplete is on the stack
    proxies             \* the requests that were answered, in order

lookupVars == <<asked, pending_lookups, receiver, completing, proxies>>

NoLookup == 0

Init ==
    /\ asked = 0 /\ pending_lookups = <<>>
    /\ receiver = NoLookup /\ completing = FALSE
    /\ proxies = <<>>
-----------------------------------------------------------------------------
\* The request waits; if no lookup is in progress, one is started for the
\* front of the queue.  From within a callback that is not the new request if
\* others wait (the DCHECK_EQ of the code).
ResolveProxy ==
    /\ asked + 1 \in Lookups
    /\ asked' = asked + 1
    /\ pending_lookups' = Append(pending_lookups, asked')
    /\ receiver' = IF receiver = NoLookup THEN Head(pending_lookups') ELSE receiver
    /\ UNCHANGED <<completing, proxies>>

\* OnProxyLookupComplete with the answer of the service, or with ERR_ABORTED
\* from the disconnect handler: the request at the front is answered.
OnProxyLookupComplete ==
    /\ ~completing /\ receiver # NoLookup
    /\ receiver' = NoLookup
    /\ pending_lookups' = Tail(pending_lookups)
    /\ proxies' = Append(proxies, Head(pending_lookups))
    /\ completing' = TRUE
    /\ UNCHANGED asked

\* The rest of OnProxyLookupComplete.  If the callback has started the lookup
\* already, binding again closes its pipe, and it is made once more.
StartNext ==
    /\ completing
    /\ completing' = FALSE
    /\ receiver' = IF pending_lookups = <<>> THEN receiver ELSE Head(pending_lookups)
    /\ UNCHANGED <<asked, pending_lookups, proxies>>
-----------------------------------------------------------------------------
Complete == OnProxyLookupComplete \/ StartNext
Next == ResolveProxy \/ Complete

\* The service answers or its pipe is closed, and the callback returns.
Fairness == WF_lookupVars(Complete)
NoStep == UNCHANGED lookupVars
Spec == Init /\ [][Next]_lookupVars /\ Fairness
-----------------------------------------------------------------------------
\* Types.
TypeOK ==
    /\ asked \in Lookups \cup {0} /\ receiver \in Lookups \cup {NoLookup}
    /\ pending_lookups \in Seq(Lookups) /\ proxies \in Seq(Lookups)

\* What has become of each call, for RequestService.
Status == [r \in Lookups |->
    IF \E i, j \in DOMAIN proxies : i # j /\ proxies[i] = r /\ proxies[j] = r
    THEN "answered_again"
    ELSE IF \E i \in DOMAIN proxies : proxies[i] = r THEN "answered"
    ELSE IF r <= asked THEN "pending" ELSE "new"]

\* The answer of a lookup goes to the request it was made for: the lookup in
\* progress is the one at the front of the queue, also if the callback of the
\* previous one has started it, and nobody waits without a lookup.
LookupIsForTheFront ==
    IF pending_lookups = <<>> THEN receiver = NoLookup
    ELSE receiver = Head(pending_lookups) \/ (completing /\ receiver = NoLookup)
==============================================================================
