-------------------------- MODULE PermissionManager --------------------------
(***************************************************************************)
(* electron_permission_manager.cc: a page asks for permissions, each of    *)
(* them is put to the application's handler, and the page is answered when *)
(* the last one has been decided.  All of it runs on the UI thread; the    *)
(* handler is JavaScript that may answer during the call or later, and may *)
(* call the session's API while the others are still to be asked.          *)
(***************************************************************************)
EXTENDS Naturals, Sequences

CONSTANTS Requests,         \* the requests of pages
          MaxPermissions    \* bound: permissions asked for by a request

VARIABLES
    request_handler,    \* a request_handler_ is set
    made,               \* the requests made
    permissions,        \* number of permissions of each request
    pending_requests,   \* pending_requests_
    results,            \* results_ of each request
    remaining_results,  \* remaining_results_ of each request
    asking,             \* where the loop of RequestPermissionsWithDetails is
    callbacks,          \* <<request, permission>> JavaScript may still answer
    frames_gone,        \* requests whose web contents are destroyed
    answers,            \* what each callback_ was run with, in order
    decided,            \* history: what the handler decided
    cut_short,          \* history: requests pending when the handler was removed
    crashed             \* the loop has run a null handler

requestVars == <<made, permissions, pending_requests, results, remaining_results, answers>>
permissionVars == <<request_handler, requestVars, asking, callbacks, frames_gone, decided,
                    cut_short, crashed>>

NotAsking == <<>>

Init ==
    /\ request_handler = FALSE
    /\ made = {} /\ permissions = [r \in Requests |-> 0]
    /\ pending_requests = {}
    /\ results = [r \in Requests |-> <<>>]
    /\ remaining_results = [r \in Requests |-> 0]
    /\ asking = NotAsking
    /\ callbacks = {} /\ frames_gone = {}
    /\ answers = [r \in Requests |-> <<>>]
    /\ decided = [r \in Requests |-> [i \in 1..MaxPermissions |-> "nothing"]]
    /\ cut_short = {} /\ crashed = FALSE

\* JavaScript runs: from the message loop, or inside a call of the handler.
Running == ~crashed /\ (asking # NotAsking => asking[2] > 1)
-----------------------------------------------------------------------------
\* Without a handler, everything is granted at once.
RequestUnhandled(r, n) ==
    /\ Running /\ asking = NotAsking
    /\ r \notin made
    /\ n = 0 \/ ~request_handler
    /\ made' = made \cup {r}
    /\ permissions' = [permissions EXCEPT ![r] = n]
    /\ answers' = [answers EXCEPT ![r] = Append(@, [i \in 1..n |-> "granted"])]
    /\ UNCHANGED <<request_handler, pending_requests, results, remaining_results, asking,
                   callbacks, frames_gone, decided, cut_short, crashed>>

\* A faulty PendingRequest that starts with every permission granted.
RequestPermissionsGranted(r, n) ==
    /\ Running /\ asking = NotAsking
    /\ r \notin made
    /\ n > 0 /\ request_handler
    /\ made' = made \cup {r}
    /\ permissions' = [permissions EXCEPT ![r] = n]
    /\ pending_requests' = pending_requests \cup {r}
    /\ results' = [results EXCEPT ![r] = [i \in 1..n |-> "granted"]]
    /\ remaining_results' = [remaining_results EXCEPT ![r] = n]
    /\ asking' = <<r, 1>>
    /\ UNCHANGED <<request_handler, callbacks, frames_gone, answers, decided, cut_short, crashed>>

\* With a handler, the request is pending and the loop over its permissions
\* starts.
RequestPermissionsWithDetails(r, n) ==
    /\ Running /\ asking = NotAsking
    /\ r \notin made
    /\ n > 0 /\ request_handler
    /\ made' = made \cup {r}
    /\ permissions' = [permissions EXCEPT ![r] = n]
    /\ pending_requests' = pending_requests \cup {r}
    /\ results' = [results EXCEPT ![r] = [i \in 1..n |-> "denied"]]
    /\ remaining_results' = [remaining_results EXCEPT ![r] = n]
    /\ asking' = <<r, 1>>
    /\ UNCHANGED <<request_handler, callbacks, frames_gone, answers, decided, cut_short, crashed>>

\* The loop calls the handler for one permission.  JavaScript then has the
\* callback, and runs, until the loop goes on.
RunHandler ==
    /\ ~crashed /\ asking # NotAsking
    /\ request_handler
    /\ callbacks' = callbacks \cup {asking}
    /\ asking' = IF asking[2] = permissions[asking[1]] THEN NotAsking
                 ELSE <<asking[1], asking[2] + 1>>
    /\ UNCHANGED <<request_handler, requestVars, frames_gone, decided, cut_short, crashed>>

\* The handler was removed by the call for an earlier permission.
RunNullHandler ==
    /\ ~crashed /\ asking # NotAsking
    /\ ~request_handler
    /\ crashed' = TRUE
    /\ UNCHANGED <<request_handler, requestVars, asking, callbacks, frames_gone, decided, cut_short>>

\* A faulty OnPermissionResponse that completes one result early.
OnPermissionResponseEarly(r, i, status) ==
    /\ Running /\ <<r, i>> \in callbacks
    /\ callbacks' = callbacks \ {<<r, i>>}
    /\ decided' = [decided EXCEPT ![r][i] = status]
    /\ IF r \notin pending_requests THEN UNCHANGED requestVars
       ELSE /\ results' = [results EXCEPT ![r][i] = status]
            /\ remaining_results' = [remaining_results EXCEPT ![r] = @ - 1]
            /\ IF remaining_results[r] <= 2
               THEN /\ answers' = [answers EXCEPT ![r] = Append(@, results'[r])]
                    /\ pending_requests' = pending_requests \ {r}
               ELSE UNCHANGED <<answers, pending_requests>>
            /\ UNCHANGED <<made, permissions>>
    /\ UNCHANGED <<request_handler, asking, frames_gone, cut_short, crashed>>

\* JavaScript answers for one permission.  AdaptCallbackForRepeating ignores
\* a second answer; an answer for a request that is no longer pending is lost.
OnPermissionResponse(r, i, status) ==
    /\ Running /\ <<r, i>> \in callbacks
    /\ callbacks' = callbacks \ {<<r, i>>}
    /\ decided' = [decided EXCEPT ![r][i] = status]
    /\ IF r \notin pending_requests THEN UNCHANGED requestVars
       ELSE /\ results' = [results EXCEPT ![r][i] = status]
            /\ remaining_results' = [remaining_results EXCEPT ![r] = @ - 1]
            /\ IF remaining_results[r] = 1
               THEN /\ answers' = [answers EXCEPT ![r] = Append(@, results'[r])]
                    /\ pending_requests' = pending_requests \ {r}
               ELSE UNCHANGED <<answers, pending_requests>>
            /\ UNCHANGED <<made, permissions>>
    /\ UNCHANGED <<request_handler, asking, frames_gone, cut_short, crashed>>

SetHandler ==
    /\ Running /\ ~request_handler
    /\ request_handler' = TRUE
    /\ UNCHANGED <<requestVars, asking, callbacks, frames_gone, decided, cut_short, crashed>>

\* Removing the handler answers the pending requests with the results there
\* are, except those of destroyed web contents.
RemoveHandler ==
    /\ Running /\ request_handler
    /\ request_handler' = FALSE
    /\ answers' = [r \in Requests |-> IF r \in pending_requests \ frames_gone
                                      THEN Append(answers[r], results[r]) ELSE answers[r]]
    /\ pending_requests' = {}
    /\ cut_short' = cut_short \cup pending_requests
    /\ UNCHANGED <<made, permissions, results, remaining_results, asking, callbacks, frames_gone,
                   decided, crashed>>

\* External: the web contents of a request are destroyed.
DestroyFrame(r) ==
    /\ Running /\ r \in pending_requests \ frames_gone
    /\ frames_gone' = frames_gone \cup {r}
    /\ UNCHANGED <<request_handler, requestVars, asking, callbacks, decided, cut_short, crashed>>
-----------------------------------------------------------------------------
Respond == \E r \in Requests, i \in 1..MaxPermissions, status \in {"granted", "denied"} :
               OnPermissionResponse(r, i, status)
Ask == RunHandler \/ RunNullHandler

Next ==
    \/ \E r \in Requests, n \in 0..MaxPermissions :
          RequestUnhandled(r, n) \/ RequestPermissionsWithDetails(r, n)
    \/ Ask \/ Respond
    \/ SetHandler \/ RemoveHandler
    \/ \E r \in Requests : DestroyFrame(r)

\* The loop goes on, and the application answers the callbacks it is given.
Fairness == WF_permissionVars(Ask) /\ WF_permissionVars(Respond)
NoStep == UNCHANGED permissionVars
Spec == Init /\ [][Next]_permissionVars /\ Fairness
-----------------------------------------------------------------------------
\* Types.
TypeOK ==
    /\ made \subseteq Requests /\ pending_requests \subseteq made
    /\ permissions \in [Requests -> 0..MaxPermissions]
    /\ remaining_results \in [Requests -> 0..MaxPermissions]
    /\ results \in [Requests -> Seq({"granted", "denied"})]
    /\ callbacks \subseteq made \X (1..MaxPermissions)
    /\ frames_gone \subseteq made /\ cut_short \subseteq made

\* What has become of each request, for RequestService.
Status == [r \in Requests |->
    IF Len(answers[r]) > 1 THEN "answered_again"
    ELSE IF answers[r] # <<>> THEN "answered"
    ELSE IF r \in pending_requests THEN "pending"
    ELSE IF r \in made THEN "dropped" ELSE "new"]

\* A page is answered with what the handler decided on each permission, and
\* not before it has decided on all of them, whatever the order of the
\* answers.  If the handler is removed first, or was never there, nothing is
\* granted that the handler did not grant while it was there.
AnswersAreDecided ==
    \A r \in made : (answers[r] # <<>> /\ results[r] # <<>>) =>
        \A i \in 1..permissions[r] :
            IF r \in cut_short THEN answers[r][1][i] = "granted" => decided[r][i] = "granted"
            ELSE answers[r][1][i] = decided[r][i]
==============================================================================
