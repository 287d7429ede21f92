--------------------------- MODULE RequestService ---------------------------
(***************************************************************************)
(* What the asynchronous services of the main process promise to those     *)
(* who call them: a request is answered at most once, only after it was    *)
(* made, and it does not come back to life.  A service may also drop a     *)
(* request when who asked, or who was to answer, is gone.                  *)
(***************************************************************************)
CONSTANT Requests

VARIABLE status     \* what has become of each request

TypeOK == status \in [Requests -> {"new", "pending", "answered", "dropped"}]

Init == status = [r \in Requests |-> "new"]

\* Several requests may move in one step: closing a service answers all that
\* are pending, and a request may be answered by the call that makes it.
Moves == { <<"new", "pending">>, <<"new", "answered">>,
           <<"new", "dropped">>, <<"pending", "answered">>, <<"pending", "dropped">> }

Next ==
    /\ status' \in [Requests -> {"new", "pending", "answered", "dropped"}]
    /\ \A r \in Requests :
          status'[r] # status[r] => <<status[r], status'[r]>> \in Moves

Spec == Init /\ [][Next]_status
=============================================================================
