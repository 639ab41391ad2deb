------------------------------ MODULE AtomicCall ------------------------------
(* The contract of the entry points that read a whole Firehose block: a request *)
(* gets one verdict, decided by the request alone, and the result comes with it *)
(* whole or not at all.  No prefix, no second answer.                           *)
CONSTANTS
    Verdict(_),         \* the verdict on a request: "Ok" or the error returned
    Complete(_, _)      \* is this the whole result of that request?

VARIABLES
    request,            \* whatever the caller passes
    status,
    result              \* in a set: empty when there is none

Init ==
    /\ status = "pending"
    /\ result = {}

Answer ==
    /\ status = "pending"
    /\ status' = Verdict(request)
    /\ IF status' = "Ok"
          THEN \E r \in result' : result' = {r} /\ Complete(request, r)
          ELSE result' = {}
    /\ UNCHANGED request

Spec == Init /\ [][Answer]_<<request, status, result>>
===============================================================================
