----------------------------- MODULE Completion -----------------------------
(***************************************************************************)
(* What the requester promises a caller of                                *)
(*     co_await requester.request(message)                                 *)
(* Each request is called once.  It is then settled once, either by the    *)
(* peer's answer or by the timeout, and whatever settled it is what the    *)
(* awaiting coroutine receives.  Nothing here says how: no threads, no     *)
(* locks, no object lifetimes.                                             *)
(***************************************************************************)
CONSTANT Requests

VARIABLES
  called,   \* called[r]: the request has been handed to the session
  outcome,  \* outcome[r]: what settled the request, or "none"
  result    \* result[r]: what the coroutine received, or "none"

vars == <<called, outcome, result>>

Outcomes == {"answer", "timeout"}

Init ==
  /\ called = [r \in Requests |-> FALSE]
  /\ outcome = [r \in Requests |-> "none"]
  /\ result = [r \in Requests |-> "none"]

Call(r) ==
  /\ ~called[r]
  /\ called' = [called EXCEPT ![r] = TRUE]
  /\ UNCHANGED <<outcome, result>>

Settle(r) ==
  /\ called[r]
  /\ outcome[r] = "none"
  /\ \E o \in Outcomes : outcome' = [outcome EXCEPT ![r] = o]
  /\ UNCHANGED <<called, result>>

Deliver(r) ==
  /\ outcome[r] # "none"
  /\ result[r] = "none"
  /\ result' = [result EXCEPT ![r] = outcome[r]]
  /\ UNCHANGED <<called, outcome>>

Next == \E r \in Requests : Call(r) \/ Settle(r) \/ Deliver(r)

Spec == Init /\ [][Next]_vars
=============================================================================
