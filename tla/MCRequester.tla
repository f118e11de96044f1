----------------------------- MODULE MCRequester -----------------------------
(* Instances of Requester for TLC. *)
EXTENDS Requester, TLC

Symmetry == Permutations(Threads) \cup Permutations(Requests)

\* Values of MaxAnswers.
OneEach == [r \in Requests |-> 1]
TwoEach == [r \in Requests |-> 2]
TwoForOne == [OneEach EXCEPT ![CHOOSE r \in Requests : TRUE] = 2]
=============================================================================
