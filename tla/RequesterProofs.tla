--------------------------- MODULE RequesterProofs ---------------------------
(***************************************************************************)
(* Proofs about Requester, for any number of requests, pool threads and    *)
(* messages from the peer.                                                 *)
(***************************************************************************)
EXTENDS Requester, TLAPS

(***************************************************************************)
(* The inductive invariant, in parts.                                      *)
(***************************************************************************)

\* What a coroutine's own progress says about the rest of the state.
CallerInv ==
  \A r \in Requests :
    /\ life[r] = "unborn" <=> cpc[r] \in {"idle", "request"}
    /\ life[r] = "unborn" => entry[r] = "none" /\ ~awaiter[r]
    /\ cpc[r] \in {"idle", "request", "send"} =>
         /\ value[r] = "none"
         /\ lock[r] = None
         /\ resumes[r] = 0
         /\ result[r] = "none"
    /\ wait[r] = "none" <=> cpc[r] # "suspended"

\* Pending messages are about requests that have been sent.
InboxInv == \A m \in sent : cpc[m.of] \in {"arm", "suspended"}

\* A thread that runs a handler: what the handler is about, and that the
\* closure of a timer's handler is alive and on one thread only.
ThreadInv ==
  \A t \in Threads :
    /\ pc[t] = "idle" <=> job[t] = "none"
    /\ pc[t] # "idle" => /\ cur[t] \in Requests
                         /\ cpc[cur[t]] \in {"arm", "suspended"}
    /\ job[t] = "timer" => /\ pc[t] # "find"
                           /\ wait[cur[t]] = "running"
                           /\ life[cur[t]] = "alive"
                           /\ cpc[cur[t]] = "suspended"
    /\ job[t] = "message" => pc[t] # "drop" /\ Answered(cur[t])
    /\ pc[t] = "stuck" => job[t] = "message" /\ life[cur[t]] = "alive"

OneClosure ==
  \A t, u \in Threads :
    job[t] = "timer" /\ job[u] = "timer" /\ cur[t] = cur[u] => t = u

\* The lock of a live object.
LockInv ==
  \A r \in Requests : life[r] = "alive" =>
    \A t \in Threads : lock[r] = t <=> pc[t] \in Inside /\ cur[t] = r

\* How far the setter of a live object is.
SetterInv ==
  \A t \in Threads :
    pc[t] \in Inside /\ life[cur[t]] = "alive" =>
      /\ pc[t] = "erase" => value[cur[t]] = "none"
      /\ pc[t] # "erase" => value[cur[t]] # "none"
      /\ pc[t] \in {"cancel", "resume"} => awaiter[cur[t]]
      /\ pc[t] \in {"unlock", "stuck"} => ~awaiter[cur[t]]

\* A live object before and after its coroutine has been resumed.
AwaitInv ==
  \A r \in Requests : life[r] = "alive" =>
    /\ value[r] = "none" => awaiter[r]
    /\ awaiter[r] => resumes[r] = 0 /\ result[r] = "none"
    /\ ~awaiter[r] =>
         /\ resumes[r] = 1
         /\ \/ result[r] = value[r]
            \/ \E t \in Threads : pc[t] = "stuck" /\ cur[t] = r

DeadInv ==
  \A r \in Requests : life[r] = "dead" =>
    /\ ~awaiter[r]
    /\ wait[r] = "done"
    /\ entry[r] = "none"
    /\ result[r] # "none"

\* A wait completes without an error only after its duration, and only such a
\* completion takes a timer's handler into set().
ExpiryInv ==
  /\ \A r \in Requests : wait[r] = "fired" => r \in expired
  /\ \A t \in Threads :
       job[t] = "timer" /\ pc[t] # "drop" => cur[t] \in expired

\* What a live object holds has a cause.
CauseInv ==
  \A r \in Requests :
    /\ life[r] = "alive" /\ value[r] = "timeout" => r \in expired
    /\ life[r] = "alive" /\ value[r] = "answer" => Answered(r)

IndInv ==
  /\ TypeOK
  /\ CallerInv
  /\ InboxInv
  /\ ThreadInv
  /\ OneClosure
  /\ LockInv
  /\ SetterInv
  /\ AwaitInv
  /\ DeadInv
  /\ ExpiryInv
  /\ CauseInv
  /\ ResultHasCause

-----------------------------------------------------------------------------
(* The initial states satisfy it, and each action preserves it. *)

\* Before the first request everything is empty.
LEMMA InitInv == Init => IndInv
  BY NoneAssumption DEF Init, IndInv, TypeOK, CallerInv, InboxInv, ThreadInv,
     OneClosure, LockInv, SetterInv, AwaitInv, DeadInv, ExpiryInv, CauseInv,
     ResultHasCause, Owning, Outcomes, Jobs, ThreadPC, CallerPC, Inside

\* Preserved: a coroutine is about to call request.
LEMMA CallPreserves ==
  ASSUME IndInv, NEW r \in Requests, Call(r)
  PROVE  IndInv'
<1>1. TypeOK'
  BY DEF Call, IndInv, TypeOK, CallerPC, ThreadPC, Jobs, Outcomes, Owning
<1>2. CallerInv'
  BY DEF Call, IndInv, TypeOK, CallerInv
<1>3. InboxInv'
  BY DEF Call, IndInv, TypeOK, InboxInv
<1>4. ThreadInv'
  BY DEF Call, IndInv, TypeOK, ThreadInv, Answered
<1>5. OneClosure' /\ LockInv' /\ SetterInv' /\ AwaitInv' /\ DeadInv' /\
     CauseInv' /\ ResultHasCause'
  BY DEF Call, IndInv, OneClosure, LockInv, SetterInv, AwaitInv, DeadInv,
     CauseInv, ResultHasCause, Answered
<1>6. ExpiryInv'
  BY DEF Call, IndInv, TypeOK, ExpiryInv
<1> QED
  BY <1>1, <1>2, <1>3, <1>4, <1>5, <1>6 DEF IndInv

\* Preserved: request and operator co_await.
LEMMA RequestPreserves ==
  ASSUME IndInv, NEW r \in Requests, Request(r)
  PROVE  IndInv'
<1>1. TypeOK'
  BY DEF Request, CoAwait, IndInv, TypeOK, CallerPC, ThreadPC, Jobs,
     Outcomes, Owning
<1>2. CallerInv'
  BY DEF Request, CoAwait, IndInv, TypeOK, CallerInv
<1>3. InboxInv'
  BY DEF Request, CoAwait, IndInv, TypeOK, InboxInv
<1>4. ThreadInv'
  BY DEF Request, CoAwait, IndInv, TypeOK, ThreadInv, Answered
<1>5. LockInv'
  BY NoneAssumption DEF Request, CoAwait, IndInv, TypeOK, LockInv, Inside,
     CallerInv, ThreadInv
<1>6. SetterInv'
  BY DEF Request, CoAwait, IndInv, TypeOK, SetterInv, Inside, ThreadInv
<1>7. AwaitInv'
  BY DEF Request, CoAwait, IndInv, TypeOK, AwaitInv, CallerInv
<1>8. DeadInv'
  BY DEF Request, CoAwait, IndInv, TypeOK, DeadInv
<1>9. CauseInv'
  BY DEF Request, CoAwait, IndInv, TypeOK, CauseInv, Answered, CallerInv
<1>10. OneClosure' /\ ResultHasCause'
  BY DEF Request, CoAwait, IndInv, OneClosure, ResultHasCause, Answered
<1>11. ExpiryInv'
  BY DEF Request, IndInv, TypeOK, ExpiryInv, CoAwait
<1> QED
  BY <1>1, <1>2, <1>3, <1>4, <1>5, <1>6, <1>7, <1>8, <1>9, <1>10, <1>11 DEF
     IndInv

\* Preserved: the first half of await_suspend.
LEMMA SendPreserves ==
  ASSUME IndInv, NEW r \in Requests, Send(r)
  PROVE  IndInv'
<1>1. TypeOK'
  BY DEF Send, IndInv, TypeOK, CallerPC, ThreadPC, Jobs, Outcomes, Owning
<1>2. CallerInv'
  BY DEF Send, IndInv, TypeOK, CallerInv
<1>3. InboxInv'
  BY DEF Send, IndInv, TypeOK, InboxInv
<1>4. ThreadInv'
  BY DEF Send, IndInv, TypeOK, ThreadInv, Answered
<1>5. OneClosure' /\ LockInv' /\ SetterInv' /\ AwaitInv' /\ DeadInv' /\
     CauseInv' /\ ResultHasCause'
  BY DEF Send, IndInv, OneClosure, LockInv, SetterInv, AwaitInv, DeadInv,
     CauseInv, ResultHasCause, Answered
<1>6. ExpiryInv'
  BY DEF Send, IndInv, TypeOK, ExpiryInv
<1> QED
  BY <1>1, <1>2, <1>3, <1>4, <1>5, <1>6 DEF IndInv

\* Preserved: the second half of await_suspend.
LEMMA ArmPreserves ==
  ASSUME IndInv, NEW r \in Requests, Arm(r)
  PROVE  IndInv'
<1>1. TypeOK'
  BY DEF Arm, IndInv, TypeOK, CallerPC, ThreadPC, Jobs, Outcomes, Owning
<1>2. CallerInv'
  BY DEF Arm, IndInv, TypeOK, CallerInv
<1>3. InboxInv'
  BY DEF Arm, IndInv, TypeOK, InboxInv
<1>4. ThreadInv'
  BY DEF Arm, IndInv, TypeOK, ThreadInv, Answered
<1>5. DeadInv'
  BY DEF Arm, IndInv, TypeOK, DeadInv, CallerInv
<1>6. CauseInv'
  BY DEF Arm, IndInv, TypeOK, CauseInv, Answered, CallerInv
<1>7. ResultHasCause'
  BY DEF Arm, IndInv, TypeOK, ResultHasCause, Answered, CallerInv
<1>8. OneClosure' /\ LockInv' /\ SetterInv' /\ AwaitInv'
  BY DEF Arm, IndInv, OneClosure, LockInv, SetterInv, AwaitInv
<1>9. ExpiryInv'
  BY DEF Arm, IndInv, TypeOK, ExpiryInv
<1> QED
  BY <1>1, <1>2, <1>3, <1>4, <1>5, <1>6, <1>7, <1>8, <1>9 DEF IndInv

\* Preserved: the peer sends a message.
LEMMA PeerSendsPreserves ==
  ASSUME IndInv, NEW r \in Requests, NEW m \in Messages, PeerSends(r, m)
  PROVE  IndInv'
<1>1. TypeOK'
  BY DEF PeerSends, IndInv, TypeOK, Messages, CallerPC, ThreadPC, Jobs,
     Outcomes, Owning
<1>2. InboxInv'
  BY DEF PeerSends, IndInv, TypeOK, InboxInv, Messages
<1>3. ThreadInv'
  BY DEF PeerSends, IndInv, TypeOK, ThreadInv, Messages, Answered
<1>4. CauseInv'
  BY DEF PeerSends, IndInv, TypeOK, CauseInv, Messages, Answered
<1>5. ResultHasCause'
  BY DEF PeerSends, IndInv, TypeOK, ResultHasCause, Messages, Answered
<1>6. CallerInv' /\ OneClosure' /\ LockInv' /\ SetterInv' /\ AwaitInv' /\
     DeadInv'
  BY DEF PeerSends, IndInv, CallerInv, OneClosure, LockInv, SetterInv,
     AwaitInv, DeadInv
<1>7. ExpiryInv'
  BY DEF PeerSends, IndInv, TypeOK, ExpiryInv
<1> QED
  BY <1>1, <1>2, <1>3, <1>4, <1>5, <1>6, <1>7 DEF IndInv

\* Preserved: the timer expires.
LEMMA ExpirePreserves ==
  ASSUME IndInv, NEW r \in Requests, Expire(r)
  PROVE  IndInv'
<1>1. TypeOK'
  BY DEF Expire, IndInv, TypeOK, CallerPC, ThreadPC, Jobs, Outcomes, Owning
<1>2. CallerInv'
  BY DEF Expire, IndInv, TypeOK, CallerInv
<1>3. ThreadInv'
  BY DEF Expire, IndInv, TypeOK, ThreadInv, Answered
<1>4. DeadInv'
  BY DEF Expire, IndInv, TypeOK, DeadInv
<1>5. CauseInv'
  BY DEF Expire, IndInv, TypeOK, CauseInv, Answered
<1>6. ResultHasCause'
  BY DEF Expire, IndInv, TypeOK, ResultHasCause, Answered
<1>7. InboxInv' /\ OneClosure' /\ LockInv' /\ SetterInv' /\ AwaitInv'
  BY DEF Expire, IndInv, InboxInv, OneClosure, LockInv, SetterInv, AwaitInv
<1>8. ExpiryInv'
  BY DEF Expire, IndInv, TypeOK, ExpiryInv
<1> QED
  BY <1>1, <1>2, <1>3, <1>4, <1>5, <1>6, <1>7, <1>8 DEF IndInv

\* Preserved: a read handler starts.
LEMMA TakeMessagePreserves ==
  ASSUME IndInv, NEW t \in Threads, NEW m \in Messages, TakeMessage(t, m)
  PROVE  IndInv'
<1>1. TypeOK'
  BY DEF TakeMessage, IndInv, TypeOK, Begin, Messages, threadVars, CallerPC,
     ThreadPC, Jobs, Outcomes, Owning
<1>2. ThreadInv'
  BY DEF TakeMessage, IndInv, TypeOK, ThreadInv, Begin, Messages, threadVars,
     Answered, InboxInv
<1>3. OneClosure'
  BY DEF TakeMessage, IndInv, TypeOK, OneClosure, Begin, Messages, threadVars
<1>4. LockInv'
  BY NoneAssumption DEF TakeMessage, IndInv, TypeOK, LockInv, Begin,
     Messages, threadVars, Inside
<1>5. SetterInv'
  BY DEF TakeMessage, IndInv, TypeOK, SetterInv, Begin, Messages, threadVars,
     Inside
<1>6. AwaitInv'
  BY DEF TakeMessage, IndInv, TypeOK, AwaitInv, Begin, Messages, threadVars
<1>7. CallerInv' /\ InboxInv' /\ DeadInv' /\ CauseInv' /\ ResultHasCause'
  BY DEF TakeMessage, IndInv, CallerInv, InboxInv, DeadInv, CauseInv,
     ResultHasCause, Begin, threadVars, Answered
<1>8. ExpiryInv'
  BY DEF TakeMessage, IndInv, TypeOK, ExpiryInv, Begin, threadVars
<1> QED
  BY <1>1, <1>2, <1>3, <1>4, <1>5, <1>6, <1>7, <1>8 DEF IndInv

\* Preserved: the search in the map.
LEMMA FindPreserves ==
  ASSUME IndInv, NEW t \in Threads, Find(t)
  PROVE  IndInv'
<1>1. TypeOK'
  BY DEF Find, IndInv, TypeOK, Finish, Goto, CallerPC, ThreadPC, Jobs,
     Outcomes, Owning
<1>2. ThreadInv'
  BY DEF Find, IndInv, TypeOK, ThreadInv, Finish, Goto, Answered
<1>3. OneClosure'
  BY DEF Find, IndInv, TypeOK, OneClosure, Finish, Goto
<1>4. LockInv'
  BY NoneAssumption DEF Find, IndInv, TypeOK, LockInv, Finish, Goto, Inside
<1>5. SetterInv'
  BY DEF Find, IndInv, TypeOK, SetterInv, Finish, Goto, Inside
<1>6. AwaitInv'
  BY DEF Find, IndInv, TypeOK, AwaitInv, Finish, Goto
<1>7. CallerInv' /\ InboxInv' /\ DeadInv' /\ CauseInv' /\ ResultHasCause'
  BY DEF Find, IndInv, CallerInv, InboxInv, DeadInv, CauseInv,
     ResultHasCause, Finish, Goto, Answered
<1>8. ExpiryInv'
  BY DEF Find, IndInv, TypeOK, ExpiryInv, Finish, Goto, ThreadInv
<1> QED
  BY <1>1, <1>2, <1>3, <1>4, <1>5, <1>6, <1>7, <1>8 DEF IndInv

\* Preserved: a timer's handler starts.
LEMMA TakeTimerPreserves ==
  ASSUME IndInv, NEW t \in Threads, NEW r \in Requests, TakeTimer(t, r)
  PROVE  IndInv'
<1>1. TypeOK'
  BY DEF TakeTimer, IndInv, TypeOK, Begin, CallerPC, ThreadPC, Jobs,
     Outcomes, Owning
<1>2. CallerInv'
  BY DEF TakeTimer, IndInv, TypeOK, CallerInv, Begin
<1>3. ThreadInv'
  BY DEF TakeTimer, IndInv, TypeOK, ThreadInv, Begin, Answered, CallerInv,
     DeadInv
<1>4. OneClosure'
  BY DEF TakeTimer, IndInv, TypeOK, OneClosure, Begin, ThreadInv
<1>5. LockInv'
  BY NoneAssumption DEF TakeTimer, IndInv, TypeOK, LockInv, Begin, Inside
<1>6. SetterInv'
  BY DEF TakeTimer, IndInv, TypeOK, SetterInv, Begin, Inside
<1>7. AwaitInv'
  BY DEF TakeTimer, IndInv, TypeOK, AwaitInv, Begin
<1>8. DeadInv'
  BY DEF TakeTimer, IndInv, TypeOK, DeadInv, Begin
<1>9. CauseInv'
  BY DEF TakeTimer, IndInv, TypeOK, CauseInv, Begin, Answered
<1>10. ResultHasCause'
  BY DEF TakeTimer, IndInv, TypeOK, ResultHasCause, Begin, Answered
<1>11. InboxInv'
  BY DEF TakeTimer, IndInv, InboxInv, Begin
<1>12. ExpiryInv'
  BY DEF TakeTimer, IndInv, TypeOK, ExpiryInv, Begin
<1> QED
  BY <1>1, <1>2, <1>3, <1>4, <1>5, <1>6, <1>7, <1>8, <1>9, <1>10, <1>11, <1>12
     DEF IndInv

\* Preserved: set up to its early return.
LEMMA LockPreserves ==
  ASSUME IndInv, NEW t \in Threads, Lock(t)
  PROVE  IndInv'
<1>1. TypeOK'
  BY DEF Lock, IndInv, TypeOK, Goto, Return, Finish, CallerPC, ThreadPC,
     Jobs, Outcomes, Owning
<1>2. CallerInv'
  BY DEF Lock, IndInv, TypeOK, CallerInv, Goto, Return, Finish, ThreadInv
<1>3. ThreadInv'
  BY DEF Lock, IndInv, TypeOK, ThreadInv, Goto, Return, Finish, Answered
<1>4. OneClosure'
  BY DEF Lock, IndInv, TypeOK, OneClosure, Goto, Return, Finish
<1>5. LockInv'
  BY NoneAssumption DEF Lock, IndInv, TypeOK, LockInv, Goto, Return, Finish,
     Inside
<1>6. SetterInv'
  BY DEF Lock, IndInv, TypeOK, SetterInv, Goto, Return, Finish, Inside
<1>7. AwaitInv'
  BY DEF Lock, IndInv, TypeOK, AwaitInv, Goto, Return, Finish
<1>8. InboxInv' /\ DeadInv' /\ CauseInv' /\ ResultHasCause'
  BY DEF Lock, IndInv, InboxInv, DeadInv, CauseInv, ResultHasCause, Goto,
     Return, Finish, Answered
<1>9. ExpiryInv'
  BY DEF Lock, IndInv, TypeOK, ExpiryInv, Goto, Return, Finish, ThreadInv
<1> QED
  BY <1>1, <1>2, <1>3, <1>4, <1>5, <1>6, <1>7, <1>8, <1>9 DEF IndInv

\* Preserved: set erases the node and stores the message.
LEMMA ErasePreserves ==
  ASSUME IndInv, NEW t \in Threads, Erase(t)
  PROVE  IndInv'
<1>1. TypeOK'
  BY DEF Erase, IndInv, TypeOK, Goto, CallerPC, ThreadPC, Jobs, Outcomes,
     Owning, ThreadInv
<1>2. CallerInv'
  BY DEF Erase, IndInv, TypeOK, CallerInv, Goto, ThreadInv
<1>3. ThreadInv'
  BY DEF Erase, IndInv, TypeOK, ThreadInv, Goto, Answered
<1>4. LockInv'
  BY NoneAssumption DEF Erase, IndInv, TypeOK, LockInv, Goto, Inside
<1>5. SetterInv'
  BY DEF Erase, IndInv, TypeOK, SetterInv, Goto, Inside, LockInv, AwaitInv,
     ThreadInv
<1>6. AwaitInv'
  BY DEF Erase, IndInv, TypeOK, AwaitInv, Goto, SetterInv, Inside, ThreadInv
<1>7. DeadInv'
  BY DEF Erase, IndInv, TypeOK, DeadInv, Goto
<1>8. CauseInv'
  BY DEF Erase, IndInv, TypeOK, CauseInv, ExpiryInv, Goto, ThreadInv,
     Answered, Jobs
<1>9. InboxInv' /\ OneClosure' /\ ResultHasCause'
  BY DEF Erase, IndInv, InboxInv, OneClosure, ResultHasCause, Goto, Answered
<1>10. ExpiryInv'
  BY DEF Erase, IndInv, TypeOK, ExpiryInv, Goto
<1> QED
  BY <1>1, <1>2, <1>3, <1>4, <1>5, <1>6, <1>7, <1>8, <1>9, <1>10 DEF IndInv

\* Preserved: set cancels the timer.
LEMMA CancelPreserves ==
  ASSUME IndInv, NEW t \in Threads, Cancel(t)
  PROVE  IndInv'
<1>1. TypeOK'
  BY DEF Cancel, IndInv, TypeOK, Goto, CancelTimer, CallerPC, ThreadPC, Jobs,
     Outcomes, Owning, ThreadInv
<1>2. CallerInv'
  BY DEF Cancel, IndInv, TypeOK, CallerInv, Goto, CancelTimer
<1>3. ThreadInv'
  BY DEF Cancel, IndInv, TypeOK, ThreadInv, Goto, CancelTimer, Answered
<1>4. LockInv'
  BY NoneAssumption DEF Cancel, IndInv, TypeOK, LockInv, Goto, CancelTimer,
     Inside
<1>5. SetterInv'
  BY DEF Cancel, IndInv, TypeOK, SetterInv, Goto, CancelTimer, Inside
<1>6. AwaitInv'
  BY DEF Cancel, IndInv, TypeOK, AwaitInv, Goto, CancelTimer
<1>7. DeadInv'
  BY DEF Cancel, IndInv, TypeOK, DeadInv, Goto, CancelTimer
<1>8. CauseInv'
  BY DEF Cancel, IndInv, TypeOK, CauseInv, Goto, CancelTimer, Answered
<1>9. ResultHasCause'
  BY DEF Cancel, IndInv, TypeOK, ResultHasCause, Goto, CancelTimer, Answered
<1>10. InboxInv' /\ OneClosure'
  BY DEF Cancel, IndInv, InboxInv, OneClosure, Goto
<1>11. ExpiryInv'
  BY DEF Cancel, IndInv, TypeOK, ExpiryInv, Goto, CancelTimer
<1> QED
  BY <1>1, <1>2, <1>3, <1>4, <1>5, <1>6, <1>7, <1>8, <1>9, <1>10, <1>11 DEF
     IndInv

\* Preserved: set resumes the coroutine.
LEMMA ResumePreserves ==
  ASSUME IndInv, NEW t \in Threads, Resume(t)
  PROVE  IndInv'
<1>1. TypeOK'
  <2>1. /\ cur[t] \in Requests
        /\ value[cur[t]] \in Outcomes \cup {"none"}
        /\ CancelTimer(wait[cur[t]]) \in Owning \cup {"none", "done"}
    BY DEF Resume, DestroyAwaiter, AwaitResume, IndInv, TypeOK, ThreadInv,
       CancelTimer, Owning
  <2>2. /\ resumes' \in [Requests -> Nat]
        /\ pc' \in [Threads -> ThreadPC]
    BY <2>1 DEF Resume, DestroyAwaiter, AwaitResume, IndInv, TypeOK, Goto,
       ThreadPC
  <2>3. CASE awaiter[cur[t]]
    <3>1. /\ awaiter' = [awaiter EXCEPT ![cur[t]] = FALSE]
          /\ wait' = [wait EXCEPT ![cur[t]] = CancelTimer(@)]
          /\ \/ result' = result
             \/ result' = [result EXCEPT ![cur[t]] = value[cur[t]]]
      BY <2>3 DEF Resume, DestroyAwaiter, AwaitResume
    <3> QED
      BY <2>1, <2>2, <3>1 DEF Resume, DestroyAwaiter, AwaitResume, IndInv,
         TypeOK, Goto
  <2>4. CASE ~awaiter[cur[t]]
    BY <2>2, <2>4 DEF Resume, DestroyAwaiter, AwaitResume, IndInv, TypeOK,
       Goto
  <2> QED
    BY <2>3, <2>4
<1>2. CallerInv'
  BY DEF Resume, DestroyAwaiter, AwaitResume, IndInv, TypeOK, CallerInv,
     Goto, CancelTimer, Owning, ThreadInv
<1>3. ThreadInv'
  BY DEF Resume, DestroyAwaiter, AwaitResume, IndInv, TypeOK, ThreadInv,
     Goto, CancelTimer, Owning, Answered, DeadInv, CallerInv, Jobs
<1>4. LockInv'
  BY NoneAssumption DEF Resume, DestroyAwaiter, AwaitResume, IndInv, TypeOK,
     LockInv, Goto, CancelTimer, Owning, Inside
<1>5. SetterInv'
  BY DEF Resume, DestroyAwaiter, AwaitResume, IndInv, TypeOK, SetterInv,
     Goto, CancelTimer, Owning, Inside, ThreadInv, LockInv
<1>6. AwaitInv'
  BY DEF Resume, DestroyAwaiter, AwaitResume, IndInv, TypeOK, AwaitInv, Goto,
     CancelTimer, SetterInv, Inside, ThreadInv, LockInv
<1>7. DeadInv'
  BY DEF Resume, DestroyAwaiter, AwaitResume, IndInv, TypeOK, DeadInv, Goto,
     CancelTimer, Owning
<1>8. CauseInv'
  BY DEF Resume, DestroyAwaiter, AwaitResume, IndInv, TypeOK, CauseInv, Goto,
     CancelTimer, Owning, Answered
<1>9. ResultHasCause'
  BY DEF Resume, DestroyAwaiter, AwaitResume, IndInv, TypeOK, ResultHasCause,
     Goto, CancelTimer, Answered, CauseInv, ThreadInv, DeadInv, CallerInv
<1>10. InboxInv' /\ OneClosure'
  BY DEF Resume, DestroyAwaiter, AwaitResume, IndInv, InboxInv, OneClosure,
     Goto
<1>11. ExpiryInv'
  BY DEF Resume, IndInv, TypeOK, ExpiryInv, DestroyAwaiter, AwaitResume, Goto,
     CancelTimer
<1> QED
  BY <1>1, <1>2, <1>3, <1>4, <1>5, <1>6, <1>7, <1>8, <1>9, <1>10, <1>11 DEF
     IndInv

\* Preserved: set returns.
LEMMA UnlockPreserves ==
  ASSUME IndInv, NEW t \in Threads, Unlock(t)
  PROVE  IndInv'
<1>1. TypeOK'
  BY DEF Unlock, IndInv, TypeOK, Return, Goto, Finish, CallerPC, ThreadPC,
     Jobs, Outcomes, Owning, ThreadInv
<1>2. CallerInv'
  BY DEF Unlock, IndInv, TypeOK, CallerInv, Return, Goto, Finish
<1>3. ThreadInv'
  BY DEF Unlock, IndInv, TypeOK, ThreadInv, Return, Goto, Finish, Answered
<1>4. OneClosure'
  BY DEF Unlock, IndInv, TypeOK, OneClosure, Return, Goto, Finish
<1>5. LockInv'
  BY NoneAssumption DEF Unlock, IndInv, TypeOK, LockInv, Return, Goto,
     Finish, Inside
<1>6. SetterInv'
  BY DEF Unlock, IndInv, TypeOK, SetterInv, Return, Goto, Finish, Inside
<1>7. AwaitInv'
  BY DEF Unlock, IndInv, TypeOK, AwaitInv, Return, Goto, Finish
<1>8. InboxInv' /\ DeadInv' /\ CauseInv' /\ ResultHasCause'
  BY DEF Unlock, IndInv, InboxInv, DeadInv, CauseInv, ResultHasCause, Return,
     Goto, Finish, Answered
<1>9. ExpiryInv'
  BY DEF Unlock, IndInv, TypeOK, ExpiryInv, Return, Goto, Finish
<1> QED
  BY <1>1, <1>2, <1>3, <1>4, <1>5, <1>6, <1>7, <1>8, <1>9 DEF IndInv

\* Preserved: the timer's closure is destroyed.
LEMMA DropPreserves ==
  ASSUME IndInv, NEW t \in Threads, Drop(t)
  PROVE  IndInv'
<1>1. TypeOK'
  BY DEF Drop, DestroyTimedMessage, IndInv, TypeOK, Finish, CallerPC,
     ThreadPC, Jobs, Outcomes, Owning, ThreadInv
<1>2. CallerInv'
  BY NoneAssumption DEF Drop, DestroyTimedMessage, IndInv, TypeOK, CallerInv,
     Finish, ThreadInv, Jobs, LockInv, Inside
<1>3. ThreadInv'
  BY NoneAssumption DEF Drop, DestroyTimedMessage, IndInv, TypeOK, ThreadInv,
     Finish, OneClosure, Answered, Jobs, LockInv, Inside
<1>4. OneClosure'
  BY DEF Drop, DestroyTimedMessage, IndInv, TypeOK, OneClosure, Finish
<1>5. LockInv'
  BY NoneAssumption DEF Drop, DestroyTimedMessage, IndInv, TypeOK, LockInv,
     Finish, Inside
<1>6. SetterInv'
  BY DEF Drop, DestroyTimedMessage, IndInv, TypeOK, SetterInv, Finish,
     Inside, ThreadInv
<1>7. AwaitInv'
  BY DEF Drop, DestroyTimedMessage, IndInv, TypeOK, AwaitInv, Finish
<1>8. DeadInv'
  BY NoneAssumption DEF Drop, DestroyTimedMessage, IndInv, TypeOK, DeadInv,
     Finish, AwaitInv, LockInv, ThreadInv, Inside, Jobs
<1>9. CauseInv'
  BY DEF Drop, DestroyTimedMessage, IndInv, TypeOK, CauseInv, Finish,
     Answered
<1>10. ResultHasCause'
  BY DEF Drop, DestroyTimedMessage, IndInv, TypeOK, ResultHasCause, Finish,
     Answered
<1>11. InboxInv'
  BY DEF Drop, DestroyTimedMessage, IndInv, InboxInv, Finish
<1>12. ExpiryInv'
  BY DEF Drop, IndInv, TypeOK, ExpiryInv, DestroyTimedMessage, Finish
<1> QED
  BY <1>1, <1>2, <1>3, <1>4, <1>5, <1>6, <1>7, <1>8, <1>9, <1>10, <1>11, <1>12
     DEF IndInv

\* Preserved: a step that changes nothing.
LEMMA StutterPreserves ==
  ASSUME IndInv, UNCHANGED vars
  PROVE  IndInv'
  BY DEF vars, IndInv, TypeOK, CallerInv, InboxInv, ThreadInv, OneClosure,
     LockInv, SetterInv, AwaitInv, DeadInv, ExpiryInv, CauseInv,
     ResultHasCause, Answered, Inside

\* The invariant holds in every reachable state of the requester.
THEOREM Invariance == Spec => []IndInv
<1>1. Init => IndInv
  BY InitInv
<1>2. IndInv /\ [Next]_vars => IndInv'
  <2> SUFFICES ASSUME IndInv, [Next]_vars
               PROVE  IndInv'
    OBVIOUS
  <2>1. ASSUME NEW r \in Requests, CallerStep(r)
        PROVE  IndInv'
    BY <2>1, CallPreserves, RequestPreserves, SendPreserves, ArmPreserves DEF
       CallerStep
  <2>2. ASSUME NEW r \in Requests, Peer(r)
        PROVE  IndInv'
    BY <2>2, PeerSendsPreserves DEF Peer
  <2>3. ASSUME NEW r \in Requests, Expire(r)
        PROVE  IndInv'
    BY <2>3, ExpirePreserves
  <2>4. ASSUME NEW r \in Requests, RunTimer(r)
        PROVE  IndInv'
    BY <2>4, TakeTimerPreserves DEF RunTimer
  <2>5. ASSUME NEW m \in inbox, RunMessage(m)
        PROVE  IndInv'
    <3>1. m \in Messages
      BY DEF IndInv, TypeOK
    <3> QED
      BY <2>5, <3>1, TakeMessagePreserves DEF RunMessage
  <2>6. ASSUME NEW t \in Threads, ThreadStep(t)
        PROVE  IndInv'
    BY <2>6, FindPreserves, LockPreserves, ErasePreserves, CancelPreserves,
       ResumePreserves, UnlockPreserves, DropPreserves DEF ThreadStep
  <2>7. CASE UNCHANGED vars
    BY <2>7, StutterPreserves
  <2> QED
    BY <2>1, <2>2, <2>3, <2>4, <2>5, <2>6, <2>7 DEF Next
<1> QED
  BY <1>1, <1>2, PTL DEF Spec

-----------------------------------------------------------------------------
(* What follows from the invariant. *)

\* Every variable keeps its type.
THEOREM TypeCorrect == Spec => []TypeOK
  BY Invariance, PTL DEF IndInv

\* At most one thread is inside set() of a live TimedMessage, with its lock.
THEOREM Exclusive == Spec => []SetIsExclusive
<1>1. IndInv => SetIsExclusive
  BY NoneAssumption DEF IndInv, TypeOK, LockInv, SetIsExclusive, Setters
<1> QED
  BY <1>1, Invariance, PTL

\* A coroutine is resumed at most once while its TimedMessage is alive.
THEOREM ResumedOnceAlive == Spec => []ResumedOnceWhileAlive
<1>1. IndInv => ResumedOnceWhileAlive
  BY DEF IndInv, TypeOK, AwaitInv, ResumedOnceWhileAlive
<1> QED
  BY <1>1, Invariance, PTL

\* The handler of the timer never blocks itself on its own lock.
THEOREM TimerSafe == Spec => []TimerNeverStuck
<1>1. IndInv => TimerNeverStuck
  BY DEF IndInv, ThreadInv, TimerNeverStuck
<1> QED
  BY <1>1, Invariance, PTL

\* Whoever owns a share of a TimedMessage finds it alive.
THEOREM OwnersSafe == Spec => []OwnersSeeLiveObject
<1>1. IndInv => OwnersSeeLiveObject
  BY DEF IndInv, TypeOK, CallerInv, DeadInv, ThreadInv, OwnersSeeLiveObject
<1> QED
  BY <1>1, Invariance, PTL

\* A result has a cause: the peer's Response or the expired timer.
THEOREM Caused == Spec => []ResultHasCause
  BY Invariance, PTL DEF IndInv

\* What m_response holds first it holds until the object is destroyed.
THEOREM FirstValueWins == Spec => FirstWins
<1> DEFINE Keeps == \A r \in Requests :
             value[r] # "none" /\ life'[r] = "alive" => value'[r] = value[r]
<1>1. IndInv /\ [Next]_vars => [Keeps]_vars
  <2> SUFFICES ASSUME IndInv, Next
               PROVE  Keeps
    OBVIOUS
  <2>1. ASSUME NEW t \in Threads, Erase(t)
        PROVE  Keeps
    BY <2>1 DEF Erase, IndInv, TypeOK, ThreadInv, SetterInv, Inside
  <2>2. ASSUME NEW t \in Threads, Drop(t)
        PROVE  Keeps
    BY <2>2 DEF Drop, DestroyTimedMessage, IndInv, TypeOK, ThreadInv
  <2>3. CASE UNCHANGED value
    BY <2>3
  <2> QED
    BY <2>1, <2>2, <2>3 DEF Next, CallerStep, Call, Request, Send, Arm, Peer,
       PeerSends, Expire, RunTimer, TakeTimer, RunMessage, TakeMessage,
       ThreadStep, Find, Lock, Cancel, Resume, Unlock
<1> QED
  BY <1>1, Invariance, PTL DEF Spec, FirstWins

-----------------------------------------------------------------------------
(* The requester implements Completion. *)

Called == [r \in Requests |-> cpc[r] \in {"arm", "suspended"}]

\* A step that touches neither what was sent, nor the outcomes, nor the
\* results is invisible to Completion.
LEMMA Invisible ==
  ASSUME UNCHANGED <<Called, Outcome, result>>
  PROVE  UNCHANGED Abstract!vars
  BY DEF Called, Abstract!vars

\* Sending the message is Completion's Call.
LEMMA SendCalls ==
  ASSUME IndInv, NEW r \in Requests, Send(r)
  PROVE  Abstract!Call(r)
<1>1. /\ ~Called[r]
      /\ Called' = [Called EXCEPT ![r] = TRUE]
      /\ UNCHANGED <<Outcome, result>>
  BY DEF Send, Called, Outcome, IndInv, TypeOK
<1> QED
  BY <1>1 DEF Abstract!Call, Called

\* Storing the response in a live object is Completion's Settle; in a
\* destroyed one it is invisible.
LEMMA EraseSettles ==
  ASSUME IndInv, NEW t \in Threads, Erase(t)
  PROVE  Abstract!Settle(cur[t]) \/ UNCHANGED Abstract!vars
<1>1. /\ cur[t] \in Requests
      /\ cpc[cur[t]] \in {"arm", "suspended"}
      /\ UNCHANGED <<cpc, result, life>>
      /\ life[cur[t]] \in {"alive", "dead"}
  BY DEF Erase, IndInv, TypeOK, ThreadInv, CallerInv
<1>2. Called[cur[t]] /\ UNCHANGED Called
  BY <1>1 DEF Called
<1>3. CASE life[cur[t]] = "alive"
  <2>1. Outcome[cur[t]] = "none"
    BY <1>1, <1>3 DEF Erase, Outcome, IndInv, SetterInv, Inside
  <2>2. PICK o \in {"answer", "timeout"} :
           value' = [value EXCEPT ![cur[t]] = o]
    BY DEF Erase
  <2>3. Outcome' = [Outcome EXCEPT ![cur[t]] = o]
    BY <1>1, <1>3, <2>2 DEF Outcome, IndInv, TypeOK
  <2> QED
    BY <1>1, <1>2, <2>1, <2>3 DEF Abstract!Settle, Abstract!Outcomes, Called
<1>4. CASE life[cur[t]] = "dead"
  <2>1. UNCHANGED Outcome
    BY <1>1, <1>4 DEF Erase, Outcome, IndInv, TypeOK
  <2> QED
    BY <1>1, <1>2, <2>1, Invisible
<1> QED
  BY <1>1, <1>3, <1>4

\* Resuming the coroutine is Completion's Deliver, unless the coroutine
\* blocks or is past its co_await already.
LEMMA ResumeDelivers ==
  ASSUME IndInv, NEW t \in Threads, Resume(t)
  PROVE  Abstract!Deliver(cur[t]) \/ UNCHANGED Abstract!vars
<1>1. cur[t] \in Requests /\ UNCHANGED <<cpc, life, value>>
  BY DEF Resume, DestroyAwaiter, AwaitResume, IndInv, ThreadInv
<1>2. CASE result' = result
  <2>1. UNCHANGED <<Called, Outcome>>
    BY <1>1, <1>2 DEF Called, Outcome
  <2> QED
    BY <1>2, <2>1, Invisible
<1>3. CASE /\ awaiter[cur[t]]
           /\ result' = [result EXCEPT ![cur[t]] = value[cur[t]]]
  <2>1. life[cur[t]] = "alive"
    BY <1>1, <1>3 DEF Resume, DestroyAwaiter, AwaitResume, IndInv, TypeOK,
       ThreadInv, CallerInv, DeadInv
  <2>2. /\ Outcome[cur[t]] = value[cur[t]]
        /\ value[cur[t]] # "none"
        /\ result[cur[t]] = "none"
    BY <1>1, <1>3, <2>1 DEF Resume, DestroyAwaiter, AwaitResume, Outcome,
       IndInv, SetterInv, AwaitInv, Inside
  <2>3. UNCHANGED <<Called, Outcome>>
    BY <1>1, <1>3, <2>1 DEF Called, Outcome, IndInv, TypeOK
  <2> QED
    BY <1>3, <2>2, <2>3 DEF Abstract!Deliver, Called
<1> QED
  BY <1>2, <1>3 DEF Resume, AwaitResume

\* Destroying the object is invisible: what it held has been delivered.
LEMMA DropInvisible ==
  ASSUME IndInv, NEW t \in Threads, Drop(t)
  PROVE  UNCHANGED Abstract!vars
<1>1. cur[t] \in Requests /\ life[cur[t]] = "alive"
  BY DEF Drop, DestroyTimedMessage, IndInv, TypeOK, ThreadInv, Jobs
<1>2. life'[cur[t]] = "dead" => result[cur[t]] = value[cur[t]]
  BY <1>1, NoneAssumption DEF Drop, DestroyTimedMessage, IndInv, TypeOK,
     AwaitInv, LockInv, Inside
<1>3. UNCHANGED <<Called, Outcome, result>>
  BY <1>1, <1>2 DEF Drop, DestroyTimedMessage, Called, Outcome, IndInv,
     TypeOK
<1> QED
  BY <1>3, Invisible

\* Every step of the requester is a step of Completion or invisible to it.
THEOREM Refinement == Spec => ImplementsCompletion
<1>1. Init => Abstract!Init
  <2> SUFFICES ASSUME Init
               PROVE  Abstract!Init
    OBVIOUS
  <2>1. \A r \in Requests : (cpc[r] \in {"arm", "suspended"}) = FALSE
    BY DEF Init
  <2>2. Called = [r \in Requests |-> FALSE]
    BY <2>1, Zenon DEF Called
  <2>3. Outcome = [r \in Requests |-> "none"]
    BY DEF Init, Outcome
  <2> QED
    BY <2>2, <2>3 DEF Init, Abstract!Init, Called
<1>2. IndInv /\ [Next]_vars => [Abstract!Next]_(Abstract!vars)
  <2> SUFFICES ASSUME IndInv, [Next]_vars
               PROVE  Abstract!Next \/ UNCHANGED Abstract!vars
    OBVIOUS
  <2>1. ASSUME NEW t \in Threads, pc[t] # "idle"
        PROVE  cur[t] \in Requests
    BY <2>1 DEF IndInv, ThreadInv
  <2>2. ASSUME NEW r \in Requests, Send(r)
        PROVE  Abstract!Next
    BY <2>2, SendCalls DEF Abstract!Next
  <2>3. ASSUME NEW t \in Threads, Erase(t)
        PROVE  Abstract!Next \/ UNCHANGED Abstract!vars
    BY <2>1, <2>3, EraseSettles DEF Abstract!Next, Erase
  <2>4. ASSUME NEW t \in Threads, Resume(t)
        PROVE  Abstract!Next \/ UNCHANGED Abstract!vars
    BY <2>1, <2>4, ResumeDelivers DEF Abstract!Next, Resume
  <2>5. ASSUME NEW t \in Threads, Drop(t)
        PROVE  UNCHANGED Abstract!vars
    BY <2>5, DropInvisible
  <2>6. ASSUME NEW r \in Requests, Call(r) \/ Request(r) \/ Arm(r)
        PROVE  UNCHANGED Abstract!vars
    <3>1. UNCHANGED <<Called, Outcome, result>>
      BY <2>6 DEF Call, Request, CoAwait, Arm, Called, Outcome, IndInv,
         TypeOK, CallerInv
    <3> QED
      BY <3>1, Invisible
  <2>7. CASE UNCHANGED <<cpc, life, value, result>>
    <3>1. UNCHANGED <<Called, Outcome, result>>
      BY <2>7 DEF Called, Outcome
    <3> QED
      BY <3>1, Invisible
  <2> QED
    BY <2>2, <2>3, <2>4, <2>5, <2>6, <2>7 DEF Next, CallerStep, Peer,
       PeerSends, Expire, RunTimer, TakeTimer, RunMessage, TakeMessage,
       ThreadStep, Find, Lock, Cancel, Unlock, vars
<1> QED
  BY <1>1, <1>2, Invariance, PTL DEF Spec, ImplementsCompletion,
     Abstract!Spec

=============================================================================
