------------------------------ MODULE Requester ------------------------------
(***************************************************************************)
(* ztstl::message::Requester and its TimedMessage (source/message/         *)
(* Requester.cpp): requests that a coroutine awaits, completed by the      *)
(* first of a Response read from the session and a timer, on a pool of     *)
(* threads that all run the same io_context.                               *)
(*                                                                         *)
(* The TimedMessage of request r is one object, shared between its node in *)
(* the map of pending requests, the Awaiter in the coroutine's frame and   *)
(* the closure of the timer.  Its destructor takes the lock that set()     *)
(* holds while it resumes the coroutine, and the read handler uses it      *)
(* without owning it: both are modelled here as the code has them.         *)
(***************************************************************************)
EXTENDS Naturals, FiniteSets

CONSTANTS
  Requests,    \* requests, each with its own id (message::next_id)
  Threads,     \* pool threads that run the io_context
  None,        \* no thread, no request
  MaxAnswers   \* bound: MaxAnswers[r] messages the peer sends about request r

ASSUME NoneAssumption == None \notin Requests \cup Threads
ASSUME MaxAnswersAssumption == MaxAnswers \in [Requests -> Nat]

VARIABLES
  cpc,      \* cpc[r]: where the coroutine that awaits r is
  entry,    \* entry[r]: the node of r in m_timedMessages
  life,     \* life[r]: the lifetime of the TimedMessage of r
  value,    \* value[r]: m_response of that object
  lock,     \* lock[r]: the thread that holds the lock of m_response
  awaiter,  \* awaiter[r]: the Awaiter of r exists and owns the object
  wait,     \* wait[r]: the timer's wait and its closure
  expired,  \* history: the requests whose duration has passed
  sent,     \* the messages the peer has sent
  inbox,    \* read handlers posted to the context and not yet run
  resumes,  \* resumes[r]: number of m_handle.resume() of r
  result,   \* result[r]: what the co_await of r returned
  pc,       \* pc[t]: where pool thread t is
  job,      \* job[t]: the kind of handler thread t runs
  cur       \* cur[t]: the request that handler is about

threadVars == <<pc, job, cur>>
vars == <<cpc, entry, life, value, lock, awaiter, wait, expired, sent, inbox,
          resumes, result, pc, job, cur>>

CallerPC == {"idle", "request", "send", "arm", "suspended"}
ThreadPC == {"idle", "find", "lock", "erase", "cancel", "resume", "unlock",
             "drop", "stuck"}
Jobs == {"none", "message", "timer"}
Outcomes == {"answer", "timeout"}

\* "Other" is every message the handler ignores: another type, or text that
\* serde::from_json refuses with an exception.
MessageTypes == {"Response", "Other"}
Messages == UNION {[of : {r}, seq : 1..MaxAnswers[r], type : MessageTypes] :
                    r \in Requests}

\* A closure that is in one of these states owns the TimedMessage.
Owning == {"armed", "fired", "aborted", "running"}

TypeOK ==
  /\ cpc \in [Requests -> CallerPC]
  /\ entry \in [Requests -> {"none", "linked", "lost"}]
  /\ life \in [Requests -> {"unborn", "alive", "dead"}]
  /\ value \in [Requests -> Outcomes \cup {"none"}]
  /\ lock \in [Requests -> Threads \cup {None}]
  /\ awaiter \in [Requests -> BOOLEAN]
  /\ wait \in [Requests -> Owning \cup {"none", "done"}]
  /\ expired \subseteq Requests
  /\ sent \subseteq Messages
  /\ inbox \subseteq sent
  /\ resumes \in [Requests -> Nat]
  /\ result \in [Requests -> Outcomes \cup {"none"}]
  /\ pc \in [Threads -> ThreadPC]
  /\ job \in [Threads -> Jobs]
  /\ cur \in [Threads -> Requests \cup {None}]

Init ==
  /\ cpc = [r \in Requests |-> "idle"]
  /\ entry = [r \in Requests |-> "none"]
  /\ life = [r \in Requests |-> "unborn"]
  /\ value = [r \in Requests |-> "none"]
  /\ lock = [r \in Requests |-> None]
  /\ awaiter = [r \in Requests |-> FALSE]
  /\ wait = [r \in Requests |-> "none"]
  /\ expired = {}
  /\ sent = {}
  /\ inbox = {}
  /\ resumes = [r \in Requests |-> 0]
  /\ result = [r \in Requests |-> "none"]
  /\ pc = [t \in Threads |-> "idle"]
  /\ job = [t \in Threads |-> "none"]
  /\ cur = [t \in Threads |-> None]

-----------------------------------------------------------------------------
(***************************************************************************)
(* m_timedMessages is a std::map that callers and pool threads use without *)
(* a lock.  When a write overlaps another write its node may be left out   *)
(* of the tree (it still owns its TimedMessage), or left in it; a search   *)
(* that overlaps a write may miss.  Outcomes that end the process are left *)
(* out: nothing can be said after them.                                    *)
(***************************************************************************)
CallersWriting(r) == {q \in Requests \ {r} : cpc[q] = "request"}
ThreadsWriting(t) == {u \in Threads \ {t} : pc[u] = "erase"}

EmplaceRace(r) == CallersWriting(r) # {} \/ ThreadsWriting(None) # {}
ThreadRace(t) == CallersWriting(None) # {} \/ ThreadsWriting(t) # {}

\* deadline_timer::cancel: a wait that has not expired is completed as aborted
CancelTimer(w) == IF w = "armed" THEN "aborted" ELSE w

\* Thread t is back in io_context::run.
Finish(t) ==
  /\ pc' = [pc EXCEPT ![t] = "idle"]
  /\ job' = [job EXCEPT ![t] = "none"]
  /\ cur' = [cur EXCEPT ![t] = None]

Goto(t, label) ==
  /\ pc' = [pc EXCEPT ![t] = label]
  /\ UNCHANGED <<job, cur>>

\* The handler of thread t returns.  The io_context then destroys a timer's
\* closure, and with it the share that the closure holds.
Return(t) == IF job[t] = "timer" THEN Goto(t, "drop") ELSE Finish(t)

Begin(t, r, kind, label) ==
  /\ pc' = [pc EXCEPT ![t] = label]
  /\ job' = [job EXCEPT ![t] = kind]
  /\ cur' = [cur EXCEPT ![t] = r]

-----------------------------------------------------------------------------
(* The coroutine's own thread, up to its suspension. *)

\* The coroutine is about to call request(message).
Call(r) ==
  /\ cpc[r] = "idle"
  /\ cpc' = [cpc EXCEPT ![r] = "request"]
  /\ UNCHANGED <<entry, life, value, lock, awaiter, wait, expired, sent,
                 inbox, resumes, result, pc, job, cur>>

\* operator co_await makes an Awaiter with a share of the object; it is never
\* ready.
CoAwait(r) == awaiter' = [awaiter EXCEPT ![r] = TRUE]

\* request() makes the TimedMessage and emplaces it in the map, and the caller
\* awaits it.
Request(r) ==
  /\ cpc[r] = "request"
  /\ cpc' = [cpc EXCEPT ![r] = "send"]
  /\ life' = [life EXCEPT ![r] = "alive"]
  /\ \/ entry' = [entry EXCEPT ![r] = "linked"]
     \/ /\ EmplaceRace(r)
        /\ entry' = [entry EXCEPT ![r] = "lost"]
  /\ CoAwait(r)
  /\ UNCHANGED <<value, lock, wait, expired, sent, inbox, resumes, result, pc,
                 job, cur>>

\* await_suspend stores the coroutine's handle and sends the message.
Send(r) ==
  /\ cpc[r] = "send"
  /\ cpc' = [cpc EXCEPT ![r] = "arm"]
  /\ UNCHANGED <<entry, life, value, lock, awaiter, wait, expired, sent,
                 inbox, resumes, result, pc, job, cur>>

\* Mutant: await_suspend sends the message and starts no timer.
ArmNoTimer(r) ==
  /\ cpc[r] = "arm"
  /\ cpc' = [cpc EXCEPT ![r] = "suspended"]
  /\ UNCHANGED <<entry, life, value, lock, awaiter, wait, expired, sent,
                 inbox, resumes, result, pc, job, cur>>

\* await_suspend starts the timer, whose closure owns the TimedMessage.  The
\* answer may be here already; then the thread that resumed the coroutine is
\* blocked inside the Awaiter's destructor and the object is still in memory.
\* (After a map race the coroutine may even be past it: this thread then reads
\* the memory of a destroyed Awaiter, modelled as still intact.)
Arm(r) ==
  /\ cpc[r] = "arm"
  /\ cpc' = [cpc EXCEPT ![r] = "suspended"]
  /\ wait' = [wait EXCEPT ![r] = "armed"]
  /\ UNCHANGED <<entry, life, value, lock, awaiter, expired, sent, inbox,
                 resumes, result, pc, job, cur>>

-----------------------------------------------------------------------------
(* The peer and the clock. *)

\* The peer sends a message that carries the id of r: the answer, a second
\* answer, or something else.  The session posts the handler to the context.
Numbered(r) == {m.seq : m \in {n \in sent : n.of = r}}

PeerSends(r, m) ==
  /\ cpc[r] \in {"arm", "suspended"}
  /\ m.of = r
  /\ m.seq \notin Numbered(r)
  /\ 1..(m.seq - 1) \subseteq Numbered(r)
  /\ sent' = sent \cup {m}
  /\ inbox' = inbox \cup {m}
  /\ UNCHANGED <<cpc, entry, life, value, lock, awaiter, wait, expired,
                 resumes, result, pc, job, cur>>

\* The duration of the request passes.
Expire(r) ==
  /\ wait[r] = "armed"
  /\ wait' = [wait EXCEPT ![r] = "fired"]
  /\ expired' = expired \cup {r}
  /\ UNCHANGED <<cpc, entry, life, value, lock, awaiter, sent, inbox, resumes,
                 result, pc, job, cur>>

-----------------------------------------------------------------------------
(* A pool thread. *)

\* Mutant: the handler does not look at the type of the message.
TakeMessageAnyType(t, m) ==
  /\ pc[t] = "idle"
  /\ m \in inbox
  /\ inbox' = inbox \ {m}
  /\ Begin(t, m.of, "message", "find")
  /\ UNCHANGED <<cpc, entry, life, value, lock, awaiter, wait, expired, sent,
                 resumes, result>>

\* The read handler starts: it parses the message and returns at once unless
\* its type is Response.
TakeMessage(t, m) ==
  /\ pc[t] = "idle"
  /\ m \in inbox
  /\ inbox' = inbox \ {m}
  /\ IF m.type = "Response"
     THEN Begin(t, m.of, "message", "find")
     ELSE UNCHANGED threadVars
  /\ UNCHANGED <<cpc, entry, life, value, lock, awaiter, wait, expired, sent,
                 resumes, result>>

\* m_timedMessages->find(message.id): the handler keeps an iterator to the
\* node, and no share of the object in it.
Find(t) ==
  /\ pc[t] = "find"
  /\ \/ /\ entry[cur[t]] = "linked"
        /\ Goto(t, "lock")
     \/ /\ entry[cur[t]] # "linked" \/ ThreadRace(t)
        /\ Finish(t)
  /\ UNCHANGED <<cpc, entry, life, value, lock, awaiter, wait, expired, sent,
                 inbox, resumes, result>>

\* Mutant: the closure captures a raw pointer instead of a share.
TakeTimerRaw(t, r) ==
  /\ pc[t] = "idle"
  /\ \/ wait[r] = "fired" /\ Begin(t, r, "timer", "lock")
     \/ wait[r] = "aborted" /\ Begin(t, r, "timer", "drop")
  /\ wait' = [wait EXCEPT ![r] = "done"]
  /\ UNCHANGED <<cpc, entry, life, value, lock, awaiter, expired, sent, inbox,
                 resumes, result>>

\* The completion of the timer's wait: an aborted one returns at once, an
\* expired one calls set with the "timed out" response.
TakeTimer(t, r) ==
  /\ pc[t] = "idle"
  /\ \/ wait[r] = "fired" /\ Begin(t, r, "timer", "lock")
     \/ wait[r] = "aborted" /\ Begin(t, r, "timer", "drop")
  /\ wait' = [wait EXCEPT ![r] = "running"]
  /\ UNCHANGED <<cpc, entry, life, value, lock, awaiter, expired, sent, inbox,
                 resumes, result>>

\* Mutant: set tests has_value() without waiting for the lock.
LockNoWait(t) ==
  /\ pc[t] = "lock"
  /\ IF value[cur[t]] = "none"
     THEN lock' = [lock EXCEPT ![cur[t]] = t] /\ Goto(t, "erase")
     ELSE Return(t) /\ UNCHANGED lock
  /\ UNCHANGED <<cpc, entry, life, value, awaiter, wait, expired, sent, inbox,
                 resumes, result>>

\* Mutant: set does not test has_value().
LockNoTest(t) ==
  /\ pc[t] = "lock"
  /\ lock[cur[t]] = None
  /\ lock' = [lock EXCEPT ![cur[t]] = t]
  /\ Goto(t, "erase")
  /\ UNCHANGED <<cpc, entry, life, value, awaiter, wait, expired, sent, inbox,
                 resumes, result>>

\* TimedMessage::set up to its early return.  In a destroyed object the lock
\* is free and has_value() reads memory that was given back: either answer.
Lock(t) ==
  /\ pc[t] = "lock"
  /\ LET r == cur[t]
     IN  \/ /\ life[r] = "alive"
            /\ lock[r] = None
            /\ value[r] = "none"
            /\ lock' = [lock EXCEPT ![r] = t]
            /\ Goto(t, "erase")
         \/ /\ life[r] = "alive"
            /\ lock[r] = None
            /\ value[r] # "none"
            /\ Return(t)
            /\ UNCHANGED lock
         \/ /\ life[r] = "dead"
            /\ lock' = [lock EXCEPT ![r] = t]
            /\ Goto(t, "erase")
         \/ /\ life[r] = "dead"
            /\ Return(t)
            /\ UNCHANGED lock
  /\ UNCHANGED <<cpc, entry, life, value, awaiter, wait, expired, sent, inbox,
                 resumes, result>>

\* Mutant: set leaves the node in the map.
EraseForgotten(t) ==
  /\ pc[t] = "erase"
  /\ value' = [value EXCEPT ![cur[t]] = IF job[t] = "timer" THEN "timeout"
                                                            ELSE "answer"]
  /\ Goto(t, "cancel")
  /\ UNCHANGED <<cpc, entry, life, lock, awaiter, wait, expired, sent, inbox,
                 resumes, result>>

\* set erases the node from the map and stores the message.
Erase(t) ==
  /\ pc[t] = "erase"
  /\ LET r == cur[t]
     IN  /\ value' = [value EXCEPT ![r] = IF job[t] = "timer" THEN "timeout"
                                                              ELSE "answer"]
         /\ \/ entry' = [entry EXCEPT ![r] = IF @ = "linked" THEN "none" ELSE @]
            \/ ThreadRace(t) /\ UNCHANGED entry
  /\ Goto(t, "cancel")
  /\ UNCHANGED <<cpc, life, lock, awaiter, wait, expired, sent, inbox,
                 resumes, result>>

\* set cancels the timer.
Cancel(t) ==
  /\ pc[t] = "cancel"
  /\ wait' = [wait EXCEPT ![cur[t]] = CancelTimer(@)]
  /\ Goto(t, "resume")
  /\ UNCHANGED <<cpc, entry, life, value, lock, awaiter, expired, sent, inbox,
                 resumes, result>>

\* ~Awaiter cancels the timer and gives up its share.
DestroyAwaiter(r) ==
  /\ awaiter' = [awaiter EXCEPT ![r] = FALSE]
  /\ wait' = [wait EXCEPT ![r] = CancelTimer(@)]

\* await_resume returns a copy of the response.
AwaitResume(r) == result' = [result EXCEPT ![r] = value[r]]

\* set resumes the coroutine, on this thread and with the lock held.  The end
\* of the co_await expression destroys the Awaiter.  If its share was the last
\* one, ~TimedMessage waits for the lock that this very thread holds, and the
\* coroutine never gets past its co_await.
Resume(t) ==
  /\ pc[t] = "resume"
  /\ LET r == cur[t]
         last == entry[r] = "none" /\ CancelTimer(wait[r]) \notin Owning
     IN  /\ resumes' = [resumes EXCEPT ![r] = @ + 1]
         /\ IF awaiter[r]
            THEN /\ DestroyAwaiter(r)
                 /\ IF last
                    THEN Goto(t, "stuck") /\ UNCHANGED result
                    ELSE Goto(t, "unlock") /\ AwaitResume(r)
            ELSE \* the handle of a coroutine that is past this co_await
                 /\ Goto(t, "unlock")
                 /\ UNCHANGED <<awaiter, wait, result>>
  /\ UNCHANGED <<cpc, entry, life, value, lock, expired, sent, inbox>>

\* set returns.
Unlock(t) ==
  /\ pc[t] = "unlock"
  /\ lock' = [lock EXCEPT ![cur[t]] = None]
  /\ Return(t)
  /\ UNCHANGED <<cpc, entry, life, value, awaiter, wait, expired, sent, inbox,
                 resumes, result>>

\* ~TimedMessage takes the lock and resets the response.
DestroyTimedMessage(r) ==
  /\ lock[r] = None
  /\ life' = [life EXCEPT ![r] = "dead"]
  /\ value' = [value EXCEPT ![r] = "none"]

\* Mutant: the Awaiter holds a reference instead of a share.
DropIgnoresAwaiter(t) ==
  /\ pc[t] = "drop"
  /\ wait' = [wait EXCEPT ![cur[t]] = "done"]
  /\ IF entry[cur[t]] = "none"
     THEN /\ life' = [life EXCEPT ![cur[t]] = "dead"]
          /\ value' = [value EXCEPT ![cur[t]] = "none"]
     ELSE UNCHANGED <<life, value>>
  /\ Finish(t)
  /\ UNCHANGED <<cpc, entry, lock, awaiter, expired, sent, inbox, resumes,
                 result>>

\* The closure of a completed wait is destroyed, and the object with it if its
\* share was the last.
Drop(t) ==
  /\ pc[t] = "drop"
  /\ LET r == cur[t]
         last == entry[r] = "none" /\ ~awaiter[r]
     IN  /\ wait' = [wait EXCEPT ![r] = "done"]
         /\ IF last
            THEN DestroyTimedMessage(r)
            ELSE UNCHANGED <<life, value>>
  /\ Finish(t)
  /\ UNCHANGED <<cpc, entry, lock, awaiter, expired, sent, inbox, resumes,
                 result>>

-----------------------------------------------------------------------------
CallerStep(r) == Call(r) \/ Request(r) \/ Send(r) \/ Arm(r)

Peer(r) == \E m \in Messages : PeerSends(r, m)

ThreadStep(t) ==
  \/ Find(t) \/ Lock(t) \/ Erase(t) \/ Cancel(t) \/ Resume(t)
  \/ Unlock(t) \/ Drop(t)

RunMessage(m) == \E t \in Threads : TakeMessage(t, m)
RunTimer(r) == \E t \in Threads : TakeTimer(t, r)

Next ==
  \/ \E r \in Requests : CallerStep(r) \/ Peer(r) \/ Expire(r) \/ RunTimer(r)
  \/ \E m \in inbox : RunMessage(m)
  \/ \E t \in Threads : ThreadStep(t)

Spec == Init /\ [][Next]_vars

\* A started coroutine runs until it suspends, the clock advances, a posted
\* handler is run by some idle thread, and a running thread goes on unless it
\* waits for a lock.  Nothing obliges a coroutine to be started or the peer
\* to send anything.
Fairness ==
  /\ \A r \in Requests :
       /\ WF_vars(Request(r) \/ Send(r) \/ Arm(r))
       /\ WF_vars(Expire(r))
       /\ WF_vars(RunTimer(r))
  /\ \A m \in Messages : WF_vars(RunMessage(m))
  /\ \A t \in Threads : WF_vars(ThreadStep(t))

FairSpec == Spec /\ Fairness

-----------------------------------------------------------------------------
(* Properties. *)

\* The threads that are inside set() on r, past its early return.
Inside == {"erase", "cancel", "resume", "unlock", "stuck"}
Setters(r) == {t \in Threads : pc[t] \in Inside /\ cur[t] = r}

\* Requester.cpp:59-68.  While a TimedMessage is alive at most one thread is
\* inside set() past the has_value() test, it is the one that holds the lock,
\* and a lock that is held is held by such a thread.
SetIsExclusive ==
  \A r \in Requests : life[r] = "alive" =>
    Setters(r) = IF lock[r] = None THEN {} ELSE {lock[r]}

\* Requester.cpp:67.  A coroutine is never resumed a second time while its
\* TimedMessage is alive, whatever answers and timeouts race for it.
ResumedOnceWhileAlive ==
  \A r \in Requests : life[r] = "alive" => resumes[r] <= 1

\* Requester.cpp:54, 67, 95.  Only the read handler can block itself in the
\* destructor that runs under its own lock: the timer's handler never does,
\* because its closure keeps the object alive until set() has returned.
TimerNeverStuck ==
  \A t \in Threads : pc[t] = "stuck" => job[t] = "message"

\* Requester.cpp:54, 80, 95.  No timer closure, no Awaiter and no coroutine
\* on its way to suspension is ever left with a destroyed TimedMessage: only
\* the read handler, which holds no share of it, can meet one.
OwnersSeeLiveObject ==
  /\ \A r \in Requests : life[r] = "dead" =>
       /\ ~awaiter[r]
       /\ wait[r] = "done"
       /\ cpc[r] = "suspended"
       /\ result[r] # "none"
  /\ \A t \in Threads : job[t] = "timer" => life[cur[t]] = "alive"

\* The peer has answered r.
Answered(r) == \E m \in sent : m.of = r /\ m.type = "Response"

\* Requester.cpp:17-19, 96-101.  A coroutine is told "timed out" only if the
\* duration of its own request has passed, never because a wait was aborted,
\* and an answer only if the peer has sent a Response to this request.
ResultHasCause ==
  \A r \in Requests :
    /\ result[r] = "timeout" => r \in expired
    /\ result[r] = "answer" => Answered(r)

\* Requester.cpp:60-64.  What is first stored in m_response stays there until
\* the object is destroyed.
FirstWins ==
  [][\A r \in Requests :
       value[r] # "none" /\ life'[r] = "alive" => value'[r] = value[r]]_vars

\* The requester implements the promise of Completion: a request is settled
\* once, and what settled it is what its coroutine receives.
Outcome == [r \in Requests |-> IF life[r] = "dead" THEN result[r] ELSE value[r]]
Abstract == INSTANCE Completion
  WITH called <- [r \in Requests |-> cpc[r] \in {"arm", "suspended"}],
       outcome <- Outcome
ImplementsCompletion == Abstract!Spec

\* A request that the timer has settled is completed: the coroutine goes on.
TimeoutCompletes ==
  \A r \in Requests : value[r] = "timeout" ~> result[r] = "timeout"

\* A thread that will never run another handler: it waits for itself inside
\* a destructor, or for the lock of a TimedMessage that such a thread holds.
Blocked(t) ==
  \/ pc[t] = "stuck"
  \/ /\ pc[t] \in {"lock", "drop"}
     /\ lock[cur[t]] # None
     /\ pc[lock[cur[t]]] = "stuck"
PoolExhausted == \A t \in Threads : Blocked(t)

\* Requester.cpp:54, 59-68, 94-101.  Every awaited request is settled, by an
\* answer or at the latest by its timer, unless handlers that block themselves
\* take the last thread of the pool first.
Settles ==
  \A r \in Requests :
    cpc[r] = "suspended" ~> Outcome[r] # "none" \/ PoolExhausted

\* Requester.cpp:54, 63, 80, 95.  Once a coroutine has its result the
\* TimedMessage is destroyed: the node, the Awaiter and the closure all give it
\* up.  (For a request that no other overlaps: a race in the map can leave the
\* node behind, and then the object stays.)
Released ==
  \A r \in Requests :
    [](\A q \in Requests \ {r} : cpc[q] = "idle")
      => (result[r] # "none" ~> life[r] = "dead")

\* A request that the peer's answer has settled is completed.
AnswerCompletes ==
  \A r \in Requests :
    life[r] = "alive" /\ value[r] = "answer" ~> result[r] = "answer"

\* A coroutine is resumed once.
ResumedOnce == \A r \in Requests : resumes[r] <= 1

=============================================================================
