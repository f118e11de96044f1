--------------------------- MODULE ExchangeProofs ---------------------------
(***************************************************************************)
(* Proofs about Exchange, for any set of requests.                         *)
(***************************************************************************)
EXTENDS Exchange, SequenceTheorems, TLAPS

(***************************************************************************)
(* The inductive invariant, in parts.                                      *)
(***************************************************************************)

\* The map, the timer and the response belong to a request that was made; the
\* coroutine has what settled the request.
RequestInv ==
  \A r \in Requests :
    /\ node[r] => req[r] # "idle"
    /\ timer[r] # "none" => req[r] = "suspended"
    /\ value[r] # "none" => req[r] # "idle"
    /\ result[r] # "none" => result[r] = value[r]

\* Whoever is not alive has no handler in the session.
HandlerInv == requester # "alive" => ~handle

\* A job, posted or about to be, is for a Response that was read while the
\* handler was set; an answer has come through such a job.
JobInv ==
  /\ rpc = "post" /\ copied => message \in seen
  /\ jobs \subseteq seen
  /\ late \subseteq seen
  /\ \A r \in Requests : value[r] = "answer" => r \in seen

\* A request without a response is in the map, where an answer finds it, and once
\* it is awaited its timer has not been cancelled or used up.
PendingInv ==
  \A r \in Requests : req[r] # "idle" /\ value[r] = "none" =>
    /\ node[r]
    /\ req[r] = "suspended" => timer[r] \in {"armed", "fired"}

IndInv == TypeOK /\ RequestInv /\ HandlerInv /\ JobInv /\ PendingInv

-----------------------------------------------------------------------------
(* What a step leaves alone. *)

\* Only the variables of the requests matter to RequestInv and PendingInv.
LEMMA RequestKept ==
  ASSUME RequestInv, PendingInv, UNCHANGED requestVars
  PROVE  RequestInv' /\ PendingInv'
  BY DEF RequestInv, PendingInv, requestVars

\* Only the Requester and its handler matter to HandlerInv.
LEMMA HandlerKept ==
  ASSUME HandlerInv, UNCHANGED handleVars
  PROVE  HandlerInv'
  BY DEF HandlerInv, handleVars

\* Of the read loop and the requests, JobInv is about these only.
LEMMA JobKept ==
  ASSUME JobInv, UNCHANGED <<rpc, message, copied, jobs, seen, late, value>>
  PROVE  JobInv'
  BY DEF JobInv

-----------------------------------------------------------------------------
(* The initial states satisfy the invariant, and each action preserves it. *)

\* Nothing is made, read or posted at the start.
LEMMA InitInv == Init => IndInv
<1> SUFFICES ASSUME Init
             PROVE  IndInv
  OBVIOUS
<1>1. /\ req \in [Requests -> {"idle", "sent", "suspended"}]
      /\ node \in [Requests -> BOOLEAN]
      /\ timer \in [Requests -> Owning \cup {"none", "done"}]
      /\ value \in [Requests -> {"none", "answer", "timeout"}]
      /\ result \in [Requests -> {"none", "answer", "timeout"}]
      /\ peer \in [Requests -> {"none", "asked", "answered", "read"}]
  BY DEF Init
<1>2. strand \in Seq(Requests)
  BY DEF Init
<1>3. TypeOK
  BY <1>1, <1>2, Zenon DEF Init, TypeOK
<1>4. RequestInv /\ HandlerInv /\ JobInv /\ PendingInv
  BY DEF Init, RequestInv, HandlerInv, JobInv, PendingInv
<1> QED
  BY <1>3, <1>4 DEF IndInv

\* The life of the Requester and what the user does to the session.
LEMMA ObjectsPreserve ==
  ASSUME IndInv,
         MakeRequester \/ DestroyRequester \/ Break \/ Close \/ Release
         \/ DestroySession
  PROVE  IndInv'
<1>1. UNCHANGED <<requestVars, wireVars, readVars>>
  BY DEF MakeRequester, DestroyRequester, Break, Close, Release, DestroySession
<1>2. TypeOK'
  <2>1. /\ stream' \in {"new", "open", "closed"}
        /\ held' \in BOOLEAN /\ alive' \in BOOLEAN /\ handle' \in BOOLEAN
        /\ requester' \in {"none", "alive", "dead"}
    BY DEF MakeRequester, DestroyRequester, Break, Close, Release,
       DestroySession, sessionVars, handleVars, IndInv, TypeOK
  <2> QED
    BY <1>1, <2>1 DEF requestVars, wireVars, readVars, IndInv, TypeOK
<1>3. HandlerInv'
  BY DEF MakeRequester, DestroyRequester, Break, Close, Release, DestroySession,
     handleVars, IndInv, HandlerInv
<1> QED
  BY <1>1, <1>2, <1>3, RequestKept, JobKept DEF IndInv, requestVars, readVars

\* A request is made, and its coroutine suspended.
LEMMA RequestPreserves ==
  ASSUME IndInv, NEW r \in Requests, Request(r) \/ Arm(r)
  PROVE  IndInv'
<1>1. CASE Request(r)
  <2>1. TypeOK'
    <3>1. strand' \in Seq(Requests)
      BY <1>1 DEF Request, IndInv, TypeOK
    <3> QED
      BY <1>1, <3>1 DEF Request, sessionVars, handleVars, readVars, IndInv, TypeOK
  <2>2. RequestInv' /\ PendingInv'
    BY <1>1 DEF Request, IndInv, TypeOK, RequestInv, PendingInv
  <2> QED
    BY <1>1, <2>1, <2>2, HandlerKept, JobKept DEF Request, readVars, IndInv
<1>2. CASE Arm(r)
  <2>1. TypeOK'
    BY <1>2 DEF Arm, sessionVars, handleVars, wireVars, readVars, IndInv, TypeOK,
       Owning
  <2>2. RequestInv' /\ PendingInv'
    BY <1>2 DEF Arm, IndInv, TypeOK, RequestInv, PendingInv
  <2> QED
    BY <1>2, <2>1, <2>2, HandlerKept, JobKept DEF Arm, readVars, IndInv
<1> QED
  BY <1>1, <1>2

\* The coroutine gets its result, or its thread waits for itself.
LEMMA ResumePreserves ==
  ASSUME IndInv, NEW r \in Requests, Resume(r)
  PROVE  IndInv'
<1>1. /\ result' = result
         \/ result' = [result EXCEPT ![r] = value[r]]
      /\ timer' = [timer EXCEPT ![r] = CancelTimer(@)]
      /\ stuck' \subseteq Requests
      /\ UNCHANGED <<sessionVars, handleVars, req, node, value, wireVars,
                     readVars>>
  BY DEF Resume, IndInv, TypeOK
<1>2. TypeOK'
  <2>1. /\ timer' \in [Requests -> Owning \cup {"none", "done"}]
        /\ result' \in [Requests -> {"none", "answer", "timeout"}]
    BY <1>1 DEF CancelTimer, IndInv, TypeOK, Owning
  <2> QED
    BY <1>1, <2>1 DEF sessionVars, handleVars, wireVars, readVars, IndInv, TypeOK
<1>3. RequestInv'
  BY <1>1 DEF CancelTimer, IndInv, TypeOK, RequestInv
<1>4. PendingInv'
  <2>1. value[r] # "none"
    BY DEF Resume, Locked
  <2> QED
    BY <1>1, <2>1 DEF IndInv, TypeOK, PendingInv
<1> QED
  BY <1>1, <1>2, <1>3, <1>4, HandlerKept, JobKept DEF readVars, IndInv

\* The read handler runs, on a Requester that is alive or not.
LEMMA RunJobPreserves ==
  ASSUME IndInv, NEW r \in Requests, RunJob(r)
  PROVE  IndInv'
<1>1. /\ UNCHANGED <<sessionVars, handleVars, wireVars, rpc, message, copied,
                     seen, req, result, stuck>>
      /\ r \in jobs /\ jobs' = jobs \ {r} /\ late' \subseteq late \cup {r}
      /\ \/ UNCHANGED <<value, node, timer>>
         \/ /\ node[r]
            /\ value' = value \/ value' = [value EXCEPT ![r] = "answer"]
            /\ value[r] # "none" => value' = value
            /\ node' = node \/ node' = [node EXCEPT ![r] = FALSE]
            /\ timer' = [timer EXCEPT ![r] = CancelTimer(@)]
            /\ value[r] = "none" => value' = [value EXCEPT ![r] = "answer"]
  BY DEF RunJob, Settle, requestVars
<1>2. TypeOK'
  <2>1. timer' \in [Requests -> Owning \cup {"none", "done"}]
    BY <1>1 DEF CancelTimer, IndInv, TypeOK, Owning
  <2>2. value' \in [Requests -> {"none", "answer", "timeout"}]
    <3>1. value' = value \/ value' = [value EXCEPT ![r] = "answer"]
      BY <1>1
    <3> QED
      BY <3>1 DEF IndInv, TypeOK
  <2>3. node' \in [Requests -> BOOLEAN]
    <3>1. node' = node \/ node' = [node EXCEPT ![r] = FALSE]
      BY <1>1
    <3> QED
      BY <3>1 DEF IndInv, TypeOK
  <2>4. jobs' \subseteq Requests /\ late' \subseteq Requests
    BY <1>1 DEF IndInv, TypeOK
  <2> QED
    BY <1>1, <2>1, <2>2, <2>3, <2>4 DEF sessionVars, handleVars, wireVars, IndInv,
       TypeOK
<1>3. RequestInv'
  BY <1>1 DEF CancelTimer, IndInv, TypeOK, RequestInv
<1>4. JobInv'
  BY <1>1 DEF IndInv, TypeOK, JobInv
<1>5. PendingInv'
  <2>1. CASE UNCHANGED <<value, node, timer>>
    BY <1>1, <2>1 DEF IndInv, PendingInv
  <2>2. CASE ~UNCHANGED <<value, node, timer>>
    <3>1. value'[r] # "none"
      BY <1>1, <2>2 DEF IndInv, TypeOK
    <3>2. \A q \in Requests \ {r} :
            node'[q] = node[q] /\ timer'[q] = timer[q] /\ value'[q] = value[q]
      BY <1>1, <2>2 DEF IndInv, TypeOK
    <3> QED
      BY <1>1, <3>1, <3>2 DEF IndInv, PendingInv
  <2> QED
    BY <2>1, <2>2
<1> QED
  BY <1>1, <1>2, <1>3, <1>4, <1>5, HandlerKept DEF IndInv

\* The timer expires, runs and is dropped.
LEMMA TimerPreserves ==
  ASSUME IndInv, NEW r \in Requests, Expire(r) \/ RunTimer(r) \/ DropTimer(r)
  PROVE  IndInv'
<1>1. /\ UNCHANGED <<sessionVars, handleVars, wireVars, readVars, req, result,
                     stuck>>
      /\ timer[r] # "none"
      /\ \E w \in {"fired", "running", "done"} :
           timer' = [timer EXCEPT ![r] = w]
      /\ value' = value \/ value' = [value EXCEPT ![r] = "timeout"]
      /\ value[r] # "none" => value' = value
      /\ node' = node \/ node' = [node EXCEPT ![r] = FALSE]
  BY DEF Expire, RunTimer, DropTimer, Settle
<1>2. TypeOK'
  <2>1. timer' \in [Requests -> Owning \cup {"none", "done"}]
    BY <1>1 DEF IndInv, TypeOK, Owning
  <2>2. /\ value' \in [Requests -> {"none", "answer", "timeout"}]
        /\ node' \in [Requests -> BOOLEAN]
    BY <1>1 DEF IndInv, TypeOK
  <2> QED
    BY <1>1, <2>1, <2>2 DEF sessionVars, handleVars, wireVars, readVars, IndInv,
       TypeOK
<1>3. RequestInv'
  BY <1>1 DEF IndInv, TypeOK, RequestInv
<1>4. JobInv'
  BY <1>1 DEF readVars, IndInv, TypeOK, JobInv
<1>5. PendingInv'
  <2>1. /\ value'[r] = "none" => Expire(r)
        /\ \A q \in Requests \ {r} :
             node'[q] = node[q] /\ timer'[q] = timer[q] /\ value'[q] = value[q]
    BY <1>1 DEF Expire, RunTimer, DropTimer, Settle, IndInv, TypeOK, RequestInv,
       PendingInv
  <2>2. value'[r] = "none" =>
          node'[r] = node[r] /\ timer'[r] = "fired" /\ value[r] = "none"
    BY <2>1 DEF Expire, IndInv, TypeOK
  <2> QED
    BY <1>1, <2>1, <2>2 DEF IndInv, PendingInv
<1> QED
  BY <1>1, <1>2, <1>3, <1>4, <1>5, HandlerKept DEF IndInv

\* The stream: opening, writing, and the peer.
LEMMA WirePreserves ==
  ASSUME IndInv, Open \/ Write \/ \E r \in Requests : Answer(r)
  PROVE  IndInv'
<1>1. CASE Open
  <2>1. TypeOK'
    BY <1>1 DEF Open, handleVars, requestVars, wireVars, IndInv, TypeOK
  <2>2. JobInv'
    BY <1>1 DEF Open, requestVars, IndInv, JobInv
  <2> QED
    BY <1>1, <2>1, <2>2, RequestKept, HandlerKept DEF Open, IndInv
<1>2. CASE Write
  <2>1. Head(strand) \in Requests /\ Tail(strand) \in Seq(Requests)
    BY <1>2, HeadTailProperties DEF Write, IndInv, TypeOK
  <2>2. TypeOK'
    BY <1>2, <2>1 DEF Write, sessionVars, handleVars, requestVars, readVars,
       IndInv, TypeOK
  <2> QED
    BY <1>2, <2>2, RequestKept, HandlerKept, JobKept DEF Write, requestVars,
       readVars, IndInv
<1>3. ASSUME NEW r \in Requests, Answer(r)
      PROVE  IndInv'
  <2>1. TypeOK'
    BY <1>3 DEF Answer, sessionVars, handleVars, requestVars, readVars, IndInv,
       TypeOK
  <2> QED
    BY <1>3, <2>1, RequestKept, HandlerKept, JobKept DEF Answer, requestVars,
       readVars, IndInv
<1> QED
  BY <1>1, <1>2, <1>3

\* The read loop.
LEMMA LoopPreserves ==
  ASSUME IndInv, Loop
  PROVE  IndInv'
<1>1. ASSUME NEW r \in Requests, Read(r)
      PROVE  IndInv'
  <2>1. TypeOK'
    BY <1>1 DEF Read, sessionVars, handleVars, requestVars, IndInv, TypeOK
  <2>2. JobInv'
    BY <1>1 DEF Read, requestVars, IndInv, JobInv
  <2> QED
    BY <1>1, <2>1, <2>2, RequestKept, HandlerKept DEF Read, IndInv
<1>2. CASE Post
  <2>1. message \in Requests \/ ~copied
    BY <1>2 DEF Post, IndInv, TypeOK, JobInv
  <2>2. TypeOK'
    BY <1>2, <2>1 DEF Post, sessionVars, handleVars, requestVars, wireVars,
       IndInv, TypeOK
  <2>3. JobInv'
    BY <1>2 DEF Post, requestVars, IndInv, JobInv
  <2> QED
    BY <1>2, <2>2, <2>3, RequestKept, HandlerKept DEF Post, IndInv
<1>3. CASE ReadEnds
  <2>1. TypeOK'
    BY <1>3 DEF ReadEnds, sessionVars, handleVars, requestVars, wireVars, IndInv,
       TypeOK
  <2>2. JobInv'
    BY <1>3 DEF ReadEnds, requestVars, IndInv, JobInv
  <2> QED
    BY <1>3, <2>1, <2>2, RequestKept, HandlerKept DEF ReadEnds, IndInv
<1> QED
  BY <1>1, <1>2, <1>3 DEF Loop

\* The invariant holds in every reachable state.
THEOREM Invariance == Spec => []IndInv
<1>1. IndInv /\ [Next]_vars => IndInv'
  <2> SUFFICES ASSUME IndInv, [Next]_vars
               PROVE  IndInv'
    OBVIOUS
  <2>1. CASE UNCHANGED vars
    <3>1. TypeOK'
      BY <2>1 DEF vars, sessionVars, handleVars, requestVars, wireVars, readVars,
         IndInv, TypeOK
    <3> QED
      BY <2>1, <3>1, RequestKept, HandlerKept, JobKept DEF vars, requestVars,
         readVars, IndInv
  <2> QED
    BY <2>1, ObjectsPreserve, RequestPreserves, ResumePreserves, RunJobPreserves,
       TimerPreserves, WirePreserves, LoopPreserves DEF Next, OfRequest
<1> QED
  BY <1>1, InitInv, PTL DEF Spec

\* The data of every reachable state has its type.
THEOREM TypeCorrect == Spec => []TypeOK
  BY Invariance, PTL DEF IndInv

-----------------------------------------------------------------------------
(* The refinement of Completion. *)

Called == [r \in Requests |-> req[r] # "idle"]

\* What leaves the mapped variables alone is a stuttering step of Completion.
LEMMA Invisible ==
  ASSUME UNCHANGED <<Called, value, result>>
  PROVE  UNCHANGED Abstract!vars
  BY DEF Abstract!vars, Called

\* Making the request is Completion's Call.
LEMMA RequestCalls ==
  ASSUME IndInv, NEW r \in Requests, Request(r)
  PROVE  Abstract!Call(r)
<1>1. /\ ~Called[r]
      /\ Called' = [Called EXCEPT ![r] = TRUE]
      /\ UNCHANGED <<value, result>>
  BY DEF Request, Called, IndInv, TypeOK
<1> QED
  BY <1>1 DEF Abstract!Call, Called

\* set() is Completion's Settle if it is the first, and otherwise invisible;
\* it is called for requests only that were made.
LEMMA SettleSettles ==
  ASSUME IndInv, NEW r \in Requests, NEW o \in {"answer", "timeout"},
         Settle(r, o), req[r] # "idle"
  PROVE  Abstract!Settle(r) \/ UNCHANGED Abstract!vars
<1>1. Called[r] /\ UNCHANGED <<Called, result>>
  BY DEF Settle, Called
<1>2. CASE value[r] = "none"
  <2>1. value' = [value EXCEPT ![r] = o]
    BY <1>2 DEF Settle
  <2> QED
    BY <1>1, <1>2, <2>1 DEF Abstract!Settle, Abstract!Outcomes, Called
<1>3. CASE value[r] # "none"
  BY <1>1, <1>3, Invisible DEF Settle
<1> QED
  BY <1>2, <1>3

\* Resuming the coroutine is Completion's Deliver, unless its thread blocks.
LEMMA ResumeDelivers ==
  ASSUME IndInv, NEW r \in Requests, Resume(r)
  PROVE  Abstract!Deliver(r) \/ UNCHANGED Abstract!vars
<1>1. UNCHANGED <<Called, value>>
  BY DEF Resume, Called
<1>2. CASE timer[r] \in Owning
  <2>1. /\ value[r] # "none" /\ result[r] = "none"
        /\ result' = [result EXCEPT ![r] = value[r]]
    BY <1>2 DEF Resume, Locked
  <2> QED
    BY <1>1, <2>1 DEF Abstract!Deliver, Called
<1>3. CASE timer[r] \notin Owning
  BY <1>1, <1>3, Invisible DEF Resume
<1> QED
  BY <1>2, <1>3

\* Requester.cpp with Session.cpp (client).  Every step of the Requester and its
\* session, whatever is lost, closed or destroyed, is a step of Completion or
\* invisible to it: a request is settled once, and its coroutine receives what
\* settled it.
THEOREM Refinement == Spec => ImplementsCompletion
<1>1. Init => Abstract!Init
  <2> SUFFICES ASSUME Init
               PROVE  Abstract!Init
    OBVIOUS
  <2>1. \A r \in Requests : (req[r] # "idle") = FALSE
    BY DEF Init
  <2>2. Called = [r \in Requests |-> FALSE]
    BY <2>1, Zenon DEF Called
  <2> QED
    BY <2>2 DEF Init, Abstract!Init, Called
<1>2. IndInv /\ [Next]_vars => [Abstract!Next]_(Abstract!vars)
  <2> SUFFICES ASSUME IndInv, [Next]_vars
               PROVE  Abstract!Next \/ UNCHANGED Abstract!vars
    OBVIOUS
  <2>1. ASSUME NEW r \in Requests, Request(r)
        PROVE  Abstract!Next
    BY <2>1, RequestCalls DEF Abstract!Next
  <2>2. ASSUME NEW r \in Requests, Resume(r)
        PROVE  Abstract!Next \/ UNCHANGED Abstract!vars
    BY <2>2, ResumeDelivers DEF Abstract!Next
  <2>3. ASSUME NEW r \in Requests, RunTimer(r)
        PROVE  Abstract!Next \/ UNCHANGED Abstract!vars
    <3>1. Settle(r, "timeout") /\ req[r] # "idle"
      BY <2>3 DEF RunTimer, IndInv, RequestInv
    <3> QED
      BY <3>1, SettleSettles DEF Abstract!Next
  <2>4. ASSUME NEW r \in Requests, Arm(r)
        PROVE  UNCHANGED Abstract!vars
    <3>1. UNCHANGED <<Called, value, result>>
      BY <2>4 DEF Arm, Called, IndInv, TypeOK
    <3> QED
      BY <3>1, Invisible
  <2>5. CASE UNCHANGED <<req, value, result>>
    BY <2>5, Invisible DEF Called
  <2>6. ASSUME NEW r \in Requests, RunJob(r)
        PROVE  Abstract!Next \/ UNCHANGED Abstract!vars
    <3>1. CASE Settle(r, "answer") /\ node[r]
      <4>1. req[r] # "idle"
        BY <3>1 DEF IndInv, RequestInv
      <4> QED
        BY <3>1, <4>1, SettleSettles DEF Abstract!Next
    <3>2. CASE UNCHANGED requestVars
      BY <3>2, <2>5 DEF requestVars
    <3> QED
      BY <2>6, <3>1, <3>2 DEF RunJob
  <2> QED
    BY <2>1, <2>2, <2>3, <2>4, <2>5, <2>6 DEF Next, OfRequest, MakeRequester,
       DestroyRequester, Expire, DropTimer, Answer, Open, Write, Loop, Post,
       ReadEnds, Read, Break, Close, Release, DestroySession, vars, requestVars
<1> QED
  BY <1>1, <1>2, Invariance, PTL DEF Spec, ImplementsCompletion, Abstract!Spec

-----------------------------------------------------------------------------
(* The end of delivery. *)

\* Requester.cpp:14, 31 with Session.cpp (client) 101-127.  A job meets a
\* destroyed Requester only with a Response read before ~Requester ran, after
\* which no read hands its message to the handler.
THEOREM DeliveryStopped == Spec => DeliveryStops
<1>1. IndInv => late \subseteq seen
  BY DEF IndInv, JobInv
<1>2. IndInv /\ [Next]_vars => [requester = "dead" => seen' = seen]_vars
  <2> SUFFICES ASSUME IndInv, [Next]_vars, requester = "dead"
               PROVE  seen' = seen
    OBVIOUS
  <2>1. ASSUME NEW r \in Requests, Read(r)
        PROVE  seen' = seen
    BY <2>1 DEF Read, IndInv, HandlerInv
  <2>2. CASE UNCHANGED readVars
    BY <2>2 DEF readVars
  <2> QED
    BY <2>1, <2>2 DEF Next, OfRequest, MakeRequester, DestroyRequester, Request,
       Arm, Resume, RunTimer, RunJob, Expire, DropTimer, Answer, Open, Write,
       Loop, Post, ReadEnds, Break, Close, Release, DestroySession, vars
<1> QED
  BY <1>1, <1>2, Invariance, PTL DEF Spec, DeliveryStops

-----------------------------------------------------------------------------
(* What a pending request can still be settled by. *)

\* Requester.cpp:63, 91-104.  An awaited request without a response has a wait
\* that has not been cancelled and whose handler has still to run.
PendingHasTimer ==
  \A r \in Requests : req[r] = "suspended" /\ value[r] = "none" =>
    node[r] /\ timer[r] \in {"armed", "fired"}

\* No loss, close or destructor takes the timer from a request that has no
\* response: this is the reason why every awaited request is settled.
THEOREM NeverForgotten == Spec => []PendingHasTimer
<1>1. IndInv => PendingHasTimer
  BY DEF IndInv, PendingInv, PendingHasTimer
<1> QED
  BY <1>1, Invariance, PTL

-----------------------------------------------------------------------------
(* Where an answer comes from. *)

\* Session.cpp (client) 101-127 with Requester.cpp:14-29.  A coroutine that
\* receives an answer receives one that the session read while the Requester's
\* handler was set.
AnswersWereRead ==
  \A r \in Requests : result[r] = "answer" => r \in seen

\* No lost write, close or destroyed Requester makes up an answer.
THEOREM AnswersRead == Spec => []AnswersWereRead
<1>1. IndInv => AnswersWereRead
  BY DEF IndInv, RequestInv, JobInv, AnswersWereRead
<1> QED
  BY <1>1, Invariance, PTL

=============================================================================
