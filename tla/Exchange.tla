------------------------------ MODULE Exchange ------------------------------
(***************************************************************************)
(* A Requester over its client Session: the way of a request through the   *)
(* write strand to the peer and of the answer through the read loop and    *)
(* the pool back to the coroutine, while the stream breaks, the session is *)
(* closed and let go, and the Requester is destroyed.                      *)
(*                                                                         *)
(* Requester and Session have modules of their own with the steps inside   *)
(* their operations; here an operation is a step, any number of pool       *)
(* threads is at hand, and the subject is what the two objects do to one   *)
(* another.  They hold shares in a circle: the Requester and every         *)
(* TimedMessage own the session, the map of pending requests is owned by   *)
(* the Requester and by every TimedMessage in it, while the session knows  *)
(* the Requester only by the raw pointer in its read handler.              *)
(***************************************************************************)
EXTENDS Naturals, Sequences

CONSTANTS
  Requests,  \* requests, each with an id of its own (message::next_id)
  None       \* no request

ASSUME NoneAssumption == None \notin Requests

VARIABLES
  stream,     \* m_stream of the session
  held,       \* the user of the session holds a share of it
  alive,      \* ~Session has not run
  handle,     \* the Requester's read handler is in m_handles
  requester,  \* the life of the Requester
  req,        \* req[r]: how far the coroutine of r is
  node,       \* node[r]: r is in m_timedMessages
  timer,      \* timer[r]: the wait of the TimedMessage and its closure
  value,      \* value[r]: m_response
  result,     \* result[r]: what the co_await returned
  stuck,      \* requests whose set() waits for itself
  strand,     \* jobs of m_wStrand: the requests to write
  peer,       \* peer[r]: what the peer has to do with r
  rpc,        \* where the read loop is
  message,    \* the message it has read: a Response to this request
  copied,     \* its copy of m_handles has the Requester's handler
  jobs,       \* posted jobs: the read handler with the Response to r
  seen,       \* Responses read while the handler was set
  late        \* Responses whose job met a destroyed Requester

sessionVars == <<stream, held, alive>>
handleVars == <<handle, requester>>
requestVars == <<req, node, timer, value, result, stuck>>
wireVars == <<strand, peer>>
readVars == <<rpc, message, copied, jobs, seen, late>>
vars == <<sessionVars, handleVars, requestVars, wireVars, readVars>>

\* A closure of the timer in one of these states owns the TimedMessage.
Owning == {"armed", "fired", "aborted", "running"}

TypeOK ==
  /\ stream \in {"new", "open", "closed"}
  /\ held \in BOOLEAN /\ alive \in BOOLEAN /\ handle \in BOOLEAN
  /\ requester \in {"none", "alive", "dead"}
  /\ req \in [Requests -> {"idle", "sent", "suspended"}]
  /\ node \in [Requests -> BOOLEAN]
  /\ timer \in [Requests -> Owning \cup {"none", "done"}]
  /\ value \in [Requests -> {"none", "answer", "timeout"}]
  /\ result \in [Requests -> {"none", "answer", "timeout"}]
  /\ stuck \subseteq Requests
  /\ strand \in Seq(Requests)
  /\ peer \in [Requests -> {"none", "asked", "answered", "read"}]
  /\ rpc \in {"none", "reading", "post"}
  /\ message \in Requests \cup {None}
  /\ copied \in BOOLEAN
  /\ jobs \subseteq Requests
  /\ seen \subseteq Requests /\ late \subseteq Requests

Init ==
  /\ stream = "new" /\ held = TRUE /\ alive = TRUE
  /\ handle = FALSE /\ requester = "none"
  /\ req = [r \in Requests |-> "idle"]
  /\ node = [r \in Requests |-> FALSE]
  /\ timer = [r \in Requests |-> "none"]
  /\ value = [r \in Requests |-> "none"]
  /\ result = [r \in Requests |-> "none"]
  /\ stuck = {}
  /\ strand = <<>> /\ peer = [r \in Requests |-> "none"]
  /\ rpc = "none" /\ message = None /\ copied = FALSE
  /\ jobs = {} /\ seen = {} /\ late = {}

-----------------------------------------------------------------------------
(* The Requester and its callers. *)

\* Requester::Requester sets its read handler, which captures this.
MakeRequester ==
  /\ requester = "none" /\ held
  /\ requester' = "alive"
  /\ handle' = TRUE
  /\ UNCHANGED <<sessionVars, requestVars, wireVars, readVars>>

\* Mutant: the destructor leaves the handler in the session.
DestroyRequesterOnly ==
  /\ requester = "alive"
  /\ requester' = "dead"
  /\ UNCHANGED <<handle, sessionVars, requestVars, wireVars, readVars>>

\* Requester::~Requester takes it back.
DestroyRequester ==
  /\ requester = "alive"
  /\ requester' = "dead"
  /\ handle' = FALSE
  /\ UNCHANGED <<sessionVars, requestVars, wireVars, readVars>>

\* request(), co_await and the first half of await_suspend: the TimedMessage is
\* in the map, and its message posted to the strand of the session.
Request(r) ==
  /\ requester = "alive"
  /\ req[r] = "idle"
  /\ req' = [req EXCEPT ![r] = "sent"]
  /\ node' = [node EXCEPT ![r] = TRUE]
  /\ strand' = Append(strand, r)
  /\ UNCHANGED <<sessionVars, handleVars, timer, value, result, stuck, peer,
                 readVars>>

\* Mutant: await_suspend starts no timer.
ArmNoTimer(r) ==
  /\ req[r] = "sent"
  /\ req' = [req EXCEPT ![r] = "suspended"]
  /\ UNCHANGED <<sessionVars, handleVars, timer, node, value, result, stuck,
                 wireVars, readVars>>

\* The second half of await_suspend.
Arm(r) ==
  /\ req[r] = "sent"
  /\ req' = [req EXCEPT ![r] = "suspended"]
  /\ timer' = [timer EXCEPT ![r] = "armed"]
  /\ UNCHANGED <<sessionVars, handleVars, node, value, result, stuck, wireVars,
                 readVars>>

-----------------------------------------------------------------------------
(* Completing a request: TimedMessage::set. *)

CancelTimer(w) == IF w = "armed" THEN "aborted" ELSE w

\* Mutant: set does not erase the node.
SettleKeepsNode(r, o) ==
  /\ IF value[r] = "none"
     THEN value' = [value EXCEPT ![r] = o]
     ELSE UNCHANGED value
  /\ UNCHANGED <<req, node, result, stuck>>

\* Mutant: set does not look whether there is a response already.
SettleAgain(r, o) ==
  /\ value' = [value EXCEPT ![r] = o]
  /\ node' = [node EXCEPT ![r] = FALSE]
  /\ UNCHANGED <<req, result, stuck>>

\* set() up to the call of resume; nothing if there is a response already.
Settle(r, o) ==
  /\ IF value[r] = "none"
     THEN /\ value' = [value EXCEPT ![r] = o]
          /\ node' = [node EXCEPT ![r] = FALSE]
     ELSE UNCHANGED <<value, node>>
  /\ UNCHANGED <<req, result, stuck>>

\* set() holds the lock of m_response from its test until it returns.
Locked(r) == value[r] # "none" /\ result[r] = "none"

\* resume(), on the thread of set().  The Awaiter gives up its share: if the
\* timer's closure has none either, ~TimedMessage waits for the lock that set()
\* holds.
Resume(r) ==
  /\ Locked(r)
  /\ r \notin stuck
  /\ IF timer[r] \in Owning
     THEN result' = [result EXCEPT ![r] = value[r]] /\ UNCHANGED stuck
     ELSE stuck' = stuck \cup {r} /\ UNCHANGED result
  /\ timer' = [timer EXCEPT ![r] = CancelTimer(@)]
  /\ UNCHANGED <<sessionVars, handleVars, req, node, value, wireVars, readVars>>

\* The read handler: find and set.  When the Requester is destroyed it reads
\* the memory that was its m_timedMessages: it finds nothing, or the map that
\* the pending TimedMessages still own.  (Outcomes that end the process are
\* left out.)
RunJob(r) ==
  /\ r \in jobs
  /\ jobs' = jobs \ {r}
  /\ late' = IF requester = "dead" THEN late \cup {r} ELSE late
  /\ \/ /\ node[r]
        /\ Settle(r, "answer")
        /\ timer' = [timer EXCEPT ![r] = CancelTimer(@)]
     \/ /\ ~node[r] \/ requester = "dead"
        /\ UNCHANGED requestVars
  /\ UNCHANGED <<sessionVars, handleVars, wireVars, rpc, message, copied, seen>>

Expire(r) ==
  /\ timer[r] = "armed"
  /\ timer' = [timer EXCEPT ![r] = "fired"]
  /\ UNCHANGED <<sessionVars, handleVars, req, node, value, result, stuck,
                 wireVars, readVars>>

\* The timer's handler calls set with the "timed out" response, waiting for
\* the lock.
RunTimer(r) ==
  /\ timer[r] = "fired"
  /\ ~Locked(r)
  /\ Settle(r, "timeout")
  /\ timer' = [timer EXCEPT ![r] = "running"]
  /\ UNCHANGED <<sessionVars, handleVars, wireVars, readVars>>

\* Its closure is destroyed when set() has returned, or at once if the wait was
\* cancelled.
DropTimer(r) ==
  /\ \/ timer[r] = "running" /\ ~Locked(r)
     \/ timer[r] = "aborted"
  /\ timer' = [timer EXCEPT ![r] = "done"]
  /\ UNCHANGED <<sessionVars, handleVars, req, node, value, result, stuck,
                 wireVars, readVars>>

-----------------------------------------------------------------------------
(* The session. *)

\* open() succeeds and starts the read loop.
Open ==
  /\ stream = "new" /\ held
  /\ stream' = "open"
  /\ rpc' = "reading"
  /\ UNCHANGED <<held, alive, handleVars, requestVars, wireVars, message,
                 copied, jobs, seen, late>>

\* The next job of the strand.  What is written before the stream is open or
\* after it was closed is lost.
Write ==
  /\ strand # <<>>
  /\ strand' = Tail(strand)
  /\ peer' = IF stream = "open" THEN [peer EXCEPT ![Head(strand)] = "asked"]
                                ELSE peer
  /\ UNCHANGED <<sessionVars, handleVars, requestVars, readVars>>

\* The peer answers, in whatever order and after any time.
Answer(r) ==
  /\ peer[r] = "asked"
  /\ peer' = [peer EXCEPT ![r] = "answered"]
  /\ UNCHANGED <<sessionVars, handleVars, requestVars, strand, readVars>>

\* A read completes: onRead takes the message and copies the handlers.
Read(r) ==
  /\ rpc = "reading"
  /\ stream = "open"
  /\ peer[r] = "answered"
  /\ peer' = [peer EXCEPT ![r] = "read"]
  /\ rpc' = "post"
  /\ message' = r
  /\ copied' = handle
  /\ seen' = IF handle THEN seen \cup {r} ELSE seen
  /\ UNCHANGED <<sessionVars, handleVars, requestVars, strand, jobs, late>>

\* onRead posts a job for every handler of its copy and starts the next read.
Post ==
  /\ rpc = "post"
  /\ jobs' = IF copied THEN jobs \cup {message} ELSE jobs
  /\ rpc' = IF stream = "open" THEN "reading" ELSE "none"
  /\ message' = None
  /\ copied' = FALSE
  /\ UNCHANGED <<sessionVars, handleVars, requestVars, wireVars, seen, late>>

\* The connection is lost.
Break ==
  /\ stream = "open"
  /\ stream' = "closed"
  /\ UNCHANGED <<held, alive, handleVars, requestVars, wireVars, readVars>>

\* A read on a stream that is no longer open ends the loop.
ReadEnds ==
  /\ rpc = "reading"
  /\ stream # "open"
  /\ rpc' = "none"
  /\ UNCHANGED <<sessionVars, handleVars, requestVars, wireVars, message,
                 copied, jobs, seen, late>>

\* close(): m_handles->clear() and the close of the stream.
Close ==
  /\ held
  /\ handle' = FALSE
  /\ stream' = IF stream = "open" THEN "closed" ELSE stream
  /\ UNCHANGED <<held, alive, requester, requestVars, wireVars, readVars>>

\* The user of the session lets it go.
Release ==
  /\ held
  /\ held' = FALSE
  /\ UNCHANGED <<stream, alive, handleVars, requestVars, wireVars, readVars>>

\* The TimedMessage of r exists: its node, the Awaiter or a closure owns it.
Exists(r) ==
  req[r] # "idle" /\ (node[r] \/ result[r] = "none" \/ timer[r] \in Owning)

\* Nobody has a share of the session.
Unowned ==
  /\ ~held
  /\ requester # "alive"
  /\ \A r \in Requests : ~Exists(r)
  /\ strand = <<>> /\ rpc = "none" /\ jobs = {}

\* ~Session.
DestroySession ==
  /\ alive
  /\ Unowned
  /\ alive' = FALSE
  /\ UNCHANGED <<stream, held, handleVars, requestVars, wireVars, readVars>>

-----------------------------------------------------------------------------
OfRequest(r) == Arm(r) \/ Resume(r) \/ RunTimer(r) \/ DropTimer(r)

Loop == Post \/ ReadEnds \/ \E r \in Requests : Read(r)

Next ==
  \/ MakeRequester \/ DestroyRequester
  \/ \E r \in Requests :
       Request(r) \/ OfRequest(r) \/ RunJob(r) \/ Expire(r) \/ Answer(r)
  \/ Open \/ Write \/ Loop \/ Break \/ Close \/ Release \/ DestroySession

Spec == Init /\ [][Next]_vars

\* The pool runs what is posted or completed, the clock advances, and an object
\* without owners is destroyed.  Nothing makes the peer answer, the stream open
\* or anybody close, release or destroy anything.
Fairness ==
  /\ \A r \in Requests :
       WF_vars(OfRequest(r)) /\ WF_vars(RunJob(r)) /\ WF_vars(Expire(r))
  /\ WF_vars(Write) /\ WF_vars(Loop) /\ WF_vars(DestroySession)

FairSpec == Spec /\ Fairness

-----------------------------------------------------------------------------
(* Properties. *)

\* Requester.cpp:14-33, 58-109 with Session.cpp (client) 58-144.  Through lost
\* writes, a broken stream, a close, answers that come after the Requester is
\* gone and the timer, a request is settled once and its coroutine receives
\* what settled it.
Abstract == INSTANCE Completion
  WITH called <- [r \in Requests |-> req[r] # "idle"], outcome <- value
ImplementsCompletion == Abstract!Spec

\* Requester.cpp:14, 31 with Session.cpp (client) 101-127.  A job can meet
\* a destroyed Requester, but only with a Response that was read before: once
\* ~Requester has run no read hands its message to the handler any more.
DeliveryStops ==
  /\ [](late \subseteq seen)
  /\ [][requester = "dead" => seen' = seen]_vars

\* Requester.cpp:37, 63, 91-104.  Every awaited request is settled, also when
\* its message was lost, the session is closed or let go, or the Requester is
\* destroyed: the timer, the map and the session are kept by the TimedMessage
\* itself.
Settles == \A r \in Requests : req[r] = "suspended" ~> value[r] # "none"

\* Requester.cpp:36-37, 63 with Session.cpp (client) 69-91, 116-144.  A session
\* that its user and the Requester have let go and whose stream is not open is
\* destroyed: the requests still pending, the map that owns them, the jobs and
\* the read loop give it up in the end, unless a set() has blocked itself.
SessionFreed ==
  ~held /\ requester # "alive" /\ stream # "open" ~> ~alive \/ stuck # {}

=============================================================================
