------------------------------- MODULE Service -------------------------------
(***************************************************************************)
(* The life of the service program: run() with its logger and its report   *)
(* (application/run.hpp, log/), ServiceApplication with its signal wait,   *)
(* the ThreadPool that runs the io_context, and the accept loop of         *)
(* websocket::Server.                                                      *)
(*                                                                         *)
(* The main thread constructs the application, runs it and destroys it;    *)
(* the pool's threads start together at a barrier and run the context      *)
(* until it is stopped or out of work; the wait for a signal, the accepts  *)
(* and the operations of the sessions are work.  Sessions are only counted *)
(* (module Session has what one does); those whose stream is open when the *)
(* context is destroyed are closed there, by the main thread.              *)
(* Every thread logs through one asynchronous logger with a bounded queue, *)
(* which run() makes and takes down; the lines that one action logs are    *)
(* one line here.                                                          *)
(***************************************************************************)
EXTENDS Naturals

CONSTANTS
  Threads,         \* threads of the pool
  MaxConnections,  \* bound: connections that clients open
  LogCapacity      \* lines that the queue of the logger holds

ASSUME BoundsAssumption == MaxConnections \in Nat
ASSUME LogCapacityAssumption == LogCapacity \in Nat \ {0}

VARIABLES
  mpc,        \* where the main thread is
  result,     \* the result run() returns
  isRunning,  \* m_isRunning
  tpc,        \* tpc[t]: where pool thread t is
  stopped,    \* the context is stopped
  wait,       \* the asynchronous wait of the signal set
  listening,  \* the acceptor is bound and listens
  accept,     \* accept[s]: asynchronous accepts of the acceptor in state s
  arrived,    \* connections that were accepted by the system
  sessions,   \* sessions made and opened
  refused,    \* connections that were gone again when onAccept looked
  failed,     \* an accept has failed
  opening,    \* sessions whose handshakes are under way
  open,       \* sessions whose stream is open
  logger,     \* the default logger of spdlog
  lines,      \* lines in the queue of the logger
  crashed,    \* somebody logged when there was no logger
  aborting    \* std::terminate was called

mainVars == <<mpc, result, isRunning>>
contextVars == <<tpc, stopped, wait>>
sessionVars == <<opening, open>>
serverVars == <<listening, accept, arrived, sessions, refused, failed,
                sessionVars>>
logVars == <<logger, lines, crashed, aborting>>
vars == <<mainVars, contextVars, serverVars, logVars>>

\* Result::Code
Codes == {"Success", "Error", "Critical"}

MainPC == {"start", "application", "pool", "barrier", "server", "run", "join",
           "throw", "context", "report", "uninitialize", "drain", "done",
           "aborted"}
ThreadPC == {"none", "barrier", "loop", "run", "onAccept", "throw", "left"}
AcceptStates == {"pending", "connected", "failed"}

TypeOK ==
  /\ mpc \in MainPC
  /\ result \in Codes
  /\ isRunning \in BOOLEAN
  /\ tpc \in [Threads -> ThreadPC]
  /\ stopped \in BOOLEAN
  /\ wait \in {"none", "waiting", "signalled", "done"}
  /\ listening \in BOOLEAN
  /\ accept \in [AcceptStates -> Nat]
  /\ arrived \in 0..MaxConnections
  /\ sessions \in 0..MaxConnections
  /\ refused \in 0..MaxConnections
  /\ failed \in BOOLEAN
  /\ opening \in 0..MaxConnections
  /\ open \in 0..MaxConnections
  /\ logger \in {"none", "up", "down"}
  /\ lines \in 0..LogCapacity
  /\ crashed \in BOOLEAN /\ aborting \in BOOLEAN

Init ==
  /\ mpc = "start" /\ result = "Success" /\ isRunning = FALSE
  /\ tpc = [t \in Threads |-> "none"]
  /\ stopped = FALSE /\ wait = "none"
  /\ listening = FALSE /\ accept = [s \in AcceptStates |-> 0]
  /\ arrived = 0 /\ sessions = 0 /\ refused = 0 /\ failed = FALSE
  /\ opening = 0 /\ open = 0
  /\ logger = "none" /\ lines = 0 /\ crashed = FALSE /\ aborting = FALSE

-----------------------------------------------------------------------------
(* The logger. *)

\* log::trace ... log::critical and the log_as wrappers: the line is queued,
\* or the thread waits for room.  Without a logger it follows a null pointer.
Log ==
  /\ IF logger = "up"
     THEN lines < LogCapacity /\ lines' = lines + 1 /\ UNCHANGED crashed
     ELSE crashed' = TRUE /\ UNCHANGED lines
  /\ UNCHANGED <<logger, aborting>>

\* The thread of the logger writes the oldest line.
WriteLine ==
  /\ lines > 0
  /\ lines' = lines - 1
  /\ UNCHANGED <<mainVars, contextVars, serverVars, logger, crashed, aborting>>

-----------------------------------------------------------------------------
(* The main thread. *)

\* run(): Config::instance, log::initialize, set_terminate, "starting as".
Initialize ==
  /\ mpc = "start"
  /\ logger' = "up" /\ lines' = 1
  /\ mpc' = "application"
  /\ UNCHANGED <<result, isRunning, contextVars, serverVars, crashed, aborting>>

\* Mutant: the constructor does not wait for a signal.
ConstructNoWait ==
  /\ mpc = "application"
  /\ mpc' = "pool"
  /\ Log
  /\ UNCHANGED <<result, isRunning, contextVars, serverVars>>

\* Application::Application starts the wait for a signal.
Construct ==
  /\ mpc = "application"
  /\ wait' = "waiting"
  /\ mpc' = "pool"
  /\ Log
  /\ UNCHANGED <<result, isRunning, tpc, stopped, serverVars>>

\* ThreadPool::ThreadPool starts one thread after the other.
Spawn(t) ==
  /\ mpc = "pool"
  /\ tpc[t] = "none"
  /\ tpc' = [tpc EXCEPT ![t] = "barrier"]
  /\ UNCHANGED <<mainVars, stopped, wait, serverVars, logVars>>

AllSpawned ==
  /\ mpc = "pool"
  /\ \A t \in Threads : tpc[t] # "none"
  /\ mpc' = "barrier"
  /\ UNCHANGED <<result, isRunning, contextVars, serverVars, logVars>>

\* All threads and the main thread have arrived: std::barrier(nThreads + 1).
AllArrived ==
  /\ mpc \notin {"start", "application", "pool"}
  /\ \A t \in Threads : tpc[t] # "none"

MainPasses ==
  /\ mpc = "barrier"
  /\ AllArrived
  /\ mpc' = "server"
  /\ UNCHANGED <<result, isRunning, contextVars, serverVars, logVars>>

\* Server::Server and Storage::instance.  If the acceptor cannot be opened,
\* bound or made to listen the constructor logs it and returns.
ConstructServer ==
  /\ mpc = "server"
  /\ listening' \in BOOLEAN
  /\ mpc' = "run"
  /\ Log
  /\ UNCHANGED <<result, isRunning, contextVars, accept, arrived, sessions,
                 refused, failed, sessionVars>>

\* Server::Server throws (address, port, certificates): the exception leaves the
\* constructor of the application, whose unwinding destroys the pool, which
\* joins its threads.
ConstructThrows ==
  /\ mpc = "server"
  /\ mpc' = "throw"
  /\ UNCHANGED <<result, isRunning, contextVars, serverVars, logVars>>

\* The storage cannot be made.  Its constructor and Singleton::instance are
\* noexcept: std::terminate calls the handler that run() has set, on this thread
\* and while the others go on.
ConstructTerminates ==
  /\ mpc = "server"
  /\ mpc' = "report"
  /\ aborting' = TRUE
  /\ UNCHANGED <<result, isRunning, contextVars, serverVars, logger, lines,
                 crashed>>

\* Server::startAccept: one more accept is outstanding.
StartAccept == accept' = [accept EXCEPT !["pending"] = @ + 1]

\* Application::run, run_impl, Server::run, startAccept; then the application
\* goes out of scope and ~ThreadPool, the first of its members to be
\* destroyed, joins the threads.
Run ==
  /\ mpc = "run"
  /\ isRunning' = TRUE
  /\ StartAccept
  /\ mpc' = "join"
  /\ Log
  /\ UNCHANGED <<result, contextVars, listening, arrived, sessions, refused,
                 failed, sessionVars>>

\* Mutant: the pool is destroyed without a join.
JoinNotAtAll ==
  /\ mpc \in {"join", "throw"}
  /\ mpc' = "context"
  /\ result' = IF mpc = "throw" THEN "Error" ELSE "Success"
  /\ Log
  /\ UNCHANGED <<isRunning, contextVars, serverVars>>

\* The threads are joined and the rest of the application is destroyed.  (The
\* result of an exception is stored after the context is gone; nobody reads it
\* before.)
Join ==
  /\ mpc \in {"join", "throw"}
  /\ \A t \in Threads : tpc[t] = "left"
  /\ mpc' = "context"
  /\ result' = IF mpc = "throw" THEN "Error" ELSE "Success"
  /\ Log
  /\ UNCHANGED <<isRunning, contextVars, serverVars>>

\* ~io_context destroys the pending reads, and each owns its session.  ~Session
\* closes a stream that is open, and that close waits until the client has
\* answered it or is gone.
CloseSession ==
  /\ mpc = "context"
  /\ open > 0
  /\ open' = open - 1
  /\ Log
  /\ UNCHANGED <<mainVars, contextVars, listening, accept, arrived, sessions,
                 refused, failed, opening>>

\* No open stream is left: ~io_context destroys the other operations, with the
\* sessions that never opened.
DestroyContext ==
  /\ mpc = "context"
  /\ open = 0
  /\ opening' = 0
  /\ accept' = [s \in AcceptStates |-> 0]
  /\ mpc' = "report"
  /\ Log
  /\ UNCHANGED <<result, isRunning, contextVars, listening, arrived, sessions,
                 refused, failed, open>>

\* The OnScopeExit of run() reports, or the terminate handler does.
Report ==
  /\ mpc = "report"
  /\ mpc' = "uninitialize"
  /\ Log
  /\ UNCHANGED <<result, isRunning, contextVars, serverVars>>

\* log::uninitialize drops the logger and then waits for the thread that writes
\* its lines.
Uninitialize ==
  /\ mpc = "uninitialize"
  /\ logger' = "down"
  /\ mpc' = "drain"
  /\ UNCHANGED <<result, isRunning, contextVars, serverVars, lines, crashed,
                 aborting>>

\* run() returns the result, or the handler calls std::abort.
Return ==
  /\ mpc = "drain"
  /\ lines = 0
  /\ mpc' = IF aborting THEN "aborted" ELSE "done"
  /\ UNCHANGED <<result, isRunning, contextVars, serverVars, logVars>>

-----------------------------------------------------------------------------
(* A pool thread. *)

Goto(t, label) == tpc' = [tpc EXCEPT ![t] = label]

Passes(t) ==
  /\ tpc[t] = "barrier"
  /\ AllArrived
  /\ Goto(t, "loop")
  /\ UNCHANGED <<mainVars, stopped, wait, serverVars, logVars>>

\* while (not context.stopped())
Loop(t) ==
  /\ tpc[t] = "loop"
  /\ Goto(t, IF stopped THEN "left" ELSE "run")
  /\ UNCHANGED <<mainVars, stopped, wait, serverVars, logVars>>

\* The context has work: an operation, or a handler that is running.
Work ==
  \/ wait \in {"waiting", "signalled"}
  \/ \E s \in AcceptStates : accept[s] > 0
  \/ opening + open > 0
  \/ \E t \in Threads : tpc[t] \in {"onAccept", "throw"}

\* io_context::run returns once the context is stopped; out of work, it stops
\* the context itself.
RunReturns(t) ==
  /\ tpc[t] = "run"
  /\ stopped \/ ~Work
  /\ stopped' = TRUE
  /\ Goto(t, "loop")
  /\ UNCHANGED <<mainVars, wait, serverVars, logVars>>

\* Mutant: the handler does not stop the context.
OnSignalGoesOn(t) ==
  /\ tpc[t] = "run"
  /\ ~stopped
  /\ wait = "signalled"
  /\ wait' = "done"
  /\ isRunning' = FALSE
  /\ Log
  /\ UNCHANGED <<mpc, result, tpc, stopped, serverVars>>

\* The completion of the signal wait.
OnSignal(t) ==
  /\ tpc[t] = "run"
  /\ ~stopped
  /\ wait = "signalled"
  /\ wait' = "done"
  /\ isRunning' = FALSE
  /\ stopped' = TRUE
  /\ Log
  /\ UNCHANGED <<mpc, result, tpc, serverVars>>

\* The completion of an accept, one at a time in the strand of the acceptor.
\* Its error is reported with the address of the peer, which a socket that is
\* not connected does not have: the completion throws before it calls onAccept.
Accepted(t) ==
  /\ tpc[t] = "run"
  /\ ~stopped
  /\ \A u \in Threads : tpc[u] # "onAccept"
  /\ \/ /\ accept["connected"] > 0
        /\ accept' = [accept EXCEPT !["connected"] = @ - 1]
        /\ Goto(t, "onAccept")
        /\ UNCHANGED failed
     \/ /\ accept["failed"] > 0
        /\ accept' = [accept EXCEPT !["failed"] = @ - 1]
        /\ Goto(t, "throw")
        /\ failed' = TRUE
  /\ UNCHANGED <<mainVars, stopped, wait, listening, arrived, sessions, refused,
                 sessionVars, logVars>>

\* A session is made and opened, or the client is gone and has no address any
\* more: remote_endpoint() throws.
MakeSession(t) ==
  \/ /\ sessions' = sessions + 1 /\ opening' = opening + 1
     /\ Goto(t, "run")
     /\ UNCHANGED refused
  \/ /\ refused' = refused + 1
     /\ Goto(t, "throw")
     /\ UNCHANGED <<sessions, opening>>

\* Mutant: onAccept does not start the next accept.
OnAcceptOnce(t) ==
  /\ tpc[t] = "onAccept"
  /\ MakeSession(t)
  /\ Log
  /\ UNCHANGED <<mainVars, stopped, wait, listening, accept, arrived, failed,
                 open>>

\* Mutant: onAccept starts the next accept itself when the client is gone, and
\* its OnScopeExit starts one more.
OnAcceptTwice(t) ==
  /\ tpc[t] = "onAccept"
  /\ MakeSession(t)
  /\ accept' = [accept EXCEPT !["pending"] = @ + 1 + (refused' - refused)]
  /\ Log
  /\ UNCHANGED <<mainVars, stopped, wait, listening, arrived, failed, open>>

\* Server::onAccept; its OnScopeExit starts the next accept on both ways out.
OnAccept(t) ==
  /\ tpc[t] = "onAccept"
  /\ MakeSession(t)
  /\ StartAccept
  /\ Log
  /\ UNCHANGED <<mainVars, stopped, wait, listening, arrived, failed, open>>

\* The handshakes of a session are over: it reads, or it is given up.
Opened(t) ==
  /\ tpc[t] = "run"
  /\ ~stopped
  /\ opening > 0
  /\ opening' = opening - 1
  /\ open' \in {open, open + 1}
  /\ Log
  /\ UNCHANGED <<mainVars, contextVars, listening, accept, arrived, sessions,
                 refused, failed>>

\* A read finds the stream closed or lost, by the client or by the timeouts of
\* the stream, and the session is given up.
Closed(t) ==
  /\ tpc[t] = "run"
  /\ ~stopped
  /\ open > 0
  /\ open' = open - 1
  /\ Log
  /\ UNCHANGED <<mainVars, contextVars, listening, accept, arrived, sessions,
                 refused, failed, opening>>

\* Mutant: an exception ends the thread.
CatchLeaves(t) ==
  /\ tpc[t] = "throw"
  /\ Goto(t, "left")
  /\ Log
  /\ UNCHANGED <<mainVars, stopped, wait, serverVars>>

\* util::run catches what a handler throws, logs it and runs the context again.
Catch(t) ==
  /\ tpc[t] = "throw"
  /\ Goto(t, "loop")
  /\ Log
  /\ UNCHANGED <<mainVars, stopped, wait, serverVars>>

-----------------------------------------------------------------------------
(* The outside. *)

Signal ==
  /\ wait = "waiting"
  /\ wait' = "signalled"
  /\ UNCHANGED <<mainVars, tpc, stopped, serverVars, logVars>>

Connect ==
  /\ accept["pending"] > 0
  /\ listening
  /\ arrived < MaxConnections
  /\ arrived' = arrived + 1
  /\ accept' = [accept EXCEPT !["pending"] = @ - 1, !["connected"] = @ + 1]
  /\ UNCHANGED <<mainVars, contextVars, listening, sessions, refused, failed,
                 sessionVars, logVars>>

\* The accept fails: the acceptor does not listen, or a limit is reached.
AcceptFails ==
  /\ accept["pending"] > 0
  /\ accept' = [accept EXCEPT !["pending"] = @ - 1, !["failed"] = @ + 1]
  /\ UNCHANGED <<mainVars, contextVars, listening, arrived, sessions, refused,
                 failed, sessionVars, logVars>>

-----------------------------------------------------------------------------
\* The process is no more.
Ended == mpc \in {"done", "aborted"} \/ crashed

Main ==
  /\ ~Ended
  /\ \/ Initialize \/ Construct \/ AllSpawned \/ MainPasses \/ ConstructServer
     \/ ConstructThrows \/ ConstructTerminates \/ Run \/ Join
     \/ DestroyContext \/ Report \/ Uninitialize \/ Return
     \/ \E t \in Threads : Spawn(t)

\* What a thread does once it has a handler, or none to wait for.
Steps(t) ==
  /\ ~Ended
  /\ Passes(t) \/ Loop(t) \/ RunReturns(t) \/ OnAccept(t) \/ Catch(t)

RunSignal == ~Ended /\ \E t \in Threads : OnSignal(t)
RunAccept == ~Ended /\ \E t \in Threads : Accepted(t)
RunSession == ~Ended /\ \E t \in Threads : Opened(t) \/ Closed(t)
RunLogger == ~Ended /\ WriteLine

\* The main thread inside the close of a session: it goes on when the client
\* does its part.
AnsweredClose == ~Ended /\ CloseSession

Outside == ~Ended /\ (Signal \/ Connect \/ AcceptFails)

Finished == Ended /\ UNCHANGED vars

Next ==
  \/ Main \/ RunSignal \/ RunAccept \/ RunSession \/ RunLogger \/ Outside
  \/ AnsweredClose
  \/ \E t \in Threads : Steps(t)
  \/ Finished

Spec == Init /\ [][Next]_vars

\* The main thread and the pool's threads run; a completed operation is taken by
\* one of the threads in the context; the logger's thread writes.  Nobody has to
\* send a signal, connect, finish a handshake, leave or answer a close.
Fairness ==
  /\ WF_vars(Main)
  /\ \A t \in Threads : WF_vars(Steps(t))
  /\ WF_vars(RunSignal)
  /\ WF_vars(RunAccept)
  /\ WF_vars(RunLogger)

FairSpec == Spec /\ Fairness

-----------------------------------------------------------------------------
(* Properties. *)

\* ThreadPool.cpp:12-20 with Application.hpp:25-35.  No thread of the pool
\* leaves before a signal has stopped the context: neither an exception out of
\* a handler, nor a moment without an accept, nor a start before there is any
\* work ends one.
PoolServes ==
  \A t \in Threads : tpc[t] = "left" => stopped /\ wait = "done"

\* The accepts that are pending, or completed and not yet taken.
Outstanding == accept["pending"] + accept["connected"] + accept["failed"]
Accepting == {t \in Threads : tpc[t] = "onAccept"}

\* Server.cpp:59-92.  A running server always has an accept pending, completed
\* or being handled, whatever onAccept throws.  (An accept that fails is the
\* exception: its completion throws before onAccept is called, and the loop ends
\* with it.)
AcceptsOn ==
  mpc = "join" /\ ~failed => Outstanding > 0 \/ Accepting # {}

\* Server.cpp:14, 59-92.  The accept loop never multiplies: whichever way
\* onAccept is left, at most one accept is outstanding or being handled.
OneAccept ==
  /\ Outstanding <= 1
  /\ Outstanding = 1 => Accepting = {}

\* run.hpp:33-49, log.cpp:27-31, ThreadPool.cpp:42-51, ServiceApplication.hpp:
\* 38-41.  As long as the program
\* ends by itself nobody logs before there is a logger or after it was taken
\* down, from whichever thread: only std::terminate takes the logger away from
\* threads that still run.
LoggedInTime == crashed => aborting /\ logger = "down"

\* Application.hpp:27-34, ThreadPool.cpp:12-20, 42-51, run.hpp:51-66,
\* server/Session.cpp:179-194.  A signal ends the program, from whichever point
\* of its life, a failed construction included, if every client whose session
\* is still open then answers the close or leaves.  The destructors wait for it
\* without a limit of time, so one silent client keeps the program alive.
ShutsDown ==
  WF_vars(AnsweredClose) =>
    (wait = "signalled" ~> mpc = "done" \/ (aborting /\ Ended))

\* Server.cpp:77-92, ThreadPool.cpp:16-18.  A client that was accepted gets
\* a session or is found gone, unless the program is stopped.
Serves ==
  \A n \in 1..MaxConnections :
    arrived = n ~> sessions + refused >= n \/ stopped \/ aborting

=============================================================================
