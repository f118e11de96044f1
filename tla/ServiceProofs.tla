---------------------------- MODULE ServiceProofs ----------------------------
(***************************************************************************)
(* Proofs about Service, for any set of pool threads, any number of        *)
(* connections and any capacity of the logger's queue.                     *)
(***************************************************************************)
EXTENDS Service, TLAPS

(***************************************************************************)
(* The inductive invariant, in parts.                                      *)
(***************************************************************************)

\* The types, but for the bounds of what is only counted.
Types ==
  /\ mpc \in MainPC /\ result \in Codes /\ isRunning \in BOOLEAN
  /\ tpc \in [Threads -> ThreadPC]
  /\ stopped \in BOOLEAN
  /\ wait \in {"none", "waiting", "signalled", "done"}
  /\ listening \in BOOLEAN /\ failed \in BOOLEAN
  /\ accept \in [AcceptStates -> Nat]
  /\ arrived \in 0..MaxConnections /\ sessions \in Nat /\ refused \in Nat
  /\ opening \in Nat /\ open \in Nat
  /\ logger \in {"none", "up", "down"}
  /\ lines \in 0..LogCapacity
  /\ crashed \in BOOLEAN /\ aborting \in BOOLEAN

\* There is a wait for a signal before there is a thread, and the context is
\* only stopped once the wait is over.
PoolInv ==
  /\ wait = "none" <=> mpc \in {"start", "application"}
  /\ mpc \in {"start", "application"} => \A t \in Threads : tpc[t] = "none"
  /\ stopped => wait = "done"
  /\ PoolServes

\* The main thread is not past the call of Server::run.
Starting == {"start", "application", "pool", "barrier", "server", "run"}

\* Nothing is accepted before run(), and then one connection at a time: the
\* next accept is started by the thread that handles the last.
AcceptInv ==
  /\ mpc \in Starting => Outstanding = 0 /\ Accepting = {}
  /\ \A t, u \in Accepting : t = u
  /\ AcceptsOn
  /\ OneAccept

\* No more connections are handled than have arrived, and no more sessions are
\* open, or on the way to it, than were made.
CountInv ==
  /\ sessions + refused + accept["connected"]
       + (IF Accepting = {} THEN 0 ELSE 1) <= arrived
  /\ opening + open <= sessions

\* The logger is there from the first step of run() to log::uninitialize, and
\* unless the process is aborting the pool's threads have left by then.
LogInv ==
  /\ mpc = "start" => logger = "none"
  /\ mpc \in {"drain", "done", "aborted"} <=> logger = "down"
  /\ logger = "none" => mpc = "start"
  /\ /\ mpc \in {"context", "report", "uninitialize", "drain", "done",
                 "aborted"}
     /\ ~aborting
     => \A t \in Threads : tpc[t] = "left"
  /\ LoggedInTime

IndInv == Types /\ PoolInv /\ AcceptInv /\ CountInv /\ LogInv

-----------------------------------------------------------------------------
\* The parts give the type invariant: no more sessions than connections.
LEMMA TypeOfParts == IndInv => TypeOK
<1> SUFFICES ASSUME IndInv
             PROVE  TypeOK
  OBVIOUS
<1>1. accept["connected"] \in Nat
  BY DEF IndInv, Types, AcceptStates
<1>2. /\ sessions \in 0..MaxConnections /\ refused \in 0..MaxConnections
      /\ opening \in 0..MaxConnections /\ open \in 0..MaxConnections
  BY <1>1, BoundsAssumption DEF IndInv, Types, CountInv
<1> QED
  BY <1>2 DEF IndInv, Types, TypeOK

-----------------------------------------------------------------------------
(* What a step leaves alone. *)

\* A step that leaves the context alone, outside the start of the program,
\* keeps PoolInv.
LEMMA PoolKept ==
  ASSUME PoolInv, UNCHANGED contextVars,
         mpc \in {"start", "application"} <=> mpc' \in {"start", "application"}
  PROVE  PoolInv'
  BY DEF PoolInv, PoolServes, contextVars

\* Only threads that enter or leave onAccept matter to the accepts.
LEMMA AcceptKept ==
  ASSUME AcceptInv, CountInv, UNCHANGED serverVars,
         \A t \in Threads : tpc'[t] = "onAccept" <=> tpc[t] = "onAccept",
         mpc' \in Starting => mpc \in Starting,
         mpc' = "join" => mpc = "join"
  PROVE  AcceptInv' /\ CountInv'
<1>1. Accepting' = Accepting /\ Outstanding' = Outstanding
  BY DEF Accepting, Outstanding, serverVars
<1>2. AcceptsOn' /\ OneAccept'
  BY <1>1 DEF AcceptInv, AcceptsOn, OneAccept, serverVars
<1>3. CountInv'
  BY <1>1 DEF CountInv, serverVars, sessionVars
<1> QED
  BY <1>1, <1>2, <1>3 DEF AcceptInv

\* Whoever logs while there is a logger, or while the process is aborting.
LEMMA Logged ==
  ASSUME IndInv, Log, logger = "up" \/ (logger = "down" /\ aborting)
  PROVE  /\ UNCHANGED <<logger, aborting>>
         /\ LoggedInTime'
         /\ lines' \in 0..LogCapacity /\ crashed' \in BOOLEAN
<1>1. CASE logger = "up"
  BY <1>1, LogCapacityAssumption DEF Log, IndInv, Types, LogInv, LoggedInTime
<1>2. CASE logger # "up"
  BY <1>2 DEF Log, IndInv, Types, LogInv, LoggedInTime
<1> QED
  BY <1>1, <1>2 DEF Log

-----------------------------------------------------------------------------
(* The initial states satisfy the invariant, and each action preserves it. *)

\* No thread runs, nothing is accepted and nothing logged at the start.
LEMMA InitInv == Init => IndInv
<1> SUFFICES ASSUME Init
             PROVE  IndInv
  OBVIOUS
<1>1. Types
  <2>1. 0 \in 0..MaxConnections /\ 0 \in Nat /\ 0 \in 0..LogCapacity
    BY BoundsAssumption, LogCapacityAssumption
  <2>2. tpc \in [Threads -> ThreadPC] /\ accept \in [AcceptStates -> Nat]
    BY DEF Init, ThreadPC
  <2> QED
    BY <2>1, <2>2, Zenon DEF Init, Types, MainPC, Codes
<1>2. PoolInv
  BY DEF Init, PoolInv, PoolServes
<1>3. AcceptInv /\ CountInv
  <2>1. Accepting = {} /\ Outstanding = 0 /\ accept["connected"] = 0
    BY DEF Init, Accepting, Outstanding, AcceptStates
  <2> QED
    BY <2>1 DEF Init, AcceptInv, CountInv, AcceptsOn, OneAccept
<1>4. LogInv
  BY DEF Init, LogInv, LoggedInTime
<1> QED
  BY <1>1, <1>2, <1>3, <1>4 DEF IndInv

\* The steps of the main thread up to the construction of the server.
LEMMA StartPreserves ==
  ASSUME IndInv, Initialize \/ Construct \/ AllSpawned \/ MainPasses
  PROVE  IndInv'
<1>1. CASE Initialize
  <2>1. Types'
    BY <1>1, LogCapacityAssumption DEF Initialize, contextVars, serverVars,
       sessionVars, IndInv, Types, MainPC
  <2>2. PoolInv'
    BY <1>1, PoolKept DEF Initialize, IndInv
  <2>3. AcceptInv' /\ CountInv'
    BY <1>1, AcceptKept DEF Initialize, contextVars, IndInv, Starting
  <2>4. LogInv'
    BY <1>1 DEF Initialize, contextVars, IndInv, PoolInv, LogInv, LoggedInTime
  <2> QED
    BY <2>1, <2>2, <2>3, <2>4 DEF IndInv
<1>2. CASE Construct
  <2>1. logger = "up"
    BY <1>2 DEF Construct, IndInv, Types, LogInv
  <2>2. /\ UNCHANGED <<logger, aborting>> /\ LoggedInTime'
        /\ lines' \in 0..LogCapacity /\ crashed' \in BOOLEAN
    BY <1>2, <2>1, Logged DEF Construct
  <2>3. Types'
    BY <1>2, <2>2 DEF Construct, serverVars, sessionVars, IndInv, Types, MainPC
  <2>4. PoolInv'
    BY <1>2 DEF Construct, IndInv, PoolInv, PoolServes
  <2>5. AcceptInv' /\ CountInv'
    BY <1>2, AcceptKept DEF Construct, IndInv, Starting
  <2>6. LogInv'
    BY <1>2, <2>2 DEF Construct, IndInv, LogInv
  <2> QED
    BY <2>3, <2>4, <2>5, <2>6 DEF IndInv
<1>3. CASE AllSpawned \/ MainPasses
  <2>1. Types'
    BY <1>3 DEF AllSpawned, MainPasses, contextVars, serverVars, sessionVars,
       logVars, IndInv, Types, MainPC
  <2>2. PoolInv'
    BY <1>3, PoolKept DEF AllSpawned, MainPasses, IndInv
  <2>3. AcceptInv' /\ CountInv'
    BY <1>3, AcceptKept DEF AllSpawned, MainPasses, contextVars, IndInv,
       Starting
  <2>4. LogInv'
    BY <1>3 DEF AllSpawned, MainPasses, contextVars, logVars, IndInv, LogInv,
       LoggedInTime
  <2> QED
    BY <2>1, <2>2, <2>3, <2>4 DEF IndInv
<1> QED
  BY <1>1, <1>2, <1>3

\* A thread of the pool is started.
LEMMA SpawnPreserves ==
  ASSUME IndInv, NEW t \in Threads, Spawn(t)
  PROVE  IndInv'
<1>1. Types'
  BY DEF Spawn, mainVars, serverVars, sessionVars, logVars, IndInv, Types,
     ThreadPC
<1>2. PoolInv'
  BY DEF Spawn, mainVars, IndInv, Types, PoolInv, PoolServes
<1>3. AcceptInv' /\ CountInv'
  BY AcceptKept DEF Spawn, mainVars, IndInv, Starting, Types
<1>4. LogInv'
  BY DEF Spawn, mainVars, logVars, IndInv, Types, LogInv, LoggedInTime
<1> QED
  BY <1>1, <1>2, <1>3, <1>4 DEF IndInv

\* The construction of the server, in its three outcomes.
LEMMA ServerPreserves ==
  ASSUME IndInv, ConstructServer \/ ConstructThrows \/ ConstructTerminates
  PROVE  IndInv'
<1>1. CASE ConstructServer
  <2>1. logger = "up"
    BY <1>1 DEF ConstructServer, IndInv, Types, LogInv
  <2>2. /\ UNCHANGED <<logger, aborting>> /\ LoggedInTime'
        /\ lines' \in 0..LogCapacity /\ crashed' \in BOOLEAN
    BY <1>1, <2>1, Logged DEF ConstructServer
  <2>3. Types'
    BY <1>1, <2>2 DEF ConstructServer, contextVars, sessionVars, IndInv, Types,
       MainPC
  <2>4. PoolInv'
    BY <1>1, PoolKept DEF ConstructServer, IndInv
  <2>5. AcceptInv' /\ CountInv'
    <3>1. Accepting' = Accepting /\ Outstanding' = Outstanding
      BY <1>1 DEF ConstructServer, contextVars, Accepting, Outstanding
    <3> QED
      BY <1>1, <3>1 DEF ConstructServer, sessionVars, IndInv, AcceptInv,
         CountInv, AcceptsOn, OneAccept, Starting
  <2>6. LogInv'
    BY <1>1, <2>2 DEF ConstructServer, contextVars, IndInv, LogInv
  <2> QED
    BY <2>3, <2>4, <2>5, <2>6 DEF IndInv
<1>2. CASE ConstructThrows \/ ConstructTerminates
  <2>1. Types'
    <3>1. CASE ConstructThrows
      BY <3>1 DEF ConstructThrows, contextVars, serverVars, sessionVars,
         logVars, IndInv, Types, MainPC
    <3>2. CASE ConstructTerminates
      <4>1. aborting' \in BOOLEAN
        BY <3>2, Zenon DEF ConstructTerminates
      <4> QED
        BY <3>2, <4>1 DEF ConstructTerminates, contextVars, serverVars,
           sessionVars, IndInv, Types, MainPC
    <3> QED
      BY <1>2, <3>1, <3>2
  <2>2. PoolInv'
    BY <1>2, PoolKept DEF ConstructThrows, ConstructTerminates, IndInv
  <2>3. AcceptInv' /\ CountInv'
    BY <1>2, AcceptKept DEF ConstructThrows, ConstructTerminates, contextVars,
       IndInv, Starting
  <2>4. LogInv'
    BY <1>2 DEF ConstructThrows, ConstructTerminates, contextVars, logVars,
       IndInv, LogInv, LoggedInTime
  <2> QED
    BY <2>1, <2>2, <2>3, <2>4 DEF IndInv
<1> QED
  BY <1>1, <1>2

\* run(): the first accept is started.
LEMMA RunPreserves ==
  ASSUME IndInv, Run
  PROVE  IndInv'
<1>1. logger = "up"
  BY DEF Run, IndInv, Types, LogInv
<1>2. /\ UNCHANGED <<logger, aborting>> /\ LoggedInTime'
      /\ lines' \in 0..LogCapacity /\ crashed' \in BOOLEAN
  BY <1>1, Logged DEF Run
<1>3. Types'
  <2>1. accept' \in [AcceptStates -> Nat]
    BY DEF Run, StartAccept, IndInv, Types, AcceptStates
  <2> QED
    BY <1>2, <2>1 DEF Run, contextVars, sessionVars, IndInv, Types, MainPC
<1>4. PoolInv'
  BY PoolKept DEF Run, IndInv
<1>5. AcceptInv' /\ CountInv'
  <2>1. /\ Accepting' = {} /\ Accepting = {} /\ Outstanding = 0
        /\ accept' = [accept EXCEPT !["pending"] = @ + 1]
    BY DEF Run, StartAccept, contextVars, IndInv, AcceptInv, Accepting,
       Starting
  <2>2. Outstanding' = 1 /\ accept'["connected"] = accept["connected"]
    BY <2>1 DEF Outstanding, IndInv, Types, AcceptStates
  <2> QED
    BY <2>1, <2>2 DEF Run, sessionVars, IndInv, Types, AcceptInv, CountInv,
       AcceptsOn, OneAccept, Starting
<1>6. LogInv'
  BY <1>2 DEF Run, contextVars, IndInv, LogInv
<1> QED
  BY <1>3, <1>4, <1>5, <1>6 DEF IndInv

\* The pool is joined, and run() reports.
LEMMA EndPreserves ==
  ASSUME IndInv, Join \/ Report
  PROVE  IndInv'
<1>1. logger = "up"
  BY DEF Join, Report, IndInv, Types, LogInv
<1>2. /\ UNCHANGED <<logger, aborting>> /\ LoggedInTime'
      /\ lines' \in 0..LogCapacity /\ crashed' \in BOOLEAN
  BY <1>1, Logged DEF Join, Report
<1>3. Types'
  BY <1>2 DEF Join, Report, contextVars, serverVars, sessionVars, IndInv,
     Types, MainPC, Codes
<1>4. PoolInv'
  BY PoolKept DEF Join, Report, IndInv
<1>5. AcceptInv' /\ CountInv'
  BY AcceptKept DEF Join, Report, contextVars, IndInv, Starting
<1>6. LogInv'
  BY <1>2 DEF Join, Report, contextVars, IndInv, LogInv
<1> QED
  BY <1>3, <1>4, <1>5, <1>6 DEF IndInv

\* The context is destroyed, with the sessions that are left.
LEMMA ContextPreserves ==
  ASSUME IndInv, CloseSession \/ DestroyContext
  PROVE  IndInv'
<1>1. logger = "up"
  BY DEF CloseSession, DestroyContext, IndInv, Types, LogInv
<1>2. /\ UNCHANGED <<logger, aborting>> /\ LoggedInTime'
      /\ lines' \in 0..LogCapacity /\ crashed' \in BOOLEAN
  BY <1>1, Logged DEF CloseSession, DestroyContext
<1>3. Types'
  BY <1>2 DEF CloseSession, DestroyContext, mainVars, contextVars, IndInv,
     Types, MainPC, AcceptStates
<1>4. PoolInv'
  BY PoolKept DEF CloseSession, DestroyContext, mainVars, IndInv
<1>5. /\ mpc = "context" /\ mpc' \in {"context", "report"} /\ UNCHANGED failed
      /\ Accepting' = Accepting
  BY DEF CloseSession, DestroyContext, mainVars, contextVars, Accepting
<1>6. AcceptInv'
  <2>1. \/ Outstanding' = Outstanding
        \/ Outstanding' = 0
    BY DEF CloseSession, DestroyContext, Outstanding, AcceptStates
  <2> QED
    BY <1>5, <2>1 DEF IndInv, AcceptInv, AcceptsOn, OneAccept, Starting
<1>7. CountInv'
  <2>1. /\ accept["connected"] \in Nat /\ accept'["connected"] \in Nat
        /\ accept'["connected"] <= accept["connected"]
    BY DEF CloseSession, DestroyContext, AcceptStates, IndInv, Types
  <2> QED
    BY <1>5, <2>1 DEF CloseSession, DestroyContext, IndInv, Types, CountInv
<1>8. LogInv'
  BY <1>2 DEF CloseSession, DestroyContext, mainVars, contextVars, IndInv,
     LogInv
<1> QED
  BY <1>3, <1>4, <1>6, <1>7, <1>8 DEF IndInv

\* The logger is taken down and its last lines are written.
LEMMA UninitializePreserves ==
  ASSUME IndInv, Uninitialize \/ Return \/ WriteLine
  PROVE  IndInv'
<1>1. Types'
  BY LogCapacityAssumption DEF Uninitialize, Return, WriteLine, mainVars,
     contextVars, serverVars, sessionVars, logVars, IndInv, Types, MainPC
<1>2. PoolInv'
  BY PoolKept DEF Uninitialize, Return, WriteLine, mainVars, IndInv
<1>3. AcceptInv' /\ CountInv'
  BY AcceptKept DEF Uninitialize, Return, WriteLine, mainVars, contextVars,
     IndInv, Starting
<1>4. LogInv'
  BY DEF Uninitialize, Return, WriteLine, mainVars, contextVars, logVars,
     IndInv, LogInv, LoggedInTime
<1> QED
  BY <1>1, <1>2, <1>3, <1>4 DEF IndInv

\* A thread passes the barrier, goes round its loop or comes out of
\* io_context::run.
LEMMA ThreadPreserves ==
  ASSUME IndInv, NEW t \in Threads, Passes(t) \/ Loop(t) \/ RunReturns(t)
  PROVE  IndInv'
<1>1. /\ UNCHANGED <<mpc, result, isRunning, wait, serverVars, logVars>>
      /\ tpc[t] \in {"barrier", "loop", "run"}
      /\ \E l \in {"loop", "left", "run"} : tpc' = [tpc EXCEPT ![t] = l]
  BY DEF Passes, Loop, RunReturns, Goto, mainVars
<1>2. Types'
  <2>1. stopped' \in BOOLEAN
    BY Zenon DEF Passes, Loop, RunReturns, IndInv, Types
  <2> QED
    BY <1>1, <2>1 DEF serverVars, sessionVars, logVars, IndInv, Types, ThreadPC
<1>3. wait # "none"
  BY <1>1 DEF IndInv, PoolInv
<1>4. PoolInv'
  <2>1. stopped' => wait = "done"
    BY <1>3 DEF Passes, Loop, RunReturns, Work, IndInv, Types, PoolInv
  <2>2. stopped => stopped'
    BY DEF Passes, Loop, RunReturns
  <2>3. tpc'[t] = "left" => stopped'
    BY DEF Passes, Loop, RunReturns, Goto, IndInv, Types
  <2> QED
    BY <1>1, <1>3, <2>1, <2>2, <2>3 DEF IndInv, Types, PoolInv, PoolServes
<1>5. AcceptInv' /\ CountInv'
  BY <1>1, AcceptKept DEF IndInv, Starting, Types
<1>6. LogInv'
  BY <1>1 DEF logVars, IndInv, Types, LogInv, LoggedInTime
<1> QED
  BY <1>2, <1>4, <1>5, <1>6 DEF IndInv

\* A thread that has not left finds a logger, or the process is aborting.
LEMMA ThreadLogs ==
  ASSUME IndInv, NEW t \in Threads, tpc[t] \notin {"none", "left"}
  PROVE  logger = "up" \/ (logger = "down" /\ aborting)
  BY DEF IndInv, Types, PoolInv, LogInv

\* The signal stops the context.
LEMMA OnSignalPreserves ==
  ASSUME IndInv, NEW t \in Threads, OnSignal(t)
  PROVE  IndInv'
<1>1. /\ UNCHANGED <<logger, aborting>> /\ LoggedInTime'
      /\ lines' \in 0..LogCapacity /\ crashed' \in BOOLEAN
  BY ThreadLogs, Logged DEF OnSignal
<1>2. Types'
  BY <1>1 DEF OnSignal, serverVars, sessionVars, IndInv, Types
<1>3. PoolInv'
  BY DEF OnSignal, IndInv, PoolInv, PoolServes
<1>4. AcceptInv' /\ CountInv'
  BY AcceptKept DEF OnSignal, IndInv, Starting
<1>5. LogInv'
  BY <1>1 DEF OnSignal, IndInv, LogInv
<1> QED
  BY <1>2, <1>3, <1>4, <1>5 DEF IndInv

\* A completed accept is taken by one thread.
LEMMA AcceptedPreserves ==
  ASSUME IndInv, NEW t \in Threads, Accepted(t)
  PROVE  IndInv'
<1>1. /\ UNCHANGED <<mpc, result, isRunning, stopped, wait, listening, arrived,
                     sessions, refused, opening, open, logVars>>
      /\ tpc[t] = "run" /\ Accepting = {}
  BY DEF Accepted, mainVars, sessionVars, Accepting
<1>2. PICK s \in {"connected", "failed"} :
           /\ accept[s] > 0
           /\ accept' = [accept EXCEPT ![s] = @ - 1]
           /\ tpc' = [tpc EXCEPT ![t] = IF s = "connected" THEN "onAccept"
                                                           ELSE "throw"]
           /\ s = "connected" => failed' = failed
           /\ s = "failed" => failed' = TRUE
  BY DEF Accepted, Goto
<1>3. /\ accept["pending"] \in Nat /\ accept["connected"] \in Nat
      /\ accept["failed"] \in Nat
  BY DEF IndInv, Types, AcceptStates
<1>4. Outstanding = 1 /\ Outstanding' = 0
  BY <1>2, <1>3 DEF Outstanding, IndInv, Types, AcceptStates, AcceptInv,
     OneAccept
<1>5. Types'
  <2>1. failed' \in BOOLEAN
    BY <1>2, Zenon DEF IndInv, Types
  <2>2. accept' \in [AcceptStates -> Nat]
    BY <1>2, <1>3 DEF IndInv, Types, AcceptStates
  <2>3. tpc' \in [Threads -> ThreadPC]
    BY <1>2 DEF IndInv, Types, ThreadPC
  <2> QED
    BY <1>1, <2>1, <2>2, <2>3 DEF logVars, IndInv, Types
<1>6. PoolInv'
  BY <1>1, <1>2 DEF IndInv, Types, PoolInv, PoolServes
<1>7. AcceptInv' /\ CountInv'
  <2>1. Accepting' = IF s = "connected" THEN {t} ELSE {}
    BY <1>1, <1>2 DEF Accepting, IndInv, Types
  <2>2. mpc \notin Starting
    BY <1>4 DEF IndInv, AcceptInv
  <2>3. CASE s = "connected"
    <3>1. accept'["connected"] = accept["connected"] - 1
      BY <1>2, <2>3 DEF IndInv, Types, AcceptStates
    <3> QED
      BY <1>1, <1>2, <1>3, <1>4, <2>1, <2>2, <2>3, <3>1 DEF IndInv, Types,
         AcceptInv, CountInv, AcceptsOn, OneAccept
  <2>4. CASE s = "failed"
    <3>1. accept'["connected"] = accept["connected"]
      BY <1>2, <2>4 DEF IndInv, Types, AcceptStates
    <3> QED
      BY <1>1, <1>2, <1>4, <2>1, <2>2, <2>4, <3>1 DEF IndInv, Types, AcceptInv,
         CountInv, AcceptsOn, OneAccept
  <2> QED
    BY <2>3, <2>4
<1>8. LogInv'
  BY <1>1, <1>2 DEF logVars, IndInv, Types, LogInv, LoggedInTime
<1> QED
  BY <1>5, <1>6, <1>7, <1>8 DEF IndInv

\* onAccept: the connection gets a session or is gone, and the next accept is
\* started on both ways out.
LEMMA OnAcceptPreserves ==
  ASSUME IndInv, NEW t \in Threads, OnAccept(t)
  PROVE  IndInv'
<1>1. /\ UNCHANGED <<logger, aborting>> /\ LoggedInTime'
      /\ lines' \in 0..LogCapacity /\ crashed' \in BOOLEAN
  BY ThreadLogs, Logged DEF OnAccept
<1>2. /\ UNCHANGED <<mpc, result, isRunning, stopped, wait, listening, arrived,
                     failed, open>>
      /\ tpc[t] = "onAccept" /\ t \in Accepting
      /\ accept' = [accept EXCEPT !["pending"] = @ + 1]
      /\ \E l \in {"run", "throw"} : tpc' = [tpc EXCEPT ![t] = l]
      /\ sessions' \in Nat /\ refused' \in Nat /\ opening' \in Nat
      /\ opening' + open' <= sessions'
  <2>1. /\ sessions' \in Nat /\ refused' \in Nat /\ opening' \in Nat
        /\ opening' + open' <= sessions'
    BY DEF OnAccept, MakeSession, IndInv, Types, CountInv
  <2> QED
    BY <2>1 DEF OnAccept, MakeSession, StartAccept, Goto, mainVars, Accepting
<1>3. Types'
  BY <1>1, <1>2 DEF IndInv, Types, ThreadPC, AcceptStates
<1>4. PoolInv'
  BY <1>2 DEF IndInv, Types, PoolInv, PoolServes
<1>5. AcceptInv' /\ CountInv'
  <2>1. Accepting = {t} /\ Accepting' = {}
    BY <1>2 DEF Accepting, IndInv, Types, AcceptInv
  <2>2. /\ Outstanding' = 1
        /\ accept'["connected"] = accept["connected"]
        /\ accept["connected"] \in Nat
    BY <1>2, <2>1 DEF Outstanding, IndInv, Types, AcceptStates, AcceptInv,
       OneAccept
  <2>3. mpc \notin Starting
    BY <2>1 DEF IndInv, AcceptInv
  <2>4. AcceptInv'
    BY <1>2, <2>1, <2>2, <2>3 DEF IndInv, AcceptInv, AcceptsOn, OneAccept
  <2>5. CountInv'
    <3>1. /\ sessions + refused + accept["connected"] + 1 <= arrived
          /\ sessions \in Nat /\ refused \in Nat /\ arrived \in Nat
      BY <2>1 DEF IndInv, Types, CountInv
    <3>2. sessions' + refused' + accept["connected"] + 0 <= arrived
      BY <2>2, <3>1 DEF OnAccept, MakeSession
    <3>3. sessions' + refused' + accept'["connected"] + 0 <= arrived'
      BY <1>2, <2>2, <3>2
    <3> QED
      BY <1>2, <2>1, <3>3 DEF CountInv
  <2> QED
    BY <2>4, <2>5
<1>6. LogInv'
  BY <1>1, <1>2 DEF IndInv, Types, LogInv
<1> QED
  BY <1>3, <1>4, <1>5, <1>6 DEF IndInv

\* An exception is caught and the thread goes on.
LEMMA CatchPreserves ==
  ASSUME IndInv, NEW t \in Threads, Catch(t)
  PROVE  IndInv'
<1>1. /\ UNCHANGED <<logger, aborting>> /\ LoggedInTime'
      /\ lines' \in 0..LogCapacity /\ crashed' \in BOOLEAN
  BY ThreadLogs, Logged DEF Catch
<1>2. Types'
  BY <1>1 DEF Catch, Goto, mainVars, serverVars, sessionVars, IndInv, Types,
     ThreadPC
<1>3. PoolInv'
  BY DEF Catch, Goto, mainVars, IndInv, Types, PoolInv, PoolServes
<1>4. AcceptInv' /\ CountInv'
  BY AcceptKept DEF Catch, Goto, mainVars, IndInv, Starting, Types
<1>5. LogInv'
  BY <1>1 DEF Catch, Goto, mainVars, IndInv, Types, LogInv
<1> QED
  BY <1>2, <1>3, <1>4, <1>5 DEF IndInv

\* A session opens, or is given up.
LEMMA SessionPreserves ==
  ASSUME IndInv, NEW t \in Threads, Opened(t) \/ Closed(t)
  PROVE  IndInv'
<1>1. /\ UNCHANGED <<logger, aborting>> /\ LoggedInTime'
      /\ lines' \in 0..LogCapacity /\ crashed' \in BOOLEAN
  BY ThreadLogs, Logged DEF Opened, Closed
<1>2. /\ UNCHANGED <<mainVars, contextVars, listening, accept, arrived, sessions,
                     refused, failed>>
      /\ opening' \in Nat /\ open' \in Nat
  BY DEF Opened, Closed, IndInv, Types
<1>3. Types'
  BY <1>1, <1>2 DEF mainVars, contextVars, IndInv, Types
<1>4. PoolInv'
  BY <1>2, PoolKept DEF mainVars, IndInv
<1>5. AcceptInv' /\ CountInv'
  <2>1. Accepting' = Accepting /\ Outstanding' = Outstanding
    BY <1>2 DEF Accepting, Outstanding, contextVars
  <2>2. AcceptInv'
    BY <1>2, <2>1 DEF mainVars, IndInv, AcceptInv, AcceptsOn, OneAccept
  <2>3. CountInv'
    <3>1. opening' + open' <= sessions
      BY DEF Opened, Closed, IndInv, Types, CountInv
    <3> QED
      BY <1>2, <2>1, <3>1 DEF IndInv, CountInv
  <2> QED
    BY <2>2, <2>3
<1>6. LogInv'
  BY <1>1, <1>2 DEF mainVars, contextVars, IndInv, LogInv
<1> QED
  BY <1>3, <1>4, <1>5, <1>6 DEF IndInv

\* A signal, a client or a failed accept.
LEMMA OutsidePreserves ==
  ASSUME IndInv, Signal \/ Connect \/ AcceptFails
  PROVE  IndInv'
<1>1. Types'
  <2>1. CASE Signal
    BY <2>1 DEF Signal, mainVars, serverVars, sessionVars, logVars, IndInv,
       Types
  <2>2. CASE Connect \/ AcceptFails
    <3>1. accept' \in [AcceptStates -> Nat] /\ arrived' \in 0..MaxConnections
      BY <2>2, BoundsAssumption DEF Connect, AcceptFails, IndInv, Types,
         AcceptStates
    <3> QED
      BY <2>2, <3>1 DEF Connect, AcceptFails, mainVars, contextVars,
         sessionVars, logVars, IndInv, Types
  <2> QED
    BY <2>1, <2>2
<1>2. PoolInv'
  BY DEF Signal, Connect, AcceptFails, mainVars, contextVars, IndInv, PoolInv,
     PoolServes
<1>3. AcceptInv' /\ CountInv'
  <2>1. CASE Signal
    BY <2>1, AcceptKept DEF Signal, mainVars, IndInv, Starting
  <2>2. CASE Connect \/ AcceptFails
    <3>1. /\ UNCHANGED <<mpc, tpc, sessions, refused, failed, opening, open>>
          /\ accept["pending"] > 0 /\ Accepting' = Accepting
      BY <2>2 DEF Connect, AcceptFails, mainVars, contextVars, sessionVars,
         Accepting
    <3>2. /\ accept["pending"] \in Nat /\ accept["connected"] \in Nat
          /\ accept["failed"] \in Nat
      BY DEF IndInv, Types, AcceptStates
    <3>3. Outstanding = 1 /\ Accepting = {}
      BY <3>1, <3>2 DEF Outstanding, IndInv, AcceptInv, OneAccept
    <3>4. Outstanding' = Outstanding
      BY <2>2, <3>2 DEF Connect, AcceptFails, Outstanding, IndInv, Types,
         AcceptStates
    <3>5. CountInv'
      <4>1. /\ accept'["connected"] \in Nat /\ arrived' \in Nat
            /\ arrived' - accept'["connected"] = arrived - accept["connected"]
        BY <2>2, <3>2 DEF Connect, AcceptFails, IndInv, Types, AcceptStates
      <4> QED
        BY <3>1, <3>2, <4>1 DEF IndInv, Types, CountInv
    <3> QED
      BY <3>1, <3>3, <3>4, <3>5 DEF IndInv, AcceptInv, AcceptsOn, OneAccept
  <2> QED
    BY <2>1, <2>2
<1>4. LogInv'
  BY DEF Signal, Connect, AcceptFails, mainVars, contextVars, logVars, IndInv,
     LogInv, LoggedInTime
<1> QED
  BY <1>1, <1>2, <1>3, <1>4 DEF IndInv

\* The invariant holds in every reachable state.
THEOREM Invariance == Spec => []IndInv
<1>1. IndInv /\ [Next]_vars => IndInv'
  <2> SUFFICES ASSUME IndInv, [Next]_vars
               PROVE  IndInv'
    OBVIOUS
  <2>1. CASE UNCHANGED vars
    <3>1. Types'
      BY <2>1 DEF vars, mainVars, contextVars, serverVars, sessionVars,
         logVars, IndInv, Types
    <3>2. PoolInv' /\ AcceptInv' /\ CountInv'
      BY <2>1, PoolKept, AcceptKept DEF vars, mainVars, contextVars, IndInv,
         Starting
    <3>3. LogInv'
      BY <2>1 DEF vars, mainVars, contextVars, logVars, IndInv, LogInv,
         LoggedInTime
    <3> QED
      BY <3>1, <3>2, <3>3 DEF IndInv
  <2>2. CASE Main
    BY <2>2, StartPreserves, SpawnPreserves, ServerPreserves, RunPreserves,
       EndPreserves, ContextPreserves, UninitializePreserves DEF Main
  <2>3. ASSUME NEW t \in Threads, Steps(t)
        PROVE  IndInv'
    BY <2>3, ThreadPreserves, OnAcceptPreserves, CatchPreserves DEF Steps
  <2> QED
    BY <2>1, <2>2, <2>3, OnSignalPreserves, AcceptedPreserves,
       SessionPreserves, ContextPreserves, UninitializePreserves,
       OutsidePreserves DEF Next, RunSignal, RunAccept, RunSession, RunLogger,
       AnsweredClose, Outside, Finished
<1> QED
  BY <1>1, InitInv, PTL DEF Spec

-----------------------------------------------------------------------------
(* What follows. *)

\* Every variable keeps its type; no more sessions are made than connections
\* have come, and the logger's queue never exceeds its capacity.
THEOREM TypeCorrect == Spec => []TypeOK
  BY Invariance, TypeOfParts, PTL

\* ThreadPool.cpp:12-20 with Application.hpp:25-35.  No thread of the pool
\* leaves before a signal has stopped the context.
THEOREM Serving == Spec => []PoolServes
<1>1. IndInv => PoolServes
  BY DEF IndInv, PoolInv
<1> QED
  BY <1>1, Invariance, PTL

\* Server.cpp:59-92.  The accept loop goes on until an accept fails.
THEOREM AcceptsGoOn == Spec => []AcceptsOn
<1>1. IndInv => AcceptsOn
  BY DEF IndInv, AcceptInv
<1> QED
  BY <1>1, Invariance, PTL

\* Server.cpp:14, 59-92.  Whichever way onAccept is left, and on however many
\* threads, at most one accept is outstanding or being handled.
THEOREM OneAtATime == Spec => []OneAccept
<1>1. IndInv => OneAccept
  BY DEF IndInv, AcceptInv
<1> QED
  BY <1>1, Invariance, PTL

\* run.hpp:33-49, log.cpp:27-31, ThreadPool.cpp:42-51.  Without std::terminate
\* nobody logs when there is no logger.
THEOREM LogsInTime == Spec => []LoggedInTime
<1>1. IndInv => LoggedInTime
  BY DEF IndInv, LogInv
<1> QED
  BY <1>1, Invariance, PTL

\* ThreadPool.cpp:42-51 with run.hpp:33-57.  From the destruction of the context
\* on no thread of the pool runs any more, unless the process is aborting.
NobodyLeftRunning ==
  mpc \in {"context", "report", "uninitialize", "drain", "done"} /\ ~aborting =>
    \A t \in Threads : tpc[t] = "left"

\* Whatever fails on the way, a program that ends by itself has joined its pool
\* before it destroys the context and takes the logger down.
THEOREM Joined == Spec => []NobodyLeftRunning
<1>1. IndInv => NobodyLeftRunning
  BY DEF IndInv, LogInv, NobodyLeftRunning
<1> QED
  BY <1>1, Invariance, PTL

=============================================================================
