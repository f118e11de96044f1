------------------------------- MODULE Launch -------------------------------
(***************************************************************************)
(* launch/: the supervisor that starts the service and the bot and stops   *)
(* them when it is interrupted.  The main thread starts a thread per       *)
(* process; each starts its program in a shell and waits for it.           *)
(***************************************************************************)
EXTENDS Naturals

CONSTANT N   \* processes, 1..N, in the order of the controller's list

ASSUME NAssumption == N \in Nat \ {0}

VARIABLES
  mpc,     \* where the main thread is
  idx,     \* the process its loop is at
  thread,  \* thread[p]: where the thread of process p is
  launch,  \* launch[p]: __launch of its executor
  child,   \* child[p]: the program and its return code
  told     \* told[p]: the program has received the terminal's SIGINT

vars == <<mpc, idx, thread, launch, child, told>>

Processes == 1..N
Exited == {"zero", "nonzero"}

TypeOK ==
  /\ mpc \in {"start", "sleep", "stop", "join", "stopped", "died"}
  /\ idx \in Processes
  /\ thread \in [Processes ->
                   {"none", "begin", "spawn", "communicate", "test", "ended"}]
  /\ launch \in [Processes -> BOOLEAN]
  /\ child \in [Processes -> {"none", "running"} \cup Exited]
  /\ told \in [Processes -> BOOLEAN]

Init ==
  /\ mpc = "start" /\ idx = 1
  /\ thread = [p \in Processes |-> "none"]
  /\ launch = [p \in Processes |-> FALSE]
  /\ child = [p \in Processes |-> "none"]
  /\ told = [p \in Processes |-> FALSE]

-----------------------------------------------------------------------------
(* The main thread. *)

\* ProcessController.start, Process.start: the next thread is started.
Start ==
  /\ mpc = "start"
  /\ thread' = [thread EXCEPT ![idx] = "begin"]
  /\ IF idx = N
     THEN mpc' = "sleep" /\ idx' = 1
     ELSE mpc' = mpc /\ idx' = idx + 1
  /\ UNCHANGED <<launch, child, told>>

\* SIGINT, from the terminal to the programs too or to the supervisor alone.
\* Only the sleeping loop handles the exception; anywhere else it ends the main
\* thread, and the interpreter waits for the others.
Interrupt(terminal) ==
  /\ mpc \in {"start", "sleep", "stop", "join"}
  /\ mpc' = IF mpc = "sleep" THEN "stop" ELSE "died"
  /\ told' = [p \in Processes |->
                told[p] \/ (terminal /\ child[p] = "running")]
  /\ UNCHANGED <<idx, thread, launch, child>>

\* ProcessExecutor.stop
Stop ==
  /\ mpc = "stop"
  /\ launch' = [launch EXCEPT ![idx] = FALSE]
  /\ mpc' = "join"
  /\ UNCHANGED <<idx, thread, child, told>>

\* Mutant: the loop of the controller skips the last process.
JoinAllButOne ==
  /\ mpc = "join"
  /\ thread[idx] = "ended"
  /\ IF idx + 1 >= N
     THEN mpc' = "stopped" /\ UNCHANGED idx
     ELSE mpc' = "stop" /\ idx' = idx + 1
  /\ UNCHANGED <<thread, launch, child, told>>

\* Process.stop joins the thread, and the controller goes on to the next.
Join ==
  /\ mpc = "join"
  /\ thread[idx] = "ended"
  /\ IF idx = N
     THEN mpc' = "stopped" /\ UNCHANGED idx
     ELSE mpc' = "stop" /\ idx' = idx + 1
  /\ UNCHANGED <<thread, launch, child, told>>

-----------------------------------------------------------------------------
(* ProcessExecutor.start, in the thread of process p. *)

Begin(p) ==
  /\ thread[p] = "begin"
  /\ launch' = [launch EXCEPT ![p] = TRUE]
  /\ thread' = [thread EXCEPT ![p] = "spawn"]
  /\ UNCHANGED <<mpc, idx, child, told>>

Spawn(p) ==
  /\ thread[p] = "spawn"
  /\ child' = [child EXCEPT ![p] = "running"]
  /\ thread' = [thread EXCEPT ![p] = "communicate"]
  /\ UNCHANGED <<mpc, idx, launch, told>>

\* communicate() returns when the program has ended.
Communicate(p) ==
  /\ thread[p] = "communicate"
  /\ child[p] \in Exited
  /\ thread' = [thread EXCEPT ![p] = "test"]
  /\ UNCHANGED <<mpc, idx, launch, child, told>>

\* Mutant: the return code is not looked at.
TestFlagOnly(p) ==
  /\ thread[p] = "test"
  /\ thread' = [thread EXCEPT ![p] = IF launch[p] THEN "communicate"
                                                  ELSE "ended"]
  /\ UNCHANGED <<mpc, idx, launch, child, told>>

\* Mutant: the flag is not looked at.
TestCodeOnly(p) ==
  /\ thread[p] = "test"
  /\ thread' = [thread EXCEPT ![p] = IF child[p] = "zero" THEN "communicate"
                                                          ELSE "ended"]
  /\ UNCHANGED <<mpc, idx, launch, child, told>>

\* The thread ends if it was told to stop or the program has failed; a program
\* that has ended well is waited for again, at once.  terminate() and wait() of
\* an ended program do nothing.
Test(p) ==
  /\ thread[p] = "test"
  /\ thread' = [thread EXCEPT ![p] =
                  IF ~launch[p] \/ child[p] = "nonzero" THEN "ended"
                                                        ELSE "communicate"]
  /\ UNCHANGED <<mpc, idx, launch, child, told>>

\* The program of p ends, by itself or on the terminal's signal.
Exit(p) ==
  /\ child[p] = "running"
  /\ \E code \in Exited : child' = [child EXCEPT ![p] = code]
  /\ UNCHANGED <<mpc, idx, thread, launch, told>>

-----------------------------------------------------------------------------
Main == Start \/ Stop \/ Join
Thread(p) == Begin(p) \/ Spawn(p) \/ Communicate(p) \/ Test(p)

Next ==
  \/ Main
  \/ \E terminal \in BOOLEAN : Interrupt(terminal)
  \/ \E p \in Processes : Thread(p) \/ Exit(p)

Spec == Init /\ [][Next]_vars

\* The threads run, and a program that receives SIGINT ends.  A program that
\* does not need not end.
Fairness ==
  /\ WF_vars(Main)
  /\ \A p \in Processes : WF_vars(Thread(p)) /\ WF_vars(told[p] /\ Exit(p))

FairSpec == Spec /\ Fairness

-----------------------------------------------------------------------------
(* Properties. *)

\* controller.py:29-34, process.py:43-51.  When the supervisor says that the
\* system is stopped, every program has ended and so has its thread.
StoppedMeansExited ==
  mpc = "stopped" =>
    \A p \in Processes : child[p] \in Exited /\ thread[p] = "ended"

\* executor.py:25-31.  The failure of a program ends its thread without a stop.
FailureSeen ==
  \A p \in Processes : child[p] = "nonzero" ~> thread[p] = "ended"

\* executor.py:25-37.  A stop that the thread of an ended program has not
\* overwritten with its own start ends this thread, even one that is going round
\* its loop because the program ended well.
StopSeen ==
  \A p \in Processes :
    ~launch[p] /\ thread[p] \in {"communicate", "test"} /\ child[p] \in Exited
      ~> thread[p] = "ended"

\* process.py:43-51.  stop() terminates the process and stops the thread, so
\* that the supervisor gets through its stops unless it is interrupted again.
StopTerminates == mpc = "stop" ~> mpc \in {"stopped", "died"}

=============================================================================
