---------------------------- MODULE LaunchProofs ----------------------------
(***************************************************************************)
(* Proofs about Launch, for any number of processes.                       *)
(***************************************************************************)
EXTENDS Launch, TLAPS

\* The controller stops the processes from the first one on, and has joined the
\* threads before its position.
JoinInv ==
  /\ mpc = "sleep" => idx = 1
  /\ mpc \in {"stop", "join"} => \A p \in 1..(idx - 1) : thread[p] = "ended"
  /\ mpc = "stopped" => \A p \in Processes : thread[p] = "ended"

\* A thread gets past communicate() only when its program has ended, and never
\* starts a second one.
ThreadInv ==
  \A p \in Processes : thread[p] \in {"test", "ended"} => child[p] \in Exited

IndInv == TypeOK /\ JoinInv /\ ThreadInv

\* Before the first thread is started there is nothing to join.
LEMMA InitInv == Init => IndInv
  BY NAssumption DEF Init, IndInv, TypeOK, JoinInv, ThreadInv, Processes, Exited

\* A step of the main thread.
LEMMA MainPreserves ==
  ASSUME IndInv, Main
  PROVE  IndInv'
<1>1. CASE Start
  BY <1>1, NAssumption DEF Start, IndInv, TypeOK, JoinInv, ThreadInv, Processes,
     Exited
<1>2. CASE Stop
  BY <1>2, NAssumption DEF Stop, IndInv, TypeOK, JoinInv, ThreadInv, Processes,
     Exited
<1>3. CASE Join
  <2>1. TypeOK' /\ ThreadInv'
    BY <1>3, NAssumption DEF Join, IndInv, TypeOK, ThreadInv, Processes, Exited
  <2>2. \A p \in 1..idx : thread[p] = "ended"
    BY <1>3 DEF Join, IndInv, TypeOK, JoinInv, Processes
  <2>3. JoinInv'
    BY <1>3, <2>2, NAssumption DEF Join, IndInv, TypeOK, JoinInv, Processes
  <2> QED
    BY <2>1, <2>3 DEF IndInv
<1> QED
  BY <1>1, <1>2, <1>3 DEF Main

\* A signal, wherever it comes from and whatever it interrupts.
LEMMA InterruptPreserves ==
  ASSUME IndInv, NEW terminal \in BOOLEAN, Interrupt(terminal)
  PROVE  IndInv'
<1>1. told' \in [Processes -> BOOLEAN]
  BY DEF Interrupt, IndInv, TypeOK
<1>2. TypeOK'
  BY <1>1 DEF Interrupt, IndInv, TypeOK
<1>3. JoinInv'
  <2>1. CASE mpc = "sleep"
    BY <2>1 DEF Interrupt, IndInv, TypeOK, JoinInv
  <2>2. CASE mpc # "sleep"
    BY <2>2 DEF Interrupt, JoinInv
  <2> QED
    BY <2>1, <2>2
<1>4. ThreadInv'
  BY DEF Interrupt, IndInv, ThreadInv
<1> QED
  BY <1>2, <1>3, <1>4 DEF IndInv

\* A step of the thread of a process, or the end of its program.
LEMMA ProcessPreserves ==
  ASSUME IndInv, NEW p \in Processes, Thread(p) \/ Exit(p)
  PROVE  IndInv'
<1>1. CASE Begin(p)
  BY <1>1 DEF Begin, IndInv, TypeOK, JoinInv, ThreadInv, Processes
<1>2. CASE Spawn(p)
  BY <1>2 DEF Spawn, IndInv, TypeOK, JoinInv, ThreadInv, Processes, Exited
<1>3. CASE Communicate(p)
  BY <1>3 DEF Communicate, IndInv, TypeOK, JoinInv, ThreadInv, Processes
<1>4. CASE Test(p)
  BY <1>4 DEF Test, IndInv, TypeOK, JoinInv, ThreadInv, Processes
<1>5. CASE Exit(p)
  BY <1>5 DEF Exit, IndInv, TypeOK, JoinInv, ThreadInv, Processes, Exited
<1> QED
  BY <1>1, <1>2, <1>3, <1>4, <1>5 DEF Thread

\* The invariant holds in every reachable state.
THEOREM Invariance == Spec => []IndInv
<1>1. IndInv /\ [Next]_vars => IndInv'
  <2> SUFFICES ASSUME IndInv, [Next]_vars
               PROVE  IndInv'
    OBVIOUS
  <2>1. CASE UNCHANGED vars
    BY <2>1 DEF vars, IndInv, TypeOK, JoinInv, ThreadInv
  <2> QED
    BY <2>1, MainPreserves, InterruptPreserves, ProcessPreserves DEF Next
<1> QED
  BY <1>1, InitInv, PTL DEF Spec

\* controller.py:29-34, process.py:43-51.  The supervisor's "stopped" means that
\* every program has ended, for any number of processes and however often the
\* supervisor was interrupted before.
THEOREM Stopped == Spec => []StoppedMeansExited
<1>1. IndInv => StoppedMeansExited
  BY DEF IndInv, JoinInv, ThreadInv, StoppedMeansExited
<1> QED
  BY <1>1, Invariance, PTL

=============================================================================
