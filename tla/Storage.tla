------------------------------- MODULE Storage -------------------------------
(***************************************************************************)
(* util::Singleton::instance and the two singletons that are made by one   *)
(* another: storage::Storage, whose constructor takes the instance of the  *)
(* main Database and opens its two tables.                                 *)
(*                                                                         *)
(* instance() has a static mutex and a static atomic pointer for each      *)
(* class and list of argument types; here each class is asked for with one *)
(* list.  Both constructors run inside instance(), which is noexcept: an   *)
(* exception ends the process.                                             *)
(***************************************************************************)
EXTENDS Naturals, Sequences

CONSTANTS
  Threads,   \* threads that call instance()
  None,      \* no thread
  MaxCalls   \* bound: calls that one thread makes

ASSUME NoneAssumption == None \notin Threads
ASSUME MaxCallsAssumption == MaxCalls \in Nat

VARIABLES
  stack,     \* stack[t]: the calls of instance() that t is in, innermost first
  calls,     \* calls[t]: how many calls t has made itself
  mutex,     \* mutex[c]: the holder of the static mutex
  instance,  \* instance[c]: the static pointer; 0 is nullptr
  made,      \* made[c]: objects of class c whose construction has begun
  main,      \* main[n]: m_main of the n-th Storage; 0 is nullptr
  tables,    \* tables[n]: the tables that the n-th Storage has opened
  opened,    \* opened[n]: the environment of the n-th Database is open
  returned,  \* what the calls have returned: pairs of class and pointer
  ended      \* the process was terminated

callVars == <<stack, calls, returned>>
staticVars == <<mutex, instance>>
objectVars == <<made, main, tables, opened>>
vars == <<callVars, staticVars, objectVars, ended>>

Classes == {"Storage", "Database"}
Tables == {"blocks", "accounts"}
Labels == {"load", "lock", "check", "construct", "open", "instance",
           "publish", "unlock", "return"} \cup Tables

TypeOK ==
  /\ stack \in [Threads -> Seq([of : Classes, at : Labels])]
  /\ calls \in [Threads -> 0..MaxCalls]
  /\ returned \subseteq Classes \X Nat
  /\ mutex \in [Classes -> Threads \cup {None}]
  /\ instance \in [Classes -> Nat]
  /\ made \in [Classes -> Nat]
  /\ main \in Seq(Nat) /\ Len(main) = made["Storage"]
  /\ tables \in Seq(SUBSET Tables) /\ Len(tables) = made["Storage"]
  /\ opened \in Seq(BOOLEAN) /\ Len(opened) = made["Database"]
  /\ ended \in BOOLEAN

Init ==
  /\ stack = [t \in Threads |-> <<>>]
  /\ calls = [t \in Threads |-> 0]
  /\ returned = {}
  /\ mutex = [c \in Classes |-> None]
  /\ instance = [c \in Classes |-> 0]
  /\ made = [c \in Classes |-> 0]
  /\ main = <<>> /\ tables = <<>> /\ opened = <<>>
  /\ ended = FALSE

-----------------------------------------------------------------------------
(* Thread t is at a label of its innermost call. *)

Frame(c, label) == [of |-> c, at |-> label]

At(t, label) == ~ended /\ stack[t] # <<>> /\ stack[t][1].at = label
Class(t) == stack[t][1].of
Goto(t, label) ==
  /\ stack' = [stack EXCEPT ![t][1].at = label]
  /\ UNCHANGED <<calls, returned>>

Call(t, c) ==
  /\ ~ended
  /\ stack[t] = <<>>
  /\ calls[t] < MaxCalls
  /\ calls' = [calls EXCEPT ![t] = @ + 1]
  /\ stack' = [stack EXCEPT ![t] = <<Frame(c, "load")>>]
  /\ UNCHANGED <<returned, staticVars, objectVars, ended>>

\* The first look, without the lock.
Load(t) ==
  /\ At(t, "load")
  /\ Goto(t, IF instance[Class(t)] # 0 THEN "return" ELSE "lock")
  /\ UNCHANGED <<staticVars, objectVars, ended>>

Lock(t) ==
  /\ At(t, "lock")
  /\ mutex[Class(t)] = None
  /\ mutex' = [mutex EXCEPT ![Class(t)] = t]
  /\ Goto(t, "check")
  /\ UNCHANGED <<instance, objectVars, ended>>

\* Mutant: no second look.
CheckNot(t) ==
  /\ At(t, "check")
  /\ Goto(t, "construct")
  /\ UNCHANGED <<staticVars, objectVars, ended>>

\* Mutant: the lock is given back only after a construction.
CheckKeepsLock(t) ==
  /\ At(t, "check")
  /\ Goto(t, IF instance[Class(t)] # 0 THEN "return" ELSE "construct")
  /\ UNCHANGED <<staticVars, objectVars, ended>>

\* The second look.
Check(t) ==
  /\ At(t, "check")
  /\ Goto(t, IF instance[Class(t)] # 0 THEN "unlock" ELSE "construct")
  /\ UNCHANGED <<staticVars, objectVars, ended>>

\* Database::Database is about to open its environment.
ConstructDatabase(t) ==
  /\ Class(t) = "Database"
  /\ opened' = Append(opened, FALSE)
  /\ Goto(t, "open")
  /\ UNCHANGED <<main, tables>>

\* Storage::Storage makes its directory.
ConstructStorage(t) ==
  /\ Class(t) = "Storage"
  /\ main' = Append(main, 0)
  /\ tables' = Append(tables, {})
  /\ Goto(t, "instance")
  /\ UNCHANGED opened

\* new T(args...)
Construct(t) ==
  /\ At(t, "construct")
  /\ made' = [made EXCEPT ![Class(t)] = @ + 1]
  /\ ConstructDatabase(t) \/ ConstructStorage(t)
  /\ UNCHANGED <<staticVars, ended>>

\* m_env = make_shared<env_managed>(path, ...)
OpenEnvironment(t) ==
  /\ At(t, "open")
  /\ opened' = [opened EXCEPT ![made["Database"]] = TRUE]
  /\ Goto(t, "publish")
  /\ UNCHANGED <<staticVars, made, main, tables, ended>>

\* m_main = MainDb::instance(root / "main"): the call, inside the constructor.
NestedCall(t) ==
  /\ At(t, "instance")
  /\ stack' = [stack EXCEPT ![t] = <<Frame("Database", "load")>> \o @]
  /\ UNCHANGED <<calls, returned, staticVars, objectVars, ended>>

\* openTable: a Writer creates the map and commits.
OpenTable(t, name, next) ==
  /\ At(t, name)
  /\ tables' = [tables EXCEPT ![made["Storage"]] = @ \cup {name}]
  /\ Goto(t, next)
  /\ UNCHANGED <<staticVars, made, main, opened, ended>>

\* Mutant: the pointer is stored before the tables are open.
PublishEarly(t) ==
  /\ \/ At(t, "publish") /\ Goto(t, "unlock")
     \/ At(t, "blocks") /\ instance["Storage"] = 0 /\ UNCHANGED callVars
  /\ instance' = [instance EXCEPT ![Class(t)] = made[Class(t)]]
  /\ UNCHANGED <<mutex, objectVars, ended>>

\* instance = new T(...) stores the pointer to the object that was made.
Publish(t) ==
  /\ At(t, "publish")
  /\ instance' = [instance EXCEPT ![Class(t)] = made[Class(t)]]
  /\ Goto(t, "unlock")
  /\ UNCHANGED <<mutex, objectVars, ended>>

\* The lock_guard goes out of scope.
Unlock(t) ==
  /\ At(t, "unlock")
  /\ mutex' = [mutex EXCEPT ![Class(t)] = None]
  /\ Goto(t, "return")
  /\ UNCHANGED <<instance, objectVars, ended>>

\* instance() returns what the pointer is now, to its caller or to the
\* constructor of Storage.
Return(t) ==
  /\ At(t, "return")
  /\ LET p == instance[Class(t)]
     IN  IF Len(stack[t]) = 1
         THEN /\ returned' = returned \cup {<<Class(t), p>>}
              /\ stack' = [stack EXCEPT ![t] = <<>>]
              /\ UNCHANGED main
         ELSE /\ main' = [main EXCEPT ![made["Storage"]] = p]
              /\ stack' = [stack EXCEPT ![t] = <<Frame("Storage", "blocks")>>]
              /\ UNCHANGED returned
  /\ UNCHANGED <<calls, staticVars, made, tables, opened, ended>>

\* A constructor fails: the directory, the environment or a table cannot be
\* made.  Nothing can be caught: instance() and openTable are noexcept.
Fail(t) ==
  /\ \E label \in {"construct", "open"} \cup Tables : At(t, label)
  /\ ended' = TRUE
  /\ UNCHANGED <<callVars, staticVars, objectVars>>

-----------------------------------------------------------------------------
Step(t) ==
  \/ Load(t) \/ Lock(t) \/ Check(t) \/ Construct(t) \/ OpenEnvironment(t)
  \/ NestedCall(t)
  \/ OpenTable(t, "blocks", "accounts") \/ OpenTable(t, "accounts", "publish")
  \/ Publish(t) \/ Unlock(t) \/ Return(t)

Next ==
  \E t \in Threads : Step(t) \/ Fail(t) \/ \E c \in Classes : Call(t, c)

Spec == Init /\ [][Next]_vars

\* A thread in instance() goes on unless it waits for the mutex.
Fairness == \A t \in Threads : WF_vars(Step(t))

FairSpec == Spec /\ Fairness

-----------------------------------------------------------------------------
(* Properties. *)

\* Everything that the constructor of the object does has been done.
Complete(c, p) ==
  IF c = "Database"
  THEN opened[p]
  ELSE main[p] # 0 /\ tables[p] = Tables /\ opened[main[p]]

\* Singleton.hpp:24-39, Storage.cpp:10-21.  A pointer that any thread can see is
\* one to an object that is completely constructed, with everything the object
\* refers to.
SeenComplete == \A c \in Classes : instance[c] # 0 => Complete(c, instance[c])

\* Singleton.hpp:28-38.  Every call returns the one object of its class, and the
\* storage works on the same database that everybody else gets.
OneObject ==
  /\ \A r \in returned : r = <<r[1], 1>>
  /\ \A n \in 1..made["Storage"] : main[n] \in {0, 1}
  /\ \A c \in Classes : made[c] <= 1

\* Singleton.hpp:24-39.  A call of instance() returns, however many threads ask
\* at once and although making one singleton waits for the mutex of another,
\* unless the process is ended.
CallReturns == \A t \in Threads : stack[t] # <<>> ~> stack[t] = <<>> \/ ended

=============================================================================
