---------------------------- MODULE StorageProofs ----------------------------
(***************************************************************************)
(* Proofs about Storage, for any number of threads and calls.              *)
(*                                                                         *)
(* A stack of calls is one of four kinds, so that a thread is at one place *)
(* of instance() for each class: pos.  The invariant speaks of pos, and    *)
(* the first lemmas say how each action moves it.                          *)
(***************************************************************************)
EXTENDS Storage, SequenceTheorems, TLAPS

\* Where instance() of each class can be.
LabelsOf(c) ==
  {"load", "lock", "check", "construct", "publish", "unlock", "return"} \cup
  IF c = "Database" THEN {"open"} ELSE {"instance", "blocks", "accounts"}

\* The database is made by a call of its own or from within Storage::Storage.
StackInv ==
  /\ stack = [t \in Threads |-> stack[t]]
  /\ \A t \in Threads :
       \/ stack[t] = <<>>
       \/ \E c \in Classes : \E l \in LabelsOf(c) : stack[t] = <<Frame(c, l)>>
       \/ \E l \in LabelsOf("Database") :
            stack[t] = <<Frame("Database", l), Frame("Storage", "instance")>>

\* pos[c][t]: where t is in instance() of class c.
pos ==
  [c \in Classes |-> [t \in Threads |->
     IF stack[t] = <<>> THEN "none"
     ELSE IF stack[t][1].of = c THEN stack[t][1].at
     ELSE IF Len(stack[t]) = 2 THEN "instance" ELSE "none"]]

\* Between lock() and the end of the scope of the lock_guard.
Inside == {"check", "construct", "open", "instance", "blocks", "accounts",
           "publish", "unlock"}
\* Inside new T(...), or between it and the store to the pointer.
Building == {"open", "instance", "blocks", "accounts", "publish"}

\* Who is behind the lock holds it.
MutexInv ==
  \A c \in Classes, t \in Threads : pos[c][t] \in Inside => mutex[c] = t

\* The second look is about the object that is made, and the pointer tells.
InstanceInv ==
  \A c \in Classes :
    /\ made[c] \in {0, 1} /\ instance[c] \in {0, 1}
    /\ instance[c] = 1 => made[c] = 1
    /\ made[c] = 1 /\ instance[c] = 0 =>
         \E t \in Threads : pos[c][t] \in Building
    /\ \A t \in Threads :
         /\ pos[c][t] \in Building => made[c] = 1 /\ instance[c] = 0
         /\ pos[c][t] = "construct" => instance[c] = 0
         /\ pos[c][t] \in {"unlock", "return"} => instance[c] = 1

\* What the constructors have done, at each place.
ObjectInv ==
  /\ main \in Seq(Nat) /\ Len(main) = made["Storage"]
  /\ tables \in Seq(SUBSET Tables) /\ Len(tables) = made["Storage"]
  /\ opened \in Seq(BOOLEAN) /\ Len(opened) = made["Database"]
  /\ made["Storage"] = 1 => main[1] \in {0, 1}
  /\ instance["Database"] = 1 => opened[1]
  /\ instance["Storage"] = 1 =>
       main[1] = 1 /\ tables[1] = Tables /\ instance["Database"] = 1
  /\ \A t \in Threads :
       /\ pos["Database"][t] = "publish" => opened[1]
       /\ pos["Storage"][t] \in {"blocks", "accounts", "publish"} =>
            main[1] = 1 /\ instance["Database"] = 1
       /\ pos["Storage"][t] \in {"accounts", "publish"} =>
            "blocks" \in tables[1]
       /\ pos["Storage"][t] = "publish" => tables[1] = Tables

\* Calls have returned the first object made of a class.
ReturnInv == returned \subseteq Classes \X {1}

IndInv ==
  /\ StackInv
  /\ mutex \in [Classes -> Threads \cup {None}]
  /\ instance \in [Classes -> Nat]
  /\ made \in [Classes -> Nat]
  /\ MutexInv
  /\ InstanceInv
  /\ ObjectInv
  /\ ReturnInv

-----------------------------------------------------------------------------
(* How the actions move pos. *)

\* t goes to place l of instance() of class c and nobody else moves.
Moves(c, t, l) ==
  \A d \in Classes, u \in Threads :
    pos'[d][u] = IF d = c /\ u = t THEN l ELSE pos[d][u]

\* The kinds of stacks, and what pos says of them.
LEMMA StackKinds ==
  ASSUME StackInv, NEW t \in Threads
  PROVE  \/ /\ stack[t] = <<>>
            /\ \A c \in Classes : pos[c][t] = "none"
         \/ \E c \in Classes : \E l \in LabelsOf(c) :
              /\ stack[t] = <<Frame(c, l)>>
              /\ \A d \in Classes : pos[d][t] = IF d = c THEN l ELSE "none"
         \/ \E l \in LabelsOf("Database") :
              /\ stack[t] = <<Frame("Database", l), Frame("Storage", "instance")>>
              /\ pos["Database"][t] = l /\ pos["Storage"][t] = "instance"
<1>1. CASE stack[t] = <<>>
  BY <1>1 DEF pos
<1>2. ASSUME NEW c \in Classes, NEW l \in LabelsOf(c),
             stack[t] = <<Frame(c, l)>>
      PROVE  \A d \in Classes : pos[d][t] = IF d = c THEN l ELSE "none"
  BY <1>2 DEF pos, Frame
<1>3. ASSUME NEW l \in LabelsOf("Database"),
             stack[t] = <<Frame("Database", l), Frame("Storage", "instance")>>
      PROVE  pos["Database"][t] = l /\ pos["Storage"][t] = "instance"
  <2>1. /\ stack[t][1].of = "Database" /\ stack[t][1].at = l
        /\ Len(stack[t]) = 2 /\ stack[t] # <<>>
    BY <1>3 DEF Frame
  <2> QED
    BY <2>1 DEF pos, Classes
<1> QED
  BY <1>1, <1>2, <1>3 DEF StackInv

\* A step within a call.
LEMMA GotoMoves ==
  ASSUME StackInv, NEW t \in Threads, stack[t] # <<>>,
         NEW l \in LabelsOf(Class(t)), Goto(t, l)
  PROVE  /\ Class(t) \in Classes
         /\ pos[Class(t)][t] = stack[t][1].at
         /\ StackInv'
         /\ Moves(Class(t), t, l)
<1>1. /\ \A u \in Threads : u # t => stack'[u] = stack[u]
      /\ stack'[t] = [stack[t] EXCEPT ![1].at = l]
      /\ l \in Labels
  BY DEF Goto, StackInv, LabelsOf, Labels, Tables
<1>2. ASSUME NEW c \in Classes, NEW k \in LabelsOf(c),
             stack[t] = <<Frame(c, k)>>
      PROVE  Class(t) = c /\ stack'[t] = <<Frame(c, l)>>
  BY <1>1, <1>2 DEF Class, Frame
<1>3. ASSUME NEW k \in LabelsOf("Database"),
             stack[t] = <<Frame("Database", k), Frame("Storage", "instance")>>
      PROVE  /\ Class(t) = "Database"
             /\ stack'[t] = <<Frame("Database", l), Frame("Storage", "instance")>>
  BY <1>1, <1>3 DEF Class, Frame
<1>4. StackInv'
  <2>1. stack' = [u \in Threads |-> stack'[u]]
    BY DEF Goto, StackInv
  <2>2. \A u \in Threads \ {t} :
          \/ stack'[u] = <<>>
          \/ \E c \in Classes : \E k \in LabelsOf(c) :
               stack'[u] = <<Frame(c, k)>>
          \/ \E k \in LabelsOf("Database") :
               stack'[u] = <<Frame("Database", k), Frame("Storage", "instance")>>
    BY <1>1 DEF StackInv
  <2>3. \/ \E c \in Classes : l \in LabelsOf(c) /\ stack'[t] = <<Frame(c, l)>>
        \/ /\ l \in LabelsOf("Database")
           /\ stack'[t] = <<Frame("Database", l), Frame("Storage", "instance")>>
    BY <1>2, <1>3 DEF StackInv
  <2> QED
    BY <2>1, <2>2, <2>3 DEF StackInv
<1>5. \A d \in Classes, u \in Threads : u # t => pos'[d][u] = pos[d][u]
  BY <1>1 DEF pos
<1>6. \A d \in Classes : pos'[d][t] = IF d = Class(t) THEN l ELSE pos[d][t]
  BY <1>2, <1>3, <1>4, StackKinds DEF StackInv, pos, Frame, Class
<1>7. Class(t) \in Classes /\ pos[Class(t)][t] = stack[t][1].at
  BY <1>2, <1>3, StackKinds DEF StackInv, Frame, Classes
<1> QED
  BY <1>4, <1>5, <1>6, <1>7 DEF Moves

\* Where a step begins.
LEMMA AtPlace ==
  ASSUME StackInv, NEW t \in Threads, NEW l, At(t, l)
  PROVE  /\ Class(t) \in Classes
         /\ l \in LabelsOf(Class(t))
         /\ pos[Class(t)][t] = l
         /\ stack[t] # <<>>
<1>1. stack[t] # <<>> /\ stack[t][1].at = l
  BY DEF At
<1>2. ASSUME NEW c \in Classes, NEW k \in LabelsOf(c),
             stack[t] = <<Frame(c, k)>>, pos[c][t] = k
      PROVE  Class(t) = c /\ k = l
  BY <1>1, <1>2 DEF Class, Frame
<1>3. ASSUME NEW k \in LabelsOf("Database"), pos["Database"][t] = k,
             stack[t] = <<Frame("Database", k), Frame("Storage", "instance")>>
      PROVE  Class(t) = "Database" /\ k = l
  BY <1>1, <1>3 DEF Class, Frame
<1>4. CASE \E c \in Classes : \E k \in LabelsOf(c) :
             /\ stack[t] = <<Frame(c, k)>>
             /\ \A d \in Classes : pos[d][t] = IF d = c THEN k ELSE "none"
  BY <1>1, <1>2, <1>4
<1>5. CASE \E k \in LabelsOf("Database") :
             /\ stack[t] = <<Frame("Database", k), Frame("Storage", "instance")>>
             /\ pos["Database"][t] = k
  BY <1>1, <1>3, <1>5 DEF Classes
<1> QED
  BY <1>1, <1>4, <1>5, StackKinds

\* Whoever is making an object goes on while others move.
LEMMA StillBuilding ==
  ASSUME NEW c \in Classes, NEW d \in Classes, NEW t \in Threads, NEW l,
         Moves(c, t, l), pos[c][t] \notin Building \/ l \in Building,
         \E u \in Threads : pos[d][u] \in Building
  PROVE  \E u \in Threads : pos'[d][u] \in Building
  BY DEF Moves

-----------------------------------------------------------------------------
(* The initial states satisfy the invariant, and each action preserves it. *)

\* Threads that do not enter a place between the steps of a constructor keep
\* ObjectInv.
LEMMA ObjectKept ==
  ASSUME ObjectInv, UNCHANGED <<instance, made, main, tables, opened>>,
         \A d \in Classes, u \in Threads :
           pos'[d][u] = pos[d][u]
           \/ pos'[d][u] \notin {"blocks", "accounts", "publish"}
  PROVE  ObjectInv'
<1>1. "Database" \in Classes /\ "Storage" \in Classes
  BY DEF Classes
<1>2. ASSUME NEW u \in Threads
      PROVE  /\ pos'["Database"][u] = "publish" => pos["Database"][u] = "publish"
             /\ \A l \in {"blocks", "accounts", "publish"} :
                  pos'["Storage"][u] = l => pos["Storage"][u] = l
  BY <1>1
<1> QED
  BY <1>2 DEF ObjectInv

\* So do threads that do not enter or leave a constructor keep InstanceInv, if
\* they go where the pointer lets them.
LEMMA InstanceKept ==
  ASSUME InstanceInv, UNCHANGED <<instance, made>>,
         \A d \in Classes : (\E u \in Threads : pos[d][u] \in Building) =>
                            \E u \in Threads : pos'[d][u] \in Building,
         \A d \in Classes, u \in Threads :
           \/ pos'[d][u] = pos[d][u]
           \/ /\ pos'[d][u] \notin Building
              /\ pos'[d][u] = "construct" => instance[d] = 0
              /\ pos'[d][u] \in {"unlock", "return"} => instance[d] = 1
  PROVE  InstanceInv'
<1> SUFFICES ASSUME NEW d \in Classes
             PROVE  /\ made[d] \in {0, 1} /\ instance[d] \in {0, 1}
                    /\ instance[d] = 1 => made[d] = 1
                    /\ made[d] = 1 /\ instance[d] = 0 =>
                         \E t \in Threads : pos'[d][t] \in Building
                    /\ \A t \in Threads :
                         /\ pos'[d][t] \in Building =>
                              made[d] = 1 /\ instance[d] = 0
                         /\ pos'[d][t] = "construct" => instance[d] = 0
                         /\ pos'[d][t] \in {"unlock", "return"} =>
                              instance[d] = 1
  BY DEF InstanceInv
<1>1. ASSUME NEW t \in Threads
      PROVE  /\ pos'[d][t] \in Building => made[d] = 1 /\ instance[d] = 0
             /\ pos'[d][t] = "construct" => instance[d] = 0
             /\ pos'[d][t] \in {"unlock", "return"} => instance[d] = 1
  BY DEF InstanceInv
<1> QED
  BY <1>1 DEF InstanceInv

\* Nothing is called or made yet.
LEMMA InitInv == Init => IndInv
<1> SUFFICES ASSUME Init
             PROVE  IndInv
  OBVIOUS
<1>1. StackInv
  BY DEF Init, StackInv
<1>2. \A c \in Classes, t \in Threads : pos[c][t] = "none"
  BY DEF Init, pos
<1>3. MutexInv /\ InstanceInv
  BY <1>2 DEF Init, MutexInv, InstanceInv, Inside, Building
<1>4. ObjectInv
  BY <1>2 DEF Init, ObjectInv, Classes
<1> QED
  BY <1>1, <1>3, <1>4 DEF Init, IndInv, ReturnInv

\* A call begins.
LEMMA CallPreserves ==
  ASSUME IndInv, NEW t \in Threads, NEW c \in Classes, Call(t, c)
  PROVE  IndInv'
<1>1. stack' = [stack EXCEPT ![t] = <<Frame(c, "load")>>] /\ StackInv
  BY DEF Call, IndInv
<1>2. StackInv'
  BY <1>1 DEF StackInv, LabelsOf
<1>3. Moves(c, t, "load")
  <2>1. \A d \in Classes : pos[d][t] = "none"
    BY DEF Call, pos
  <2>2. \A d \in Classes : pos'[d][t] = IF d = c THEN "load" ELSE "none"
    BY <1>1 DEF pos, Frame, StackInv
  <2>3. \A d \in Classes, u \in Threads : u # t => pos'[d][u] = pos[d][u]
    BY <1>1 DEF pos, StackInv
  <2> QED
    BY <2>1, <2>2, <2>3 DEF Moves
<1>4. /\ pos[c][t] = "none"
      /\ UNCHANGED <<returned, mutex, instance, made, main, tables, opened>>
  BY DEF Call, pos, staticVars, objectVars
<1>5. MutexInv'
  BY <1>3, <1>4 DEF IndInv, MutexInv, Moves, Inside
<1>6. InstanceInv'
  BY <1>3, <1>4, StillBuilding DEF IndInv, InstanceInv, Moves, Building
<1>7. ObjectInv'
  BY <1>3, <1>4 DEF IndInv, ObjectInv, Moves, Classes
<1> QED
  BY <1>2, <1>4, <1>5, <1>6, <1>7 DEF IndInv, ReturnInv

\* The first look.
LEMMA LoadPreserves ==
  ASSUME IndInv, NEW t \in Threads, Load(t)
  PROVE  IndInv'
<1> DEFINE c == Class(t)
           l == IF instance[c] # 0 THEN "return" ELSE "lock"
<1>1. /\ c \in Classes /\ pos[c][t] = "load" /\ StackInv /\ stack[t] # <<>>
      /\ UNCHANGED <<returned, mutex, instance, made, main, tables, opened>>
  BY AtPlace DEF Load, Goto, staticVars, objectVars, IndInv
<1>2. StackInv' /\ Moves(c, t, l)
  BY <1>1, GotoMoves DEF Load, LabelsOf
<1> HIDE DEF c
<1>3. MutexInv' /\ InstanceInv'
  BY <1>1, <1>2 DEF IndInv, MutexInv, InstanceInv, Moves, Inside, Building
<1>4. ObjectInv'
  BY <1>1, <1>2, ObjectKept DEF IndInv, Moves
<1> QED
  BY <1>1, <1>2, <1>3, <1>4 DEF IndInv, ReturnInv

\* lock()
LEMMA LockPreserves ==
  ASSUME IndInv, NEW t \in Threads, Lock(t)
  PROVE  IndInv'
<1> DEFINE c == Class(t)
<1>1. /\ c \in Classes /\ pos[c][t] = "lock" /\ StackInv /\ stack[t] # <<>>
      /\ mutex[c] = None /\ mutex' = [mutex EXCEPT ![c] = t]
      /\ UNCHANGED <<returned, instance, made, main, tables, opened>>
  BY AtPlace DEF Lock, Goto, objectVars, IndInv
<1>2. StackInv' /\ Moves(c, t, "check")
  BY <1>1, GotoMoves DEF Lock, LabelsOf
<1> HIDE DEF c
<1>3. MutexInv'
  BY <1>1, <1>2, NoneAssumption DEF IndInv, MutexInv, Moves
<1>4. InstanceInv'
  <2>1. ASSUME NEW d \in Classes, \E u \in Threads : pos[d][u] \in Building
        PROVE  \E u \in Threads : pos'[d][u] \in Building
    BY <1>1, <1>2, <2>1, StillBuilding DEF Building
  <2>2. \A d \in Classes, u \in Threads :
          pos'[d][u] = "check" \/ pos'[d][u] = pos[d][u]
    BY <1>2 DEF Moves
  <2> QED
    BY <1>1, <2>1, <2>2, InstanceKept DEF IndInv, Building
<1>5. ObjectInv'
  BY <1>1, <1>2, ObjectKept DEF IndInv, Moves
<1> QED
  BY <1>1, <1>2, <1>3, <1>4, <1>5 DEF IndInv, ReturnInv

\* The second look.
LEMMA CheckPreserves ==
  ASSUME IndInv, NEW t \in Threads, Check(t)
  PROVE  IndInv'
<1> DEFINE c == Class(t)
           l == IF instance[c] # 0 THEN "unlock" ELSE "construct"
<1>1. /\ c \in Classes /\ pos[c][t] = "check" /\ StackInv /\ stack[t] # <<>>
      /\ UNCHANGED <<returned, mutex, instance, made, main, tables, opened>>
  BY AtPlace DEF Check, Goto, staticVars, objectVars, IndInv
<1>2. StackInv' /\ Moves(c, t, l)
  BY <1>1, GotoMoves DEF Check, LabelsOf
<1> HIDE DEF c
<1>3. MutexInv' /\ InstanceInv'
  BY <1>1, <1>2 DEF IndInv, MutexInv, InstanceInv, Moves, Inside, Building
<1>4. ObjectInv'
  BY <1>1, <1>2, ObjectKept DEF IndInv, Moves
<1> QED
  BY <1>1, <1>2, <1>3, <1>4 DEF IndInv, ReturnInv

\* new Database(...)
LEMMA ConstructDatabasePreserves ==
  ASSUME IndInv, NEW t \in Threads, Construct(t), ConstructDatabase(t)
  PROVE  IndInv'
<1>1. /\ pos["Database"][t] = "construct" /\ StackInv /\ stack[t] # <<>>
      /\ Class(t) = "Database"
      /\ made' = [made EXCEPT !["Database"] = @ + 1]
      /\ opened' = Append(opened, FALSE)
      /\ UNCHANGED <<returned, mutex, instance, main, tables>>
  BY AtPlace DEF Construct, ConstructDatabase, Goto, staticVars, IndInv
<1>2. StackInv' /\ Moves("Database", t, "open")
  BY <1>1, GotoMoves DEF ConstructDatabase, LabelsOf
<1>3. MutexInv'
  BY <1>1, <1>2 DEF IndInv, MutexInv, Moves, Inside, Classes
<1>4. made["Database"] = 0 /\ instance["Database"] = 0
  BY <1>1 DEF IndInv, InstanceInv, MutexInv, Classes, Inside, Building
<1>5. InstanceInv'
  <2>1. \A u \in Threads : u # t => pos["Database"][u] \notin Inside
    BY <1>1, NoneAssumption DEF IndInv, MutexInv, Inside, Classes
  <2>2. made'["Database"] = 1 /\ made'["Storage"] = made["Storage"]
    BY <1>1, <1>4 DEF IndInv, Classes
  <2>3. pos'["Database"][t] \in Building
    BY <1>2 DEF Moves, Classes, Building
  <2> QED
    BY <1>1, <1>2, <1>4, <2>1, <2>2, <2>3, StillBuilding DEF IndInv, InstanceInv, Moves,
       Building, Inside, Classes
<1>6. ObjectInv'
  <2>1. opened' \in Seq(BOOLEAN) /\ Len(opened') = made'["Database"]
    BY <1>1 DEF IndInv, ObjectInv, Classes
  <2> QED
    BY <1>1, <1>2, <1>4, <2>1 DEF IndInv, ObjectInv, Moves, Classes, MutexInv, Inside
<1>7. made' \in [Classes -> Nat]
  BY <1>1 DEF IndInv, Classes
<1> QED
  BY <1>1, <1>2, <1>3, <1>5, <1>6, <1>7 DEF IndInv, ReturnInv

\* new Storage(...)
LEMMA ConstructStoragePreserves ==
  ASSUME IndInv, NEW t \in Threads, Construct(t), ConstructStorage(t)
  PROVE  IndInv'
<1>1. /\ pos["Storage"][t] = "construct" /\ StackInv /\ stack[t] # <<>>
      /\ Class(t) = "Storage"
      /\ made' = [made EXCEPT !["Storage"] = @ + 1]
      /\ main' = Append(main, 0) /\ tables' = Append(tables, {})
      /\ UNCHANGED <<returned, mutex, instance, opened>>
  BY AtPlace DEF Construct, ConstructStorage, Goto, staticVars, IndInv
<1>2. StackInv' /\ Moves("Storage", t, "instance")
  BY <1>1, GotoMoves DEF ConstructStorage, LabelsOf
<1>3. MutexInv'
  BY <1>1, <1>2 DEF IndInv, MutexInv, Moves, Inside, Classes
<1>4. made["Storage"] = 0 /\ instance["Storage"] = 0
  BY <1>1 DEF IndInv, InstanceInv, MutexInv, Classes, Inside, Building
<1>5. \A u \in Threads : u # t => pos["Storage"][u] \notin Inside
  BY <1>1, NoneAssumption DEF IndInv, MutexInv, Inside, Classes
<1>6. InstanceInv'
  <2>2. made'["Storage"] = 1 /\ made'["Database"] = made["Database"]
    BY <1>1, <1>4 DEF IndInv, Classes
  <2>3. pos'["Storage"][t] \in Building
    BY <1>2 DEF Moves, Classes, Building
  <2> QED
    BY <1>1, <1>2, <1>4, <1>5, <2>2, <2>3, StillBuilding DEF IndInv, InstanceInv, Moves,
       Building, Inside, Classes
<1>7. ObjectInv'
  <2>1. /\ main' \in Seq(Nat) /\ Len(main') = made'["Storage"]
        /\ tables' \in Seq(SUBSET Tables) /\ Len(tables') = made'["Storage"]
        /\ main'[1] = 0
    BY <1>1, <1>4 DEF IndInv, ObjectInv, Classes
  <2> QED
    BY <1>1, <1>2, <1>4, <1>5, <2>1 DEF IndInv, ObjectInv, Moves, Classes, Inside
<1>8. made' \in [Classes -> Nat]
  BY <1>1 DEF IndInv, Classes
<1> QED
  BY <1>1, <1>2, <1>3, <1>6, <1>7, <1>8 DEF IndInv, ReturnInv

\* The environment of the database is opened.
LEMMA OpenEnvironmentPreserves ==
  ASSUME IndInv, NEW t \in Threads, OpenEnvironment(t)
  PROVE  IndInv'
<1>1. /\ pos["Database"][t] = "open" /\ StackInv /\ stack[t] # <<>>
      /\ Class(t) = "Database"
      /\ opened' = [opened EXCEPT ![made["Database"]] = TRUE]
      /\ UNCHANGED <<returned, mutex, instance, made, main, tables>>
  BY AtPlace DEF OpenEnvironment, Goto, staticVars, IndInv, LabelsOf, Classes
<1>2. StackInv' /\ Moves("Database", t, "publish")
  BY <1>1, GotoMoves DEF OpenEnvironment, LabelsOf
<1>3. MutexInv'
  BY <1>1, <1>2 DEF IndInv, MutexInv, Moves, Inside, Classes
<1>4. made["Database"] = 1
  BY <1>1 DEF IndInv, InstanceInv, Classes, Building
<1>5. InstanceInv'
  BY <1>1, <1>2, StillBuilding DEF IndInv, InstanceInv, Moves, Building, Classes
<1>6. ObjectInv'
  <2>1. /\ opened \in Seq(BOOLEAN) /\ Len(opened) = 1 /\ 1 \in 1..Len(opened)
        /\ opened' = [opened EXCEPT ![1] = TRUE]
    BY <1>1, <1>4 DEF IndInv, ObjectInv
  <2>2. opened' \in Seq(BOOLEAN) /\ Len(opened') = 1
    BY <2>1, ExceptSeq, TRUE \in BOOLEAN
  <2>3. DOMAIN opened = 1..Len(opened)
    BY <2>1, LenProperties, Zenon
  <2>4. opened'[1]
    BY <2>1, <2>3, Zenon
  <2> QED
    BY <1>1, <1>2, <1>4, <2>2, <2>4 DEF IndInv, ObjectInv, Moves, Classes
<1> QED
  BY <1>1, <1>2, <1>3, <1>5, <1>6 DEF IndInv, ReturnInv

\* The second call is put before the first.
LEMMA Pushed ==
  ASSUME NEW x, NEW y
  PROVE  <<x>> \o <<y>> = <<x, y>>
<1>1. /\ <<x>> \in Seq({x, y}) /\ <<y>> \in Seq({x, y})
      /\ <<x, y>> \in Seq({x, y})
      /\ Len(<<x>>) = 1 /\ Len(<<y>>) = 1 /\ Len(<<x, y>>) = 2
  OBVIOUS
<1>2. /\ <<x>> \o <<y>> \in Seq({x, y})
      /\ Len(<<x>> \o <<y>>) = 2
      /\ \A i \in 1..2 : (<<x>> \o <<y>>)[i] = <<x, y>>[i]
  BY <1>1, ConcatProperties
<1> QED
  BY <1>1, <1>2, SeqEqual

\* Storage::Storage calls instance() of the database.
LEMMA NestedCallPreserves ==
  ASSUME IndInv, NEW t \in Threads, NestedCall(t)
  PROVE  IndInv'
<1>1. /\ pos["Storage"][t] = "instance" /\ StackInv
      /\ stack[t] # <<>> /\ Class(t) = "Storage"
      /\ UNCHANGED <<returned, mutex, instance, made, main, tables, opened>>
  BY AtPlace DEF NestedCall, staticVars, objectVars, IndInv, LabelsOf, Classes
<1>2. stack[t] = <<Frame("Storage", "instance")>>
  BY <1>1, StackKinds DEF Class, Frame, Classes, LabelsOf
<1>3. stack' = [stack EXCEPT ![t] =
                  <<Frame("Database", "load"), Frame("Storage", "instance")>>]
  <2>1. <<Frame("Database", "load")>> \o stack[t]
          = <<Frame("Database", "load"), Frame("Storage", "instance")>>
    BY <1>2, Pushed
  <2> QED
    BY <1>1, <2>1 DEF NestedCall, StackInv
<1>4. StackInv'
  BY <1>1, <1>3 DEF StackInv, LabelsOf
<1>5. Moves("Database", t, "load") /\ pos["Database"][t] = "none"
  <2>1. pos["Database"][t] = "none"
    BY <1>1, <1>2 DEF pos, Frame, Classes
  <2>2. stack'[t] = <<Frame("Database", "load"), Frame("Storage", "instance")>>
    BY <1>1, <1>3 DEF StackInv
  <2>3. pos'["Database"][t] = "load" /\ pos'["Storage"][t] = "instance"
    <3>1. /\ stack'[t][1].of = "Database" /\ stack'[t][1].at = "load"
          /\ Len(stack'[t]) = 2 /\ stack'[t] # <<>>
      BY <2>2 DEF Frame
    <3> QED
      BY <3>1 DEF pos, Classes
  <2>4. \A d \in Classes, u \in Threads : u # t => pos'[d][u] = pos[d][u]
    BY <1>1, <1>3 DEF pos, StackInv
  <2> QED
    BY <1>1, <2>1, <2>3, <2>4 DEF Moves, Classes
<1>6. MutexInv'
  BY <1>1, <1>5 DEF IndInv, MutexInv, Moves, Inside, Classes
<1>7. InstanceInv'
  BY <1>1, <1>5, StillBuilding DEF IndInv, InstanceInv, Moves, Building, Classes
<1>8. ObjectInv'
  BY <1>1, <1>5 DEF IndInv, ObjectInv, Moves, Classes
<1> QED
  BY <1>1, <1>4, <1>6, <1>7, <1>8 DEF IndInv, ReturnInv

\* A table of the storage is opened, the second after the first.
LEMMA OpenTablePreserves ==
  ASSUME IndInv, NEW t \in Threads,
         \/ OpenTable(t, "blocks", "accounts")
         \/ OpenTable(t, "accounts", "publish")
  PROVE  IndInv'
<1>1. PICK name \in Tables, next \in {"accounts", "publish"} :
        /\ OpenTable(t, name, next)
        /\ name = "blocks" <=> next = "accounts"
  BY DEF Tables
<1>2. /\ pos["Storage"][t] = name /\ StackInv /\ stack[t] # <<>>
      /\ Class(t) = "Storage"
      /\ tables' = [tables EXCEPT ![made["Storage"]] = @ \cup {name}]
      /\ UNCHANGED <<returned, mutex, instance, made, main, opened>>
  BY <1>1, AtPlace DEF OpenTable, Goto, staticVars, IndInv, LabelsOf, Classes,
     Tables
<1>3. StackInv' /\ Moves("Storage", t, next)
  BY <1>1, <1>2, GotoMoves DEF OpenTable, LabelsOf
<1>4. MutexInv'
  BY <1>2, <1>3 DEF IndInv, MutexInv, Moves, Inside, Classes, Tables
<1>5. made["Storage"] = 1 /\ instance["Storage"] = 0
  BY <1>2 DEF IndInv, InstanceInv, Classes, Building, Tables
<1>6. InstanceInv'
  BY <1>2, <1>3, StillBuilding DEF IndInv, InstanceInv, Moves, Building, Classes,
     Tables
<1>7. \A u \in Threads : u # t => pos["Storage"][u] \notin Inside
  BY <1>2, NoneAssumption DEF IndInv, MutexInv, Inside, Classes, Tables
<1>8. ObjectInv'
  <2>1. /\ tables \in Seq(SUBSET Tables) /\ Len(tables) = 1
        /\ 1 \in 1..Len(tables) /\ tables[1] \in SUBSET Tables
        /\ tables' = [tables EXCEPT ![1] = tables[1] \cup {name}]
    <3>1. tables \in Seq(SUBSET Tables) /\ Len(tables) = 1
      BY <1>5 DEF IndInv, ObjectInv
    <3>2. 1 \in 1..Len(tables)
      BY <3>1
    <3>3. tables[1] \in SUBSET Tables
      BY <3>1, <3>2, ElementOfSeq, Zenon
    <3> QED
      BY <1>2, <1>5, <3>1, <3>2, <3>3, Zenon
  <2>2. /\ tables' \in Seq(SUBSET Tables) /\ Len(tables') = 1
        /\ tables'[1] = tables[1] \cup {name}
    BY <1>1, <2>1, ExceptSeq, tables[1] \cup {name} \in SUBSET Tables
  <2>3. next = "publish" => tables'[1] = Tables
    BY <1>1, <1>2, <2>1, <2>2 DEF IndInv, ObjectInv, Tables
  <2>4. next = "accounts" => "blocks" \in tables'[1]
    BY <1>1, <2>2
  <2> QED
    BY <1>1, <1>2, <1>3, <1>5, <1>7, <2>2, <2>3, <2>4 DEF IndInv, ObjectInv,
       Moves, Classes, Tables, Inside
<1> QED
  BY <1>2, <1>3, <1>4, <1>6, <1>8 DEF IndInv, ReturnInv

\* The pointer is stored.
LEMMA PublishPreserves ==
  ASSUME IndInv, NEW t \in Threads, Publish(t)
  PROVE  IndInv'
<1> DEFINE c == Class(t)
<1>1. /\ c \in Classes /\ pos[c][t] = "publish" /\ StackInv /\ stack[t] # <<>>
      /\ instance' = [instance EXCEPT ![c] = made[c]]
      /\ UNCHANGED <<returned, mutex, made, main, tables, opened>>
  BY AtPlace DEF Publish, Goto, objectVars, IndInv
<1>2. StackInv' /\ Moves(c, t, "unlock")
  BY <1>1, GotoMoves DEF Publish, LabelsOf
<1> HIDE DEF c
<1>3. MutexInv'
  BY <1>1, <1>2 DEF IndInv, MutexInv, Moves, Inside
<1>4. /\ made[c] = 1
      /\ instance' \in [Classes -> Nat]
      /\ \A d \in Classes : instance'[d] = IF d = c THEN 1 ELSE instance[d]
  BY <1>1 DEF IndInv, InstanceInv, Building
<1>5. \A u \in Threads : u # t => pos[c][u] \notin Inside
  BY <1>1, NoneAssumption DEF IndInv, MutexInv, Inside
<1>6. InstanceInv'
  <2>1. ASSUME NEW d \in Classes, d # c, made[d] = 1, instance[d] = 0
        PROVE  \E u \in Threads : pos'[d][u] \in Building
    BY <1>2, <2>1 DEF Moves, IndInv, InstanceInv
  <2>2. \A d \in Classes, u \in Threads : pos'[d][u] =
          IF d = c /\ u = t THEN "unlock" ELSE pos[d][u]
    BY <1>2 DEF Moves
  <2>3. ASSUME NEW d \in Classes, NEW u \in Threads
        PROVE  /\ pos'[d][u] \in Building => made[d] = 1 /\ instance'[d] = 0
               /\ pos'[d][u] = "construct" => instance'[d] = 0
               /\ pos'[d][u] \in {"unlock", "return"} => instance'[d] = 1
    <3>1. CASE d = c
      BY <3>1, <1>4, <1>5, <2>2 DEF Building, Inside
    <3>2. CASE d # c
      BY <3>2, <1>4, <2>2 DEF IndInv, InstanceInv
    <3> QED
      BY <3>1, <3>2
  <2>4. \A d \in Classes : /\ made[d] \in {0, 1} /\ instance'[d] \in {0, 1}
                           /\ instance'[d] = 1 => made[d] = 1
    BY <1>4 DEF IndInv, InstanceInv
  <2>5. \A d \in Classes : made[d] = 1 /\ instance'[d] = 0 =>
                            \E u \in Threads : pos'[d][u] \in Building
    BY <1>4, <2>1
  <2> QED
    BY <1>1, <2>3, <2>4, <2>5 DEF InstanceInv
<1>7. ObjectInv'
  <2>1. "Database" \in Classes /\ "Storage" \in Classes
    BY DEF Classes
  <2>2. \A d \in Classes, u \in Threads :
          pos'[d][u] = pos[d][u] \/ pos'[d][u] = "unlock"
    BY <1>2 DEF Moves
  <2>3. \A d \in Classes : instance[d] = 1 => instance'[d] = 1
    BY <1>4
  <2>4. ASSUME NEW u \in Threads
        PROVE  /\ pos'["Database"][u] = "publish" => opened[1]
               /\ pos'["Storage"][u] \in {"blocks", "accounts", "publish"} =>
                    main[1] = 1 /\ instance'["Database"] = 1
               /\ pos'["Storage"][u] \in {"accounts", "publish"} =>
                    "blocks" \in tables[1]
               /\ pos'["Storage"][u] = "publish" => tables[1] = Tables
    BY <2>1, <2>2, <2>3 DEF IndInv, ObjectInv
  <2>5. instance'["Database"] = 1 => opened[1]
    BY <1>1, <1>4, <2>1 DEF IndInv, ObjectInv
  <2>6. instance'["Storage"] = 1 =>
          main[1] = 1 /\ tables[1] = Tables /\ instance'["Database"] = 1
    BY <1>1, <1>4, <2>1, <2>3 DEF IndInv, ObjectInv
  <2> QED
    BY <1>1, <2>4, <2>5, <2>6 DEF IndInv, ObjectInv
<1> QED
  BY <1>1, <1>2, <1>3, <1>4, <1>6, <1>7 DEF IndInv, ReturnInv

\* The lock_guard is destroyed.
LEMMA UnlockPreserves ==
  ASSUME IndInv, NEW t \in Threads, Unlock(t)
  PROVE  IndInv'
<1> DEFINE c == Class(t)
<1>1. /\ c \in Classes /\ pos[c][t] = "unlock" /\ StackInv /\ stack[t] # <<>>
      /\ mutex' = [mutex EXCEPT ![c] = None]
      /\ UNCHANGED <<returned, instance, made, main, tables, opened>>
  BY AtPlace DEF Unlock, Goto, objectVars, IndInv
<1>2. StackInv' /\ Moves(c, t, "return")
  BY <1>1, GotoMoves DEF Unlock, LabelsOf
<1> HIDE DEF c
<1>3. MutexInv'
  BY <1>1, <1>2, NoneAssumption DEF IndInv, MutexInv, Moves, Inside
<1>4. InstanceInv'
  <2>1. ASSUME NEW d \in Classes, \E u \in Threads : pos[d][u] \in Building
        PROVE  \E u \in Threads : pos'[d][u] \in Building
    BY <1>1, <1>2, <2>1, StillBuilding DEF Building
  <2>2. \A d \in Classes, u \in Threads : pos'[d][u] =
          IF d = c /\ u = t THEN "return" ELSE pos[d][u]
    BY <1>2 DEF Moves
  <2> QED
    BY <1>1, <2>1, <2>2 DEF IndInv, InstanceInv, Building
<1>5. ObjectInv'
  BY <1>1, <1>2, ObjectKept DEF IndInv, Moves
<1> QED
  BY <1>1, <1>2, <1>3, <1>4, <1>5 DEF IndInv, ReturnInv

\* A call returns to its caller.
LEMMA ReturnOuterPreserves ==
  ASSUME IndInv, NEW t \in Threads, Return(t), Len(stack[t]) = 1
  PROVE  IndInv'
<1> DEFINE c == Class(t)
<1>1. /\ c \in Classes /\ pos[c][t] = "return" /\ StackInv /\ stack[t] # <<>>
      /\ returned' = returned \cup {<<c, instance[c]>>}
      /\ stack' = [stack EXCEPT ![t] = <<>>]
      /\ UNCHANGED <<mutex, instance, made, main, tables, opened>>
  BY AtPlace DEF Return, staticVars, IndInv
<1>2. StackInv'
  BY <1>1 DEF StackInv
<1>3. Moves(c, t, "none")
  <2>1. \A d \in Classes : pos'[d][t] = "none"
    BY <1>1 DEF pos, StackInv
  <2>2. \A d \in Classes : d # c => pos[d][t] = "none"
    BY <1>1 DEF pos
  <2>3. \A d \in Classes, u \in Threads : u # t => pos'[d][u] = pos[d][u]
    BY <1>1 DEF pos, StackInv
  <2> QED
    BY <2>1, <2>2, <2>3 DEF Moves
<1> HIDE DEF c
<1>4. MutexInv'
  BY <1>1, <1>3 DEF IndInv, MutexInv, Moves, Inside
<1>5. InstanceInv'
  <2>1. ASSUME NEW d \in Classes, \E u \in Threads : pos[d][u] \in Building
        PROVE  \E u \in Threads : pos'[d][u] \in Building
    BY <1>1, <1>3, <2>1, StillBuilding DEF Building
  <2>2. \A d \in Classes, u \in Threads : pos'[d][u] =
          IF d = c /\ u = t THEN "none" ELSE pos[d][u]
    BY <1>3 DEF Moves
  <2> QED
    BY <1>1, <2>1, <2>2 DEF IndInv, InstanceInv, Building
<1>6. ObjectInv'
  BY <1>1, <1>3, ObjectKept DEF IndInv, Moves
<1>7. ReturnInv'
  BY <1>1 DEF IndInv, ReturnInv, InstanceInv
<1> QED
  BY <1>1, <1>2, <1>4, <1>5, <1>6, <1>7 DEF IndInv

\* instance() of the database returns into Storage::Storage.
LEMMA ReturnNestedPreserves ==
  ASSUME IndInv, NEW t \in Threads, Return(t), Len(stack[t]) # 1
  PROVE  IndInv'
<1>1. /\ StackInv /\ stack[t] # <<>> /\ Class(t) \in Classes
      /\ pos[Class(t)][t] = "return"
      /\ main' = [main EXCEPT ![made["Storage"]] = instance[Class(t)]]
      /\ stack' = [stack EXCEPT ![t] = <<Frame("Storage", "blocks")>>]
      /\ UNCHANGED <<returned, mutex, instance, made, tables, opened>>
  BY AtPlace DEF Return, staticVars, IndInv
<1>2. \E l \in LabelsOf("Database") :
        /\ stack[t] = <<Frame("Database", l), Frame("Storage", "instance")>>
        /\ pos["Database"][t] = l /\ pos["Storage"][t] = "instance"
  <2>1. ASSUME NEW c, NEW l
        PROVE  stack[t] # <<Frame(c, l)>>
    BY Len(<<Frame(c, l)>>) = 1
  <2> QED
    BY <1>1, <2>1, StackKinds
<1>3. /\ Class(t) = "Database"
      /\ pos["Database"][t] = "return" /\ pos["Storage"][t] = "instance"
  BY <1>1, <1>2 DEF Class, Frame
<1>4. StackInv'
  BY <1>1 DEF StackInv, LabelsOf, Classes
<1>5. /\ pos'["Database"][t] = "none" /\ pos'["Storage"][t] = "blocks"
      /\ \A d \in Classes, u \in Threads : u # t => pos'[d][u] = pos[d][u]
  <2>1. stack'[t] = <<Frame("Storage", "blocks")>>
    BY <1>1 DEF StackInv
  <2>2. /\ stack'[t][1].of = "Storage" /\ stack'[t][1].at = "blocks"
        /\ Len(stack'[t]) = 1 /\ stack'[t] # <<>>
    BY <2>1 DEF Frame
  <2>3. \A u \in Threads : u # t => stack'[u] = stack[u]
    BY <1>1 DEF StackInv
  <2> QED
    BY <2>2, <2>3 DEF pos, Classes
<1>6. MutexInv'
  BY <1>1, <1>3, <1>5 DEF IndInv, MutexInv, Inside, Classes
<1>7. made["Storage"] = 1 /\ instance["Storage"] = 0 /\ instance["Database"] = 1
  BY <1>3 DEF IndInv, InstanceInv, Building, Classes
<1>8. InstanceInv'
  BY <1>1, <1>3, <1>5, <1>7 DEF IndInv, InstanceInv, Building, Classes
<1>9. \A u \in Threads : u # t => pos["Storage"][u] \notin Inside
  BY <1>3, NoneAssumption DEF IndInv, MutexInv, Inside, Classes
<1>10. ObjectInv'
  <2>1. main \in Seq(Nat) /\ Len(main) = 1 /\ main' = [main EXCEPT ![1] = 1]
    BY <1>1, <1>3, <1>7 DEF IndInv, ObjectInv
  <2>2. main' \in Seq(Nat) /\ Len(main') = 1 /\ main'[1] = 1
    BY <2>1, ExceptSeq
  <2> QED
    BY <1>1, <1>3, <1>5, <1>7, <1>9, <2>2 DEF IndInv, ObjectInv, Classes, Inside
<1> QED
  BY <1>1, <1>4, <1>6, <1>8, <1>10 DEF IndInv, ReturnInv

\* Nothing that the invariant speaks of has changed.
LEMMA StutterPreserves ==
  ASSUME IndInv, UNCHANGED <<stack, returned, staticVars, objectVars>>
  PROVE  IndInv'
<1>1. pos' = pos
  BY DEF pos
<1> QED
  BY <1>1 DEF IndInv, StackInv, MutexInv, InstanceInv, ObjectInv, ReturnInv,
     staticVars, objectVars

\* The invariant holds in every reachable state.
THEOREM Invariance == Spec => []IndInv
<1>1. IndInv /\ [Next]_vars => IndInv'
  <2> SUFFICES ASSUME IndInv, [Next]_vars
               PROVE  IndInv'
    OBVIOUS
  <2>1. ASSUME NEW t \in Threads, Step(t)
        PROVE  IndInv'
    <3>1. CASE Construct(t)
      BY <3>1, ConstructDatabasePreserves, ConstructStoragePreserves
         DEF Construct
    <3>2. CASE Return(t)
      BY <3>2, ReturnOuterPreserves, ReturnNestedPreserves
    <3> QED
      BY <2>1, <3>1, <3>2, LoadPreserves, LockPreserves, CheckPreserves,
         OpenEnvironmentPreserves, NestedCallPreserves, OpenTablePreserves,
         PublishPreserves, UnlockPreserves DEF Step
  <2>2. ASSUME NEW t \in Threads, Fail(t)
        PROVE  IndInv'
    BY <2>2, StutterPreserves DEF Fail, callVars
  <2>3. CASE UNCHANGED vars
    BY <2>3, StutterPreserves DEF vars, callVars
  <2> QED
    BY <2>1, <2>2, <2>3, CallPreserves DEF Next
<1> QED
  BY <1>1, InitInv, PTL DEF Spec

-----------------------------------------------------------------------------
(* What follows. *)

\* Singleton.hpp:24-39, Storage.cpp:10-21.  No thread, however it interleaves
\* with the others, sees a pointer to an object that is not complete.
THEOREM Completed == Spec => []SeenComplete
<1>1. IndInv => SeenComplete
  BY DEF IndInv, InstanceInv, ObjectInv, SeenComplete, Complete, Classes
<1> QED
  BY <1>1, Invariance, PTL

\* Singleton.hpp:28-38.  One object of each class is made, every call returns it
\* and the storage works on the database that everybody else gets.
THEOREM Single == Spec => []OneObject
<1>1. IndInv => OneObject
  <2> SUFFICES ASSUME IndInv
               PROVE  OneObject
    OBVIOUS
  <2>1. \A r \in returned : r = <<r[1], 1>>
    BY DEF IndInv, ReturnInv
  <2>2. \A n \in 1..made["Storage"] : main[n] \in {0, 1}
    BY DEF IndInv, InstanceInv, ObjectInv, Classes
  <2>3. \A c \in Classes : made[c] <= 1
    BY DEF IndInv, InstanceInv
  <2> QED
    BY <2>1, <2>2, <2>3 DEF OneObject
<1> QED
  BY <1>1, Invariance, PTL

\* Once the pointer of a class is stored, it is never stored again.
Stored == \A c \in Classes : instance[c] # 0 => instance'[c] = instance[c]

\* Singleton.hpp:28-38.  instance() returns what the pointer is after the lock
\* was given back: it returns what was made all the same, because the pointer
\* is stored at most once.
THEOREM StoredOnce == Spec => [][Stored]_vars
<1>1. IndInv /\ [Next]_vars => [Stored]_vars
  <2> SUFFICES ASSUME IndInv, Next
               PROVE  Stored
    BY DEF Stored, vars, staticVars
  <2>1. ASSUME NEW t \in Threads, Publish(t)
        PROVE  Stored
    <3>1. /\ Class(t) \in Classes
          /\ instance' = [instance EXCEPT ![Class(t)] = made[Class(t)]]
          /\ pos[Class(t)][t] = "publish"
      BY <2>1, AtPlace DEF Publish, IndInv
    <3>2. instance[Class(t)] = 0
      BY <3>1 DEF IndInv, InstanceInv, Building
    <3> QED
      BY <3>1, <3>2 DEF Stored, IndInv
  <2>2. CASE UNCHANGED instance
    BY <2>2 DEF Stored
  <2> QED
    BY <2>1, <2>2 DEF Next, Step, Call, Load, Lock, Check, Construct,
       OpenEnvironment, NestedCall, OpenTable, Unlock, Return, Fail, staticVars
<1> QED
  BY <1>1, Invariance, PTL DEF Spec

=============================================================================
