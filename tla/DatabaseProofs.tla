--------------------------- MODULE DatabaseProofs ---------------------------
(***************************************************************************)
(* Proofs about Database, for any number of threads, keys and values.      *)
(***************************************************************************)
EXTENDS Database, WellFoundedInduction, TLAPS

(***************************************************************************)
(* The inductive invariant, in parts.                                      *)
(***************************************************************************)

\* The state of an operation at each place of its life.
LifeInv ==
  \A t \in Threads :
    /\ pc[t] = "idle" <=> mode[t] = "none"
    /\ pc[t] \in {"idle", "lock", "start"} => ok[t] /\ cursor[t] = None
    /\ pc[t] \in {"lock", "start", "open", "clear", "abort"} => isOpen[t]
    /\ pc[t] \in {"open", "abort"} => mode[t] \in {"read", "write"}
    /\ pc[t] = "clear" => mode[t] = "write"
    /\ pc[t] = "committed" => mode[t] = "table" /\ ~isOpen[t]
    /\ mode[t] = "table" => ok[t]
    /\ pc[t] = "commit" => ok[t]
    /\ pc[t] = "commit" /\ ~dtor[t] => mode[t] = "table"
    /\ pc[t] = "abort" => dtor[t]
    /\ pc[t] = "unlock" /\ ~dtor[t] => mode[t] = "table" /\ ~isOpen[t]

\* Who holds the mutex is inside an operation of the right kind.
HolderInv ==
  /\ \A t \in readers : Holds(t) /\ mode[t] = "read"
  /\ \A t \in Threads : writer = t => Holds(t) /\ mode[t] # "read"

\* openTable leaves the contents alone.
OpenTableInv ==
  \A t \in Threads : InTxn(t) /\ mode[t] = "table" => view[t] = base[t]

IndInv ==
  /\ TypeOK
  /\ LifeInv
  /\ Exclusion
  /\ HolderInv
  /\ Isolation
  /\ OpenTableInv
  /\ CursorIsCommitted
  /\ ClearSweeps

-----------------------------------------------------------------------------
(* First returns the smallest key. *)

\* The minimum of a nonempty set of keys exists, so First finds it.
LEMMA FirstIsLeast ==
  ASSUME NEW S, S \subseteq Keys, S # {}
  PROVE  First(S) \in S /\ \A j \in S : First(S) <= j
<1>1. PICK k \in S : \A j \in S : <<j, k>> \notin OpToRel(<, Nat)
  BY NatLessThanWellFounded, KeysAssumption, WFMin
<1>2. ASSUME NEW j \in S, j < k
      PROVE  <<j, k>> \in OpToRel(<, Nat)
  <2>1. <<j, k>> \in Nat \X Nat
    BY KeysAssumption
  <2>2. <<j, k>>[1] < <<j, k>>[2]
    BY <1>2
  <2> QED
    BY <2>1, <2>2, Zenon DEF OpToRel
<1>3. \A j \in S : k <= j
  <2> TAKE j \in S
  <2>1. ~(j < k)
    BY <1>1, <1>2, Zenon
  <2> QED
    BY <2>1, KeysAssumption
<1> QED
  BY <1>3 DEF First

\* First yields a member of the set, or the end cursor if there is none.
LEMMA FirstType ==
  ASSUME NEW S, S \subseteq Keys
  PROVE  First(S) \in S \cup {None} /\ (First(S) = None <=> S = {})
<1>1. CASE S = {}
  BY <1>1 DEF First
<1>2. CASE S # {}
  BY <1>2, FirstIsLeast, NoneAssumption
<1> QED
  BY <1>1, <1>2

\* Nothing of the set comes before its First.
LEMMA NothingBefore ==
  ASSUME NEW S, S \subseteq Keys, NEW k \in Keys,
         First(S) = None \/ k < First(S)
  PROVE  k \notin S
<1> SUFFICES ASSUME k \in S
             PROVE  FALSE
  OBVIOUS
<1>1. First(S) \in S /\ First(S) <= k
  BY FirstIsLeast
<1>2. First(S) \in Nat /\ k \in Nat /\ First(S) # None
  BY <1>1, KeysAssumption, NoneAssumption
<1>3. ~(k < First(S))
  BY <1>1, <1>2
<1> QED
  BY <1>2, <1>3

-----------------------------------------------------------------------------
(* The initial states satisfy the invariant, and each action preserves it. *)

\* Before the first operation nobody holds anything.
LEMMA InitInv == Init => IndInv
<1> SUFFICES ASSUME Init
             PROVE  IndInv
  OBVIOUS
<1>1. TypeOK
  <2>1. Empty \in Contents
    BY DEF Empty, Contents
  <2> QED
    BY <2>1 DEF Init, TypeOK, PCs, Modes
<1>2. LifeInv
  BY DEF Init, LifeInv
<1>3. \A t \in Threads : ~Holds(t) /\ ~InTxn(t) /\ pc[t] # "clear"
  BY DEF Init, Holds, InTxn
<1>4. readers = {} /\ writer \notin Threads
  BY NoneAssumption DEF Init
<1> QED
  BY <1>1, <1>2, <1>3, <1>4 DEF IndInv, Exclusion, HolderInv, Isolation,
     OpenTableInv, CursorIsCommitted, ClearSweeps

\* Preserved: an operation is constructed.
LEMMA ConstructPreserves ==
  ASSUME IndInv, NEW t \in Threads, NEW m \in Modes, Construct(t, m)
  PROVE  IndInv'
<1>1. TypeOK'
  BY DEF Construct, Goto, IndInv, TypeOK, LifeInv, PCs, Modes
<1>2. LifeInv'
  BY DEF Construct, Goto, IndInv, TypeOK, LifeInv
<1>3. Exclusion'
  BY NoneAssumption DEF Construct, Goto, IndInv, TypeOK, LifeInv, Exclusion,
     HolderInv, Holds
<1>4. HolderInv'
  BY NoneAssumption DEF Construct, Goto, IndInv, TypeOK, LifeInv, HolderInv,
     Exclusion, Holds
<1>5. Isolation'
  BY DEF Construct, Goto, IndInv, TypeOK, LifeInv, Isolation, Exclusion,
     Holds, InTxn
<1>6. OpenTableInv'
  BY DEF Construct, Goto, IndInv, TypeOK, LifeInv, OpenTableInv, Holds, InTxn
<1>7. CursorIsCommitted'
  BY DEF Construct, Goto, IndInv, TypeOK, LifeInv, CursorIsCommitted,
     Isolation, Holds, InTxn, Exclusion
<1>8. ClearSweeps'
  BY DEF Construct, Goto, IndInv, TypeOK, LifeInv, ClearSweeps
<1> QED
  BY <1>1, <1>2, <1>3, <1>4, <1>5, <1>6, <1>7, <1>8 DEF IndInv

\* Preserved: a Reader takes the mutex.
LEMMA LockSharedPreserves ==
  ASSUME IndInv, NEW t \in Threads, LockShared(t)
  PROVE  IndInv'
<1>1. TypeOK'
  BY DEF LockShared, Goto, IndInv, TypeOK, PCs
<1>2. LifeInv'
  BY DEF LockShared, Goto, IndInv, TypeOK, LifeInv
<1>3. Exclusion'
  BY NoneAssumption DEF LockShared, Goto, IndInv, TypeOK, LifeInv, Exclusion,
     HolderInv, Holds
<1>4. HolderInv'
  BY NoneAssumption DEF LockShared, Goto, IndInv, TypeOK, LifeInv, HolderInv,
     Exclusion, Holds
<1>5. Isolation'
  BY DEF LockShared, Goto, IndInv, TypeOK, LifeInv, Isolation, Exclusion,
     Holds, InTxn
<1>6. OpenTableInv'
  BY DEF LockShared, Goto, IndInv, TypeOK, LifeInv, OpenTableInv, Holds,
     InTxn
<1>7. CursorIsCommitted'
  BY DEF LockShared, Goto, IndInv, TypeOK, LifeInv, CursorIsCommitted,
     Isolation, Holds, InTxn, Exclusion
<1>8. ClearSweeps'
  BY DEF LockShared, Goto, IndInv, TypeOK, LifeInv, ClearSweeps
<1> QED
  BY <1>1, <1>2, <1>3, <1>4, <1>5, <1>6, <1>7, <1>8 DEF IndInv

\* Preserved: a Writer takes the mutex.
LEMMA LockUniquePreserves ==
  ASSUME IndInv, NEW t \in Threads, LockUnique(t)
  PROVE  IndInv'
<1>1. TypeOK'
  BY DEF LockUnique, Goto, IndInv, TypeOK, PCs
<1>2. LifeInv'
  BY DEF LockUnique, Goto, IndInv, TypeOK, LifeInv
<1>3. Exclusion'
  BY NoneAssumption DEF LockUnique, Goto, IndInv, TypeOK, LifeInv, Exclusion,
     HolderInv, Holds
<1>4. HolderInv'
  BY NoneAssumption DEF LockUnique, Goto, IndInv, TypeOK, LifeInv, HolderInv,
     Exclusion, Holds
<1>5. Isolation'
  BY DEF LockUnique, Goto, IndInv, TypeOK, LifeInv, Isolation, Exclusion,
     Holds, InTxn
<1>6. OpenTableInv'
  BY DEF LockUnique, Goto, IndInv, TypeOK, LifeInv, OpenTableInv, Holds,
     InTxn
<1>7. CursorIsCommitted'
  BY DEF LockUnique, Goto, IndInv, TypeOK, LifeInv, CursorIsCommitted,
     Isolation, Holds, InTxn, Exclusion
<1>8. ClearSweeps'
  BY DEF LockUnique, Goto, IndInv, TypeOK, LifeInv, ClearSweeps
<1> QED
  BY <1>1, <1>2, <1>3, <1>4, <1>5, <1>6, <1>7, <1>8 DEF IndInv

\* Preserved: the transaction starts.
LEMMA StartTxnPreserves ==
  ASSUME IndInv, NEW t \in Threads, StartTxn(t)
  PROVE  IndInv'
<1>1. TypeOK'
  BY DEF StartTxn, Goto, IndInv, TypeOK, PCs
<1>2. LifeInv'
  BY DEF StartTxn, Goto, IndInv, TypeOK, LifeInv, Modes
<1>3. Exclusion'
  BY NoneAssumption DEF StartTxn, Goto, IndInv, TypeOK, LifeInv, Exclusion,
     HolderInv, Holds
<1>4. HolderInv'
  BY NoneAssumption DEF StartTxn, Goto, IndInv, TypeOK, LifeInv, HolderInv,
     Exclusion, Holds
<1>5. Isolation'
  BY DEF StartTxn, Goto, IndInv, TypeOK, LifeInv, Isolation, Exclusion,
     Holds, InTxn
<1>6. OpenTableInv'
  BY DEF StartTxn, Goto, IndInv, TypeOK, LifeInv, OpenTableInv, Holds, InTxn
<1>7. CursorIsCommitted'
  BY DEF StartTxn, Goto, IndInv, TypeOK, LifeInv, CursorIsCommitted,
     Isolation, Holds, InTxn, Exclusion
<1>8. ClearSweeps'
  BY DEF StartTxn, Goto, IndInv, TypeOK, LifeInv, ClearSweeps
<1> QED
  BY <1>1, <1>2, <1>3, <1>4, <1>5, <1>6, <1>7, <1>8 DEF IndInv

\* Preserved: the destructor is entered.
LEMMA DestroyPreserves ==
  ASSUME IndInv, NEW t \in Threads, Destroy(t)
  PROVE  IndInv'
<1>1. TypeOK'
  BY DEF Destroy, Goto, IndInv, TypeOK, PCs
<1>2. LifeInv'
  BY DEF Destroy, Goto, IndInv, TypeOK, LifeInv
<1>3. Exclusion'
  BY NoneAssumption DEF Destroy, Goto, IndInv, TypeOK, LifeInv, Exclusion,
     HolderInv, Holds
<1>4. HolderInv'
  BY NoneAssumption DEF Destroy, Goto, IndInv, TypeOK, LifeInv, HolderInv,
     Exclusion, Holds
<1>5. Isolation'
  BY DEF Destroy, Goto, IndInv, TypeOK, LifeInv, Isolation, Exclusion, Holds,
     InTxn
<1>6. OpenTableInv'
  BY DEF Destroy, Goto, IndInv, TypeOK, LifeInv, OpenTableInv, Holds, InTxn
<1>7. CursorIsCommitted'
  BY DEF Destroy, Goto, IndInv, TypeOK, LifeInv, CursorIsCommitted,
     Isolation, Holds, InTxn, Exclusion
<1>8. ClearSweeps'
  BY DEF Destroy, Goto, IndInv, TypeOK, LifeInv, ClearSweeps
<1> QED
  BY <1>1, <1>2, <1>3, <1>4, <1>5, <1>6, <1>7, <1>8 DEF IndInv

\* Preserved: the operation of t ends, and with it its hold on the mutex.
LEMMA LeavePreserves ==
  ASSUME IndInv, NEW t \in Threads, Leave(t),
         UNCHANGED <<store, opened>>,
         readers' = readers \ {t},
         writer' = IF writer = t THEN None ELSE writer
  PROVE  IndInv'
<1>0. Empty \in Contents
  BY DEF Empty, Contents
<1>1. TypeOK'
  BY <1>0 DEF Leave, Goto, IndInv, TypeOK, LifeInv, PCs, Modes
<1>2. LifeInv'
  BY DEF Leave, Goto, IndInv, TypeOK, LifeInv
<1>3. Exclusion'
  BY NoneAssumption DEF Leave, Goto, IndInv, TypeOK, LifeInv, Exclusion,
     HolderInv, Holds
<1>4. HolderInv'
  BY NoneAssumption DEF Leave, Goto, IndInv, TypeOK, LifeInv, HolderInv,
     Exclusion, Holds
<1>5. Isolation'
  BY DEF Leave, Goto, IndInv, TypeOK, LifeInv, Isolation, Exclusion, Holds,
     InTxn
<1>6. OpenTableInv'
  BY DEF Leave, Goto, IndInv, TypeOK, LifeInv, OpenTableInv, Holds, InTxn
<1>7. CursorIsCommitted'
  BY DEF Leave, Goto, IndInv, TypeOK, LifeInv, CursorIsCommitted, Isolation,
     Exclusion, Holds, InTxn
<1>8. ClearSweeps'
  BY DEF Leave, Goto, IndInv, TypeOK, LifeInv, ClearSweeps
<1> QED
  BY <1>1, <1>2, <1>3, <1>4, <1>5, <1>6, <1>7, <1>8 DEF IndInv

\* Preserved: commit.
LEMMA CommitPreserves ==
  ASSUME IndInv, NEW t \in Threads, Commit(t)
  PROVE  IndInv'
<1>1. CASE isOpen[t]
  <2>0. /\ store' = IF mode[t] = "read" THEN store ELSE view[t]
        /\ isOpen' = [isOpen EXCEPT ![t] = FALSE]
        /\ pc' = [pc EXCEPT ![t] = "unlock"]
        /\ pc[t] = "commit"
        /\ UNCHANGED <<readers, writer, opened, mode, ok, view, base, cursor, dtor>>
    BY <1>1 DEF Commit, Goto
  <2>1. TypeOK'
    BY <1>1, <2>0 DEF IndInv, TypeOK, LifeInv, PCs
  <2>2. LifeInv'
    BY <1>1, <2>0 DEF IndInv, TypeOK, LifeInv
  <2>3. Exclusion'
    BY <1>1, <2>0, NoneAssumption DEF IndInv, TypeOK, LifeInv, Exclusion,
       HolderInv, Holds
  <2>4. HolderInv'
    BY <1>1, <2>0, NoneAssumption DEF IndInv, TypeOK, LifeInv, HolderInv,
       Exclusion, Holds
  <2>5. Isolation'
    BY <1>1, <2>0, NoneAssumption DEF IndInv, TypeOK, LifeInv, Isolation,
       Exclusion, Holds, InTxn, OpenTableInv
  <2>6. OpenTableInv'
    BY <1>1, <2>0 DEF IndInv, TypeOK, LifeInv, OpenTableInv, Holds, InTxn
  <2>7. CursorIsCommitted'
    BY <1>1, <2>0, NoneAssumption DEF IndInv, TypeOK, LifeInv,
       CursorIsCommitted, Isolation, Exclusion, Holds, InTxn
  <2>8. ClearSweeps'
    BY <1>1, <2>0 DEF IndInv, TypeOK, LifeInv, ClearSweeps
  <2> QED
    BY <2>1, <2>2, <2>3, <2>4, <2>5, <2>6, <2>7, <2>8 DEF IndInv
<1>2. CASE ~isOpen[t]
  <2>1. t \notin readers /\ writer # t
    BY <1>2 DEF Commit, IndInv, HolderInv, Holds
  <2>2. Leave(t) /\ UNCHANGED <<store, readers, writer, opened>>
    BY <1>2 DEF Commit
  <2> QED
    BY <2>1, <2>2, LeavePreserves
<1> QED
  BY <1>1, <1>2

\* Preserved: abort.
LEMMA AbortPreserves ==
  ASSUME IndInv, NEW t \in Threads, Abort(t)
  PROVE  IndInv'
<1>0. /\ isOpen[t]
      /\ pc[t] = "abort"
      /\ pc' = [pc EXCEPT ![t] = "unlock"]
      /\ UNCHANGED <<store, readers, writer, opened, mode, isOpen, ok, view,
                     base, cursor, dtor>>
  BY DEF Abort, Goto, IndInv, LifeInv
<1>1. TypeOK'
  BY <1>0 DEF IndInv, TypeOK, LifeInv, PCs
<1>2. LifeInv'
  BY <1>0 DEF IndInv, TypeOK, LifeInv
<1>3. Exclusion'
  BY <1>0 DEF IndInv, TypeOK, LifeInv, Exclusion, HolderInv, Holds
<1>4. HolderInv'
  BY <1>0 DEF IndInv, TypeOK, LifeInv, HolderInv, Exclusion, Holds
<1>5. Isolation'
  BY <1>0 DEF IndInv, TypeOK, LifeInv, Isolation, Exclusion, Holds, InTxn
<1>6. OpenTableInv'
  BY <1>0 DEF IndInv, TypeOK, LifeInv, OpenTableInv, Holds, InTxn
<1>7. CursorIsCommitted'
  BY <1>0 DEF IndInv, TypeOK, LifeInv, CursorIsCommitted, Isolation,
     Exclusion, Holds, InTxn
<1>8. ClearSweeps'
  BY <1>0 DEF IndInv, TypeOK, LifeInv, ClearSweeps
<1> QED
  BY <1>1, <1>2, <1>3, <1>4, <1>5, <1>6, <1>7, <1>8 DEF IndInv

\* Preserved: unlock, in the destructor and in openTable's explicit commit.
LEMMA UnlockPreserves ==
  ASSUME IndInv, NEW t \in Threads, Unlock(t)
  PROVE  IndInv'
<1>1. /\ readers' = readers \ {t}
      /\ writer' = IF writer = t THEN None ELSE writer
  BY NoneAssumption DEF Unlock, IndInv, TypeOK, Exclusion, HolderInv, Holds
<1>2. CASE dtor[t]
  BY <1>1, <1>2, LeavePreserves DEF Unlock
<1>3. CASE ~dtor[t]
  <2>0. /\ pc[t] = "unlock"
        /\ pc' = [pc EXCEPT ![t] = "committed"]
        /\ UNCHANGED <<store, opened, mode, isOpen, ok, view, base, cursor, dtor>>
    BY <1>3 DEF Unlock, Goto
  <2>1. TypeOK'
    BY <1>1, <1>3, <2>0 DEF IndInv, TypeOK, LifeInv, PCs
  <2>2. LifeInv'
    BY <1>1, <1>3, <2>0 DEF IndInv, TypeOK, LifeInv
  <2>3. Exclusion'
    BY <1>1, <1>3, <2>0, NoneAssumption DEF IndInv, TypeOK, LifeInv,
       Exclusion, HolderInv, Holds
  <2>4. HolderInv'
    BY <1>1, <1>3, <2>0, NoneAssumption DEF IndInv, TypeOK, LifeInv,
       HolderInv, Exclusion, Holds
  <2>5. Isolation'
    BY <1>1, <1>3, <2>0 DEF IndInv, TypeOK, LifeInv, Isolation, Exclusion,
       Holds, InTxn
  <2>6. OpenTableInv'
    BY <1>1, <1>3, <2>0 DEF IndInv, TypeOK, LifeInv, OpenTableInv, Holds,
       InTxn
  <2>7. CursorIsCommitted'
    BY <1>1, <1>3, <2>0 DEF IndInv, TypeOK, LifeInv, CursorIsCommitted,
       Isolation, Exclusion, Holds, InTxn
  <2>8. ClearSweeps'
    BY <1>1, <1>3, <2>0 DEF IndInv, TypeOK, LifeInv, ClearSweeps
  <2> QED
    BY <2>1, <2>2, <2>3, <2>4, <2>5, <2>6, <2>7, <2>8 DEF IndInv
<1> QED
  BY <1>2, <1>3

\* Preserved: operator<<.
LEMMA AssignPreserves ==
  ASSUME IndInv, NEW t \in Threads, NEW success \in BOOLEAN, Assign(t, success)
  PROVE  IndInv'
<1>1. TypeOK'
  BY DEF Assign, IndInv, TypeOK, PCs
<1>2. LifeInv'
  BY DEF Assign, IndInv, TypeOK, LifeInv
<1>3. Exclusion'
  BY NoneAssumption DEF Assign, IndInv, TypeOK, LifeInv, Exclusion,
     HolderInv, Holds
<1>4. HolderInv'
  BY NoneAssumption DEF Assign, IndInv, TypeOK, LifeInv, HolderInv,
     Exclusion, Holds
<1>5. Isolation'
  BY DEF Assign, IndInv, TypeOK, LifeInv, Isolation, Exclusion, Holds, InTxn
<1>6. OpenTableInv'
  BY DEF Assign, IndInv, TypeOK, LifeInv, OpenTableInv, Holds, InTxn
<1>7. CursorIsCommitted'
  BY DEF Assign, IndInv, TypeOK, LifeInv, CursorIsCommitted, Isolation,
     Holds, InTxn, Exclusion
<1>8. ClearSweeps'
  BY DEF Assign, IndInv, TypeOK, LifeInv, ClearSweeps
<1> QED
  BY <1>1, <1>2, <1>3, <1>4, <1>5, <1>6, <1>7, <1>8 DEF IndInv

\* Preserved: a cursor is placed on a key that is there, or at the end.
LEMMA PlacePreserves ==
  ASSUME IndInv, NEW t \in Threads, NEW k \in Present(t) \cup {None},
         Place(t, k)
  PROVE  IndInv'
<1>1. TypeOK'
  BY DEF Place, Local, Present, IndInv, TypeOK, PCs
<1>2. LifeInv'
  BY DEF Place, Local, Present, IndInv, TypeOK, LifeInv
<1>3. Exclusion'
  BY NoneAssumption DEF Place, Local, Present, IndInv, TypeOK, LifeInv,
     Exclusion, HolderInv, Holds
<1>4. HolderInv'
  BY NoneAssumption DEF Place, Local, Present, IndInv, TypeOK, LifeInv,
     HolderInv, Exclusion, Holds
<1>5. Isolation'
  BY DEF Place, Local, Present, IndInv, TypeOK, LifeInv, Isolation,
     Exclusion, Holds, InTxn
<1>6. OpenTableInv'
  BY DEF Place, Local, Present, IndInv, TypeOK, LifeInv, OpenTableInv, Holds,
     InTxn
<1>7. CursorIsCommitted'
  BY DEF Place, Local, Present, IndInv, TypeOK, LifeInv, CursorIsCommitted,
     Isolation, Holds, InTxn, Exclusion
<1>8. ClearSweeps'
  BY DEF Place, Local, Present, IndInv, TypeOK, LifeInv, ClearSweeps
<1> QED
  BY <1>1, <1>2, <1>3, <1>4, <1>5, <1>6, <1>7, <1>8 DEF IndInv

\* Preserved: a key is written.
LEMMA PutPreserves ==
  ASSUME IndInv, NEW t \in Threads, NEW k \in Keys, NEW v \in Values,
         NEW allowed, Put(t, k, v, allowed)
  PROVE  IndInv'
<1>1. TypeOK'
  <2>1. [view[t] EXCEPT ![k] = v] \in Contents
    BY DEF IndInv, TypeOK, Contents
  <2>2. view' \in [Threads -> Contents]
    BY <2>1 DEF Put, IndInv, TypeOK
  <2> QED
    BY <2>2 DEF Put, Local, IndInv, TypeOK
<1>2. LifeInv'
  BY DEF Put, Local, IndInv, TypeOK, LifeInv
<1>3. Exclusion'
  BY NoneAssumption DEF Put, Local, IndInv, TypeOK, LifeInv, Exclusion,
     HolderInv, Holds
<1>4. HolderInv'
  BY NoneAssumption DEF Put, Local, IndInv, TypeOK, LifeInv, HolderInv,
     Exclusion, Holds
<1>5. Isolation'
  BY DEF Put, Local, IndInv, TypeOK, LifeInv, Isolation, Exclusion, Holds,
     InTxn
<1>6. OpenTableInv'
  BY DEF Put, Local, IndInv, TypeOK, LifeInv, OpenTableInv, Holds, InTxn
<1>7. CursorIsCommitted'
  BY DEF Put, Local, IndInv, TypeOK, LifeInv, CursorIsCommitted, Isolation,
     Holds, InTxn, Exclusion
<1>8. ClearSweeps'
  BY DEF Put, Local, IndInv, TypeOK, LifeInv, ClearSweeps
<1> QED
  BY <1>1, <1>2, <1>3, <1>4, <1>5, <1>6, <1>7, <1>8 DEF IndInv

\* Preserved: the condition of find throws.
LEMMA FindThrowsPreserves ==
  ASSUME IndInv, NEW t \in Threads, FindThrows(t)
  PROVE  IndInv'
<1>1. TypeOK'
  BY DEF FindThrows, Local, IndInv, TypeOK, PCs
<1>2. LifeInv'
  BY DEF FindThrows, Local, IndInv, TypeOK, LifeInv
<1>3. Exclusion'
  BY NoneAssumption DEF FindThrows, Local, IndInv, TypeOK, LifeInv,
     Exclusion, HolderInv, Holds
<1>4. HolderInv'
  BY NoneAssumption DEF FindThrows, Local, IndInv, TypeOK, LifeInv,
     HolderInv, Exclusion, Holds
<1>5. Isolation'
  BY DEF FindThrows, Local, IndInv, TypeOK, LifeInv, Isolation, Exclusion,
     Holds, InTxn
<1>6. OpenTableInv'
  BY DEF FindThrows, Local, IndInv, TypeOK, LifeInv, OpenTableInv, Holds,
     InTxn
<1>7. CursorIsCommitted'
  BY DEF FindThrows, Local, IndInv, TypeOK, LifeInv, CursorIsCommitted,
     Isolation, Holds, InTxn, Exclusion
<1>8. ClearSweeps'
  BY DEF FindThrows, Local, IndInv, TypeOK, LifeInv, ClearSweeps
<1> QED
  BY <1>1, <1>2, <1>3, <1>4, <1>5, <1>6, <1>7, <1>8 DEF IndInv

\* Preserved: erase through a cursor.
LEMMA EraseCursorPreserves ==
  ASSUME IndInv, NEW t \in Threads, EraseCursor(t)
  PROVE  IndInv'
<1>1. TypeOK'
  BY DEF EraseCursor, Local, IndInv, TypeOK, Contents
<1>2. LifeInv'
  BY DEF EraseCursor, Local, IndInv, TypeOK, LifeInv
<1>3. Exclusion'
  BY NoneAssumption DEF EraseCursor, Local, IndInv, TypeOK, LifeInv,
     Exclusion, HolderInv, Holds
<1>4. HolderInv'
  BY NoneAssumption DEF EraseCursor, Local, IndInv, TypeOK, LifeInv,
     HolderInv, Exclusion, Holds
<1>5. Isolation'
  BY DEF EraseCursor, Local, IndInv, TypeOK, LifeInv, Isolation, Exclusion,
     Holds, InTxn
<1>6. OpenTableInv'
  BY DEF EraseCursor, Local, IndInv, TypeOK, LifeInv, OpenTableInv, Holds,
     InTxn
<1>7. CursorIsCommitted'
  BY DEF EraseCursor, Local, IndInv, TypeOK, LifeInv, CursorIsCommitted,
     Isolation, Holds, InTxn, Exclusion
<1>8. ClearSweeps'
  BY DEF EraseCursor, Local, IndInv, TypeOK, LifeInv, ClearSweeps
<1> QED
  BY <1>1, <1>2, <1>3, <1>4, <1>5, <1>6, <1>7, <1>8 DEF IndInv

\* Preserved: clear starts.
LEMMA ClearPreserves ==
  ASSUME IndInv, NEW t \in Threads, Clear(t)
  PROVE  IndInv'
<1>1. TypeOK'
  BY FirstType DEF Clear, Goto, Present, IndInv, TypeOK, PCs
<1>2. LifeInv'
  BY DEF Clear, Goto, IndInv, TypeOK, LifeInv
<1>3. Exclusion'
  BY NoneAssumption DEF Clear, Goto, IndInv, TypeOK, LifeInv, Exclusion,
     HolderInv, Holds
<1>4. HolderInv'
  BY NoneAssumption DEF Clear, Goto, IndInv, TypeOK, LifeInv, HolderInv,
     Exclusion, Holds
<1>5. Isolation'
  BY DEF Clear, Goto, IndInv, TypeOK, LifeInv, Isolation, Exclusion, Holds,
     InTxn
<1>6. OpenTableInv'
  BY DEF Clear, Goto, IndInv, TypeOK, LifeInv, OpenTableInv, Holds, InTxn
<1>7. CursorIsCommitted'
  BY DEF Clear, Goto, IndInv, TypeOK, LifeInv, CursorIsCommitted, Isolation,
     Holds, InTxn, Exclusion
<1>8. ClearSweeps'
  <2>1. ASSUME NEW k \in Keys, cursor'[t] = None \/ k < cursor'[t]
        PROVE  view[t][k] = Absent
    <3>1. cursor'[t] = First(Present(t)) /\ Present(t) \subseteq Keys
      BY DEF Clear, Present, IndInv, TypeOK
    <3>2. k \notin Present(t)
      BY <2>1, <3>1, NothingBefore
    <3> QED
      BY <3>2 DEF Present
  <2> QED
    BY <2>1 DEF Clear, Goto, IndInv, TypeOK, ClearSweeps
<1> QED
  BY <1>1, <1>2, <1>3, <1>4, <1>5, <1>6, <1>7, <1>8 DEF IndInv

\* Preserved: one round of the loop in clear.
LEMMA ClearNextPreserves ==
  ASSUME IndInv, NEW t \in Threads, ClearNext(t)
  PROVE  IndInv'
<1>1. TypeOK'
  <2>1. CASE cursor[t] = None
    BY <2>1 DEF ClearNext, Goto, IndInv, TypeOK, PCs
  <2>2. CASE cursor[t] # None
    <3>1. [view[t] EXCEPT ![cursor[t]] = Absent] \in Contents
      BY <2>2 DEF IndInv, TypeOK, Contents
    <3>2. First({j \in Present(t) : j > cursor[t]}) \in Keys \cup {None}
      BY FirstType DEF Present
    <3>3. /\ view' \in [Threads -> Contents]
          /\ cursor' \in [Threads -> Keys \cup {None}]
      BY <2>2, <3>1, <3>2 DEF ClearNext, IndInv, TypeOK
    <3> QED
      BY <2>2, <3>3 DEF ClearNext, IndInv, TypeOK
  <2> QED
    BY <2>1, <2>2
<1>2. LifeInv'
  BY DEF ClearNext, Goto, IndInv, TypeOK, LifeInv
<1>3. Exclusion'
  BY NoneAssumption DEF ClearNext, Goto, IndInv, TypeOK, LifeInv, Exclusion,
     HolderInv, Holds
<1>4. HolderInv'
  BY NoneAssumption DEF ClearNext, Goto, IndInv, TypeOK, LifeInv, HolderInv,
     Exclusion, Holds
<1>5. Isolation'
  BY DEF ClearNext, Goto, IndInv, TypeOK, LifeInv, Isolation, Exclusion,
     Holds, InTxn
<1>6. OpenTableInv'
  BY DEF ClearNext, Goto, IndInv, TypeOK, LifeInv, OpenTableInv, Holds, InTxn
<1>7. CursorIsCommitted'
  BY DEF ClearNext, Goto, IndInv, TypeOK, LifeInv, CursorIsCommitted,
     Isolation, Holds, InTxn, Exclusion
<1>8. ClearSweeps'
  <2>1. CASE cursor[t] = None
    BY <2>1 DEF ClearNext, Goto, IndInv, TypeOK, ClearSweeps
  <2>2. CASE cursor[t] # None
    <3> DEFINE Later == {j \in Present(t) : j > cursor[t]}
    <3>1. /\ cursor[t] \in Keys
          /\ pc[t] = "clear"
          /\ cursor' = [cursor EXCEPT ![t] = First(Later)]
          /\ view' = [view EXCEPT ![t][cursor[t]] = Absent]
          /\ UNCHANGED pc
      BY <2>2 DEF ClearNext, IndInv, TypeOK
    <3>2. ASSUME NEW k \in Keys, First(Later) = None \/ k < First(Later)
          PROVE  k \notin Later
      BY <3>2, NothingBefore DEF Present
    <3>3. ASSUME NEW k \in Keys, First(Later) = None \/ k < First(Later),
                 k # cursor[t]
          PROVE  view[t][k] = Absent
      <4>1. CASE k < cursor[t]
        BY <3>1, <4>1 DEF IndInv, ClearSweeps
      <4>2. CASE k > cursor[t]
        BY <3>2, <3>3, <4>2 DEF Present
      <4> QED
        BY <3>1, <3>3, <4>1, <4>2, KeysAssumption
    <3> HIDE DEF Later
    <3>4. \A k \in Keys : cursor'[t] = None \/ k < cursor'[t] =>
                            view'[t][k] = Absent
      BY <3>1, <3>3 DEF IndInv, TypeOK, Contents
    <3>5. \A u \in Threads : u # t =>
             cursor'[u] = cursor[u] /\ view'[u] = view[u]
      BY <3>1 DEF IndInv, TypeOK
    <3> QED
      BY <3>1, <3>4, <3>5 DEF IndInv, ClearSweeps
  <2> QED
    BY <2>1, <2>2
<1> QED
  BY <1>1, <1>2, <1>3, <1>4, <1>5, <1>6, <1>7, <1>8 DEF IndInv

\* Preserved: erase of a key.
LEMMA EraseKeyPreserves ==
  ASSUME IndInv, NEW t \in Threads, NEW k \in Keys, EraseKey(t, k)
  PROVE  IndInv'
<1>1. TypeOK'
  BY DEF EraseKey, Local, IndInv, TypeOK, Contents
<1>2. LifeInv'
  BY DEF EraseKey, Local, IndInv, TypeOK, LifeInv
<1>3. Exclusion'
  BY NoneAssumption DEF EraseKey, Local, IndInv, TypeOK, LifeInv, Exclusion,
     HolderInv, Holds
<1>4. HolderInv'
  BY NoneAssumption DEF EraseKey, Local, IndInv, TypeOK, LifeInv, HolderInv,
     Exclusion, Holds
<1>5. Isolation'
  BY DEF EraseKey, Local, IndInv, TypeOK, LifeInv, Isolation, Exclusion,
     Holds, InTxn
<1>6. OpenTableInv'
  BY DEF EraseKey, Local, IndInv, TypeOK, LifeInv, OpenTableInv, Holds, InTxn
<1>7. CursorIsCommitted'
  BY DEF EraseKey, Local, IndInv, TypeOK, LifeInv, CursorIsCommitted,
     Isolation, Holds, InTxn, Exclusion
<1>8. ClearSweeps'
  BY DEF EraseKey, Local, IndInv, TypeOK, LifeInv, ClearSweeps
<1> QED
  BY <1>1, <1>2, <1>3, <1>4, <1>5, <1>6, <1>7, <1>8 DEF IndInv

\* Preserved: an operation on the table.
LEMMA TableStepPreserves ==
  ASSUME IndInv, NEW t \in Threads, TableStep(t)
  PROVE  IndInv'
<1>1. ASSUME NEW S, S \subseteq Present(t), Place(t, First(S))
      PROVE  IndInv'
  <2>1. First(S) \in Present(t) \cup {None}
    BY <1>1, FirstType DEF Present
  <2> QED
    BY <1>1, <2>1, PlacePreserves
<1>2. Begin(t) => IndInv'
  BY <1>1 DEF Begin
<1>3. Increment(t) => IndInv'
  BY <1>1 DEF Increment
<1>4. Decrement(t) => IndInv'
  BY PlacePreserves DEF Decrement
<1>5. ASSUME NEW k \in Keys, Get(t, k)
      PROVE  IndInv'
  BY <1>5, PlacePreserves DEF Get
<1>6. ASSUME NEW k \in Keys, LowerBound(t, k)
      PROVE  IndInv'
  BY <1>1, <1>6 DEF LowerBound
<1>7. ASSUME NEW v \in Values, Find(t, v)
      PROVE  IndInv'
  BY <1>1, <1>7, PlacePreserves DEF Find
<1>8. ASSUME NEW v \in Values, SetRawValue(t, v)
      PROVE  IndInv'
  BY <1>8, PutPreserves DEF SetRawValue, Present
<1>9. ASSUME NEW k \in Keys, NEW v \in Values,
             Insert(t, k, v) \/ Update(t, k, v) \/ Upsert(t, k, v)
      PROVE  IndInv'
  BY <1>9, PutPreserves DEF Insert, Update, Upsert
<1> QED
  BY <1>2, <1>3, <1>4, <1>5, <1>6, <1>7, <1>8, <1>9, FindThrowsPreserves,
     EraseCursorPreserves, ClearPreserves, EraseKeyPreserves DEF TableStep

\* Preserved: a step that changes nothing.
LEMMA StutterPreserves ==
  ASSUME IndInv, UNCHANGED vars
  PROVE  IndInv'
  BY DEF vars, IndInv, TypeOK, LifeInv, Exclusion, HolderInv, Isolation,
     OpenTableInv, CursorIsCommitted, ClearSweeps, Holds, InTxn

\* The invariant holds in every reachable state of the database.
THEOREM Invariance == Spec => []IndInv
<1>1. Init => IndInv
  BY InitInv
<1>2. IndInv /\ [Next]_vars => IndInv'
  <2> SUFFICES ASSUME IndInv, [Next]_vars
               PROVE  IndInv'
    OBVIOUS
  <2>1. ASSUME NEW t \in Threads, Use(t)
        PROVE  IndInv'
    BY <2>1, ConstructPreserves, AssignPreserves, TableStepPreserves DEF Use
  <2>2. ASSUME NEW t \in Threads, Proceed(t)
        PROVE  IndInv'
    BY <2>2, LockSharedPreserves, StartTxnPreserves, CommitPreserves,
       AbortPreserves, UnlockPreserves, ClearNextPreserves DEF Proceed
  <2>3. ASSUME NEW t \in Threads, LockUnique(t) \/ Destroy(t)
        PROVE  IndInv'
    BY <2>3, LockUniquePreserves, DestroyPreserves
  <2>4. CASE UNCHANGED vars
    BY <2>4, StutterPreserves
  <2> QED
    BY <2>1, <2>2, <2>3, <2>4 DEF Next
<1> QED
  BY <1>1, <1>2, PTL DEF Spec

-----------------------------------------------------------------------------
(* What follows from the invariant. *)

\* Every variable keeps its type.
THEOREM TypeCorrect == Spec => []TypeOK
  BY Invariance, PTL DEF IndInv

\* Readers share the database, a Writer has it alone.
THEOREM Excluded == Spec => []Exclusion
  BY Invariance, PTL DEF IndInv

\* The contents do not change under an open transaction, and a Reader sees
\* exactly the committed ones.
THEOREM Isolated == Spec => []Isolation
  BY Invariance, PTL DEF IndInv

\* A Reader's cursor is at a committed key.
THEOREM CursorSafe == Spec => []CursorIsCommitted
  BY Invariance, PTL DEF IndInv

\* clear leaves nothing behind its cursor.
THEOREM ClearComplete == Spec => []ClearSweeps
  BY Invariance, PTL DEF IndInv

\* The committed contents change only by the commit of a successful Writer that
\* started from them.
THEOREM CommitsAreSerial == Spec => SerialCommits
<1> DEFINE ByWriter == store' # store =>
             \E t \in Threads : /\ pc[t] = "commit"
                                /\ mode[t] = "write"
                                /\ ok[t]
                                /\ base[t] = store
                                /\ store' = view[t]
<1>1. IndInv /\ [Next]_vars => [ByWriter]_vars
  <2> SUFFICES ASSUME IndInv, Next
               PROVE  ByWriter
    OBVIOUS
  <2>1. ASSUME NEW t \in Threads, Commit(t)
        PROVE  ByWriter
    <3> SUFFICES ASSUME store' # store
                 PROVE  /\ pc[t] = "commit" /\ mode[t] = "write" /\ ok[t]
                        /\ base[t] = store /\ store' = view[t]
      OBVIOUS
    <3>1. /\ pc[t] = "commit" /\ isOpen[t] /\ mode[t] # "read"
          /\ store' = view[t] /\ ok[t]
      BY <2>1 DEF Commit, IndInv, LifeInv
    <3>2. base[t] = store
      BY <3>1 DEF IndInv, Isolation, InTxn, Holds
    <3>3. mode[t] # "table"
      BY <3>1, <3>2 DEF IndInv, OpenTableInv, InTxn, Holds
    <3>4. mode[t] # "none"
      BY <3>1 DEF IndInv, LifeInv
    <3> QED
      BY <3>1, <3>2, <3>3, <3>4 DEF IndInv, TypeOK, Modes
  <2>2. ASSUME NEW t \in Threads, TableStep(t)
        PROVE  UNCHANGED store
    <3>1. ASSUME NEW k, Place(t, k)
          PROVE  UNCHANGED store
      BY <3>1 DEF Place, Local
    <3>2. ASSUME NEW k, NEW v, NEW allowed, Put(t, k, v, allowed)
          PROVE  UNCHANGED store
      BY <3>2 DEF Put, Local
    <3>3. CASE \/ Begin(t) \/ Increment(t) \/ Decrement(t)
               \/ \E k \in Keys : Get(t, k) \/ LowerBound(t, k)
               \/ \E v \in Values : Find(t, v)
      BY <3>1, <3>3 DEF Begin, Increment, Decrement, Get, LowerBound, Find
    <3>4. CASE \/ \E v \in Values : SetRawValue(t, v)
               \/ \E k \in Keys, v \in Values :
                    Insert(t, k, v) \/ Update(t, k, v) \/ Upsert(t, k, v)
      BY <3>2, <3>4 DEF SetRawValue, Insert, Update, Upsert
    <3>5. CASE \/ FindThrows(t) \/ EraseCursor(t) \/ Clear(t)
               \/ \E k \in Keys : EraseKey(t, k)
      BY <3>5 DEF FindThrows, EraseCursor, Clear, EraseKey, Local
    <3> QED
      BY <2>2, <3>3, <3>4, <3>5 DEF TableStep
  <2> QED
    BY <2>1, <2>2 DEF Next, Use, Proceed, Construct, Assign, LockShared,
       LockUnique, StartTxn, Destroy, Abort, Unlock, ClearNext
<1> QED
  BY <1>1, Invariance, PTL DEF Spec, SerialCommits

=============================================================================
