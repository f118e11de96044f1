------------------------------ MODULE Database ------------------------------
(***************************************************************************)
(* ztstl::database: Database, its Reader and Writer operations, and Table  *)
(* with its cursors.  Threads open an operation, work on the table through *)
(* it and destroy it; the destructor commits if the operation's result is  *)
(* still a success and aborts otherwise.  A std::shared_mutex admits many  *)
(* readers or one writer.  libmdbx is external: a transaction has its own  *)
(* view of the map, which a commit publishes.                              *)
(***************************************************************************)
EXTENDS Naturals, FiniteSets

CONSTANTS
  Threads,
  Keys,     \* keys, ordered as libmdbx orders them
  Values,
  Absent,   \* the key is not in the table
  None      \* no thread, and the end cursor

ASSUME KeysAssumption == Keys \subseteq Nat
ASSUME AbsentAssumption == Absent \notin Values
ASSUME NoneAssumption == None \notin Threads /\ None \notin Keys

VARIABLES
  store,    \* the committed contents of the table
  readers,  \* threads that hold m_mutex shared
  writer,   \* the thread that holds m_mutex exclusively, or None
  opened,   \* some thread has a Table from openTable
  pc,       \* pc[t]: where thread t is
  mode,     \* mode[t]: the operation of t: a Reader, a Writer, openTable's
  isOpen,   \* isOpen[t]: m_isOpen
  ok,       \* ok[t]: m_result is a success
  view,     \* view[t]: the table as the transaction of t sees it
  base,     \* base[t]: the committed contents when that transaction started
  cursor,   \* cursor[t]: the key the latest cursor of t is at, or None
  dtor      \* dtor[t]: the destructor of the operation has begun

vars == <<store, readers, writer, opened, pc, mode, isOpen, ok, view, base,
          cursor, dtor>>

Contents == [Keys -> Values \cup {Absent}]
Empty == [k \in Keys |-> Absent]

PCs == {"idle", "lock", "start", "open", "clear", "commit", "abort", "unlock",
        "committed"}
Modes == {"none", "read", "write", "table"}

TypeOK ==
  /\ store \in Contents
  /\ readers \subseteq Threads
  /\ writer \in Threads \cup {None}
  /\ opened \in BOOLEAN
  /\ pc \in [Threads -> PCs]
  /\ mode \in [Threads -> Modes]
  /\ isOpen \in [Threads -> BOOLEAN]
  /\ ok \in [Threads -> BOOLEAN]
  /\ view \in [Threads -> Contents]
  /\ base \in [Threads -> Contents]
  /\ cursor \in [Threads -> Keys \cup {None}]
  /\ dtor \in [Threads -> BOOLEAN]

Init ==
  /\ store = Empty
  /\ readers = {}
  /\ writer = None
  /\ opened = FALSE
  /\ pc = [t \in Threads |-> "idle"]
  /\ mode = [t \in Threads |-> "none"]
  /\ isOpen = [t \in Threads |-> FALSE]
  /\ ok = [t \in Threads |-> TRUE]
  /\ view = [t \in Threads |-> Empty]
  /\ base = [t \in Threads |-> Empty]
  /\ cursor = [t \in Threads |-> None]
  /\ dtor = [t \in Threads |-> FALSE]

Goto(t, label) == pc' = [pc EXCEPT ![t] = label]

\* The operation object of t is gone.
Leave(t) ==
  /\ Goto(t, "idle")
  /\ mode' = [mode EXCEPT ![t] = "none"]
  /\ isOpen' = [isOpen EXCEPT ![t] = FALSE]
  /\ ok' = [ok EXCEPT ![t] = TRUE]
  /\ view' = [view EXCEPT ![t] = Empty]
  /\ base' = [base EXCEPT ![t] = Empty]
  /\ cursor' = [cursor EXCEPT ![t] = None]
  /\ dtor' = [dtor EXCEPT ![t] = FALSE]

-----------------------------------------------------------------------------
(* Reader and Writer: construction and destruction. *)

\* makeReader, makeWriter or openTable is called: the object's fields are set
\* and its constructor goes for the lock.
Construct(t, m) ==
  /\ pc[t] = "idle"
  /\ m \in {"read", "write", "table"}
  /\ m \in {"read", "write"} => opened
  /\ mode' = [mode EXCEPT ![t] = m]
  /\ isOpen' = [isOpen EXCEPT ![t] = TRUE]
  /\ Goto(t, "lock")
  /\ UNCHANGED <<store, readers, writer, opened, ok, view, base, cursor, dtor>>

\* Mutant: the Reader does not wait for the Writer.
LockSharedNoWait(t) ==
  /\ pc[t] = "lock"
  /\ mode[t] = "read"
  /\ readers' = readers \cup {t}
  /\ Goto(t, "start")
  /\ UNCHANGED <<store, writer, opened, mode, isOpen, ok, view, base, cursor,
                 dtor>>

LockShared(t) ==
  /\ pc[t] = "lock"
  /\ mode[t] = "read"
  /\ writer = None
  /\ readers' = readers \cup {t}
  /\ Goto(t, "start")
  /\ UNCHANGED <<store, writer, opened, mode, isOpen, ok, view, base, cursor,
                 dtor>>

LockUnique(t) ==
  /\ pc[t] = "lock"
  /\ mode[t] # "read"
  /\ writer = None
  /\ readers = {}
  /\ writer' = t
  /\ Goto(t, "start")
  /\ UNCHANGED <<store, readers, opened, mode, isOpen, ok, view, base, cursor,
                 dtor>>

\* start_read or start_write.  openTable goes on to create_map, which does not
\* touch the contents, and to an explicit commit.
StartTxn(t) ==
  /\ pc[t] = "start"
  /\ view' = [view EXCEPT ![t] = store]
  /\ base' = [base EXCEPT ![t] = store]
  /\ Goto(t, IF mode[t] = "table" THEN "commit" ELSE "open")
  /\ UNCHANGED <<store, readers, writer, opened, mode, isOpen, ok, cursor,
                 dtor>>

\* Mutant: the destructor commits whatever the result is.
DestroyCommits(t) ==
  /\ pc[t] \in {"open", "committed"}
  /\ dtor' = [dtor EXCEPT ![t] = TRUE]
  /\ opened' = (opened \/ mode[t] = "table")
  /\ Goto(t, "commit")
  /\ UNCHANGED <<store, readers, writer, mode, isOpen, ok, view, base, cursor>>

\* The operation goes out of scope.
Destroy(t) ==
  /\ pc[t] \in {"open", "committed"}
  /\ dtor' = [dtor EXCEPT ![t] = TRUE]
  /\ opened' = (opened \/ mode[t] = "table")
  /\ Goto(t, IF ok[t] THEN "commit" ELSE "abort")
  /\ UNCHANGED <<store, readers, writer, mode, isOpen, ok, view, base, cursor>>

\* Mutant: commit leaves m_isOpen set, so openTable's Writer commits twice.
CommitStaysOpen(t) ==
  /\ pc[t] = "commit"
  /\ store' = IF mode[t] = "read" THEN store ELSE view[t]
  /\ Goto(t, "unlock")
  /\ UNCHANGED <<readers, writer, opened, mode, isOpen, ok, view, base, cursor,
                 dtor>>

Commit(t) ==
  /\ pc[t] = "commit"
  /\ IF isOpen[t]
     THEN /\ store' = IF mode[t] = "read" THEN store ELSE view[t]
          /\ isOpen' = [isOpen EXCEPT ![t] = FALSE]
          /\ Goto(t, "unlock")
          /\ UNCHANGED <<mode, ok, view, base, cursor, dtor>>
     ELSE Leave(t) /\ UNCHANGED store
  /\ UNCHANGED <<readers, writer, opened>>

Abort(t) ==
  /\ pc[t] = "abort"
  /\ IF isOpen[t]
     THEN /\ Goto(t, "unlock")
          /\ UNCHANGED <<mode, isOpen, ok, view, base, cursor, dtor>>
     ELSE Leave(t)
  /\ UNCHANGED <<store, readers, writer, opened>>

Unlock(t) ==
  /\ pc[t] = "unlock"
  /\ readers' = IF mode[t] = "read" THEN readers \ {t} ELSE readers
  /\ writer' = IF mode[t] = "read" THEN writer ELSE None
  /\ IF dtor[t]
     THEN Leave(t)
     ELSE /\ Goto(t, "committed")
          /\ UNCHANGED <<mode, isOpen, ok, view, base, cursor, dtor>>
  /\ UNCHANGED <<store, opened>>

\* operator<<: the user overwrites the result.
Assign(t, success) ==
  /\ pc[t] = "open"
  /\ ok' = [ok EXCEPT ![t] = success]
  /\ UNCHANGED <<store, readers, writer, opened, pc, mode, isOpen, view, base,
                 cursor, dtor>>

-----------------------------------------------------------------------------
(* Table: one operation in an open Reader or Writer. *)

Present(t) == {k \in Keys : view[t][k] # Absent}

\* Mutant: an empty range yields a key.
FirstOrZero(S) == IF S = {} THEN 0 ELSE CHOOSE k \in S : \A j \in S : k <= j

\* The smallest of a set of keys, or the end cursor.
First(S) == IF S = {} THEN None ELSE CHOOSE k \in S : \A j \in S : k <= j

\* A step of t's operation that leaves everything shared alone.
Local(t) ==
  UNCHANGED <<store, readers, writer, opened, pc, mode, isOpen, base, dtor>>

\* A read: it only places a cursor.
Place(t, k) ==
  /\ pc[t] = "open"
  /\ cursor' = [cursor EXCEPT ![t] = k]
  /\ UNCHANGED <<ok, view>>
  /\ Local(t)

\* Mutant: the outcome of the search is ignored.
GetUnchecked(t, k) == Place(t, k)

Begin(t) == Place(t, First(Present(t)))
Get(t, k) == Place(t, IF k \in Present(t) THEN k ELSE None)
LowerBound(t, k) == Place(t, First({j \in Present(t) : j >= k}))

\* operator++ and operator-- of a cursor that is not at the end; ++ also works
\* where the key has just been erased.  Stepping back from the first key
\* throws and changes nothing.
Increment(t) ==
  /\ cursor[t] # None
  /\ Place(t, First({j \in Present(t) : j > cursor[t]}))

Decrement(t) ==
  /\ cursor[t] \in Present(t)
  /\ \E k \in Present(t) :
       /\ k < cursor[t]
       /\ \A j \in Present(t) : j < cursor[t] => j <= k
       /\ Place(t, k)

\* find(cursor, end, cond), with cond a test of the value.  Only the overloads
\* that take a Writer's cursor can be instantiated.  The search hands the
\* cursor on without its m_end: one that was the end because an operation had
\* failed comes back at whatever key libmdbx left it, or at the end.
Find(t, v) ==
  /\ mode[t] = "write"
  /\ \/ /\ cursor[t] \in Present(t)
        /\ Place(t, First({k \in Present(t) : /\ k >= cursor[t]
                                             /\ view[t][k] = v}))
     \/ /\ cursor[t] = None
        /\ \E k \in Present(t) \cup {None} : Place(t, k)

\* cond throws: the result becomes an error and the cursor the end.
FindThrows(t) ==
  /\ pc[t] = "open"
  /\ mode[t] = "write"
  /\ cursor[t] \in Present(t)
  /\ ok' = [ok EXCEPT ![t] = FALSE]
  /\ cursor' = [cursor EXCEPT ![t] = None]
  /\ UNCHANGED view
  /\ Local(t)

\* A write of one key by a cursor; libmdbx refuses it with an exception, which
\* makes the result an error and the cursor the end, unless allowed.
Put(t, k, v, allowed) ==
  /\ pc[t] = "open"
  /\ mode[t] = "write"
  /\ IF allowed
     THEN /\ view' = [view EXCEPT ![t][k] = v]
          /\ cursor' = [cursor EXCEPT ![t] = k]
          /\ UNCHANGED ok
     ELSE /\ ok' = [ok EXCEPT ![t] = FALSE]
          /\ cursor' = [cursor EXCEPT ![t] = None]
          /\ UNCHANGED view
  /\ Local(t)

Insert(t, k, v) == Put(t, k, v, k \notin Present(t))
Update(t, k, v) == Put(t, k, v, k \in Present(t))
Upsert(t, k, v) == Put(t, k, v, TRUE)

\* Cursor::setRawValue
SetRawValue(t, v) ==
  /\ cursor[t] \in Present(t)
  /\ Put(t, cursor[t], v, TRUE)

\* erase(writer, key): nothing if the key is absent
EraseKey(t, k) ==
  /\ pc[t] = "open"
  /\ mode[t] = "write"
  /\ view' = [view EXCEPT ![t][k] = Absent]
  /\ UNCHANGED <<cursor, ok>>
  /\ Local(t)

\* erase(cursor), of a key that is there: the cursor keeps its place, ++ then
\* takes the next key
EraseCursor(t) ==
  /\ pc[t] = "open"
  /\ mode[t] = "write"
  /\ cursor[t] \in Present(t)
  /\ view' = [view EXCEPT ![t][cursor[t]] = Absent]
  /\ UNCHANGED <<cursor, ok>>
  /\ Local(t)

\* clear: from begin to the end cursor, erase and step on
Clear(t) ==
  /\ pc[t] = "open"
  /\ mode[t] = "write"
  /\ Goto(t, "clear")
  /\ cursor' = [cursor EXCEPT ![t] = First(Present(t))]
  /\ UNCHANGED <<store, readers, writer, opened, mode, isOpen, ok, view, base,
                 dtor>>

\* Mutant: the loop steps over the key that follows an erased one.
ClearSkips(t) ==
  /\ pc[t] = "clear"
  /\ IF cursor[t] = None
     THEN /\ Goto(t, "open")
          /\ UNCHANGED <<view, cursor>>
     ELSE LET next == First({j \in Present(t) : j > cursor[t]})
          IN  /\ view' = [view EXCEPT ![t][cursor[t]] = Absent]
              /\ cursor' = [cursor EXCEPT ![t] =
                              IF next = None THEN None
                              ELSE First({j \in Present(t) : j > next})]
              /\ UNCHANGED pc
  /\ UNCHANGED <<store, readers, writer, opened, mode, isOpen, ok, base, dtor>>

\* Mutant: the loop erases without moving its iterator on.
ClearStays(t) ==
  /\ pc[t] = "clear"
  /\ IF cursor[t] = None
     THEN /\ Goto(t, "open")
          /\ UNCHANGED view
     ELSE /\ view' = [view EXCEPT ![t][cursor[t]] = Absent]
          /\ UNCHANGED pc
  /\ UNCHANGED <<store, readers, writer, opened, mode, isOpen, ok, base, cursor,
                 dtor>>

ClearNext(t) ==
  /\ pc[t] = "clear"
  /\ IF cursor[t] = None
     THEN /\ Goto(t, "open")
          /\ UNCHANGED <<view, cursor>>
     ELSE /\ view' = [view EXCEPT ![t][cursor[t]] = Absent]
          /\ cursor' = [cursor EXCEPT ![t] =
                          First({j \in Present(t) : j > cursor[t]})]
          /\ UNCHANGED pc
  /\ UNCHANGED <<store, readers, writer, opened, mode, isOpen, ok, base, dtor>>

-----------------------------------------------------------------------------
TableStep(t) ==
  \/ Begin(t) \/ Increment(t) \/ Decrement(t) \/ FindThrows(t)
  \/ EraseCursor(t) \/ Clear(t)
  \/ \E k \in Keys : Get(t, k) \/ LowerBound(t, k) \/ EraseKey(t, k)
  \/ \E v \in Values : Find(t, v) \/ SetRawValue(t, v)
  \/ \E k \in Keys, v \in Values : Insert(t, k, v) \/ Update(t, k, v)
                                   \/ Upsert(t, k, v)

\* What the library does by itself once an operation has been opened or closed.
Proceed(t) ==
  LockShared(t) \/ StartTxn(t) \/ Commit(t) \/ Abort(t) \/ Unlock(t)
  \/ ClearNext(t)

Use(t) ==
  \/ \E m \in Modes : Construct(t, m)
  \/ \E success \in BOOLEAN : Assign(t, success)
  \/ TableStep(t)

Next == \E t \in Threads : Use(t) \/ LockUnique(t) \/ Proceed(t) \/ Destroy(t)

Spec == Init /\ [][Next]_vars

\* Every operation is destroyed when its scope ends, and a free mutex is
\* taken.  The rwlock under std::shared_mutex lets waiting readers in when a
\* writer leaves (SF), but may keep a writer out as long as readers come (WF).
Fairness ==
  \A t \in Threads : /\ WF_vars(StartTxn(t) \/ Commit(t) \/ Abort(t)
                             \/ Unlock(t) \/ ClearNext(t))
                   /\ SF_vars(Destroy(t))
                   /\ SF_vars(LockShared(t))
                   /\ WF_vars(LockUnique(t))

FairSpec == Spec /\ Fairness

-----------------------------------------------------------------------------
(* Properties. *)

\* Thread t has a lock and, from "open" on, a transaction.
Holds(t) ==
  \/ pc[t] \in {"start", "open", "clear", "unlock"}
  \/ pc[t] \in {"commit", "abort"} /\ isOpen[t]
InTxn(t) == Holds(t) /\ pc[t] \notin {"start", "unlock"}

\* Reader.cpp:21-27, 41-68 and Writer.cpp:11-16.  Every operation that has
\* not released its lock is in the company the mutex allows: a Reader with
\* Readers only, a Writer (openTable's included) alone.
Exclusion ==
  \A t \in Threads : Holds(t) =>
    IF mode[t] = "read" THEN t \in readers /\ writer = None
                        ELSE readers = {} /\ writer = t

\* Nobody publishes anything while a transaction is open: the contents that a
\* transaction started from are the committed ones until it ends, and a Reader
\* sees exactly them.
Isolation ==
  \A t \in Threads : InTxn(t) =>
    /\ base[t] = store
    /\ mode[t] = "read" => view[t] = store

\* ConstCursor.hpp:56-84.  A Reader's cursor that is not at the end is at a
\* key that is committed, for as long as the Reader is open.
CursorIsCommitted ==
  \A t \in Threads :
    InTxn(t) /\ mode[t] = "read" /\ cursor[t] # None =>
      store[cursor[t]] # Absent

\* Table.hpp:77-100.  While clear runs, everything before its cursor is gone,
\* so that nothing is left when it reaches the end.
ClearSweeps ==
  \A t \in Threads : pc[t] = "clear" =>
    \A k \in Keys : cursor[t] = None \/ k < cursor[t] => view[t][k] = Absent

\* Reader.cpp:29-49.  The committed contents change only when a Writer whose
\* result is a success commits, and become what this Writer made of exactly
\* the contents they had: no failed work, no lost update.
SerialCommits ==
  [][store' # store =>
       \E t \in Threads : /\ pc[t] = "commit"
                          /\ mode[t] = "write"
                          /\ ok[t]
                          /\ base[t] = store
                          /\ store' = view[t]]_vars

\* Reader.cpp:20-68, Table.hpp:77-100.  A thread that asks for a Reader gets it:
\* whatever a Writer does, through a failure, an abort or the loop of clear, it
\* comes to give the lock back, and Writers that return again and again do not
\* keep the Reader out.
ReaderGetsIn ==
  \A t \in Threads :
    pc[t] = "lock" /\ mode[t] = "read" ~> pc[t] = "open"

=============================================================================
