# Verification of zatestil

zatestil is a pair of C++ programs, a Telegram bot and a service, that talk over
a TLS websocket and keep their data in libmdbx. This directory holds TLA+ models
of its core, the TLC runs that check them and TLAPS proofs of their invariants.

## Inventory

| Component | State it keeps | Operations | What is hard | What makes it correct |
|---|---|---|---|---|
| `message::Requester` (`source/message/Requester.cpp`) | map of pending requests; per request a `TimedMessage`: response under a lock, timer, coroutine handle, three kinds of owner | `request`, `co_await`, `set`, read handler, timer closure, two destructors | answer against timeout on several threads; a coroutine resumed under a lock; an unlocked map; a handler that owns nothing | each request is completed once, by the first of answer and timeout; nobody uses a destroyed object; nothing blocks for ever |
| `database` (`Reader`, `Writer`, `Table`, cursors) | shared mutex, transaction, result, cursor | construct, destroy (commit or abort), `openTable`, the table operations | commit, abort and unlock on different paths; failed operations in the middle; `clear` erasing under its iterator | many readers or one writer; a failed writer publishes nothing; no lost update |
| `websocket::client::Session`, `server::Session` | stream, read buffer, write buffer, strand, map of handlers | open, close, read loop, `setHandle`, `unsetHandle`, `send`, destructor | re-arming the read on every path; handlers run from a copy; life through `shared_from_this` | an open session reads; each message handled once; writes in order; no leak |
| `websocket::Server` | acceptor | accept loop | an accept error throws before the re-arm | keeps accepting |
| `util::ThreadPool` | threads | start barrier, run loop, join | shutdown | every thread starts, and ends after `stop` |
| `Application`, `ServiceApplication`, `run` | running flag, members in declaration order, result | construct, run, signal, destroy, report | signal before `run`; destruction order; a constructor that throws; `std::terminate` | ends after a signal, with nobody left running |
| `BotApplication` | session, requester | construct, run | its constructor uses a null session | - |
| `log` | default logger, bounded queue | `initialize`, the log functions, `uninitialize` | a full queue blocks; threads that log after the end | nobody logs without a logger; nobody waits for good |
| `storage::Storage`, `util::Singleton` | static mutex and atomic pointer, database, two tables | `instance`, the constructors | double-checked locking; one singleton makes another under its mutex | one object, never seen half made |
| `hash` | the bytes of a hash | `string`, `parse` | printing in place, the NULs of `sprintf`, a `noexcept` parse that throws | round trip; accepts exactly the texts of hashes |
| `launch` (Python) | flag, process | start, stop | join before terminate | stop ends the process |
| `util::OnScopeExit`, `util::Result` | a function; a code | run at scope exit | - | modelled where they are used |
| `config`, `serde`, `object`, `stacktrace` | none of interest | look-ups, formatting | - | - |

How they interact: the bot's command handlers run on the `ThreadPool` and await
`Requester::request`; the requester sends through a `Session` and gets answers
through a handler it registered there; `Session::onRead` posts every handler to
the same `io_context`; timers complete there too. The service accepts
connections in `Server`, which makes a server `Session` each. `Storage` hands
out the databases. `PROJECT.json` lists every hazard at its line.

## Modules

| Module | Models | Notes |
|---|---|---|
| `Completion` | what `co_await request(m)` promises | abstract: called, settled once, delivered |
| `Requester` | `Requester`, `TimedMessage`, `Awaiter`, timer closure, pool threads | implements `Completion` |
| `RequesterProofs` | theorems about `Requester` | |
| `Database` | `Reader`, `Writer`, `openTable`, `Table`, cursors on one table | libmdbx external |
| `DatabaseProofs` | theorems about `Database` | |
| `Session` | both websocket sessions | beast and the peer external |
| `SessionProofs` | theorems about `Session` | |
| `Exchange` | a `Requester` over its client `Session`, made, used and torn down | composes the two; implements `Completion` |
| `ExchangeProofs` | theorems about `Exchange` | |
| `Service` | `Application`, `ServiceApplication`, `run`, `log`, `ThreadPool`, `Server` | asio, spdlog and the system external |
| `ServiceProofs` | theorems about `Service` | |
| `Storage` | `Singleton::instance`, `Storage`, construction of `Database` | libmdbx external |
| `StorageProofs` | theorems about `Storage` | |
| `Hash` | `Hash::string`, `Hash::parse`, `hash::parse` | `sprintf` external |
| `HashProofs` | theorems about `Hash` | |
| `Launch` | `launch/`: controller, process, executor | |
| `LaunchProofs` | theorems about `Launch` | |
| `MCRequester`, `MCDatabase`, `MCSession`, `MCExchange`, `MCService`, `MCStorage`, `MCHash`, `MCLaunch` | instances for TLC | |

Definitions whose comment begins with "Mutant:" are deliberate faults. They are
not part of any specification; replacing the definition that `PROJECT.json` names
by one of them must break the property it is paired with.

### Requester

One `TimedMessage` per request `r`. `entry[r]`, `awaiter[r]` and `wait[r]` are
its three kinds of owner (map node, `Awaiter`, timer closure), `life[r]` whether
its destructor has run, `value[r]` is `m_response`, `lock[r]` the lock of the
`synchronized_value`. `Call`, `Request`, `Send` and `Arm` are the coroutine's
way to its suspension (`request`, then the two halves of `await_suspend`: the
message is on its way before the timer is armed). A pool thread takes a read
handler or a completed wait and goes through `Find`, then `Lock`, `Erase`,
`Cancel`, `Resume`, `Unlock` (the statements of `set`) and, for a timer, `Drop`
(the closure is destroyed). `Resume` is `m_handle.resume()` with everything that
it runs on this thread: the rest of the `co_await`, `~Awaiter`, and, when that
share is the last, `~TimedMessage`, which needs the lock that this thread holds
(`"stuck"`).

Undefined behaviour is a choice. A write to the unlocked map that overlaps
another may leave a node out of the tree or in it, and a search may miss. `set`
on a destroyed object finds the lock free and reads either answer from
`has_value()`. Outcomes that end the process are left out, as are collisions of
ids: every request has its own, as `next_id` gives it.

The peer may send up to `MaxAnswers[r]` messages about request `r`, each a
`Response` or anything else. `expired` is history: the requests whose duration has
passed, as opposed to those whose wait was cancelled. `Blocked` is a thread that
waits for itself, or for a lock that such a thread holds; when all are, the pool
is exhausted, and `Settles` says that only then can an awaited request stay
without an outcome.

### Database

`pc[t]` follows an operation from its constructor (`lock`, `start`) through its
use (`open`, `clear`) to its destructor (`commit` or `abort`, `unlock`).
`openTable` is mode `"table"`: it commits explicitly (`dtor` is still false) and
its destructor finds `m_isOpen` false. `view[t]` is the transaction's picture of
the table and `base[t]` what it started from. `Put` is the common body of
`insert`, `update`, `upsert`: an exception of libmdbx makes the result an error
and the cursor the end. `clear` is a loop, one key per step. A cursor stands at
a key or at `None`, the end; it may stand where a key has been erased, where `++`
goes on to the next one. `find` from a cursor that a failed operation has put at
the end may answer with any key that is there, or with the end. Calls that throw without changing anything are left
out, and so is a second `erase` through a cursor whose key is already erased,
whose effect is libmdbx's own.

### Session

`role` picks the class. `stage` is the progress of `open` (blocking calls in the
client, completions in the server), `stream` what `is_open()` and the stream's
operations see, `rpc` the read loop: `startRead`, `reading`, `onRead` (the message
is in the buffer), `post` (handlers of the copied map still to be posted). The
jobs go to the context and not to a strand, so any may run next. `send` only
posts; `Write` is the start of a job on the strand and `OnWrite` or
`OnWriteError` its end. `Owned` lists who holds a share; `Destroy` is the
destructor, which runs when nobody does. `since`, `until` and `taken` are
history: how many messages had been handed out when a handler was set and unset.
`close` may come at any time, during the opening too. The `io_context` outlives the
session here; what happens to open sessions when it is destroyed is in `Service`.

Of beast we use: a read or write that fails leaves the stream not open, and no
write succeeds on a stream that is not open.

`Delivered` says that in the end no message is owed: the peer sends finitely
many, so a message that has arrived while a handler was set and the stream stays
open must have been handed to it.

### Exchange

`Requester` and `Session` look inside operations; `Exchange` takes an operation as
a step and asks what the two objects do to one another. A request goes through
the strand (`Request`, `Write`: what is written while the stream is not open is
lost), the peer answers in any order or not at all, the read loop copies the
handlers (`Read`) and posts a job (`Post`), the job finds the request and settles
it (`RunJob`, `Settle`, `Resume`). Meanwhile the stream may break, the session may
be closed or let go, and the `Requester` may be destroyed, at any point.

The session knows the `Requester` only by the `this` in its read handler, so a job
that was posted before `~Requester` runs on a destroyed object. What it reads there
is a choice: nothing, or the map, which the pending requests still own. (An
outcome that ends the process is left out.) In the other direction ownership is
a circle: a `TimedMessage` owns the session and the map, the map owns the
`TimedMessage`. `Exists` and `Unowned` are these shares; the timer is what breaks
the circle. If the context is destroyed with requests pending, no timer runs any
more and the circle is leaked; the model has a context that lives on. `stuck`
collects the requests whose `set` has blocked itself, the case that
`requester_answer` shows in detail. Pool threads are not limited here, and the map
has no races: both are the subject of `Requester`.

### Service

`mpc` is the main thread from the start of the logger to the end of `run()`,
`tpc[t]` a pool thread: barrier, `while (not stopped)`, inside `io_context::run`,
inside `onAccept`, with an exception in flight. The wait for a signal, the accepts
and the sessions give the context work. `accept` counts the accepts that are
pending, connected and failed, so that a second one could be outstanding; their
completions share the acceptor's strand. `Accepted` is the completion of an accept:
with an error it throws in `remote_endpoint()`, so `onAccept`, and with it the next
`startAccept`, is not reached. `OnAccept` re-arms on both of its ways out.
A constructor of `Server` that throws unwinds through `~ThreadPool`, which waits
for threads that only a signal ends.

Sessions are counted: `opening` in their handshakes, `open` reading. What one does
in between is in `Session`. When the threads are joined the application is gone and
`~io_context` destroys the pending operations. A pending read is the last owner of
its session, and `~Session` closes a stream that is open with a blocking call
(`CloseSession`), which returns when the client has answered or is gone. With the
pool joined and the context going down nothing can time it out. `DestroyContext` is
the end of this.

Every action that logs has the conjunct `Log`: with a logger it needs room in
the queue (`LogCapacity`, 8192 in the code), whose policy is to block, and without one
the process ends (`crashed`). The lines that one action logs are one line. `Report` and
`Uninitialize` are the scope guard of `run()`, or the terminate handler: the storage
is made by `noexcept` functions, so a failure calls it on the main thread while
the pool runs on (`ConstructTerminates`). `LoggedInTime` says that this is the only
way in which a thread can meet a logger that is gone.

### Storage

`stack[t]` is the calls of `instance()` that thread `t` is in, because the
constructor of `Storage` calls `instance()` of the database while it holds the
mutex of its own class. `Load` and `Check` are the two looks at the pointer,
`Construct`, `OpenEnvironment`, `NestedCall` and `OpenTable` the constructors step by
step, `Publish` the store. `Fail` is any failure on the way, which ends the process:
`instance()` and `openTable` are `noexcept`. The pointers are sequentially
consistent atomics, so interleaving is all there is. `instance()` is a template
over its argument types and has a mutex and a pointer for each list of them; each
class is asked for with one list only, as in the code.

### Hash

`buf` is the string that `string()` prints into: `2 * Size` characters and the
terminator behind them. `PrintByte` writes the three characters of `sprintf`, the NUL
included. The text is then parsed, or `parse` is given another one. `Throw` ends
in the caller of `Hash::parse`, or ends the process in `hash::parse`, which is
`noexcept`.

### Launch

`mpc` and `idx` are the main thread in its loops over the processes, `thread[p]`
the thread that starts and awaits program `p`, `launch[p]` the flag that `stop`
clears and that the thread reads after `communicate()` has returned. An interrupt
may come from the terminal, which the programs then receive too, or not.

## Runs

| Run | Instance | States | Shows |
|---|---|---|---|
| `requester_safety` | 2 requests, 3 threads, 2 messages each, symmetric | 887,715 | `SetIsExclusive`, `ResumedOnceWhileAlive`, `TimerNeverStuck`, `OwnersSeeLiveObject`, `ResultHasCause`, `ImplementsCompletion`, `FirstWins` |
| `requester_live` | 2 requests, 2 threads, 2 messages about one, 1 about the other | 384,011 | `TimeoutCompletes`, `Released`, `Settles` |
| `requester_answer` | 1 request, 2 threads, 1 message | - | `AnswerCompletes` is violated |
| `requester_resume` | 1 request, 2 threads, 1 message | - | `ResumedOnce` is violated |
| `database` | 2 threads, 3 keys, 1 value | 76,883 | `Exclusion`, `Isolation`, `CursorIsCommitted`, `ClearSweeps`, `SerialCommits`, `ReaderGetsIn`, no deadlock |
| `session` | 2 messages, 2 handlers, 2 writes | 726,162 | `Listening`, `HandledOnce`, `WireHasNoGap`, `Delivered`, `Freed` |
| `exchange` | 2 requests | 69,929 | `ImplementsCompletion`, `DeliveryStops`, `Settles`, `SessionFreed` |
| `service_program` | 3 threads, 4 connections, 2 lines | 152,209 | `PoolServes`, `AcceptsOn`, `OneAccept`, `LoggedInTime`, `ShutsDown`, `Serves`, no deadlock |
| `storage` | 3 threads, 2 calls each | 28,073 | `SeenComplete`, `OneObject`, `CallReturns` |
| `hash` | 2 bytes, boundary values, texts up to 5 characters | 2,361,685 | `RoundTrip`, `ParseIsExact` |
| `launch_system` | 3 processes | 20,127 | `StoppedMeansExited`, `FailureSeen`, `StopSeen` |
| `launch_stop` | 2 processes | - | `StopTerminates` is violated |

Why these bounds are enough. Requests share only the map, so two of them, one in
the map and one being written, show every race between requests; three threads
let the answer, the timer and a second answer of one request overlap. Two
messages per request give the duplicate answer and the late one. For the pool to
be used up while a request still waits, one request must block a thread with its
answer and a second thread with another message about it: two threads and two
messages about one request are enough. Two threads in
the database are a writer against anyone, and a writer that comes back again and
again is enough to keep a reader waiting; three keys are needed for `clear` to
have a first, a middle and a last one; values are only compared with what was
there before, and a key that is present or absent makes that difference. In a session two messages are enough for one to be posted while the
next is read, and two writes for one to be lost before the stream is open, or to
fail, and the next to follow. In the exchange two requests let one be settled
while the other is pending when an object goes. In the service, more connections
than threads let an exception meet every thread, and a queue of two lines is full
while a third thread logs. Three threads in the storage are one that constructs,
one that waits for the mutex and one that comes later. Two bytes of a hash are one that
the next overwrites and one at the end; the bytes and characters are the ones on
both sides of every boundary (0, 9, 10, 15, 16, 255; `/`, `0`, `9`, `:`, `A`, `F`,
`G`, `a`, `f`, `g` and the like), texts are one character too short and too long.
In the supervisor three processes have a first, a middle and a last one in the
loop that stops them. The proofs remove the bounds for what they cover.

Deadlock is checked in the database and in the service, whose only end is `run()`
returning. The other runs switch it off because their systems may stop: all
requests done, a session destroyed, all calls made, the supervisor gone.

### What disagrees with the tests

* `requester_answer`. A thread that runs `set` for an answer holds the lock of
  `m_response` when it resumes the coroutine. If another thread has run and
  destroyed the cancelled timer's closure between `m_timer.cancel` and
  `m_handle.resume`, the `Awaiter` has the last share, and `~TimedMessage` waits
  for the thread it runs on. Test `_1` (`test/message.Test.cpp:98`) expects the
  `co_await` to return.
* `requester_resume`. The read handler has found its node, the timer completes
  the request and the object is destroyed, and the handler calls `set` on it. The
  window is the one test `_2` (`test/message.Test.cpp:101-128`) aims at: an answer
  after 1000 ms against a timeout of 1000 ms.

* `launch_stop`. `Process.stop` says "Terminate process, Stop thread"
  (`launch/process/process.py:45-46`), but only clears a flag that is read once the
  program has ended by itself, and joins. A stop that comes before the thread has
  set the flag is also overwritten.

The first two do not happen to the timer: `TimerNeverStuck` and `OwnersSeeLiveObject` hold
because its closure owns the object until `set` has returned.

Also learned: a message that is sent before a session is open is dropped with a
log line only, and later ones go through; `WireHasNoGap` therefore begins at the
first message that arrived, and in `exchange` the request is settled by its
timeout. The scope guard of `run()` holds a copy of the result taken before anything
ran (`application/run.hpp:33`), so the last log line says that all went well even
when the result is an error. The bot declares its requester after its pool
(`BotApplication.hpp:47-49`), so it would be destroyed before the pool is joined: the
case that `DeliveryStops` is about. `DeliveryStops` denies only new deliveries: a job that
was posted before still runs on the destroyed `Requester`.

After a signal the service waits, without a limit of time, for every client whose
session is still open to answer the close (`server/Session.cpp:179-194`). One silent
client keeps the program alive, so `ShutsDown` has the clients' answers as its
hypothesis and fails without it. After a failed accept the server accepts no more,
although `onAccept` (`Server.cpp:82-85`) is written to go on: `remote_endpoint()` in the
completion throws first. `AcceptsOn` exempts this case.

## Fairness

* `Requester`: a coroutine that was started runs to its suspension, the clock
  advances, posted handlers are run while a thread is idle and running threads go
  on (weak fairness per request, message and thread). No fairness on calls or on
  the peer. A thread blocked on a lock is not enabled, so nothing is assumed of it.
* `Database`: weak fairness on the library's own steps; strong fairness on
  `Destroy`, because a scope ends however often its owner has other things to do;
  strong fairness on `LockShared`, because the rwlock under `std::shared_mutex`
  lets waiting readers in when a writer leaves; only weak on `LockUnique`, so a
  stream of readers may keep a writer out, as it may in the implementation.
* `Session`: weak fairness on the read loop, posted jobs and the strand. A read
  ends when a message is there or the stream is not open; a blocking write when
  the stream is not open. The server's opening has a deadline; the client's
  blocking calls have none (`expires_after` does not apply to them), so nothing
  is assumed of them.

* `Service`: weak fairness on the main thread, the pool's threads, the completions
  and the logger's thread. None on signals, connections, failures, handshakes, or
  clients that leave or answer a close. `ShutsDown` assumes in its own formula that
  the main thread is not held in a close for good (`WF_vars(AnsweredClose)`); no other
  property does.
* `Exchange`: weak fairness on what the pool runs (the read loop, jobs, the strand,
  completed waits), on the clock, and on the destruction of a session without
  owners. None on the peer, the opening, or anybody's close, release or destructor.
* `Storage`: weak fairness on a thread inside `instance()`; one that waits for a mutex
  is not enabled. Calls need not come.
* `Hash` is a sequential computation and states no liveness.
* `Launch`: weak fairness on the threads, and on the end of a program that has
  received SIGINT. Other programs need not end.

## Proofs

`RequesterProofs` proves, for any sets of requests and threads and any number of
answers, `TypeCorrect`, `Exclusive`, `ResumedOnceAlive`, `TimerSafe`,
`OwnersSafe`, `Caused`, `FirstValueWins` and `Refinement`; assumptions: `None` is
neither a request nor a thread, `MaxAnswers` gives natural numbers. None of the
invariants is inductive alone: that `set` is exclusive on a live object depends
on who can still destroy it, which depends on how many owners are left, which
depends on the closure that at most one thread is running. The inductive
invariant `IndInv` adds to the checked ones

* `CallerInv`, `InboxInv`, `ThreadInv`: what each program counter implies,
* `OneClosure`: at most one thread runs the closure of a request,
* `LockInv`, `SetterInv`: who holds the lock, and what is stored at each line of `set`,
* `AwaitInv`, `DeadInv`: what the coroutine and a destroyed object look like,
* `ExpiryInv`: a wait that completed without being cancelled belongs to a request
  whose duration has passed,
* `CauseInv`: every stored response has its cause.

Each action has a lemma. `FirstValueWins` and `Refinement` then follow step by
step: `Send` is `Call`, `Erase` is `Settle`, `Resume` is `Deliver`, and all else
stutters.

`DatabaseProofs` proves `TypeCorrect`, `Excluded`, `Isolated`, `CursorSafe`,
`ClearComplete` and `CommitsAreSerial` for any threads, values and set of natural
keys. `FirstIsLeast` shows that `First` is the least key, from the
well-foundedness of `<`. The inductive invariant adds who holds which lock at
each program counter and that `openTable`'s writer never changes its view, which
is what makes its commit invisible.

`SessionProofs` proves `AlwaysListening`, `CalledOnce` and `NoGap` for any number of
messages, handlers and sends (natural numbers, which is all that is assumed). The
parts of its invariant speak of different variables, so that most actions only
touch one:

* `LifeInv`: the read loop runs from the end of `open` on, and a destroyed session
  has no owner, no opening and no loop; `Listening` needs this to know that an
  open stream cannot meet a destroyed session,
* `HandleInv`: `since` and `until` of the ids that are free, set and unset,
* `ReadInv`: the buffer has the next message in `onRead` and `payload` the last one
  taken in `post`, and whoever is left in `todo` was in the map for it. Without it
  `HandledOnce` is not inductive: a job could be posted for a message that its
  handler never had,
* `JobInv`, `WriteInv`: `HandledOnce` and `WireHasNoGap` with the types they need; jobs
  of the strand start one at a time, and nothing is on the wire before the stream
  was open, because a stream that opened twice could leave a gap.

`ServiceProofs` proves `TypeCorrect`, `Serving`, `AcceptsGoOn`, `OneAtATime`, `LogsInTime` and
`Joined` (a program that ends by itself has joined its pool before it destroys the
context and reports) for any set of threads (finite or not), any number of
connections and any positive `LogCapacity`. `PoolInv` says that the wait for a signal
comes before the first thread, and that the context is only stopped when the wait
is over. `AcceptInv` says that nothing is accepted before `Server::run` and that at most
one thread is in `onAccept`; without the latter a thread that leaves `onAccept` could
start an accept while another does, and `OneAccept` would not be inductive. `CountInv`
bounds sessions by the connections that have arrived. `LogInv` says at which points of
`run()` there is a logger, and that unless the process aborts all threads have left
before the context goes.

`StorageProofs` proves `Completed`, `Single` and `StoredOnce` for any threads and number
of calls. A thread in the nested call of `instance()` is in the one of the storage
too, so the invariant is stated over `pos`, its place in `instance()` of each class.
`StackInv` lists the four shapes a stack has, and lemmas say how each action moves
`pos`. `MutexInv` (whoever is behind the lock holds it) gives that one thread at
a time is past the second look; `InstanceInv` that an object exists without
a pointer only while somebody builds it; `ObjectInv` what the constructors have
done at each label. `StoredOnce` is the reason why `instance()` may read the pointer
again after it has given back the mutex.

`ExchangeProofs` proves `Refinement`, `DeliveryStopped`, `AnswersRead` and `NeverForgotten` for
any set of requests, of which `None` is not one. `Request` is `Call`; the first `Settle`, by
a job or by the timer, is `Settle`; `Resume` is `Deliver` unless its thread blocks.
`RequestInv` says that a node or a timer belongs to a request that was made (so that
`Settle` comes after `Call`), `HandlerInv` that a Requester that is not alive has no
handler, and `JobInv` that a job carries a Response read while the handler was
set. The last is stated over jobs, the loop and the responses, because a Response
passes through all three. `PendingInv` says that a request without a response is in
the map and, once awaited, has a timer that is neither cancelled nor used up:
the safety half of `Settles`, which `NeverForgotten` states.

`HashProofs` proves `RoundTrips` and `ParsesExactly` for hashes of any size, any bytes and
texts of any length and characters below 256. The lemmas are about a byte and its
two digits (`ByteParts`, `ByteOfParts`, `DigitIsHex`, `HexIsDigit`) and about the places of
the digits (`Places`, `TextAt`). No induction over the text is needed: the
invariant has one part for each loop, about everything behind its index. In
`PrintInv` the NUL of a byte falls on the next byte's place, which is not printed
yet, or on the terminator.

`LaunchProofs` proves `Stopped` for any positive number of processes. `JoinInv` says that
the threads before the position of the stopping loop have ended, and that the
loop starts at the first; `ThreadInv` that a thread past `communicate()` has no
program running.

The inductive invariants of these modules were also checked with TLC on the
instances of the runs.

Only model-checked: all liveness (`Settles`, `TimeoutCompletes`, `Released`, `ReaderGetsIn`,
`Delivered`, `Freed`, `SessionFreed`, `ShutsDown`, `Serves`, `CallReturns`, `FailureSeen`,
`StopSeen`) and the absence of deadlock, because the prover handles neither
fairness nor `ENABLED`. Every safety property of a passing run is also a theorem.

## Not modelled, and the plan

* `BotApplication`: its constructor hands a null session to the `Requester`, which
  calls `setHandle` on it, so no state of the bot after that is reachable. Its own
  message counter and its lazy `onStart` task, which nothing resumes, are never used.
* `~Database` and `~Storage`: a `Singleton` is never deleted, so they never run.
* The range erase of `Table` that does not end at the end cursor: nobody calls it.
* `Hasher`: calls of libsodium one after the other.
* `config`, `serde`, `object`, stack traces: constants, records and calls of libraries
  without state or control flow of their own. Most lines of the configurations are
  certificates.
* `Notifier` and `Responser`: empty headers. Build files, third-party code.
* Data races inside a beast stream, and outcomes of undefined behaviour that end
  the process.

What is left:

1. That no action of a session but `Destroy` comes after the destructor.
2. The safety half of `TimeoutCompletes` and `Released` in `Requester`, as `NeverForgotten` is
   that of `Settles` in `Exchange`; the liveness itself stays with TLC.
