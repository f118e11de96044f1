------------------------------- MODULE Session -------------------------------
(***************************************************************************)
(* ztstl::websocket::client::Session and server::Session: one websocket    *)
(* connection with its read loop, its table of message handlers and its    *)
(* write strand.                                                           *)
(*                                                                         *)
(* The two classes differ in how they open (blocking calls on the caller's *)
(* thread, or completions on the stream's strand) and close; everything    *)
(* between is the same code and is modelled once.  A Session has no owner  *)
(* of its own: it lives as long as its user, a pending operation, a posted *)
(* handler or a queued write holds a share of it.  The io_context outlives *)
(* the session here: what its destruction does to the sessions that are    *)
(* still open is in Service.                                               *)
(*                                                                         *)
(* Messages and writes are numbered from 1 in the order in which the peer  *)
(* sends the ones and the user sends the others.                           *)
(***************************************************************************)
EXTENDS Naturals, Sequences

CONSTANTS
  MaxMessages,  \* bound: messages the peer sends
  MaxHandles,   \* bound: calls of setHandle
  MaxSends      \* bound: calls of send

ASSUME BoundsAssumption ==
  MaxMessages \in Nat /\ MaxHandles \in Nat /\ MaxSends \in Nat

VARIABLES
  role,      \* which of the two classes this is
  stage,     \* how far open() has come
  stream,    \* state of m_stream, as is_open() and its operations see it
  alive,     \* ~Session has not run
  held,      \* the user holds a share
  closing,   \* a client close() is between its two steps
  handles,   \* the ids in m_handles
  nextId,    \* the next id of setHandle
  arrived,   \* messages the peer has sent
  peerLeft,  \* the peer has sent its close frame
  rpc,       \* where the read loop is
  rBuffer,   \* m_rBuffer: a message, or 0 when consumed
  payload,   \* rawMessage of the running onRead
  todo,      \* handlers of its copy of m_handles not posted yet
  posted,    \* posted[h][m]: jobs in the context that call h on m
  runs,      \* runs[h][m]: calls of h on m
  taken,     \* messages whose onRead has copied the handlers
  since,     \* since[h]: taken when h was set
  until,     \* until[h]: taken when h was unset
  sends,     \* calls of send: that many jobs were posted to m_wStrand
  started,   \* the jobs of m_wStrand that have started
  writing,   \* a job of m_wStrand is inside m_stream.write
  wBuffer,   \* m_wBuffer
  errors,    \* calls of onWrite with an error
  wire       \* what the peer received, in order

lifeVars == <<role, stage, stream, alive, held, closing>>
handleVars == <<handles, nextId, since, until>>
readVars == <<rpc, rBuffer, payload, todo, taken>>
jobVars == <<posted, runs>>
writeVars == <<sends, started, writing, wBuffer, errors, wire>>
peerVars == <<arrived, peerLeft>>
vars == <<lifeVars, handleVars, readVars, jobVars, writeVars, peerVars>>

Ids == 1..MaxHandles
Messages == 1..MaxMessages
Stages == {"new", "connect", "handshake", "accept", "opened", "failed"}
ReaderPC == {"none", "startRead", "reading", "onRead", "post"}
Never == MaxMessages + 1

TypeOK ==
  /\ role \in {"client", "server"}
  /\ stage \in Stages
  /\ stream \in {"new", "open", "closed", "failed"}
  /\ alive \in BOOLEAN /\ held \in BOOLEAN /\ closing \in BOOLEAN
  /\ handles \subseteq Ids
  /\ nextId \in 1..(MaxHandles + 1)
  /\ arrived \in 0..MaxMessages
  /\ peerLeft \in BOOLEAN
  /\ rpc \in ReaderPC
  /\ rBuffer \in 0..MaxMessages
  /\ payload \in 0..MaxMessages
  /\ todo \subseteq Ids
  /\ posted \in [Ids -> [Messages -> Nat]]
  /\ runs \in [Ids -> [Messages -> Nat]]
  /\ taken \in 0..MaxMessages
  /\ since \in [Ids -> 0..Never]
  /\ until \in [Ids -> 0..Never]
  /\ sends \in 0..MaxSends
  /\ started \in 0..sends
  /\ writing \in BOOLEAN
  /\ wBuffer \in 0..MaxSends
  /\ errors \in 0..MaxSends
  /\ wire \in Seq(1..MaxSends)

Init ==
  /\ role \in {"client", "server"}
  /\ stage = "new" /\ stream = "new"
  /\ alive = TRUE /\ held = TRUE /\ closing = FALSE
  /\ handles = {} /\ nextId = 1
  /\ since = [h \in Ids |-> Never]
  /\ until = [h \in Ids |-> Never]
  /\ arrived = 0 /\ peerLeft = FALSE
  /\ rpc = "none" /\ rBuffer = 0 /\ payload = 0 /\ todo = {} /\ taken = 0
  /\ posted = [h \in Ids |-> [m \in Messages |-> 0]]
  /\ runs = [h \in Ids |-> [m \in Messages |-> 0]]
  /\ sends = 0 /\ started = 0 /\ writing = FALSE /\ wBuffer = 0
  /\ errors = 0 /\ wire = <<>>

-----------------------------------------------------------------------------
(* Opening. *)

\* The calls and completions between the first and the last step of open().
Opening == {"connect", "handshake", "accept"}

\* open(): the client connects, the server already has its socket.
Open ==
  /\ stage = "new" /\ held
  /\ stage' = IF role = "client" THEN "connect" ELSE "handshake"
  /\ UNCHANGED <<role, stream, alive, held, closing, handleVars, readVars,
                 jobVars, writeVars, peerVars>>

\* One step of opening succeeds and the next begins.
Proceed ==
  /\ \/ stage = "connect" /\ stage' = "handshake"
     \/ stage = "handshake" /\ stage' = "accept"
  /\ UNCHANGED <<role, stream, alive, held, closing, handleVars, readVars,
                 jobVars, writeVars, peerVars>>

\* The websocket handshake, or its acceptance, succeeds: the stream is open and
\* the read loop starts.
Accept ==
  /\ stage = "accept"
  /\ stage' = "opened"
  /\ stream' = "open"
  /\ rpc' = "startRead"
  /\ UNCHANGED <<role, alive, held, closing, handleVars, rBuffer, payload, todo,
                 taken, jobVars, writeVars, peerVars>>

\* A step of opening reports an error: it is returned, or only logged.
OpenFails ==
  /\ stage \in Opening
  /\ stage' = "failed"
  /\ UNCHANGED <<role, stream, alive, held, closing, handleVars, readVars,
                 jobVars, writeVars, peerVars>>

-----------------------------------------------------------------------------
(* The read loop. *)

\* ~OnScopeExit, on every way out of onRead, runs its function: startRead().
Restart == rpc' = "startRead"

\* Mutant: startRead does not test is_open().
StartReadUnchecked ==
  /\ rpc = "startRead"
  /\ rpc' = "reading"
  /\ rBuffer' = 0
  /\ UNCHANGED <<lifeVars, handleVars, payload, todo, taken, jobVars, writeVars,
                 peerVars>>

\* startRead consumes the buffer and starts a read, unless the stream is not
\* open: then the loop ends and gives up its share.
StartRead ==
  /\ rpc = "startRead"
  /\ IF stream = "open"
     THEN rpc' = "reading" /\ rBuffer' = 0
     ELSE rpc' = "none" /\ UNCHANGED rBuffer
  /\ UNCHANGED <<lifeVars, handleVars, payload, todo, taken, jobVars, writeVars,
                 peerVars>>

\* Messages are read in the order in which they arrived.
ReadMessage ==
  /\ rpc = "reading"
  /\ stream = "open"
  /\ taken < arrived
  /\ rBuffer' = taken + 1
  /\ rpc' = "onRead"
  /\ UNCHANGED <<lifeVars, handleVars, payload, todo, taken, jobVars, writeVars,
                 peerVars>>

\* The read ends with websocket::error::closed, after the close frame of the
\* peer or a close() of this side: the completion just returns.
ReadClosed ==
  /\ rpc = "reading"
  /\ \/ stream = "open" /\ peerLeft /\ taken = arrived
     \/ stream = "closed"
  /\ stream' = "closed"
  /\ rpc' = "none"
  /\ UNCHANGED <<role, stage, alive, held, closing, handleVars, rBuffer,
                 payload, todo, taken, jobVars, writeVars, peerVars>>

\* The read ends with another error (the connection is lost, the stream is no
\* longer open): onRead logs it, and its OnScopeExit calls startRead.
ReadError ==
  /\ rpc = "reading"
  /\ stream' = IF stream = "open" THEN "failed" ELSE stream
  /\ Restart
  /\ UNCHANGED <<role, stage, alive, held, closing, handleVars, rBuffer,
                 payload, todo, taken, jobVars, writeVars, peerVars>>

\* onRead copies the message out of the buffer, and the map of handlers.
OnRead ==
  /\ rpc = "onRead"
  /\ payload' = rBuffer
  /\ todo' = handles
  /\ taken' = taken + 1
  /\ rpc' = "post"
  /\ UNCHANGED <<lifeVars, handleVars, rBuffer, jobVars, writeVars, peerVars>>

Post(h) ==
  /\ rpc = "post"
  /\ h \in todo
  /\ \A g \in todo : h <= g
  /\ posted' = [posted EXCEPT ![h][payload] = @ + 1]
  /\ todo' = todo \ {h}
  /\ UNCHANGED <<lifeVars, handleVars, rpc, rBuffer, payload, taken, runs,
                 writeVars, peerVars>>

\* Mutant: onRead does not start the next read.
PostedLast ==
  /\ rpc = "post"
  /\ todo = {}
  /\ rpc' = "none"
  /\ UNCHANGED <<lifeVars, handleVars, rBuffer, payload, todo, taken, jobVars,
                 writeVars, peerVars>>

\* onRead returns, and its OnScopeExit calls startRead.
Posted ==
  /\ rpc = "post"
  /\ todo = {}
  /\ Restart
  /\ UNCHANGED <<lifeVars, handleVars, rBuffer, payload, todo, taken, jobVars,
                 writeVars, peerVars>>

\* Some thread of the context runs a posted job.  The jobs are posted to the
\* context and not to a strand, so any of them may be next.
RunHandler(h, m) ==
  /\ posted[h][m] > 0
  /\ posted' = [posted EXCEPT ![h][m] = @ - 1]
  /\ runs' = [runs EXCEPT ![h][m] = @ + 1]
  /\ UNCHANGED <<lifeVars, handleVars, readVars, writeVars, peerVars>>

-----------------------------------------------------------------------------
(* The table of handlers. *)

SetHandle ==
  /\ held
  /\ nextId <= MaxHandles
  /\ handles' = handles \cup {nextId}
  /\ nextId' = nextId + 1
  /\ since' = [since EXCEPT ![nextId] = taken]
  /\ UNCHANGED <<lifeVars, until, readVars, jobVars, writeVars, peerVars>>

\* Mutant: the handler stays in the map.
UnsetHandleForgets(h) ==
  /\ held
  /\ h \in handles
  /\ until' = [until EXCEPT ![h] = taken]
  /\ UNCHANGED <<lifeVars, handles, nextId, since, readVars, jobVars, writeVars,
                 peerVars>>

UnsetHandle(h) ==
  /\ held
  /\ h \in handles
  /\ handles' = handles \ {h}
  /\ until' = [until EXCEPT ![h] = taken]
  /\ UNCHANGED <<lifeVars, nextId, since, readVars, jobVars, writeVars,
                 peerVars>>

\* m_handles->clear()
ClearHandles ==
  /\ handles' = {}
  /\ until' = [h \in Ids |-> IF h \in handles THEN taken ELSE until[h]]
  /\ UNCHANGED <<nextId, since>>

-----------------------------------------------------------------------------
(* Writing. *)

\* send() posts a job to the strand, whether the stream is open or not.
Send ==
  /\ held
  /\ sends < MaxSends
  /\ sends' = sends + 1
  /\ UNCHANGED <<lifeVars, handleVars, readVars, jobVars, started, writing,
                 wBuffer, errors, wire, peerVars>>

\* Mutant: the job is posted to the context instead of the strand.
WriteNoStrand ==
  /\ started < sends
  /\ started' = started + 1
  /\ wBuffer' = started + 1
  /\ writing' = TRUE
  /\ UNCHANGED <<lifeVars, handleVars, readVars, jobVars, sends, errors,
                 wire, peerVars>>

\* The next job of the strand fills the buffer and starts a blocking write.
Write ==
  /\ ~writing
  /\ started < sends
  /\ started' = started + 1
  /\ wBuffer' = started + 1
  /\ writing' = TRUE
  /\ UNCHANGED <<lifeVars, handleVars, readVars, jobVars, sends, errors,
                 wire, peerVars>>

\* The write succeeds, which it can only on an open stream.
OnWrite ==
  /\ writing
  /\ stream = "open"
  /\ wire' = Append(wire, wBuffer)
  /\ writing' = FALSE
  /\ UNCHANGED <<lifeVars, handleVars, readVars, jobVars, sends, started,
                 wBuffer, errors, peerVars>>

\* The write fails: the stream is not open, or fails now.  onWrite logs it.
OnWriteError ==
  /\ writing
  /\ stream' = IF stream = "open" THEN "failed" ELSE stream
  /\ writing' = FALSE
  /\ errors' = errors + 1
  /\ UNCHANGED <<role, stage, alive, held, closing, handleVars, readVars,
                 jobVars, sends, started, wBuffer, wire, peerVars>>

-----------------------------------------------------------------------------
(* Closing. *)

\* m_stream.close: an error unless the stream is open.
CloseStream == stream' = IF stream = "open" THEN "closed" ELSE stream

\* The server's close() returns at once if the stream is not open.
ServerClose ==
  /\ role = "server"
  /\ held
  /\ CloseStream
  /\ UNCHANGED <<role, stage, alive, held, closing, handleVars, readVars,
                 jobVars, writeVars, peerVars>>

\* The client's close() clears the handlers, then closes the stream; nothing
\* keeps another thread of the user from calling it while open() is running.
ClientClose ==
  /\ role = "client"
  /\ held
  /\ ~closing
  /\ closing' = TRUE
  /\ ClearHandles
  /\ UNCHANGED <<role, stage, stream, alive, held, readVars, jobVars, writeVars,
                 peerVars>>

ClientCloseStream ==
  /\ closing
  /\ closing' = FALSE
  /\ CloseStream
  /\ UNCHANGED <<role, stage, alive, held, handleVars, readVars, jobVars,
                 writeVars, peerVars>>

\* The user gives up its share; no call of its own is running.
Release ==
  /\ held
  /\ ~closing
  /\ role = "client" => stage \notin Opening
  /\ held' = FALSE
  /\ UNCHANGED <<role, stage, stream, alive, closing, handleVars, readVars,
                 jobVars, writeVars, peerVars>>

\* The shares of the session: the user, the completions of opening and of the
\* read loop, the posted handlers, the jobs of the write strand.  A completion
\* keeps its share until it has run: the context is not destroyed here.
Owned ==
  \/ held
  \/ stage \in Opening
  \/ rpc # "none"
  \/ \E h \in Ids, m \in Messages : posted[h][m] > 0
  \/ started < sends
  \/ writing

\* ~Session, with the last share, calls close().
Destroy ==
  /\ alive
  /\ ~Owned
  /\ alive' = FALSE
  /\ IF role = "client" THEN ClearHandles ELSE UNCHANGED handleVars
  /\ CloseStream
  /\ UNCHANGED <<role, stage, held, closing, readVars, jobVars, writeVars,
                 peerVars>>

-----------------------------------------------------------------------------
(* The peer. *)

PeerSends ==
  /\ stream = "open"
  /\ ~peerLeft
  /\ arrived < MaxMessages
  /\ arrived' = arrived + 1
  /\ UNCHANGED <<lifeVars, handleVars, readVars, jobVars, writeVars, peerLeft>>

PeerCloses ==
  /\ stream = "open"
  /\ ~peerLeft
  /\ peerLeft' = TRUE
  /\ UNCHANGED <<lifeVars, handleVars, readVars, jobVars, writeVars, arrived>>

-----------------------------------------------------------------------------
Opens == Proceed \/ Accept \/ OpenFails
Read == ReadMessage \/ ReadClosed \/ ReadError
Loop == StartRead \/ OnRead \/ Posted \/ \E h \in Ids : Post(h)
WriteEnds == OnWrite \/ OnWriteError
User ==
  \/ Open \/ SetHandle \/ Send \/ ServerClose \/ ClientClose \/ Release
  \/ \E h \in Ids : UnsetHandle(h)
Peer == PeerSends \/ PeerCloses

Next ==
  \/ User \/ Opens \/ Loop \/ Read \/ Write \/ WriteEnds
  \/ \E h \in Ids, m \in Messages : RunHandler(h, m)
  \/ ClientCloseStream \/ Destroy \/ Peer

Spec == Init /\ [][Next]_vars

\* The threads of the context run what is ready: the read loop, posted jobs and
\* jobs of the strand; a read completes when a message is there or the stream
\* is no longer open, as does a blocking write.  The server's opening
\* has a deadline of 30 seconds.  The client's has none: expires_after does not
\* bound the blocking calls.
Fairness ==
  /\ WF_vars(role = "server" /\ Opens)
  /\ WF_vars(Loop)
  /\ WF_vars(ReadMessage \/ ReadClosed)
  /\ WF_vars(stream # "open" /\ Read)
  /\ WF_vars(\E h \in Ids, m \in Messages : RunHandler(h, m))
  /\ WF_vars(Write)
  /\ WF_vars(stream # "open" /\ WriteEnds)
  /\ WF_vars(ClientCloseStream)
  /\ WF_vars(Destroy)

FairSpec == Spec /\ Fairness

-----------------------------------------------------------------------------
(* Properties. *)

\* Session.cpp (client) 69-127, (server) 84-105, 148-170.  A session whose
\* stream is open is always reading, or on its way to the next read, whatever
\* errors, closes and writes interleave; so the read loop's share keeps every
\* open session alive, and as long as the io_context lives ~Session never finds
\* an open stream.
Listening == stream = "open" => alive /\ rpc # "none"

\* Handler h was in the map when the handlers were copied for message m.
Registered(h, m) == since[h] < m /\ m <= until[h] /\ m <= taken
\* onRead has still to post the job of h for m.
Unposted(h, m) == rpc = "post" /\ m = payload /\ h \in todo

\* Session.cpp (client) 106-127, (server) 84-105.  A handler is called exactly
\* once for every message whose onRead found it in the map and for no other:
\* none is lost, none is repeated, none is mixed up with the next read into the
\* same buffer, and no message read after unsetHandle or close reaches it.
HandledOnce ==
  \A h \in Ids, m \in Messages :
    posted[h][m] + runs[h][m] =
      IF Registered(h, m) /\ ~Unposted(h, m) THEN 1 ELSE 0

\* Session.cpp (client) 129-144, (server) 120-138.  However many threads call
\* send, every write that has ended has reached the peer or was reported as an
\* error; what reached the peer did so in the order of the calls and without
\* a gap, and while the stream is open nothing is missing at its end.  (A message
\* whose turn on the strand comes before the stream is open is reported and lost.)
WireHasNoGap ==
  LET ended == started - (IF writing THEN 1 ELSE 0)
  IN  /\ Len(wire) + errors = ended
      /\ \A i \in 2..Len(wire) : wire[i] = wire[i - 1] + 1
      /\ stream = "open" /\ wire # <<>> => wire[Len(wire)] = ended

\* Message m is there, handler h was set before it was read and has not run.
Owed(h, m) ==
  /\ h \in handles /\ since[h] < m
  /\ m <= arrived /\ runs[h][m] = 0
  /\ stream = "open"

\* Session.cpp (client) 119-126, (server) 97-104.  A message that has arrived
\* is handed to every handler that was set before it was read, unless the
\* handler is removed or the stream stops being open.  (The peer sends finitely
\* many messages, so in the end none is owed to a handler.)
Delivered == <>[](\A h \in Ids, m \in Messages : ~Owed(h, m))

\* Session.cpp (client) 69-91, 161-163, (server) 148-170, 192-194.  A session
\* that was released and whose stream is no longer open is destroyed: the read
\* loop and the jobs do not keep each other alive.
Freed == ~held /\ stage \in {"opened", "failed"} /\ stream # "open" ~> ~alive

=============================================================================
