---------------------------- MODULE SessionProofs ----------------------------
(***************************************************************************)
(* Proofs about Session, for any number of messages, handlers and sends.   *)
(***************************************************************************)
EXTENDS Session, SequenceTheorems, TLAPS

(***************************************************************************)
(* The inductive invariant, in parts that speak of different variables.    *)
(***************************************************************************)

\* The read loop runs from the end of open() on, and its share and those of
\* the user and of the opening keep the session alive.
LifeInv ==
  /\ role \in {"client", "server"}
  /\ stage \in Stages
  /\ stream \in {"new", "open", "closed", "failed"}
  /\ alive \in BOOLEAN /\ held \in BOOLEAN /\ closing \in BOOLEAN
  /\ rpc \in ReaderPC
  /\ stage # "opened" => stream = "new" /\ rpc = "none"
  /\ ~alive => ~held /\ stage \notin Opening /\ rpc = "none"
  /\ Listening

\* The ids that are still free, in the map, and no longer in the map.
HandleInv ==
  /\ handles \subseteq Ids
  /\ nextId \in 1..(MaxHandles + 1)
  /\ since \in [Ids -> 0..Never] /\ until \in [Ids -> 0..Never]
  /\ taken \in 0..MaxMessages
  /\ \A h \in Ids :
       /\ h >= nextId =>
            h \notin handles /\ since[h] = Never /\ until[h] = Never
       /\ h \in handles => since[h] <= taken /\ until[h] = Never
       /\ h < nextId /\ h \notin handles => until[h] <= taken

\* The message that is read is the next one, and the one that is posted the
\* last one taken; the handlers still to be posted were in the map for it.
ReadInv ==
  /\ arrived \in 0..MaxMessages /\ peerLeft \in BOOLEAN
  /\ rBuffer \in 0..MaxMessages /\ payload \in 0..MaxMessages
  /\ todo \subseteq Ids
  /\ taken <= arrived
  /\ rpc = "onRead" => rBuffer = taken + 1 /\ taken < arrived
  /\ rpc = "post" =>
       /\ payload = taken /\ taken > 0
       /\ \A h \in todo : since[h] < taken /\ taken <= until[h]

\* Jobs are counted for each handler and message, and are what is owed.
JobInv ==
  /\ posted \in [Ids -> [Messages -> Nat]]
  /\ runs \in [Ids -> [Messages -> Nat]]
  /\ HandledOnce

\* The jobs of the strand run one at a time, in order, and nothing was written
\* before the stream was open.
WriteInv ==
  /\ sends \in 0..MaxSends /\ started \in 0..sends
  /\ writing \in BOOLEAN /\ wBuffer \in 0..MaxSends
  /\ errors \in Nat /\ wire \in Seq(1..MaxSends)
  /\ writing => started > 0 /\ wBuffer = started
  /\ stage # "opened" => wire = <<>>
  /\ WireHasNoGap

IndInv == LifeInv /\ HandleInv /\ ReadInv /\ JobInv /\ WriteInv

\* The parts give the type invariant.
LEMMA TypeOfParts == IndInv => TypeOK
<1> SUFFICES ASSUME IndInv
             PROVE  TypeOK
  OBVIOUS
<1>1. errors \in 0..MaxSends
  BY BoundsAssumption DEF IndInv, WriteInv, WireHasNoGap
<1> QED
  BY <1>1 DEF IndInv, LifeInv, HandleInv, ReadInv, JobInv, WriteInv, TypeOK

-----------------------------------------------------------------------------
(* What a step leaves alone. *)

\* Only the life of the session and the read loop matter to LifeInv.
LEMMA LifeKept ==
  ASSUME LifeInv, UNCHANGED <<lifeVars, rpc>>
  PROVE  LifeInv'
  BY DEF LifeInv, Listening, lifeVars

\* Only the map and the number of messages taken matter to HandleInv.
LEMMA HandleKept ==
  ASSUME HandleInv, UNCHANGED <<handleVars, taken>>
  PROVE  HandleInv'
  BY DEF HandleInv, handleVars

\* Only the peer, the read loop and the map matter to ReadInv.
LEMMA ReadKept ==
  ASSUME ReadInv, UNCHANGED <<handleVars, readVars, peerVars>>
  PROVE  ReadInv'
  BY DEF ReadInv, handleVars, readVars, peerVars

\* Of the read loop only what is still to be posted matters to the jobs.
LEMMA JobKept ==
  ASSUME JobInv,
         UNCHANGED <<handleVars, jobVars, taken, payload, todo>>,
         rpc' = "post" <=> rpc = "post"
  PROVE  JobInv'
  BY DEF JobInv, HandledOnce, Registered, Unposted, handleVars, jobVars

\* A stream never opens again.
LEMMA WriteKept ==
  ASSUME WriteInv, UNCHANGED writeVars,
         stream' = "open" => stream = "open" \/ stage # "opened",
         stage = "opened" => stage' = "opened"
  PROVE  WriteInv'
  BY DEF WriteInv, WireHasNoGap, writeVars

-----------------------------------------------------------------------------
(* The initial states satisfy the invariant, and each action preserves it. *)

\* The session is new, nothing is registered, read or written at the start.
LEMMA InitInv == Init => IndInv
<1> SUFFICES ASSUME Init
             PROVE  IndInv
  OBVIOUS
<1>1. LifeInv
  BY DEF Init, LifeInv, Listening, Stages, ReaderPC, Opening
<1>2. HandleInv
  BY BoundsAssumption DEF Init, HandleInv, Ids, Never
<1>3. ReadInv
  <2>1. 0 \in 0..MaxMessages
    BY BoundsAssumption
  <2>2. rpc = "none" /\ todo = {} /\ taken <= arrived
    BY DEF Init
  <2> QED
    BY <2>1, <2>2 DEF Init, ReadInv
<1>4. JobInv
  <2>1. \A h \in Ids, m \in Messages : ~Registered(h, m)
    BY BoundsAssumption DEF Init, Registered, Messages, Never
  <2> QED
    BY <2>1 DEF Init, JobInv, HandledOnce
<1>5. WriteInv
  <2>1. WireHasNoGap
    <3> DEFINE current == IF writing THEN 1 ELSE 0
    <3>1. current = 0
      BY Zenon DEF Init
    <3>2. Len(wire) = 0 /\ errors = 0 /\ started = 0 /\ stream = "new"
      BY DEF Init
    <3>3. Len(wire) + errors = started - current
      <4> HIDE DEF current
      <4> QED
        BY <3>1, <3>2
    <3>4. \A i \in 2..Len(wire) : wire[i] = wire[i - 1] + 1
      BY <3>2
    <3> QED
      BY <3>2, <3>3, <3>4, Zenon DEF WireHasNoGap
  <2>2. /\ 0 \in 0..MaxSends /\ 0 \in 0..0
        /\ wire \in Seq(1..MaxSends) /\ wire = <<>>
    BY BoundsAssumption DEF Init
  <2> QED
    BY <2>1, <2>2 DEF Init, WriteInv
<1> QED
  BY <1>1, <1>2, <1>3, <1>4, <1>5 DEF IndInv

\* A step of opening, or its failure.
LEMMA OpeningPreserves ==
  ASSUME IndInv, Open \/ Proceed \/ OpenFails
  PROVE  IndInv'
<1>1. LifeInv'
  BY DEF Open, Proceed, OpenFails, readVars, IndInv, LifeInv, Listening, Stages,
     Opening
<1>2. /\ UNCHANGED <<handleVars, readVars, jobVars, peerVars, taken, payload,
                     todo, rpc>>
      /\ UNCHANGED <<writeVars, stream>> /\ stage # "opened"
  BY DEF Open, Proceed, OpenFails, readVars, Opening
<1> QED
  BY <1>1, <1>2, HandleKept, ReadKept, JobKept, WriteKept DEF IndInv

\* The stream is open and the read loop starts.
LEMMA AcceptPreserves ==
  ASSUME IndInv, Accept
  PROVE  IndInv'
<1>1. LifeInv'
  BY DEF Accept, IndInv, LifeInv, Listening, Stages, ReaderPC, Opening
<1>2. /\ UNCHANGED <<handleVars, jobVars, writeVars, taken, payload, todo>>
      /\ rpc # "post" /\ rpc' = "startRead" /\ stage # "opened"
      /\ stage' = "opened"
  BY DEF Accept, IndInv, LifeInv
<1>3. ReadInv'
  BY DEF Accept, handleVars, peerVars, IndInv, ReadInv
<1> QED
  BY <1>1, <1>2, <1>3, HandleKept, JobKept, WriteKept DEF IndInv

\* The steps of the read loop that neither take nor post a message.
LEMMA ReadingPreserves ==
  ASSUME IndInv,
         StartRead \/ ReadMessage \/ ReadClosed \/ ReadError \/ Posted
  PROVE  IndInv'
<1>1. LifeInv'
  BY DEF StartRead, ReadMessage, ReadClosed, ReadError, Posted, Restart,
     lifeVars, IndInv, LifeInv, Listening, ReaderPC
<1>2. /\ UNCHANGED <<handleVars, writeVars, stage, taken>>
      /\ stream' = "open" => stream = "open"
  BY DEF StartRead, ReadMessage, ReadClosed, ReadError, Posted, lifeVars
<1>3. ReadInv'
  BY BoundsAssumption DEF StartRead, ReadMessage, ReadClosed, ReadError, Posted,
     Restart, handleVars, peerVars, IndInv, HandleInv, ReadInv
<1>4. JobInv'
  <2>1. CASE Posted
    BY <2>1 DEF Posted, Restart, handleVars, jobVars, IndInv, JobInv,
       HandledOnce, Registered, Unposted
  <2>2. CASE StartRead \/ ReadMessage \/ ReadClosed \/ ReadError
    BY <2>2, JobKept DEF StartRead, ReadMessage, ReadClosed, ReadError, Restart,
       IndInv
  <2> QED
    BY <2>1, <2>2
<1> QED
  BY <1>1, <1>2, <1>3, <1>4, HandleKept, WriteKept DEF IndInv

\* A message is taken and the map of handlers copied: the handlers in the map
\* are the ones that the message is for, and none has a job for it yet.
LEMMA OnReadPreserves ==
  ASSUME IndInv, OnRead
  PROVE  IndInv'
<1>1. LifeInv'
  BY DEF OnRead, lifeVars, IndInv, LifeInv, Listening, ReaderPC
<1>2. taken \in Nat /\ taken < MaxMessages /\ taken' = taken + 1
  BY BoundsAssumption DEF OnRead, IndInv, HandleInv, ReadInv
<1>3. HandleInv'
  BY <1>2, BoundsAssumption DEF OnRead, handleVars, IndInv, HandleInv, Ids, Never
<1>4. ReadInv'
  BY <1>2, BoundsAssumption DEF OnRead, handleVars, peerVars, IndInv, HandleInv,
     ReadInv, Ids, Never
<1>5. JobInv'
  <2>1. \A h \in Ids : h \in handles <=>
          since[h] < taken + 1 /\ taken + 1 <= until[h]
    BY <1>2, BoundsAssumption DEF IndInv, HandleInv, Ids, Never
  <2>2. ASSUME NEW h \in Ids, NEW m \in Messages
        PROVE  (Registered(h, m) /\ ~Unposted(h, m)) <=>
               (Registered(h, m)' /\ ~Unposted(h, m)')
    <3>1. m \in Nat /\ since[h] \in Nat /\ until[h] \in Nat
      BY BoundsAssumption DEF IndInv, HandleInv, Messages, Never
    <3>2. CASE m = taken + 1
      BY <1>2, <2>1, <3>1, <3>2 DEF OnRead, handleVars, Registered, Unposted,
         IndInv, ReadInv
    <3>3. CASE m # taken + 1
      BY <1>2, <3>1, <3>3 DEF OnRead, handleVars, Registered, Unposted, IndInv,
         ReadInv
    <3> QED
      BY <3>2, <3>3
  <2> QED
    BY <2>2 DEF OnRead, jobVars, IndInv, JobInv, HandledOnce
<1>6. UNCHANGED <<writeVars, stream, stage>>
  BY DEF OnRead, lifeVars
<1> QED
  BY <1>1, <1>3, <1>4, <1>5, <1>6, WriteKept DEF IndInv

\* A job is posted for the first handler that has none.
LEMMA PostPreserves ==
  ASSUME IndInv, NEW h \in Ids, Post(h)
  PROVE  IndInv'
<1>1. payload \in Messages /\ payload = taken /\ h \in todo /\ rpc = "post"
  BY BoundsAssumption DEF Post, IndInv, ReadInv, HandleInv, Messages
<1>2. Registered(h, payload) /\ Unposted(h, payload)
  BY <1>1, BoundsAssumption DEF IndInv, HandleInv, ReadInv, Registered, Unposted
<1>3. ReadInv'
  BY DEF Post, handleVars, peerVars, IndInv, ReadInv
<1>4. JobInv'
  <2>1. posted' \in [Ids -> [Messages -> Nat]] /\ runs' = runs
    BY <1>1 DEF Post, IndInv, JobInv
  <2>2. ASSUME NEW g \in Ids, NEW m \in Messages
        PROVE  posted'[g][m] =
                 posted[g][m] + (IF g = h /\ m = payload THEN 1 ELSE 0)
    BY <1>1 DEF Post, IndInv, JobInv
  <2>3. ASSUME NEW g \in Ids, NEW m \in Messages
        PROVE  /\ Registered(g, m)' <=> Registered(g, m)
               /\ Unposted(g, m)' <=>
                    Unposted(g, m) /\ ~(g = h /\ m = payload)
    BY DEF Post, handleVars, Registered, Unposted
  <2> QED
    BY <1>2, <2>1, <2>2, <2>3 DEF IndInv, JobInv, HandledOnce
<1>5. UNCHANGED <<lifeVars, rpc, handleVars, taken, writeVars>>
  BY DEF Post
<1> QED
  BY <1>3, <1>4, <1>5, LifeKept, HandleKept, WriteKept DEF IndInv, lifeVars

\* A posted job runs.
LEMMA RunHandlerPreserves ==
  ASSUME IndInv, NEW h \in Ids, NEW m \in Messages, RunHandler(h, m)
  PROVE  IndInv'
<1>1. JobInv'
  <2>1. /\ posted' \in [Ids -> [Messages -> Nat]]
        /\ runs' \in [Ids -> [Messages -> Nat]]
    BY DEF RunHandler, IndInv, JobInv
  <2>2. ASSUME NEW g \in Ids, NEW k \in Messages
        PROVE  posted'[g][k] + runs'[g][k] = posted[g][k] + runs[g][k]
    BY DEF RunHandler, IndInv, JobInv
  <2>3. ASSUME NEW g \in Ids, NEW k \in Messages
        PROVE  /\ Registered(g, k)' <=> Registered(g, k)
               /\ Unposted(g, k)' <=> Unposted(g, k)
    BY DEF RunHandler, handleVars, readVars, Registered, Unposted
  <2> QED
    BY <2>1, <2>2, <2>3 DEF IndInv, JobInv, HandledOnce
<1>2. UNCHANGED <<lifeVars, rpc, handleVars, taken, readVars, peerVars, writeVars>>
  BY DEF RunHandler, readVars
<1> QED
  BY <1>1, <1>2, LifeKept, HandleKept, ReadKept, WriteKept DEF IndInv, lifeVars

\* A handler is set: it is for the messages after the last one taken.
LEMMA SetHandlePreserves ==
  ASSUME IndInv, SetHandle
  PROVE  IndInv'
<1>1. nextId \in Ids /\ since[nextId] = Never /\ nextId \notin handles
  BY BoundsAssumption DEF SetHandle, IndInv, HandleInv, Ids
<1>2. taken \in 0..MaxMessages
  BY DEF IndInv, HandleInv
<1>3. \A h \in Ids : since'[h] = IF h = nextId THEN taken ELSE since[h]
  BY <1>1 DEF SetHandle, IndInv, HandleInv
<1>4. HandleInv'
  <2>1. since' \in [Ids -> 0..Never] /\ nextId' \in 1..(MaxHandles + 1)
    BY <1>1, <1>2, BoundsAssumption DEF SetHandle, IndInv, HandleInv, Ids, Never
  <2>2. ASSUME NEW h \in Ids
        PROVE  /\ h >= nextId' =>
                    h \notin handles' /\ since'[h] = Never /\ until[h] = Never
               /\ h \in handles' => since'[h] <= taken /\ until[h] = Never
               /\ h < nextId' /\ h \notin handles' => until[h] <= taken
    <3>1. h \in Nat /\ nextId \in Nat
      BY BoundsAssumption DEF IndInv, HandleInv, Ids
    <3>2. CASE h = nextId
      BY <1>1, <1>2, <1>3, <3>1, <3>2 DEF SetHandle, IndInv, HandleInv
    <3>3. CASE h # nextId
      BY <1>1, <1>2, <1>3, <3>1, <3>3 DEF SetHandle, IndInv, HandleInv
    <3> QED
      BY <3>2, <3>3
  <2> QED
    BY <1>1, <1>2, <2>1, <2>2 DEF SetHandle, readVars, IndInv, HandleInv
<1>5. ReadInv'
  <2>1. ASSUME rpc = "post" PROVE nextId \notin todo
    <3>1. taken \in 0..MaxMessages
      BY DEF IndInv, HandleInv
    <3> QED
      BY <2>1, <1>1, <3>1, BoundsAssumption DEF IndInv, ReadInv, Never
  <2> QED
    BY <1>3, <2>1 DEF SetHandle, readVars, peerVars, IndInv, ReadInv
<1>6. JobInv'
  <2>1. ASSUME NEW h \in Ids, NEW m \in Messages
        PROVE  /\ Registered(h, m)' <=> Registered(h, m)
               /\ Unposted(h, m)' <=> Unposted(h, m)
    <3>1. m \in 1..MaxMessages /\ taken \in 0..MaxMessages
      BY DEF Messages, IndInv, HandleInv
    <3> QED
      BY <1>1, <1>3, <3>1, BoundsAssumption DEF SetHandle, readVars, Registered,
         Unposted, Never
  <2> QED
    BY <2>1 DEF SetHandle, jobVars, IndInv, JobInv, HandledOnce
<1>7. UNCHANGED <<lifeVars, rpc, writeVars>>
  BY DEF SetHandle, readVars
<1> QED
  BY <1>4, <1>5, <1>6, <1>7, LifeKept, WriteKept DEF IndInv, lifeVars

\* Handlers leave the map: each was for the messages up to the last one taken.
LEMMA Removed ==
  ASSUME IndInv, NEW gone \in SUBSET handles,
         handles' = handles \ gone,
         \A h \in Ids : until'[h] = IF h \in gone THEN taken ELSE until[h],
         until' \in [Ids -> 0..Never],
         UNCHANGED <<nextId, since, readVars, jobVars, peerVars>>
  PROVE  HandleInv' /\ ReadInv' /\ JobInv'
<1>1. taken \in 0..MaxMessages /\ taken' = taken
  BY DEF IndInv, HandleInv, readVars
<1>2. HandleInv'
  <2>1. ASSUME NEW h \in Ids
        PROVE  /\ h >= nextId =>
                    h \notin handles' /\ since[h] = Never /\ until'[h] = Never
               /\ h \in handles' => since[h] <= taken /\ until'[h] = Never
               /\ h < nextId /\ h \notin handles' => until'[h] <= taken
    BY <1>1 DEF IndInv, HandleInv
  <2> QED
    BY <1>1, <2>1 DEF IndInv, HandleInv
<1>3. ReadInv'
  BY <1>1, BoundsAssumption DEF readVars, peerVars, IndInv, HandleInv, ReadInv
<1>4. JobInv'
  <2>1. ASSUME NEW h \in Ids, NEW m \in Messages
        PROVE  /\ Registered(h, m)' <=> Registered(h, m)
               /\ Unposted(h, m)' <=> Unposted(h, m)
    <3>1. m \in 1..MaxMessages
      BY DEF Messages
    <3> QED
      BY <1>1, <3>1, BoundsAssumption DEF readVars, Registered, Unposted, Never,
         IndInv, HandleInv
  <2> QED
    BY <2>1 DEF jobVars, IndInv, JobInv, HandledOnce
<1> QED
  BY <1>2, <1>3, <1>4

\* unsetHandle: the handler is owed no message that is taken later.
LEMMA UnsetHandlePreserves ==
  ASSUME IndInv, NEW h \in Ids, UnsetHandle(h)
  PROVE  IndInv'
<1>1. HandleInv' /\ ReadInv' /\ JobInv'
  <2>1. taken \in 0..Never
    BY BoundsAssumption DEF IndInv, HandleInv, Never
  <2>2. /\ {h} \in SUBSET handles
        /\ handles' = handles \ {h}
        /\ \A g \in Ids : until'[g] = IF g \in {h} THEN taken ELSE until[g]
        /\ until' \in [Ids -> 0..Never]
        /\ UNCHANGED <<nextId, since, readVars, jobVars, peerVars>>
    BY <2>1 DEF UnsetHandle, IndInv, HandleInv
  <2> QED
    BY <2>2, Removed
<1>2. UNCHANGED <<lifeVars, rpc, writeVars>>
  BY DEF UnsetHandle, readVars
<1> QED
  BY <1>1, <1>2, LifeKept, WriteKept DEF IndInv, lifeVars

\* m_handles->clear(), wherever it is called.
LEMMA Cleared ==
  ASSUME IndInv, ClearHandles, UNCHANGED <<readVars, jobVars, peerVars>>
  PROVE  HandleInv' /\ ReadInv' /\ JobInv'
<1>1. taken \in 0..Never
  BY BoundsAssumption DEF IndInv, HandleInv, Never
<1>2. /\ handles \in SUBSET handles
      /\ handles' = handles \ handles
      /\ \A g \in Ids : until'[g] = IF g \in handles THEN taken ELSE until[g]
      /\ until' \in [Ids -> 0..Never]
      /\ UNCHANGED <<nextId, since>>
  BY <1>1 DEF ClearHandles, IndInv, HandleInv
<1> QED
  BY <1>2, Removed

\* The steps of closing and destroying, which only ever close the stream.
LEMMA ClosingPreserves ==
  ASSUME IndInv,
         ServerClose \/ ClientClose \/ ClientCloseStream \/ Release \/ Destroy
  PROVE  IndInv'
<1>1. LifeInv'
  <2>1. CASE Destroy
    BY <2>1 DEF Destroy, Owned, CloseStream, readVars, IndInv, LifeInv, Listening
  <2>2. CASE Release
    BY <2>2 DEF Release, readVars, IndInv, LifeInv, Listening
  <2>3. CASE ServerClose \/ ClientCloseStream
    <3>1. /\ UNCHANGED <<role, stage, alive, held, rpc>> /\ closing' \in BOOLEAN
          /\ stream' = IF stream = "open" THEN "closed" ELSE stream
      BY <2>3 DEF ServerClose, ClientCloseStream, CloseStream, readVars, IndInv,
         LifeInv
    <3> QED
      BY <3>1 DEF IndInv, LifeInv, Listening
  <2>4. CASE ClientClose
    BY <2>4 DEF ClientClose, readVars, IndInv, LifeInv, Listening
  <2> QED
    BY <2>1, <2>2, <2>3, <2>4
<1>2. /\ UNCHANGED <<readVars, jobVars, writeVars, peerVars, stage>>
      /\ stream' = "open" => stream = "open"
  BY DEF ServerClose, ClientClose, ClientCloseStream, Release, Destroy,
     CloseStream
<1>3. HandleInv' /\ ReadInv' /\ JobInv'
  <2>1. CASE ClearHandles
    BY <1>2, <2>1, Cleared
  <2>2. CASE UNCHANGED handleVars
    BY <1>2, <2>2, HandleKept, ReadKept, JobKept DEF IndInv, readVars
  <2> QED
    BY <2>1, <2>2 DEF ServerClose, ClientClose, ClientCloseStream, Release,
       Destroy
<1> QED
  BY <1>1, <1>2, <1>3, WriteKept DEF IndInv

\* Something is sent, or the next job of the strand begins.
LEMMA WritePreserves ==
  ASSUME IndInv, Send \/ Write
  PROVE  IndInv'
<1>1. CASE Send
  <2>1. WriteInv'
    BY <1>1, BoundsAssumption DEF Send, lifeVars, IndInv, WriteInv, WireHasNoGap
  <2> QED
    BY <1>1, <2>1, LifeKept, HandleKept, ReadKept, JobKept DEF Send, readVars,
       IndInv
<1>2. CASE Write
  <2>1. WriteInv'
    BY <1>2, BoundsAssumption DEF Write, lifeVars, IndInv, WriteInv, WireHasNoGap
  <2> QED
    BY <1>2, <2>1, LifeKept, HandleKept, ReadKept, JobKept DEF Write, readVars,
       IndInv
<1> QED
  BY <1>1, <1>2

\* A write succeeds: what it adds follows what the peer has.
LEMMA OnWritePreserves ==
  ASSUME IndInv, OnWrite
  PROVE  IndInv'
<1>1. /\ wire \in Seq(1..MaxSends) /\ wBuffer \in 1..MaxSends
      /\ wBuffer = started /\ stage = "opened" /\ started \in Nat
      /\ errors \in Nat
  BY BoundsAssumption DEF OnWrite, IndInv, WriteInv, LifeInv
<1>2. /\ wire' \in Seq(1..MaxSends)
      /\ Len(wire') = Len(wire) + 1
      /\ \A i \in 1..Len(wire) : wire'[i] = wire[i]
      /\ wire'[Len(wire) + 1] = started
      /\ Len(wire) \in Nat
  BY <1>1, AppendProperties DEF OnWrite
<1>3. /\ Len(wire) + errors = started - 1
      /\ \A i \in 2..Len(wire) : wire[i] = wire[i - 1] + 1
      /\ Len(wire) > 0 => wire[Len(wire)] = started - 1
  <2>1. Len(wire) > 0 => wire # <<>>
    BY <1>1
  <2> QED
    BY <1>1, <2>1 DEF OnWrite, IndInv, WriteInv, WireHasNoGap
<1>4. WireHasNoGap'
  <2>1. \A i \in 2..Len(wire') : wire'[i] = wire'[i - 1] + 1
    <3> SUFFICES ASSUME NEW i \in 2..Len(wire')
                 PROVE  wire'[i] = wire'[i - 1] + 1
      OBVIOUS
    <3>1. CASE i = Len(wire) + 1
      BY <1>1, <1>2, <1>3, <3>1
    <3>2. CASE i \in 2..Len(wire)
      BY <1>2, <1>3, <3>2
    <3> QED
      BY <1>2, <3>1, <3>2
  <2>2. (started - (IF writing THEN 1 ELSE 0))' = started
    BY <1>1 DEF OnWrite
  <2> QED
    BY <1>2, <1>3, <2>1, <2>2, <1>1 DEF OnWrite, WireHasNoGap
<1>5. WriteInv'
  BY <1>1, <1>2, <1>4 DEF OnWrite, lifeVars, IndInv, WriteInv
<1> QED
  BY <1>5, LifeKept, HandleKept, ReadKept, JobKept DEF OnWrite, readVars, IndInv

\* A write fails, and with it the stream.
LEMMA OnWriteErrorPreserves ==
  ASSUME IndInv, OnWriteError
  PROVE  IndInv'
<1>1. LifeInv'
  BY DEF OnWriteError, readVars, IndInv, LifeInv, Listening
<1>2. WriteInv'
  <2>1. /\ started \in Nat /\ errors \in Nat /\ Len(wire) \in Nat
        /\ Len(wire) + errors = started - 1
        /\ \A i \in 2..Len(wire) : wire[i] = wire[i - 1] + 1
    BY DEF OnWriteError, IndInv, WriteInv, WireHasNoGap
  <2>2. /\ (started - (IF writing THEN 1 ELSE 0))' = started
        /\ stream' # "open" /\ errors' = errors + 1 /\ UNCHANGED wire
    BY <2>1 DEF OnWriteError
  <2>3. WireHasNoGap'
    BY <2>1, <2>2 DEF WireHasNoGap
  <2>4. errors' \in Nat
    BY <2>1, <2>2
  <2>5. ~writing' /\ writing' \in BOOLEAN
    BY Zenon DEF OnWriteError
  <2> QED
    BY <2>2, <2>3, <2>4, <2>5 DEF OnWriteError, IndInv, WriteInv
<1> QED
  BY <1>1, <1>2, HandleKept, ReadKept, JobKept DEF OnWriteError, readVars, IndInv

\* The peer sends a message or its close frame.
LEMMA PeerPreserves ==
  ASSUME IndInv, Peer
  PROVE  IndInv'
<1>1. ReadInv'
  <2>1. taken \in Nat /\ arrived \in 0..MaxMessages
    BY BoundsAssumption DEF IndInv, HandleInv, ReadInv
  <2>2. CASE PeerSends
    BY <2>1, <2>2, BoundsAssumption DEF PeerSends, handleVars, readVars, IndInv,
       ReadInv
  <2>3. CASE PeerCloses
    BY <2>3 DEF PeerCloses, handleVars, readVars, IndInv, ReadInv
  <2> QED
    BY <2>2, <2>3 DEF Peer
<1> QED
  BY <1>1, LifeKept, HandleKept, JobKept, WriteKept DEF Peer, PeerSends,
     PeerCloses, lifeVars, readVars, IndInv

\* The invariant holds in every reachable state.
THEOREM Invariance == Spec => []IndInv
<1>1. IndInv /\ [Next]_vars => IndInv'
  <2> SUFFICES ASSUME IndInv, [Next]_vars
               PROVE  IndInv'
    OBVIOUS
  <2>1. CASE UNCHANGED vars
    BY <2>1, LifeKept, HandleKept, ReadKept, JobKept, WriteKept DEF vars,
       lifeVars, readVars, IndInv
  <2>2. CASE User
    BY <2>2, OpeningPreserves, SetHandlePreserves, WritePreserves,
       ClosingPreserves, UnsetHandlePreserves DEF User
  <2>3. CASE Opens
    BY <2>3, OpeningPreserves, AcceptPreserves DEF Opens
  <2>4. CASE Loop \/ Read
    BY <2>4, ReadingPreserves, OnReadPreserves, PostPreserves DEF Loop, Read
  <2> QED
    BY <2>1, <2>2, <2>3, <2>4, WritePreserves, OnWritePreserves,
       OnWriteErrorPreserves, RunHandlerPreserves, ClosingPreserves,
       PeerPreserves DEF Next, WriteEnds
<1> QED
  BY <1>1, InitInv, PTL DEF Spec

-----------------------------------------------------------------------------
(* What follows. *)

\* Every variable keeps its type; in particular the number of failed writes is
\* bounded by the number of sends.
THEOREM TypeCorrect == Spec => []TypeOK
  BY Invariance, TypeOfParts, PTL

\* Session.cpp (client) 69-127, (server) 84-105, 148-170.  An open session is
\* alive and reading or about to, through any number of messages and errors.
THEOREM AlwaysListening == Spec => []Listening
<1>1. IndInv => Listening
  BY DEF IndInv, LifeInv
<1> QED
  BY <1>1, Invariance, PTL

\* Session.cpp (client) 106-127, (server) 84-105.  Each handler is called once
\* for each message that was read while it was set, and for no other.
THEOREM CalledOnce == Spec => []HandledOnce
<1>1. IndInv => HandledOnce
  BY DEF IndInv, JobInv
<1> QED
  BY <1>1, Invariance, PTL

\* Session.cpp (client) 129-144, (server) 120-138.  What the peer receives is
\* without a gap and in the order of the calls of send.
THEOREM NoGap == Spec => []WireHasNoGap
<1>1. IndInv => WireHasNoGap
  BY DEF IndInv, WriteInv
<1> QED
  BY <1>1, Invariance, PTL

=============================================================================
