-------------------------- MODULE MediaPump_proofs --------------------------
(***************************************************************************)
(* The safety of a session that serves audio, for any bounds, chunk sizes,  *)
(* prefix and stall time.  What the pump, the watchdog and FFmpeg do to a   *)
(* pipe is shown to be a step of that pipe, and the theorems proved of the  *)
(* pipe alone then hold of the pipe in the session.                         *)
(***************************************************************************)
EXTENDS MediaPump, TLAPS

\* The proofs of the audio pipe, of the one of this session.
AudioP == INSTANCE AudioPipe_proofs WITH
    Threads <- {"pump", "watchdog"},
    PendingBound <- AudioBound, PipeCap <- AudioCap,
    ChunkSizes <- AudioChunks, MaxOffered <- MaxAudio,
    pending <- aPending, pendingBytes <- aPendingBytes, dropped <- aDropped,
    closed <- aClosed, lock <- aLock, step <- aStep, fd <- aFd,
    kernel <- aKernel, reader <- aReader, offered <- aOffered,
    written <- aWritten

-----------------------------------------------------------------------------
(* The video pipe alone: nothing offered is lost without being counted,     *)
(* however the bound, a reader that dies and a close fall.  What was proved *)
(* of the queue is first said of this pipe's.                               *)

\* The queue of a pipe, by itself.
Queue == INSTANCE PipeQueue_proofs

\* PIPE_BUF is what the queue's proofs ask for.
LEMMA QueueAssumption == Queue!PipeBufAssumption
BY MediaPumpAssumption DEF Queue!PipeBufAssumption

\* The session's video queue is the queue of those proofs.
LEMMA SameQueue ==
    /\ Video!Chunks = Queue!Chunks
    /\ \A q : Video!Bytes(q) = Queue!Bytes(q)
    /\ \A q, end : Video!Contiguous(q, end) <=> Queue!Contiguous(q, end)
    /\ \A c : Video!Size(c) = Queue!Size(c)
    /\ \A at, n : Video!NewChunk(at, n) = Queue!NewChunk(at, n)
    /\ \A c, room : Video!Taken(c, room) = Queue!Taken(c, room)
    /\ \A q, n : Video!Advance(q, n) = Queue!Advance(q, n)
BY DEF Video!Chunks, Queue!Chunks, Video!Bytes, Queue!Bytes, Video!Contiguous,
       Queue!Contiguous, Video!Size, Queue!Size, Video!NewChunk, Queue!NewChunk,
       Video!Taken, Queue!Taken, Video!Advance, Queue!Advance

\* The head of a queue is part of its bytes.
LEMMA VideoBytesOfQueue ==
    ASSUME NEW q \in Seq(Video!Chunks), NEW end \in Nat, Video!Contiguous(q, end),
           q # <<>>
    PROVE  /\ q[1] \in Video!Chunks
           /\ Video!Size(q[1]) \in Nat \ {0}
           /\ Video!Size(q[1]) <= Video!Bytes(q)
BY QueueAssumption, SameQueue, Queue!BytesOfQueue

\* A chunk joins behind.
LEMMA VideoAppendChunk ==
    ASSUME NEW q \in Seq(Video!Chunks), NEW end \in Nat, Video!Contiguous(q, end),
           NEW n \in Nat \ {0}
    PROVE  LET r == Append(q, Video!NewChunk(end, n)) IN
           /\ r \in Seq(Video!Chunks)
           /\ Video!Contiguous(r, end + n)
           /\ Video!Bytes(r) = Video!Bytes(q) + n
BY QueueAssumption, SameQueue, Queue!AppendChunk

\* The head goes.
LEMMA VideoPopChunk ==
    ASSUME NEW q \in Seq(Video!Chunks), NEW end \in Nat, Video!Contiguous(q, end),
           q # <<>>
    PROVE  /\ Tail(q) \in Seq(Video!Chunks)
           /\ Video!Contiguous(Tail(q), end)
           /\ Video!Bytes(Tail(q)) = Video!Bytes(q) - Video!Size(q[1])
BY QueueAssumption, SameQueue, Queue!PopChunk

\* os.write takes no more than the chunk, and no more than there is room for.
LEMMA VideoTakenFits ==
    ASSUME NEW c \in Video!Chunks, Video!Size(c) \in Nat \ {0}, NEW room \in Nat
    PROVE  Video!Taken(c, room) \in 0 .. Video!Size(c) /\ Video!Taken(c, room) <= room
BY QueueAssumption, SameQueue, Queue!TakenFits

\* It leaves the rest of the head in its place.
LEMMA VideoAdvanceQueue ==
    ASSUME NEW q \in Seq(Video!Chunks), NEW end \in Nat, Video!Contiguous(q, end),
           q # <<>>, NEW n \in 0 .. Video!Size(q[1])
    PROVE  /\ Video!Advance(q, n) \in Seq(Video!Chunks)
           /\ Video!Contiguous(Video!Advance(q, n), end)
           /\ Video!Bytes(Video!Advance(q, n)) = Video!Bytes(q) - n
BY QueueAssumption, SameQueue, Queue!AdvanceQueue

\* The pipe is closed once: its descriptor with it, and nothing is queued
\* from then on; the file object is closed after it.
ClosedWithIt ==
    /\ vClosed <=> vFd # "open"
    /\ vClosed => vPending = <<>> /\ vStep = "idle"
    /\ vStdin = "closed" => vClosed

\* What is proved by induction: nothing is queued or counted once the pipe is closed.
VideoIInv == Video!TypeOK /\ Video!Accounted /\ ClosedWithIt

\* It holds of a new pipe.
LEMMA VideoInit ==
    Video!Init => VideoIInv
<1> SUFFICES ASSUME Video!Init PROVE VideoIInv
  OBVIOUS
<1> USE DEF Video!Init
<1>1. Video!TypeOK
  <2>1. vPending \in Seq(Video!Chunks)
    BY vPending = <<>>
  <2>2. vKernel \in 0 .. VideoCap
    BY MediaPumpAssumption
  <2> QED
    BY <2>1, <2>2 DEF Video!TypeOK
<1>2. Video!Accounted
  BY DEF Video!Accounted, Video!Bytes, Video!Contiguous
<1>3. ClosedWithIt
  BY DEF ClosedWithIt
<1> QED
  BY <1>1, <1>2, <1>3 DEF VideoIInv

\* write() appends the chunk.
LEMMA VideoWrite ==
    ASSUME VideoIInv, NEW n \in VideoChunks, Video!Write(n)
    PROVE  VideoIInv'
<1> USE DEF Video!Write, Video!endVars, VideoIInv
<1>1. n \in Nat \ {0} /\ vOffered \in Nat /\ vPending \in Seq(Video!Chunks)
  BY MediaPumpAssumption DEF Video!TypeOK
<1>2. /\ vPending' \in Seq(Video!Chunks)
      /\ Video!Contiguous(vPending', vOffered')
      /\ Video!Bytes(vPending') = Video!Bytes(vPending) + n
  BY <1>1, VideoAppendChunk DEF Video!Accounted
<1>3. Video!TypeOK'
  BY <1>1, <1>2 DEF Video!TypeOK
<1>4. Video!Accounted'
  <2>1. /\ vWritten + vDropped + vPendingBytes = vOffered
        /\ vWritten \in Nat /\ vDropped \in Nat /\ vPendingBytes \in Nat
    BY DEF Video!Accounted, Video!TypeOK
  <2>2. vWritten' + vDropped' + vPendingBytes' = vOffered'
    BY <1>1, <2>1
  <2>3. vPendingBytes' = Video!Bytes(vPending')
    BY <1>2 DEF Video!Accounted
  <2> QED
    BY <1>2, <2>2, <2>3 DEF Video!Accounted
<1>5. ClosedWithIt'
  BY DEF ClosedWithIt
<1> QED
  BY <1>3, <1>4, <1>5

\* The oldest chunk goes: what it still held is what the count gains.
LEMMA VideoEvict ==
    ASSUME VideoIInv, Video!Evict
    PROVE  VideoIInv'
<1> USE DEF Video!Evict, Video!endVars, VideoIInv
<1>1. vPending \in Seq(Video!Chunks) /\ vOffered \in Nat /\ vPending # <<>>
  BY DEF Video!TypeOK, Video!OverBound
<1>2. /\ vPending' \in Seq(Video!Chunks)
      /\ Video!Contiguous(vPending', vOffered)
      /\ Video!Bytes(vPending') = Video!Bytes(vPending) - Video!Size(vPending[1])
  BY <1>1, VideoPopChunk DEF Video!Accounted
<1>3. Video!Size(vPending[1]) \in Nat /\ Video!Size(vPending[1]) <= vPendingBytes
  BY <1>1, VideoBytesOfQueue DEF Video!Accounted
<1>4. Video!TypeOK'
  BY <1>1, <1>2, <1>3, SMTT(30) DEF Video!TypeOK
<1>5. Video!Accounted'
  <2>1. /\ vWritten + vDropped + vPendingBytes = vOffered
        /\ vWritten \in Nat /\ vDropped \in Nat /\ vPendingBytes \in Nat
        /\ vPendingBytes = Video!Bytes(vPending)
    BY DEF Video!Accounted, Video!TypeOK
  <2>2. /\ vWritten' = vWritten /\ vDropped' = vDropped + Video!Size(vPending[1])
        /\ vPendingBytes' = vPendingBytes - Video!Size(vPending[1]) /\ vOffered' = vOffered
    BY <2>1
  <2> HIDE DEF Video!Evict, VideoIInv
  <2>3. vWritten' + vDropped' + vPendingBytes' = vOffered'
    BY <1>3, <2>1, <2>2
  <2>4. vPendingBytes' = Video!Bytes(vPending') /\ Video!Contiguous(vPending', vOffered')
    BY <1>2, <2>1, <2>2
  <2> QED
    BY <2>3, <2>4 DEF Video!Accounted
<1>6. ClosedWithIt'
  BY DEF ClosedWithIt
<1> QED
  BY <1>4, <1>5, <1>6

\* os.write takes the head, a part of it, or nothing.
LEMMA VideoDrain ==
    ASSUME VideoIInv, Video!DrainWrite
    PROVE  VideoIInv'
<1> USE DEF VideoIInv
<1> DEFINE n == Video!Taken(vPending[1], Video!Room)
<1>1. /\ vPending \in Seq(Video!Chunks) /\ vPending # <<>> /\ vOffered \in Nat
      /\ Video!Room \in Nat /\ Video!Contiguous(vPending, vOffered)
  BY MediaPumpAssumption DEF Video!DrainWrite, Video!TypeOK, Video!Accounted, Video!Room
<1>2. /\ vPending[1] \in Video!Chunks /\ Video!Size(vPending[1]) \in Nat \ {0}
      /\ Video!Size(vPending[1]) <= vPendingBytes
  BY <1>1, VideoBytesOfQueue DEF Video!Accounted
<1>3. n \in 0 .. Video!Size(vPending[1]) /\ n <= Video!Room
  BY <1>1, <1>2, VideoTakenFits
<1>4. Video!OsWrite(n) /\ vStep = "drain"
  BY DEF Video!DrainWrite
<1> HIDE DEF n
<1>5. /\ vPending' \in Seq(Video!Chunks)
      /\ Video!Contiguous(vPending', vOffered)
      /\ Video!Bytes(vPending') = Video!Bytes(vPending) - n
  BY <1>1, <1>3, <1>4, VideoAdvanceQueue DEF Video!OsWrite, Video!Accounted
<1>6. vKernel' \in 0 .. VideoCap
  BY <1>1, <1>3, <1>4, MediaPumpAssumption DEF Video!OsWrite, Video!Room, Video!TypeOK
<1>7. vPendingBytes' \in Nat /\ vWritten' \in Nat
  BY <1>2, <1>3, <1>4 DEF Video!OsWrite, Video!TypeOK
<1>8. Video!TypeOK'
  BY <1>4, <1>5, <1>6, <1>7 DEF Video!OsWrite, Video!TypeOK
<1>9. Video!Accounted'
  BY <1>2, <1>3, <1>4, <1>5 DEF Video!OsWrite, Video!Accounted, Video!TypeOK
<1>10. ClosedWithIt'
  BY <1>4 DEF Video!OsWrite, ClosedWithIt
<1> QED
  BY <1>8, <1>9, <1>10

\* The steps that leave the queue as it is.
LEMMA VideoQueueKept ==
    ASSUME VideoIInv,
           \/ Video!EndEvict \/ Video!Flush \/ Video!DrainRaise
           \/ Video!DrainDone \/ Video!CloseStdin
    PROVE  VideoIInv'
<1> USE DEF Video!EndEvict, Video!Flush, Video!DrainRaise, Video!DrainDone,
            Video!CloseStdin, Video!endVars, Video!queueVars, VideoIInv
<1>1. Video!TypeOK'
  BY DEF Video!TypeOK
<1>2. Video!Accounted'
  BY DEF Video!Accounted
<1>3. ClosedWithIt'
  BY DEF ClosedWithIt
<1> QED
  BY <1>1, <1>2, <1>3

\* close() counts what was queued.
LEMMA VideoClose ==
    ASSUME VideoIInv, Video!Close
    PROVE  VideoIInv'
<1> USE DEF Video!Close, VideoIInv
<1>1. Video!TypeOK'
  <2>1. vPending' \in Seq(Video!Chunks)
    BY vPending' = <<>>
  <2>2. Len(vPending) \in Nat
    BY DEF Video!TypeOK
  <2> QED
    BY <2>1, <2>2 DEF Video!TypeOK
<1>2. Video!Accounted'
  BY DEF Video!Accounted, Video!TypeOK, Video!Bytes, Video!Contiguous
<1>3. ClosedWithIt'
  BY DEF ClosedWithIt
<1> QED
  BY <1>1, <1>2, <1>3

\* FFmpeg's end, and the rest of the process.
LEMMA VideoEnvironment ==
    ASSUME VideoIInv,
           (\E n \in 1 .. VideoCap : Video!Read(n)) \/ Video!ReaderGone \/ Video!Recycle
    PROVE  VideoIInv'
<1> USE DEF Video!Read, Video!ReaderGone, Video!Recycle, Video!queueVars, VideoIInv
<1>1. Video!TypeOK'
  <2>1. vKernel' \in 0 .. VideoCap
    BY MediaPumpAssumption DEF Video!TypeOK
  <2> QED
    BY <2>1 DEF Video!TypeOK
<1>2. Video!Accounted'
  BY DEF Video!Accounted
<1>3. ClosedWithIt'
  BY DEF ClosedWithIt
<1> QED
  BY <1>1, <1>2, <1>3

\* Every step keeps the inductive invariant.
LEMMA VideoNext ==
    VideoIInv /\ [Video!Next]_(Video!vars) => VideoIInv'
<1> SUFFICES ASSUME VideoIInv, [Video!Next]_(Video!vars) PROVE VideoIInv'
  OBVIOUS
<1>1. ASSUME NEW n \in VideoChunks, Video!Write(n)
      PROVE  VideoIInv'
  BY <1>1, VideoWrite
<1>2. CASE Video!Advances
  BY <1>2, VideoEvict, VideoDrain, VideoQueueKept DEF Video!Advances
<1>3. CASE Video!Flush \/ Video!CloseStdin
  BY <1>3, VideoQueueKept
<1>4. CASE Video!Close
  BY <1>4, VideoClose
<1>5. CASE (\E n \in 1 .. VideoCap : Video!Read(n)) \/ Video!ReaderGone \/ Video!Recycle
  BY <1>5, VideoEnvironment
<1>6. CASE UNCHANGED Video!vars
  BY <1>6 DEF Video!vars, VideoIInv, Video!TypeOK, Video!Accounted, ClosedWithIt
<1> QED
  BY <1>1, <1>2, <1>3, <1>4, <1>5, <1>6 DEF Video!Next

\* The inductive invariant holds in every reachable state.
THEOREM VideoInvariance ==
    Video!Spec => []VideoIInv
BY VideoInit, VideoNext, PTL DEF Video!Spec

\* Every variable keeps its type: the byte count never goes below zero and the
\* kernel's pipe never above its capacity.
THEOREM VideoTypeCorrect ==
    Video!Spec => []Video!TypeOK
<1>1. VideoIInv => Video!TypeOK
  BY DEF VideoIInv
<1> QED
  BY <1>1, VideoInvariance, PTL

\* No byte offered is ever lost without being counted.
THEOREM VideoAloneAccounted ==
    Video!Spec => []Video!Accounted
<1>1. VideoIInv => Video!Accounted
  BY DEF VideoIInv
<1> QED
  BY <1>1, VideoInvariance, PTL
-----------------------------------------------------------------------------
(* Framing.                                                                *)

\* Whole chunks of at most PIPE_BUF stay whole while they join, go and are written.
LEMMA VideoAppendWhole ==
    ASSUME NEW q \in Seq(Video!Chunks), Queue!AllWhole(q), NEW end \in Nat,
           NEW n \in Nat, n <= PipeBuf
    PROVE  Queue!AllWhole(Append(q, Video!NewChunk(end, n)))
BY QueueAssumption, SameQueue, Queue!AppendWhole

\* The same of the head that goes.
LEMMA VideoTailWhole ==
    ASSUME NEW q \in Seq(Video!Chunks), Queue!AllWhole(q), q # <<>>
    PROVE  Queue!AllWhole(Tail(q))
BY QueueAssumption, SameQueue, Queue!TailWhole

\* And of the head that os.write takes, whole or not at all.
LEMMA VideoWriteWhole ==
    ASSUME NEW q \in Seq(Video!Chunks), NEW end \in Nat, Video!Contiguous(q, end),
           Queue!AllWhole(q), q # <<>>, NEW room \in Nat
    PROVE  Queue!AllWhole(Video!Advance(q, Video!Taken(q[1], room)))
BY QueueAssumption, SameQueue, Queue!WriteWhole

\* While every chunk fits PIPE_BUF a step leaves whole chunks whole.
LEMMA VideoWhole ==
    ASSUME \A n \in VideoChunks : n <= PipeBuf,
           VideoIInv, Queue!AllWhole(vPending), [Video!Next]_(Video!vars)
    PROVE  Queue!AllWhole(vPending')
<1>0. /\ vPending \in Seq(Video!Chunks) /\ vOffered \in Nat
      /\ Video!Contiguous(vPending, vOffered)
  BY DEF VideoIInv, Video!TypeOK, Video!Accounted
<1>1. ASSUME NEW n \in VideoChunks, Video!Write(n)
      PROVE  Queue!AllWhole(vPending')
  <2>1. n \in Nat /\ n <= PipeBuf
    BY MediaPumpAssumption
  <2> QED
    BY <1>0, <1>1, <2>1, VideoAppendWhole DEF Video!Write
<1>2. CASE Video!Evict
  <2>1. vPending # <<>> /\ vPending' = Tail(vPending)
    BY <1>0, <1>2 DEF Video!Evict, Video!OverBound
  <2> QED
    BY <1>0, <2>1, VideoTailWhole
<1>3. CASE Video!DrainWrite
  <2>1. Video!Room \in Nat
    BY MediaPumpAssumption DEF VideoIInv, Video!TypeOK, Video!Room
  <2>2. /\ vPending # <<>>
        /\ vPending' = Video!Advance(vPending, Video!Taken(vPending[1], Video!Room))
    BY <1>3 DEF Video!DrainWrite, Video!OsWrite
  <2> QED
    BY <1>0, <2>1, <2>2, VideoWriteWhole
<1>4. CASE Video!Close
  BY <1>4 DEF Video!Close, Queue!AllWhole
<1>5. CASE \/ Video!EndEvict \/ Video!Flush \/ Video!DrainRaise
           \/ Video!DrainDone \/ Video!CloseStdin
  BY <1>5 DEF Video!EndEvict, Video!Flush, Video!DrainRaise, Video!DrainDone,
              Video!CloseStdin, Video!queueVars
<1>6. CASE \/ \E n \in 1 .. VideoCap : Video!Read(n)
           \/ Video!ReaderGone \/ Video!Recycle \/ UNCHANGED Video!vars
  BY <1>6 DEF Video!Read, Video!ReaderGone, Video!Recycle, Video!queueVars, Video!vars
<1> QED
  BY <1>1, <1>2, <1>3, <1>4, <1>5, <1>6 DEF Video!Next, Video!Advances

\* The comment on WholeChunks is true of chunks that fit PIPE_BUF: then the bound
\* throws whole ones away.  The hypothesis is needed, and the code does not give
\* it: a picture is longer, and os.write takes the part of it there is room for.
THEOREM SmallChunksStayWhole ==
    ASSUME \A n \in VideoChunks : n <= PipeBuf
    PROVE  Video!Spec => Video!WholeChunks
<1>1. Video!Init => Queue!AllWhole(vPending)
  BY DEF Video!Init, Queue!AllWhole
<1>2. VideoIInv /\ Queue!AllWhole(vPending) /\ [Video!Next]_(Video!vars)
          => Queue!AllWhole(vPending)'
  BY VideoWhole
<1>3. VideoIInv /\ Queue!AllWhole(vPending) => (Video!Evict => Video!Whole(vPending[1]))
  <2> SUFFICES ASSUME VideoIInv, Queue!AllWhole(vPending), Video!Evict
               PROVE  Video!Whole(vPending[1])
    OBVIOUS
  <2>1. 1 \in 1 .. Len(vPending)
    BY DEF Video!Evict, Video!OverBound, VideoIInv, Video!TypeOK
  <2> QED
    BY <2>1 DEF Queue!AllWhole, Queue!Whole, Video!Whole
<1> QED
  BY <1>1, <1>2, <1>3, VideoInvariance, PTL DEF Video!Spec, Video!WholeChunks
\* The types of what the pump and the watchdog keep.
PumpTypes ==
    /\ pump \in PumpSteps /\ body \in Bodies /\ prefix \in 0 .. Prefix
    /\ audioLost \in Nat \cup {-1}

\* And of what the watchdog and the owner keep.
WatchTypes ==
    /\ sinkAudio \in BOOLEAN /\ quiet \in 0 .. Stall + 1
    /\ watchdog \in WatchSteps /\ stop \in BOOLEAN
    /\ cancel \in BOOLEAN

\* The last places of the pump, after the watchdog was joined.
Closing == {"closeAudio", "inClose", "closeVideo", "closeStdin", "done"}

\* The pump binds the audio pipe for an audio packet, and offers it bytes.
Bound ==
    /\ pump \in {"bind", "offer"} => body.kind = "audio"
    /\ pump = "offer" => body.n # 0

\* A thread is inside a call of the audio pipe only where it waits for one.
AudioCalls ==
    /\ aStep["pump"] # "idle" => pump \in {"inOffer", "inFlush", "inClose"}
    /\ aStep["watchdog"] # "idle" => watchdog = "inClose"

\* The pump is inside a call of the video pipe only where it waits for one, or
\* was thrown out of it; it closes the pipe once, and stdin after it.
VideoCalls ==
    /\ vStep \in {"evict", "drain"} => pump \in {"inVideo", "inVideoFlush"}
    /\ vStep = "raised" =>
           pump \in {"inVideo", "inVideoFlush", "stop", "join", "closeAudio",
                     "inClose", "closeVideo"}
    /\ vClosed <=> pump \in {"closeStdin", "done"}
    /\ vStdin = "closed" <=> pump = "done"

\* From the join on the watchdog is over, and from its own close() on the pump
\* knows the audio pipe closed; what it reports lost is what the pipe counted.
Closed ==
    /\ pump \in Closing => watchdog = "done"
    /\ pump \in Closing \ {"closeAudio"} => aClosed
    /\ audioLost # -1 =>
           /\ pump \in {"closeVideo", "closeStdin", "done"}
           /\ audioLost = aDropped

\* What is proved by induction: each pipe's own invariant, and what ties them.
IInv == /\ PumpTypes /\ WatchTypes
        /\ AudioP!IInv /\ VideoIInv
        /\ Bound /\ AudioCalls /\ VideoCalls /\ Closed

-----------------------------------------------------------------------------
(* The pipes' own facts, of the session's pipes.                           *)

\* The session's constants are what the pipes' theorems ask for.
LEMMA PipeAssumptions ==
    /\ AudioP!AudioPipeAssumption /\ AudioP!PipeBufAssumption
BY MediaPumpAssumption
   DEF AudioP!AudioPipeAssumption, AudioP!PipeBufAssumption

\* The pipe the session uses is the pipe of the theorems.
LEMMA SameAudio ==
    /\ Audio!Init => AudioP!Init
    /\ [Audio!Next]_(Audio!vars) => [AudioP!Next]_(AudioP!vars)
<1>1. Audio!Init => AudioP!Init
  BY DEF Audio!Init, AudioP!Init
<1>2. Audio!Next => AudioP!Next
  BY DEF Audio!Next, Audio!Write, Audio!Flush, Audio!Close, Audio!Advances,
         Audio!Evict, Audio!EndEvict, Audio!DrainWrite, Audio!DrainGone,
         Audio!DrainDone, Audio!CloseDescriptor, Audio!CountTail, Audio!Read,
         Audio!ReaderGone, Audio!Recycle, Audio!Acquire, Audio!Release,
         Audio!Goto, Audio!OverBound, Audio!Room, Audio!OsWrite,
         Audio!queueVars, Audio!endVars, Audio!Bytes, Audio!Size,
         Audio!Advance, Audio!Taken, Audio!NewChunk,
         AudioP!Next, AudioP!Write, AudioP!Flush, AudioP!Close, AudioP!Advances,
         AudioP!Evict, AudioP!EndEvict, AudioP!DrainWrite, AudioP!DrainGone,
         AudioP!DrainDone, AudioP!CloseDescriptor, AudioP!CountTail, AudioP!Read,
         AudioP!ReaderGone, AudioP!Recycle, AudioP!Acquire, AudioP!Release,
         AudioP!Goto, AudioP!OverBound, AudioP!Room, AudioP!OsWrite,
         AudioP!queueVars, AudioP!endVars, AudioP!Bytes, AudioP!Size,
         AudioP!Advance, AudioP!Taken, AudioP!NewChunk
<1>3. UNCHANGED Audio!vars => UNCHANGED AudioP!vars
  BY DEF Audio!vars, AudioP!vars
<1> QED
  BY <1>1, <1>2, <1>3

\* A step of the audio pipe keeps what was proved of it.
LEMMA AudioKept ==
    ASSUME AudioP!IInv, [Audio!Next]_(Audio!vars)
    PROVE  AudioP!IInv'
<1>1. AudioP!IInv /\ [AudioP!Next]_(AudioP!vars) => AudioP!IInv'
  BY AudioP!NextIInv, PipeAssumptions
<1> QED
  BY <1>1, SameAudio

-----------------------------------------------------------------------------
(* What a call does to its pipe, as far as the session can tell.           *)

\* Who calls the audio pipe.
Thread == {"pump", "watchdog"}

\* The places the pipes' proofs keep, spelled out.
LEMMA PipePlaces ==
    ASSUME IInv
    PROVE  /\ aStep \in [Thread -> Audio!Steps]
           /\ aClosed \in BOOLEAN /\ aDropped \in Nat /\ aKernel \in 0 .. AudioCap
           /\ vStep \in {"idle", "evict", "drain", "raised"}
           /\ vStdin \in {"owned", "closed"}
           /\ vClosed \in BOOLEAN /\ vKernel \in 0 .. VideoCap
<1>1. AudioP!TypeOK /\ Video!TypeOK
  BY DEF IInv, AudioP!IInv, VideoIInv
<1> QED
  BY <1>1 DEF AudioP!TypeOK, Video!TypeOK, AudioP!Steps, Audio!Steps, Thread

\* A call that thread t starts.
LEMMA AudioCallStarts ==
    ASSUME aStep \in [Thread -> Audio!Steps], NEW t \in Thread,
           \/ \E n \in AudioChunks : Audio!Write(t, n)
           \/ Audio!Flush(t) \/ Audio!Close(t)
    PROVE  /\ ~aClosed /\ aStep[t] = "idle"
           /\ \A u \in Thread \ {t} : aStep'[u] = aStep[u]
           /\ aDropped' = aDropped
           /\ Audio!Close(t) => aClosed'
           /\ ~Audio!Close(t) => aClosed' = aClosed
BY DEF Audio!Write, Audio!Flush, Audio!Close, Audio!Acquire, Audio!queueVars

\* A call that thread t is in.
LEMMA AudioCallGoesOn ==
    ASSUME aStep \in [Thread -> Audio!Steps], NEW t \in Thread, Audio!Advances(t)
    PROVE  /\ aStep[t] # "idle"
           /\ \A u \in Thread \ {t} : aStep'[u] = aStep[u]
           /\ aClosed' = aClosed
BY DEF Audio!Advances, Audio!Evict, Audio!EndEvict, Audio!DrainWrite, Audio!DrainGone,
       Audio!DrainDone, Audio!CloseDescriptor, Audio!CountTail, Audio!OsWrite,
       Audio!Release, Audio!Goto

\* The pump's call of the video pipe.
LEMMA VideoCallGoesOn ==
    ASSUME Video!Advances
    PROVE  vStep \in {"evict", "drain"} /\ UNCHANGED <<vClosed, vStdin>>
BY DEF Video!Advances, Video!Evict, Video!EndEvict, Video!DrainWrite, Video!DrainRaise,
       Video!DrainDone, Video!OsWrite, Video!endVars

\* What FFmpeg does at the other ends disturbs no call.
LEMMA FFmpegsEnd ==
    ASSUME ReadVideo \/ ReadAudio \/ FFmpegExits
    PROVE  /\ UNCHANGED <<aStep, aClosed, aDropped>>
           /\ UNCHANGED <<vStep, vClosed, vStdin>>
           /\ UNCHANGED <<pumpVars, watchVars, cancel>>
BY DEF ReadVideo, ReadAudio, FFmpegExits, Audio!Read, Audio!ReaderGone, Video!Read,
       Video!ReaderGone, Audio!queueVars, audioVars, videoVars

-----------------------------------------------------------------------------
(* Every step is a step of each pipe.                                      *)

\* A packet's bytes are those of its sink's chunks.
LEMMA BytesOfBody ==
    ASSUME PumpTypes
    PROVE  /\ body.kind = "audio" /\ body.n # 0 => body.n \in AudioChunks
           /\ body.kind # "audio" /\ body.n # 0 => body.n \in VideoChunks
           /\ body.kind \in {"audio", "video"}
BY DEF PumpTypes, Bodies

\* What is done to the audio pipe is what its callers may do.
LEMMA StepsAudio ==
    ASSUME IInv, Next
    PROVE  [Audio!Next]_(Audio!vars)
<1>0. UNCHANGED audioVars => UNCHANGED Audio!vars
  BY DEF audioVars, Audio!vars
<1>1. CASE OfferAudio
  <2>1. body.n \in AudioChunks
    BY <1>1, BytesOfBody DEF OfferAudio, IInv, Bound
  <2> QED
    BY <1>0, <1>1, <2>1 DEF OfferAudio, Audio!Next
<1>2. CASE FlushAudio
  BY <1>0, <1>2 DEF FlushAudio, Audio!Next
<1>3. CASE CloseAudio
  BY <1>0, <1>3 DEF CloseAudio, Audio!Next
<1>4. CASE GiveUpAudio
  BY <1>0, <1>4 DEF GiveUpAudio, Audio!Next
<1>5. ASSUME NEW t \in Thread, InAudioCall(t)
      PROVE  Audio!Next
  BY <1>5 DEF InAudioCall, Audio!Next, Thread
<1>6. CASE ReadAudio
  <2>1. 1 \in 1 .. AudioCap
    BY <1>6, PipePlaces, MediaPumpAssumption DEF ReadAudio, Audio!Read
  <2> QED
    BY <1>6, <2>1 DEF ReadAudio, Audio!Next
<1>7. CASE FFmpegExits
  BY <1>7 DEF FFmpegExits, Audio!Next
<1>8. CASE Handles /\ ~OfferAudio /\ ~FlushAudio /\ ~CloseAudio
  BY <1>0, <1>8
     DEF Handles, BindAudio, AudioOffered, CheckAudio, AudioFlushed, Depacketize,
         VideoWritten, VideoFlushed, VideoRaised, StopWatchdog, JoinWatchdog,
         AudioClosed, CloseVideo, CloseStdin
<1>9. CASE Watches /\ ~GiveUpAudio
  BY <1>0, <1>9 DEF Watches, WatchdogStops, WatchdogJudges, DropReference, AudioGivenUp
<1>10. CASE (\E b \in Bodies : Take(b)) \/ StreamEnds \/ InVideoCall \/ Tick
            \/ ReadVideo \/ Abort
  BY <1>0, <1>10 DEF Take, StreamEnds, InVideoCall, Tick, ReadVideo, Abort
<1> QED
  BY <1>1, <1>2, <1>3, <1>4, <1>5, <1>6, <1>7, <1>8, <1>9, <1>10 DEF Next, Thread

\* And what is done to the video pipe.
LEMMA StepsVideo ==
    ASSUME IInv, Next
    PROVE  [Video!Next]_(Video!vars)
<1>0. UNCHANGED videoVars => UNCHANGED Video!vars
  BY DEF videoVars, Video!vars
<1>1. CASE Depacketize
  <2>1. CASE body.kind = "audio" \/ body.n = 0
    BY <1>0, <1>1, <2>1 DEF Depacketize
  <2>2. CASE ~(body.kind = "audio" \/ body.n = 0)
    <3>1. body.n \in VideoChunks
      BY <2>2, BytesOfBody DEF IInv
    <3> QED
      BY <1>1, <2>2, <3>1 DEF Depacketize, Video!Next
  <2> QED
    BY <2>1, <2>2
<1>2. CASE VideoWritten
  BY <1>2 DEF VideoWritten, Video!Next
<1>3. CASE CloseVideo
  BY <1>3 DEF CloseVideo, Video!Next
<1>4. CASE CloseStdin
  BY <1>4 DEF CloseStdin, Video!Next
<1>5. CASE InVideoCall
  BY <1>5 DEF InVideoCall, Video!Next
<1>6. CASE ReadVideo
  <2>1. 1 \in 1 .. VideoCap
    BY <1>6, PipePlaces, MediaPumpAssumption DEF ReadVideo, Video!Read
  <2> QED
    BY <1>6, <2>1 DEF ReadVideo, Video!Next
<1>7. CASE FFmpegExits
  BY <1>7 DEF FFmpegExits, Video!Next
<1>8. CASE Handles /\ ~Depacketize /\ ~VideoWritten /\ ~CloseVideo /\ ~CloseStdin
  BY <1>0, <1>8
     DEF Handles, BindAudio, OfferAudio, AudioOffered, CheckAudio, FlushAudio,
         AudioFlushed, VideoFlushed, VideoRaised, StopWatchdog, JoinWatchdog,
         CloseAudio, AudioClosed
<1>9. CASE Watches
  BY <1>0, <1>9 DEF Watches, WatchdogStops, WatchdogJudges, DropReference,
                    GiveUpAudio, AudioGivenUp
<1>10. CASE (\E b \in Bodies : Take(b)) \/ StreamEnds \/ Tick \/ ReadAudio \/ Abort
            \/ (\E t \in Thread : InAudioCall(t))
  BY <1>0, <1>10 DEF Take, StreamEnds, Tick, ReadAudio, Abort, InAudioCall
<1> QED
  BY <1>1, <1>2, <1>3, <1>4, <1>5, <1>6, <1>7, <1>8, <1>9, <1>10 DEF Next, Thread
-----------------------------------------------------------------------------
(* The inductive invariant.                                                *)

\* What ties the threads to their pipes.
Relations == Bound /\ AudioCalls /\ VideoCalls /\ Closed

\* It holds when the session starts.
LEMMA InitIInv == Init => IInv
<1> SUFFICES ASSUME Init PROVE IInv
  OBVIOUS
<1> USE DEF Init
<1>1. PumpTypes
  BY MediaPumpAssumption DEF PumpTypes, PumpSteps, Bodies, NoBody
<1>2. WatchTypes
  <2>1. quiet \in 0 .. Stall + 1
    BY MediaPumpAssumption
  <2> QED
    BY <2>1 DEF WatchTypes, WatchSteps
<1>3. AudioP!IInv
  <2>1. AudioP!Init => AudioP!IInv
    BY AudioP!InitIInv, PipeAssumptions
  <2> QED
    BY <2>1, SameAudio
<1>4. VideoIInv
  BY VideoInit
<1>5. Relations
  BY DEF Audio!Init, Video!Init, Relations, Bound, AudioCalls, VideoCalls, Closed, Closing
<1> QED
  BY <1>1, <1>2, <1>3, <1>4, <1>5 DEF IInv, Relations

\* The types of the pump and of the watchdog.
LEMMA NextTypes ==
    ASSUME IInv, Next
    PROVE  PumpTypes' /\ WatchTypes'
<1>0. PumpTypes /\ WatchTypes /\ aDropped \in Nat
  BY PipePlaces DEF IInv
<1>1. CASE UNCHANGED pumpVars /\ UNCHANGED <<watchVars, cancel>>
  BY <1>0, <1>1 DEF PumpTypes, WatchTypes, pumpVars, watchVars
<1>2. ASSUME NEW b \in Bodies, Take(b)
      PROVE  PumpTypes' /\ WatchTypes'
  <2>1. prefix' \in 0 .. Prefix
    BY <1>0, <1>2, MediaPumpAssumption DEF Take, PumpTypes
  <2>2. PumpTypes'
    BY <1>0, <1>2, <2>1 DEF Take, PumpTypes, PumpSteps
  <2> QED
    BY <1>0, <1>2, <2>2 DEF Take, WatchTypes, watchVars
<1>3. CASE Handles \/ StreamEnds
  <2>1. PumpTypes'
    <3>1. CASE AudioClosed
      BY <1>0, <3>1 DEF AudioClosed, PumpTypes, PumpSteps
    <3>2. CASE ~AudioClosed
      <4>1. \E s \in PumpSteps : Goto(s)
        BY <1>3, <3>2
           DEF Handles, StreamEnds, BindAudio, OfferAudio, AudioOffered, CheckAudio,
               FlushAudio, AudioFlushed, Depacketize, VideoWritten, VideoFlushed,
               VideoRaised, StopWatchdog, JoinWatchdog, CloseAudio, CloseVideo,
               CloseStdin, PumpSteps
      <4>2. NoBody \in Bodies
        BY DEF NoBody, Bodies
      <4> QED
        BY <1>0, <4>1, <4>2 DEF Goto, PumpTypes
    <3> QED
      BY <3>1, <3>2
  <2>2. /\ quiet' \in {0, quiet} /\ stop' \in {TRUE, stop}
        /\ UNCHANGED <<sinkAudio, watchdog, cancel>>
    BY <1>3
       DEF Handles, StreamEnds, BindAudio, OfferAudio, AudioOffered, CheckAudio,
           FlushAudio, AudioFlushed, Depacketize, VideoWritten, VideoFlushed,
           VideoRaised, StopWatchdog, JoinWatchdog, CloseAudio, AudioClosed,
           CloseVideo, CloseStdin, watchVars
  <2>3. quiet' \in 0 .. Stall + 1
    BY <1>0, <2>2, MediaPumpAssumption DEF WatchTypes
  <2> QED
    BY <1>0, <2>1, <2>2, <2>3 DEF WatchTypes
<1>4. CASE Watches
  <2>1. PumpTypes'
    BY <1>0, <1>4 DEF Watches, WatchdogStops, WatchdogJudges, DropReference,
                      GiveUpAudio, AudioGivenUp, PumpTypes, pumpVars
  <2>2. /\ watchdog' \in WatchSteps /\ sinkAudio' \in {FALSE, sinkAudio}
        /\ UNCHANGED <<quiet, stop, cancel>>
    BY <1>4 DEF Watches, WatchdogStops, WatchdogJudges, DropReference,
                GiveUpAudio, AudioGivenUp, WatchSteps
  <2> QED
    BY <1>0, <2>1, <2>2 DEF WatchTypes
<1>5. CASE Tick
  <2>1. quiet' \in 0 .. Stall + 1
    BY <1>0, <1>5, MediaPumpAssumption DEF Tick, WatchTypes
  <2> QED
    BY <1>0, <1>5, <2>1 DEF Tick, WatchTypes, PumpTypes, pumpVars
<1>6. CASE Abort
  BY <1>0, <1>6 DEF Abort, WatchTypes, PumpTypes, pumpVars, watchVars
<1>7. CASE (\E t \in Thread : InAudioCall(t)) \/ InVideoCall \/ ReadVideo \/ ReadAudio
           \/ FFmpegExits
  BY <1>1, <1>7, FFmpegsEnd DEF InAudioCall, InVideoCall
<1> QED
  BY <1>2, <1>3, <1>4, <1>5, <1>6, <1>7 DEF Next, Thread

\* A packet that is taken, or the end of the stream.
LEMMA StreamKeeps ==
    ASSUME IInv, (\E b \in Bodies : Take(b)) \/ StreamEnds
    PROVE  Relations'
<1>0. Relations
  BY DEF IInv, Relations
<1>1. UNCHANGED <<aStep, aClosed, aDropped, vStep, vClosed, vStdin, watchdog, audioLost>>
  BY DEF Take, StreamEnds, Goto, audioVars, videoVars, watchVars
<1>2. pump = "next" /\ pump' \in {"bind", "check", "stop"}
      /\ (pump' = "bind" => body'.kind = "audio")
  BY DEF Take, StreamEnds, Goto
<1> QED
  BY <1>0, <1>1, <1>2 DEF Relations, Bound, AudioCalls, VideoCalls, Closed, Closing

\* A packet on its way to its sink.
LEMMA SinkKeeps ==
    ASSUME IInv,
           \/ BindAudio \/ OfferAudio \/ AudioOffered
           \/ CheckAudio \/ FlushAudio \/ AudioFlushed
    PROVE  Relations'
<1>0. Relations /\ "pump" \in Thread /\ aStep \in [Thread -> Audio!Steps]
      /\ PumpTypes
  BY PipePlaces DEF IInv, Relations, Thread
<1>1. UNCHANGED <<vStep, vClosed, vStdin, watchdog, audioLost>>
  BY DEF BindAudio, OfferAudio, AudioOffered, CheckAudio, FlushAudio, AudioFlushed,
         Goto, videoVars, watchVars
<1>2. CASE OfferAudio \/ FlushAudio
  <2>1. aClosed' = aClosed /\ aStep'["watchdog"] = aStep["watchdog"]
    <3>1. CASE UNCHANGED audioVars
      BY <3>1 DEF audioVars
    <3>2. CASE Audio!Write("pump", body.n) \/ Audio!Flush("pump")
      BY <1>0, <3>2 DEF Audio!Write, Audio!Flush, Audio!Acquire, Thread
    <3> QED
      BY <1>2, <3>1, <3>2 DEF OfferAudio, FlushAudio
  <2>2. pump \in {"offer", "flush"} /\ pump' \in {"inOffer", "inFlush"}
    BY <1>2 DEF OfferAudio, FlushAudio, Goto
  <2> QED
    BY <1>0, <1>1, <2>1, <2>2
       DEF Relations, Bound, AudioCalls, VideoCalls, Closed, Closing
<1>3. CASE BindAudio \/ AudioOffered \/ CheckAudio \/ AudioFlushed
  <2>1. UNCHANGED <<aStep, aClosed, aDropped>>
    BY <1>3 DEF BindAudio, AudioOffered, CheckAudio, AudioFlushed, audioVars
  <2>2. /\ pump \in {"bind", "inOffer", "check", "inFlush"}
        /\ pump' \in {"offer", "next", "flush", "depacketize"}
        /\ pump \in {"inOffer", "inFlush"} => aStep["pump"] = "idle"
        /\ pump' = "offer" => pump = "bind" /\ body'.n # 0 /\ body' = body
    BY <1>0, <1>3, MediaPumpAssumption
       DEF BindAudio, AudioOffered, CheckAudio, AudioFlushed, Goto
  <2> QED
    BY <1>0, <1>1, <2>1, <2>2
       DEF Relations, Bound, AudioCalls, VideoCalls, Closed, Closing
<1> QED
  BY <1>2, <1>3

\* The video packet, and FFmpeg gone under it.
LEMMA VideoKeeps ==
    ASSUME IInv, Depacketize \/ VideoWritten \/ VideoFlushed \/ VideoRaised
    PROVE  Relations'
<1>0. Relations /\ vStep \in {"idle", "evict", "drain", "raised"}
  BY PipePlaces DEF IInv, Relations
<1>1. UNCHANGED <<aStep, aClosed, aDropped, watchdog, audioLost>>
  BY DEF Depacketize, VideoWritten, VideoFlushed, VideoRaised, Goto, audioVars, watchVars
<1>2. UNCHANGED <<vClosed, vStdin>>
  BY DEF Depacketize, VideoWritten, VideoFlushed, VideoRaised, videoVars, Video!Write,
         Video!Flush, Video!endVars
<1>3. /\ pump \in {"depacketize", "inVideo", "inVideoFlush"}
      /\ pump' \in {"next", "inVideo", "inVideoFlush", "stop"}
  BY DEF Depacketize, VideoWritten, VideoFlushed, VideoRaised, Goto
<1>4. \/ pump' = "next" /\ vStep' = "idle"
      \/ pump' = "stop" /\ vStep' = "raised"
      \/ pump' \in {"inVideo", "inVideoFlush"}
  <2>1. CASE Depacketize
    BY <1>0, <2>1 DEF Depacketize, Goto, videoVars, Relations, VideoCalls
  <2>2. CASE VideoWritten \/ VideoFlushed \/ VideoRaised
    BY <2>2 DEF VideoWritten, VideoFlushed, VideoRaised, Goto, videoVars
  <2> QED
    BY <2>1, <2>2
<1> QED
  BY <1>0, <1>1, <1>2, <1>3, <1>4
     DEF Relations, Bound, AudioCalls, VideoCalls, Closed, Closing

\* The finally clause.
LEMMA TearDownKeeps ==
    ASSUME IInv,
           \/ StopWatchdog \/ JoinWatchdog \/ CloseAudio \/ AudioClosed
           \/ CloseVideo \/ CloseStdin
    PROVE  Relations'
<1>0. Relations /\ "pump" \in Thread /\ aStep \in [Thread -> Audio!Steps]
      /\ aDropped \in Nat
  BY PipePlaces DEF IInv, Relations, Thread
<1>1. CASE StopWatchdog \/ JoinWatchdog
  <2>1. UNCHANGED <<aStep, aClosed, aDropped, vStep, vClosed, vStdin, watchdog, audioLost>>
    BY <1>1 DEF StopWatchdog, JoinWatchdog, Goto, audioVars, videoVars, watchVars
  <2>2. \/ pump = "stop" /\ pump' = "join"
        \/ pump = "join" /\ pump' = "closeAudio" /\ watchdog = "done"
    BY <1>1 DEF StopWatchdog, JoinWatchdog, Goto
  <2> QED
    BY <1>0, <2>1, <2>2 DEF Relations, Bound, AudioCalls, VideoCalls, Closed, Closing
<1>2. CASE CloseAudio
  <2>1. UNCHANGED <<vStep, vClosed, vStdin, watchdog, audioLost>>
        /\ pump = "closeAudio" /\ pump' = "inClose"
    BY <1>2 DEF CloseAudio, Goto, videoVars, watchVars
  <2>2. aClosed' /\ aStep'["watchdog"] = aStep["watchdog"]
    BY <1>0, <1>2 DEF CloseAudio, Audio!Close, Audio!Acquire, audioVars, Thread
  <2> QED
    BY <1>0, <2>1, <2>2 DEF Relations, Bound, AudioCalls, VideoCalls, Closed, Closing
<1>3. CASE AudioClosed
  <2>1. /\ UNCHANGED <<aStep, aClosed, aDropped, vStep, vClosed, vStdin, watchdog>>
        /\ pump = "inClose" /\ pump' = "closeVideo" /\ aStep["pump"] = "idle"
        /\ audioLost' = aDropped
    BY <1>3 DEF AudioClosed, audioVars, videoVars, watchVars
  <2> QED
    BY <1>0, <2>1 DEF Relations, Bound, AudioCalls, VideoCalls, Closed, Closing
<1>4. CASE CloseVideo
  <2>1. /\ UNCHANGED <<aStep, aClosed, aDropped, vStdin, watchdog, audioLost>>
        /\ pump = "closeVideo" /\ pump' = "closeStdin"
        /\ vStep' = "idle" /\ vClosed'
    BY <1>4 DEF CloseVideo, Goto, audioVars, watchVars, Video!Close
  <2> QED
    BY <1>0, <2>1 DEF Relations, Bound, AudioCalls, VideoCalls, Closed, Closing
<1>5. CASE CloseStdin
  <2>1. /\ UNCHANGED <<aStep, aClosed, aDropped, vStep, vClosed, watchdog, audioLost>>
        /\ pump = "closeStdin" /\ pump' = "done" /\ vStdin' = "closed"
    BY <1>5 DEF CloseStdin, Goto, audioVars, watchVars, Video!CloseStdin
  <2> QED
    BY <1>0, <2>1 DEF Relations, Bound, AudioCalls, VideoCalls, Closed, Closing
<1> QED
  BY <1>1, <1>2, <1>3, <1>4, <1>5

\* The calls as they go on, FFmpeg, the clock and abort().
LEMMA CallKeeps ==
    ASSUME IInv,
           \/ \E t \in Thread : InAudioCall(t)
           \/ InVideoCall \/ Tick \/ ReadVideo \/ ReadAudio \/ FFmpegExits \/ Abort
    PROVE  Relations'
<1>0. Relations /\ aStep \in [Thread -> Audio!Steps]
  BY PipePlaces DEF IInv, Relations
<1>1. ASSUME NEW t \in Thread, InAudioCall(t)
      PROVE  Relations'
  <2>1. /\ aStep[t] # "idle" /\ aClosed' = aClosed
        /\ \A u \in Thread \ {t} : aStep'[u] = aStep[u]
    BY <1>0, <1>1, AudioCallGoesOn DEF InAudioCall
  <2>2. UNCHANGED <<vStep, vClosed, vStdin, pump, body, audioLost, watchdog>>
    BY <1>1 DEF InAudioCall, videoVars, pumpVars, watchVars
  <2>3. AudioCalls' /\ Closed'
    BY <1>0, <2>1, <2>2 DEF Relations, AudioCalls, Closed, Closing, Thread
  <2> QED
    BY <1>0, <2>2, <2>3 DEF Relations, Bound, VideoCalls
<1>2. CASE InVideoCall
  <2>1. vStep \in {"evict", "drain"} /\ UNCHANGED <<vClosed, vStdin>>
    BY <1>2, VideoCallGoesOn DEF InVideoCall
  <2>2. UNCHANGED <<aStep, aClosed, aDropped, pump, body, audioLost, watchdog>>
    BY <1>2 DEF InVideoCall, audioVars, pumpVars, watchVars
  <2> QED
    BY <1>0, <2>1, <2>2 DEF Relations, Bound, AudioCalls, VideoCalls, Closed, Closing
<1>3. CASE Tick \/ Abort \/ ReadVideo \/ ReadAudio \/ FFmpegExits
  <2>1. /\ UNCHANGED <<aStep, aClosed, aDropped, vStep, vClosed, vStdin>>
        /\ UNCHANGED <<pump, body, audioLost, watchdog>>
    BY <1>3, FFmpegsEnd DEF Tick, Abort, audioVars, videoVars, pumpVars, watchVars
  <2> QED
    BY <1>0, <2>1 DEF Relations, Bound, AudioCalls, VideoCalls, Closed
<1> QED
  BY <1>1, <1>2, <1>3

\* The watchdog: it closes the pipe from its own thread, before it is joined.
LEMMA WatchdogKeeps ==
    ASSUME IInv, Watches
    PROVE  Relations'
<1>0. Relations /\ "watchdog" \in Thread /\ aStep \in [Thread -> Audio!Steps]
  BY PipePlaces DEF IInv, Relations, Thread
<1>1. UNCHANGED <<vStep, vClosed, vStdin, pump, body, audioLost>>
  BY DEF Watches, WatchdogStops, WatchdogJudges, DropReference, GiveUpAudio,
         AudioGivenUp, videoVars, pumpVars
<1>2. CASE GiveUpAudio
  <2>1. watchdog = "close" /\ watchdog' = "inClose"
    BY <1>2 DEF GiveUpAudio
  <2>2. (aClosed => aClosed') /\ aStep'["pump"] = aStep["pump"]
    BY <1>0, <1>2 DEF GiveUpAudio, Audio!Close, Audio!Acquire, audioVars, Thread
  <2> QED
    BY <1>0, <1>1, <2>1, <2>2 DEF Relations, Bound, AudioCalls, VideoCalls, Closed, Closing
<1>3. CASE WatchdogStops \/ WatchdogJudges \/ DropReference \/ AudioGivenUp
  <2>1. UNCHANGED <<aStep, aClosed, aDropped>>
    BY <1>3 DEF WatchdogStops, WatchdogJudges, DropReference, AudioGivenUp, audioVars
  <2>2. /\ watchdog # "done"
        /\ watchdog' = "inClose" => FALSE
        /\ watchdog = "inClose" => aStep["watchdog"] = "idle"
    BY <1>3 DEF WatchdogStops, WatchdogJudges, DropReference, AudioGivenUp
  <2> QED
    BY <1>0, <1>1, <2>1, <2>2 DEF Relations, Bound, AudioCalls, VideoCalls, Closed, Closing
<1> QED
  BY <1>2, <1>3 DEF Watches

\* Every step keeps the inductive invariant.
LEMMA NextIInv == IInv /\ [Next]_vars => IInv'
<1> SUFFICES ASSUME IInv, [Next]_vars PROVE IInv'
  OBVIOUS
<1>1. CASE Next
  <2>1. Relations'
    BY <1>1, StreamKeeps, SinkKeeps, VideoKeeps, TearDownKeeps, CallKeeps, WatchdogKeeps
       DEF Next, Handles, Thread
  <2>2. AudioP!IInv'
    BY <1>1, StepsAudio, AudioKept DEF IInv
  <2>3. VideoIInv'
    BY <1>1, StepsVideo, VideoNext DEF IInv
  <2> QED
    BY <1>1, <2>1, <2>2, <2>3, NextTypes DEF IInv, Relations
<1>2. CASE UNCHANGED vars
  <2>1. UNCHANGED Audio!vars /\ UNCHANGED Video!vars
    BY <1>2 DEF vars, audioVars, videoVars, Audio!vars, Video!vars
  <2>2. AudioP!IInv' /\ VideoIInv'
    BY <2>1, AudioKept, VideoNext DEF IInv
  <2>3. PumpTypes' /\ WatchTypes'
    BY <1>2 DEF IInv, PumpTypes, WatchTypes, vars, pumpVars, watchVars
  <2>4. Relations'
    BY <1>2 DEF IInv, Relations, Bound, AudioCalls, VideoCalls, Closed, vars, audioVars,
                videoVars, pumpVars, watchVars
  <2> QED
    BY <2>2, <2>3, <2>4 DEF IInv, Relations
<1> QED
  BY <1>1, <1>2

\* The inductive invariant holds in every state the session reaches.
THEOREM Invariance == Spec => []IInv
BY InitIInv, NextIInv, PTL DEF Spec

-----------------------------------------------------------------------------
(* The properties.                                                         *)

\* Every variable of the session and of its pipes keeps its type.
THEOREM TypeCorrect == Spec => []TypeOK
<1>1. IInv => TypeOK
  <2> SUFFICES ASSUME IInv PROVE TypeOK
    OBVIOUS
  <2>1. Audio!TypeOK
    BY DEF IInv, AudioP!IInv, AudioP!TypeOK, Audio!TypeOK, AudioP!Steps, Audio!Steps,
           AudioP!Chunks, Audio!Chunks
  <2>2. Video!TypeOK
    BY DEF IInv, VideoIInv
  <2> QED
    BY <2>1, <2>2 DEF IInv, PumpTypes, WatchTypes, TypeOK
<1> QED
  BY <1>1, Invariance, PTL

\* The session keeps the audio pipe's contract: what its two threads and FFmpeg
\* do is what the pipe's own model lets its callers do.
THEOREM KeepsAudioContract == Spec => AudioContractSafely
<1>1. Init => Audio!Init
  BY DEF Init
<1>2. IInv /\ [Next]_vars => [Audio!Next]_(Audio!vars)
  <2>1. UNCHANGED vars => UNCHANGED Audio!vars
    BY DEF vars, audioVars, Audio!vars
  <2> QED
    BY <2>1, StepsAudio
<1> QED
  BY <1>1, <1>2, Invariance, PTL DEF Spec, AudioContractSafely

\* No video byte offered is lost without being counted, whoever ends the session.
THEOREM VideoBytesAccounted == Spec => []VideoAccounted
<1>1. IInv => VideoAccounted
  BY DEF IInv, VideoIInv, VideoAccounted
<1> QED
  BY <1>1, Invariance, PTL

\* When the pump is over so is the watchdog, both inputs have ended, and the
\* audio loss it reports is the whole loss.
THEOREM PumpTearsDown == Spec => []TearsDown
<1>1. IInv => TearsDown
  <2> SUFFICES ASSUME IInv PROVE TearsDown
    OBVIOUS
  <2>1. ASSUME pump \in {"closeVideo", "closeStdin", "done"}
        PROVE  aClosed /\ aLock = Nobody /\ watchdog = "done"
    <3>1. aClosed /\ aStep["pump"] = "idle" /\ aStep["watchdog"] = "idle"
          /\ watchdog = "done"
      BY <2>1 DEF IInv, AudioCalls, Closed, Closing
    <3>2. /\ aLock \in Thread \cup {Nobody}
          /\ \A t \in Thread : aStep[t] # "idle" <=> aLock = t
      BY DEF IInv, AudioP!IInv, AudioP!TypeOK, AudioP!Locked, Thread
    <3> QED
      BY <3>1, <3>2 DEF Thread
  <2>2. ASSUME aClosed, aLock = Nobody
        PROVE  aWritten + aDropped = aOffered /\ aFd # "open"
    BY <2>2 DEF IInv, AudioP!IInv, AudioP!TypeOK, AudioP!Phase, AudioP!Accounted,
                AudioP!Bytes
  <2>3. audioLost # -1 => audioLost = aDropped /\ aWritten + aDropped = aOffered
    BY <2>1, <2>2 DEF IInv, Closed
  <2>4. vClosed => vFd # "open"
    BY DEF IInv, VideoIInv, ClosedWithIt
  <2>5. pump = "done" => vClosed /\ vStdin = "closed"
    BY DEF IInv, VideoCalls
  <2> QED
    BY <2>1, <2>2, <2>3, <2>4, <2>5 DEF TearsDown
<1> QED
  BY <1>1, Invariance, PTL
=============================================================================
