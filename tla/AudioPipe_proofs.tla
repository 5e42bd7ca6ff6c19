-------------------------- MODULE AudioPipe_proofs --------------------------
(***************************************************************************)
(* AudioPipe's safety, for any number of threads, any bounds and any chunk  *)
(* sizes.  The inductive invariant adds to the type invariant and the       *)
(* byte accounting what the lock gives: at most one thread is inside a     *)
(* call, and where it is says what the flag and the descriptor are.         *)
(***************************************************************************)
EXTENDS AudioPipe, PipeQueue_proofs

\* The holder of the lock is the one thread inside a call.
Locked == \A t \in Threads : step[t] # "idle" <=> lock = t

\* What each place in a call knows of the flag and of the descriptor.
Phase ==
    /\ \A t \in Threads :
          /\ step[t] \in {"evict", "drain"} => ~closed /\ fd = "open"
          /\ step[t] = "closing" => closed /\ fd = "open"
          /\ step[t] = "counting" => closed /\ fd # "open"
    /\ lock = Nobody /\ ~closed => fd = "open"
    /\ lock = Nobody /\ closed => pending = <<>> /\ fd # "open"

\* Only a write that has not evicted yet leaves the queue over its bound.
BoundedUnlessEvicting ==
    (\A t \in Threads : step[t] # "evict")
        => pendingBytes <= PendingBound \/ Len(pending) <= 1

\* What is proved by induction: the accounting needs the lock and where its holder is.
IInv == TypeOK /\ Accounted /\ Locked /\ Phase /\ BoundedUnlessEvicting

\* It holds of a new pipe.
LEMMA InitIInv == Init => IInv
<1> SUFFICES ASSUME Init PROVE IInv
  OBVIOUS
<1> USE AudioPipeAssumption DEF Init
<1>1. TypeOK
  <2>1. pending \in Seq(Chunks)
    BY pending = <<>>
  <2>2. kernel \in 0 .. PipeCap
    OBVIOUS
  <2> QED
    BY <2>1, <2>2 DEF TypeOK, Steps
<1>2. Accounted
  BY DEF Accounted, Bytes, Contiguous
<1>3. Locked
  BY DEF Locked
<1>4. Phase
  BY DEF Phase
<1>5. BoundedUnlessEvicting
  BY DEF BoundedUnlessEvicting
<1> QED
  BY <1>1, <1>2, <1>3, <1>4, <1>5 DEF IInv

\* While a thread is inside a call every other one is outside.
LEMMA Exclusion ==
    ASSUME IInv, NEW t \in Threads, step[t] # "idle"
    PROVE  /\ lock = t /\ lock # Nobody
           /\ \A u \in Threads \ {t} : step[u] = "idle"
BY AudioPipeAssumption DEF IInv, Locked

-----------------------------------------------------------------------------
(* One lemma per action.                                                   *)

\* write() keeps it: a chunk is copied and queued under the lock, or the pipe is closed.
LEMMA WriteIInv ==
    ASSUME IInv, NEW t \in Threads, NEW n \in ChunkSizes, Write(t, n)
    PROVE  IInv'
<1> USE AudioPipeAssumption DEF Write, Acquire, endVars, IInv
<1>1. n \in Nat \ {0} /\ offered \in Nat /\ pending \in Seq(Chunks)
  BY DEF TypeOK
<1>2. /\ pending' \in Seq(Chunks)
      /\ Contiguous(pending', offered')
      /\ Bytes(pending') = Bytes(pending) + n
  BY <1>1, AppendChunk DEF Accounted
<1>3. TypeOK'
  BY <1>1, <1>2 DEF TypeOK, Steps
<1>4. Accounted'
  <2>1. /\ written + dropped + pendingBytes = offered
        /\ written \in Nat /\ dropped \in Nat /\ pendingBytes \in Nat
    BY DEF Accounted, TypeOK
  <2>2. written' + dropped' + pendingBytes' = offered'
    BY <1>1, <2>1
  <2>3. pendingBytes' = Bytes(pending')
    BY <1>2 DEF Accounted
  <2> QED
    BY <1>2, <2>2, <2>3 DEF Accounted
<1>5. Locked'
  BY DEF Locked, TypeOK
<1>6. Phase'
  BY DEF Phase, Locked, TypeOK
<1>7. BoundedUnlessEvicting'
  BY DEF BoundedUnlessEvicting, TypeOK
<1> QED
  BY <1>3, <1>4, <1>5, <1>6, <1>7

\* The eviction keeps it: each chunk it takes off the queue is counted as dropped.
LEMMA EvictIInv ==
    ASSUME IInv, NEW t \in Threads, Evict(t)
    PROVE  IInv'
<1> USE AudioPipeAssumption DEF Evict, endVars, IInv
<1>1. pending \in Seq(Chunks) /\ offered \in Nat /\ pending # <<>>
  BY DEF TypeOK, OverBound
<1>2. /\ pending' \in Seq(Chunks)
      /\ Contiguous(pending', offered)
      /\ Bytes(pending') = Bytes(pending) - Size(pending[1])
  BY <1>1, PopChunk DEF Accounted
<1>3. Size(pending[1]) \in Nat /\ Size(pending[1]) <= pendingBytes
  BY <1>1, BytesOfQueue DEF Accounted
<1>4. TypeOK'
  BY <1>2, <1>3, SMTT(30) DEF TypeOK, Accounted
<1>5. Accounted'
  <2>1. /\ written + dropped + pendingBytes = offered
        /\ written \in Nat /\ dropped \in Nat /\ pendingBytes \in Nat
        /\ pendingBytes = Bytes(pending)
    BY DEF Accounted, TypeOK
  <2>2. /\ written' = written /\ dropped' = dropped + Size(pending[1])
        /\ pendingBytes' = pendingBytes - Size(pending[1]) /\ offered' = offered
    BY <1>2, <2>1
  <2> HIDE DEF Evict, IInv
  <2>3. written' + dropped' + pendingBytes' = offered'
    BY <1>3, <2>1, <2>2
  <2>4. pendingBytes' = Bytes(pending') /\ Contiguous(pending', offered')
    BY <1>2, <2>1, <2>2
  <2> QED
    BY <2>3, <2>4 DEF Accounted
<1>6. Locked'
  BY DEF Locked
<1>7. Phase'
  BY <1>1, Exclusion DEF Phase
<1>8. BoundedUnlessEvicting'
  BY DEF BoundedUnlessEvicting
<1> QED
  BY <1>4, <1>5, <1>6, <1>7, <1>8

\* The steps that only move a thread to _drain, from write() or from flush().
LEMMA EnterDrainIInv ==
    ASSUME IInv, NEW t \in Threads, EndEvict(t) \/ Flush(t)
    PROVE  IInv'
<1> USE AudioPipeAssumption DEF EndEvict, Flush, Acquire, Goto, endVars, queueVars, IInv
<1>1. TypeOK'
  BY DEF TypeOK, Steps
<1>2. Accounted'
  BY DEF Accounted
<1>3. Locked'
  BY DEF Locked, TypeOK
<1>4. Phase'
  BY Exclusion DEF Phase, Locked, TypeOK
<1>5. BoundedUnlessEvicting'
  <2>1. CASE EndEvict(t)
    <3>1. PendingBound \in Nat /\ pendingBytes \in Nat /\ Len(pending) \in Nat
      BY DEF TypeOK
    <3> QED
      BY <2>1, <3>1 DEF BoundedUnlessEvicting, OverBound
  <2>2. CASE Flush(t)
    <3>1. \A u \in Threads : step[u] = "idle"
      BY <2>2 DEF Locked
    <3> QED
      BY <2>2, <3>1 DEF BoundedUnlessEvicting
  <2> QED
    BY <2>1, <2>2
<1> QED
  BY <1>1, <1>2, <1>3, <1>4, <1>5

\* One os.write of _drain keeps it, whatever part of the chunk the pipe takes.
LEMMA DrainWriteIInv ==
    ASSUME IInv, NEW t \in Threads, DrainWrite(t)
    PROVE  IInv'
<1> DEFINE n == Taken(pending[1], Room)
<1> USE AudioPipeAssumption DEF IInv
<1>1. /\ pending \in Seq(Chunks) /\ offered \in Nat /\ pending # <<>>
      /\ Room \in Nat /\ kernel \in Nat
  BY DEF DrainWrite, TypeOK, Room
<1>2. /\ pending[1] \in Chunks /\ Size(pending[1]) \in Nat \ {0}
      /\ Size(pending[1]) <= pendingBytes
  BY <1>1, BytesOfQueue DEF Accounted
<1>3. n \in 0 .. Size(pending[1]) /\ n <= Room
  BY <1>1, <1>2, TakenFits
<1>4. OsWrite(t, n) /\ step[t] = "drain"
  BY DEF DrainWrite
<1> HIDE DEF n
<1>5. /\ pending' \in Seq(Chunks)
      /\ Contiguous(pending', offered)
      /\ Bytes(pending') = Bytes(pending) - n
      /\ Len(pending') <= Len(pending)
  BY <1>1, <1>3, <1>4, AdvanceQueue DEF OsWrite, Accounted
<1>6. kernel' \in 0 .. PipeCap
  BY <1>1, <1>3, <1>4 DEF OsWrite, Room, TypeOK
<1>7. pendingBytes' \in Nat /\ written' \in Nat /\ pendingBytes' <= pendingBytes
  BY <1>2, <1>3, <1>4 DEF OsWrite, TypeOK
<1>8. TypeOK'
  BY <1>4, <1>5, <1>6, <1>7 DEF OsWrite, Release, TypeOK, Steps
<1>9. Accounted'
  BY <1>2, <1>3, <1>4, <1>5 DEF OsWrite, Accounted, TypeOK
<1>10. Locked'
  BY <1>4, Exclusion DEF OsWrite, Release, Locked, TypeOK
<1>11. Phase'
  BY <1>4, Exclusion DEF OsWrite, Release, Phase, TypeOK
<1>12. BoundedUnlessEvicting'
  <2>1. \A u \in Threads : step[u] # "evict"
    BY <1>4, Exclusion
  <2>2. Len(pending) \in Nat /\ Len(pending') \in Nat /\ PendingBound \in Nat
    BY <1>1, <1>5
  <2> QED
    BY <1>5, <1>7, <2>1, <2>2 DEF BoundedUnlessEvicting, TypeOK
<1> QED
  BY <1>8, <1>9, <1>10, <1>11, <1>12

\* The steps that count the whole queue as lost: the reader is gone, or the
\* pipe was closed.
LEMMA LoseQueueIInv ==
    ASSUME IInv, NEW t \in Threads, DrainGone(t) \/ CountTail(t)
    PROVE  IInv'
<1> USE AudioPipeAssumption DEF DrainGone, CountTail, Release, endVars, IInv
<1>1. TypeOK'
  <2>1. pending' \in Seq(Chunks)
    BY pending' = <<>>
  <2> QED
    BY <2>1, SMTT(30) DEF TypeOK, Steps
<1>2. Accounted'
  BY SMTT(30) DEF Accounted, TypeOK, Bytes, Contiguous
<1>3. Locked'
  BY Exclusion DEF Locked, TypeOK
<1>4. Phase'
  BY Exclusion DEF Phase, TypeOK
<1>5. BoundedUnlessEvicting'
  BY DEF BoundedUnlessEvicting
<1> QED
  BY <1>1, <1>2, <1>3, <1>4, <1>5

\* The end of a drain keeps it, and gives the lock back.
LEMMA DrainDoneIInv ==
    ASSUME IInv, NEW t \in Threads, DrainDone(t)
    PROVE  IInv'
<1> USE AudioPipeAssumption DEF DrainDone, Release, endVars, queueVars, IInv
<1>1. TypeOK'
  BY DEF TypeOK, Steps
<1>2. Accounted'
  BY DEF Accounted
<1>3. Locked'
  BY Exclusion DEF Locked, TypeOK
<1>4. Phase'
  BY Exclusion DEF Phase, TypeOK
<1>5. BoundedUnlessEvicting'
  BY DEF BoundedUnlessEvicting
<1> QED
  BY <1>1, <1>2, <1>3, <1>4, <1>5

\* Both halves of close() keep it: the queue goes before the descriptor.
LEMMA CloseIInv ==
    ASSUME IInv, NEW t \in Threads, Close(t) \/ CloseDescriptor(t)
    PROVE  IInv'
<1> USE AudioPipeAssumption
    DEF Close, CloseDescriptor, Acquire, Goto, endVars, queueVars, IInv
<1>1. TypeOK'
  BY DEF TypeOK, Steps
<1>2. Accounted'
  BY DEF Accounted
<1>3. Locked'
  BY DEF Locked, TypeOK
<1>4. Phase'
  BY Exclusion DEF Phase, Locked, TypeOK
<1>5. BoundedUnlessEvicting'
  <2>1. \A u \in Threads : step[u] # "evict"
    BY Exclusion DEF Locked
  <2> QED
    BY <2>1 DEF BoundedUnlessEvicting
<1> QED
  BY <1>1, <1>2, <1>3, <1>4, <1>5

\* FFmpeg's end, and the rest of the process.
LEMMA EnvironmentIInv ==
    ASSUME IInv,
           (\E n \in 1 .. PipeCap : Read(n)) \/ ReaderGone \/ Recycle
    PROVE  IInv'
<1> USE AudioPipeAssumption DEF Read, ReaderGone, Recycle, queueVars, IInv
<1>1. TypeOK'
  BY DEF TypeOK
<1>2. Accounted'
  BY DEF Accounted
<1>3. Locked'
  BY DEF Locked
<1>4. Phase'
  BY DEF Phase
<1>5. BoundedUnlessEvicting'
  BY DEF BoundedUnlessEvicting
<1> QED
  BY <1>1, <1>2, <1>3, <1>4, <1>5

\* Every step keeps it.
LEMMA NextIInv == IInv /\ [Next]_vars => IInv'
<1> SUFFICES ASSUME IInv, [Next]_vars PROVE IInv'
  OBVIOUS
<1>1. ASSUME NEW t \in Threads, NEW n \in ChunkSizes, Write(t, n)
      PROVE  IInv'
  BY <1>1, WriteIInv
<1>2. ASSUME NEW t \in Threads, Flush(t)
      PROVE  IInv'
  BY <1>2, EnterDrainIInv
<1>3. ASSUME NEW t \in Threads, Close(t)
      PROVE  IInv'
  BY <1>3, CloseIInv
<1>4. ASSUME NEW t \in Threads, Advances(t)
      PROVE  IInv'
  BY <1>4, EvictIInv, EnterDrainIInv, DrainWriteIInv, LoseQueueIInv,
     DrainDoneIInv, CloseIInv DEF Advances
<1>5. CASE (\E n \in 1 .. PipeCap : Read(n)) \/ ReaderGone \/ Recycle
  BY <1>5, EnvironmentIInv
<1>6. CASE UNCHANGED vars
  BY <1>6 DEF vars, IInv, TypeOK, Accounted, Locked, Phase, BoundedUnlessEvicting
<1> QED
  BY <1>1, <1>2, <1>3, <1>4, <1>5, <1>6 DEF Next

\* The strengthened invariant holds in every reachable state.
THEOREM Invariance == Spec => []IInv
BY InitIInv, NextIInv, PTL DEF Spec

-----------------------------------------------------------------------------
(* The properties.                                                         *)

\* Every variable keeps its type; the byte count never goes below zero and the
\* kernel's pipe never above its capacity.
THEOREM TypeCorrect == Spec => []TypeOK
<1>1. IInv => TypeOK
  BY DEF IInv
<1> QED
  BY <1>1, Invariance, PTL

\* No byte offered is ever lost without being counted.
THEOREM BytesAccounted == Spec => []Accounted
<1>1. IInv => Accounted
  BY DEF IInv
<1> QED
  BY <1>1, Invariance, PTL

\* No write and no close ever reaches a descriptor number that was released.
THEOREM DescriptorIsSafe == Spec => []DescriptorSafe
<1>1. IInv => DescriptorSafe
  BY DEF IInv, DescriptorSafe, Phase, Locked
<1> QED
  BY <1>1, Invariance, PTL

\* Between calls the queue is within its bound, or one chunk.
THEOREM QueueIsBounded == Spec => []Bounded
<1>1. IInv => Bounded
  BY AudioPipeAssumption DEF IInv, Bounded, BoundedUnlessEvicting, Locked
<1> QED
  BY <1>1, Invariance, PTL

\* The loss the session reads after close() is the whole loss.
THEOREM LossIsFinal == Spec => []CountIsFinal
<1>1. IInv => CountIsFinal
  BY DEF IInv, CountIsFinal, Phase, Accounted, Bytes, TypeOK
<1> QED
  BY <1>1, Invariance, PTL

-----------------------------------------------------------------------------
(* Framing.                                                                *)

\* Every chunk in the pipe's queue is whole.
WholeQueue == AllWhole(pending)

\* While every write fits PIPE_BUF a step leaves whole chunks whole.
LEMMA NextWhole ==
    ASSUME SmallChunks, IInv, WholeQueue, [Next]_vars
    PROVE  WholeQueue'
<1> USE DEF WholeQueue
<1>0. pending \in Seq(Chunks) /\ offered \in Nat /\ Contiguous(pending, offered)
  BY DEF IInv, TypeOK, Accounted
<1>1. ASSUME NEW t \in Threads, NEW n \in ChunkSizes, Write(t, n)
      PROVE  WholeQueue'
  <2>1. n \in Nat /\ n <= PipeBuf
    BY AudioPipeAssumption DEF SmallChunks
  <2> QED
    BY <1>0, <1>1, <2>1, AppendWhole DEF Write
<1>2. ASSUME NEW t \in Threads, Evict(t)
      PROVE  WholeQueue'
  <2>1. pending # <<>> /\ pending' = Tail(pending)
    BY <1>0, <1>2 DEF Evict, OverBound
  <2> QED
    BY <1>0, <2>1, TailWhole
<1>3. ASSUME NEW t \in Threads, DrainWrite(t)
      PROVE  WholeQueue'
  <2>1. Room \in Nat
    BY AudioPipeAssumption DEF IInv, TypeOK, Room
  <2>2. pending # <<>> /\ pending' = Advance(pending, Taken(pending[1], Room))
    BY <1>3 DEF DrainWrite, OsWrite
  <2> QED
    BY <1>0, <2>1, <2>2, WriteWhole
<1>4. ASSUME NEW t \in Threads, DrainGone(t) \/ CountTail(t)
      PROVE  WholeQueue'
  BY <1>4 DEF DrainGone, CountTail, AllWhole
<1>5. ASSUME UNCHANGED pending
      PROVE  WholeQueue'
  BY <1>5
<1>6. ASSUME NEW t \in Threads,
             \/ EndEvict(t) \/ Flush(t) \/ DrainDone(t)
             \/ Close(t) \/ CloseDescriptor(t)
      PROVE  UNCHANGED pending
  BY <1>6 DEF EndEvict, Flush, DrainDone, Close, CloseDescriptor, queueVars
<1>7. ASSUME (\E n \in 1 .. PipeCap : Read(n)) \/ ReaderGone \/ Recycle
      PROVE  UNCHANGED pending
  BY <1>7 DEF Read, ReaderGone, Recycle, queueVars
<1> QED
  BY <1>1, <1>2, <1>3, <1>4, <1>5, <1>6, <1>7 DEF Next, Advances, vars

\* While every write fits PIPE_BUF, the bound throws whole chunks away.  The
\* assumption is needed: VideoPipe shows what a longer chunk costs.
THEOREM FramesStayWhole ==
    ASSUME SmallChunks
    PROVE  Spec => WholeFrames
<1>1. Init => WholeQueue
  BY DEF Init, WholeQueue, AllWhole
<1>2. IInv /\ WholeQueue /\ [Next]_vars => WholeQueue'
  BY NextWhole
<1>3. IInv /\ WholeQueue => \A t \in Threads : Evict(t) => Whole(pending[1])
  <2> SUFFICES ASSUME IInv, WholeQueue, NEW t \in Threads, Evict(t)
               PROVE  Whole(pending[1])
    OBVIOUS
  <2>1. 1 \in 1 .. Len(pending)
    BY DEF Evict, OverBound, IInv, TypeOK
  <2> QED
    BY <2>1 DEF WholeQueue, AllWhole
<1> QED
  BY <1>1, <1>2, <1>3, Invariance, PTL DEF Spec, WholeFrames

-----------------------------------------------------------------------------
(* Refinement.                                                             *)

\* A new pipe has promised nothing yet.
LEMMA InitPromise == Init => Promise!Init
BY DEF Init, Promise!Init

\* How far the promise's queue reaches: what it holds is what is pending.
LEMMA HeldIsPending ==
    ASSUME IInv
    PROVE  Promise!Held = pendingBytes
BY DEF Promise!Held, IInv, TypeOK

\* Each step of the pipe is a step of LossyPipe, or one it does not see.
LEMMA NextPromise ==
    ASSUME IInv, IInv', [Next]_vars
    PROVE  [Promise!Next]_(Promise!vars)
<1> USE AudioPipeAssumption
<1>1. /\ offered \in Nat /\ pendingBytes \in Nat /\ dropped \in Nat /\ written \in Nat
      /\ closed \in BOOLEAN /\ Promise!Held = pendingBytes
  BY HeldIsPending DEF IInv, TypeOK
<1>2. ASSUME NEW t \in Threads, NEW n \in ChunkSizes, Write(t, n)
      PROVE  Promise!Offer
  <2>1. n \in 1 .. MaxOffered
    BY <1>1, <1>2 DEF Write
  <2> QED
    BY <1>1, <1>2, <2>1 DEF Write, Promise!Offer, endVars
<1>3. ASSUME NEW t \in Threads, Evict(t)
      PROVE  Promise!Lose
  <2>1. pending \in Seq(Chunks) /\ pending # <<>> /\ Contiguous(pending, offered)
    BY <1>3 DEF Evict, OverBound, IInv, TypeOK, Accounted
  <2>2. Size(pending[1]) \in 1 .. pendingBytes
    BY <1>1, <2>1, BytesOfQueue DEF IInv, Accounted
  <2>a. pendingBytes' = Bytes(Tail(pending)) /\ pendingBytes = Bytes(pending)
    BY <1>3 DEF IInv, Accounted, Evict
  <2>b. pendingBytes' = pendingBytes - Size(pending[1])
    BY <1>1, <2>1, <2>a, PopChunk
  <2>3. pendingBytes > PendingBound
    BY <1>3 DEF Evict, OverBound
  <2> QED
    <3> DEFINE k == Size(pending[1])
    <3>1. dropped' = dropped + k /\ UNCHANGED <<closed, reader, offered, written>>
      BY <1>3 DEF Evict, endVars
    <3>2. k \in 1 .. pendingBytes /\ pendingBytes' = pendingBytes - k
      BY <2>2, <2>b
    <3> HIDE DEF k
    <3> QED
      BY <1>1, <2>3, <3>1, <3>2 DEF Promise!Lose
<1>4. ASSUME NEW t \in Threads, DrainWrite(t)
      PROVE  Promise!Deliver \/ UNCHANGED Promise!vars
  <2> DEFINE n == Taken(pending[1], Room)
  <2>1. /\ pending \in Seq(Chunks) /\ pending # <<>> /\ Contiguous(pending, offered)
        /\ Room \in Nat
    BY <1>4 DEF DrainWrite, IInv, TypeOK, Accounted, Room
  <2>2. n \in 0 .. pendingBytes
    <3>1. /\ pending[1] \in Chunks /\ Size(pending[1]) \in Nat \ {0}
          /\ Size(pending[1]) <= pendingBytes
      BY <1>1, <2>1, BytesOfQueue DEF IInv, Accounted
    <3>2. n \in 0 .. Size(pending[1])
      BY <2>1, <3>1, TakenFits
    <3> HIDE DEF n
    <3> QED
      BY <1>1, <3>1, <3>2
  <2>3. /\ written' = written + n /\ pendingBytes' = pendingBytes - n
        /\ UNCHANGED <<dropped, closed, reader, offered>>
    BY <1>4 DEF DrainWrite, OsWrite
  <2>4. reader = "alive" /\ ~closed
    BY <1>4 DEF DrainWrite, IInv, Phase
  <2> HIDE DEF n
  <2>5. CASE n = 0
    BY <1>1, <2>3, <2>5 DEF Promise!vars
  <2>6. CASE n \in 1 .. pendingBytes
    BY <1>1, <2>3, <2>4, <2>6 DEF Promise!Deliver
  <2> QED
    BY <1>1, <2>2, <2>5, <2>6
<1>5. ASSUME NEW t \in Threads, DrainGone(t) \/ CountTail(t)
      PROVE  Promise!Lose \/ UNCHANGED Promise!vars
  <2>1. /\ dropped' = dropped + pendingBytes /\ pendingBytes' = 0
        /\ UNCHANGED <<closed, reader, offered, written>>
    BY <1>5 DEF DrainGone, CountTail, endVars
  <2>2. closed \/ reader = "gone"
    BY <1>5 DEF DrainGone, CountTail, IInv, Phase
  <2>3. CASE pendingBytes = 0
    BY <1>1, <2>1, <2>3 DEF Promise!vars
  <2>4. CASE pendingBytes \in 1 .. pendingBytes
    BY <1>1, <2>1, <2>2, <2>4 DEF Promise!Lose
  <2> QED
    BY <1>1, <2>3, <2>4
<1>6. ASSUME NEW t \in Threads, Close(t)
      PROVE  Promise!Close
  BY <1>1, <1>6 DEF Close, Promise!Close, queueVars, endVars
<1>7. ASSUME ReaderGone
      PROVE  Promise!ReaderGone
  BY <1>1, <1>7 DEF ReaderGone, Promise!ReaderGone, queueVars
<1>8. ASSUME NEW t \in Threads,
             EndEvict(t) \/ Flush(t) \/ DrainDone(t) \/ CloseDescriptor(t)
      PROVE  UNCHANGED Promise!vars
  BY <1>8 DEF EndEvict, Flush, DrainDone, CloseDescriptor, Promise!vars,
              queueVars, endVars
<1>9. ASSUME (\E n \in 1 .. PipeCap : Read(n)) \/ Recycle \/ UNCHANGED vars
      PROVE  UNCHANGED Promise!vars
  BY <1>9 DEF Read, Recycle, Promise!vars, queueVars, vars
<1> QED
  BY <1>2, <1>3, <1>4, <1>5, <1>6, <1>7, <1>8, <1>9
     DEF Next, Advances, Promise!Next

\* AudioPipe implements LossyPipe: every loss has its reason and its count, and
\* what is delivered is the oldest of what was offered and not lost.
THEOREM ImplementsPromise == Spec => KeepsPromiseSafely
<1>1. IInv /\ IInv' /\ [Next]_vars => [Promise!Next]_(Promise!vars)
  BY NextPromise
<1> QED
  BY <1>1, InitPromise, Invariance, PTL DEF Spec, KeepsPromiseSafely
=============================================================================
