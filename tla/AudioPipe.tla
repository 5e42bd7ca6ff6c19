----------------------------- MODULE AudioPipe -----------------------------
(***************************************************************************)
(* session.py `_AudioPipe`: the write end of the pipe FFmpeg reads the      *)
(* audio from, used by the pump thread, the stall watchdog and the thread   *)
(* of run().  `_lock` is held for the whole of write, flush and close, and  *)
(* the steps below are what another thread of the process, or FFmpeg at the *)
(* other end, can see between: one eviction, one os.write, the flag, the    *)
(* os.close, the final count.                                               *)
(*                                                                         *)
(* A write or a flush of a closed pipe, and a second close, return at once  *)
(* and change nothing: they are stuttering steps.                           *)
(***************************************************************************)
EXTENDS PipeQueue

CONSTANTS
    Threads,        \* the threads that hold a reference to the pipe
    Nobody,         \* the holder of a free lock
    PendingBound,   \* _AUDIO_PENDING_BYTES
    PipeCap,        \* what the kernel's pipe holds
    ChunkSizes,     \* lengths of the writes
    MaxOffered      \* bound: bytes offered in a behaviour

ASSUME AudioPipeAssumption ==
    /\ Nobody \notin Threads
    /\ PendingBound \in Nat /\ PipeCap \in Nat /\ MaxOffered \in Nat
    /\ ChunkSizes \subseteq Nat \ {0}

VARIABLES
    pending,        \* _pending
    pendingBytes,   \* _pending_bytes
    dropped,        \* dropped
    closed,         \* _closed
    lock,           \* who holds _lock
    step,           \* where each thread is inside write, flush or close
    fd,             \* what the descriptor number names
    kernel,         \* bytes in the kernel's pipe, not read yet
    reader,         \* FFmpeg's end of it
    offered,        \* history: bytes offered to write()
    written         \* history: bytes os.write took

queueVars == <<pending, pendingBytes, dropped>>
endVars   == <<fd, kernel, reader>>
vars == <<pending, pendingBytes, dropped, closed, lock, step, fd, kernel,
          reader, offered, written>>

Steps == {"idle", "evict", "drain", "closing", "counting"}

TypeOK ==
    /\ pending \in Seq(Chunks)
    /\ pendingBytes \in Nat /\ dropped \in Nat
    /\ closed \in BOOLEAN
    /\ lock \in Threads \cup {Nobody}
    /\ step \in [Threads -> Steps]
    /\ fd \in {"open", "shut", "recycled"}
    /\ kernel \in 0 .. PipeCap
    /\ reader \in {"alive", "gone"}
    /\ offered \in Nat /\ written \in Nat

Init ==
    /\ pending = <<>> /\ pendingBytes = 0 /\ dropped = 0
    /\ closed = FALSE
    /\ lock = Nobody /\ step = [t \in Threads |-> "idle"]
    /\ fd = "open" /\ kernel = 0 /\ reader = "alive"
    /\ offered = 0 /\ written = 0

-----------------------------------------------------------------------------
\* `with self._lock:` entered by t, which goes on at s.
Acquire(t, s) ==
    /\ lock = Nobody /\ step[t] = "idle"
    /\ lock' = t /\ step' = [step EXCEPT ![t] = s]

Release(t) == lock' = Nobody /\ step' = [step EXCEPT ![t] = "idle"]

Goto(t, s) == step' = [step EXCEPT ![t] = s] /\ UNCHANGED lock

\* Mutant: write() does not look at _closed.
Write_NoFlag(t, n) ==
    /\ offered + n <= MaxOffered
    /\ Acquire(t, "evict")
    /\ pending' = Append(pending, NewChunk(offered, n))
    /\ pendingBytes' = pendingBytes + n
    /\ offered' = offered + n
    /\ UNCHANGED <<dropped, closed, endVars, written>>

\* write(): the chunk joins the queue.
Write(t, n) ==
    /\ ~closed
    /\ offered + n <= MaxOffered
    /\ Acquire(t, "evict")
    /\ pending' = Append(pending, NewChunk(offered, n))
    /\ pendingBytes' = pendingBytes + n
    /\ offered' = offered + n
    /\ UNCHANGED <<dropped, closed, endVars, written>>

OverBound == pendingBytes > PendingBound /\ Len(pending) > 1

\* One turn of write()'s while loop: the oldest chunk goes, counted, and the
\* bytes are summed again.
Evict(t) ==
    /\ step[t] = "evict" /\ OverBound
    /\ dropped' = dropped + Size(pending[1])
    /\ pending' = Tail(pending)
    /\ pendingBytes' = Bytes(pending')
    /\ UNCHANGED <<closed, lock, step, endVars, offered, written>>

\* Mutant: `if` instead of `while`.
EndEvict_Once(t) ==
    /\ step[t] = "evict"
    /\ Goto(t, "drain")
    /\ UNCHANGED <<queueVars, closed, endVars, offered, written>>

\* The loop is over and _drain starts.
EndEvict(t) ==
    /\ step[t] = "evict" /\ ~OverBound
    /\ Goto(t, "drain")
    /\ UNCHANGED <<queueVars, closed, endVars, offered, written>>

\* flush(): _drain on an open pipe.
Flush(t) ==
    /\ ~closed
    /\ Acquire(t, "drain")
    /\ UNCHANGED <<queueVars, closed, endVars, offered, written>>

\* What os.write leaves behind when it took n bytes of the head: all of it,
\* and _drain's loop goes on, or less, and _drain returns.
OsWrite(t, n) ==
    /\ written' = written + n
    /\ kernel' = kernel + n
    /\ pendingBytes' = pendingBytes - n
    /\ pending' = Advance(pending, n)
    /\ IF n = Size(pending[1]) THEN UNCHANGED <<lock, step>> ELSE Release(t)
    /\ UNCHANGED <<dropped, closed, fd, reader, offered>>

Room == PipeCap - kernel

\* Mutant: the byte count loses the whole chunk, whatever os.write took.
DrainWrite_WholeChunk(t) ==
    LET n == Taken(pending[1], Room) IN
    /\ step[t] = "drain" /\ pending # <<>> /\ reader = "alive"
    /\ written' = written + n
    /\ kernel' = kernel + n
    /\ pendingBytes' = pendingBytes - Size(pending[1])
    /\ pending' = Advance(pending, n)
    /\ IF n = Size(pending[1]) THEN UNCHANGED <<lock, step>> ELSE Release(t)
    /\ UNCHANGED <<dropped, closed, fd, reader, offered>>

\* Mutant: the descriptor was left blocking.
DrainWrite_Blocking(t) ==
    /\ step[t] = "drain" /\ pending # <<>> /\ reader = "alive"
    /\ Taken(pending[1], Room) > 0
    /\ OsWrite(t, Taken(pending[1], Room))

\* Mutant: a slice of the chunk is offered to os.write.
DrainWrite_Slice(t) ==
    /\ step[t] = "drain" /\ pending # <<>> /\ reader = "alive"
    /\ OsWrite(t, IF Room > 0 THEN 1 ELSE 0)

\* One os.write of _drain's loop; it takes 0 bytes for a BlockingIOError.
DrainWrite(t) ==
    /\ step[t] = "drain" /\ pending # <<>> /\ reader = "alive"
    /\ OsWrite(t, Taken(pending[1], Room))

\* Mutant: the queue is thrown away uncounted.
DrainGone_Uncounted(t) ==
    /\ step[t] = "drain" /\ pending # <<>> /\ reader = "gone"
    /\ pending' = <<>> /\ pendingBytes' = 0
    /\ Release(t)
    /\ UNCHANGED <<dropped, closed, endVars, offered, written>>

\* os.write raises another OSError: nobody reads any more.
DrainGone(t) ==
    /\ step[t] = "drain" /\ pending # <<>> /\ reader = "gone"
    /\ dropped' = dropped + pendingBytes
    /\ pending' = <<>> /\ pendingBytes' = 0
    /\ Release(t)
    /\ UNCHANGED <<closed, endVars, offered, written>>

DrainDone(t) ==
    /\ step[t] = "drain" /\ pending = <<>>
    /\ Release(t)
    /\ UNCHANGED <<queueVars, closed, endVars, offered, written>>

\* Mutant: close() without the lock.
Close_Unlocked(t) ==
    /\ ~closed
    /\ step[t] = "idle"
    /\ Goto(t, "closing")
    /\ closed' = TRUE
    /\ UNCHANGED <<queueVars, endVars, offered, written>>

\* close(): the flag first, then the descriptor, then the count of the tail.
Close(t) ==
    /\ ~closed
    /\ Acquire(t, "closing")
    /\ closed' = TRUE
    /\ UNCHANGED <<queueVars, endVars, offered, written>>

CloseDescriptor(t) ==
    /\ step[t] = "closing"
    /\ fd' = "shut"
    /\ Goto(t, "counting")
    /\ UNCHANGED <<queueVars, closed, kernel, reader, offered, written>>

\* Mutant: the tail still queued is not counted.
CountTail_Discard(t) ==
    /\ step[t] = "counting"
    /\ pending' = <<>> /\ pendingBytes' = 0
    /\ Release(t)
    /\ UNCHANGED <<dropped, closed, endVars, offered, written>>

CountTail(t) ==
    /\ step[t] = "counting"
    /\ dropped' = dropped + pendingBytes
    /\ pending' = <<>> /\ pendingBytes' = 0
    /\ Release(t)
    /\ UNCHANGED <<closed, endVars, offered, written>>

\* The rest of a call that holds the lock.
Advances(t) ==
    \/ Evict(t) \/ EndEvict(t)
    \/ DrainWrite(t) \/ DrainGone(t) \/ DrainDone(t)
    \/ CloseDescriptor(t) \/ CountTail(t)

-----------------------------------------------------------------------------
\* FFmpeg reads, in pieces of its own size, or dies.
Read(n) ==
    /\ reader = "alive" /\ n <= kernel
    /\ kernel' = kernel - n
    /\ UNCHANGED <<queueVars, closed, lock, step, fd, reader, offered, written>>

ReaderGone ==
    /\ reader = "alive" /\ reader' = "gone"
    /\ UNCHANGED <<queueVars, closed, lock, step, fd, kernel, offered, written>>

\* Another thread of the process opens a file or a socket and gets the number.
Recycle ==
    /\ fd = "shut" /\ fd' = "recycled"
    /\ UNCHANGED <<queueVars, closed, lock, step, kernel, reader, offered, written>>

Next ==
    \/ \E t \in Threads :
          \/ \E n \in ChunkSizes : Write(t, n)
          \/ Flush(t) \/ Close(t) \/ Advances(t)
    \/ \E n \in 1 .. PipeCap : Read(n)
    \/ ReaderGone \/ Recycle

\* A thread inside a call is scheduled; nobody has to call, and FFmpeg does
\* not have to read.
Fairness == \A t \in Threads : WF_vars(Advances(t))

Spec == Init /\ [][Next]_vars /\ Fairness

-----------------------------------------------------------------------------
(* Properties.                                                             *)

\* Every byte offered was written, is counted as dropped, or is in the queue,
\* whose byte count is the sum of its chunks: `dropped` is "every audio byte
\* that never reached FFmpeg", across evictions, partial writes, a reader
\* that dies and a close at any point of them.
Accounted ==
    /\ written + dropped + pendingBytes = offered
    /\ pendingBytes = Bytes(pending)
    /\ Contiguous(pending, offered)

\* Whoever is about to call os.write or os.close holds the lock and a number
\* that still names the pipe: a close never lands between a write's check and
\* its system call, where the number could belong to somebody else by then.
DescriptorSafe ==
    \A t \in Threads :
        step[t] \in {"evict", "drain", "closing"} => lock = t /\ fd = "open"

\* The bound holds whenever no call is in progress: one chunk alone may
\* exceed it, and nothing else does.
Bounded ==
    lock = Nobody => pendingBytes <= PendingBound \/ Len(pending) <= 1

\* After close() returned nothing is left to count: `dropped`, which the
\* session reads without the lock (_close_audio), has its final value.
CountIsFinal ==
    closed /\ lock = Nobody => pending = <<>> /\ written + dropped = offered

\* What the bound throws away are whole chunks, "instead of corrupting the
\* framing": no part of a dropped chunk was written already.
WholeFrames ==
    [][\A t \in Threads : Evict(t) => Whole(pending[1])]_vars

\* The pipe never offers os.write more than it takes whole or not at all.
SmallChunks == \A n \in ChunkSizes : n <= PipeBuf

\* The pipe implements the lossy queue its caller relies on.
Promise == INSTANCE LossyPipe WITH
    Limit <- PendingBound,
    MaxChunk <- MaxOffered,
    tail <- offered,
    head <- offered - pendingBytes,
    delivered <- written,
    lost <- dropped,
    open <- ~closed

KeepsPromise == Promise!Spec

\* Its safety part.
KeepsPromiseSafely == Promise!Init /\ [][Promise!Next]_(Promise!vars)
=============================================================================
