----------------------------- MODULE VideoPipe -----------------------------
(***************************************************************************)
(* session.py `_VideoPipe`: the bounded queue in front of FFmpeg's stdin.   *)
(* Only the pump thread calls it, so it has no lock; its steps are the ones *)
(* FFmpeg, or the rest of the process, can see between.  Unlike the audio's *)
(* pipe it raises when the reader is gone, and the number it closes is      *)
(* still owned by the Popen object's stdin, which the pump closes after it. *)
(***************************************************************************)
EXTENDS PipeQueue

CONSTANTS
    PendingBound,   \* _VIDEO_PENDING_BYTES
    PipeCap,        \* what the kernel's pipe holds
    ChunkSizes,     \* lengths of the chunks
    MaxOffered      \* bound: bytes offered in a behaviour

VARIABLES
    pending,        \* _pending
    pendingBytes,   \* _pending_bytes
    dropped,        \* dropped
    droppedChunks,  \* dropped_chunks
    closed,         \* _closed, and _fd = -1
    step,           \* where the pump is inside write or flush
    stdin,          \* the Popen's file object: "owned" until it was closed
    fd,             \* what the descriptor number names
    kernel,         \* bytes in the kernel's pipe, not read yet
    reader,         \* FFmpeg's end of it
    offered,        \* history: bytes offered to write()
    written         \* history: bytes os.write took

queueVars == <<pending, pendingBytes, dropped, droppedChunks>>
endVars   == <<stdin, fd, kernel, reader>>
vars == <<pending, pendingBytes, dropped, droppedChunks, closed, step, stdin,
          fd, kernel, reader, offered, written>>

TypeOK ==
    /\ pending \in Seq(Chunks)
    /\ pendingBytes \in Nat /\ dropped \in Nat /\ droppedChunks \in Nat
    /\ closed \in BOOLEAN
    /\ step \in {"idle", "evict", "drain", "raised"}
    /\ stdin \in {"owned", "closed"}
    /\ fd \in {"open", "shut", "recycled"}
    /\ kernel \in 0 .. PipeCap
    /\ reader \in {"alive", "gone"}
    /\ offered \in Nat /\ written \in Nat

Init ==
    /\ pending = <<>> /\ pendingBytes = 0 /\ dropped = 0 /\ droppedChunks = 0
    /\ closed = FALSE /\ step = "idle"
    /\ stdin = "owned" /\ fd = "open" /\ kernel = 0 /\ reader = "alive"
    /\ offered = 0 /\ written = 0

-----------------------------------------------------------------------------
\* write(): the chunk joins the queue whole.
Write(n) ==
    /\ step = "idle" /\ ~closed
    /\ offered + n <= MaxOffered
    /\ step' = "evict"
    /\ pending' = Append(pending, NewChunk(offered, n))
    /\ pendingBytes' = pendingBytes + n
    /\ offered' = offered + n
    /\ UNCHANGED <<dropped, droppedChunks, closed, endVars, written>>

OverBound == pendingBytes > PendingBound /\ Len(pending) > 1

\* Mutant: the chunks are counted and their bytes are not.
Evict_Uncounted ==
    /\ step = "evict" /\ OverBound
    /\ droppedChunks' = droppedChunks + 1
    /\ pendingBytes' = pendingBytes - Size(pending[1])
    /\ pending' = Tail(pending)
    /\ UNCHANGED <<dropped, closed, step, endVars, offered, written>>

\* One turn of write()'s while loop: the oldest chunk goes, and is counted.
Evict ==
    /\ step = "evict" /\ OverBound
    /\ droppedChunks' = droppedChunks + 1
    /\ dropped' = dropped + Size(pending[1])
    /\ pendingBytes' = pendingBytes - Size(pending[1])
    /\ pending' = Tail(pending)
    /\ UNCHANGED <<closed, step, endVars, offered, written>>

EndEvict ==
    /\ step = "evict" /\ ~OverBound
    /\ step' = "drain"
    /\ UNCHANGED <<queueVars, closed, endVars, offered, written>>

\* flush(): _drain, which does nothing on a closed pipe.
Flush ==
    /\ step = "idle" /\ ~closed
    /\ step' = "drain"
    /\ UNCHANGED <<queueVars, closed, endVars, offered, written>>

\* What os.write leaves behind when it took n bytes of the head.
OsWrite(n) ==
    /\ written' = written + n
    /\ kernel' = kernel + n
    /\ pendingBytes' = pendingBytes - n
    /\ pending' = Advance(pending, n)
    /\ step' = IF n = Size(pending[1]) THEN "drain" ELSE "idle"
    /\ UNCHANGED <<dropped, droppedChunks, closed, stdin, fd, reader, offered>>

Room == PipeCap - kernel

\* One os.write of _drain's loop; it takes 0 bytes for a BlockingIOError.
DrainWrite ==
    /\ step = "drain" /\ pending # <<>> /\ reader = "alive"
    /\ OsWrite(Taken(pending[1], Room))

\* The reader is gone: BrokenPipeError leaves write() or flush().
DrainRaise ==
    /\ step = "drain" /\ pending # <<>> /\ reader = "gone"
    /\ step' = "raised"
    /\ UNCHANGED <<queueVars, closed, endVars, offered, written>>

DrainDone ==
    /\ step = "drain" /\ pending = <<>>
    /\ step' = "idle"
    /\ UNCHANGED <<queueVars, closed, endVars, offered, written>>

Advances == Evict \/ EndEvict \/ DrainWrite \/ DrainRaise \/ DrainDone

\* close(): what is queued is counted as dropped, and the descriptor closed.
Close ==
    /\ step \in {"idle", "raised"} /\ ~closed
    /\ closed' = TRUE /\ step' = "idle"
    /\ dropped' = dropped + pendingBytes
    /\ droppedChunks' = droppedChunks + Len(pending)
    /\ pending' = <<>> /\ pendingBytes' = 0
    /\ fd' = "shut"
    /\ UNCHANGED <<stdin, kernel, reader, offered, written>>

\* stdin.close(), the last line of the pump: the file object closes the same
\* number once more -- EBADF, unless it names something else by now.
CloseStdin ==
    /\ closed /\ stdin = "owned"
    /\ stdin' = "closed"
    /\ fd' = "shut"
    /\ UNCHANGED <<queueVars, closed, step, kernel, reader, offered, written>>

-----------------------------------------------------------------------------
Read(n) ==
    /\ reader = "alive" /\ n <= kernel
    /\ kernel' = kernel - n
    /\ UNCHANGED <<queueVars, closed, step, stdin, fd, reader, offered, written>>

ReaderGone ==
    /\ reader = "alive" /\ reader' = "gone"
    /\ UNCHANGED <<queueVars, closed, step, stdin, fd, kernel, offered, written>>

\* Another thread of the process is given the number: a connection accepted,
\* a pipe made for another session's FFmpeg.
Recycle ==
    /\ fd = "shut" /\ fd' = "recycled"
    /\ UNCHANGED <<queueVars, closed, step, stdin, kernel, reader, offered, written>>

Next ==
    \/ \E n \in ChunkSizes : Write(n)
    \/ Flush \/ Advances \/ Close \/ CloseStdin
    \/ \E n \in 1 .. PipeCap : Read(n)
    \/ ReaderGone \/ Recycle

Spec == Init /\ [][Next]_vars /\ WF_vars(Advances)

-----------------------------------------------------------------------------
(* Properties.                                                             *)

\* Every byte offered was written, counted as dropped or still queued, and the
\* byte count is the sum of the queue: `dropped` is what never reached FFmpeg.
Accounted ==
    /\ written + dropped + pendingBytes = offered
    /\ pendingBytes = Bytes(pending)
    /\ Contiguous(pending, offered)

\* "chunks stay whole in a queue": the chunks the bound throws away are whole,
\* so a stdin that stays jammed costs "a bounded gap" and not a torn chunk.
WholeChunks == [][Evict => Whole(pending[1])]_vars

\* "stdin's own close raises EBADF": the second close of the number never
\* reaches a descriptor that belongs to somebody else.
ClosesOwnDescriptor == [][CloseStdin => fd = "shut"]_vars
=============================================================================
