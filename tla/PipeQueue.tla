----------------------------- MODULE PipeQueue -----------------------------
(***************************************************************************)
(* The queue of chunks that session.py keeps in front of a non-blocking    *)
(* pipe: the deque `_pending` of `_AudioPipe` and of `_VideoPipe`.          *)
(*                                                                         *)
(* A chunk's payload is irrelevant here and its place in the stream is     *)
(* not, so a chunk is the interval of the byte stream offered to the pipe  *)
(* that it still holds: it was offered at `start`, and the bytes lo .. hi-1 *)
(* are waiting.  lo > start means that os.write took the head of the chunk *)
(* already.  Intervals make the length of a chunk, the sum over a queue    *)
(* and the order of delivery plain arithmetic.                             *)
(***************************************************************************)
EXTENDS Integers, Sequences

CONSTANT PipeBuf   \* a write of at most this many bytes is all or nothing

ASSUME PipeBufAssumption == PipeBuf \in Nat \ {0}

Chunks == [start : Nat, lo : Nat, hi : Nat]

\* The chunk of n bytes offered after `at` bytes were.
NewChunk(at, n) == [start |-> at, lo |-> at, hi |-> at + n]

Size(c) == c.hi - c.lo

\* Nothing of the chunk was written yet.
Whole(c) == c.lo = c.start

\* sum(len(chunk) for chunk in q).  The chunks of a queue are consecutive
\* intervals (Contiguous), so the sum spans from the first to the last.
Bytes(q) == IF q = <<>> THEN 0 ELSE q[Len(q)].hi - q[1].lo

\* Every chunk holds bytes and begins where the one before it ends, the oldest
\* first, and the last one ends where the offered stream does.
Contiguous(q, end) ==
    /\ \A i \in 1 .. Len(q) : q[i].start <= q[i].lo /\ q[i].lo < q[i].hi
    /\ \A i, j \in 1 .. Len(q) : i < j => q[i].hi <= q[j].lo
    /\ \A i \in 1 .. Len(q) - 1 : q[i].hi = q[i+1].lo
    /\ q # <<>> => q[Len(q)].hi = end

\* What os.write takes of a chunk when the pipe has room for `room` bytes.
\* 0 stands for BlockingIOError.
Taken(c, room) ==
    IF Size(c) <= room THEN Size(c)
    ELSE IF Size(c) <= PipeBuf THEN 0 ELSE room

\* The queue after os.write took n bytes of its head: popleft() when that was
\* all of it, else the remainder in its place.
Advance(q, n) ==
    IF n = Size(q[1]) THEN Tail(q) ELSE [q EXCEPT ![1].lo = @ + n]
=============================================================================
