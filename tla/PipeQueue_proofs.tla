-------------------------- MODULE PipeQueue_proofs --------------------------
(***************************************************************************)
(* What the operations on a queue of chunks preserve.  The sum of the chunk *)
(* lengths is an interval's length (PipeQueue!Bytes), so no lemma here      *)
(* needs an induction over the queue.                                       *)
(***************************************************************************)
EXTENDS PipeQueue, TLAPS

\* The bounds of a chunk are numbers.
LEMMA ChunkFields ==
    \A c \in Chunks : c.start \in Nat /\ c.lo \in Nat /\ c.hi \in Nat
BY DEF Chunks

\* The bytes of a contiguous queue are what lies between its first waiting byte
\* and the end of the stream, and the head is part of them.
LEMMA BytesOfQueue ==
    ASSUME NEW q \in Seq(Chunks), NEW end \in Nat, Contiguous(q, end)
    PROVE  /\ Bytes(q) \in Nat
           /\ q = <<>> => Bytes(q) = 0
           /\ q # <<>> => /\ q[1] \in Chunks
                          /\ Size(q[1]) \in Nat \ {0}
                          /\ Bytes(q) = end - q[1].lo
                          /\ Size(q[1]) <= Bytes(q)
<1>1. CASE q = <<>>
  BY <1>1 DEF Bytes
<1>2. CASE q # <<>>
  <2>1. /\ Len(q) \in Nat /\ Len(q) >= 1
        /\ 1 \in 1 .. Len(q) /\ Len(q) \in 1 .. Len(q)
    BY <1>2
  <2>2. q[1] \in Chunks /\ q[Len(q)] \in Chunks
    BY <2>1
  <2>3. q[Len(q)].hi = end /\ q[1].lo < q[1].hi
    BY <1>2, <2>1 DEF Contiguous
  <2>4. q[1].hi <= end
    <3>1. CASE Len(q) = 1
      BY <2>3, <2>2, <3>1 DEF Chunks
    <3>2. CASE 1 < Len(q)
      <4>1. q[1].hi <= q[Len(q)].lo /\ q[Len(q)].lo < q[Len(q)].hi
        BY <2>1, <3>2 DEF Contiguous
      <4> QED
        BY <2>2, <2>3, <4>1, ChunkFields
    <3>3. \A k \in Nat : k >= 1 => k = 1 \/ 1 < k
      OBVIOUS
    <3> QED
      BY <2>1, <3>1, <3>2, <3>3
  <2> QED
    BY <1>2, <2>2, <2>3, <2>4, SMTT(30) DEF Bytes, Size, Chunks
<1> QED
  BY <1>1, <1>2

\* append(): the stream grows by the new chunk, and so does the sum.
LEMMA AppendChunk ==
    ASSUME NEW q \in Seq(Chunks), NEW end \in Nat, Contiguous(q, end),
           NEW n \in Nat \ {0}
    PROVE  LET r == Append(q, NewChunk(end, n)) IN
           /\ r \in Seq(Chunks)
           /\ Contiguous(r, end + n)
           /\ Bytes(r) = Bytes(q) + n
           /\ r # <<>>
<1> DEFINE c == NewChunk(end, n)
           r == Append(q, c)
<1>1. c \in Chunks /\ c.start = end /\ c.lo = end /\ c.hi = end + n
  BY DEF NewChunk, Chunks
<1>2. r \in Seq(Chunks) /\ Len(r) = Len(q) + 1 /\ r # <<>> /\ Len(q) \in Nat
  BY <1>1
<1>3. \A i \in 1 .. Len(q) : r[i] = q[i] /\ q[i] \in Chunks
  BY <1>1, <1>2
<1>4. r[Len(r)] = c
  BY <1>1, <1>2
<1>5. q # <<>> => q[Len(q)].hi = end
  BY DEF Contiguous
<1>6. \A i \in 1 .. Len(q) : q[i].hi <= end
  <2> SUFFICES ASSUME NEW i \in 1 .. Len(q) PROVE q[i].hi <= end
    OBVIOUS
  <2>1. q # <<>> /\ Len(q) \in 1 .. Len(q) /\ q[Len(q)] \in Chunks /\ q[i] \in Chunks
    BY <1>2, <1>3
  <2>2. i < Len(q) => q[i].hi <= q[Len(q)].lo
    BY <2>1 DEF Contiguous
  <2>3. q[Len(q)].lo < q[Len(q)].hi
    BY <2>1 DEF Contiguous
  <2> QED
    BY <1>2, <1>5, <2>1, <2>2, <2>3, ChunkFields
<1>7. Contiguous(r, end + n)
  <2>1. ASSUME NEW i \in 1 .. Len(r)
        PROVE  r[i].start <= r[i].lo /\ r[i].lo < r[i].hi
    <3>1. CASE i \in 1 .. Len(q)
      BY <1>3, <3>1 DEF Contiguous
    <3>2. CASE i = Len(r)
      BY <1>1, <1>4, <3>2
    <3> QED
      BY <1>2, <3>1, <3>2
  <2>2. ASSUME NEW i \in 1 .. Len(r), NEW j \in 1 .. Len(r), i < j
        PROVE  r[i].hi <= r[j].lo
    <3>1. i \in 1 .. Len(q)
      BY <1>2, <2>2
    <3>2. CASE j \in 1 .. Len(q)
      BY <1>3, <2>2, <3>1, <3>2 DEF Contiguous
    <3>3. CASE j = Len(r)
      BY <1>1, <1>3, <1>4, <1>6, <3>1, <3>3
    <3> QED
      BY <1>2, <3>2, <3>3
  <2>3. ASSUME NEW i \in 1 .. Len(r) - 1
        PROVE  r[i].hi = r[i+1].lo
    <3>1. CASE i = Len(q)
      BY <1>1, <1>2, <1>3, <1>4, <1>5, <3>1
    <3>2. CASE i \in 1 .. Len(q) - 1
      <4>1. i \in 1 .. Len(q) /\ i + 1 \in 1 .. Len(q)
        BY <1>2, <3>2
      <4>2. q[i].hi = q[i+1].lo
        BY <3>2 DEF Contiguous
      <4> QED
        BY <1>3, <4>1, <4>2
    <3> QED
      BY <1>2, <3>1, <3>2
  <2>4. r[Len(r)].hi = end + n
    BY <1>1, <1>4
  <2> QED
    BY <2>1, <2>2, <2>3, <2>4 DEF Contiguous
<1>8. Bytes(r) = Bytes(q) + n
  <2>1. CASE q = <<>>
    <3>1. Len(r) = 1 /\ r[1] = c
      BY <1>2, <1>4, <2>1
    <3> QED
      BY <1>1, <1>2, <2>1, <3>1 DEF Bytes
  <2>2. CASE q # <<>>
    <3>1. r[1] = q[1] /\ q[1] \in Chunks
      BY <1>2, <1>3, <2>2
    <3>2. Bytes(q) = end - q[1].lo
      BY <2>2, BytesOfQueue
    <3> QED
      BY <1>1, <1>2, <1>4, <3>1, <3>2, ChunkFields, SMTT(30) DEF Bytes
  <2> QED
    BY <2>1, <2>2
<1> QED
  BY <1>2, <1>7, <1>8

\* popleft(): the sum loses the head.
LEMMA PopChunk ==
    ASSUME NEW q \in Seq(Chunks), NEW end \in Nat, Contiguous(q, end), q # <<>>
    PROVE  /\ Tail(q) \in Seq(Chunks)
           /\ Contiguous(Tail(q), end)
           /\ Bytes(Tail(q)) = Bytes(q) - Size(q[1])
           /\ Len(Tail(q)) = Len(q) - 1
<1> DEFINE r == Tail(q)
<1>b. Len(q) \in Nat /\ Len(q) >= 1 /\ r \in Seq(Chunks) /\ Len(r) = Len(q) - 1
  OBVIOUS
<1>c. r = <<>> <=> Len(r) = 0
  <2> HIDE DEF r
  <2> QED
    BY <1>b
<1>1. /\ r \in Seq(Chunks) /\ Len(r) = Len(q) - 1
      /\ Len(q) \in Nat /\ Len(q) >= 1
      /\ r = <<>> <=> Len(q) = 1
  BY <1>b, <1>c
<1>2. \A i \in 1 .. Len(r) : r[i] = q[i+1] /\ i + 1 \in 1 .. Len(q)
  BY <1>1
<1>a. r # <<>> => r[1] = q[2]
  BY <1>1
<1>3. Contiguous(r, end)
  <2>1. \A i \in 1 .. Len(r) : r[i].start <= r[i].lo /\ r[i].lo < r[i].hi
    BY <1>2 DEF Contiguous
  <2>2. \A i, j \in 1 .. Len(r) : i < j => r[i].hi <= r[j].lo
    <3> SUFFICES ASSUME NEW i \in 1 .. Len(r), NEW j \in 1 .. Len(r), i < j
                 PROVE  q[i+1].hi <= q[j+1].lo
      BY <1>2
    <3> QED
      BY <1>1, <1>2 DEF Contiguous
  <2>3. \A i \in 1 .. Len(r) - 1 : r[i].hi = r[i+1].lo
    <3> SUFFICES ASSUME NEW i \in 1 .. Len(r) - 1
                 PROVE  r[i].hi = r[i+1].lo
      OBVIOUS
    <3>1. i \in 1 .. Len(r) /\ i + 1 \in 1 .. Len(r) /\ i + 1 \in 1 .. Len(q) - 1
      BY <1>1
    <3>2. q[i+1].hi = q[(i+1)+1].lo
      BY <3>1 DEF Contiguous
    <3> QED
      BY <1>2, <3>1, <3>2
  <2>4. r # <<>> => r[Len(r)].hi = end
    <3> SUFFICES ASSUME r # <<>> PROVE r[Len(r)].hi = end
      OBVIOUS
    <3>1. Len(r) \in 1 .. Len(r) /\ Len(r) + 1 = Len(q)
      BY <1>1
    <3>2. r[Len(r)] = q[Len(q)]
      BY <1>2, <3>1
    <3> QED
      BY <3>2 DEF Contiguous
  <2> QED
    BY <2>1, <2>2, <2>3, <2>4 DEF Contiguous
<1>4. Bytes(r) = Bytes(q) - Size(q[1])
  <2>1. Bytes(q) = end - q[1].lo /\ q[1] \in Chunks
    BY BytesOfQueue
  <2>2. CASE Len(q) = 1
    <3>1. r = <<>>
      BY <1>1, <2>2
    <3>2. q[1].hi = end
      BY <2>2 DEF Contiguous
    <3> QED
      BY <2>1, <3>1, <3>2, ChunkFields DEF Bytes, Size
  <2>3. CASE Len(q) # 1
    <3>1. r # <<>> /\ 1 \in 1 .. Len(r) /\ 1 \in 1 .. Len(q) - 1
      BY <1>1, <2>3
    <3>2. r[1] = q[2] /\ q[1].hi = q[2].lo
      BY <1>a, <3>1 DEF Contiguous
    <3>3. Bytes(r) = end - r[1].lo /\ r[1] \in Chunks
      BY <1>1, <1>3, <3>1, BytesOfQueue
    <3>4. /\ q[1].lo \in Nat /\ q[1].hi \in Nat /\ r[1].lo = q[1].hi
      BY <2>1, <3>2, ChunkFields
    <3> HIDE DEF r
    <3> QED
      BY <2>1, <3>3, <3>4 DEF Size
  <2> QED
    BY <2>2, <2>3
<1> QED
  BY <1>1, <1>3, <1>4

\* os.write takes no more than the chunk, and no more than there is room for.
LEMMA TakenFits ==
    ASSUME NEW c \in Chunks, Size(c) \in Nat \ {0}, NEW room \in Nat
    PROVE  /\ Taken(c, room) \in 0 .. Size(c)
           /\ Taken(c, room) <= room
           /\ Size(c) <= PipeBuf => Taken(c, room) \in {0, Size(c)}
BY PipeBufAssumption DEF Taken

\* After os.write took n bytes of the head the queue holds n bytes less.
LEMMA AdvanceQueue ==
    ASSUME NEW q \in Seq(Chunks), NEW end \in Nat, Contiguous(q, end), q # <<>>,
           NEW n \in 0 .. Size(q[1])
    PROVE  /\ Advance(q, n) \in Seq(Chunks)
           /\ Contiguous(Advance(q, n), end)
           /\ Bytes(Advance(q, n)) = Bytes(q) - n
           /\ Len(Advance(q, n)) <= Len(q)
<1>1. q[1] \in Chunks /\ Size(q[1]) \in Nat \ {0} /\ Len(q) \in Nat \ {0}
  BY BytesOfQueue
<1>2. CASE n = Size(q[1])
  BY <1>1, <1>2, PopChunk DEF Advance
<1>3. CASE n # Size(q[1])
  <2> DEFINE r == [q EXCEPT ![1].lo = @ + n]
             h == [q[1] EXCEPT !.lo = @ + n]
  <2>1. Advance(q, n) = r
    BY <1>3 DEF Advance
  <2>2. /\ h \in Chunks
        /\ h.start = q[1].start /\ h.lo = q[1].lo + n /\ h.hi = q[1].hi
    <3>1. n \in Nat
      BY <1>1
    <3>2. DOMAIN q[1] = {"start", "lo", "hi"}
      BY <1>1 DEF Chunks
    <3>3. h = [start |-> q[1].start, lo |-> q[1].lo + n, hi |-> q[1].hi]
      BY <1>1, <3>2, SMTT(30) DEF Chunks
    <3> QED
      BY <1>1, <3>1, <3>3, ChunkFields DEF Chunks
  <2>3. r = [q EXCEPT ![1] = h] /\ r \in Seq(Chunks) /\ Len(r) = Len(q)
    BY <1>1, <2>2
  <2>4. r[1] = h /\ \A i \in 1 .. Len(q) : i # 1 => r[i] = q[i]
    BY <1>1, <2>3
  <2>5. q[1].start <= q[1].lo /\ n < q[1].hi - q[1].lo
    BY <1>1, <1>3 DEF Contiguous, Size
  <2>6. h.start <= h.lo /\ h.lo < h.hi
    BY <1>1, <2>2, <2>5, SMTT(30) DEF Chunks
  <2>7. Contiguous(r, end)
    <3>1. \A i \in 1 .. Len(r) : r[i].start <= r[i].lo /\ r[i].lo < r[i].hi
      BY <2>3, <2>4, <2>6 DEF Contiguous
    <3>2. \A i, j \in 1 .. Len(r) : i < j => r[i].hi <= r[j].lo
      BY <2>2, <2>3, <2>4 DEF Contiguous
    <3>3. \A i \in 1 .. Len(r) - 1 : r[i].hi = r[i+1].lo
      BY <2>2, <2>3, <2>4 DEF Contiguous
    <3>4. r[Len(r)].hi = end
      BY <1>1, <2>2, <2>3, <2>4 DEF Contiguous
    <3> QED
      BY <3>1, <3>2, <3>3, <3>4 DEF Contiguous
  <2>8. Bytes(q) = end - q[1].lo
    BY BytesOfQueue
  <2>9. r # <<>>
    BY <1>1, <2>3
  <2>10. Bytes(r) = end - r[1].lo
    BY <2>3, <2>7, <2>9, BytesOfQueue
  <2> QED
    BY <1>1, <2>1, <2>2, <2>3, <2>4, <2>7, <2>8, <2>10, SMTT(30) DEF Chunks
<1> QED
  BY <1>2, <1>3
-----------------------------------------------------------------------------
(* Framing.                                                                *)

\* Every chunk waiting is whole, and os.write takes all of it or nothing.
AllWhole(q) == \A i \in 1 .. Len(q) : Whole(q[i]) /\ Size(q[i]) <= PipeBuf

\* A chunk that fits PIPE_BUF joins whole.
LEMMA AppendWhole ==
    ASSUME NEW q \in Seq(Chunks), AllWhole(q), NEW end \in Nat,
           NEW n \in Nat, n <= PipeBuf
    PROVE  AllWhole(Append(q, NewChunk(end, n)))
<1> DEFINE c == NewChunk(end, n)
           r == Append(q, c)
<1>1. Whole(c) /\ Size(c) <= PipeBuf /\ c \in Chunks
  BY PipeBufAssumption DEF NewChunk, Whole, Size, Chunks
<1> HIDE DEF c
<1>2. ASSUME NEW i \in 1 .. Len(r)
      PROVE  Whole(r[i]) /\ Size(r[i]) <= PipeBuf
  <2>1. CASE i \in 1 .. Len(q)
    <3>1. r[i] = q[i]
      BY <1>1, <2>1
    <3> QED
      BY <2>1, <3>1 DEF AllWhole
  <2>2. CASE i = Len(q) + 1
    <3>1. r[i] = c
      BY <1>1, <2>2
    <3> QED
      BY <1>1, <3>1
  <2> QED
    BY <1>1, <2>1, <2>2
<1> QED
  BY <1>2 DEF AllWhole, c

\* popleft() leaves whole chunks.
LEMMA TailWhole ==
    ASSUME NEW q \in Seq(Chunks), AllWhole(q), q # <<>>
    PROVE  AllWhole(Tail(q))
<1>1. \A i \in 1 .. Len(Tail(q)) : Tail(q)[i] = q[i+1] /\ i + 1 \in 1 .. Len(q)
  OBVIOUS
<1> QED
  BY <1>1 DEF AllWhole

\* os.write takes the head whole or not at all, and leaves whole chunks.
LEMMA WriteWhole ==
    ASSUME NEW q \in Seq(Chunks), NEW end \in Nat, Contiguous(q, end),
           AllWhole(q), q # <<>>, NEW room \in Nat
    PROVE  AllWhole(Advance(q, Taken(q[1], room)))
<1> DEFINE n == Taken(q[1], room)
<1>1. /\ q[1] \in Chunks /\ Size(q[1]) \in Nat \ {0}
      /\ Size(q[1]) <= PipeBuf
  BY BytesOfQueue DEF AllWhole
<1>2. n \in {0, Size(q[1])}
  BY <1>1, TakenFits
<1> HIDE DEF n
<1>3. ASSUME n = Size(q[1]) PROVE AllWhole(Advance(q, n))
  <2>1. Advance(q, n) = Tail(q)
    BY <1>3 DEF Advance
  <2> QED
    BY <2>1, TailWhole
<1>4. ASSUME n # Size(q[1]) PROVE AllWhole(Advance(q, n))
  <2>1. Advance(q, n) = [q EXCEPT ![1].lo = q[1].lo + 0]
    BY <1>2, <1>4 DEF Advance
  <2>2. [q[1] EXCEPT !.lo = q[1].lo + 0] = q[1]
    BY <1>1 DEF Chunks
  <2>3. Advance(q, n) = [q EXCEPT ![1] = q[1]]
    BY <2>1, <2>2
  <2>4. Advance(q, n) = q
    BY <2>3
  <2> QED
    BY <2>4
<1> QED
  BY <1>3, <1>4 DEF n
=============================================================================
