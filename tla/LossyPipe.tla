----------------------------- MODULE LossyPipe -----------------------------
(***************************************************************************)
(* What a media pipe of session.py promises to the session that writes to  *)
(* it: bytes come out in the order they went in; what is lost is the       *)
(* oldest, only when there is a reason (the bound is exceeded, the reader   *)
(* is gone, the pipe is closed), and is counted; and a closed pipe owes     *)
(* nothing.  AudioPipe is shown to implement this.                          *)
(***************************************************************************)
EXTENDS Integers

CONSTANTS
    Limit,      \* bytes the pipe may hold back before it may lose any
    MaxChunk    \* the largest write

VARIABLES
    tail,       \* bytes offered
    head,       \* position of the next byte to deliver
    delivered,  \* bytes handed to the reader's end
    lost,       \* bytes counted as lost
    open,       \* the pipe takes writes
    reader      \* "alive" or "gone"

vars == <<tail, head, delivered, lost, open, reader>>

Held == tail - head

Init ==
    /\ tail = 0 /\ head = 0 /\ delivered = 0 /\ lost = 0
    /\ open = TRUE
    /\ reader = "alive"

Offer ==
    /\ open
    /\ \E n \in 1 .. MaxChunk : tail' = tail + n
    /\ UNCHANGED <<head, delivered, lost, open, reader>>

Deliver ==
    /\ open /\ reader = "alive"
    /\ \E n \in 1 .. Held : head' = head + n /\ delivered' = delivered + n
    /\ UNCHANGED <<tail, lost, open, reader>>

Lose ==
    /\ Held > Limit \/ ~open \/ reader = "gone"
    /\ \E n \in 1 .. Held : head' = head + n /\ lost' = lost + n
    /\ UNCHANGED <<tail, delivered, open, reader>>

Close == open /\ open' = FALSE /\ UNCHANGED <<tail, head, delivered, lost, reader>>

ReaderGone ==
    /\ reader = "alive" /\ reader' = "gone"
    /\ UNCHANGED <<tail, head, delivered, lost, open>>

Next == Offer \/ Deliver \/ Lose \/ Close \/ ReaderGone

\* Once closed, the pipe settles: what it held is lost, and counted.
Settles == ~open /\ head < tail /\ Lose /\ head' = tail

Spec == Init /\ [][Next]_vars /\ WF_vars(Settles)
=============================================================================
