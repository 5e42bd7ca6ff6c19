-------------------------- MODULE RtpDepacketizer --------------------------
(***************************************************************************)
(* `RtpDepacketizer` of rtp.py, fed by a camera whose packets may be lost   *)
(* or damaged before they reach it, as its comments expect ("the beginning *)
(* was lost", "the packet was cut").                                       *)
(*                                                                         *)
(* What a NAL unit holds is the list of its parts, <<unit, part>> counted   *)
(* from 1: the camera puts one part into each fragment, so that an output  *)
(* tells which packets it was made from.  The header bytes that decide how *)
(* a payload is read are numbers, as on the wire.                          *)
(***************************************************************************)
EXTENDS Integers, Sequences

CONSTANTS
    MaxNal,         \* _MAX_NAL_BYTES, in parts
    Heads,          \* per codec, the header bytes of the units the camera sends
    OddHeads,       \* per codec, header bytes that no NAL unit may have
    FragmentCounts, \* how many fragments a unit is split into
    MaxUnits,       \* units the camera sends
    MaxOthers       \* packets it sends that carry none of the stream's media

H264 == "h264"
HEVC == "hevc"
Byte == 0 .. 255

ASSUME RtpAssumption ==
    /\ MaxNal \in Nat /\ MaxUnits \in Nat /\ MaxOthers \in Nat
    /\ FragmentCounts \subseteq Nat \ {0, 1}
    /\ Heads \in [{H264, HEVC} -> SUBSET (0 .. 127)]
    /\ \A h \in Heads[H264] : h % 32 \in 1 .. 23
    /\ \A h \in Heads[HEVC] : h \div 2 <= 47
    /\ OddHeads \in [{H264, HEVC} -> SUBSET Byte]
    /\ \A h \in OddHeads[H264] : h >= 128 \/ h % 32 \in {0} \cup (25 .. 27) \cup (29 .. 31)
    /\ \A h \in OddHeads[HEVC] : h >= 128 \/ h \div 2 >= 50

VARIABLES
    codec,          \* of the session
    fragment,       \* _fragment: the NAL unit under way, or <<>> for None
    dropped, skipped,
    out,            \* the NAL units returned for the last packet sent
    (* The camera, the way, and what went through *)
    sent,           \* the units begun: header byte and number of parts
    part,           \* parts sent of the last of them, when it is in fragments
    others,         \* packets sent that carry none of them
    lost,           \* parts that did not arrive
    arrived,        \* units of which a packet arrived
    shown,          \* units of which a part was returned
    ended           \* flush() was called

feedVars == <<fragment, dropped, skipped, out>>
cameraVars == <<codec, sent, part, others>>
vars == <<feedVars, cameraVars, lost, arrived, shown, ended>>

Nal(h, parts) == [head |-> h, parts |-> parts]

UnitsOf(nals) == {x[1] : x \in UNION {{nals[i].parts[k] : k \in DOMAIN nals[i].parts}
                                      : i \in DOMAIN nals}}

Init ==
    /\ codec \in {H264, HEVC}
    /\ fragment = <<>> /\ dropped = 0 /\ skipped = 0 /\ out = <<>>
    /\ sent = <<>> /\ part = 0 /\ others = 0
    /\ lost = {} /\ arrived = {} /\ shown = {} /\ ended = FALSE

-----------------------------------------------------------------------------
(* Header bytes (RFC 6184, RFC 7798).                                      *)

\* F, the forbidden bit, is set.
Forbidden(h) == h >= 128

NalType(h) == IF codec = H264 THEN h % 32 ELSE (h \div 2) % 64

IsSingle(h) == IF codec = H264 THEN NalType(h) \in 1 .. 23 ELSE NalType(h) <= 47
IsAggregate(h) == NalType(h) = IF codec = H264 THEN 24 ELSE 48
IsFragment(h) == NalType(h) = IF codec = H264 THEN 28 ELSE 49

Starts(fu) == fu >= 128
Ends(fu) == (fu \div 64) % 2 = 1

\* Mutant: the type alone, without the indicator's upper bits.
UnitHead_TypeOnly(h, fu) ==
    IF codec = H264 THEN fu % 32 ELSE (fu % 64) * 2 + (h % 2)

\* The header byte that a unit had before it was split: the indicator's upper
\* bits (and in HEVC its lowest, of the layer id) and the FU header's type.
UnitHead(h, fu) ==
    IF codec = H264 THEN (h \div 32) * 32 + (fu % 32)
    ELSE (h \div 128) * 128 + (fu % 64) * 2 + (h % 2)

-----------------------------------------------------------------------------
(* feed(): the payload p of a packet is its first byte, whether it ends     *)
(* before the headers do, the FU header, and its units, of which the first  *)
(* p.intact are complete.                                                   *)

Return(nals) == out' = nals /\ shown' = shown \cup UnitsOf(nals)

Drop == dropped' = dropped + 1 /\ Return(<<>>) /\ UNCHANGED <<fragment, skipped>>

Single(p) ==
    /\ IsSingle(p.head)
    /\ Return(p.nals)
    /\ UNCHANGED <<fragment, dropped, skipped>>

\* _aggregate: the units up to the first that is empty or cut.
Aggregate(p) ==
    /\ IsAggregate(p.head)
    /\ Return(SubSeq(p.nals, 1, p.intact))
    /\ dropped' = dropped + IF p.intact < Len(p.nals) THEN 1 ELSE 0
    /\ UNCHANGED <<fragment, skipped>>

\* Mutant: a fragment may grow for ever.
Grow_Unbounded(nal, fu, given_up) ==
    /\ dropped' = dropped + Len(given_up)
    /\ fragment' = IF Ends(fu) THEN <<>> ELSE <<nal>>
    /\ Return(IF Ends(fu) THEN <<nal>> ELSE <<>>)
    /\ UNCHANGED skipped

\* _append, and _emit_fragment at the last fragment; `given_up` is the
\* fragment that a new start replaced.
Grow(nal, fu, given_up) ==
    LET tooLong == Len(nal.parts) > MaxNal
        whole == ~tooLong /\ Ends(fu)
    IN /\ dropped' = dropped + Len(given_up) + IF tooLong THEN 1 ELSE 0
       /\ fragment' = IF tooLong \/ whole THEN <<>> ELSE <<nal>>
       /\ Return(IF whole THEN <<nal>> ELSE <<>>)
       /\ UNCHANGED skipped

\* A first fragment: whatever was under way is given up.
FirstFragment(p) ==
    /\ IsFragment(p.head) /\ Starts(p.fu)
    /\ Grow(Nal(UnitHead(p.head, p.fu), p.nals[1].parts), p.fu, fragment)

\* Any other fragment: nothing to attach it to, or one part more.
NextFragment(p) ==
    /\ IsFragment(p.head) /\ ~Starts(p.fu)
    /\ IF fragment = <<>> THEN Drop
       ELSE Grow(Nal(fragment[1].head, fragment[1].parts \o p.nals[1].parts),
                 p.fu, <<>>)

\* A form that neither branch reads, or a payload too short for its headers.
Unread(p) ==
    /\ ~IsSingle(p.head) /\ ~IsAggregate(p.head) /\ ~IsFragment(p.head)
    /\ Drop

\* _h264 and _hevc.
Feed(p) ==
    IF Forbidden(p.head) \/ p.short THEN Drop
    ELSE \/ Single(p) \/ Aggregate(p) \/ Unread(p)
         \/ FirstFragment(p) \/ NextFragment(p)

\* No RTP packet: rtp_payload raises.
FeedMalformed == Drop

\* A packet of another payload type, with or without media, or one of this
\* type without media.
FeedOther(media) ==
    /\ skipped' = skipped + IF media THEN 1 ELSE 0
    /\ Return(<<>>)
    /\ UNCHANGED <<fragment, dropped>>

\* Mutant: the fragment under way is forgotten.
Flush_Silent ==
    /\ ~ended /\ ended' = TRUE
    /\ fragment' = <<>> /\ Return(<<>>)
    /\ UNCHANGED <<dropped, skipped, cameraVars, lost, arrived>>

\* flush(), at the end of the stream, which may come at any time.
Flush ==
    /\ ~ended /\ ended' = TRUE
    /\ dropped' = dropped + Len(fragment)
    /\ fragment' = <<>> /\ Return(<<>>)
    /\ UNCHANGED <<skipped, cameraVars, lost, arrived>>

-----------------------------------------------------------------------------
(* The camera and the way.                                                 *)

\* The first byte of an aggregate or a fragment: a type, with the bits of the
\* unit's own header byte around it.
Indicator(h, type) ==
    IF codec = H264 THEN (h \div 32) * 32 + type
    ELSE (h \div 128) * 128 + type * 2 + (h % 2)

\* The FU header of fragment k of n.
FuHeader(h, k, n) ==
    (IF k = 1 THEN 128 ELSE 0) + (IF k = n THEN 64 ELSE 0) + NalType(h)

\* Parts 1 .. n of unit u.
Parts(u, n) == [k \in 1 .. n |-> <<u, k>>]

Packet(h, fu, nals) ==
    [head |-> h, fu |-> fu, nals |-> nals, short |-> FALSE, intact |-> Len(nals)]

\* A packet as it may arrive: as it was sent, shorter than its headers, or an
\* aggregate cut in a unit, or before the length of one, where it looks like an
\* aggregate that ends there.
Arrivals(p) ==
    {p} \cup
    {q \in {[p EXCEPT !.short = TRUE]} : IsFragment(p.head)} \cup
    {[p EXCEPT !.nals = SubSeq(@, 1, cut[1]), !.intact = cut[2]] :
        cut \in {c \in (0 .. Len(p.nals)) \X (0 .. Len(p.nals)) :
                    IsAggregate(p.head) /\ c[2] \in {c[1], c[1] - 1}}}

PartsOf(nals) == UNION {{nals[i].parts[k] : k \in DOMAIN nals[i].parts}
                        : i \in DOMAIN nals}

\* The packet never comes, and nothing is fed.
NotFed == Return(<<>>) /\ UNCHANGED <<fragment, dropped, skipped>>

\* A packet of the stream arrives, as it was or cut, or does not.
Travels(p) ==
    /\ \/ \E q \in Arrivals(p) :
              /\ Feed(q)
              /\ arrived' = arrived \cup UnitsOf(q.nals)
              /\ lost' = lost \cup
                     IF q.short THEN PartsOf(p.nals)
                     ELSE PartsOf(SubSeq(p.nals, q.intact + 1, Len(p.nals)))
       \/ /\ FeedMalformed \/ NotFed
          /\ lost' = lost \cup PartsOf(p.nals)
          /\ UNCHANGED arrived
    /\ UNCHANGED <<codec, others, ended>>

Begin(units) == sent' = sent \o units /\ Len(sent) + Len(units) <= MaxUnits

\* The next unit, in a packet of its own.
SendSingle ==
    /\ ~ended /\ part = 0 /\ part' = 0
    /\ \E h \in Heads[codec] :
           /\ Begin(<<[head |-> h, parts |-> 1]>>)
           /\ Travels(Packet(h, 0, <<Nal(h, Parts(Len(sent) + 1, 1))>>))

\* The next two, in one packet.
SendAggregate ==
    /\ ~ended /\ part = 0 /\ part' = 0
    /\ \E h, g \in Heads[codec] :
           /\ Begin(<<[head |-> h, parts |-> 1], [head |-> g, parts |-> 1]>>)
           /\ Travels(Packet(Indicator(h, IF codec = H264 THEN 24 ELSE 48), 0,
                             <<Nal(h, Parts(Len(sent) + 1, 1)),
                               Nal(g, Parts(Len(sent) + 2, 1))>>))

\* A unit in a form that is deliberately not handled.
SendOdd ==
    /\ ~ended /\ part = 0 /\ part' = 0
    /\ \E h \in OddHeads[codec] :
           /\ Begin(<<[head |-> h, parts |-> 1]>>)
           /\ Travels(Packet(h, 0, <<Nal(h, Parts(Len(sent) + 1, 1))>>))

Fragment(u, h, k, n) ==
    Packet(Indicator(h, IF codec = H264 THEN 28 ELSE 49), FuHeader(h, k, n),
           <<Nal(h, <<<<u, k>>>>)>>)

\* The first fragment of the next unit, of n.
SendFirst ==
    /\ ~ended /\ part = 0 /\ part' = 1
    /\ \E h \in Heads[codec], n \in FragmentCounts :
           /\ Begin(<<[head |-> h, parts |-> n]>>)
           /\ Travels(Fragment(Len(sent) + 1, h, 1, n))

SendNext ==
    /\ ~ended /\ part > 0
    /\ LET u == Len(sent) IN
       /\ part' = IF part + 1 = sent[u].parts THEN 0 ELSE part + 1
       /\ Travels(Fragment(u, sent[u].head, part + 1, sent[u].parts))
    /\ UNCHANGED sent

\* Metadata, audio, or a header extension and nothing else: between any two
\* packets of the stream, those of one unit included.
SendOther ==
    /\ ~ended /\ others < MaxOthers
    /\ others' = others + 1
    /\ \E media \in BOOLEAN : FeedOther(media)
    /\ UNCHANGED <<codec, sent, part, lost, arrived, ended>>

Next ==
    \/ SendSingle \/ SendAggregate \/ SendOdd \/ SendFirst \/ SendNext
    \/ SendOther \/ Flush

Spec == Init /\ [][Next]_vars

-----------------------------------------------------------------------------
(* Properties.                                                             *)

Nals == [head : Byte, parts : Seq((Nat \ {0}) \X (Nat \ {0}))]

\* At most one unit is under way, and it is no longer than the code admits.
TypeOK ==
    /\ codec \in {H264, HEVC}
    /\ fragment \in Seq(Nals) /\ Len(fragment) <= 1
    /\ fragment # <<>> => Len(fragment[1].parts) <= MaxNal
    /\ dropped \in Nat /\ skipped \in Nat
    /\ out \in Seq(Nals)
    /\ sent \in Seq([head : Byte, parts : Nat \ {0}])
    /\ part \in Nat /\ others \in Nat
    /\ lost \in SUBSET ((Nat \ {0}) \X (Nat \ {0}))
    /\ arrived \in SUBSET (Nat \ {0}) /\ shown \in SUBSET (Nat \ {0})
    /\ ended \in BOOLEAN

\* The unit is one the camera sent: its header byte, and all of its parts.
IsSent(nal) ==
    \E u \in DOMAIN sent : nal = Nal(sent[u].head, Parts(u, sent[u].parts))

Before(x, y) == x[1] < y[1] \/ (x[1] = y[1] /\ x[2] < y[2])

\* A part that was sent between the unit's first and its last did not arrive.
HasGap(nal) ==
    \E x \in lost : /\ Before(nal.parts[1], x)
                    /\ Before(x, nal.parts[Len(nal.parts)])

\* What feed() returns are units as the camera sent them, however they were
\* packed and whatever came between the fragments, except where a fragment
\* was lost inside one: nothing else joins, shortens or relabels a unit.
DamageNeedsGap == \A i \in DOMAIN out : IsSent(out[i]) \/ HasGap(out[i])

\* Units that came in part, of which nothing was returned or is under way.
Gone ==
    {u \in arrived : u \notin shown /\ u \notin UnitsOf(fragment)}

\* "Such a loss is a number rather than silence": no unit of which anything
\* arrived vanishes without `dropped` going up.
NoSilentLoss == [][Gone' \subseteq Gone \/ dropped' > dropped]_vars
=============================================================================
