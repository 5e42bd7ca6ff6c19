--------------------------- MODULE MCPayloadPlan ---------------------------
(* Cameras for TLC, with header bytes and framings as the tests have them.  *)
EXTENDS PayloadPlan

-----------------------------------------------------------------------------
(* RTP: video of type 96, audio of type 104.                               *)

Unit(head, second) == [head |-> head, second |-> second]

Nal(head, second) ==
    [kind |-> "video", pt |-> 96, data |-> [head |-> head, second |-> second, units |-> <<>>, intact |-> 0]]

Aggregate(head, second, units, intact) ==
    [kind |-> "video", pt |-> 96,
     data |-> [head |-> head, second |-> second, units |-> units, intact |-> intact]]

\* Access Units of these sizes, and `spare` bytes that they do not account for.
Aac(sizes, firsts, spare) ==
    LET n == Len(sizes)
    IN [kind |-> "aac", pt |-> 104,
        data |-> [bits |-> 16 * n, headers |-> [i \in 1 .. n |-> sizes[i] * 8], firsts |-> firsts,
                  size |-> 2 + 2 * n + FoldSeq(LAMBDA x, y : x + y, 0, sizes) + spare]]

Other(kind, pt) == [kind |-> kind, pt |-> pt, data |-> <<>>]
Metadata == Other("extension", 112)
Empty == Other("empty", NoType)

\* 0x67 is an SPS, 0x68 a PPS, 0x65 a key frame; 0x41, a slice, would be a VPS
\* in HEVC but for its lowest bit.
AvcOpenings ==
    {<<Aggregate(120, 0, <<Unit(6, 5), Unit(103, 66), Unit(104, 206)>>, 3), Nal(101, 136)>>,
     <<Metadata, Aggregate(120, 0, <<Unit(103, 66), Unit(104, 206)>>, 1)>>}
SliceFirst == <<Nal(65, 154), Nal(103, 66), Nal(104, 206)>>

\* In HEVC 0x26 is a key frame and 0x60 an aggregate.
HevcOpenings ==
    {<<Nal(64, 1), Nal(66, 1), Nal(68, 1)>>,
     <<Aggregate(96, 1, <<Unit(64, 1), Unit(66, 1), Unit(68, 1)>>, 3), Nal(38, 1)>>}

\* A primer frame is a fill element (id 6), which names no channels; 32 begins
\* a pair, 0 a single channel.
Stereo == {<<Aac(<<2>>, <<192>>, 0), Aac(<<2040, 2041>>, <<32, 32>>, 0)>>}
Mono ==
    {<<Aac(<<8184>>, <<0>>, 0), Aac(<<8185>>, <<0>>, 0)>>,
     <<Aac(<<8185>>, <<0>>, 0), Empty, Aac(<<1>>, <<0>>, 0)>>,
     <<Aac(<<4>>, <<0>>, 1), Aac(<<0, 4>>, <<0, 0>>, 0), Other("encrypted", 96)>>,
     <<Other("malformed", NoType), Aac(<<228, 7>>, <<192, 0>>, 0)>>}

Primed == <<Aac(<<2>>, <<192>>, 0), Aac(<<4>>, <<0>>, 0)>>
Late == <<Empty, Aac(<<7>>, <<0>>, 0)>>

RtpCamera(codec, packets, channels, joins) ==
    [transport |-> "RTP", codec |-> codec, pt |-> 96, audio |-> 104, channels |-> channels,
     packets |-> packets, joins |-> joins]

\* At the start, and after the parameter sets.
Joins(opening) == {1, Len(opening) + 1}

\* Each opening once with some audio, and each audio once.
RtpCameras ==
    {RtpCamera(H264, o \o Primed, 1, Joins(o)) : o \in AvcOpenings}
    \cup {RtpCamera(H264, SliceFirst \o Primed \o <<Nal(65, 154)>>, 1, Joins(SliceFirst))}
    \cup {RtpCamera(HEVC, o \o Late \o <<Nal(2, 1)>>, 1, Joins(o)) : o \in HevcOpenings}
    \cup {RtpCamera(H264, <<Nal(103, 66), Nal(104, 206)>> \o a, 1, {1}) : a \in Mono}
    \cup {RtpCamera(H264, <<Nal(103, 66), Nal(104, 206)>> \o a, 2, {1}) : a \in Stereo}

-----------------------------------------------------------------------------
(* Program streams: elements of the system layer, those of the video with   *)
(* `take` bytes of the elementary stream.                                  *)

Plain(bytes) == [head |-> bytes, take |-> 0, open |-> FALSE]

Pes(header, take) ==
    [head |-> StartCode \o <<224, 0, Len(header) + take>> \o header, take |-> take, open |-> FALSE]

OpenPes(header, take) ==
    [head |-> StartCode \o <<224, 0, 0>> \o header, take |-> take, open |-> TRUE]

Pack1 == Plain(StartCode \o <<186, 33, 0, 1, 0, 1, 195, 51, 103>>)
Pack2 == Plain(StartCode \o <<186, 68, 0, 4, 0, 4, 1, 134, 102, 207, 250, 255, 255>>)
System == Plain(StartCode \o <<187, 0, 2, 128, 1>>)
\* Audio that holds what looks like a video PES with an SPS in it.
Sound == Plain(StartCode \o <<192, 0, 14, 128, 0, 0>> \o StartCode \o <<224, 0, 0>> \o StartCode \o <<66, 1>>)
End_ == Plain(StartCode \o <<185>>)

NoStamp == <<128, 0, 0>>
Stamped == <<128, 128, 5, 33, 0, 1, 0, 1>>
Mpeg1 == <<255, 64, 32, 33, 0, 1, 0, 1>>   \* stuffing, STD buffer, time stamp

\* A unit, with a zero before its start code or without.
Begin(zero, type, bytes) == [code |-> zero \o StartCode, type |-> type, bytes |-> bytes]
V(zero) == Begin(zero, VPS, <<64, 1, 7>>)
S(zero) == Begin(zero, SPS, <<66, 1, 7>>)
P(zero, n) == Begin(zero, PPS, <<68, 1, n>>)
Slice == Begin(<<>>, 1, <<2, 1, 9>>)
Layered == Begin(<<>>, 1, <<65, 1, 9>>)   \* a VPS's type, of another layer
Long(n) == Begin(<<>>, 1, <<2, 1>> \o [i \in 1 .. n |-> 9])

PsCamera(units, elements, joins) ==
    LET es == FoldLeft(LAMBDA e, u : e \o u.code \o u.bytes, <<>>, units)
        ends == [i \in 0 .. Len(units) |->
                    FoldSeq(LAMBDA u, n : n + Len(u.code) + Len(u.bytes), 0, SubSeq(units, 1, i))]
        code(i) == ends[i - 1] + Len(units[i].code) - 2
        Put(all, e) ==
            [bytes |-> all.bytes \o e.head \o SubSeq(es, all.done + 1, all.done + e.take),
             done |-> all.done + e.take,
             parts |-> Append(all.parts,
                 [from |-> Len(all.bytes) + 1, to |-> Len(all.bytes) + Len(e.head) + e.take,
                  lo |-> all.done + 1, hi |-> all.done + e.take, open |-> e.open])]
        all == FoldLeft(Put, [bytes |-> <<>>, done |-> 0, parts |-> <<>>], elements)
    IN [transport |-> "MPEG_PS", codec |-> NoCodec, pt |-> NoType, audio |-> NoType, channels |-> 0,
        bytes |-> all.bytes, parts |-> all.parts, joins |-> joins,
        nals |-> [i \in DOMAIN units |->
                    [at |-> code(i), type |-> units[i].type,
                     unit |-> SubSeq(es, code(i) + 3, IF i = Len(units) THEN Len(es) ELSE code(i + 1) - 1)]]]

\* Joins: at the start, at a later pack, and inside an element of the video.
PsCameras ==
    {PsCamera(<<V(<<>>), S(<<>>), P(<<>>, 7), Slice, Slice>>,
              <<Pack1, Pes(NoStamp, 24), Sound, Pack2, Pes(NoStamp, 6)>>, {1, 20, 66}),
     \* Units split between PES packets, one of them in its start code.
     PsCamera(<<V(<<0>>), S(<<0>>), P(<<>>, 7), P(<<0>>, 8), Slice>>,
              <<Pack2, System, OpenPes(Stamped, 9), Sound, Pes(Mpeg1, 8), OpenPes(NoStamp, 16), End_>>, {1, 20}),
     \* Slices first, and only then the sets, as after a join.
     PsCamera(<<Slice, Slice, Layered, V(<<>>), S(<<>>), P(<<>>, 7), P(<<>>, 7), P(<<>>, 8), P(<<>>, 9), Slice>>,
              <<Pack1, Pes(NoStamp, 12), Pack1, Pes(NoStamp, 48)>>, {1, 22}),
     \* A PES without a length that is longer than `pending` may be, and a unit
     \* that is longer than a parameter set.
     PsCamera(<<V(<<>>), S(<<>>), Long(70), P(<<>>, 7), Slice, V(<<>>), S(<<>>), Slice>>,
              <<Pack1, OpenPes(NoStamp, 88), Pack1, Pes(NoStamp, 29)>>, {1}),
     PsCamera(<<V(<<>>), Long(16), S(<<>>), P(<<>>, 7), Slice>>,
              <<Pack1, Pes(NoStamp, 15), Pes(NoStamp, 12), Pes(NoStamp, 18)>>, {1}),
     [transport |-> "MPEG_TS", codec |-> NoCodec, pt |-> NoType, audio |-> NoType, channels |-> 0,
      bytes |-> <<128, 71, 1, 71, 2, 71, 3, 71>>, parts |-> <<>>, nals |-> <<>>, joins |-> {1, 2}]}

MCCameras == RtpCameras \cup PsCameras
=============================================================================
