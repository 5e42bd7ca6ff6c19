--------------------------- MODULE ProgramStream ---------------------------
(***************************************************************************)
(* mpeg_ps.py: `ProgramStreamInspector`, which finds the HEVC parameter     *)
(* sets in an MPEG program stream that comes in packets of any size, and    *)
(* `make_prelude`, which wraps them for a session that joins later.         *)
(*                                                                         *)
(* Bytes are numbers and an inspector is a record of its attributes; every  *)
(* operator returns the inspector that the method leaves behind.            *)
(***************************************************************************)
EXTENDS Integers, Sequences, FiniteSetsExt, SequencesExt

CONSTANTS
    MaxPending,       \* _MAX_PENDING
    MaxParameterSet,  \* _MAX_PARAMETER_SET
    MaxSetsPerType,   \* _MAX_PARAMETER_SETS_PER_TYPE
    MaxSetsBytes,     \* _MAX_PARAMETER_SETS_BYTES
    PesLengthMax      \* _PES_PACKET_LENGTH_MAX

ASSUME ProgramStreamAssumption ==
    /\ MaxPending \in Nat /\ MaxPending >= 4 /\ MaxParameterSet \in Nat /\ MaxSetsPerType \in Nat
    /\ MaxSetsBytes \in Nat /\ PesLengthMax \in 0 .. 65535

StartCode == <<0, 0, 1>>
Pack == 186           \* 0xBA
ProgramEnd == 185     \* 0xB9
Video == 224 .. 239   \* 0xE0 .. 0xEF
Sized == {187, 188, 190, 191} \cup 192 .. 255   \* followed by their length
VPS == 32
SPS == 33
PPS == 34
SetTypes == <<VPS, SPS, PPS>>
NoId == 0   \* _video_stream_id is None

From(data, i) == SubSeq(data, i, Len(data))
LastBytes(data, n) == From(data, Max({1, Len(data) - n + 1}))

Starts(data, from) ==
    {i \in from .. Len(data) - 2 : data[i] = 0 /\ data[i + 1] = 0 /\ data[i + 2] = 1}

\* bytes.find: the first start code at or after `from`, or 0.
Find(data, from) == LET at == Starts(data, from) IN IF at = {} THEN 0 ELSE Min(at)

NewInspector ==
    [pending |-> <<>>, pack |-> <<>>, id |-> NoId, elementary |-> <<>>,
     sets |-> [t \in ToSet(SetTypes) |-> <<>>]]

-----------------------------------------------------------------------------
(* The elementary stream: NAL units between start codes.                   *)

Kind(unit) == (unit[1] \div 2) % 64

IsSet(unit) ==
    /\ Len(unit) \in 2 .. MaxParameterSet
    /\ unit[1] < 128 /\ unit[1] % 2 = 0 /\ unit[2] % 8 # 0
    /\ Kind(unit) \in ToSet(SetTypes)

SetsBytes(sets) == FoldSeq(LAMBDA u, n : n + Len(u), 0, sets[VPS] \o sets[SPS] \o sets[PPS])

\* _inspect_nal
InspectNal(sets, unit) ==
    IF /\ IsSet(unit)
       /\ unit \notin ToSet(sets[Kind(unit)])
       /\ Len(sets[Kind(unit)]) < MaxSetsPerType
       /\ SetsBytes(sets) + Len(unit) <= MaxSetsBytes
    THEN [sets EXCEPT ![Kind(unit)] = Append(@, unit)] ELSE sets

\* One turn of the loop of _feed_elementary: a unit ends where the next one
\* starts, and what no start code follows is kept.
TakeUnit(ins) ==
    LET es == ins.elementary
        first == Find(es, 1)
        second == IF first = 0 THEN 0 ELSE Find(es, first + 3)
        rest == From(es, Max({1, first}))
    IN IF second # 0
       THEN [ins EXCEPT !.sets = InspectNal(@, SubSeq(es, first + 3, second - 1)),
                        !.elementary = From(es, second)]
       ELSE [ins EXCEPT !.elementary = IF Len(rest) > MaxParameterSet THEN <<>> ELSE rest]

\* A turn takes a start code, or changes nothing any more.
Turns(data) == Cardinality(Starts(data, 1)) + 1

\* The loop of _feed_elementary.
TakeUnits(ins) ==
    LET turns == Turns(ins.elementary)
        taken[n \in 0 .. turns] == IF n = 0 THEN ins ELSE TakeUnit(taken[n - 1])
    IN taken[turns]

\* _pes_payload: the bytes after an MPEG-2 PES header, or after the stuffing,
\* the STD buffer size and the time stamps of an MPEG-1 one.
PesPayload(pes) ==
    LET stuffed == Min({i \in 7 .. Len(pes) : pes[i] # 255} \cup {Len(pes) + 1})
        buffer == IF stuffed <= Len(pes) /\ pes[stuffed] \div 64 = 1 THEN 2 ELSE 0
        stamp == stuffed + buffer
        stamps == CASE pes[stamp] \div 16 = 2 -> 5
                    [] pes[stamp] \div 16 = 3 -> 10
                    [] pes[stamp] = 15 -> 1
                    [] OTHER -> 0
    IN IF Len(pes) < 7 THEN <<>>
       ELSE IF pes[7] \div 64 = 2
       THEN IF Len(pes) < 9 THEN <<>> ELSE From(pes, 10 + pes[9])
       ELSE IF stamp > Len(pes) THEN <<>> ELSE From(pes, stamp + stamps)

-----------------------------------------------------------------------------
(* The system layer.  A size that cannot be told yet is more than is there. *)

PackSize(data) ==
    IF Len(data) < 5 THEN 5
    ELSE IF data[5] \div 64 # 1 THEN 12
    ELSE IF Len(data) < 14 THEN 14 ELSE 14 + (data[14] % 8)

\* _next_system_start: NAL units' start codes do not end a PES.
NextSystemStart(data, from) ==
    Min({i \in Starts(data, from) : i + 3 <= Len(data)
                                    /\ data[i + 3] \in Sized \cup {Pack, ProgramEnd}}
        \cup {Len(data) + 2})

PesSize(data) ==
    IF Len(data) < 6 THEN 6
    ELSE IF data[5] = 0 /\ data[6] = 0 /\ data[4] \in Video
    THEN NextSystemStart(data, 7) - 1 ELSE 6 + data[5] * 256 + data[6]

Size(data) ==
    CASE data[4] = Pack -> PackSize(data)
      [] data[4] \in Sized -> PesSize(data)
      [] OTHER -> 4

\* What _parse does with the element of the system layer that data begins with.
Element(ins, data, size) ==
    CASE data[4] = Pack -> [ins EXCEPT !.pack = SubSeq(data, 1, size)]
      [] data[4] \in Video ->
            LET payload == PesPayload(SubSeq(data, 1, size))
                seen == [ins EXCEPT !.id = data[4], !.elementary = @ \o payload]
            IN IF payload = <<>> THEN seen ELSE TakeUnits(seen)
      [] OTHER -> ins

\* Mutant: of what holds no start code nothing is kept.
KeptTail_None(data) == <<>>

\* What may be the beginning of a start code.
KeptTail(data) == LastBytes(data, 3)

\* One turn of the loop of _parse: the first element of the system layer, when
\* it is there to its end.
ParseElement(ins) ==
    LET start == Find(ins.pending, 1)
        data == From(ins.pending, start)
    IN IF start = 0 THEN [ins EXCEPT !.pending = KeptTail(@)]
       ELSE IF Len(data) < 4 \/ Size(data) > Len(data) THEN [ins EXCEPT !.pending = data]
       ELSE [Element(ins, data, Size(data)) EXCEPT !.pending = From(data, Size(data) + 1)]

\* _parse
Parse(ins) ==
    LET turns == Turns(ins.pending)
        parsed[n \in 0 .. turns] == IF n = 0 THEN ins ELSE ParseElement(parsed[n - 1])
    IN parsed[turns]

\* Mutant: no limit to what is kept.
Feed_Keeps(ins, packet) == Parse([ins EXCEPT !.pending = @ \o packet])

\* feed(): a packet that would make `pending` too long leaves its last bytes.
Feed(ins, packet) ==
    LET all == ins.pending \o packet
    IN Parse(IF Len(all) > MaxPending
             THEN [ins EXCEPT !.pending = LastBytes(all, 4), !.elementary = <<>>]
             ELSE [ins EXCEPT !.pending = all])

Complete(ins) == ins.pack # <<>> /\ \A t \in ToSet(SetTypes) : ins.sets[t] # <<>>

\* snapshot(): <<>> for None.
Snapshot(ins) ==
    IF Complete(ins) /\ ins.id # NoId
    THEN <<[id |-> ins.id, pack |-> ins.pack, sets |-> ins.sets]>> ELSE <<>>

\* flush(): the last unit, which no start code follows.
Flush(ins) ==
    LET start == Find(ins.elementary, 1)
    IN [ins EXCEPT !.elementary = <<>>,
                   !.sets = IF start = 0 THEN @
                            ELSE InspectNal(@, From(ins.elementary, start + 3))]

-----------------------------------------------------------------------------
AnnexB(sets) ==
    FoldLeft(LAMBDA es, unit : es \o <<0>> \o StartCode \o unit, <<>>,
             sets[VPS] \o sets[SPS] \o sets[PPS])

\* Mutant: the length leaves out the eight bytes of the header.
MakePrelude_ShortLength(cached) ==
    LET es == AnnexB(cached.sets)
    IN cached.pack \o StartCode \o <<cached.id, Len(es) \div 256, Len(es) % 256>>
       \o <<128, 128, 5, 33, 0, 1, 0, 1>> \o es

\* make_prelude: a pack header and one PES with a time stamp, whose length is 0
\* when 16 bits do not hold it.
MakePrelude(cached) ==
    LET es == AnnexB(cached.sets)
        length == IF Len(es) + 8 <= PesLengthMax THEN Len(es) + 8 ELSE 0
    IN cached.pack \o StartCode \o <<cached.id, length \div 256, length % 256>>
       \o <<128, 128, 5, 33, 0, 1, 0, 1>> \o es
=============================================================================
