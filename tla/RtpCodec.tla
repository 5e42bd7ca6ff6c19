------------------------------ MODULE RtpCodec ------------------------------
(***************************************************************************)
(* rtp.py: which codec an RTP payload names, and the parameter sets that    *)
(* the leading packets of a session hold.                                  *)
(*                                                                         *)
(* A NAL unit is its first two bytes.  A payload has them too, and the      *)
(* units of an aggregate, the first `intact` of which are complete.        *)
(***************************************************************************)
EXTENDS Integers, Sequences, SequencesExt

H264 == "h264"
HEVC == "hevc"
NoCodec == "none"

\* _H264_PROFILES
Profiles == {44, 66, 77, 83, 86, 88, 100, 110, 118, 122, 128, 134, 135, 138, 139, 244}

H264Type(h) == h % 32
HevcType(h) == (h \div 2) % 64

\* Mutant: the type alone, whatever the layer and the temporal id.
SetCodec_TypeOnly(unit) ==
    IF unit.head >= 128 THEN NoCodec
    ELSE IF HevcType(unit.head) \in 32 .. 34 THEN HEVC
    ELSE IF H264Type(unit.head) = 7 THEN H264 ELSE NoCodec

\* _detect_parameter_set: single-layer HEVC units are even and have a temporal
\* id, and an H.264 SPS has a profile that was assigned.
SetCodec(unit) ==
    IF unit.head >= 128 THEN NoCodec
    ELSE IF /\ HevcType(unit.head) \in 32 .. 34
            /\ unit.head % 2 = 0 /\ unit.second % 8 # 0 THEN HEVC
    ELSE IF H264Type(unit.head) = 7 /\ unit.second \in Profiles THEN H264 ELSE NoCodec

\* detect_codec: the unit itself, or one inside an aggregate of its codec.
DetectCodec(p) ==
    LET Holds(codec) == \E i \in 1 .. p.intact : SetCodec(p.units[i]) = codec
    IN IF SetCodec(p) # NoCodec THEN SetCodec(p)
       ELSE IF p.head < 128 /\ H264Type(p.head) = 24 /\ Holds(H264) THEN H264
       ELSE IF p.head = 2 * 48 /\ Holds(HEVC) THEN HEVC ELSE NoCodec

\* _is_parameter_set, of a codec that is already named.
IsParameterSet(unit, codec) ==
    IF codec = H264 THEN H264Type(unit.head) \in {7, 8} ELSE SetCodec(unit) = HEVC

\* The whole units that the depacketizer makes of a packet.
WholeUnits(p, codec) ==
    LET type == IF codec = H264 THEN H264Type(p.head) ELSE HevcType(p.head)
        single == IF codec = H264 THEN 1 .. 23 ELSE 0 .. 47
        aggregate == IF codec = H264 THEN 24 ELSE 48
    IN IF p.head >= 128 THEN <<>>
       ELSE IF type \in single THEN <<[head |-> p.head, second |-> p.second]>>
       ELSE IF type = aggregate THEN SubSeq(p.units, 1, p.intact) ELSE <<>>

\* parameter_sets: the prelude a later session may open on.  Parameter sets are
\* small: none is sent in fragments.
ParameterSets(payloads, codec) ==
    SelectSeq(FlattenSeq([i \in DOMAIN payloads |-> WholeUnits(payloads[i], codec)]),
              LAMBDA unit : IsParameterSet(unit, codec))
=============================================================================
