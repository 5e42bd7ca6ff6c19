------------------------------- MODULE AacHbr -------------------------------
(***************************************************************************)
(* The audio half of rtp.py: RFC 3640 payloads into ADTS frames.            *)
(*                                                                         *)
(* A payload is the number of bits its AU headers take, those headers (16   *)
(* bits each: 13 of size, 3 of index), its length in bytes, and the first   *)
(* byte of each Access Unit; an Access Unit is its size and first byte.     *)
(***************************************************************************)
EXTENDS Integers, Sequences, SequencesExt

MaxAu == 8191 - 7              \* _ADTS_MAX_AU_BYTES
AAC_LC_16K_MONO == 5128        \* 0x1408

Count(p) == p.bits \div 16
UnitSize(p, i) == p.headers[i] \div 8

\* The payload is an AU header section and its Access Units, to the byte.
IsAuSection(p) ==
    /\ p.size >= 2 /\ p.bits >= 16 /\ p.bits % 16 = 0 /\ 2 + 2 * Count(p) <= p.size
    /\ \A i \in 1 .. Count(p) : UnitSize(p, i) # 0
    /\ p.size = 2 + 2 * Count(p)
                 + FoldSeq(LAMBDA h, n : h + n, 0, [i \in 1 .. Count(p) |-> UnitSize(p, i)])

\* parse_au_section: the Access Units, or <<>> for None.
AccessUnits(p) ==
    IF IsAuSection(p)
    THEN [i \in 1 .. Count(p) |-> [size |-> UnitSize(p, i), first |-> p.firsts[i]]] ELSE <<>>

\* carries_aac_hbr
CarriesAac(p) ==
    AccessUnits(p) # <<>> /\ \A i \in DOMAIN AccessUnits(p) : AccessUnits(p)[i].size <= MaxAu

NoChannels == 0   \* None

\* stream_channels: an element id of 0 is one channel, of 1 a pair.
StreamChannels(unit) ==
    CASE unit.first \div 32 = 0 -> 1 [] unit.first \div 32 = 1 -> 2 [] OTHER -> NoChannels

\* set_channels, in the third lowest to the fifth bit
SetChannels(config, channels) ==
    config - 8 * ((config \div 8) % 8) + 8 * (channels % 8)

\* The seven bytes that adts_frame puts before a unit.
AdtsHeader(unit, config) ==
    LET profile == ((config \div 2048) % 32) - 1
        frequency == (config \div 128) % 16
        channels == (config \div 8) % 8
        length == unit.size + 7
    IN <<255, 241,
         (profile % 4) * 64 + frequency * 4 + ((channels \div 4) % 2),
         (channels % 4) * 64 + ((length \div 2048) % 4),
         (length \div 8) % 256,
         (length % 8) * 32 + 31,
         252>>

\* What AacHbrDepacketizer.feed returns for a payload of its type: a frame per
\* Access Unit, or nothing when one of them does not fit.
Frames(p, config) ==
    IF CarriesAac(p)
    THEN [i \in DOMAIN AccessUnits(p) |->
            [header |-> AdtsHeader(AccessUnits(p)[i], config), unit |-> AccessUnits(p)[i]]]
    ELSE <<>>
=============================================================================
