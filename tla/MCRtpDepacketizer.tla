------------------------- MODULE MCRtpDepacketizer -------------------------
(* Header bytes for TLC, as tests/test_rtp.py has them: in H.264 an SPS and *)
(* a slice, in HEVC a VPS and a key frame; and what neither branch reads,   *)
(* one with a type that is not handled and one with the forbidden bit.      *)
EXTENDS RtpDepacketizer

MCHeads == [c \in {H264, HEVC} |-> IF c = H264 THEN {103, 65} ELSE {64, 38}]
MCOddHeads == [c \in {H264, HEVC} |-> IF c = H264 THEN {29} ELSE {192}]
=============================================================================
