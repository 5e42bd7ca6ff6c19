---------------------------- MODULE PayloadPlan ----------------------------
(***************************************************************************)
(* How a session of session.py decides what it is being sent: the leading   *)
(* packets it reads before FFmpeg exists, the transport and the codec they  *)
(* name, the audio it waits for, the parameter sets that the sessions of    *)
(* one camera keep for each other, and the replay of what was read.         *)
(*                                                                         *)
(* A camera sends RTP packets, or the bytes of a container in packets of    *)
(* any size.  A packet is known by its place: the interval of the camera's  *)
(* packets, or bytes, that it holds.                                       *)
(***************************************************************************)
EXTENDS ProgramStream, AacHbr, RtpCodec

CONSTANTS
    MaxSessions,
    Cameras,          \* what a camera may send (see MCPayloadPlan)
    PrefixPackets,    \* _PREFIX_PACKETS
    WindowPackets,    \* _AUDIO_WINDOW_BYTES, in packets
    PacketSizes,      \* of a container, in bytes
    TsPacketSize      \* _TS_PACKET_SIZE

ASSUME PayloadPlanAssumption ==
    {MaxSessions, PrefixPackets, WindowPackets, TsPacketSize} \cup PacketSizes \subseteq Nat \ {0}

Byte == 0 .. 255

\* A payload of the codec: one layer of HEVC, whose units begin with an even
\* byte, or H.264 without data partitions.
OfCodec(p, codec) ==
    /\ p.head \in Byte /\ p.intact \in Nat
    /\ \A i \in 1 .. p.intact : p.units[i].head \in Byte
    /\ IF codec = HEVC THEN p.head % 2 = 0 /\ \A i \in 1 .. p.intact : p.units[i].head % 2 = 0
       ELSE p.head % 32 \notin {0, 2, 4}

\* Of the 16 bits of an AU header 13 are the size; the elements that name the
\* channels name the same ones.
OfChannels(p, channels) ==
    /\ p.bits \in Nat
    /\ \A i \in 1 .. Count(p) : p.headers[i] \in 0 .. 256 * 256 - 1 /\ p.firsts[i] \in Byte
    /\ \A i \in DOMAIN AccessUnits(p) :
          StreamChannels(AccessUnits(p)[i]) \in {NoChannels, channels}

\* A camera has one codec and one kind of audio, each in a payload type of its
\* own, or it sends the bytes of a container.
ASSUME CamerasAssumption ==
    \A c \in Cameras :
        /\ c.joins \subseteq Nat \ {0}
        /\ IF c.transport = "RTP"
           THEN /\ c.codec \in {H264, HEVC}
                /\ DOMAIN c.packets \subseteq Nat
                /\ \A i \in DOMAIN c.packets :
                      LET p == c.packets[i]
                      IN /\ p.kind = "video" => p.pt = c.pt /\ OfCodec(p.data, c.codec)
                         /\ p.kind = "aac" => p.pt = c.audio /\ OfChannels(p.data, c.channels)
           ELSE c.bytes \in Seq(Byte)

Sessions == 1 .. MaxSessions
NoType == 128   \* a payload type of None

VARIABLES
    camera,
    audioWindow,      \* _audio_window is positive
    rtpCache,         \* _PARAMETER_SETS of this camera, <<>> for none
    psCache,          \* _PS_PARAMETER_SETS of this camera
    (* Per session *)
    pc,
    joined, pos,      \* where it joined the stream, and where it is
    cancelled,        \* _cancel
    ended,            \* the iterator of packets is exhausted
    late,             \* the deadline of the audio window has passed
    plan,             \* _PayloadPlan
    replayed,         \* the leading packets that a pass of the replay has looked at
    givenUp,          \* _Sinks.audio is None, for the audio was silent too long
    inspector,        \* of a program stream
    video, audio,     \* the packets that each depacketizer has taken
    frames            \* the ADTS frames made of the latter

readVars == <<pc, pos, plan, ended>>
sinkVars == <<video, audio, frames>>
outVars == <<inspector, replayed, givenUp, sinkVars>>
cacheVars == <<rtpCache, psCache>>
fixedVars == <<camera, audioWindow>>
vars == <<fixedVars, cacheVars, readVars, joined, cancelled, late, outVars>>

NewPlan ==
    [transport |-> "UNKNOWN", codec |-> NoCodec, pt |-> NoType, packets |-> <<>>,
     audio |-> NoType, channels |-> NoChannels, prelude |-> <<>>, container |-> <<>>]

Init ==
    /\ camera \in Cameras /\ audioWindow \in BOOLEAN
    /\ rtpCache = <<>> /\ psCache = <<>>
    /\ pc = [s \in Sessions |-> "idle"]
    /\ joined = [s \in Sessions |-> 1] /\ pos = [s \in Sessions |-> 1]
    /\ cancelled = [s \in Sessions |-> FALSE] /\ ended = [s \in Sessions |-> FALSE]
    /\ late = [s \in Sessions |-> FALSE]
    /\ plan = [s \in Sessions |-> NewPlan]
    /\ inspector = [s \in Sessions |-> NewInspector]
    /\ replayed = [s \in Sessions |-> 0] /\ givenUp = [s \in Sessions |-> FALSE]
    /\ video = [s \in Sessions |-> <<>>] /\ audio = [s \in Sessions |-> <<>>]
    /\ frames = [s \in Sessions |-> <<>>]

-----------------------------------------------------------------------------
(* Packets.                                                                *)

IsRtp == camera.transport = "RTP"

Next_(s) ==
    IF IsRtp THEN {<<i, i>> : i \in {pos[s]} \cap DOMAIN camera.packets}
    ELSE {<<pos[s], i>> : i \in {j \in DOMAIN camera.bytes : j - pos[s] + 1 \in PacketSizes}}

\* Containers are of no payload type: what looks like one is not unwrapped.
Packet(span) ==
    IF IsRtp THEN camera.packets[span[1]]
    ELSE [kind |-> "bytes", pt |-> NoType, data |-> SubSeq(camera.bytes, span[1], span[2])]

Packets(spans) == [i \in DOMAIN spans |-> Packet(spans[i])]

Data(spans) == FoldLeft(LAMBDA d, p : d \o p.data, <<>>, Packets(spans))

\* Places, with neighbours joined.
Hand(places, span) ==
    IF places # <<>> /\ Last(places)[2] + 1 = span[1]
    THEN Append(Front(places), <<Last(places)[1], span[2]>>) ELSE Append(places, span)

-----------------------------------------------------------------------------
(* What the packets say.                                                   *)

IsPack(data, i) == i + 3 <= Len(data) /\ data[i + 3] = Pack

OnTsGrid(data, i) ==
    \A k \in 0 .. 2 : LET at == i + k * TsPacketSize
                      IN at \in DOMAIN data /\ data[at] = 71

\* classify_payload.  RTP payloads hold neither of the other two's signs.
Transport(spans) ==
    IF spans = <<>> THEN "UNKNOWN"
    ELSE IF IsRtp THEN IF Packet(spans[1]).pt # NoType THEN "RTP" ELSE "UNKNOWN"
    ELSE IF \E i \in Starts(Data(spans), 1) : IsPack(Data(spans), i) THEN "MPEG_PS"
    ELSE IF \E i \in DOMAIN Data(spans) : OnTsGrid(Data(spans), i) THEN "MPEG_TS"
    ELSE IF Data(spans)[1] \div 64 = 2 THEN "RTP" ELSE "UNKNOWN"

CodecOf(p) == IF p.kind = "video" THEN DetectCodec(p.data) ELSE NoCodec

\* Mutant: any payload of Access Units, those too long for a frame included.
AudioType_AnySize(pt, spans) ==
    LET found == {i \in DOMAIN spans : /\ Packet(spans[i]).pt # pt /\ Packet(spans[i]).kind = "aac"
                                       /\ AccessUnits(Packet(spans[i]).data) # <<>>}
    IN IF found = {} THEN NoType ELSE Packet(spans[Min(found)]).pt

\* _prefix_audio, and the same search over what the window has added.
AudioType(pt, spans) ==
    LET found == {i \in DOMAIN spans : /\ Packet(spans[i]).pt # pt /\ Packet(spans[i]).kind = "aac"
                                       /\ CarriesAac(Packet(spans[i]).data)}
    IN IF found = {} THEN NoType ELSE Packet(spans[Min(found)]).pt

\* What each Access Unit of a packet of this type says of the channels.
ChannelsOf(pt, p) ==
    IF p.pt = pt /\ p.kind = "aac"
    THEN [k \in DOMAIN AccessUnits(p.data) |-> StreamChannels(AccessUnits(p.data)[k])] ELSE <<>>

\* The Access Units that name them.
Naming(pt, p) == {k \in DOMAIN ChannelsOf(pt, p) : ChannelsOf(pt, p)[k] # NoChannels}

\* _audio_channels: the first one.
AudioChannels(pt, spans) ==
    LET found == {i \in DOMAIN spans : Naming(pt, Packet(spans[i])) # {}}
        p == Packet(spans[Min(found)])
    IN IF found = {} THEN NoChannels ELSE ChannelsOf(pt, p)[Min(Naming(pt, p))]

\* The plan with what its packets say of the audio.
WithAudio(p) ==
    LET type == AudioType(p.pt, p.packets)
    IN [p EXCEPT !.audio = type,
                 !.channels = IF type = NoType THEN NoChannels
                              ELSE AudioChannels(type, p.packets)]

AudioConfig(p) ==
    IF p.channels = NoChannels THEN AAC_LC_16K_MONO ELSE SetChannels(AAC_LC_16K_MONO, p.channels)

-----------------------------------------------------------------------------
(* _read_prefix.                                                           *)

Goto(s, l) == pc' = [pc EXCEPT ![s] = l]

\* What a session knows ends with it; the caches remain.
Over(s) ==
    /\ Goto(s, "over")
    /\ joined' = [joined EXCEPT ![s] = 1] /\ pos' = [pos EXCEPT ![s] = 1]
    /\ cancelled' = [cancelled EXCEPT ![s] = FALSE] /\ ended' = [ended EXCEPT ![s] = FALSE]
    /\ late' = [late EXCEPT ![s] = FALSE]
    /\ plan' = [plan EXCEPT ![s] = NewPlan]
    /\ inspector' = [inspector EXCEPT ![s] = NewInspector]
    /\ replayed' = [replayed EXCEPT ![s] = 0] /\ givenUp' = [givenUp EXCEPT ![s] = FALSE]
    /\ video' = [video EXCEPT ![s] = <<>>] /\ audio' = [audio EXCEPT ![s] = <<>>]
    /\ frames' = [frames EXCEPT ![s] = <<>>]
    /\ UNCHANGED <<fixedVars, cacheVars>>

\* A session is known by when it came; containers are read one after the other.
Open(s) ==
    /\ pc[s] = "idle"
    /\ \A t \in 1 .. s - 1 : IF IsRtp THEN pc[t] # "idle" ELSE pc[t] = "over"
    /\ \E start \in camera.joins :
          joined' = [joined EXCEPT ![s] = start] /\ pos' = [pos EXCEPT ![s] = start]
    /\ Goto(s, "prefix")
    /\ UNCHANGED <<fixedVars, cacheVars, cancelled, ended, late, plan, outVars>>

\* _accept raises.
Encrypted(s) ==
    /\ pc[s] \in {"prefix", "window", "live"} /\ ~cancelled[s] /\ ~ended[s]
    /\ \E span \in Next_(s) : Packet(span).kind = "encrypted"
    /\ Over(s)

\* The packet read next, with a body to keep or with an empty one.
Reads(s, span) ==
    /\ ~cancelled[s] /\ ~ended[s] /\ span \in Next_(s) /\ Packet(span).kind # "encrypted"
    /\ pos' = [pos EXCEPT ![s] = span[2] + 1]

Keep(s, span) ==
    IF Packet(span).kind = "empty" THEN plan[s] ELSE [plan[s] EXCEPT !.packets = Append(@, span)]

ReadPrefix(s) ==
    /\ pc[s] = "prefix"
    /\ \E span \in Next_(s) :
          /\ Reads(s, span)
          /\ plan' = [plan EXCEPT ![s] = Keep(s, span)]
          /\ Goto(s, IF Len(Keep(s, span).packets) >= PrefixPackets THEN "decide" ELSE "prefix")
    /\ UNCHANGED <<fixedVars, cacheVars, joined, cancelled, ended, late, outVars>>

AfterRead(s) == IF pc[s] = "prefix" THEN "decide" ELSE "pump"

\* The stream ends, or the packet or the error comes that shows an abort.
ReadEnds(s) ==
    /\ pc[s] \in {"prefix", "window"}
    /\ ended' = [ended EXCEPT ![s] = TRUE]
    /\ Goto(s, AfterRead(s))
    /\ UNCHANGED <<fixedVars, cacheVars, joined, pos, cancelled, late, plan, outVars>>

ReadFails(s) ==
    /\ pc[s] \in {"prefix", "window"} /\ ~cancelled[s]
    /\ Over(s)

Abort(s) ==
    /\ pc[s] \in {"prefix", "decide", "window"} /\ ~cancelled[s]
    /\ cancelled' = [cancelled EXCEPT ![s] = TRUE]
    /\ UNCHANGED <<fixedVars, cacheVars, readVars, joined, late, outVars>>

-----------------------------------------------------------------------------
(* _decide.                                                                *)

\* An aborted session chooses no demuxer.
DecideAborted(s) ==
    /\ pc[s] = "decide" /\ cancelled[s]
    /\ Goto(s, "pump")
    /\ UNCHANGED <<fixedVars, cacheVars, joined, pos, cancelled, ended, late, plan, outVars>>

\* The plan is made; with a codec it goes on to the audio.
Decides(s, p) ==
    LET asks == p.codec # NoCodec /\ audioWindow
        answer == IF asks THEN WithAudio(p) ELSE p
    IN /\ plan' = [plan EXCEPT ![s] = answer]
       /\ Goto(s, IF asks /\ answer.channels = NoChannels /\ ~ended[s] THEN "window" ELSE "pump")
       /\ UNCHANGED <<fixedVars, joined, pos, cancelled, ended, late, outVars>>

\* _remember_parameter_sets: they go to the cache whatever is missing from them.
RememberSets(codec, pt, sets) ==
    rtpCache' = IF sets = <<>> THEN rtpCache ELSE <<[codec |-> codec, pt |-> pt, sets |-> sets]>>

\* _remember_ps_parameter_sets
RememberPsSets(ins) == psCache' = IF Complete(ins) THEN Snapshot(ins) ELSE psCache

DecideRtp(s) ==
    /\ pc[s] = "decide" /\ ~cancelled[s] /\ Transport(plan[s].packets) = "RTP"
    /\ LET rtp == [plan[s] EXCEPT !.transport = "RTP"]
           named == {i \in DOMAIN rtp.packets : CodecOf(Packet(rtp.packets[i])) # NoCodec}
           first == Packet(rtp.packets[Min(named)])
           own == SelectSeq(Packets(rtp.packets), LAMBDA p : p.pt = first.pt /\ p.kind = "video")
           sets == ParameterSets([i \in DOMAIN own |-> own[i].data], CodecOf(first))
       IN \/ /\ named # {}
             /\ RememberSets(CodecOf(first), first.pt, sets)
             /\ Decides(s, [rtp EXCEPT !.codec = CodecOf(first), !.pt = first.pt])
          \/ /\ named = {} /\ rtpCache # <<>>
             /\ Decides(s, [rtp EXCEPT !.codec = rtpCache[1].codec, !.pt = rtpCache[1].pt,
                                       !.prelude = rtpCache[1].sets])
             /\ UNCHANGED rtpCache
          \/ /\ named = {} /\ rtpCache = <<>>
             /\ Decides(s, rtp)
             /\ UNCHANGED rtpCache
    /\ UNCHANGED psCache

\* The packets so far, to a new inspector.
Inspect(spans) ==
    LET seen[n \in 0 .. Len(spans)] ==
            IF n = 0 THEN NewInspector ELSE Feed(seen[n - 1], Packet(spans[n]).data)
    IN seen[Len(spans)]

\* _decide_mpeg_ps
DecidePs(s) ==
    /\ pc[s] = "decide" /\ ~cancelled[s] /\ Transport(plan[s].packets) = "MPEG_PS"
    /\ LET seen == Inspect(plan[s].packets)
           ps == [plan[s] EXCEPT !.transport = "MPEG_PS"]
       IN /\ RememberPsSets(seen)
          /\ Decides(s, IF Complete(seen) THEN ps ELSE [ps EXCEPT !.container = psCache])
    /\ UNCHANGED rtpCache

DecideOther(s) ==
    /\ pc[s] = "decide" /\ ~cancelled[s] /\ Transport(plan[s].packets) \in {"MPEG_TS", "UNKNOWN"}
    /\ Decides(s, [plan[s] EXCEPT !.transport = Transport(plan[s].packets)])
    /\ UNCHANGED cacheVars

-----------------------------------------------------------------------------
(* The window of _with_audio.                                              *)

Deadline(s) ==
    /\ pc[s] = "window" /\ ~late[s]
    /\ late' = [late EXCEPT ![s] = TRUE]
    /\ UNCHANGED <<fixedVars, cacheVars, readVars, joined, cancelled, outVars>>

\* Mutant: a packet of the window is looked at and not kept.
ReadWindow_Consumes(s) ==
    /\ pc[s] = "window"
    /\ \E span \in Next_(s) :
          LET heard == WithAudio(Keep(s, span))
          IN /\ Reads(s, span)
             /\ plan' = [plan EXCEPT ![s] = [heard EXCEPT !.packets = plan[s].packets]]
             /\ Goto(s, IF heard.channels # NoChannels \/ late[s] THEN "pump" ELSE "window")
    /\ UNCHANGED <<fixedVars, cacheVars, joined, cancelled, ended, late, outVars>>

ReadWindow(s) ==
    /\ pc[s] = "window"
    /\ \E span \in Next_(s) :
          LET heard == WithAudio(Keep(s, span))
              full == Len(heard.packets) >= PrefixPackets + WindowPackets
          IN /\ Reads(s, span)
             /\ plan' = [plan EXCEPT ![s] = heard]
             /\ Goto(s, IF heard.channels # NoChannels \/ late[s] \/ full THEN "pump" ELSE "window")
    /\ UNCHANGED <<fixedVars, cacheVars, joined, cancelled, ended, late, outVars>>

\* Mutant: the deadline is checked for media only.
KeepAlive_Skips(s) ==
    /\ pc[s] \in {"prefix", "window"} /\ cancelled[s]
    /\ Goto(s, AfterRead(s))
    /\ UNCHANGED <<fixedVars, cacheVars, joined, pos, cancelled, ended, late, plan, outVars>>

\* A control packet: it is not kept, but the loop looks at the flag and at the
\* clock.  A camera that sends no media any more still sends these.
KeepAlive(s) ==
    /\ pc[s] \in {"prefix", "window"}
    /\ cancelled[s] \/ (pc[s] = "window" /\ late[s])
    /\ Goto(s, AfterRead(s))
    /\ UNCHANGED <<fixedVars, cacheVars, joined, pos, cancelled, ended, late, plan, outVars>>

-----------------------------------------------------------------------------
(* The pump: _observe_ps_parameter_sets, _replay_prefix, _Sinks.feed.       *)

\* With audio its half of the leading packets comes first.
StartPump(s) ==
    /\ pc[s] = "pump"
    /\ LET seen == Inspect(plan[s].packets)
       IN IF plan[s].transport = "MPEG_PS"
          THEN /\ inspector' = [inspector EXCEPT ![s] = seen]
               /\ RememberPsSets(seen)
          ELSE UNCHANGED <<inspector, psCache>>
    /\ Goto(s, IF plan[s].audio = NoType THEN "rest" ELSE "audio")
    /\ UNCHANGED <<fixedVars, rtpCache, pos, plan, ended, joined, cancelled, late, replayed,
                   givenUp, sinkVars>>

\* The watchdog's give_up_audio, by the clock of MediaPump: here it may come
\* before any packet.  One that comes between two looks at `audio` for the same
\* packet leaves what one before that packet, or after it, would leave.
GiveUpAudio(s) ==
    /\ pc[s] \in {"audio", "rest", "live"} /\ plan[s].audio # NoType /\ ~givenUp[s]
    /\ givenUp' = [givenUp EXCEPT ![s] = TRUE]
    /\ UNCHANGED <<fixedVars, cacheVars, readVars, joined, cancelled, late, inspector, replayed,
                   sinkVars>>

OwnsAudio(s, span) ==
    /\ ~givenUp[s]
    /\ plan[s].audio # NoType /\ Packet(span).pt = plan[s].audio

FramesOf(s, span) ==
    IF Packet(span).kind = "aac" THEN Frames(Packet(span).data, AudioConfig(plan[s])) ELSE <<>>

\* The video's depacketizer takes the packets of its payload type; without one
\* everything is video.
Skips(s, span) == plan[s].codec # NoCodec /\ Packet(span).pt # plan[s].pt

\* feed(): a packet goes to the depacketizer of the audio, or else of the video.
FeedSinks(s, span) ==
    IF OwnsAudio(s, span)
    THEN /\ audio' = [audio EXCEPT ![s] = Append(@, span)]
         /\ frames' = [frames EXCEPT ![s] = @ \o FramesOf(s, span)]
         /\ UNCHANGED video
    ELSE /\ video' = IF Skips(s, span) THEN video ELSE [video EXCEPT ![s] = Hand(@, span)]
         /\ UNCHANGED <<audio, frames>>

\* One turn of the loop of _replay_prefix, in the half that is the audio's or
\* in the rest.
Replay(s) ==
    LET turn == replayed[s] + 1
        span == plan[s].packets[turn]
    IN /\ pc[s] \in {"audio", "rest"} /\ turn \in DOMAIN plan[s].packets
       /\ IF OwnsAudio(s, span) <=> pc[s] = "audio" THEN FeedSinks(s, span) ELSE UNCHANGED sinkVars
       /\ replayed' = [replayed EXCEPT ![s] = turn]
       /\ UNCHANGED <<fixedVars, cacheVars, readVars, joined, cancelled, late, inspector,
                      givenUp>>

ReplayDone(s) ==
    /\ pc[s] \in {"audio", "rest"} /\ replayed[s] = Len(plan[s].packets)
    /\ replayed' = [replayed EXCEPT ![s] = 0]
    /\ Goto(s, IF pc[s] = "audio" THEN "rest" ELSE "live")
    /\ UNCHANGED <<fixedVars, cacheVars, pos, plan, ended, joined, cancelled, late, inspector,
                   givenUp, sinkVars>>

Observe(s, data) ==
    LET seen == Feed(inspector[s], data)
    IN IF plan[s].transport = "MPEG_PS"
       THEN /\ inspector' = [inspector EXCEPT ![s] = seen]
            /\ RememberPsSets(seen)
       ELSE UNCHANGED <<inspector, psCache>>

Live(s) ==
    /\ pc[s] = "live"
    /\ \E span \in Next_(s) :
          /\ Reads(s, span)
          /\ Observe(s, Packet(span).data)
          /\ IF Packet(span).kind = "empty" THEN UNCHANGED sinkVars ELSE FeedSinks(s, span)
    /\ UNCHANGED <<fixedVars, rtpCache, pc, joined, cancelled, ended, late, plan, replayed,
                   givenUp>>

\* FFmpeg is gone, the stream ends, or the session was aborted.
End(s) ==
    /\ pc[s] \in {"audio", "rest", "live"}
    /\ Over(s)

-----------------------------------------------------------------------------
Arrives(s) == ReadPrefix(s) \/ ReadWindow(s) \/ KeepAlive(s)
Decide(s) == DecideAborted(s) \/ DecideRtp(s) \/ DecidePs(s) \/ DecideOther(s)
Pump(s) == StartPump(s) \/ Replay(s) \/ ReplayDone(s) \/ GiveUpAudio(s) \/ Live(s) \/ End(s)

Next ==
    \E s \in Sessions :
        \/ Open(s) \/ Arrives(s) \/ Encrypted(s) \/ ReadEnds(s) \/ ReadFails(s) \/ Abort(s)
        \/ Decide(s) \/ Deadline(s) \/ Pump(s)

\* The clock goes on, and so do the camera's keepalives: if they did not, the
\* socket's timeout would end the wait (ReadFails).
Fairness == \A s \in Sessions : WF_vars(Deadline(s)) /\ WF_vars(KeepAlive(s))

Spec == Init /\ [][Next]_vars /\ Fairness

-----------------------------------------------------------------------------
(* Properties.                                                             *)

TypeOK ==
    /\ rtpCache = <<>> \/ rtpCache[1].codec \in {H264, HEVC}
    /\ \A s \in Sessions :
        /\ pc[s] \in {"idle", "prefix", "decide", "window", "pump", "audio", "rest", "live", "over"}
        /\ plan[s].transport \in {"UNKNOWN", "RTP", "MPEG_PS", "MPEG_TS"}
        /\ plan[s].channels # NoChannels => plan[s].audio # NoType
        /\ Len(plan[s].packets) <= PrefixPackets + WindowPackets
        /\ Len(inspector[s].pending) <= MaxPending
        /\ Len(inspector[s].elementary) <= MaxParameterSet

Places(spans) == UNION {spans[i][1] .. spans[i][2] : i \in DOMAIN spans}
InOrder(spans) == \A i, j \in DOMAIN spans : i < j => spans[i][2] < spans[j][1]

\* Of the packets with a body that a session read since it joined, for the
\* prefix, in the audio window or in the pump's loop, the video's depacketizer
\* has taken each one of its type, and the audio's each one of its own, once
\* and in the order of the camera, though the replay passes over the leading
\* ones twice.  An audio that is given up, be it between the two passes, loses
\* packets, but none of them reaches the video (_read_prefix, _with_audio,
\* _replay_prefix, _Sinks.feed, give_up_audio).
EveryPacketOnce ==
    \A s \in Sessions : pc[s] = "live" =>
        LET read == {i \in joined[s] .. pos[s] - 1 : IsRtp => camera.packets[i].kind # "empty"}
            OfType(pt) == {i \in read : camera.packets[i].pt = pt}
            sound == IF plan[s].audio = NoType THEN {} ELSE OfType(plan[s].audio)
        IN /\ InOrder(video[s]) /\ InOrder(audio[s])
           /\ Places(video[s]) = IF plan[s].codec = NoCodec THEN read ELSE OfType(plan[s].pt)
           /\ Places(audio[s]) \subseteq sound
           /\ givenUp[s] \/ Places(audio[s]) = sound

\* FFmpeg is given an audio input only for the camera's audio, and with a frame
\* of it in the leading packets: it would wait for the first one for ever
\* unless the watchdog gave it up (_prefix_audio, carries_aac_hbr against
\* AacHbrDepacketizer.feed).  Whoever reads the frames finds in each header the
\* length that leads to the next one, up to the most that 13 bits can say,
\* AAC-LC at 16 kHz, and the channels that the camera's own Access Units name
\* (adts_frame, _audio_channels).
AudioPlays ==
    \A s \in Sessions : plan[s].audio # NoType =>
        /\ plan[s].audio = camera.audio
        /\ pc[s] = "live" => frames[s] # <<>> \/ givenUp[s]
        /\ \A i \in DOMAIN frames[s] :
              LET h == frames[s][i].header
              IN /\ \A k \in DOMAIN h : h[k] \in 0 .. 255
                 /\ h[1] = 255 /\ h[2] \div 16 = 15
                 /\ (h[4] % 4) * 2048 + h[5] * 8 + (h[6] \div 32) = frames[s][i].unit.size + 7
                 /\ h[3] \div 64 = 1 /\ (h[3] \div 4) % 16 = 8
                 /\ (h[3] % 2) * 4 + (h[4] \div 64)
                     = IF plan[s].channels = NoChannels THEN 1 ELSE camera.channels

\* The codec that chooses FFmpeg's demuxer, and the payload type that is
\* depacketized, are the camera's: no unit of one codec is taken for a
\* parameter set of the other, in the session itself or by way of the cache
\* (_detect_parameter_set, _decide).
CodecIsTheStreams ==
    \A s \in Sessions : plan[s].codec # NoCodec =>
        plan[s].codec = camera.codec /\ plan[s].pt = camera.pt

(* What a program stream holds, by how it was put together: `parts` are its  *)
(* elements in order, with the interval of the video's elementary stream     *)
(* that each carries, and `nals` are the units of that one.                 *)

\* The parts that came whole to who joined at `from` and is past `to`; one
\* without a length is whole when the next has begun.
WholeParts(from, to) ==
    {k \in DOMAIN camera.parts : LET p == camera.parts[k]
                                IN p.from >= from /\ p.to + (IF p.open THEN 4 ELSE 0) <= to}

\* The parameter sets of a type, each where it first came, that were carried
\* whole up to the start code after them.
Carried(type, parts) ==
    LET es == UNION {camera.parts[k].lo .. camera.parts[k].hi : k \in parts}
        whole == {n \in DOMAIN camera.nals : n + 1 \in DOMAIN camera.nals
                    /\ camera.nals[n].at .. camera.nals[n + 1].at + 2 \subseteq es
                    /\ camera.nals[n].type = type}
        fresh == {n \in whole : \A m \in whole : m < n => camera.nals[m].unit # camera.nals[n].unit}
    IN [i \in 1 .. Cardinality(fresh) |-> camera.nals[SetToSortSeq(fresh, <)[i]].unit]

\* However the stream was cut into packets, and wherever it was joined, the
\* inspector holds the parameter sets that came whole, and nothing else; of a
\* PES too long to hold, and of the unit it was in, it may miss some (feed,
\* _parse, _feed_elementary).
FindsTheSets ==
    \A s \in Sessions : pc[s] = "live" /\ plan[s].transport = "MPEG_PS" =>
        \A t \in ToSet(SetTypes) :
            LET carried == Carried(t, WholeParts(joined[s], pos[s] - 1))
            IN IF \E k \in DOMAIN camera.parts : camera.parts[k].to - camera.parts[k].from >= MaxPending
               THEN ToSet(inspector[s].sets[t]) \subseteq {camera.nals[n].unit : n \in DOMAIN camera.nals}
               ELSE inspector[s].sets[t] = SubSeq(carried, 1, Min({Len(carried), MaxSetsPerType}))

\* The next start code's leading zero may end a unit.
Bare(unit) == IF Last(unit) = 0 THEN Front(unit) ELSE unit

BareSets(sets) == [t \in ToSet(SetTypes) |-> {Bare(Bare(unit)) : unit \in ToSet(sets[t])}]

\* A reader that gets the prelude of a session's cached sets, and then the next
\* pack, finds those sets under the camera's stream id, with or without a
\* length (make_prelude).
PreludeReadsBack ==
    psCache # <<>> =>
        LET read == Snapshot(Flush(Feed(NewInspector, MakePrelude(psCache[1]) \o psCache[1].pack)))
        IN read # <<>> /\ read[1].id = psCache[1].id /\ read[1].pack = psCache[1].pack
           /\ BareSets(read[1].sets) = BareSets(psCache[1].sets)

\* While the camera sends anything at all, and be it keepalives, the audio
\* window ends (the deadline of _with_audio, "checked for every packet").
WindowCloses == \A s \in Sessions : pc[s] = "window" ~> pc[s] # "window"

SetsNeeded(codec) == IF codec = H264 THEN {7, 8} ELSE 32 .. 34

\* What later joins open on is complete (README.md: "caches complete parameter
\* sets per camera for both RTP and HEVC inside MPEG-PS").
CacheIsComplete ==
    rtpCache # <<>> =>
        SetsNeeded(rtpCache[1].codec)
            \subseteq {IF rtpCache[1].codec = H264 THEN H264Type(unit.head) ELSE HevcType(unit.head)
                       : unit \in ToSet(rtpCache[1].sets)}
=============================================================================
