------------------------- MODULE PayloadPlan_proofs -------------------------
(***************************************************************************)
(* What a session decides and hands on, for any cameras that keep to one    *)
(* codec and one kind of audio, any packet sizes and any bounds.            *)
(***************************************************************************)
EXTENDS PayloadPlan, TLAPS, FiniteSetTheorems, SequenceTheorems, WellFoundedInduction

-----------------------------------------------------------------------------
(* Numbers, and functions defined by recursion on them.                     *)

\* A set of numbers has a least one.
LEMMA Least ==
    ASSUME NEW T \in SUBSET Nat, T # {}
    PROVE  \E x \in T : \A y \in T : x <= y
<1> DEFINE R == {ss \in Nat \X Nat : ss[1] < ss[2]}
<1>1. IsWellFoundedOn(R, Nat)
  BY NatLessThanWellFounded DEF OpToRel
<1> HIDE DEF R
<1>2. PICK x \in T : \A y \in T : ~(<<y, x>> \in R)
  BY <1>1, WFMin
<1>3. \A y \in T : ~(y < x)
  BY <1>2 DEF R
<1> QED
  BY <1>3

\* So Min is one of the numbers, and the least.
LEMMA MinOfNumbers ==
    ASSUME NEW T \in SUBSET Nat, T # {}
    PROVE  /\ Min(T) \in T
           /\ \A y \in T : Min(T) <= y
BY Least DEF Min

\* Induction, over a set.
LEMMA Induction ==
    ASSUME NEW S, 0 \in S, \A n \in Nat : n \in S => n + 1 \in S
    PROVE  \A n \in Nat : n \in S
<1> SUFFICES ASSUME Nat \ S # {} PROVE FALSE
  OBVIOUS
<1>1. PICK x \in Nat \ S : \A y \in Nat \ S : x <= y
  BY Least
<1>2. x # 0 /\ x - 1 \in Nat
  BY <1>1
<1>3. x - 1 \in S
  BY <1>1, <1>2
<1> QED
  BY <1>1, <1>2, <1>3

\* What a recursive function over the numbers is taken for exists.
LEMMA Recursion ==
    ASSUME NEW T, NEW x0 \in T, NEW step \in [Nat -> [T -> T]]
    PROVE  \E f \in [Nat -> T] : \A n \in Nat : f[n] = IF n = 0 THEN x0 ELSE step[n][f[n - 1]]
<1> DEFINE Good(n, g) == /\ g \in [0 .. n -> T] /\ g[0] = x0
                         /\ \A k \in 1 .. n : g[k] = step[k][g[k - 1]]
<1>1. \A n \in Nat : \E g : Good(n, g)
  <2> DEFINE S == {n \in Nat : \E g : Good(n, g)}
  <2>1. 0 \in S
    <3>1. Good(0, [k \in 0 .. 0 |-> x0])
      OBVIOUS
    <3> QED
      BY <3>1
  <2>2. ASSUME NEW n \in Nat, n \in S
        PROVE  n + 1 \in S
    <3>1. PICK g : Good(n, g)
      BY <2>2
    <3> DEFINE h == [k \in 0 .. n + 1 |-> IF k = n + 1 THEN step[n + 1][g[n]] ELSE g[k]]
    <3>2. h \in [0 .. n + 1 -> T] /\ h[0] = x0
      BY <3>1
    <3>3. ASSUME NEW k \in 1 .. n + 1
          PROVE  h[k] = step[k][h[k - 1]]
      BY <3>1
    <3>4. Good(n + 1, h)
      BY <3>2, <3>3
    <3> HIDE DEF h, Good
    <3> QED
      BY <3>4
  <2> HIDE DEF S
  <2>3. \A n \in Nat : n \in S
    BY <2>1, <2>2, Induction
  <2> QED
    BY <2>3 DEF S
<1>2. ASSUME NEW m \in Nat, NEW n \in Nat, m <= n, NEW g, NEW h, Good(m, g), Good(n, h)
      PROVE  \A k \in 0 .. m : g[k] = h[k]
  <2> DEFINE S == {k \in Nat : k <= m => g[k] = h[k]}
  <2>1. 0 \in S
    BY <1>2
  <2>2. ASSUME NEW k \in Nat, k \in S
        PROVE  k + 1 \in S
    <3>1. CASE k + 1 <= m
      BY <1>2, <2>2, <3>1
    <3>2. CASE ~(k + 1 <= m)
      BY <3>2
    <3> QED
      BY <3>1, <3>2
  <2> HIDE DEF S
  <2>3. \A k \in Nat : k \in S
    BY <2>1, <2>2, Induction
  <2> QED
    BY <2>3 DEF S
<1> DEFINE G(n) == CHOOSE g : Good(n, g)
           f == [n \in Nat |-> G(n)[n]]
<1>3. \A n \in Nat : Good(n, G(n))
  BY <1>1
<1> HIDE DEF G
<1>4. f \in [Nat -> T]
  BY <1>3
<1>5. ASSUME NEW n \in Nat
      PROVE  f[n] = IF n = 0 THEN x0 ELSE step[n][f[n - 1]]
  <2>1. CASE n = 0
    BY <1>3, <2>1
  <2>2. CASE n # 0
    <3>1. n - 1 \in Nat /\ n - 1 <= n /\ n - 1 \in 0 .. n - 1
      BY <2>2
    <3>2. Good(n, G(n)) /\ Good(n - 1, G(n - 1))
      BY <1>3, <3>1
    <3>3. G(n - 1)[n - 1] = G(n)[n - 1]
      <4> HIDE DEF Good
      <4> QED
        BY <1>2, <3>1, <3>2
    <3> QED
      BY <3>1, <3>2, <3>3, <2>2
  <2> QED
    BY <2>1, <2>2
<1> HIDE DEF Good
<1> QED
  BY <1>4, <1>5

\* f is what m turns make of x0.
Computes(f, T, x0, step, m) ==
    /\ f \in [0 .. m -> T]
    /\ \A n \in 0 .. m : f[n] = IF n = 0 THEN x0 ELSE step[n][f[n - 1]]

\* A recursive function of finitely many turns.
LEMMA RecursionTo ==
    ASSUME NEW T, NEW x0 \in T, NEW m \in Nat, NEW step \in [Nat -> [T -> T]]
    PROVE  \E f : Computes(f, T, x0, step, m)
<1>1. PICK f \in [Nat -> T] : \A n \in Nat : f[n] = IF n = 0 THEN x0 ELSE step[n][f[n - 1]]
  BY Recursion
<1> DEFINE g == [n \in 0 .. m |-> f[n]]
<1>2. g \in [0 .. m -> T] /\ \A n \in 0 .. m : g[n] = IF n = 0 THEN x0 ELSE step[n][g[n - 1]]
  BY <1>1
<1> HIDE DEF g
<1> QED
  BY <1>2 DEF Computes
-----------------------------------------------------------------------------
(* What is proved by induction.                                             *)

\* The intervals of places.
Span == {x \in Nat \X Nat : 1 <= x[1] /\ x[1] <= x[2]}

\* The Access Units that fit a frame, and what frames are made of them.
Fitting == [size : 0 .. MaxAu, first : Byte]
Frame == [header : {AdtsHeader(u, c) : u \in Fitting, c \in Nat}, unit : Fitting]

\* A plan has the fields of a new one.
IsPlan(p) ==
    DOMAIN p = {"transport", "codec", "pt", "packets", "audio", "channels", "prelude", "container"}

\* The places of a session.
Labels == {"idle", "prefix", "decide", "window", "pump", "audio", "rest", "live", "over"}

\* The types of what the sessions read, and of what they hand on.
Types ==
    /\ camera \in Cameras
    /\ pc \in [Sessions -> Labels]
    /\ joined \in [Sessions -> Nat \ {0}] /\ pos \in [Sessions -> Nat \ {0}]
    /\ replayed \in [Sessions -> Nat] /\ givenUp \in [Sessions -> BOOLEAN]
    /\ DOMAIN plan = Sessions
    /\ \A s \in Sessions : IsPlan(plan[s]) /\ plan[s].packets \in Seq(Span)
    /\ video \in [Sessions -> Seq(Span)] /\ audio \in [Sessions -> Seq(Span)]
    /\ frames \in [Sessions -> Seq(Frame)]

\* What a packet holds is of the camera's codec, or of its audio.
OfCamera(span) ==
    LET p == Packet(span)
    IN /\ p.kind = "video" => p.pt = camera.pt /\ OfCodec(p.data, camera.codec)
                              /\ camera.codec \in {H264, HEVC}
       /\ p.kind = "aac" => p.pt = camera.audio /\ OfChannels(p.data, camera.channels)
       /\ IF IsRtp THEN span[1] = span[2] ELSE p.data \in Seq(Byte)

\* The packets kept are those read since the session joined, in order, and no
\* more than there is room for.
Keeps(s) ==
    /\ joined[s] <= pos[s]
    /\ \A i \in DOMAIN plan[s].packets : OfCamera(plan[s].packets[i])
    /\ pc[s] = "idle" => plan[s].packets = <<>>
    /\ pc[s] \in {"prefix", "decide", "window", "pump", "audio", "rest"} =>
           /\ InOrder(plan[s].packets)
           /\ Places(plan[s].packets)
               = {i \in joined[s] .. pos[s] - 1 : IsRtp => camera.packets[i].kind # "empty"}
    /\ Len(plan[s].packets) <= PrefixPackets + WindowPackets
    /\ pc[s] = "prefix" => Len(plan[s].packets) < PrefixPackets
    /\ pc[s] = "decide" => Len(plan[s].packets) <= PrefixPackets
    /\ pc[s] = "window" => Len(plan[s].packets) < PrefixPackets + WindowPackets

\* The places of a session's packets with a body before `to`.
ReadSince(s, to) == {i \in joined[s] .. to - 1 : IsRtp => camera.packets[i].kind # "empty"}

\* Those of the video's type, and those of the audio's.
OfVideo(s, read) ==
    IF plan[s].codec = NoCodec THEN read ELSE {i \in read : camera.packets[i].pt = plan[s].pt}
OfAudio(s, read) ==
    IF plan[s].audio = NoType THEN {} ELSE {i \in read : camera.packets[i].pt = plan[s].audio}

\* A packet of the session's audio, given up or not.
Heard(s, span) == plan[s].audio # NoType /\ Packet(span).pt = plan[s].audio

\* The leading packets of the audio that the replay has come past, and those of
\* the video.
AudioHalf(s) ==
    {i \in DOMAIN plan[s].packets :
        Heard(s, plan[s].packets[i]) /\ (pc[s] = "audio" => i <= replayed[s])}
VideoHalf(s) ==
    {i \in DOMAIN plan[s].packets :
        ~Skips(s, plan[s].packets[i]) /\ pc[s] = "rest" /\ i <= replayed[s]}

\* The places of some of the leading packets.
PlacesOf(s, I) == UNION {plan[s].packets[i][1] .. plan[s].packets[i][2] : i \in I}

\* What has been handed on is what the replay has looked at, and then all that
\* was read; of the audio, what came before it was given up.
HandsOn(s) ==
    /\ pc[s] \in {"idle", "prefix", "decide", "window", "pump", "over"} =>
           video[s] = <<>> /\ audio[s] = <<>> /\ frames[s] = <<>> /\ replayed[s] = 0
    /\ InOrder(video[s]) /\ InOrder(audio[s])
    /\ pc[s] \in {"audio", "rest"} =>
           /\ replayed[s] <= Len(plan[s].packets)
           /\ Places(audio[s]) \subseteq PlacesOf(s, AudioHalf(s))
           /\ givenUp[s] \/ Places(audio[s]) = PlacesOf(s, AudioHalf(s))
           /\ Places(video[s]) = PlacesOf(s, VideoHalf(s))
    /\ pc[s] = "live" =>
           /\ Places(video[s]) = OfVideo(s, ReadSince(s, pos[s]))
           /\ Places(audio[s]) \subseteq OfAudio(s, ReadSince(s, pos[s]))
           /\ givenUp[s] \/ Places(audio[s]) = OfAudio(s, ReadSince(s, pos[s]))

\* The codec of a plan is the camera's, which sends RTP then, and a container is
\* no RTP.
PlanTold(p) ==
    /\ p.codec # NoCodec => IsRtp /\ p.codec = camera.codec /\ p.pt = camera.pt
    /\ p.transport \in {"UNKNOWN", "RTP", "MPEG_PS", "MPEG_TS"}
    /\ p.transport = "MPEG_PS" => ~IsRtp

\* The audio is waited for with a codec only.
Decided(s) == PlanTold(plan[s]) /\ (pc[s] = "window" => plan[s].codec # NoCodec)

\* The audio of a plan is the camera's, beside a video of another type, and among
\* its packets is one to make frames of.
SoundPlan(p) ==
    /\ p.channels # NoChannels => p.audio # NoType
    /\ p.audio # NoType =>
           /\ p.audio = camera.audio
           /\ p.codec # NoCodec /\ p.audio # p.pt
           /\ p.channels \in {NoChannels, camera.channels} \cap (0 .. 2)
           /\ \E i \in DOMAIN p.packets :
                  LET q == Packet(p.packets[i])
                  IN q.pt = p.audio /\ q.kind = "aac" /\ CarriesAac(q.data)

\* A packet of the session's audio that its depacketizer makes frames of.
Sounding(s, span) ==
    Heard(s, span) /\ Packet(span).kind = "aac" /\ CarriesAac(Packet(span).data)

\* There are frames once the replay has come past such a packet, or the audio is
\* given up, and each has the header of its unit.
Sounds(s) ==
    /\ SoundPlan(plan[s])
    /\ pc[s] \in {"idle", "prefix", "decide"} => plan[s].audio = NoType
    /\ plan[s].audio # NoType /\ pc[s] = "live" => givenUp[s] \/ frames[s] # <<>>
    /\ pc[s] \in {"audio", "rest"} =>
           \A i \in DOMAIN plan[s].packets :
               Sounding(s, plan[s].packets[i]) /\ (pc[s] = "audio" => i <= replayed[s])
                   => givenUp[s] \/ frames[s] # <<>>
    /\ \A i \in DOMAIN frames[s] :
           frames[s][i].header = AdtsHeader(frames[s][i].unit, AudioConfig(plan[s]))

\* What is cached names the camera's codec.
CacheTold ==
    rtpCache # <<>> =>
        /\ IsRtp /\ rtpCache[1].codec = camera.codec /\ rtpCache[1].pt = camera.pt
        /\ rtpCache[1].codec \in {H264, HEVC}

\* What is proved by induction of one session.
SessionInv(s) == Keeps(s) /\ HandsOn(s) /\ Decided(s) /\ Sounds(s)

\* And of all.
IInv == Types /\ CacheTold /\ \A s \in Sessions : SessionInv(s)
-----------------------------------------------------------------------------
(* Packets and intervals of places.                                         *)

\* The constants, one by one.
LEMMA Numbers ==
    /\ MaxSessions \in Nat /\ PrefixPackets \in Nat \ {0} /\ WindowPackets \in Nat \ {0}
    /\ PacketSizes \subseteq Nat \ {0}
BY PayloadPlanAssumption

\* The packet read next is the interval that begins where the session is, and
\* what it holds is the camera's.
LEMMA NextPacket ==
    ASSUME Types, NEW s \in Sessions, NEW span \in Next_(s)
    PROVE  /\ span \in Span /\ span[1] = pos[s]
           /\ OfCamera(span)
           /\ IsRtp => span[2] = pos[s] /\ Packet(span) = camera.packets[pos[s]]
           /\ ~IsRtp => Packet(span).kind = "bytes"
<1>1. pos[s] \in Nat \ {0} /\ camera \in Cameras
  BY DEF Types
<1>2. CASE IsRtp
  <2>1. span = <<pos[s], pos[s]>> /\ pos[s] \in DOMAIN camera.packets
    BY <1>2 DEF Next_
  <2>2. Packet(span) = camera.packets[pos[s]]
    BY <1>2, <2>1 DEF Packet
  <2>3. OfCamera(span)
    BY <1>1, <1>2, <2>1, <2>2, CamerasAssumption DEF OfCamera, IsRtp
  <2> QED
    BY <1>1, <1>2, <2>1, <2>2, <2>3 DEF Span
<1>3. CASE ~IsRtp
  <2>1. camera.bytes \in Seq(Byte)
    BY <1>1, <1>3, CamerasAssumption DEF IsRtp
  <2>2. PICK j \in DOMAIN camera.bytes :
            span = <<pos[s], j>> /\ j - pos[s] + 1 \in PacketSizes
    BY <1>3 DEF Next_
  <2>3. j \in Nat /\ pos[s] <= j
    BY <1>1, <2>1, <2>2, Numbers
  <2>4. Packet(span).kind = "bytes" /\ Packet(span).data = SubSeq(camera.bytes, pos[s], j)
    BY <1>3, <2>2 DEF Packet
  <2>5. SubSeq(camera.bytes, pos[s], j) \in Seq(Byte)
    <3>1. \A i \in pos[s] .. j : camera.bytes[i] \in Byte
      BY <1>1, <2>1, <2>2, <2>3
    <3> QED
      BY <1>1, <2>3, <3>1, SubSeqProperties
  <2>6. OfCamera(span)
    BY <1>3, <2>4, <2>5 DEF OfCamera
  <2> QED
    BY <1>1, <1>3, <2>2, <2>3, <2>4, <2>6 DEF Span
<1> QED
  BY <1>2, <1>3

\* Places of an appended interval.
LEMMA PlacesAppend ==
    ASSUME NEW q \in Seq(Span), NEW span \in Span
    PROVE  /\ Append(q, span) \in Seq(Span)
           /\ Places(Append(q, span)) = Places(q) \cup (span[1] .. span[2])
           /\ InOrder(q) /\ (\A x \in Places(q) : x < span[1]) => InOrder(Append(q, span))
<1> DEFINE r == Append(q, span)
<1>1. r \in Seq(Span) /\ Len(r) = Len(q) + 1 /\ Len(q) \in Nat
      /\ DOMAIN r = 1 .. Len(q) + 1 /\ DOMAIN q = 1 .. Len(q)
  OBVIOUS
<1>2. r[Len(q) + 1] = span /\ \A i \in 1 .. Len(q) : r[i] = q[i]
  OBVIOUS
<1> HIDE DEF r
<1>3. Places(r) = Places(q) \cup (span[1] .. span[2])
  <2>1. ASSUME NEW x \in Places(r)
        PROVE  x \in Places(q) \cup (span[1] .. span[2])
    <3>1. PICK i \in DOMAIN r : x \in r[i][1] .. r[i][2]
      BY DEF Places
    <3>2. CASE i = Len(q) + 1
      BY <1>2, <3>1, <3>2
    <3>3. CASE i \in 1 .. Len(q)
      BY <1>1, <1>2, <3>1, <3>3 DEF Places
    <3> QED
      BY <1>1, <3>2, <3>3
  <2>2. ASSUME NEW x \in Places(q) \cup (span[1] .. span[2])
        PROVE  x \in Places(r)
    <3>1. CASE x \in Places(q)
      <4>1. PICK i \in DOMAIN q : x \in q[i][1] .. q[i][2]
        BY <3>1 DEF Places
      <4>2. i \in DOMAIN r /\ r[i] = q[i]
        BY <1>1, <1>2
      <4> QED
        BY <4>1, <4>2 DEF Places
    <3>2. CASE x \in span[1] .. span[2]
      <4>1. Len(q) + 1 \in DOMAIN r
        BY <1>1
      <4> QED
        BY <1>2, <3>2, <4>1 DEF Places
    <3> QED
      BY <3>1, <3>2
  <2> QED
    BY <2>1, <2>2
<1>4. ASSUME InOrder(q), \A x \in Places(q) : x < span[1]
      PROVE  InOrder(r)
  <2> SUFFICES ASSUME NEW i \in DOMAIN r, NEW j \in DOMAIN r, i < j
               PROVE  r[i][2] < r[j][1]
    BY DEF InOrder
  <2>1. i \in 1 .. Len(q) /\ r[i] = q[i]
    BY <1>1, <1>2
  <2>2. CASE j \in 1 .. Len(q)
    BY <1>1, <1>2, <1>4, <2>1, <2>2 DEF InOrder
  <2>3. CASE j = Len(q) + 1
    <3>1. q[i] \in Span
      BY <1>1, <2>1
    <3>2. q[i][2] \in q[i][1] .. q[i][2]
      BY <3>1 DEF Span
    <3>3. q[i][2] \in Places(q)
      BY <1>1, <2>1, <3>2 DEF Places
    <3> QED
      BY <1>2, <1>4, <2>1, <2>3, <3>3
  <2> QED
    BY <1>1, <2>2, <2>3
<1> QED
  BY <1>1, <1>3, <1>4 DEF r

\* The same, when it is joined to the last one.
LEMMA PlacesHand ==
    ASSUME NEW q \in Seq(Span), NEW span \in Span
    PROVE  /\ Hand(q, span) \in Seq(Span)
           /\ Places(Hand(q, span)) = Places(q) \cup (span[1] .. span[2])
           /\ InOrder(q) /\ (\A x \in Places(q) : x < span[1]) => InOrder(Hand(q, span))
<1>1. CASE ~(q # <<>> /\ Last(q)[2] + 1 = span[1])
  <2>1. Hand(q, span) = Append(q, span)
    BY <1>1 DEF Hand
  <2> QED
    BY <2>1, PlacesAppend
<1>2. CASE q # <<>> /\ Last(q)[2] + 1 = span[1]
  <2> DEFINE n == Len(q)
             f == Front(q)
             last == <<q[n][1], span[2]>>
             r == Append(f, last)
  <2>1. n \in Nat \ {0} /\ n \in DOMAIN q /\ q[n] \in Span
    BY <1>2
  <2>2. q[n][2] + 1 = span[1] /\ Hand(q, span) = r
    BY <1>2 DEF Hand, Last
  <2>3. f = SubSeq(q, 1, n - 1)
    BY DEF Front
  <2>4. f \in Seq(Span) /\ Len(f) = n - 1 /\ \A i \in 1 .. n - 1 : f[i] = q[i]
    <3>1. n - 1 \in Int /\ 1 \in Int /\ \A i \in 1 .. n - 1 : q[i] \in Span
      BY <2>1
    <3> HIDE DEF f
    <3>2. /\ f \in Seq(Span)
          /\ Len(f) = IF 1 <= n - 1 THEN (n - 1) - 1 + 1 ELSE 0
          /\ \A i \in 1 .. (n - 1) - 1 + 1 : f[i] = q[1 + i - 1]
      BY <2>3, <3>1, SubSeqProperties
    <3> HIDE DEF n
    <3>3. (n - 1) - 1 + 1 = n - 1 /\ n - 1 >= 0
      BY <2>1
    <3>4. Len(f) = n - 1
      BY <2>1, <3>2, <3>3
    <3>5. \A i \in 1 .. n - 1 : 1 + i - 1 = i
      BY <2>1
    <3> QED
      BY <3>2, <3>3, <3>4, <3>5
  <2>5. last \in Span /\ last[1] = q[n][1] /\ last[2] = span[2]
    BY <2>1, <2>2 DEF Span
  <2>6. q[n][1] .. span[2] = (q[n][1] .. q[n][2]) \cup (span[1] .. span[2])
    BY <2>1, <2>2 DEF Span
  <2>7. r \in Seq(Span) /\ Places(r) = Places(f) \cup (last[1] .. last[2])
    <3> HIDE DEF last, f
    <3> QED
      BY <2>4, <2>5, PlacesAppend
  <2>8. q = Append(f, q[n])
    BY <2>1, <2>4
  <2>9. Places(q) = Places(f) \cup (q[n][1] .. q[n][2])
    <3> HIDE DEF f
    <3> QED
      BY <2>1, <2>4, <2>8, PlacesAppend
  <2>10. ASSUME InOrder(q)
         PROVE  InOrder(r)
    <3>1. InOrder(f)
      BY <2>1, <2>4, <2>10 DEF InOrder
    <3>2. ASSUME NEW x \in Places(f)
          PROVE  x < last[1]
      <4>1. PICK i \in DOMAIN f : x \in f[i][1] .. f[i][2]
        BY DEF Places
      <4>2. i \in 1 .. n - 1 /\ i \in DOMAIN q /\ i < n /\ q[i] \in Span /\ f[i] = q[i]
        BY <2>1, <2>4
      <4>3. q[i][2] < q[n][1]
        BY <2>1, <2>10, <4>2 DEF InOrder
      <4> QED
        BY <2>1, <2>5, <4>1, <4>2, <4>3 DEF Span
    <3> HIDE DEF last, f
    <3> QED
      BY <2>4, <2>5, <3>1, <3>2, PlacesAppend
  <2> HIDE DEF f, last, r
  <2> QED
    BY <2>2, <2>5, <2>6, <2>7, <2>9, <2>10
<1> QED
  BY <1>1, <1>2
-----------------------------------------------------------------------------
(* Bytes: which codec a payload names, and what is written before a frame.  *)

\* What a payload names as its codec, by itself or in an aggregate, is its own:
\* no unit of single-layer HEVC, whose first byte is even, reads as an H.264 SPS,
\* and no unit of H.264 but data partitions and what has no type reads as an HEVC
\* parameter set.
THEOREM CodecsToldApart ==
    ASSUME NEW p, p.head \in Byte, p.intact \in Nat,
           \A i \in 1 .. p.intact : p.units[i].head \in Byte
    PROVE  /\ p.head % 2 = 0 /\ (\A i \in 1 .. p.intact : p.units[i].head % 2 = 0)
                  => DetectCodec(p) # H264
           /\ p.head % 32 \notin {0, 2, 4} => DetectCodec(p) # HEVC
<1>1. H264 # HEVC /\ NoCodec # HEVC /\ NoCodec # H264
  BY DEF H264, HEVC, NoCodec
<1>2. ASSUME NEW u, u.head \in Byte, u.head % 2 = 0
      PROVE  SetCodec(u) # H264
  <2>1. \A h \in 0 .. 255 : h % 2 = 0 => h % 32 # 7
    OBVIOUS
  <2>2. u.head % 32 # 7
    BY <1>2, <2>1 DEF Byte
  <2> QED
    BY <1>1, <2>2 DEF SetCodec, H264Type
<1>3. ASSUME NEW u, u.head \in Byte, u.head % 32 \notin {0, 2, 4}
      PROVE  SetCodec(u) # HEVC
  <2>1. \A h \in 0 .. 255 :
            ~(h >= 128) /\ h % 2 = 0 /\ (h \div 2) % 64 \in 32 .. 34
                => h % 32 \in {0, 2, 4}
    OBVIOUS
  <2>2. ~(~(u.head >= 128) /\ u.head % 2 = 0 /\ (u.head \div 2) % 64 \in 32 .. 34)
    BY <1>3, <2>1 DEF Byte
  <2> QED
    BY <1>1, <2>2 DEF SetCodec, HevcType
<1>4. ASSUME p.head % 2 = 0, \A i \in 1 .. p.intact : p.units[i].head % 2 = 0
      PROVE  DetectCodec(p) # H264
  <2>1. SetCodec(p) # H264
    BY <1>2, <1>4
  <2>2. ~\E i \in 1 .. p.intact : SetCodec(p.units[i]) = H264
    BY <1>2, <1>4
  <2> QED
    BY <1>1, <2>1, <2>2 DEF DetectCodec
<1>5. ASSUME p.head % 32 \notin {0, 2, 4}
      PROVE  DetectCodec(p) # HEVC
  <2>1. SetCodec(p) # HEVC
    BY <1>3, <1>5
  <2>2. p.head # 96
    BY <1>5
  <2> QED
    BY <1>1, <2>1, <2>2 DEF DetectCodec
<1> QED
  BY <1>4, <1>5

\* The header of every Access Unit that fits a frame leads to the next one: its
\* bytes are bytes, the 13 bits of its length hold the size and the header's own
\* seven bytes, and it names AAC-LC, 16 kHz and the channels (adts_frame).
THEOREM HeaderReadsBack ==
    ASSUME NEW size \in 0 .. MaxAu, NEW unit, unit.size = size,
           NEW channels \in 0 .. 7,
           NEW config, config = SetChannels(AAC_LC_16K_MONO, channels),
           NEW h, h = AdtsHeader(unit, config)
    PROVE  /\ \A k \in DOMAIN h : h[k] \in Byte
           /\ h[1] = 255 /\ h[2] \div 16 = 15
           /\ (h[4] % 4) * 2048 + h[5] * 8 + (h[6] \div 32) = size + 7
           /\ h[3] \div 64 = 1 /\ (h[3] \div 4) % 16 = 8
           /\ (h[3] % 2) * 4 + (h[4] \div 64) = channels
<1>1. size \in 0 .. 8184
  <2>1. MaxAu = 8184
    BY DEF MaxAu
  <2> QED
    BY <2>1
<1>2. PICK n \in 0 .. 8191 : n = size + 7
  BY <1>1
<1>3. config = 5120 + 8 * channels
  <2>1. (5128 \div 8) % 8 = 1 /\ channels % 8 = channels
    OBVIOUS
  <2> QED
    BY <2>1 DEF SetChannels, AAC_LC_16K_MONO
<1>4. /\ ((config \div 2048) % 32) - 1 = 1 /\ (config \div 128) % 16 = 8
      /\ (config \div 8) % 8 = channels
  BY <1>3
<1>5. PICK y \in 0 .. 1, x \in 0 .. 3 :
          (channels \div 4) % 2 = y /\ channels % 4 = x /\ channels = y * 4 + x
  <2>1. (channels \div 4) % 2 \in 0 .. 1 /\ channels % 4 \in 0 .. 3
        /\ channels = ((channels \div 4) % 2) * 4 + (channels % 4)
    OBVIOUS
  <2> QED
    BY <2>1
<1>6. PICK a, b, c : /\ a = x * 64 + ((n \div 2048) % 4)
                    /\ b = (n \div 8) % 256 /\ c = (n % 8) * 32 + 31
  OBVIOUS
<1>7. /\ a \in 0 .. 255 /\ b \in 0 .. 255 /\ c \in 0 .. 255
      /\ (a % 4) * 2048 + b * 8 + (c \div 32) = n /\ a \div 64 = x
  <2>1. PICK m \in 0 .. 1023, t \in 0 .. 7 : n = m * 8 + t
    <3>1. n \div 8 \in 0 .. 1023
      OBVIOUS
    <3>2. n % 8 \in 0 .. 7
      OBVIOUS
    <3>3. n = (n \div 8) * 8 + (n % 8)
      OBVIOUS
    <3> QED
      BY <3>1, <3>2, <3>3
  <2>2. PICK q \in 0 .. 3, r \in 0 .. 255 : m = q * 256 + r
    <3>1. m \div 256 \in 0 .. 3
      OBVIOUS
    <3>2. m % 256 \in 0 .. 255
      OBVIOUS
    <3>3. m = (m \div 256) * 256 + (m % 256)
      OBVIOUS
    <3> QED
      BY <3>1, <3>2, <3>3
  <2>3. n \div 8 = m /\ n % 8 = t
    BY <2>1
  <2>4. (n \div 8) % 256 = r
    BY <2>2, <2>3
  <2>5. (n \div 2048) % 4 = q
    <3>1. n = q * 2048 + (r * 8 + t) /\ r * 8 + t \in 0 .. 2047
      BY <2>1, <2>2
    <3>2. n \div 2048 = q
      BY <3>1
    <3> QED
      BY <3>2
  <2>6. a = x * 64 + q /\ b = r /\ c = t * 32 + 31
    BY <1>6, <2>3, <2>4, <2>5
  <2>7. a \in 0 .. 255 /\ a % 4 = q /\ a \div 64 = x
    BY <2>6
  <2>8. b \in 0 .. 255 /\ c \in 0 .. 255 /\ c \div 32 = t
    BY <2>6
  <2>9. q * 2048 + r * 8 + t = n
    BY <2>1, <2>2
  <2> QED
    BY <2>6, <2>7, <2>8, <2>9
<1>8. h = <<255, 241, 96 + y, a, b, c, 252>>
  <2>1. (1 % 4) * 64 + 8 * 4 + y = 96 + y
    OBVIOUS
  <2> QED
    BY <1>2, <1>4, <1>5, <1>6, <2>1 DEF AdtsHeader
<1>9. /\ DOMAIN h = 1 .. 7
      /\ h[1] = 255 /\ h[2] = 241 /\ h[3] = 96 + y
      /\ h[4] = a /\ h[5] = b /\ h[6] = c /\ h[7] = 252
  BY <1>8
<1>10. \A k \in DOMAIN h : h[k] \in Byte
  <2> SUFFICES ASSUME NEW k \in 1 .. 7 PROVE h[k] \in 0 .. 255
    BY <1>9 DEF Byte
  <2>1. k = 1 \/ k = 2 \/ k = 3 \/ k = 4 \/ k = 5 \/ k = 6 \/ k = 7
    OBVIOUS
  <2>2. 96 + y \in 0 .. 255 /\ 255 \in 0 .. 255 /\ 241 \in 0 .. 255 /\ 252 \in 0 .. 255
    OBVIOUS
  <2>3. /\ h[1] \in 0 .. 255 /\ h[2] \in 0 .. 255 /\ h[3] \in 0 .. 255
        /\ h[7] \in 0 .. 255
    BY <1>9, <2>2
  <2>4. h[4] \in 0 .. 255 /\ h[5] \in 0 .. 255 /\ h[6] \in 0 .. 255
    BY <1>7, <1>9
  <2> QED
    BY <2>1, <2>3, <2>4
<1>11. /\ 241 \div 16 = 15 /\ (96 + y) \div 64 = 1 /\ ((96 + y) \div 4) % 16 = 8
       /\ ((96 + y) % 2) * 4 + x = channels
  BY <1>5
<1> QED
  BY <1>2, <1>7, <1>9, <1>10, <1>11
-----------------------------------------------------------------------------
(* What is decided of the audio.                                            *)

\* _prefix_audio finds the type of a packet that frames can be made of.
LEMMA AudioTypeIs ==
    ASSUME NEW pt, NEW spans \in Seq(Span), AudioType(pt, spans) # NoType
    PROVE  \E i \in DOMAIN spans :
               /\ Packet(spans[i]).kind = "aac" /\ CarriesAac(Packet(spans[i]).data)
               /\ AudioType(pt, spans) = Packet(spans[i]).pt /\ AudioType(pt, spans) # pt
<1> DEFINE found == {i \in DOMAIN spans : /\ Packet(spans[i]).pt # pt /\ Packet(spans[i]).kind = "aac"
                                          /\ CarriesAac(Packet(spans[i]).data)}
<1>1. found # {} /\ AudioType(pt, spans) = Packet(spans[Min(found)]).pt
  BY DEF AudioType
<1>2. found \in SUBSET Nat
  OBVIOUS
<1> HIDE DEF found
<1>3. Min(found) \in found
  BY <1>1, <1>2, MinOfNumbers
<1> QED
  BY <1>1, <1>3 DEF found

\* A payload of the audio: its Access Units, and what they say of the channels.
LEMMA PayloadOfAudio ==
    ASSUME NEW data, NEW channels, OfChannels(data, channels)
    PROVE  /\ Count(data) \in Nat
           /\ DOMAIN AccessUnits(data) \in SUBSET Nat
           /\ \A i \in DOMAIN AccessUnits(data) :
                 /\ AccessUnits(data)[i].size \in Nat /\ AccessUnits(data)[i].first \in Byte
                 /\ AccessUnits(data)[i] = [size |-> UnitSize(data, i), first |-> data.firsts[i]]
                 /\ StreamChannels(AccessUnits(data)[i]) \in {NoChannels, channels} \cap (0 .. 2)
<1>1. /\ data.bits \in Nat
      /\ \A i \in 1 .. Count(data) :
             data.headers[i] \in 0 .. 256 * 256 - 1 /\ data.firsts[i] \in Byte
      /\ \A i \in DOMAIN AccessUnits(data) :
            StreamChannels(AccessUnits(data)[i]) \in {NoChannels, channels}
  BY DEF OfChannels
<1>2. Count(data) \in Nat
  <2>1. \A b \in Nat : b \div 16 \in Nat
    OBVIOUS
  <2> QED
    BY <1>1, <2>1 DEF Count
<1>3. CASE ~IsAuSection(data)
  <2>1. AccessUnits(data) = <<>>
    BY <1>3 DEF AccessUnits
  <2> QED
    BY <1>2, <2>1
<1>4. CASE IsAuSection(data)
  <2>1. AccessUnits(data) = [i \in 1 .. Count(data) |->
                               [size |-> UnitSize(data, i), first |-> data.firsts[i]]]
    BY <1>4 DEF AccessUnits
  <2>2. ASSUME NEW i \in 1 .. Count(data)
        PROVE  UnitSize(data, i) \in Nat
    <3>1. \A h \in 0 .. 256 * 256 - 1 : h \div 8 \in Nat
      BY SMTT(30)
    <3> QED
      BY <1>1, <3>1 DEF UnitSize
  <2>3. \A unit : StreamChannels(unit) \in 0 .. 2
    BY DEF StreamChannels, NoChannels
  <2>4. DOMAIN AccessUnits(data) = 1 .. Count(data)
    BY <2>1
  <2>5. ASSUME NEW i \in 1 .. Count(data)
        PROVE  /\ AccessUnits(data)[i] = [size |-> UnitSize(data, i), first |-> data.firsts[i]]
               /\ AccessUnits(data)[i].size \in Nat /\ AccessUnits(data)[i].first \in Byte
    <3>1. AccessUnits(data)[i] = [size |-> UnitSize(data, i), first |-> data.firsts[i]]
      BY <2>1
    <3>2. data.firsts[i] \in Byte
      BY <1>1
    <3> QED
      BY <2>2, <3>1, <3>2
  <2>6. DOMAIN AccessUnits(data) \in SUBSET Nat
    BY <1>2, <2>4
  <2> QED
    BY <1>1, <1>2, <2>3, <2>4, <2>5, <2>6
<1> QED
  BY <1>3, <1>4

\* _audio_channels: what an Access Unit of the audio says, or nothing.
LEMMA AudioChannelsIs ==
    ASSUME NEW pt, NEW spans \in Seq(Span), \A i \in DOMAIN spans : OfCamera(spans[i])
    PROVE  AudioChannels(pt, spans) \in {NoChannels, camera.channels} \cap (0 .. 2)
<1> DEFINE found == {i \in DOMAIN spans : Naming(pt, Packet(spans[i])) # {}}
           p == Packet(spans[Min(found)])
           n == Min(Naming(pt, p))
<1>1. CASE found = {}
  BY <1>1 DEF AudioChannels, NoChannels
<1>2. CASE found # {}
  <2>1. found \in SUBSET Nat
    OBVIOUS
  <2>2. Min(found) \in found
    <3> HIDE DEF found
    <3> QED
      BY <1>2, <2>1, MinOfNumbers
  <2>3. Naming(pt, p) # {} /\ OfCamera(spans[Min(found)])
    BY <2>2
  <2> HIDE DEF found, p
  <2>4. p.pt = pt /\ p.kind = "aac"
    <3>1. ~(p.pt = pt /\ p.kind = "aac") => ChannelsOf(pt, p) = <<>>
      BY DEF ChannelsOf
    <3>2. ChannelsOf(pt, p) = <<>> => Naming(pt, p) = {}
      BY DEF Naming
    <3> QED
      BY <2>3, <3>1, <3>2
  <2>5. OfChannels(p.data, camera.channels)
    BY <2>3, <2>4 DEF OfCamera, p
  <2>6. /\ DOMAIN AccessUnits(p.data) \in SUBSET Nat
        /\ \A i \in DOMAIN AccessUnits(p.data) :
              StreamChannels(AccessUnits(p.data)[i]) \in {NoChannels, camera.channels} \cap (0 .. 2)
    BY <2>5, PayloadOfAudio
  <2>7. ChannelsOf(pt, p)
            = [k \in DOMAIN AccessUnits(p.data) |-> StreamChannels(AccessUnits(p.data)[k])]
    BY <2>4 DEF ChannelsOf
  <2>8. Naming(pt, p) \in SUBSET DOMAIN AccessUnits(p.data)
    BY <2>7 DEF Naming
  <2>9. n \in DOMAIN AccessUnits(p.data)
    <3>1. n \in Naming(pt, p)
      BY <2>3, <2>6, <2>8, MinOfNumbers
    <3> QED
      BY <2>8, <3>1
  <2>10. AudioChannels(pt, spans) = ChannelsOf(pt, p)[n]
    BY <1>2 DEF AudioChannels, found, p
  <2>11. AudioChannels(pt, spans) = StreamChannels(AccessUnits(p.data)[n])
    BY <2>7, <2>9, <2>10
  <2> HIDE DEF n
  <2> QED
    BY <2>6, <2>9, <2>11
<1> QED
  BY <1>1, <1>2 DEF found

\* The plan with its audio.
LEMMA WithAudioIs ==
    ASSUME NEW p, IsPlan(p), p.packets \in Seq(Span), p.codec # NoCodec,
           \A i \in DOMAIN p.packets : OfCamera(p.packets[i])
    PROVE  LET w == WithAudio(p) IN
           /\ IsPlan(w)
           /\ w.packets = p.packets /\ w.codec = p.codec /\ w.pt = p.pt
           /\ w.transport = p.transport
           /\ SoundPlan(w)
<1> DEFINE w == WithAudio(p)
           type == AudioType(p.pt, p.packets)
           channels == IF type = NoType THEN NoChannels ELSE AudioChannels(type, p.packets)
<1>1. w = [p EXCEPT !.audio = type, !.channels = channels]
  BY DEF WithAudio
<1> HIDE DEF w, type
<1>2. /\ IsPlan(w) /\ w.packets = p.packets /\ w.codec = p.codec /\ w.pt = p.pt
      /\ w.transport = p.transport /\ w.audio = type /\ w.channels = channels
  BY <1>1 DEF IsPlan
<1>3. ASSUME type # NoType
      PROVE  /\ type = camera.audio /\ type # p.pt
             /\ channels \in {NoChannels, camera.channels} \cap (0 .. 2)
             /\ \E i \in DOMAIN p.packets :
                   LET q == Packet(p.packets[i])
                   IN q.pt = type /\ q.kind = "aac" /\ CarriesAac(q.data)
  <2>1. PICK i \in DOMAIN p.packets :
            /\ Packet(p.packets[i]).kind = "aac" /\ CarriesAac(Packet(p.packets[i]).data)
            /\ type = Packet(p.packets[i]).pt /\ type # p.pt
    BY <1>3, AudioTypeIs DEF type
  <2>2. type = camera.audio
    BY <2>1 DEF OfCamera
  <2>3. channels \in {NoChannels, camera.channels} \cap (0 .. 2)
    BY <1>3, AudioChannelsIs
  <2> QED
    BY <2>1, <2>2, <2>3
<1>4. SoundPlan(w)
  BY <1>2, <1>3 DEF SoundPlan
<1> QED
  BY <1>2, <1>4 DEF w

\* A packet that names a codec names the camera's.
LEMMA CodecNamed ==
    ASSUME NEW span, OfCamera(span), CodecOf(Packet(span)) # NoCodec
    PROVE  /\ CodecOf(Packet(span)) = camera.codec /\ camera.codec \in {H264, HEVC}
           /\ Packet(span).pt = camera.pt /\ IsRtp
<1> DEFINE packet == Packet(span)
<1>1. packet.kind = "video" /\ CodecOf(packet) = DetectCodec(packet.data)
  BY DEF CodecOf
<1>2. packet.pt = camera.pt /\ OfCodec(packet.data, camera.codec) /\ camera.codec \in {H264, HEVC}
  BY <1>1 DEF OfCamera
<1>8. IsRtp
  BY <1>1 DEF Packet
<1> HIDE DEF packet
<1> DEFINE d == packet.data
<1> HIDE DEF d
<1>3. DetectCodec(d) \in {NoCodec, H264, HEVC}
  <2>1. \A u : SetCodec(u) \in {NoCodec, H264, HEVC}
    BY DEF SetCodec
  <2> QED
    BY <2>1 DEF DetectCodec
<1>4. OfCodec(d, camera.codec)
  BY <1>2 DEF d
<1>5. d.head \in Byte /\ d.intact \in Nat /\ \A i \in 1 .. d.intact : d.units[i].head \in Byte
  BY <1>4 DEF OfCodec
<1>6. CASE camera.codec = HEVC
  <2>1. d.head % 2 = 0 /\ \A i \in 1 .. d.intact : d.units[i].head % 2 = 0
    BY <1>4, <1>6 DEF OfCodec
  <2>2. DetectCodec(d) # H264
    BY <1>5, <2>1, CodecsToldApart
  <2> QED
    BY <1>1, <1>2, <1>3, <1>6, <1>8, <2>2 DEF d, packet
<1>7. CASE camera.codec = H264
  <2>1. H264 # HEVC
    BY DEF H264, HEVC
  <2>2. d.head % 32 \notin {0, 2, 4}
    BY <1>4, <1>7, <2>1 DEF OfCodec
  <2>3. DetectCodec(d) # HEVC
    BY <1>5, <2>2, CodecsToldApart
  <2> QED
    BY <1>1, <1>2, <1>3, <1>7, <1>8, <2>3 DEF d, packet
<1> QED
  BY <1>2, <1>6, <1>7, <1>8 DEF packet

\* The frames that the audio's depacketizer makes of a packet.
LEMMA FramesMade ==
    ASSUME NEW s \in Sessions, NEW span, OfCamera(span), plan[s].channels \in 0 .. 2
    PROVE  /\ FramesOf(s, span) \in Seq(Frame)
           /\ \A i \in DOMAIN FramesOf(s, span) :
                  FramesOf(s, span)[i].header
                      = AdtsHeader(FramesOf(s, span)[i].unit, AudioConfig(plan[s]))
           /\ Sounding(s, span) => FramesOf(s, span) # <<>>
<1> DEFINE data == Packet(span).data
           config == AudioConfig(plan[s])
           units == AccessUnits(data)
           made == FramesOf(s, span)
<1>1. CASE ~(Packet(span).kind = "aac" /\ CarriesAac(data))
  <2>1. made = <<>>
    BY <1>1 DEF FramesOf, Frames
  <2> HIDE DEF made
  <2> QED
    BY <1>1, <2>1 DEF Sounding, made
<1>2. CASE Packet(span).kind = "aac" /\ CarriesAac(data)
  <2>1. OfChannels(data, camera.channels)
    BY <1>2 DEF OfCamera
  <2>2. made = [i \in DOMAIN units |-> [header |-> AdtsHeader(units[i], config), unit |-> units[i]]]
    BY <1>2 DEF FramesOf, Frames
  <2>3. config \in Nat
    <3>1. SetChannels(AAC_LC_16K_MONO, plan[s].channels) \in Nat
      <4>1. \A n \in 0 .. 2 : 5128 - 8 * ((5128 \div 8) % 8) + 8 * (n % 8) \in Nat
        OBVIOUS
      <4> QED
        BY <4>1 DEF SetChannels, AAC_LC_16K_MONO
    <3> QED
      BY <3>1 DEF AudioConfig, AAC_LC_16K_MONO
  <2> HIDE DEF data, config, made
  <2>4. /\ Count(data) \in Nat
        /\ \A i \in DOMAIN units :
              /\ units[i].size \in Nat /\ units[i].first \in Byte
              /\ units[i] = [size |-> UnitSize(data, i), first |-> data.firsts[i]]
    BY <2>1, PayloadOfAudio
  <2>5. units # <<>> /\ \A i \in DOMAIN units : units[i].size <= MaxAu
    BY <1>2 DEF CarriesAac
  <2>6. DOMAIN units = 1 .. Count(data)
    BY <2>4, <2>5 DEF AccessUnits
  <2>7. units = [i \in 1 .. Count(data) |-> [size |-> UnitSize(data, i), first |-> data.firsts[i]]]
    BY <2>5 DEF AccessUnits
  <2>8. Count(data) # 0
    <3>1. CASE IsAuSection(data)
      <4>1. \A b \in Nat : b >= 16 => b \div 16 # 0
        OBVIOUS
      <4>2. data.bits >= 16 /\ data.bits \in Nat
        BY <2>1, <3>1 DEF IsAuSection, OfChannels
      <4> QED
        BY <4>1, <4>2 DEF Count
    <3>2. CASE ~IsAuSection(data)
      BY <2>5, <3>2 DEF AccessUnits
    <3> QED
      BY <3>1, <3>2
  <2> HIDE DEF units
  <2>9. ASSUME NEW i \in 1 .. Count(data)
        PROVE  /\ made[i].header = AdtsHeader(units[i], config) /\ made[i].unit = units[i]
               /\ made[i] \in Frame
    <3>1. made[i] = [header |-> AdtsHeader(units[i], config), unit |-> units[i]]
      BY <2>2, <2>6
    <3>2. units[i] \in Fitting
      <4>1. units[i].size \in 0 .. MaxAu /\ units[i].first \in Byte
        <5>1. units[i].size \in Nat /\ units[i].size <= MaxAu /\ units[i].first \in Byte
          BY <2>4, <2>5, <2>6
        <5>2. MaxAu \in Nat /\ \A x, m \in Nat : x <= m => x \in 0 .. m
          BY DEF MaxAu
        <5> QED
          BY <5>1, <5>2
      <4>2. units[i] = [size |-> UnitSize(data, i), first |-> data.firsts[i]]
        BY <2>4, <2>6
      <4> QED
        BY <4>1, <4>2 DEF Fitting
    <3> QED
      BY <2>3, <3>1, <3>2 DEF Frame
  <2>10. made \in Seq(Frame) /\ DOMAIN made = 1 .. Count(data)
    <3>1. made = [i \in 1 .. Count(data) |-> made[i]]
      BY <2>2, <2>6
    <3> QED
      BY <2>4, <2>9, <3>1
  <2>11. made # <<>>
    BY <2>4, <2>8, <2>10
  <2> QED
    BY <2>9, <2>10, <2>11 DEF made, config
<1> QED
  BY <1>1, <1>2
-----------------------------------------------------------------------------
(* Steps of one session, seen from the others.                              *)

\* Nothing of a session changes.
Rests(t) ==
    /\ pc'[t] = pc[t] /\ joined'[t] = joined[t] /\ pos'[t] = pos[t] /\ plan'[t] = plan[t]
    /\ replayed'[t] = replayed[t] /\ givenUp'[t] = givenUp[t]
    /\ video'[t] = video[t] /\ audio'[t] = audio[t] /\ frames'[t] = frames[t]

\* A step of one session.
OnlyOf(s) == camera' = camera /\ \A t \in Sessions \ {s} : Rests(t)

\* The camera sends what it sends.
LEMMA SameCamera ==
    ASSUME camera' = camera
    PROVE  /\ IsRtp' = IsRtp
           /\ \A span : Packet(span)' = Packet(span) /\ OfCamera(span)' = OfCamera(span)
           /\ \A p : SoundPlan(p)' = SoundPlan(p)
<1>1. IsRtp' = IsRtp
  BY DEF IsRtp
<1>2. \A span : Packet(span)' = Packet(span)
  BY <1>1 DEF Packet
<1>3. \A span : OfCamera(span)' = OfCamera(span)
  BY <1>1, <1>2 DEF OfCamera
<1>4. \A p : SoundPlan(p)' = SoundPlan(p)
  BY <1>2 DEF SoundPlan
<1> QED
  BY <1>1, <1>2, <1>3, <1>4

\* What is proved of a session holds while it rests.
LEMMA Resting ==
    ASSUME camera' = camera, NEW t \in Sessions, SessionInv(t), Rests(t)
    PROVE  SessionInv(t)'
<1>1. /\ IsRtp' = IsRtp
      /\ \A span : Packet(span)' = Packet(span) /\ OfCamera(span)' = OfCamera(span)
  BY SameCamera
<1>2. \A span : Heard(t, span)' = Heard(t, span) /\ Skips(t, span)' = Skips(t, span)
  BY <1>1 DEF Heard, Skips, Rests
<1>3. \A span : Sounding(t, span)' = Sounding(t, span)
  BY <1>1, <1>2 DEF Sounding
<1>4. AudioHalf(t)' = AudioHalf(t) /\ VideoHalf(t)' = VideoHalf(t)
  BY <1>2 DEF AudioHalf, VideoHalf, Rests
<1>5. \A I : PlacesOf(t, I)' = PlacesOf(t, I)
  BY DEF PlacesOf, Rests
<1>6. /\ Places(plan[t].packets)' = Places(plan[t].packets)
      /\ InOrder(plan[t].packets)' = InOrder(plan[t].packets)
      /\ Places(video[t])' = Places(video[t]) /\ Places(audio[t])' = Places(audio[t])
      /\ InOrder(video[t])' = InOrder(video[t]) /\ InOrder(audio[t])' = InOrder(audio[t])
  BY DEF Places, InOrder, Rests
<1>7. Keeps(t)'
  BY <1>1, <1>6 DEF Keeps, SessionInv, Rests
<1>8. HandsOn(t)'
  <2>1. /\ PlacesOf(t, AudioHalf(t))' = PlacesOf(t, AudioHalf(t))
        /\ PlacesOf(t, VideoHalf(t))' = PlacesOf(t, VideoHalf(t))
    BY <1>4 DEF PlacesOf, Rests
  <2>2. ReadSince(t, pos[t])' = ReadSince(t, pos[t])
    BY <1>1 DEF ReadSince, Rests
  <2>3. /\ OfVideo(t, ReadSince(t, pos[t]))' = OfVideo(t, ReadSince(t, pos[t]))
        /\ OfAudio(t, ReadSince(t, pos[t]))' = OfAudio(t, ReadSince(t, pos[t]))
    BY <2>2 DEF OfVideo, OfAudio, Rests
  <2> QED
    BY <1>1, <1>6, <2>1, <2>3 DEF HandsOn, SessionInv, Rests
<1>9. Decided(t)'
  BY <1>1 DEF Decided, PlanTold, SessionInv, Rests
<1>10. Sounds(t)'
  <2>1. AudioConfig(plan[t])' = AudioConfig(plan[t])
    BY DEF AudioConfig, Rests
  <2>2. SoundPlan(plan[t])' = SoundPlan(plan[t])
    BY <1>1 DEF SoundPlan, Rests
  <2> QED
    BY <1>3, <2>1, <2>2 DEF Sounds, SessionInv, Rests
<1> QED
  BY <1>7, <1>8, <1>9, <1>10 DEF SessionInv

\* So it is enough to look at the session that makes the step.
LEMMA StepOfOne ==
    ASSUME IInv, NEW s \in Sessions, OnlyOf(s), Types', CacheTold', SessionInv(s)'
    PROVE  IInv'
<1>1. ASSUME NEW t \in Sessions
      PROVE  SessionInv(t)'
  <2>1. CASE t = s
    BY <2>1
  <2>2. CASE t # s
    BY <2>2, Resting DEF IInv, OnlyOf
  <2> QED
    BY <2>1, <2>2
<1>2. Sessions' = Sessions
  BY DEF Sessions
<1> QED
  BY <1>1, <1>2 DEF IInv

-----------------------------------------------------------------------------
(* A session comes, and goes.                                               *)

\* No interval has a place.
LEMMA Empty ==
    /\ Places(<<>>) = {} /\ InOrder(<<>>) /\ <<>> \in Seq(Span) /\ <<>> \in Seq(Frame)
    /\ Len(<<>>) = 0 /\ DOMAIN <<>> = {}
BY DEF Places, InOrder

\* The fields of a new plan.
LEMMA NewPlanIs ==
    /\ IsPlan(NewPlan) /\ NewPlan.packets = <<>> /\ NewPlan.codec = NoCodec
    /\ NewPlan.transport = "UNKNOWN" /\ NewPlan.audio = NoType /\ NewPlan.channels = NoChannels
BY DEF NewPlan, IsPlan

\* Nothing is left of a session that is over.
LEMMA OverKeeps ==
    ASSUME IInv, NEW s \in Sessions, Over(s)
    PROVE  IInv'
<1>1. /\ pc'[s] = "over" /\ joined'[s] = 1 /\ pos'[s] = 1 /\ plan'[s] = NewPlan
      /\ replayed'[s] = 0 /\ video'[s] = <<>> /\ audio'[s] = <<>> /\ frames'[s] = <<>>
  BY DEF Over, Goto, IInv, Types
<1>2. OnlyOf(s)
  BY DEF Over, Goto, IInv, Types, OnlyOf, Rests, fixedVars
<1>3. Types'
  <2>1. Sessions' = Sessions /\ camera' = camera
    BY DEF Sessions, Over, fixedVars
  <2>2. /\ pc' \in [Sessions -> Labels] /\ joined' \in [Sessions -> Nat \ {0}]
        /\ pos' \in [Sessions -> Nat \ {0}] /\ replayed' \in [Sessions -> Nat]
    BY DEF Over, Goto, IInv, Types, Labels
  <2>3. /\ video' \in [Sessions -> Seq(Span)] /\ audio' \in [Sessions -> Seq(Span)]
        /\ frames' \in [Sessions -> Seq(Frame)]
    BY Empty DEF Over, IInv, Types
  <2>4. DOMAIN plan' = Sessions
    BY DEF Over, IInv, Types
  <2>5. ASSUME NEW t \in Sessions
        PROVE  IsPlan(plan[t])' /\ plan'[t].packets \in Seq(Span)
    <3>1. CASE t = s
      BY <1>1, <3>1, NewPlanIs, Empty DEF IsPlan
    <3>2. CASE t # s
      BY <1>2, <3>2 DEF OnlyOf, Rests, IInv, Types, IsPlan
    <3> QED
      BY <3>1, <3>2
  <2>6. givenUp' \in [Sessions -> BOOLEAN]
    BY DEF Over, IInv, Types
  <2> QED
    BY <2>1, <2>2, <2>3, <2>4, <2>5, <2>6 DEF Types, IInv
<1>4. CacheTold'
  BY DEF Over, CacheTold, IInv, cacheVars, fixedVars, IsRtp
<1>5. SessionInv(s)'
  <2>1. plan'[s].packets = <<>> /\ plan'[s].codec = NoCodec /\ plan'[s].transport = "UNKNOWN"
        /\ plan'[s].audio = NoType /\ plan'[s].channels = NoChannels
    BY <1>1, NewPlanIs
  <2>2. Keeps(s)'
    BY <1>1, <2>1, Empty, Numbers DEF Keeps
  <2>3. HandsOn(s)'
    BY <1>1, Empty DEF HandsOn
  <2>4. Decided(s)'
    BY <1>1, <2>1 DEF Decided, PlanTold
  <2>5. Sounds(s)'
    BY <1>1, <2>1, Empty DEF Sounds, SoundPlan
  <2> QED
    BY <2>2, <2>3, <2>4, <2>5 DEF SessionInv
<1> QED
  BY <1>2, <1>3, <1>4, <1>5, StepOfOne

\* A session begins with nothing read, wherever it joins.
LEMMA OpenKeeps ==
    ASSUME IInv, NEW s \in Sessions, Open(s)
    PROVE  IInv'
<1>1. PICK start \in camera.joins :
          joined' = [joined EXCEPT ![s] = start] /\ pos' = [pos EXCEPT ![s] = start]
  BY DEF Open
<1>2. start \in Nat \ {0}
  <2>1. camera \in Cameras
    BY DEF IInv, Types
  <2> QED
    BY <1>1, <2>1, CamerasAssumption
<1>3. /\ pc[s] = "idle" /\ pc' = [pc EXCEPT ![s] = "prefix"]
      /\ plan' = plan /\ replayed' = replayed /\ video' = video /\ audio' = audio
      /\ frames' = frames /\ givenUp' = givenUp /\ camera' = camera /\ rtpCache' = rtpCache
  BY DEF Open, Goto, outVars, sinkVars, fixedVars, cacheVars
<1>4. Types'
  <2>1. Sessions' = Sessions
    BY DEF Sessions
  <2>2. /\ pc' \in [Sessions -> Labels] /\ joined' \in [Sessions -> Nat \ {0}]
        /\ pos' \in [Sessions -> Nat \ {0}]
    BY <1>1, <1>2, <1>3 DEF IInv, Types, Labels
  <2> QED
    BY <1>3, <2>1, <2>2 DEF Types, IInv, IsPlan
<1>5. OnlyOf(s)
  BY <1>1, <1>3 DEF IInv, Types, OnlyOf, Rests
<1>6. CacheTold'
  BY <1>3 DEF CacheTold, IInv, IsRtp
<1>7. SessionInv(s)'
  <2>1. pc'[s] = "prefix" /\ joined'[s] = start /\ pos'[s] = start
    BY <1>1, <1>3 DEF IInv, Types
  <2>2. plan[s].packets = <<>> /\ video[s] = <<>> /\ audio[s] = <<>> /\ frames[s] = <<>>
        /\ replayed[s] = 0
    BY <1>3 DEF IInv, SessionInv, Keeps, HandsOn
  <2>3. Keeps(s)'
    <3>1. {i \in start .. start - 1 : IsRtp => camera.packets[i].kind # "empty"} = {}
      BY <1>2
    <3>2. IsRtp' = IsRtp
      BY <1>3, SameCamera
    <3> QED
      BY <1>2, <1>3, <2>1, <2>2, <3>1, <3>2, Empty, Numbers DEF Keeps
  <2>4. HandsOn(s)'
    BY <1>3, <2>1, <2>2, Empty DEF HandsOn
  <2>5. Decided(s)'
    <3>1. Decided(s) /\ IsRtp' = IsRtp
      BY <1>3, SameCamera DEF IInv, SessionInv
    <3> QED
      BY <1>3, <2>1, <3>1 DEF Decided, PlanTold
  <2>6. Sounds(s)'
    <3>1. Sounds(s) /\ \A span : Packet(span)' = Packet(span)
      BY <1>3, SameCamera DEF IInv, SessionInv
    <3>2. \A span : Sounding(s, span)' = Sounding(s, span)
      BY <1>3, <3>1 DEF Sounding, Heard
    <3>3. SoundPlan(plan[s])'
      BY <1>3, <3>1 DEF Sounds, SoundPlan
    <3> QED
      BY <1>3, <2>1, <2>2, <3>1, <3>2, <3>3, Empty DEF Sounds
  <2> QED
    BY <2>3, <2>4, <2>5, <2>6 DEF SessionInv
<1> QED
  BY <1>4, <1>5, <1>6, <1>7, StepOfOne
-----------------------------------------------------------------------------
(* Reading.                                                                 *)

\* With one packet more.
LEMMA ReadOneMore ==
    ASSUME Types, NEW s \in Sessions, joined[s] <= pos[s], NEW span \in Next_(s)
    PROVE  ReadSince(s, span[2] + 1)
               = ReadSince(s, pos[s])
                     \cup IF Packet(span).kind = "empty" THEN {} ELSE span[1] .. span[2]
<1>1. /\ span \in Span /\ span[1] = pos[s]
      /\ IsRtp => span[2] = pos[s] /\ Packet(span) = camera.packets[pos[s]]
      /\ ~IsRtp => Packet(span).kind = "bytes"
  BY NextPacket
<1>2. joined[s] \in Nat /\ pos[s] \in Nat
  BY DEF Types
<1>3. CASE IsRtp
  BY <1>1, <1>2, <1>3 DEF ReadSince, Span
<1>4. CASE ~IsRtp
  BY <1>1, <1>2, <1>4 DEF ReadSince, Span
<1> QED
  BY <1>3, <1>4

\* The plan with the packet that was read.
LEMMA KeepIs ==
    ASSUME Types, NEW s \in Sessions, Keeps(s), pc[s] \in {"prefix", "window"},
           NEW span \in Next_(s)
    PROVE  LET k == Keep(s, span) IN
           /\ IsPlan(k) /\ k.packets \in Seq(Span)
           /\ \A i \in DOMAIN k.packets : OfCamera(k.packets[i])
           /\ InOrder(k.packets) /\ Places(k.packets) = ReadSince(s, span[2] + 1)
           /\ Len(k.packets) <= Len(plan[s].packets) + 1
           /\ \A i \in DOMAIN plan[s].packets :
                  i \in DOMAIN k.packets /\ k.packets[i] = plan[s].packets[i]
           /\ k.codec = plan[s].codec /\ k.pt = plan[s].pt /\ k.transport = plan[s].transport
           /\ k.audio = plan[s].audio /\ k.channels = plan[s].channels
<1> DEFINE k == Keep(s, span)
           q == plan[s].packets
<1>1. q \in Seq(Span) /\ IsPlan(plan[s])
  BY DEF Types
<1>2. /\ InOrder(q) /\ \A i \in DOMAIN q : OfCamera(q[i])
      /\ Places(q) = ReadSince(s, pos[s]) /\ joined[s] <= pos[s]
  BY DEF Keeps, ReadSince
<1>3. span \in Span /\ span[1] = pos[s] /\ OfCamera(span)
  BY NextPacket
<1>4. ReadSince(s, span[2] + 1)
          = Places(q) \cup IF Packet(span).kind = "empty" THEN {} ELSE span[1] .. span[2]
  BY <1>2, ReadOneMore
<1>5. CASE Packet(span).kind = "empty"
  <2>1. k = plan[s]
    BY <1>5 DEF Keep
  <2> HIDE DEF k
  <2> QED
    BY <1>1, <1>2, <1>4, <1>5, <2>1 DEF k
<1>6. CASE Packet(span).kind # "empty"
  <2>1. k = [plan[s] EXCEPT !.packets = Append(q, span)]
    BY <1>6 DEF Keep
  <2> HIDE DEF k
  <2>2. /\ IsPlan(k) /\ k.packets = Append(q, span)
        /\ k.codec = plan[s].codec /\ k.pt = plan[s].pt /\ k.transport = plan[s].transport
        /\ k.audio = plan[s].audio /\ k.channels = plan[s].channels
    BY <1>1, <2>1 DEF IsPlan
  <2> HIDE DEF q
  <2>3. \A x \in Places(q) : x < span[1]
    <3>1. joined[s] \in Nat /\ pos[s] \in Nat
      BY DEF Types
    <3> QED
      BY <1>2, <1>3, <3>1 DEF ReadSince
  <2>4. k.packets \in Seq(Span) /\ InOrder(k.packets)
        /\ Places(k.packets) = Places(q) \cup (span[1] .. span[2])
    BY <1>1, <1>2, <1>3, <2>2, <2>3, PlacesAppend
  <2>5. /\ Len(k.packets) = Len(q) + 1
        /\ \A i \in DOMAIN q : i \in DOMAIN k.packets /\ k.packets[i] = q[i]
        /\ \A i \in DOMAIN k.packets : i \in DOMAIN q \/ k.packets[i] = span
    BY <1>1, <2>2
  <2>6. \A i \in DOMAIN k.packets : OfCamera(k.packets[i])
    BY <1>2, <1>3, <2>5
  <2> QED
    BY <1>1, <1>4, <1>6, <2>2, <2>4, <2>5, <2>6 DEF k, q
<1> QED
  BY <1>5, <1>6

\* A packet read before the pump goes into the plan, which may then name the
\* audio, and nothing is handed on yet.
LEMMA ReadKeeps ==
    ASSUME IInv, NEW s \in Sessions, pc[s] \in {"prefix", "window"}, NEW span \in Next_(s),
           NEW p, IsPlan(p), p.packets = Keep(s, span).packets,
           p.codec = plan[s].codec, p.pt = plan[s].pt, p.transport = plan[s].transport,
           SoundPlan(p), pc[s] = "prefix" => p.audio = NoType,
           NEW l \in {"prefix", "decide", "window", "pump"},
           l = "prefix" => pc[s] = "prefix" /\ Len(p.packets) < PrefixPackets,
           l = "decide" => pc[s] = "prefix",
           l = "window" => pc[s] = "window",
           l = "window" => Len(p.packets) < PrefixPackets + WindowPackets,
           pc' = [pc EXCEPT ![s] = l], pos' = [pos EXCEPT ![s] = span[2] + 1],
           plan' = [plan EXCEPT ![s] = p],
           UNCHANGED <<fixedVars, cacheVars, joined, replayed, givenUp, video, audio, frames>>
    PROVE  IInv'
<1>1. /\ Types /\ Keeps(s) /\ HandsOn(s) /\ Decided(s) /\ Sounds(s)
  BY DEF IInv, SessionInv
<1>2. /\ camera' = camera /\ rtpCache' = rtpCache /\ joined' = joined /\ replayed' = replayed
      /\ givenUp' = givenUp /\ video' = video /\ audio' = audio /\ frames' = frames
  BY DEF fixedVars, cacheVars
<1>3. /\ p.packets \in Seq(Span) /\ \A i \in DOMAIN p.packets : OfCamera(p.packets[i])
      /\ InOrder(p.packets) /\ Places(p.packets) = ReadSince(s, span[2] + 1)
      /\ Len(p.packets) <= Len(plan[s].packets) + 1
  BY <1>1, KeepIs
<1>4. span \in Span /\ span[1] = pos[s]
  BY <1>1, NextPacket
<1>5. pc'[s] = l /\ pos'[s] = span[2] + 1 /\ plan'[s] = p
  BY <1>1 DEF Types
<1>6. OnlyOf(s)
  BY <1>1, <1>2 DEF Types, OnlyOf, Rests
<1>7. Types'
  <2>1. Sessions' = Sessions
    BY DEF Sessions
  <2>2. pc' \in [Sessions -> Labels] /\ pos' \in [Sessions -> Nat \ {0}]
    <3>1. l \in Labels /\ span[2] + 1 \in Nat \ {0}
      BY <1>4 DEF Labels, Span
    <3> QED
      BY <1>1, <3>1 DEF Types
  <2>3. \A t \in Sessions : IsPlan(plan'[t]) /\ plan'[t].packets \in Seq(Span)
    <3> SUFFICES ASSUME NEW t \in Sessions
                 PROVE  IsPlan(plan'[t]) /\ plan'[t].packets \in Seq(Span)
      OBVIOUS
    <3>1. CASE t = s
      BY <1>3, <1>5, <3>1
    <3>2. CASE t # s
      <4>1. plan'[t] = plan[t]
        BY <1>6, <3>2 DEF OnlyOf, Rests
      <4> QED
        BY <1>1, <4>1 DEF Types
    <3> QED
      BY <3>1, <3>2
  <2>4. DOMAIN plan' = Sessions
    BY <1>1 DEF Types
  <2>5. \A t \in Sessions : IsPlan(plan[t])' /\ plan[t].packets' \in Seq(Span)
    BY <2>3 DEF IsPlan
  <2> QED
    BY <1>1, <1>2, <2>1, <2>2, <2>4, <2>5 DEF Types
<1>8. CacheTold'
  BY <1>2 DEF CacheTold, IInv, IsRtp
<1>9. /\ IsRtp' = IsRtp
      /\ \A x : Packet(x)' = Packet(x) /\ OfCamera(x)' = OfCamera(x)
      /\ \A x : SoundPlan(x)' = SoundPlan(x)
  BY <1>2, SameCamera
<1>10. Keeps(s)'
  <2>1. joined[s] <= pos'[s]
    BY <1>1, <1>4, <1>5 DEF Types, Keeps, Span
  <2>2. Places(p.packets) = {i \in joined[s] .. pos'[s] - 1 :
                                IsRtp => camera.packets[i].kind # "empty"}
    BY <1>3, <1>5 DEF ReadSince
  <2>3. /\ Len(p.packets) <= PrefixPackets + WindowPackets
        /\ l = "decide" => Len(p.packets) <= PrefixPackets
    <3>1. Len(p.packets) \in Nat /\ Len(plan[s].packets) \in Nat
      BY <1>1, <1>3 DEF Types
    <3>2. \/ Len(plan[s].packets) < PrefixPackets /\ pc[s] = "prefix"
          \/ Len(plan[s].packets) < PrefixPackets + WindowPackets /\ pc[s] = "window"
      BY <1>1 DEF Keeps
    <3> QED
      BY <1>3, <3>1, <3>2, Numbers, SMTT(30)
  <2> QED
    BY <1>2, <1>3, <1>5, <1>9, <2>1, <2>2, <2>3, SMTT(30) DEF Keeps, Places, InOrder
<1>11. HandsOn(s)'
  <2>1. video[s] = <<>> /\ audio[s] = <<>> /\ frames[s] = <<>> /\ replayed[s] = 0
    BY <1>1 DEF HandsOn
  <2> QED
    BY <1>2, <1>5, <2>1, Empty DEF HandsOn
<1>12. Decided(s)'
  BY <1>1, <1>2, <1>5, <1>9 DEF Decided, PlanTold
<1>13. Sounds(s)'
  <2>1. frames[s] = <<>>
    BY <1>1 DEF HandsOn
  <2>2. SoundPlan(plan[s])'
    BY <1>2, <1>5, <1>9 DEF SoundPlan
  <2> QED
    BY <1>2, <1>5, <2>1, <2>2, Empty DEF Sounds
<1> QED
  BY <1>6, <1>7, <1>8, <1>10, <1>11, <1>12, <1>13, StepOfOne DEF SessionInv

\* _read_prefix
LEMMA ReadPrefixKeeps ==
    ASSUME IInv, NEW s \in Sessions, ReadPrefix(s)
    PROVE  IInv'
<1>1. PICK span \in Next_(s) :
          /\ Reads(s, span) /\ plan' = [plan EXCEPT ![s] = Keep(s, span)]
          /\ Goto(s, IF Len(Keep(s, span).packets) >= PrefixPackets THEN "decide" ELSE "prefix")
  BY DEF ReadPrefix
<1> DEFINE p == Keep(s, span)
           l == IF Len(Keep(s, span).packets) >= PrefixPackets THEN "decide" ELSE "prefix"
<1>2. pc[s] = "prefix" /\ Types /\ Keeps(s) /\ Sounds(s)
  BY DEF ReadPrefix, IInv, SessionInv
<1>3. /\ IsPlan(p) /\ p.packets \in Seq(Span) /\ p.codec = plan[s].codec /\ p.pt = plan[s].pt
      /\ p.transport = plan[s].transport
      /\ p.audio = plan[s].audio /\ p.channels = plan[s].channels
      /\ \A i \in DOMAIN plan[s].packets :
             i \in DOMAIN p.packets /\ p.packets[i] = plan[s].packets[i]
  BY <1>2, KeepIs
<1>4. pc' = [pc EXCEPT ![s] = l] /\ plan' = [plan EXCEPT ![s] = p]
      /\ pos' = [pos EXCEPT ![s] = span[2] + 1]
  BY <1>1 DEF Goto, Reads
<1>5. UNCHANGED <<fixedVars, cacheVars, joined, replayed, givenUp, video, audio, frames>>
  BY DEF ReadPrefix, outVars, sinkVars
<1>6. l \in {"prefix", "decide"} /\ (l = "prefix" => Len(p.packets) < PrefixPackets)
  <2>1. Len(p.packets) \in Nat
    BY <1>3
  <2> QED
    BY <2>1, Numbers
<1> HIDE DEF p, l
<1>7. SoundPlan(p) /\ p.audio = NoType
  BY <1>2, <1>3 DEF SoundPlan, Sounds
<1>8. p.packets = Keep(s, span).packets
  BY DEF p
<1> QED
  BY <1>1, <1>2, <1>3, <1>4, <1>5, <1>6, <1>7, <1>8, ReadKeeps

\* The loop of _with_audio.
LEMMA ReadWindowKeeps ==
    ASSUME IInv, NEW s \in Sessions, ReadWindow(s)
    PROVE  IInv'
<1>1. PICK span \in Next_(s) :
          LET heard == WithAudio(Keep(s, span))
              full == Len(heard.packets) >= PrefixPackets + WindowPackets
          IN /\ Reads(s, span) /\ plan' = [plan EXCEPT ![s] = heard]
             /\ Goto(s, IF heard.channels # NoChannels \/ late[s] \/ full THEN "pump" ELSE "window")
  BY DEF ReadWindow
<1> DEFINE k == Keep(s, span)
           p == WithAudio(k)
           l == IF p.channels # NoChannels \/ late[s]
                   \/ Len(p.packets) >= PrefixPackets + WindowPackets THEN "pump" ELSE "window"
<1>2. pc[s] = "window" /\ Types /\ Keeps(s) /\ plan[s].codec # NoCodec
  BY DEF ReadWindow, IInv, SessionInv, Decided
<1>3. /\ IsPlan(k) /\ k.packets \in Seq(Span) /\ k.codec = plan[s].codec /\ k.pt = plan[s].pt
      /\ k.transport = plan[s].transport
      /\ \A i \in DOMAIN k.packets : OfCamera(k.packets[i])
  BY <1>2, KeepIs
<1>4. pc' = [pc EXCEPT ![s] = l] /\ plan' = [plan EXCEPT ![s] = p]
      /\ pos' = [pos EXCEPT ![s] = span[2] + 1]
  BY <1>1 DEF Goto, Reads
<1>5. UNCHANGED <<fixedVars, cacheVars, joined, replayed, givenUp, video, audio, frames>>
  BY DEF ReadWindow, outVars, sinkVars
<1> HIDE DEF k
<1>6. /\ IsPlan(p) /\ p.packets = k.packets /\ p.codec = k.codec /\ p.pt = k.pt
      /\ p.transport = k.transport /\ SoundPlan(p)
  BY <1>2, <1>3, WithAudioIs
<1>7. l \in {"pump", "window"}
      /\ (l = "window" => Len(p.packets) < PrefixPackets + WindowPackets)
  <2>1. Len(p.packets) \in Nat
    BY <1>3, <1>6
  <2> QED
    BY <2>1, Numbers
<1> HIDE DEF p, l
<1>8. p.packets = Keep(s, span).packets /\ p.codec = plan[s].codec /\ p.pt = plan[s].pt
      /\ p.transport = plan[s].transport
  BY <1>3, <1>6 DEF k
<1> QED
  BY <1>1, <1>2, <1>4, <1>5, <1>6, <1>7, <1>8, ReadKeeps
-----------------------------------------------------------------------------
(* Deciding.                                                                *)

\* A step before the pump that reads nothing: the plan may be another one of
\* the same packets.
LEMMA QuietKeeps ==
    ASSUME IInv, NEW s \in Sessions, pc[s] \in {"prefix", "decide", "window", "pump"},
           NEW p, IsPlan(p), p.packets = plan[s].packets, PlanTold(p), SoundPlan(p),
           NEW l \in {"prefix", "decide", "window", "pump"},
           l = "prefix" => pc[s] = "prefix",
           l = "decide" => pc[s] \in {"prefix", "decide"},
           l = "window" => pc[s] \in {"decide", "window"} /\ p.codec # NoCodec,
           l \in {"prefix", "decide"} => p.audio = NoType,
           pc' = [pc EXCEPT ![s] = l],
           plan' = [plan EXCEPT ![s] = p] \/ (plan' = plan /\ p = plan[s]),
           UNCHANGED <<fixedVars, joined, pos, replayed, givenUp, video, audio, frames>>,
           CacheTold'
    PROVE  IInv'
<1>1. Types /\ Keeps(s) /\ HandsOn(s) /\ Sounds(s)
  BY DEF IInv, SessionInv
<1>2. /\ camera' = camera /\ joined' = joined /\ pos' = pos /\ replayed' = replayed
      /\ givenUp' = givenUp /\ video' = video /\ audio' = audio /\ frames' = frames
  BY DEF fixedVars
<1>3. pc'[s] = l /\ plan'[s] = p
  BY <1>1 DEF Types
<1>4. OnlyOf(s)
  BY <1>1, <1>2 DEF Types, OnlyOf, Rests
<1>5. Types'
  <2>1. Sessions' = Sessions
    BY DEF Sessions
  <2>2. pc' \in [Sessions -> Labels]
    BY <1>1 DEF Types, Labels
  <2>3. \A t \in Sessions : IsPlan(plan'[t]) /\ plan'[t].packets \in Seq(Span)
    BY <1>1, <1>3, <1>4, SMTT(30) DEF Types, OnlyOf, Rests
  <2>4. DOMAIN plan' = Sessions
    BY <1>1 DEF Types
  <2>5. \A t \in Sessions : IsPlan(plan[t])' /\ plan[t].packets' \in Seq(Span)
    BY <2>3 DEF IsPlan
  <2> QED
    BY <1>1, <1>2, <2>1, <2>2, <2>4, <2>5 DEF Types
<1>6. /\ IsRtp' = IsRtp
      /\ \A x : OfCamera(x)' = OfCamera(x) /\ Packet(x)' = Packet(x)
  BY <1>2, SameCamera
<1>7. Keeps(s)'
  <2>1. /\ l = "prefix" => Len(p.packets) < PrefixPackets
        /\ l = "decide" => Len(p.packets) <= PrefixPackets
        /\ l = "window" => Len(p.packets) < PrefixPackets + WindowPackets
    <3>1. Len(plan[s].packets) \in Nat
      BY <1>1 DEF Types
    <3> QED
      BY <1>1, <3>1, Numbers DEF Keeps
  <2> QED
    BY <1>1, <1>2, <1>3, <1>6, <2>1 DEF Keeps, Places, InOrder
<1>8. video[s] = <<>> /\ audio[s] = <<>> /\ frames[s] = <<>> /\ replayed[s] = 0
  BY <1>1 DEF HandsOn
<1>9. HandsOn(s)'
  BY <1>2, <1>3, <1>8, Empty DEF HandsOn
<1>10. Decided(s)'
  BY <1>2, <1>3, <1>6 DEF Decided, PlanTold
<1>11. Sounds(s)'
  <2>1. SoundPlan(plan[s])'
    BY <1>2, <1>3, <1>6 DEF SoundPlan
  <2> QED
    BY <1>2, <1>3, <1>8, <2>1, Empty DEF Sounds
<1> QED
  BY <1>4, <1>5, <1>7, <1>9, <1>10, <1>11, StepOfOne DEF SessionInv

\* The steps that leave the plan as it is.
LEMMA WaitingKeeps ==
    ASSUME IInv, NEW s \in Sessions,
           \/ KeepAlive(s) \/ ReadEnds(s) \/ Abort(s) \/ Deadline(s) \/ DecideAborted(s)
    PROVE  IInv'
<1>1. PICK l \in {"prefix", "decide", "window", "pump"} :
          /\ pc[s] \in {"prefix", "decide", "window"}
          /\ l = "prefix" => pc[s] = "prefix"
          /\ l = "decide" => pc[s] \in {"prefix", "decide"}
          /\ l = "window" => pc[s] = "window"
          /\ pc' = [pc EXCEPT ![s] = l] /\ plan' = plan
          /\ UNCHANGED <<fixedVars, joined, pos, replayed, givenUp, video, audio, frames, rtpCache>>
  <2>1. CASE KeepAlive(s)
    <3> AfterRead(s) = IF pc[s] = "prefix" THEN "decide" ELSE "pump"
      BY DEF AfterRead
    <3> WITNESS AfterRead(s) \in {"prefix", "decide", "window", "pump"}
    <3> QED
      BY <2>1 DEF KeepAlive, Goto, outVars, sinkVars, cacheVars
  <2>2. CASE ReadEnds(s)
    <3> AfterRead(s) = IF pc[s] = "prefix" THEN "decide" ELSE "pump"
      BY DEF AfterRead
    <3> WITNESS AfterRead(s) \in {"prefix", "decide", "window", "pump"}
    <3> QED
      BY <2>2 DEF ReadEnds, Goto, outVars, sinkVars, cacheVars
  <2>3. CASE Abort(s)
    <3>1. pc[s] \in {"prefix", "decide", "window", "pump"} /\ pc' = [pc EXCEPT ![s] = pc[s]]
      BY <2>3 DEF Abort, readVars, IInv, Types
    <3> WITNESS pc[s] \in {"prefix", "decide", "window", "pump"}
    <3> QED
      BY <2>3, <3>1 DEF Abort, readVars, outVars, sinkVars, cacheVars
  <2>4. CASE Deadline(s)
    <3>1. pc[s] = "window" /\ pc' = [pc EXCEPT ![s] = pc[s]]
      BY <2>4 DEF Deadline, readVars, IInv, Types
    <3> WITNESS pc[s] \in {"prefix", "decide", "window", "pump"}
    <3> QED
      BY <2>4, <3>1 DEF Deadline, readVars, outVars, sinkVars, cacheVars
  <2>5. CASE DecideAborted(s)
    <3> WITNESS "pump" \in {"prefix", "decide", "window", "pump"}
    <3> QED
      BY <2>5 DEF DecideAborted, Goto, outVars, sinkVars, cacheVars
  <2> QED
    BY <2>1, <2>2, <2>3, <2>4, <2>5
<1>2. /\ IsPlan(plan[s]) /\ PlanTold(plan[s]) /\ SoundPlan(plan[s])
      /\ pc[s] = "window" => plan[s].codec # NoCodec
      /\ pc[s] \in {"prefix", "decide"} => plan[s].audio = NoType
  BY DEF IInv, Types, SessionInv, Decided, Sounds
<1>3. CacheTold'
  BY <1>1 DEF CacheTold, IInv, fixedVars, IsRtp
<1> QED
  BY <1>1, <1>2, <1>3, QuietKeeps

\* The plan that _decide has made, and then the audio's.
LEMMA DecidesKeeps ==
    ASSUME IInv, NEW s \in Sessions, pc[s] = "decide",
           NEW p, IsPlan(p), PlanTold(p), p.packets = plan[s].packets,
           p.audio = plan[s].audio, p.channels = plan[s].channels,
           Decides(s, p), CacheTold'
    PROVE  IInv'
<1> DEFINE asks == p.codec # NoCodec /\ audioWindow
           answer == IF asks THEN WithAudio(p) ELSE p
           l == IF asks /\ answer.channels = NoChannels /\ ~ended[s] THEN "window" ELSE "pump"
<1>1. /\ plan' = [plan EXCEPT ![s] = answer] /\ pc' = [pc EXCEPT ![s] = l]
      /\ UNCHANGED <<fixedVars, joined, pos, replayed, givenUp, video, audio, frames>>
  BY DEF Decides, Goto, outVars, sinkVars
<1>2. p.packets \in Seq(Span) /\ \A i \in DOMAIN p.packets : OfCamera(p.packets[i])
  BY DEF IInv, Types, SessionInv, Keeps
<1>3. SoundPlan(p)
  <2>1. SoundPlan(plan[s]) /\ plan[s].audio = NoType
    BY DEF IInv, SessionInv, Sounds
  <2> QED
    BY <2>1 DEF SoundPlan
<1> DEFINE w == WithAudio(p)
<1>4. p.codec # NoCodec =>
          /\ IsPlan(w) /\ w.packets = p.packets /\ w.codec = p.codec /\ w.pt = p.pt
          /\ w.transport = p.transport /\ SoundPlan(w)
  BY <1>2, WithAudioIs
<1> HIDE DEF w
<1>5. p.codec # NoCodec => PlanTold(w)
  BY <1>4 DEF PlanTold
<1>6. answer = p \/ (answer = w /\ p.codec # NoCodec)
  BY DEF w
<1>7. /\ l \in {"prefix", "decide", "window", "pump"} /\ l # "prefix" /\ l # "decide"
      /\ l = "window" => pc[s] \in {"decide", "window"} /\ p.codec # NoCodec
      /\ pc[s] \in {"prefix", "decide", "window", "pump"}
  OBVIOUS
<1> HIDE DEF answer, asks, l
<1>8. /\ IsPlan(answer) /\ answer.packets = plan[s].packets /\ PlanTold(answer)
      /\ SoundPlan(answer) /\ answer.codec = p.codec
  BY <1>3, <1>4, <1>5, <1>6
<1> QED
  BY <1>1, <1>7, <1>8, QuietKeeps

\* What the first packet to name a codec says of it.
LEMMA FirstNamed ==
    ASSUME NEW spans \in Seq(Span), \A i \in DOMAIN spans : OfCamera(spans[i]),
           NEW named, named = {i \in DOMAIN spans : CodecOf(Packet(spans[i])) # NoCodec},
           named # {}
    PROVE  LET first == Packet(spans[Min(named)]) IN
           /\ CodecOf(first) = camera.codec /\ first.pt = camera.pt
           /\ camera.codec \in {H264, HEVC} /\ IsRtp
<1>1. named \in SUBSET Nat
  OBVIOUS
<1>2. Min(named) \in named
  BY <1>1, MinOfNumbers
<1>3. Min(named) \in DOMAIN spans /\ CodecOf(Packet(spans[Min(named)])) # NoCodec
  BY <1>2
<1> QED
  BY <1>3, CodecNamed

\* What payloads look like tells containers from RTP.
LEMMA Transports ==
    ASSUME NEW spans
    PROVE  /\ Transport(spans) \in {"UNKNOWN", "RTP", "MPEG_PS", "MPEG_TS"}
           /\ Transport(spans) = "MPEG_PS" => ~IsRtp
BY DEF Transport

\* _decide, of RTP: the codec is the one that a packet names, or the cached one.
LEMMA DecideRtpKeeps ==
    ASSUME IInv, NEW s \in Sessions, DecideRtp(s)
    PROVE  IInv'
<1>1. /\ pc[s] = "decide" /\ CacheTold /\ PlanTold(plan[s]) /\ IsPlan(plan[s])
      /\ plan[s].packets \in Seq(Span)
      /\ \A i \in DOMAIN plan[s].packets : OfCamera(plan[s].packets[i])
  BY DEF DecideRtp, IInv, Types, SessionInv, Decided, Keeps
<1> DEFINE rtp == [plan[s] EXCEPT !.transport = "RTP"]
           named == {i \in DOMAIN rtp.packets : CodecOf(Packet(rtp.packets[i])) # NoCodec}
           first == Packet(rtp.packets[Min(named)])
           own == SelectSeq(Packets(rtp.packets), LAMBDA p : p.pt = first.pt /\ p.kind = "video")
           sets == ParameterSets([i \in DOMAIN own |-> own[i].data], CodecOf(first))
<1>2. \/ /\ named # {}
         /\ RememberSets(CodecOf(first), first.pt, sets)
         /\ Decides(s, [rtp EXCEPT !.codec = CodecOf(first), !.pt = first.pt])
      \/ /\ named = {} /\ rtpCache # <<>>
         /\ Decides(s, [rtp EXCEPT !.codec = rtpCache[1].codec, !.pt = rtpCache[1].pt,
                                   !.prelude = rtpCache[1].sets])
         /\ UNCHANGED rtpCache
      \/ /\ named = {} /\ rtpCache = <<>>
         /\ Decides(s, rtp)
         /\ UNCHANGED rtpCache
  BY DEF DecideRtp
<1>3. /\ IsPlan(rtp) /\ rtp.packets = plan[s].packets /\ rtp.codec = plan[s].codec
      /\ rtp.pt = plan[s].pt /\ rtp.audio = plan[s].audio /\ rtp.channels = plan[s].channels
      /\ rtp.transport = "RTP"
  BY <1>1 DEF IsPlan
<1> HIDE DEF sets, own, first, rtp
<1>4. CASE /\ named # {}
           /\ RememberSets(CodecOf(first), first.pt, sets)
           /\ Decides(s, [rtp EXCEPT !.codec = CodecOf(first), !.pt = first.pt])
  <2> DEFINE p == [rtp EXCEPT !.codec = CodecOf(first), !.pt = first.pt]
  <2>1. /\ CodecOf(first) = camera.codec /\ first.pt = camera.pt /\ camera.codec \in {H264, HEVC}
        /\ IsRtp
    BY <1>1, <1>3, <1>4, FirstNamed, ZenonT(30) DEF first
  <2>2. /\ IsPlan(p) /\ p.packets = plan[s].packets /\ p.audio = plan[s].audio
        /\ p.channels = plan[s].channels /\ p.codec = CodecOf(first) /\ p.pt = first.pt
        /\ p.transport = "RTP"
    BY <1>3 DEF IsPlan
  <2>3. camera' = camera
    BY <1>4 DEF Decides, fixedVars
  <2>4. CacheTold'
    <3> HIDE DEF named
    <3> DEFINE entry == [codec |-> CodecOf(first), pt |-> first.pt, sets |-> sets]
    <3>1. rtpCache' = rtpCache \/ rtpCache' = <<entry>>
      BY <1>4 DEF RememberSets
    <3>2. entry.codec = camera.codec /\ entry.pt = camera.pt
      BY <2>1
    <3> HIDE DEF entry
    <3>3. CASE rtpCache' = rtpCache
      BY <1>1, <2>3, <3>3 DEF CacheTold, IsRtp
    <3>4. CASE rtpCache' = <<entry>>
      <4>1. rtpCache'[1] = entry
        BY <3>4
      <4> QED
        BY <2>1, <2>3, <3>2, <4>1 DEF CacheTold, IsRtp
    <3> QED
      BY <3>1, <3>3, <3>4
  <2>5. Decides(s, p)
    BY <1>4
  <2> HIDE DEF p
  <2>6. PlanTold(p)
    BY <2>1, <2>2 DEF PlanTold
  <2> QED
    BY <1>1, <2>2, <2>4, <2>5, <2>6, DecidesKeeps
<1>5. CASE /\ named = {} /\ rtpCache # <<>>
           /\ Decides(s, [rtp EXCEPT !.codec = rtpCache[1].codec, !.pt = rtpCache[1].pt,
                                     !.prelude = rtpCache[1].sets])
           /\ UNCHANGED rtpCache
  <2> HIDE DEF named
  <2> DEFINE p == [rtp EXCEPT !.codec = rtpCache[1].codec, !.pt = rtpCache[1].pt,
                              !.prelude = rtpCache[1].sets]
  <2>1. /\ IsPlan(p) /\ p.packets = plan[s].packets /\ p.audio = plan[s].audio
        /\ p.channels = plan[s].channels /\ p.codec = rtpCache[1].codec /\ p.pt = rtpCache[1].pt
        /\ p.transport = "RTP"
    BY <1>3 DEF IsPlan
  <2>2. CacheTold'
    BY <1>1, <1>5 DEF CacheTold, Decides, fixedVars, IsRtp
  <2>3. Decides(s, p)
    BY <1>5
  <2> HIDE DEF p
  <2>4. PlanTold(p)
    BY <1>1, <1>5, <2>1 DEF PlanTold, CacheTold
  <2> QED
    BY <1>1, <2>1, <2>2, <2>3, <2>4, DecidesKeeps
<1>6. CASE /\ named = {} /\ rtpCache = <<>>
           /\ Decides(s, rtp)
           /\ UNCHANGED rtpCache
  <2> HIDE DEF named
  <2>1. CacheTold'
    BY <1>1, <1>6 DEF CacheTold, Decides, fixedVars, IsRtp
  <2>2. PlanTold(rtp)
    BY <1>1, <1>3 DEF PlanTold
  <2> QED
    BY <1>1, <1>3, <1>6, <2>1, <2>2, DecidesKeeps
<1> HIDE DEF named
<1> QED
  BY <1>2, <1>4, <1>5, <1>6

\* _decide, of all else.
LEMMA DecideOtherKeeps ==
    ASSUME IInv, NEW s \in Sessions, DecidePs(s) \/ DecideOther(s)
    PROVE  IInv'
<1>1. /\ pc[s] = "decide" /\ CacheTold /\ PlanTold(plan[s]) /\ IsPlan(plan[s])
  BY DEF DecidePs, DecideOther, IInv, Types, SessionInv, Decided
<1>2. PICK p : /\ IsPlan(p) /\ p.packets = plan[s].packets /\ p.codec = plan[s].codec
               /\ p.pt = plan[s].pt /\ p.audio = plan[s].audio /\ p.channels = plan[s].channels
               /\ p.transport = Transport(plan[s].packets)
               /\ Decides(s, p)
  <2>1. CASE DecidePs(s)
    <3> DEFINE ps == [plan[s] EXCEPT !.transport = "MPEG_PS"]
               kept == [ps EXCEPT !.container = psCache]
    <3>1. /\ Transport(plan[s].packets) = "MPEG_PS"
          /\ Decides(s, IF Complete(Inspect(plan[s].packets)) THEN ps ELSE kept)
      BY <2>1 DEF DecidePs
    <3>2. Decides(s, ps) \/ Decides(s, kept)
      BY <3>1
    <3>3. /\ IsPlan(ps) /\ ps.packets = plan[s].packets /\ ps.codec = plan[s].codec
          /\ ps.pt = plan[s].pt /\ ps.audio = plan[s].audio /\ ps.channels = plan[s].channels
          /\ ps.transport = "MPEG_PS"
      BY <1>1 DEF IsPlan
    <3> HIDE DEF ps
    <3>4. /\ IsPlan(kept) /\ kept.packets = plan[s].packets /\ kept.codec = plan[s].codec
          /\ kept.pt = plan[s].pt /\ kept.audio = plan[s].audio
          /\ kept.channels = plan[s].channels /\ kept.transport = "MPEG_PS"
      BY <3>3 DEF IsPlan
    <3> HIDE DEF kept
    <3> QED
      BY <3>1, <3>2, <3>3, <3>4
  <2>2. CASE DecideOther(s)
    <3> DEFINE other == [plan[s] EXCEPT !.transport = Transport(plan[s].packets)]
    <3>1. Decides(s, other)
      BY <2>2 DEF DecideOther
    <3>2. /\ IsPlan(other) /\ other.packets = plan[s].packets /\ other.codec = plan[s].codec
          /\ other.pt = plan[s].pt /\ other.audio = plan[s].audio
          /\ other.channels = plan[s].channels /\ other.transport = Transport(plan[s].packets)
      BY <1>1 DEF IsPlan
    <3> HIDE DEF other
    <3> QED
      BY <3>1, <3>2
  <2> QED
    BY <2>1, <2>2
<1>3. CacheTold'
  BY <1>1, <1>2 DEF CacheTold, Decides, fixedVars, IsRtp, DecidePs, DecideOther, cacheVars
<1>4. PlanTold(p)
  BY <1>1, <1>2, Transports DEF PlanTold
<1> QED
  BY <1>1, <1>2, <1>3, <1>4, DecidesKeeps
-----------------------------------------------------------------------------
(* Handing on.                                                              *)

\* A packet of the audio is none for the video's depacketizer.
LEMMA Apart ==
    ASSUME NEW s \in Sessions, SoundPlan(plan[s])
    PROVE  \A span : /\ Heard(s, span) => Skips(s, span)
                     /\ OwnsAudio(s, span) <=> Heard(s, span) /\ ~givenUp[s]
BY DEF SoundPlan, Heard, Skips, OwnsAudio

\* A packet is taken by the depacketizer of its type, and by no other; what it is
\* made frames of has their headers.
LEMMA Fed ==
    ASSUME Types, NEW s \in Sessions, NEW span \in Span, OfCamera(span), SoundPlan(plan[s]),
           FeedSinks(s, span),
           InOrder(video[s]), InOrder(audio[s]),
           OwnsAudio(s, span) => \A x \in Places(audio[s]) : x < span[1],
           ~Skips(s, span) => \A x \in Places(video[s]) : x < span[1],
           \A i \in DOMAIN frames[s] :
               frames[s][i].header = AdtsHeader(frames[s][i].unit, AudioConfig(plan[s]))
    PROVE  /\ video' \in [Sessions -> Seq(Span)] /\ audio' \in [Sessions -> Seq(Span)]
           /\ frames' \in [Sessions -> Seq(Frame)]
           /\ \A t \in Sessions \ {s} :
                  video'[t] = video[t] /\ audio'[t] = audio[t] /\ frames'[t] = frames[t]
           /\ InOrder(video'[s]) /\ InOrder(audio'[s])
           /\ Places(audio'[s]) = Places(audio[s]) \cup
                  IF OwnsAudio(s, span) THEN span[1] .. span[2] ELSE {}
           /\ Places(video'[s]) = Places(video[s]) \cup
                  IF Skips(s, span) THEN {} ELSE span[1] .. span[2]
           /\ \A i \in DOMAIN frames'[s] :
                  frames'[s][i].header = AdtsHeader(frames'[s][i].unit, AudioConfig(plan[s]))
           /\ (OwnsAudio(s, span) /\ Sounding(s, span)) \/ frames[s] # <<>>
                  => frames'[s] # <<>>
<1>1. /\ video \in [Sessions -> Seq(Span)] /\ audio \in [Sessions -> Seq(Span)]
      /\ frames \in [Sessions -> Seq(Frame)]
  BY DEF Types
<1>2. CASE OwnsAudio(s, span)
  <2> DEFINE made == FramesOf(s, span)
             new == frames[s] \o made
  <2>1. /\ audio' = [audio EXCEPT ![s] = Append(audio[s], span)]
        /\ frames' = [frames EXCEPT ![s] = new] /\ video' = video
    BY <1>2 DEF FeedSinks
  <2>2. Append(audio[s], span) \in Seq(Span) /\ InOrder(Append(audio[s], span))
        /\ Places(Append(audio[s], span)) = Places(audio[s]) \cup (span[1] .. span[2])
    BY <1>1, <1>2, PlacesAppend
  <2>3. plan[s].channels \in 0 .. 2
    BY <1>2 DEF SoundPlan, OwnsAudio
  <2>4. /\ made \in Seq(Frame) /\ (Sounding(s, span) => made # <<>>)
        /\ \A i \in DOMAIN made : made[i].header = AdtsHeader(made[i].unit, AudioConfig(plan[s]))
    BY <2>3, FramesMade
  <2> HIDE DEF made
  <2>5. /\ new \in Seq(Frame) /\ Len(new) = Len(frames[s]) + Len(made)
        /\ Len(frames[s]) \in Nat /\ Len(made) \in Nat
        /\ \A i \in 1 .. Len(frames[s]) + Len(made) :
              new[i] = IF i <= Len(frames[s]) THEN frames[s][i] ELSE made[i - Len(frames[s])]
    BY <1>1, <2>4
  <2> HIDE DEF new
  <2>6. DOMAIN new = 1 .. Len(frames[s]) + Len(made) /\ DOMAIN made = 1 .. Len(made)
        /\ DOMAIN frames[s] = 1 .. Len(frames[s])
    BY <1>1, <2>4, <2>5
  <2>7. \A i \in DOMAIN new : new[i].header = AdtsHeader(new[i].unit, AudioConfig(plan[s]))
    <3> SUFFICES ASSUME NEW i \in DOMAIN new
                 PROVE  new[i].header = AdtsHeader(new[i].unit, AudioConfig(plan[s]))
      OBVIOUS
    <3>1. CASE i <= Len(frames[s])
      BY <2>5, <2>6, <3>1
    <3>2. CASE i > Len(frames[s])
      <4>1. i - Len(frames[s]) \in DOMAIN made /\ new[i] = made[i - Len(frames[s])]
        BY <2>5, <2>6, <3>2, SMTT(30)
      <4> QED
        BY <2>4, <4>1
    <3> QED
      BY <2>5, <2>6, <3>1, <3>2
  <2>8. Sounding(s, span) \/ frames[s] # <<>> => new # <<>>
    <3>1. ASSUME new = <<>>
          PROVE  frames[s] = <<>> /\ made = <<>>
      <4>1. Len(frames[s]) = 0 /\ Len(made) = 0
        BY <2>5, <3>1
      <4> QED
        BY <1>1, <2>4, <4>1
    <3> QED
      BY <2>4, <3>1
  <2>9. audio'[s] = Append(audio[s], span) /\ frames'[s] = new
    BY <1>1, <2>1
  <2>10. /\ audio' \in [Sessions -> Seq(Span)] /\ frames' \in [Sessions -> Seq(Frame)]
         /\ \A t \in Sessions \ {s} : audio'[t] = audio[t] /\ frames'[t] = frames[t]
    BY <1>1, <2>1, <2>2, <2>5
  <2>11. Skips(s, span)
    BY <1>2, Apart
  <2> QED
    BY <1>1, <1>2, <2>1, <2>2, <2>7, <2>8, <2>9, <2>10, <2>11
<1>3. CASE ~OwnsAudio(s, span) /\ Skips(s, span)
  <2>1. video' = video /\ audio' = audio /\ frames' = frames
    BY <1>3 DEF FeedSinks
  <2> QED
    BY <1>1, <1>3, <2>1
<1>4. CASE ~OwnsAudio(s, span) /\ ~Skips(s, span)
  <2>1. video' = [video EXCEPT ![s] = Hand(video[s], span)] /\ audio' = audio /\ frames' = frames
    BY <1>4 DEF FeedSinks
  <2>2. Hand(video[s], span) \in Seq(Span) /\ InOrder(Hand(video[s], span))
        /\ Places(Hand(video[s], span)) = Places(video[s]) \cup (span[1] .. span[2])
    BY <1>1, <1>4, PlacesHand
  <2>3. video'[s] = Hand(video[s], span) /\ video' \in [Sessions -> Seq(Span)]
        /\ \A t \in Sessions \ {s} : video'[t] = video[t]
    BY <1>1, <2>1, <2>2
  <2> QED
    BY <1>1, <1>4, <2>1, <2>2, <2>3
<1> QED
  BY <1>2, <1>3, <1>4

\* The pump begins with nothing handed on.
LEMMA StartPumpKeeps ==
    ASSUME IInv, NEW s \in Sessions, StartPump(s)
    PROVE  IInv'
<1> DEFINE l == IF plan[s].audio = NoType THEN "rest" ELSE "audio"
<1>1. /\ pc[s] = "pump" /\ pc' = [pc EXCEPT ![s] = l]
      /\ camera' = camera /\ rtpCache' = rtpCache /\ joined' = joined /\ pos' = pos
      /\ plan' = plan /\ replayed' = replayed /\ video' = video /\ audio' = audio
      /\ frames' = frames /\ givenUp' = givenUp
  BY DEF StartPump, Goto, fixedVars, sinkVars
<1>2. Types /\ Keeps(s) /\ HandsOn(s) /\ Decided(s) /\ Sounds(s)
  BY DEF IInv, SessionInv
<1>3. pc'[s] = l /\ l \in {"rest", "audio"} /\ (l = "rest" <=> plan[s].audio = NoType)
  BY <1>1, <1>2 DEF Types
<1> HIDE DEF l
<1>4. OnlyOf(s)
  BY <1>1, <1>2 DEF Types, OnlyOf, Rests
<1>5. Types'
  <2>1. Sessions' = Sessions
    BY DEF Sessions
  <2>2. pc' \in [Sessions -> Labels]
    BY <1>1, <1>2, <1>3 DEF Types, Labels
  <2> QED
    BY <1>1, <1>2, <2>1, <2>2 DEF Types, IsPlan
<1>6. CacheTold'
  BY <1>1 DEF CacheTold, IInv, IsRtp
<1>7. /\ IsRtp' = IsRtp
      /\ \A x : OfCamera(x)' = OfCamera(x) /\ Packet(x)' = Packet(x)
  BY <1>1, SameCamera
<1>8. video[s] = <<>> /\ audio[s] = <<>> /\ frames[s] = <<>> /\ replayed[s] = 0
  BY <1>1, <1>2 DEF HandsOn
<1>9. Keeps(s)'
  BY <1>1, <1>2, <1>3, <1>7 DEF Keeps, Places, InOrder
<1>10. \A x : Heard(s, x)' => l = "audio"
  BY <1>1, <1>3 DEF Heard
<1>11. HandsOn(s)'
  <2>1. AudioHalf(s)' = {} /\ VideoHalf(s)' = {}
    <3>1. DOMAIN plan[s].packets \subseteq Nat \ {0}
      BY <1>2 DEF Types
    <3>2. \A i \in Nat \ {0} : ~(i <= replayed'[s])
      BY <1>1, <1>8
    <3>3. pc'[s] = "audio" \/ \A x : ~Heard(s, x)'
      BY <1>3, <1>10
    <3> QED
      BY <1>1, <1>3, <3>1, <3>2, <3>3 DEF AudioHalf, VideoHalf
  <2>2. PlacesOf(s, {})' = {}
    BY DEF PlacesOf
  <2>3. PlacesOf(s, AudioHalf(s))' = {} /\ PlacesOf(s, VideoHalf(s))' = {}
    BY <2>1, <2>2 DEF PlacesOf
  <2>4. Len(plan[s].packets) \in Nat
    BY <1>2 DEF Types
  <2>5. replayed'[s] <= Len(plan'[s].packets)
    BY <1>1, <1>8, <2>4
  <2> QED
    BY <1>1, <1>3, <1>8, <2>3, <2>5, Empty DEF HandsOn, Places, InOrder
<1>12. Decided(s)'
  BY <1>1, <1>2, <1>3, <1>7 DEF Decided, PlanTold
<1>13. Sounds(s)'
  <2>1. SoundPlan(plan[s])'
    BY <1>1, <1>2, <1>7 DEF Sounds, SoundPlan
  <2>2. \A i \in DOMAIN plan[s].packets :
            ~(Sounding(s, plan[s].packets[i])' /\ (pc'[s] = "audio" => i <= replayed'[s]))
    <3>1. DOMAIN plan[s].packets \subseteq Nat \ {0}
      BY <1>2 DEF Types
    <3>2. \A i \in Nat \ {0} : ~(i <= replayed'[s])
      BY <1>1, <1>8
    <3>3. \A x : Sounding(s, x)' => pc'[s] = "audio"
      BY <1>3, <1>10 DEF Sounding
    <3> QED
      BY <3>1, <3>2, <3>3
  <2>3. \A i \in DOMAIN plan[s].packets :
            ~(Sounding(s, plan[s].packets[i]) /\ (pc[s] = "audio" => i <= replayed[s]))'
    BY <1>1, <2>2 DEF Sounding, Heard
  <2> QED
    BY <1>1, <1>3, <1>8, <2>1, <2>3, Empty DEF Sounds
<1> QED
  BY <1>4, <1>5, <1>6, <1>9, <1>11, <1>12, <1>13, StepOfOne DEF SessionInv

\* One turn of the replay hands on the packet that it looks at, if it is of its
\* half.
LEMMA ReplayKeeps ==
    ASSUME IInv, NEW s \in Sessions, Replay(s)
    PROVE  IInv'
<1> DEFINE turn == replayed[s] + 1
           packets == plan[s].packets
           span == packets[turn]
<1>1. /\ pc[s] \in {"audio", "rest"} /\ turn \in DOMAIN packets
      /\ IF OwnsAudio(s, span) <=> pc[s] = "audio" THEN FeedSinks(s, span)
         ELSE UNCHANGED <<video, audio, frames>>
      /\ replayed' = [replayed EXCEPT ![s] = turn]
      /\ camera' = camera /\ rtpCache' = rtpCache /\ joined' = joined /\ pos' = pos
      /\ plan' = plan /\ pc' = pc /\ givenUp' = givenUp
  BY DEF Replay, fixedVars, cacheVars, readVars, sinkVars
<1>2. Types /\ Keeps(s) /\ HandsOn(s) /\ Decided(s) /\ Sounds(s)
  BY DEF IInv, SessionInv
<1>3. /\ replayed[s] \in Nat /\ packets \in Seq(Span) /\ span \in Span
      /\ OfCamera(span) /\ InOrder(packets) /\ replayed'[s] = turn
      /\ DOMAIN packets = 1 .. Len(packets) /\ Len(packets) \in Nat
  <2>1. replayed[s] \in Nat /\ packets \in Seq(Span) /\ replayed'[s] = turn
    BY <1>1, <1>2 DEF Types
  <2>2. OfCamera(span) /\ InOrder(packets)
    BY <1>1, <1>2 DEF Keeps
  <2> QED
    BY <1>1, <2>1, <2>2
<1>4. /\ AudioHalf(s) = {i \in DOMAIN packets :
             Heard(s, packets[i]) /\ (pc[s] = "audio" => i <= replayed[s])}
      /\ VideoHalf(s) = {i \in DOMAIN packets :
             ~Skips(s, packets[i]) /\ pc[s] = "rest" /\ i <= replayed[s]}
      /\ AudioHalf(s)' = {i \in DOMAIN packets :
             Heard(s, packets[i]) /\ (pc[s] = "audio" => i <= turn)}
      /\ VideoHalf(s)' = {i \in DOMAIN packets :
             ~Skips(s, packets[i]) /\ pc[s] = "rest" /\ i <= turn}
  <2>1. \A x : Heard(s, x)' = Heard(s, x) /\ Skips(s, x)' = Skips(s, x)
    BY <1>1, SameCamera DEF Heard, Skips
  <2> QED
    BY <1>1, <1>3, <2>1 DEF AudioHalf, VideoHalf
<1>5. \A I : PlacesOf(s, I) = UNION {packets[i][1] .. packets[i][2] : i \in I}
  BY DEF PlacesOf
<1>6. /\ Places(audio[s]) \subseteq PlacesOf(s, AudioHalf(s))
      /\ givenUp[s] \/ Places(audio[s]) = PlacesOf(s, AudioHalf(s))
      /\ Places(video[s]) = PlacesOf(s, VideoHalf(s))
      /\ InOrder(video[s]) /\ InOrder(audio[s]) /\ replayed[s] <= Len(packets)
  BY <1>1, <1>2 DEF HandsOn
<1>7. \A i \in DOMAIN packets : i < turn =>
          \A x \in packets[i][1] .. packets[i][2] : x < span[1]
  <2> SUFFICES ASSUME NEW i \in DOMAIN packets, i < turn,
                      NEW x \in packets[i][1] .. packets[i][2]
               PROVE  x < span[1]
    OBVIOUS
  <2>1. packets[i][2] < span[1] /\ packets[i] \in Span
    BY <1>1, <1>3 DEF InOrder
  <2>2. packets[i][1] \in Nat /\ packets[i][2] \in Nat /\ span[1] \in Nat
    BY <1>3, <2>1 DEF Span
  <2> HIDE DEF packets, span, turn
  <2> QED
    BY <2>1, <2>2
<1> HIDE DEF packets, span
<1>8. /\ AudioHalf(s)'
             = AudioHalf(s) \cup IF Heard(s, span) /\ pc[s] = "audio" THEN {turn} ELSE {}
      /\ VideoHalf(s)'
             = VideoHalf(s) \cup IF ~Skips(s, span) /\ pc[s] = "rest" THEN {turn} ELSE {}
  <2>1. /\ Heard(s, span) = Heard(s, packets[turn])
        /\ Skips(s, span) = Skips(s, packets[turn])
    BY DEF span
  <2>2. \A i \in DOMAIN packets : i <= turn <=> i <= replayed[s] \/ i = turn
    BY <1>3
  <2> QED
    BY <1>1, <1>4, <2>1, <2>2
<1>18. /\ Heard(s, span) => Skips(s, span)
       /\ OwnsAudio(s, span) <=> Heard(s, span) /\ ~givenUp[s]
  BY <1>2, Apart DEF Sounds
<1>9. /\ video' \in [Sessions -> Seq(Span)] /\ audio' \in [Sessions -> Seq(Span)]
      /\ frames' \in [Sessions -> Seq(Frame)]
      /\ \A t \in Sessions \ {s} :
             video'[t] = video[t] /\ audio'[t] = audio[t] /\ frames'[t] = frames[t]
      /\ InOrder(video'[s]) /\ InOrder(audio'[s])
      /\ \A i \in DOMAIN frames'[s] :
             frames'[s][i].header = AdtsHeader(frames'[s][i].unit, AudioConfig(plan[s]))
      /\ frames[s] # <<>> => frames'[s] # <<>>
      /\ pc[s] = "audio" /\ Sounding(s, span) => givenUp[s] \/ frames'[s] # <<>>
      /\ Places(audio'[s]) = Places(audio[s]) \cup
             IF OwnsAudio(s, span) /\ pc[s] = "audio" THEN span[1] .. span[2] ELSE {}
      /\ Places(video'[s]) = Places(video[s]) \cup
             IF ~Skips(s, span) /\ pc[s] = "rest" THEN span[1] .. span[2] ELSE {}
  <2>1. CASE OwnsAudio(s, span) <=> pc[s] = "audio"
    <3>1. FeedSinks(s, span)
      BY <1>1, <2>1
    <3>2. OwnsAudio(s, span) => \A x \in Places(audio[s]) : x < span[1]
      <4> SUFFICES ASSUME OwnsAudio(s, span)
                   PROVE  \A x \in Places(audio[s]) : x < span[1]
        OBVIOUS
      <4>1. \A i \in AudioHalf(s) : i \in DOMAIN packets /\ i < turn
        BY <1>3, <1>4, <2>1
      <4> QED
        BY <1>5, <1>6, <1>7, <4>1
    <3>3. \A x \in Places(video[s]) : x < span[1]
      <4>1. \A i \in VideoHalf(s) : i \in DOMAIN packets /\ i < turn
        BY <1>3, <1>4
      <4> QED
        BY <1>5, <1>6, <1>7, <4>1
    <3>4. /\ SoundPlan(plan[s])
          /\ \A i \in DOMAIN frames[s] :
                frames[s][i].header = AdtsHeader(frames[s][i].unit, AudioConfig(plan[s]))
      BY <1>2 DEF Sounds
    <3>5. /\ video' \in [Sessions -> Seq(Span)] /\ audio' \in [Sessions -> Seq(Span)]
          /\ frames' \in [Sessions -> Seq(Frame)]
          /\ \A t \in Sessions \ {s} :
                 video'[t] = video[t] /\ audio'[t] = audio[t] /\ frames'[t] = frames[t]
          /\ InOrder(video'[s]) /\ InOrder(audio'[s])
          /\ Places(audio'[s]) = Places(audio[s]) \cup
                 IF OwnsAudio(s, span) THEN span[1] .. span[2] ELSE {}
          /\ Places(video'[s]) = Places(video[s]) \cup
                 IF Skips(s, span) THEN {} ELSE span[1] .. span[2]
          /\ \A i \in DOMAIN frames'[s] :
                 frames'[s][i].header = AdtsHeader(frames'[s][i].unit, AudioConfig(plan[s]))
          /\ (OwnsAudio(s, span) /\ Sounding(s, span)) \/ frames[s] # <<>>
                 => frames'[s] # <<>>
      BY <1>2, <1>3, <1>6, <3>1, <3>2, <3>3, <3>4, Fed
    <3>6. CASE pc[s] = "audio"
      BY <1>18, <2>1, <3>5, <3>6
    <3>7. CASE pc[s] = "rest"
      BY <1>18, <2>1, <3>5, <3>7
    <3> QED
      BY <1>1, <3>6, <3>7
  <2>2. CASE ~(OwnsAudio(s, span) <=> pc[s] = "audio")
    <3>1. video' = video /\ audio' = audio /\ frames' = frames
      BY <1>1, <2>2
    <3>2. ~(OwnsAudio(s, span) /\ pc[s] = "audio") /\ ~(~Skips(s, span) /\ pc[s] = "rest")
      BY <1>1, <1>18, <2>2
    <3>3. pc[s] = "audio" /\ Sounding(s, span) => givenUp[s]
      BY <1>18, <3>2 DEF Sounding
    <3> QED
      BY <1>2, <1>6, <3>1, <3>2, <3>3 DEF Types, Sounds
  <2> QED
    BY <2>1, <2>2
<1>10. OnlyOf(s)
  <2>1. \A t \in Sessions \ {s} : replayed'[t] = replayed[t]
    BY <1>1, <1>2 DEF Types
  <2> QED
    BY <1>1, <1>9, <2>1 DEF OnlyOf, Rests
<1>11. Types'
  <2>1. Sessions' = Sessions
    BY DEF Sessions
  <2>2. replayed' \in [Sessions -> Nat]
    BY <1>1, <1>2, <1>3 DEF Types
  <2> QED
    BY <1>1, <1>2, <1>9, <2>1, <2>2 DEF Types, IsPlan
<1>12. CacheTold'
  BY <1>1 DEF CacheTold, IInv, IsRtp
<1>13. /\ IsRtp' = IsRtp
       /\ \A x : OfCamera(x)' = OfCamera(x) /\ Packet(x)' = Packet(x)
  BY <1>1, SameCamera
<1>14. Keeps(s)'
  BY <1>1, <1>2, <1>13 DEF Keeps, Places, InOrder
<1>15. HandsOn(s)'
  <2>1. /\ Places(audio'[s]) \subseteq PlacesOf(s, AudioHalf(s))'
        /\ givenUp[s] \/ Places(audio'[s]) = PlacesOf(s, AudioHalf(s))'
    <3>1. PlacesOf(s, AudioHalf(s))'
              = UNION {packets[i][1] .. packets[i][2] : i \in AudioHalf(s)'}
      BY <1>1 DEF PlacesOf, packets
    <3>2. UNION {packets[i][1] .. packets[i][2] : i \in AudioHalf(s)'}
              = PlacesOf(s, AudioHalf(s)) \cup
                    IF Heard(s, span) /\ pc[s] = "audio" THEN span[1] .. span[2] ELSE {}
      BY <1>5, <1>8 DEF span
    <3> QED
      BY <1>6, <1>9, <1>18, <3>1, <3>2
  <2>2. PlacesOf(s, VideoHalf(s))' = Places(video'[s])
    <3>1. PlacesOf(s, VideoHalf(s))'
              = UNION {packets[i][1] .. packets[i][2] : i \in VideoHalf(s)'}
      BY <1>1 DEF PlacesOf, packets
    <3>2. UNION {packets[i][1] .. packets[i][2] : i \in VideoHalf(s)'}
              = PlacesOf(s, VideoHalf(s)) \cup
                    IF ~Skips(s, span) /\ pc[s] = "rest" THEN span[1] .. span[2] ELSE {}
      BY <1>5, <1>8 DEF span
    <3> QED
      BY <1>6, <1>9, <3>1, <3>2
  <2>3. replayed'[s] <= Len(plan'[s].packets)
    BY <1>1, <1>3 DEF packets
  <2>4. Places(video[s])' = Places(video'[s]) /\ Places(audio[s])' = Places(audio'[s])
        /\ InOrder(video[s])' = InOrder(video'[s]) /\ InOrder(audio[s])' = InOrder(audio'[s])
    BY DEF Places, InOrder
  <2> QED
    BY <1>1, <1>9, <2>1, <2>2, <2>3, <2>4 DEF HandsOn
<1>16. Decided(s)'
  BY <1>1, <1>2, <1>13 DEF Decided, PlanTold
<1>17. Sounds(s)'
  <2>1. SoundPlan(plan[s])'
    BY <1>1, <1>2, <1>13 DEF Sounds, SoundPlan
  <2>2. ASSUME NEW i \in DOMAIN packets, Sounding(s, packets[i]), pc[s] = "audio" => i <= turn
        PROVE  givenUp[s] \/ frames'[s] # <<>>
    <3>1. CASE pc[s] = "audio" => i <= replayed[s]
      <4>1. givenUp[s] \/ frames[s] # <<>>
        BY <1>1, <1>2, <2>2, <3>1 DEF Sounds, packets
      <4> QED
        BY <1>9, <4>1
    <3>2. CASE pc[s] = "audio" /\ i = turn
      BY <1>9, <2>2, <3>2 DEF span
    <3> QED
      BY <1>3, <2>2, <3>1, <3>2
  <2>3. AudioConfig(plan[s])' = AudioConfig(plan[s])
    BY <1>1 DEF AudioConfig
  <2>4. \A i \in DOMAIN packets :
            Sounding(s, packets[i]) /\ (pc'[s] = "audio" => i <= replayed'[s])
                => givenUp[s] \/ frames'[s] # <<>>
    BY <1>1, <1>3, <2>2
  <2>5. \A i \in DOMAIN packets :
            Sounding(s, plan[s].packets[i])' = Sounding(s, packets[i])
    BY <1>1, <1>13 DEF Sounding, Heard, packets
  <2>6. plan'[s].packets = packets
    BY <1>1 DEF packets
  <2>7. \A i \in DOMAIN plan'[s].packets :
            (Sounding(s, plan[s].packets[i]) /\ (pc[s] = "audio" => i <= replayed[s])
                => givenUp[s] \/ frames[s] # <<>>)'
    BY <1>1, <2>4, <2>5, <2>6
  <2> QED
    BY <1>1, <1>9, <2>1, <2>3, <2>7 DEF Sounds
<1> QED
  BY <1>10, <1>11, <1>12, <1>14, <1>15, <1>16, <1>17, StepOfOne DEF SessionInv

\* The audio may be given up wherever the pump is: what it has taken it keeps.
LEMMA GiveUpAudioKeeps ==
    ASSUME IInv, NEW s \in Sessions, GiveUpAudio(s)
    PROVE  IInv'
<1>1. /\ pc[s] \in {"audio", "rest", "live"} /\ givenUp' = [givenUp EXCEPT ![s] = TRUE]
      /\ camera' = camera /\ rtpCache' = rtpCache /\ joined' = joined /\ pos' = pos
      /\ plan' = plan /\ pc' = pc /\ replayed' = replayed
      /\ video' = video /\ audio' = audio /\ frames' = frames
  BY DEF GiveUpAudio, fixedVars, cacheVars, readVars, sinkVars
<1>2. Types /\ Keeps(s) /\ HandsOn(s) /\ Decided(s) /\ Sounds(s)
  BY DEF IInv, SessionInv
<1>3. givenUp'[s] /\ OnlyOf(s)
  BY <1>1, <1>2 DEF Types, OnlyOf, Rests
<1>4. Types'
  <2>1. Sessions' = Sessions
    BY DEF Sessions
  <2>2. givenUp' \in [Sessions -> BOOLEAN]
    BY <1>1, <1>2 DEF Types
  <2> QED
    BY <1>1, <1>2, <2>1, <2>2 DEF Types, IsPlan
<1>5. CacheTold'
  BY <1>1 DEF CacheTold, IInv, IsRtp
<1>6. /\ IsRtp' = IsRtp
      /\ \A x : OfCamera(x)' = OfCamera(x) /\ Packet(x)' = Packet(x)
  BY <1>1, SameCamera
<1>7. Keeps(s)'
  BY <1>1, <1>2, <1>6 DEF Keeps, Places, InOrder
<1>8. HandsOn(s)'
  <2>1. AudioHalf(s)' = AudioHalf(s) /\ VideoHalf(s)' = VideoHalf(s)
    BY <1>1, <1>6 DEF AudioHalf, VideoHalf, Heard, Skips
  <2>2. /\ PlacesOf(s, AudioHalf(s))' = PlacesOf(s, AudioHalf(s))
        /\ PlacesOf(s, VideoHalf(s))' = PlacesOf(s, VideoHalf(s))
    BY <1>1, <2>1 DEF PlacesOf
  <2>3. ReadSince(s, pos[s])' = ReadSince(s, pos[s])
    BY <1>1, <1>6 DEF ReadSince
  <2>4. /\ OfVideo(s, ReadSince(s, pos[s]))' = OfVideo(s, ReadSince(s, pos[s]))
        /\ OfAudio(s, ReadSince(s, pos[s]))' = OfAudio(s, ReadSince(s, pos[s]))
    BY <1>1, <2>3 DEF OfVideo, OfAudio
  <2>5. Places(video[s])' = Places(video[s]) /\ Places(audio[s])' = Places(audio[s])
        /\ InOrder(video[s])' = InOrder(video[s]) /\ InOrder(audio[s])' = InOrder(audio[s])
    BY <1>1 DEF Places, InOrder
  <2> QED
    BY <1>1, <1>2, <1>3, <2>2, <2>4, <2>5 DEF HandsOn
<1>9. Decided(s)'
  BY <1>1, <1>2, <1>6 DEF Decided, PlanTold
<1>10. Sounds(s)'
  <2>1. SoundPlan(plan[s])' /\ AudioConfig(plan[s])' = AudioConfig(plan[s])
    BY <1>1, <1>2, <1>6 DEF Sounds, SoundPlan, AudioConfig
  <2> QED
    BY <1>1, <1>2, <1>3, <2>1 DEF Sounds
<1> QED
  BY <1>3, <1>4, <1>5, <1>7, <1>8, <1>9, <1>10, StepOfOne DEF SessionInv

\* What one packet more adds to what is of the video's type, and of the audio's.
LEMMA OneMore ==
    ASSUME NEW s \in Sessions, SoundPlan(plan[s]), PlanTold(plan[s]),
           NEW span \in Span, OfCamera(span), NEW read
    PROVE  /\ OfVideo(s, read \cup (span[1] .. span[2]))
                  = OfVideo(s, read) \cup IF Skips(s, span) THEN {} ELSE span[1] .. span[2]
           /\ OfAudio(s, read \cup (span[1] .. span[2]))
                  = OfAudio(s, read) \cup IF Heard(s, span) THEN span[1] .. span[2] ELSE {}
<1>1. CASE plan[s].codec = NoCodec
  <2>1. plan[s].audio = NoType
    BY <1>1 DEF SoundPlan
  <2> QED
    BY <1>1, <2>1 DEF OfVideo, OfAudio, Skips, Heard
<1>2. CASE plan[s].codec # NoCodec
  <2>1. IsRtp /\ span[1] = span[2] /\ span[1] \in Nat
    BY <1>2 DEF PlanTold, OfCamera, Span
  <2>2. span[1] .. span[2] = {span[1]} /\ Packet(span) = camera.packets[span[1]]
    BY <2>1 DEF Packet
  <2> QED
    BY <1>2, <2>2 DEF OfVideo, OfAudio, Skips, Heard
<1> QED
  BY <1>1, <1>2

\* The leading packets of the two types hold what was read of them.
LEMMA Halves ==
    ASSUME Types, NEW s \in Sessions, SoundPlan(plan[s]), PlanTold(plan[s]),
           \A i \in DOMAIN plan[s].packets : OfCamera(plan[s].packets[i])
    PROVE  LET q == plan[s].packets
           IN /\ PlacesOf(s, {i \in DOMAIN q : ~Skips(s, q[i])}) = OfVideo(s, Places(q))
              /\ PlacesOf(s, {i \in DOMAIN q : Heard(s, q[i])}) = OfAudio(s, Places(q))
<1> DEFINE q == plan[s].packets
<1>1. \A i \in DOMAIN q : q[i] \in Span /\ OfCamera(q[i])
  BY DEF Types
<1>2. Places(q) = UNION {q[i][1] .. q[i][2] : i \in DOMAIN q}
  BY DEF Places
<1>3. \A I : PlacesOf(s, I) = UNION {q[i][1] .. q[i][2] : i \in I}
  BY DEF PlacesOf
<1>4. CASE plan[s].codec = NoCodec
  <2>1. plan[s].audio = NoType
    BY <1>4 DEF SoundPlan
  <2>2. {i \in DOMAIN q : ~Skips(s, q[i])} = DOMAIN q /\ {i \in DOMAIN q : Heard(s, q[i])} = {}
    BY <1>4, <2>1 DEF Skips, Heard
  <2> QED
    BY <1>2, <1>3, <1>4, <2>1, <2>2 DEF OfVideo, OfAudio
<1>5. CASE plan[s].codec # NoCodec
  <2>1. IsRtp
    BY <1>5 DEF PlanTold
  <2>2. \A i \in DOMAIN q : /\ q[i][1] .. q[i][2] = {q[i][1]}
                            /\ Packet(q[i]) = camera.packets[q[i][1]]
    BY <1>1, <2>1 DEF OfCamera, Packet, Span
  <2> HIDE DEF q
  <2>3. PlacesOf(s, {i \in DOMAIN q : ~Skips(s, q[i])}) = OfVideo(s, Places(q))
    <3>1. \A i \in DOMAIN q : Skips(s, q[i]) <=> camera.packets[q[i][1]].pt # plan[s].pt
      BY <1>5, <2>2 DEF Skips
    <3>2. \A x : x \in PlacesOf(s, {i \in DOMAIN q : ~Skips(s, q[i])})
                     <=> x \in Places(q) /\ camera.packets[x].pt = plan[s].pt
      BY <1>2, <1>3, <2>2, <3>1
    <3> QED
      BY <1>5, <3>2 DEF OfVideo
  <2>4. PlacesOf(s, {i \in DOMAIN q : Heard(s, q[i])}) = OfAudio(s, Places(q))
    <3>1. \A i \in DOMAIN q : Heard(s, q[i]) <=> /\ plan[s].audio # NoType
                                                /\ camera.packets[q[i][1]].pt = plan[s].audio
      BY <2>2 DEF Heard
    <3>2. \A x : x \in PlacesOf(s, {i \in DOMAIN q : Heard(s, q[i])})
                     <=> /\ x \in Places(q) /\ plan[s].audio # NoType
                         /\ camera.packets[x].pt = plan[s].audio
      BY <1>2, <1>3, <2>2, <3>1
    <3> QED
      BY <3>2 DEF OfAudio
  <2> QED
    BY <2>3, <2>4 DEF q
<1> QED
  BY <1>4, <1>5

\* After the audio's half comes the rest, and after that all has been handed on.
LEMMA ReplayDoneKeeps ==
    ASSUME IInv, NEW s \in Sessions, ReplayDone(s)
    PROVE  IInv'
<1> DEFINE l == IF pc[s] = "audio" THEN "rest" ELSE "live"
           packets == plan[s].packets
<1>1. /\ pc[s] \in {"audio", "rest"} /\ replayed[s] = Len(packets)
      /\ pc' = [pc EXCEPT ![s] = l] /\ replayed' = [replayed EXCEPT ![s] = 0]
      /\ camera' = camera /\ rtpCache' = rtpCache /\ joined' = joined /\ pos' = pos
      /\ plan' = plan /\ video' = video /\ audio' = audio /\ frames' = frames
      /\ givenUp' = givenUp
  BY DEF ReplayDone, Goto, fixedVars, cacheVars, sinkVars
<1>2. Types /\ Keeps(s) /\ HandsOn(s) /\ Decided(s) /\ Sounds(s)
  BY DEF IInv, SessionInv
<1>3. /\ pc'[s] = l /\ replayed'[s] = 0 /\ l \in {"rest", "live"}
      /\ packets \in Seq(Span) /\ DOMAIN packets = 1 .. Len(packets) /\ Len(packets) \in Nat
  BY <1>1, <1>2 DEF Types
<1>4. OnlyOf(s)
  BY <1>1, <1>2 DEF Types, OnlyOf, Rests
<1>5. Types'
  <2>1. Sessions' = Sessions
    BY DEF Sessions
  <2>2. pc' \in [Sessions -> Labels] /\ replayed' \in [Sessions -> Nat]
    BY <1>1, <1>2, <1>3 DEF Types, Labels
  <2> QED
    BY <1>1, <1>2, <2>1, <2>2 DEF Types, IsPlan
<1>6. CacheTold'
  BY <1>1 DEF CacheTold, IInv, IsRtp
<1>7. /\ IsRtp' = IsRtp
      /\ \A x : OfCamera(x)' = OfCamera(x) /\ Packet(x)' = Packet(x)
  BY <1>1, SameCamera
<1>8. /\ AudioHalf(s) = {i \in DOMAIN packets : Heard(s, packets[i])}
      /\ VideoHalf(s) = {i \in DOMAIN packets : ~Skips(s, packets[i]) /\ pc[s] = "rest"}
  BY <1>1, <1>3 DEF AudioHalf, VideoHalf
<1>9. /\ Places(audio[s]) \subseteq PlacesOf(s, AudioHalf(s))
      /\ givenUp[s] \/ Places(audio[s]) = PlacesOf(s, AudioHalf(s))
      /\ Places(video[s]) = PlacesOf(s, VideoHalf(s))
      /\ InOrder(video[s]) /\ InOrder(audio[s])
  BY <1>1, <1>2 DEF HandsOn
<1>10. Keeps(s)'
  BY <1>1, <1>2, <1>3, <1>7 DEF Keeps, Places, InOrder
<1>11. Decided(s)'
  BY <1>1, <1>2, <1>3, <1>7 DEF Decided, PlanTold
<1>12. SoundPlan(plan[s])' /\ AudioConfig(plan[s])' = AudioConfig(plan[s])
       /\ \A x : Sounding(s, x)' = Sounding(s, x) /\ Heard(s, x)' = Heard(s, x)
  BY <1>1, <1>2, <1>7 DEF Sounds, SoundPlan, AudioConfig, Sounding, Heard
<1>13. Places(video[s])' = Places(video[s]) /\ Places(audio[s])' = Places(audio[s])
       /\ InOrder(video[s])' = InOrder(video[s]) /\ InOrder(audio[s])' = InOrder(audio[s])
  BY <1>1 DEF Places, InOrder
<1>14. \A i \in DOMAIN packets : Sounding(s, packets[i]) => givenUp[s] \/ frames[s] # <<>>
  BY <1>1, <1>2, <1>3 DEF Sounds
<1>15. CASE pc[s] = "audio"
  <2>1. l = "rest"
    BY <1>15
  <2> HIDE DEF l
  <2>2. AudioHalf(s)' = AudioHalf(s) /\ VideoHalf(s)' = VideoHalf(s)
    <3>1. AudioHalf(s)' = {i \in DOMAIN packets : Heard(s, packets[i])}
      BY <1>1, <1>3, <1>12, <2>1 DEF AudioHalf
    <3>2. VideoHalf(s)' = {} /\ VideoHalf(s) = {}
      <4>1. \A i \in DOMAIN packets : ~(i <= 0)
        BY <1>3
      <4> QED
        BY <1>1, <1>3, <1>8, <1>15, <4>1 DEF VideoHalf
    <3> QED
      BY <1>8, <3>1, <3>2
  <2>3. /\ PlacesOf(s, AudioHalf(s))' = PlacesOf(s, AudioHalf(s))
        /\ PlacesOf(s, VideoHalf(s))' = PlacesOf(s, VideoHalf(s))
    BY <1>1, <2>2 DEF PlacesOf
  <2>4. replayed'[s] <= Len(plan'[s].packets)
    BY <1>1, <1>3
  <2>5. HandsOn(s)'
    BY <1>1, <1>3, <1>9, <1>13, <2>1, <2>3, <2>4 DEF HandsOn
  <2>6. Sounds(s)'
    BY <1>1, <1>2, <1>3, <1>12, <1>14, <2>1 DEF Sounds
  <2> QED
    BY <1>4, <1>5, <1>6, <1>10, <1>11, <2>5, <2>6, StepOfOne DEF SessionInv
<1>16. CASE pc[s] = "rest"
  <2>1. l = "live"
    BY <1>16
  <2> HIDE DEF l
  <2>2. InOrder(packets) /\ Places(packets)
            = {i \in joined[s] .. pos[s] - 1 : IsRtp => camera.packets[i].kind # "empty"}
    BY <1>2, <1>16 DEF Keeps
  <2>3. Places(packets) = ReadSince(s, pos[s])
    BY <2>2 DEF ReadSince
  <2>4. /\ PlacesOf(s, VideoHalf(s)) = OfVideo(s, ReadSince(s, pos[s]))
        /\ PlacesOf(s, AudioHalf(s)) = OfAudio(s, ReadSince(s, pos[s]))
    <3>1. VideoHalf(s) = {i \in DOMAIN packets : ~Skips(s, packets[i])}
      BY <1>8, <1>16
    <3>2. SoundPlan(plan[s]) /\ PlanTold(plan[s])
          /\ \A i \in DOMAIN plan[s].packets : OfCamera(plan[s].packets[i])
      BY <1>2 DEF Keeps, Decided, Sounds
    <3> QED
      BY <1>2, <1>8, <2>3, <3>1, <3>2, Halves
  <2> HIDE DEF packets
  <2>5. HandsOn(s)'
    <3>1. ReadSince(s, pos[s])' = ReadSince(s, pos[s])
      BY <1>1, <1>7 DEF ReadSince
    <3>2. /\ OfVideo(s, ReadSince(s, pos[s]))' = OfVideo(s, ReadSince(s, pos[s]))
          /\ OfAudio(s, ReadSince(s, pos[s]))' = OfAudio(s, ReadSince(s, pos[s]))
      BY <1>1, <3>1 DEF OfVideo, OfAudio
    <3> QED
      BY <1>1, <1>3, <1>9, <1>13, <2>1, <2>4, <3>2 DEF HandsOn
  <2>6. plan[s].audio # NoType => givenUp[s] \/ frames[s] # <<>>
    <3> SUFFICES ASSUME plan[s].audio # NoType
                 PROVE  givenUp[s] \/ frames[s] # <<>>
      OBVIOUS
    <3>1. PICK i \in DOMAIN packets :
              LET q == Packet(packets[i])
              IN q.pt = plan[s].audio /\ q.kind = "aac" /\ CarriesAac(q.data)
      BY <1>2 DEF Sounds, SoundPlan, packets
    <3>2. Sounding(s, packets[i])
      BY <3>1 DEF Sounding, Heard
    <3> QED
      BY <1>14, <3>2
  <2>7. Sounds(s)'
    BY <1>1, <1>2, <1>3, <1>12, <2>1, <2>6 DEF Sounds
  <2> QED
    BY <1>4, <1>5, <1>6, <1>10, <1>11, <2>5, <2>7, StepOfOne DEF SessionInv
<1> QED
  BY <1>1, <1>15, <1>16

\* The loop of the pump hands on each packet as it is read.
LEMMA LiveKeeps ==
    ASSUME IInv, NEW s \in Sessions, Live(s)
    PROVE  IInv'
<1>1. PICK span \in Next_(s) :
          /\ Reads(s, span)
          /\ IF Packet(span).kind = "empty" THEN UNCHANGED <<video, audio, frames>>
             ELSE FeedSinks(s, span)
  BY DEF Live, sinkVars
<1>2. /\ pc[s] = "live" /\ pos' = [pos EXCEPT ![s] = span[2] + 1]
      /\ camera' = camera /\ rtpCache' = rtpCache /\ joined' = joined
      /\ plan' = plan /\ pc' = pc /\ replayed' = replayed /\ givenUp' = givenUp
  BY <1>1 DEF Live, Reads, fixedVars
<1>3. Types /\ Keeps(s) /\ HandsOn(s) /\ Decided(s) /\ Sounds(s)
  BY DEF IInv, SessionInv
<1>4. span \in Span /\ span[1] = pos[s] /\ OfCamera(span)
  BY <1>3, NextPacket
<1>5. /\ joined[s] \in Nat /\ pos[s] \in Nat /\ joined[s] <= pos[s]
      /\ span[2] \in Nat /\ pos[s] <= span[2] /\ pos'[s] = span[2] + 1
  BY <1>2, <1>3, <1>4 DEF Types, Keeps, Span
<1>6. ReadSince(s, span[2] + 1)
          = ReadSince(s, pos[s]) \cup IF Packet(span).kind = "empty" THEN {} ELSE span[1] .. span[2]
  BY <1>3, <1>5, ReadOneMore
<1>7. /\ InOrder(video[s]) /\ InOrder(audio[s])
      /\ Places(video[s]) = OfVideo(s, ReadSince(s, pos[s]))
      /\ Places(audio[s]) \subseteq OfAudio(s, ReadSince(s, pos[s]))
      /\ givenUp[s] \/ Places(audio[s]) = OfAudio(s, ReadSince(s, pos[s]))
  BY <1>2, <1>3 DEF HandsOn
<1>8. \A x \in ReadSince(s, pos[s]) : x < span[1]
  BY <1>4, <1>5 DEF ReadSince
<1>9. /\ video' \in [Sessions -> Seq(Span)] /\ audio' \in [Sessions -> Seq(Span)]
      /\ frames' \in [Sessions -> Seq(Frame)]
      /\ \A t \in Sessions \ {s} :
             video'[t] = video[t] /\ audio'[t] = audio[t] /\ frames'[t] = frames[t]
      /\ InOrder(video'[s]) /\ InOrder(audio'[s])
      /\ Places(video'[s]) = OfVideo(s, ReadSince(s, span[2] + 1))
      /\ Places(audio'[s]) \subseteq OfAudio(s, ReadSince(s, span[2] + 1))
      /\ givenUp[s] \/ Places(audio'[s]) = OfAudio(s, ReadSince(s, span[2] + 1))
      /\ \A i \in DOMAIN frames'[s] :
             frames'[s][i].header = AdtsHeader(frames'[s][i].unit, AudioConfig(plan[s]))
      /\ frames[s] # <<>> => frames'[s] # <<>>
  <2>1. CASE Packet(span).kind = "empty"
    <3>1. video' = video /\ audio' = audio /\ frames' = frames
      BY <1>1, <2>1
    <3>2. ReadSince(s, span[2] + 1) = ReadSince(s, pos[s])
      BY <1>6, <2>1
    <3> QED
      BY <1>3, <1>7, <3>1, <3>2 DEF Types, Sounds
  <2>2. CASE Packet(span).kind # "empty"
    <3>1. FeedSinks(s, span)
      BY <1>1, <2>2
    <3>2. /\ \A x \in Places(audio[s]) : x < span[1]
          /\ \A x \in Places(video[s]) : x < span[1]
      BY <1>7, <1>8 DEF OfVideo, OfAudio
    <3>3. /\ SoundPlan(plan[s]) /\ PlanTold(plan[s])
          /\ \A i \in DOMAIN frames[s] :
                frames[s][i].header = AdtsHeader(frames[s][i].unit, AudioConfig(plan[s]))
      BY <1>3 DEF Sounds, Decided
    <3>4. /\ video' \in [Sessions -> Seq(Span)] /\ audio' \in [Sessions -> Seq(Span)]
          /\ frames' \in [Sessions -> Seq(Frame)]
          /\ \A t \in Sessions \ {s} :
                 video'[t] = video[t] /\ audio'[t] = audio[t] /\ frames'[t] = frames[t]
          /\ InOrder(video'[s]) /\ InOrder(audio'[s])
          /\ Places(audio'[s]) = Places(audio[s]) \cup
                 IF OwnsAudio(s, span) THEN span[1] .. span[2] ELSE {}
          /\ Places(video'[s]) = Places(video[s]) \cup
                 IF Skips(s, span) THEN {} ELSE span[1] .. span[2]
          /\ \A i \in DOMAIN frames'[s] :
                 frames'[s][i].header = AdtsHeader(frames'[s][i].unit, AudioConfig(plan[s]))
          /\ (OwnsAudio(s, span) /\ Sounding(s, span)) \/ frames[s] # <<>>
                 => frames'[s] # <<>>
      BY <1>3, <1>4, <1>7, <3>1, <3>2, <3>3, Fed
    <3>5. ReadSince(s, span[2] + 1) = ReadSince(s, pos[s]) \cup (span[1] .. span[2])
      BY <1>6, <2>2
    <3>6. \A read :
              /\ OfVideo(s, read \cup (span[1] .. span[2]))
                     = OfVideo(s, read) \cup IF Skips(s, span) THEN {} ELSE span[1] .. span[2]
              /\ OfAudio(s, read \cup (span[1] .. span[2]))
                     = OfAudio(s, read) \cup IF Heard(s, span) THEN span[1] .. span[2] ELSE {}
      BY <1>4, <3>3, OneMore
    <3>7. OwnsAudio(s, span) <=> Heard(s, span) /\ ~givenUp[s]
      BY <3>3, Apart
    <3> QED
      BY <1>7, <3>4, <3>5, <3>6, <3>7
  <2> QED
    BY <2>1, <2>2
<1>10. OnlyOf(s)
  <2>1. \A t \in Sessions \ {s} : pos'[t] = pos[t]
    BY <1>2, <1>3 DEF Types
  <2> QED
    BY <1>2, <1>9, <2>1 DEF OnlyOf, Rests
<1>11. Types'
  <2>1. Sessions' = Sessions
    BY DEF Sessions
  <2>2. pos' \in [Sessions -> Nat \ {0}]
    BY <1>2, <1>3, <1>5 DEF Types
  <2> QED
    BY <1>2, <1>3, <1>9, <2>1, <2>2 DEF Types, IsPlan
<1>12. CacheTold'
  BY <1>2 DEF CacheTold, IInv, IsRtp
<1>13. /\ IsRtp' = IsRtp
       /\ \A x : OfCamera(x)' = OfCamera(x) /\ Packet(x)' = Packet(x)
  BY <1>2, SameCamera
<1>14. Keeps(s)'
  <2>1. joined'[s] <= pos'[s]
    BY <1>2, <1>5
  <2> QED
    BY <1>2, <1>3, <1>13, <2>1 DEF Keeps
<1>15. HandsOn(s)'
  <2>1. ReadSince(s, pos[s])' = ReadSince(s, span[2] + 1)
    BY <1>2, <1>5, <1>13 DEF ReadSince
  <2>3. /\ OfVideo(s, ReadSince(s, pos[s]))' = OfVideo(s, ReadSince(s, span[2] + 1))
        /\ OfAudio(s, ReadSince(s, pos[s]))' = OfAudio(s, ReadSince(s, span[2] + 1))
    BY <1>2, <2>1 DEF OfVideo, OfAudio
  <2>2. Places(video[s])' = Places(video'[s]) /\ Places(audio[s])' = Places(audio'[s])
        /\ InOrder(video[s])' = InOrder(video'[s]) /\ InOrder(audio[s])' = InOrder(audio'[s])
    BY DEF Places, InOrder
  <2> QED
    BY <1>2, <1>9, <2>2, <2>3 DEF HandsOn
<1>16. Decided(s)'
  BY <1>2, <1>3, <1>13 DEF Decided, PlanTold
<1>17. Sounds(s)'
  <2>1. SoundPlan(plan[s])' /\ AudioConfig(plan[s])' = AudioConfig(plan[s])
    BY <1>2, <1>3, <1>13 DEF Sounds, SoundPlan, AudioConfig
  <2>2. plan[s].audio # NoType => givenUp[s] \/ frames'[s] # <<>>
    BY <1>2, <1>3, <1>9 DEF Sounds
  <2> QED
    BY <1>2, <1>9, <2>1, <2>2 DEF Sounds
<1> QED
  BY <1>10, <1>11, <1>12, <1>14, <1>15, <1>16, <1>17, StepOfOne DEF SessionInv
-----------------------------------------------------------------------------
(* The inspector of a program stream.                                       *)

\* Its attributes.
Inspector ==
    [pending : Seq(Byte), pack : Seq(Byte), id : Nat, elementary : Seq(Byte),
     sets : [ToSet(SetTypes) -> Seq(Seq(Byte))]]

\* Between two packets it keeps no more than it has room for.
Bounded ==
    {ins \in Inspector : Len(ins.pending) <= MaxPending /\ Len(ins.elementary) <= MaxParameterSet}

\* The constants, one by one.
LEMMA Limits == MaxPending \in Nat /\ MaxPending >= 4 /\ MaxParameterSet \in Nat
BY ProgramStreamAssumption

\* The rest of a sequence of bytes.
LEMMA FromIs ==
    ASSUME NEW q \in Seq(Byte), NEW i \in Nat \ {0}
    PROVE  /\ From(q, i) \in Seq(Byte)
           /\ Len(From(q, i)) = IF i <= Len(q) THEN Len(q) - i + 1 ELSE 0
           /\ \A k \in 1 .. Len(q) - i + 1 : From(q, i)[k] = q[i + k - 1]
<1>1. Len(q) \in Nat /\ i \in Int /\ Len(q) \in Int /\ \A k \in i .. Len(q) : q[k] \in Byte
  OBVIOUS
<1>2. From(q, i) = SubSeq(q, i, Len(q))
  BY DEF From
<1> QED
  BY <1>1, <1>2, SubSeqProperties

\* The greater of two.
LEMMA MaxOfTwo ==
    ASSUME NEW a \in Int, NEW b \in Int
    PROVE  Max({a, b}) = IF a >= b THEN a ELSE b
<1>1. PICK c \in {a, b} : \A y \in {a, b} : c >= y
  OBVIOUS
<1> QED
  BY <1>1 DEF Max

\* The last bytes, or all when there are fewer.
LEMMA LastBytesIs ==
    ASSUME NEW q \in Seq(Byte), NEW n \in Nat
    PROVE  /\ LastBytes(q, n) \in Seq(Byte)
           /\ Len(LastBytes(q, n)) <= Len(q) /\ Len(LastBytes(q, n)) <= n
<1> DEFINE i == Max({1, Len(q) - n + 1})
<1>1. Len(q) \in Nat /\ Len(q) - n + 1 \in Int
  OBVIOUS
<1>2. i = IF 1 >= Len(q) - n + 1 THEN 1 ELSE Len(q) - n + 1
  <2>1. 1 \in Int
    OBVIOUS
  <2> QED
    BY <1>1, <2>1, MaxOfTwo
<1> HIDE DEF i
<1>3. i \in Nat \ {0} /\ i >= Len(q) - n + 1
  BY <1>1, <1>2
<1>4. LastBytes(q, n) = From(q, i)
  BY DEF LastBytes, i
<1>5. /\ From(q, i) \in Seq(Byte)
      /\ Len(From(q, i)) = IF i <= Len(q) THEN Len(q) - i + 1 ELSE 0
  BY <1>3, FromIs
<1> QED
  BY <1>1, <1>3, <1>4, <1>5

\* Where a start code is found there is one.
LEMMA FindIs ==
    ASSUME NEW q \in Seq(Byte), NEW from \in Nat \ {0}
    PROVE  /\ Starts(q, from) \in SUBSET (Nat \ {0})
           /\ Find(q, from) \in Nat
           /\ Find(q, from) # 0 => Find(q, from) \in Starts(q, from)
<1>1. Starts(q, from) \in SUBSET (Nat \ {0})
  BY DEF Starts
<1> QED
  BY <1>1, MinOfNumbers DEF Find

\* What the units have added to the sets are sequences of bytes.
LEMMA InspectNalIs ==
    ASSUME NEW sets \in [ToSet(SetTypes) -> Seq(Seq(Byte))], NEW unit \in Seq(Byte)
    PROVE  InspectNal(sets, unit) \in [ToSet(SetTypes) -> Seq(Seq(Byte))]
<1> DEFINE more == [sets EXCEPT ![Kind(unit)] = Append(sets[Kind(unit)], unit)]
<1>1. InspectNal(sets, unit) = more \/ InspectNal(sets, unit) = sets
  BY DEF InspectNal
<1>2. more \in [ToSet(SetTypes) -> Seq(Seq(Byte))]
  <2>1. \A t \in ToSet(SetTypes) : Append(sets[t], unit) \in Seq(Seq(Byte))
    OBVIOUS
  <2> QED
    BY <2>1
<1> QED
  BY <1>1, <1>2

\* The payload of a PES is some of its bytes.
LEMMA PesPayloadIs ==
    ASSUME NEW pes \in Seq(Byte)
    PROVE  PesPayload(pes) \in Seq(Byte)
<1> DEFINE ends == {i \in 7 .. Len(pes) : pes[i] # 255} \cup {Len(pes) + 1}
           stuffed == Min(ends)
           buffer == IF stuffed <= Len(pes) /\ pes[stuffed] \div 64 = 1 THEN 2 ELSE 0
           stamp == stuffed + buffer
           stamps == CASE pes[stamp] \div 16 = 2 -> 5
                       [] pes[stamp] \div 16 = 3 -> 10
                       [] pes[stamp] = 15 -> 1
                       [] OTHER -> 0
<1>1. PesPayload(pes) =
          IF Len(pes) < 7 THEN <<>>
          ELSE IF pes[7] \div 64 = 2
          THEN IF Len(pes) < 9 THEN <<>> ELSE From(pes, 10 + pes[9])
          ELSE IF stamp > Len(pes) THEN <<>> ELSE From(pes, stamp + stamps)
  BY Zenon DEF PesPayload
<1>2. stamps \in {0, 1, 5, 10}
  <2> HIDE DEF stamp
  <2> QED
    BY Zenon
<1>3. stuffed \in Nat \ {0}
  <2>1. ends \in SUBSET (Nat \ {0}) /\ ends # {}
    OBVIOUS
  <2> HIDE DEF ends
  <2>2. ends \in SUBSET Nat
    BY <2>1
  <2>3. Min(ends) \in ends
    BY <2>1, <2>2, MinOfNumbers
  <2> QED
    BY <2>1, <2>3
<1>4. buffer \in {0, 2}
  OBVIOUS
<1> HIDE DEF stuffed, buffer, stamps
<1>5. stamp \in Nat \ {0}
  BY <1>3, <1>4
<1> HIDE DEF stamp
<1>6. stamp + stamps \in Nat \ {0}
  BY <1>2, <1>5
<1>7. From(pes, stamp + stamps) \in Seq(Byte)
  BY <1>6, FromIs
<1>8. Len(pes) >= 9 => From(pes, 10 + pes[9]) \in Seq(Byte)
  <2>1. ASSUME Len(pes) >= 9
        PROVE  10 + pes[9] \in Nat \ {0}
    <3>1. 9 \in 1 .. Len(pes)
      BY <2>1
    <3>2. pes[9] \in Byte
      BY <3>1
    <3>3. \A b \in Byte : 10 + b \in Nat \ {0}
      BY DEF Byte
    <3> QED
      BY <3>2, <3>3
  <2> QED
    BY <2>1, FromIs
<1>9. <<>> \in Seq(Byte) /\ Len(pes) \in Nat
  OBVIOUS
<1> QED
  BY <1>1, <1>7, <1>8, <1>9

\* One turn of the loop over the units either takes a start code away, or keeps
\* no more than there is room for.
LEMMA TakeUnitIs ==
    ASSUME NEW ins \in Inspector
    PROVE  LET next == TakeUnit(ins) IN
           /\ next \in Inspector /\ next.pending = ins.pending
           /\ Len(next.elementary) <= Len(ins.elementary)
           /\ \/ Len(next.elementary) <= MaxParameterSet
              \/ Cardinality(Starts(next.elementary, 1)) < Cardinality(Starts(ins.elementary, 1))
<1> DEFINE es == ins.elementary
           first == Find(es, 1)
           second == IF first = 0 THEN 0 ELSE Find(es, first + 3)
           rest == From(es, Max({1, first}))
           sets == InspectNal(ins.sets, SubSeq(es, first + 3, second - 1))
           next == TakeUnit(ins)
<1>1. es \in Seq(Byte) /\ ins.sets \in [ToSet(SetTypes) -> Seq(Seq(Byte))] /\ Len(es) \in Nat
  BY DEF Inspector
<1>2. next = IF second # 0
             THEN [ins EXCEPT !.sets = sets, !.elementary = From(es, second)]
             ELSE [ins EXCEPT !.elementary = IF Len(rest) > MaxParameterSet THEN <<>> ELSE rest]
  BY DEF TakeUnit
<1>3. first \in Nat /\ (first # 0 => first \in Starts(es, 1))
  BY <1>1, FindIs
<1> HIDE DEF first, es
<1>4. second \in Nat /\ (second # 0 => first # 0 /\ second \in Starts(es, first + 3))
  <2>1. CASE first = 0
    BY <2>1
  <2>2. CASE first # 0
    <3>1. first + 3 \in Nat \ {0}
      BY <1>3
    <3> QED
      BY <1>1, <2>2, <3>1, FindIs
  <2> QED
    BY <2>1, <2>2
<1> HIDE DEF second, rest, sets, next
<1>5. CASE second # 0
  <2>1. /\ first \in Nat \ {0} /\ first \in Starts(es, 1)
        /\ second \in first + 3 .. Len(es) - 2 /\ second \in Nat \ {0}
    BY <1>1, <1>3, <1>4, <1>5 DEF Starts
  <2>2. /\ From(es, second) \in Seq(Byte) /\ Len(From(es, second)) = Len(es) - second + 1
        /\ \A k \in 1 .. Len(es) - second + 1 : From(es, second)[k] = es[second + k - 1]
    <3>1. /\ From(es, second) \in Seq(Byte)
          /\ Len(From(es, second)) = IF second <= Len(es) THEN Len(es) - second + 1 ELSE 0
          /\ \A k \in 1 .. Len(es) - second + 1 : From(es, second)[k] = es[second + k - 1]
      BY <1>1, <2>1, FromIs
    <3>2. second <= Len(es)
      BY <1>1, <2>1
    <3> QED
      BY <3>1, <3>2
  <2>3. SubSeq(es, first + 3, second - 1) \in Seq(Byte)
    <3>1. \A i \in first + 3 .. second - 1 : es[i] \in Byte
      BY <1>1, <2>1
    <3>2. first + 3 \in Int /\ second - 1 \in Int
      BY <2>1
    <3> QED
      BY <3>1, <3>2, SubSeqProperties
  <2>4. sets \in [ToSet(SetTypes) -> Seq(Seq(Byte))]
    BY <1>1, <2>3, InspectNalIs DEF sets
  <2> DEFINE q == From(es, second)
  <2> HIDE DEF q
  <2>5. next \in Inspector /\ next.pending = ins.pending /\ next.elementary = q
    BY <1>2, <1>5, <2>2, <2>4 DEF Inspector, q
  <2>6. Cardinality(Starts(q, 1)) < Cardinality(Starts(es, 1))
    <3> DEFINE T == Starts(es, 1) \ {first}
               f == [x \in Starts(q, 1) |-> x + second - 1]
    <3>1. IsFiniteSet(Starts(es, 1))
      <4>1. IsFiniteSet(1 .. Len(es))
        BY <1>1, FS_Interval
      <4>2. Starts(es, 1) \in SUBSET (1 .. Len(es))
        BY <1>1 DEF Starts
      <4> QED
        BY <4>1, <4>2, FS_Subset
    <3>2. IsFiniteSet(T) /\ Cardinality(T) = Cardinality(Starts(es, 1)) - 1
      BY <2>1, <3>1, FS_RemoveElement
    <3>3. ASSUME NEW x \in Starts(q, 1)
          PROVE  x + second - 1 \in T /\ x \in Nat
      <4>1. x \in 1 .. Len(q) - 2 /\ q[x] = 0 /\ q[x + 1] = 0 /\ q[x + 2] = 1
        BY DEF Starts
      <4>2. Len(q) = Len(es) - second + 1
        BY <2>2 DEF q
      <4>3. x \in Nat /\ x + second - 1 \in 1 .. Len(es) - 2 /\ x + second - 1 # first
        BY <1>1, <2>1, <4>1, <4>2
      <4>4. /\ x \in 1 .. Len(es) - second + 1 /\ x + 1 \in 1 .. Len(es) - second + 1
            /\ x + 2 \in 1 .. Len(es) - second + 1
        BY <1>1, <2>1, <4>1, <4>2
      <4>5. /\ q[x] = es[second + x - 1] /\ q[x + 1] = es[second + (x + 1) - 1]
            /\ q[x + 2] = es[second + (x + 2) - 1]
        BY <2>2, <4>4 DEF q
      <4>6. /\ second + x - 1 = x + second - 1 /\ second + (x + 1) - 1 = (x + second - 1) + 1
            /\ second + (x + 2) - 1 = (x + second - 1) + 2
        BY <2>1, <4>3
      <4>7. /\ es[x + second - 1] = 0 /\ es[(x + second - 1) + 1] = 0
            /\ es[(x + second - 1) + 2] = 1
        BY <4>1, <4>5, <4>6
      <4> QED
        BY <4>3, <4>7 DEF Starts
    <3>4. f \in Injection(Starts(q, 1), T)
      <4>1. f \in [Starts(q, 1) -> T]
        BY <3>3
      <4>2. \A x, y \in Starts(q, 1) : f[x] = f[y] => x = y
        BY <2>1, <3>3
      <4> QED
        BY <4>1, <4>2 DEF Injection, IsInjective
    <3>5. IsFiniteSet(Starts(q, 1)) /\ Cardinality(Starts(q, 1)) <= Cardinality(T)
      <4> HIDE DEF f, T
      <4> QED
        BY <3>2, <3>4, FS_Injection
    <3>6. Cardinality(Starts(q, 1)) \in Nat /\ Cardinality(Starts(es, 1)) \in Nat
      BY <3>1, <3>5, FS_CardinalityType
    <3> QED
      BY <3>2, <3>5, <3>6
  <2> QED
    BY <1>1, <2>1, <2>2, <2>5, <2>6 DEF es, q, next
<1>6. CASE second = 0
  <2>1. rest \in Seq(Byte) /\ Len(rest) <= Len(es)
    <3>1. PICK i : i = Max({1, first})
      OBVIOUS
    <3>2. i = IF 1 >= first THEN 1 ELSE first
      BY <1>3, <3>1, MaxOfTwo
    <3>3. i \in Nat \ {0}
      BY <1>3, <3>2
    <3>4. rest = From(es, i)
      BY <3>1 DEF rest
    <3>5. /\ From(es, i) \in Seq(Byte)
          /\ Len(From(es, i)) = IF i <= Len(es) THEN Len(es) - i + 1 ELSE 0
      BY <1>1, <3>3, FromIs
    <3> QED
      BY <1>1, <3>3, <3>4, <3>5
  <2> DEFINE q == IF Len(rest) > MaxParameterSet THEN <<>> ELSE rest
  <2>2. q \in Seq(Byte) /\ Len(q) <= Len(es) /\ Len(q) <= MaxParameterSet
    BY <1>1, <2>1, Limits
  <2> HIDE DEF q
  <2>3. next \in Inspector /\ next.pending = ins.pending /\ next.elementary = q
    BY <1>2, <1>6, <2>2 DEF Inspector, q
  <2> QED
    BY <2>2, <2>3 DEF es, next
<1> QED
  BY <1>5, <1>6

\* There are finitely many start codes.
LEMMA StartsFinite ==
    ASSUME NEW q \in Seq(Byte)
    PROVE  Cardinality(Starts(q, 1)) \in Nat
<1>1. IsFiniteSet(1 .. Len(q))
  <2>1. 1 \in Int /\ Len(q) \in Int
    OBVIOUS
  <2> QED
    BY <2>1, FS_Interval
<1>2. Starts(q, 1) \in SUBSET (1 .. Len(q))
  BY DEF Starts
<1>3. IsFiniteSet(Starts(q, 1))
  BY <1>1, <1>2, FS_Subset
<1> QED
  BY <1>3, FS_CardinalityType

\* The loop over the units leaves no more than there is room for: each turn but
\* the last takes a start code away.
LEMMA TakeUnitsIs ==
    ASSUME NEW ins \in Inspector
    PROVE  /\ TakeUnits(ins) \in Inspector /\ TakeUnits(ins).pending = ins.pending
           /\ Len(TakeUnits(ins).elementary) <= MaxParameterSet
<1> DEFINE left(x) == Cardinality(Starts(x.elementary, 1))
           T == {x \in Inspector : x.pending = ins.pending}
           step == [n \in Nat |-> [x \in T |-> TakeUnit(x)]]
           m == Turns(ins.elementary)
           taken == CHOOSE g : g = [n \in 0 .. m |-> IF n = 0 THEN ins ELSE TakeUnit(g[n - 1])]
<1>1. left(ins) \in Nat /\ m = left(ins) + 1
  BY StartsFinite DEF Turns, Inspector
<1>2. \A x \in T : /\ TakeUnit(x) \in T /\ left(x) \in Nat /\ left(TakeUnit(x)) \in Nat
                   /\ Len(x.elementary) \in Nat /\ Len(TakeUnit(x).elementary) \in Nat
  BY TakeUnitIs, StartsFinite, SMTT(30) DEF Inspector
<1>3. step \in [Nat -> [T -> T]] /\ ins \in T /\ m \in Nat
  BY <1>1, <1>2
<1> HIDE DEF step, m
<1>4. taken = [n \in 0 .. m |-> IF n = 0 THEN ins ELSE TakeUnit(taken[n - 1])]
  <2> HIDE DEF T
  <2>1. PICK f : Computes(f, T, ins, step, m)
    BY <1>3, RecursionTo
  <2>2. \A n \in 0 .. m : f[n] = IF n = 0 THEN ins ELSE TakeUnit(f[n - 1])
    <3>1. \A n \in 0 .. m : n # 0 => n - 1 \in 0 .. m /\ n \in Nat
      BY <1>3
    <3>2. \A n \in 0 .. m : n # 0 => step[n][f[n - 1]] = TakeUnit(f[n - 1])
      BY <2>1, <3>1 DEF step, Computes
    <3> QED
      BY <2>1, <3>2 DEF Computes
  <2> DEFINE h == [n \in 0 .. m |-> IF n = 0 THEN ins ELSE TakeUnit(f[n - 1])]
  <2>3. f = h
    <3>1. f = [n \in 0 .. m |-> f[n]] /\ h = [n \in 0 .. m |-> h[n]]
      BY <2>1 DEF Computes
    <3>2. \A n \in 0 .. m : f[n] = h[n]
      BY <2>2
    <3> HIDE DEF h
    <3> QED
      BY <3>1, <3>2
  <2> QED
    BY <2>3
<1>5. TakeUnits(ins) = taken[m]
  BY DEF TakeUnits, m
<1> HIDE DEF taken
<1> DEFINE S == {n \in Nat : n <= m =>
                    /\ taken[n] \in T
                    /\ \/ Len(taken[n].elementary) <= MaxParameterSet
                       \/ left(taken[n]) + n <= left(ins)}
<1>6. 0 \in S
  <2>1. taken[0] = ins
    BY <1>3, <1>4
  <2> QED
    BY <1>1, <1>3, <2>1
<1>7. ASSUME NEW n \in Nat, n \in S
      PROVE  n + 1 \in S
  <2> SUFFICES ASSUME n + 1 <= m
               PROVE  /\ taken[n + 1] \in T
                      /\ \/ Len(taken[n + 1].elementary) <= MaxParameterSet
                         \/ left(taken[n + 1]) + (n + 1) <= left(ins)
    OBVIOUS
  <2>1. taken[n + 1] = TakeUnit(taken[n])
    BY <1>3, <1>4
  <2>2. PICK x : x = taken[n]
    OBVIOUS
  <2>3. x \in T /\ (Len(x.elementary) <= MaxParameterSet \/ left(x) + n <= left(ins))
    BY <1>3, <1>7, <2>2
  <2>4. /\ Len(TakeUnit(x).elementary) <= Len(x.elementary)
        /\ \/ Len(TakeUnit(x).elementary) <= MaxParameterSet
           \/ left(TakeUnit(x)) < left(x)
    BY <2>3, TakeUnitIs
  <2> HIDE DEF T, left
  <2> QED
    BY <1>1, <1>2, <2>1, <2>2, <2>3, <2>4, Limits, SMTT(30)
<1>8. m \in S
  <2> HIDE DEF S
  <2> QED
    BY <1>3, <1>6, <1>7, Induction
<1>9. taken[m] \in T /\ Len(taken[m].elementary) <= MaxParameterSet
  <2>1. taken[m] \in T /\ (Len(taken[m].elementary) <= MaxParameterSet
                            \/ left(taken[m]) + m <= left(ins))
    BY <1>3, <1>8
  <2>2. left(taken[m]) \in Nat
    BY <1>2, <2>1
  <2> HIDE DEF T, left
  <2> QED
    BY <1>1, <2>1, <2>2
<1> QED
  BY <1>5, <1>9

\* A start code of the system layer is looked for, or the end.
LEMMA NextSystemStartIs ==
    ASSUME NEW q \in Seq(Byte)
    PROVE  NextSystemStart(q, 7) \in Nat \ {0}
<1> DEFINE ends == {i \in Starts(q, 7) : i + 3 <= Len(q)
                                        /\ q[i + 3] \in Sized \cup {Pack, ProgramEnd}}
                   \cup {Len(q) + 2}
<1>1. Starts(q, 7) \in SUBSET (Nat \ {0})
  BY FindIs
<1>2. ends \in SUBSET (Nat \ {0}) /\ ends # {}
  <2>1. Len(q) + 2 \in Nat \ {0}
    OBVIOUS
  <2> QED
    BY <1>1, <2>1
<1>3. NextSystemStart(q, 7) = Min(ends)
  BY DEF NextSystemStart
<1> HIDE DEF ends
<1>4. ends \in SUBSET Nat
  BY <1>2
<1> QED
  BY <1>2, <1>3, <1>4, MinOfNumbers

\* The size of an element is a number.
LEMMA SizeIs ==
    ASSUME NEW q \in Seq(Byte), Len(q) >= 4
    PROVE  Size(q) \in Nat
<1>1. PackSize(q) \in Nat
  <2>1. ASSUME Len(q) >= 14 PROVE 14 + (q[14] % 8) \in Nat
    <3>1. q[14] \in Byte
      BY <2>1
    <3>2. \A b \in Byte : 14 + (b % 8) \in Nat
      BY DEF Byte
    <3> QED
      BY <3>1, <3>2
  <2> QED
    BY <2>1 DEF PackSize
<1>2. PesSize(q) \in Nat
  <2>1. NextSystemStart(q, 7) - 1 \in Nat
    BY NextSystemStartIs
  <2>2. ASSUME Len(q) >= 6 PROVE 6 + q[5] * 256 + q[6] \in Nat
    <3>1. q[5] \in Byte /\ q[6] \in Byte
      BY <2>2
    <3>2. \A b, c \in Byte : 6 + b * 256 + c \in Nat
      BY DEF Byte
    <3> QED
      BY <3>1, <3>2, ZenonT(30)
  <2> QED
    BY <2>1, <2>2 DEF PesSize
<1>3. Size(q) \in {PackSize(q), PesSize(q), 4}
  BY Zenon DEF Size
<1> QED
  BY <1>1, <1>2, <1>3

\* An element of the system layer leaves what was pending, and no more of the
\* elementary stream than there is room for.
LEMMA ElementIs ==
    ASSUME NEW ins \in Bounded, NEW data \in Seq(Byte), NEW size \in Nat,
           Len(data) >= 4, size <= Len(data)
    PROVE  Element(ins, data, size) \in Bounded
<1> DEFINE front == SubSeq(data, 1, size)
           payload == PesPayload(front)
           packed == [ins EXCEPT !.pack = front]
           seen == [ins EXCEPT !.id = data[4], !.elementary = ins.elementary \o payload]
           video_ == IF payload = <<>> THEN seen ELSE TakeUnits(seen)
<1>1. front \in Seq(Byte)
  <2>1. \A i \in 1 .. size : data[i] \in Byte
    OBVIOUS
  <2> QED
    BY <2>1, SubSeqProperties
<1>2. payload \in Seq(Byte)
  BY <1>1, PesPayloadIs
<1>3. Element(ins, data, size) \in {packed, video_, ins}
  BY Zenon DEF Element
<1> HIDE DEF front, payload
<1>4. packed \in Bounded
  BY <1>1 DEF Bounded, Inspector
<1>5. seen \in Inspector /\ seen.pending = ins.pending
      /\ seen.elementary = ins.elementary \o payload
  <2>1. data[4] \in Nat
    <3>1. 4 \in 1 .. Len(data)
      OBVIOUS
    <3>2. data[4] \in Byte
      BY <3>1
    <3>3. \A b \in Byte : b \in Nat
      BY DEF Byte
    <3> QED
      BY <3>2, <3>3
  <2>2. ins.elementary \o payload \in Seq(Byte)
    BY <1>2 DEF Bounded, Inspector
  <2> QED
    BY <2>1, <2>2 DEF Bounded, Inspector
<1>6. video_ \in Bounded
  <2>1. CASE payload = <<>>
    <3>1. ins.elementary \o payload = ins.elementary
      BY <2>1 DEF Bounded, Inspector
    <3> QED
      BY <1>5, <2>1, <3>1 DEF Bounded
  <2>2. CASE payload # <<>>
    <3> HIDE DEF seen
    <3> QED
      BY <1>5, <2>2, TakeUnitsIs DEF Bounded
  <2> QED
    BY <2>1, <2>2
<1> QED
  BY <1>3, <1>4, <1>6

\* One turn of the loop over the elements.
LEMMA ParseElementIs ==
    ASSUME NEW ins \in Bounded
    PROVE  ParseElement(ins) \in Bounded
<1> DEFINE start == Find(ins.pending, 1)
           data == From(ins.pending, start)
           kept == [ins EXCEPT !.pending = KeptTail(ins.pending)]
           waits == [ins EXCEPT !.pending = data]
           goes == [Element(ins, data, Size(data)) EXCEPT
                        !.pending = From(data, Size(data) + 1)]
<1>0. ins \in Inspector /\ ins.pending \in Seq(Byte) /\ Len(ins.pending) \in Nat
      /\ Len(ins.pending) <= MaxPending /\ Len(ins.elementary) <= MaxParameterSet
  BY DEF Bounded, Inspector
<1>1. ParseElement(ins) = IF start = 0 THEN kept
                          ELSE IF Len(data) < 4 \/ Size(data) > Len(data) THEN waits ELSE goes
  BY DEF ParseElement
<1>2. start \in Nat
  BY <1>0, FindIs
<1> HIDE DEF start
<1>3. kept \in Bounded
  <2> DEFINE q == KeptTail(ins.pending)
  <2>1. q \in Seq(Byte) /\ Len(q) <= Len(ins.pending)
    BY <1>0, LastBytesIs DEF KeptTail
  <2> HIDE DEF q
  <2>2. Len(q) <= MaxPending
    BY <1>0, <2>1, Limits
  <2>3. kept = [ins EXCEPT !.pending = q]
    BY DEF q
  <2> QED
    BY <1>0, <2>1, <2>2, <2>3 DEF Bounded, Inspector
<1>4. ASSUME start # 0 PROVE data \in Seq(Byte) /\ Len(data) <= MaxPending /\ Len(data) \in Nat
  <2>1. start \in Nat \ {0}
    BY <1>2, <1>4
  <2>2. /\ data \in Seq(Byte)
        /\ Len(data) = IF start <= Len(ins.pending) THEN Len(ins.pending) - start + 1 ELSE 0
    BY <1>0, <2>1, FromIs
  <2> HIDE DEF data
  <2> QED
    BY <1>0, <2>1, <2>2, Limits
<1> HIDE DEF data
<1>5. ASSUME start # 0 PROVE waits \in Bounded
  BY <1>0, <1>4, <1>5 DEF Bounded, Inspector
<1>6. ASSUME start # 0, ~(Len(data) < 4 \/ Size(data) > Len(data)) PROVE goes \in Bounded
  <2>1. data \in Seq(Byte) /\ Len(data) <= MaxPending /\ Len(data) \in Nat /\ Len(data) >= 4
    BY <1>4, <1>6
  <2>2. Size(data) \in Nat /\ Size(data) <= Len(data)
    BY <1>6, <2>1, SizeIs
  <2>3. PICK next \in Bounded : next = Element(ins, data, Size(data))
    BY <2>1, <2>2, ElementIs
  <2>4. PICK n \in Nat \ {0} : n = Size(data) + 1
    BY <2>2
  <2>5. /\ From(data, n) \in Seq(Byte)
        /\ Len(From(data, n)) = IF n <= Len(data) THEN Len(data) - n + 1 ELSE 0
    BY <2>1, FromIs
  <2>6. Len(From(data, n)) <= MaxPending
    BY <2>1, <2>5, Limits
  <2>7. goes = [next EXCEPT !.pending = From(data, n)]
    BY <2>3, <2>4
  <2> QED
    BY <2>3, <2>5, <2>6, <2>7 DEF Bounded, Inspector
<1> QED
  BY <1>1, <1>3, <1>5, <1>6

\* The loop over the elements keeps to the bounds.
LEMMA ParseIs ==
    ASSUME NEW ins \in Bounded
    PROVE  Parse(ins) \in Bounded
<1> DEFINE step == [n \in Nat |-> [x \in Bounded |-> ParseElement(x)]]
           m == Turns(ins.pending)
           parsed == CHOOSE g :
               g = [n \in 0 .. m |-> IF n = 0 THEN ins ELSE ParseElement(g[n - 1])]
<1>1. m \in Nat
  BY StartsFinite DEF Turns, Bounded, Inspector
<1>2. step \in [Nat -> [Bounded -> Bounded]]
  BY ParseElementIs
<1> HIDE DEF step, m
<1>3. parsed = [n \in 0 .. m |-> IF n = 0 THEN ins ELSE ParseElement(parsed[n - 1])]
  <2>1. PICK f : Computes(f, Bounded, ins, step, m)
    BY <1>1, <1>2, RecursionTo
  <2>2. \A n \in 0 .. m : f[n] = IF n = 0 THEN ins ELSE ParseElement(f[n - 1])
    <3>1. \A n \in 0 .. m : n # 0 => n - 1 \in 0 .. m /\ n \in Nat
      BY <1>1
    <3>2. \A n \in 0 .. m : n # 0 => step[n][f[n - 1]] = ParseElement(f[n - 1])
      BY <2>1, <3>1 DEF step, Computes
    <3> QED
      BY <2>1, <3>2 DEF Computes
  <2> DEFINE h == [n \in 0 .. m |-> IF n = 0 THEN ins ELSE ParseElement(f[n - 1])]
  <2>3. f = h
    <3>1. f = [n \in 0 .. m |-> f[n]] /\ h = [n \in 0 .. m |-> h[n]]
      BY <2>1 DEF Computes
    <3>2. \A n \in 0 .. m : f[n] = h[n]
      BY <2>2
    <3> HIDE DEF h
    <3> QED
      BY <3>1, <3>2
  <2> QED
    BY <2>3
<1>4. Parse(ins) = parsed[m]
  BY DEF Parse, m
<1> HIDE DEF parsed
<1> DEFINE S == {n \in Nat : n <= m => parsed[n] \in Bounded}
<1>5. 0 \in S
  BY <1>1, <1>3
<1>6. ASSUME NEW n \in Nat, n \in S
      PROVE  n + 1 \in S
  <2> SUFFICES ASSUME n + 1 <= m PROVE parsed[n + 1] \in Bounded
    OBVIOUS
  <2>1. parsed[n + 1] = ParseElement(parsed[n]) /\ parsed[n] \in Bounded
    BY <1>1, <1>3, <1>6
  <2> QED
    BY <2>1, ParseElementIs
<1>7. m \in S
  <2> HIDE DEF S
  <2> QED
    BY <1>1, <1>5, <1>6, Induction
<1> QED
  BY <1>1, <1>4, <1>7

\* feed() keeps to the bounds, whatever the packet holds.
LEMMA FeedIs ==
    ASSUME NEW ins \in Bounded, NEW packet \in Seq(Byte)
    PROVE  Feed(ins, packet) \in Bounded
<1> DEFINE all == ins.pending \o packet
           last == LastBytes(all, 4)
           short == [ins EXCEPT !.pending = last, !.elementary = <<>>]
           longer == [ins EXCEPT !.pending = all]
<1>1. all \in Seq(Byte) /\ ins \in Inspector /\ Len(ins.elementary) <= MaxParameterSet
  BY DEF Bounded, Inspector
<1>2. Feed(ins, packet) = Parse(IF Len(all) > MaxPending THEN short ELSE longer)
  BY DEF Feed
<1> HIDE DEF all
<1>3. last \in Seq(Byte) /\ Len(last) <= MaxPending
  <2>1. last \in Seq(Byte) /\ Len(last) <= 4
    BY <1>1, LastBytesIs
  <2> HIDE DEF last
  <2>2. Len(last) \in Nat
    BY <2>1
  <2> QED
    BY <2>1, <2>2, Limits
<1> HIDE DEF last
<1>4. short \in Bounded
  <2>1. Len(<<>>) <= MaxParameterSet
    BY Limits
  <2>2. <<>> \in Seq(Byte)
    OBVIOUS
  <2> QED
    BY <1>1, <1>3, <2>1, <2>2 DEF Bounded, Inspector
<1>5. ASSUME ~(Len(all) > MaxPending) PROVE longer \in Bounded
  <2>1. Len(all) \in Nat
    BY <1>1
  <2>2. Len(all) <= MaxPending
    BY <1>5, <2>1, Limits
  <2> QED
    BY <1>1, <2>2 DEF Bounded, Inspector
<1> HIDE DEF short, longer
<1> QED
  BY <1>2, <1>4, <1>5, ParseIs

\* A new inspector has nothing.
LEMMA NewInspectorIs == NewInspector \in Bounded
<1>1. NewInspector \in Inspector
  <2>1. <<>> \in Seq(Byte) /\ NoId \in Nat
    BY DEF NoId
  <2>2. [t \in ToSet(SetTypes) |-> <<>>] \in [ToSet(SetTypes) -> Seq(Seq(Byte))]
    OBVIOUS
  <2> QED
    BY <2>1, <2>2 DEF NewInspector, Inspector
<1>2. NewInspector.pending = <<>> /\ NewInspector.elementary = <<>>
  BY DEF NewInspector
<1> QED
  BY <1>1, <1>2, Limits DEF Bounded

\* What it makes of the leading packets keeps to the bounds too.
LEMMA InspectIs ==
    ASSUME NEW spans \in Seq(Span), \A i \in 1 .. Len(spans) : Packet(spans[i]).data \in Seq(Byte)
    PROVE  Inspect(spans) \in Bounded
<1> DEFINE m == Len(spans)
           data(n) == IF n \in 1 .. m THEN Packet(spans[n]).data ELSE <<>>
           step == [n \in Nat |-> [x \in Bounded |-> Feed(x, data(n))]]
           seen == CHOOSE g : g = [n \in 0 .. m |->
               IF n = 0 THEN NewInspector ELSE Feed(g[n - 1], Packet(spans[n]).data)]
<1>1. m \in Nat
  OBVIOUS
<1>2. step \in [Nat -> [Bounded -> Bounded]]
  <2>1. \A n \in Nat : data(n) \in Seq(Byte)
    OBVIOUS
  <2> HIDE DEF data
  <2> QED
    BY <2>1, FeedIs
<1> HIDE DEF step, m
<1>3. seen = [n \in 0 .. m |->
                  IF n = 0 THEN NewInspector ELSE Feed(seen[n - 1], Packet(spans[n]).data)]
  <2>1. PICK f : Computes(f, Bounded, NewInspector, step, m)
    BY <1>1, <1>2, NewInspectorIs, RecursionTo
  <2>2. \A n \in 0 .. m :
            f[n] = IF n = 0 THEN NewInspector ELSE Feed(f[n - 1], Packet(spans[n]).data)
    <3>1. \A n \in 0 .. m : n # 0 => n - 1 \in 0 .. m /\ n \in 1 .. m /\ n \in Nat
      BY <1>1
    <3>2. \A n \in 0 .. m :
              n # 0 => step[n][f[n - 1]] = Feed(f[n - 1], Packet(spans[n]).data)
      BY <2>1, <3>1 DEF step, Computes
    <3> QED
      BY <2>1, <3>2 DEF Computes
  <2> DEFINE h == [n \in 0 .. m |->
                      IF n = 0 THEN NewInspector ELSE Feed(f[n - 1], Packet(spans[n]).data)]
  <2>3. f = h
    <3>1. f = [n \in 0 .. m |-> f[n]] /\ h = [n \in 0 .. m |-> h[n]]
      BY <2>1 DEF Computes
    <3>2. \A n \in 0 .. m : f[n] = h[n]
      BY <2>2
    <3> HIDE DEF h
    <3> QED
      BY <3>1, <3>2
  <2> QED
    BY <2>3
<1>4. Inspect(spans) = seen[m]
  BY DEF Inspect, m
<1> HIDE DEF seen
<1> DEFINE S == {n \in Nat : n <= m => seen[n] \in Bounded}
<1>5. 0 \in S
  BY <1>1, <1>3, NewInspectorIs
<1>6. ASSUME NEW n \in Nat, n \in S
      PROVE  n + 1 \in S
  <2> SUFFICES ASSUME n + 1 <= m PROVE seen[n + 1] \in Bounded
    OBVIOUS
  <2>1. n + 1 \in 0 .. m /\ n + 1 # 0 /\ (n + 1) - 1 = n /\ n + 1 \in 1 .. m
    BY <1>1
  <2>2. seen[n + 1] = Feed(seen[n], Packet(spans[n + 1]).data) /\ seen[n] \in Bounded
    BY <1>1, <1>3, <1>6, <2>1
  <2>3. Packet(spans[n + 1]).data \in Seq(Byte)
    BY <2>1 DEF m
  <2> QED
    BY <2>2, <2>3, FeedIs
<1>7. m \in S
  <2> HIDE DEF S
  <2> QED
    BY <1>1, <1>5, <1>6, Induction
<1> QED
  BY <1>1, <1>4, <1>7
-----------------------------------------------------------------------------
(* All steps.                                                               *)

\* Nothing is read at first.
LEMMA InitIInv == Init => IInv
<1> SUFFICES ASSUME Init PROVE IInv
  OBVIOUS
<1>1. /\ camera \in Cameras /\ rtpCache = <<>>
      /\ pc = [s \in Sessions |-> "idle"] /\ joined = [s \in Sessions |-> 1]
      /\ pos = [s \in Sessions |-> 1] /\ plan = [s \in Sessions |-> NewPlan]
      /\ replayed = [s \in Sessions |-> 0] /\ givenUp = [s \in Sessions |-> FALSE]
      /\ video = [s \in Sessions |-> <<>>] /\ audio = [s \in Sessions |-> <<>>]
      /\ frames = [s \in Sessions |-> <<>>]
  BY DEF Init
<1>2. Types
  <2>1. \A s \in Sessions : IsPlan(plan[s]) /\ plan[s].packets \in Seq(Span)
    BY <1>1, NewPlanIs, Empty
  <2>2. /\ pc \in [Sessions -> Labels] /\ joined \in [Sessions -> Nat \ {0}]
        /\ pos \in [Sessions -> Nat \ {0}] /\ replayed \in [Sessions -> Nat]
        /\ video \in [Sessions -> Seq(Span)] /\ audio \in [Sessions -> Seq(Span)]
        /\ frames \in [Sessions -> Seq(Frame)] /\ DOMAIN plan = Sessions
        /\ givenUp \in [Sessions -> BOOLEAN]
    BY <1>1, Empty DEF Labels
  <2> QED
    BY <1>1, <2>1, <2>2 DEF Types
<1>3. ASSUME NEW s \in Sessions
      PROVE  SessionInv(s)
  <2>1. /\ pc[s] = "idle" /\ joined[s] = 1 /\ pos[s] = 1 /\ plan[s] = NewPlan
        /\ replayed[s] = 0 /\ video[s] = <<>> /\ audio[s] = <<>> /\ frames[s] = <<>>
    BY <1>1
  <2>2. /\ plan[s].packets = <<>> /\ plan[s].codec = NoCodec
        /\ plan[s].transport = "UNKNOWN" /\ plan[s].audio = NoType
        /\ plan[s].channels = NoChannels
    BY <2>1, NewPlanIs
  <2>3. Keeps(s)
    BY <2>1, <2>2, Empty, Numbers DEF Keeps
  <2>4. HandsOn(s)
    BY <2>1, Empty DEF HandsOn
  <2>5. Decided(s)
    BY <2>1, <2>2 DEF Decided, PlanTold
  <2>6. Sounds(s)
    BY <2>1, <2>2, Empty DEF Sounds, SoundPlan
  <2> QED
    BY <2>3, <2>4, <2>5, <2>6 DEF SessionInv
<1>4. CacheTold
  BY <1>1 DEF CacheTold
<1> QED
  BY <1>2, <1>3, <1>4 DEF IInv

\* And each step keeps what was so.
LEMMA NextIInv == IInv /\ [Next]_vars => IInv'
<1> SUFFICES ASSUME IInv, [Next]_vars PROVE IInv'
  OBVIOUS
<1>1. CASE UNCHANGED vars
  <2>1. /\ camera' = camera /\ rtpCache' = rtpCache
        /\ pc' = pc /\ joined' = joined /\ pos' = pos /\ plan' = plan
        /\ replayed' = replayed /\ video' = video /\ audio' = audio /\ frames' = frames
        /\ givenUp' = givenUp
    BY <1>1 DEF vars, fixedVars, cacheVars, readVars, outVars, sinkVars
  <2>2. Sessions' = Sessions
    BY DEF Sessions
  <2>3. Types' /\ CacheTold'
    BY <2>1, <2>2 DEF IInv, Types, CacheTold, IsPlan, IsRtp
  <2>4. \A s \in Sessions : SessionInv(s)'
    BY <2>1, Resting DEF IInv, Rests
  <2> QED
    BY <2>2, <2>3, <2>4 DEF IInv
<1>2. ASSUME NEW s \in Sessions,
             \/ Open(s) \/ Arrives(s) \/ Encrypted(s) \/ ReadEnds(s) \/ ReadFails(s) \/ Abort(s)
             \/ Decide(s) \/ Deadline(s) \/ Pump(s)
      PROVE  IInv'
  <2>1. CASE Open(s)
    BY <2>1, OpenKeeps
  <2>2. CASE ReadPrefix(s)
    BY <2>2, ReadPrefixKeeps
  <2>3. CASE ReadWindow(s)
    BY <2>3, ReadWindowKeeps
  <2>4. CASE \/ KeepAlive(s) \/ ReadEnds(s) \/ Abort(s) \/ Deadline(s) \/ DecideAborted(s)
    BY <2>4, WaitingKeeps
  <2>5. CASE Encrypted(s) \/ ReadFails(s) \/ End(s)
    <3>1. Over(s)
      BY <2>5 DEF Encrypted, ReadFails, End
    <3> QED
      BY <3>1, OverKeeps
  <2>6. CASE DecideRtp(s)
    BY <2>6, DecideRtpKeeps
  <2>7. CASE DecidePs(s) \/ DecideOther(s)
    BY <2>7, DecideOtherKeeps
  <2>8. CASE StartPump(s)
    BY <2>8, StartPumpKeeps
  <2>9. CASE Replay(s)
    BY <2>9, ReplayKeeps
  <2>10. CASE ReplayDone(s)
    BY <2>10, ReplayDoneKeeps
  <2>11. CASE Live(s)
    BY <2>11, LiveKeeps
  <2>12. CASE GiveUpAudio(s)
    BY <2>12, GiveUpAudioKeeps
  <2> QED
    BY <1>2, <2>1, <2>2, <2>3, <2>4, <2>5, <2>6, <2>7, <2>8, <2>9, <2>10, <2>11, <2>12
       DEF Arrives, Decide, Pump
<1> QED
  BY <1>1, <1>2 DEF Next

\* The inspector of every session keeps to the bounds.
Inspecting == inspector \in [Sessions -> Bounded]

\* It does at first.
LEMMA InitInspecting == Init => Inspecting
BY NewInspectorIs DEF Init, Inspecting

\* And after every step: what a container's packets hold are bytes.
LEMMA NextInspecting ==
    ASSUME IInv, Inspecting, [Next]_vars
    PROVE  Inspecting'
<1>0. Sessions' = Sessions
  BY DEF Sessions
<1>1. CASE UNCHANGED inspector
  BY <1>0, <1>1 DEF Inspecting
<1>2. ASSUME NEW s \in Sessions, Over(s)
      PROVE  Inspecting'
  BY <1>0, <1>2, NewInspectorIs DEF Over, Inspecting
<1>3. ASSUME NEW s \in Sessions, plan[s].transport = "MPEG_PS"
      PROVE  ~IsRtp
  BY <1>3 DEF IInv, SessionInv, Decided, PlanTold
<1>4. ASSUME NEW s \in Sessions, StartPump(s)
      PROVE  Inspecting'
  <2>1. CASE plan[s].transport = "MPEG_PS"
    <3>1. /\ plan[s].packets \in Seq(Span)
          /\ \A i \in DOMAIN plan[s].packets : OfCamera(plan[s].packets[i])
      BY DEF IInv, Types, SessionInv, Keeps
    <3>2. \A i \in 1 .. Len(plan[s].packets) : Packet(plan[s].packets[i]).data \in Seq(Byte)
      BY <1>3, <2>1, <3>1 DEF OfCamera
    <3>3. Inspect(plan[s].packets) \in Bounded
      BY <3>1, <3>2, InspectIs
    <3>4. inspector' = [inspector EXCEPT ![s] = Inspect(plan[s].packets)]
      BY <1>4, <2>1 DEF StartPump
    <3> QED
      BY <1>0, <3>3, <3>4 DEF Inspecting
  <2>2. CASE plan[s].transport # "MPEG_PS"
    BY <1>1, <1>4, <2>2 DEF StartPump
  <2> QED
    BY <2>1, <2>2
<1>5. ASSUME NEW s \in Sessions, Live(s)
      PROVE  Inspecting'
  <2>1. PICK span \in Next_(s) : Observe(s, Packet(span).data)
    BY <1>5 DEF Live
  <2>2. CASE plan[s].transport = "MPEG_PS"
    <3>1. Packet(span).data \in Seq(Byte)
      BY <1>3, <2>2, NextPacket DEF OfCamera, IInv
    <3>2. inspector[s] \in Bounded
      BY DEF Inspecting
    <3>3. Feed(inspector[s], Packet(span).data) \in Bounded
      BY <3>1, <3>2, FeedIs
    <3>4. inspector' = [inspector EXCEPT ![s] = Feed(inspector[s], Packet(span).data)]
      BY <2>1, <2>2 DEF Observe
    <3> QED
      BY <1>0, <3>3, <3>4 DEF Inspecting
  <2>3. CASE plan[s].transport # "MPEG_PS"
    BY <1>1, <2>1, <2>3 DEF Observe
  <2> QED
    BY <2>2, <2>3
<1>6. ASSUME NEW s \in Sessions,
             \/ Open(s) \/ Arrives(s) \/ ReadEnds(s) \/ Abort(s) \/ Deadline(s)
             \/ Decide(s) \/ Replay(s) \/ ReplayDone(s) \/ GiveUpAudio(s)
      PROVE  Inspecting'
  <2>1. UNCHANGED inspector
    <3>1. CASE Open(s) \/ Arrives(s) \/ ReadEnds(s) \/ Abort(s) \/ Deadline(s)
      BY <3>1 DEF Open, Arrives, ReadPrefix, ReadWindow, KeepAlive, ReadEnds, Abort, Deadline,
                  outVars
    <3>2. CASE Decide(s)
      BY <3>2 DEF Decide, DecideAborted, DecideRtp, DecidePs, DecideOther, Decides, outVars
    <3>3. CASE Replay(s) \/ ReplayDone(s) \/ GiveUpAudio(s)
      BY <3>3 DEF Replay, ReplayDone, GiveUpAudio
    <3> QED
      BY <1>6, <3>1, <3>2, <3>3
  <2> QED
    BY <1>1, <2>1
<1>7. CASE UNCHANGED vars
  BY <1>1, <1>7 DEF vars, outVars
<1>8. ASSUME NEW s \in Sessions, Encrypted(s) \/ ReadFails(s) \/ End(s)
      PROVE  Inspecting'
  BY <1>2, <1>8 DEF Encrypted, ReadFails, End
<1> QED
  BY <1>4, <1>5, <1>6, <1>7, <1>8 DEF Next, Pump

\* What is proved by induction always holds.
THEOREM Invariance == Spec => []IInv
BY InitIInv, NextIInv, PTL DEF Spec

\* Every session keeps no more packets than the prefix and the window have room
\* for, its inspector no more bytes than its two bounds, whatever the packets
\* hold and however they are cut, and its plan names what there is.
THEOREM TypeCorrect == Spec => []TypeOK
<1>1. Init => IInv /\ Inspecting
  BY InitIInv, InitInspecting
<1>2. IInv /\ Inspecting /\ [Next]_vars => (IInv /\ Inspecting)'
  BY NextIInv, NextInspecting
<1>3. IInv /\ Inspecting => TypeOK
  <2> SUFFICES ASSUME IInv, Inspecting
               PROVE  TypeOK
    OBVIOUS
  <2>1. rtpCache = <<>> \/ rtpCache[1].codec \in {H264, HEVC}
    BY DEF IInv, CacheTold
  <2>2. ASSUME NEW s \in Sessions
        PROVE  /\ pc[s] \in Labels
               /\ plan[s].transport \in {"UNKNOWN", "RTP", "MPEG_PS", "MPEG_TS"}
               /\ plan[s].channels # NoChannels => plan[s].audio # NoType
               /\ Len(plan[s].packets) <= PrefixPackets + WindowPackets
    BY DEF IInv, Types, SessionInv, Keeps, Decided, PlanTold, Sounds, SoundPlan
  <2>3. \A s \in Sessions : /\ Len(inspector[s].pending) <= MaxPending
                            /\ Len(inspector[s].elementary) <= MaxParameterSet
    BY DEF Inspecting, Bounded
  <2> QED
    BY <2>1, <2>2, <2>3 DEF TypeOK, Labels
<1> QED
  BY <1>1, <1>2, <1>3, PTL DEF Spec

\* Every packet of the video's type that a session has read goes to its
\* depacketizer once and in order, and every packet of the audio's to the
\* other's at most once, and once unless the audio is given up, however many are
\* read before the pump, in the window and after, and wherever the session
\* joined.
THEOREM HandedOnOnce == Spec => []EveryPacketOnce
<1>1. IInv => EveryPacketOnce
  BY DEF IInv, SessionInv, HandsOn, OfVideo, OfAudio, ReadSince, EveryPacketOnce
<1> QED
  BY <1>1, Invariance, PTL

\* The codec that a session works with, its own or the cached one, is the
\* camera's, whatever units the packets hold.
THEOREM CodecIsTold == Spec => []CodecIsTheStreams
<1>1. IInv => CodecIsTheStreams
  BY DEF IInv, SessionInv, Decided, PlanTold, CodecIsTheStreams
<1> QED
  BY <1>1, Invariance, PTL

\* An audio input is opened only for the camera's audio and with a frame of it,
\* and every frame's header leads to the next one.
THEOREM AudioIsPlayed == Spec => []AudioPlays
<1>1. ASSUME IInv
      PROVE  AudioPlays
  <2> SUFFICES ASSUME NEW s \in Sessions, plan[s].audio # NoType
               PROVE  /\ plan[s].audio = camera.audio
                      /\ pc[s] = "live" => frames[s] # <<>> \/ givenUp[s]
                      /\ \A i \in DOMAIN frames[s] :
                            LET h == frames[s][i].header
                            IN /\ \A k \in DOMAIN h : h[k] \in 0 .. 255
                               /\ h[1] = 255 /\ h[2] \div 16 = 15
                               /\ (h[4] % 4) * 2048 + h[5] * 8 + (h[6] \div 32)
                                   = frames[s][i].unit.size + 7
                               /\ h[3] \div 64 = 1 /\ (h[3] \div 4) % 16 = 8
                               /\ (h[3] % 2) * 4 + (h[4] \div 64)
                                   = IF plan[s].channels = NoChannels THEN 1 ELSE camera.channels
    BY ZenonT(30) DEF AudioPlays
  <2>1. Sounds(s) /\ SoundPlan(plan[s]) /\ frames[s] \in Seq(Frame)
    BY <1>1 DEF IInv, SessionInv, Sounds, Types
  <2>2. /\ plan[s].audio = camera.audio
        /\ plan[s].channels \in {NoChannels, camera.channels} \cap (0 .. 2)
    BY <2>1 DEF SoundPlan
  <2>3. PICK channels \in 0 .. 7 :
            /\ channels = IF plan[s].channels = NoChannels THEN 1 ELSE camera.channels
            /\ AudioConfig(plan[s]) = SetChannels(AAC_LC_16K_MONO, channels)
    <3>1. CASE plan[s].channels = NoChannels
      <4>1. 5128 - 8 * ((5128 \div 8) % 8) + 8 * (1 % 8) = 5128
        OBVIOUS
      <4>2. AudioConfig(plan[s]) = SetChannels(AAC_LC_16K_MONO, 1)
        BY <3>1, <4>1 DEF AudioConfig, SetChannels, AAC_LC_16K_MONO
      <4> WITNESS 1 \in 0 .. 7
      <4> QED
        BY <3>1, <4>2
    <3>2. CASE plan[s].channels # NoChannels
      <4>1. plan[s].channels \in 0 .. 7 /\ plan[s].channels = camera.channels
        BY <2>2, <3>2
      <4>2. AudioConfig(plan[s]) = SetChannels(AAC_LC_16K_MONO, plan[s].channels)
        BY <3>2 DEF AudioConfig
      <4> QED
        BY <3>2, <4>1, <4>2
    <3> QED
      BY <3>1, <3>2
  <2>4. ASSUME NEW i \in DOMAIN frames[s], NEW h, h = frames[s][i].header
        PROVE  /\ \A k \in DOMAIN h : h[k] \in Byte
               /\ h[1] = 255 /\ h[2] \div 16 = 15
               /\ (h[4] % 4) * 2048 + h[5] * 8 + (h[6] \div 32) = frames[s][i].unit.size + 7
               /\ h[3] \div 64 = 1 /\ (h[3] \div 4) % 16 = 8
               /\ (h[3] % 2) * 4 + (h[4] \div 64) = channels
    <3>1. PICK unit, size : unit = frames[s][i].unit /\ size = unit.size
      OBVIOUS
    <3>2. size \in 0 .. MaxAu
      <4>1. frames[s][i] \in Frame
        BY <2>1
      <4>2. unit \in Fitting
        BY <3>1, <4>1 DEF Frame
      <4> QED
        BY <3>1, <4>2 DEF Fitting
    <3>3. PICK config : config = SetChannels(AAC_LC_16K_MONO, channels)
      OBVIOUS
    <3>4. h = AdtsHeader(unit, config)
      BY <2>1, <2>3, <2>4, <3>1, <3>3 DEF Sounds
    <3>5. /\ \A k \in DOMAIN h : h[k] \in Byte
          /\ h[1] = 255 /\ h[2] \div 16 = 15
          /\ (h[4] % 4) * 2048 + h[5] * 8 + (h[6] \div 32) = size + 7
          /\ h[3] \div 64 = 1 /\ (h[3] \div 4) % 16 = 8
          /\ (h[3] % 2) * 4 + (h[4] \div 64) = channels
      BY <3>1, <3>2, <3>3, <3>4, HeaderReadsBack, SMTT(30)
    <3> QED
      BY <3>1, <3>5
  <2>5. pc[s] = "live" => frames[s] # <<>> \/ givenUp[s]
    BY <2>1 DEF Sounds
  <2> QED
    BY <2>2, <2>3, <2>4, <2>5 DEF Byte
<1> QED
  BY <1>1, Invariance, PTL
=============================================================================
