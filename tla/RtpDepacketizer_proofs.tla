----------------------- MODULE RtpDepacketizer_proofs -----------------------
(***************************************************************************)
(* The depacketizer's safety, for any header bytes of the camera, any       *)
(* number of units, fragments and losses, and any longest unit: what it     *)
(* returns is a unit as it was sent unless a fragment was lost inside it,   *)
(* and no unit of which anything arrived vanishes uncounted.                *)
(***************************************************************************)
EXTENDS RtpDepacketizer, SequenceTheorems, TLAPS

\* What a session may carry.
Codecs == {H264, HEVC}

\* The types an aggregate and a fragment have in each codec.
AggregateType == IF codec = H264 THEN 24 ELSE 48
FragmentType == IF codec = H264 THEN 28 ELSE 49

-----------------------------------------------------------------------------
(* Header bytes.                                                           *)

\* The header byte of a unit says that it is one.
LEMMA SingleHead ==
    ASSUME codec \in Codecs, NEW h \in Heads[codec]
    PROVE  /\ h \in 0 .. 127
           /\ ~Forbidden(h) /\ IsSingle(h) /\ ~IsAggregate(h) /\ ~IsFragment(h)
<1>1. h \in 0 .. 127
  BY RtpAssumption DEF Codecs
<1>2. CASE codec = H264
  <2>1. h % 32 \in 1 .. 23
    BY <1>2, RtpAssumption
  <2> QED
    BY <1>1, <1>2, <2>1
       DEF Forbidden, IsSingle, IsAggregate, IsFragment, NalType, H264, HEVC
<1>3. CASE codec = HEVC
  <2>1. h \div 2 <= 47
    BY <1>3, RtpAssumption
  <2>2. (h \div 2) % 64 = h \div 2 /\ h \div 2 \in 0 .. 47
    BY <1>1, <2>1
  <2> QED
    BY <1>1, <1>3, <2>2
       DEF Forbidden, IsSingle, IsAggregate, IsFragment, NalType, H264, HEVC
<1> QED
  BY <1>2, <1>3 DEF Codecs

\* An odd header byte is forbidden, or of a type that no branch reads.
LEMMA OddHead ==
    ASSUME codec \in Codecs, NEW h \in OddHeads[codec]
    PROVE  /\ h \in Byte
           /\ Forbidden(h) \/ ~IsSingle(h)
           /\ Forbidden(h) \/ (~IsAggregate(h) /\ ~IsFragment(h))
<1>1. h \in Byte
  BY RtpAssumption DEF Codecs
<1>2. CASE codec = H264
  <2>1. h >= 128 \/ h % 32 \in {0} \cup (25 .. 27) \cup (29 .. 31)
    BY <1>2, RtpAssumption
  <2> QED
    BY <1>1, <1>2, <2>1
       DEF Forbidden, IsSingle, IsAggregate, IsFragment, NalType, H264, HEVC, Byte
<1>3. CASE codec = HEVC
  <2>1. h >= 128 \/ h \div 2 >= 50
    BY <1>3, RtpAssumption
  <2>2. h < 128 => (h \div 2) % 64 = h \div 2
    BY <1>1 DEF Byte
  <2> QED
    BY <1>1, <1>3, <2>1, <2>2
       DEF Forbidden, IsSingle, IsAggregate, IsFragment, NalType, H264, HEVC, Byte
<1> QED
  BY <1>2, <1>3 DEF Codecs

\* The first byte of an aggregate.
LEMMA AggregateHead ==
    ASSUME codec \in Codecs, NEW h \in Heads[codec]
    PROVE  LET a == Indicator(h, AggregateType) IN
           ~Forbidden(a) /\ ~IsSingle(a) /\ IsAggregate(a) /\ ~IsFragment(a)
<1>1. h \in 0 .. 127
  BY SingleHead
<1> DEFINE a == Indicator(h, AggregateType)
<1>2. ASSUME codec = H264 PROVE a \in 0 .. 127 /\ NalType(a) = 24
  <2>1. a = (h \div 32) * 32 + 24
    BY <1>2 DEF Indicator, AggregateType
  <2>2. a \in 0 .. 127 /\ a % 32 = 24
    BY <1>1, <2>1
  <2> QED
    BY <1>2, <2>2 DEF NalType
<1>3. ASSUME codec # H264 PROVE a \in 0 .. 127 /\ NalType(a) = 48
  <2>1. a = (h \div 128) * 128 + 48 * 2 + (h % 2)
    BY <1>3 DEF Indicator, AggregateType
  <2>2. h \div 128 = 0 /\ h % 2 \in 0 .. 1
    BY <1>1
  <2>3. a \in {96, 97}
    BY <2>1, <2>2
  <2> QED
    BY <1>3, <2>3 DEF NalType
<1>4. ~Forbidden(a) /\ ~IsSingle(a) /\ IsAggregate(a) /\ ~IsFragment(a)
  <2> HIDE DEF a
  <2>1. ~(a >= 128)
    BY <1>2, <1>3
  <2> QED
    BY <1>2, <1>3, <2>1 DEF Forbidden, IsSingle, IsAggregate, IsFragment
<1> QED
  BY <1>4

\* The first two bytes of fragment k of n: what a packet is, where it stands in
\* its unit, and the header byte that the unit had before it was split.
LEMMA FragmentHead ==
    ASSUME codec \in Codecs, NEW h \in Heads[codec], NEW k \in Nat, NEW n \in Nat
    PROVE  LET f == Indicator(h, FragmentType)
               fu == FuHeader(h, k, n)
           IN /\ ~Forbidden(f) /\ ~IsSingle(f) /\ ~IsAggregate(f) /\ IsFragment(f)
              /\ UnitHead(f, fu) = h
              /\ Starts(fu) <=> k = 1
              /\ Ends(fu) <=> k = n
<1> DEFINE f == Indicator(h, FragmentType)
           fu == FuHeader(h, k, n)
<1>1. h \in 0 .. 127
  BY SingleHead
<1>2. NalType(h) \in 0 .. 47 /\ (codec = H264 => NalType(h) = h % 32)
      /\ (codec = HEVC => NalType(h) = h \div 2)
  <2>1. CASE codec = H264
    BY <1>1, <2>1 DEF NalType, H264, HEVC
  <2>2. CASE codec = HEVC
    <3>1. h \div 2 <= 47
      BY <2>2, RtpAssumption
    <3> QED
      BY <1>1, <2>2, <3>1 DEF NalType, H264, HEVC
  <2> QED
    BY <2>1, <2>2 DEF Codecs
<1>3. PICK s \in {0, 128}, e \in {0, 64} :
          /\ fu = s + e + NalType(h)
          /\ s = 128 <=> k = 1
          /\ e = 64 <=> k = n
  <2> DEFINE s == IF k = 1 THEN 128 ELSE 0
             e == IF k = n THEN 64 ELSE 0
  <2>1. s \in {0, 128} /\ e \in {0, 64} /\ (s = 128 <=> k = 1) /\ (e = 64 <=> k = n)
    OBVIOUS
  <2>2. fu = s + e + NalType(h)
    BY DEF FuHeader
  <2> QED
    BY <2>1, <2>2
<1>4. (Starts(fu) <=> k = 1) /\ (Ends(fu) <=> k = n)
  <2> HIDE DEF fu
  <2>1. Starts(fu) <=> s = 128
    BY <1>2, <1>3 DEF Starts
  <2>2. (fu \div 64) % 2 = 1 <=> e = 64
    BY <1>2, <1>3
  <2> QED
    BY <1>3, <2>1, <2>2 DEF Ends
<1>5. ASSUME codec = H264 PROVE f \in 0 .. 127 /\ NalType(f) = 28 /\ UnitHead(f, fu) = h
  <2>1. f = (h \div 32) * 32 + 28
    BY <1>5 DEF Indicator, FragmentType
  <2>2. f \in 0 .. 127 /\ f % 32 = 28 /\ f \div 32 = h \div 32
    BY <1>1, <2>1
  <2>3. NalType(f) = 28
    BY <1>5, <2>2 DEF NalType
  <2>4. fu % 32 = h % 32
    <3> HIDE DEF fu
    <3> QED
      BY <1>1, <1>2, <1>3, <1>5
  <2> HIDE DEF f, fu
  <2>5. UnitHead(f, fu) = (h \div 32) * 32 + (h % 32)
    BY <1>5, <2>2, <2>4 DEF UnitHead
  <2> QED
    BY <1>1, <2>2, <2>3, <2>5
<1>6. ASSUME codec # H264 PROVE f \in 0 .. 127 /\ NalType(f) = 49 /\ UnitHead(f, fu) = h
  <2>1. f = (h \div 128) * 128 + 49 * 2 + (h % 2)
    BY <1>6 DEF Indicator, FragmentType
  <2>2. h \div 128 = 0 /\ h % 2 \in 0 .. 1
    BY <1>1
  <2>3. f \in {98, 99} /\ f % 2 = h % 2
    BY <2>1, <2>2
  <2>4. fu % 64 = h \div 2
    <3>1. codec = HEVC
      BY <1>6 DEF Codecs
    <3> HIDE DEF fu
    <3> QED
      BY <1>1, <1>2, <1>3, <3>1
  <2> HIDE DEF f, fu
  <2>5. f \div 128 = 0 /\ (f \div 2) % 64 = 49
    BY <2>3
  <2>6. NalType(f) = 49
    BY <1>6, <2>5 DEF NalType
  <2>7. UnitHead(f, fu) = (h \div 2) * 2 + (h % 2)
    <3>1. UnitHead(f, fu) = (f \div 128) * 128 + (fu % 64) * 2 + (f % 2)
      BY <1>6 DEF UnitHead
    <3>2. (f \div 128) * 128 = 0
      BY <2>5
    <3> QED
      BY <1>1, <2>3, <2>4, <3>1, <3>2
  <2> QED
    BY <1>1, <2>3, <2>6, <2>7
<1>7. ~Forbidden(f) /\ ~IsSingle(f) /\ ~IsAggregate(f) /\ IsFragment(f)
  <2> HIDE DEF f, fu
  <2>1. ~(f >= 128)
    BY <1>5, <1>6
  <2> QED
    BY <1>5, <1>6, <2>1 DEF Forbidden, IsSingle, IsAggregate, IsFragment
<1> QED
  BY <1>4, <1>5, <1>6, <1>7

-----------------------------------------------------------------------------
(* Packets and what is in them.                                            *)

\* The pieces of a packet of two units, or of one.
LEMMA SubSeqs ==
    ASSUME NEW a, NEW b
    PROVE  /\ SubSeq(<<a, b>>, 1, 2) = <<a, b>>
           /\ SubSeq(<<a, b>>, 1, 1) = <<a>>
           /\ SubSeq(<<a, b>>, 2, 2) = <<b>>
           /\ SubSeq(<<a>>, 1, 1) = <<a>>
           /\ SubSeq(<<a, b>>, 1, 0) = <<>> /\ SubSeq(<<a, b>>, 3, 2) = <<>>
           /\ SubSeq(<<a>>, 1, 0) = <<>> /\ SubSeq(<<a>>, 2, 1) = <<>>
           /\ SubSeq(<<>>, 1, 0) = <<>>
<1> DEFINE S == {a, b}
<1>1. <<a, b>> \in Seq(S) /\ <<a>> \in Seq(S) /\ <<b>> \in Seq(S)
      /\ Len(<<a, b>>) = 2 /\ Len(<<a>>) = 1 /\ Len(<<b>>) = 1
      /\ <<a, b>>[1] = a /\ <<a, b>>[2] = b
  OBVIOUS
<1>2. SubSeq(<<a, b>>, 1, 2) = <<a, b>> /\ SubSeq(<<a>>, 1, 1) = <<a>>
  BY <1>1, SubSeqFull
<1>3. SubSeq(<<a, b>>, 1, 1) = <<a>>
  <2> DEFINE t == SubSeq(<<a, b>>, 1, 1)
  <2>1. t \in Seq(S) /\ Len(t) = 1 /\ t[1] = a
    BY SubSeqProperties
  <2> HIDE DEF t
  <2>2. t = <<a>>
    BY <1>1, <2>1, SeqEqual
  <2> QED
    BY <2>2 DEF t
<1>4. SubSeq(<<a, b>>, 2, 2) = <<b>>
  <2> DEFINE t == SubSeq(<<a, b>>, 2, 2)
  <2>1. t \in Seq(S) /\ Len(t) = 1 /\ t[1] = b
    BY SubSeqProperties
  <2> HIDE DEF t
  <2>2. t = <<b>>
    BY <1>1, <2>1, SeqEqual
  <2> QED
    BY <2>2 DEF t
<1>5. /\ SubSeq(<<a, b>>, 1, 0) = <<>> /\ SubSeq(<<a, b>>, 3, 2) = <<>>
      /\ SubSeq(<<a>>, 1, 0) = <<>> /\ SubSeq(<<a>>, 2, 1) = <<>>
      /\ SubSeq(<<>>, 1, 0) = <<>>
  BY SubSeqEmpty, 0 < 1, 2 < 3, 1 < 2
<1> QED
  BY <1>2, <1>3, <1>4, <1>5

\* An empty list of units holds nothing.
LEMMA NothingOf == UnitsOf(<<>>) = {} /\ PartsOf(<<>>) = {}
BY DEF UnitsOf, PartsOf

\* The parts and the units of a list of one.
LEMMA OfOne ==
    ASSUME NEW a
    PROVE  /\ PartsOf(<<a>>) = {a.parts[k] : k \in DOMAIN a.parts}
           /\ UnitsOf(<<a>>) = {a.parts[k][1] : k \in DOMAIN a.parts}
<1>1. PartsOf(<<a>>) = {a.parts[k] : k \in DOMAIN a.parts}
  BY DEF PartsOf
<1>2. UnitsOf(<<a>>) = {x[1] : x \in PartsOf(<<a>>)}
  BY DEF UnitsOf, PartsOf
<1> QED
  BY <1>1, <1>2

\* And of a list of two.
LEMMA OfTwo ==
    ASSUME NEW a, NEW b
    PROVE  /\ PartsOf(<<a, b>>) = PartsOf(<<a>>) \cup PartsOf(<<b>>)
           /\ UnitsOf(<<a, b>>) = UnitsOf(<<a>>) \cup UnitsOf(<<b>>)
<1> DEFINE A == {a.parts[k] : k \in DOMAIN a.parts}
           B == {b.parts[k] : k \in DOMAIN b.parts}
           s == <<a, b>>
<1>1. PartsOf(<<a>>) = A /\ PartsOf(<<b>>) = B
  BY DEF PartsOf
<1>2. DOMAIN s = {1, 2} /\ s[1] = a /\ s[2] = b
  OBVIOUS
<1>3. PartsOf(s) = UNION {{s[i].parts[k] : k \in DOMAIN s[i].parts} : i \in DOMAIN s}
  BY DEF PartsOf
<1>4. {{s[i].parts[k] : k \in DOMAIN s[i].parts} : i \in DOMAIN s} = {A, B}
  <2> HIDE DEF s
  <2> QED
    BY <1>2
<1>5. PartsOf(s) = A \cup B
  <2> HIDE DEF A, B, s
  <2> QED
    BY <1>3, <1>4
<1>6. \A t \in {<<a>>, <<b>>, <<a, b>>} : UnitsOf(t) = {x[1] : x \in PartsOf(t)}
  BY DEF UnitsOf, PartsOf
<1> QED
  BY <1>1, <1>5, <1>6

\* A unit of one part, and a fragment, hold that part.
LEMMA OfPart ==
    ASSUME NEW h, NEW u \in Nat, NEW k \in Nat
    PROVE  /\ PartsOf(<<Nal(h, <<<<u, k>>>>)>>) = {<<u, k>>}
           /\ UnitsOf(<<Nal(h, <<<<u, k>>>>)>>) = {u}
           /\ Parts(u, 1) = <<<<u, 1>>>>
<1>1. Parts(u, 1) = <<<<u, 1>>>>
  BY DEF Parts
<1>2. Nal(h, <<<<u, k>>>>).parts = <<<<u, k>>>>
  BY DEF Nal
<1> QED
  BY <1>1, <1>2, OfOne

\* A packet that is no fragment and no aggregate arrives as it was sent.
LEMMA ArrivesWhole ==
    ASSUME NEW p, ~IsFragment(p.head), ~IsAggregate(p.head)
    PROVE  Arrivals(p) = {p}
BY DEF Arrivals

\* A fragment may come shorter than its headers.
LEMMA ArrivesShort ==
    ASSUME NEW p, ~IsAggregate(p.head), NEW q \in Arrivals(p)
    PROVE  q = p \/ q = [p EXCEPT !.short = TRUE]
BY DEF Arrivals

\* An aggregate may be cut in a unit or after one.
LEMMA ArrivesCut ==
    ASSUME NEW p, ~IsFragment(p.head), NEW q \in Arrivals(p)
    PROVE  \/ q = p
           \/ \E c \in 0 .. Len(p.nals), d \in 0 .. Len(p.nals) :
                 /\ d = c \/ d = c - 1
                 /\ q = [p EXCEPT !.nals = SubSeq(p.nals, 1, c), !.intact = d]
BY DEF Arrivals

-----------------------------------------------------------------------------
(* What becomes of a packet.                                               *)

\* The fragment under way stays, `nals` are returned, something arrived of the
\* units `came`, and the parts `gone` did not arrive: what arrived was returned,
\* or counted.
Kept(nals, came, gone) ==
    /\ Return(nals)
    /\ UNCHANGED <<fragment, skipped>>
    /\ arrived' = arrived \cup came /\ lost' = lost \cup gone
    /\ dropped' \in {dropped, dropped + 1}
    /\ came \subseteq UnitsOf(nals) \/ dropped' = dropped + 1

\* A packet that was fed to no avail, or never fed.
LEMMA Wasted ==
    ASSUME NEW came, NEW gone,
           \/ Drop \/ (NotFed /\ came = {}),
           arrived' = arrived \cup came, lost' = lost \cup gone
    PROVE  Kept(<<>>, came, gone)
BY DEF Drop, NotFed, Kept

\* A packet of one whole unit, of a type that is one or is not read.
LEMMA WholeTravels ==
    ASSUME NEW h, NEW nal, ~IsAggregate(h), ~IsFragment(h),
           Travels(Packet(h, 0, <<nal>>))
    PROVE  \E came \in SUBSET UnitsOf(<<nal>>), gone \in SUBSET PartsOf(<<nal>>) :
               \/ Kept(<<>>, came, gone)
               \/ ~Forbidden(h) /\ IsSingle(h) /\ Kept(<<nal>>, came, gone)
<1> DEFINE p == Packet(h, 0, <<nal>>)
<1>0. /\ p.head = h /\ p.nals = <<nal>> /\ p.intact = 1 /\ p.short = FALSE
      /\ Len(p.nals) = 1
  BY DEF Packet
<1> HIDE DEF p
<1>1. CASE /\ Feed(p)
           /\ arrived' = arrived \cup UnitsOf(p.nals)
           /\ lost' = lost \cup PartsOf(SubSeq(p.nals, p.intact + 1, Len(p.nals)))
  <2>1. lost' = lost \cup {}
    <3>1. SubSeq(p.nals, p.intact + 1, Len(p.nals)) = <<>>
      BY <1>0, SubSeqEmpty
    <3> QED
      BY <1>1, <3>1, NothingOf
  <2>2. Drop \/ (~Forbidden(h) /\ Single(p))
    BY <1>0, <1>1 DEF Feed, Aggregate, FirstFragment, NextFragment, Unread
  <2>3. CASE Drop
    <3>1. Kept(<<>>, UnitsOf(p.nals), {})
      BY <1>1, <2>1, <2>3, Wasted
    <3> QED
      BY <1>0, <3>1
  <2>4. CASE ~Forbidden(h) /\ Single(p)
    <3>1. ~Forbidden(h) /\ IsSingle(h) /\ Kept(<<nal>>, UnitsOf(<<nal>>), {})
      BY <1>0, <1>1, <2>1, <2>4 DEF Single, Kept
    <3> QED
      BY <3>1
  <2> QED
    BY <2>2, <2>3, <2>4
<1>2. CASE (FeedMalformed \/ NotFed) /\ lost' = lost \cup PartsOf(p.nals)
           /\ UNCHANGED arrived
  <2>1. Kept(<<>>, {}, PartsOf(p.nals))
    BY <1>2, Wasted DEF FeedMalformed
  <2> QED
    BY <1>0, <2>1
<1> QED
  <2>1. Arrivals(p) = {p}
    BY <1>0, ArrivesWhole
  <2> QED
    BY <1>0, <1>1, <1>2, <2>1 DEF Travels, p

\* A packet whose first byte has the forbidden bit, however it arrives.
LEMMA ForbiddenTravels ==
    ASSUME NEW h, NEW nal, Forbidden(h), Travels(Packet(h, 0, <<nal>>))
    PROVE  \E came \in SUBSET UnitsOf(<<nal>>), gone \in SUBSET PartsOf(<<nal>>) :
               Kept(<<>>, came, gone)
<1> DEFINE p == Packet(h, 0, <<nal>>)
<1>0. /\ p.head = h /\ p.nals = <<nal>> /\ p.intact = 1 /\ p.short = FALSE
      /\ Len(p.nals) = 1
      /\ DOMAIN p = {"head", "fu", "nals", "short", "intact"}
  BY DEF Packet
<1> HIDE DEF p
<1>1. ASSUME NEW q \in Arrivals(p), Feed(q),
             arrived' = arrived \cup UnitsOf(q.nals),
             lost' = lost \cup
                 IF q.short THEN PartsOf(p.nals)
                 ELSE PartsOf(SubSeq(p.nals, q.intact + 1, Len(p.nals)))
      PROVE  \E came \in SUBSET UnitsOf(<<nal>>), gone \in SUBSET PartsOf(<<nal>>) :
                 Kept(<<>>, came, gone)
  <2>1. /\ q.head = h
        /\ q.nals \in {<<nal>>, <<>>} /\ q.intact \in {0, 1}
    <3>1. CASE q = p \/ q = [p EXCEPT !.short = TRUE]
      BY <1>0, <3>1
    <3>2. ASSUME NEW c \in 0 .. Len(p.nals), NEW d \in 0 .. Len(p.nals),
                 d = c \/ d = c - 1,
                 q = [p EXCEPT !.nals = SubSeq(p.nals, 1, c), !.intact = d]
          PROVE  /\ q.head = h
                 /\ q.nals \in {<<nal>>, <<>>} /\ q.intact \in {0, 1}
      <4>1. q.head = h /\ q.nals = SubSeq(<<nal>>, 1, c) /\ q.intact = d
        BY <1>0, <3>2
      <4>2. SubSeq(<<nal>>, 1, 1) = <<nal>> /\ SubSeq(<<nal>>, 1, 0) = <<>>
        BY SubSeqs
      <4>3. c \in {0, 1} /\ d \in {0, 1}
        BY <1>0
      <4>4. CASE c = 0
        BY <3>2, <4>1, <4>2, <4>3, <4>4
      <4>5. CASE c = 1
        BY <3>2, <4>1, <4>2, <4>3, <4>5
      <4> QED
        BY <4>3, <4>4, <4>5
    <3> QED
      BY <3>1, <3>2 DEF Arrivals
  <2>2. Drop
    BY <1>1, <2>1 DEF Feed
  <2>3. UnitsOf(q.nals) \subseteq UnitsOf(<<nal>>)
    BY <2>1, NothingOf
  <2>4. PartsOf(SubSeq(p.nals, q.intact + 1, Len(p.nals))) \subseteq PartsOf(<<nal>>)
    <3>1. SubSeq(<<nal>>, 1, 1) = <<nal>> /\ SubSeq(<<nal>>, 2, 1) = <<>>
      BY SubSeqs
    <3>2. q.intact + 1 = 1 \/ q.intact + 1 = 2
      BY <2>1
    <3> QED
      BY <1>0, <3>1, <3>2, NothingOf
  <2>5. PICK gone \in SUBSET PartsOf(<<nal>>) : lost' = lost \cup gone
    BY <1>0, <1>1, <2>4
  <2>6. Kept(<<>>, UnitsOf(q.nals), gone)
    BY <1>1, <2>2, <2>5, Wasted
  <2> QED
    BY <2>3, <2>6
<1>2. CASE (FeedMalformed \/ NotFed) /\ lost' = lost \cup PartsOf(p.nals)
           /\ UNCHANGED arrived
  <2>1. Kept(<<>>, {}, PartsOf(p.nals))
    BY <1>2, Wasted DEF FeedMalformed
  <2> QED
    BY <1>0, <2>1
<1>3. Travels(p)
  BY DEF p
<1>4. \/ \E q \in Arrivals(p) :
             /\ Feed(q)
             /\ arrived' = arrived \cup UnitsOf(q.nals)
             /\ lost' = lost \cup
                    IF q.short THEN PartsOf(p.nals)
                    ELSE PartsOf(SubSeq(p.nals, q.intact + 1, Len(p.nals)))
      \/ (FeedMalformed \/ NotFed) /\ lost' = lost \cup PartsOf(p.nals)
         /\ UNCHANGED arrived
  BY <1>3 DEF Travels
<1> QED
  BY <1>1, <1>2, <1>4

\* An aggregate of two units: the first of them up to where it was cut.
LEMMA AggregateTravels ==
    ASSUME NEW h, ~Forbidden(h), ~IsSingle(h), IsAggregate(h), ~IsFragment(h),
           NEW a, NEW b, Travels(Packet(h, 0, <<a, b>>)), dropped \in Nat
    PROVE  \E nals \in {<<>>, <<a>>, <<a, b>>}, came \in SUBSET UnitsOf(<<a, b>>),
              gone \in SUBSET PartsOf(<<a, b>>) : Kept(nals, came, gone)
<1> DEFINE p == Packet(h, 0, <<a, b>>)
<1>0. /\ p.head = h /\ p.nals = <<a, b>> /\ p.intact = 2 /\ p.short = FALSE
      /\ Len(p.nals) = 2
      /\ DOMAIN p = {"head", "fu", "nals", "short", "intact"}
  BY DEF Packet
<1> HIDE DEF p
<1>9. /\ SubSeq(<<a, b>>, 1, 2) = <<a, b>> /\ SubSeq(<<a, b>>, 1, 1) = <<a>>
      /\ SubSeq(<<a, b>>, 1, 0) = <<>> /\ SubSeq(<<a, b>>, 2, 2) = <<b>>
      /\ SubSeq(<<a, b>>, 3, 2) = <<>>
      /\ SubSeq(<<a>>, 1, 1) = <<a>> /\ SubSeq(<<a>>, 1, 0) = <<>>
      /\ SubSeq(<<>>, 1, 0) = <<>>
  BY SubSeqs
<1>1. ASSUME NEW q \in Arrivals(p), Feed(q),
             arrived' = arrived \cup UnitsOf(q.nals),
             lost' = lost \cup
                 IF q.short THEN PartsOf(p.nals)
                 ELSE PartsOf(SubSeq(p.nals, q.intact + 1, Len(p.nals)))
      PROVE  \E nals \in {<<>>, <<a>>, <<a, b>>}, came \in SUBSET UnitsOf(<<a, b>>),
                gone \in SUBSET PartsOf(<<a, b>>) : Kept(nals, came, gone)
  <2>1. /\ q.head = h /\ q.short = FALSE
        /\ \/ q.nals = <<>> /\ q.intact = 0
           \/ q.nals = <<a>> /\ q.intact \in {0, 1}
           \/ q.nals = <<a, b>> /\ q.intact \in {1, 2}
    <3>1. CASE q = p
      BY <1>0, <3>1
    <3>2. ASSUME NEW c \in 0 .. Len(p.nals), NEW d \in 0 .. Len(p.nals),
                 d = c \/ d = c - 1,
                 q = [p EXCEPT !.nals = SubSeq(p.nals, 1, c), !.intact = d]
          PROVE  /\ q.head = h /\ q.short = FALSE
                 /\ \/ q.nals = <<>> /\ q.intact = 0
                    \/ q.nals = <<a>> /\ q.intact \in {0, 1}
                    \/ q.nals = <<a, b>> /\ q.intact \in {1, 2}
      <4>1. /\ q.head = h /\ q.short = FALSE
            /\ q.nals = SubSeq(<<a, b>>, 1, c) /\ q.intact = d
        BY <1>0, <3>2
      <4>2. c \in {0, 1, 2} /\ d \in {0, 1, 2}
        BY <1>0
      <4>3. CASE c = 0
        <5>1. q.nals = <<>>
          BY <1>9, <4>1, <4>3
        <5>2. q.intact \in {0}
          BY <3>2, <4>1, <4>2, <4>3
        <5> QED
          BY <4>1, <5>1, <5>2
      <4>4. CASE c = 1
        <5>1. q.nals = <<a>>
          BY <1>9, <4>1, <4>4
        <5>2. q.intact \in {0, 1}
          BY <3>2, <4>1, <4>2, <4>4
        <5> QED
          BY <4>1, <5>1, <5>2
      <4>5. CASE c = 2
        <5>1. q.nals = <<a, b>>
          BY <1>9, <4>1, <4>5
        <5>2. q.intact \in {1, 2}
          BY <3>2, <4>1, <4>2, <4>5
        <5> QED
          BY <4>1, <5>1, <5>2
      <4> QED
        BY <4>2, <4>3, <4>4, <4>5
    <3>3. \/ q = p
          \/ \E c \in 0 .. Len(p.nals), d \in 0 .. Len(p.nals) :
                /\ d = c \/ d = c - 1
                /\ q = [p EXCEPT !.nals = SubSeq(p.nals, 1, c), !.intact = d]
      BY <1>0, ArrivesCut, ZenonT(60)
    <3> QED
      BY <3>1, <3>2, <3>3
  <2>2. Aggregate(q)
    BY <1>1, <2>1 DEF Feed, Single, Unread, FirstFragment, NextFragment
  <2>3. UnitsOf(q.nals) \subseteq UnitsOf(<<a, b>>)
    <3>1. UnitsOf(<<>>) = {}
      BY NothingOf
    <3>2. UnitsOf(<<a>>) \subseteq UnitsOf(<<a, b>>)
      BY OfTwo, ZenonT(60)
    <3>3. q.nals \in {<<>>, <<a>>, <<a, b>>}
      BY <2>1
    <3> QED
      BY <3>1, <3>2, <3>3
  <2>4. PICK gone \in SUBSET PartsOf(<<a, b>>) : lost' = lost \cup gone
    <3>1. q.intact \in {0, 1, 2}
      BY <2>1
    <3>2. SubSeq(p.nals, q.intact + 1, Len(p.nals)) \in {<<a, b>>, <<b>>, <<>>}
      <4>1. q.intact + 1 \in {1, 2, 3}
        BY <3>1
      <4> QED
        BY <1>0, <1>9, <4>1
    <3>3. PartsOf(SubSeq(p.nals, q.intact + 1, Len(p.nals))) \subseteq PartsOf(<<a, b>>)
      <4>1. PartsOf(<<>>) = {}
        BY NothingOf
      <4>2. PartsOf(<<b>>) \subseteq PartsOf(<<a, b>>)
        BY OfTwo, ZenonT(60)
      <4> QED
        BY <3>2, <4>1, <4>2
    <3> QED
      BY <1>1, <2>1, <3>3
  <2>5. PICK nals \in {<<>>, <<a>>, <<a, b>>} :
            /\ nals = SubSeq(q.nals, 1, q.intact)
            /\ q.intact >= Len(q.nals) => nals = q.nals
    <3>1. Len(<<>>) = 0 /\ Len(<<a>>) = 1 /\ Len(<<a, b>>) = 2
      OBVIOUS
    <3>2. SubSeq(q.nals, 1, q.intact) \in {<<>>, <<a>>, <<a, b>>}
      BY <1>9, <2>1
    <3>3. q.intact >= Len(q.nals) => SubSeq(q.nals, 1, q.intact) = q.nals
      <4>1. CASE q.nals = <<>> /\ q.intact = 0
        BY <1>9, <4>1
      <4>2. CASE q.nals = <<a>> /\ q.intact \in {0, 1}
        BY <1>9, <3>1, <4>2
      <4>3. CASE q.nals = <<a, b>> /\ q.intact \in {1, 2}
        BY <1>9, <3>1, <4>3
      <4> QED
        BY <2>1, <4>1, <4>2, <4>3
    <3> QED
      BY <3>2, <3>3
  <2>6. Kept(nals, UnitsOf(q.nals), gone)
    <3>1. Len(q.nals) \in Nat /\ q.intact \in Nat
      BY <2>1
    <3>2. /\ dropped' \in {dropped, dropped + 1}
          /\ dropped' = dropped + 1 \/ nals = q.nals
      BY <2>2, <2>5, <3>1 DEF Aggregate
    <3> QED
      BY <1>1, <2>2, <2>4, <2>5, <3>2 DEF Aggregate, Kept
  <2> QED
    BY <2>3, <2>6
<1>2. CASE (FeedMalformed \/ NotFed) /\ lost' = lost \cup PartsOf(p.nals)
           /\ UNCHANGED arrived
  <2>1. Kept(<<>>, {}, PartsOf(p.nals))
    BY <1>2, Wasted DEF FeedMalformed
  <2> QED
    BY <1>0, <2>1
<1>3. Travels(p)
  BY DEF p
<1> QED
  BY <1>1, <1>2, <1>3 DEF Travels

\* Fragment k of n of unit u: it does not arrive as one, it finds nothing to be
\* attached to, or it begins a unit or goes on with the one under way.
LEMMA FragmentTravels ==
    ASSUME codec \in Codecs, NEW h \in Heads[codec], NEW u \in Nat,
           NEW k \in Nat, NEW n \in Nat, Travels(Fragment(u, h, k, n))
    PROVE  LET y == <<u, k>>
               fu == FuHeader(h, k, n)
           IN \/ \E came \in SUBSET {u} : Kept(<<>>, came, {y})
              \/ fragment = <<>> /\ Kept(<<>>, {u}, {})
              \/ /\ arrived' = arrived \cup {u} /\ lost' = lost
                 /\ \/ k = 1 /\ Grow(Nal(h, <<y>>), fu, fragment)
                    \/ /\ k # 1 /\ fragment # <<>>
                       /\ Grow(Nal(fragment[1].head, fragment[1].parts \o <<y>>), fu, <<>>)
<1> DEFINE y == <<u, k>>
           fu == FuHeader(h, k, n)
           f == Indicator(h, FragmentType)
           nal == Nal(h, <<y>>)
           p == Packet(f, fu, <<nal>>)
<1>0. /\ p.head = f /\ p.fu = fu /\ p.nals = <<nal>> /\ p.intact = 1 /\ p.short = FALSE
      /\ Len(p.nals) = 1 /\ p.nals[1] = nal /\ nal.parts = <<y>>
      /\ DOMAIN p = {"head", "fu", "nals", "short", "intact"}
  BY DEF Packet, Nal
<1>1. Travels(p)
  BY DEF Fragment, FragmentType
<1>2. /\ ~Forbidden(f) /\ ~IsSingle(f) /\ ~IsAggregate(f) /\ IsFragment(f)
      /\ UnitHead(f, fu) = h /\ (Starts(fu) <=> k = 1)
  BY FragmentHead
<1>3. PartsOf(<<nal>>) = {y} /\ UnitsOf(<<nal>>) = {u}
  BY OfPart
<1> HIDE DEF p, f, fu, nal
<1>4. CASE \E q \in Arrivals(p) : q # p /\ Feed(q)
                /\ arrived' = arrived \cup UnitsOf(q.nals)
                /\ lost' = lost \cup IF q.short THEN PartsOf(p.nals)
                       ELSE PartsOf(SubSeq(p.nals, q.intact + 1, Len(p.nals)))
  <2>1. PICK q \in Arrivals(p) :
            /\ q = [p EXCEPT !.short = TRUE] /\ Feed(q)
            /\ arrived' = arrived \cup UnitsOf(q.nals)
            /\ lost' = lost \cup IF q.short THEN PartsOf(p.nals)
                   ELSE PartsOf(SubSeq(p.nals, q.intact + 1, Len(p.nals)))
    BY <1>0, <1>2, <1>4, ArrivesShort
  <2>2. q.short /\ q.nals = <<nal>>
    BY <1>0, <2>1
  <2>3. Drop
    BY <2>1, <2>2 DEF Feed
  <2>4. Kept(<<>>, {u}, {y})
    BY <1>0, <1>3, <2>1, <2>2, <2>3, Wasted
  <2> QED
    BY <2>4
<1>5. CASE /\ Feed(p) /\ arrived' = arrived \cup UnitsOf(p.nals)
           /\ lost' = lost \cup PartsOf(SubSeq(p.nals, p.intact + 1, Len(p.nals)))
  <2>1. lost' = lost \cup {} /\ arrived' = arrived \cup {u}
    <3>1. SubSeq(p.nals, p.intact + 1, Len(p.nals)) = <<>>
      BY <1>0, SubSeqEmpty
    <3> QED
      BY <1>0, <1>3, <1>5, <3>1, NothingOf
  <2>2. FirstFragment(p) \/ NextFragment(p)
    BY <1>0, <1>2, <1>5 DEF Feed, Single, Aggregate, Unread
  <2>3. CASE FirstFragment(p)
    <3>1. k = 1 /\ Grow(Nal(h, <<y>>), fu, fragment)
      BY <1>0, <1>2, <2>3 DEF FirstFragment
    <3> QED
      BY <2>1, <3>1 DEF fu
  <2>4. CASE NextFragment(p) /\ fragment = <<>>
    <3>1. Drop
      BY <2>4 DEF NextFragment
    <3>2. Kept(<<>>, {u}, {})
      BY <2>1, <3>1, Wasted
    <3> QED
      BY <2>4, <3>2
  <2>5. CASE NextFragment(p) /\ fragment # <<>>
    <3>1. /\ k # 1
          /\ Grow(Nal(fragment[1].head, fragment[1].parts \o <<y>>), fu, <<>>)
      BY <1>0, <1>2, <2>5 DEF NextFragment
    <3> QED
      BY <2>1, <2>5, <3>1 DEF fu
  <2> QED
    BY <2>2, <2>3, <2>4, <2>5
<1>6. CASE (FeedMalformed \/ NotFed) /\ lost' = lost \cup PartsOf(p.nals)
           /\ UNCHANGED arrived
  <2>1. Kept(<<>>, {}, PartsOf(p.nals))
    BY <1>6, Wasted DEF FeedMalformed
  <2> QED
    BY <1>0, <1>3, <2>1
<1> QED
  BY <1>0, <1>1, <1>4, <1>5, <1>6 DEF Travels, fu

-----------------------------------------------------------------------------
(* The inductive invariant.                                                *)

\* Numbers of units, parts, and units as the camera began them.
Positive == Nat \ {0}
Pairs == Positive \X Positive
SentUnits == [head : Byte, parts : Positive]

\* TypeOK in two parts: what the camera and the way write, what feed() writes.
CameraTypes ==
    /\ codec \in Codecs
    /\ sent \in Seq(SentUnits)
    /\ part \in Nat /\ others \in Nat
    /\ lost \in SUBSET Pairs /\ arrived \in SUBSET Positive
    /\ ended \in BOOLEAN

\* What feed() writes, and the checks' own record of what it returned.
FeedTypes ==
    /\ fragment \in Seq(Nals) /\ Len(fragment) <= 1
    /\ fragment # <<>> => Len(fragment[1].parts) <= MaxNal
    /\ dropped \in Nat /\ skipped \in Nat
    /\ out \in Seq(Nals) /\ shown \in SUBSET Positive

\* A unit of which some fragments are still to be sent is the last, has an
\* ordinary header byte, and is not complete.
Halfway ==
    part > 0 => /\ sent # <<>>
                /\ sent[Len(sent)].head \in Heads[codec]
                /\ part < sent[Len(sent)].parts

\* The part was sent.
Reached(x) == x[1] < Len(sent) \/ (x[1] = Len(sent) /\ (part = 0 \/ x[2] <= part))

\* The unit is the first n parts of one that has more, and the next part is the
\* one the camera sends next, or was lost.
Prefix(f, u, n) ==
    /\ f = Nal(sent[u].head, Parts(u, n)) /\ n < sent[u].parts
    /\ (u = Len(sent) /\ part = n) \/ <<u, n + 1>> \in lost

\* What may be under way: it begins with the first part of a unit, and is
\* undamaged or already has a gap.
Growing(f) ==
    LET n == Len(f.parts) IN
    /\ n > 0 /\ Reached(f.parts[n])
    /\ \E u \in DOMAIN sent : f.parts[1] = <<u, 1>> /\ (Prefix(f, u, n) \/ HasGap(f))

\* The inductive invariant: neither part of a unit that was cut off by a loss nor
\* the next fragment to come is forgotten, so that what is under way is always
\* the beginning of one unit or already damaged by a loss.
IInv ==
    /\ CameraTypes /\ FeedTypes /\ Halfway
    /\ fragment # <<>> => Growing(fragment[1])
    /\ DamageNeedsGap

\* The two parts are the type invariant.
LEMMA TypesAreTypeOK == CameraTypes /\ FeedTypes <=> TypeOK
BY DEF CameraTypes, FeedTypes, TypeOK, Codecs, SentUnits, Positive, Pairs

\* The invariant holds when nothing was fed yet.
LEMMA InitIInv == Init => IInv
<1> SUFFICES ASSUME Init PROVE IInv
  OBVIOUS
<1>1. codec \in Codecs /\ sent \in Seq(SentUnits)
  BY DEF Init, Codecs
<1>2. CameraTypes
  BY <1>1 DEF Init, CameraTypes
<1>3. fragment = <<>> /\ out = <<>> /\ dropped = 0 /\ skipped = 0 /\ shown = {}
  BY DEF Init
<1>4. FeedTypes
  BY <1>3 DEF FeedTypes
<1>5. Halfway /\ DamageNeedsGap
  BY <1>3 DEF Init, Halfway, DamageNeedsGap
<1> QED
  BY <1>2, <1>3, <1>4, <1>5 DEF IInv

-----------------------------------------------------------------------------
(* Lists of units.                                                         *)

\* The units in a list, and their parts, are numbered from 1.
LEMMA UnitsArePositive ==
    ASSUME NEW nals \in Seq(Nals)
    PROVE  UnitsOf(nals) \subseteq Positive
<1> SUFFICES ASSUME NEW i \in DOMAIN nals, NEW k \in DOMAIN nals[i].parts
             PROVE  nals[i].parts[k][1] \in Positive
  BY DEF UnitsOf
<1>1. nals[i].parts \in Seq(Pairs)
  <2>1. nals[i] \in Nals
    OBVIOUS
  <2> QED
    BY <2>1 DEF Nals, Pairs, Positive
<1>2. nals[i].parts[k] \in Pairs
  BY <1>1
<1> QED
  BY <1>2 DEF Pairs

\* Parts 1 .. n of a unit.
LEMMA PartsType ==
    ASSUME NEW u \in Positive, NEW n \in Nat
    PROVE  /\ Parts(u, n) \in Seq(Pairs) /\ Len(Parts(u, n)) = n
           /\ \A k \in 1 .. n : Parts(u, n)[k] = <<u, k>>
<1>1. \A k \in 1 .. n : <<u, k>> \in Pairs
  BY DEF Pairs, Positive
<1> QED
  BY <1>1 DEF Parts

\* One part more.
LEMMA PartsGrow ==
    ASSUME NEW u \in Positive, NEW n \in Nat
    PROVE  Parts(u, n) \o <<<<u, n + 1>>>> = Parts(u, n + 1)
<1> DEFINE s == Parts(u, n)
           t == <<<<u, n + 1>>>>
           w == Parts(u, n + 1)
<1>1. s \in Seq(Pairs) /\ Len(s) = n /\ \A k \in 1 .. n : s[k] = <<u, k>>
  BY PartsType
<1>2. w \in Seq(Pairs) /\ Len(w) = n + 1 /\ \A k \in 1 .. n + 1 : w[k] = <<u, k>>
  BY PartsType
<1>3. t \in Seq(Pairs) /\ Len(t) = 1 /\ t[1] = <<u, n + 1>>
  BY DEF Pairs, Positive
<1> HIDE DEF s, t, w
<1>4. /\ s \o t \in Seq(Pairs) /\ Len(s \o t) = n + 1
      /\ \A k \in 1 .. n + 1 : (s \o t)[k] = IF k <= n THEN s[k] ELSE t[k - n]
  <2>1. /\ s \o t \in Seq(Pairs) /\ Len(s \o t) = Len(s) + Len(t)
        /\ \A k \in 1 .. Len(s) + Len(t) :
              (s \o t)[k] = IF k <= Len(s) THEN s[k] ELSE t[k - Len(s)]
    BY <1>1, <1>3, ConcatProperties
  <2> QED
    BY <1>1, <1>3, <2>1
<1>5. \A k \in 1 .. n + 1 : (s \o t)[k] = w[k]
  <2> SUFFICES ASSUME NEW k \in 1 .. n + 1 PROVE (s \o t)[k] = w[k]
    OBVIOUS
  <2>1. CASE k \in 1 .. n
    <3>1. (s \o t)[k] = s[k]
      BY <1>4, <2>1
    <3> QED
      BY <1>1, <1>2, <2>1, <3>1
  <2>2. CASE k = n + 1
    <3>1. (s \o t)[k] = t[1]
      BY <1>4, <2>2, ~(n + 1 <= n), (n + 1) - n = 1
    <3> QED
      BY <1>2, <1>3, <2>2, <3>1
  <2>3. k \in 1 .. n \/ k = n + 1
    OBVIOUS
  <2> QED
    BY <2>1, <2>2, <2>3
<1>6. s \o t = w
  BY <1>2, <1>4, <1>5, SeqEqual
<1> QED
  BY <1>6 DEF s, t, w

\* The units begun, after one step more.
LEMMA Longer ==
    ASSUME sent \in Seq(SentUnits), NEW units \in Seq(SentUnits), sent' = sent \o units
    PROVE  /\ sent' \in Seq(SentUnits) /\ Len(sent') = Len(sent) + Len(units)
           /\ \A u \in DOMAIN sent : u \in DOMAIN sent' /\ sent'[u] = sent[u]
           /\ \A k \in DOMAIN units : /\ Len(sent) + k \in DOMAIN sent'
                                     /\ sent'[Len(sent) + k] = units[k]
<1>1. /\ sent' \in Seq(SentUnits) /\ Len(sent') = Len(sent) + Len(units)
      /\ \A i \in 1 .. Len(sent) + Len(units) :
            sent'[i] = IF i <= Len(sent) THEN sent[i] ELSE units[i - Len(sent)]
  BY ConcatProperties
<1>2. ASSUME NEW u \in DOMAIN sent PROVE u \in DOMAIN sent' /\ sent'[u] = sent[u]
  <2>1. u \in 1 .. Len(sent) /\ u \in 1 .. Len(sent) + Len(units) /\ u <= Len(sent)
    OBVIOUS
  <2> QED
    BY <1>1, <2>1
<1>3. ASSUME NEW k \in DOMAIN units
      PROVE  Len(sent) + k \in DOMAIN sent' /\ sent'[Len(sent) + k] = units[k]
  <2> DEFINE i == Len(sent) + k
  <2>1. i \in 1 .. Len(sent) + Len(units) /\ ~(i <= Len(sent)) /\ i - Len(sent) = k
    OBVIOUS
  <2> HIDE DEF i
  <2>2. i \in DOMAIN sent' /\ sent'[i] = units[k]
    BY <1>1, <2>1
  <2> QED
    BY <2>2 DEF i
<1> QED
  BY <1>1, <1>2, <1>3

\* A gap stays one: nothing that was lost comes after all.
LEMMA GapStays ==
    ASSUME NEW f, HasGap(f), lost \subseteq lost'
    PROVE  \E x \in lost' : Before(f.parts[1], x) /\ Before(x, f.parts[Len(f.parts)])
BY DEF HasGap

-----------------------------------------------------------------------------
(* The steps that leave the fragment under way where it is.                *)

\* What is under way stays as it should be when the camera begins other units,
\* which it does only between fragments of none.
LEMMA GrowingStays ==
    ASSUME CameraTypes, NEW f \in Nals, Growing(f), part = 0,
           NEW units \in Seq(SentUnits), Len(units) > 0, sent' = sent \o units,
           lost \subseteq lost'
    PROVE  Growing(f)'
<1> DEFINE n == Len(f.parts)
<1>1. PICK u \in DOMAIN sent :
          f.parts[1] = <<u, 1>> /\ (Prefix(f, u, n) \/ HasGap(f))
  BY DEF Growing
<1>2. n > 0 /\ n \in Nat /\ Reached(f.parts[n]) /\ f.parts \in Seq(Pairs)
  BY DEF Growing, Nals, Pairs, Positive
<1>3. sent \in Seq(SentUnits) /\ Len(sent) \in Nat /\ Len(units) \in Nat
  BY DEF CameraTypes
<1>4. u \in DOMAIN sent' /\ sent'[u] = sent[u] /\ Len(sent') = Len(sent) + Len(units)
  BY <1>1, <1>3, Longer
<1>5. Reached(f.parts[n])'
  <2> DEFINE x == f.parts[n]
  <2>1. x \in Pairs
    BY <1>2
  <2>2. x[1] \in Nat
    BY <2>1 DEF Pairs, Positive
  <2>3. x[1] < Len(sent) \/ x[1] = Len(sent)
    BY <1>2 DEF Reached
  <2> HIDE DEF x
  <2>4. x[1] < Len(sent')
    BY <1>3, <1>4, <2>2, <2>3
  <2> QED
    BY <2>4 DEF Reached, x
<1>6. Prefix(f, u, n)' \/ HasGap(f)'
  <2>1. CASE Prefix(f, u, n)
    <3>1. <<u, n + 1>> \in lost
      BY <1>2, <2>1 DEF Prefix
    <3> QED
      BY <1>4, <2>1, <3>1 DEF Prefix
  <2>2. CASE HasGap(f)
    BY <2>2, GapStays DEF HasGap
  <2> QED
    BY <1>1, <2>1, <2>2
<1> QED
  BY <1>1, <1>2, <1>4, <1>5, <1>6 DEF Growing

\* The first packet of a unit, or of two: whole ones may be returned.
LEMMA BeginKeeps ==
    ASSUME IInv, part = 0, part' \in Nat, Halfway',
           NEW units \in Seq(SentUnits), Len(units) > 0,
           sent' = sent \o units, UNCHANGED <<codec, others, ended>>,
           NEW nals \in Seq(Nals),
           \A i \in DOMAIN nals : \E u \in DOMAIN sent' :
               nals[i] = Nal(sent'[u].head, Parts(u, sent'[u].parts)),
           NEW came \in SUBSET Positive, NEW gone \in SUBSET Pairs,
           Kept(nals, came, gone)
    PROVE  IInv'
<1> USE DEF IInv
<1>1. CameraTypes'
  BY Longer DEF CameraTypes, Kept
<1>2. FeedTypes'
  <2>1. UnitsOf(nals) \subseteq Positive
    BY UnitsArePositive
  <2> QED
    BY <2>1 DEF FeedTypes, Kept, Return
<1>4. fragment' # <<>> => Growing(fragment[1])'
  <2> SUFFICES ASSUME fragment # <<>> PROVE Growing(fragment[1])'
    BY DEF Kept
  <2> DEFINE f == fragment[1]
  <2>1. f \in Nals /\ Growing(f)
    BY DEF FeedTypes
  <2>2. lost \subseteq lost' /\ fragment' = fragment
    BY DEF Kept
  <2> QED
    BY <2>1, <2>2, GrowingStays
<1>5. DamageNeedsGap'
  BY DEF DamageNeedsGap, IsSent, Kept, Return
<1> QED
  BY <1>1, <1>2, <1>4, <1>5

\* A first packet of which nothing was returned.
LEMMA BeginWasted ==
    ASSUME IInv, part = 0, part' \in Nat, Halfway',
           NEW r \in SentUnits, sent' = sent \o <<r>>,
           UNCHANGED <<codec, others, ended>>,
           NEW came \in SUBSET Positive, NEW gone \in SUBSET Pairs,
           Kept(<<>>, came, gone)
    PROVE  IInv'
<1> DEFINE units == <<r>>
           nals == <<>>
<1>1. units \in Seq(SentUnits) /\ Len(units) > 0 /\ nals \in Seq(Nals) /\ DOMAIN nals = {}
  OBVIOUS
<1>2. sent' = sent \o units /\ Kept(nals, came, gone)
  OBVIOUS
<1> HIDE DEF units, nals
<1> QED
  BY <1>1, <1>2, BeginKeeps

\* A later fragment that was not taken up: it was lost, or came to nothing.
LEMMA PassKeeps ==
    ASSUME IInv, part > 0, NEW came \in SUBSET Positive, NEW gone \in SUBSET Pairs,
           Kept(<<>>, came, gone), UNCHANGED <<codec, sent, others, ended>>,
           fragment # <<>> => <<Len(sent), part + 1>> \in gone,
           part' \in {0, part + 1}, Halfway'
    PROVE  IInv'
<1> USE DEF IInv
<1>1. CameraTypes'
  BY DEF CameraTypes, Kept
<1>2. FeedTypes'
  BY NothingOf DEF FeedTypes, Kept, Return
<1>3. fragment' # <<>> => Growing(fragment[1])'
  <2> SUFFICES ASSUME fragment # <<>> PROVE Growing(fragment[1])'
    BY DEF Kept
  <2> DEFINE f == fragment[1]
             n == Len(f.parts)
  <2>1. f \in Nals /\ Growing(f) /\ f' = f
    BY DEF FeedTypes, Kept
  <2>2. n > 0 /\ n \in Nat /\ Reached(f.parts[n]) /\ f.parts \in Seq(Pairs)
    BY <2>1 DEF Growing, Nals, Pairs, Positive
  <2>3. PICK u \in DOMAIN sent :
            f.parts[1] = <<u, 1>> /\ (Prefix(f, u, n) \/ HasGap(f))
    BY <2>1 DEF Growing
  <2>4. lost \subseteq lost' /\ <<Len(sent), part + 1>> \in lost' /\ sent' = sent
    BY DEF Kept
  <2> HIDE DEF f
  <2>5. Reached(f.parts[n])'
    <3>1. f.parts[n] \in Pairs
      BY <2>2
    <3>2. f.parts[n][2] \in Nat /\ part \in Nat
      BY <3>1 DEF Pairs, Positive, CameraTypes
    <3> QED
      BY <2>1, <2>2, <2>4, <3>2 DEF Reached
  <2>6. Prefix(f, u, n)' \/ HasGap(f)'
    <3>1. CASE Prefix(f, u, n)
      <4>1. <<u, n + 1>> \in lost'
        BY <2>4, <3>1 DEF Prefix
      <4> QED
        BY <2>1, <2>4, <3>1, <4>1 DEF Prefix
    <3>2. CASE HasGap(f)
      BY <2>1, <2>4, <3>2, GapStays DEF HasGap
    <3> QED
      BY <2>3, <3>1, <3>2
  <2>7. Growing(f)'
    BY <2>1, <2>2, <2>3, <2>4, <2>5, <2>6 DEF Growing
  <2> QED
    BY <2>7 DEF f
<1>4. DamageNeedsGap'
  BY DEF DamageNeedsGap, Kept, Return
<1> QED
  BY <1>1, <1>2, <1>3, <1>4

-----------------------------------------------------------------------------
(* The fragments of a unit.                                                *)

\* A fragment that was taken up: what it completes is whole or has a gap, and
\* what it leaves under way is as it should be.
LEMMA GrowKeeps ==
    ASSUME FeedTypes, CameraTypes', Halfway',
           NEW nal \in Nals, NEW fu, NEW given \in {<<>>, fragment},
           Grow(nal, fu, given),
           Ends(fu) => IsSent(nal)' \/ HasGap(nal)',
           ~Ends(fu) => Growing(nal)'
    PROVE  IInv'
<1> DEFINE tooLong == Len(nal.parts) > MaxNal
<1>1. Len(given) \in Nat /\ nal.parts \in Seq(Pairs) /\ MaxNal \in Nat
  BY RtpAssumption DEF FeedTypes, Nals, Pairs, Positive
<1>2. UnitsOf(<<nal>>) \subseteq Positive /\ UnitsOf(<<>>) \subseteq Positive
  <2>1. <<nal>> \in Seq(Nals)
    OBVIOUS
  <2> QED
    BY <2>1, UnitsArePositive, NothingOf
<1>3. /\ fragment' = <<>> \/ (fragment' = <<nal>> /\ ~tooLong /\ ~Ends(fu))
      /\ out' = <<>> \/ (out' = <<nal>> /\ Ends(fu))
      /\ shown' = shown \cup UnitsOf(out')
      /\ skipped' = skipped
      /\ dropped' = dropped + Len(given) + IF tooLong THEN 1 ELSE 0
  BY DEF Grow, Return
<1>4. fragment' # <<>> =>
          fragment'[1] = nal /\ Len(fragment') = 1 /\ ~tooLong /\ ~Ends(fu)
  BY <1>3
<1>5. FeedTypes'
  <2>1. dropped' \in Nat /\ skipped' \in Nat
    BY <1>1, <1>3 DEF FeedTypes
  <2>2. fragment' \in Seq(Nals) /\ Len(fragment') <= 1 /\ out' \in Seq(Nals)
    <3> DEFINE one == <<nal>>
    <3>1. one \in Seq(Nals) /\ Len(one) <= 1 /\ <<>> \in Seq(Nals) /\ Len(<<>>) <= 1
      OBVIOUS
    <3>2. (fragment' = <<>> \/ fragment' = one) /\ (out' = <<>> \/ out' = one)
      BY <1>3
    <3> HIDE DEF one
    <3>3. fragment' \in Seq(Nals) /\ Len(fragment') <= 1
      BY <3>1, <3>2
    <3>4. out' \in Seq(Nals)
      BY <3>1, <3>2
    <3> QED
      BY <3>3, <3>4
  <2>3. shown' \in SUBSET Positive
    BY <1>2, <1>3 DEF FeedTypes
  <2>4. fragment' # <<>> => Len(fragment'[1].parts) <= MaxNal
    BY <1>1, <1>4
  <2> QED
    BY <2>1, <2>2, <2>3, <2>4 DEF FeedTypes
<1>6. fragment' # <<>> => Growing(fragment[1])'
  <2> SUFFICES ASSUME fragment' # <<>> PROVE Growing(fragment[1])'
    OBVIOUS
  <2>1. Growing(nal)' /\ fragment'[1] = nal
    BY <1>4
  <2> QED
    BY <2>1 DEF Growing, Reached, Prefix, HasGap
<1>7. DamageNeedsGap'
  <2> SUFFICES ASSUME NEW i \in DOMAIN out' PROVE IsSent(out[i])' \/ HasGap(out[i])'
    BY DEF DamageNeedsGap
  <2>1. out' = <<nal>> /\ out'[i] = nal /\ Ends(fu)
    BY <1>3
  <2> QED
    BY <2>1 DEF IsSent, HasGap
<1> QED
  BY <1>5, <1>6, <1>7 DEF IInv

\* A gap is still one when a later part is put at the end.
LEMMA GapGrows ==
    ASSUME NEW f \in Nals, f.parts # <<>>, HasGap(f), lost \in SUBSET Pairs,
           NEW y \in Pairs,
           LET x == f.parts[Len(f.parts)] IN Before(x, y),
           NEW h, lost' = lost
    PROVE  HasGap(Nal(h, f.parts \o <<y>>))'
<1> DEFINE g == f.parts \o <<y>>
           n == Len(f.parts)
<1>1. f.parts \in Seq(Pairs) /\ n \in Nat /\ n > 0
  BY DEF Nals, Pairs, Positive
<1>2. Len(g) = n + 1 /\ g[1] = f.parts[1] /\ g[Len(g)] = y
  BY <1>1
<1>3. PICK x \in lost : Before(f.parts[1], x) /\ Before(x, f.parts[n])
  BY DEF HasGap
<1>4. Before(x, y)
  <2>1. x \in Pairs /\ f.parts[n] \in Pairs
    BY <1>1
  <2> QED
    BY <1>3, <2>1 DEF Before, Pairs, Positive
<1> HIDE DEF g
<1>5. Before(g[1], x) /\ Before(x, g[Len(g)])
  BY <1>2, <1>3, <1>4
<1>6. Nal(h, g).parts = g
  BY DEF Nal
<1>7. HasGap(Nal(h, g))'
  BY <1>5, <1>6 DEF HasGap
<1> QED
  BY <1>7 DEF g

\* The first fragment of the next unit keeps the invariant.
LEMMA FirstKeeps == IInv /\ SendFirst => IInv'
<1> SUFFICES ASSUME IInv, SendFirst PROVE IInv'
  OBVIOUS
<1>0. PICK u : u = Len(sent) + 1
  OBVIOUS
<1>1. PICK h \in Heads[codec], n \in FragmentCounts :
          /\ sent' = sent \o <<[head |-> h, parts |-> n]>>
          /\ Travels(Fragment(u, h, 1, n))
  BY <1>0 DEF SendFirst, Begin
<1> DEFINE r == [head |-> h, parts |-> n]
<1>2. /\ part = 0 /\ part' = 1 /\ UNCHANGED <<codec, others, ended>>
      /\ codec \in Codecs /\ sent \in Seq(SentUnits) /\ lost \in SUBSET Pairs
      /\ arrived \in SUBSET Positive /\ others \in Nat /\ ended \in BOOLEAN
  BY <1>1 DEF SendFirst, Travels, IInv, CameraTypes
<1>3. h \in 0 .. 127 /\ n \in Nat /\ n > 1
  <2>1. n \in Nat \ {0, 1}
    BY RtpAssumption
  <2>2. h \in 0 .. 127
    BY <1>2, SingleHead
  <2> QED
    BY <2>1, <2>2
<1>4. u \in Positive /\ <<u, 1>> \in Pairs
  BY <1>0, <1>2 DEF Positive, Pairs
<1>5. <<r>> \in Seq(SentUnits) /\ Len(<<r>>) = 1 /\ <<r>>[1] = r
  BY <1>3 DEF SentUnits, Byte, Positive
<1>6. /\ sent' \in Seq(SentUnits) /\ Len(sent') = u
      /\ u \in DOMAIN sent' /\ sent'[u] = r
  BY <1>0, <1>1, <1>2, <1>5, Longer
<1>7. Halfway'
  BY <1>2, <1>3, <1>6 DEF Halfway
<1>8. ASSUME NEW came \in SUBSET {u}, NEW gone \in SUBSET {<<u, 1>>},
             Kept(<<>>, came, gone)
      PROVE  IInv'
  <2>1. part' \in Nat /\ r \in SentUnits /\ sent' = sent \o <<r>>
    BY <1>1, <1>2, <1>3 DEF SentUnits, Byte, Positive
  <2>2. came \in SUBSET Positive /\ gone \in SUBSET Pairs
    BY <1>4
  <2> HIDE DEF r
  <2> QED
    BY <1>2, <1>7, <1>8, <2>1, <2>2, BeginWasted
<1>9. ASSUME arrived' = arrived \cup {u}, lost' = lost,
             Grow(Nal(h, <<<<u, 1>>>>), FuHeader(h, 1, n), fragment)
      PROVE  IInv'
  <2> DEFINE nal == Nal(h, <<<<u, 1>>>>)
             fu == FuHeader(h, 1, n)
  <2>1. nal \in Nals /\ nal.parts = <<<<u, 1>>>> /\ Len(nal.parts) = 1
    BY <1>3, <1>4 DEF Nal, Nals, Byte, Positive, Pairs
  <2>2. CameraTypes'
    BY <1>2, <1>4, <1>6, <1>9 DEF CameraTypes
  <2>3. ~Ends(fu)
    BY <1>2, <1>3, FragmentHead
  <2>4. Growing(nal)'
    <3>1. nal = Nal(h, Parts(u, 1))
      BY <1>4, OfPart DEF Positive
    <3>2. Prefix(nal, u, 1)'
      BY <1>2, <1>3, <1>6, <3>1 DEF Prefix
    <3>3. Reached(nal.parts[1])'
      BY <1>2, <1>6, <2>1 DEF Reached
    <3> HIDE DEF nal
    <3> QED
      BY <1>6, <2>1, <3>2, <3>3 DEF Growing
  <2>5. FeedTypes
    BY DEF IInv
  <2>6. Grow(nal, fu, fragment)
    BY <1>9
  <2> HIDE DEF nal, fu
  <2> QED
    BY <1>7, <2>1, <2>2, <2>3, <2>4, <2>5, <2>6, GrowKeeps
<1> QED
  <2>1. \/ \E came \in SUBSET {u} : Kept(<<>>, came, {<<u, 1>>})
        \/ fragment = <<>> /\ Kept(<<>>, {u}, {})
        \/ /\ arrived' = arrived \cup {u} /\ lost' = lost
           /\ Grow(Nal(h, <<<<u, 1>>>>), FuHeader(h, 1, n), fragment)
    <3>1. u \in Nat /\ 1 \in Nat
      BY <1>4 DEF Positive
    <3> QED
      BY <1>1, <1>2, <1>3, <3>1, FragmentTravels
  <2> QED
    BY <1>8, <1>9, <2>1

\* A later fragment that was taken up by what is under way.
LEMMA ExtensionKeeps ==
    ASSUME IInv, part > 0, fragment # <<>>, UNCHANGED <<codec, sent, others, ended>>,
           NEW u, u = Len(sent), NEW k, k = part + 1, NEW n, n = sent[u].parts,
           part' = (IF k = n THEN 0 ELSE k),
           arrived' = arrived \cup {u}, lost' = lost, NEW fu, Ends(fu) <=> k = n,
           Grow(Nal(fragment[1].head, fragment[1].parts \o <<<<u, k>>>>), fu, <<>>)
    PROVE  IInv'
<1>1. /\ CameraTypes /\ FeedTypes /\ Halfway /\ Growing(fragment[1])
      /\ part \in Nat /\ k \in Nat /\ sent \in Seq(SentUnits) /\ lost \in SUBSET Pairs
      /\ fragment[1] \in Nals
  BY DEF IInv, CameraTypes, FeedTypes
<1>2. PICK f \in Nals : f = fragment[1]
  BY <1>1
<1>3. PICK m : m = Len(f.parts)
  OBVIOUS
<1>4. /\ m \in Nat /\ m > 0 /\ Reached(f.parts[m]) /\ f.parts \in Seq(Pairs)
      /\ \A j \in 1 .. m : f.parts[j] \in Pairs
  <2>1. f.parts \in Seq(Pairs)
    BY DEF Nals, Pairs, Positive
  <2> QED
    BY <1>1, <1>2, <1>3, <2>1 DEF Growing
<1>5. PICK v \in DOMAIN sent : f.parts[1] = <<v, 1>> /\ (Prefix(f, v, m) \/ HasGap(f))
  BY <1>1, <1>2, <1>3 DEF Growing
<1>6. u \in DOMAIN sent /\ u \in Positive /\ n \in Positive /\ k <= n /\ k > 1
  <2>1. Len(sent) \in Nat /\ sent # <<>> /\ part < n
    BY <1>1 DEF Halfway
  <2>2. u \in DOMAIN sent
    BY <1>1, <2>1
  <2>3. sent[u] \in SentUnits
    BY <1>1, <2>2
  <2> QED
    BY <1>1, <2>1, <2>2, <2>3 DEF SentUnits, Positive
<1>7. <<u, k>> \in Pairs /\ <<<<u, k>>>> \in Seq(Pairs) /\ Len(<<<<u, k>>>>) = 1
  BY <1>1, <1>6 DEF Pairs, Positive
<1>8. PICK g : g = f.parts \o <<<<u, k>>>>
  OBVIOUS
<1>9. /\ g \in Seq(Pairs) /\ Len(g) = m + 1 /\ g[1] = f.parts[1] /\ g[m + 1] = <<u, k>>
  BY <1>3, <1>4, <1>7, <1>8
<1>10. PICK nal : nal = Nal(f.head, g)
  OBVIOUS
<1>11. nal \in Nals /\ nal.parts = g /\ nal.head = f.head
  BY <1>9, <1>10 DEF Nal, Nals, Pairs, Positive
<1>12. CameraTypes' /\ Halfway'
  <2>1. part' \in Nat /\ (part' > 0 => part' < n)
    BY <1>1, <1>6 DEF Positive
  <2>2. sent[Len(sent)].head \in Heads[codec] /\ sent # <<>>
    BY <1>1 DEF Halfway
  <2> QED
    BY <1>1, <1>6, <2>1, <2>2 DEF CameraTypes, Halfway
<1>13. Reached(g[m + 1])'
  BY <1>1, <1>9 DEF Reached
<1>14. HasGap(nal)' \/ (nal = Nal(sent[u].head, Parts(u, k)) /\ v = u /\ m + 1 = k)
  <2>1. CASE HasGap(f)
    <3>1. f.parts # <<>> /\ Before(f.parts[Len(f.parts)], <<u, k>>)
      <4>1. f.parts[m] \in Pairs
        BY <1>4
      <4>2. f.parts[m][1] \in Nat /\ f.parts[m][2] \in Nat
        BY <4>1 DEF Pairs, Positive
      <4> QED
        BY <1>1, <1>3, <1>4, <4>2 DEF Reached, Before
    <3> QED
      BY <1>1, <1>7, <1>8, <1>10, <2>1, <3>1, GapGrows
  <2>2. CASE Prefix(f, v, m) /\ v = Len(sent) /\ part = m
    <3>1. f = Nal(sent[u].head, Parts(u, m)) /\ k = m + 1
      BY <2>2 DEF Prefix
    <3>2. f.parts = Parts(u, m) /\ f.head = sent[u].head
      BY <3>1 DEF Nal
    <3>3. g = Parts(u, k)
      BY <1>4, <1>6, <1>8, <3>1, <3>2, PartsGrow
    <3> QED
      BY <1>10, <2>2, <3>1, <3>2, <3>3
  <2>3. CASE Prefix(f, v, m) /\ <<v, m + 1>> \in lost /\ ~(v = Len(sent) /\ part = m)
    <3>1. f.parts[m] = <<v, m>>
      <4>1. v \in Positive /\ f.parts = Parts(v, m)
        BY <1>1, <2>3 DEF Prefix, Nal, Positive
      <4>2. Parts(v, m)[m] = <<v, m>>
        <5>1. m \in 1 .. m
          BY <1>4
        <5> QED
          BY <1>4, <4>1, <5>1, PartsType
      <4> QED
        BY <4>1, <4>2
    <3>2. v < u \/ (v = u /\ m < part)
      BY <1>1, <1>4, <2>3, <3>1 DEF Reached
    <3>3. Before(<<v, 1>>, <<v, m + 1>>) /\ Before(<<v, m + 1>>, <<u, k>>)
      BY <1>1, <1>4, <3>2 DEF Before
    <3> QED
      BY <1>5, <1>9, <1>11, <2>3, <3>3 DEF HasGap
  <2> QED
    BY <1>5, <2>1, <2>2, <2>3 DEF Prefix
<1>15. Ends(fu) => IsSent(nal)' \/ HasGap(nal)'
  BY <1>6, <1>14 DEF IsSent
<1>16. ~Ends(fu) => Growing(nal)'
  <2> SUFFICES ASSUME k # n PROVE Growing(nal)'
    OBVIOUS
  <2>1. k < n /\ part' = k
    BY <1>1, <1>6 DEF Positive
  <2>2. HasGap(nal)' \/ Prefix(nal, v, m + 1)'
    BY <1>14, <2>1 DEF Prefix
  <2>3. Len(nal.parts) = m + 1 /\ m + 1 > 0 /\ nal.parts[1] = <<v, 1>> /\ v \in DOMAIN sent'
    BY <1>4, <1>5, <1>9, <1>11
  <2> QED
    BY <1>11, <1>13, <2>2, <2>3 DEF Growing
<1> QED
  <2>1. Grow(nal, fu, <<>>)
    BY <1>2, <1>8, <1>10
  <2> QED
    BY <1>1, <1>11, <1>12, <1>15, <1>16, <2>1, GrowKeeps

\* A later fragment keeps the invariant.
LEMMA NextKeeps == IInv /\ SendNext => IInv'
<1> SUFFICES ASSUME IInv, SendNext PROVE IInv'
  OBVIOUS
<1>1. PICK u : u = Len(sent)
  OBVIOUS
<1>2. PICK h, n, k : h = sent[u].head /\ n = sent[u].parts /\ k = part + 1
  OBVIOUS
<1>3. /\ part > 0 /\ part' = (IF k = n THEN 0 ELSE k)
      /\ Travels(Fragment(u, h, k, n))
      /\ UNCHANGED <<codec, sent, others, ended>>
  BY <1>1, <1>2 DEF SendNext, Travels
<1>4. /\ part \in Nat /\ sent \in Seq(SentUnits) /\ codec \in Codecs
      /\ sent # <<>> /\ h \in Heads[codec] /\ part < n
  BY <1>1, <1>2, <1>3 DEF IInv, CameraTypes, Halfway
<1>5. u \in Positive /\ n \in Positive /\ k \in Positive /\ u \in Nat /\ n \in Nat
      /\ k \in Nat /\ k <= n /\ k # 1
  <2>1. u \in DOMAIN sent /\ u \in Positive
    BY <1>1, <1>4 DEF Positive
  <2>2. sent[u] \in SentUnits
    BY <1>4, <2>1
  <2> QED
    BY <1>2, <1>3, <1>4, <2>1, <2>2 DEF SentUnits, Positive
<1>6. ASSUME NEW came \in SUBSET {u}, NEW gone \in SUBSET {<<u, k>>},
             Kept(<<>>, came, gone), fragment # <<>> => <<u, k>> \in gone
      PROVE  IInv'
  <2>1. came \in SUBSET Positive /\ gone \in SUBSET Pairs
    BY <1>5 DEF Pairs
  <2>2. Halfway'
    BY <1>1, <1>2, <1>3, <1>4, <1>5 DEF Halfway
  <2> QED
    BY <1>1, <1>2, <1>3, <1>6, <2>1, <2>2, PassKeeps
<1>7. ASSUME arrived' = arrived \cup {u}, lost' = lost, fragment # <<>>,
             Grow(Nal(fragment[1].head, fragment[1].parts \o <<<<u, k>>>>),
                  FuHeader(h, k, n), <<>>)
      PROVE  IInv'
  <2>1. PICK fu : fu = FuHeader(h, k, n)
    OBVIOUS
  <2>2. Ends(fu) <=> k = n
    BY <1>4, <1>5, <2>1, FragmentHead
  <2> QED
    BY <1>1, <1>2, <1>3, <1>7, <2>1, <2>2, ExtensionKeeps
<1> QED
  <2>1. \/ \E came \in SUBSET {u} : Kept(<<>>, came, {<<u, k>>})
        \/ fragment = <<>> /\ Kept(<<>>, {u}, {})
        \/ /\ arrived' = arrived \cup {u} /\ lost' = lost /\ fragment # <<>>
           /\ Grow(Nal(fragment[1].head, fragment[1].parts \o <<<<u, k>>>>),
                   FuHeader(h, k, n), <<>>)
    BY <1>3, <1>4, <1>5, FragmentTravels, ZenonT(60)
  <2> QED
    BY <1>6, <1>7, <2>1

-----------------------------------------------------------------------------
(* The steps with whole units, and those without any.                      *)

\* A unit in a packet of its own keeps the invariant.
LEMMA SingleKeeps == IInv /\ SendSingle => IInv'
<1> SUFFICES ASSUME IInv, SendSingle PROVE IInv'
  OBVIOUS
<1>1. PICK u : u = Len(sent) + 1
  OBVIOUS
<1>2. PICK h, r, nal :
          /\ h \in Heads[codec]
          /\ r = [head |-> h, parts |-> 1] /\ nal = Nal(h, Parts(u, 1))
          /\ sent' = sent \o <<r>>
          /\ Travels(Packet(h, 0, <<nal>>))
  BY <1>1 DEF SendSingle, Begin
<1>3. /\ part = 0 /\ part' = 0 /\ UNCHANGED <<codec, others, ended>>
      /\ codec \in Codecs /\ sent \in Seq(SentUnits)
  BY <1>2 DEF SendSingle, Travels, IInv, CameraTypes
<1>4. h \in 0 .. 127 /\ ~IsAggregate(h) /\ ~IsFragment(h)
  BY <1>2, <1>3, SingleHead
<1>5. u \in Positive /\ u \in Nat
  BY <1>1, <1>3 DEF Positive
<1>6. r \in SentUnits
  BY <1>2, <1>4 DEF SentUnits, Byte, Positive
<1>7. /\ nal \in Nals
      /\ PartsOf(<<nal>>) \subseteq Pairs /\ UnitsOf(<<nal>>) \subseteq Positive
  <2>1. nal = Nal(h, <<<<u, 1>>>>)
    BY <1>2, <1>5, OfPart
  <2> QED
    BY <1>4, <1>5, <2>1, OfPart DEF Nal, Nals, Byte, Positive, Pairs
<1>8. Halfway'
  BY <1>3 DEF Halfway
<1>9. PICK came \in SUBSET UnitsOf(<<nal>>), gone \in SUBSET PartsOf(<<nal>>) :
          Kept(<<>>, came, gone) \/ Kept(<<nal>>, came, gone)
  BY <1>2, <1>4, WholeTravels
<1>10. came \in SUBSET Positive /\ gone \in SUBSET Pairs
  BY <1>7
<1>11. CASE Kept(<<>>, came, gone)
  BY <1>2, <1>3, <1>6, <1>8, <1>10, <1>11, BeginWasted
<1>12. CASE Kept(<<nal>>, came, gone)
  <2>1. PICK units, nals : units = <<r>> /\ nals = <<nal>>
    OBVIOUS
  <2>2. /\ units \in Seq(SentUnits) /\ Len(units) > 0 /\ 1 \in DOMAIN units /\ units[1] = r
        /\ nals \in Seq(Nals) /\ DOMAIN nals = {1} /\ nals[1] = nal
    BY <1>6, <1>7, <2>1
  <2>3. u \in DOMAIN sent' /\ sent'[u] = r
    BY <1>1, <1>2, <1>3, <2>1, <2>2, Longer
  <2>4. \A i \in DOMAIN nals : \E w \in DOMAIN sent' :
            nals[i] = Nal(sent'[w].head, Parts(w, sent'[w].parts))
    BY <1>2, <2>2, <2>3
  <2>5. sent' = sent \o units /\ Kept(nals, came, gone) /\ part' \in Nat
    BY <1>2, <1>3, <1>12, <2>1
  <2> QED
    BY <1>3, <1>8, <1>10, <2>2, <2>4, <2>5, BeginKeeps
<1> QED
  BY <1>9, <1>11, <1>12

\* A unit in a form that is not handled keeps it.
LEMMA OddKeeps == IInv /\ SendOdd => IInv'
<1> SUFFICES ASSUME IInv, SendOdd PROVE IInv'
  OBVIOUS
<1>1. PICK u : u = Len(sent) + 1
  OBVIOUS
<1>2. PICK h, r, nal :
          /\ h \in OddHeads[codec]
          /\ r = [head |-> h, parts |-> 1] /\ nal = Nal(h, Parts(u, 1))
          /\ sent' = sent \o <<r>>
          /\ Travels(Packet(h, 0, <<nal>>))
  BY <1>1 DEF SendOdd, Begin
<1>3. /\ part = 0 /\ part' = 0 /\ UNCHANGED <<codec, others, ended>>
      /\ codec \in Codecs /\ sent \in Seq(SentUnits)
  BY <1>2 DEF SendOdd, Travels, IInv, CameraTypes
<1>4. /\ h \in Byte /\ (Forbidden(h) \/ ~IsSingle(h))
      /\ Forbidden(h) \/ (~IsAggregate(h) /\ ~IsFragment(h))
  BY <1>2, <1>3, OddHead
<1>5. u \in Positive /\ u \in Nat
  BY <1>1, <1>3 DEF Positive
<1>6. r \in SentUnits
  BY <1>2, <1>4 DEF SentUnits, Byte, Positive
<1>7. PartsOf(<<nal>>) \subseteq Pairs /\ UnitsOf(<<nal>>) \subseteq Positive
  <2>1. nal = Nal(h, <<<<u, 1>>>>)
    BY <1>2, <1>5, OfPart
  <2> QED
    BY <1>5, <2>1, OfPart DEF Positive, Pairs
<1>8. Halfway'
  BY <1>3 DEF Halfway
<1>9. PICK came \in SUBSET UnitsOf(<<nal>>), gone \in SUBSET PartsOf(<<nal>>) :
          Kept(<<>>, came, gone)
  BY <1>2, <1>4, WholeTravels, ForbiddenTravels
<1>10. came \in SUBSET Positive /\ gone \in SUBSET Pairs
  BY <1>7
<1> QED
  BY <1>2, <1>3, <1>6, <1>8, <1>9, <1>10, BeginWasted

\* Two units in one packet keep it.
LEMMA AggregateKeeps == IInv /\ SendAggregate => IInv'
<1> SUFFICES ASSUME IInv, SendAggregate PROVE IInv'
  OBVIOUS
<1>1. PICK u, v : u = Len(sent) + 1 /\ v = Len(sent) + 2
  OBVIOUS
<1>2. PICK h, g, r, s, a, b, i :
          /\ h \in Heads[codec] /\ g \in Heads[codec]
          /\ r = [head |-> h, parts |-> 1] /\ a = Nal(h, Parts(u, 1))
          /\ s = [head |-> g, parts |-> 1] /\ b = Nal(g, Parts(v, 1))
          /\ sent' = sent \o <<r, s>>
          /\ i = Indicator(h, AggregateType) /\ Travels(Packet(i, 0, <<a, b>>))
  BY <1>1, ZenonT(60) DEF SendAggregate, Begin, AggregateType
<1>3. /\ part = 0 /\ part' = 0 /\ UNCHANGED <<codec, others, ended>>
      /\ codec \in Codecs /\ sent \in Seq(SentUnits) /\ dropped \in Nat
  BY <1>2 DEF SendAggregate, Travels, IInv, CameraTypes, FeedTypes
<1>4. h \in 0 .. 127 /\ g \in 0 .. 127
  BY <1>2, <1>3, SingleHead
<1>5. ~Forbidden(i) /\ ~IsSingle(i) /\ IsAggregate(i) /\ ~IsFragment(i)
  BY <1>2, <1>3, AggregateHead
<1>6. u \in Positive /\ u \in Nat /\ v \in Positive /\ v \in Nat
  BY <1>1, <1>3 DEF Positive
<1>7. r \in SentUnits /\ s \in SentUnits
  BY <1>2, <1>4 DEF SentUnits, Byte, Positive
<1>8. /\ a \in Nals /\ PartsOf(<<a>>) \subseteq Pairs /\ UnitsOf(<<a>>) \subseteq Positive
      /\ b \in Nals /\ PartsOf(<<b>>) \subseteq Pairs /\ UnitsOf(<<b>>) \subseteq Positive
  <2>1. a = Nal(h, <<<<u, 1>>>>) /\ b = Nal(g, <<<<v, 1>>>>)
    BY <1>2, <1>6, OfPart
  <2>2. a \in Nals /\ b \in Nals
    BY <1>4, <1>6, <2>1 DEF Nal, Nals, Byte, Positive
  <2>3. PartsOf(<<a>>) \subseteq Pairs /\ UnitsOf(<<a>>) \subseteq Positive
    BY <1>6, <2>1, OfPart DEF Positive, Pairs
  <2>4. PartsOf(<<b>>) \subseteq Pairs /\ UnitsOf(<<b>>) \subseteq Positive
    BY <1>6, <2>1, OfPart DEF Positive, Pairs
  <2> QED
    BY <2>2, <2>3, <2>4
<1>9. PICK nals \in {<<>>, <<a>>, <<a, b>>}, came \in SUBSET UnitsOf(<<a, b>>),
           gone \in SUBSET PartsOf(<<a, b>>) : Kept(nals, came, gone)
  BY <1>2, <1>3, <1>5, AggregateTravels
<1>10. came \in SUBSET Positive /\ gone \in SUBSET Pairs
  <2>1. UnitsOf(<<a, b>>) \subseteq Positive
    BY <1>8, OfTwo, ZenonT(60)
  <2>2. PartsOf(<<a, b>>) \subseteq Pairs
    BY <1>8, OfTwo, ZenonT(60)
  <2> QED
    BY <2>1, <2>2
<1>11. PICK units : units = <<r, s>>
  OBVIOUS
<1>12. /\ units \in Seq(SentUnits) /\ Len(units) = 2 /\ DOMAIN units = {1, 2}
       /\ units[1] = r /\ units[2] = s /\ sent' = sent \o units
  BY <1>2, <1>7, <1>11
<1>13. u \in DOMAIN sent' /\ sent'[u] = r /\ v \in DOMAIN sent' /\ sent'[v] = s
  <2>1. \A k \in DOMAIN units : /\ Len(sent) + k \in DOMAIN sent'
                                /\ sent'[Len(sent) + k] = units[k]
    BY <1>3, <1>12, Longer
  <2>2. /\ Len(sent) + 1 \in DOMAIN sent' /\ sent'[Len(sent) + 1] = r
        /\ Len(sent) + 2 \in DOMAIN sent' /\ sent'[Len(sent) + 2] = s
    <3>1. 1 \in DOMAIN units /\ 2 \in DOMAIN units
      BY <1>12
    <3> QED
      BY <1>12, <2>1, <3>1
  <2> QED
    BY <1>1, <2>2
<1>14. \A nal \in {a, b} : \E w \in DOMAIN sent' :
           nal = Nal(sent'[w].head, Parts(w, sent'[w].parts))
  BY <1>2, <1>13
<1>15. nals \in Seq(Nals) /\ \A k \in DOMAIN nals : nals[k] \in {a, b}
  <2>1. CASE nals = <<>>
    BY <2>1
  <2>2. CASE nals = <<a>>
    BY <1>8, <2>2
  <2>3. CASE nals = <<a, b>>
    BY <1>8, <2>3
  <2> QED
    BY <1>9, <2>1, <2>2, <2>3
<1>16. part' \in Nat /\ Halfway' /\ Len(units) > 0
  BY <1>3, <1>12 DEF Halfway
<1>17. \A k \in DOMAIN nals : \E w \in DOMAIN sent' :
           nals[k] = Nal(sent'[w].head, Parts(w, sent'[w].parts))
  BY <1>14, <1>15
<1> QED
  BY <1>3, <1>9, <1>10, <1>12, <1>15, <1>16, <1>17, BeginKeeps

\* Other packets, the end and no step at all keep it.
LEMMA RestKeeps == IInv /\ (SendOther \/ Flush \/ UNCHANGED vars) => IInv'
<1> SUFFICES ASSUME IInv, SendOther \/ Flush \/ UNCHANGED vars PROVE IInv'
  OBVIOUS
<1> USE DEF IInv
<1>1. CASE UNCHANGED vars
  BY <1>1 DEF vars, feedVars, cameraVars, CameraTypes, FeedTypes, Halfway,
              Growing, Reached, Prefix, HasGap, DamageNeedsGap, IsSent
<1>2. CASE SendOther \/ Flush
  <2>1. /\ UNCHANGED <<codec, sent, part, lost, arrived>> /\ out' = <<>>
        /\ shown' = shown /\ fragment' \in {fragment, <<>>}
        /\ dropped' \in Nat /\ skipped' \in Nat /\ others' \in Nat
        /\ ended' \in BOOLEAN
    <3>1. Len(fragment) \in Nat /\ dropped \in Nat /\ skipped \in Nat /\ others \in Nat
          /\ ended \in BOOLEAN
      BY DEF FeedTypes, CameraTypes
    <3>2. Return(<<>>) => out' = <<>> /\ shown' = shown
      BY NothingOf DEF Return
    <3>3. CASE SendOther
      <4>1. PICK media \in BOOLEAN : FeedOther(media)
        BY <3>3 DEF SendOther
      <4> QED
        BY <3>1, <3>2, <3>3, <4>1 DEF SendOther, FeedOther
    <3>4. CASE Flush
      BY <3>1, <3>2, <3>4 DEF Flush, cameraVars
    <3> QED
      BY <1>2, <3>3, <3>4
  <2>2. CameraTypes' /\ Halfway'
    BY <2>1 DEF CameraTypes, Halfway
  <2>3. FeedTypes'
    <3>1. fragment' = fragment \/ fragment' = <<>>
      BY <2>1
    <3>2. out' \in Seq(Nals)
      BY <2>1
    <3>3. fragment' \in Seq(Nals) /\ Len(fragment') <= 1
      <4>1. <<>> \in Seq(Nals) /\ Len(<<>>) <= 1
        OBVIOUS
      <4> QED
        BY <3>1, <4>1 DEF FeedTypes
    <3>4. fragment' # <<>> => Len(fragment'[1].parts) <= MaxNal
      BY <3>1 DEF FeedTypes
    <3> QED
      BY <2>1, <3>2, <3>3, <3>4 DEF FeedTypes
  <2>4. fragment' # <<>> => Growing(fragment[1])'
    BY <2>1 DEF Growing, Reached, Prefix, HasGap
  <2>5. DamageNeedsGap'
    BY <2>1 DEF DamageNeedsGap
  <2> QED
    BY <2>2, <2>3, <2>4, <2>5
<1> QED
  BY <1>1, <1>2

\* Every step keeps it.
LEMMA NextIInv == IInv /\ [Next]_vars => IInv'
BY SingleKeeps, OddKeeps, AggregateKeeps, FirstKeeps, NextKeeps, RestKeeps DEF Next

\* The invariant holds of every reachable state.
THEOREM Invariance == Spec => []IInv
BY InitIInv, NextIInv, PTL DEF Spec

\* What the depacketizer holds is at most one unit, no longer than it may be,
\* and its numbers never leave their range.
THEOREM TypeCorrect == Spec => []TypeOK
<1>1. IInv => TypeOK
  BY TypesAreTypeOK DEF IInv
<1> QED
  BY <1>1, Invariance, PTL

\* A returned unit is as the camera sent it, or lost a fragment in its middle.
THEOREM OnlyLossDamages == Spec => []DamageNeedsGap
<1>1. IInv => DamageNeedsGap
  BY DEF IInv
<1> QED
  BY <1>1, Invariance, PTL

-----------------------------------------------------------------------------
(* Loss is a number.                                                       *)

\* One step of NoSilentLoss.
Counted == Gone' \subseteq Gone \/ dropped' > dropped

\* Whatever arrived and was not taken up was returned or counted.
LEMMA KeptCounts ==
    ASSUME dropped \in Nat, NEW nals, NEW came, NEW gone, Kept(nals, came, gone)
    PROVE  Counted
BY DEF Kept, Counted, Gone, Return

\* A fragment that was taken up is returned or under way, and with it what was
\* under way before it, unless a new start replaced that.
LEMMA GrowCounts ==
    ASSUME FeedTypes, NEW nal, NEW fu, NEW u, NEW given,
           arrived' = arrived \cup {u}, u \in UnitsOf(<<nal>>),
           UnitsOf(fragment) \subseteq UnitsOf(<<nal>>) \/ given = fragment,
           given \in {<<>>, fragment},
           Grow(nal, fu, given)
    PROVE  Counted
<1>1. Len(given) \in Nat /\ (given = <<>> \/ Len(given) > 0) /\ dropped \in Nat
  BY DEF FeedTypes
<1>2. CASE dropped' > dropped
  BY <1>2 DEF Counted
<1>3. CASE ~(dropped' > dropped)
  <2>1. given = <<>> /\ (fragment' = <<nal>> \/ out' = <<nal>>)
    BY <1>1, <1>3 DEF Grow, Return
  <2>2. UnitsOf(fragment) \subseteq UnitsOf(<<nal>>)
    BY <2>1, NothingOf
  <2>3. shown' = shown \cup UnitsOf(out')
    BY DEF Grow, Return
  <2>4. UnitsOf(<<nal>>) \subseteq shown' \cup UnitsOf(fragment)'
    BY <2>1, <2>3 DEF UnitsOf
  <2>5. Gone' \subseteq Gone
    BY <2>2, <2>3, <2>4 DEF Gone
  <2> QED
    BY <2>5 DEF Counted
<1> QED
  BY <1>2, <1>3

\* The units of what is under way are among those of what it grows into.
LEMMA UnitsGrow ==
    ASSUME fragment \in Seq(Nals), Len(fragment) = 1, NEW h, NEW y \in Pairs
    PROVE  LET nal == Nal(h, fragment[1].parts \o <<y>>) IN
           UnitsOf(fragment) \subseteq UnitsOf(<<nal>>) /\ y[1] \in UnitsOf(<<nal>>)
<1>1. PICK f \in Nals : fragment = <<f>> /\ f = fragment[1]
  OBVIOUS
<1>2. PICK g : g = f.parts \o <<y>>
  OBVIOUS
<1>3. PICK nal : nal = Nal(h, g)
  OBVIOUS
<1>4. f.parts \in Seq(Pairs)
  BY DEF Nals, Pairs, Positive
<1>5. /\ \A k \in DOMAIN f.parts : k \in DOMAIN g /\ g[k] = f.parts[k]
      /\ Len(f.parts) + 1 \in DOMAIN g /\ g[Len(f.parts) + 1] = y
  BY <1>2, <1>4
<1>6. /\ UnitsOf(<<f>>) = {f.parts[k][1] : k \in DOMAIN f.parts}
      /\ UnitsOf(<<nal>>) = {nal.parts[k][1] : k \in DOMAIN nal.parts}
  BY OfOne
<1>7. UnitsOf(<<f>>) \subseteq UnitsOf(<<nal>>) /\ y[1] \in UnitsOf(<<nal>>)
  <2>1. nal.parts = g
    BY <1>3 DEF Nal
  <2> QED
    BY <1>5, <1>6, <2>1
<1> QED
  BY <1>1, <1>2, <1>3, <1>7

\* Every fragment counts.
LEMMA FragmentCounted ==
    ASSUME FeedTypes, codec \in Codecs, NEW h \in Heads[codec], NEW u \in Positive,
           NEW k \in Positive, NEW n \in Nat, Travels(Fragment(u, h, k, n))
    PROVE  Counted
<1>1. dropped \in Nat /\ fragment \in Seq(Nals) /\ Len(fragment) <= 1
  BY DEF FeedTypes
<1>2. PICK y, fu : y = <<u, k>> /\ fu = FuHeader(h, k, n)
  OBVIOUS
<1>3. u \in Nat /\ k \in Nat /\ y \in Pairs /\ y[1] = u
  BY <1>2 DEF Positive, Pairs
<1>4. CASE \E came \in SUBSET {u} : Kept(<<>>, came, {y})
  BY <1>1, <1>4, KeptCounts
<1>5. CASE Kept(<<>>, {u}, {})
  BY <1>1, <1>5, KeptCounts
<1>6. CASE arrived' = arrived \cup {u} /\ Grow(Nal(h, <<y>>), fu, fragment)
  <2>1. u \in UnitsOf(<<Nal(h, <<y>>)>>)
    BY <1>2, <1>3, OfPart
  <2> QED
    BY <1>6, <2>1, GrowCounts
<1>7. CASE /\ arrived' = arrived \cup {u} /\ fragment # <<>>
           /\ Grow(Nal(fragment[1].head, fragment[1].parts \o <<y>>), fu, <<>>)
  <2>1. PICK nal : nal = Nal(fragment[1].head, fragment[1].parts \o <<y>>)
    OBVIOUS
  <2>2. Len(fragment) = 1
    BY <1>1, <1>7
  <2>3. UnitsOf(fragment) \subseteq UnitsOf(<<nal>>) /\ u \in UnitsOf(<<nal>>)
    BY <1>1, <1>3, <2>1, <2>2, UnitsGrow
  <2> QED
    BY <1>7, <2>1, <2>3, GrowCounts
<1> QED
  BY <1>2, <1>3, <1>4, <1>5, <1>6, <1>7, FragmentTravels

\* Every step counts.
LEMMA StepCounts == IInv /\ [Next]_vars => Counted \/ UNCHANGED vars
<1> SUFFICES ASSUME IInv, Next PROVE Counted
  OBVIOUS
<1>1. /\ FeedTypes /\ CameraTypes /\ Halfway /\ dropped \in Nat /\ codec \in Codecs
      /\ sent \in Seq(SentUnits) /\ part \in Nat
  BY DEF IInv, FeedTypes, CameraTypes
<1>2. CASE SendSingle
  <2>1. PICK h, nal : h \in Heads[codec] /\ Travels(Packet(h, 0, <<nal>>))
    BY <1>2 DEF SendSingle
  <2> QED
    BY <1>1, <2>1, SingleHead, WholeTravels, KeptCounts
<1>3. CASE SendOdd
  <2>1. PICK h, nal : h \in OddHeads[codec] /\ Travels(Packet(h, 0, <<nal>>))
    BY <1>3 DEF SendOdd
  <2> QED
    BY <1>1, <2>1, OddHead, WholeTravels, ForbiddenTravels, KeptCounts
<1>4. CASE SendAggregate
  <2>1. PICK h, i, a, b :
            /\ h \in Heads[codec]
            /\ i = Indicator(h, AggregateType) /\ Travels(Packet(i, 0, <<a, b>>))
    BY <1>4 DEF SendAggregate, AggregateType
  <2>2. ~Forbidden(i) /\ ~IsSingle(i) /\ IsAggregate(i) /\ ~IsFragment(i)
    BY <1>1, <2>1, AggregateHead
  <2> QED
    BY <1>1, <2>1, <2>2, AggregateTravels, KeptCounts
<1>5. CASE SendFirst
  <2>1. PICK u : u = Len(sent) + 1
    OBVIOUS
  <2>2. PICK h \in Heads[codec], n \in FragmentCounts : Travels(Fragment(u, h, 1, n))
    BY <1>5, <2>1 DEF SendFirst
  <2>3. n \in Nat
    BY RtpAssumption
  <2>4. u \in Positive /\ 1 \in Positive
    BY <1>1, <2>1 DEF Positive
  <2> QED
    BY <1>1, <2>2, <2>3, <2>4, FragmentCounted
<1>6. CASE SendNext
  <2>1. PICK u, h, n, k : /\ u = Len(sent) /\ h = sent[u].head /\ n = sent[u].parts
                          /\ k = part + 1
    OBVIOUS
  <2>2. Travels(Fragment(u, h, k, n)) /\ part > 0
    BY <1>6, <2>1 DEF SendNext
  <2>3. h \in Heads[codec] /\ sent # <<>>
    BY <1>1, <2>1, <2>2 DEF Halfway
  <2>4. u \in DOMAIN sent /\ u \in Positive /\ k \in Positive
    BY <1>1, <2>1, <2>3 DEF Positive
  <2>5. sent[u] \in SentUnits
    BY <1>1, <2>4
  <2>6. n \in Nat
    BY <2>1, <2>5 DEF SentUnits, Positive
  <2> QED
    BY <1>1, <2>2, <2>3, <2>4, <2>6, FragmentCounted
<1>7. CASE SendOther
  <2>1. PICK media \in BOOLEAN : FeedOther(media)
    BY <1>7 DEF SendOther
  <2> QED
    BY <1>7, <2>1, NothingOf DEF SendOther, FeedOther, Return, Counted, Gone
<1>8. CASE Flush
  <2>1. fragment = <<>> \/ Len(fragment) > 0
    BY <1>1 DEF FeedTypes
  <2>2. CASE Len(fragment) > 0
    BY <1>1, <1>8, <2>2 DEF Flush, FeedTypes, Counted
  <2>3. CASE fragment = <<>>
    BY <1>8, <2>3, NothingOf DEF Flush, Return, Counted, Gone
  <2> QED
    BY <2>1, <2>2, <2>3
<1> QED
  BY <1>2, <1>3, <1>4, <1>5, <1>6, <1>7, <1>8 DEF Next

\* No unit of which anything arrived vanishes without being counted.
THEOREM LossIsANumber == Spec => NoSilentLoss
<1>1. IInv /\ [Next]_vars => [Gone' \subseteq Gone \/ dropped' > dropped]_vars
  BY StepCounts DEF Counted
<1> QED
  BY <1>1, Invariance, PTL DEF Spec, NoSilentLoss
=============================================================================
