------------------------- MODULE CloudSession_proofs -------------------------
(***************************************************************************)
(* CloudSession's safety, for any number of redirects, with a deadline for  *)
(* the first video or without: its two invariants, and that every step of   *)
(* it is a step of SessionContract or changes nothing the owner sees.       *)
(*                                                                         *)
(* The inductive invariant says what each place in run() knows of the       *)
(* connections, of the processes and of the cancel flag, and what the one   *)
(* abort() on its way still has to do.                                      *)
(***************************************************************************)
EXTENDS CloudSession, TLAPS

\* From the registration of a socket to the end of the consumer's output.
Connected == (Setup \ {"new", "opening", "connect"}) \cup Serving

\* The places run() passes once an exception or an abort ends it.
Cancelled == {"aborting", "join", "closeStream", "reap", "wait", "raise"}

\* One connection at a time, and `_socket` is it, but between a connect and
\* its registration.
OneConnection ==
    /\ \A s \in 1 .. MaxSockets :
          /\ s < sockets => socket[s] = "closed"
          /\ s > sockets => socket[s] = "none"
    /\ run \in {"new", "opening"} => sockets = 0
    /\ run = "connect" =>
          sockets < MaxSockets /\ (sockets # 0 => socket[sockets] = "closed")
    /\ run \in Connected => sockets # 0 /\ socket[sockets] \in {"open", "shut"}
    /\ run \in {"reap", "wait", "raise", "returned"} =>
          (sockets # 0 => socket[sockets] = "closed")
    /\ socketRef = IF run = "register" THEN sockets - 1 ELSE sockets

\* The cancel flag: who set it, and who may still find it clear.
Flag ==
    /\ cancel <=> reason # "none"
    /\ abortStep # "no" => cancel
    /\ run \in Cancelled \cup {"shutNew"} => cancel
    /\ run = "returned" /\ ~cancel => pump = "none"
    /\ reason = "finished" => run \in Cancelled \cup {"returned"}
    /\ \A s \in 1 .. MaxSockets : socket[s] = "shut" => cancel

\* FFmpeg runs between its launch and its reaping, and `_ffmpeg` is it, but
\* between the launch and the registration.
OneProcess ==
    /\ run \in (Setup \ {"registerFFmpeg", "termNew", "spawn"}) => ffmpeg = "none"
    /\ run \in {"raise", "returned"} => ffmpeg # "running"
    /\ ffmpeg = "running" => ffmpegRef \/ run = "registerFFmpeg"

\* What abort() set out to stop it stops: of what it did not find, run() takes
\* care as soon as it reads the flag.
NothingMissed ==
    cancel =>
        /\ \A s \in 1 .. MaxSockets :
               socket[s] = "open" =>
                   \/ run \in {"register", "shutNew"}
                   \/ abortStep = "shutdown" /\ abortSocket = s
        /\ ffmpeg = "running" /\ ~sigterm =>
               \/ run \in {"registerFFmpeg", "termNew"}
               \/ abortStep # "no" /\ abortFFmpeg

\* The pump lives between spawn and join, but for one that run() gave up, which
\* it does only once the abort is over.
PumpLife ==
    /\ run \in Setup => pump = "none"
    /\ pump # "none" => sockets # 0
    /\ pump # "none" /\ ~cancel => socket[sockets] = "open"
    /\ run = "closeStream" => abortStep = "no" \/ pump \in {"none", "done"}

\* Whose fault an exception is: nobody's own teardown raises one.
Blame ==
    /\ run \in Setup \cup Serving => error = "none"
    /\ run \in Setup \ {"arm", "prefix", "window", "launch", "registerFFmpeg",
                        "termNew", "spawn"} => ~opened
    /\ error \in {"device", "error"} =>
          fault \/ (reason \notin {"none", "finished"} /\ ~opened)
    /\ writerError => fault
    /\ badExit => \/ fault
                  \/ run \in {"raise", "returned"}
                     /\ (error # "none" \/ reason # "finished")
    /\ run \in {"cancelTimer", "abort"} /\ error = "none" =>
          cancel \/ ffmpeg = "exited"
    /\ error = "none" /\ reason = "finished" => ffmpeg = "exited"

\* What the state keeps between the steps, over the types.
Relations ==
    OneConnection /\ Flag /\ OneProcess /\ NothingMissed /\ PumpLife /\ Blame

\* What is proved by induction.
IInv == TypeOK /\ Relations

\* It holds before anybody calls run().
LEMMA InitIInv == Init => IInv
<1> SUFFICES ASSUME Init PROVE IInv
  OBVIOUS
<1> USE CloudSessionAssumption DEF Init, Setup, Serving, Teardown, Connected, Cancelled
<1>1. AbortTypes
  <2>1. socketRef \in 0 .. MaxSockets /\ abortSocket \in 0 .. MaxSockets
    OBVIOUS
  <2>2. /\ cancel \in BOOLEAN /\ ffmpegRef \in BOOLEAN
        /\ abortFFmpeg \in BOOLEAN /\ abortByRun \in BOOLEAN
    OBVIOUS
  <2>3. /\ reason \in {"none", "client_gone", "no_video", "finished"}
        /\ abortStep \in {"no", "shutdown", "terminate"}
    OBVIOUS
  <2> QED
    BY <2>1, <2>2, <2>3, Zenon DEF AbortTypes
<1>2. RunTypes
  BY DEF RunTypes
<1>3. CloudTypes
  <2>1. /\ socket \in [1 .. MaxSockets -> {"none", "open", "shut", "closed"}]
        /\ sockets \in 0 .. MaxSockets
    OBVIOUS
  <2>2. /\ timer \in {"off", "armed", "fired", "due"}
        /\ opened \in BOOLEAN /\ firstVideo \in BOOLEAN
    OBVIOUS
  <2> QED
    BY <2>1, <2>2, Zenon DEF CloudTypes
<1>4. PumpTypes /\ FFmpegTypes
  BY DEF PumpTypes, FFmpegTypes
<1>5. Relations
  BY DEF Relations, OneConnection, Flag, OneProcess, NothingMissed, PumpLife, Blame
<1> QED
  BY <1>1, <1>2, <1>3, <1>4, <1>5 DEF IInv, TypeOK

\* What an abort() captures under the lock is all there is to stop.
LEMMA CapturesAll ==
    ASSUME IInv, NEW r, NEW byRun, Captures(r, byRun),
           UNCHANGED <<run, socket, sockets, ffmpeg, sigterm>>
    PROVE  NothingMissed'
<1> USE CloudSessionAssumption
    DEF IInv, TypeOK, CloudTypes, Relations, OneConnection, OneProcess, Captures
<1>1. ASSUME NEW s \in 1 .. MaxSockets, socket[s] = "open",
             run \notin {"register", "shutNew"}
      PROVE  abortSocket' = s
  BY <1>1
<1>2. ffmpeg = "running" => run = "registerFFmpeg" \/ abortFFmpeg'
  OBVIOUS
<1> QED
  BY <1>1, <1>2 DEF NothingMissed

\* The steps of abort(), whoever calls it.
LEMMA AbortKeepsTypes ==
    ASSUME IInv,
           \/ AbortShutdown \/ AbortTerminate \/ PeerAborts \/ TimerFires
           \/ TimerJudges \/ TimerAborts
    PROVE  TypeOK'
<1> USE CloudSessionAssumption
<1>1. AbortTypes'
  BY ZenonT(60) DEF IInv, TypeOK, AbortTypes, sharedVars, abortVars, Goto, Raises, Captures,
      Cancels, AbortShutdown, AbortTerminate, PeerAborts, TimerFires, TimerJudges,
      TimerAborts
<1>2. RunTypes'
  BY DEF IInv, TypeOK, RunTypes, runVars, Goto, Raises, CloudErrors, Setup, Serving,
      Teardown, AbortShutdown, AbortTerminate, PeerAborts, TimerFires, TimerJudges,
      TimerAborts
<1>3. CloudTypes'
  BY DEF IInv, TypeOK, CloudTypes, cloudVars, videoVars, Shutdown, AbortShutdown,
      AbortTerminate, PeerAborts, TimerFires, TimerJudges, TimerAborts
<1>4. PumpTypes'
  BY DEF IInv, TypeOK, PumpTypes, pumpVars, Goto, Raises, AbortShutdown,
      AbortTerminate, PeerAborts, TimerFires, TimerJudges, TimerAborts
<1>5. FFmpegTypes'
  BY DEF IInv, TypeOK, FFmpegTypes, ffmpegVars, AbortShutdown, AbortTerminate,
      PeerAborts, TimerFires, TimerJudges, TimerAborts
<1> QED
  BY <1>1, <1>2, <1>3, <1>4, <1>5 DEF TypeOK

\* What abort() does to what run(), the pump and the camera are doing.
LEMMA AbortKeepsRelations ==
    ASSUME IInv,
           \/ AbortShutdown \/ AbortTerminate \/ PeerAborts \/ TimerFires
           \/ TimerJudges \/ TimerAborts
    PROVE  Relations'
<1> USE CloudSessionAssumption
    DEF IInv, TypeOK, CloudTypes, Setup, Serving,
        Connected, Cancelled, Goto, Raises, Shutdown, Captures, Cancels,
        CloudErrors, sharedVars, runVars, cloudVars, videoVars, pumpVars, ffmpegVars,
        abortVars, Relations, OneConnection, Flag, OneProcess, NothingMissed,
        PumpLife, Blame
<1>1. CASE AbortShutdown
  BY <1>1 DEF AbortShutdown
<1>2. CASE AbortTerminate
  <2>1. OneConnection' /\ Flag' /\ OneProcess' /\ PumpLife' /\ Blame'
    BY <1>2 DEF AbortTerminate
  <2>2. NothingMissed'
    BY <1>2 DEF AbortTerminate
  <2> QED
    BY <2>1, <2>2
<1>3. CASE PeerAborts
  <2>1. OneConnection' /\ Flag' /\ OneProcess' /\ PumpLife' /\ Blame'
    BY <1>3 DEF PeerAborts
  <2>2. NothingMissed'
    BY <1>3, CapturesAll DEF PeerAborts
  <2> QED
    BY <2>1, <2>2
<1>4. CASE TimerFires
  BY <1>4 DEF TimerFires
<1>5. CASE TimerJudges
  BY <1>5 DEF TimerJudges
<1>6. CASE TimerAborts
  <2>1. OneConnection' /\ OneProcess' /\ PumpLife'
    BY <1>6 DEF TimerAborts
  <2>2. Flag'
    BY <1>6 DEF TimerAborts
  <2>3. NothingMissed'
    BY <1>6, CapturesAll DEF TimerAborts
  <2>4. Blame'
    BY <1>6 DEF TimerAborts
  <2> QED
    BY <2>1, <2>2, <2>3, <2>4
<1> QED
  BY <1>1, <1>2, <1>3, <1>4, <1>5, <1>6

\* run() up to its handshake.
LEMMA SetupKeepsTypes ==
    ASSUME IInv,
           \/ Run \/ OpenCloudStream \/ OpenCloudStreamFails \/ Connect
           \/ ConnectFails \/ Register \/ ShutNewSocket \/ Handshake \/ Redirect
           \/ ArmTimer
           \/ \E own \in BOOLEAN : HandshakeFails(own)
    PROVE  TypeOK'
<1> USE CloudSessionAssumption
<1>1. AbortTypes'
  BY DEF IInv, TypeOK, AbortTypes, CloudTypes, AbortTypes, Relations, OneConnection,
      sharedVars, abortVars, Goto, Raises, Captures, Cancels, Run, OpenCloudStream,
      OpenCloudStreamFails, Connect, ConnectFails, Register, ShutNewSocket,
      Handshake, Redirect, HandshakeFails, ArmTimer
<1>2. RunTypes'
  BY DEF IInv, TypeOK, RunTypes, runVars, Goto, Raises, CloudErrors, Setup, Serving,
      Teardown, Run, OpenCloudStream, OpenCloudStreamFails, Connect, ConnectFails,
      Register, ShutNewSocket, Handshake, Redirect, HandshakeFails, ArmTimer
<1>3. CloudTypes'
  <2>1. sockets' \in 0 .. MaxSockets
    <3>1. CASE Connect
      BY <3>1 DEF IInv, TypeOK, Relations, OneConnection, CloudTypes, Connect
    <3>2. CASE ~Connect
      BY <3>2 DEF IInv, TypeOK, CloudTypes, cloudVars, Run, OpenCloudStream,
          OpenCloudStreamFails, ConnectFails, Register, ShutNewSocket, Handshake,
          Redirect, HandshakeFails, ArmTimer
    <3> QED
      BY <3>1, <3>2
  <2>2. socket' \in [1 .. MaxSockets -> {"none", "open", "shut", "closed"}]
    BY DEF IInv, TypeOK, Relations, OneConnection, CloudTypes, cloudVars, Shutdown,
        Run, OpenCloudStream, OpenCloudStreamFails, Connect, ConnectFails, Register,
        ShutNewSocket, Handshake, Redirect, HandshakeFails, ArmTimer
  <2>3. /\ timer' \in {"off", "armed", "fired", "due"}
        /\ opened' \in BOOLEAN /\ firstVideo' \in BOOLEAN
    BY DEF IInv, TypeOK, CloudTypes, cloudVars, videoVars, Run,
        OpenCloudStream, OpenCloudStreamFails, Connect, ConnectFails, Register,
        ShutNewSocket, Handshake, Redirect, HandshakeFails, ArmTimer
  <2> QED
    BY <2>1, <2>2, <2>3 DEF CloudTypes
<1>4. PumpTypes'
  BY DEF IInv, TypeOK, PumpTypes, pumpVars, Goto, Raises, Run, OpenCloudStream,
      OpenCloudStreamFails, Connect, ConnectFails, Register, ShutNewSocket,
      Handshake, Redirect, HandshakeFails, ArmTimer
<1>5. FFmpegTypes'
  BY DEF IInv, TypeOK, FFmpegTypes, ffmpegVars, Run, OpenCloudStream,
      OpenCloudStreamFails, Connect, ConnectFails, Register, ShutNewSocket,
      Handshake, Redirect, HandshakeFails, ArmTimer
<1> QED
  BY <1>1, <1>2, <1>3, <1>4, <1>5 DEF TypeOK

\* What the set-up does to an abort() on its way.
LEMMA SetupKeepsRelations ==
    ASSUME IInv,
           \/ Run \/ OpenCloudStream \/ OpenCloudStreamFails \/ Connect
           \/ ConnectFails \/ Register \/ ShutNewSocket \/ Handshake \/ Redirect
           \/ ArmTimer
           \/ \E own \in BOOLEAN : HandshakeFails(own)
    PROVE  Relations'
<1> USE CloudSessionAssumption
    DEF IInv, TypeOK, CloudTypes, Setup, Serving,
        Connected, Cancelled, Goto, Raises, Shutdown, Captures, Cancels,
        CloudErrors, sharedVars, runVars, cloudVars, videoVars, pumpVars, ffmpegVars,
        abortVars, Relations, OneConnection, Flag, OneProcess, NothingMissed,
        PumpLife, Blame
<1>1. CASE Run
  BY <1>1 DEF Run
<1>2. CASE OpenCloudStream
  BY <1>2 DEF OpenCloudStream
<1>3. CASE OpenCloudStreamFails
  BY <1>3 DEF OpenCloudStreamFails
<1>4. CASE Connect
  BY <1>4 DEF Connect
<1>5. CASE ConnectFails
  BY <1>5 DEF ConnectFails
<1>6. CASE Register
  BY <1>6 DEF Register
<1>7. CASE ShutNewSocket
  BY <1>7 DEF ShutNewSocket
<1>8. CASE Handshake
  BY <1>8 DEF Handshake
<1>9. CASE Redirect
  BY <1>9 DEF Redirect
<1>10. ASSUME NEW own \in BOOLEAN, HandshakeFails(own) PROVE Relations'
  <2>1. OneConnection' /\ Flag' /\ OneProcess' /\ NothingMissed' /\ PumpLife'
    BY <1>10 DEF HandshakeFails
  <2>2. Blame'
    <3>1. own \/ (reason \notin {"none", "finished"} /\ ~opened)
      BY <1>10 DEF HandshakeFails
    <3>2. fault' \/ (reason' \notin {"none", "finished"} /\ ~opened')
      BY <1>10, <3>1 DEF HandshakeFails
    <3>3. ffmpeg' = "none" /\ reason' # "finished" /\ run' = "cancelTimer"
      BY <1>10 DEF HandshakeFails
    <3> QED
      BY <1>10, <3>2, <3>3 DEF HandshakeFails
  <2> QED
    BY <2>1, <2>2
<1>11. CASE ArmTimer
  BY <1>11 DEF ArmTimer
<1> QED
  BY <1>1, <1>2, <1>3, <1>4, <1>5, <1>6, <1>7, <1>8, <1>9, <1>10, <1>11

\* Reading the prefix, launching FFmpeg, and the consumer's output.
LEMMA RemuxKeepsTypes ==
    ASSUME IInv,
           \/ FirstVideo \/ PrefixRead \/ WindowClosed \/ Launch \/ LaunchFails
           \/ RegisterFFmpeg \/ TerminateNew \/ SpawnPump \/ CheckCancel \/ Select
           \/ OutputReady \/ Written
           \/ \E own \in BOOLEAN : ReadBreaks(own)
    PROVE  TypeOK'
<1> USE CloudSessionAssumption
<1>1. AbortTypes'
  BY ZenonT(60) DEF IInv, TypeOK, AbortTypes, sharedVars, abortVars, Goto, Raises, Captures,
      Cancels, FirstVideo, PrefixRead, WindowClosed, ReadBreaks, Launch,
      LaunchFails, RegisterFFmpeg, TerminateNew, SpawnPump, CheckCancel, Select,
      OutputReady, Written
<1>2. RunTypes'
  BY DEF IInv, TypeOK, RunTypes, runVars, Goto, Raises, CloudErrors, Setup, Serving,
      Teardown, FirstVideo, PrefixRead, WindowClosed, ReadBreaks, Launch,
      LaunchFails, RegisterFFmpeg, TerminateNew, SpawnPump, CheckCancel, Select,
      OutputReady, Written
<1>3. CloudTypes'
  BY DEF IInv, TypeOK, CloudTypes, cloudVars, videoVars, Shutdown, FirstVideo,
      PrefixRead, WindowClosed, ReadBreaks, Launch, LaunchFails, RegisterFFmpeg,
      TerminateNew, SpawnPump, CheckCancel, Select, OutputReady, Written
<1>4. PumpTypes'
  BY DEF IInv, TypeOK, PumpTypes, pumpVars, Goto, Raises, FirstVideo, PrefixRead,
      WindowClosed, ReadBreaks, Launch, LaunchFails, RegisterFFmpeg, TerminateNew,
      SpawnPump, CheckCancel, Select, OutputReady, Written
<1>5. FFmpegTypes'
  BY DEF IInv, TypeOK, FFmpegTypes, ffmpegVars, FirstVideo, PrefixRead,
      WindowClosed, ReadBreaks, Launch, LaunchFails, RegisterFFmpeg, TerminateNew,
      SpawnPump, CheckCancel, Select, OutputReady, Written
<1> QED
  BY <1>1, <1>2, <1>3, <1>4, <1>5 DEF TypeOK

\* What the middle of run() does to an abort() on its way.
LEMMA RemuxKeepsRelations ==
    ASSUME IInv,
           \/ FirstVideo \/ PrefixRead \/ WindowClosed \/ Launch \/ LaunchFails
           \/ RegisterFFmpeg \/ TerminateNew \/ SpawnPump \/ CheckCancel \/ Select
           \/ OutputReady \/ Written
           \/ \E own \in BOOLEAN : ReadBreaks(own)
    PROVE  Relations'
<1> USE CloudSessionAssumption
    DEF IInv, TypeOK, CloudTypes, Setup, Serving,
        Connected, Cancelled, Goto, Raises, Shutdown, Captures, Cancels,
        CloudErrors, sharedVars, runVars, cloudVars, videoVars, pumpVars, ffmpegVars,
        abortVars, Relations, OneConnection, Flag, OneProcess, NothingMissed,
        PumpLife, Blame
<1>1. CASE FirstVideo
  BY <1>1 DEF FirstVideo
<1>2. CASE PrefixRead
  BY <1>2 DEF PrefixRead
<1>3. CASE WindowClosed
  BY <1>3 DEF WindowClosed
<1>4. ASSUME NEW own \in BOOLEAN, ReadBreaks(own) PROVE Relations'
  BY <1>4 DEF ReadBreaks
<1>5. CASE Launch
  BY <1>5 DEF Launch
<1>6. CASE LaunchFails
  BY <1>6 DEF LaunchFails
<1>7. CASE RegisterFFmpeg
  BY <1>7 DEF RegisterFFmpeg
<1>8. CASE TerminateNew
  BY <1>8 DEF TerminateNew
<1>9. CASE SpawnPump
  BY <1>9 DEF SpawnPump
<1>10. CASE CheckCancel
  BY <1>10 DEF CheckCancel
<1>11. CASE Select
  BY <1>11 DEF Select
<1>12. CASE OutputReady
  BY <1>12 DEF OutputReady
<1>13. CASE Written
  BY <1>13, ZenonT(60) DEF Written
<1> QED
  BY <1>1, <1>2, <1>3, <1>4, <1>5, <1>6, <1>7, <1>8, <1>9, <1>10, <1>11, <1>12, <1>13

\* The finally clause.
LEMMA TeardownKeepsTypes ==
    ASSUME IInv,
           \/ CancelTimer \/ AbortFinished \/ Aborted \/ JoinPump \/ JoinGivesUp
           \/ CloseStream \/ ReapFFmpeg \/ WaitFFmpeg \/ Return
    PROVE  TypeOK'
<1> USE CloudSessionAssumption
<1>1. AbortTypes'
  BY ZenonT(60) DEF IInv, TypeOK, AbortTypes, sharedVars, abortVars, Goto, Raises, Captures,
      Cancels, CancelTimer, AbortFinished, Aborted, JoinPump, JoinGivesUp,
      CloseStream, ReapFFmpeg, WaitFFmpeg, Return
<1>2. RunTypes'
  BY DEF IInv, TypeOK, RunTypes, runVars, Goto, Raises, CloudErrors, Setup, Serving,
      Teardown, CancelTimer, AbortFinished, Aborted, JoinPump, JoinGivesUp,
      CloseStream, ReapFFmpeg, WaitFFmpeg, Return
<1>3. CloudTypes'
  BY DEF IInv, TypeOK, CloudTypes, cloudVars, videoVars, Shutdown, CancelTimer,
      AbortFinished, Aborted, JoinPump, JoinGivesUp, CloseStream, ReapFFmpeg,
      WaitFFmpeg, Return
<1>4. PumpTypes'
  BY DEF IInv, TypeOK, PumpTypes, pumpVars, Goto, Raises, CancelTimer,
      AbortFinished, Aborted, JoinPump, JoinGivesUp, CloseStream, ReapFFmpeg,
      WaitFFmpeg, Return
<1>5. FFmpegTypes'
  BY DEF IInv, TypeOK, FFmpegTypes, ffmpegVars, CancelTimer, AbortFinished, Aborted,
      JoinPump, JoinGivesUp, CloseStream, ReapFFmpeg, WaitFFmpeg, Return
<1> QED
  BY <1>1, <1>2, <1>3, <1>4, <1>5 DEF TypeOK

\* What the teardown does to an abort() on its way.
LEMMA TeardownKeepsRelations ==
    ASSUME IInv,
           \/ CancelTimer \/ AbortFinished \/ Aborted \/ JoinPump \/ JoinGivesUp
           \/ CloseStream \/ ReapFFmpeg \/ WaitFFmpeg \/ Return
    PROVE  Relations'
<1> USE CloudSessionAssumption
    DEF IInv, TypeOK, CloudTypes, Setup, Serving,
        Connected, Cancelled, Goto, Raises, Shutdown, Captures, Cancels,
        CloudErrors, sharedVars, runVars, cloudVars, videoVars, pumpVars, ffmpegVars,
        abortVars, Relations, OneConnection, Flag, OneProcess, NothingMissed,
        PumpLife, Blame
<1>1. CASE CancelTimer
  BY <1>1 DEF CancelTimer
<1>2. CASE AbortFinished
  BY <1>2 DEF AbortFinished
<1>3. CASE Aborted
  BY <1>3 DEF Aborted
<1>4. CASE JoinPump
  BY <1>4 DEF JoinPump
<1>5. CASE JoinGivesUp
  BY <1>5 DEF JoinGivesUp
<1>6. CASE CloseStream
  BY <1>6 DEF CloseStream
<1>7. CASE ReapFFmpeg
  BY <1>7 DEF ReapFFmpeg
<1>8. CASE WaitFFmpeg
  BY <1>8 DEF WaitFFmpeg
<1>9. CASE Return
  BY <1>9 DEF Return
<1> QED
  BY <1>1, <1>2, <1>3, <1>4, <1>5, <1>6, <1>7, <1>8, <1>9

\* The pump and FFmpeg.
LEMMA PumpKeepsTypes ==
    ASSUME IInv,
           \/ PumpEnds \/ PumpReplayed \/ PumpParks \/ FFmpegReads
           \/ PumpFindsFFmpegGone \/ PumpCloses \/ FFmpegExits
           \/ \E own \in BOOLEAN : PumpBreaks(own)
    PROVE  TypeOK'
<1> USE CloudSessionAssumption
<1>1. AbortTypes'
  BY DEF IInv, TypeOK, AbortTypes, sharedVars, abortVars, Goto, Raises, Captures,
      Cancels, PumpBreaks, PumpEnds, PumpReplayed, PumpParks, FFmpegReads,
      PumpFindsFFmpegGone, PumpCloses, FFmpegExits
<1>2. RunTypes'
  BY DEF IInv, TypeOK, RunTypes, runVars, Goto, Raises, CloudErrors, Setup, Serving,
      Teardown, PumpBreaks, PumpEnds, PumpReplayed, PumpParks, FFmpegReads,
      PumpFindsFFmpegGone, PumpCloses, FFmpegExits
<1>3. CloudTypes'
  BY DEF IInv, TypeOK, CloudTypes, cloudVars, videoVars, Shutdown, PumpBreaks,
      PumpEnds, PumpReplayed, PumpParks, FFmpegReads, PumpFindsFFmpegGone,
      PumpCloses, FFmpegExits
<1>4. PumpTypes'
  BY DEF IInv, TypeOK, PumpTypes, pumpVars, Goto, Raises, PumpBreaks, PumpEnds,
      PumpReplayed, PumpParks, FFmpegReads, PumpFindsFFmpegGone, PumpCloses,
      FFmpegExits
<1>5. FFmpegTypes'
  BY DEF IInv, TypeOK, FFmpegTypes, ffmpegVars, PumpBreaks, PumpEnds, PumpReplayed,
      PumpParks, FFmpegReads, PumpFindsFFmpegGone, PumpCloses, FFmpegExits
<1> QED
  BY <1>1, <1>2, <1>3, <1>4, <1>5 DEF TypeOK

\* What the pump and FFmpeg do to run() and to an abort() on its way.
LEMMA PumpKeepsRelations ==
    ASSUME IInv,
           \/ PumpEnds \/ PumpReplayed \/ PumpParks \/ FFmpegReads
           \/ PumpFindsFFmpegGone \/ PumpCloses \/ FFmpegExits
           \/ \E own \in BOOLEAN : PumpBreaks(own)
    PROVE  Relations'
<1> USE CloudSessionAssumption
    DEF IInv, TypeOK, CloudTypes, Setup, Serving,
        Connected, Cancelled, Goto, Raises, Shutdown, Captures, Cancels,
        CloudErrors, sharedVars, runVars, cloudVars, videoVars, pumpVars, ffmpegVars,
        abortVars, Relations, OneConnection, Flag, OneProcess, NothingMissed,
        PumpLife, Blame
<1>1. ASSUME NEW own \in BOOLEAN, PumpBreaks(own) PROVE Relations'
  BY <1>1, ZenonT(60) DEF PumpBreaks, Unreadable
<1>2. CASE PumpEnds
  BY <1>2 DEF PumpEnds
<1>3. CASE PumpReplayed
  BY <1>3 DEF PumpReplayed
<1>4. CASE PumpParks
  BY <1>4 DEF PumpParks, Unreadable
<1>5. CASE FFmpegReads
  BY <1>5 DEF FFmpegReads
<1>6. CASE PumpFindsFFmpegGone
  BY <1>6 DEF PumpFindsFFmpegGone
<1>7. CASE PumpCloses
  BY <1>7 DEF PumpCloses
<1>8. CASE FFmpegExits
  BY <1>8 DEF FFmpegExits
<1> QED
  BY <1>1, <1>2, <1>3, <1>4, <1>5, <1>6, <1>7, <1>8

-----------------------------------------------------------------------------
(* The invariants.                                                         *)

\* Every step keeps it.
LEMMA NextIInv == IInv /\ [Next]_vars => IInv'
<1> SUFFICES ASSUME IInv, [Next]_vars PROVE IInv'
  OBVIOUS
<1>1. CASE Next
  <2>1. TypeOK'
    BY <1>1, AbortKeepsTypes, SetupKeepsTypes, RemuxKeepsTypes, TeardownKeepsTypes,
       PumpKeepsTypes
       DEF Next, Aborts, Timer, RunSteps, CloudSteps, ReadSteps, LoopEnds
  <2>2. Relations'
    BY <1>1, AbortKeepsRelations, SetupKeepsRelations, RemuxKeepsRelations,
       TeardownKeepsRelations, PumpKeepsRelations
       DEF Next, Aborts, Timer, RunSteps, CloudSteps, ReadSteps, LoopEnds
  <2> QED
    BY <2>1, <2>2 DEF IInv
<1>2. CASE UNCHANGED vars
  <2> USE <1>2 DEF IInv, vars, sharedVars, abortVars, runVars, cloudVars, videoVars,
        pumpVars, ffmpegVars
  <2>1. AbortTypes'
    BY DEF TypeOK, AbortTypes
  <2>6. RunTypes'
    BY DEF TypeOK, RunTypes
  <2>2. CloudTypes'
    BY DEF TypeOK, CloudTypes
  <2>3. PumpTypes'
    BY DEF TypeOK, PumpTypes
  <2>4. FFmpegTypes'
    BY DEF TypeOK, FFmpegTypes
  <2>5. Relations'
    BY DEF Relations, OneConnection, Flag, OneProcess, NothingMissed, PumpLife, Blame
  <2> QED
    BY <2>1, <2>2, <2>3, <2>4, <2>5, <2>6 DEF TypeOK
<1> QED
  BY <1>1, <1>2

\* The inductive invariant holds in every state the session reaches.
THEOREM Invariance == Spec => []IInv
BY InitIInv, NextIInv, PTL DEF Spec

\* Every variable of the session keeps its type.
THEOREM TypeCorrect == Spec => []TypeOK
<1>1. IInv => TypeOK
  BY DEF IInv
<1> QED
  BY <1>1, Invariance, PTL

\* An abort that is over leaves nothing to stop: an open socket or an FFmpeg
\* that was not told to stop belongs to a run() that has yet to read the flag.
THEOREM NoWakeupMissed == Spec => []NoMissedWakeup
<1>1. IInv => NoMissedWakeup
  BY CloudSessionAssumption
     DEF IInv, TypeOK, CloudTypes, Relations, NothingMissed, NoMissedWakeup
<1> QED
  BY <1>1, Invariance, PTL

\* The descriptor is closed under no reader that has not been woken.
THEOREM WokenFirst == Spec => []WokenBeforeClose
<1>1. IInv => WokenBeforeClose
  BY CloudSessionAssumption
     DEF IInv, TypeOK, CloudTypes, Relations, NothingMissed, PumpLife, Flag, Cancelled,
         WokenBeforeClose
<1> QED
  BY <1>1, Invariance, PTL

-----------------------------------------------------------------------------
(* The contract with the owner: every step is one of SessionContract's, or  *)
(* changes nothing that the owner sees.                                     *)

\* A new session is a new one of the contract: it holds nothing.
LEMMA InitContract == Init => Contract!Init
BY DEF Init, Contract!Init, Phase, Holds

\* The socket held is the last connection made.
HoldsTheLast ==
    Holds = (IF sockets # 0 /\ socket[sockets] \in {"open", "shut"}
             THEN {"socket"} ELSE {})
            \cup (IF ffmpeg = "running" THEN {"ffmpeg"} ELSE {})

\* And it is all that is held, for one connection is open at a time.
LEMMA HoldsLast == IInv => HoldsTheLast
<1> SUFFICES ASSUME IInv PROVE HoldsTheLast
  OBVIOUS
<1>1. ASSUME NEW s \in 1 .. sockets, socket[s] \in {"open", "shut"}
      PROVE  s = sockets
  BY <1>1, CloudSessionAssumption DEF IInv, TypeOK, CloudTypes, Relations, OneConnection
<1>2. (\E s \in 1 .. sockets : socket[s] \in {"open", "shut"})
         <=> sockets # 0 /\ socket[sockets] \in {"open", "shut"}
  BY <1>1, CloudSessionAssumption DEF IInv, TypeOK, CloudTypes
<1> QED
  BY <1>2 DEF Holds, HoldsTheLast

\* Steps the owner sees nothing of.
LEMMA Stutters ==
    ASSUME IInv, IInv',
           \/ AbortShutdown \/ AbortTerminate \/ TimerFires \/ TimerJudges
           \/ OpenCloudStream \/ Register \/ ShutNewSocket \/ ArmTimer
           \/ FirstVideo \/ PrefixRead \/ WindowClosed
           \/ RegisterFFmpeg \/ TerminateNew \/ SpawnPump
           \/ CheckCancel \/ Select \/ OutputReady \/ Written
           \/ CancelTimer \/ Aborted \/ JoinPump \/ JoinGivesUp \/ ReapFFmpeg
           \/ PumpEnds \/ PumpReplayed \/ PumpParks \/ FFmpegReads
           \/ PumpFindsFFmpegGone \/ PumpCloses
    PROVE  UNCHANGED Contract!vars
<1>0. HoldsTheLast /\ HoldsTheLast'
  BY HoldsLast, PTL
<1> USE DEF AbortShutdown, AbortTerminate, TimerFires, TimerJudges, OpenCloudStream,
        Register, ShutNewSocket, ArmTimer, FirstVideo, PrefixRead, WindowClosed,
        RegisterFFmpeg, TerminateNew, SpawnPump, CheckCancel, Select, OutputReady,
        Written, CancelTimer, Aborted, JoinPump, JoinGivesUp, ReapFFmpeg, PumpEnds,
        PumpReplayed, PumpParks, FFmpegReads, PumpFindsFFmpegGone, PumpCloses,
        Goto, Raises
<1>1. UNCHANGED <<reason, opened, fault, outcome>>
  <2>1. UNCHANGED reason
    BY DEF sharedVars
  <2>2. UNCHANGED opened
    BY DEF cloudVars
  <2>3. UNCHANGED fault
    BY DEF IInv, TypeOK, PumpTypes
  <2>4. UNCHANGED outcome
    BY DEF runVars
  <2> QED
    BY <2>1, <2>2, <2>3, <2>4
<1>2. Phase' = Phase
  BY DEF Phase, runVars
<1>3. UNCHANGED <<sockets, ffmpeg>>
  BY DEF cloudVars, ffmpegVars
<1>4. socket'[sockets] \in {"open", "shut"} <=> socket[sockets] \in {"open", "shut"}
  <2>1. CASE AbortShutdown
    BY <2>1 DEF Shutdown, IInv, TypeOK, CloudTypes
  <2>2. CASE ShutNewSocket
    BY <2>2 DEF Shutdown, IInv, TypeOK, CloudTypes
  <2>3. CASE ~AbortShutdown /\ ~ShutNewSocket
    BY <2>3 DEF cloudVars
  <2> QED
    BY <2>1, <2>2, <2>3
<1>5. Holds' = Holds
  BY <1>0, <1>3, <1>4 DEF HoldsTheLast
<1> QED
  BY <1>1, <1>2, <1>5 DEF Contract!vars

\* The first abort is the contract's; a later one changes nothing.
LEMMA AbortsOnce ==
    ASSUME IInv, PeerAborts \/ TimerAborts \/ AbortFinished
    PROVE  Contract!Abort \/ UNCHANGED Contract!vars
<1>1. UNCHANGED <<opened, fault, outcome>>
  BY DEF PeerAborts, TimerAborts, AbortFinished, Goto, cloudVars, runVars
<1>2. Phase' = Phase /\ Holds' = Holds
  BY DEF PeerAborts, TimerAborts, AbortFinished, Goto, cloudVars, runVars, ffmpegVars,
         Phase, Holds
<1>3. \/ UNCHANGED reason
      \/ reason = "none" /\ reason' \in {"client_gone", "no_video", "finished"}
  BY DEF PeerAborts, TimerAborts, AbortFinished, Captures, Cancels, sharedVars, IInv,
         Relations, Flag
<1> QED
  BY <1>1, <1>2, <1>3 DEF Contract!Abort, Contract!vars

\* The call of run() is the contract's.
LEMMA Starts == Run => Contract!Run
BY DEF Run, Goto, Contract!Run, Phase, Holds, sharedVars, cloudVars, ffmpegVars

\* A connect and the launch of FFmpeg only add to what is held.
LEMMA Acquires ==
    ASSUME IInv, IInv', Connect \/ Launch
    PROVE  Contract!Hold
<1>1. UNCHANGED <<reason, opened, fault, outcome>>
  BY DEF Connect, Launch, Goto, sharedVars, cloudVars
<1>2. Phase = "running" /\ Phase' = "running"
  BY DEF Connect, Launch, Goto, Phase
<1>3. HoldsTheLast /\ HoldsTheLast'
  BY HoldsLast, PTL
<1>4. \E rs \in SUBSET {"socket", "ffmpeg"} : Holds' = Holds \cup rs
  <2>1. CASE Connect
    <3>1. sockets' # 0 /\ socket'[sockets'] = "open" /\ ffmpeg' = ffmpeg
      BY <2>1, CloudSessionAssumption
         DEF Connect, IInv, TypeOK, CloudTypes, Relations, OneConnection, ffmpegVars
    <3> QED
      BY <1>3, <3>1 DEF HoldsTheLast
  <2>2. CASE Launch
    BY <1>3, <2>2 DEF HoldsTheLast, Launch, cloudVars
  <2> QED
    BY <2>1, <2>2
<1> QED
  BY <1>1, <1>2, <1>4 DEF Contract!Hold

\* A redirect, the close of the stream and the end of FFmpeg only let go.
LEMMA Releases ==
    ASSUME IInv, IInv', Redirect \/ CloseStream \/ WaitFFmpeg \/ FFmpegExits
    PROVE  Contract!Release \/ UNCHANGED Contract!vars
<1>1. UNCHANGED <<reason, opened, outcome>> /\ fault' \in {fault, TRUE}
  BY DEF Redirect, CloseStream, WaitFFmpeg, FFmpegExits, Goto, sharedVars, cloudVars,
         runVars
<1>2. Phase' = Phase
  BY DEF Redirect, CloseStream, WaitFFmpeg, FFmpegExits, Goto, Phase, runVars
<1>3. HoldsTheLast /\ HoldsTheLast'
  BY HoldsLast, PTL
<1>4. CASE Redirect \/ CloseStream
  <2>1. /\ UNCHANGED <<sockets, ffmpeg, fault>>
        /\ sockets = 0 \/ socket'[sockets] = "closed"
    BY <1>4, CloudSessionAssumption
       DEF Redirect, CloseStream, ffmpegVars, IInv, TypeOK, CloudTypes
  <2>2. Holds' = Holds \ {"socket"}
    BY <1>3, <2>1 DEF HoldsTheLast
  <2> QED
    BY <1>1, <1>2, <2>1, <2>2 DEF Contract!Release, Contract!vars
<1>5. CASE WaitFFmpeg \/ FFmpegExits
  <2>1. UNCHANGED <<socket, sockets>>
    BY <1>5 DEF WaitFFmpeg, FFmpegExits, cloudVars
  <2>2. CASE ffmpeg = "running"
    <3>1. ffmpeg' = "exited"
      BY <1>5, <2>2 DEF WaitFFmpeg, FFmpegExits
    <3>2. "ffmpeg" \in Holds /\ Holds' = Holds \ {"ffmpeg"}
      BY <1>3, <2>1, <2>2, <3>1 DEF HoldsTheLast
    <3> QED
      BY <1>1, <1>2, <3>2 DEF Contract!Release
  <2>3. CASE ffmpeg # "running"
    <3>1. UNCHANGED <<ffmpeg, fault>>
      BY <1>5, <2>3 DEF WaitFFmpeg, FFmpegExits
    <3> QED
      BY <1>1, <1>2, <1>3, <2>1, <3>1 DEF HoldsTheLast, Contract!vars
  <2> QED
    BY <2>2, <2>3
<1> QED
  BY <1>4, <1>5

\* The handshake that succeeds is the contract's opening.
LEMMA Opens == Handshake => Contract!Open
BY DEF Handshake, Goto, Contract!Open, Phase, Holds, sharedVars, ffmpegVars

\* What fails of itself is a fault; what an abort broke is not.
LEMMA Fails ==
    ASSUME IInv, ConnectFails \/ LaunchFails
                 \/ \E own \in BOOLEAN : HandshakeFails(own) \/ ReadBreaks(own)
                                         \/ PumpBreaks(own)
    PROVE  Contract!Fail \/ UNCHANGED Contract!vars
<1> USE DEF ConnectFails, LaunchFails, HandshakeFails, ReadBreaks, PumpBreaks
<1>1. UNCHANGED <<reason, opened, outcome>>
  BY DEF Goto, Raises, sharedVars, cloudVars, runVars
<1>2. Phase' = Phase
  BY DEF Goto, Raises, runVars, Phase
<1>3. Holds' = Holds
  BY DEF Goto, Raises, cloudVars, ffmpegVars, Holds
<1>4. UNCHANGED fault \/ fault' = TRUE
  BY DEF Goto, Raises, IInv, TypeOK, PumpTypes
<1>5. fault' # fault => Phase = "running"
  <2>1. run = "returned" /\ pump # "none" => cancel
    BY DEF IInv, Relations, Flag
  <2>2. run = "new" => pump = "none"
    BY DEF IInv, Relations, PumpLife, Setup
  <2> QED
    BY <2>1, <2>2 DEF Goto, Raises, Phase, IInv, TypeOK, PumpTypes
<1> QED
  BY <1>1, <1>2, <1>3, <1>4, <1>5 DEF Contract!Fail, Contract!vars

\* run() ends with nothing held, and in a way its owner may rely on.
LEMMA Ends ==
    ASSUME IInv, IInv', OpenCloudStreamFails \/ Return
    PROVE  Contract!End
<1>1. UNCHANGED <<reason, opened>> /\ fault' \in {fault, TRUE}
  BY DEF OpenCloudStreamFails, Return, sharedVars, cloudVars
<1>2. Phase = "running" /\ Phase' = "ended"
  BY DEF OpenCloudStreamFails, Return, Phase
<1>3. Holds' = {}
  <2>1. /\ ffmpeg' # "running"
        /\ sockets' # 0 => socket'[sockets'] = "closed"
    BY DEF OpenCloudStreamFails, Return, IInv, Relations, OneProcess, OneConnection
  <2>2. HoldsTheLast'
    BY HoldsLast, PTL
  <2> QED
    BY <2>1, <2>2 DEF HoldsTheLast
<1>4. outcome' \in Contract!Endings
  <2>1. CASE OpenCloudStreamFails
    BY <2>1 DEF OpenCloudStreamFails, CloudErrors, Contract!Endings
  <2>2. CASE Return
    <3>1. reason # "none" /\ fault' = fault
      BY <2>2 DEF Return, IInv, Relations, Flag, Cancelled
    <3>2. CASE error \in {"device", "error"}
      BY <2>2, <3>1, <3>2 DEF Return, IInv, Relations, Blame, Contract!Endings
    <3>3. CASE error = "pipe"
      <4>1. outcome' = "pipe"
        BY <2>2, <3>3 DEF Return
      <4> QED
        BY <3>1, <4>1 DEF Contract!Endings
    <3>4. CASE error = "none"
      <4>1. writerError => fault
        BY DEF IInv, Relations, Blame
      <4>2. badExit /\ reason = "finished" => fault
        BY <3>4 DEF IInv, Relations, Blame
      <4> QED
        BY <2>2, <3>1, <3>4, <4>1, <4>2 DEF Return, Contract!Endings
    <3> QED
      BY <3>2, <3>3, <3>4 DEF IInv, TypeOK, RunTypes
  <2> QED
    BY <2>1, <2>2
<1> QED
  BY <1>1, <1>2, <1>3, <1>4 DEF Contract!End

\* Each step of the session is a step of the contract, or one it does not see.
LEMMA NextContract ==
    ASSUME IInv, IInv', [Next]_vars
    PROVE  [Contract!Next]_(Contract!vars)
<1>1. CASE UNCHANGED vars
  BY <1>1 DEF vars, sharedVars, runVars, cloudVars, ffmpegVars, Contract!vars, Phase,
              Holds
<1>2. CASE Next
  BY <1>2, Stutters, AbortsOnce, Starts, Acquires, Releases, Opens, Fails, Ends
     DEF Next, Aborts, Timer, RunSteps, CloudSteps, ReadSteps, LoopEnds, Contract!Next
<1> QED
  BY <1>1, <1>2

\* Every behaviour of the session is one the contract allows: the first abort's
\* reason stands, what it holds it holds only while it runs, and run() fails
\* only over what failed of itself or over an abort before the camera answered.
THEOREM ImplementsContract == Spec => KeepsContractSafely
<1>1. IInv /\ IInv' /\ [Next]_vars => [Contract!Next]_(Contract!vars)
  BY NextContract
<1> QED
  BY <1>1, InitContract, Invariance, PTL DEF Spec, KeepsContractSafely
=============================================================================
