---------------------------- MODULE CloudSession ----------------------------
(***************************************************************************)
(* session.py `CloudSession`: one session from open_cloud_stream to the end *)
(* of run().  The threads are the one in run(), the pump (all of MediaPump  *)
(* in five states here: only what run() and abort() can tell apart), the    *)
(* no-video timer, and whoever calls abort().  The camera's side of the     *)
(* socket, FFmpeg and the consumer are the environment.                     *)
(*                                                                         *)
(* abort() changes nothing after the first call, so one abort at most is on *)
(* its way: `abortStep` is where it is, between the locked section and the  *)
(* two calls made outside the lock, on the socket and the process it found. *)
(***************************************************************************)
EXTENDS Integers

CONSTANTS
    MaxSockets,     \* bound: connections made, all but the first by redirects
    HasDeadline     \* first_video_timeout > 0

ASSUME CloudSessionAssumption ==
    MaxSockets \in Nat \ {0} /\ HasDeadline \in BOOLEAN

VARIABLES
    cancel,         \* _cancel
    reason,         \* _abort_reason, "none" for None
    socketRef,      \* _socket, 0 for None
    ffmpegRef,      \* _ffmpeg is not None
    abortStep,      \* the abort() on its way: "no", "shutdown", "terminate"
    abortSocket,    \* the socket it read
    abortFFmpeg,    \* it read a process
    abortByRun,     \* it is the one at the end of run()
    run,            \* program counter of the thread in run()
    error,          \* the exception run() is going to raise, "none"
    outcome,        \* how run() ended
    socket,         \* each connection
    sockets,        \* connections made
    timer,          \* the no-video timer
    opened,         \* metrics.opened_at is not None
    firstVideo,     \* metrics.first_video_at is not None
    audio,          \* FFmpeg was given an audio input
    pump,           \* the pump thread
    writerError,    \* _writer_error is not None
    ffmpeg,         \* the FFmpeg process
    sigterm,        \* it was told to terminate
    badExit,        \* its return code is not an expected one
    eof,            \* the pump closed FFmpeg's inputs
    fault           \* history: the camera, the cloud or FFmpeg failed of itself

abortVars  == <<abortStep, abortSocket, abortFFmpeg, abortByRun>>
sharedVars == <<cancel, reason, socketRef, ffmpegRef, abortVars>>
runVars    == <<run, error, outcome>>
cloudVars  == <<socket, sockets, opened>>
videoVars  == <<timer, firstVideo>>
pumpVars   == <<pump, writerError, eof>>
ffmpegVars == <<ffmpeg, sigterm, badExit, audio>>
vars == <<sharedVars, runVars, cloudVars, videoVars, pumpVars, ffmpegVars, fault>>

Setup    == {"new", "opening", "connect", "register", "shutNew", "handshake", "arm",
             "prefix", "window", "launch", "registerFFmpeg", "termNew", "spawn"}
Serving  == {"output", "select", "writing"}
Teardown == {"cancelTimer", "abort", "aborting", "join", "closeStream", "reap",
             "wait", "raise"}

AbortTypes ==
    /\ cancel \in BOOLEAN
    /\ reason \in {"none", "client_gone", "no_video", "finished"}
    /\ socketRef \in 0 .. MaxSockets /\ ffmpegRef \in BOOLEAN
    /\ abortStep \in {"no", "shutdown", "terminate"}
    /\ abortSocket \in 0 .. MaxSockets
    /\ abortFFmpeg \in BOOLEAN /\ abortByRun \in BOOLEAN

RunTypes ==
    /\ run \in Setup \cup Serving \cup Teardown \cup {"returned"}
    /\ error \in {"none", "device", "error", "pipe"}
    /\ outcome \in {"none", "ok", "device", "error", "pipe"}

CloudTypes ==
    /\ socket \in [1 .. MaxSockets -> {"none", "open", "shut", "closed"}]
    /\ sockets \in 0 .. MaxSockets
    /\ timer \in {"off", "armed", "fired", "due"}
    /\ opened \in BOOLEAN /\ firstVideo \in BOOLEAN

PumpTypes ==
    /\ pump \in {"none", "replay", "loop", "parked", "closing", "parkedClosing",
               "done"}
    /\ writerError \in BOOLEAN /\ eof \in BOOLEAN /\ fault \in BOOLEAN

FFmpegTypes ==
    /\ ffmpeg \in {"none", "running", "exited"}
    /\ audio \in BOOLEAN /\ sigterm \in BOOLEAN /\ badExit \in BOOLEAN

TypeOK == AbortTypes /\ RunTypes /\ CloudTypes /\ PumpTypes /\ FFmpegTypes

Init ==
    /\ cancel = FALSE /\ reason = "none" /\ socketRef = 0 /\ ffmpegRef = FALSE
    /\ abortStep = "no" /\ abortSocket = 0
    /\ abortFFmpeg = FALSE /\ abortByRun = FALSE
    /\ run = "new" /\ error = "none" /\ outcome = "none"
    /\ socket = [s \in 1 .. MaxSockets |-> "none"] /\ sockets = 0
    /\ timer = "off" /\ opened = FALSE /\ firstVideo = FALSE /\ audio = FALSE
    /\ pump = "none" /\ writerError = FALSE
    /\ ffmpeg = "none" /\ sigterm = FALSE /\ badExit = FALSE /\ eof = FALSE
    /\ fault = FALSE

-----------------------------------------------------------------------------
(* abort().                                                                *)

\* _shutdown(sock): wakes the reader and keeps the descriptor; an OSError from
\* a socket that was closed meanwhile is suppressed.
Shutdown(s) ==
    socket' = IF s # 0 /\ socket[s] = "open"
              THEN [socket EXCEPT ![s] = "shut"] ELSE socket

\* What abort() reads and sets while it holds the lock.
Captures(r, byRun) ==
    /\ cancel' = TRUE /\ reason' = r
    /\ abortStep' = "shutdown" /\ abortByRun' = byRun
    /\ abortSocket' = socketRef /\ abortFFmpeg' = ffmpegRef
    /\ UNCHANGED <<socketRef, ffmpegRef>>

\* The locked section of abort(): the first caller's, or nothing at all.
Cancels(r, byRun) ==
    \/ ~cancel /\ Captures(r, byRun)
    \/ cancel /\ UNCHANGED sharedVars

AbortShutdown ==
    /\ abortStep = "shutdown" /\ abortStep' = "terminate"
    /\ Shutdown(abortSocket)
    /\ UNCHANGED <<cancel, reason, socketRef, ffmpegRef, abortSocket, abortFFmpeg,
                   abortByRun, runVars, sockets, opened, videoVars, pumpVars,
                   ffmpegVars, fault>>

AbortTerminate ==
    /\ abortStep = "terminate" /\ abortStep' = "no"
    /\ sigterm' = (sigterm \/ (abortFFmpeg /\ ffmpeg = "running"))
    /\ UNCHANGED <<cancel, reason, socketRef, ffmpegRef, abortSocket, abortFFmpeg,
                   abortByRun, runVars, cloudVars, videoVars, pumpVars, ffmpeg,
                   badExit, audio, fault>>

\* The consumer's watchdog, before run(), during it or after it.
PeerAborts ==
    /\ ~cancel /\ Captures("client_gone", FALSE)
    /\ UNCHANGED <<runVars, cloudVars, videoVars, pumpVars, ffmpegVars, fault>>

\* The timer's thread: past Timer.cancel, then past the look at first_video_at.
TimerFires ==
    /\ timer = "armed" /\ timer' = "fired"
    /\ UNCHANGED <<sharedVars, runVars, cloudVars, firstVideo, pumpVars,
                   ffmpegVars, fault>>

TimerJudges ==
    /\ timer = "fired" /\ timer' = IF firstVideo THEN "off" ELSE "due"
    /\ UNCHANGED <<sharedVars, runVars, cloudVars, firstVideo, pumpVars,
                   ffmpegVars, fault>>

TimerAborts ==
    /\ timer = "due" /\ timer' = "off"
    /\ Cancels("no_video", FALSE)
    /\ UNCHANGED <<runVars, cloudVars, firstVideo, pumpVars, ffmpegVars, fault>>

-----------------------------------------------------------------------------
(* run(), up to the pump.                                                  *)

Goto(s) == run' = s /\ UNCHANGED <<error, outcome>>

\* An exception, of itself (`own`) or because the socket was shut down.
Raises(e, own) ==
    /\ run' = "cancelTimer" /\ error' = e /\ fault' = (fault \/ own)
    /\ UNCHANGED outcome

\* What the cloud's client raises, as do_GET tells it: a DeviceException, the
\* BrokenPipeError or ConnectionResetError of a connection, anything else.
CloudErrors == {"device", "pipe", "error"}

\* The owner calls run().
Run ==
    /\ run = "new" /\ Goto("opening")
    /\ UNCHANGED <<sharedVars, cloudVars, videoVars, pumpVars, ffmpegVars, fault>>

\* open_cloud_stream is outside the try: when it fails, nothing was acquired.
OpenCloudStream ==
    /\ run = "opening" /\ Goto("connect")
    /\ UNCHANGED <<sharedVars, cloudVars, videoVars, pumpVars, ffmpegVars, fault>>

OpenCloudStreamFails ==
    /\ run = "opening" /\ run' = "returned"
    /\ outcome' \in CloudErrors /\ error' = outcome' /\ fault' = TRUE
    /\ UNCHANGED <<sharedVars, cloudVars, videoVars, pumpVars, ffmpegVars>>

\* _make_socket, called by stream.start() and again for a redirect.
Connect ==
    /\ run = "connect" /\ Goto("register")
    /\ sockets' = sockets + 1 /\ socket' = [socket EXCEPT ![sockets + 1] = "open"]
    /\ UNCHANGED <<sharedVars, opened, videoVars, pumpVars, ffmpegVars, fault>>

ConnectFails ==
    /\ run = "connect" /\ \E e \in CloudErrors : Raises(e, TRUE)
    /\ UNCHANGED <<sharedVars, cloudVars, videoVars, pumpVars, ffmpegVars>>

\* Mutant: the cancel flag is not read with the registration.
Register_Unchecked ==
    /\ run = "register" /\ Goto("handshake")
    /\ socketRef' = sockets
    /\ UNCHANGED <<cancel, reason, ffmpegRef, abortVars, cloudVars, videoVars,
                   pumpVars, ffmpegVars, fault>>

Register ==
    /\ run = "register" /\ Goto(IF cancel THEN "shutNew" ELSE "handshake")
    /\ socketRef' = sockets
    /\ UNCHANGED <<cancel, reason, ffmpegRef, abortVars, cloudVars, videoVars,
                   pumpVars, ffmpegVars, fault>>

ShutNewSocket ==
    /\ run = "shutNew" /\ Goto("handshake")
    /\ Shutdown(sockets)
    /\ UNCHANGED <<sharedVars, sockets, opened, videoVars, pumpVars, ffmpegVars, fault>>

\* The answer may have arrived before the socket was shut down.
Handshake ==
    /\ run = "handshake" /\ Goto("arm")
    /\ opened' = TRUE
    /\ UNCHANGED <<sharedVars, socket, sockets, videoVars, pumpVars, ffmpegVars, fault>>

Redirect ==
    /\ run = "handshake" /\ sockets < MaxSockets /\ Goto("connect")
    /\ socket' = [socket EXCEPT ![sockets] = "closed"]
    /\ UNCHANGED <<sharedVars, sockets, opened, videoVars, pumpVars, ffmpegVars, fault>>

\* A camera that does not answer, or a socket shut down by abort(): run() has
\* no handler here, so that the two leave it as the same exceptions.
HandshakeFails(own) ==
    /\ run = "handshake"
    /\ own \/ socket[sockets] = "shut"
    /\ \E e \in CloudErrors : Raises(e, own)
    /\ UNCHANGED <<sharedVars, cloudVars, videoVars, pumpVars, ffmpegVars>>

\* Mutant: no budget for the first video.
ArmTimer_Never ==
    /\ run = "arm" /\ Goto("prefix")
    /\ UNCHANGED <<sharedVars, cloudVars, videoVars, pumpVars, ffmpegVars, fault>>

ArmTimer ==
    /\ run = "arm" /\ Goto("prefix")
    /\ timer' = IF HasDeadline THEN "armed" ELSE timer
    /\ UNCHANGED <<sharedVars, cloudVars, firstVideo, pumpVars, ffmpegVars, fault>>

\* _accept records the first packet that carries media.
FirstVideo ==
    /\ run \in {"prefix", "window"} \/ pump = "loop"
    /\ ~firstVideo /\ firstVideo' = TRUE
    /\ UNCHANGED <<sharedVars, runVars, cloudVars, timer, pumpVars, ffmpegVars, fault>>

\* _read_prefix has its packets, or the stream ended, or the flag was seen;
\* with the flag set there is no demuxer to choose and no process to start.
PrefixRead ==
    /\ run = "prefix"
    /\ Goto(IF cancel THEN "cancelTimer" ELSE "window")
    /\ UNCHANGED <<sharedVars, cloudVars, videoVars, pumpVars, ffmpegVars, fault>>

\* _decide, and _with_audio, which reads on for the audio.
WindowClosed ==
    /\ run = "window"
    /\ Goto(IF cancel THEN "cancelTimer" ELSE "launch")
    /\ audio' \in BOOLEAN
    /\ UNCHANGED <<sharedVars, cloudVars, videoVars, pumpVars, ffmpeg, sigterm,
                   badExit, fault>>

\* Either read breaks, of itself or because its socket was shut down; after an
\* abort that is "an outcome, not a failure".
ReadBreaks(own) ==
    /\ run \in {"prefix", "window"}
    /\ own \/ socket[sockets] = "shut"
    /\ IF cancel THEN Goto("cancelTimer") /\ UNCHANGED fault
                 ELSE \E e \in CloudErrors : Raises(e, own)
    /\ UNCHANGED <<sharedVars, cloudVars, videoVars, pumpVars, ffmpegVars>>

Launch ==
    /\ run = "launch" /\ Goto("registerFFmpeg")
    /\ ffmpeg' = "running"
    /\ UNCHANGED <<sharedVars, cloudVars, videoVars, pumpVars, sigterm, badExit,
                   audio, fault>>

LaunchFails ==
    /\ run = "launch" /\ Raises("error", TRUE)
    /\ UNCHANGED <<sharedVars, cloudVars, videoVars, pumpVars, ffmpegVars>>

RegisterFFmpeg ==
    /\ run = "registerFFmpeg" /\ Goto(IF cancel THEN "termNew" ELSE "spawn")
    /\ ffmpegRef' = TRUE
    /\ UNCHANGED <<cancel, reason, socketRef, abortVars, cloudVars, videoVars,
                   pumpVars, ffmpegVars, fault>>

TerminateNew ==
    /\ run = "termNew" /\ Goto("spawn")
    /\ sigterm' = (sigterm \/ ffmpeg = "running")
    /\ UNCHANGED <<sharedVars, cloudVars, videoVars, pumpVars, ffmpeg, badExit,
                   audio, fault>>

SpawnPump ==
    /\ run = "spawn" /\ Goto("output")
    /\ pump' = "replay"
    /\ UNCHANGED <<sharedVars, cloudVars, videoVars, writerError, eof, ffmpegVars,
                   fault>>

-----------------------------------------------------------------------------
(* _pump_ffmpeg_to_consumer.                                               *)

CheckCancel ==
    /\ run = "output" /\ Goto(IF cancel THEN "cancelTimer" ELSE "select")
    /\ UNCHANGED <<sharedVars, cloudVars, videoVars, pumpVars, ffmpegVars, fault>>

\* Mutant: a blocking read in place of the poll.
Select_Blocking ==
    /\ run = "select"
    /\ IF ffmpeg = "exited" THEN Goto("cancelTimer") ELSE FALSE
    /\ UNCHANGED <<sharedVars, cloudVars, videoVars, pumpVars, ffmpegVars, fault>>

\* The poll times out, or finds the end of FFmpeg's output.
Select ==
    /\ run = "select"
    /\ Goto(IF ffmpeg = "exited" THEN "cancelTimer" ELSE "output")
    /\ UNCHANGED <<sharedVars, cloudVars, videoVars, pumpVars, ffmpegVars, fault>>

OutputReady ==
    /\ run = "select" /\ ffmpeg = "running" /\ Goto("writing")
    /\ UNCHANGED <<sharedVars, cloudVars, videoVars, pumpVars, ffmpegVars, fault>>

\* output.write: it blocks for as long as the consumer does not read.
Written ==
    /\ run = "writing"
    /\ \/ Goto("output") /\ UNCHANGED fault
       \/ Raises("pipe", FALSE)
    /\ UNCHANGED <<sharedVars, cloudVars, videoVars, pumpVars, ffmpegVars>>

-----------------------------------------------------------------------------
(* The finally clause of run(), in its order.                              *)

CancelTimer ==
    /\ run = "cancelTimer" /\ Goto("abort")
    /\ timer' = IF timer = "armed" THEN "off" ELSE timer
    /\ UNCHANGED <<sharedVars, cloudVars, firstVideo, pumpVars, ffmpegVars, fault>>

AbortFinished ==
    /\ run = "abort" /\ Goto("aborting")
    /\ Cancels("finished", TRUE)
    /\ UNCHANGED <<cloudVars, videoVars, pumpVars, ffmpegVars, fault>>

\* Its own abort() has returned; another thread's may still be on its way.
Aborted ==
    /\ run = "aborting" /\ (abortStep = "no" \/ ~abortByRun) /\ Goto("join")
    /\ UNCHANGED <<sharedVars, cloudVars, videoVars, pumpVars, ffmpegVars, fault>>

\* Mutant: the pump is not waited for.
JoinPump_Not ==
    /\ run = "join" /\ Goto("closeStream")
    /\ UNCHANGED <<sharedVars, cloudVars, videoVars, pumpVars, ffmpegVars, fault>>

JoinPump ==
    /\ run = "join" /\ pump \in {"none", "done"} /\ Goto("closeStream")
    /\ UNCHANGED <<sharedVars, cloudVars, videoVars, pumpVars, ffmpegVars, fault>>

\* _WRITER_JOIN_TIMEOUT: what the pump does by itself, and the rest of another
\* thread's abort(), take less than that, so that only a pump blocked on FFmpeg
\* outlasts it.
JoinGivesUp ==
    /\ run = "join" /\ pump \in {"parked", "parkedClosing"} /\ abortStep = "no"
    /\ Goto("closeStream")
    /\ UNCHANGED <<sharedVars, cloudVars, videoVars, pumpVars, ffmpegVars, fault>>

\* _close_audio and stream.close(), which closes the connection it has.
CloseStream ==
    /\ run = "closeStream" /\ Goto("reap")
    /\ socket' = IF sockets = 0 THEN socket ELSE [socket EXCEPT ![sockets] = "closed"]
    /\ UNCHANGED <<sharedVars, sockets, opened, videoVars, pumpVars, ffmpegVars, fault>>

ReapFFmpeg ==
    /\ run = "reap" /\ Goto("wait")
    /\ sigterm' = (sigterm \/ ffmpeg = "running")
    /\ UNCHANGED <<sharedVars, cloudVars, videoVars, pumpVars, ffmpeg, badExit,
                   audio, fault>>

\* Mutant: the process is not killed when it ignores SIGTERM.
WaitFFmpeg_NoKill ==
    /\ run = "wait" /\ Goto("raise")
    /\ UNCHANGED <<sharedVars, cloudVars, videoVars, pumpVars, ffmpegVars, fault>>

\* The process is gone, or it is killed after _FFMPEG_REAP_TIMEOUT.
WaitFFmpeg ==
    /\ run = "wait" /\ Goto("raise")
    /\ IF ffmpeg = "running"
       THEN ffmpeg' = "exited" /\ badExit' = TRUE
       ELSE UNCHANGED <<ffmpeg, badExit>>
    /\ UNCHANGED <<sharedVars, cloudVars, videoVars, pumpVars, sigterm, audio, fault>>

\* The exception on its way, then the pump's, of whatever class, then FFmpeg's
\* exit status, which counts only when nobody aborted before the end.
Return ==
    /\ run = "raise" /\ run' = "returned"
    /\ outcome' \in IF error # "none" THEN {error}
                   ELSE IF writerError THEN {"device", "error"}
                   ELSE IF badExit /\ reason = "finished" THEN {"error"} ELSE {"ok"}
    /\ UNCHANGED <<sharedVars, error, cloudVars, videoVars, pumpVars, ffmpegVars, fault>>

-----------------------------------------------------------------------------
(* The pump, as run() and abort() see it.                                  *)

\* A read of the stream does not block any more.
Unreadable == sockets # 0 /\ socket[sockets] \in {"shut", "closed"}

\* The read breaks, of itself or because its socket was shut down, or a packet
\* is not what it should be.
PumpBreaks(own) ==
    /\ pump' = "closing"
    /\ \/ pump = "loop" /\ (own \/ Unreadable)
       \/ pump = "replay" /\ own
    /\ writerError' = ~cancel /\ fault' = (fault \/ (own /\ ~cancel))
    /\ UNCHANGED <<sharedVars, runVars, cloudVars, videoVars, eof, ffmpegVars>>

\* The stream ends, the flag is seen, or FFmpeg's pipe is broken.
PumpEnds ==
    /\ pump = "loop" /\ pump' = "closing"
    /\ UNCHANGED <<sharedVars, runVars, cloudVars, videoVars, writerError, eof,
                   ffmpegVars, fault>>

\* _replay_prefix is over, or FFmpeg's pipe is broken.
PumpReplayed ==
    /\ pump = "replay" /\ pump' \in {"loop", "closing"}
    /\ UNCHANGED <<sharedVars, runVars, cloudVars, videoVars, writerError, eof,
                   ffmpegVars, fault>>

\* Without an audio input the video goes through the blocking stdin, and a write
\* waits for FFmpeg to read: of a leading packet, of a packet the stream gave,
\* or of what stdin.close() flushes.
PumpParks ==
    /\ ~audio /\ ffmpeg = "running"
    /\ \/ pump = "replay" /\ pump' = "parked"
       \/ pump = "loop" /\ ~Unreadable /\ pump' = "parked"
       \/ pump = "closing" /\ pump' = "parkedClosing"
    /\ UNCHANGED <<sharedVars, runVars, cloudVars, videoVars, writerError, eof,
                   ffmpegVars, fault>>

FFmpegReads ==
    /\ ffmpeg = "running"
    /\ \/ pump = "parked" /\ pump' = "loop" /\ UNCHANGED eof
       \/ pump = "parkedClosing" /\ pump' = "done" /\ eof' = TRUE
    /\ UNCHANGED <<sharedVars, runVars, cloudVars, videoVars, writerError,
                   ffmpegVars, fault>>

\* BrokenPipeError, which is not an error of the session.
PumpFindsFFmpegGone ==
    /\ ffmpeg = "exited" /\ pump \in {"parked", "parkedClosing"}
    /\ pump' = "closing"
    /\ UNCHANGED <<sharedVars, runVars, cloudVars, videoVars, writerError, eof,
                   ffmpegVars, fault>>

\* Mutant: FFmpeg is not given the end of its input.
PumpCloses_NoEof ==
    /\ pump = "closing" /\ pump' = "done"
    /\ UNCHANGED <<sharedVars, runVars, cloudVars, videoVars, writerError, eof,
                   ffmpegVars, fault>>

PumpCloses ==
    /\ pump = "closing" /\ pump' = "done" /\ eof' = TRUE
    /\ UNCHANGED <<sharedVars, runVars, cloudVars, videoVars, writerError,
                   ffmpegVars, fault>>

\* FFmpeg ends, at its input's end, at a SIGTERM, or in a failure of its own.
FFmpegExits ==
    /\ ffmpeg = "running" /\ ffmpeg' = "exited"
    /\ \/ (sigterm \/ eof) /\ UNCHANGED <<badExit, fault>>
       \/ badExit' = TRUE /\ fault' = TRUE
    /\ UNCHANGED <<sharedVars, runVars, cloudVars, videoVars, pumpVars, sigterm, audio>>

-----------------------------------------------------------------------------
Aborts == AbortShutdown \/ AbortTerminate

Timer == TimerFires \/ TimerJudges \/ TimerAborts

\* What the thread of run() does without waiting for anybody.
RunSteps ==
    \/ Register \/ ShutNewSocket \/ ArmTimer
    \/ Launch \/ LaunchFails \/ RegisterFFmpeg \/ TerminateNew \/ SpawnPump
    \/ CheckCancel \/ Select
    \/ CancelTimer \/ AbortFinished \/ Aborted \/ JoinPump \/ JoinGivesUp
    \/ CloseStream \/ ReapFFmpeg \/ WaitFFmpeg \/ Return

\* What ends by a socket timeout if not otherwise.
CloudSteps ==
    \/ OpenCloudStream \/ OpenCloudStreamFails \/ Connect \/ ConnectFails
    \/ Handshake \/ Redirect \/ \E own \in BOOLEAN : HandshakeFails(own)

ReadSteps == PrefixRead \/ WindowClosed \/ \E own \in BOOLEAN : ReadBreaks(own)

LoopEnds == PumpEnds \/ \E own \in BOOLEAN : PumpBreaks(own)

Next ==
    \/ PeerAborts \/ Aborts \/ Timer
    \/ Run \/ RunSteps \/ CloudSteps \/ ReadSteps \/ FirstVideo
    \/ OutputReady \/ Written
    \/ PumpReplayed \/ LoopEnds \/ PumpParks \/ FFmpegReads \/ PumpFindsFFmpegGone \/ PumpCloses
    \/ FFmpegExits

\* Threads are scheduled; a connection and a handshake end by their timeout; a
\* read ends once its socket is shut down; the consumer takes what it is sent,
\* or leaves; FFmpeg ends when its input does, unless it is killed first.  It
\* may ignore a SIGTERM and leave its stdin unread for as long as it likes, and
\* a camera may be silent.
Fairness ==
    /\ WF_vars(Aborts) /\ WF_vars(Timer) /\ WF_vars(RunSteps)
    /\ WF_vars(CloudSteps)
    /\ WF_vars(Unreadable /\ ReadSteps) /\ WF_vars(Written)
    /\ WF_vars(Unreadable /\ LoopEnds)
    /\ WF_vars(PumpReplayed) /\ WF_vars(PumpFindsFFmpegGone) /\ WF_vars(PumpCloses)
    /\ WF_vars(eof /\ FFmpegExits)

Spec == Init /\ [][Next]_vars /\ Fairness

-----------------------------------------------------------------------------
(* Properties.                                                             *)

\* What the owner sees of run() and of what it holds.
Phase == CASE run = "new" -> "new" [] run = "returned" -> "ended" [] OTHER -> "running"

Holds == (IF \E s \in 1 .. sockets : socket[s] \in {"open", "shut"}
          THEN {"socket"} ELSE {})
         \cup (IF ffmpeg = "running" THEN {"ffmpeg"} ELSE {})

\* The contract of the session with its owner; see SessionContract.
Contract == INSTANCE SessionContract WITH
    Reasons <- {"client_gone", "no_video", "finished"},
    Resources <- {"socket", "ffmpeg"},
    phase <- Phase, holds <- Holds

\* run() does what its owner relies on: the first abort's reason stands, the
\* socket and FFmpeg are given back before it returns, an aborted run() ends.
KeepsContract == Contract!Spec

\* The part of it that is safety.
KeepsContractSafely == Contract!Init /\ [][Contract!Next]_(Contract!vars)

\* An abort that found nothing to stop is not lost: once it is over, a socket
\* still open or an FFmpeg that was not told to stop belongs to a run() that
\* has yet to read the cancel flag, in _make_socket or in _launch_remux.
NoMissedWakeup ==
    cancel /\ abortStep = "no" =>
        /\ \A s \in 1 .. sockets :
               socket[s] = "open" => run \in {"register", "shutNew"}
        /\ ffmpeg = "running" /\ ~sigterm => run \in {"registerFFmpeg", "termNew"}

\* "Closing the descriptor while another thread could still be reading it":
\* a pump that run() stopped waiting for has had its socket shut down, whoever
\* aborted, so that no read is blocked on the number that is about to be freed.
WokenBeforeClose ==
    run = "closeStream" /\ pump \notin {"none", "done"} => socket[sockets] # "open"

\* "No video within the budget: let the camera go back to sleep": a session
\* that was opened gets its first video or returns, however silent the camera
\* and FFmpeg are.
NoVideoEnds == HasDeadline => (opened ~> firstVideo \/ run = "returned")

\* A stream that ended ends the session: FFmpeg finishes what it has, the
\* consumer gets it, and run() returns without anybody's abort.
StreamEndEnds == pump = "done" ~> run = "returned"

\* The pump, which run() may have stopped waiting for, does not outlive the
\* session for good.
PumpEndsToo == run = "returned" ~> pump \in {"none", "done"}
=============================================================================
