----------------------------- MODULE MediaPump -----------------------------
(***************************************************************************)
(* A session that serves audio, from the packets to FFmpeg: the pump thread *)
(* (session.py `_pump_vtm_to_ffmpeg`, `_Sinks.feed`), the stall watchdog     *)
(* (`_watch_audio_stall`), the two pipes (AudioPipe, VideoPipe) and FFmpeg   *)
(* reading them the way session.py says it does: the video is probed before *)
(* the audio is opened, and from then on neither input is read far past the *)
(* other, so that an audio input with nothing in it holds the video back.   *)
(***************************************************************************)
EXTENDS Integers, Sequences

CONSTANTS
    PipeBuf, Nobody,
    AudioBound, AudioCap, AudioChunks, MaxAudio,    \* of the audio pipe
    VideoBound, VideoCap, VideoChunks, MaxVideo,    \* of the video pipe
    Prefix,         \* leading packets to replay
    Stall,          \* _AUDIO_STALL_SECONDS, in ticks
    Probe,          \* video bytes FFmpeg's probe wants
    Lead            \* bytes one input may be read ahead of the other

ASSUME MediaPumpAssumption ==
    /\ AudioBound \in Nat /\ AudioCap \in Nat /\ MaxAudio \in Nat
    /\ VideoBound \in Nat /\ VideoCap \in Nat /\ MaxVideo \in Nat
    /\ AudioChunks \subseteq Nat \ {0} /\ VideoChunks \subseteq Nat \ {0}
    /\ PipeBuf \in Nat \ {0} /\ Nobody \notin {"pump", "watchdog"}
    /\ Prefix \in Nat /\ Stall \in Nat /\ Probe \in Nat /\ Lead \in Nat

VARIABLES
    aPending, aPendingBytes, aDropped, aClosed, aLock, aStep, aFd, aKernel,
    aReader, aOffered, aWritten,
    vPending, vPendingBytes, vDropped, vDroppedChunks, vClosed, vStep, vStdin,
    vFd, vKernel, vReader, vOffered, vWritten,
    pump,           \* the pump thread's program counter
    body,           \* the packet in its hands
    prefix,         \* leading packets not replayed yet
    audioLost,      \* _audio_lost, -1 until it is set
    sinkAudio,      \* sinks.audio is not None
    quiet,          \* now() - sinks.audio_at, in ticks, up to Stall + 1
    watchdog,       \* the watchdog's program counter
    stop,           \* stall_stop is set
    cancel          \* the session's cancel flag

audioVars == <<aPending, aPendingBytes, aDropped, aClosed, aLock, aStep, aFd,
               aKernel, aReader, aOffered, aWritten>>
videoVars == <<vPending, vPendingBytes, vDropped, vDroppedChunks, vClosed,
               vStep, vStdin, vFd, vKernel, vReader, vOffered, vWritten>>
pumpVars == <<pump, body, prefix, audioLost>>
watchVars == <<sinkAudio, quiet, watchdog, stop>>
vars == <<audioVars, videoVars, pumpVars, watchVars, cancel>>

Audio == INSTANCE AudioPipe WITH
    Threads <- {"pump", "watchdog"},
    PendingBound <- AudioBound, PipeCap <- AudioCap,
    ChunkSizes <- AudioChunks, MaxOffered <- MaxAudio,
    pending <- aPending, pendingBytes <- aPendingBytes, dropped <- aDropped,
    closed <- aClosed, lock <- aLock, step <- aStep, fd <- aFd,
    kernel <- aKernel, reader <- aReader, offered <- aOffered,
    written <- aWritten

Video == INSTANCE VideoPipe WITH
    PendingBound <- VideoBound, PipeCap <- VideoCap,
    ChunkSizes <- VideoChunks, MaxOffered <- MaxVideo,
    pending <- vPending, pendingBytes <- vPendingBytes, dropped <- vDropped,
    droppedChunks <- vDroppedChunks, closed <- vClosed, step <- vStep,
    stdin <- vStdin, fd <- vFd, kernel <- vKernel, reader <- vReader,
    offered <- vOffered, written <- vWritten

-----------------------------------------------------------------------------
\* A packet by what becomes of it: `n` bytes for the sink of its kind, none
\* when the depacketizer has no whole unit yet.
Bodies == [kind : {"audio"}, n : AudioChunks \cup {0}]
          \cup [kind : {"video"}, n : VideoChunks \cup {0}]

NoBody == [kind |-> "video", n |-> 0]

PumpSteps == {"next", "bind", "offer", "inOffer", "check", "flush", "inFlush",
              "depacketize", "inVideo", "inVideoFlush",
              "stop", "join", "closeAudio", "inClose", "closeVideo", "closeStdin",
              "done"}

WatchSteps == {"poll", "giveUp", "close", "inClose", "done"}

TypeOK ==
    /\ Audio!TypeOK /\ Video!TypeOK
    /\ pump \in PumpSteps /\ body \in Bodies /\ prefix \in 0 .. Prefix
    /\ audioLost \in Nat \cup {-1}
    /\ sinkAudio \in BOOLEAN /\ quiet \in 0 .. Stall + 1
    /\ watchdog \in WatchSteps /\ stop \in BOOLEAN
    /\ cancel \in BOOLEAN

Init ==
    /\ Audio!Init /\ Video!Init
    /\ pump = "next" /\ body = NoBody /\ prefix = Prefix
    /\ audioLost = -1
    /\ sinkAudio = TRUE /\ quiet = 0 /\ watchdog = "poll" /\ stop = FALSE
    /\ cancel = FALSE

-----------------------------------------------------------------------------
(* The pump.                                                               *)

\* Back at the stream the pump holds no packet.
Goto(s) ==
    /\ pump' = s
    /\ body' = IF s = "next" THEN NoBody ELSE body
    /\ UNCHANGED <<prefix, audioLost>>

\* Bound: what the camera sends in a behaviour.
WithinBounds(b) ==
    IF b.kind = "audio" THEN aOffered + b.n <= MaxAudio
                        ELSE vOffered + b.n <= MaxVideo

\* A leading packet (_replay_prefix, which does not look at the cancel flag),
\* then the live ones.  The code replays the leading audio before the leading
\* video; the model takes them in every order, that one among them.
\* owns_audio is the first look at sinks.audio.
Take(b) ==
    /\ pump = "next" /\ WithinBounds(b)
    /\ prefix = 0 => ~cancel
    /\ body' = b
    /\ prefix' = IF prefix > 0 THEN prefix - 1 ELSE 0
    /\ pump' = IF b.kind = "audio" /\ sinkAudio THEN "bind" ELSE "check"
    /\ UNCHANGED <<audioLost, audioVars, videoVars, watchVars, cancel>>

\* The stream ends, breaks, or the cancel flag is seen.
StreamEnds ==
    /\ pump = "next" /\ prefix = 0
    /\ Goto("stop")
    /\ UNCHANGED <<audioVars, videoVars, watchVars, cancel>>

\* The parse is over and the pipe is bound: `pipe = self.audio`.
BindAudio ==
    /\ pump = "bind"
    /\ Goto(IF body.n > 0 /\ sinkAudio THEN "offer" ELSE "next")
    /\ UNCHANGED <<audioVars, videoVars, watchVars, cancel>>

\* pipe.write(frames), which does nothing on a pipe closed since the binding.
OfferAudio ==
    /\ pump = "offer"
    /\ \/ Audio!Write("pump", body.n)
       \/ (aClosed /\ aLock = Nobody) /\ UNCHANGED audioVars
    /\ Goto("inOffer")
    /\ UNCHANGED <<videoVars, watchVars, cancel>>

\* write() returned: audio_at is now.
AudioOffered ==
    /\ pump = "inOffer" /\ aStep["pump"] = "idle"
    /\ quiet' = 0
    /\ Goto("next")
    /\ UNCHANGED <<audioVars, videoVars, sinkAudio, watchdog, stop, cancel>>

\* A packet that is not the audio's: `if self.audio is not None`.
CheckAudio ==
    /\ pump = "check"
    /\ Goto(IF sinkAudio THEN "flush" ELSE "depacketize")
    /\ UNCHANGED <<audioVars, videoVars, watchVars, cancel>>

\* self.audio.flush().  The attribute is read a second time right after the
\* look at it, and the two reads are taken to see one value, as they do where
\* threads cannot be switched between them.
FlushAudio ==
    /\ pump = "flush"
    /\ \/ Audio!Flush("pump")
       \/ (aClosed /\ aLock = Nobody) /\ UNCHANGED audioVars
    /\ Goto("inFlush")
    /\ UNCHANGED <<videoVars, watchVars, cancel>>

AudioFlushed ==
    /\ pump = "inFlush" /\ aStep["pump"] = "idle"
    /\ Goto("depacketize")
    /\ UNCHANGED <<audioVars, videoVars, watchVars, cancel>>

\* The video depacketizer: nothing yet, or a packet of another payload type,
\* or a chunk for the video pipe.
Depacketize ==
    /\ pump = "depacketize"
    /\ IF body.kind = "audio" \/ body.n = 0
       THEN Goto("next") /\ UNCHANGED videoVars
       ELSE Video!Write(body.n) /\ Goto("inVideo")
    /\ UNCHANGED <<audioVars, watchVars, cancel>>

\* write() returned, and feed calls flush().
VideoWritten ==
    /\ pump = "inVideo" /\ vStep = "idle"
    /\ Video!Flush
    /\ Goto("inVideoFlush")
    /\ UNCHANGED <<audioVars, watchVars, cancel>>

VideoFlushed ==
    /\ pump = "inVideoFlush" /\ vStep = "idle"
    /\ Goto("next")
    /\ UNCHANGED <<audioVars, videoVars, watchVars, cancel>>

\* BrokenPipeError: FFmpeg is gone, and so is the pump's reason to go on.
VideoRaised ==
    /\ pump \in {"inVideo", "inVideoFlush"} /\ vStep = "raised"
    /\ Goto("stop")
    /\ UNCHANGED <<audioVars, videoVars, watchVars, cancel>>

\* The finally clause, in its order.
StopWatchdog ==
    /\ pump = "stop"
    /\ stop' = TRUE /\ Goto("join")
    /\ UNCHANGED <<audioVars, videoVars, sinkAudio, quiet, watchdog, cancel>>

JoinWatchdog ==
    /\ pump = "join" /\ watchdog = "done"
    /\ Goto("closeAudio")
    /\ UNCHANGED <<audioVars, videoVars, watchVars, cancel>>

\* Mutant: a second close() fails.
CloseAudio_Once ==
    /\ pump = "closeAudio"
    /\ Audio!Close("pump")
    /\ Goto("inClose")
    /\ UNCHANGED <<videoVars, watchVars, cancel>>

\* _close_audio: idempotent, the watchdog may have closed the pipe.
CloseAudio ==
    /\ pump = "closeAudio"
    /\ \/ Audio!Close("pump")
       \/ (aClosed /\ aLock = Nobody) /\ UNCHANGED audioVars
    /\ Goto("inClose")
    /\ UNCHANGED <<videoVars, watchVars, cancel>>

\* Mutant: the count is read without waiting for close().
AudioClosed_Early ==
    /\ pump = "inClose"
    /\ pump' = "closeVideo" /\ audioLost' = aDropped
    /\ UNCHANGED <<body, prefix, audioVars, videoVars, watchVars, cancel>>

AudioClosed ==
    /\ pump = "inClose" /\ aStep["pump"] = "idle"
    /\ pump' = "closeVideo" /\ audioLost' = aDropped
    /\ UNCHANGED <<body, prefix, audioVars, videoVars, watchVars, cancel>>

CloseVideo ==
    /\ pump = "closeVideo"
    /\ Video!Close
    /\ Goto("closeStdin")
    /\ UNCHANGED <<audioVars, watchVars, cancel>>

CloseStdin ==
    /\ pump = "closeStdin"
    /\ Video!CloseStdin
    /\ Goto("done")
    /\ UNCHANGED <<audioVars, watchVars, cancel>>

\* What the pump does without waiting for the camera.
Handles ==
    \/ BindAudio \/ OfferAudio \/ AudioOffered
    \/ CheckAudio \/ FlushAudio \/ AudioFlushed
    \/ Depacketize \/ VideoWritten \/ VideoFlushed \/ VideoRaised
    \/ StopWatchdog \/ JoinWatchdog \/ CloseAudio \/ AudioClosed
    \/ CloseVideo \/ CloseStdin

\* The steps of a pipe call the pump is in.
InAudioCall(t) ==
    Audio!Advances(t) /\ UNCHANGED <<videoVars, pumpVars, watchVars, cancel>>

InVideoCall ==
    Video!Advances /\ UNCHANGED <<audioVars, pumpVars, watchVars, cancel>>

-----------------------------------------------------------------------------
(* The stall watchdog.                                                     *)

\* A poll that finds the session over (stop.wait returned True).
WatchdogStops ==
    /\ watchdog = "poll" /\ stop
    /\ watchdog' = "done"
    /\ UNCHANGED <<audioVars, videoVars, pumpVars, sinkAudio, quiet, stop, cancel>>

\* A poll that finds the audio quiet for too long.
WatchdogJudges ==
    /\ watchdog = "poll" /\ ~stop
    /\ quiet > Stall
    /\ watchdog' = "giveUp"
    /\ UNCHANGED <<audioVars, videoVars, pumpVars, sinkAudio, quiet, stop, cancel>>

\* give_up_audio: the reference first, then the pipe.
DropReference ==
    /\ watchdog = "giveUp"
    /\ sinkAudio' = FALSE /\ watchdog' = "close"
    /\ UNCHANGED <<audioVars, videoVars, pumpVars, quiet, stop, cancel>>

\* Mutant: the reference is dropped and the pipe left open.
GiveUpAudio_LeftOpen ==
    /\ watchdog = "close"
    /\ watchdog' = "inClose"
    /\ UNCHANGED <<audioVars, videoVars, pumpVars, sinkAudio, quiet, stop, cancel>>

\* Mutant: the watchdog closes the descriptor itself.
GiveUpAudio_RawClose ==
    /\ watchdog = "close"
    /\ aFd' = "shut"
    /\ watchdog' = "inClose"
    /\ UNCHANGED <<aPending, aPendingBytes, aDropped, aClosed, aLock, aStep,
                   aKernel, aReader, aOffered, aWritten, videoVars, pumpVars,
                   sinkAudio, quiet, stop, cancel>>

GiveUpAudio ==
    /\ watchdog = "close"
    /\ \/ Audio!Close("watchdog")
       \/ (aClosed /\ aLock = Nobody) /\ UNCHANGED audioVars
    /\ watchdog' = "inClose"
    /\ UNCHANGED <<videoVars, pumpVars, sinkAudio, quiet, stop, cancel>>

AudioGivenUp ==
    /\ watchdog = "inClose" /\ aStep["watchdog"] = "idle"
    /\ watchdog' = "done"
    /\ UNCHANGED <<audioVars, videoVars, pumpVars, sinkAudio, quiet, stop, cancel>>

Watches ==
    \/ WatchdogStops \/ WatchdogJudges \/ DropReference \/ GiveUpAudio
    \/ AudioGivenUp

Tick ==
    /\ quiet <= Stall
    /\ quiet' = quiet + 1
    /\ UNCHANGED <<audioVars, videoVars, pumpVars, sinkAudio, watchdog, stop, cancel>>

-----------------------------------------------------------------------------
(* FFmpeg, and the rest of the session.                                    *)

VideoRead == vWritten - vKernel
AudioRead == aWritten - aKernel
VideoEnds == vFd # "open" /\ vKernel = 0
AudioEnds == aFd # "open" /\ aKernel = 0

Probed == VideoRead >= Probe \/ VideoEnds

ReadVideo ==
    /\ Probed => AudioEnds \/ VideoRead <= AudioRead + Lead
    /\ Video!Read(1)
    /\ UNCHANGED <<audioVars, pumpVars, watchVars, cancel>>

ReadAudio ==
    /\ Probed
    /\ VideoEnds \/ AudioRead <= VideoRead + Lead
    /\ Audio!Read(1)
    /\ UNCHANGED <<videoVars, pumpVars, watchVars, cancel>>

\* FFmpeg exits: of itself, or terminated by an abort.
FFmpegExits ==
    /\ Audio!ReaderGone /\ Video!ReaderGone
    /\ UNCHANGED <<pumpVars, watchVars, cancel>>

\* abort(): the cancel flag, and the socket shut down under the stream.
Abort ==
    /\ ~cancel /\ cancel' = TRUE
    /\ UNCHANGED <<audioVars, videoVars, pumpVars, watchVars>>

Next ==
    \/ \E b \in Bodies : Take(b)
    \/ StreamEnds \/ Handles
    \/ \E t \in {"pump", "watchdog"} : InAudioCall(t)
    \/ InVideoCall
    \/ Watches \/ Tick
    \/ ReadVideo \/ ReadAudio \/ FFmpegExits
    \/ Abort

\* Threads are scheduled, time passes, FFmpeg reads while it may (its consumer
\* takes what it makes), and a stream whose socket was shut down ends.  The
\* camera sends what it likes and FFmpeg exits when it likes.
Fairness ==
    /\ WF_vars(Handles) /\ WF_vars(InVideoCall)
    /\ \A t \in {"pump", "watchdog"} : WF_vars(InAudioCall(t))
    /\ WF_vars(Watches) /\ WF_vars(Tick)
    /\ WF_vars(prefix > 0 /\ \E b \in Bodies : Take(b))
    /\ WF_vars(cancel /\ StreamEnds)
    /\ WF_vars(ReadVideo) /\ WF_vars(ReadAudio)

Spec == Init /\ [][Next]_vars /\ Fairness

-----------------------------------------------------------------------------
(* Properties.                                                             *)

\* The session uses the audio pipe by its contract: whatever the pump, the
\* watchdog and FFmpeg do together is a behaviour of AudioPipe.
AudioContract == Audio!Spec

\* Its safety part.
AudioContractSafely == Audio!Init /\ [][Audio!Next]_(Audio!vars)

\* Every video byte offered was written, counted as dropped or is queued, and
\* what is queued is consecutive: no gap that the count does not tell.
VideoAccounted == Video!Accounted

\* "A pump that cannot park": whatever FFmpeg is waiting for, the pump comes
\* back to the stream after each packet, or ends.
PumpReturns == pump \notin {"next", "done"} ~> pump \in {"next", "done"}

\* A camera that stops sending audio does not hold the video: what is in
\* FFmpeg's stdin is read, if only after the audio input was given up.
VideoNotHeld == vKernel > 0 ~> vKernel = 0 \/ vReader = "gone"

\* abort() ends the pump, whatever it was doing.
AbortEndsPump == cancel ~> pump = "done"

\* The pump leaves nothing behind: the watchdog is over, FFmpeg has the end of
\* both inputs, and the loss it reports is all of the audio that was offered
\* and never written.
TearsDown ==
    /\ audioLost # -1 => audioLost = aDropped /\ aWritten + aDropped = aOffered
    /\ pump = "done" => /\ watchdog = "done"
                        /\ aFd # "open" /\ vFd # "open" /\ vStdin = "closed"
=============================================================================
