# Verification of ezviz-stream-bridge

TLA+ models of the bridge, checked with TLC, and proofs of the safety of its
components, checked with TLAPS. Every definition is translated from the code under
`ezviz_stream_bridge/`; `PROJECT.json` says which lines each one stands for.

Check a module with `tlc -workers 2 -config MC<name>.cfg <Module>.tla`, and the
proofs of `<Module>` with `tlapm <Module>_proofs.tla` (seconds to five minutes
each). Each component module carries its bounds as CONSTANTS, so most `MC*.cfg` files
instantiate it directly; `MCRtpDepacketizer` adds the constants that are
functions, and `MCPayloadPlan` the cameras.

## The system

The bridge serves EZVIZ battery cameras as MPEG-TS over HTTP. A supervisor
process keeps one proxy process per camera; a proxy opens one cloud session per
GET and pipes the camera's packets through FFmpeg to the consumer.

| component | state | operations | talks to |
|---|---|---|---|
| Supervisor (`supervisor.py`) | per camera: process, failures, next attempt; `_stopping`, `_fatal` | `run`, `_reconcile`, `_note_exit`, `_start`, `_shutdown`, signal handler | starts proxies; calls `TokenStore.ensure` |
| Token store (`token.py`) | the token file and its `.tmp` | `ensure`, `_load`, `_works`, `_login`, `_write` | cloud; the file the proxies read at start |
| HTTP proxy (`proxy.py`) | `_active`, `_cooldown_until`; per request: session, peer watchdog, reason | `do_GET`, `watch_peer`, `start_cooldown`, `wait_for_cooldown`, `opened`, `closed` | runs and aborts a cloud session per GET |
| Cloud session (`session.py`, `CloudSession`) | `_cancel`, `_abort_reason`, `_socket`, `_ffmpeg`, `_writer_error`, metrics | `run`, `abort`, `_make_socket`, `_launch_remux`, `_on_deadline`, teardown | cloud socket, FFmpeg, pump thread, timer thread |
| Media pump (`_pump_vtm_to_ffmpeg`, `_Sinks`, stall watchdog) | the sinks, `audio_at`, `_audio_lost` | `feed`, `give_up_audio`, `_watch_audio_stall`, teardown | both pipes, FFmpeg |
| Audio pipe (`_AudioPipe`) | bounded queue, counters, `_closed`, a lock | `write`, `flush`, `close` | shared by pump, watchdog and the thread of `run()` |
| Video pipe (`_VideoPipe`) | bounded queue, counters, `_closed` | `write`, `flush`, `close` | FFmpeg's stdin, whose descriptor a file object owns too |
| Payload plan, parameter caches (`session.py`) | the plan of a session; `_PARAMETER_SETS` and `_PS_PARAMETER_SETS`, by serial | `_read_prefix`, `_decide`, `_with_audio`, `_remember_*`, `_replay_prefix` | the caches are shared by the sessions of one camera |
| Depacketizers (`rtp.py`) | fragment under way, counters | `feed`, `flush`, `detect_codec`, `parameter_sets` | called by the plan and by the pump |
| Program stream inspector (`mpeg_ps.py`) | what is pending of the system layer and of the elementary stream, the sets found | `feed`, `snapshot`, `flush`, `make_prelude` | called by the plan and by the pump |
| `config.py`, `__main__.py`, `devices.py`, `log.py`, `research/`, `tools/` | none that outlives a call | | |

What is hard here:

* Concurrency: per GET a handler thread, a peer watchdog, a no-video timer, a
  pump, a stall watchdog, and FFmpeg. `abort()` may come at every moment of
  `run()`, from three threads.
* Waiting: FFmpeg probes the video before it opens the audio and interleaves the
  two afterwards, the pump feeds both, and nothing in `abort()` can interrupt a
  thread inside `write`.
* Descriptors: numbers closed by one thread while another may be about to use
  them, in a process whose other requests open descriptors all the time.
* Failure: FFmpeg dies or ignores SIGTERM, the camera is silent, the socket is
  shut down under a read, the consumer leaves while nothing is being written, the
  add-on is killed while the token is being written, the cloud fails in ways
  that do not mean the session is dead.
* Data that comes in any cut and from any point on: a session may join in the
  middle of a unit, a start code may be split between packets, and what FFmpeg
  is started with is decided from the first few packets, before it exists.
* Time: cooldowns, stalls, budgets and backoffs, each a check followed by an act.

What makes each part correct: no byte lost without being counted, and whole
frames lost rather than parts (pipes); no cycle of waits, and a complete
teardown (pump); no abort lost, every resource given back, and an abort that is
an outcome and not an error (session); a consumer that left releases the camera,
and the log tells why (proxy); every camera is tried again, no retry comes
sooner than it should, nothing is left running (supervisor); no torn file and no
needless login (token store); the camera's own codec, its audio only when a frame
of it is there, every packet read handed on once, and parameter sets for later
joins that are the camera's (plan, caches, inspector).

## The modules

`PipeQueue` is the deque of both pipes. A chunk is the interval of the offered
byte stream it still holds, so that lengths, sums and order are arithmetic, and
"written in part" is `lo > start`. `Taken` is `os.write` on a non-blocking pipe:
all or nothing up to PIPE_BUF bytes, a part of a larger chunk.

`LossyPipe` is the abstract queue the session relies on: bytes in order, losses
of the oldest, only with a reason, and counted. **`AudioPipe`** is `_AudioPipe`,
one action per step another thread or FFmpeg can see: an eviction, one
`os.write`, the flag, the `os.close`, the final count. `lock` and `step` are the
lock and each thread's place in its call. `AudioPipe` implements `LossyPipe`
(`KeepsPromise`). **`VideoPipe`** is `_VideoPipe` in the same grain, with the
`Popen.stdin` object that owns the same number (`stdin`, `CloseStdin`).

**`MediaPump`** composes both pipes (by INSTANCE) with the pump's program
counter, the watchdog's, and FFmpeg's reads (`ReadVideo`, `ReadAudio`), which
follow what `session.py` documents: `Probe` bytes of video come before the first
read of the audio, and neither input is read more than `Lead` bytes past the
other while both are open. `feed` looks at `self.audio` and reads it again in the
next bytecode (session.py:613-614): the model takes the two as one step, which
they are where the interpreter has a GIL. It models a session that has an audio
input. A packet
is its kind and the bytes its depacketizer makes of it. The leading packets are
taken in every order, of which the code's (audio first) is one.

`SessionContract` is what the proxy may rely on: the first abort's reason
stands, resources are held only while the session runs, an aborted session
ends, and it fails only over something that failed, unless somebody else
aborted it before the camera had answered. **`CloudSession`** is `run()` and
`abort()`: the program counter of `run()`, the one `abort()` that can be on its
way between its locked section and its two calls outside the lock, every
connection made by `_make_socket` (a redirect makes another), the timer, and the
pump in the states that `run()` can tell apart. Without an audio input the video
goes through the blocking stdin, where the pump may park. `CloudSession`
implements `SessionContract` (`KeepsContract`).

**`Proxy`** is `do_GET`, `watch_peer` and the cooldown, for `Handlers` GETs at a
time; its sessions do anything that `SessionContract` allows. `SessionsByContract`
checks that they, and the proxy's own aborts, do nothing else, so what holds
there holds over `CloudSession`. A handler that finished stands for the thread of
the next GET. `watch_peer` looks at one byte of what the consumer sent and leaves it
there (MSG_PEEK): whoever sent a byte after its request and leaves is `hidden`, for
`recv` never comes to its end, and only a write of the session tells.

**`RtpDepacketizer`** is `feed()` and `flush()` for both codecs, with the camera
and the way its packets take as the environment. The bytes that decide how a
payload is read are numbers; the rest of a unit is the list of its parts, one to
a fragment, so that an output tells which packets it was made of. A packet may
be lost, malformed, shorter than its headers, or an aggregate that was cut.
`MCRtpDepacketizer` gives TLC the header bytes. The pump of `MediaPump` keeps of
all this the length of what comes out.

**`PayloadPlan`** is the part of a session between the handshake and the pump's loop:
`_read_prefix`, `_decide`, `_with_audio` with its deadline, the two caches that the
sessions of a camera share, the replay, and the loop over what comes afterwards. Each
read of a packet, the decision, the deadline, an abort and each packet of the replay are
steps of their own; `replayed` is how far a pass of `_replay_prefix` has come. A camera
(`camera`, in `MCPayloadPlan`) is a list of RTP packets, or the bytes of a container
with a note of how it was put together; a packet is the interval of these that it holds,
so that "once and in order" is arithmetic. `plan`, `cancelled`, `inspector` are the
code's; `video` and `audio` are what each depacketizer has taken (the video's skips what
is not of its payload type: `Skips`), `frames` the ADTS frames. `givenUp` is
`_Sinks.audio is None`: the watchdog of `MediaPump` may give the audio up before any
packet (`GiveUpAudio`), between the two passes of the replay too, and what was the
audio's is then fed to the video. `_replay_prefix` and `feed` look at `audio` up to
three times for one packet; a give-up between two of these leaves what one before the
packet, or after it, leaves. Its pure parts are modules of their own. **`RtpCodec`** is
`detect_codec` and `parameter_sets`: a NAL unit is its first two bytes, which is all
that these look at. **`AacHbr`** is the audio half of `rtp.py`: the test for an AU
header section, and the seven bytes of the ADTS header in numbers. **`ProgramStream`**
is `ProgramStreamInspector` and `make_prelude` byte by byte; each operator returns the
inspector a method leaves behind. A loop of the inspector is a recursive function over
its turns, of which each but the last takes a start code away (`Turns`). `CloudSession`
leaves what the packets say open, so that the two together are `run()`.

What these leave out: RTP payloads hold no pack start code and no TS grid, which
`classify_payload` would look at first; parameter sets come in no fragments; layered
HEVC, which the docstring of `_detect_parameter_set` excludes, and H.264 data
partitions, which no docstring does (`OfCodec` in `CamerasAssumption`); a camera whose
Access Units name now one number of channels and now another (`OfChannels`); a join
inside an audio PES at bytes that look like a start code. The pump's inspector is a
second one, which reads the prefix again and reaches the state that the first one had:
one variable is both. The unit before the end of the stream is inspected by nobody
(`flush` is not called by the session), and a unit keeps the zero that belongs to a
four-byte start code after it; both are as in the code, and the properties say so.

**`TokenStore`** is one call of `ensure()`, with the file and its temporary
neighbour as what survives a crash. **`Supervisor`** drives it and one process
per camera: `pc` and `at` are where the loop is, `wait` and `uptime` are
`next_attempt_at - now` and `now - started_at`. `Restart` is the add-on killed
and started again. The power in `_Proxy.backoff` is an int of any size until it
is converted to a float: `Overflows`.

The theorems about `M` and their proofs are in `M_proofs`: `PipeQueue_proofs` (the
lemmas on the queue that both pipes need), `AudioPipe_proofs`, `MediaPump_proofs`
(with the video pipe, which only the pump uses), `CloudSession_proofs`,
`Proxy_proofs`, `Supervisor_proofs` (with the token store, which the supervisor
drives), `RtpDepacketizer_proofs` and `PayloadPlan_proofs` (with `RtpCodec`,
`AacHbr` and `ProgramStream`, which the plan reads packets with).

Operators named `X_Y` with a comment that begins with "Mutant" are the plausible
mistakes each property was tried against; no specification uses them.

## The runs

| run | what it shows |
|---|---|
| `audio_pipe` | Three threads, chunks of 1 and 2 bytes, a bound of 3, a kernel pipe of 3, 8 bytes offered. `TypeOK`, `Accounted`, `DescriptorSafe`, `Bounded`, `CountIsFinal`, `WholeFrames`, and the refinement of `LossyPipe` (`KeepsPromise`). |
| `media_pump` | The pump, the watchdog, both pipes and FFmpeg together. `AudioContract`: the session uses the audio pipe as `AudioPipe` has it, fairness included. `VideoAccounted`; `TearsDown`; `PumpReturns`: the pump never parks; `VideoNotHeld`: a silent audio input does not hold the video for good; `AbortEndsPump`. |
| `session` | One redirect. `NoMissedWakeup`, `WokenBeforeClose`, `NoVideoEnds`, `StreamEndEnds`, `PumpEndsToo`, and the refinement of `SessionContract` (`KeepsContract`). |
| `proxy` | Two GETs. `ActiveCounted`, `ReasonTells`, `WaitsOut`, `GoneConsumerReleases`: one that left, and sent nothing but its request, releases the camera; `SessionsByContract`. |
| `supervisor` | Two cameras. `RetriesBackOff`, `EveryCameraIsTried`, `SignalStops`, `StopsEverything`, `NeverTorn`, `LoginsAreNeeded`. |
| `rtp` | `DamageNeedsGap`: what `feed()` returns is what the camera sent, unless a fragment inside it was lost; `NoSilentLoss`: no unit of which anything arrived vanishes without the count going up; and no unit under way outgrows the bound (`TypeOK`). |
| `payload` | Two sessions of one of sixteen cameras. `EveryPacketOnce`: of what was read, to decide or later, the video's depacketizer takes each packet of its type once, and the audio's each of its own, unless the audio is given up; none of the audio gets into the video. `AudioPlays`: FFmpeg is given an audio input only with a frame for it, unless the audio is given up before, and the frames' headers add up and name the camera's channels. `CodecIsTheStreams`. `FindsTheSets`: the inspector holds exactly the parameter sets that came whole, however the stream was cut. `PreludeReadsBack`: who reads the prelude made of the cache finds those sets. `WindowCloses`: keepalives do not hold the audio window open. `TypeOK`: what is pending is bounded. |

A type invariant is checked where a bound of the code is part of it; `MediaPump`,
`CloudSession`, `Proxy` and `Supervisor` state theirs for the reader, and their
runs check what relates the variables.

Five runs show where the code does not do what it, its comments or its tests
say:

| run | the disagreement |
|---|---|
| `torn` | `_VideoPipe.write` evicts `pending[0]` even when `_drain` has left there the rest of a chunk whose head FFmpeg was given: the reader gets a torn chunk, not "a bounded gap" (session.py:474-477). |
| `recycled` | `_VideoPipe.close` closes the number of `ffmpeg.stdin`, and `stdin.close()` closes it again. It "raises EBADF" (session.py:1516) only if nobody was given the number in between. |
| `blamed` | The consumer leaves during the handshake; the DeviceException that `abort()` causes begins the cooldown, which "means the camera went offline" (proxy.py:125). |
| `partial` | A session that ends, or whose prefix is full, between an SPS and its PPS leaves the one without the other in `_PARAMETER_SETS`, over a complete entry if there was one; the repository's README.md:123 says "complete parameter sets [...] for both RTP and HEVC inside MPEG-PS". Only the latter asks for `complete`. |
| `overflow` | The 1025th failure in a row raises OverflowError in `backoff`, which nothing catches; "fails forever" (tests/test_supervisor.py:52) is capped at about three and a half days. |

Three more, with no run of their own: the join of the
pump (session.py:836) can give up, although its comment calls that unreachable,
for a pump parked in a write to an FFmpeg that ignores SIGTERM (`JoinGivesUp`;
`PumpEndsToo` shows that the pump ends later); a fragment that follows a lost
one is joined to what is under way without any count going up (`NextFragment`;
`DamageNeedsGap` says that nothing else damages a unit); and "layers are the boundary
of this guarantee" (rtp.py:193), but a data partition of H.264 whose first byte is
0x42 (type 2) or 0x44 (type 4) reads as an SPS or a PPS of HEVC (`SetCodec`), which is why
`OfCodec` excludes these.

### Bounds, and why they are enough

* Audio pipe: a queue of up to three chunks over its bound, a pipe that is full,
  empty or in between, and one more thread than the two that meet in a session.
  Chunks are no larger than PIPE_BUF, as one RTP packet's Access Units are; the
  proof shows that `WholeFrames` needs that and nothing else does.
* Video pipe (`torn`, `recycled`): chunks above PIPE_BUF, which video chunks are.
* Media pump: kernel pipes of one byte, so that both are full almost always; a
  queue with room for one chunk less than is sent; a probe longer than the
  kernel pipe; three bytes of video and two of audio, which is enough for an
  eviction, a stall and a teardown with something queued. `Lead = 0` is the
  strictest interleaver.
* Session: two connections, the second by a redirect. The first abort decides
  everything, so that one abort on its way is all there is.
* Proxy: two handlers, so that one begins the cooldown that the other waits for; one
  tick of cooldown; one of the two consumers may send more than its request (`Talkers`).
* RTP: three units of up to three fragments, so that one can be damaged between
  two others, two can be joined into one that is too long, and a loss can span
  the end of one and the start of the next; two header bytes per codec.
* Payload plan: two sessions, so that one opens on what the other left, and two
  RTP sessions at a time (containers one after the other: the inspector of one
  shares nothing with the other's but the write of the cache). A prefix of two
  packets and a window of two: parameter sets, audio, its first Access Unit that
  names the channels, and packets with nothing in them fall on either side of
  each limit. Packets of 1, 2, 5 and 20 bytes cut a program stream at every byte.
  The cameras: each way to open a stream (units alone, together, cut off, slices
  first), joined at its start and after the parameter sets, which a prefix of two
  packets splits; audio at the
  limits of 13 bits, primed, late, malformed, encrypted;
  program streams with MPEG-1 and MPEG-2 headers, a PES with and without a
  length, one longer than `MaxPending`, a unit longer than `MaxParameterSet`,
  repeated sets and more sets than `MaxSetsPerType`; and a stream that is
  neither. `PesLengthMax = 32` is so small that both forms of the prelude come up.
* Supervisor: two cameras, so that one can starve the other; three failures, of
  which the last is past the cap; uptimes on both sides of `HealthyAfter`.
  `overflow` counts to 1025 with one camera; `FloatDoublings = 1024` is the
  width of a double's exponent.

`MaxOffered`, `MaxAudio`, `MaxVideo`, `MaxSockets`, `MaxUnits`, `MaxOthers`,
`MaxSessions` and `MaxFailures` bound what
the environment does or what is counted. Deadlock is not checked: every one of
these behaviours may end, by a bound or because nobody asks for anything more.

### Fairness, and why the code justifies it

Threads are scheduled, and time passes. A connection or handshake ends by its
socket timeout; a read of a socket that was shut down ends (that is why
`_shutdown` is used); a call of the token's cloud client ends. FFmpeg reads when
its inputs let it (`media_pump`), and ends after its inputs did; it need not act
on SIGTERM. The camera may be silent for ever; in `PayloadPlan` it still sends
keepalives (`KeepAlive`), or else the socket's timeout ends the read. Two assumptions go beyond the
code: the consumer reads what it is sent or leaves (`Written` in `CloudSession`;
`output.write` to a consumer that stays and does not read has no timeout), and
the steps of the pump between two blocking calls, as well as the rest of an
`abort()`, take less than `_WRITER_JOIN_TIMEOUT` (`JoinGivesUp` is only for a
parked pump). `GoneConsumerReleases` is stated for consumers that sent nothing after
their request: "which no stream consumer does" (proxy.py:157-158) is the code's own
reliance, and nothing but a failed write tells that a `hidden` one left.
`EveryCameraIsTried` assumes that the add-on is not restarted for
ever. A killed process is taken to be reaped within `SHUTDOWN_KILL_GRACE`.

## The proofs

What the runs show on a small instance the theorems show for every value of the
constants. Nothing is assumed but the named assumptions on these; the one that says
more than what kind of number a constant is, `CamerasAssumption` in `PayloadPlan`, is
that a camera has one codec and one kind of audio. In each module
`IInv` is the inductive invariant, `Invariance` states `Spec => []IInv`, and
`TypeCorrect` states `Spec => []TypeOK`; the other theorems follow from `IInv`.

| module | for every | theorem | it states |
|---|---|---|---|
| `AudioPipe_proofs` | set of threads, bound, pipe capacity, chunk sizes | `BytesAccounted` | `Spec => []Accounted` |
| | | `DescriptorIsSafe` | `Spec => []DescriptorSafe` |
| | | `QueueIsBounded` | `Spec => []Bounded` |
| | | `LossIsFinal` | `Spec => []CountIsFinal` |
| | | `FramesStayWhole` | `Spec => WholeFrames`, if every chunk fits PIPE_BUF |
| | | `ImplementsPromise` | `Spec => KeepsPromiseSafely`: the safety part of the refinement of `LossyPipe` |
| `MediaPump_proofs` | bounds, capacities and chunk sizes, `Prefix`, `Stall`, `Probe`, `Lead` | `KeepsAudioContract` | `Spec => AudioContractSafely`: the session uses the audio pipe as `AudioPipe` has it |
| | | `VideoBytesAccounted` | `Spec => []VideoAccounted` |
| | | `PumpTearsDown` | `Spec => []TearsDown` |
| | bound, pipe capacity, chunk sizes | `VideoInvariance`, `VideoTypeCorrect` | of the video pipe alone (`Video!Spec`): its invariant and its types |
| | | `VideoAloneAccounted` | `Video!Spec => []Video!Accounted` |
| | | `SmallChunksStayWhole` | `Video!Spec => Video!WholeChunks`, if every chunk fits PIPE_BUF |
| `CloudSession_proofs` | number of connections, with a deadline or without | `NoWakeupMissed` | `Spec => []NoMissedWakeup` |
| | | `WokenFirst` | `Spec => []WokenBeforeClose` |
| | | `ImplementsContract` | `Spec => KeepsContractSafely`: the safety part of the refinement of `SessionContract` |
| `Proxy_proofs` | finite set of handlers, cooldown | `CountsActive` | `Spec => []ActiveCounted` |
| | | `TellsReason` | `Spec => []ReasonTells` |
| | | `CooldownWaitedOut` | `Spec => WaitsOut` |
| | | `SessionsKeepContract` | `Spec => SessionsByContract` |
| `Supervisor_proofs` | number of cameras, backoff, uptime, failures | `NothingLeftBehind` | `Spec => []StopsEverything` |
| | | `BacksOff` | `Spec => RetriesBackOff` |
| | | `TokenNeverTorn` | `Spec => NeverTorn` |
| | | `LoginsNeeded` | `Spec => LoginsAreNeeded` |
| `RtpDepacketizer_proofs` | header bytes of both codecs, bound on a unit, number of units and of fragments | `OnlyLossDamages` | `Spec => []DamageNeedsGap` |
| | | `LossIsANumber` | `Spec => NoSilentLoss` |
| `PayloadPlan_proofs` | cameras, joins, packet sizes, number of sessions, prefix, window, bounds of the inspector | `HandedOnOnce` | `Spec => []EveryPacketOnce` |
| | | `CodecIsTold` | `Spec => []CodecIsTheStreams` |
| | | `AudioIsPlayed` | `Spec => []AudioPlays` |
| | | `CodecsToldApart` | of any first bytes: `DetectCodec` never names the other codec |
| | | `HeaderReadsBack` | of any size up to `MaxAu` and any channels: the ADTS header reads back |

### The arguments

**Audio pipe.** None of the invariants is inductive alone. `IInv` adds what ties them
together: whoever is inside a call holds the lock, and nobody else is inside one;
the bound was re-established on the way from `evict` to `drain`; the flag, the
descriptor and the step of the closing thread agree (the descriptor is open until
`CloseDescriptor`, which only the thread that set the flag reaches); a closed
pipe whose lock is free has an empty queue. Each action then preserves it by the
lemmas on the queue in `PipeQueue_proofs`: what `Append`, `Tail` and `Advance` do
to the sum and to the order of the intervals, and that `Taken` fits the chunk and
the room. With chunks up to PIPE_BUF, `Taken` is all or nothing, and no queued
chunk is ever a remainder; that is `FramesStayWhole`.

**Video pipe.** It has no lock and one caller; `ClosedWithIt` says that a closed pipe
has an empty queue and no call under way, so that nothing is counted after. The
lemmas on the queue hold of it through `Queue == INSTANCE PipeQueue_proofs`.
`SmallChunksStayWhole` is the other half of the run `torn`: what the comment in
`_VideoPipe.write` says is true of chunks up to PIPE_BUF, which video is not.

**Media pump.** Its proof does not go through the pipes again. `IInv` has each pipe's
own invariant as a conjunct, the audio's by INSTANCE of its proof module; every action of
the pump, the watchdog and FFmpeg is shown to be, on each pipe, one of that pipe's
actions or none (`SameAudio`, `SameVideo`), and then the pipe's own
induction step applies (`NextIInv`, `VideoNext`).
This is also what `KeepsAudioContract` says. What is left is what ties the threads
to the pipes: a thread is inside a call only where it waits for one; the video pipe is
closed once, by the pump, and stdin after it; the watchdog is over before anything is
closed; and `_audio_lost` is read from a pipe that counts no more.

**Cloud session.** The heart is `NothingMissed`: once the flag is set, a socket that
is still open is either one that `run()` has not registered yet, and will find the
flag when it does, or the one that the abort on its way captured and is about to
shut down; and likewise for FFmpeg. It is inductive only with `OneConnection`
(`_socket` is the last connection, but between a connect and its registration),
`OneProcess`, and `Flag`, which says where `run()` may be with the flag set.
`PumpLife` and `Blame` (which faults explain an error) are for the closing order and
for the contract. The refinement has a lemma per action of the contract; what a step
does to `holds` is read off `HoldsTheLast`.

**Proxy.** `Staged` gives the phase of the session by the place of its handler,
`Aborted` whose abort it is, `Told` what the log is going to say while the watchdog is
still to be joined, `Looked` that a handler about to run its session has seen the end
of every cooldown it knew. The count is the cardinality of the set of handlers
being served, of which each step adds or removes at most one.

**Supervisor and token store.** `Reaping`: during the shutdown a proxy that runs is
one that was signalled and is waited for, which needs that nothing is started after the
loop was left. `Writing`: whatever is about to replace the token file is a whole token,
and a login is tried only over a file that holds no live session.

**RTP depacketizer.** `DamageNeedsGap` speaks of units that were returned; what must be
kept is what is under way. `Growing`: it begins with the first part of a unit, its last
part was sent already, and it is either a prefix of that unit whose next part is the
one to be sent next or was lost, or it already has a gap. A fragment that
follows is then the next part of the same unit, or makes the gap. `Halfway` is for the
camera: a unit under way is the last that was begun. The proof has a lemma for what
may become of a packet of each shape (`Kept`, `Grow` and their like: what `feed`
returned, what arrived, what did not), from which each step of the camera follows.
`NoSilentLoss` is shown step by step from the same lemmas.

**Payload plan.** `IInv` is of each session and of the cache. `Keeps`: what was kept to
decide is a list of intervals in order, and they hold all places with a body from the
join to where the session is. `HandsOn`: what the depacketizers have taken is, during
the replay, what the passes have looked at of their payload type (`AudioHalf`,
`VideoHalf`), and afterwards all of it that was read; of the audio, once it is given up,
a part. It is inductive because the replay is a step per packet, and because a plan that
announces audio has a codec, and for its video a payload type that is not the audio's
(`Apart`): so the video's depacketizer skips what it is fed of an audio that was given
up, at whatever place of the two passes that was. Joining neighbours (`Hand`) changes
the list and not the places. `Decided` and `CacheTold` go together: a codec that the
session's packets name is the camera's by `CodecsToldApart`, and one from the cache is
what another session found that way. `Sounds` is about the audio: the packet that made
the plan announce it passed `CarriesAac`, so that `Frames` makes at least one of it, and
once the replay has come past it there are frames, or the audio is given up; each frame
has the header of its unit, which reads back by `HeaderReadsBack`.

`CodecsToldApart` has as hypotheses what `OfCodec` says of the camera: single-layer HEVC
(an even first byte) and no data partitions of H.264 (types 2 and 4; type 0 is no NAL
unit). `HeaderReadsBack` needs that a size is at most `MaxAu`, which `CarriesAac`
tests before a plan announces audio, and `Frames` before it writes any header.

**Program stream inspector.** The bounds of `TypeOK` need an invariant of their own,
`Inspecting`: every byte is a byte, and neither buffer is longer than it may be. The
loops are recursive functions over as many turns as there are start codes, and one: by
`TakeUnitIs` a turn of `_feed_elementary` takes a start code away or leaves the
elementary stream within its bound, where it stays, so that the last turn has left it
there. `pending` is cut by `feed()` and only shrinks in `_parse`. Recursion is reasoned
about with sets: `Least`, that a set of numbers has a least one, gives `Induction` over
a set, from which `Recursion` and `Computes` follow, that a recursive function on an
interval of numbers is what its equation says.

### Model-checked only

* Liveness under fairness, ENABLED included, which the prover does not treat: the
  fairness parts of `KeepsPromise`, `KeepsContract` and `AudioContract`, and
  `PumpReturns`, `VideoNotHeld`, `AbortEndsPump`, `NoVideoEnds`, `StreamEndEnds`,
  `PumpEndsToo`, `GoneConsumerReleases`, `EveryCameraIsTried`, `SignalStops`,
  `WindowCloses`.
* `FindsTheSets` and `PreludeReadsBack`. Both relate what the inspector computed of
  the bytes to how these bytes were put together: which units were carried whole
  through PES packets, joins and cuts. That is an induction over two descriptions of
  the same data, one of which (`parts`, `nals`) the cameras of `MCPayloadPlan` bring
  along and no constant of the model promises. What is proved of the inspector is that
  it stays within its bounds, for all bytes.

## Not modelled, and what is left open

Not modelled: log lines and reports, and the counters that only they read (the
breakdown per payload type of `RtpDepacketizer`, those of `AacHbrDepacketizer`);
argument parsing and `config.py`, a pure validation of a small file;
`__main__.py`, `devices.py`, `log.py`: start-up and formatting; `research/` and
`tools/`, which the bridge does not use; the stderr drain of FFmpeg (a daemon
thread, joined with a timeout, that changes no other state).

Without a property (`hazards` in `PROJECT.json`): a consumer that stays and does
not read, which the model assumes away (`Written`); and an encoder that changes
its parameters in the middle of a session, after which the inspector keeps the
old sets beside the new (the repository's README.md:129-132 says that sets do not expire). Which
of the two a slice wants is in bytes that no model here has.

Smaller exposures that no property is about: the no-video timer
and the stall watchdog judge in one step and act in the next, so either may act on a
session whose packet has just come (`TimerJudges`, `TimerAborts`; `WatchdogJudges`,
`DropReference`); a cooldown may begin between a handler's last look at it and its
`run()` (proxy.py:146, proxy.py:272), which `WaitsOut`, about cooldowns begun before
that look, leaves out; a `hidden` consumer of a camera that sleeps holds it until
something is written (proxy.py:168-178); a socket whose descriptor number is too large
for `select` is taken for one of a consumer that left (proxy.py:160-165); `do_GET` takes
a ConnectionResetError of the cloud's socket for the consumer's (proxy.py:275); the
number of handler threads has no limit (proxy.py:64); a token may expire between
`ensure()` and the proxy's first use of it (supervisor.py:213); and after
`MfaRequiredError` the pass goes on and each camera left tries a login of its own
(supervisor.py:215).

What would extend the proofs: a specification of how a program stream is put together
(packs, PES packets, units), as an assumption on `Cameras` in the way of `OfCodec`, over
which `FindsTheSets` could be stated for every stream; and a statement of what
`RtpDepacketizer` promises, which `PayloadPlan` and `MediaPump` could be composed with.
