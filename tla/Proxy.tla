-------------------------------- MODULE Proxy --------------------------------
(***************************************************************************)
(* proxy.py: the threaded HTTP server of one camera.  Each GET is a handler *)
(* thread (do_GET), a peer watchdog (watch_peer) and a CloudSession; they   *)
(* share the cooldown and the count of active connections.  The sessions    *)
(* do what SessionContract allows and nothing else (SessionsByContract), so *)
(* that what is shown here holds of CloudSession, which implements it.      *)
(*                                                                         *)
(* A handler that is done is the thread of the next GET: the server has no  *)
(* limit on its threads, and the model has Handlers of them at a time.      *)
(***************************************************************************)
EXTENDS Integers, FiniteSets

CONSTANTS
    Handlers,   \* GETs served at the same time
    Talkers,    \* those whose consumers may send more than their request
    Cooldown    \* timeout_cooldown, in ticks

ASSUME ProxyAssumption == IsFiniteSet(Handlers) /\ Cooldown \in Nat

VARIABLES
    handler,    \* each handler thread's program counter
    logged,     \* its `reason`, which the connection log reports
    watch,      \* its peer watchdog
    consumer,   \* the consumer at the other end: "here", "gone", or "hidden",
                \* gone with a byte before its end that nobody reads
    session,    \* its CloudSession, as SessionContract has it
    cooldown,   \* _cooldown_until - now(), down to 0
    active,     \* _active
    waited      \* history: no cooldown began since the handler looked

handlerVars == <<handler, logged>>
serverVars  == <<cooldown, active, waited>>
vars == <<handlerVars, watch, consumer, session, serverVars>>

NewSession == [phase |-> "new", reason |-> "none", holds |-> {},
               opened |-> FALSE, fault |-> FALSE, outcome |-> "none"]

Sessions == [phase : {"new", "running", "ended"},
             reason : {"none", "client_gone", "no_video", "finished"},
             holds : {{}},
             opened : BOOLEAN, fault : BOOLEAN,
             outcome : {"none", "ok", "device", "error", "pipe"}]

Served == {"headers", "cooldown", "sleep", "decide", "session", "timeout",
           "stopWatch", "join"}

TypeOK ==
    /\ handler \in [Handlers -> Served \cup {"new"}]
    /\ logged \in [Handlers -> {"stream_ended", "client_disconnected", "no_video",
                                "camera_timeout", "error"}]
    /\ watch \in [Handlers -> {"none", "watching", "done"}]
    /\ consumer \in [Handlers -> {"here", "gone", "hidden"}]
    /\ session \in [Handlers -> Sessions]
    /\ cooldown \in 0 .. Cooldown
    /\ active \in 0 .. Cardinality(Handlers)
    /\ waited \in [Handlers -> BOOLEAN]

Init ==
    /\ handler = [h \in Handlers |-> "new"]
    /\ logged = [h \in Handlers |-> "stream_ended"]
    /\ watch = [h \in Handlers |-> "none"]
    /\ consumer = [h \in Handlers |-> "here"]
    /\ session = [h \in Handlers |-> NewSession]
    /\ cooldown = 0 /\ active = 0
    /\ waited = [h \in Handlers |-> FALSE]

-----------------------------------------------------------------------------
(* do_GET.                                                                 *)

Goto(h, s) == handler' = [handler EXCEPT ![h] = s] /\ UNCHANGED logged

Reports(h, s, r) ==
    /\ handler' = [handler EXCEPT ![h] = s]
    /\ logged' = [logged EXCEPT ![h] = r]

\* A GET of the stream's path: opened(), and a session nobody has run yet.
Accept(h) ==
    /\ handler[h] = "new"
    /\ Goto(h, "headers")
    /\ active' = active + 1
    /\ UNCHANGED <<watch, consumer, session, cooldown, waited>>

\* The headers are out, and the watchdog is started.
SendHeaders(h) ==
    /\ handler[h] = "headers"
    /\ Goto(h, "cooldown")
    /\ watch' = [watch EXCEPT ![h] = "watching"]
    /\ UNCHANGED <<consumer, session, serverVars>>

SendHeadersFails(h) ==
    /\ handler[h] = "headers" /\ consumer[h] # "here"
    /\ Reports(h, "stopWatch", "client_disconnected")
    /\ UNCHANGED <<watch, consumer, session, serverVars>>

\* Mutant: the wait is over after the first sleep.
LookAtCooldown_Once(h) ==
    /\ handler[h] = "cooldown"
    /\ Goto(h, IF session[h].reason # "none" \/ cooldown = 0 \/ waited[h]
               THEN "decide" ELSE "sleep")
    /\ waited' = [waited EXCEPT ![h] = TRUE]
    /\ UNCHANGED <<watch, consumer, session, cooldown, active>>

\* One turn of wait_for_cooldown.
LookAtCooldown(h) ==
    /\ handler[h] = "cooldown"
    /\ Goto(h, IF session[h].reason # "none" \/ cooldown = 0
               THEN "decide" ELSE "sleep")
    /\ waited' = [waited EXCEPT ![h] = TRUE]
    /\ UNCHANGED <<watch, consumer, session, cooldown, active>>

Wake(h) ==
    /\ handler[h] = "sleep"
    /\ Goto(h, "cooldown")
    /\ UNCHANGED <<watch, consumer, session, serverVars>>

\* The second look at abort_reason, and run().
Run(h) ==
    /\ handler[h] = "decide" /\ session[h].reason = "none"
    /\ Goto(h, "session")
    /\ session' = [session EXCEPT ![h].phase = "running"]
    /\ UNCHANGED <<watch, consumer, serverVars>>

Decline(h) ==
    /\ handler[h] = "decide" /\ session[h].reason # "none"
    /\ Reports(h, "stopWatch", "client_disconnected")
    /\ UNCHANGED <<watch, consumer, session, serverVars>>

\* Mutant: the default reason for every session that returned.
Logged_Default(r) == "stream_ended"

\* _REASONS, with the default for anything else.
Logged(r) ==
    CASE r = "client_gone" -> "client_disconnected"
      [] r = "no_video" -> "no_video"
      [] OTHER -> "stream_ended"

\* run() returned.
RunReturns(h) ==
    /\ handler[h] = "session" /\ session[h].outcome = "ok"
    /\ Reports(h, "stopWatch", Logged(session[h].reason))
    /\ UNCHANGED <<watch, consumer, session, serverVars>>

\* run() raised: a connection broke, the camera did not deliver, or another
\* failure, which keeps the default reason if it is not a PyEzvizError.
RunRaises(h) ==
    /\ handler[h] = "session"
    /\ \/ session[h].outcome = "pipe" /\ Reports(h, "stopWatch", "client_disconnected")
       \/ session[h].outcome = "device" /\ Reports(h, "timeout", "camera_timeout")
       \/ session[h].outcome = "error"
          /\ \E r \in {"error", logged[h]} : Reports(h, "stopWatch", r)
    /\ UNCHANGED <<watch, consumer, session, serverVars>>

\* start_cooldown, a no-op when the cooldown is off.
StartCooldown(h) ==
    /\ handler[h] = "timeout"
    /\ Goto(h, "stopWatch")
    /\ cooldown' = Cooldown
    /\ waited' = IF Cooldown > 0 THEN [g \in Handlers |-> FALSE] ELSE waited
    /\ UNCHANGED <<watch, consumer, session, active>>

\* stop_watching is set.
StopWatching(h) ==
    /\ handler[h] = "stopWatch"
    /\ Goto(h, "join")
    /\ UNCHANGED <<watch, consumer, session, serverVars>>

\* The thread, its session and its watchdog are gone.
Discard(h) ==
    /\ Reports(h, "new", "stream_ended")
    /\ watch' = [watch EXCEPT ![h] = "none"]
    /\ consumer' = [consumer EXCEPT ![h] = "here"]
    /\ session' = [session EXCEPT ![h] = NewSession]
    /\ waited' = [waited EXCEPT ![h] = FALSE]
    /\ UNCHANGED cooldown

\* Mutant: closed() is called only by a handler that ran its session.
Finish_RanOnly(h) ==
    /\ handler[h] = "join" /\ watch[h] \in {"none", "done"}
    /\ active' = IF session[h].phase = "ended" THEN active - 1 ELSE active
    /\ Discard(h)

\* The watchdog is joined, and closed() counts the connection out.
Finish(h) ==
    /\ handler[h] = "join" /\ watch[h] \in {"none", "done"}
    /\ active' = active - 1
    /\ Discard(h)

-----------------------------------------------------------------------------
(* watch_peer.                                                             *)

\* What a poll of the watchdog finds.  MSG_PEEK takes nothing from a client that
\* did send something: the end that is behind it is never seen.
SeesGone(h) == watch[h] = "watching" /\ handler[h] # "join" /\ consumer[h] = "gone"

\* Mutant: a consumer that left is nothing to stop the session for.
PeerGone_Ignored(h) ==
    /\ SeesGone(h)
    /\ watch' = [watch EXCEPT ![h] = "done"]
    /\ UNCHANGED <<handlerVars, consumer, session, serverVars>>

\* Mutant: a later abort replaces the reason of an earlier one.
PeerGone_Again(h) ==
    /\ SeesGone(h)
    /\ watch' = [watch EXCEPT ![h] = "done"]
    /\ session' = [session EXCEPT ![h].reason = "client_gone"]
    /\ UNCHANGED <<handlerVars, consumer, serverVars>>

\* The end of the consumer's side: abort("client gone"), which changes nothing
\* after another abort.
PeerGone(h) ==
    /\ SeesGone(h)
    /\ watch' = [watch EXCEPT ![h] = "done"]
    /\ session' = IF session[h].reason = "none"
                  THEN [session EXCEPT ![h].reason = "client_gone"] ELSE session
    /\ UNCHANGED <<handlerVars, consumer, serverVars>>

WatchStops(h) ==
    /\ watch[h] = "watching" /\ handler[h] = "join"
    /\ watch' = [watch EXCEPT ![h] = "done"]
    /\ UNCHANGED <<handlerVars, consumer, session, serverVars>>

-----------------------------------------------------------------------------
(* The environment: the sessions, by their contract; consumers; the clock.  *)

Running(h) == session[h].phase = "running"

SessionStep(h, s) ==
    /\ Running(h)
    /\ session' = [session EXCEPT ![h] = s]
    /\ UNCHANGED <<handlerVars, watch, consumer, serverVars>>

\* What a session holds is no handler's business, and left out.
SessionGoesOn(h) ==
    \/ SessionStep(h, [session[h] EXCEPT !.opened = TRUE])
    \/ SessionStep(h, [session[h] EXCEPT !.fault = TRUE])

\* Its timer, or its own teardown.
SessionAborts(h) ==
    /\ session[h].reason = "none"
    /\ \/ session[h].opened /\ SessionStep(h, [session[h] EXCEPT !.reason = "no_video"])
       \/ SessionStep(h, [session[h] EXCEPT !.reason = "finished"])

SessionEnds(h) ==
    \E o \in (IF session[h].reason = "none" THEN {} ELSE {"ok", "pipe"})
             \cup (IF session[h].fault \/ ( /\ session[h].reason \notin {"none", "finished"}
                                         /\ ~session[h].opened )
                   THEN {"device", "pipe", "error"} ELSE {}) :
        SessionStep(h, [session[h] EXCEPT !.phase = "ended", !.outcome = o])

\* With nothing unread, or after it sent a byte more than its request.
ConsumerLeaves(h) ==
    /\ handler[h] \in Served /\ consumer[h] = "here"
    /\ \E how \in {"gone"} \cup (IF h \in Talkers THEN {"hidden"} ELSE {}) :
          consumer' = [consumer EXCEPT ![h] = how]
    /\ UNCHANGED <<handlerVars, watch, session, serverVars>>

Tick ==
    /\ cooldown > 0 /\ cooldown' = cooldown - 1
    /\ UNCHANGED <<handlerVars, watch, consumer, session, active, waited>>

-----------------------------------------------------------------------------
HandlerSteps(h) ==
    \/ SendHeaders(h) \/ SendHeadersFails(h)
    \/ LookAtCooldown(h) \/ Wake(h) \/ Run(h) \/ Decline(h)
    \/ RunReturns(h) \/ RunRaises(h) \/ StartCooldown(h)
    \/ StopWatching(h) \/ Finish(h)

WatchSteps(h) == PeerGone(h) \/ WatchStops(h)

Next ==
    \/ \E h \in Handlers :
          \/ Accept(h) \/ HandlerSteps(h) \/ WatchSteps(h)
          \/ SessionGoesOn(h) \/ SessionAborts(h) \/ SessionEnds(h)
          \/ ConsumerLeaves(h)
    \/ Tick

\* The threads of a request are scheduled, time passes, and an aborted session
\* ends, which is its contract.  Nobody has to come, to stay or to leave.
Fairness ==
    /\ \A h \in Handlers :
          /\ WF_vars(HandlerSteps(h)) /\ WF_vars(WatchSteps(h))
          /\ WF_vars(session[h].reason # "none" /\ SessionEnds(h))
    /\ WF_vars(Tick)

Spec == Init /\ [][Next]_vars /\ Fairness

-----------------------------------------------------------------------------
(* Properties.                                                             *)

\* `active` is the number of GETs between opened() and closed(), whichever way
\* each of them ended.
ActiveCounted == active = Cardinality({h \in Handlers : handler[h] \in Served})

\* A session that returned is not reported as ended by the stream when its
\* consumer left first, nor as disconnected while its consumer is there.
ReasonTells ==
    \A h \in Handlers : handler[h] = "join" =>
        /\ logged[h] = "stream_ended" =>
               session[h].reason = "finished" \/ session[h].outcome = "error"
        /\ logged[h] = "client_disconnected" =>
               consumer[h] # "here" \/ session[h].outcome = "pipe"

\* A session opens only after the cooldowns that had begun when its handler
\* last looked were waited out.
WaitsOut ==
    [][\A h \in Handlers : Run(h) /\ waited[h] => cooldown = 0]_vars

\* "The instant the client goes away": a GET whose consumer left is over, and
\* the camera released, even when nothing is ever written to that consumer
\* (watch_peer).  It must be one that sent nothing but its request, "which no
\* stream consumer does": of a hidden one only a write would tell.
GoneConsumerReleases ==
    \A h \in Handlers : consumer[h] = "gone" ~> handler[h] = "new"

\* "A 'camera timeout' means the camera went offline": the cooldown is begun
\* only over a camera that failed.
CooldownMeansTimeout ==
    [][\A h \in Handlers : StartCooldown(h) => session[h].fault]_vars

\* Each session does what its contract allows.
Contract(h) == INSTANCE SessionContract WITH
    Reasons <- {"client_gone", "no_video", "finished"},
    Resources <- {"socket", "ffmpeg"},
    phase <- session[h].phase, reason <- session[h].reason,
    holds <- session[h].holds, opened <- session[h].opened,
    fault <- session[h].fault, outcome <- session[h].outcome

SessionsByContract ==
    [][\A h \in Handlers :
          session'[h] # NewSession => Contract(h)!Next \/ UNCHANGED Contract(h)!vars]_vars
=============================================================================
