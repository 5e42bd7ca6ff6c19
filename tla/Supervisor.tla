----------------------------- MODULE Supervisor -----------------------------
(***************************************************************************)
(* supervisor.py: the loop that keeps one proxy process per camera, its     *)
(* backoff, the token it renews before each start (TokenStore), and the     *)
(* shutdown.  It is one thread; a signal handler, the proxy processes, the  *)
(* clock and the cloud act between its steps, and the add-on may be killed  *)
(* and started again at any of them.                                        *)
(*                                                                         *)
(* Times are ticks from now on: `wait` is next_attempt_at - now, down to 0, *)
(* and `uptime` now - started_at, up to HealthyAfter.                       *)
(***************************************************************************)
EXTENDS Integers

CONSTANTS
    Cameras,        \* the number of cameras, visited in their order
    FirstBackoff, MaxBackoff, HealthyAfter,
    FloatDoublings, \* 2 ** n converts to a float for n below this
    MaxFailures     \* bound: failures counted

ASSUME SupervisorAssumption ==
    /\ Cameras \in Nat \ {0}
    /\ FirstBackoff \in Nat \ {0} /\ MaxBackoff \in Nat /\ MaxBackoff >= FirstBackoff
    /\ HealthyAfter \in Nat /\ HealthyAfter > FirstBackoff
    /\ FloatDoublings \in Nat /\ MaxFailures \in Nat \ {0}

VARIABLES
    pc,             \* where the supervisor is
    at,             \* the camera it is at
    stopping, fatal,
    process,        \* each camera's Popen: "none", "up", "exited"
    failures, wait, uptime,
    signalled,      \* the proxies _shutdown told to stop
    graceOver,      \* SHUTDOWN_GRACE has passed
    file, temp, ensure, answer      \* of TokenStore

proxyVars == <<process, failures, wait, uptime>>
tokenVars == <<file, temp, ensure, answer>>
stopVars  == <<signalled, graceOver>>
vars == <<pc, at, stopping, fatal, proxyVars, stopVars, tokenVars>>

Tokens == INSTANCE TokenStore

Camera == 1 .. Cameras

TypeOK ==
    /\ pc \in {"loop", "visit", "start", "ensuring", "spawn", "sleep",
               "terminate", "reap", "done", "crashed"}
    /\ at \in Camera
    /\ stopping \in BOOLEAN /\ fatal \in BOOLEAN
    /\ process \in [Camera -> {"none", "up", "exited"}]
    /\ failures \in [Camera -> 0 .. MaxFailures]
    /\ wait \in [Camera -> 0 .. MaxBackoff]
    /\ uptime \in [Camera -> 0 .. HealthyAfter]
    /\ signalled \subseteq Camera /\ graceOver \in BOOLEAN
    /\ Tokens!TypeOK

Zeros == [c \in Camera |-> 0]

Init ==
    /\ pc = "loop" /\ at = 1 /\ stopping = FALSE /\ fatal = FALSE
    /\ process = [c \in Camera |-> "none"]
    /\ failures = Zeros /\ wait = Zeros /\ uptime = Zeros
    /\ signalled = {} /\ graceOver = FALSE
    /\ Tokens!Init

-----------------------------------------------------------------------------
Least(a, b) == IF a < b THEN a ELSE b

\* The backoff property, where it has a value: a delay doubled MaxBackoff times
\* or more is over MaxBackoff, whatever the power.
Backoff(f) ==
    IF f <= 1 THEN FirstBackoff
    ELSE IF f > MaxBackoff THEN MaxBackoff
    ELSE LET delay == FirstBackoff * 2 ^ (f - 1)
         IN  IF delay \in 0 .. MaxBackoff THEN delay ELSE MaxBackoff

\* FIRST_BACKOFF * 2 ** (failures - 1): the power is an int of any size, and
\* the product converts it to a float.
Overflows(f) == f > 1 /\ f - 1 >= FloatDoublings

Counted(f) == Least(f + 1, MaxFailures)

Next_(c) == IF c = Cameras THEN pc' = "sleep" /\ at' = 1
                           ELSE pc' = "visit" /\ at' = c + 1

\* One more failure of camera c, counted from `f`; the next attempt is a
\* backoff away.  An OverflowError has no handler before main().
Fails(c, f) ==
    /\ failures' = [failures EXCEPT ![c] = Counted(f)]
    /\ IF Overflows(Counted(f))
       THEN pc' = "crashed" /\ UNCHANGED <<at, wait>>
       ELSE Next_(c) /\ wait' = [wait EXCEPT ![c] = Backoff(Counted(f))]

-----------------------------------------------------------------------------
(* run() and _reconcile.                                                   *)

\* The loop's condition; a pass that began is finished.
Reconcile ==
    /\ pc = "loop"
    /\ pc' = IF stopping THEN "terminate" ELSE "visit"
    /\ at' = 1
    /\ UNCHANGED <<stopping, fatal, proxyVars, stopVars, tokenVars>>

\* A camera whose proxy runs, or whose time has not come.
Skip ==
    /\ pc = "visit"
    /\ process[at] = "up" \/ (process[at] = "none" /\ wait[at] > 0)
    /\ Next_(at)
    /\ UNCHANGED <<stopping, fatal, proxyVars, stopVars, tokenVars>>

\* _note_exit, after which the camera always has to wait.
NoteExit ==
    /\ pc = "visit" /\ process[at] = "exited"
    /\ process' = [process EXCEPT ![at] = "none"]
    /\ Fails(at, IF uptime[at] >= HealthyAfter THEN 0 ELSE failures[at])
    /\ UNCHANGED <<stopping, fatal, uptime, stopVars, tokenVars>>

Attempt ==
    /\ pc = "visit" /\ process[at] = "none" /\ wait[at] = 0
    /\ pc' = "start"
    /\ UNCHANGED <<at, stopping, fatal, proxyVars, stopVars, tokenVars>>

Sleep ==
    /\ pc = "sleep" /\ pc' = "loop"
    /\ UNCHANGED <<at, stopping, fatal, proxyVars, stopVars, tokenVars>>

-----------------------------------------------------------------------------
(* _start.                                                                 *)

EnsureToken ==
    /\ pc = "start" /\ pc' = "ensuring"
    /\ Tokens!Ensure
    /\ UNCHANGED <<at, stopping, fatal, proxyVars, stopVars>>

InEnsure ==
    /\ pc = "ensuring" /\ Tokens!Steps
    /\ UNCHANGED <<pc, at, stopping, fatal, proxyVars, stopVars>>

Returned == pc = "ensuring" /\ ensure = "idle"

TokenReady ==
    /\ Returned /\ answer = "ok"
    /\ pc' = "spawn"
    /\ UNCHANGED <<at, stopping, fatal, proxyVars, stopVars, tokenVars>>

\* MfaRequiredError: the supervisor stops, once the pass is over.
TokenNeedsMfa ==
    /\ Returned /\ answer = "mfa"
    /\ stopping' = TRUE /\ fatal' = TRUE
    /\ Next_(at)
    /\ UNCHANGED <<proxyVars, stopVars, tokenVars>>

\* Mutant: a camera that cannot be started ends the pass.
TokenFails_Breaks ==
    /\ Returned /\ answer = "failed"
    /\ failures' = [failures EXCEPT ![at] = Counted(@)]
    /\ pc' = "sleep" /\ at' = 1
    /\ UNCHANGED <<stopping, fatal, process, wait, uptime, stopVars, tokenVars>>

TokenFails ==
    /\ Returned /\ answer = "failed"
    /\ Fails(at, failures[at])
    /\ UNCHANGED <<stopping, fatal, process, uptime, stopVars, tokenVars>>

\* Mutant: a start that succeeded clears the failures.
Spawn_Forgives ==
    /\ pc = "spawn"
    /\ process' = [process EXCEPT ![at] = "up"]
    /\ uptime' = [uptime EXCEPT ![at] = 0]
    /\ failures' = [failures EXCEPT ![at] = 0]
    /\ Next_(at)
    /\ UNCHANGED <<stopping, fatal, wait, stopVars, tokenVars>>

Spawn ==
    /\ pc = "spawn"
    /\ process' = [process EXCEPT ![at] = "up"]
    /\ uptime' = [uptime EXCEPT ![at] = 0]
    /\ Next_(at)
    /\ UNCHANGED <<stopping, fatal, failures, wait, stopVars, tokenVars>>

SpawnFails ==
    /\ pc = "spawn"
    /\ Fails(at, failures[at])
    /\ UNCHANGED <<stopping, fatal, process, uptime, stopVars, tokenVars>>

-----------------------------------------------------------------------------
(* _shutdown.                                                              *)

\* terminate() for every proxy that runs, and one deadline for them all.
Terminate ==
    /\ pc = "terminate"
    /\ signalled' = {c \in Camera : process[c] = "up"}
    /\ pc' = "reap"
    /\ UNCHANGED <<at, stopping, fatal, proxyVars, graceOver, tokenVars>>

\* Mutant: a proxy that outlasts the deadline is left behind.
ReapOne_NoKill(c) ==
    /\ process[c] = "exited" \/ graceOver
    /\ UNCHANGED process

\* Mutant: wait() without a deadline.
ReapOne_Patient(c) ==
    /\ process[c] = "exited"
    /\ UNCHANGED process

\* It has exited, or the deadline has passed and it is killed and reaped.
ReapOne(c) ==
    /\ process[c] = "exited" \/ graceOver
    /\ process' = [process EXCEPT ![c] = "exited"]

\* wait() for each of them, in the cameras' order.
Reap ==
    /\ pc = "reap"
    /\ IF signalled = {}
       THEN pc' = "done" /\ UNCHANGED <<process, signalled>>
       ELSE \E c \in signalled :
              /\ \A d \in signalled : c <= d
              /\ ReapOne(c)
              /\ signalled' = signalled \ {c}
              /\ UNCHANGED pc
    /\ UNCHANGED <<at, stopping, fatal, failures, wait, uptime, graceOver, tokenVars>>

GraceEnds ==
    /\ pc = "reap" /\ ~graceOver /\ graceOver' = TRUE
    /\ UNCHANGED <<pc, at, stopping, fatal, proxyVars, signalled, tokenVars>>

-----------------------------------------------------------------------------
(* Around the supervisor.                                                  *)

\* SIGTERM or SIGINT: the handler sets the flag, between any two steps.
Signal ==
    /\ ~stopping /\ pc # "crashed" /\ stopping' = TRUE
    /\ UNCHANGED <<pc, at, fatal, proxyVars, stopVars, tokenVars>>

\* A proxy ends: of itself, or because it was told to.
ProxyExits(c) ==
    /\ process[c] = "up" /\ process' = [process EXCEPT ![c] = "exited"]
    /\ UNCHANGED <<pc, at, stopping, fatal, failures, wait, uptime, stopVars, tokenVars>>

Tick ==
    /\ wait' = [c \in Camera |-> IF wait[c] > 0 THEN wait[c] - 1 ELSE 0]
    /\ uptime' = [c \in Camera |-> IF process[c] # "none"
                                   THEN Least(uptime[c] + 1, HealthyAfter)
                                   ELSE uptime[c]]
    /\ UNCHANGED <<pc, at, stopping, fatal, process, failures, stopVars, tokenVars>>

TokenExpires ==
    /\ Tokens!Expire
    /\ UNCHANGED <<pc, at, stopping, fatal, proxyVars, stopVars>>

\* The add-on is killed, with everything in its container, and started again.
Restart ==
    /\ pc' = "loop" /\ at' = 1 /\ stopping' = FALSE /\ fatal' = FALSE
    /\ process' = [c \in Camera |-> "none"]
    /\ failures' = Zeros /\ wait' = Zeros /\ uptime' = Zeros
    /\ signalled' = {} /\ graceOver' = FALSE
    /\ Tokens!Restart

Steps ==
    \/ Reconcile \/ Skip \/ NoteExit \/ Attempt \/ Sleep
    \/ EnsureToken \/ InEnsure \/ TokenReady \/ TokenNeedsMfa \/ TokenFails
    \/ Spawn \/ SpawnFails
    \/ Terminate \/ Reap

Next ==
    \/ Steps \/ GraceEnds
    \/ Signal \/ (\E c \in Camera : ProxyExits(c)) \/ Tick
    \/ TokenExpires \/ Restart

\* The supervisor runs (a call of the cloud ends by its timeout), and time
\* passes.  Proxies, the cloud and whoever sends signals do as they like.
Fairness == WF_vars(Steps) /\ WF_vars(GraceEnds) /\ WF_vars(Tick)

Spec == Init /\ [][Next]_vars /\ Fairness

-----------------------------------------------------------------------------
(* Properties.                                                             *)

\* When the supervisor has ended, so have the proxies: those started after the
\* signal, in the pass it interrupted, and those that ignored it as well.
StopsEverything == pc = "done" => \A c \in Camera : process[c] # "up"

\* A camera that keeps failing is not retried sooner each time: its failures
\* are forgotten only when its proxy was up long enough to be healthy, and a
\* retry is put off by all the delay they ask for, and by no more than the most.
RetriesBackOff ==
    [][\A c \in Camera :
          \/ process[c] = "exited" /\ uptime[c] = HealthyAfter
          \/ /\ failures'[c] >= failures[c]
             /\ wait'[c] > wait[c] => wait'[c] = Backoff(failures'[c])
             /\ wait'[c] <= MaxBackoff
          \/ Restart]_vars

\* "Bring every camera back": a camera without a proxy is tried again, however
\* badly the others, the token and the cloud do, until somebody stops it all --
\* if the add-on is not for ever restarted before it gets there.
EveryCameraIsTried ==
    <>[][~Restart]_vars => \A c \in Camera :
        process[c] # "up" ~> \/ process[c] = "up"
                             \/ pc = "start" /\ at = c
                             \/ stopping

\* A stop request is not lost, whichever step it interrupts.
SignalStops == stopping ~> pc = "done" \/ ~stopping

\* Of TokenStore, for the calls the supervisor makes of it.
NeverTorn == Tokens!NeverTorn
LoginsAreNeeded == Tokens!LoginsAreNeeded

\* "The delay is capped": a camera that fails forever is tried forever.
SurvivesFailures == pc # "crashed"
=============================================================================
