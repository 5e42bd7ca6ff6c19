-------------------------- MODULE Supervisor_proofs --------------------------
(***************************************************************************)
(* The supervisor's safety, for any number of cameras, any backoff and any  *)
(* bound on the failures: the shutdown leaves no proxy behind, a camera     *)
(* that keeps failing is put off by all its backoff, and the token file is  *)
(* never torn nor replaced without need, whenever the add-on is killed.     *)
(***************************************************************************)
EXTENDS Supervisor, TLAPS

\* During the shutdown every proxy that runs is one still to be waited for.
Reaping ==
    /\ signalled # {} => pc = "reap"
    /\ pc = "reap" => \A c \in Camera : process[c] = "up" => c \in signalled
    /\ pc = "done" => \A c \in Camera : process[c] # "up"

\* What ensure() knows of the files: a login is tried over no live session, and
\* what is about to replace the token is a whole one.
Writing ==
    /\ ensure = "login" => file # "live"
    /\ ensure = "replace" => temp \in {"live", "dead"}

\* The types of what the loop, the cameras and the shutdown keep.
LoopTypes ==
    /\ pc \in {"loop", "visit", "start", "ensuring", "spawn", "sleep",
               "terminate", "reap", "done", "crashed"}
    /\ at \in Camera
    /\ stopping \in BOOLEAN /\ fatal \in BOOLEAN

\* The types of what the supervisor keeps of each camera.
CameraTypes ==
    /\ process \in [Camera -> {"none", "up", "exited"}]
    /\ failures \in [Camera -> 0 .. MaxFailures]
    /\ wait \in [Camera -> 0 .. MaxBackoff]
    /\ uptime \in [Camera -> 0 .. HealthyAfter]

\* And of the shutdown.
StopTypes == signalled \subseteq Camera /\ graceOver \in BOOLEAN

\* What is proved by induction.
IInv == TypeOK /\ Reaping /\ Writing

\* The type invariant, in its parts.
LEMMA Types == TypeOK <=> LoopTypes /\ CameraTypes /\ StopTypes /\ Tokens!TypeOK
BY DEF TypeOK, LoopTypes, CameraTypes, StopTypes

\* A delay is at least nothing and at most MaxBackoff, whatever the power.
LEMMA BackoffBounded ==
    ASSUME NEW f \in Nat
    PROVE  Backoff(f) \in 0 .. MaxBackoff
BY SupervisorAssumption DEF Backoff

\* A failure is counted, up to the bound.
LEMMA CountedOneMore ==
    ASSUME NEW f \in 0 .. MaxFailures
    PROVE  Counted(f) \in 1 .. MaxFailures /\ Counted(f) >= f
BY SupervisorAssumption DEF Counted, Least

\* What a failure of camera c leaves, counted from f.
LEMMA FailsKeeps ==
    ASSUME CameraTypes, NEW c \in Camera, NEW f \in 0 .. MaxFailures, Fails(c, f)
    PROVE  /\ failures' \in [Camera -> 0 .. MaxFailures]
           /\ wait' \in [Camera -> 0 .. MaxBackoff]
           /\ failures'[c] = Counted(f)
           /\ \A d \in Camera \ {c} : failures'[d] = failures[d] /\ wait'[d] = wait[d]
           /\ wait'[c] # wait[c] => wait'[c] = Backoff(failures'[c])
           /\ pc' \in {"sleep", "visit", "crashed"}
           /\ at \in Camera => at' \in Camera
<1>1. Counted(f) \in 0 .. MaxFailures /\ Backoff(Counted(f)) \in 0 .. MaxBackoff
  BY CountedOneMore, BackoffBounded, SupervisorAssumption
<1>2. /\ failures' \in [Camera -> 0 .. MaxFailures]
      /\ failures'[c] = Counted(f)
      /\ \A d \in Camera \ {c} : failures'[d] = failures[d]
  BY <1>1 DEF Fails, CameraTypes
<1>3. CASE Overflows(Counted(f))
  BY <1>2, <1>3 DEF Fails, CameraTypes
<1>4. CASE ~Overflows(Counted(f))
  <2>1. /\ wait' = [wait EXCEPT ![c] = Backoff(Counted(f))] /\ Next_(c)
    BY <1>4 DEF Fails
  <2>2. /\ wait' \in [Camera -> 0 .. MaxBackoff] /\ wait'[c] = Backoff(Counted(f))
        /\ \A d \in Camera \ {c} : wait'[d] = wait[d]
    BY <1>1, <2>1 DEF CameraTypes
  <2>3. pc' \in {"sleep", "visit"} /\ at' \in Camera
    BY <2>1, SupervisorAssumption DEF Next_, Camera
  <2> QED
    BY <1>2, <2>2, <2>3
<1> QED
  BY <1>3, <1>4

-----------------------------------------------------------------------------
(* The inductive invariant.                                                *)

\* It holds when the supervisor starts, whatever files it finds.
LEMMA InitIInv == Init => IInv
<1> SUFFICES ASSUME Init PROVE IInv
  OBVIOUS
<1> USE SupervisorAssumption DEF Init
<1>1. LoopTypes
  <2>1. at \in Camera
    BY DEF Camera
  <2> QED
    BY <2>1 DEF LoopTypes
<1>2. CameraTypes
  BY DEF CameraTypes, Zeros
<1>3. StopTypes
  BY DEF StopTypes
<1>4. Tokens!TypeOK
  BY DEF Tokens!Init, Tokens!TypeOK
<1>5. Reaping /\ Writing
  BY DEF Reaping, Writing, Tokens!Init
<1> QED
  BY <1>1, <1>2, <1>3, <1>4, <1>5, Types DEF IInv

\* The steps of the token store, whoever makes them.
TokenSteps == Tokens!Ensure \/ Tokens!Steps \/ Tokens!Expire \/ Tokens!Restart

\* They keep the token store's types, and what ensure() knows of the files.
LEMMA TokenKeeps ==
    ASSUME IInv, TokenSteps
    PROVE  Tokens!TypeOK' /\ Writing'
<1> USE DEF IInv, TypeOK, Writing, Tokens!TypeOK, Tokens!Contents, Tokens!Goto,
        Tokens!Answers, Tokens!Stored
<1>1. CASE Tokens!Ensure
  BY <1>1 DEF Tokens!Ensure
<1>2. CASE Tokens!Load
  BY <1>2 DEF Tokens!Load
<1>3. CASE Tokens!CheckAccepted \/ Tokens!CheckUnclear \/ Tokens!CheckFails
  BY <1>3 DEF Tokens!CheckAccepted, Tokens!CheckUnclear, Tokens!CheckFails
<1>4. CASE Tokens!CheckRejected
  BY <1>4 DEF Tokens!CheckRejected
<1>5. CASE Tokens!LoginAccepted \/ Tokens!LoginFails
  BY <1>5 DEF Tokens!LoginAccepted, Tokens!LoginFails
<1>6. CASE Tokens!Write \/ Tokens!WriteDone
  BY <1>6 DEF Tokens!Write, Tokens!WriteDone
<1>7. CASE Tokens!Replace \/ Tokens!WriteFails
  BY <1>7 DEF Tokens!Replace, Tokens!WriteFails
<1>8. CASE Tokens!Expire
  BY <1>8 DEF Tokens!Expire
<1>9. CASE Tokens!Restart
  BY <1>9 DEF Tokens!Restart
<1> QED
  BY <1>1, <1>2, <1>3, <1>4, <1>5, <1>6, <1>7, <1>8, <1>9 DEF TokenSteps, Tokens!Steps

\* A step of the supervisor either is one of the token store or leaves it.
LEMMA NextTokens ==
    ASSUME IInv, Next
    PROVE  /\ TokenSteps \/ UNCHANGED tokenVars
           /\ Tokens!TypeOK' /\ Writing'
<1>1. TokenSteps \/ UNCHANGED tokenVars
  BY DEF Next, Steps, Reconcile, Skip, NoteExit, Attempt, Sleep, EnsureToken, InEnsure,
         TokenReady, TokenNeedsMfa, TokenFails, Spawn, SpawnFails, Terminate, Reap,
         GraceEnds, Signal, ProxyExits, Tick, TokenExpires, Restart, TokenSteps
<1>2. UNCHANGED tokenVars => Tokens!TypeOK' /\ Writing'
  BY DEF tokenVars, IInv, TypeOK, Tokens!TypeOK, Tokens!Contents, Writing
<1> QED
  BY <1>1, <1>2, TokenKeeps

\* A pass over the cameras, without its failures.
LEMMA PassKeeps ==
    ASSUME IInv,
           \/ Reconcile \/ Skip \/ Attempt \/ Sleep \/ EnsureToken \/ InEnsure
           \/ TokenReady \/ TokenNeedsMfa
    PROVE  LoopTypes' /\ CameraTypes' /\ StopTypes' /\ Reaping'
<1>0. LoopTypes /\ CameraTypes /\ StopTypes /\ Reaping
  BY Types DEF IInv
<1> USE SupervisorAssumption
    DEF Reconcile, Skip, Attempt, Sleep, EnsureToken, InEnsure, Returned, TokenReady,
        TokenNeedsMfa, Next_, Camera
<1>1. LoopTypes'
  <2>1. at' \in Camera
    BY <1>0 DEF LoopTypes
  <2>2. pc' \in {"loop", "visit", "start", "ensuring", "spawn", "sleep", "terminate"}
    BY <1>0 DEF LoopTypes
  <2>3. stopping' \in BOOLEAN /\ fatal' \in BOOLEAN
    BY <1>0 DEF LoopTypes, stopVars
  <2> QED
    BY <2>1, <2>2, <2>3 DEF LoopTypes
<1>2. CameraTypes'
  BY <1>0 DEF CameraTypes, proxyVars
<1>3. StopTypes'
  BY <1>0 DEF StopTypes, stopVars
<1>4. Reaping'
  BY <1>0 DEF Reaping, proxyVars, stopVars
<1> QED
  BY <1>1, <1>2, <1>3, <1>4

\* A proxy that is started, or fails to be, or has exited.
LEMMA StartKeeps ==
    ASSUME IInv, NoteExit \/ TokenFails \/ Spawn \/ SpawnFails
    PROVE  LoopTypes' /\ CameraTypes' /\ StopTypes' /\ Reaping'
<1>0. LoopTypes /\ CameraTypes /\ StopTypes /\ Reaping /\ at \in Camera
  BY Types DEF IInv, LoopTypes
<1>1. StopTypes' /\ Reaping'
  <2>1. pc \in {"visit", "ensuring", "spawn"} /\ pc' \in {"visit", "sleep", "crashed"}
    BY DEF NoteExit, TokenFails, Spawn, SpawnFails, Returned, Fails, Next_
  <2>2. UNCHANGED stopVars
    BY DEF NoteExit, TokenFails, Spawn, SpawnFails
  <2> QED
    BY <1>0, <2>1, <2>2 DEF StopTypes, Reaping, stopVars
<1>2. CASE Spawn
  <2>1. LoopTypes'
    BY <1>0, <1>2, SupervisorAssumption DEF Spawn, Next_, LoopTypes, Camera
  <2>2. CameraTypes'
    BY <1>0, <1>2, SupervisorAssumption DEF Spawn, CameraTypes
  <2> QED
    BY <1>1, <2>1, <2>2
<1>3. CASE NoteExit \/ TokenFails \/ SpawnFails
  <2>1. PICK f \in 0 .. MaxFailures : Fails(at, f)
    BY <1>0, <1>3, SupervisorAssumption DEF NoteExit, TokenFails, SpawnFails, CameraTypes
  <2>2. /\ process' \in [Camera -> {"none", "up", "exited"}]
        /\ UNCHANGED <<stopping, fatal, uptime>>
    BY <1>0, <1>3 DEF NoteExit, TokenFails, SpawnFails, CameraTypes
  <2> QED
    BY <1>0, <1>1, <2>1, <2>2, FailsKeeps DEF LoopTypes, CameraTypes
<1> QED
  BY <1>2, <1>3

\* _shutdown tells every proxy that runs to stop, and waits for each.
LEMMA ShutdownKeeps ==
    ASSUME IInv, Terminate \/ Reap \/ GraceEnds
    PROVE  LoopTypes' /\ CameraTypes' /\ StopTypes' /\ Reaping'
<1>0. LoopTypes /\ CameraTypes /\ StopTypes /\ Reaping
  BY Types DEF IInv
<1>1. LoopTypes'
  BY <1>0 DEF Terminate, Reap, GraceEnds, LoopTypes
<1>2. CASE Terminate
  BY <1>0, <1>1, <1>2 DEF Terminate, CameraTypes, StopTypes, Reaping, proxyVars
<1>3. CASE Reap
  <2>1. CASE signalled = {}
    BY <1>0, <1>1, <1>3, <2>1 DEF Reap, CameraTypes, StopTypes, Reaping
  <2>2. CASE signalled # {}
    <3>1. PICK c \in signalled :
              ReapOne(c) /\ signalled' = signalled \ {c} /\ UNCHANGED pc
      BY <1>3, <2>2 DEF Reap
    <3>2. CameraTypes' /\ StopTypes'
      BY <1>0, <1>3, <3>1 DEF Reap, ReapOne, CameraTypes, StopTypes
    <3>3. Reaping'
      BY <1>0, <1>3, <3>1 DEF Reap, ReapOne, CameraTypes, StopTypes, Reaping
    <3> QED
      BY <1>1, <3>2, <3>3
  <2> QED
    BY <2>1, <2>2
<1>4. CASE GraceEnds
  BY <1>0, <1>1, <1>4 DEF GraceEnds, CameraTypes, StopTypes, Reaping, proxyVars
<1> QED
  BY <1>2, <1>3, <1>4

\* A signal, a proxy that ends, the clock, a token that expires, a restart.
LEMMA EnvironmentKeeps ==
    ASSUME IInv,
           \/ Signal \/ (\E c \in Camera : ProxyExits(c)) \/ Tick \/ TokenExpires
           \/ Restart
    PROVE  LoopTypes' /\ CameraTypes' /\ StopTypes' /\ Reaping'
<1>0. LoopTypes /\ CameraTypes /\ StopTypes /\ Reaping
  BY Types DEF IInv
<1>1. CASE Signal \/ TokenExpires
  BY <1>0, <1>1 DEF Signal, TokenExpires, proxyVars, stopVars, LoopTypes, CameraTypes,
                    StopTypes, Reaping
<1>2. ASSUME NEW c \in Camera, ProxyExits(c)
      PROVE  LoopTypes' /\ CameraTypes' /\ StopTypes' /\ Reaping'
  BY <1>0, <1>2 DEF ProxyExits, stopVars, LoopTypes, CameraTypes, StopTypes, Reaping
<1>3. CASE Tick
  <2>1. CameraTypes'
    BY <1>0, <1>3, SupervisorAssumption DEF Tick, CameraTypes, Least
  <2> QED
    BY <1>0, <1>3, <2>1 DEF Tick, stopVars, LoopTypes, StopTypes, Reaping
<1>4. CASE Restart
  <2>0. at' \in Camera
    BY <1>4, SupervisorAssumption DEF Restart, Camera
  <2>1. LoopTypes'
    BY <1>4, <2>0 DEF Restart, LoopTypes
  <2>2. CameraTypes'
    BY <1>4, SupervisorAssumption DEF Restart, CameraTypes, Zeros
  <2> QED
    BY <1>4, <2>1, <2>2 DEF Restart, StopTypes, Reaping
<1> QED
  BY <1>1, <1>2, <1>3, <1>4

\* Every step keeps the inductive invariant.
LEMMA NextIInv == IInv /\ [Next]_vars => IInv'
<1> SUFFICES ASSUME IInv, [Next]_vars PROVE IInv'
  OBVIOUS
<1>1. CASE Next
  <2>1. LoopTypes' /\ CameraTypes' /\ StopTypes' /\ Reaping'
    BY <1>1, PassKeeps, StartKeeps, ShutdownKeeps, EnvironmentKeeps DEF Next, Steps
  <2>2. TypeOK'
    BY <1>1, <2>1, NextTokens DEF TypeOK, LoopTypes, CameraTypes, StopTypes
  <2> QED
    BY <1>1, <2>1, <2>2, NextTokens DEF IInv
<1>2. CASE UNCHANGED vars
  BY <1>2 DEF IInv, TypeOK, Reaping, Writing, Tokens!TypeOK, Tokens!Contents, vars,
              proxyVars, stopVars, tokenVars
<1> QED
  BY <1>1, <1>2

\* The inductive invariant holds in every state the supervisor reaches.
THEOREM Invariance == Spec => []IInv
BY InitIInv, NextIInv, PTL DEF Spec

-----------------------------------------------------------------------------
(* The properties.                                                         *)

\* Every variable of the supervisor and of its token store keeps its type.
THEOREM TypeCorrect == Spec => []TypeOK
<1>1. IInv => TypeOK
  BY DEF IInv
<1> QED
  BY <1>1, Invariance, PTL

\* No proxy outlives the supervisor, however many it started after the signal.
THEOREM NothingLeftBehind == Spec => []StopsEverything
<1>1. IInv => StopsEverything
  BY DEF IInv, Reaping, StopsEverything
<1> QED
  BY <1>1, Invariance, PTL

\* The failures of a camera are forgotten only after a healthy run, and each
\* puts the next attempt off by all the delay it asks for.
THEOREM BacksOff == Spec => RetriesBackOff
<1> DEFINE Kept(c) == \/ process[c] = "exited" /\ uptime[c] = HealthyAfter
                      \/ /\ failures'[c] >= failures[c]
                         /\ wait'[c] > wait[c] => wait'[c] = Backoff(failures'[c])
                         /\ wait'[c] <= MaxBackoff
                      \/ Restart
<1>1. ASSUME IInv, Next, NEW c \in Camera
      PROVE  Kept(c)
  <2>0. /\ CameraTypes /\ at \in Camera
        /\ failures[c] \in 0 .. MaxFailures /\ wait[c] \in 0 .. MaxBackoff
        /\ uptime[c] \in 0 .. HealthyAfter
    BY <1>1, Types DEF IInv, LoopTypes, CameraTypes
  <2> USE SupervisorAssumption
  <2>1. ASSUME NEW f \in 0 .. MaxFailures, Fails(at, f), at = c => f >= failures[c]
        PROVE  Kept(c)
    <3>1. failures'[c] >= failures[c]
      <4>1. CASE c = at
        BY <2>0, <2>1, <4>1, FailsKeeps, CountedOneMore
      <4>2. CASE c # at
        BY <2>0, <2>1, <4>2, FailsKeeps
      <4> QED
        BY <4>1, <4>2
    <3>2. /\ wait'[c] > wait[c] => wait'[c] = Backoff(failures'[c])
          /\ wait'[c] <= MaxBackoff
      BY <2>0, <2>1, FailsKeeps
    <3> QED
      BY <3>1, <3>2
  <2>2. CASE NoteExit
    <3>1. CASE at = c /\ uptime[c] >= HealthyAfter
      BY <2>0, <2>2, <3>1 DEF NoteExit
    <3>2. CASE at # c /\ uptime[at] >= HealthyAfter
      BY <2>0, <2>1, <2>2, <3>2 DEF NoteExit
    <3>3. CASE ~(uptime[at] >= HealthyAfter)
      BY <2>0, <2>1, <2>2, <3>3 DEF NoteExit, CameraTypes
    <3> QED
      BY <3>1, <3>2, <3>3
  <2>3. CASE TokenFails \/ SpawnFails
    BY <2>0, <2>1, <2>3 DEF TokenFails, SpawnFails, CameraTypes
  <2>4. CASE Tick
    BY <2>0, <2>4 DEF Tick
  <2>5. CASE Restart
    BY <2>5
  <2>6. ASSUME ~NoteExit, ~TokenFails, ~SpawnFails, ~Tick, ~Restart
        PROVE  Kept(c)
    <3>1. UNCHANGED <<failures, wait>>
      BY <1>1, <2>6
         DEF Next, Steps, Reconcile, Skip, Attempt, Sleep, EnsureToken, InEnsure,
             TokenReady, TokenNeedsMfa, Spawn, Terminate, Reap, GraceEnds, Signal,
             ProxyExits, TokenExpires, proxyVars
    <3> QED
      BY <2>0, <3>1
  <2> QED
    BY <2>2, <2>3, <2>4, <2>5, <2>6
<1>2. IInv /\ [Next]_vars => [\A c \in Camera : Kept(c)]_vars
  BY <1>1
<1> QED
  BY <1>2, Invariance, PTL DEF Spec, RetriesBackOff

\* Whenever the add-on is killed, the token file holds a whole token or what it
\* held before.
THEOREM TokenNeverTorn == Spec => NeverTorn
<1>1. IInv /\ [Next]_vars => [file' = "partial" => file = "partial"]_(Tokens!vars)
  <2> SUFFICES ASSUME IInv, Next PROVE file' = "partial" => file = "partial"
    BY DEF vars, tokenVars, Tokens!vars
  <2>1. CASE UNCHANGED tokenVars
    BY <2>1 DEF tokenVars
  <2>2. CASE TokenSteps
    BY <2>2
       DEF IInv, Writing, TokenSteps, Tokens!Ensure, Tokens!Steps, Tokens!Load,
           Tokens!CheckAccepted, Tokens!CheckRejected, Tokens!CheckUnclear,
           Tokens!CheckFails, Tokens!LoginAccepted, Tokens!LoginFails, Tokens!Write,
           Tokens!WriteDone, Tokens!Replace, Tokens!WriteFails, Tokens!Expire,
           Tokens!Restart
  <2> QED
    BY <2>1, <2>2, NextTokens
<1> QED
  BY <1>1, Invariance, PTL DEF Spec, NeverTorn, Tokens!NeverTorn

\* No login is spent while the file holds a session the cloud still accepts.
THEOREM LoginsNeeded == Spec => LoginsAreNeeded
<1>1. IInv => (Tokens!LoginAccepted \/ Tokens!LoginFails
                  => file \in {"none", "partial", "dead"})
  BY DEF IInv, TypeOK, Writing, Tokens!TypeOK, Tokens!Contents, Tokens!LoginAccepted,
         Tokens!LoginFails
<1>2. IInv /\ [Next]_vars
      => [Tokens!LoginAccepted \/ Tokens!LoginFails
             => file \in {"none", "partial", "dead"}]_(Tokens!vars)
  BY <1>1
<1> QED
  BY <1>2, Invariance, PTL DEF Spec, LoginsAreNeeded, Tokens!LoginsAreNeeded

=============================================================================
