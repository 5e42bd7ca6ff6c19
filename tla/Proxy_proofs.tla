---------------------------- MODULE Proxy_proofs ----------------------------
(***************************************************************************)
(* Proxy's safety, for any number of GETs at a time and any cooldown.  The  *)
(* inductive invariant says, for each place in do_GET, what phase its       *)
(* session is in and what its connection log is going to say, and relates   *)
(* the abort of a session to the consumer that left and to how run() ended. *)
(***************************************************************************)
EXTENDS Proxy, FiniteSetTheorems, TLAPS

\* The places of a handler that has not called run() yet.
Before == {"new", "headers", "cooldown", "sleep", "decide"}

\* The phase of a session, by where its handler is.
Staged ==
    \A h \in Handlers :
       /\ handler[h] \in Before => session[h].phase = "new" /\ logged[h] = "stream_ended"
       /\ handler[h] = "session" =>
             session[h].phase # "new" /\ logged[h] = "stream_ended"
       /\ handler[h] = "timeout" => logged[h] = "camera_timeout"
       /\ handler[h] \in {"timeout", "stopWatch", "join"} => session[h].phase # "running"
       /\ session[h].outcome # "none" <=> session[h].phase = "ended"

\* Whose abort it is: before run() only the watchdog's, and the watchdog's only
\* when its consumer left; and run() returns only after one.
Aborted ==
    \A h \in Handlers :
       /\ session[h].phase = "new" => session[h].reason \in {"none", "client_gone"}
       /\ session[h].reason = "client_gone" => consumer[h] = "gone"
       /\ session[h].outcome = "ok" => session[h].reason # "none"

\* What the log is going to say, decided before the watchdog is stopped.
Told ==
    \A h \in Handlers : handler[h] \in {"stopWatch", "join"} =>
        /\ logged[h] = "stream_ended" =>
               session[h].reason = "finished" \/ session[h].outcome = "error"
        /\ logged[h] = "client_disconnected" =>
               consumer[h] # "here" \/ session[h].outcome = "pipe"

\* A handler about to run() has seen the end of every cooldown it knew of.
Looked ==
    \A h \in Handlers :
        handler[h] = "decide" /\ session[h].reason = "none" /\ waited[h] => cooldown = 0

\* What the state keeps between the steps, over the types.
Relations == Staged /\ Aborted /\ Told /\ Looked

\* What is proved by induction.
IInv == TypeOK /\ ActiveCounted /\ Relations

\* It holds when the server starts.
LEMMA InitIInv == Init => IInv
<1> SUFFICES ASSUME Init PROVE IInv
  OBVIOUS
<1>0. Cardinality(Handlers) \in Nat
  BY FS_CardinalityType, ProxyAssumption
<1> USE ProxyAssumption DEF Init
<1>1. TypeOK
  <2>1. active \in 0 .. Cardinality(Handlers)
    BY <1>0
  <2>2. session \in [Handlers -> Sessions]
    BY DEF Sessions, NewSession
  <2>3. cooldown \in 0 .. Cooldown /\ waited \in [Handlers -> BOOLEAN]
    OBVIOUS
  <2>4. /\ handler \in [Handlers -> Served \cup {"new"}]
        /\ logged \in [Handlers -> {"stream_ended", "client_disconnected", "no_video",
                                    "camera_timeout", "error"}]
        /\ watch \in [Handlers -> {"none", "watching", "done"}]
        /\ consumer \in [Handlers -> {"here", "gone", "hidden"}]
    OBVIOUS
  <2> QED
    BY <2>1, <2>2, <2>3, <2>4, Zenon DEF TypeOK
<1>2. ActiveCounted
  <2>1. {h \in Handlers : handler[h] \in Served} = {}
    BY DEF Served
  <2> QED
    BY <2>1, FS_EmptySet DEF ActiveCounted
<1>3. Relations
  BY DEF Relations, Staged, Aborted, Told, Looked, NewSession, Before
<1> QED
  BY <1>1, <1>2, <1>3 DEF IInv

-----------------------------------------------------------------------------
(* The count of active connections.                                        *)

\* The handlers that the count of active connections is about.
Open == {h \in Handlers : handler[h] \in Served}

\* A GET is counted in once, and out once.
LEMMA OpenChanges ==
    ASSUME IInv, NEW h \in Handlers
    PROVE  /\ Accept(h) => h \notin Open /\ Open' = Open \cup {h}
           /\ Finish(h) => h \in Open /\ Open' = Open \ {h}
           /\ \/ HandlerSteps(h) /\ ~Finish(h)
              \/ WatchSteps(h) \/ SessionGoesOn(h) \/ SessionAborts(h)
              \/ SessionEnds(h) \/ ConsumerLeaves(h)
              => Open' = Open
<1> USE DEF IInv, TypeOK, Open, Served
<1>1. Accept(h) => h \notin Open /\ Open' = Open \cup {h}
  BY DEF Accept, Goto
<1>2. Finish(h) => h \in Open /\ Open' = Open \ {h}
  BY DEF Finish, Discard, Reports
<1>3. HandlerSteps(h) /\ ~Finish(h) => Open' = Open
  BY DEF HandlerSteps, SendHeaders, SendHeadersFails, LookAtCooldown, Wake, Run,
         Decline, RunReturns, RunRaises, StartCooldown, StopWatching, Goto, Reports
<1>4. \/ WatchSteps(h) \/ SessionGoesOn(h) \/ SessionAborts(h)
      \/ SessionEnds(h) \/ ConsumerLeaves(h)
      => Open' = Open
  BY DEF WatchSteps, PeerGone, WatchStops, SessionGoesOn, SessionAborts, SessionEnds,
         SessionStep, ConsumerLeaves, handlerVars
<1> QED
  BY <1>1, <1>2, <1>3, <1>4

\* The count follows.
LEMMA NextActiveCounted ==
    ASSUME IInv, Next
    PROVE  ActiveCounted' /\ active' \in 0 .. Cardinality(Handlers)
<1> USE ProxyAssumption
<1>1. /\ IsFiniteSet(Open) /\ IsFiniteSet(Open')
      /\ Open \subseteq Handlers /\ Open' \subseteq Handlers
  BY FS_Subset DEF Open
<1>2. active = Cardinality(Open) /\ active \in Nat
  BY <1>1, FS_CardinalityType DEF IInv, ActiveCounted, Open
<1>3. active' = Cardinality(Open')
  <2>1. ASSUME NEW h \in Handlers, Accept(h) PROVE active' = Cardinality(Open')
    BY <1>1, <1>2, <2>1, OpenChanges, FS_AddElement DEF Accept
  <2>2. ASSUME NEW h \in Handlers, Finish(h) PROVE active' = Cardinality(Open')
    BY <1>1, <1>2, <2>2, OpenChanges, FS_RemoveElement DEF Finish
  <2>3. ASSUME NEW h \in Handlers,
               \/ HandlerSteps(h) /\ ~Finish(h)
               \/ WatchSteps(h) \/ SessionGoesOn(h) \/ SessionAborts(h)
               \/ SessionEnds(h) \/ ConsumerLeaves(h)
        PROVE  active' = Cardinality(Open')
    <3>1. active' = active
      BY <2>3 DEF HandlerSteps, SendHeaders, SendHeadersFails, LookAtCooldown, Wake, Run,
         Decline, RunReturns, RunRaises, StartCooldown, StopWatching, WatchSteps, PeerGone,
         WatchStops, SessionGoesOn, SessionAborts, SessionEnds, SessionStep,
         ConsumerLeaves, serverVars
    <3> QED
      BY <1>2, <2>3, <3>1, OpenChanges
  <2>4. CASE Tick
    BY <1>2, <2>4 DEF Tick, handlerVars, Open
  <2> QED
    BY <2>1, <2>2, <2>3, <2>4 DEF Next, HandlerSteps
<1> QED
  BY <1>1, <1>3, FS_Subset, FS_CardinalityType DEF ActiveCounted, Open

-----------------------------------------------------------------------------
(* What the other variables keep.                                          *)

\* The session of a handler stays a record of its fields.
LEMMA NextSessions ==
    ASSUME IInv, Next
    PROVE  session' \in [Handlers -> Sessions]
<1>1. session \in [Handlers -> Sessions] /\ NewSession \in Sessions
  BY DEF IInv, TypeOK, NewSession, Sessions
<1>2. ASSUME NEW h \in Handlers, NEW s \in Sessions, session' = [session EXCEPT ![h] = s]
      PROVE  session' \in [Handlers -> Sessions]
  BY <1>1, <1>2
<1>3. ASSUME NEW h \in Handlers, SessionGoesOn(h) \/ SessionAborts(h) \/ SessionEnds(h)
      PROVE  \E s \in Sessions : session' = [session EXCEPT ![h] = s]
  <2>1. /\ [session[h] EXCEPT !.opened = TRUE] \in Sessions
        /\ [session[h] EXCEPT !.fault = TRUE] \in Sessions
        /\ [session[h] EXCEPT !.reason = "no_video"] \in Sessions
        /\ [session[h] EXCEPT !.reason = "finished"] \in Sessions
    BY <1>1 DEF Sessions
  <2>2. \A o \in {"ok", "device", "pipe", "error"} :
            [session[h] EXCEPT !.phase = "ended", !.outcome = o] \in Sessions
    BY <1>1 DEF Sessions
  <2>3. CASE SessionGoesOn(h) \/ SessionAborts(h)
    BY <2>1, <2>3 DEF SessionGoesOn, SessionAborts, SessionStep
  <2>4. CASE SessionEnds(h)
    <3>1. PICK o \in {"ok", "device", "pipe", "error"} :
              SessionStep(h, [session[h] EXCEPT !.phase = "ended", !.outcome = o])
      BY <2>4 DEF SessionEnds
    <3> QED
      BY <2>2, <3>1 DEF SessionStep
  <2> QED
    BY <1>3, <2>3, <2>4
<1>4. ASSUME NEW h \in Handlers, Run(h) \/ PeerGone(h) \/ Finish(h)
      PROVE  session' \in [Handlers -> Sessions]
  <2>1. /\ [session[h] EXCEPT !.phase = "running"] \in Sessions
        /\ [session[h] EXCEPT !.reason = "client_gone"] \in Sessions
    BY <1>1 DEF Sessions
  <2> QED
    BY <1>1, <1>4, <2>1 DEF Run, PeerGone, Finish, Discard
<1>5. ASSUME NEW h \in Handlers,
             \/ Accept(h) \/ (HandlerSteps(h) /\ ~Run(h) /\ ~Finish(h))
             \/ WatchStops(h) \/ ConsumerLeaves(h)
      PROVE  session' = session
  BY <1>5
     DEF Accept, HandlerSteps, SendHeaders, SendHeadersFails, LookAtCooldown, Wake,
         Decline, RunReturns, RunRaises, StartCooldown, StopWatching, WatchStops,
         ConsumerLeaves
<1>6. CASE Tick
  BY <1>1, <1>6 DEF Tick
<1> QED
  BY <1>1, <1>2, <1>3, <1>4, <1>5, <1>6 DEF Next, HandlerSteps, WatchSteps

\* Every other variable keeps its type.
LEMMA NextTypeOK ==
    ASSUME IInv, Next
    PROVE  TypeOK'
<1> DEFINE Logs == {"stream_ended", "client_disconnected", "no_video", "camera_timeout",
                    "error"}
<1>1. /\ handler \in [Handlers -> Served \cup {"new"}] /\ logged \in [Handlers -> Logs]
      /\ watch \in [Handlers -> {"none", "watching", "done"}]
      /\ consumer \in [Handlers -> {"here", "gone", "hidden"}]
      /\ cooldown \in 0 .. Cooldown /\ waited \in [Handlers -> BOOLEAN]
  BY DEF IInv, TypeOK
<1>2. session' \in [Handlers -> Sessions] /\ active' \in 0 .. Cardinality(Handlers)
  BY NextSessions, NextActiveCounted
<1>3. CASE Tick
  BY <1>1, <1>2, <1>3, ProxyAssumption DEF Tick, handlerVars, TypeOK
<1>4. ASSUME NEW h \in Handlers, Accept(h) \/ HandlerSteps(h) PROVE TypeOK'
  <2> USE <1>4, ProxyAssumption
      DEF Accept, HandlerSteps, SendHeaders, SendHeadersFails, LookAtCooldown, Wake, Run,
          Decline, RunReturns, RunRaises, StartCooldown, StopWatching, Finish, Discard,
          Goto, Reports
  <2>1. handler' \in [Handlers -> Served \cup {"new"}]
    BY <1>1 DEF Served
  <2>2. logged' \in [Handlers -> Logs]
    BY <1>1 DEF Logged
  <2>3. /\ watch' \in [Handlers -> {"none", "watching", "done"}]
        /\ consumer' \in [Handlers -> {"here", "gone", "hidden"}]
    BY <1>1
  <2>4. cooldown' \in 0 .. Cooldown
    BY <1>1 DEF serverVars
  <2>5. waited' \in [Handlers -> BOOLEAN]
    <3>1. CASE StartCooldown(h)
      BY <1>1, <3>1, Zenon
    <3>2. CASE ~StartCooldown(h)
      <4> HIDE DEF StartCooldown
      <4> QED
        BY <1>1, <3>2 DEF serverVars
    <3> QED
      BY <3>1, <3>2
  <2> QED
    BY <1>2, <2>1, <2>2, <2>3, <2>4, <2>5, Zenon DEF TypeOK
<1>5. ASSUME NEW h \in Handlers,
             \/ WatchSteps(h) \/ SessionGoesOn(h) \/ SessionAborts(h) \/ SessionEnds(h)
             \/ ConsumerLeaves(h)
      PROVE  TypeOK'
  <2>1. UNCHANGED <<handler, logged, cooldown, waited>>
    BY <1>5 DEF WatchSteps, PeerGone, WatchStops, SessionGoesOn, SessionAborts,
                SessionEnds, SessionStep, ConsumerLeaves, handlerVars, serverVars
  <2>2. /\ watch' \in [Handlers -> {"none", "watching", "done"}]
        /\ consumer' \in [Handlers -> {"here", "gone", "hidden"}]
    BY <1>1, <1>5, ZenonT(60)
       DEF WatchSteps, PeerGone, WatchStops, SessionGoesOn, SessionAborts,
                SessionEnds, SessionStep, ConsumerLeaves
  <2> QED
    BY <1>1, <1>2, <2>1, <2>2 DEF TypeOK
<1> QED
  BY <1>3, <1>4, <1>5 DEF Next

-----------------------------------------------------------------------------
(* One lemma per thread for what relates a handler to its session.          *)

\* What do_GET does to its session, its consumer and its log.
LEMMA HandlerRelations ==
    ASSUME IInv, NEW h \in Handlers, Accept(h) \/ HandlerSteps(h)
    PROVE  Relations'
<1> USE ProxyAssumption
    DEF IInv, TypeOK, Relations, Staged, Aborted, Told, Looked, Sessions, Before,
        handlerVars, serverVars, Goto, Reports
<1>1. CASE Accept(h)
  BY <1>1 DEF Accept
<1>2. CASE SendHeaders(h)
  BY <1>2 DEF SendHeaders
<1>3. CASE SendHeadersFails(h)
  BY <1>3 DEF SendHeadersFails
<1>4. CASE LookAtCooldown(h)
  BY <1>4 DEF LookAtCooldown
<1>5. CASE Wake(h)
  BY <1>5 DEF Wake
<1>6. CASE Run(h)
  BY <1>6 DEF Run
<1>7. CASE Decline(h)
  BY <1>7 DEF Decline
<1>8. CASE RunReturns(h)
  BY <1>8 DEF RunReturns, Logged
<1>9. CASE RunRaises(h)
  BY <1>9, SMTT(30) DEF RunRaises
<1>10. CASE StartCooldown(h)
  <2>1. Staged'
    BY <1>10 DEF StartCooldown
  <2>3. Aborted'
    BY <1>10 DEF StartCooldown
  <2>4. Told'
    BY <1>10 DEF StartCooldown
  <2>2. (\A g \in Handlers : ~waited'[g]) \/ cooldown' = 0
    BY <1>10 DEF StartCooldown
  <2> QED
    BY <2>1, <2>2, <2>3, <2>4
<1>11. CASE StopWatching(h)
  BY <1>11 DEF StopWatching
<1>12. CASE Finish(h)
  BY <1>12 DEF Finish, Discard, NewSession
<1> QED
  BY <1>1, <1>2, <1>3, <1>4, <1>5, <1>6, <1>7, <1>8, <1>9, <1>10, <1>11, <1>12
     DEF HandlerSteps

\* A camera that answers or fails changes nothing else of its session.
LEMMA GoesOnInside ==
    ASSUME IInv, NEW h \in Handlers, SessionGoesOn(h)
    PROVE  \A g \in Handlers : /\ session'[g].phase = session[g].phase
                               /\ session'[g].reason = session[g].reason
                               /\ session'[g].outcome = session[g].outcome
<1>1. /\ \A g \in Handlers \ {h} : session'[g] = session[g]
      /\ \/ session'[h] = [session[h] EXCEPT !.opened = TRUE]
         \/ session'[h] = [session[h] EXCEPT !.fault = TRUE]
  BY ZenonT(60) DEF SessionGoesOn, SessionStep, IInv, TypeOK
<1>2. session[h] \in Sessions
  BY DEF IInv, TypeOK
<1>3. /\ session'[h].phase = session[h].phase
      /\ session'[h].reason = session[h].reason
      /\ session'[h].outcome = session[h].outcome
  BY <1>1, <1>2 DEF Sessions
<1> QED
  BY <1>1, <1>3

\* What the watchdog, the session and the consumer do to the handler.
LEMMA EnvironmentRelations ==
    ASSUME IInv, NEW h \in Handlers,
           \/ WatchSteps(h) \/ SessionGoesOn(h) \/ SessionAborts(h) \/ SessionEnds(h)
           \/ ConsumerLeaves(h)
    PROVE  Relations'
<1> USE ProxyAssumption
    DEF IInv, TypeOK, Relations, Staged, Aborted, Told, Looked, Sessions, Before,
        handlerVars, serverVars, SessionStep
<1>1. CASE PeerGone(h)
  BY <1>1 DEF PeerGone, SeesGone
<1>2. CASE WatchStops(h)
  BY <1>2 DEF WatchStops
<1>3. CASE SessionGoesOn(h)
  <2>1. /\ UNCHANGED <<handler, logged, watch, consumer, cooldown, waited>>
        /\ \A g \in Handlers : /\ session'[g].phase = session[g].phase
                               /\ session'[g].reason = session[g].reason
                               /\ session'[g].outcome = session[g].outcome
    <3>1. UNCHANGED <<handler, logged, watch, consumer, cooldown, waited>>
      BY <1>3 DEF SessionGoesOn
    <3>2. \A g \in Handlers : /\ session'[g].phase = session[g].phase
                              /\ session'[g].reason = session[g].reason
                              /\ session'[g].outcome = session[g].outcome
      BY <1>3, GoesOnInside
    <3> QED
      BY <3>1, <3>2
  <2>2. Staged'
    BY <2>1
  <2>3. Aborted' /\ Told'
    BY <2>1
  <2>4. Looked'
    BY <2>1
  <2> QED
    BY <2>2, <2>3, <2>4
<1>4. CASE SessionAborts(h)
  <2>1. /\ UNCHANGED <<handler, logged, watch, consumer, cooldown, waited>>
        /\ session[h].phase = "running" /\ session'[h].phase = "running"
        /\ session[h].reason = "none"
        /\ session'[h].reason \in {"no_video", "finished"}
        /\ session'[h].outcome = session[h].outcome
        /\ \A g \in Handlers \ {h} : session'[g] = session[g]
    BY <1>4 DEF SessionAborts, Running
  <2>2. Staged'
    BY <2>1
  <2>3. Aborted'
    BY <2>1
  <2>4. Told'
    BY <2>1
  <2>5. Looked'
    BY <2>1
  <2> QED
    BY <2>2, <2>3, <2>4, <2>5
<1>5. CASE SessionEnds(h)
  <2>1. PICK o \in (IF session[h].reason = "none" THEN {} ELSE {"ok", "pipe"})
                   \cup {"device", "pipe", "error"} :
            SessionStep(h, [session[h] EXCEPT !.phase = "ended", !.outcome = o])
    BY <1>5 DEF SessionEnds
  <2>2. /\ UNCHANGED <<handler, logged, watch, consumer, cooldown, waited>>
        /\ session[h].phase = "running" /\ session'[h].phase = "ended"
        /\ session'[h].outcome = o /\ o # "none"
        /\ session'[h].reason = session[h].reason
        /\ \A g \in Handlers \ {h} : session'[g] = session[g]
    BY <2>1 DEF Running
  <2>3. o = "ok" => session[h].reason # "none"
    BY <2>1
  <2>4. Staged'
    BY <2>2
  <2>5. Aborted'
    BY <2>2, <2>3
  <2>6. Told'
    BY <2>2
  <2>7. Looked'
    BY <2>2
  <2> QED
    BY <2>4, <2>5, <2>6, <2>7
<1>6. CASE ConsumerLeaves(h)
  BY <1>6 DEF ConsumerLeaves
<1> QED
  BY <1>1, <1>2, <1>3, <1>4, <1>5, <1>6 DEF WatchSteps

\* Every step keeps the inductive invariant.
LEMMA NextIInv == IInv /\ [Next]_vars => IInv'
<1> SUFFICES ASSUME IInv, [Next]_vars PROVE IInv'
  OBVIOUS
<1>1. CASE Next
  <2>1. Relations'
    <3>1. CASE Tick
      BY <3>1 DEF Tick, handlerVars, IInv, TypeOK, Relations, Staged, Aborted, Told, Looked
    <3> QED
      BY <1>1, <3>1, HandlerRelations, EnvironmentRelations DEF Next
  <2> QED
    BY <1>1, <2>1, NextTypeOK, NextActiveCounted DEF IInv
<1>2. CASE UNCHANGED vars
  <2> USE <1>2 DEF vars, handlerVars, serverVars, IInv
  <2>1. TypeOK'
    BY DEF TypeOK
  <2>2. ActiveCounted'
    BY DEF ActiveCounted
  <2>3. Relations'
    BY DEF Relations, Staged, Aborted, Told, Looked
  <2> QED
    BY <2>1, <2>2, <2>3
<1> QED
  BY <1>1, <1>2

\* The inductive invariant holds in every state the server reaches.
THEOREM Invariance == Spec => []IInv
BY InitIInv, NextIInv, PTL DEF Spec

\* Every variable of the server keeps its type.
THEOREM TypeCorrect == Spec => []TypeOK
<1>1. IInv => TypeOK
  BY DEF IInv
<1> QED
  BY <1>1, Invariance, PTL

\* The count of active connections is that of the GETs under way, however each
\* of those before ended.
THEOREM CountsActive == Spec => []ActiveCounted
<1>1. IInv => ActiveCounted
  BY DEF IInv
<1> QED
  BY <1>1, Invariance, PTL

\* The connection log blames a connection's end on who ended it.
THEOREM TellsReason == Spec => []ReasonTells
<1>1. IInv => ReasonTells
  BY DEF IInv, Relations, Told, ReasonTells
<1> QED
  BY <1>1, Invariance, PTL

\* No session opens during a cooldown that its handler had waited for.
THEOREM CooldownWaitedOut == Spec => WaitsOut
<1>1. IInv /\ [Next]_vars
      => [\A h \in Handlers : Run(h) /\ waited[h] => cooldown = 0]_vars
  BY DEF IInv, Relations, Looked, Run
<1> QED
  BY <1>1, Invariance, PTL DEF Spec, WaitsOut

-----------------------------------------------------------------------------
(* The sessions, which do what SessionContract allows.                      *)

\* What the server and the sessions' own threads do to a session is a step of
\* its contract.
LEMMA SessionSteps ==
    ASSUME IInv, NEW h \in Handlers,
           \/ Run(h) \/ PeerGone(h) \/ SessionGoesOn(h) \/ SessionAborts(h)
           \/ SessionEnds(h)
    PROVE  Contract(h)!Next \/ UNCHANGED Contract(h)!vars
<1>0. session \in [Handlers -> Sessions]
  BY DEF IInv, TypeOK
<1> USE <1>0 DEF Sessions
<1>1. CASE Run(h)
  <2>1. session[h].phase = "new"
    BY <1>1 DEF IInv, Relations, Staged, Run, Before
  <2>2. Contract(h)!Run
    BY <1>1, <2>1 DEF Run, Contract!Run
  <2> QED
    BY <2>2 DEF Contract!Next
<1>2. CASE PeerGone(h)
  <2>1. CASE session[h].reason = "none"
    <3>1. Contract(h)!Abort
      BY <1>2, <2>1 DEF PeerGone, Contract!Abort
    <3> QED
      BY <3>1 DEF Contract!Next
  <2>2. CASE session[h].reason # "none"
    BY <1>2, <2>2 DEF PeerGone, Contract!vars
  <2> QED
    BY <2>1, <2>2
<1>3. CASE SessionGoesOn(h)
  <2>1. Contract(h)!Open \/ Contract(h)!Fail
    BY <1>3 DEF SessionGoesOn, SessionStep, Running, Contract!Open, Contract!Fail
  <2> QED
    BY <2>1 DEF Contract!Next
<1>4. CASE SessionAborts(h)
  <2>1. Contract(h)!Abort
    BY <1>4 DEF SessionAborts, SessionStep, Contract!Abort
  <2> QED
    BY <2>1 DEF Contract!Next
<1>5. CASE SessionEnds(h)
  <2>1. PICK o \in (IF session[h].reason = "none" THEN {} ELSE {"ok", "pipe"})
             \cup (IF session[h].fault \/ ( /\ session[h].reason \notin {"none", "finished"}
                                         /\ ~session[h].opened )
                   THEN {"device", "pipe", "error"} ELSE {}) :
            SessionStep(h, [session[h] EXCEPT !.phase = "ended", !.outcome = o])
    BY <1>5 DEF SessionEnds
  <2>2. /\ session[h].phase = "running" /\ session'[h].phase = "ended"
        /\ session'[h].outcome = o
        /\ session'[h].holds = {} /\ session'[h].fault = session[h].fault
        /\ session'[h].reason = session[h].reason
        /\ session'[h].opened = session[h].opened
    BY <2>1 DEF SessionStep, Running
  <2>3. o \in Contract(h)!Endings
    BY <2>1, <2>2 DEF Contract!Endings
  <2>4. Contract(h)!End
    BY <2>2, <2>3 DEF Contract!End
  <2> QED
    BY <2>4 DEF Contract!Next
<1> QED
  BY <1>1, <1>2, <1>3, <1>4, <1>5

\* Every step of a session is one of its contract's, but for the end of a GET,
\* which puts a new session in its place.
THEOREM SessionsKeepContract == Spec => SessionsByContract
<1> DEFINE Kept == \A h \in Handlers :
               session'[h] # NewSession
                   => Contract(h)!Next \/ UNCHANGED Contract(h)!vars
<1>1. ASSUME IInv, Next, NEW h \in Handlers, session'[h] # NewSession
      PROVE  Contract(h)!Next \/ UNCHANGED Contract(h)!vars
  <2>1. CASE session'[h] = session[h]
    BY <2>1 DEF Contract!vars
  <2>2. CASE session'[h] # session[h]
    <3>1. PICK g \in Handlers :
              \/ Run(g) \/ PeerGone(g) \/ SessionGoesOn(g) \/ SessionAborts(g)
              \/ SessionEnds(g) \/ Finish(g)
      BY <1>1, <2>2
         DEF Next, Accept, HandlerSteps, SendHeaders, SendHeadersFails, LookAtCooldown,
             Wake, Decline, RunReturns, RunRaises, StartCooldown, StopWatching,
             WatchSteps, WatchStops, ConsumerLeaves, Tick
    <3>2. g = h
      BY <1>1, <2>2, <3>1, ZenonT(60)
         DEF IInv, TypeOK, Run, PeerGone, SessionGoesOn, SessionAborts, SessionEnds,
             SessionStep, Finish, Discard
    <3>3. ~Finish(h)
      BY <1>1 DEF Finish, Discard, IInv, TypeOK
    <3> QED
      BY <1>1, <3>1, <3>2, <3>3, SessionSteps
  <2> QED
    BY <2>1, <2>2
<1>2. IInv /\ [Next]_vars => [Kept]_vars
  BY <1>1
<1> QED
  BY <1>2, Invariance, PTL DEF Spec, SessionsByContract

=============================================================================
