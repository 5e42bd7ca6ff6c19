-------------------------- MODULE SessionContract --------------------------
(***************************************************************************)
(* What proxy.py may rely on when it hands a consumer to CloudSession: the  *)
(* session may be aborted at any time, by anybody, and the first reason     *)
(* stands; it holds a cloud socket and an FFmpeg only while it runs; a      *)
(* running session that was aborted ends; and run() fails only over         *)
(* something that failed of itself, unless somebody else aborted it before  *)
(* the camera had answered.  CloudSession is shown to implement this, and   *)
(* the sessions of Proxy to do nothing else.                                *)
(***************************************************************************)
CONSTANTS
    Reasons,    \* why a session may be aborted
    Resources   \* what a session may hold

VARIABLES
    phase,      \* "new", "running", "ended"
    reason,     \* abort_reason, "none" until somebody aborts
    holds,      \* resources held
    opened,     \* the camera answered
    fault,      \* the camera, the cloud or FFmpeg failed of itself
    outcome     \* how run() ended, "none" until it did

vars == <<phase, reason, holds, opened, fault, outcome>>

Init ==
    /\ phase = "new" /\ reason = "none" /\ holds = {}
    /\ opened = FALSE /\ fault = FALSE /\ outcome = "none"

Run ==
    /\ phase = "new" /\ phase' = "running"
    /\ UNCHANGED <<reason, holds, opened, fault, outcome>>

Abort ==
    /\ reason = "none" /\ reason' \in Reasons
    /\ UNCHANGED <<phase, holds, opened, fault, outcome>>

Hold ==
    /\ phase = "running"
    /\ \E rs \in SUBSET Resources : holds' = holds \cup rs
    /\ UNCHANGED <<phase, reason, opened, fault, outcome>>

\* A resource is given up, or fails and is gone.
Release ==
    /\ \E r \in holds : holds' = holds \ {r}
    /\ fault' \in {fault, TRUE}
    /\ UNCHANGED <<phase, reason, opened, outcome>>

Open ==
    /\ phase = "running" /\ opened' = TRUE
    /\ UNCHANGED <<phase, reason, holds, fault, outcome>>

Fail ==
    /\ phase = "running" /\ fault' = TRUE
    /\ UNCHANGED <<phase, reason, holds, opened, outcome>>

\* How run() may end: well, or by a broken connection to its consumer, only
\* once somebody aborted, if only its own teardown; and badly when something
\* failed, or when somebody else aborted it before the camera had answered.
Endings ==
    (IF reason = "none" THEN {} ELSE {"ok", "pipe"})
    \cup (IF fault' \/ (reason \notin {"none", "finished"} /\ ~opened)
          THEN {"device", "pipe", "error"} ELSE {})

\* run() returns or raises, and has given everything back.
End ==
    /\ phase = "running" /\ phase' = "ended"
    /\ holds' = {} /\ fault' \in {fault, TRUE}
    /\ outcome' \in Endings
    /\ UNCHANGED <<reason, opened>>

Next == Run \/ Abort \/ Hold \/ Release \/ Open \/ Fail \/ End

Spec == Init /\ [][Next]_vars /\ WF_vars(reason # "none" /\ End)
=============================================================================
