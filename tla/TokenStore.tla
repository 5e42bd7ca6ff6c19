----------------------------- MODULE TokenStore -----------------------------
(***************************************************************************)
(* token.py `TokenStore`: the token file, the cloud's session it stands for *)
(* and one call of ensure() at a time.  The file and the temporary one next *)
(* to it are all that is left after a crash.                                *)
(***************************************************************************)
VARIABLES
    file,       \* what is at path
    temp,       \* what is at path.tmp
    ensure,     \* where ensure() is
    answer      \* how the last ensure() ended: "ok", "mfa", "failed"

vars == <<file, temp, ensure, answer>>

\* No file; one that is not a token; a token the cloud accepts; one it rejects.
Contents == {"none", "partial", "live", "dead"}

TypeOK ==
    /\ file \in Contents /\ temp \in Contents
    /\ ensure \in {"idle", "load", "check", "login", "write", "written", "replace"}
    /\ answer \in {"none", "ok", "mfa", "failed"}

Init ==
    /\ file \in Contents /\ temp \in Contents
    /\ ensure = "idle" /\ answer = "none"

Goto(s) == ensure' = s /\ UNCHANGED answer

Answers(a) == ensure' = "idle" /\ answer' = a

\* _load: what is unreadable, or holds no session, is no token.
Stored == file \in {"live", "dead"}

Ensure ==
    /\ ensure = "idle" /\ ensure' = "load" /\ answer' = "none"
    /\ UNCHANGED <<file, temp>>

Load ==
    /\ ensure = "load"
    /\ Goto(IF Stored THEN "check" ELSE "login")
    /\ UNCHANGED <<file, temp>>

\* Mutant: every error of the check is read as a dead session.
CheckUnclear_Dead ==
    /\ ensure = "check" /\ Goto("login")
    /\ UNCHANGED <<file, temp>>

\* _works: the cloud accepts the token.
CheckAccepted ==
    /\ ensure = "check" /\ file = "live"
    /\ Answers("ok")
    /\ UNCHANGED <<file, temp>>

\* EzvizAuthTokenExpired, or HTTP 401 or 403.
CheckRejected ==
    /\ ensure = "check" /\ file = "dead"
    /\ Goto("login")
    /\ UNCHANGED <<file, temp>>

\* Another HTTP error or another PyEzvizError: "keeping it".
CheckUnclear ==
    /\ ensure = "check"
    /\ Answers("ok")
    /\ UNCHANGED <<file, temp>>

\* An exception of the network that the client does not wrap.
CheckFails ==
    /\ ensure = "check"
    /\ Answers("failed")
    /\ UNCHANGED <<file, temp>>

\* _login: a new session, of which only the client's memory knows yet.
LoginAccepted ==
    /\ ensure = "login" /\ Goto("write")
    /\ UNCHANGED <<file, temp>>

LoginFails ==
    /\ ensure = "login" /\ \E a \in {"mfa", "failed"} : Answers(a)
    /\ UNCHANGED <<file, temp>>

\* Mutant: the token is written in place.
Write_InPlace ==
    /\ ensure = "write" /\ Goto("written")
    /\ file' = "partial"
    /\ UNCHANGED temp

\* _write: write_text truncates the temporary file first.
Write ==
    /\ ensure = "write" /\ Goto("written")
    /\ temp' = "partial"
    /\ UNCHANGED file

WriteDone ==
    /\ ensure = "written" /\ Goto("replace")
    /\ temp' = "live"
    /\ UNCHANGED file

\* temporary.replace(path): one system call.
Replace ==
    /\ ensure = "replace" /\ Answers("ok")
    /\ file' = temp /\ temp' = "none"

\* The disk is full, or the directory is not writable.
WriteFails ==
    /\ ensure \in {"write", "written", "replace"} /\ Answers("failed")
    /\ UNCHANGED <<file, temp>>

Steps ==
    \/ Load
    \/ CheckAccepted \/ CheckRejected \/ CheckUnclear \/ CheckFails
    \/ LoginAccepted \/ LoginFails
    \/ Write \/ WriteDone \/ Replace \/ WriteFails

\* The cloud ends the session.
Expire ==
    /\ "live" \in {file, temp}
    /\ file' = IF file = "live" THEN "dead" ELSE file
    /\ temp' = IF temp = "live" THEN "dead" ELSE temp
    /\ UNCHANGED <<ensure, answer>>

\* The add-on is killed and started again.
Restart ==
    /\ ensure' = "idle" /\ answer' = "none"
    /\ UNCHANGED <<file, temp>>

-----------------------------------------------------------------------------
\* "A crash mid-write cannot leave a corrupt file": what is not a token was
\* not put there by this code.
NeverTorn == [][file' = "partial" => file = "partial"]_vars

\* "Each misreading spends a real login": a login is tried only when the file
\* holds no session, or one the cloud has ended.
LoginsAreNeeded ==
    [][LoginAccepted \/ LoginFails => file \in {"none", "partial", "dead"}]_vars
=============================================================================
