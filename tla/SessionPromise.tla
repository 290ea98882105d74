--------------------------- MODULE SessionPromise ---------------------------
(***************************************************************************)
(* What the session store promises the rest of the program, without a      *)
(* file, a flag or a clock.  Long-lived sessions and settings survive a    *)
(* clean stop and start; a token is issued once; an ended session comes    *)
(* back only after a crash, or when the program stopped while a change was *)
(* not "safe".  The two calls that may make a change unsafe are named:     *)
(* issuing a one-shot session and ending every session of a user.          *)
(***************************************************************************)

CONSTANTS
    Token,        \* session tokens
    Owner,        \* Owner[t]: the user a session with token t belongs to
    Setting       \* what an administrator can configure

VARIABLES
    up,           \* the program runs
    live,         \* the long-lived sessions; while down, those a start restores
    settings,     \* the settings in force; while down, those a start restores
    issued,       \* the tokens of every long-lived session there ever was
    safe          \* a clean stop now keeps live and settings

vars == <<up, live, settings, issued, safe>>

Init ==
    /\ up = FALSE
    /\ live \in SUBSET Token
    /\ settings \in Setting
    /\ issued = live
    /\ safe = TRUE

\* The sessions and settings of the last run are in force again.
Start ==
    /\ ~up
    /\ up' = TRUE
    /\ UNCHANGED <<live, settings, issued, safe>>

\* A clean stop keeps everything when it is safe to stop.
Stop ==
    /\ up
    /\ up' = FALSE
    /\ live' \in SUBSET issued
    /\ settings' \in Setting
    /\ safe => live' = live /\ settings' = settings
    /\ safe' = TRUE
    /\ UNCHANGED issued

\* A crash may lose sessions, settings and the ends of sessions.
Crash ==
    /\ up
    /\ up' = FALSE
    /\ live' \in SUBSET issued
    /\ settings' \in Setting
    /\ safe' = TRUE
    /\ UNCHANGED issued

\* A new long-lived session.
Issue(t) ==
    /\ up
    /\ t \notin issued
    /\ live' = live \union {t}
    /\ issued' = issued \union {t}
    /\ safe' = TRUE
    /\ UNCHANGED <<up, settings>>

\* A new one-shot session, which is in no promise but may cost the safety of
\* the changes before it.
IssueOneShot ==
    /\ up
    /\ safe' \in BOOLEAN
    /\ UNCHANGED <<up, live, settings, issued>>

\* Sessions end, by request or because they were idle.
End(S) ==
    /\ up
    /\ live' = live \ S
    /\ safe' \in {safe, TRUE}
    /\ UNCHANGED <<up, settings, issued>>

\* Every session of user u ends.
EndUser(u) ==
    /\ up
    /\ live' = {t \in live : Owner[t] # u}
    /\ safe' \in BOOLEAN
    /\ UNCHANGED <<up, settings, issued>>

Configure ==
    /\ up
    /\ settings' \in Setting
    /\ safe' = TRUE
    /\ UNCHANGED <<up, live, issued>>

Next ==
    \/ Start \/ Stop \/ Crash \/ IssueOneShot \/ Configure
    \/ \E t \in Token : Issue(t)
    \/ \E S \in SUBSET live : End(S)
    \/ \E t \in Token : EndUser(Owner[t])

Spec == Init /\ [][Next]_vars
=============================================================================
