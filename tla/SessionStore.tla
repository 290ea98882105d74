---------------------------- MODULE SessionStore ----------------------------
(***************************************************************************)
(* persistent_data::SessionStore (sessions.hpp) with the ConfigFile that   *)
(* loads and saves it (http/persistent_data.hpp), over restarts and        *)
(* crashes of the program.                                                 *)
(*                                                                         *)
(* A clock reading is never stored: idle is now - lastUpdated of a session *)
(* and sinceUpdate is now - lastTimeoutUpdate.  Both saturate just past    *)
(* the largest value the code compares them with, so time is unbounded.    *)
(* The file is what a reader of it gets: a missing file, one that does not *)
(* parse and one cut off in the middle of a write all read as NoFile.      *)
(*                                                                         *)
(* Left out: the fields of a session no operation here reads, the random   *)
(* generator (a token is one that was never used, 62^20 to choose from),   *)
(* the event service settings and subscriptions that travel in the same    *)
(* file, and the SIGHUP that updateAuthMethodsConfig raises, which is the  *)
(* signal HttpServer handles at any time.                                  *)
(***************************************************************************)
EXTENDS Naturals

CONSTANTS
    Token,            \* session tokens
    Owner,            \* Owner[t]: the username of the session with token t
    AuthMethods,      \* values of AuthConfigMethods
    DefaultAuth,      \* the value the build sets
    Timeouts,         \* values of timeoutInSeconds
    DefaultTimeout,   \* 1800 in the code
    LongestTimeout,   \* no timeout is longer
    Throttle          \* 1 second in the code: sweeps are further apart

ASSUME StoreAssumption ==
    /\ LongestTimeout \in Nat \ {0}
    /\ Timeouts \subseteq 0..LongestTimeout
    /\ DefaultTimeout \in Timeouts
    /\ DefaultAuth \in AuthMethods
    /\ Throttle \in Nat

VARIABLES
    phase,            \* the program: down, starting (the write of readData),
                      \* up, stopping (the write of the destructor)
    authTokens,       \* sessions by token
    needWrite,
    timeoutInSeconds,
    authMethodsConfig,
    sinceUpdate,      \* now - lastTimeoutUpdate
    file,             \* bmcweb_persistent_data.json
    held,             \* tokens this run of the program created or restored
    issued,           \* history: every token there ever was
    oneShot           \* history: those of SINGLE_REQUEST sessions

vars == <<phase, authTokens, needWrite, timeoutInSeconds, authMethodsConfig,
          sinceUpdate, file, held, issued, oneShot>>

settingVars == <<timeoutInSeconds, authMethodsConfig>>
history == <<issued, oneShot>>

-----------------------------------------------------------------------------
PersistenceType == {"TIMEOUT", "SINGLE_REQUEST"}

\* Where idle stops counting: no comparison tells larger values apart.
IdleCap == LongestTimeout + Throttle

UserSession == [persistence : PersistenceType, idle : 0..IdleCap]

\* The age of lastTimeoutUpdate in a new store: due for a sweep.
NeverSwept == Throttle + 1

jsonRevision == 1

\* named: it holds a system_uuid that is not empty; timed: it has a "timeout" item.
File == [revision : 0..jsonRevision, named : BOOLEAN, sessions : SUBSET Token,
         timed : BOOLEAN, timeout : Timeouts, auth : AuthMethods]

\* A missing or torn file leaves readData with the defaults.
NoFile == [revision |-> 0, named |-> FALSE, sessions |-> {},
           timed |-> FALSE, timeout |-> DefaultTimeout, auth |-> DefaultAuth]

\* The sessions writeData puts in the file.
LongLived ==
    {t \in DOMAIN authTokens : authTokens[t].persistence # "SINGLE_REQUEST"}

\* What writeData writes.
Contents == [revision |-> jsonRevision, named |-> TRUE, sessions |-> LongLived,
             timed |-> TRUE, timeout |-> timeoutInSeconds, auth |-> authMethodsConfig]

Fresh(persistence) == [persistence |-> persistence, idle |-> 0]

Keep(S) == [t \in S |-> authTokens[t]]

\* The process is gone, with all it had in memory.
Exit ==
    /\ phase' = "down"
    /\ authTokens' = Keep({})
    /\ needWrite' = FALSE
    /\ timeoutInSeconds' = DefaultTimeout
    /\ authMethodsConfig' = DefaultAuth
    /\ sinceUpdate' = NeverSwept
    /\ held' = {}

-----------------------------------------------------------------------------
\* applySessionTimeouts: at most one sweep per Throttle.
SweepDue == sinceUpdate > Throttle

\* Variant: a session may be idle for as long as the timeout.
TimedOutLater ==
    {t \in DOMAIN authTokens : authTokens[t].idle > timeoutInSeconds}

TimedOut == {t \in DOMAIN authTokens : authTokens[t].idle >= timeoutInSeconds}

Expired == IF SweepDue THEN TimedOut ELSE {}

Unexpired == DOMAIN authTokens \ Expired

SweepMarks ==
    /\ sinceUpdate' = IF SweepDue THEN 0 ELSE sinceUpdate
    /\ needWrite' = (needWrite \/ Expired # {})

\* Any file an earlier run, of this version or an older one, can have left.
Init ==
    /\ phase = "down"
    /\ authTokens = [t \in {} |-> Fresh("TIMEOUT")]
    /\ needWrite = FALSE
    /\ timeoutInSeconds = DefaultTimeout
    /\ authMethodsConfig = DefaultAuth
    /\ sinceUpdate = NeverSwept
    /\ file \in {f \in File : f.timed \/ f.timeout = DefaultTimeout}
    /\ held = {}
    /\ issued = file.sessions
    /\ oneShot = {}

\* ConfigFile(), that is readData.  Restored sessions start idle afresh.  A
\* "timeout" item goes through updateSessionTimeout.  A file of no or an old
\* revision, and one without a system_uuid, for which one is made, is written
\* again at once: truncated, and then written by Written.
Start ==
    /\ phase = "down"
    /\ authTokens' = [t \in file.sessions |-> Fresh("TIMEOUT")]
    /\ timeoutInSeconds' = file.timeout
    /\ authMethodsConfig' = file.auth
    /\ needWrite' = file.timed
    /\ held' = file.sessions
    /\ IF ~file.named \/ file.revision < jsonRevision
       THEN phase' = "starting" /\ file' = NoFile
       ELSE phase' = "up" /\ UNCHANGED file
    /\ UNCHANGED <<sinceUpdate, history>>

\* writeData has closed the file.  needWrite is not cleared.
Written ==
    /\ phase \in {"starting", "stopping"}
    /\ file' = Contents
    /\ IF phase = "starting"
       THEN /\ phase' = "up"
            /\ UNCHANGED <<authTokens, needWrite, settingVars, sinceUpdate, held>>
       ELSE Exit
    /\ UNCHANGED history

\* ~ConfigFile finds something to write: the file is truncated first.
StopAndWrite ==
    /\ phase = "up"
    /\ needWrite \/ Expired # {}
    /\ SweepMarks
    /\ authTokens' = Keep(Unexpired)
    /\ phase' = "stopping"
    /\ file' = NoFile
    /\ UNCHANGED <<settingVars, held, history>>

\* ~ConfigFile leaves the file as it is.
StopWithoutWriting ==
    /\ phase = "up"
    /\ ~(needWrite \/ Expired # {})
    /\ Exit
    /\ UNCHANGED <<file, history>>

\* The process dies; a write under way leaves a file that does not parse.
Crash ==
    /\ phase # "down"
    /\ Exit
    /\ UNCHANGED <<file, history>>

-----------------------------------------------------------------------------
\* generateUserSession
GenerateUserSession(t, persistence) ==
    /\ phase = "up"
    /\ t \notin issued
    /\ authTokens' = [u \in DOMAIN authTokens \union {t} |->
                        IF u = t THEN Fresh(persistence) ELSE authTokens[u]]
    /\ needWrite' = (persistence = "TIMEOUT")
    /\ held' = held \union {t}
    /\ issued' = issued \union {t}
    /\ oneShot' = IF persistence = "TIMEOUT" THEN oneShot ELSE oneShot \union {t}
    /\ UNCHANGED <<phase, settingVars, sinceUpdate, file>>

\* Variant: the map's operator[] makes a session of an unknown token.
LoginSessionByTokenInserts(t) ==
    /\ phase = "up"
    /\ SweepMarks
    /\ authTokens' = [u \in Unexpired \union {t} |->
                        IF u = t THEN Fresh("TIMEOUT") ELSE authTokens[u]]
    /\ UNCHANGED <<phase, settingVars, file, held, history>>

\* loginSessionByToken, for a token of a session or any other.
LoginSessionByToken(t) ==
    /\ phase = "up"
    /\ SweepMarks
    /\ authTokens' = [u \in Unexpired |->
                        IF u = t THEN [authTokens[u] EXCEPT !.idle = 0]
                                 ELSE authTokens[u]]
    /\ UNCHANGED <<phase, settingVars, file, held, history>>

\* getSessionByUid and getUniqueIds change what applySessionTimeouts changes.
GetSessions ==
    /\ phase = "up"
    /\ SweepMarks
    /\ authTokens' = Keep(Unexpired)
    /\ UNCHANGED <<phase, settingVars, file, held, history>>

\* Variant: the change is not marked.
RemoveSessionUnmarked(t) ==
    /\ phase = "up"
    /\ t \in held
    /\ authTokens' = Keep(DOMAIN authTokens \ {t})
    /\ UNCHANGED <<phase, needWrite, settingVars, sinceUpdate, file, held, history>>

\* removeSession: the caller's pointer may outlive the store's entry, as the
\* one of a connection that closes after its session expired.
RemoveSession(t) ==
    /\ phase = "up"
    /\ t \in held
    /\ authTokens' = Keep(DOMAIN authTokens \ {t})
    /\ needWrite' = TRUE
    /\ UNCHANGED <<phase, settingVars, sinceUpdate, file, held, history>>

\* removeSessionsByUsername
RemoveSessionsByUsername(u) ==
    /\ phase = "up"
    /\ authTokens' = Keep({t \in DOMAIN authTokens : Owner[t] # u})
    /\ UNCHANGED <<phase, needWrite, settingVars, sinceUpdate, file, held, history>>

\* updateAuthMethodsConfig
UpdateAuthMethodsConfig(config) ==
    /\ phase = "up"
    /\ authMethodsConfig' = config
    /\ needWrite' = TRUE
    /\ UNCHANGED <<phase, authTokens, timeoutInSeconds, sinceUpdate, file, held,
                   history>>

\* updateSessionTimeout
UpdateSessionTimeout(n) ==
    /\ phase = "up"
    /\ timeoutInSeconds' = n
    /\ needWrite' = TRUE
    /\ UNCHANGED <<phase, authTokens, authMethodsConfig, sinceUpdate, file, held,
                   history>>

\* The steady clock advances.
Older(age, cap) == IF age < cap THEN age + 1 ELSE age

Tick ==
    /\ phase = "up"
    /\ authTokens' = [t \in DOMAIN authTokens |->
           [authTokens[t] EXCEPT !.idle = Older(@, IdleCap)]]
    /\ sinceUpdate' = Older(sinceUpdate, NeverSwept)
    /\ UNCHANGED <<phase, needWrite, settingVars, file, held, history>>

Next ==
    \/ Start \/ Written \/ StopAndWrite \/ StopWithoutWriting \/ Crash
    \/ \E t \in Token, p \in PersistenceType : GenerateUserSession(t, p)
    \/ \E t \in Token : LoginSessionByToken(t) \/ RemoveSession(t)
    \/ \E t \in Token : RemoveSessionsByUsername(Owner[t])
    \/ \E c \in AuthMethods : UpdateAuthMethodsConfig(c)
    \/ \E n \in Timeouts : UpdateSessionTimeout(n)
    \/ GetSessions \/ Tick

Spec == Init /\ [][Next]_vars

-----------------------------------------------------------------------------
\* The values of the variables; held is what the program may hold a pointer to.
TypeOK ==
    /\ phase \in {"down", "starting", "up", "stopping"}
    /\ DOMAIN authTokens \subseteq held
    /\ authTokens \in [DOMAIN authTokens -> UserSession]
    /\ needWrite \in BOOLEAN
    /\ timeoutInSeconds \in Timeouts
    /\ authMethodsConfig \in AuthMethods
    /\ sinceUpdate \in 0..NeverSwept
    /\ file \in File
    /\ held \union file.sessions \subseteq issued
    /\ issued \subseteq Token
    /\ oneShot \subseteq issued

Revived(t) == authTokens'[t].idle < authTokens[t].idle

\* A login never revives a session that was idle for the longest timeout and
\* one throttling interval: applySessionTimeouts may skip a sweep, but a skip
\* is never followed by another that adds to it (sessions.hpp:312-316).
RenewedInTime ==
    [][\A t \in DOMAIN authTokens \intersect DOMAIN authTokens' :
          Revived(t) => authTokens[t].idle < LongestTimeout + Throttle]_vars

-----------------------------------------------------------------------------
\* The promise, read off the store while the program runs and off the file
\* while it does not.  A stop is safe when it will write or need not.
Saved ==
    /\ file.sessions = LongLived
    /\ file.timeout = timeoutInSeconds
    /\ file.auth = authMethodsConfig

Running == phase # "down"
Live == IF Running THEN LongLived ELSE file.sessions
InForce == IF Running
           THEN [timeout |-> timeoutInSeconds, auth |-> authMethodsConfig]
           ELSE [timeout |-> file.timeout, auth |-> file.auth]
EverLive == issued \ oneShot
Safe == phase = "up" => (needWrite \/ Saved)

P == INSTANCE SessionPromise WITH
        Setting  <- [timeout : Timeouts, auth : AuthMethods],
        up       <- Running,
        live     <- Live,
        settings <- InForce,
        issued   <- EverLive,
        safe     <- Safe

\* The store and its file keep SessionPromise: what a clean restart restores is
\* what was there, one-shot sessions are never restored, and ended sessions stay
\* away, but for crashes and the two calls the promise names
\* (sessions.hpp, persistent_data.hpp:32-40, 50-189, 191-286).
Promise == P!Spec

\* "Only need to write to disk if session isn't about to be destroyed"
\* (sessions.hpp:223): new sessions and settings the file does not have are marked.
UnsavedIsMarked ==
    phase = "up" /\ ~needWrite =>
        /\ LongLived \subseteq file.sessions
        /\ file.timeout = timeoutInSeconds
        /\ file.auth = authMethodsConfig

\* "Make sure we aren't writing stale sessions" (persistent_data.hpp:34).
NoStaleWritten == phase = "stopping" => TimedOut = {}
=============================================================================
