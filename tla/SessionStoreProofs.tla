------------------------- MODULE SessionStoreProofs -------------------------
(***************************************************************************)
(* Theorems about SessionStore, for every set of tokens, owners, settings  *)
(* and every throttle: its type, the bound on revived sessions, and that   *)
(* it implements SessionPromise.                                           *)
(***************************************************************************)
EXTENDS SessionStore, TLAPS

\* What restoring relies on: which sessions are one-shot, what the file says
\* while it is missing, torn or being written, and that a start finds no session
\* in memory.
FileInv ==
    /\ \A t \in DOMAIN authTokens :
          authTokens[t].persistence = "SINGLE_REQUEST" <=> t \in oneShot
    /\ file.sessions \subseteq EverLive
    /\ phase \in {"starting", "stopping"} => file = NoFile
    /\ phase = "down" => DOMAIN authTokens = {}

\* Within a throttling interval every session was not yet due at its start.
IdleInv ==
    sinceUpdate <= Throttle =>
        \A t \in DOMAIN authTokens :
            authTokens[t].idle < LongestTimeout + sinceUpdate

Inv == TypeOK /\ FileInv /\ IdleInv

-----------------------------------------------------------------------------
(* Types *)

LEMMA Numbers ==
    /\ LongestTimeout \in Nat /\ LongestTimeout > 0
    /\ Throttle \in Nat /\ NeverSwept \in Nat /\ IdleCap \in Nat
    /\ Fresh("TIMEOUT") \in UserSession
    /\ Fresh("SINGLE_REQUEST") \in UserSession
    /\ NoFile \in File /\ NoFile.sessions = {}
BY StoreAssumption
   DEF NeverSwept, IdleCap, Fresh, UserSession, PersistenceType, NoFile, File,
       jsonRevision

\* An age that gets older stays within its cap.
LEMMA OlderAge ==
    ASSUME NEW cap \in Nat, NEW age \in 0..cap
    PROVE  /\ Older(age, cap) \in 0..cap
           /\ Older(age, cap) <= age + 1
           /\ Older(age, cap) >= age
           /\ age < cap => Older(age, cap) = age + 1
           /\ age = cap => Older(age, cap) = cap
BY DEF Older

\* What is written has the type of a file.
LEMMA ContentsType ==
    ASSUME TypeOK
    PROVE  /\ Contents \in File
           /\ Contents.sessions = LongLived
           /\ LongLived \subseteq DOMAIN authTokens
           /\ DOMAIN authTokens \subseteq Token
BY DEF TypeOK, Contents, File, LongLived, jsonRevision

\* A session map made by restricting the one before.
LEMMA KeepType ==
    ASSUME TypeOK, NEW S \in SUBSET DOMAIN authTokens, authTokens' = Keep(S),
           held' = held
    PROVE  /\ DOMAIN authTokens' = S
           /\ DOMAIN authTokens' \subseteq held'
           /\ \A t \in DOMAIN authTokens' : authTokens'[t] = authTokens[t]
           /\ authTokens' \in [DOMAIN authTokens' -> UserSession]
BY DEF TypeOK, Keep

LEMMA SweepType ==
    ASSUME TypeOK, SweepMarks
    PROVE  /\ sinceUpdate' \in 0..NeverSwept
           /\ needWrite' \in BOOLEAN
           /\ Unexpired \subseteq DOMAIN authTokens
BY Numbers DEF TypeOK, SweepMarks, Unexpired

LEMMA ExitType ==
    ASSUME TypeOK, Exit
    PROVE  /\ phase' = "down"
           /\ DOMAIN authTokens' = {} /\ held' = {}
           /\ authTokens' \in [DOMAIN authTokens' -> UserSession]
           /\ needWrite' \in BOOLEAN
           /\ timeoutInSeconds' \in Timeouts
           /\ authMethodsConfig' \in AuthMethods
           /\ sinceUpdate' = NeverSwept /\ sinceUpdate' \in 0..NeverSwept
<1>1. authTokens' = [t \in {} |-> authTokens[t]]
  BY DEF Exit, Keep
<1>2. DOMAIN authTokens' = {} /\ authTokens' \in [{} -> UserSession]
  BY <1>1
<1>3. authTokens' \in [DOMAIN authTokens' -> UserSession]
  BY <1>1
<1>4. sinceUpdate' = NeverSwept /\ NeverSwept \in 0..NeverSwept
  BY Numbers DEF Exit
<1> QED
  BY <1>2, <1>3, <1>4, StoreAssumption DEF Exit

LEMMA Typing == TypeOK /\ [Next]_vars => TypeOK'
<1> SUFFICES ASSUME TypeOK, [Next]_vars PROVE TypeOK'
  OBVIOUS
<1>1. CASE Start
  <2>1. authTokens' \in [DOMAIN authTokens' -> UserSession]
    BY <1>1, Numbers DEF Start
  <2>2. DOMAIN authTokens' = file.sessions /\ held' = file.sessions
    BY <1>1 DEF Start
  <2> QED
    BY <1>1, <2>1, <2>2, Numbers DEF Start, TypeOK, File, NoFile, history
<1>2. CASE Written
  <2>1. CASE phase = "starting"
    BY <1>2, <2>1, ContentsType DEF Written, TypeOK, history, settingVars
  <2>2. CASE phase = "stopping"
    <3>1. Exit /\ file' = Contents /\ UNCHANGED history
      BY <1>2, <2>2 DEF Written
    <3> QED
      BY <3>1, ContentsType, ExitType DEF TypeOK, history
  <2> QED
    BY <1>2, <2>1, <2>2 DEF Written
<1>3. CASE StopAndWrite
  <2>1. authTokens' = Keep(Unexpired) /\ SweepMarks /\ held' = held
    BY <1>3 DEF StopAndWrite
  <2>2. Unexpired \in SUBSET DOMAIN authTokens
    BY <2>1, SweepType
  <2> HIDE DEF Unexpired
  <2> QED
    BY <1>3, <2>1, <2>2, SweepType, KeepType, Numbers
    DEF StopAndWrite, TypeOK, settingVars, history
<1>4. CASE StopWithoutWriting \/ Crash
  <2>1. Exit /\ UNCHANGED <<file, history>>
    BY <1>4 DEF StopWithoutWriting, Crash
  <2> QED
    BY <2>1, ExitType DEF TypeOK, history
<1>5. ASSUME NEW t \in Token, NEW p \in PersistenceType, GenerateUserSession(t, p)
      PROVE  TypeOK'
  <2>1. authTokens' \in [DOMAIN authTokens' -> UserSession]
    BY <1>5, Numbers DEF GenerateUserSession, TypeOK, PersistenceType
  <2>2. DOMAIN authTokens' = DOMAIN authTokens \union {t}
    BY <1>5 DEF GenerateUserSession
  <2> QED
    BY <1>5, <2>1, <2>2 DEF GenerateUserSession, TypeOK, settingVars
<1>6. ASSUME NEW t \in Token, LoginSessionByToken(t)
      PROVE  TypeOK'
  <2>1. Unexpired \subseteq DOMAIN authTokens /\ SweepMarks
    BY <1>6, SweepType DEF LoginSessionByToken
  <2>2. \A u \in Unexpired : [authTokens[u] EXCEPT !.idle = 0] \in UserSession
    BY <2>1, Numbers DEF TypeOK, UserSession
  <2>3. authTokens' \in [DOMAIN authTokens' -> UserSession]
    BY <1>6, <2>1, <2>2 DEF LoginSessionByToken, TypeOK
  <2>4. DOMAIN authTokens' = Unexpired
    BY <1>6 DEF LoginSessionByToken
  <2> QED
    BY <1>6, <2>1, <2>3, <2>4, SweepType
    DEF LoginSessionByToken, TypeOK, settingVars, history
<1>7. CASE GetSessions
  <2>1. authTokens' = Keep(Unexpired) /\ SweepMarks /\ held' = held
    BY <1>7 DEF GetSessions
  <2>2. Unexpired \in SUBSET DOMAIN authTokens
    BY <2>1, SweepType
  <2> QED
    BY <1>7, <2>1, <2>2, SweepType, KeepType
    DEF GetSessions, TypeOK, settingVars, history
<1>8. ASSUME NEW t \in Token, RemoveSession(t)
      PROVE  TypeOK'
  <2>1. DOMAIN authTokens \ {t} \in SUBSET DOMAIN authTokens
    OBVIOUS
  <2> QED
    BY <1>8, <2>1, KeepType DEF RemoveSession, TypeOK, settingVars, history
<1>9. ASSUME NEW t \in Token, RemoveSessionsByUsername(Owner[t])
      PROVE  TypeOK'
  <2> DEFINE Others == {s \in DOMAIN authTokens : Owner[s] # Owner[t]}
  <2>1. Others \in SUBSET DOMAIN authTokens
    OBVIOUS
  <2>2. authTokens' = Keep(Others)
    BY <1>9 DEF RemoveSessionsByUsername
  <2> HIDE DEF Others
  <2> QED
    BY <1>9, <2>1, <2>2, KeepType
    DEF RemoveSessionsByUsername, TypeOK, settingVars, history
<1>10. ASSUME NEW c \in AuthMethods, UpdateAuthMethodsConfig(c)
       PROVE  TypeOK'
  BY <1>10 DEF UpdateAuthMethodsConfig, TypeOK, history
<1>11. ASSUME NEW n \in Timeouts, UpdateSessionTimeout(n)
       PROVE  TypeOK'
  BY <1>11 DEF UpdateSessionTimeout, TypeOK, history
<1>12. CASE Tick
  <2>1. \A t \in DOMAIN authTokens : authTokens[t].idle \in 0..IdleCap
    BY DEF TypeOK, UserSession
  <2>2. \A t \in DOMAIN authTokens : Older(authTokens[t].idle, IdleCap) \in 0..IdleCap
    BY <2>1, Numbers, OlderAge
  <2>3. authTokens' \in [DOMAIN authTokens' -> UserSession]
    BY <1>12, <2>2 DEF Tick, TypeOK, UserSession
  <2>4. DOMAIN authTokens' = DOMAIN authTokens
    BY <1>12 DEF Tick
  <2>5. sinceUpdate' \in 0..NeverSwept
    BY <1>12, Numbers, OlderAge DEF Tick, TypeOK
  <2> QED
    BY <1>12, <2>3, <2>4, <2>5 DEF Tick, TypeOK, settingVars, history
<1>13. CASE UNCHANGED vars
  BY <1>13 DEF TypeOK, vars
<1> QED
  BY <1>1, <1>2, <1>3, <1>4, <1>5, <1>6, <1>7, <1>8, <1>9, <1>10, <1>11, <1>12,
     <1>13 DEF Next

LEMMA InitTyped == Init => TypeOK
<1> SUFFICES ASSUME Init PROVE TypeOK
  OBVIOUS
<1>1. authTokens \in [DOMAIN authTokens -> UserSession] /\ DOMAIN authTokens = {}
  BY DEF Init
<1>2. file \in File
  BY Numbers DEF Init
<1>3. file.sessions \subseteq Token
  BY <1>2 DEF File
<1>4. NeverSwept \in 0..NeverSwept
  BY Numbers
<1> QED
  BY <1>1, <1>2, <1>3, <1>4, StoreAssumption DEF Init, TypeOK

\* The values of the store's variables (sessions.hpp, persistent_data.hpp).
THEOREM TypeCorrect == Spec => []TypeOK
BY InitTyped, Typing, PTL DEF Spec

-----------------------------------------------------------------------------
(* Sessions and the file *)

\* What a restriction of the session map keeps.
LEMMA KeepLives ==
    ASSUME NEW S \in SUBSET DOMAIN authTokens, authTokens' = Keep(S)
    PROVE  /\ DOMAIN authTokens' = S
           /\ \A t \in S : authTokens'[t] = authTokens[t]
           /\ LongLived' = LongLived \intersect S
BY DEF Keep, LongLived

\* Sessions come only from Start and generateUserSession, and none changes
\* its persistence.
SessionsKept ==
    \A t \in DOMAIN authTokens' :
        /\ t \in DOMAIN authTokens
        /\ authTokens'[t].persistence = authTokens[t].persistence

LEMMA NoNewSessions ==
    ASSUME TypeOK, [Next]_vars, ~Start,
           \A t \in Token, p \in PersistenceType : ~GenerateUserSession(t, p)
    PROVE  SessionsKept /\ UNCHANGED history
<1>1. ASSUME NEW S \in SUBSET DOMAIN authTokens, authTokens' = Keep(S)
      PROVE  SessionsKept
  BY <1>1, KeepLives DEF SessionsKept
<1>2. ASSUME Exit PROVE SessionsKept
  BY <1>2, ExitType DEF SessionsKept
<1>3. UNCHANGED authTokens => SessionsKept
  BY DEF SessionsKept
<1>4. SweepMarks => Unexpired \in SUBSET DOMAIN authTokens
  BY SweepType
<1>5. CASE Written \/ StopWithoutWriting \/ Crash
  BY <1>2, <1>3, <1>5 DEF Written, StopWithoutWriting, Crash
<1>6. CASE StopAndWrite \/ GetSessions
  <2>1. authTokens' = Keep(Unexpired) /\ SweepMarks /\ UNCHANGED history
    BY <1>6 DEF StopAndWrite, GetSessions
  <2> QED
    BY <1>1, <1>4, <2>1
<1>7. ASSUME NEW t \in Token, LoginSessionByToken(t)
      PROVE  SessionsKept /\ UNCHANGED history
  <2>1. Unexpired \subseteq DOMAIN authTokens
    BY DEF Unexpired
  <2>2. \A u \in Unexpired :
           [authTokens[u] EXCEPT !.idle = 0].persistence = authTokens[u].persistence
    BY <2>1 DEF TypeOK, UserSession
  <2> QED
    BY <1>7, <2>1, <2>2 DEF LoginSessionByToken, SessionsKept
<1>8. ASSUME NEW t \in Token, RemoveSession(t)
      PROVE  SessionsKept /\ UNCHANGED history
  BY <1>1, <1>8 DEF RemoveSession
<1>9. ASSUME NEW t \in Token, RemoveSessionsByUsername(Owner[t])
      PROVE  SessionsKept /\ UNCHANGED history
  BY <1>1, <1>9 DEF RemoveSessionsByUsername
<1>10. ASSUME NEW c \in AuthMethods, UpdateAuthMethodsConfig(c)
       PROVE  SessionsKept /\ UNCHANGED history
  BY <1>3, <1>10 DEF UpdateAuthMethodsConfig
<1>11. ASSUME NEW n \in Timeouts, UpdateSessionTimeout(n)
       PROVE  SessionsKept /\ UNCHANGED history
  BY <1>3, <1>11 DEF UpdateSessionTimeout
<1>12. CASE Tick
  <2>1. \A u \in DOMAIN authTokens :
           /\ u \in DOMAIN authTokens'
           /\ authTokens'[u].persistence = authTokens[u].persistence
    BY <1>12 DEF Tick, TypeOK, UserSession
  <2> QED
    BY <1>12, <2>1 DEF Tick, SessionsKept
<1>13. CASE UNCHANGED vars
  BY <1>3, <1>13 DEF vars, history
<1>14. Written \/ StopWithoutWriting \/ Crash => UNCHANGED history
  BY DEF Written, StopWithoutWriting, Crash
<1>15. StopAndWrite \/ GetSessions => UNCHANGED history
  BY DEF StopAndWrite, GetSessions
<1> QED
  BY <1>5, <1>6, <1>7, <1>8, <1>9, <1>10, <1>11, <1>12, <1>13, <1>14, <1>15
  DEF Next

\* Long-lived sessions are not one-shot ones.
LEMMA LiveNotOneShot ==
    ASSUME TypeOK, FileInv
    PROVE  LongLived \subseteq EverLive
BY DEF TypeOK, FileInv, LongLived, EverLive

LEMMA FileStep == TypeOK /\ FileInv /\ [Next]_vars => FileInv'
<1> SUFFICES ASSUME TypeOK, FileInv, [Next]_vars PROVE FileInv'
  OBVIOUS
<1>1. CASE Start
  <2>1. \A t \in DOMAIN authTokens' :
            /\ authTokens'[t].persistence = "TIMEOUT"
            /\ t \notin oneShot
    BY <1>1 DEF Start, Fresh, FileInv, EverLive
  <2>2. UNCHANGED history /\ (file' = file \/ file' = NoFile)
    BY <1>1 DEF Start
  <2>3. (phase' = "starting" /\ file' = NoFile) \/ phase' = "up"
    BY <1>1 DEF Start
  <2> QED
    BY <2>1, <2>2, <2>3, Numbers DEF FileInv, EverLive, history
<1>2. ASSUME NEW t \in Token, NEW p \in PersistenceType, GenerateUserSession(t, p)
      PROVE  FileInv'
  <2>1. \A u \in DOMAIN authTokens : u # t
    BY <1>2 DEF GenerateUserSession, TypeOK
  <2>2. \A u \in DOMAIN authTokens' :
            authTokens'[u].persistence = "SINGLE_REQUEST" <=> u \in oneShot'
    BY <1>2, <2>1
    DEF GenerateUserSession, Fresh, FileInv, TypeOK, PersistenceType
  <2>3. EverLive \subseteq EverLive'
    BY <1>2 DEF GenerateUserSession, EverLive, TypeOK
  <2> QED
    BY <1>2, <2>2, <2>3 DEF GenerateUserSession, FileInv
<1>3. ASSUME ~Start, \A t \in Token, p \in PersistenceType : ~GenerateUserSession(t, p)
      PROVE  FileInv'
  <2>1. SessionsKept /\ UNCHANGED history
    BY <1>3, NoNewSessions
  <2>2. /\ EverLive' = EverLive
        /\ \A t \in DOMAIN authTokens' :
              authTokens'[t].persistence = "SINGLE_REQUEST" <=> t \in oneShot'
    BY <2>1 DEF SessionsKept, FileInv, EverLive, history
  <2>3. CASE Written
    BY <2>2, <2>3, ContentsType, LiveNotOneShot, ExitType
    DEF Written, FileInv, Contents
  <2>4. CASE StopAndWrite
    BY <2>2, <2>4, Numbers DEF StopAndWrite, FileInv
  <2>5. CASE ~Written /\ ~StopAndWrite
    <3>1. /\ file' = file
          /\ \/ phase' = phase /\ phase # "down"
             \/ phase' = phase /\ authTokens' = authTokens
             \/ phase' = "down" /\ DOMAIN authTokens' = {}
      BY <1>3, <2>5, ExitType
      DEF Next, StopWithoutWriting, Crash, LoginSessionByToken,
          RemoveSession, RemoveSessionsByUsername, UpdateAuthMethodsConfig,
          UpdateSessionTimeout, GetSessions, Tick, vars
    <3> QED
      BY <2>2, <3>1 DEF FileInv
  <2> QED
    BY <2>3, <2>4, <2>5
<1> QED
  BY <1>1, <1>2, <1>3

-----------------------------------------------------------------------------
(* Idle sessions *)

\* After applySessionTimeouts the throttling interval has not ended, and no
\* session was due at its beginning.
LEMMA SweptIdle ==
    ASSUME TypeOK, IdleInv, SweepMarks
    PROVE  /\ sinceUpdate' <= Throttle
           /\ \A t \in Unexpired :
                 authTokens[t].idle < LongestTimeout + sinceUpdate'
<1>1. sinceUpdate \in Nat /\ timeoutInSeconds \in Nat
      /\ timeoutInSeconds <= LongestTimeout
  BY Numbers, StoreAssumption DEF TypeOK
<1>2. \A t \in DOMAIN authTokens : authTokens[t].idle \in Nat
  BY Numbers DEF TypeOK, UserSession
<1>3. CASE SweepDue
  <2>1. sinceUpdate' = 0
    BY <1>3 DEF SweepMarks
  <2>2. \A t \in Unexpired : authTokens[t].idle < timeoutInSeconds
    BY <1>1, <1>2, <1>3 DEF Unexpired, Expired, TimedOut
  <2>3. Unexpired \subseteq DOMAIN authTokens
    BY DEF Unexpired
  <2> QED
    BY <1>1, <1>2, <2>1, <2>2, <2>3, Numbers
<1>4. CASE ~SweepDue
  <2>1. sinceUpdate' = sinceUpdate /\ sinceUpdate <= Throttle
    BY <1>1, <1>4, Numbers DEF SweepMarks, SweepDue
  <2> QED
    BY <2>1 DEF IdleInv, Unexpired
<1> QED
  BY <1>3, <1>4

LEMMA IdleStep == TypeOK /\ FileInv /\ IdleInv /\ [Next]_vars => IdleInv'
<1> SUFFICES ASSUME TypeOK, FileInv, IdleInv, [Next]_vars PROVE IdleInv'
  OBVIOUS
<1>1. sinceUpdate \in 0..NeverSwept
      /\ \A t \in DOMAIN authTokens : authTokens[t].idle \in 0..IdleCap
  BY DEF TypeOK, UserSession
<1>2. ASSUME NEW S \in SUBSET DOMAIN authTokens, authTokens' = Keep(S),
             sinceUpdate' = sinceUpdate
      PROVE  IdleInv'
  BY <1>2, KeepLives DEF IdleInv
<1>3. ASSUME Exit PROVE IdleInv'
  BY <1>3, ExitType DEF IdleInv
<1>4. CASE Start
  BY <1>1, <1>4, Numbers DEF Start, IdleInv, Fresh, NeverSwept
<1>5. CASE Written
  BY <1>3, <1>5 DEF Written, IdleInv
<1>6. CASE StopAndWrite \/ GetSessions
  <2>1. authTokens' = Keep(Unexpired) /\ SweepMarks
    BY <1>6 DEF StopAndWrite, GetSessions
  <2>2. Unexpired \in SUBSET DOMAIN authTokens
    BY <2>1, SweepType
  <2> HIDE DEF Unexpired
  <2> QED
    BY <2>1, <2>2, KeepLives, SweptIdle DEF IdleInv
<1>7. CASE StopWithoutWriting \/ Crash
  BY <1>3, <1>7 DEF StopWithoutWriting, Crash
<1>8. ASSUME NEW t \in Token, NEW p \in PersistenceType, GenerateUserSession(t, p)
      PROVE  IdleInv'
  BY <1>1, <1>8, Numbers DEF GenerateUserSession, IdleInv, Fresh, NeverSwept
<1>9. ASSUME NEW t \in Token, LoginSessionByToken(t)
      PROVE  IdleInv'
  <2>1. SweepMarks /\ sinceUpdate' \in 0..NeverSwept
        /\ Unexpired \subseteq DOMAIN authTokens
    BY <1>9, SweepType DEF LoginSessionByToken
  <2>2. \A u \in Unexpired : authTokens[u].idle < LongestTimeout + sinceUpdate'
    BY <2>1, SweptIdle
  <2>3. \A u \in DOMAIN authTokens' :
            u \in Unexpired /\ authTokens'[u].idle \in {0, authTokens[u].idle}
    BY <1>9, <2>1 DEF LoginSessionByToken, TypeOK, UserSession
  <2> QED
    BY <2>1, <2>2, <2>3, Numbers DEF IdleInv
<1>10. ASSUME NEW t \in Token, RemoveSession(t)
       PROVE  IdleInv'
  BY <1>2, <1>10 DEF RemoveSession
<1>11. ASSUME NEW t \in Token, RemoveSessionsByUsername(Owner[t])
       PROVE  IdleInv'
  BY <1>2, <1>11 DEF RemoveSessionsByUsername
<1>12. ASSUME NEW c \in AuthMethods, UpdateAuthMethodsConfig(c)
       PROVE  IdleInv'
  BY <1>12 DEF UpdateAuthMethodsConfig, IdleInv
<1>13. ASSUME NEW n \in Timeouts, UpdateSessionTimeout(n)
       PROVE  IdleInv'
  BY <1>13 DEF UpdateSessionTimeout, IdleInv
<1>14. CASE Tick
  <2>1. \A u \in DOMAIN authTokens :
           authTokens'[u].idle = Older(authTokens[u].idle, IdleCap)
    BY <1>14 DEF Tick, TypeOK, UserSession
  <2>2. DOMAIN authTokens' = DOMAIN authTokens
    BY <1>14 DEF Tick
  <2>3. \A u \in DOMAIN authTokens :
           /\ authTokens'[u].idle \in Nat
           /\ authTokens'[u].idle <= authTokens[u].idle + 1
    BY <1>1, <2>1, Numbers, OlderAge
  <2>4. sinceUpdate' = Older(sinceUpdate, NeverSwept)
    BY <1>14 DEF Tick
  <2>5. sinceUpdate' <= Throttle =>
            sinceUpdate' = sinceUpdate + 1 /\ sinceUpdate <= Throttle
    BY <1>1, <2>4, Numbers DEF Older, NeverSwept
  <2> QED
    BY <1>1, <2>2, <2>3, <2>5, Numbers DEF IdleInv
<1>15. CASE UNCHANGED vars
  BY <1>15 DEF vars, IdleInv
<1> QED
  BY <1>4, <1>5, <1>6, <1>7, <1>8, <1>9, <1>10, <1>11, <1>12, <1>13, <1>14,
     <1>15 DEF Next

-----------------------------------------------------------------------------
LEMMA Invariance == Spec => []Inv
<1>1. Init => Inv
  <2> SUFFICES ASSUME Init PROVE Inv
    OBVIOUS
  <2>1. DOMAIN authTokens = {} /\ oneShot = {} /\ issued = file.sessions
    BY DEF Init
  <2>2. phase = "down"
    BY DEF Init
  <2> QED
    BY <2>1, <2>2, InitTyped DEF Inv, FileInv, IdleInv, EverLive
<1>2. Inv /\ [Next]_vars => Inv'
  BY Typing, FileStep, IdleStep DEF Inv
<1> QED
  BY <1>1, <1>2, PTL DEF Spec

\* A session that was idle for the longest timeout and one throttling interval
\* is not revived by a login (sessions.hpp:229-241, 312-335).
THEOREM NotRevivedLate == Spec => RenewedInTime
<1> DEFINE InTime ==
        \A t \in DOMAIN authTokens \intersect DOMAIN authTokens' :
            Revived(t) => authTokens[t].idle < LongestTimeout + Throttle
<1>1. Inv /\ [Next]_vars => [InTime]_vars
  <2> SUFFICES ASSUME Inv, [Next]_vars,
                      NEW u \in DOMAIN authTokens, u \in DOMAIN authTokens',
                      Revived(u)
               PROVE  authTokens[u].idle < LongestTimeout + Throttle
    OBVIOUS
  <2>1. authTokens[u].idle \in 0..IdleCap
    BY DEF Inv, TypeOK, UserSession
  <2>2. ASSUME NEW S \in SUBSET DOMAIN authTokens, authTokens' = Keep(S)
        PROVE  FALSE
    BY <2>1, <2>2, KeepLives DEF Revived
  <2>3. authTokens' # authTokens
    BY <2>1 DEF Revived
  <2>4. ASSUME NEW t \in Token, LoginSessionByToken(t)
        PROVE  authTokens[u].idle < LongestTimeout + Throttle
    <3>1. u \in Unexpired /\ SweepMarks
      BY <2>4 DEF LoginSessionByToken
    <3>2. sinceUpdate' \in 0..NeverSwept /\ sinceUpdate' <= Throttle
          /\ authTokens[u].idle < LongestTimeout + sinceUpdate'
      BY <3>1, SweptIdle, SweepType DEF Inv
    <3> QED
      BY <2>1, <3>2, Numbers
  <2>5. ~Start
    BY DEF Start, Inv, FileInv
  <2>6. ~Exit
    BY ExitType DEF Inv
  <2>7. \A t \in Token, p \in PersistenceType : ~GenerateUserSession(t, p)
    BY <2>1 DEF GenerateUserSession, Revived, Inv, TypeOK
  <2>8. ~Tick
    <3>1. Older(authTokens[u].idle, IdleCap) >= authTokens[u].idle
      BY <2>1, Numbers, OlderAge
    <3>2. Tick => authTokens'[u].idle = Older(authTokens[u].idle, IdleCap)
      BY DEF Tick, Inv, TypeOK, UserSession
    <3> QED
      BY <2>1, <3>1, <3>2, Numbers, OlderAge DEF Revived
  <2>9. ~StopAndWrite /\ ~GetSessions
    BY <2>2, SweepType DEF StopAndWrite, GetSessions, Inv
  <2>10. \A t \in Token : ~RemoveSession(t)
    BY <2>2 DEF RemoveSession
  <2>11. \A t \in Token : ~RemoveSessionsByUsername(Owner[t])
    BY <2>2 DEF RemoveSessionsByUsername
  <2>12. ~Written /\ ~StopWithoutWriting /\ ~Crash
    BY <2>3, <2>6 DEF Written, StopWithoutWriting, Crash
  <2>13. /\ \A c \in AuthMethods : ~UpdateAuthMethodsConfig(c)
         /\ \A n \in Timeouts : ~UpdateSessionTimeout(n)
         /\ ~UNCHANGED vars
    BY <2>3 DEF UpdateAuthMethodsConfig, UpdateSessionTimeout, vars
  <2> QED
    BY <2>4, <2>5, <2>7, <2>8, <2>9, <2>10, <2>11, <2>12, <2>13 DEF Next
<1> QED
  BY <1>1, Invariance, PTL DEF Spec, RenewedInTime

-----------------------------------------------------------------------------
(* The refinement *)

\* The settings in force, in memory and in the file, are settings.
LEMMA InForceType ==
    ASSUME TypeOK
    PROVE  InForce \in [timeout : Timeouts, auth : AuthMethods]
BY DEF TypeOK, InForce, File

LEMMA SafeType ==
    ASSUME TypeOK
    PROVE  Safe \in BOOLEAN /\ Safe' \in BOOLEAN
BY DEF Safe

\* A step that ends sessions in memory and marks the change, if there is one.
LEMMA EndStep ==
    ASSUME Inv, Inv', Running, Running', LongLived' \subseteq LongLived,
           UNCHANGED <<settingVars, history, file>>, phase' = phase,
           (needWrite' = needWrite /\ LongLived' = LongLived) \/ needWrite'
    PROVE  \E S \in SUBSET Live : P!End(S)
<1> DEFINE S == Live \ Live'
<1>1. Live = LongLived /\ Live' = LongLived'
  BY DEF Live
<1>2. S \in SUBSET Live /\ Live' = Live \ S
  BY <1>1
<1>3. InForce' = InForce /\ EverLive' = EverLive
  BY DEF InForce, Running, EverLive, settingVars, history
<1>4. Safe' \in {Safe, TRUE}
  <2>1. CASE needWrite'
    BY <2>1 DEF Safe
  <2>2. CASE needWrite' = needWrite /\ LongLived' = LongLived
    BY <2>2 DEF Safe, Saved, Contents, settingVars
  <2> QED
    BY <2>1, <2>2
<1> HIDE DEF S
<1> QED
  BY <1>2, <1>3, <1>4 DEF P!End

LEMMA Refines == Inv /\ Inv' /\ [Next]_vars => [P!Next]_(P!vars)
<1> SUFFICES ASSUME Inv, Inv', [Next]_vars PROVE [P!Next]_(P!vars)
  OBVIOUS
<1> USE DEF Inv
<1>1. LongLived \subseteq EverLive /\ file.sessions \subseteq EverLive
  BY LiveNotOneShot DEF FileInv
<1>2. CASE Start
  <2>1. Live' = Live
    BY <1>2 DEF Start, Live, Running, LongLived, Fresh
  <2>2. InForce' = InForce
    BY <1>2 DEF Start, InForce, Running
  <2>3. Safe /\ Safe'
    <3>1. phase' = "up" => /\ UNCHANGED file
                           /\ timeoutInSeconds' = file.timeout
                           /\ authMethodsConfig' = file.auth
      BY <1>2 DEF Start
    <3>2. LongLived' = file.sessions
      BY <1>2 DEF Start, LongLived, Fresh
    <3>3. Safe
      BY <1>2 DEF Start, Safe
    <3>4. Safe'
      BY <3>1, <3>2 DEF Safe, Saved
    <3> QED
      BY <3>3, <3>4
  <2>4. ~Running /\ Running' /\ EverLive' = EverLive
    BY <1>2 DEF Start, Running, EverLive, history
  <2> QED
    BY <2>1, <2>2, <2>3, <2>4 DEF P!Start, P!Next
<1>3. CASE Written
  <2>1. Running /\ Safe /\ UNCHANGED EverLive
    BY <1>3 DEF Written, Running, Safe, EverLive, history
  <2>2. CASE phase = "starting"
    <3>1. Running' /\ Live' = Live /\ InForce' = InForce
      BY <1>3, <2>2
      DEF Written, Running, Live, LongLived, InForce, settingVars
    <3>2. Safe'
      BY <1>3, <2>2 DEF Written, Safe, Saved, Contents, LongLived, settingVars
    <3> QED
      BY <2>1, <3>1, <3>2 DEF P!vars
  <2>3. CASE phase = "stopping"
    <3>1. ~Running' /\ Safe' /\ file' = Contents
      BY <1>3, <2>3 DEF Written, Exit, Running, Safe
    <3>2. Live' = Live /\ InForce' = InForce
      BY <2>1, <3>1 DEF Live, InForce, Contents
    <3>3. Live' \in SUBSET EverLive /\ InForce' \in [timeout : Timeouts, auth : AuthMethods]
      BY <1>1, <2>1, <3>2, InForceType DEF Live
    <3> QED
      BY <2>1, <3>1, <3>2, <3>3 DEF P!Stop, P!Next
  <2> QED
    BY <1>3, <2>2, <2>3 DEF Written
<1>4. CASE StopAndWrite
  <2>1. authTokens' = Keep(Unexpired) /\ UNCHANGED <<settingVars, history>>
    BY <1>4 DEF StopAndWrite
  <2>2. Unexpired \in SUBSET DOMAIN authTokens
    BY DEF Unexpired
  <2>3. LongLived' \subseteq LongLived
    <3> HIDE DEF Unexpired
    <3> QED
      BY <2>1, <2>2, KeepLives
  <2>4. Running /\ Running' /\ Safe'
    BY <1>4 DEF StopAndWrite, Running, Safe
  <2>5. InForce' = InForce /\ EverLive' = EverLive
    BY <2>1, <2>4 DEF InForce, EverLive, settingVars, history
  <2>6. Live \ Live' \in SUBSET Live /\ Live' = Live \ (Live \ Live')
    BY <2>3, <2>4 DEF Live
  <2> QED
    BY <2>4, <2>5, <2>6 DEF P!End, P!Next
<1>5. ASSUME Exit, UNCHANGED <<file, history>>, Running
      PROVE  /\ ~Running' /\ Safe' /\ EverLive' = EverLive
             /\ Live' = file.sessions /\ Live' \in SUBSET EverLive
             /\ InForce' = [timeout |-> file.timeout, auth |-> file.auth]
             /\ InForce' \in [timeout : Timeouts, auth : AuthMethods]
  <2>1. ~Running' /\ Safe' /\ EverLive' = EverLive
    BY <1>5 DEF Exit, Running, Safe, EverLive, history
  <2> QED
    BY <1>1, <1>5, <2>1 DEF Live, InForce, TypeOK, File
<1>6. CASE StopWithoutWriting
  <2>1. Exit /\ UNCHANGED <<file, history>> /\ Running /\ ~needWrite /\ phase = "up"
    BY <1>6 DEF StopWithoutWriting, Running
  <2>2. Safe => Live' = Live /\ InForce' = InForce
    BY <1>5, <2>1 DEF Safe, Saved, Contents, Live, InForce
  <2> QED
    BY <1>5, <2>1, <2>2 DEF P!Stop, P!Next
<1>7. CASE Crash
  <2>1. Exit /\ UNCHANGED <<file, history>> /\ Running
    BY <1>7 DEF Crash, Running
  <2> QED
    BY <1>5, <2>1 DEF P!Crash, P!Next
<1>8. ASSUME NEW t \in Token, GenerateUserSession(t, "TIMEOUT")
      PROVE  P!Issue(t)
  <2>1. Running /\ Running' /\ Safe' /\ t \notin EverLive
    BY <1>8 DEF GenerateUserSession, Running, Safe, EverLive
  <2>2. LongLived' = LongLived \union {t}
    BY <1>8 DEF GenerateUserSession, LongLived, Fresh, TypeOK
  <2>3. EverLive' = EverLive \union {t} /\ InForce' = InForce
    BY <1>8, <2>1
    DEF GenerateUserSession, EverLive, InForce, settingVars, TypeOK
  <2> QED
    BY <2>1, <2>2, <2>3 DEF P!Issue, Live
<1>9. ASSUME NEW t \in Token, GenerateUserSession(t, "SINGLE_REQUEST")
      PROVE  P!IssueOneShot
  <2>1. Running /\ Running'
    BY <1>9 DEF GenerateUserSession, Running
  <2>2. LongLived' = LongLived
    BY <1>9 DEF GenerateUserSession, LongLived, Fresh, TypeOK
  <2>3. EverLive' = EverLive /\ InForce' = InForce
    BY <1>9, <2>1
    DEF GenerateUserSession, EverLive, InForce, settingVars, TypeOK
  <2> QED
    BY <2>1, <2>2, <2>3, SafeType DEF P!IssueOneShot, Live
<1>10. ASSUME SweepMarks, phase = "up", UNCHANGED <<phase, settingVars, file, history>>,
              LongLived' = LongLived \intersect Unexpired
       PROVE  \E S \in SUBSET Live : P!End(S)
  <2>1. (needWrite' = needWrite /\ LongLived' = LongLived) \/ needWrite'
    <3>1. CASE Expired = {}
      <4>1. Unexpired = DOMAIN authTokens
        BY <3>1 DEF Unexpired
      <4> QED
        BY <1>10, <3>1, <4>1 DEF SweepMarks, TypeOK, LongLived
    <3>2. CASE Expired # {}
      BY <1>10, <3>2 DEF SweepMarks
    <3> QED
      BY <3>1, <3>2
  <2> QED
    BY <1>10, <2>1, EndStep DEF Running
<1>11. ASSUME NEW t \in Token, LoginSessionByToken(t)
       PROVE  \E S \in SUBSET Live : P!End(S)
  <2>1. Unexpired \subseteq DOMAIN authTokens
    BY DEF Unexpired
  <2>2. \A u \in Unexpired : u \in DOMAIN authTokens'
            /\ authTokens'[u].persistence = authTokens[u].persistence
    BY <1>11, <2>1 DEF LoginSessionByToken, TypeOK, UserSession
  <2>3. DOMAIN authTokens' = Unexpired
    BY <1>11 DEF LoginSessionByToken
  <2>4. LongLived' = LongLived \intersect Unexpired
    <3> HIDE DEF Unexpired
    <3> QED
      BY <2>1, <2>2, <2>3 DEF LongLived
  <2> QED
    BY <1>10, <1>11, <2>4 DEF LoginSessionByToken
<1>12. CASE GetSessions
  <2>1. Unexpired \in SUBSET DOMAIN authTokens
    BY DEF Unexpired
  <2>2. LongLived' = LongLived \intersect Unexpired
    BY <1>12, <2>1, KeepLives DEF GetSessions
  <2> QED
    BY <1>10, <1>12, <2>2 DEF GetSessions, P!Next
<1>13. ASSUME NEW t \in Token, RemoveSession(t)
       PROVE  \E S \in SUBSET Live : P!End(S)
  <2>1. DOMAIN authTokens \ {t} \in SUBSET DOMAIN authTokens
    OBVIOUS
  <2>2. LongLived' \subseteq LongLived
    BY <1>13, <2>1, KeepLives DEF RemoveSession
  <2> QED
    BY <1>13, <2>2, EndStep DEF RemoveSession, Running
<1>14. ASSUME NEW t \in Token, RemoveSessionsByUsername(Owner[t])
       PROVE  P!EndUser(Owner[t])
  <2> DEFINE Others == {s \in DOMAIN authTokens : Owner[s] # Owner[t]}
  <2>1. Others \in SUBSET DOMAIN authTokens /\ authTokens' = Keep(Others)
    BY <1>14 DEF RemoveSessionsByUsername
  <2>2. LongLived' = LongLived \intersect Others
    <3> HIDE DEF Others
    <3> QED
      BY <2>1, KeepLives
  <2>3. LongLived' = {s \in LongLived : Owner[s] # Owner[t]}
    BY <2>2 DEF LongLived
  <2>4. Running /\ Running' /\ InForce' = InForce /\ EverLive' = EverLive
    BY <1>14
    DEF RemoveSessionsByUsername, Running, InForce, EverLive, settingVars, history
  <2> QED
    BY <2>3, <2>4, SafeType DEF P!EndUser, Live
<1>15. ASSUME UNCHANGED <<phase, authTokens, history>>, phase = "up", needWrite'
       PROVE  P!Configure
  <2>1. Running /\ Running' /\ Safe' /\ Live' = Live /\ EverLive' = EverLive
    BY <1>15 DEF Running, Safe, Live, LongLived, EverLive, history
  <2>2. InForce' \in [timeout : Timeouts, auth : AuthMethods]
    BY <2>1 DEF TypeOK, InForce
  <2> QED
    BY <2>1, <2>2 DEF P!Configure
<1>16. CASE Tick
  <2>1. LongLived' = LongLived
    BY <1>16 DEF Tick, LongLived, TypeOK, UserSession
  <2> QED
    BY <1>16, <2>1
    DEF Tick, P!vars, Running, Live, InForce, EverLive, Safe, Saved, Contents,
        settingVars, history
<1>17. CASE UNCHANGED vars
  BY <1>17
  DEF vars, P!vars, Running, Live, LongLived, InForce, EverLive, Safe, Saved,
      Contents
<1>18. ASSUME NEW c \in AuthMethods, UpdateAuthMethodsConfig(c) PROVE P!Configure
  BY <1>15, <1>18 DEF UpdateAuthMethodsConfig
<1>19. ASSUME NEW n \in Timeouts, UpdateSessionTimeout(n) PROVE P!Configure
  BY <1>15, <1>19 DEF UpdateSessionTimeout
<1>20. ASSUME NEW t \in Token, NEW p \in PersistenceType, GenerateUserSession(t, p)
       PROVE  P!Issue(t) \/ P!IssueOneShot
  BY <1>8, <1>9, <1>20 DEF PersistenceType
<1> QED
  BY <1>2, <1>3, <1>4, <1>6, <1>7, <1>11, <1>12, <1>13, <1>14, <1>16, <1>17,
     <1>18, <1>19, <1>20 DEF Next, P!Next

\* The store with its file implements SessionPromise: a clean restart restores
\* what was there, except after the two calls the promise names
\* (sessions.hpp, persistent_data.hpp).
THEOREM ImplementsPromise == Spec => Promise
<1>1. Init => P!Init
  <2> SUFFICES ASSUME Init PROVE P!Init
    OBVIOUS
  <2>1. ~Running /\ Safe /\ Live = file.sessions /\ EverLive = Live
    BY DEF Init, Running, Safe, Live, EverLive
  <2>2. TypeOK
    BY InitTyped
  <2>3. Live \in SUBSET Token /\ InForce \in [timeout : Timeouts, auth : AuthMethods]
    BY <2>1, <2>2, InForceType DEF TypeOK
  <2> QED
    BY <2>1, <2>3 DEF P!Init
<1> QED
  BY <1>1, Refines, Invariance, PTL DEF Spec, Promise, P!Spec
=============================================================================
