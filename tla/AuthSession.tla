---------------------------- MODULE AuthSession ----------------------------
(***************************************************************************)
(* The account of the desktop app: AuthService.ts, EduServerClient.ts and  *)
(* TokenStore.ts of apps/desktop/src/main/services/Auth.  Requests that    *)
(* get a 401 share one refresh; a refused refresh starts the clean-up of   *)
(* the session; the user logs in and out meanwhile; the app restarts.      *)
(*                                                                         *)
(* A session is a user and the serial number of the pair of tokens the     *)
(* server issued.  The server is external: it may answer anything.  Each   *)
(* await on the network, the token store or a hook is a point where the    *)
(* others can move.  The two stores behind TokenStore are one here.        *)
(***************************************************************************)
EXTENDS Naturals, FiniteSets

CONSTANTS
  Users,      \* accounts
  Requests,   \* requests that carry the access token
  LogoutCall, \* the request of logout() itself, one of Requests
  NoSession,  \* signed out
  MaxIssued   \* bound: sessions the server issues

Session  == [user : Users, serial : 1..MaxIssued]
Sessions == Session \cup {NoSession}

ASSUME AuthAssumption ==
  /\ LogoutCall \in Requests /\ MaxIssued \in Nat
  /\ NoSession \notin Session

VARIABLES
  issued,    \* sessions issued by the server
  cache,     \* TokenStore.cache
  disk,      \* what TokenStore.load() would find
  writes,    \* what each activity is writing to the disk, one record or none
  refresh,   \* the refresh in flight: where it stands and its session
  lock,      \* refreshInflight: free, held by the refresh, or settled for ever
  phase,     \* where each request stands
  fetches,   \* fetches each request has made
  login,     \* the login in progress: where it stands and its session
  logout,    \* where the logout in progress stands
  cleanup,   \* where sessionExpiryCleanup stands
  exchanged  \* history: sessions exchanged for a new one since the start

client  == <<refresh, lock>>
request == <<phase, fetches>>
account == <<login, logout, cleanup>>
vars == <<issued, cache, disk, writes, client, request, account, exchanged>>

Owners == {"refresh", "login", "logout", "expiry"}
Over   == {"none", "answered", "expired"}
Absent == [at |-> "none", session |-> NoSession]

NoWrites  == [o \in Owners |-> Absent]
NoPhase   == [r \in Requests |-> "none"]
NoFetches == [r \in Requests |-> 0]

Init ==
  /\ issued = 0 /\ cache = NoSession /\ disk = NoSession
  /\ writes = NoWrites /\ refresh = Absent /\ lock = "free"
  /\ phase = NoPhase /\ fetches = NoFetches
  /\ login = Absent /\ logout = "none" /\ cleanup = "none" /\ exchanged = {}

\* the server makes a pair of tokens for u
Issue(u) == /\ issued < MaxIssued /\ issued' = issued + 1

New(u) == [user |-> u, serial |-> issued + 1]

-----------------------------------------------------------------------------
(* TokenStore *)

\* save(session), or clear() for NoSession: the cache at once
Store(o, s) ==
  /\ cache' = s /\ writes' = [writes EXCEPT ![o] = [at |-> "writing", session |-> s]]

\* the encrypted backup and the keychain; what fails is logged only
Written(o, ok) ==
  /\ writes[o].at = "writing"
  /\ writes' = [writes EXCEPT ![o].at = "written"]
  /\ disk' = IF ok THEN writes[o].session ELSE disk
  /\ UNCHANGED <<issued, cache, client, request, account, exchanged>>

\* the activity goes on after the write
Stored(o) == writes[o].at = "written" /\ writes' = [writes EXCEPT ![o] = Absent]

-----------------------------------------------------------------------------
(* EduServerClient.request and tryRefresh *)

Fetch(r) == [phase EXCEPT ![r] = "sent"]

Send(r) ==
  /\ r # LogoutCall /\ phase[r] = "none"
  /\ phase' = Fetch(r) /\ fetches' = [fetches EXCEPT ![r] = 1]
  /\ UNCHANGED <<issued, cache, disk, writes, client, account, exchanged>>

\* an answer other than 401, or the third 401, or a timeout
Answered(r) ==
  /\ phase[r] = "sent" /\ phase' = [phase EXCEPT ![r] = "answered"]
  /\ UNCHANGED <<issued, cache, disk, writes, client, fetches, account,
                 exchanged>>

\* handleSessionExpired
StartCleanup == cleanup' = IF cleanup = "none" THEN "hooks" ELSE cleanup

MayRetry(r) == fetches[r] < 3

\* 401: the refresh in flight is joined, or one is sent; without a refresh
\* token it is null at once, and stays null: the early return is before the
\* try whose finally frees the lock, and runs before the lock is assigned
Unauthorized(r) ==
  /\ phase[r] = "sent" /\ MayRetry(r)
  /\ \/ /\ lock = "held"
        /\ phase' = [phase EXCEPT ![r] = "awaiting"] /\ UNCHANGED <<client, cleanup>>
     \/ /\ lock = "free" /\ cache # NoSession
        /\ lock' = "held" /\ refresh' = [at |-> "sent", session |-> cache]
        /\ phase' = [phase EXCEPT ![r] = "awaiting"] /\ UNCHANGED cleanup
     \/ /\ lock # "held" /\ (lock = "free" => cache = NoSession)
        /\ lock' = "settled" /\ UNCHANGED refresh
        /\ phase' = [phase EXCEPT ![r] = "expired"] /\ StartCleanup
  /\ UNCHANGED <<issued, cache, disk, writes, fetches, login, logout, exchanged>>

\* forceRefresh, from the settings: it joins or sends a refresh as a request
\* does, but has nothing to send again and ends no session (bound: it is not
\* asked for when the server has no session left to grant)
ForceRefresh ==
  /\ lock = "free" /\ issued < MaxIssued
  /\ IF cache # NoSession
     THEN lock' = "held" /\ refresh' = [at |-> "sent", session |-> cache]
     ELSE lock' = "settled" /\ UNCHANGED refresh
  /\ UNCHANGED <<issued, cache, disk, writes, request, account, exchanged>>

Awaiting == {r \in Requests : phase[r] = "awaiting"}

\* Faulty: only the request that asked for the refresh is told
FaultyRefreshRefused ==
  /\ refresh.at = "sent"
  /\ refresh' = Absent /\ lock' = "free"
  /\ \E r \in Awaiting : phase' = [phase EXCEPT ![r] = "expired"]
  /\ StartCleanup
  /\ UNCHANGED <<issued, cache, disk, writes, fetches, login, logout, exchanged>>

\* the server refuses, or the network fails: every request that waits is over
RefreshRefused ==
  /\ refresh.at = "sent"
  /\ refresh' = Absent /\ lock' = "free"
  /\ phase' = [r \in Requests |-> IF r \in Awaiting THEN "expired" ELSE phase[r]]
  /\ IF Awaiting = {} THEN UNCHANGED cleanup ELSE StartCleanup
  /\ UNCHANGED <<issued, cache, disk, writes, fetches, login, logout, exchanged>>

\* Faulty: the lock is freed, and the cache written, only after the disk
FaultyRefreshGranted ==
  /\ refresh.at = "sent" /\ Issue(refresh.session.user)
  /\ writes' = [writes EXCEPT !["refresh"] = [at |-> "writing",
                                              session |-> New(refresh.session.user)]]
  /\ refresh' = [at |-> "saving", session |-> New(refresh.session.user)]
  /\ lock' = "free" /\ exchanged' = exchanged \cup {refresh.session}
  /\ UNCHANGED <<cache, disk, request, account>>

RefreshGranted ==
  /\ refresh.at = "sent" /\ Issue(refresh.session.user)
  /\ Store("refresh", New(refresh.session.user))
  /\ refresh' = [at |-> "saving", session |-> New(refresh.session.user)]
  /\ exchanged' = exchanged \cup {refresh.session}
  /\ UNCHANGED <<disk, lock, request, account>>

\* Faulty: only one of the requests is sent again
FaultyRefreshStored ==
  /\ refresh.at = "saving" /\ Stored("refresh")
  /\ refresh' = Absent /\ lock' = "free"
  /\ \E r \in Awaiting : /\ phase' = Fetch(r)
                         /\ fetches' = [fetches EXCEPT ![r] = @ + 1]
  /\ UNCHANGED <<issued, cache, disk, account, exchanged>>

\* every request that waits is sent again
RefreshStored ==
  /\ refresh.at = "saving" /\ Stored("refresh")
  /\ refresh' = Absent /\ lock' = "free"
  /\ phase' = [r \in Requests |-> IF r \in Awaiting THEN "sent" ELSE phase[r]]
  /\ fetches' = [r \in Requests |-> IF r \in Awaiting THEN fetches[r] + 1 ELSE fetches[r]]
  /\ UNCHANGED <<issued, cache, disk, account, exchanged>>

-----------------------------------------------------------------------------
(* AuthService *)

\* login and its kin: the server grants a session
LoginGranted(u) ==
  /\ login = Absent /\ Issue(u)
  /\ login' = [at |-> "granted", session |-> New(u)]
  /\ UNCHANGED <<cache, disk, writes, client, request, logout, cleanup, exchanged>>

\* hooks, if another user was signed in, then the session is saved
SwitchOrSave ==
  IF cache # NoSession /\ cache.user # login.session.user
  THEN login' = [login EXCEPT !.at = "hooks"] /\ UNCHANGED <<cache, writes>>
  ELSE login' = [login EXCEPT !.at = "saving"] /\ Store("login", login.session)

\* afterLoginSuccess: it looks once whether a session is being cleaned up
LoginProceeds ==
  /\ login.at = "granted"
  /\ IF cleanup = "none"
     THEN SwitchOrSave
     ELSE login' = [login EXCEPT !.at = "waiting"] /\ UNCHANGED <<cache, writes>>
  /\ UNCHANGED <<issued, disk, client, request, logout, cleanup, exchanged>>

\* the clean-up it waited for is over; another may have begun
LoginResumes ==
  /\ login.at = "resumed" /\ SwitchOrSave
  /\ UNCHANGED <<issued, disk, client, request, logout, cleanup, exchanged>>

LoginHooksDone ==
  /\ login.at = "hooks" /\ login' = [login EXCEPT !.at = "saving"]
  /\ Store("login", login.session)
  /\ UNCHANGED <<issued, disk, client, request, logout, cleanup, exchanged>>

LoginStored ==
  /\ login.at = "saving" /\ Stored("login") /\ login' = Absent
  /\ UNCHANGED <<issued, cache, disk, client, request, logout, cleanup, exchanged>>

\* logout: the server is told, whatever it answers; then hooks, then clear()
LogoutBegins ==
  /\ logout = "none" /\ phase[LogoutCall] = "none"
  /\ logout' = "posting"
  /\ phase' = Fetch(LogoutCall) /\ fetches' = [fetches EXCEPT ![LogoutCall] = 1]
  /\ UNCHANGED <<issued, cache, disk, writes, client, login, cleanup, exchanged>>

LogoutAnswered ==
  /\ logout = "posting" /\ phase[LogoutCall] \in Over \ {"none"} /\ logout' = "hooks"
  /\ UNCHANGED <<issued, cache, disk, writes, client, request, login, cleanup,
                 exchanged>>

LogoutHooksDone ==
  /\ logout = "hooks" /\ logout' = "clearing" /\ Store("logout", NoSession)
  /\ UNCHANGED <<issued, disk, client, request, login, cleanup, exchanged>>

LogoutStored ==
  /\ logout = "clearing" /\ Stored("logout") /\ logout' = "none"
  /\ UNCHANGED <<issued, cache, disk, client, request, login, cleanup, exchanged>>

\* the clean-up of an expired session: hooks, then clear()
CleanupHooksDone ==
  /\ cleanup = "hooks" /\ cleanup' = "clearing" /\ Store("expiry", NoSession)
  /\ UNCHANGED <<issued, disk, client, request, login, logout, exchanged>>

CleanupStored ==
  /\ cleanup = "clearing" /\ Stored("expiry") /\ cleanup' = "none"
  /\ login' = [login EXCEPT !.at = IF @ = "waiting" THEN "resumed" ELSE @]
  /\ UNCHANGED <<issued, cache, disk, client, request, logout, exchanged>>

\* the process exits and start() loads what the disk holds
Restart ==
  /\ cache' = disk /\ writes' = NoWrites
  /\ refresh' = Absent /\ lock' = "free" /\ phase' = NoPhase /\ fetches' = NoFetches
  /\ login' = Absent /\ logout' = "none" /\ cleanup' = "none" /\ exchanged' = {}
  /\ UNCHANGED <<issued, disk>>

-----------------------------------------------------------------------------
Next ==
  \/ \E r \in Requests : Send(r) \/ Answered(r) \/ Unauthorized(r)
  \/ \E o \in Owners, ok \in BOOLEAN : Written(o, ok)
  \/ ForceRefresh \/ RefreshRefused \/ RefreshGranted \/ RefreshStored
  \/ \E u \in Users : LoginGranted(u)
  \/ LoginProceeds \/ LoginResumes \/ LoginHooksDone \/ LoginStored
  \/ LogoutBegins \/ LogoutAnswered \/ LogoutHooksDone \/ LogoutStored
  \/ CleanupHooksDone \/ CleanupStored
  \/ Restart

\* fetches time out after 30 s, writes and hooks return, and the code that
\* awaited them goes on
Fairness ==
  /\ \A r \in Requests : WF_vars(Answered(r) \/ Unauthorized(r))
  /\ \A o \in Owners : WF_vars(\E ok \in BOOLEAN : Written(o, ok))
  /\ WF_vars(RefreshRefused \/ RefreshGranted) /\ WF_vars(RefreshStored)
  /\ WF_vars(LoginProceeds) /\ WF_vars(LoginResumes)
  /\ WF_vars(LoginHooksDone) /\ WF_vars(LoginStored)
  /\ WF_vars(LogoutAnswered) /\ WF_vars(LogoutHooksDone) /\ WF_vars(LogoutStored)
  /\ WF_vars(CleanupHooksDone) /\ WF_vars(CleanupStored)

Spec == Init /\ [][Next]_vars /\ Fairness

-----------------------------------------------------------------------------
(* Properties *)

LoginPlaces == {"none", "granted", "waiting", "resumed", "hooks", "saving"}

\* Every variable has its type, and no request is sent more than three times.
TypeOK ==
  /\ issued \in 0..MaxIssued
  /\ {cache, disk} \subseteq Sessions
  /\ writes \in [Owners -> [at : {"none", "writing", "written"}, session : Sessions]]
  /\ refresh \in [at : {"none", "sent", "saving"}, session : Sessions]
  /\ lock \in {"free", "held", "settled"}
  /\ phase \in [Requests -> Over \cup {"sent", "awaiting"}]
  /\ fetches \in [Requests -> 0..3]
  /\ login \in [at : LoginPlaces, session : Sessions]
  /\ logout \in {"none", "posting", "hooks", "clearing"}
  /\ cleanup \in {"none", "hooks", "clearing"}
  /\ exchanged \subseteq Session

\* o stands where it awaits the token store
AtStore(o) == CASE o = "refresh" -> refresh.at = "saving"
                [] o = "login"   -> login.at = "saving"
                [] o = "logout"  -> logout = "clearing"
                [] o = "expiry"  -> cleanup = "clearing"

\* Nobody waits for what does not happen: the lock is held while a refresh is
\* under way and only then, and requests wait for it only; logout waits for a
\* request that was sent; who awaits the token store has a write there, and no
\* write is left behind; and login waits for a clean-up that is under way.
\* (The clean-up waits for the store alone: there is no ring.)
WaitsEnd ==
  /\ lock = "held" <=> refresh # Absent
  /\ \A r \in Requests : phase[r] = "awaiting" => lock = "held"
  /\ logout = "posting" => phase[LogoutCall] # "none"
  /\ phase[LogoutCall] \in {"sent", "awaiting"} => logout = "posting"
  /\ \A o \in Owners : writes[o] # Absent <=> AtStore(o)
  /\ login.at = "waiting" => cleanup # "none"

\* A refresh token that was exchanged is not sent again by the same process,
\* whatever the requests, the login and the logout that overlap: a server that
\* rotates tokens would take the second use for theft (EduServerClient.ts:271).
SpentOnce == [][refresh'.at = "sent" /\ refresh.at # "sent" => refresh'.session \notin exchanged]_vars

\* Every request, login, logout and clean-up ends or is cut off by a restart:
\* they wait for the refresh, for each other and for the disk, never in a ring.
EverythingEnds ==
  /\ \A r \in Requests : phase[r] \notin Over ~> phase[r] \in Over
  /\ login # Absent ~> login = Absent
  /\ logout # "none" ~> logout = "none"
  /\ cleanup # "none" ~> cleanup = "none"

\* EduServerClient.ts:7 promises that a 401 is answered with a refresh: a
\* session whose refresh token is at hand is given up only when a refresh has
\* just been refused.
RefreshedBeforeExpiry ==
  [][cleanup = "none" /\ cleanup' = "hooks" /\ cache # NoSession => refresh.at = "sent"]_vars
=============================================================================
