------------------------- MODULE AuthSession_proofs -------------------------
(* Proofs about AuthSession, for any users, requests, sessions and restarts.  *)
EXTENDS AuthSession, TLAPS

(* s is among the first n sessions of the server. *)
Known(s, n) == s = NoSession \/ s.serial <= n

(* Every session the client knows of was issued, and a request that waits for *)
(* a refresh may be sent once more.                                           *)
Issued ==
  /\ Known(cache, issued) /\ Known(disk, issued)
  /\ Known(refresh.session, issued) /\ Known(login.session, issued)
  /\ \A o \in Owners : Known(writes[o].session, issued)
  /\ \A s \in exchanged : s.serial <= issued
  /\ refresh.at = "sent" => refresh.session \in Session
  /\ \A r \in Requests : phase[r] = "awaiting" => fetches[r] < 3

(* The login holds a session that is not in the cache yet. *)
Waiting == login.at \in {"granted", "waiting", "resumed", "hooks"}

(* What the cache holds was not exchanged, and what a login is about to save  *)
(* was never in the cache: no refresh can be under way for it.                *)
Fresh ==
  /\ cache \notin exchanged
  /\ Waiting => /\ login.session \in Session \ exchanged /\ login.session # cache
                /\ refresh.at = "sent" => refresh.session # login.session

(* The inductive invariant. *)
Ledger == TypeOK /\ WaitsEnd /\ Issued /\ Fresh

-----------------------------------------------------------------------------
LEMMA AbsentFacts ==
  /\ Absent.at = "none" /\ Absent.session = NoSession
  /\ Absent \in [at : {"none"}, session : Sessions]
BY DEF Absent, Sessions

(* A session the server makes is one nobody has seen.                         *)
LEMMA NewSession ==
  ASSUME Ledger, NEW u \in Users, Issue(u)
  PROVE  /\ New(u) \in Session /\ New(u) # NoSession /\ New(u) \notin exchanged
         /\ New(u).serial = issued + 1
         /\ issued' = issued + 1 /\ issued' \in 0..MaxIssued
         /\ \A s \in Sessions : Known(s, issued) => s # New(u) /\ Known(s, issued')
<1> USE DEF Ledger
<1>1. issued \in 0..MaxIssued /\ issued < MaxIssued /\ issued' = issued + 1 /\ MaxIssued \in Nat
  BY AuthAssumption DEF TypeOK, Issue
<1>2. New(u) \in Session /\ New(u).serial = issued + 1
  BY <1>1 DEF New, Session
<1>3. New(u) # NoSession
  BY <1>2, AuthAssumption
<1>4. ASSUME NEW s \in Sessions, Known(s, issued) PROVE s # New(u) /\ Known(s, issued')
  <2>1. CASE s = NoSession
    BY <1>3, <2>1 DEF Known
  <2>2. CASE s # NoSession
    <3>1. s.serial \in 1..MaxIssued /\ s.serial <= issued
      BY <1>4, <2>2 DEF Known, Sessions, Session
    <3> QED BY <1>1, <1>2, <3>1 DEF Known
  <2> QED BY <2>1, <2>2
<1>5. New(u) \notin exchanged
  BY <1>1, <1>2 DEF Issued
<1> QED BY <1>1, <1>2, <1>3, <1>4, <1>5

LEMMA InitLedger == Init => Ledger
<1> SUFFICES ASSUME Init PROVE Ledger
  OBVIOUS
<1>1. /\ NoWrites \in [Owners -> [at : {"none", "writing", "written"}, session : Sessions]]
      /\ NoWrites["expiry"] = Absent /\ NoSession \in Sessions
      /\ NoPhase \in [Requests -> Over \cup {"sent", "awaiting"}]
      /\ \A r \in Requests : NoPhase[r] # "awaiting"
      /\ NoFetches \in [Requests -> 0..3]
  BY AbsentFacts DEF NoWrites, NoPhase, NoFetches, Sessions, Over, Owners
<1>2. TypeOK
  BY <1>1, AuthAssumption, AbsentFacts DEF Init, TypeOK, LoginPlaces
<1>4. ASSUME NEW o \in Owners PROVE writes[o] = Absent /\ ~AtStore(o)
  BY <1>4, AbsentFacts DEF Init, NoWrites, AtStore, Owners
<1>5. WaitsEnd
  BY <1>1, <1>4, AuthAssumption, AbsentFacts DEF Init, WaitsEnd, NoPhase
<1>3. Issued /\ Fresh
  BY AuthAssumption, AbsentFacts DEF Init, Issued, Fresh, Waiting, Known, NoWrites, NoPhase
<1> QED BY <1>2, <1>3, <1>5 DEF Ledger

(* The session an activity begins to write. *)
LEMMA StoreTypes ==
  ASSUME TypeOK, NEW o \in Owners, NEW s \in Sessions, Store(o, s)
  PROVE  /\ cache' \in Sessions
         /\ writes' \in [Owners -> [at : {"none", "writing", "written"}, session : Sessions]]
         /\ writes'[o] # Absent
         /\ \A p \in Owners : p # o => writes'[p] = writes[p]
BY AbsentFacts DEF TypeOK, Store

LEMMA StoredTypes ==
  ASSUME TypeOK, NEW o \in Owners, Stored(o)
  PROVE  /\ writes' \in [Owners -> [at : {"none", "writing", "written"}, session : Sessions]]
         /\ writes'[o] = Absent
         /\ \A p \in Owners : p # o => writes'[p] = writes[p]
BY AbsentFacts DEF TypeOK, Stored, Sessions

LEMMA NextTypes ==
  ASSUME Ledger, [Next]_vars
  PROVE  TypeOK'
<1> USE AuthAssumption, AbsentFacts DEF Ledger
<1>o. {"refresh", "login", "logout", "expiry"} = Owners
  BY DEF Owners
<1>1. ASSUME NEW r \in Requests, Send(r) PROVE TypeOK'
  BY <1>1 DEF Send, Fetch, TypeOK, client, account, Over
<1>2. ASSUME NEW r \in Requests, Answered(r) PROVE TypeOK'
  BY <1>2 DEF Answered, TypeOK, client, account, Over
<1>3. ASSUME NEW r \in Requests, Unauthorized(r) PROVE TypeOK'
  <2>1. cleanup' \in {cleanup, "hooks"} /\ (cleanup # "none" => cleanup' = cleanup)
    BY <1>3 DEF Unauthorized, StartCleanup, client
  <2>2. phase' \in [Requests -> Over \cup {"sent", "awaiting"}]
    BY <1>3 DEF Unauthorized, TypeOK, Over
  <2>3. refresh' \in [at : {"none", "sent", "saving"}, session : Sessions]
        /\ lock' \in {"free", "held", "settled"}
    BY <1>3 DEF Unauthorized, TypeOK, client
  <2> QED BY <1>3, <2>1, <2>2, <2>3 DEF Unauthorized, TypeOK
<1>f. CASE ForceRefresh
  BY <1>f DEF ForceRefresh, TypeOK, request, account
<1>4. ASSUME NEW o \in Owners, NEW ok \in BOOLEAN, Written(o, ok) PROVE TypeOK'
  <2>1. writes' \in [Owners -> [at : {"none", "writing", "written"}, session : Sessions]]
        /\ disk' \in Sessions
    BY <1>4 DEF Written, TypeOK
  <2> QED BY <1>4, <2>1 DEF Written, TypeOK, client, request, account
<1>5. CASE RefreshRefused
  <2>1. phase' \in [Requests -> Over \cup {"sent", "awaiting"}]
    BY <1>5 DEF RefreshRefused, TypeOK, Awaiting, Over
  <2> QED BY <1>5, <2>1 DEF RefreshRefused, StartCleanup, TypeOK
<1>6. CASE RefreshGranted
  <2>1. refresh.session.user \in Users /\ refresh.session \in Session
    BY <1>6 DEF RefreshGranted, Issued, Session, TypeOK
  <2>2. New(refresh.session.user) \in Session /\ issued' \in 0..MaxIssued
    BY <1>6, <2>1, NewSession DEF RefreshGranted
  <2>3. Store("refresh", New(refresh.session.user))
    BY <1>6 DEF RefreshGranted
  <2>4. /\ cache' \in Sessions
        /\ writes' \in [Owners -> [at : {"none", "writing", "written"}, session : Sessions]]
    BY <1>o, <2>2, <2>3, StoreTypes DEF Sessions
  <2> QED BY <1>6, <2>1, <2>2, <2>4 DEF RefreshGranted, TypeOK, request, account, Sessions
<1>7. CASE RefreshStored
  <2>1. writes' \in [Owners -> [at : {"none", "writing", "written"}, session : Sessions]]
    BY <1>o, <1>7, StoredTypes DEF RefreshStored
  <2>2. /\ phase' \in [Requests -> Over \cup {"sent", "awaiting"}]
        /\ fetches' \in [Requests -> 0..3]
    BY <1>7 DEF RefreshStored, TypeOK, Issued, Awaiting, Over
  <2> QED BY <1>7, <2>1, <2>2 DEF RefreshStored, TypeOK, account
<1>8. ASSUME NEW u \in Users, LoginGranted(u) PROVE TypeOK'
  <2>1. New(u) \in Session /\ issued' \in 0..MaxIssued
    BY <1>8, NewSession DEF LoginGranted
  <2> QED BY <1>8, <2>1 DEF LoginGranted, TypeOK, LoginPlaces, client, request, Sessions
<1>9. CASE LoginProceeds \/ LoginResumes \/ LoginHooksDone
  <2>1. login' \in [at : LoginPlaces, session : Sessions]
    BY <1>9 DEF LoginProceeds, LoginResumes, SwitchOrSave, LoginHooksDone, TypeOK, LoginPlaces
  <2>2. UNCHANGED <<cache, writes>> \/ Store("login", login.session)
    BY <1>9 DEF LoginProceeds, LoginResumes, SwitchOrSave, LoginHooksDone
  <2>3. /\ cache' \in Sessions
        /\ writes' \in [Owners -> [at : {"none", "writing", "written"}, session : Sessions]]
    BY <1>o, <2>2, StoreTypes DEF TypeOK
  <2> QED BY <1>9, <2>1, <2>3
          DEF LoginProceeds, LoginResumes, LoginHooksDone, TypeOK, client, request
<1>10. CASE LoginStored \/ LogoutStored \/ CleanupStored
  <2>1. PICK o \in {"login", "logout", "expiry"} : Stored(o)
    BY <1>10 DEF LoginStored, LogoutStored, CleanupStored
  <2>2. writes' \in [Owners -> [at : {"none", "writing", "written"}, session : Sessions]]
    BY <1>o, <2>1, StoredTypes
  <2>3. login' \in [at : LoginPlaces, session : Sessions]
        /\ logout' \in {"none", "posting", "hooks", "clearing"}
    BY <1>10 DEF LoginStored, LogoutStored, CleanupStored, TypeOK, LoginPlaces
  <2> QED BY <1>10, <2>1, <2>2, <2>3
          DEF LoginStored, LogoutStored, CleanupStored, TypeOK, client, request
<1>11. CASE LogoutBegins \/ LogoutAnswered
  BY <1>11 DEF LogoutBegins, LogoutAnswered, Fetch, TypeOK, client, request, Over
<1>12. CASE LogoutHooksDone \/ CleanupHooksDone
  <2>1. PICK o \in {"logout", "expiry"} :
          Store(o, NoSession) /\ cleanup' \in {cleanup, "clearing"}
    BY <1>12 DEF LogoutHooksDone, CleanupHooksDone
  <2>2. /\ cache' \in Sessions
        /\ writes' \in [Owners -> [at : {"none", "writing", "written"}, session : Sessions]]
    BY <1>o, <2>1, StoreTypes DEF Sessions
  <2> QED BY <1>12, <2>1, <2>2
          DEF LogoutHooksDone, CleanupHooksDone, TypeOK, client, request
<1>13. CASE Restart
  BY <1>13 DEF Restart, TypeOK, NoWrites, NoPhase, NoFetches, Over, Owners, Sessions,
               LoginPlaces
<1>14. CASE UNCHANGED vars
  BY <1>14 DEF vars, TypeOK, client, request, account
<1> QED BY <1>1, <1>2, <1>3, <1>4, <1>5, <1>6, <1>7, <1>8, <1>9, <1>10, <1>11, <1>12, <1>13,
           <1>14, <1>f DEF Next

\* The waits, the part of WaitsEnd that is not about the token store.
Requested(lk, ref, ph, out) ==
  /\ lk = "held" <=> ref # Absent
  /\ \A r \in Requests : ph[r] = "awaiting" => lk = "held"
  /\ out = "posting" => ph[LogoutCall] # "none"
  /\ ph[LogoutCall] \in {"sent", "awaiting"} => out = "posting"

LEMMA NextRequested ==
  ASSUME Ledger, [Next]_vars
  PROVE  Requested(lock', refresh', phase', logout')
<1> USE AuthAssumption DEF Ledger, Requested
<1>0. /\ Requested(lock, refresh, phase, logout) /\ LogoutCall \in Requests
      /\ phase \in [Requests -> Over \cup {"sent", "awaiting"}]
      /\ \A o \in Owners : writes[o] # Absent <=> AtStore(o)
  BY DEF WaitsEnd, TypeOK
<1>1. ASSUME NEW r \in Requests, Send(r) \/ Answered(r)
      PROVE  Requested(lock', refresh', phase', logout')
  BY <1>0, <1>1 DEF Send, Answered, Fetch, client, account
<1>2. ASSUME NEW r \in Requests, Unauthorized(r)
      PROVE  Requested(lock', refresh', phase', logout')
  BY <1>0, <1>2, AbsentFacts DEF Unauthorized, client
<1>f. CASE ForceRefresh
  BY <1>0, <1>f, AbsentFacts DEF ForceRefresh, request, account
<1>3. CASE RefreshRefused
  BY <1>0, <1>3 DEF RefreshRefused, Awaiting
<1>4. CASE RefreshGranted
  <2>1. refresh # Absent /\ refresh' # Absent /\ lock' = lock /\ phase' = phase /\ logout' = logout
    BY <1>4, AbsentFacts DEF RefreshGranted, request, account
  <2> QED BY <1>0, <2>1
<1>5. CASE RefreshStored
  BY <1>0, <1>5 DEF RefreshStored, Awaiting, account
<1>6. CASE LogoutBegins
  BY <1>0, <1>6 DEF LogoutBegins, Fetch, client
<1>7. CASE LogoutAnswered
  BY <1>0, <1>7 DEF LogoutAnswered, client, request, Over
<1>8. CASE LogoutHooksDone \/ LogoutStored
  BY <1>0, <1>8 DEF LogoutHooksDone, LogoutStored, client, request
<1>9. CASE Restart
  BY <1>0, <1>9 DEF Restart, NoPhase
<1>10. CASE UNCHANGED <<client, request, logout>>
  BY <1>0, <1>10 DEF client, request
<1>11. CASE
           \/ \E o \in Owners, ok \in BOOLEAN : Written(o, ok)
           \/ \E u \in Users : LoginGranted(u)
           \/ LoginProceeds \/ LoginResumes \/ LoginHooksDone \/ LoginStored
           \/ CleanupHooksDone \/ CleanupStored \/ UNCHANGED vars
  BY <1>10, <1>11 DEF Written, LoginGranted, LoginProceeds, LoginResumes, LoginHooksDone,
                      LoginStored,
                      CleanupHooksDone, CleanupStored, vars, account
<1> HIDE DEF Requested, Ledger
<1> QED BY <1>1, <1>2, <1>3, <1>4, <1>5, <1>6, <1>7, <1>8, <1>9, <1>11, <1>f DEF Next

\* Who awaits the token store has a write there.
LEMMA NextWrites ==
  ASSUME Ledger, [Next]_vars, NEW o \in Owners
  PROVE  writes'[o] # Absent <=> AtStore(o)'
<1> USE DEF Ledger
<1>0. /\ writes \in [Owners -> [at : {"none", "writing", "written"}, session : Sessions]]
      /\ \A p \in Owners : writes[p] # Absent <=> AtStore(p)
      /\ Owners = {"refresh", "login", "logout", "expiry"}
  BY DEF WaitsEnd, TypeOK, Owners
<1>1. CASE writes' = writes /\ (AtStore(o)' <=> AtStore(o))
  BY <1>0, <1>1
<1>2. ASSUME NEW r \in Requests, Send(r) \/ Answered(r) \/ Unauthorized(r)
      PROVE  writes' = writes /\ (AtStore(o)' <=> AtStore(o))
  BY <1>0, <1>2, AbsentFacts
     DEF Send, Answered, Unauthorized, StartCleanup, AtStore, client, account, WaitsEnd
<1>3. ASSUME NEW p \in Owners, NEW ok \in BOOLEAN, Written(p, ok)
      PROVE  writes'[o] # Absent <=> AtStore(o)'
  <2>1. AtStore(o)' <=> AtStore(o)
    BY <1>0, <1>3 DEF Written, AtStore, client, account
  <2>2. writes'[o] # Absent <=> writes[o] # Absent
    BY <1>0, <1>3, AbsentFacts DEF Written
  <2> QED BY <1>0, <2>1, <2>2
\* An activity gets to the store with a write, or leaves it without.
<1>4. ASSUME NEW p \in Owners, NEW s, Store(p, s), AtStore(p)',
             \A q \in Owners \ {p} : AtStore(q)' <=> AtStore(q)
      PROVE  writes'[o] # Absent <=> AtStore(o)'
  BY <1>0, <1>4, AbsentFacts DEF Store
<1>5. ASSUME NEW p \in Owners, Stored(p), ~AtStore(p)',
             \A q \in Owners \ {p} : AtStore(q)' <=> AtStore(q)
      PROVE  writes'[o] # Absent <=> AtStore(o)'
  BY <1>0, <1>5 DEF Stored
<1>6. CASE RefreshRefused
  BY <1>0, <1>1, <1>6, AbsentFacts DEF RefreshRefused, StartCleanup, AtStore
<1>f. CASE ForceRefresh
  <2>1. refresh = Absent
    BY <1>f DEF ForceRefresh, WaitsEnd
  <2>2. refresh.at # "saving" /\ refresh'.at # "saving"
    BY <1>f, <2>1, AbsentFacts DEF ForceRefresh
  <2>3. writes' = writes /\ UNCHANGED <<login, logout, cleanup>>
    BY <1>f DEF ForceRefresh, account
  <2>4. AtStore(o)' <=> AtStore(o)
    BY <1>0, <2>2, <2>3 DEF AtStore
  <2> QED BY <1>1, <2>3, <2>4
<1>7. CASE RefreshGranted
  <2>1. Store("refresh", New(refresh.session.user)) /\ refresh'.at = "saving"
    BY <1>7 DEF RefreshGranted
  <2>2. \A q \in Owners \ {"refresh"} : AtStore(q)' <=> AtStore(q)
    BY <1>0, <1>7 DEF RefreshGranted, AtStore, account
  <2>3. AtStore("refresh")'
    BY <2>1 DEF AtStore
  <2> QED BY <1>0, <1>4, <2>1, <2>2, <2>3
<1>8. CASE RefreshStored
  BY <1>0, <1>5, <1>8, AbsentFacts DEF RefreshStored, AtStore, account
<1>9. ASSUME NEW u \in Users, LoginGranted(u) PROVE writes'[o] # Absent <=> AtStore(o)'
  BY <1>0, <1>1, <1>9, AbsentFacts DEF LoginGranted, AtStore, client
<1>10. CASE LoginProceeds \/ LoginResumes \/ LoginHooksDone
  <2>1. \A q \in Owners \ {"login"} : AtStore(q)' <=> AtStore(q)
    BY <1>0, <1>10 DEF LoginProceeds, LoginResumes, LoginHooksDone, AtStore, client
  <2>2. /\ login.at # "saving"
        /\ \/ login'.at \in {"waiting", "hooks"} /\ writes' = writes
           \/ login'.at = "saving" /\ Store("login", login.session)
    BY <1>10 DEF LoginProceeds, LoginResumes, SwitchOrSave, LoginHooksDone, TypeOK
  <2>3. CASE login'.at \in {"waiting", "hooks"} /\ writes' = writes
    BY <1>0, <1>1, <2>1, <2>2, <2>3 DEF AtStore
  <2>4. CASE login'.at = "saving" /\ Store("login", login.session)
    <3>1. AtStore("login")'
      BY <2>4 DEF AtStore
    <3> QED BY <1>0, <1>4, <2>1, <2>4, <3>1
  <2> QED BY <2>2, <2>3, <2>4
<1>11. CASE LoginStored
  BY <1>0, <1>5, <1>11, AbsentFacts DEF LoginStored, AtStore, client
<1>12. CASE LogoutBegins \/ LogoutAnswered
  BY <1>0, <1>1, <1>12 DEF LogoutBegins, LogoutAnswered, AtStore, client
<1>13. CASE LogoutHooksDone
  <2>1. \A q \in Owners \ {"logout"} : AtStore(q)' <=> AtStore(q)
    BY <1>0, <1>13 DEF LogoutHooksDone, AtStore, client
  <2>2. Store("logout", NoSession) /\ AtStore("logout")'
    BY <1>13 DEF LogoutHooksDone, AtStore
  <2> QED BY <1>0, <1>4, <2>1, <2>2
<1>14. CASE LogoutStored
  BY <1>0, <1>5, <1>14 DEF LogoutStored, AtStore, client
<1>15. CASE CleanupHooksDone
  <2>1. \A q \in Owners \ {"expiry"} : AtStore(q)' <=> AtStore(q)
    BY <1>0, <1>15 DEF CleanupHooksDone, AtStore, client
  <2>2. Store("expiry", NoSession) /\ AtStore("expiry")'
    BY <1>15 DEF CleanupHooksDone, AtStore
  <2> QED BY <1>0, <1>4, <2>1, <2>2
<1>16. CASE CleanupStored
  <2>1. login'.at = "saving" <=> login.at = "saving"
    BY <1>16 DEF CleanupStored, TypeOK
  <2>2. \A q \in Owners \ {"expiry"} : AtStore(q)' <=> AtStore(q)
    BY <1>0, <1>16, <2>1 DEF CleanupStored, AtStore, client
  <2>3. Stored("expiry") /\ ~AtStore("expiry")'
    BY <1>16 DEF CleanupStored, AtStore
  <2> QED BY <1>0, <1>5, <2>2, <2>3
<1>17. CASE Restart
  BY <1>0, <1>17, AbsentFacts DEF Restart, NoWrites, AtStore
<1>18. CASE UNCHANGED vars
  BY <1>1, <1>18 DEF vars, AtStore, client, account
<1> QED BY <1>1, <1>2, <1>3, <1>6, <1>7, <1>8, <1>9, <1>10, <1>11, <1>12, <1>13, <1>14, <1>15,
           <1>16, <1>17, <1>18, <1>f DEF Next

\* A login that waits for the clean-up is told when it ends.
LEMMA NextWaiting ==
  ASSUME Ledger, [Next]_vars
  PROVE  (login.at = "waiting" => cleanup # "none")'
<1> USE AbsentFacts DEF Ledger
<1>0. login.at = "waiting" => cleanup # "none"
  BY DEF WaitsEnd
<1>1. CASE login' = login /\ (cleanup # "none" => cleanup' # "none")
  BY <1>0, <1>1
<1>2. ASSUME NEW r \in Requests, Send(r) \/ Answered(r) \/ Unauthorized(r)
      PROVE  login' = login /\ (cleanup # "none" => cleanup' # "none")
  BY <1>2 DEF Send, Answered, Unauthorized, StartCleanup, account
<1>3. CASE \/ \E o \in Owners, ok \in BOOLEAN : Written(o, ok)
           \/ ForceRefresh \/ RefreshRefused \/ RefreshGranted \/ RefreshStored
           \/ LogoutBegins \/ LogoutAnswered \/ LogoutHooksDone \/ LogoutStored
           \/ CleanupHooksDone \/ UNCHANGED vars
  BY <1>1, <1>3 DEF Written, ForceRefresh, RefreshRefused, StartCleanup, RefreshGranted,
                    RefreshStored, LogoutBegins, LogoutAnswered, LogoutHooksDone,
                    LogoutStored, CleanupHooksDone, vars, account
<1>4. CASE LoginProceeds \/ LoginResumes
  BY <1>4 DEF LoginProceeds, LoginResumes, SwitchOrSave, TypeOK
<1>5. CASE LoginHooksDone \/ LoginStored \/ CleanupStored \/ Restart
  BY <1>5 DEF LoginHooksDone, LoginStored, CleanupStored, Restart, TypeOK
<1>6. ASSUME NEW u \in Users, LoginGranted(u) PROVE login'.at # "waiting"
  BY <1>6 DEF LoginGranted
<1> QED BY <1>1, <1>2, <1>3, <1>4, <1>5, <1>6 DEF Next

LEMMA NextWaits ==
  ASSUME Ledger, [Next]_vars
  PROVE  WaitsEnd'
BY NextRequested, NextWrites, NextWaiting DEF Requested, WaitsEnd

LEMMA NextIssued ==
  ASSUME Ledger, [Next]_vars
  PROVE  Issued'
<1> USE AbsentFacts DEF Ledger
<1>1. ASSUME NEW r \in Requests, Send(r) \/ Answered(r) PROVE Issued'
  BY <1>1 DEF Send, Answered, Fetch, Issued, Known, client, account, TypeOK
<1>2. ASSUME NEW r \in Requests, Unauthorized(r) PROVE Issued'
  <2>1. Known(refresh'.session, issued) /\ (refresh'.at = "sent" => refresh'.session \in Session)
    BY <1>2 DEF Unauthorized, Issued, client, TypeOK, Sessions
  <2>2. \A q \in Requests : phase'[q] = "awaiting" => fetches[q] < 3
    BY <1>2 DEF Unauthorized, MayRetry, Issued, TypeOK
  <2> QED BY <1>2, <2>1, <2>2 DEF Unauthorized, Issued, Known
<1>f. CASE ForceRefresh
  BY <1>f DEF ForceRefresh, Issued, Known, request, account, TypeOK, Sessions
<1>3. ASSUME NEW o \in Owners, NEW ok \in BOOLEAN, Written(o, ok) PROVE Issued'
  <2>1. \A p \in Owners : writes'[p].session = writes[p].session
    BY <1>3 DEF Written, TypeOK
  <2> QED BY <1>3, <2>1 DEF Written, Issued, Known, client, request, account
<1>4. CASE RefreshRefused
  <2>1. \A r \in Requests : phase'[r] # "awaiting"
    BY <1>4 DEF RefreshRefused, TypeOK, Awaiting
  <2> QED BY <1>4, <2>1 DEF RefreshRefused, Issued, Known
<1>5. CASE RefreshGranted
  <2> DEFINE new == New(refresh.session.user)
  <2>1. refresh.session.user \in Users /\ refresh.session \in Session
    BY <1>5 DEF RefreshGranted, Issued, Session
  <2>2. /\ new.serial = issued + 1 /\ issued' = issued + 1
        /\ \A s \in Sessions : Known(s, issued) => Known(s, issued')
    BY <1>5, <2>1, NewSession DEF RefreshGranted
  <2>3. /\ cache' = new /\ writes' = [writes EXCEPT !["refresh"] = [at |-> "writing", session |-> new]]
        /\ refresh' = [at |-> "saving", session |-> new]
        /\ exchanged' = exchanged \cup {refresh.session}
        /\ UNCHANGED <<disk, phase, fetches, login>>
    BY <1>5 DEF RefreshGranted, Store, request, account
  <2>4. Known(new, issued')
    BY <2>2 DEF Known
  <2>5. \A o \in Owners : Known(writes'[o].session, issued')
    BY <2>2, <2>3, <2>4 DEF Issued, TypeOK
  <2>6. \A s \in exchanged' : s.serial <= issued'
    <3>1. refresh.session.serial <= issued
      BY <2>1, AuthAssumption DEF Issued, Known
    <3>2. \A s \in exchanged : s.serial \in Nat
      BY DEF TypeOK, Session
    <3>3. refresh.session.serial \in Nat /\ issued \in Nat
      BY <2>1 DEF Session, TypeOK
    <3> QED BY <2>2, <2>3, <3>1, <3>2, <3>3 DEF Issued
  <2> HIDE DEF new
  <2>7. Known(disk, issued') /\ Known(login.session, issued')
    BY <2>2, <2>3 DEF Issued, TypeOK, Known
  <2> QED BY <2>3, <2>4, <2>5, <2>6, <2>7 DEF Issued, Known
<1>6. CASE RefreshStored
  <2>1. \A r \in Requests : phase'[r] # "awaiting"
    BY <1>6 DEF RefreshStored, TypeOK, Awaiting
  <2> QED BY <1>6, <2>1 DEF RefreshStored, Stored, Issued, Known, TypeOK, account
<1>7. ASSUME NEW u \in Users, LoginGranted(u) PROVE Issued'
  <2>1. /\ New(u).serial = issued + 1 /\ issued' = issued + 1
        /\ \A s \in Sessions : Known(s, issued) => Known(s, issued')
    BY <1>7, NewSession DEF LoginGranted
  <2>2. \A s \in exchanged : s.serial <= issued'
    BY <2>1 DEF Issued, TypeOK, Session
  <2>3. Known(New(u), issued')
    BY <2>1 DEF Known
  <2> QED BY <1>7, <2>1, <2>2, <2>3 DEF LoginGranted, Issued, Known, TypeOK, client, request
<1>8. CASE LoginProceeds \/ LoginResumes \/ LoginHooksDone \/ LogoutHooksDone \/ CleanupHooksDone
  <2>1. PICK s \in {login.session, NoSession, cache}, o \in Owners :
          /\ cache' = s
          /\ writes' \in {writes, [writes EXCEPT ![o] = [at |-> "writing", session |-> s]]}
    BY <1>8 DEF LoginProceeds, LoginResumes, SwitchOrSave, LoginHooksDone, LogoutHooksDone,
                CleanupHooksDone, Store, Owners
  <2>2. Known(s, issued)
    BY <2>1 DEF Issued, Known
  <2>3. \A p \in Owners : Known(writes'[p].session, issued)
    BY <2>1, <2>2 DEF Issued, TypeOK
  <2>4. login'.session = login.session
    BY <1>8 DEF LoginProceeds, LoginResumes, SwitchOrSave, LoginHooksDone, LogoutHooksDone,
                CleanupHooksDone, TypeOK
  <2> QED BY <1>8, <2>1, <2>2, <2>3, <2>4
          DEF LoginProceeds, LoginResumes, LoginHooksDone, LogoutHooksDone, CleanupHooksDone,
              Issued, Known, client, request
<1>9. CASE LoginStored \/ LogoutStored \/ CleanupStored
  BY <1>9 DEF LoginStored, LogoutStored, CleanupStored, Stored, Issued, Known, TypeOK, client,
              request
<1>10. CASE LogoutBegins \/ LogoutAnswered
  BY <1>10 DEF LogoutBegins, LogoutAnswered, Fetch, Issued, Known, TypeOK, client, request
<1>11. CASE Restart
  BY <1>11 DEF Restart, Issued, Known, NoWrites, NoPhase
<1>12. CASE UNCHANGED vars
  BY <1>12 DEF vars, Issued, Known, client, request, account
<1> QED BY <1>1, <1>2, <1>3, <1>4, <1>5, <1>6, <1>7, <1>8, <1>9, <1>10, <1>11, <1>12, <1>f DEF Next

LEMMA NextFresh ==
  ASSUME Ledger, [Next]_vars
  PROVE  Fresh'
<1> USE AbsentFacts DEF Ledger
<1>n. NoSession \notin exchanged
  BY AuthAssumption DEF TypeOK
<1>1. ASSUME NEW r \in Requests, Send(r) \/ Answered(r) PROVE Fresh'
  BY <1>1 DEF Send, Answered, Fresh, Waiting, client, account
<1>2. ASSUME NEW r \in Requests, Unauthorized(r) PROVE Fresh'
  BY <1>2 DEF Unauthorized, Fresh, Waiting, client
<1>f. CASE ForceRefresh
  BY <1>f DEF ForceRefresh, Fresh, Waiting, request, account
<1>3. ASSUME NEW o \in Owners, NEW ok \in BOOLEAN, Written(o, ok) PROVE Fresh'
  BY <1>3 DEF Written, Fresh, Waiting, client, account
<1>4. CASE RefreshRefused
  BY <1>4 DEF RefreshRefused, Fresh, Waiting
<1>5. CASE RefreshGranted
  <2> DEFINE new == New(refresh.session.user)
  <2>1. refresh.session.user \in Users /\ refresh.session \in Session
    BY <1>5 DEF RefreshGranted, Issued, Session
  <2>2. new \notin exchanged /\ \A s \in Sessions : Known(s, issued) => s # new
    BY <1>5, <2>1, NewSession DEF RefreshGranted
  <2>3. /\ cache' = new /\ refresh'.at # "sent" /\ login' = login
        /\ exchanged' = exchanged \cup {refresh.session}
    BY <1>5 DEF RefreshGranted, Store, account
  <2>4. refresh.session # new /\ login.session # new
    BY <2>1, <2>2 DEF Issued, TypeOK
  <2>5. Waiting => login.session # refresh.session
    BY <1>5 DEF RefreshGranted, Fresh
  <2> HIDE DEF new
  <2> QED BY <2>2, <2>3, <2>4, <2>5 DEF Fresh, Waiting
<1>6. CASE RefreshStored
  BY <1>6 DEF RefreshStored, Fresh, Waiting, account
<1>7. ASSUME NEW u \in Users, LoginGranted(u) PROVE Fresh'
  <2>1. /\ New(u) \in Session /\ New(u) \notin exchanged
        /\ \A s \in Sessions : Known(s, issued) => s # New(u)
    BY <1>7, NewSession DEF LoginGranted
  <2>2. cache # New(u) /\ refresh.session # New(u)
    BY <2>1 DEF Issued, TypeOK
  <2> QED BY <1>7, <2>1, <2>2 DEF LoginGranted, Fresh, Waiting, client
<1>8. CASE LoginProceeds \/ LoginResumes
  BY <1>8 DEF LoginProceeds, LoginResumes, SwitchOrSave, Store, Fresh, Waiting, client, TypeOK
<1>9. CASE LoginHooksDone
  BY <1>9 DEF LoginHooksDone, Store, Fresh, Waiting, client, TypeOK
<1>10. CASE LogoutHooksDone \/ CleanupHooksDone
  BY <1>10, <1>n, AuthAssumption
     DEF LogoutHooksDone, CleanupHooksDone, Store, Fresh, Waiting, client
<1>11. CASE LoginStored \/ LogoutStored \/ CleanupStored
  BY <1>11 DEF LoginStored, LogoutStored, CleanupStored, Fresh, Waiting, client, TypeOK
<1>12. CASE LogoutBegins \/ LogoutAnswered
  BY <1>12 DEF LogoutBegins, LogoutAnswered, Fresh, Waiting, client
<1>13. CASE Restart
  BY <1>13 DEF Restart, Fresh, Waiting
<1>14. CASE UNCHANGED vars
  BY <1>14 DEF vars, Fresh, Waiting, client, account
<1> QED BY <1>1, <1>2, <1>3, <1>4, <1>5, <1>6, <1>7, <1>8, <1>9, <1>10, <1>11, <1>12, <1>13,
           <1>14, <1>f DEF Next

-----------------------------------------------------------------------------
(* Theorems *)

LEMMA LedgerKept == Spec => []Ledger
<1>1. Ledger /\ [Next]_vars => Ledger'
  BY NextTypes, NextWaits, NextIssued, NextFresh DEF Ledger
<1> QED BY InitLedger, <1>1, PTL DEF Spec

(* Every variable always has its type, and no request is sent more than       *)
(* three times.                                                               *)
THEOREM TypeCorrect == Spec => []TypeOK
<1>1. Ledger => TypeOK
  BY DEF Ledger
<1> QED BY LedgerKept, <1>1, PTL

(* Nobody waits for what does not happen: requests wait for a refresh that is *)
(* under way, logout for its request, and who awaits the token store has a    *)
(* write there.  What the liveness of EverythingEnds rests on.                *)
THEOREM NobodyIsStranded == Spec => []WaitsEnd
<1>1. Ledger => WaitsEnd
  BY DEF Ledger
<1> QED BY LedgerKept, <1>1, PTL

(* However many requests, logins and logouts overlap, no refresh token is     *)
(* sent again after it was exchanged.                                         *)
THEOREM NoTokenTwice == Spec => SpentOnce
<1>1. ASSUME Ledger, [Next]_vars, refresh'.at = "sent", refresh.at # "sent"
      PROVE  refresh'.session \notin exchanged
  <2>1. ASSUME NEW r \in Requests, Unauthorized(r) PROVE refresh'.session \notin exchanged
    BY <1>1, <2>1 DEF Unauthorized, client, Ledger, Fresh
  <2>3. CASE ForceRefresh
    <3>1. cache \notin exchanged
      BY <1>1 DEF Ledger, Fresh
    <3> QED BY <1>1, <2>3, <3>1 DEF ForceRefresh
  <2>2. CASE ~ForceRefresh /\ ~\E r \in Requests : Unauthorized(r)
    <3>1. refresh' = refresh \/ refresh'.at # "sent"
      BY <1>1, <2>2, AbsentFacts
         DEF Next, Send, Answered, Written, RefreshRefused, RefreshGranted, RefreshStored,
             LoginGranted, LoginProceeds, LoginResumes, LoginHooksDone, LoginStored, LogoutBegins,
             LogoutAnswered, LogoutHooksDone, LogoutStored, CleanupHooksDone, CleanupStored,
             Restart, vars, client
    <3> QED BY <1>1, <3>1
  <2> QED BY <2>1, <2>2, <2>3
<1>2. Ledger /\ [Next]_vars
        => [refresh'.at = "sent" /\ refresh.at # "sent" => refresh'.session \notin exchanged]_vars
  BY <1>1
<1> QED BY LedgerKept, <1>2, PTL DEF Spec, SpentOnce
=============================================================================
