------------------------- MODULE TeamDispatch_proofs -------------------------
(* Proofs about TeamDispatch, for any number of dispatches and members and   *)
(* any limits: first the rows and the clean-up, then who runs when (the      *)
(* serial chain, the signals, what cancelAll stops, the budgets).            *)
EXTENDS TeamOrder, FiniteSetTheorems, TLAPS

(* What the row says at each place of run(). *)
Rows ==
  \A d \in Dispatches :
    /\ phase[d] \in {"new", "refused"} => row[d] = "none"
    /\ phase[d] \in {"queued", "executing", "early"} => row[d] = "working"
    /\ phase[d] = "forwarding" => row[d] = "completed"
    /\ phase[d] \in {"settled", "lost"} => row[d] \in Final

(* What the finally of runMember has done. *)
Ended == \A d \in Dispatches :
           phase[d] = "settled" => d \notin controllers /\ d \in aborted

(* run() has been told what a dispatch in progress is about, and what the    *)
(* dispatch whose signal it was given is about.                              *)
Known ==
  \A d \in Dispatches :
    /\ Live(d) => call[d] \in Calls
    /\ call[d] \in Calls /\ call[d].signal # None => call[call[d].signal] \in Calls

(* The inductive invariant. *)
Accounts == TypeOK /\ Rows /\ Ended /\ Known

-----------------------------------------------------------------------------
(* Lemmas *)

LEMMA ReachType == \A S : S \subseteq Dispatches => Reach(S) \subseteq Dispatches
BY DEF Reach

LEMMA ReachGrows == \A S : S \subseteq Reach(S)
BY DEF Reach

(* The signals a new call listens to. *)
LEMMA FollowingType ==
  ASSUME Accounts, NEW s \in Dispatches \cup {None}, s = None \/ call[s] \in Calls
  PROVE  Following(s) \subseteq Dispatches
BY DEF Following, Calls

(* run() of a well-formed call keeps the invariant. *)
LEMMA RunKeeps ==
  ASSUME Accounts, NEW d \in Dispatches, NEW c \in Calls,
         c.signal = None \/ call[c.signal] \in Calls,
         Run(d, c), mentions' \in [Dispatches -> SUBSET Members]
  PROVE  Accounts'
<1> USE DEF Accounts
<1>1. c.signal \in Dispatches \cup {None}
  BY DEF Calls
<1>2. /\ phase[d] = "new" /\ call' = [call EXCEPT ![d] = c]
      /\ UNCHANGED <<shuttingDown, over, stopped, aborted, timedOut>>
  BY DEF Run, control
<1>3. dispatchCount' \in Nat /\ peerCount' \in Nat
  BY DEF Run, Count, TypeOK
<1>4. \/ /\ phase' = [phase EXCEPT ![d] = "refused"]
         /\ UNCHANGED <<row, controllers, previous, marker, ahead>>
      \/ /\ \E p \in {"queued", "executing", "early"} : phase' = [phase EXCEPT ![d] = p]
         /\ row' = [row EXCEPT ![d] = "working"]
         /\ controllers' = controllers \cup {d}
         /\ previous' \in {previous, [previous EXCEPT ![d] = marker]}
         /\ marker' \in {marker, d}
         /\ ahead' \in {ahead, [ahead EXCEPT ![d] = Lane]}
  BY DEF Run, Joins, Arrives, serial
<1>5. TypeOK'
  <2>1. Lane \subseteq Dispatches
    BY DEF Lane
  <2>2. ahead' \in [Dispatches -> SUBSET Dispatches]
    BY <1>4, <2>1 DEF TypeOK
  <2>3. /\ phase' \in [Dispatches -> Phases] /\ controllers' \subseteq Dispatches
        /\ row' \in [Dispatches -> {"none", "working"} \cup Final]
        /\ previous' \in [Dispatches -> Dispatches \cup {None}]
        /\ marker' \in Dispatches \cup {None}
    BY <1>4 DEF TypeOK, Phases
  <2> QED BY <1>2, <1>3, <2>2, <2>3 DEF TypeOK
<1>6. Rows'
  BY <1>2, <1>4 DEF TypeOK, Rows, Final
<1>7. Ended'
  BY <1>2, <1>4 DEF TypeOK, Ended
<1>8. Known'
  <2> SUFFICES ASSUME NEW x \in Dispatches
               PROVE  /\ Live(x)' => call'[x] \in Calls
                      /\ call'[x] \in Calls /\ call'[x].signal # None
                            => call'[call'[x].signal] \in Calls
    BY DEF Known
  <2>1. \A y : call[y] \in Calls => call'[y] \in Calls
    BY <1>2 DEF TypeOK
  <2>2. CASE x = d
    BY <1>1, <1>2, <2>1, <2>2 DEF TypeOK
  <2>3. CASE x # d
    <3>1. call'[x] = call[x] /\ phase'[x] = phase[x]
      BY <1>2, <1>4, <2>3 DEF TypeOK
    <3> QED BY <3>1, <2>1 DEF Known, Live
  <2> QED BY <2>2, <2>3
<1> QED BY <1>5, <1>6, <1>7, <1>8

(* The finally blocks keep the invariant and leave no final row changed but  *)
(* the one they settle.                                                      *)
LEMMA SettleKeeps ==
  ASSUME Accounts, NEW d \in Dispatches, Live(d), NEW v \in Final, Settle(d, v)
  PROVE  Accounts'
<1> USE DEF Accounts
<1>1. aborted \subseteq aborted' /\ d \in aborted' /\ aborted' \subseteq Dispatches
  BY ReachType, ReachGrows DEF Settle, TypeOK
<1>2. /\ phase' = [phase EXCEPT ![d] = "settled"] /\ row' = [row EXCEPT ![d] = v]
      /\ controllers' = controllers \ {d} /\ marker' \in {marker, None}
      /\ UNCHANGED <<shuttingDown, over, stopped, call, timedOut, mentions, previous,
                     ahead, dispatchCount, peerCount>>
  BY DEF Settle, control, budget
<1>3. TypeOK'
  BY <1>1, <1>2 DEF TypeOK, Phases, Final
<1>4. Rows'
  BY <1>2 DEF TypeOK, Rows, Final
<1>5. Ended'
  BY <1>1, <1>2 DEF TypeOK, Ended
<1>6. Known'
  BY <1>2 DEF TypeOK, Known, Live, Progress
<1> QED BY <1>3, <1>4, <1>5, <1>6

-----------------------------------------------------------------------------
(* The tools *)

LEMMA DispatchKeeps ==
  ASSUME Accounts, NEW d \in Dispatches, NEW m \in Members, Dispatch(d, m)
  PROVE  Accounts'
<1> USE DEF Accounts
<1>0. None \notin Dispatches /\ Host \notin Dispatches
  BY DispatchAssumption
<1>1. CASE HostCall(d, m)
  <2> DEFINE c == [member |-> m, caller |-> Host, kind |-> "call", depth |-> 0, hops |-> 1,
                   deadline |-> FALSE, signal |-> None, follows |-> {}]
  <2>1. c \in Calls /\ c.signal = None
    BY DEF Calls, Kinds
  <2>2. Run(d, c) /\ UNCHANGED mentions
    BY <1>1 DEF HostCall
  <2> HIDE DEF c
  <2> QED BY <2>1, <2>2, RunKeeps DEF TypeOK
<1>2. ASSUME NEW k \in {"serial", "batch"}, HostDispatch(d, m, k)
      PROVE  Accounts'
  <2> DEFINE c == [member |-> m, caller |-> Host, kind |-> k, depth |-> 0, hops |-> 0,
                   deadline |-> FALSE, signal |-> None, follows |-> {}]
  <2>1. c \in Calls /\ c.signal = None
    BY DEF Calls, Kinds
  <2>2. Run(d, c) /\ UNCHANGED mentions
    BY <1>2 DEF HostDispatch
  <2> HIDE DEF c
  <2> QED BY <2>1, <2>2, RunKeeps DEF TypeOK
<1>3. ASSUME NEW e \in Dispatches, PeerCall(d, m, e)
      PROVE  Accounts'
  <2> DEFINE c == [member |-> m, caller |-> e, kind |-> "call", depth |-> 0, hops |-> 1,
                   deadline |-> TRUE, signal |-> e, follows |-> Following(e)]
  <2>1. call[e] \in Calls
    BY <1>3 DEF PeerCall, Known, Live, Progress
  <2>2. Following(e) \subseteq Dispatches
    BY <2>1, FollowingType
  <2>3. c \in Calls /\ c.signal = e
    BY <2>2 DEF Calls, Kinds
  <2>4. Run(d, c) /\ UNCHANGED mentions
    BY <1>3 DEF PeerCall
  <2> HIDE DEF c
  <2> QED BY <2>1, <2>3, <2>4, RunKeeps DEF TypeOK
<1>4. ASSUME NEW e \in Dispatches, NEW k \in {"serial", "batch"}, NestedDispatch(d, m, k, e)
      PROVE  Accounts'
  <2> DEFINE c == [member |-> m, caller |-> e, kind |-> k, depth |-> call[e].depth + 1,
                   hops |-> 0, deadline |-> TRUE, signal |-> None, follows |-> {}]
  <2>1. call[e] \in Calls
    BY <1>4 DEF NestedDispatch, Known, Live, Progress
  <2>2. call[e].depth + 1 \in Nat
    BY <2>1 DEF Calls
  <2>3. c \in Calls /\ c.signal = None
    BY <2>2 DEF Calls, Kinds
  <2>4. Run(d, c) /\ UNCHANGED mentions
    BY <1>4 DEF NestedDispatch
  <2> HIDE DEF c
  <2> QED BY <2>3, <2>4, RunKeeps DEF TypeOK
<1> QED BY <1>1, <1>2, <1>3, <1>4 DEF Dispatch

-----------------------------------------------------------------------------
(* runMember *)

LEMMA ProceedKeeps ==
  ASSUME Accounts, NEW d \in Dispatches, Proceed(d)
  PROVE  Accounts'
<1> USE DEF Accounts
<1>1. CASE StartQueued(d)
  <2>1. Live(d) /\ "canceled" \in Final
    BY <1>1 DEF StartQueued, Live, Progress, Final
  <2>2. CASE Settle(d, "canceled")
    BY <2>1, <2>2, SettleKeeps
  <2>3. CASE ~Settle(d, "canceled")
    <3>1. /\ phase[d] = "queued" /\ phase' = [phase EXCEPT ![d] = "executing"]
          /\ UNCHANGED <<shuttingDown, over, stopped, call, controllers, aborted, timedOut,
                         mentions, previous, marker, ahead, dispatchCount, peerCount, row>>
      BY <1>1, <2>3 DEF StartQueued, control, serial, budget
    <3>2. TypeOK' /\ Rows' /\ Ended'
      BY <3>1 DEF TypeOK, Phases, Rows, Ended
    <3>3. Known'
      BY <3>1 DEF TypeOK, Known, Live, Progress
    <3> QED BY <3>2, <3>3
  <2> QED BY <2>2, <2>3
<1>2. CASE ForwardingEnds(d)
  <2>1. phase[d] = "forwarding" /\ Settle(d, row[d])
    BY <1>2 DEF ForwardingEnds, Idle
  <2>2. Live(d) /\ row[d] \in Final
    BY <2>1 DEF Live, Progress, Rows, Final
  <2> QED BY <2>1, <2>2, SettleKeeps
<1>3. ASSUME NEW m \in Members, SkipMention(d, m)
      PROVE  Accounts'
  <2>1. /\ mentions' = [mentions EXCEPT ![d] = @ \ {m}]
        /\ UNCHANGED <<shuttingDown, over, stopped, phase, call, controllers, aborted,
                       timedOut, previous, marker, ahead, dispatchCount, peerCount, row>>
    BY <1>3 DEF SkipMention, control, serial, budget
  <2> QED BY <2>1 DEF TypeOK, Rows, Ended, Known, Live
<1>4. ASSUME NEW m \in Members, NEW f \in Dispatches, Forward(d, m, f)
      PROVE  Accounts'
  <2> DEFINE e == call[d]
             c == [member |-> m, caller |-> d, kind |-> "forward", depth |-> 0,
                   hops |-> e.hops + 1, deadline |-> e.deadline, signal |-> e.signal,
                   follows |-> Following(e.signal)]
  <2>1. e \in Calls
    BY <1>4 DEF Forward, Idle, Known, Live, Progress
  <2>2. e.signal \in Dispatches \cup {None} /\ (e.signal = None \/ call[e.signal] \in Calls)
    BY <2>1 DEF Calls, Known
  <2>3. Following(e.signal) \subseteq Dispatches
    BY <2>2, FollowingType
  <2>4. e.hops + 1 \in Nat /\ e.deadline \in BOOLEAN
    BY <2>1 DEF Calls
  <2>5. c \in Calls /\ c.signal = e.signal
    BY <2>2, <2>3, <2>4 DEF Calls, Kinds
  <2>6. Run(f, c) /\ mentions' \in [Dispatches -> SUBSET Members]
    BY <1>4 DEF Forward, TypeOK
  <2> HIDE DEF c
  <2> QED BY <2>2, <2>5, <2>6, RunKeeps
<1> QED BY <1>1, <1>2, <1>3, <1>4 DEF Proceed

LEMMA MemberKeeps ==
  ASSUME Accounts, NEW d \in Dispatches, Timeout(d) \/ MemberStops(d) \/ MemberReplies(d)
  PROVE  Accounts'
<1> USE DEF Accounts
<1>1. CASE Timeout(d)
  <2>1. aborted \subseteq aborted' /\ aborted' \subseteq Dispatches
    BY <1>1, ReachType, ReachGrows DEF Timeout, TypeOK
  <2>2. /\ timedOut' = timedOut \cup {d}
        /\ UNCHANGED <<shuttingDown, over, stopped, phase, call, controllers, mentions,
                       previous, marker, ahead, dispatchCount, peerCount, row>>
    BY <1>1 DEF Timeout, control, serial, budget
  <2> QED BY <2>1, <2>2 DEF TypeOK, Rows, Ended, Known, Live
<1>2. CASE MemberStops(d)
  <2>1. Live(d) /\ Verdict(d) \in Final /\ Settle(d, Verdict(d))
    BY <1>2 DEF MemberStops, Live, Progress, Verdict, Final
  <2> QED BY <2>1, SettleKeeps
<1>3. CASE MemberReplies(d)
  <2>1. phase[d] = "executing" /\ Live(d) /\ "completed" \in Final
    BY <1>3 DEF MemberReplies, Live, Progress, Final
  <2>2. CASE Settle(d, "completed")
    BY <2>1, <2>2, SettleKeeps
  <2>3. CASE ~Settle(d, "completed")
    <3>1. /\ phase' = [phase EXCEPT ![d] = "forwarding"]
          /\ row' = [row EXCEPT ![d] = "completed"]
          /\ \E ms \in SUBSET Members : mentions' = [mentions EXCEPT ![d] = ms]
          /\ UNCHANGED <<shuttingDown, over, stopped, call, controllers, aborted, timedOut,
                         previous, marker, ahead, dispatchCount, peerCount>>
      BY <1>3, <2>3 DEF MemberReplies, control, serial, budget
    <3>2. TypeOK'
      BY <3>1 DEF TypeOK, Phases, Final
    <3>3. Rows' /\ Ended'
      BY <2>1, <3>1 DEF TypeOK, Rows, Ended
    <3>4. Known'
      BY <2>1, <3>1 DEF TypeOK, Known, Live, Progress
    <3> QED BY <3>2, <3>3, <3>4
  <2> QED BY <2>2, <2>3
<1> QED BY <1>1, <1>2, <1>3

-----------------------------------------------------------------------------
(* Cancellation, the end of the turn, shutdown, the next launch *)

LEMMA CancelKeeps ==
  ASSUME Accounts, CancelAll \/ ShutDown
  PROVE  Accounts'
<1> USE DEF Accounts
<1>1. aborted \subseteq aborted' /\ aborted' \subseteq Dispatches /\ controllers' = {}
  BY ReachType, ReachGrows DEF CancelAll, ShutDown, AbortAll, TypeOK
<1>2. /\ stopped' \subseteq Dispatches /\ shuttingDown' \in BOOLEAN
      /\ UNCHANGED <<over, phase, call, timedOut, mentions, previous, marker, ahead,
                     dispatchCount, peerCount, row>>
  BY DEF CancelAll, ShutDown, serial, budget, TypeOK
<1> QED BY <1>1, <1>2 DEF TypeOK, Rows, Ended, Known, Live

LEMMA ClearTurnKeeps ==
  ASSUME Accounts, ClearTurn
  PROVE  Accounts'
BY DEF Accounts, ClearTurn, TypeOK, Rows, Ended, Known, Live

LEMMA RestartKeeps ==
  ASSUME Accounts, Restart
  PROVE  Accounts'
<1> USE DEF Accounts
<1>1. /\ phase' = [d \in Dispatches |-> IF row[d] = "none" THEN phase[d] ELSE "lost"]
      /\ row' = [d \in Dispatches |-> IF row[d] = "working" THEN "failed" ELSE row[d]]
      /\ call' = [d \in Dispatches |-> NoCall]
  BY DEF Restart, Reclaim
<1>2. TypeOK'
  <2>1. /\ shuttingDown' = FALSE /\ over' = TRUE
        /\ stopped' = {} /\ controllers' = {} /\ aborted' = {} /\ timedOut' = {}
        /\ mentions' = [d \in Dispatches |-> {}]
        /\ previous' = [d \in Dispatches |-> None] /\ marker' = None
        /\ ahead' = [d \in Dispatches |-> {}]
        /\ dispatchCount' = 0 /\ peerCount' = 0
    BY DEF Restart
  <2>2. call' \in [Dispatches -> Calls \cup {NoCall}]
    BY <1>1
  <2>3. phase' \in [Dispatches -> Phases]
    BY <1>1 DEF TypeOK, Phases
  <2>4. row' \in [Dispatches -> {"none", "working"} \cup Final]
    BY <1>1 DEF TypeOK, Final
  <2> QED BY <2>1, <2>2, <2>3, <2>4 DEF TypeOK
<1>3. \A d \in Dispatches : row[d] = "none" => phase[d] \in {"new", "refused"}
  BY DEF TypeOK, Phases, Rows, Final
<1>4. Rows' /\ Ended'
  BY <1>1, <1>3 DEF TypeOK, Rows, Ended, Final
<1>5. Known'
  <2>1. NoCall \notin Calls
    BY DispatchAssumption DEF NoCall, Calls
  <2> QED BY <1>1, <1>3, <2>1 DEF Known, Live, Progress
<1> QED BY <1>2, <1>4, <1>5

LEMMA InitAccounts == Init => Accounts
<1> SUFFICES ASSUME Init PROVE Accounts
  OBVIOUS
<1>1. TypeOK
  BY DEF Init, TypeOK, Phases
<1>2. NoCall \notin Calls
  BY DispatchAssumption DEF NoCall, Calls
<1>3. Rows /\ Ended /\ Known
  BY <1>2 DEF Init, Rows, Ended, Known, Live, Progress
<1> QED BY <1>1, <1>3 DEF Accounts

LEMMA NextAccounts == Accounts /\ [Next]_vars => Accounts'
<1> SUFFICES ASSUME Accounts, [Next]_vars PROVE Accounts'
  OBVIOUS
<1>1. ASSUME NEW d \in Dispatches, NEW m \in Members, Dispatch(d, m) PROVE Accounts'
  BY <1>1, DispatchKeeps
<1>2. ASSUME NEW d \in Dispatches, Proceed(d) PROVE Accounts'
  BY <1>2, ProceedKeeps
<1>3. ASSUME NEW d \in Dispatches, Timeout(d) \/ MemberStops(d) \/ MemberReplies(d)
      PROVE  Accounts'
  BY <1>3, MemberKeeps
<1>4. CASE CancelAll \/ ShutDown
  BY <1>4, CancelKeeps
<1>5. CASE ClearTurn
  BY <1>5, ClearTurnKeeps
<1>6. CASE Restart
  BY <1>6, RestartKeeps
<1>7. CASE UNCHANGED vars
  BY <1>7 DEF vars, control, serial, budget, Accounts, TypeOK, Rows, Ended, Known, Live
<1> QED BY <1>1, <1>2, <1>3, <1>4, <1>5, <1>6, <1>7 DEF Next

(* TeamDispatchService keeps its rows, controllers and calls in agreement. *)
THEOREM AccountsAlways == Spec => []Accounts
BY InitAccounts, NextAccounts, PTL DEF Spec

(* Every reachable state has the declared types. *)
THEOREM TypeCorrect == Spec => []TypeOK
<1>1. Accounts => TypeOK
  BY DEF Accounts
<1> QED BY <1>1, AccountsAlways, PTL

(* The finally of runMember leaves no dispatch half settled: a settled one   *)
(* has a final row, no controller in the map and an aborted signal.          *)
THEOREM SettledClean == Spec => []SettledIsClean
<1>1. Accounts => SettledIsClean
  BY DEF Accounts, Rows, Ended, SettledIsClean
<1> QED BY <1>1, AccountsAlways, PTL

-----------------------------------------------------------------------------
(* Rows that are final *)

(* A step rewrites the row of a dispatch that has none (run), that works     *)
(* (the end of runMember, markStaleAsFailed), or with what it holds.         *)
LEMMA RowWrites ==
  ASSUME Accounts, Next
  PROVE  \/ row' = row
         \/ \E d \in Dispatches, v \in {"working"} \cup Final :
              /\ row' = [row EXCEPT ![d] = v]
              /\ row[d] \in {"none", "working", v}
         \/ row' = [d \in Dispatches |-> IF row[d] = "working" THEN "failed" ELSE row[d]]
<1> USE DEF Accounts
<1> DEFINE Written(d, v) == /\ row' = [row EXCEPT ![d] = v]
                            /\ row[d] \in {"none", "working", v}
           Goal == \/ row' = row
                   \/ \E d \in Dispatches, v \in {"working"} \cup Final : Written(d, v)
                   \/ row' = [d \in Dispatches |->
                                IF row[d] = "working" THEN "failed" ELSE row[d]]
<1> SUFFICES Goal
  OBVIOUS
<1>0. ASSUME NEW d \in Dispatches, NEW c, Run(d, c) PROVE Goal
  <2>1. phase[d] = "new" /\ (row' = row \/ row' = [row EXCEPT ![d] = "working"])
    BY <1>0 DEF Run
  <2>2. row[d] = "none"
    BY <2>1 DEF Rows
  <2> QED BY <2>1, <2>2
<1>1. ASSUME NEW d \in Dispatches, NEW m \in Members, Dispatch(d, m) PROVE Goal
  <2>1. \E c : Run(d, c)
    BY <1>1 DEF Dispatch, HostCall, HostDispatch, PeerCall, NestedDispatch
  <2> HIDE DEF Goal
  <2> QED BY <2>1, <1>0
<1>2. ASSUME NEW d \in Dispatches, Proceed(d) PROVE Goal
  <2>1. CASE StartQueued(d)
    <3>1. row[d] = "working"
      BY <2>1 DEF StartQueued, Rows
    <3>2. row' = row \/ row' = [row EXCEPT ![d] = "canceled"]
      BY <2>1 DEF StartQueued, Settle
    <3> QED BY <3>1, <3>2 DEF Final
  <2>2. CASE ForwardingEnds(d)
    <3>1. row' = [row EXCEPT ![d] = row[d]]
      BY <2>2 DEF ForwardingEnds, Settle
    <3> QED BY <3>1 DEF TypeOK
  <2>3. ASSUME NEW m \in Members, SkipMention(d, m) PROVE Goal
    BY <2>3 DEF SkipMention
  <2>4. ASSUME NEW m \in Members, NEW f \in Dispatches, Forward(d, m, f) PROVE Goal
    <3>1. \E c : Run(f, c)
      BY <2>4 DEF Forward
    <3> HIDE DEF Goal
    <3> QED BY <3>1, <1>0
  <2> HIDE DEF Goal
  <2> QED BY <1>2, <2>1, <2>2, <2>3, <2>4 DEF Proceed
<1>3. ASSUME NEW d \in Dispatches, Timeout(d) PROVE Goal
  BY <1>3 DEF Timeout
<1>4. ASSUME NEW d \in Dispatches, MemberStops(d) \/ MemberReplies(d) PROVE Goal
  <2>1. row[d] = "working"
    BY <1>4 DEF MemberStops, MemberReplies, Rows
  <2>2. \E v \in Final : row' = [row EXCEPT ![d] = v]
    BY <1>4 DEF MemberStops, MemberReplies, Settle, Verdict, Final
  <2> QED BY <2>1, <2>2
<1>5. CASE CancelAll \/ ShutDown \/ ClearTurn
  BY <1>5 DEF CancelAll, ShutDown, ClearTurn
<1>6. CASE Restart
  BY <1>6 DEF Restart, Reclaim
<1> HIDE DEF Goal
<1> QED BY <1>1, <1>2, <1>3, <1>4, <1>5, <1>6 DEF Next

(* No late timeout, no cancelAll and no markStaleAsFailed rewrites the row   *)
(* of a dispatch that has ended.                                             *)
THEOREM FinalRows == Spec => FinalRowsStay
<1> DEFINE Stay == \A d \in Dispatches : row[d] \in Final => row'[d] = row[d]
<1>1. Accounts /\ [Next]_vars => [Stay]_vars
  <2> SUFFICES ASSUME Accounts, Next PROVE Stay
    OBVIOUS
  <2>1. row \in [Dispatches -> {"none", "working"} \cup Final]
    BY DEF Accounts, TypeOK
  <2> QED BY <2>1, RowWrites DEF Final
<1>2. Spec => [][Stay]_vars
  <2> HIDE DEF Stay
  <2> QED BY <1>1, AccountsAlways, PTL DEF Spec
<1> QED BY <1>2 DEF FinalRowsStay

-----------------------------------------------------------------------------
(* Who runs when *)

(* enqueueTurnExecution builds a chain: everyone awaits another one that     *)
(* has been called before, no chain of awaiting is closed, the marker is its *)
(* end, and the head is alone.                                               *)
Chain ==
  /\ \A d \in Lane : previous[d] # None =>
        /\ Serial(previous[d]) /\ phase[previous[d]] # "new"
        /\ \A e \in Lane : previous[e] = previous[d] => e = d
  /\ \A S \in SUBSET Lane : S # {} => \E d \in S : previous[d] \notin S
  /\ marker # None => marker \in Lane /\ \A d \in Lane : previous[d] # marker
  /\ ~over /\ marker = None => Lane = {}
  /\ \A d \in Lane : phase[d] # "queued" => Turn(d)
  /\ \A d, e \in Lane : Turn(d) /\ Turn(e) => d = e

(* The dispatches a serial one found before it are gone when its turn comes. *)
Line ==
  /\ \A d \in Lane : /\ Turn(d) => \A e \in ahead[d] : Returned(e)
                     /\ previous[d] # None => ahead[d] \subseteq ahead[previous[d]] \cup {previous[d]}
  /\ marker # None => Lane \subseteq ahead[marker] \cup {marker}
  /\ \A d \in Dispatches : \A e \in ahead[d] : phase[e] \notin {"new", "refused"}

(* A dispatch waits for an older one in the chain and a member for younger   *)
(* peers, none of which is in the chain.                                     *)
PeerOf(d, e) == call[e] # NoCall /\ IsPeer(call[e]) /\ call[e].caller = d

Ages ==
  /\ \A d \in Dispatches :
       /\ phase[d] = "queued" => Serial(d) /\ (previous[d] # None => phase[previous[d]] # "new")
       /\ call[d] # NoCall /\ call[d].caller # Host => phase[call[d].caller] # "new"
  /\ marker # None => phase[marker] # "new"
  /\ \A S \in SUBSET {d \in Dispatches : phase[d] = "queued"} :
       S # {} => \E d \in S : previous[d] \notin S
  /\ \A S \in SUBSET Dispatches : S # {} => \E d \in S : \A e \in S : ~PeerOf(d, e)

(* A dispatch in progress can be aborted or is, its signal is that of one    *)
(* that has begun, and when cancelAll stopped it, it is aborted.             *)
Signals ==
  /\ \A d \in Dispatches :
       Live(d) => /\ d \in controllers \cup aborted
                  /\ call[d].signal # None => phase[call[d].signal] \in Progress \cup {"settled"}
  /\ \A d \in stopped : phase[d] # "new" /\ (phase[d] = "queued" => d \in aborted)

(* The dispatches that were accepted, of each budget. *)
Peers  == {d \in Dispatches : row[d] # "none" /\ call[d] # NoCall /\ IsPeer(call[d])}
Others == {d \in Dispatches : row[d] # "none" /\ call[d] # NoCall /\ ~IsPeer(call[d])}

(* The counters count at least those. *)
Counted ==
  ~over => /\ Cardinality(Others) <= dispatchCount /\ Cardinality(Others) <= MaxDispatchesPerTurn
           /\ Cardinality(Peers) <= peerCount /\ Cardinality(Peers) <= MaxPeerCallsPerTurn

-----------------------------------------------------------------------------
(* What a step does *)

(* run() of c begins. *)
Begins(d, c) ==
  /\ Run(d, c)
  /\ c.kind = "serial" /\ ~AllowNesting => ~over
  /\ c.signal # None => phase[c.signal] \in Progress \cup {"settled"}
  /\ c.follows = Following(c.signal)
  /\ c.caller # Host => phase[c.caller] \in Progress

(* A dispatch goes on without ending. *)
Advances(d) ==
  /\ \/ phase[d] = "queued" /\ Turn(d) /\ d \notin aborted
        /\ phase' = [phase EXCEPT ![d] = "executing"] /\ row' = row
     \/ phase[d] = "executing" /\ phase' = [phase EXCEPT ![d] = "forwarding"]
        /\ row' = [row EXCEPT ![d] = "completed"]
  /\ UNCHANGED <<control, call, controllers, aborted, serial, budget>>

(* A dispatch ends. *)
Ends(d) ==
  /\ Live(d)
  /\ phase[d] = "queued" => Turn(d)
  /\ \E v \in Final : /\ Settle(d, v)
                      /\ phase[d] = "queued" => v = "canceled"
                      /\ row[d] \in Final => v = row[d]

(* Signals are aborted, or nothing happens. *)
Aborts ==
  /\ UNCHANGED <<over, phase, call, serial, budget, row>>
  /\ aborted \subseteq aborted'
  /\ \/ UNCHANGED <<stopped, controllers>>
     \/ controllers \subseteq aborted' /\ stopped' = {d \in Dispatches : Live(d)}

LEMMA Steps ==
  ASSUME Accounts, Signals, [Next]_vars
  PROVE  \/ \E d \in Dispatches : (\E c \in Calls : Begins(d, c)) \/ Advances(d) \/ Ends(d)
         \/ Aborts \/ ClearTurn \/ Restart
<1> DEFINE Goal == \/ \E d \in Dispatches :
                        (\E c \in Calls : Begins(d, c)) \/ Advances(d) \/ Ends(d)
                   \/ Aborts \/ ClearTurn \/ Restart
<1> SUFFICES Goal
  OBVIOUS
<1>0. None \notin Dispatches /\ Host \notin Dispatches
  BY DispatchAssumption
<1>1. ASSUME NEW d \in Dispatches, NEW m \in Members, Dispatch(d, m) PROVE Goal
  <2>1. CASE HostCall(d, m)
    <3> DEFINE c == [member |-> m, caller |-> Host, kind |-> "call", depth |-> 0, hops |-> 1,
                     deadline |-> FALSE, signal |-> None, follows |-> {}]
    <3>1. /\ c \in Calls /\ c.signal = None /\ c.follows = {} /\ c.kind = "call"
          /\ c.caller = Host
      BY DEF Calls, Kinds
    <3>2. Run(d, c)
      BY <2>1 DEF HostCall
    <3> HIDE DEF c
    <3> QED BY <3>1, <3>2 DEF Begins, Following
  <2>2. ASSUME NEW k \in {"serial", "batch"}, HostDispatch(d, m, k) PROVE Goal
    <3> DEFINE c == [member |-> m, caller |-> Host, kind |-> k, depth |-> 0, hops |-> 0,
                     deadline |-> FALSE, signal |-> None, follows |-> {}]
    <3>1. c \in Calls /\ c.signal = None /\ c.follows = {} /\ c.caller = Host
      BY DEF Calls, Kinds
    <3>2. Run(d, c) /\ ~over
      BY <2>2 DEF HostDispatch
    <3> HIDE DEF c
    <3> QED BY <3>1, <3>2 DEF Begins, Following
  <2>3. ASSUME NEW e \in Dispatches, PeerCall(d, m, e) PROVE Goal
    <3> DEFINE c == [member |-> m, caller |-> e, kind |-> "call", depth |-> 0, hops |-> 1,
                     deadline |-> TRUE, signal |-> e, follows |-> Following(e)]
    <3>1. call[e] \in Calls /\ phase[e] \in Progress
      BY <2>3 DEF PeerCall, Accounts, Known, Live, Progress
    <3>2. Following(e) \subseteq Dispatches
      BY <3>1, FollowingType
    <3>3. /\ c \in Calls /\ c.signal = e /\ c.follows = Following(e) /\ c.kind = "call"
          /\ c.caller = e
      BY <3>2 DEF Calls, Kinds
    <3>4. Run(d, c)
      BY <2>3 DEF PeerCall
    <3> HIDE DEF c
    <3> QED BY <3>1, <3>3, <3>4 DEF Begins
  <2>4. ASSUME NEW e \in Dispatches, NEW k \in {"serial", "batch"}, NestedDispatch(d, m, k, e)
        PROVE Goal
    <3> DEFINE c == [member |-> m, caller |-> e, kind |-> k, depth |-> call[e].depth + 1,
                     hops |-> 0, deadline |-> TRUE, signal |-> None, follows |-> {}]
    <3>1. call[e] \in Calls /\ phase[e] \in Progress
      BY <2>4 DEF NestedDispatch, Accounts, Known, Live, Progress
    <3>2. call[e].depth + 1 \in Nat
      BY <3>1 DEF Calls
    <3>3. c \in Calls /\ c.signal = None /\ c.follows = {} /\ c.caller = e
      BY <3>2 DEF Calls, Kinds
    <3>4. Run(d, c) /\ AllowNesting
      BY <2>4 DEF NestedDispatch
    <3> HIDE DEF c
    <3> QED BY <3>1, <3>3, <3>4 DEF Begins, Following
  <2> HIDE DEF Goal
  <2> QED BY <1>1, <2>1, <2>2, <2>3, <2>4 DEF Dispatch
<1>2. ASSUME NEW d \in Dispatches, Proceed(d) PROVE Goal
  <2>1. CASE StartQueued(d)
    <3>1. Live(d) /\ "canceled" \in Final /\ row[d] \notin Final
      BY <2>1 DEF StartQueued, Live, Progress, Accounts, Rows, Final
    <3> QED BY <2>1, <3>1 DEF StartQueued, Ends, Advances
  <2>2. CASE ForwardingEnds(d)
    <3>1. phase[d] = "forwarding" /\ Settle(d, row[d])
      BY <2>2 DEF ForwardingEnds, Idle
    <3>2. Live(d) /\ row[d] \in Final
      BY <3>1 DEF Live, Progress, Accounts, Rows, Final
    <3> QED BY <3>1, <3>2 DEF Ends
  <2>3. ASSUME NEW m \in Members, SkipMention(d, m) PROVE Goal
    BY <2>3 DEF SkipMention, Aborts, control
  <2>4. ASSUME NEW m \in Members, NEW f \in Dispatches, Forward(d, m, f) PROVE Goal
    <3> DEFINE e == call[d]
               c == [member |-> m, caller |-> d, kind |-> "forward", depth |-> 0,
                     hops |-> e.hops + 1, deadline |-> e.deadline, signal |-> e.signal,
                     follows |-> Following(e.signal)]
    <3>1. e \in Calls /\ Live(d)
      BY <2>4 DEF Forward, Idle, Accounts, Known, Live, Progress
    <3>2. e.signal \in Dispatches \cup {None} /\ (e.signal = None \/ call[e.signal] \in Calls)
      BY <3>1 DEF Calls, Accounts, Known
    <3>3. Following(e.signal) \subseteq Dispatches
      BY <3>2, FollowingType
    <3>4. e.hops + 1 \in Nat /\ e.deadline \in BOOLEAN
      BY <3>1 DEF Calls
    <3>5. /\ c \in Calls /\ c.signal = e.signal /\ c.kind = "forward"
          /\ c.follows = Following(e.signal) /\ c.caller = d
      BY <3>2, <3>3, <3>4 DEF Calls, Kinds
    <3>6. Run(f, c)
      BY <2>4 DEF Forward
    <3>7. e.signal # None => phase[e.signal] \in Progress \cup {"settled"}
      BY <3>1 DEF Signals
    <3> HIDE DEF c
    <3> QED BY <3>1, <3>5, <3>6, <3>7 DEF Begins, Live
  <2> HIDE DEF Goal
  <2> QED BY <1>2, <2>1, <2>2, <2>3, <2>4 DEF Proceed
<1>3. ASSUME NEW d \in Dispatches, Timeout(d) PROVE Goal
  BY <1>3 DEF Timeout, Aborts, control
<1>4. ASSUME NEW d \in Dispatches, MemberStops(d) PROVE Goal
  <2>1. /\ Live(d) /\ Verdict(d) \in Final /\ Settle(d, Verdict(d))
        /\ phase[d] = "executing" /\ row[d] \notin Final
    BY <1>4 DEF MemberStops, Live, Progress, Verdict, Accounts, Rows, Final
  <2> QED BY <2>1 DEF Ends
<1>5. ASSUME NEW d \in Dispatches, MemberReplies(d) PROVE Goal
  <2>1. phase[d] = "executing" /\ Live(d) /\ "completed" \in Final /\ row[d] \notin Final
    BY <1>5 DEF MemberReplies, Live, Progress, Accounts, Rows, Final
  <2> QED BY <1>5, <2>1 DEF MemberReplies, Ends, Advances, serial, budget, control
<1>6. CASE CancelAll \/ ShutDown
  BY <1>6, ReachGrows DEF CancelAll, ShutDown, AbortAll, Aborts, serial, budget
<1>7. CASE ClearTurn \/ Restart
  BY <1>7
<1>8. CASE UNCHANGED vars
  BY <1>8 DEF vars, Aborts, control
<1> HIDE DEF Goal
<1> QED BY <1>1, <1>2, <1>3, <1>4, <1>5, <1>6, <1>7, <1>8 DEF Next

-----------------------------------------------------------------------------
(* Signals *)

(* What a Begins leaves of the other dispatches. *)
LEMMA BeginsOthers ==
  ASSUME Accounts, NEW d \in Dispatches, NEW c \in Calls, Begins(d, c)
  PROVE  /\ phase[d] = "new" /\ row[d] = "none" /\ ~Live(d)
         /\ call' = [call EXCEPT ![d] = c]
         /\ phase'[d] \in {"refused", "queued", "executing", "early"}
         /\ phase'[d] # "refused" => d \in controllers'
         /\ \A e \in Dispatches \ {d} :
              phase'[e] = phase[e] /\ call'[e] = call[e] /\ row'[e] = row[e]
         /\ controllers \subseteq controllers' /\ aborted' = aborted
         /\ over' = over /\ stopped' = stopped
BY DEF Begins, Run, Queues, Joins, serial, control, Accounts, TypeOK, Rows, Live, Progress

(* What Ends leaves of the other dispatches. *)
LEMMA EndsOthers ==
  ASSUME Accounts, NEW d \in Dispatches, Ends(d)
  PROVE  /\ phase'[d] = "settled" /\ ~Live(d)' /\ call' = call
         /\ \A e \in Dispatches \ {d} : phase'[e] = phase[e] /\ row'[e] = row[e]
         /\ row[d] # "none" /\ row'[d] # "none"
         /\ controllers' = controllers \ {d}
         /\ aborted' = aborted \cup Reach({d})
         /\ over' = over /\ stopped' = stopped /\ previous' = previous
         /\ marker' = IF marker = d THEN None ELSE marker
         /\ dispatchCount' = dispatchCount /\ peerCount' = peerCount
<1>1. PICK v \in Final : Settle(d, v)
  BY DEF Ends
<1>2. row[d] # "none" /\ v # "none"
  BY DEF Ends, Accounts, Rows, Live, Progress, Final
<1> QED BY <1>1, <1>2 DEF Settle, control, budget, Accounts, TypeOK, Live, Progress

LEMMA AdvancesOthers ==
  ASSUME Accounts, NEW d \in Dispatches, Advances(d)
  PROVE  /\ Live(d) /\ Live(d)' /\ phase'[d] # "queued" /\ call' = call
         /\ \A e \in Dispatches \ {d} : phase'[e] = phase[e] /\ row'[e] = row[e]
         /\ row[d] # "none" /\ row'[d] # "none"
         /\ phase'[d] = "executing" => phase[d] = "queued" /\ d \notin aborted
BY DEF Advances, Accounts, TypeOK, Rows, Live, Progress

LEMMA RestartLeaves ==
  ASSUME Accounts, Restart
  PROVE  /\ \A d \in Dispatches : ~Live(d)' /\ call'[d] = NoCall
         /\ stopped' = {} /\ over' = TRUE /\ marker' = None
<1>1. \A d \in Dispatches : row[d] = "none" => phase[d] \in {"new", "refused"}
  BY DEF Accounts, TypeOK, Phases, Rows, Final
<1> QED BY <1>1 DEF Restart, Live, Progress

LEMMA SignalsKept ==
  ASSUME Accounts, Accounts', Signals, [Next]_vars
  PROVE  Signals'
<1> DEFINE S1(d) == Live(d) => /\ d \in controllers \cup aborted
                               /\ call[d].signal # None
                                    => phase[call[d].signal] \in Progress \cup {"settled"}
           S2 == \A d \in stopped : phase[d] # "new" /\ (phase[d] = "queued" => d \in aborted)
<1>a. stopped \subseteq Dispatches
  BY DEF Accounts, TypeOK
<1>b. \A d \in Dispatches : Live(d) => call[d].signal \in Dispatches \cup {None}
  BY DEF Accounts, Known, Calls
<1>1. ASSUME NEW d \in Dispatches, NEW c \in Calls, Begins(d, c) PROVE Signals'
  <2>1. c.signal \in Dispatches \cup {None} /\ c.signal # d
    BY <1>1, BeginsOthers, DispatchAssumption DEF Calls, Begins, Progress
  <2>2. \A x \in Dispatches : phase[x] \in Progress \cup {"settled"}
                                => phase'[x] \in Progress \cup {"settled"}
    BY <1>1, BeginsOthers DEF Progress
  <2>3. ASSUME NEW e \in Dispatches PROVE S1(e)'
    <3>1. CASE e = d
      <4>1. call'[d] = c
        BY <1>1, BeginsOthers DEF Accounts, TypeOK
      <4>2. Live(d)' => d \in controllers'
        BY <1>1, BeginsOthers DEF Live, Progress
      <4>3. c.signal # None => phase'[c.signal] \in Progress \cup {"settled"}
        BY <1>1, <2>1, <2>2 DEF Begins
      <4> QED BY <3>1, <4>1, <4>2, <4>3
    <3>2. CASE e # d
      BY <1>1, <1>b, <2>2, <3>2, BeginsOthers DEF Signals, Live
    <3> QED BY <3>1, <3>2
  <2>4. S2'
    BY <1>1, <1>a, BeginsOthers DEF Signals
  <2> QED BY <2>3, <2>4 DEF Signals
<1>2. ASSUME NEW d \in Dispatches, Advances(d) PROVE Signals'
  <2>1. \A e \in Dispatches : Live(e)' => Live(e)
    BY <1>2, AdvancesOthers DEF Live
  <2>2. \A x \in Dispatches : phase[x] \in Progress \cup {"settled"}
                                => phase'[x] \in Progress \cup {"settled"}
    BY <1>2, AdvancesOthers DEF Live
  <2>3. UNCHANGED <<call, controllers, aborted, stopped>>
    BY <1>2 DEF Advances, control
  <2>4. \A e \in Dispatches : S1(e)'
    BY <1>b, <2>1, <2>2, <2>3 DEF Signals
  <2>5. S2'
    BY <1>2, <1>a, <2>3, AdvancesOthers DEF Signals, Live, Progress
  <2> QED BY <2>4, <2>5 DEF Signals
<1>3. ASSUME NEW d \in Dispatches, Ends(d) PROVE Signals'
  <2>1. \A e \in Dispatches : Live(e)' => Live(e) /\ e # d
    BY <1>3, EndsOthers DEF Live
  <2>2. \A x \in Dispatches : phase[x] \in Progress \cup {"settled"}
                                => phase'[x] \in Progress \cup {"settled"}
    BY <1>3, EndsOthers
  <2>3. \A e \in Dispatches : S1(e)'
    BY <1>3, <1>b, <2>1, <2>2, EndsOthers DEF Signals
  <2>4. S2'
    BY <1>3, <1>a, EndsOthers DEF Signals
  <2> QED BY <2>3, <2>4 DEF Signals
<1>4. CASE Aborts
  <2>1. \A e \in Dispatches : S1(e)'
    BY <1>4 DEF Aborts, Signals, Live
  <2>2. S2'
    BY <1>4, <1>a DEF Aborts, Signals, Live, Progress
  <2> QED BY <2>1, <2>2 DEF Signals
<1>5. CASE ClearTurn
  BY <1>5 DEF ClearTurn, Signals, Live
<1>6. CASE Restart
  BY <1>6, RestartLeaves DEF Signals
<1> QED BY <1>1, <1>2, <1>3, <1>4, <1>5, <1>6, Steps

LEMMA GoneKept ==
  ASSUME Accounts, Accounts', Signals, NobodyRunsForTheGone, [Next]_vars
  PROVE  NobodyRunsForTheGone'
<1> DEFINE G(d) == Live(d) => \A c \in call[d].follows : phase[c] = "settled" => d \in aborted
<1>a. \A d \in Dispatches : Live(d) => call[d].follows \subseteq Dispatches
  BY DEF Accounts, Known, Calls
<1>1. ASSUME NEW d \in Dispatches, NEW c \in Calls, Begins(d, c) PROVE NobodyRunsForTheGone'
  <2>1. ASSUME NEW e \in Dispatches, e # d PROVE G(e)'
    BY <1>1, <1>a, <2>1, BeginsOthers DEF NobodyRunsForTheGone, Live
  <2>2. G(d)'
    <3>1. call'[d] = c /\ c.follows = Following(c.signal) /\ c.follows \subseteq Dispatches
      BY <1>1, BeginsOthers DEF Begins, Accounts, TypeOK, Calls
    <3>2. \A x \in c.follows : phase[x] # "settled"
      <4>1. SUFFICES ASSUME c.signal # None, c.signal \notin aborted
                     PROVE  \A x \in {c.signal} \cup call[c.signal].follows : phase[x] # "settled"
        BY <3>1 DEF Following
      <4>2. c.signal \in Dispatches
        BY <4>1 DEF Calls
      <4>3. phase[c.signal] # "settled"
        BY <4>1, <4>2 DEF Accounts, Ended
      <4>4. Live(c.signal)
        BY <1>1, <4>1, <4>3 DEF Begins, Live
      <4> QED BY <4>1, <4>2, <4>3, <4>4 DEF NobodyRunsForTheGone
    <3>3. \A x \in c.follows : phase'[x] # "settled"
      BY <1>1, <3>1, <3>2, BeginsOthers
    <3> QED BY <3>1, <3>3
  <2> QED BY <2>1, <2>2 DEF NobodyRunsForTheGone
<1>2. ASSUME NEW d \in Dispatches, Advances(d) PROVE NobodyRunsForTheGone'
  <2>1. aborted' = aborted /\ call' = call
    BY <1>2 DEF Advances
  <2>2. \A e \in Dispatches : /\ Live(e)' => Live(e)
                              /\ phase'[e] = "settled" => phase[e] = "settled"
    BY <1>2, AdvancesOthers DEF Live, Progress
  <2> QED BY <1>a, <2>1, <2>2 DEF NobodyRunsForTheGone
<1>3. ASSUME NEW d \in Dispatches, Ends(d) PROVE NobodyRunsForTheGone'
  <2> SUFFICES ASSUME NEW e \in Dispatches, Live(e)', NEW x \in call'[e].follows,
                      phase'[x] = "settled"
               PROVE  e \in aborted'
    BY DEF NobodyRunsForTheGone
  <2>1. Live(e) /\ x \in call[e].follows /\ x \in Dispatches
    BY <1>3, <1>a, EndsOthers DEF Live
  <2>2. CASE x = d
    <3>1. call[e] # NoCall
      BY <2>1, DispatchAssumption DEF Accounts, Known, Calls, NoCall
    <3> QED BY <1>3, <2>1, <2>2, <3>1, EndsOthers DEF Reach
  <2>3. CASE x # d
    <3>1. phase[x] = "settled" /\ aborted \subseteq aborted'
      BY <1>3, <2>1, <2>3, EndsOthers
    <3> QED BY <2>1, <3>1 DEF NobodyRunsForTheGone
  <2> QED BY <2>2, <2>3
<1>4. CASE Aborts
  BY <1>4 DEF Aborts, NobodyRunsForTheGone, Live
<1>5. CASE ClearTurn
  BY <1>5 DEF ClearTurn, NobodyRunsForTheGone, Live
<1>6. CASE Restart
  BY <1>6, RestartLeaves DEF NobodyRunsForTheGone
<1> QED BY <1>1, <1>2, <1>3, <1>4, <1>5, <1>6, Steps

-----------------------------------------------------------------------------
(* Budgets *)

LEMMA AddOne ==
  ASSUME NEW S, NEW x, IsFiniteSet(S)
  PROVE  Cardinality(S \cup {x}) \in Nat /\ Cardinality(S \cup {x}) <= Cardinality(S) + 1
<1>1. /\ IsFiniteSet(S \cup {x})
      /\ Cardinality(S \cup {x}) = IF x \in S THEN Cardinality(S) ELSE Cardinality(S) + 1
  BY FS_AddElement
<1>2. Cardinality(S) \in Nat
  BY FS_CardinalityType
<1> QED BY <1>1, <1>2

LEMMA AcceptedSame ==
  ASSUME call' = call,
         \A e \in Dispatches : row'[e] # "none" <=> row[e] # "none"
  PROVE  Peers' = Peers /\ Others' = Others
BY DEF Peers, Others

LEMMA CountedKept ==
  ASSUME Accounts, Accounts', Signals, Counted, [Next]_vars
  PROVE  Counted'
<1> SUFFICES ASSUME ~over' PROVE Counted'
  BY DEF Counted
<1>0. /\ dispatchCount \in Nat /\ peerCount \in Nat
      /\ MaxDispatchesPerTurn \in Nat /\ MaxPeerCallsPerTurn \in Nat
  BY LimitsAssumption DEF Accounts, TypeOK
<1>a. IsFiniteSet(Peers) /\ IsFiniteSet(Others)
  <2>1. Peers \in SUBSET Dispatches /\ Others \in SUBSET Dispatches
    BY DEF Peers, Others
  <2> QED BY <2>1, DispatchAssumption, FS_Subset
<1>b. Cardinality(Peers) \in Nat /\ Cardinality(Others) \in Nat
  BY <1>a, FS_CardinalityType
<1>1. ASSUME NEW d \in Dispatches, NEW c \in Calls, Begins(d, c) PROVE Counted'
  <2>0. ~over
    BY <1>1, BeginsOthers
  <2>1. /\ dispatchCount' = dispatchCount + (IF IsPeer(c) \/ Denied(c) THEN 0 ELSE 1)
        /\ peerCount' = peerCount + (IF IsPeer(c) /\ ~Denied(c) THEN 1 ELSE 0)
    BY <1>1 DEF Begins, Run, Count
  <2>2. call'[d] = c /\ c # NoCall /\ row[d] = "none"
    BY <1>1, BeginsOthers, DispatchAssumption DEF Accounts, TypeOK, Calls, NoCall
  <2>3. CASE Refused(c)
    <3>1. row' = row
      BY <1>1, <2>3 DEF Begins, Run
    <3>2. Peers' = Peers
      BY <1>1, <2>2, <3>1, BeginsOthers DEF Peers
    <3>3. Others' = Others
      BY <1>1, <2>2, <3>1, BeginsOthers DEF Others
    <3>4. /\ dispatchCount' \in Nat /\ dispatchCount <= dispatchCount'
          /\ peerCount' \in Nat /\ peerCount <= peerCount'
      BY <1>0, <2>1
    <3> QED BY <1>0, <1>b, <2>0, <3>2, <3>3, <3>4 DEF Counted
  <2>4. CASE ~Refused(c)
    <3>1. row'[d] = "working" /\ ~Denied(c) /\ ~OverBudget(c)
      BY <1>1, <2>4 DEF Begins, Run, Refused, Accounts, TypeOK
    <3>2. CASE IsPeer(c)
      <4>1. peerCount < MaxPeerCallsPerTurn /\ peerCount' = peerCount + 1
            /\ dispatchCount' = dispatchCount
        BY <1>0, <2>1, <3>1, <3>2 DEF OverBudget
      <4>2. Peers' = Peers \cup {d}
        BY <1>1, <2>2, <3>1, <3>2, BeginsOthers DEF Peers
      <4>3. Others' = Others
        BY <1>1, <2>2, <3>1, <3>2, BeginsOthers DEF Others
      <4>4. /\ Cardinality(Peers \cup {d}) \in Nat
            /\ Cardinality(Peers \cup {d}) <= Cardinality(Peers) + 1
        BY <1>a, AddOne
      <4> QED BY <1>0, <1>b, <2>0, <4>1, <4>2, <4>3, <4>4 DEF Counted
    <3>3. CASE ~IsPeer(c)
      <4>1. dispatchCount < MaxDispatchesPerTurn /\ dispatchCount' = dispatchCount + 1
            /\ peerCount' = peerCount
        BY <1>0, <2>1, <3>1, <3>3 DEF OverBudget
      <4>2. Others' = Others \cup {d}
        BY <1>1, <2>2, <3>1, <3>3, BeginsOthers DEF Others
      <4>3. Peers' = Peers
        BY <1>1, <2>2, <3>1, <3>3, BeginsOthers DEF Peers
      <4>4. /\ Cardinality(Others \cup {d}) \in Nat
            /\ Cardinality(Others \cup {d}) <= Cardinality(Others) + 1
        BY <1>a, AddOne
      <4> QED BY <1>0, <1>b, <2>0, <4>1, <4>2, <4>3, <4>4 DEF Counted
    <3> QED BY <3>2, <3>3
  <2> QED BY <2>3, <2>4
<1>2. ASSUME NEW d \in Dispatches, Advances(d) \/ Ends(d) PROVE Counted'
  <2>1. /\ call' = call /\ over' = over /\ UNCHANGED <<dispatchCount, peerCount>>
        /\ \A e \in Dispatches : row'[e] # "none" <=> row[e] # "none"
    BY <1>2, AdvancesOthers, EndsOthers DEF Advances, control, budget
  <2>2. Peers' = Peers /\ Others' = Others
    BY <2>1, AcceptedSame
  <2> QED BY <2>1, <2>2 DEF Counted
<1>3. CASE Aborts
  <2>1. Peers' = Peers /\ Others' = Others
    BY <1>3, AcceptedSame DEF Aborts
  <2> QED BY <1>3, <2>1 DEF Aborts, Counted, budget
<1>4. CASE ClearTurn \/ Restart
  BY <1>4, RestartLeaves DEF ClearTurn
<1> QED BY <1>1, <1>2, <1>3, <1>4, Steps

-----------------------------------------------------------------------------
(* The serial chain.  Members have no dispatch tools, so that only the turn  *)
(* that is not over appends to it.                                           *)

LEMMA LaneIn == Lane \subseteq Dispatches
BY DEF Lane

(* A dispatch that neither joins nor leaves the lane changes nothing in it.  *)
LEMMA ChainSame ==
  ASSUME Chain, Lane' = Lane, UNCHANGED <<previous, marker, over>>,
         \A d \in Lane : /\ previous[d] # None => /\ Serial(previous[d])'
                                                  /\ phase'[previous[d]] # "new"
                         /\ Turn(d)' = Turn(d)
                         /\ phase'[d] = "queued" \/ phase[d] # "queued" \/ Turn(d)
  PROVE  Chain'
BY DEF Chain

LEMMA ChainBegins ==
  ASSUME Accounts, Accounts', Chain, ~AllowNesting,
         NEW d \in Dispatches, NEW c \in Calls, Begins(d, c)
  PROVE  Chain'
<1>0. None \notin Dispatches
  BY DispatchAssumption
<1>1. /\ d \notin Lane /\ phase[d] = "new" /\ call'[d] = c /\ over' = over
      /\ \A e \in Dispatches \ {d} : phase'[e] = phase[e] /\ call'[e] = call[e]
  BY BeginsOthers DEF Lane, Accounts, TypeOK
<1>2. \A e \in Dispatches \ {d} : /\ Serial(e)' = Serial(e) /\ Live(e)' = Live(e)
                                  /\ Returned(e)' = Returned(e)
  BY <1>1 DEF Serial, Live, Returned
<1>3. \A e \in Lane : /\ e # d /\ e \in Dispatches /\ previous[e] # d
                      /\ previous[e] # None => previous[e] \in Dispatches
  BY <1>0, <1>1, LaneIn DEF Chain, Accounts, TypeOK
<1>4. CASE c.kind # "serial" \/ Refused(c)
  <2>1. UNCHANGED <<previous, marker>>
    BY <1>4 DEF Begins, Run, Queues, serial
  <2>2. ~(Serial(d)' /\ Live(d)')
    BY <1>1, <1>4 DEF Begins, Run, Queues, Serial, Live, Progress, Accounts, TypeOK
  <2>3. Lane' = Lane
    BY <1>1, <1>2, <2>2 DEF Lane
  <2>4. \A e \in Lane : Turn(e)' = Turn(e)
    BY <1>0, <1>2, <1>3, <2>1 DEF Turn
  <2> QED BY <1>1, <1>2, <1>3, <2>1, <2>3, <2>4, ChainSame DEF Chain
<1>5. CASE c.kind = "serial" /\ ~Refused(c)
  <2>1. /\ previous' = [previous EXCEPT ![d] = marker] /\ marker' = d /\ ~over
        /\ phase'[d] = "queued"
    BY <1>5 DEF Begins, Run, Queues, Joins, Accounts, TypeOK
  <2>2. /\ previous'[d] = marker /\ marker # d /\ marker \in Dispatches \cup {None}
        /\ \A e \in Dispatches \ {d} : previous'[e] = previous[e]
    BY <1>0, <1>1, <2>1 DEF Chain, Accounts, TypeOK
  <2>3. c # NoCall
    BY DispatchAssumption DEF Calls, NoCall
  <2>4. Lane' = Lane \cup {d}
    BY <1>1, <1>2, <1>5, <2>1, <2>3 DEF Lane, Serial, Live, Progress
  <2>5. \A e \in Lane : Turn(e)' = Turn(e)
    BY <1>0, <1>2, <1>3, <2>2 DEF Turn
  <2>6. CASE marker = None
    <3>1. Lane' = {d} /\ previous'[d] = None
      BY <2>1, <2>2, <2>4, <2>6 DEF Chain
    <3> QED BY <1>0, <2>1, <3>1 DEF Chain
  <2>7. CASE marker # None
    <3>0. PICK k \in Lane : k = marker /\ \A e \in Lane : previous[e] # k
      BY <2>7 DEF Chain
    <3>1. /\ k \in Dispatches \ {d} /\ previous'[d] = k
          /\ Serial(k)' /\ phase'[k] # "new" /\ ~Returned(k)'
      BY <1>1, <1>2, <2>2, <3>0 DEF Lane, Live, Progress, Returned
    <3>2. ~Turn(d)'
      BY <1>0, <3>1 DEF Turn
    <3>3. ASSUME NEW e \in Lane', previous'[e] # None
          PROVE  /\ Serial(previous[e])' /\ phase'[previous'[e]] # "new"
                 /\ \A x \in Lane' : previous'[x] = previous'[e] => x = e
      <4>1. CASE e = d
        BY <1>3, <2>2, <2>4, <3>0, <3>1, <4>1
      <4>2. CASE e # d
        <5>1. e \in Lane /\ previous'[e] = previous[e] /\ previous[e] \in Dispatches \ {d}
          BY <1>3, <2>2, <2>4, <3>3, <4>2
        <5>2. /\ Serial(previous[e]) /\ phase[previous[e]] # "new"
              /\ \A x \in Lane : previous[x] = previous[e] => x = e
          BY <3>3, <5>1 DEF Chain
        <5>3. Serial(previous[e])' /\ phase'[previous'[e]] # "new"
          BY <1>1, <1>2, <5>1, <5>2 DEF Serial
        <5> QED BY <1>3, <2>2, <2>4, <3>0, <3>1, <5>1, <5>2, <5>3
      <4> QED BY <4>1, <4>2
    <3>4. ASSUME NEW S \in SUBSET Lane', S # {} PROVE \E e \in S : previous'[e] \notin S
      <4>1. CASE S \subseteq {d}
        BY <2>2, <3>4, <4>1
      <4>2. CASE ~(S \subseteq {d})
        <5>1. PICK e \in S \ {d} : previous[e] \notin S \ {d}
          BY <2>4, <4>2 DEF Chain
        <5> QED BY <1>3, <2>2, <2>4, <5>1
      <4> QED BY <4>1, <4>2
    <3>5. marker' \in Lane' /\ \A e \in Lane' : previous'[e] # marker'
      BY <1>3, <2>1, <2>2, <2>4
    <3>6. \A e \in Lane' : phase'[e] # "queued" => Turn(e)'
      BY <1>1, <1>3, <2>1, <2>4, <2>5 DEF Chain
    <3>7. \A e, x \in Lane' : Turn(e)' /\ Turn(x)' => e = x
      BY <2>4, <2>5, <3>2 DEF Chain
    <3>8. marker' # None
      BY <1>0, <2>1
    <3> QED BY <3>3, <3>4, <3>5, <3>6, <3>7, <3>8 DEF Chain
  <2> QED BY <2>6, <2>7
<1> QED BY <1>4, <1>5

LEMMA ChainEnds ==
  ASSUME Accounts, Accounts', Chain, NEW d \in Dispatches, Ends(d)
  PROVE  Chain'
<1>0. None \notin Dispatches
  BY DispatchAssumption
<1>1. /\ Live(d) /\ ~Live(d)' /\ Returned(d)' /\ ~Returned(d)
      /\ \A e \in Dispatches : Serial(e)' = Serial(e)
      /\ \A e \in Dispatches \ {d} : /\ Live(e)' = Live(e) /\ Returned(e)' = Returned(e)
                                     /\ phase'[e] = phase[e]
      /\ phase'[d] # "new"
      /\ previous' = previous /\ over' = over
      /\ marker' = IF marker = d THEN None ELSE marker
  BY EndsOthers DEF Ends, Live, Returned, Serial, Progress
<1>2. Lane' = Lane \ {d}
  BY <1>1 DEF Lane
<1>3. \A e \in Lane : previous[e] \in Dispatches \cup {None}
  BY LaneIn DEF Accounts, TypeOK
<1>4. CASE d \notin Lane
  <2>1. \A e \in Lane : previous[e] # d
    BY <1>0, <1>1, <1>4 DEF Chain, Lane
  <2>2. \A e \in Lane : Turn(e)' = Turn(e)
    BY <1>0, <1>1, <1>3, <2>1 DEF Turn
  <2>3. Lane' = Lane /\ marker' = marker
    BY <1>0, <1>1, <1>2, <1>4 DEF Chain
  <2>4. \A e \in Lane : e \in Dispatches \ {d}
    BY <1>4, LaneIn
  <2> QED BY <1>0, <1>1, <1>3, <2>1, <2>2, <2>3, <2>4, ChainSame DEF Chain
<1>5. CASE d \in Lane
  <2>1. Turn(d)
    BY <1>5 DEF Ends, Chain
  <2>2. \A e \in Lane' : e \in Lane /\ e # d /\ e \in Dispatches /\ ~Turn(e)
    BY <1>2, <1>5, <2>1, LaneIn DEF Chain
  <2>3. \A e \in Lane' : Turn(e)' => previous[e] = d
    BY <1>1, <1>3, <2>2 DEF Turn
  <2>4. \A e \in Lane' : previous[e] # None
    BY <2>2 DEF Turn
  <2>5. \A e \in Lane' : /\ Serial(previous[e])' /\ phase'[previous[e]] # "new"
                         /\ \A x \in Lane' : previous[x] = previous[e] => x = e
    BY <1>1, <1>3, <2>2, <2>4 DEF Chain
  <2>6. \A e, x \in Lane' : Turn(e)' /\ Turn(x)' => e = x
    BY <2>3, <2>5
  <2>7. \A e \in Lane' : phase'[e] = "queued"
    BY <1>1, <2>2 DEF Chain
  <2>8. marker = d => Lane' = {}
    <3> SUFFICES ASSUME marker = d, Lane' # {} PROVE FALSE
      OBVIOUS
    <3>1. PICK e \in Lane' : previous[e] \notin Lane'
      BY <1>2 DEF Chain
    <3>2. previous[e] \in Dispatches /\ previous[e] # d /\ previous[e] \notin Lane
      BY <1>0, <1>2, <1>3, <2>2, <2>4, <3>1 DEF Chain
    <3>3. Serial(previous[e]) /\ phase[previous[e]] # "new"
      BY <2>2, <2>4 DEF Chain
    <3>4. Returned(previous[e])
      BY <3>2, <3>3 DEF Lane, Live, Progress, Returned, Accounts, TypeOK, Phases
    <3> QED BY <2>2, <3>2, <3>4 DEF Turn
  <2>9. marker' # None => marker' \in Lane' /\ \A e \in Lane' : previous[e] # marker'
    BY <1>1, <1>2, <2>2 DEF Chain
  <2>10. ~over' /\ marker' = None => Lane' = {}
    BY <1>1, <1>2, <2>8 DEF Chain
  <2>11. \A S \in SUBSET Lane' : S # {} => \E e \in S : previous[e] \notin S
    BY <1>2 DEF Chain
  <2> QED BY <1>1, <2>5, <2>6, <2>7, <2>9, <2>10, <2>11 DEF Chain
<1> QED BY <1>4, <1>5

LEMMA ChainKept ==
  ASSUME Accounts, Accounts', Signals, Chain, ~AllowNesting, [Next]_vars
  PROVE  Chain'
<1>1. ASSUME NEW d \in Dispatches, NEW c \in Calls, Begins(d, c) PROVE Chain'
  BY <1>1, ChainBegins
<1>2. ASSUME NEW d \in Dispatches, Advances(d) PROVE Chain'
  <2>1. /\ \A e \in Dispatches : /\ Live(e)' = Live(e) /\ Serial(e)' = Serial(e)
                                 /\ Returned(e)' = Returned(e)
                                 /\ phase'[e] # "new" \/ phase[e] = "new"
                                 /\ phase'[e] = phase[e] \/ e = d
        /\ phase[d] = "queued" => Turn(d)
        /\ UNCHANGED <<previous, marker, over>>
    BY <1>2, AdvancesOthers DEF Advances, Live, Serial, Returned, control, serial, Progress
  <2>2. Lane' = Lane
    BY <2>1 DEF Lane
  <2>3. \A e \in Lane : Turn(e)' = Turn(e)
    BY <2>1 DEF Turn
  <2>4. \A e \in Lane : e \in Dispatches /\ previous[e] \in Dispatches \cup {None}
    BY LaneIn DEF Accounts, TypeOK
  <2> QED BY <2>1, <2>2, <2>3, <2>4, ChainSame DEF Chain
<1>3. ASSUME NEW d \in Dispatches, Ends(d) PROVE Chain'
  BY <1>3, ChainEnds
<1>4. CASE Aborts
  <2>1. UNCHANGED <<over, phase, call, previous, marker>>
    BY <1>4 DEF Aborts, serial
  <2>2. Lane' = Lane /\ \A e : Turn(e)' = Turn(e) /\ Serial(e)' = Serial(e)
    BY <2>1 DEF Lane, Serial, Live, Turn, Returned
  <2> QED BY <2>1, <2>2, ChainSame DEF Chain
<1>5. CASE ClearTurn
  <2>1. UNCHANGED <<phase, call, previous>> /\ over' = TRUE /\ marker' = None
    BY <1>5 DEF ClearTurn
  <2>2. Lane' = Lane /\ \A e : Turn(e)' = Turn(e) /\ Serial(e)' = Serial(e)
    BY <2>1 DEF Lane, Serial, Live, Turn, Returned
  <2> QED BY <2>1, <2>2 DEF Chain
<1>6. CASE Restart
  <2>1. Lane' = {} /\ over' = TRUE /\ marker' = None
    BY <1>6, RestartLeaves DEF Lane
  <2> QED BY <2>1 DEF Chain
<1> QED BY <1>1, <1>2, <1>3, <1>4, <1>5, <1>6, Steps

-----------------------------------------------------------------------------
(* The order of the chain *)

LEMMA LineBegins ==
  ASSUME Accounts, Accounts', Chain, Line, ~AllowNesting,
         NEW d \in Dispatches, NEW c \in Calls, Begins(d, c)
  PROVE  Line'
<1>0. None \notin Dispatches /\ c # NoCall
  BY DispatchAssumption DEF Calls, NoCall
<1>1. /\ d \notin Lane /\ phase[d] = "new" /\ call'[d] = c /\ over' = over
      /\ \A e \in Dispatches \ {d} : phase'[e] = phase[e] /\ call'[e] = call[e]
  BY BeginsOthers DEF Lane, Live, Accounts, TypeOK
<1>2. \A e \in Dispatches \ {d} : /\ Serial(e)' = Serial(e) /\ Live(e)' = Live(e)
                                  /\ Returned(e)' = Returned(e)
  BY <1>1 DEF Serial, Live, Returned
<1>3. \A e \in Lane : /\ e # d /\ e \in Dispatches /\ previous[e] # d
                      /\ previous[e] # None => previous[e] \in Dispatches
  BY <1>0, <1>1, LaneIn DEF Chain, Accounts, TypeOK
<1>4. \A e \in Dispatches : ahead[e] \subseteq Dispatches \ {d}
  BY <1>1 DEF Line, Accounts, TypeOK
<1>5. CASE c.kind # "serial" \/ Refused(c)
  <2>1. UNCHANGED <<previous, marker, ahead>>
    BY <1>5 DEF Begins, Run, Queues, serial
  <2>2. ~(Serial(d)' /\ Live(d)')
    BY <1>1, <1>5 DEF Begins, Run, Queues, Serial, Live, Progress, Accounts, TypeOK
  <2>3. Lane' = Lane
    BY <1>1, <1>2, <2>2 DEF Lane
  <2>4. \A e \in Lane : Turn(e)' = Turn(e)
    BY <1>0, <1>2, <1>3, <2>1 DEF Turn
  <2> QED BY <1>1, <1>2, <1>3, <1>4, <2>1, <2>3, <2>4 DEF Line
<1>6. CASE c.kind = "serial" /\ ~Refused(c)
  <2>1. /\ previous' = [previous EXCEPT ![d] = marker] /\ marker' = d /\ ~over
        /\ ahead' = [ahead EXCEPT ![d] = Lane] /\ phase'[d] = "queued"
    BY <1>6 DEF Begins, Run, Queues, Joins, Arrives, Accounts, TypeOK
  <2>2. /\ previous'[d] = marker /\ marker # d /\ ahead'[d] = Lane
        /\ \A e \in Dispatches \ {d} : previous'[e] = previous[e] /\ ahead'[e] = ahead[e]
    BY <1>0, <1>1, <2>1 DEF Chain, Accounts, TypeOK
  <2>3. Lane' = Lane \cup {d}
    BY <1>0, <1>1, <1>2, <1>6, <2>1 DEF Lane, Serial, Live, Progress
  <2>4. \A e \in Lane : Turn(e)' = Turn(e)
    BY <1>0, <1>2, <1>3, <2>2 DEF Turn
  <2>5. marker # None => marker \in Lane /\ ~Turn(d)'
    BY <1>0, <1>2, <1>3, <2>2 DEF Chain, Lane, Live, Progress, Returned, Turn
  <2>6. marker = None => Lane = {}
    BY <2>1 DEF Chain
  <2>7. ASSUME NEW e \in Lane'
        PROVE  /\ Turn(e)' => \A x \in ahead'[e] : Returned(x)'
               /\ previous'[e] # None
                    => ahead'[e] \subseteq ahead'[previous'[e]] \cup {previous'[e]}
    <3>1. CASE e = d
      BY <1>3, <2>2, <2>5, <2>6, <3>1 DEF Line
    <3>2. CASE e # d
      <4>1. e \in Lane /\ Turn(e)' = Turn(e) /\ previous'[e] = previous[e] /\ ahead'[e] = ahead[e]
        BY <1>3, <2>2, <2>3, <2>4, <3>2
      <4>2. previous[e] # None => ahead'[previous[e]] = ahead[previous[e]]
        BY <1>3, <2>2, <4>1
      <4> QED BY <1>2, <1>3, <1>4, <4>1, <4>2 DEF Line
    <3> QED BY <3>1, <3>2
  <2>8. marker' # None => Lane' \subseteq ahead'[marker'] \cup {marker'}
    BY <2>1, <2>2, <2>3
  <2>9. \A e \in Dispatches : \A x \in ahead'[e] : phase'[x] \notin {"new", "refused"}
    <3>1. \A x \in Lane : phase'[x] \notin {"new", "refused"}
      BY <1>1, <1>3 DEF Lane, Live, Progress
    <3> QED BY <1>1, <1>4, <2>2, <3>1 DEF Line
  <2> QED BY <2>7, <2>8, <2>9 DEF Line
<1> QED BY <1>5, <1>6

LEMMA LineEnds ==
  ASSUME Accounts, Accounts', Chain, Line, NEW d \in Dispatches, Ends(d)
  PROVE  Line'
<1>0. None \notin Dispatches
  BY DispatchAssumption
<1>1. /\ Live(d) /\ ~Live(d)' /\ Returned(d)' /\ phase'[d] \notin {"new", "refused"}
      /\ \A e \in Dispatches : Serial(e)' = Serial(e) /\ (Returned(e) => Returned(e)')
      /\ \A e \in Dispatches \ {d} : /\ Live(e)' = Live(e) /\ Returned(e)' = Returned(e)
                                     /\ phase'[e] = phase[e]
      /\ previous' = previous /\ ahead' = ahead
      /\ marker' = IF marker = d THEN None ELSE marker
  BY EndsOthers DEF Ends, Settle, Live, Returned, Serial, Progress
<1>2. Lane' = Lane \ {d}
  BY <1>1 DEF Lane
<1>3. \A e \in Lane : e \in Dispatches /\ previous[e] \in Dispatches \cup {None}
  BY LaneIn DEF Accounts, TypeOK
<1>4. \A e \in Dispatches : ahead[e] \subseteq Dispatches
  BY DEF Accounts, TypeOK
<1>5. ASSUME NEW e \in Lane', Turn(e)' PROVE \A x \in ahead[e] : Returned(x)'
  <2>1. e \in Lane
    BY <1>2
  <2>2. CASE Turn(e)
    BY <1>1, <1>3, <1>4, <2>1, <2>2 DEF Line
  <2>3. CASE ~Turn(e)
    <3>1. previous[e] = d
      BY <1>0, <1>1, <1>3, <1>5, <2>1, <2>3 DEF Turn
    <3>2. d \in Lane
      BY <1>0, <1>1, <2>1, <3>1 DEF Chain, Lane
    <3>3. Turn(d)
      BY <3>2 DEF Ends, Chain
    <3>4. ahead[e] \subseteq ahead[d] \cup {d} /\ \A x \in ahead[d] : Returned(x)
      BY <1>0, <2>1, <3>1, <3>2, <3>3 DEF Line
    <3> QED BY <1>1, <1>4, <3>4
  <2> QED BY <2>2, <2>3
<1>6. marker' # None => Lane' \subseteq ahead'[marker'] \cup {marker'}
  BY <1>1, <1>2 DEF Line
<1>7. \A e \in Dispatches : \A x \in ahead'[e] : phase'[x] \notin {"new", "refused"}
  BY <1>1, <1>4 DEF Line
<1> QED BY <1>1, <1>2, <1>5, <1>6, <1>7 DEF Line

LEMMA LineKept ==
  ASSUME Accounts, Accounts', Signals, Chain, Line, ~AllowNesting, [Next]_vars
  PROVE  Line'
<1>1. ASSUME NEW d \in Dispatches, NEW c \in Calls, Begins(d, c) PROVE Line'
  BY <1>1, LineBegins
<1>2. ASSUME NEW d \in Dispatches, Advances(d) PROVE Line'
  <2>1. /\ \A e \in Dispatches : /\ Live(e)' = Live(e) /\ Serial(e)' = Serial(e)
                                 /\ Returned(e)' = Returned(e)
                                 /\ phase'[e] \notin {"new", "refused"}
                                      \/ phase[e] \in {"new", "refused"}
        /\ UNCHANGED <<previous, marker, ahead>>
    BY <1>2, AdvancesOthers DEF Advances, Live, Serial, Returned, serial, Progress
  <2>2. Lane' = Lane
    BY <2>1 DEF Lane
  <2>3. \A e \in Lane : e \in Dispatches /\ Turn(e)' = Turn(e)
    BY <2>1, LaneIn DEF Turn
  <2>4. \A e \in Dispatches : ahead[e] \subseteq Dispatches
    BY DEF Accounts, TypeOK
  <2> QED BY <2>1, <2>2, <2>3, <2>4 DEF Line
<1>3. ASSUME NEW d \in Dispatches, Ends(d) PROVE Line'
  BY <1>3, LineEnds
<1>4. CASE Aborts \/ ClearTurn
  <2>1. UNCHANGED <<phase, call, previous, ahead>> /\ marker' \in {marker, None}
    BY <1>4 DEF Aborts, ClearTurn, serial
  <2>2. Lane' = Lane /\ \A e : Turn(e)' = Turn(e) /\ Returned(e)' = Returned(e)
    BY <2>1 DEF Lane, Serial, Live, Turn, Returned
  <2> QED BY <2>1, <2>2 DEF Line
<1>5. CASE Restart
  <2>1. Lane' = {} /\ marker' = None /\ \A d \in Dispatches : ahead'[d] = {}
    BY <1>5, RestartLeaves DEF Lane, Restart
  <2> QED BY <2>1 DEF Line
<1> QED BY <1>1, <1>2, <1>3, <1>4, <1>5, Steps

-----------------------------------------------------------------------------
(* Rings.  The chain leads to older dispatches, a call to younger ones, and  *)
(* those who are called are not in the chain.                                *)

LEMMA AgesBegins ==
  ASSUME Accounts, Accounts', Ages, NEW d \in Dispatches, NEW c \in Calls, Begins(d, c)
  PROVE  Ages'
<1>0. None \notin Dispatches /\ Host \notin Dispatches /\ c # NoCall
  BY DispatchAssumption DEF Calls, NoCall
<1>1. /\ phase[d] = "new" /\ call'[d] = c
      /\ phase'[d] \in {"refused", "queued", "executing", "early"}
      /\ \A e \in Dispatches \ {d} : phase'[e] = phase[e] /\ call'[e] = call[e]
  BY BeginsOthers DEF Accounts, TypeOK
<1>2. c.caller # Host => c.caller \in Dispatches /\ c.caller # d /\ phase[c.caller] # "new"
  BY <1>1 DEF Begins, Calls, Progress
<1>3. \A e \in Dispatches : phase[e] # "new" => phase'[e] # "new"
  BY <1>1
<1>4. /\ \A e \in Dispatches \ {d} : previous'[e] = previous[e]
      /\ phase'[d] = "queued" =>
            c.kind = "serial" /\ previous'[d] = marker
      /\ marker' \in {marker, d}
  BY DEF Begins, Run, Queues, Joins, serial, Accounts, TypeOK, ReturnsEarly
<1>5. marker \in Dispatches \cup {None} /\ \A e \in Dispatches : previous[e] \in Dispatches \cup {None}
  BY DEF Accounts, TypeOK
<1>6. \A e \in Dispatches : call[e] # NoCall => call[e].caller \in Dispatches \cup {Host}
  BY DEF Accounts, TypeOK, Calls
<1>7. ASSUME NEW e \in Dispatches
      PROVE  /\ phase'[e] = "queued" =>
                  Serial(e)' /\ (previous'[e] # None => phase'[previous'[e]] # "new")
             /\ call'[e] # NoCall /\ call'[e].caller # Host => phase'[call'[e].caller] # "new"
  <2>1. CASE e = d
    BY <1>0, <1>1, <1>2, <1>3, <1>4, <1>5, <2>1 DEF Ages, Serial
  <2>2. CASE e # d
    BY <1>1, <1>3, <1>4, <1>5, <1>6, <2>2 DEF Ages, Serial
  <2> QED BY <2>1, <2>2
<1>8. marker' # None => phase'[marker'] # "new"
  BY <1>1, <1>3, <1>4, <1>5 DEF Ages
<1>9. ASSUME NEW S \in SUBSET {e \in Dispatches : phase'[e] = "queued"}, S # {}
      PROVE  \E e \in S : previous'[e] \notin S
  <2>1. \A e \in S : e \in Dispatches /\ phase'[e] = "queued"
    OBVIOUS
  <2>2. CASE S \subseteq {d}
    <3>1. d \in S /\ previous'[d] = marker /\ marker # d
      BY <1>0, <1>1, <1>4, <1>9, <2>1, <2>2 DEF Ages
    <3> QED BY <2>2, <3>1
  <2>3. CASE ~(S \subseteq {d})
    <3>1. S \ {d} \in SUBSET {e \in Dispatches : phase[e] = "queued"} /\ S \ {d} # {}
      BY <1>1, <2>1, <2>3
    <3>2. PICK e \in S \ {d} : previous[e] \notin S \ {d}
      BY <3>1 DEF Ages
    <3>3. previous[e] # d
      BY <1>0, <1>1, <3>1, <3>2 DEF Ages
    <3> QED BY <1>4, <2>1, <3>2, <3>3
  <2> QED BY <2>2, <2>3
<1>10. ASSUME NEW S \in SUBSET Dispatches, S # {}
       PROVE  \E x \in S : \A e \in S : ~PeerOf(x, e)'
  <2>1. CASE d \in S
    <3>1. \A e \in S \ {d} : ~PeerOf(d, e)'
      BY <1>0, <1>1 DEF Ages, PeerOf
    <3>2. ~PeerOf(d, d)'
      BY <1>0, <1>1, <1>2 DEF PeerOf
    <3> QED BY <2>1, <3>1, <3>2
  <2>2. CASE d \notin S
    <3>1. PICK x \in S : \A e \in S : ~PeerOf(x, e)
      BY <1>10 DEF Ages
    <3>2. \A e \in S : PeerOf(x, e)' <=> PeerOf(x, e)
      BY <1>1, <2>2 DEF PeerOf
    <3> QED BY <3>1, <3>2
  <2> QED BY <2>1, <2>2
<1> QED BY <1>7, <1>8, <1>9, <1>10 DEF Ages

(* Every other step queues nobody and makes no calls.                        *)
LEMMA AgesSame ==
  ASSUME Ages, call' = call, previous' = previous, marker' \in {marker, None},
         \A d \in Dispatches : /\ phase[d] # "new" => phase'[d] # "new"
                               /\ phase'[d] = "queued" => phase[d] = "queued",
         Accounts
  PROVE  Ages'
<1>1. \A d \in Dispatches : /\ previous[d] \in Dispatches \cup {None}
                            /\ call[d] # NoCall => call[d].caller \in Dispatches \cup {Host}
  BY DEF Accounts, TypeOK, Calls
<1>2. ASSUME NEW d \in Dispatches
      PROVE  /\ phase'[d] = "queued" =>
                  Serial(d)' /\ (previous'[d] # None => phase'[previous'[d]] # "new")
             /\ call'[d] # NoCall /\ call'[d].caller # Host => phase'[call'[d].caller] # "new"
  BY <1>1 DEF Ages, Serial
<1>3. marker' # None => phase'[marker'] # "new"
  BY DEF Ages, Accounts, TypeOK
<1>4. \A S \in SUBSET {d \in Dispatches : phase'[d] = "queued"} :
        S # {} => \E d \in S : previous'[d] \notin S
  <2>1. {d \in Dispatches : phase'[d] = "queued"} \subseteq {d \in Dispatches : phase[d] = "queued"}
    OBVIOUS
  <2> QED BY <2>1 DEF Ages
<1>5. \A S \in SUBSET Dispatches : S # {} => \E d \in S : \A e \in S : ~PeerOf(d, e)'
  BY DEF Ages, PeerOf
<1> QED BY <1>2, <1>3, <1>4, <1>5 DEF Ages

LEMMA AgesKept ==
  ASSUME Accounts, Accounts', Signals, Ages, [Next]_vars
  PROVE  Ages'
<1>1. ASSUME NEW d \in Dispatches, NEW c \in Calls, Begins(d, c) PROVE Ages'
  BY <1>1, AgesBegins
<1>2. ASSUME NEW d \in Dispatches, Advances(d) PROVE Ages'
  <2>1. \A e \in Dispatches : /\ phase[e] # "new" => phase'[e] # "new"
                              /\ phase'[e] = "queued" => phase[e] = "queued"
    BY <1>2, AdvancesOthers DEF Live, Progress
  <2> QED BY <1>2, <2>1, AgesSame DEF Advances, serial
<1>3. ASSUME NEW d \in Dispatches, Ends(d) PROVE Ages'
  <2>1. \A e \in Dispatches : /\ phase[e] # "new" => phase'[e] # "new"
                              /\ phase'[e] = "queued" => phase[e] = "queued"
    BY <1>3, EndsOthers
  <2> QED BY <1>3, <2>1, EndsOthers, AgesSame
<1>4. CASE Aborts \/ ClearTurn
  BY <1>4, AgesSame DEF Aborts, ClearTurn, serial
<1>5. CASE Restart
  <2>1. \A d \in Dispatches : phase'[d] # "queued" /\ call'[d] = NoCall
    BY <1>5, RestartLeaves DEF Live, Progress
  <2>2. marker' = None /\ {d \in Dispatches : phase'[d] = "queued"} = {}
    BY <1>5, <2>1 DEF Restart
  <2>3. \A d, e \in Dispatches : ~PeerOf(d, e)'
    BY <2>1 DEF PeerOf
  <2> QED BY <2>1, <2>2, <2>3 DEF Ages
<1> QED BY <1>1, <1>2, <1>3, <1>4, <1>5, Steps

LEMMA AgesNoRing == Accounts /\ Ages => NoRing
<1> SUFFICES ASSUME Accounts, Ages, NEW S \in SUBSET Dispatches, S # {},
                    \A d \in S : \E e \in S : WaitsFor(d, e)
             PROVE  FALSE
  BY DEF NoRing
<1>1. \A d \in S : phase[d] \in {"queued", "executing", "forwarding"}
  BY DEF WaitsFor
<1> DEFINE M == {d \in S : phase[d] # "queued"}
<1>2. CASE M = {}
  <2>1. S \in SUBSET {d \in Dispatches : phase[d] = "queued"}
    BY <1>2
  <2>2. PICK d \in S : previous[d] \notin S
    BY <2>1 DEF Ages
  <2> QED BY <2>1, <2>2 DEF WaitsFor
<1>3. CASE M # {}
  <2>1. PICK d \in M : \A e \in M : ~PeerOf(d, e)
    BY <1>3 DEF Ages
  <2>2. PICK e \in S : PeerOf(d, e)
    BY <2>1 DEF WaitsFor, PeerOf
  <2>3. phase[e] = "queued" /\ ~Serial(e)
    BY <2>1, <2>2 DEF PeerOf, Serial, IsPeer
  <2> QED BY <2>3 DEF Ages
<1> QED BY <1>2, <1>3

-----------------------------------------------------------------------------
(* The refinement: what each step is to DispatchOrder *)

(* A step that moves one dispatch. *)
LEMMA OneMoves ==
  ASSUME NEW d \in Dispatches,
         \A e \in Dispatches \ {d} : Stage(e)' = Stage(e) /\ Outcome(e)' = Outcome(e)
  PROVE  /\ Stages[d] = Stage(d) /\ Stages' = [Stages EXCEPT ![d] = Stage(d)']
         /\ Results[d] = Outcome(d) /\ Results' = [Results EXCEPT ![d] = Outcome(d)']
         /\ Outcome(d)' = Outcome(d) => Results' = Results
         /\ Stage(d)' = Stage(d) => Stages' = Stages
BY DEF Stages, Results

LEMMA SameStage ==
  ASSUME NEW e \in Dispatches, phase'[e] = phase[e], row'[e] = row[e], Serial(e)' = Serial(e)
  PROVE  Stage(e)' = Stage(e) /\ Outcome(e)' = Outcome(e)
BY DEF Stage, Outcome

LEMMA LaneIsInLane ==
  ASSUME Accounts, Ages
  PROVE  Order!InLane = Lane
<1>1. \A d \in Dispatches : Stage(d) \in {"waiting", "serving"} <=> Serial(d) /\ Live(d)
  BY DEF Ages, Stage, Live, Progress
<1>2. \A d \in Dispatches : Stages[d] = Stage(d)
  BY DEF Stages
<1> QED BY <1>1, <1>2 DEF Order!InLane, Lane

LEMMA TurnIsItsTurn ==
  ASSUME Accounts, Ages, Line, NEW d \in Dispatches, phase[d] = "queued", Turn(d)
  PROVE  Order!ItsTurn(d)
<1>1. d \in Lane
  BY DEF Ages, Lane, Live, Progress
<1>2. \A e \in ahead[d] : /\ e \in Dispatches /\ Returned(e)
                          /\ phase[e] \notin {"new", "refused"}
  BY <1>1 DEF Line, Accounts, TypeOK
<1>3. \A e \in ahead[d] : Stages[e] = "done"
  BY <1>2 DEF Stages, Stage, Returned
<1> QED BY <1>3 DEF Order!ItsTurn

LEMMA BeginsIsOrder ==
  ASSUME Accounts, Accounts', Ages, NEW d \in Dispatches, NEW c \in Calls, Begins(d, c)
  PROVE  Order!Next
<1>0. c # NoCall
  BY DispatchAssumption DEF Calls, NoCall
<1>1. /\ phase[d] = "new" /\ row[d] = "none" /\ call'[d] = c
      /\ phase'[d] \in {"refused", "queued", "executing", "early"}
      /\ \A e \in Dispatches \ {d} : phase'[e] = phase[e] /\ call'[e] = call[e] /\ row'[e] = row[e]
  BY BeginsOthers DEF Accounts, TypeOK
<1>2. \A e \in Dispatches \ {d} : Stage(e)' = Stage(e) /\ Outcome(e)' = Outcome(e)
  BY <1>1, SameStage DEF Serial
<1>3. Stage(d) = "new" /\ Outcome(d) = "none" /\ Outcome(d)' = "none"
  BY <1>1 DEF Stage, Outcome, Final, Accounts, Rows
<1>4. CASE phase'[d] = "queued"
  <2>1. ahead' = [ahead EXCEPT ![d] = Lane]
    BY <1>4, <1>1 DEF Begins, Run, Joins, Arrives, Accounts, TypeOK, ReturnsEarly
  <2>2. Stage(d)' = "waiting"
    BY <1>4 DEF Stage
  <2>3. Order!Join(d)
    BY <1>2, <1>3, <2>1, <2>2, OneMoves, LaneIsInLane DEF Order!Join, Order!Moves
  <2> QED BY <2>3 DEF Order!Next
<1>5. CASE phase'[d] # "queued"
  <2>1. c.kind = "serial" => phase'[d] = "refused"
    BY <1>1, <1>5 DEF Begins, Run, Queues, Accounts, TypeOK
  <2>2. Stage(d)' \in {"refused", "free", "done"}
    BY <1>1, <1>5, <2>1 DEF Stage, Serial
  <2>3. ahead' = ahead
    BY <1>1, <1>5 DEF Begins, Run, Joins, serial, Accounts, TypeOK
  <2>4. Order!Call(d)
    BY <1>2, <1>3, <2>2, <2>3, OneMoves DEF Order!Call, Order!Moves
  <2> QED BY <2>4 DEF Order!Next
<1> QED BY <1>4, <1>5

LEMMA AdvancesIsOrder ==
  ASSUME Accounts, Accounts', Ages, Line, NEW d \in Dispatches, Advances(d)
  PROVE  Order!Next
<1>1. call' = call /\ ahead' = ahead /\ \A e \in Dispatches : Serial(e)' = Serial(e)
  BY DEF Advances, serial, Serial
<1>2. \A e \in Dispatches \ {d} : Stage(e)' = Stage(e) /\ Outcome(e)' = Outcome(e)
  BY <1>1, AdvancesOthers, SameStage
<1>3. CASE phase[d] = "queued"
  <2>1. Turn(d) /\ phase'[d] = "executing" /\ row' = row /\ Serial(d)'
    BY <1>1, <1>3 DEF Advances, Ages, Accounts, TypeOK
  <2>2. /\ Stage(d) = "waiting" /\ Stage(d)' = "serving" /\ Outcome(d)' = Outcome(d)
    BY <1>3, <2>1 DEF Stage, Outcome
  <2>3. Order!Begin(d)
    BY <1>1, <1>2, <1>3, <2>1, <2>2, OneMoves, TurnIsItsTurn DEF Order!Begin, Order!Moves
  <2> QED BY <2>3 DEF Order!Next
<1>4. CASE phase[d] # "queued"
  <2>1. /\ phase[d] = "executing" /\ phase'[d] = "forwarding"
        /\ row[d] = "working" /\ row'[d] = "completed"
    BY <1>4 DEF Advances, Accounts, TypeOK, Rows
  <2>2. /\ Stage(d) \in {"serving", "free"} /\ Stage(d)' = Stage(d)
        /\ Outcome(d) = "none" /\ Outcome(d)' = "completed"
    BY <1>1, <2>1 DEF Stage, Outcome, Final
  <2>3. Order!Answer(d)
    BY <1>1, <1>2, <2>2, OneMoves DEF Order!Answer
  <2> QED BY <2>3 DEF Order!Next
<1> QED BY <1>3, <1>4

LEMMA EndsIsOrder ==
  ASSUME Accounts, Accounts', Ages, Line, NEW d \in Dispatches, Ends(d)
  PROVE  Order!Next
<1>1. PICK v \in Final : /\ Settle(d, v)
                         /\ phase[d] = "queued" => v = "canceled"
                         /\ row[d] \in Final => v = row[d]
  BY DEF Ends
<1>2. /\ call' = call /\ ahead' = ahead /\ \A e \in Dispatches : Serial(e)' = Serial(e)
      /\ phase'[d] = "settled" /\ row'[d] = v
  BY <1>1 DEF Settle, Serial, Accounts, TypeOK
<1>3. \A e \in Dispatches \ {d} : Stage(e)' = Stage(e) /\ Outcome(e)' = Outcome(e)
  BY <1>2, EndsOthers, SameStage
<1>4. Stage(d)' = "done" /\ Outcome(d)' = v /\ Outcome(d) \in {"none", v}
  BY <1>1, <1>2 DEF Stage, Outcome
<1>5. CASE phase[d] = "queued"
  <2>1. Turn(d) /\ Stage(d) = "waiting" /\ v = "canceled"
    BY <1>1, <1>5 DEF Ends, Stage
  <2>2. Order!Withdraw(d)
    BY <1>2, <1>3, <1>4, <1>5, <2>1, OneMoves, TurnIsItsTurn DEF Order!Withdraw, Order!Moves
  <2> QED BY <2>2 DEF Order!Next
<1>6. CASE phase[d] # "queued"
  <2>1. Stage(d) \in {"serving", "free"}
    BY <1>6 DEF Ends, Live, Progress, Stage
  <2>2. Order!End(d)
    BY <1>2, <1>3, <1>4, <2>1, OneMoves DEF Order!End, Order!Moves, Order!Outcomes, Final
  <2> QED BY <2>2 DEF Order!Next
<1> QED BY <1>5, <1>6

LEMMA RestartIsOrder ==
  ASSUME Accounts, Accounts', Restart
  PROVE  Order!Next
<1>1. \A d \in Dispatches : row[d] = "none" <=> phase[d] \in {"new", "refused"}
  BY DEF Accounts, TypeOK, Phases, Rows, Final
<1>2. ASSUME NEW d \in Dispatches
      PROVE  /\ Stage(d)' = IF Stage(d) \in {"new", "refused"} THEN Stage(d) ELSE "done"
             /\ Outcome(d)' = IF Stage(d) \in {"new", "refused"} \/ Outcome(d) # "none"
                              THEN Outcome(d) ELSE "failed"
  <2>1. CASE row[d] = "none"
    <3>1. phase'[d] = phase[d] /\ row'[d] = "none" /\ phase[d] \in {"new", "refused"}
      BY <1>1, <2>1 DEF Restart, Reclaim
    <3> QED BY <2>1, <3>1 DEF Stage, Outcome, Final
  <2>2. CASE row[d] # "none"
    <3>1. /\ phase'[d] = "lost" /\ phase[d] \notin {"new", "refused"}
          /\ row'[d] = IF row[d] = "working" THEN "failed" ELSE row[d]
      BY <1>1, <2>2 DEF Restart, Reclaim
    <3>2. Stage(d)' = "done" /\ Stage(d) \notin {"new", "refused"}
      BY <3>1 DEF Stage
    <3>3. row[d] \in {"working"} \cup Final
      BY <2>2 DEF Accounts, TypeOK
    <3> QED BY <3>1, <3>2, <3>3 DEF Outcome, Final
  <2> QED BY <2>1, <2>2
<1>3. \A d \in Dispatches : Stages[d] = Stage(d) /\ Results[d] = Outcome(d)
  BY DEF Stages, Results
<1>4. Order!Crash
  <2>1. ahead' = [d \in Dispatches |-> {}]
    BY DEF Restart
  <2>2. Stages' = [d \in Dispatches |-> Stage(d)'] /\ Results' = [d \in Dispatches |-> Outcome(d)']
    BY DEF Stages, Results
  <2> QED BY <1>2, <1>3, <2>1, <2>2 DEF Order!Crash, Order!Uncalled
<1> QED BY <1>4 DEF Order!Next

LEMMA StepIsOrder ==
  ASSUME Accounts, Accounts', Signals, Ages, Line, [Next]_vars
  PROVE  [Order!Next]_(Order!vars)
<1>1. ASSUME NEW d \in Dispatches, (\E c \in Calls : Begins(d, c)) \/ Advances(d) \/ Ends(d)
      PROVE  Order!Next
  BY <1>1, BeginsIsOrder, AdvancesIsOrder, EndsIsOrder
<1>2. CASE Aborts \/ ClearTurn
  <2>1. UNCHANGED <<phase, call, row, ahead>>
    BY <1>2 DEF Aborts, ClearTurn, serial
  <2>2. \A d \in Dispatches : Stage(d)' = Stage(d) /\ Outcome(d)' = Outcome(d)
    BY <2>1, SameStage DEF Serial
  <2> QED BY <2>1, <2>2 DEF Order!vars, Stages, Results
<1>3. CASE Restart
  BY <1>3, RestartIsOrder
<1> QED BY <1>1, <1>2, <1>3, Steps

-----------------------------------------------------------------------------
(* The theorems *)

LEMMA InitOrder == Init => Signals /\ NobodyRunsForTheGone /\ Counted /\ Chain
<1> SUFFICES ASSUME Init PROVE Signals /\ NobodyRunsForTheGone /\ Counted /\ Chain
  OBVIOUS
<1>1. \A d \in Dispatches : ~Live(d) /\ row[d] = "none"
  BY DEF Init, Live, Progress
<1>2. Signals /\ NobodyRunsForTheGone
  BY <1>1 DEF Init, Signals, NobodyRunsForTheGone
<1>3. Peers = {} /\ Others = {}
  BY <1>1 DEF Peers, Others
<1>4. Counted
  BY <1>3, FS_EmptySet, LimitsAssumption DEF Init, Counted
<1>5. Lane = {}
  BY <1>1 DEF Lane
<1> QED BY <1>2, <1>4, <1>5 DEF Init, Chain

LEMMA OrderAlways == Spec => [](Accounts /\ Signals /\ NobodyRunsForTheGone /\ Counted)
<1>1. Init => Accounts /\ Signals /\ NobodyRunsForTheGone /\ Counted
  BY InitAccounts, InitOrder
<1>2. Accounts /\ Signals /\ NobodyRunsForTheGone /\ Counted /\ [Next]_vars
        => (Accounts /\ Signals /\ NobodyRunsForTheGone /\ Counted)'
  BY NextAccounts, SignalsKept, GoneKept, CountedKept
<1> QED BY <1>1, <1>2, PTL DEF Spec

LEMMA AgesAlways == Spec => []Ages
<1>1. Init => Ages
  <2> SUFFICES ASSUME Init PROVE Ages
    OBVIOUS
  <2>1. \A d \in Dispatches : phase[d] # "queued" /\ call[d] = NoCall
    BY DEF Init
  <2>2. marker = None /\ {d \in Dispatches : phase[d] = "queued"} = {}
    BY <2>1 DEF Init
  <2>3. \A d, e \in Dispatches : ~PeerOf(d, e)
    BY <2>1 DEF PeerOf
  <2> QED BY <2>1, <2>2, <2>3 DEF Ages
<1>2. Accounts /\ Accounts' /\ Signals /\ Ages /\ [Next]_vars => Ages'
  BY AgesKept
<1> QED BY <1>1, <1>2, OrderAlways, PTL DEF Spec

(* recordPeerMessage lets peer calls pass the queue, so that no dispatches   *)
(* wait for each other in a ring, with and without nesting.                  *)
THEOREM RingFree == Spec => []NoRing
BY AgesAlways, AccountsAlways, AgesNoRing, PTL

(* onParentAbort: a peer whose caller is done has been told to stop, however *)
(* deep the calls and the forwarding.                                        *)
THEOREM NoOrphans == Spec => []NobodyRunsForTheGone
BY OrderAlways, PTL

(* The counters of clearTurn keep the members of a turn within its budgets.  *)
THEOREM WithinBudgets == Spec => []BudgetsHold
<1>1. Counted => BudgetsHold
  BY DEF Counted, BudgetsHold, Peers, Others, IsPeer
<1> QED BY <1>1, OrderAlways, PTL

(* What cancelAll found waiting is not started later.                        *)
THEOREM StoppedStay == Spec => CanceledNeverStarts
<1> DEFINE Never == \A d \in stopped : phase'[d] = "executing" => phase[d] = "executing"
<1>1. Accounts /\ Signals /\ [Next]_vars => [Never]_vars
  <2> SUFFICES ASSUME Accounts, Signals, [Next]_vars, NEW x \in stopped,
                      phase'[x] = "executing", phase[x] # "executing"
               PROVE  FALSE
    OBVIOUS
  <2>1. x \in Dispatches /\ phase[x] # "new" /\ (phase[x] = "queued" => x \in aborted)
    BY DEF Signals, Accounts, TypeOK
  <2>2. ASSUME NEW d \in Dispatches, NEW c \in Calls, Begins(d, c) PROVE FALSE
    BY <2>1, <2>2, BeginsOthers
  <2>3. ASSUME NEW d \in Dispatches, Advances(d) PROVE FALSE
    BY <2>1, <2>3, AdvancesOthers
  <2>4. ASSUME NEW d \in Dispatches, Ends(d) PROVE FALSE
    BY <2>1, <2>4, EndsOthers
  <2>5. CASE Aborts \/ ClearTurn
    BY <2>5 DEF Aborts, ClearTurn
  <2>6. CASE Restart
    BY <2>1, <2>6 DEF Restart
  <2> QED BY <2>2, <2>3, <2>4, <2>5, <2>6, Steps
<1>2. Spec => [][Never]_vars
  <2> HIDE DEF Never
  <2> QED BY <1>1, OrderAlways, PTL DEF Spec
<1> QED BY <1>2 DEF CanceledNeverStarts

LEMMA LineAlways ==
  ASSUME ~AllowNesting
  PROVE  Spec => [](Chain /\ Line)
<1>1. Init => Chain /\ Line
  <2>1. Init => Chain
    BY InitOrder
  <2>2. Init => Line
    BY DEF Init, Line, Lane, Live, Progress
  <2> QED BY <2>1, <2>2
<1>2. Accounts /\ Accounts' /\ Signals /\ Chain /\ Line /\ [Next]_vars => (Chain /\ Line)'
  BY ChainKept, LineKept
<1> QED BY <1>1, <1>2, OrderAlways, PTL DEF Spec

(* enqueueTurnExecution: where members have no dispatch tools, one serial    *)
(* dispatch of the turn at a time executes or forwards, whatever is          *)
(* cancelled, times out or outlives its turn.                                *)
THEOREM SerialIsSerial ==
  ASSUME ~AllowNesting
  PROVE  Spec => []OneAtATime
<1>1. Chain => OneAtATime
  BY DEF Chain, Lane, Live, Progress, OneAtATime
<1> QED BY <1>1, LineAlways, PTL

(* TeamDispatchService, where members have no dispatch tools, implements     *)
(* DispatchOrder: serial dispatches are served in the order of the calls.    *)
THEOREM ServedInOrder ==
  ASSUME ~AllowNesting
  PROVE  Spec => OrderSpec
<1>1. Init => Order!Init
  <2> SUFFICES ASSUME Init PROVE Order!Init
    OBVIOUS
  <2>1. \A d \in Dispatches : Stage(d) = "new" /\ Outcome(d) = "none"
    BY DEF Init, Stage, Outcome, Final
  <2> QED BY <2>1 DEF Init, Order!Init, Stages, Results
<1>2. Accounts /\ Accounts' /\ Signals /\ Ages /\ Chain /\ Line /\ [Next]_vars
        => [Order!Next]_(Order!vars)
  BY StepIsOrder
<1> QED BY <1>1, <1>2, OrderAlways, AgesAlways, LineAlways, PTL DEF Spec, OrderSpec, Order!Spec
=============================================================================
