--------------------------- MODULE SessionOwner_proofs ---------------------------
(* Who holds the session in SessionTurns (activeLoops, startingSessions and   *)
(* sessions.status), in what order turns wait, who wakes them, and that they  *)
(* share one lane, for any number of turns, restarts and user operations.     *)
EXTENDS SessionLane, SessionLedger_proofs

(* The turns between startNextQueuedTurn and the .finally of its startTurn.   *)
AtDoor(at, via) == {t \in via : at[t] \in Startup}

(* The guard st is held by the one that stands there, and none that is still  *)
(* to begin is taken for one that went through.                               *)
Guarded(st, at, via) ==
  /\ st <=> AtDoor(at, via) # {}
  /\ \A t, u \in AtDoor(at, via) : t = u

Through == \A t \in viaQueue : pc[t] \notin {"new", "queued"}

Door == Through /\ (~disposing => Guarded(starting, pc, viaQueue))

(* Where only submitTurn starts turns: everyone in a startup came through the *)
(* queue, and nobody else is registered then; who runs untold is registered;  *)
(* after dispose() everyone has been told to stop.                            *)
Sole(at, act, told, via) ==
  /\ ~disposing => \A t \in Turns : at[t] \in Startup => t \in via /\ act \in {None, t}
  /\ disposing => \A t \in Turns : at[t] \in Running => t \in told
  /\ \A t \in Turns : at[t] \in Running /\ t \notin told => act = t

Alone == Sole(pc, active, cancelled, viaQueue)

-----------------------------------------------------------------------------
(* What a step does to the places and to the executor *)

(* The registered executor stays, or is told to stop and forgotten.          *)
Holds ==
  /\ cancelled \subseteq cancelled'
  /\ active' = active \/ (active' = None /\ active \in cancelled')

(* startNextQueuedTurn, called with the guard st, the executor act and the   *)
(* places at: nobody, or the head of the queue is taken.  It is never dropped *)
(* because its row has moved on.                                             *)
Calls(st, act, at) ==
  \/ pc' = at /\ starting' = st /\ viaQueue' = viaQueue
  \/ /\ ~disposing /\ act = None /\ ~st
     /\ \E h \in Turns :
          /\ at[h] = "queued" /\ pc' = [at EXCEPT ![h] = "preflight"]
          /\ starting' = TRUE /\ viaQueue' = viaQueue \cup {h}

Stands == UNCHANGED <<starting, viaQueue>>

(* A turn is submitted, or a goal turn or a direct one is started.           *)
Enters(t) ==
  /\ pc[t] = "new" /\ Stands /\ Holds
  /\ \/ pc' = [pc EXCEPT ![t] = "queued"]
     \/ t \in DirectTurns \cup GoalTurns /\ pc' = [pc EXCEPT ![t] = "preflight"]

(* The code of a turn goes on, or a queued turn is withdrawn. *)
Advances(t) ==
  /\ Stands /\ UNCHANGED <<active, cancelled>>
  /\ \/ pc[t] = "preflight" /\ pc' = [pc EXCEPT ![t] = "announced"]
     \/ pc[t] = "executing" /\ pc' = [pc EXCEPT ![t] = "finishing"]
     \/ pc[t] = "queued" /\ pc' = [pc EXCEPT ![t] = "over"]

Registers(t) ==
  /\ pc[t] = "announced" /\ pc' = [pc EXCEPT ![t] = "registered"]
  /\ active' = t /\ Stands /\ UNCHANGED cancelled

(* startTurn returns: to run the executor, or having given up. *)
Returns(t) ==
  \E p \in {"executing", "over"} :
    /\ pc[t] \in Startup
    /\ IF t \in viaQueue THEN Calls(FALSE, active', [pc EXCEPT ![t] = p])
       ELSE pc' = [pc EXCEPT ![t] = p] /\ Stands
    /\ p = "executing" => pc[t] = "registered" /\ ~disposing /\ active = t /\ active' = t
    /\ p = "over" => active' = IF active = t /\ pc[t] = "registered" THEN None ELSE active
    /\ cancelled' \in {cancelled, cancelled \ {t}}

(* An executor that was replaced ends. *)
Leaves(t) ==
  /\ pc[t] \in Running /\ active # t /\ pc' = [pc EXCEPT ![t] = "over"]
  /\ cancelled' = cancelled \ {t} /\ active' = active /\ Stands

(* The registered executor ends. *)
Ends(t) ==
  /\ pc[t] \in Running /\ active = t /\ active' = None /\ cancelled' = cancelled \ {t}
  /\ \/ Calls(starting, None, [pc EXCEPT ![t] = "over"])
     \/ /\ Stands
        /\ \E g \in GoalTurns : /\ pc[g] = "new" /\ g # t
                                /\ pc' = [pc EXCEPT ![t] = "over", ![g] = "preflight"]

Moves == /\ disposing' = disposing
         /\ \/ \E t \in Turns : \/ Enters(t) \/ Advances(t) \/ Registers(t)
                                \/ Returns(t) \/ Leaves(t) \/ Ends(t)
            \/ Holds /\ Calls(starting, active', pc)

(* Nobody is in the queue but turns that wait, and their rows say so.        *)
Waits(q, at, reqs) ==
  \A i \in DOMAIN q : /\ at[q[i]] = "queued"
                      /\ ~disposing => reqs[q[i]] \in {"none", "accepted"}

LEMMA CallsNext ==
  ASSUME NEW q \in Seq(Turns), NEW act, NEW gate, NEW st, NEW at, NEW reqs, NEW tm,
         Waits(q, at, reqs),
         StartNextQueuedTurn(q, act, gate, st, at, reqs, tm)
  PROVE  Calls(st, act, at)
<1>1. CASE HeldBack(act, gate, st) \/ q = <<>>
  BY <1>1 DEF StartNextQueuedTurn, Calls
<1>2. CASE ~(HeldBack(act, gate, st) \/ q = <<>>)
  <2>1. ~disposing /\ act = None /\ ~st
    BY <1>2 DEF HeldBack
  <2>2. Head(q) \in Turns /\ at[Head(q)] = "queued" /\ reqs[Head(q)] \in {"none", "accepted"}
    <3>1. Head(q) \in Turns /\ Head(q) = q[1] /\ 1 \in DOMAIN q
      BY <1>2, HeadTailProperties, EmptySeq
    <3> QED BY <2>1, <3>1 DEF Waits
  <2> QED BY <1>2, <2>1, <2>2 DEF StartNextQueuedTurn, Calls
<1> QED BY <1>1, <1>2

(* Rows that are closed by name are not those of waiting turns.              *)
Closes(rows) ==
  rows = request \/ \E u, s : (u \in Turns => Begun(u)) /\ rows = Close(request, u, s)

(* Who is at another place than "queued" is not in the queue.                *)
LEMMA QueueWaits ==
  ASSUME TypeOK, Ledger, NEW rows, Closes(rows)
  PROVE  /\ queue \in Seq(Turns) /\ Waits(queue, pc, rows)
         /\ \A t, p : pc[t] # "queued" => Waits(queue, [pc EXCEPT ![t] = p], rows)
<1>1. queue \in Seq(Turns) /\ pc \in [Turns -> Places] /\ request \in [Turns -> RowStates]
  BY DEF TypeOK
<1>2. ASSUME NEW i \in DOMAIN queue
      PROVE  /\ queue[i] \in Turns /\ pc[queue[i]] = "queued"
             /\ ~disposing => rows[queue[i]] \in {"none", "accepted"}
  <2>1. queue[i] \in Turns /\ pc[queue[i]] = "queued"
    BY <1>1 DEF Ledger, Books
  <2>2. ASSUME ~disposing PROVE request[queue[i]] \in {"none", "accepted"}
    BY <2>1, <2>2 DEF Ledger, Books
  <2>3. ASSUME ~disposing, NEW u, NEW s, u \in Turns => Begun(u), rows = Close(request, u, s)
        PROVE  rows[queue[i]] \in {"none", "accepted"}
    <3>1. CASE queue[i] = u
      BY <1>1, <2>1, <2>2, <2>3, <3>1 DEF Close, Begun
    <3>2. CASE queue[i] # u
      BY <1>1, <2>1, <2>2, <2>3, <3>2 DEF Close
    <3> QED BY <3>1, <3>2
  <2> QED BY <2>1, <2>2, <2>3 DEF Closes
<1> QED BY <1>1, <1>2 DEF Waits

LEMMA StartReturnsCalls ==
  ASSUME TypeOK, Ledger, NEW t \in Turns, pc[t] \in Startup, NEW p, NEW rows, NEW act,
         Closes(rows), StartReturns(t, [pc EXCEPT ![t] = p], rows, act)
  PROVE  IF t \in viaQueue THEN Calls(FALSE, act, [pc EXCEPT ![t] = p])
         ELSE pc' = [pc EXCEPT ![t] = p] /\ Stands
<1>1. pc[t] # "queued"
  BY DEF Startup
<1> DEFINE at == [pc EXCEPT ![t] = p]
<1>2. queue \in Seq(Turns) /\ Waits(queue, at, rows)
  BY <1>1, QueueWaits
<1> HIDE DEF at
<1>3. StartReturns(t, at, rows, act)
  BY DEF at
<1>4. CASE t \in viaQueue
  <2>1. StartNextQueuedTurn(queue, act, planGate, FALSE, at, rows, timers)
    BY <1>3, <1>4 DEF StartReturns
  <2>2. Calls(FALSE, act, at)
    BY <1>2, <2>1, CallsNext
  <2> QED BY <1>4, <2>2 DEF at
<1>5. CASE t \notin viaQueue
  BY <1>3, <1>5 DEF StartReturns, Stands, at
<1> QED BY <1>4, <1>5

LEMMA ContinueEnds ==
  ASSUME TypeOK, Ledger, NEW t \in Turns, pc[t] \in Running, active = t,
         NEW rows, Closes(rows), NEW last,
         ContinueGoalOrQueue([pc EXCEPT ![t] = "over"], rows, last),
         cancelled' = cancelled \ {t}
  PROVE  Ends(t)
<1>1. pc[t] # "queued" /\ pc[t] # "new" /\ pc \in [Turns -> Places] /\ active' = None
  BY DEF Running, ContinueGoalOrQueue, TypeOK
<1> DEFINE at == [pc EXCEPT ![t] = "over"]
<1>2. queue \in Seq(Turns) /\ Waits(queue, at, rows)
  BY <1>1, QueueWaits
<1>3. at[t] # "new" /\ \A g \in Turns : at[g] = "new" => pc[g] = "new" /\ g # t
  BY <1>1
<1> HIDE DEF at
<1>4. ContinueGoalOrQueue(at, rows, last)
  BY DEF at
<1>5. CASE StartNextQueuedTurn(queue, None, planGate, starting, at, rows, timers)
  <2>1. Calls(starting, None, at)
    BY <1>2, <1>5, CallsNext
  <2> QED BY <1>1, <2>1 DEF Ends, at
<1>6. CASE pc' = at /\ Stands
  <2>1. Calls(starting, None, at)
    BY <1>6 DEF Calls, Stands
  <2> QED BY <1>1, <2>1 DEF Ends, at
<1>7. CASE Stands /\ \E g \in GoalTurns : at[g] = "new" /\ pc' = [at EXCEPT ![g] = "preflight"]
  <2>1. PICK g \in GoalTurns : at[g] = "new" /\ pc' = [at EXCEPT ![g] = "preflight"]
    BY <1>7
  <2>2. pc[g] = "new" /\ g # t
    BY <1>3, <2>1 DEF Turns
  <2> QED BY <1>1, <1>7, <2>1, <2>2 DEF Ends, at
<1> QED BY <1>4, <1>5, <1>6, <1>7 DEF ContinueGoalOrQueue, StartGoalLoop, Stands

(* Whoever calls startNextQueuedTurn with the places as they are.            *)
LEMMA PlainCall ==
  ASSUME TypeOK, Ledger, Holds, NEW gate, NEW rows, Closes(rows), NEW tm,
         StartNextQueuedTurn(queue, active', gate, starting, pc, rows, tm)
  PROVE  Holds /\ Calls(starting, active', pc)
<1>1. queue \in Seq(Turns) /\ Waits(queue, pc, rows)
  BY QueueWaits
<1> QED BY <1>1, CallsNext

LEMMA SubmitMoves ==
  ASSUME TypeOK, Ledger, Submit
  PROVE  Moves
<1>1. PICK t \in Turns : SubmitBehind(t) \/ SubmitAndSchedule(t) \/ SendDirect(t)
  BY DEF Submit
<1>2. pc[t] = "new" /\ Holds /\ Stands /\ disposing' = disposing
  BY <1>1 DEF SubmitBehind, SubmitAndSchedule, SendDirect, Accepting, EnqueueNew, TakeOver,
              KeepActive, Holds, Stands, process
<1>3. CASE SendDirect(t)
  BY <1>2, <1>3 DEF SendDirect, Enters, Moves
<1>4. CASE ~SendDirect(t)
  BY <1>1, <1>2, <1>4 DEF SubmitBehind, SubmitAndSchedule, EnqueueNew, Enters, Moves
<1> QED BY <1>3, <1>4

LEMMA PreflightMoves ==
  ASSUME TypeOK, Ledger, NEW t \in Turns, Preflight(t)
  PROVE  Moves
<1>1. CASE Announce(t)
  BY <1>1 DEF Announce, Advances, Stands, Moves, memory, process
<1>2. CASE Register(t)
  BY <1>2 DEF Register, Registers, Stands, Moves, process
<1>3. CASE StartRejects(t) \/ SetupUnavailable(t)
  <2>1. /\ pc[t] \in {"preflight", "announced"} /\ pc[t] \in Startup
        /\ active' = active /\ cancelled' = cancelled /\ disposing' = disposing
        /\ \E rows \in {request, Close(request, t, "failed")} :
             StartReturns(t, [pc EXCEPT ![t] = "over"], rows, active)
    BY <1>3 DEF StartRejects, SetupUnavailable, Startup, process
  <2>2. IF t \in viaQueue THEN Calls(FALSE, active', [pc EXCEPT ![t] = "over"])
        ELSE pc' = [pc EXCEPT ![t] = "over"] /\ Stands
    <3>1. Begun(t)
      BY <2>1 DEF Begun, Startup, Ledger, Books
    <3>2. Closes(request) /\ Closes(Close(request, t, "failed"))
      BY <3>1 DEF Closes
    <3> QED BY <2>1, <3>2, StartReturnsCalls
  <2>3. Returns(t)
    BY <2>1, <2>2 DEF Returns
  <2> QED BY <2>1, <2>3 DEF Moves
<1>4. CASE Execute(t)
  <2>1. pc[t] = "registered" /\ pc[t] \in Startup /\ disposing' = disposing
        /\ cancelled' = cancelled \ {t}
    BY <1>4 DEF Execute, Startup, process
  <2>2. CASE MayExecute(t) /\ active' = active
             /\ StartReturns(t, [pc EXCEPT ![t] = "executing"], request, active)
    <3>1. IF t \in viaQueue THEN Calls(FALSE, active', [pc EXCEPT ![t] = "executing"])
          ELSE pc' = [pc EXCEPT ![t] = "executing"] /\ Stands
      BY <2>1, <2>2, StartReturnsCalls DEF Closes
    <3>2. ~disposing /\ active = t /\ active' = t
      BY <2>2 DEF MayExecute
    <3>3. Returns(t)
      BY <2>1, <3>1, <3>2 DEF Returns
    <3> QED BY <2>1, <3>3 DEF Moves
  <2>3. CASE active' = (IF active = t THEN None ELSE active)
             /\ StartReturns(t, [pc EXCEPT ![t] = "over"], request, active')
    <3>1. IF t \in viaQueue THEN Calls(FALSE, active', [pc EXCEPT ![t] = "over"])
          ELSE pc' = [pc EXCEPT ![t] = "over"] /\ Stands
      BY <2>1, <2>3, StartReturnsCalls DEF Closes
    <3>2. Returns(t)
      BY <2>1, <2>3, <3>1 DEF Returns
    <3> QED BY <2>1, <3>2 DEF Moves
  <2> QED BY <1>4, <2>2, <2>3 DEF Execute
<1> QED BY <1>1, <1>2, <1>3, <1>4 DEF Preflight

LEMMA ConcludeMoves ==
  ASSUME TypeOK, Ledger, NEW t \in Turns, Conclude(t)
  PROVE  Moves
<1>1. pc[t] \in Running /\ disposing' = disposing
  BY DEF Conclude, Settle, SettleCompleted, Finish, EndUnowned, EndOwned, EndSilent, Running,
         process
<1>2. CASE EndUnowned(t)
  BY <1>1, <1>2 DEF EndUnowned, Leaves, Stands, Moves, memory
<1>3. CASE SettleCompleted(t)
  BY <1>3 DEF SettleCompleted, Advances, Stands, Moves, memory, process
<1>4. ASSUME NEW v, EndOwned(t, v) PROVE Moves
  <2>1. active = t /\ cancelled' = cancelled \ {t}
        /\ ContinueGoalOrQueue([pc EXCEPT ![t] = "over"], Close(request, t, RowOf(v)), t)
    BY <1>4 DEF EndOwned
  <2>2. Closes(Close(request, t, RowOf(v)))
    BY <1>1 DEF Closes, Begun, Running, Ledger, Books
  <2>3. Ends(t)
    BY <1>1, <2>1, <2>2, ContinueEnds
  <2> QED BY <1>1, <2>3 DEF Moves
<1>5. CASE EndSilent(t)
  <2>1. active = t /\ cancelled' = cancelled \ {t}
        /\ ContinueGoalOrQueue([pc EXCEPT ![t] = "over"], request, latest)
    BY <1>5 DEF EndSilent
  <2>2. Ends(t)
    BY <1>1, <2>1, ContinueEnds DEF Closes
  <2> QED BY <1>1, <2>2 DEF Moves
<1> QED BY <1>2, <1>3, <1>4, <1>5 DEF Conclude, Settle, Finish

(* Nothing about the places changes.                                         *)
LEMMA StayMoves ==
  ASSUME Holds, pc' = pc, Stands, disposing' = disposing
  PROVE  Moves
BY DEF Moves, Calls, Stands

LEMMA ControlMoves ==
  ASSUME TypeOK, Ledger, Control \/ CancelWhileIdle
  PROVE  Moves
<1>1. ASSUME NEW t \in Turns, AnswerQuestion(t) PROVE Moves
  BY <1>1, StayMoves DEF AnswerQuestion, Holds, Stands, process, threads
<1>2. ASSUME NEW t \in Turns, CancelQueuedTurn(t) PROVE Moves
  <2>1. pc[t] = "queued"
    BY <1>2 DEF CancelQueuedTurn, Queued, Ledger, Books
  <2> QED BY <1>2, <2>1 DEF CancelQueuedTurn, Advances, Stands, Moves, process
<1>3. ASSUME NEW t \in Turns, SendQueuedTurnNow(t) PROVE Moves
  <2> DEFINE q == <<t>> \o RemoveIndex(queue, Position(t))
  <2>1. Holds /\ disposing' = disposing
    BY <1>3 DEF SendQueuedTurnNow, KeepActive, TakeOver, Holds
  <2>2. CASE pc' = pc /\ Stands
    BY <2>1, <2>2, StayMoves
  <2>3. CASE active' = None /\ StartNextQueuedTurn(q, None, None, starting, pc, request, timers)
    <3>1. q \in Seq(Turns) /\ Books(q, pc, request, disposing)
      BY <1>3, Promote DEF SendQueuedTurnNow
    <3> HIDE DEF q
    <3>2. Waits(q, pc, request)
      <4>1. \A i \in DOMAIN q : q[i] \in Turns
        BY <3>1
      <4> QED BY <3>1, <4>1 DEF Books, Waits
    <3>3. Calls(starting, None, pc)
      BY <2>3, <3>1, <3>2, CallsNext
    <3> QED BY <2>1, <2>3, <3>3 DEF Moves
  <2> QED BY <1>3, <2>2, <2>3 DEF SendQueuedTurnNow, TakeOver, Stands
<1>4. CASE CancelTurn
  <2>1. /\ Holds /\ disposing' = disposing /\ active' = None
        /\ StartNextQueuedTurn(queue, active', None, starting, pc,
                               Close(request, latest, "cancelled"), timers)
    BY <1>4 DEF CancelTurn, TakeOver, Holds, process
  <2>2. Closes(Close(request, latest, "cancelled"))
    BY DEF Closes, Ledger, Heard
  <2> QED BY <2>1, <2>2, PlainCall DEF Moves
<1>5. ASSUME NEW last, DecidePlan(last) PROVE Moves
  <2>1. /\ Holds /\ disposing' = disposing /\ active' = active
        /\ StartNextQueuedTurn(queue, active', None, starting, pc, request, timers)
    BY <1>5 DEF DecidePlan, Holds, process
  <2> QED BY <2>1, PlainCall DEF Moves, Closes
<1>6. CASE CancelWhileIdle
  BY <1>6, StayMoves DEF CancelWhileIdle, Holds, Stands, process, threads
<1> QED BY <1>1, <1>2, <1>3, <1>4, <1>5, <1>6 DEF Control, RejectPlan, UpdatePermissionMode

LEMMA PursueMoves ==
  ASSUME TypeOK, Ledger, Pursue
  PROVE  Moves
<1>1. CASE ActivateGoal
  <2>1. Stands /\ Holds /\ disposing' = disposing
    BY <1>1 DEF ActivateGoal, GoalUnchanged, Stands, Holds, process
  <2>2. CASE pc' = pc
    BY <2>1, <2>2, StayMoves
  <2>3. CASE pc' # pc
    BY <1>1, <2>1, <2>3 DEF ActivateGoal, StartGoalLoop, Enters, Moves, Turns
  <2> QED BY <2>2, <2>3
<1>2. CASE SuspendGoal
  BY <1>2, StayMoves DEF SuspendGoal, GoalUnchanged, Stands, Holds, process
<1>3. CASE ClearGoal
  BY <1>3, StayMoves DEF ClearGoal, Stands, Holds, memory, process
<1>4. ASSUME NEW g \in GoalTurns, DraftGoal(g) PROVE Moves
  BY <1>4 DEF DraftGoal, Enters, Stands, Holds, Moves, Turns, process
<1> QED BY <1>1, <1>2, <1>3, <1>4 DEF Pursue

LEMMA StepMoves ==
  ASSUME TypeOK, Ledger, [Next]_vars
  PROVE  Moves \/ Dispose \/ Restart
<1>1. CASE Submit
  BY <1>1, SubmitMoves
<1>2. CASE FireTimer
  <2>1. /\ Holds /\ disposing' = disposing /\ active' = active
        /\ StartNextQueuedTurn(queue, active', planGate, starting, pc, request, timers - 1)
    BY <1>2 DEF FireTimer, Holds, process
  <2> QED BY <2>1, PlainCall DEF Moves, Closes
<1>3. CASE Run
  <2>1. ASSUME NEW t \in Turns, Emit(t) \/ ProposePlan(t) \/ AskQuestion(t) PROVE Moves
    BY <2>1, StayMoves DEF Emit, ProposePlan, AskQuestion, Holds, Stands, memory, process, threads
  <2> QED BY <1>3, <2>1, PreflightMoves, ConcludeMoves DEF Run
<1>4. CASE Control \/ CancelWhileIdle
  BY <1>4, ControlMoves
<1>5. CASE Pursue
  BY <1>5, PursueMoves
<1>6. CASE UNCHANGED vars
  BY <1>6, StayMoves DEF vars, memory, process, threads, Holds, Stands
<1> QED BY <1>1, <1>2, <1>3, <1>4, <1>5, <1>6 DEF Next, Steps

-----------------------------------------------------------------------------
(* The invariants *)

LEMMA OwnerKept ==
  ASSUME TypeOK, Ledger, OwnerIsLive, [Next]_vars
  PROVE  OwnerIsLive'
<1> DEFINE Live == {"registered", "executing", "finishing"}
           Kept(at) == active' # None => active' \in Turns /\ at[active'] \in Live
<1>0. pc \in [Turns -> Places] /\ active \in Turns \cup {None} /\ None \notin Turns
  BY TurnsAssumption DEF TypeOK
<1>1. ASSUME NEW st, NEW act, NEW at \in [Turns -> Places], Calls(st, act, at), Kept(at)
      PROVE  OwnerIsLive'
  BY <1>1 DEF Calls, OwnerIsLive
<1>2. Holds => Kept(pc)
  BY <1>0 DEF Holds, OwnerIsLive
<1>3. ASSUME NEW t \in Turns, Enters(t) PROVE OwnerIsLive'
  BY <1>0, <1>2, <1>3 DEF Enters, OwnerIsLive
<1>4. ASSUME NEW t \in Turns, Advances(t) PROVE OwnerIsLive'
  BY <1>0, <1>4 DEF Advances, OwnerIsLive
<1>5. ASSUME NEW t \in Turns, Registers(t) PROVE OwnerIsLive'
  BY <1>0, <1>5 DEF Registers, OwnerIsLive
<1>6. ASSUME NEW t \in Turns, Leaves(t) PROVE OwnerIsLive'
  BY <1>0, <1>6 DEF Leaves, OwnerIsLive
<1>7. ASSUME NEW t \in Turns, Ends(t) PROVE OwnerIsLive'
  BY <1>0, <1>7 DEF Ends, OwnerIsLive
<1>8. ASSUME NEW t \in Turns, Returns(t) PROVE OwnerIsLive'
  <2>1. PICK p \in {"executing", "over"} :
          /\ pc[t] \in Startup
          /\ IF t \in viaQueue THEN Calls(FALSE, active', [pc EXCEPT ![t] = p])
             ELSE pc' = [pc EXCEPT ![t] = p] /\ Stands
          /\ p = "executing" => active = t /\ active' = t
          /\ p = "over" => active' = IF active = t /\ pc[t] = "registered" THEN None ELSE active
    BY <1>8 DEF Returns
  <2> DEFINE at == [pc EXCEPT ![t] = p]
  <2>2. at \in [Turns -> Places]
    BY <1>0 DEF Places
  <2>3. Kept(at)
    BY <1>0, <2>1 DEF OwnerIsLive, Startup
  <2>4. Calls(FALSE, active', at) \/ pc' = at
    BY <2>1
  <2> HIDE DEF at
  <2> QED BY <1>1, <2>2, <2>3, <2>4 DEF OwnerIsLive
<1>9. CASE Dispose \/ Restart
  BY <1>9 DEF Dispose, Restart, OwnerIsLive
<1> HIDE DEF Kept
<1> QED BY <1>0, <1>1, <1>2, <1>3, <1>4, <1>5, <1>6, <1>7, <1>8, <1>9, StepMoves DEF Moves

(* A call of startNextQueuedTurn keeps the guard.                            *)
LEMMA CallsGuarded ==
  ASSUME TypeOK, NEW st \in BOOLEAN, NEW act, NEW at \in [Turns -> Places], Calls(st, act, at),
         \A t \in viaQueue : at[t] \notin {"new", "queued"},
         ~disposing => Guarded(st, at, viaQueue), disposing' = disposing
  PROVE  Door'
<1>1. viaQueue \subseteq Turns
  BY DEF TypeOK
<1>2. CASE pc' = at /\ starting' = st /\ viaQueue' = viaQueue
  BY <1>2 DEF Door, Through
<1>3. ASSUME NEW h \in Turns, at[h] = "queued", pc' = [at EXCEPT ![h] = "preflight"], ~st,
             ~disposing, starting' = TRUE, viaQueue' = viaQueue \cup {h}
      PROVE  Door'
  <2>1. AtDoor(at, viaQueue) = {}
    BY <1>3 DEF Guarded
  <2>2. AtDoor(pc', viaQueue') = {h}
    BY <1>1, <1>3, <2>1 DEF AtDoor, Startup
  <2> QED BY <1>1, <1>3, <2>2 DEF Door, Through, Guarded
<1>4. ASSUME NEW h \in Turns, at[h] = "queued", pc' = [at EXCEPT ![h] = "over"],
             ~disposing, starting' = st, viaQueue' = viaQueue
      PROVE  Door'
  <2>1. AtDoor(pc', viaQueue') = AtDoor(at, viaQueue)
    BY <1>1, <1>4 DEF AtDoor, Startup
  <2> QED BY <1>1, <1>4, <2>1 DEF Door, Through, Guarded
<1> QED BY <1>2, <1>3, <1>4 DEF Calls

(* So does a step of one turn that nobody takes for one of the queue's.      *)
LEMMA StandsGuarded ==
  ASSUME TypeOK, Door, Stands, disposing' = disposing,
         \A t \in viaQueue : /\ pc'[t] \in Startup <=> pc[t] \in Startup
                             /\ pc'[t] \notin {"new", "queued"}
  PROVE  Door'
<1>1. AtDoor(pc', viaQueue') = AtDoor(pc, viaQueue)
  BY DEF AtDoor, Stands
<1> QED BY <1>1 DEF Door, Through, Guarded, Stands

LEMMA DoorKept ==
  ASSUME TypeOK, Ledger, Door, [Next]_vars
  PROVE  Door'
<1>0. /\ pc \in [Turns -> Places] /\ viaQueue \subseteq Turns /\ starting \in BOOLEAN
      /\ \A t \in viaQueue : pc[t] \notin {"new", "queued"}
  BY DEF TypeOK, Door, Through
<1>1. ASSUME disposing' = disposing, NEW t \in Turns,
             Enters(t) \/ Advances(t) \/ Registers(t) \/ Leaves(t)
      PROVE  Door'
  <2>1. Stands
    BY <1>1 DEF Enters, Advances, Registers, Leaves
  <2>2. \A u \in viaQueue : /\ pc'[u] \in Startup <=> pc[u] \in Startup
                            /\ pc'[u] \notin {"new", "queued"}
    BY <1>0, <1>1 DEF Enters, Advances, Registers, Leaves, Startup, Running
  <2> QED BY <1>1, <2>1, <2>2, StandsGuarded
<1>2. ASSUME disposing' = disposing, NEW t \in Turns, Ends(t) PROVE Door'
  <2>1. /\ [pc EXCEPT ![t] = "over"] \in [Turns -> Places]
        /\ \A u \in viaQueue : [pc EXCEPT ![t] = "over"][u] \notin {"new", "queued"}
    BY <1>0 DEF Places
  <2>2. AtDoor([pc EXCEPT ![t] = "over"], viaQueue) = AtDoor(pc, viaQueue)
    BY <1>0, <1>2 DEF AtDoor, Ends, Startup, Running
  <2>3. CASE Calls(starting, None, [pc EXCEPT ![t] = "over"])
    BY <1>0, <1>2, <2>1, <2>2, <2>3, CallsGuarded DEF Door, Guarded
  <2>4. CASE Stands /\ \E g \in GoalTurns :
               pc[g] = "new" /\ g # t /\ pc' = [pc EXCEPT ![t] = "over", ![g] = "preflight"]
    <3>1. \A u \in viaQueue : /\ pc'[u] \in Startup <=> pc[u] \in Startup
                              /\ pc'[u] \notin {"new", "queued"}
      BY <1>0, <1>2, <2>4 DEF Ends, Startup, Running
    <3> QED BY <1>2, <2>4, <3>1, StandsGuarded
  <2> QED BY <1>2, <2>3, <2>4 DEF Ends
<1>3. ASSUME disposing' = disposing, NEW t \in Turns, Returns(t) PROVE Door'
  <2>1. PICK p \in {"executing", "over"} :
          /\ pc[t] \in Startup
          /\ IF t \in viaQueue THEN Calls(FALSE, active', [pc EXCEPT ![t] = p])
             ELSE pc' = [pc EXCEPT ![t] = p] /\ Stands
    BY <1>3 DEF Returns
  <2>2. CASE t \in viaQueue
    <3> DEFINE at == [pc EXCEPT ![t] = p]
    <3>1. at \in [Turns -> Places] /\ \A u \in viaQueue : at[u] \notin {"new", "queued"}
      BY <1>0 DEF Places
    <3>2. ~disposing => Guarded(FALSE, at, viaQueue)
      <4>1. t \in AtDoor(pc, viaQueue)
        BY <2>1, <2>2 DEF AtDoor
      <4>2. ~disposing => AtDoor(pc, viaQueue) = {t}
        BY <4>1 DEF Door, Guarded
      <4>3. AtDoor(at, viaQueue) \subseteq AtDoor(pc, viaQueue) \ {t}
        BY <1>0, <2>1 DEF AtDoor, Startup
      <4> HIDE DEF at
      <4> QED BY <4>2, <4>3 DEF Guarded
    <3>3. Calls(FALSE, active', at)
      BY <2>1, <2>2
    <3> HIDE DEF at
    <3> QED BY <1>3, <3>1, <3>2, <3>3, CallsGuarded
  <2>3. CASE t \notin viaQueue
    BY <1>0, <1>3, <2>1, <2>3, StandsGuarded
  <2> QED BY <2>2, <2>3
<1>4. CASE disposing' = disposing /\ Calls(starting, active', pc)
  BY <1>0, <1>4, CallsGuarded DEF Door
<1>5. CASE Dispose
  <2>1. disposing' /\ viaQueue' = viaQueue
        /\ \A t \in Turns : pc'[t] = IF pc[t] = "queued" THEN "over" ELSE pc[t]
    BY <1>5 DEF Dispose
  <2> QED BY <1>0, <2>1 DEF Door, Through
<1>6. CASE Restart
  BY <1>6 DEF Restart, Door, Through, Guarded, AtDoor
<1> QED BY <1>1, <1>2, <1>3, <1>4, <1>5, <1>6, StepMoves DEF Moves

(* A call of startNextQueuedTurn keeps them alone.                           *)
LEMMA CallsSole ==
  ASSUME NEW st, NEW at \in [Turns -> Places], Calls(st, active', at),
         Sole(at, active', cancelled', viaQueue), disposing' = disposing
  PROVE  Alone'
<1>1. CASE pc' = at /\ viaQueue' = viaQueue
  BY <1>1 DEF Sole, Alone
<1>2. ASSUME NEW h \in Turns, at[h] = "queued", pc' = [at EXCEPT ![h] = "preflight"],
             active' = None, viaQueue' = viaQueue \cup {h}
      PROVE  Alone'
  <2>1. \A t \in Turns : /\ pc'[t] \in Startup => t = h \/ at[t] \in Startup
                         /\ pc'[t] \in Running => at[t] \in Running
    BY <1>2 DEF Running
  <2> QED BY <1>2, <2>1 DEF Sole, Alone
<1>3. ASSUME NEW h \in Turns, pc' = [at EXCEPT ![h] = "over"], viaQueue' = viaQueue
      PROVE  Alone'
  <2>1. \A t \in Turns : /\ pc'[t] \in Startup => at[t] \in Startup
                         /\ pc'[t] \in Running => at[t] \in Running
    BY <1>3 DEF Startup, Running
  <2> QED BY <1>3, <2>1 DEF Sole, Alone
<1> QED BY <1>1, <1>2, <1>3 DEF Calls

LEMMA AloneKept ==
  ASSUME TypeOK, Ledger, Door, Alone, DirectTurns = {}, GoalTurns = {}, [Next]_vars
  PROVE  Alone'
<1>0. /\ pc \in [Turns -> Places] /\ None \notin Turns
      /\ Sole(pc, active, cancelled, viaQueue)
  BY TurnsAssumption DEF TypeOK, Alone
(* One turn at a time is at the door. *)
<1>a. \A t, u \in Turns : ~disposing /\ pc[t] \in Startup /\ pc[u] \in Startup => t = u
  BY <1>0 DEF Sole, Door, Guarded, AtDoor
<1>b. Holds => Sole(pc, active', cancelled', viaQueue)
  BY <1>0 DEF Holds, Sole
<1>1. ASSUME disposing' = disposing, NEW t \in Turns, Enters(t) PROVE Alone'
  <2>1. Holds /\ Stands /\ pc' = [pc EXCEPT ![t] = "queued"]
    BY <1>1 DEF Enters
  <2>2. \A u \in Turns : /\ pc'[u] \in Startup => pc[u] \in Startup
                         /\ pc'[u] \in Running => pc[u] \in Running
    BY <1>0, <2>1 DEF Startup, Running
  <2> QED BY <1>1, <1>b, <2>1, <2>2 DEF Sole, Alone, Stands
<1>2. ASSUME disposing' = disposing, NEW t \in Turns, Advances(t) PROVE Alone'
  <2>1. \A u \in Turns : /\ pc'[u] \in Startup => pc[u] \in Startup
                         /\ pc'[u] \in Running => pc[u] \in Running
    BY <1>0, <1>2 DEF Advances, Startup, Running
  <2> QED BY <1>0, <1>2, <2>1 DEF Sole, Alone, Stands, Advances
<1>3. ASSUME disposing' = disposing, NEW t \in Turns, Registers(t) PROVE Alone'
  <2>1. \A u \in Turns : /\ pc'[u] \in Startup <=> pc[u] \in Startup
                         /\ pc'[u] \in Running <=> pc[u] \in Running
    BY <1>0, <1>3 DEF Registers, Startup, Running
  <2>2. pc[t] \in Startup /\ pc[t] \notin Running
    BY <1>3 DEF Registers, Startup, Running
  <2>3. active' = t /\ viaQueue' = viaQueue /\ cancelled' = cancelled
    BY <1>3 DEF Registers, Stands
  <2>4. \A u \in Turns : ~disposing /\ pc[u] \in Startup => u \in viaQueue /\ u = t
    BY <1>0, <1>a, <2>2 DEF Sole
  <2>5. \A u \in Turns : pc[u] \in Running => u \in cancelled
    BY <1>0, <2>2 DEF Sole
  <2> QED BY <1>3, <2>1, <2>3, <2>4, <2>5 DEF Sole, Alone
<1>4. ASSUME disposing' = disposing, NEW t \in Turns, Leaves(t) PROVE Alone'
  <2>1. \A u \in Turns : /\ pc'[u] \in Startup => pc[u] \in Startup
                         /\ pc'[u] \in Running => pc[u] \in Running /\ u # t
    BY <1>0, <1>4 DEF Leaves, Startup, Running
  <2> QED BY <1>0, <1>4, <2>1 DEF Sole, Alone, Stands, Leaves
<1>5. ASSUME disposing' = disposing, NEW t \in Turns, Ends(t) PROVE Alone'
  <2> DEFINE at == [pc EXCEPT ![t] = "over"]
  <2>1. /\ at \in [Turns -> Places]
        /\ \A u \in Turns : /\ at[u] \in Startup => pc[u] \in Startup
                            /\ at[u] \in Running => pc[u] \in Running /\ u # t
    BY <1>0 DEF Places, Startup, Running
  <2>2. active = t /\ active' = None /\ cancelled' = cancelled \ {t} /\ Calls(starting, active', at)
    BY <1>5 DEF Ends
  <2> HIDE DEF at
  <2>3. Sole(at, active', cancelled', viaQueue)
    BY <1>0, <2>1, <2>2 DEF Sole
  <2> QED BY <1>5, <2>1, <2>2, <2>3, CallsSole
<1>6. ASSUME disposing' = disposing, NEW t \in Turns, Returns(t) PROVE Alone'
  <2>1. PICK p \in {"executing", "over"} :
          /\ pc[t] \in Startup
          /\ IF t \in viaQueue THEN Calls(FALSE, active', [pc EXCEPT ![t] = p])
             ELSE pc' = [pc EXCEPT ![t] = p] /\ Stands
          /\ p = "executing" => ~disposing /\ active = t /\ active' = t
          /\ p = "over" => active' = IF active = t /\ pc[t] = "registered" THEN None ELSE active
          /\ cancelled' \in {cancelled, cancelled \ {t}}
    BY <1>6 DEF Returns
  <2> DEFINE at == [pc EXCEPT ![t] = p]
  <2>2. at \in [Turns -> Places] /\ at[t] = p
        /\ \A u \in Turns : u # t => at[u] = pc[u]
    BY <1>0 DEF Places
  <2>3. (\E st : Calls(st, active', at)) \/ (pc' = at /\ viaQueue' = viaQueue)
    BY <2>1 DEF Stands
  <2> HIDE DEF at
  <2>4. Sole(at, active', cancelled', viaQueue)
    <3>1. ASSUME ~disposing, NEW u \in Turns, at[u] \in Startup PROVE FALSE
      BY <1>a, <2>1, <2>2, <3>1 DEF Startup
    <3>2. ASSUME disposing, NEW u \in Turns, at[u] \in Running PROVE u \in cancelled'
      <4>1. u # t
        BY <2>1, <2>2, <3>2 DEF Running
      <4> QED BY <1>0, <2>1, <2>2, <3>2, <4>1 DEF Sole
    <3>3. ASSUME NEW u \in Turns, at[u] \in Running, u \notin cancelled' PROVE active' = u
      <4>1. CASE u = t
        BY <2>1, <2>2, <3>3, <4>1 DEF Running
      <4>2. CASE u # t
        <5>1. pc[u] \in Running /\ u \notin cancelled
          BY <2>1, <2>2, <3>3, <4>2
        <5>2. active = u
          BY <1>0, <5>1 DEF Sole
        <5> QED BY <2>1, <4>2, <5>2
      <4> QED BY <4>1, <4>2
    <3> QED BY <3>1, <3>2, <3>3 DEF Sole
  <2>5. CASE pc' = at /\ viaQueue' = viaQueue
    BY <1>6, <2>4, <2>5 DEF Sole, Alone
  <2> QED BY <1>6, <2>2, <2>3, <2>4, <2>5, CallsSole
<1>7. CASE disposing' = disposing /\ Holds /\ Calls(starting, active', pc)
  BY <1>0, <1>b, <1>7, CallsSole
<1>8. CASE Dispose
  <2>1. /\ disposing' /\ cancelled' = cancelled \cup {t \in Turns : pc[t] \in Running \/ active = t}
        /\ \A t \in Turns : pc'[t] = IF pc[t] = "queued" THEN "over" ELSE pc[t]
    BY <1>8 DEF Dispose
  <2>2. \A t \in Turns : pc'[t] \in Running => t \in cancelled'
    BY <2>1 DEF Running
  <2> QED BY <2>1, <2>2 DEF Sole, Alone
<1>9. CASE Restart
  <2>1. \A t \in Turns : pc'[t] \in {"queued", "new", "over"}
    BY <1>9 DEF Restart, RecoverRequests
  <2>2. \A t \in Turns : pc'[t] \notin Startup \cup Running
    BY <2>1 DEF Startup, Running
  <2> QED BY <2>2 DEF Sole, Alone
<1> QED BY <1>1, <1>2, <1>3, <1>4, <1>5, <1>6, <1>7, <1>8, <1>9, StepMoves DEF Moves

-----------------------------------------------------------------------------
(* sessions.status and the rows *)

LEMMA RunningKept ==
  ASSUME RunningHasOwner, TypeOK, [Next]_vars
  PROVE  RunningHasOwner'
<1>0. None \notin Turns
  BY TurnsAssumption
<1>1. CASE Submit
  BY <1>1 DEF Submit, SubmitBehind, SubmitAndSchedule, SendDirect, EnqueueNew, TakeOver,
              KeepActive, RunningHasOwner, process
<1>2. CASE FireTimer
  BY <1>2 DEF FireTimer, RunningHasOwner, process
<1>3. ASSUME NEW t \in Turns, Preflight(t) PROVE RunningHasOwner'
  <2>1. CASE Announce(t)
    BY <2>1 DEF Announce, RunningHasOwner, memory, process
  <2>2. CASE StartRejects(t) \/ SetupUnavailable(t)
    BY <2>2 DEF StartRejects, SetupUnavailable, RunningHasOwner, process
  <2>3. CASE Register(t)
    BY <1>0, <2>3 DEF Register, RunningHasOwner
  <2>4. CASE Execute(t)
    BY <2>4 DEF Execute, RunningHasOwner, process
  <2> QED BY <1>3, <2>1, <2>2, <2>3, <2>4 DEF Preflight
<1>4. ASSUME NEW t \in Turns, Conclude(t) PROVE RunningHasOwner'
  <2>1. CASE EndUnowned(t) \/ SettleCompleted(t)
    BY <2>1 DEF EndUnowned, SettleCompleted, RunningHasOwner, memory, process, database
  <2>2. ASSUME NEW v, EndOwned(t, v) PROVE RunningHasOwner'
    BY <2>2 DEF EndOwned, RunningHasOwner
  <2>3. CASE EndSilent(t)
    BY <2>3 DEF EndSilent, RunningHasOwner
  <2> QED BY <1>4, <2>1, <2>2, <2>3 DEF Conclude, Settle, Finish
<1>5. CASE Run
  BY <1>3, <1>4, <1>5 DEF Run, Emit, ProposePlan, AskQuestion, RunningHasOwner, memory, process
<1>6. CASE Control \/ CancelWhileIdle
  BY <1>6 DEF Control, AnswerQuestion, CancelQueuedTurn, SendQueuedTurnNow, CancelTurn, RejectPlan,
              UpdatePermissionMode, DecidePlan, CancelWhileIdle, TakeOver, KeepActive,
              RunningHasOwner, process, database
<1>7. CASE Pursue
  BY <1>7 DEF Pursue, ActivateGoal, GoalUnchanged, SuspendGoal, ClearGoal, DraftGoal,
              RunningHasOwner, memory, process
<1>8. CASE Dispose \/ Restart
  BY <1>8 DEF Dispose, Restart, RecoverSession, RunningHasOwner
<1>9. CASE UNCHANGED vars
  BY <1>9 DEF vars, memory, process, database, RunningHasOwner
<1> QED BY <1>1, <1>2, <1>5, <1>6, <1>7, <1>8, <1>9 DEF Next, Steps

-----------------------------------------------------------------------------
(* The theorems *)

LEMMA OwnerAlways == Spec => [](TypeOK /\ Ledger /\ OwnerIsLive /\ Door /\ RunningHasOwner)
<1> DEFINE Inv == TypeOK /\ Ledger /\ OwnerIsLive /\ Door /\ RunningHasOwner
<1>1. Init => Inv
  BY InitTypeOK, InitLedger
  DEF Init, OwnerIsLive, Door, Through, Guarded, AtDoor, RunningHasOwner
<1>2. Inv /\ [Next]_vars => TypeOK'
  BY NextTypeOK
<1>3. Inv /\ [Next]_vars => Inv'
  BY <1>2, NextLedger, OwnerKept, DoorKept, RunningKept
<1> QED BY <1>1, <1>3, PTL DEF Spec

(* activeLoops names code that is still going to delete its entry.           *)
THEOREM OwnerLives == Spec => []OwnerIsLive
BY OwnerAlways, PTL

(* The guard startingSessions is held exactly while one queued turn is       *)
(* between startNextQueuedTurn and the .finally of its startTurn.            *)
THEOREM GuardIsHeldOnce == Spec => []StartupExclusive
<1>1. TypeOK /\ Door => StartupExclusive
  <2> SUFFICES ASSUME TypeOK, Door, ~disposing
               PROVE  starting <=> Cardinality(AtDoor(pc, viaQueue)) = 1
    BY DEF StartupExclusive, AtDoor
  <2>1. CASE AtDoor(pc, viaQueue) = {}
    BY <2>1, FS_EmptySet DEF Door, Guarded
  <2>2. CASE AtDoor(pc, viaQueue) # {}
    <3>1. PICK t : AtDoor(pc, viaQueue) = {t}
      BY <2>2 DEF Door, Guarded
    <3> QED BY <2>2, <3>1, FS_Singleton DEF Door, Guarded
  <2> QED BY <2>1, <2>2
<1> QED BY <1>1, OwnerAlways, PTL

(* sessions.status says "running" only while an executor is registered.      *)
THEOREM RunningIsOwned == Spec => []RunningHasOwner
BY OwnerAlways, PTL

(* Where turns come from submitTurn alone, one executor that was not told to *)
(* stop runs at a time.                                                      *)
THEOREM OneExecutor ==
  ASSUME DirectTurns = {}, GoalTurns = {}
  PROVE  Spec => []SingleExecutor
<1>1. Init => Alone
  BY DEF Init, Alone, Sole, Startup, Running
<1>2. TypeOK /\ Ledger /\ Door /\ Alone /\ [Next]_vars => Alone'
  BY AloneKept
<1>3. Alone => SingleExecutor
  BY DEF Alone, Sole, SingleExecutor
<1> QED BY <1>1, <1>2, <1>3, OwnerAlways, PTL DEF Spec

(* A turn registers its executor over one of another turn. *)
Usurps == active # None /\ active' \notin {active, None}

LEMMA StepSpares ==
  ASSUME TypeOK, Ledger, SingleExecutor, [Next]_vars, ~Usurps
  PROVE  SingleExecutor'
<1>0. pc \in [Turns -> Places] /\ None \notin Turns
  BY TurnsAssumption DEF TypeOK
<1> DEFINE Spared(at) == \A u \in Turns : at[u] \in Running /\ u \notin cancelled' => active' = u
<1>1. ASSUME NEW st, NEW act, NEW at \in [Turns -> Places], Calls(st, act, at), Spared(at)
      PROVE  SingleExecutor'
  BY <1>1 DEF Calls, Running, SingleExecutor
<1>2. Holds => Spared(pc)
  BY DEF Holds, SingleExecutor
<1>3. ASSUME NEW t \in Turns, Enters(t) PROVE SingleExecutor'
  BY <1>0, <1>2, <1>3 DEF Enters, Running, SingleExecutor
<1>4. ASSUME NEW t \in Turns, Advances(t) PROVE SingleExecutor'
  BY <1>0, <1>4 DEF Advances, Running, SingleExecutor
<1>5. ASSUME NEW t \in Turns, Registers(t) PROVE SingleExecutor'
  <2>1. active \in {None, t}
    BY <1>0, <1>5 DEF Registers, Usurps
  <2> QED BY <1>0, <1>5, <2>1 DEF Registers, Running, SingleExecutor
<1>6. ASSUME NEW t \in Turns, Leaves(t) PROVE SingleExecutor'
  BY <1>0, <1>6 DEF Leaves, Running, SingleExecutor
<1>7. ASSUME NEW t \in Turns, Ends(t) PROVE SingleExecutor'
  <2> DEFINE at == [pc EXCEPT ![t] = "over"]
  <2>1. at \in [Turns -> Places] /\ \A u \in Turns : at[u] \in Running => pc[u] \in Running /\ u # t
    BY <1>0 DEF Places, Running
  <2>2. active = t /\ cancelled' = cancelled \ {t}
    BY <1>7 DEF Ends
  <2> HIDE DEF at
  <2>3. Spared(at)
    BY <2>1, <2>2 DEF SingleExecutor
  <2>4. CASE Calls(starting, None, at)
    BY <1>1, <2>1, <2>3, <2>4
  <2>5. ASSUME NEW g \in GoalTurns, pc' = [pc EXCEPT ![t] = "over", ![g] = "preflight"]
        PROVE  SingleExecutor'
    BY <1>0, <2>2, <2>5 DEF Running, SingleExecutor
  <2> QED BY <1>7, <2>4, <2>5 DEF Ends, at
<1>8. ASSUME NEW t \in Turns, Returns(t) PROVE SingleExecutor'
  <2>1. PICK p \in {"executing", "over"} :
          /\ pc[t] \in Startup
          /\ IF t \in viaQueue THEN Calls(FALSE, active', [pc EXCEPT ![t] = p])
             ELSE pc' = [pc EXCEPT ![t] = p] /\ Stands
          /\ p = "executing" => active = t /\ active' = t
          /\ p = "over" => active' = IF active = t /\ pc[t] = "registered" THEN None ELSE active
          /\ cancelled' \in {cancelled, cancelled \ {t}}
    BY <1>8 DEF Returns
  <2> DEFINE at == [pc EXCEPT ![t] = p]
  <2>2. /\ at \in [Turns -> Places] /\ at[t] = p
        /\ \A u \in Turns : u # t => at[u] = pc[u]
    BY <1>0 DEF Places
  <2>3. Calls(FALSE, active', at) \/ pc' = at
    BY <2>1
  <2> HIDE DEF at
  <2>4. ASSUME NEW u \in Turns, at[u] \in Running, u \notin cancelled' PROVE active' = u
    <3>1. CASE u = t
      BY <2>1, <2>2, <2>4, <3>1 DEF Running
    <3>2. CASE u # t
      <4>1. active = u
        BY <2>1, <2>2, <2>4, <3>2 DEF SingleExecutor
      <4> QED BY <2>1, <3>2, <4>1
    <3> QED BY <3>1, <3>2
  <2>5. CASE pc' = at
    BY <2>4, <2>5 DEF SingleExecutor
  <2> QED BY <1>1, <2>2, <2>3, <2>4, <2>5
<1>9. CASE Dispose
  <2>1. /\ cancelled' = cancelled \cup {t \in Turns : pc[t] \in Running \/ active = t}
        /\ \A t \in Turns : pc'[t] = IF pc[t] = "queued" THEN "over" ELSE pc[t]
    BY <1>9 DEF Dispose
  <2> QED BY <2>1 DEF Running, SingleExecutor
<1>10. CASE Restart
  BY <1>10 DEF Restart, RecoverRequests, Running, SingleExecutor
<1> HIDE DEF Spared
<1> QED BY <1>0, <1>1, <1>2, <1>3, <1>4, <1>5, <1>6, <1>7, <1>8, <1>9, <1>10, StepMoves DEF Moves

(* Whatever turns there are, one executor that was not told to stop runs at  *)
(* a time until startTurn registers one over another (activeLoops.set): no   *)
(* other step of the code brings two about.                                  *)
THEOREM OnlyRegistrationUsurps ==
  Spec => [][SingleExecutor => SingleExecutor' \/ Usurps]_vars
<1>1. TypeOK /\ Ledger /\ [Next]_vars => [SingleExecutor => SingleExecutor' \/ Usurps]_vars
  BY StepSpares
<1> QED BY <1>1, OwnerAlways, PTL DEF Spec

-----------------------------------------------------------------------------
(* The order of the queue *)

(* Where a turn that waits in q at i stands before the one at j. *)
Ordered(q, at, prom) ==
  \A i, j \in DOMAIN q : i < j => at[q[i]] < at[q[j]] \/ q[i] \in prom

Dated(at) == {u \in Turns : at[u] > 0}

(* enqueuedAt: a turn that is to be submitted has none, and no rank is above *)
(* the number of ranks given, so the next one is above all.                  *)
Ranks == /\ \A t \in Turns : pc[t] = "new" => created[t] = 0
         /\ \A t \in Turns : created[t] <= Cardinality(Dated(created))

LEMMA DatedFinite ==
  ASSUME NEW at
  PROVE  IsFiniteSet(Dated(at)) /\ Cardinality(Dated(at)) \in Nat
BY TurnsAssumption, FS_Subset, FS_CardinalityType DEF Dated

(* A fresh rank is above the others. *)
LEMMA StampRanks ==
  ASSUME TypeOK, Ranks, NEW t \in Turns, pc[t] = "new", Stamp(t)
  PROVE  /\ created' \in [Turns -> Nat]
         /\ \A u \in Turns \ {t} : created'[u] = created[u] /\ created'[u] < created'[t]
         /\ \A u \in Turns : created'[u] <= Cardinality(Dated(created'))
<1> DEFINE n == Cardinality(Dated(created))
<1>1. n \in Nat /\ IsFiniteSet(Dated(created))
  BY DatedFinite
<1>2. created \in [Turns -> Nat] /\ created' = [created EXCEPT ![t] = 1 + n]
  BY DEF TypeOK, Stamp, Dated
<1> HIDE DEF n
<1>3. created' \in [Turns -> Nat] /\ created'[t] = n + 1
      /\ \A u \in Turns \ {t} : created'[u] = created[u]
  BY <1>1, <1>2
<1>4. Dated(created') = Dated(created) \cup {t} /\ t \notin Dated(created)
  BY <1>1, <1>3 DEF Dated, Ranks
<1>5. Cardinality(Dated(created')) = n + 1
  BY <1>1, <1>4, FS_AddElement DEF n
<1>6. \A u \in Turns : created[u] <= n
  BY DEF Ranks, n
<1> QED BY <1>1, <1>2, <1>3, <1>5, <1>6

-----------------------------------------------------------------------------
(* What the queue operations keep *)

LEMMA TailOrdered ==
  ASSUME NEW q \in Seq(Turns), q # <<>>, NEW at, NEW prom, Ordered(q, at, prom)
  PROVE  Ordered(Tail(q), at, prom)
<1>1. /\ Tail(q) \in Seq(Turns) /\ Len(Tail(q)) = Len(q) - 1
      /\ \A k \in 1..Len(Tail(q)) : Tail(q)[k] = q[k + 1]
  BY HeadTailProperties
<1>2. ASSUME NEW i \in DOMAIN Tail(q), NEW j \in DOMAIN Tail(q), i < j
      PROVE  at[Tail(q)[i]] < at[Tail(q)[j]] \/ Tail(q)[i] \in prom
  <2>1. i + 1 \in DOMAIN q /\ j + 1 \in DOMAIN q /\ i + 1 < j + 1
    BY <1>1, <1>2
  <2>2. Tail(q)[i] = q[i + 1] /\ Tail(q)[j] = q[j + 1]
    BY <1>1
  <2> QED BY <2>1, <2>2 DEF Ordered
<1> QED BY <1>2 DEF Ordered

LEMMA RemoveOrdered ==
  ASSUME NEW q \in Seq(Turns), NEW p \in DOMAIN q, NEW at, NEW prom, Ordered(q, at, prom)
  PROVE  Ordered(RemoveIndex(q, p), at, prom)
<1> DEFINE r == RemoveIndex(q, p)
           f(k) == IF k < p THEN k ELSE k + 1
<1>1. /\ r \in Seq(Turns) /\ Len(r) = Len(q) - 1
      /\ \A k \in DOMAIN r : r[k] = IF k < p THEN q[k] ELSE q[k + 1]
  BY RemoveIndexType, RemoveIndexContent
<1> HIDE DEF r
<1>2. DOMAIN r = 1..(Len(q) - 1) /\ DOMAIN q = 1..Len(q) /\ p \in 1..Len(q) /\ Len(q) \in Nat
  BY <1>1
<1>3. ASSUME NEW i \in DOMAIN r, NEW j \in DOMAIN r, i < j
      PROVE  at[r[i]] < at[r[j]] \/ r[i] \in prom
  <2>1. f(i) \in DOMAIN q /\ f(j) \in DOMAIN q /\ f(i) < f(j)
    BY <1>2, <1>3
  <2>2. r[i] = q[f(i)] /\ r[j] = q[f(j)]
    BY <1>1
  <2> HIDE DEF f
  <2> QED BY <2>1, <2>2 DEF Ordered
<1> QED BY <1>3 DEF Ordered, r

LEMMA AppendOrdered ==
  ASSUME NEW q \in Seq(Turns), NEW at, NEW prom, Ordered(q, at, prom), NEW t \in Turns,
         NEW at2, \A i \in DOMAIN q : at2[q[i]] = at[q[i]] /\ at2[q[i]] < at2[t]
  PROVE  Ordered(Append(q, t), at2, prom)
<1> DEFINE r == Append(q, t)
<1>1. /\ r \in Seq(Turns) /\ Len(r) = Len(q) + 1 /\ r[Len(q) + 1] = t
      /\ \A k \in 1..Len(q) : r[k] = q[k]
  BY AppendProperties
<1> HIDE DEF r
<1>2. DOMAIN r = 1..(Len(q) + 1) /\ DOMAIN q = 1..Len(q) /\ Len(q) \in Nat
  BY <1>1
<1>3. ASSUME NEW i \in DOMAIN r, NEW j \in DOMAIN r, i < j
      PROVE  at2[r[i]] < at2[r[j]] \/ r[i] \in prom
  <2>1. i \in DOMAIN q /\ r[i] = q[i]
    BY <1>1, <1>2, <1>3
  <2>2. CASE j \in DOMAIN q
    <3>1. r[j] = q[j]
      BY <1>1, <1>2, <2>2
    <3> QED BY <1>3, <2>1, <2>2, <3>1 DEF Ordered
  <2>3. CASE j \notin DOMAIN q
    <3>1. r[j] = t
      BY <1>1, <1>2, <2>3
    <3> QED BY <2>1, <3>1
  <2> QED BY <2>2, <2>3
<1> QED BY <1>3 DEF Ordered, r

(* sendQueuedTurnNow moves t to the front.                                   *)
LEMMA PromoteOrdered ==
  ASSUME NEW r \in Seq(Turns), NEW at, NEW prom, Ordered(r, at, prom), NEW t \in Turns
  PROVE  <<t>> \o r \in Seq(Turns) /\ Ordered(<<t>> \o r, at, prom \cup {t})
<1> DEFINE q == <<t>> \o r
<1>1. <<t>> \in Seq(Turns) /\ Len(<<t>>) = 1 /\ <<t>>[1] = t
  OBVIOUS
<1>2. q \in Seq(Turns) /\ Len(q) = 1 + Len(r) /\ Len(r) \in Nat
  BY <1>1, ConcatProperties
<1>3. q[1] = t /\ \A k \in 2..(Len(r) + 1) : q[k] = r[k - 1]
  BY <1>1, ConcatProperties
<1> HIDE DEF q
<1>4. DOMAIN q = 1..(Len(r) + 1) /\ DOMAIN r = 1..Len(r)
  BY <1>2
<1>5. ASSUME NEW i \in DOMAIN q, NEW j \in DOMAIN q, i < j
      PROVE  at[q[i]] < at[q[j]] \/ q[i] \in prom \cup {t}
  <2>1. CASE i = 1
    BY <1>3, <2>1
  <2>2. CASE i # 1
    <3>1. i - 1 \in DOMAIN r /\ j - 1 \in DOMAIN r /\ i - 1 < j - 1
      BY <1>2, <1>4, <1>5, <2>2
    <3>2. q[i] = r[i - 1] /\ q[j] = r[j - 1]
      BY <1>2, <1>3, <1>4, <1>5, <2>2
    <3> QED BY <3>1, <3>2 DEF Ordered
  <2> QED BY <2>1, <2>2
<1> QED BY <1>2, <1>5 DEF Ordered, q

LEMMA StartNextOrdered ==
  ASSUME NEW q \in Seq(Turns), NEW act, NEW gate, NEW st, NEW at, NEW reqs, NEW tm,
         StartNextQueuedTurn(q, act, gate, st, at, reqs, tm),
         NEW ranks, NEW prom, Ordered(q, ranks, prom)
  PROVE  Ordered(queue', ranks, prom)
<1>1. queue' = q \/ (q # <<>> /\ queue' = Tail(q))
  BY DEF StartNextQueuedTurn
<1> QED BY <1>1, TailOrdered

-----------------------------------------------------------------------------
(* What a step does to the queue and to the ranks *)

(* It takes the head away at most. *)
Keeps == /\ UNCHANGED <<created, promoted>>
         /\ queue' = queue \/ (queue # <<>> /\ queue' = Tail(queue))

(* A turn is submitted, and waits or starts. *)
Stamped(t) == /\ pc[t] = "new" /\ pc'[t] # "new" /\ Stamp(t) /\ promoted' = promoted
              /\ queue' = queue \/ Enqueue(t)

(* The user withdraws t, or moves it to the front. *)
Withdrawn(t) == /\ Queued(t) /\ UNCHANGED <<created, promoted>>
                /\ queue' = RemoveIndex(queue, Position(t))

Promoted(t) ==
  /\ Queued(t) /\ created' = created /\ promoted' = promoted \cup {t}
  /\ LET q == <<t>> \o RemoveIndex(queue, Position(t))
     IN  queue' = q \/ (q # <<>> /\ queue' = Tail(q))

Orders == Keeps \/ \E t \in Turns : Stamped(t) \/ Withdrawn(t) \/ Promoted(t)

LEMMA NextTakesHead ==
  ASSUME NEW q, NEW act, NEW gate, NEW st, NEW at, NEW reqs, NEW tm,
         StartNextQueuedTurn(q, act, gate, st, at, reqs, tm)
  PROVE  queue' = q \/ (q # <<>> /\ queue' = Tail(q))
BY DEF StartNextQueuedTurn

LEMMA RunOrders ==
  ASSUME Run
  PROVE  Orders
<1>1. PICK t \in Turns : \/ Preflight(t) \/ Conclude(t)
                         \/ Emit(t) \/ ProposePlan(t) \/ AskQuestion(t)
  BY DEF Run
<1>2. UNCHANGED <<created, promoted>>
  BY <1>1 DEF Preflight, Announce, StartRejects, SetupUnavailable, Register, Execute,
              Conclude, Settle, SettleCompleted, Finish, EndUnowned, EndOwned, EndSilent,
              Emit, ProposePlan, AskQuestion, process, database
<1>3. ASSUME NEW at, NEW rows, NEW act, StartReturns(t, at, rows, act)
      PROVE  queue' = queue \/ (queue # <<>> /\ queue' = Tail(queue))
  BY <1>3, NextTakesHead DEF StartReturns
<1>4. ASSUME NEW at, NEW rows, NEW last, ContinueGoalOrQueue(at, rows, last)
      PROVE  queue' = queue \/ (queue # <<>> /\ queue' = Tail(queue))
  BY <1>4, NextTakesHead DEF ContinueGoalOrQueue
<1>5. CASE Preflight(t)
  <2>1. CASE Execute(t)
    BY <1>2, <1>3, <2>1 DEF Execute, Orders, Keeps
  <2>2. CASE StartRejects(t)
    BY <1>2, <1>3, <2>2 DEF StartRejects, Orders, Keeps
  <2>3. CASE SetupUnavailable(t)
    BY <1>2, <1>3, <2>3 DEF SetupUnavailable, Orders, Keeps
  <2>4. CASE Announce(t) \/ Register(t)
    BY <1>2, <2>4 DEF Announce, Register, memory, Orders, Keeps
  <2> QED BY <1>5, <2>1, <2>2, <2>3, <2>4 DEF Preflight
<1>6. CASE Conclude(t)
  <2>1. CASE EndUnowned(t) \/ SettleCompleted(t)
    BY <1>2, <2>1 DEF EndUnowned, SettleCompleted, memory, Orders, Keeps
  <2>2. ASSUME NEW v, EndOwned(t, v) PROVE Orders
    BY <1>2, <1>4, <2>2 DEF EndOwned, Orders, Keeps
  <2>3. CASE EndSilent(t)
    BY <1>2, <1>4, <2>3 DEF EndSilent, Orders, Keeps
  <2> QED BY <1>6, <2>1, <2>2, <2>3 DEF Conclude, Settle, Finish
<1>7. CASE Emit(t) \/ ProposePlan(t) \/ AskQuestion(t)
  BY <1>2, <1>7 DEF Emit, ProposePlan, AskQuestion, memory, Orders, Keeps
<1> QED BY <1>1, <1>5, <1>6, <1>7

LEMMA StepOrders ==
  ASSUME TypeOK, [Next]_vars
  PROVE  Orders \/ Dispose \/ Restart
<1>0. pc \in [Turns -> Places]
  BY DEF TypeOK
<1>1. CASE Submit
  <2>1. PICK t \in Turns : SubmitBehind(t) \/ SubmitAndSchedule(t) \/ SendDirect(t)
    BY <1>1 DEF Submit
  <2>2. Stamped(t)
    BY <1>0, <2>1 DEF SubmitBehind, SubmitAndSchedule, SendDirect, Accepting, EnqueueNew,
                      Stamped, process
  <2> QED BY <2>2 DEF Orders
<1>2. CASE FireTimer
  BY <1>2, NextTakesHead DEF FireTimer, Orders, Keeps, process
<1>3. CASE Control
  <2>1. ASSUME NEW t \in Turns, AnswerQuestion(t) PROVE Orders
    BY <2>1 DEF AnswerQuestion, Orders, Keeps, process
  <2>2. ASSUME NEW t \in Turns, CancelQueuedTurn(t) PROVE Orders
    BY <2>2 DEF CancelQueuedTurn, Orders, Withdrawn, process
  <2>3. ASSUME NEW t \in Turns, SendQueuedTurnNow(t) PROVE Orders
    <3>1. Promoted(t)
      BY <2>3, NextTakesHead DEF SendQueuedTurnNow, Promoted
    <3> QED BY <3>1 DEF Orders
  <2>4. CASE CancelTurn
    BY <2>4, NextTakesHead DEF CancelTurn, Orders, Keeps, process
  <2>5. ASSUME NEW last, DecidePlan(last) PROVE Orders
    BY <2>5, NextTakesHead DEF DecidePlan, Orders, Keeps, process
  <2> QED BY <1>3, <2>1, <2>2, <2>3, <2>4, <2>5 DEF Control, RejectPlan, UpdatePermissionMode
<1>4. CASE Pursue
  <2>1. CASE ActivateGoal \/ SuspendGoal \/ ClearGoal
    BY <2>1 DEF ActivateGoal, SuspendGoal, ClearGoal, GoalUnchanged, Orders, Keeps, memory, process
  <2>2. ASSUME NEW g \in GoalTurns, DraftGoal(g) PROVE Orders
    <3>1. g \in Turns /\ pc[g] = "new" /\ promoted' = promoted
      BY <2>2 DEF Turns, DraftGoal, process
    <3>2. CASE active = None
      BY <2>2, <3>1, <3>2 DEF DraftGoal, Orders, Keeps
    <3>3. CASE active # None
      BY <1>0, <2>2, <3>1, <3>3 DEF DraftGoal, Orders, Stamped
    <3> QED BY <3>2, <3>3
  <2> QED BY <1>4, <2>1, <2>2 DEF Pursue
<1>5. CASE CancelWhileIdle \/ UNCHANGED vars
  BY <1>5 DEF CancelWhileIdle, vars, memory, process, database, Orders, Keeps
<1> QED BY <1>1, <1>2, <1>3, <1>4, <1>5, RunOrders DEF Next, Steps

-----------------------------------------------------------------------------
(* The order is kept *)

(* Nobody has yet to be submitted again. *)
LEMMA NewStaysNew ==
  ASSUME TypeOK, Ledger, [Next]_vars, NEW u \in Turns, pc'[u] = "new"
  PROVE  pc[u] = "new"
<1>0. pc \in [Turns -> Places]
  BY DEF TypeOK
<1>1. ASSUME NEW st, NEW act, NEW at \in [Turns -> Places], Calls(st, act, at)
      PROVE  at[u] = "new"
  BY <1>1 DEF Calls
<1>2. ASSUME NEW t \in Turns, \/ Enters(t) \/ Advances(t) \/ Registers(t) \/ Leaves(t)
      PROVE  pc[u] = "new"
  BY <1>0, <1>2 DEF Enters, Advances, Registers, Leaves
<1>3. ASSUME NEW t \in Turns, NEW p \in {"executing", "over"}, pc[u] # "new"
      PROVE  [pc EXCEPT ![t] = p] \in [Turns -> Places] /\ [pc EXCEPT ![t] = p][u] # "new"
  BY <1>0, <1>3 DEF Places
<1>4. ASSUME NEW t \in Turns, Returns(t) PROVE pc[u] = "new"
  BY <1>1, <1>3, <1>4 DEF Returns
<1>5. ASSUME NEW t \in Turns, Ends(t) PROVE pc[u] = "new"
  BY <1>0, <1>1, <1>3, <1>5 DEF Ends
<1>6. CASE Dispose \/ Restart
  BY <1>6 DEF Dispose, Restart, RecoverRequests
<1>7. CASE Calls(starting, active', pc)
  BY <1>0, <1>1, <1>7
<1> QED BY <1>2, <1>4, <1>5, <1>6, <1>7, StepMoves DEF Moves

LEMMA RanksKept ==
  ASSUME TypeOK, Ledger, Ranks, [Next]_vars
  PROVE  Ranks'
<1>1. CASE created' = created
  BY <1>1, NewStaysNew DEF Ranks
<1>2. ASSUME NEW t \in Turns, Stamped(t) PROVE Ranks'
  <2>1. /\ \A u \in Turns \ {t} : created'[u] = created[u]
        /\ \A u \in Turns : created'[u] <= Cardinality(Dated(created'))
    BY <1>2, StampRanks DEF Stamped
  <2>2. \A u \in Turns : pc'[u] = "new" => u # t /\ pc[u] = "new"
    BY <1>2, NewStaysNew DEF Stamped
  <2> QED BY <2>1, <2>2 DEF Ranks
<1> QED BY <1>1, <1>2, StepOrders DEF Orders, Keeps, Withdrawn, Promoted, Dispose, Restart, database

LEMMA OrderKept ==
  ASSUME TypeOK, Ledger, Ranks, Ordered(queue, created, promoted), [Next]_vars
  PROVE  Ordered(queue', created', promoted')
<1>0. queue \in Seq(Turns) /\ \A i \in DOMAIN queue : queue[i] \in Turns
  BY DEF TypeOK
<1>1. CASE Keeps
  BY <1>0, <1>1, TailOrdered DEF Keeps
<1>2. ASSUME NEW t \in Turns, Stamped(t) PROVE Ordered(queue', created', promoted')
  <2>1. \A i \in DOMAIN queue : queue[i] # t
    BY <1>0, <1>2 DEF Stamped, Ledger, Books
  <2>2. \A i \in DOMAIN queue : created'[queue[i]] = created[queue[i]]
                                /\ created'[queue[i]] < created'[t]
    BY <1>0, <1>2, <2>1, StampRanks DEF Stamped
  <2>3. CASE queue' = queue
    BY <1>0, <1>2, <2>2, <2>3 DEF Stamped, Ordered
  <2>4. CASE Enqueue(t)
    BY <1>0, <1>2, <2>2, <2>4, AppendOrdered DEF Stamped, Enqueue
  <2> QED BY <1>2, <2>3, <2>4 DEF Stamped
<1>3. ASSUME NEW t \in Turns, Queued(t)
      PROVE  /\ Position(t) \in DOMAIN queue
             /\ RemoveIndex(queue, Position(t)) \in Seq(Turns)
             /\ Ordered(RemoveIndex(queue, Position(t)), created, promoted)
  <2>1. Position(t) \in DOMAIN queue
    BY <1>3 DEF Position, Queued
  <2> QED BY <1>0, <2>1, RemoveIndexType, RemoveOrdered
<1>4. ASSUME NEW t \in Turns, Withdrawn(t) PROVE Ordered(queue', created', promoted')
  BY <1>3, <1>4 DEF Withdrawn
<1>5. ASSUME NEW t \in Turns, Promoted(t) PROVE Ordered(queue', created', promoted')
  <2> DEFINE q == <<t>> \o RemoveIndex(queue, Position(t))
  <2>1. q \in Seq(Turns) /\ Ordered(q, created, promoted \cup {t})
    BY <1>3, <1>5, PromoteOrdered DEF Promoted
  <2>2. queue' = q \/ (q # <<>> /\ queue' = Tail(q))
    BY <1>5 DEF Promoted
  <2>3. created' = created /\ promoted' = promoted \cup {t}
    BY <1>5 DEF Promoted
  <2> HIDE DEF q
  <2> QED BY <2>1, <2>2, <2>3, TailOrdered
<1>6. CASE Dispose
  BY <1>6 DEF Dispose, Ordered
<1>7. CASE Restart
  BY <1>7 DEF Restart, RecoverRequests, Ordered
<1> QED BY <1>1, <1>2, <1>4, <1>5, <1>6, <1>7, StepOrders DEF Orders

(* Turns wait in the order in which they were submitted, but for those the   *)
(* user moved to the front, also after a launch that read them from the      *)
(* database.                                                                 *)
THEOREM InOrder == Spec => []QueueOrder
<1>1. Init => Ranks /\ Ordered(queue, created, promoted)
  <2> SUFFICES ASSUME Init PROVE Ranks /\ Ordered(queue, created, promoted)
    OBVIOUS
  <2>1. Cardinality(Dated(created)) \in Nat
    BY DatedFinite
  <2> QED BY <2>1 DEF Init, Ranks, Ordered
<1>2. /\ TypeOK /\ Ledger /\ Ranks /\ Ordered(queue, created, promoted) /\ [Next]_vars
      => (Ranks /\ Ordered(queue, created, promoted))'
  BY RanksKept, OrderKept
<1>3. Ordered(queue, created, promoted) => QueueOrder
  BY DEF Ordered, QueueOrder
<1> QED BY <1>1, <1>2, <1>3, OwnerAlways, PTL DEF Spec

-----------------------------------------------------------------------------
(* Wake-ups *)

(* The guard is held by a turn that starts.                                  *)
LEMMA GuardStarts ==
  ASSUME TypeOK, Door, starting, ~disposing
  PROVE  \E u \in Turns : pc[u] \in Startup /\ u \in viaQueue
BY DEF TypeOK, Door, Guarded, AtDoor

(* Whoever calls startNextQueuedTurn leaves the queue attended: it returns   *)
(* early only for something that calls it again.                             *)
LEMMA CallAttends ==
  ASSUME NEW q \in Seq(Turns), NEW act, NEW gate, NEW st, NEW at \in [Turns -> Places],
         NEW reqs, NEW tm \in Nat, StartNextQueuedTurn(q, act, gate, st, at, reqs, tm),
         ~disposing /\ st => \E u \in Turns : at[u] \in Startup /\ u \in viaQueue,
         disposing' = disposing, active' = act, planGate' = gate, questions' = questions
  PROVE  Attended'
<1>1. CASE q = <<>> \/ disposing
  BY <1>1 DEF StartNextQueuedTurn, Attended, HeldBack
<1>2. CASE q # <<>> /\ HeldBack(act, gate, st) /\ ~disposing
  <2>1. queue' = q /\ pc' = at /\ viaQueue' = viaQueue
    BY <1>2 DEF StartNextQueuedTurn
  <2>2. CASE st
    <3>1. PICK u \in Turns : at[u] \in Startup /\ u \in viaQueue
      BY <1>2, <2>2
    <3>2. Starting(u)'
      BY <2>1, <3>1 DEF Starting, Startup
    <3> QED BY <3>2 DEF Attended
  <2> QED BY <1>2, <2>1, <2>2 DEF HeldBack, Attended, Blocked
<1>3. CASE q # <<>> /\ ~HeldBack(act, gate, st)
  <2>1. Head(q) \in Turns
    BY <1>3, HeadTailProperties
  <2>2. pc'[Head(q)] = "preflight" \/ timers' > 0
    BY <1>3, <2>1 DEF StartNextQueuedTurn
  <2> QED BY <2>1, <2>2 DEF Attended, Starting
<1> QED BY <1>1, <1>2, <1>3

(* The end of a startTurn: one that the queue has called calls it, any other *)
(* is attended by what it has registered.                                    *)
LEMMA ReturnAttends ==
  ASSUME TypeOK, Door, NEW t \in Turns, pc[t] \in Startup, NEW p \in Places,
         NEW rows, StartReturns(t, [pc EXCEPT ![t] = p], rows, active'),
         t \notin viaQueue => /\ ~Starting(t) /\ (active # None => active' # None)
                              /\ Attended,
         disposing' = disposing, UNCHANGED <<planGate, questions>>
  PROVE  Attended'
<1> DEFINE at == [pc EXCEPT ![t] = p]
<1>1. at \in [Turns -> Places] /\ queue \in Seq(Turns) /\ timers \in Nat /\ viaQueue \subseteq Turns
  BY DEF TypeOK
<1>2. CASE t \in viaQueue
  <2>1. StartNextQueuedTurn(queue, active', planGate, FALSE, at, rows, timers)
    BY <1>2 DEF StartReturns
  <2> HIDE DEF at
  <2> QED BY <1>1, <2>1, CallAttends
<1>3. CASE t \notin viaQueue
  <2>1. UNCHANGED <<queue, timers, viaQueue>> /\ pc' = at
    BY <1>3 DEF StartReturns
  <2>2. \A u \in Turns : Starting(u) => Starting(u)'
    <3>1. \A u \in Turns \ {t} : pc'[u] = pc[u]
      BY <1>1, <2>1 DEF TypeOK
    <3> QED BY <1>3, <2>1, <3>1 DEF Starting
  <2> QED BY <1>3, <2>1, <2>2 DEF Attended, Blocked
<1> QED BY <1>2, <1>3

(* The session is free again, and neither a goal stops nor a turn is left.   *)
LEMMA ContinueAttends ==
  ASSUME TypeOK, Door, NEW t \in Turns, pc[t] \in Running, NEW rows, NEW last,
         ContinueGoalOrQueue([pc EXCEPT ![t] = "over"], rows, last),
         disposing' = disposing, UNCHANGED <<planGate, questions>>, ~LeftToTheGoal
  PROVE  Attended'
<1> DEFINE at == [pc EXCEPT ![t] = "over"]
<1>1. /\ at \in [Turns -> Places] /\ queue \in Seq(Turns) /\ timers \in Nat
      /\ \A u \in Turns : pc[u] \in Startup => at[u] = pc[u]
  BY DEF TypeOK, Places, Running, Startup
<1> HIDE DEF at
<1>2. ContinueGoalOrQueue(at, rows, last) /\ active' = None
  BY DEF at, ContinueGoalOrQueue
<1>3. CASE disposing
  BY <1>3 DEF Attended
<1>4. CASE ~disposing /\ goal = "active"
  <2>1. PICK g \in GoalTurns : pc' = [at EXCEPT ![g] = "preflight"]
    BY <1>2, <1>4 DEF ContinueGoalOrQueue, StartGoalLoop, LeftToTheGoal
  <2>2. g \in Turns /\ pc'[g] = "preflight"
    BY <1>1, <2>1 DEF Turns
  <2> QED BY <2>2 DEF Attended, Starting
<1>5. CASE ~disposing /\ goal # "active"
  <2>1. StartNextQueuedTurn(queue, None, planGate, starting, at, rows, timers)
    BY <1>2, <1>5 DEF ContinueGoalOrQueue
  <2>2. starting => \E u \in Turns : at[u] \in Startup /\ u \in viaQueue
    BY <1>1, <1>5, GuardStarts
  <2> QED BY <1>1, <1>2, <2>1, <2>2, CallAttends
<1> QED BY <1>3, <1>4, <1>5

(* What starts goes on to start, and what else attends stays.                *)
LEMMA StaysAttended ==
  ASSUME Attended,
         disposing => disposing',
         queue = <<>> => queue' = <<>> \/ active # None,
         timers > 0 => timers' > 0,
         active # None => active' # None,
         planGate # None => planGate' # None,
         Blocked => Blocked',
         \A u \in Turns : Starting(u) => Starting(u)' \/ active' # None
  PROVE  Attended'
BY DEF Attended

LEMMA RunAttends ==
  ASSUME TypeOK, Ledger, Door, Run, Attended, ~FailsUncalled, ~LeftToTheGoal
  PROVE  Attended'
<1>0. /\ pc \in [Turns -> Places] /\ None \notin Turns /\ viaQueue \subseteq Turns
  BY TurnsAssumption DEF TypeOK
<1>1. PICK t \in Turns : \/ Preflight(t) \/ Conclude(t)
                         \/ Emit(t) \/ ProposePlan(t) \/ AskQuestion(t)
  BY DEF Run
<1>2. ASSUME UNCHANGED <<disposing, queue, timers, active, planGate, questions, viaQueue>>,
             NEW p \in {"announced", "finishing", "over"},
             pc' = pc \/ pc' = [pc EXCEPT ![t] = p],
             (pc[t] = "preflight" /\ p = "announced") \/ ~Starting(t)
      PROVE  Attended'
  <2>1. \A u \in Turns : Starting(u) => Starting(u)'
    BY <1>0, <1>2 DEF Starting
  <2> QED BY <1>2, <2>1, StaysAttended DEF Blocked
<1>10. CASE Announce(t)
  BY <1>2, <1>10 DEF Announce, memory, process
<1>11. CASE Emit(t)
  BY <1>2, <1>11 DEF Emit, Starting, memory, process, threads
<1>3. CASE ProposePlan(t)
  BY <1>0, <1>3 DEF ProposePlan, Attended
<1>4. CASE AskQuestion(t)
  <2>1. questions'[t] > 0
    BY <1>4 DEF AskQuestion, TypeOK
  <2> QED BY <2>1 DEF Attended, Blocked
<1>5. CASE Register(t)
  BY <1>0, <1>5 DEF Register, Attended
<1>6. CASE StartRejects(t) \/ SetupUnavailable(t)
  <2>1. /\ pc[t] \in Startup /\ disposing' = disposing
        /\ UNCHANGED <<planGate, questions>> /\ active' = active
        /\ \E rows : StartReturns(t, [pc EXCEPT ![t] = "over"], rows, active)
    BY <1>6 DEF StartRejects, SetupUnavailable, Startup, process
  <2>2. t \in viaQueue
    BY <1>6 DEF FailsUncalled
  <2> QED BY <2>1, <2>2, ReturnAttends DEF Places
<1>7. CASE Execute(t)
  <2>1. /\ pc[t] = "registered" /\ disposing' = disposing
        /\ UNCHANGED <<planGate, questions>>
        /\ \E p \in {"executing", "over"} : \E rows :
              StartReturns(t, [pc EXCEPT ![t] = p], rows, active')
        /\ active' = active \/ (active = t /\ ~MayExecute(t))
    BY <1>7 DEF Execute, process
  <2>2. CASE active # None => active' # None
    <3>1. pc[t] \in Startup /\ (t \notin viaQueue => ~Starting(t))
      BY <2>1 DEF Starting, Startup
    <3> QED BY <2>1, <2>2, <3>1, ReturnAttends DEF Places
  <2>3. CASE active = t /\ ~MayExecute(t)
    BY <2>1, <2>3 DEF MayExecute, Attended
  <2> QED BY <2>1, <2>2, <2>3
<1>8. CASE Conclude(t)
  <2>0. pc[t] \in Running
    BY <1>8 DEF Conclude, Settle, SettleCompleted, Finish, EndUnowned, EndOwned, EndSilent, Running
  <2>1. ASSUME NEW v, EndOwned(t, v) PROVE Attended'
    BY <2>0, <2>1, ContinueAttends DEF EndOwned, process
  <2>2. CASE EndSilent(t)
    BY <2>0, <2>2, ContinueAttends DEF EndSilent, process
  <2>3. ~Starting(t)
    BY <2>0 DEF Running, Starting
  <2>4. CASE EndUnowned(t) \/ SettleCompleted(t)
    BY <1>2, <2>3, <2>4 DEF EndUnowned, SettleCompleted, memory, process
  <2> QED BY <1>8, <2>1, <2>2, <2>4 DEF Conclude, Settle, Finish
<1> QED BY <1>1, <1>10, <1>11, <1>3, <1>4, <1>5, <1>6, <1>7, <1>8 DEF Preflight

LEMMA SubmitAttends ==
  ASSUME TypeOK, Submit, Attended, ~LeftToTheGoal
  PROVE  Attended'
<1>1. PICK t \in Turns : SubmitBehind(t) \/ SubmitAndSchedule(t) \/ SendDirect(t)
  BY DEF Submit
<1>2. CASE SubmitBehind(t)
  <2>1. active' = active /\ questions' = questions /\ (Blocked \/ active # None)
    BY <1>2 DEF SubmitBehind, MustQueue, KeepActive, LeftToTheGoal, EnqueueNew
  <2> QED BY <2>1 DEF Attended, Blocked
<1>3. CASE SubmitAndSchedule(t)
  BY <1>3 DEF SubmitAndSchedule, TypeOK, Attended
<1>4. CASE SendDirect(t)
  <2>1. pc'[t] = "preflight"
    BY <1>4 DEF SendDirect, TypeOK
  <2> QED BY <2>1 DEF Attended, Starting
<1> QED BY <1>1, <1>2, <1>3, <1>4

LEMMA ControlAttends ==
  ASSUME TypeOK, Ledger, Door, Control, Attended
  PROVE  Attended'
<1>0. /\ queue \in Seq(Turns) /\ timers \in Nat /\ pc \in [Turns -> Places]
      /\ disposing' = disposing
      /\ ~disposing /\ starting => \E u \in Turns : pc[u] \in Startup /\ u \in viaQueue
  BY GuardStarts DEF TypeOK, Control, AnswerQuestion, CancelQueuedTurn, SendQueuedTurnNow, CancelTurn,
         RejectPlan, UpdatePermissionMode, DecidePlan, process
<1>1. ASSUME NEW t \in Turns, AnswerQuestion(t) PROVE Attended'
  <2>1. UNCHANGED <<queue, starting, active, planGate, pc, viaQueue>>
    BY <1>1 DEF AnswerQuestion, threads
  <2>2. timers' = timers \/ timers' = timers + 1
    BY <1>1 DEF AnswerQuestion
  <2>3. Blocked' \/ timers' > 0
    BY <1>0, <1>1 DEF AnswerQuestion, Blocked
  <2> QED BY <1>0, <2>1, <2>2, <2>3 DEF Attended
<1>2. ASSUME NEW t \in Turns, CancelQueuedTurn(t) PROVE Attended'
  <2>1. UNCHANGED <<timers, active, planGate, questions, viaQueue>>
    BY <1>2 DEF CancelQueuedTurn
  <2>2. queue # <<>> /\ pc[t] = "queued" /\ pc' = [pc EXCEPT ![t] = "over"]
    BY <1>2 DEF CancelQueuedTurn, Queued, Ledger, Books
  <2>3. \A u \in Turns : Starting(u) => Starting(u)'
    BY <1>0, <2>1, <2>2 DEF Starting
  <2> QED BY <1>0, <2>1, <2>2, <2>3 DEF Attended, Blocked
<1>3. ASSUME NEW t \in Turns, SendQueuedTurnNow(t) PROVE Attended'
  <2> DEFINE q == <<t>> \o RemoveIndex(queue, Position(t))
  <2>1. q \in Seq(Turns)
    BY <1>3, Promote DEF SendQueuedTurnNow
  <2> HIDE DEF q
  <2>2. \/ timers' = timers + 1
        \/ /\ active' = None /\ planGate' = None /\ questions' = questions
           /\ StartNextQueuedTurn(q, None, None, starting, pc, request, timers)
    BY <1>3 DEF SendQueuedTurnNow, TakeOver, q
  <2>3. CASE timers' = timers + 1
    BY <1>0, <2>3 DEF Attended
  <2> QED BY <1>0, <2>1, <2>2, <2>3, CallAttends
<1>4. CASE CancelTurn
  <2>1. /\ active' = None /\ planGate' = None /\ questions' = questions
        /\ \E rows : StartNextQueuedTurn(queue, None, None, starting, pc, rows, timers)
    BY <1>4 DEF CancelTurn, TakeOver
  <2> QED BY <1>0, <2>1, CallAttends
<1>5. ASSUME NEW last, DecidePlan(last) PROVE Attended'
  <2>1. /\ active' = active /\ planGate' = None /\ questions' = questions
        /\ StartNextQueuedTurn(queue, active, None, starting, pc, request, timers)
    BY <1>5 DEF DecidePlan
  <2> QED BY <1>0, <2>1, CallAttends
<1> QED BY <1>1, <1>2, <1>3, <1>4, <1>5 DEF Control, RejectPlan, UpdatePermissionMode

LEMMA PursueAttends ==
  ASSUME TypeOK, Pursue, Attended, ~LeftToTheGoal
  PROVE  Attended'
<1>0. pc \in [Turns -> Places] /\ None \notin Turns
  BY TurnsAssumption DEF TypeOK
<1>1. CASE pc' = pc
  <2>1. UNCHANGED <<disposing, queue, timers, active, planGate, questions, viaQueue>>
    BY <1>0, <1>1 DEF Pursue, ActivateGoal, SuspendGoal, ClearGoal, DraftGoal, GoalUnchanged,
               memory, process, TypeOK, Turns
  <2> QED BY <1>1, <2>1 DEF Attended, Blocked, Starting
<1>2. CASE \E g \in GoalTurns : pc' = [pc EXCEPT ![g] = "preflight"]
  <2>1. PICK g \in GoalTurns : pc' = [pc EXCEPT ![g] = "preflight"]
    BY <1>2
  <2>2. g \in Turns /\ pc'[g] = "preflight"
    BY <1>0, <2>1 DEF Turns
  <2> QED BY <2>2 DEF Attended, Starting
<1>3. CASE active # None /\ active' = active
  BY <1>3 DEF Attended
<1> QED BY <1>1, <1>2, <1>3 DEF Pursue, ActivateGoal, SuspendGoal, ClearGoal, DraftGoal,
        StartGoalLoop, GoalUnchanged

LEMMA StepAttends ==
  ASSUME TypeOK, Ledger, Door, Attended, [Next]_vars
  PROVE  Attended' \/ CancelWhileIdle \/ FailsUncalled \/ LeftToTheGoal
<1>1. CASE FireTimer
  <2>1. /\ queue \in Seq(Turns) /\ timers - 1 \in Nat /\ pc \in [Turns -> Places]
        /\ UNCHANGED <<active, planGate, questions, disposing>>
        /\ StartNextQueuedTurn(queue, active, planGate, starting, pc, request, timers - 1)
    BY <1>1 DEF FireTimer, TypeOK, process
  <2> QED BY <2>1, CallAttends, GuardStarts
<1>2. CASE Dispose
  BY <1>2 DEF Dispose, Attended
<1>3. CASE Restart
  <2>1. queue' = <<>> \/ timers' > 0
    <3> DEFINE accepted == {t \in Turns : request[t] = "accepted"}
    <3>1. CASE accepted = {}
      <4>1. Cardinality(accepted) = 0
        BY <3>1, FS_EmptySet
      <4>2. \E q \in [1..0 -> accepted] : queue' = q
        BY <1>3, <4>1 DEF Restart, RecoverRequests
      <4> QED BY <4>2
    <3>2. CASE accepted # {}
      BY <1>3, <3>2 DEF Restart, RecoverRequests
    <3> QED BY <3>1, <3>2
  <2> QED BY <2>1 DEF Attended
<1>4. CASE UNCHANGED vars
  BY <1>4 DEF vars, memory, process, threads, Attended, Blocked, Starting
<1> QED BY <1>1, <1>2, <1>3, <1>4, RunAttends, SubmitAttends, ControlAttends, PursueAttends
        DEF Next, Steps

(* For turns of every kind: no step but cancel in an idle session, a failed  *)
(* preflight that the queue has not called, and the goal leaves waiting      *)
(* turns with nobody to start them.                                          *)
THEOREM NobodyForgets == Spec => NoLostWakeup
<1>1. /\ TypeOK /\ Ledger /\ Door /\ [Next]_vars
      => [Attended => Attended' \/ CancelWhileIdle \/ FailsUncalled \/ LeftToTheGoal]_vars
  BY StepAttends
<1> QED BY <1>1, OwnerAlways, PTL DEF Spec, NoLostWakeup

-----------------------------------------------------------------------------
(* The lane *)

(* Without goals none is ever set, and a queue that dispose() has emptied    *)
(* stays empty.                                                              *)
Quiet == goal = "none" /\ (disposing => queue = <<>>)

LEMMA QuietKept ==
  ASSUME GoalTurns = {}, TypeOK, Quiet, [Next]_vars
  PROVE  Quiet'
<1>1. CASE Submit
  BY <1>1 DEF Submit, SubmitBehind, SubmitAndSchedule, SendDirect, Accepting, EnqueueNew, Quiet, process
<1>2. ASSUME NEW q, NEW act, NEW gate, NEW st, NEW at, NEW reqs, NEW tm,
             StartNextQueuedTurn(q, act, gate, st, at, reqs, tm),
             disposing' = disposing, disposing => q = <<>>
      PROVE  disposing' => queue' = <<>>
  BY <1>2 DEF StartNextQueuedTurn, HeldBack
<1>3. CASE FireTimer
  BY <1>2, <1>3 DEF FireTimer, Quiet, process
<1>4. ASSUME NEW t \in Turns, Preflight(t) PROVE Quiet'
  <2>1. ASSUME NEW at, NEW rows, NEW act, StartReturns(t, at, rows, act), disposing' = disposing
        PROVE  disposing' => queue' = <<>>
    BY <1>2, <2>1 DEF StartReturns, Quiet
  <2>2. CASE Announce(t) \/ Register(t)
    BY <2>2 DEF Announce, Register, Quiet, memory, process
  <2>3. CASE StartRejects(t) \/ SetupUnavailable(t) \/ Execute(t)
    BY <2>1, <2>3 DEF StartRejects, SetupUnavailable, Execute, Quiet, process
  <2> QED BY <1>4, <2>2, <2>3 DEF Preflight
<1>5. ASSUME NEW t \in Turns, Conclude(t) PROVE Quiet'
  <2>1. ASSUME NEW at, NEW rows, NEW last, ContinueGoalOrQueue(at, rows, last),
               disposing' = disposing
        PROVE  Quiet'
    <3>1. disposing' => queue' = <<>>
      BY <1>2, <2>1 DEF ContinueGoalOrQueue, Quiet
    <3> QED BY <2>1, <3>1 DEF ContinueGoalOrQueue, Quiet
  <2>2. ASSUME NEW v, EndOwned(t, v) PROVE Quiet'
    BY <2>1, <2>2 DEF EndOwned, process
  <2>3. CASE EndSilent(t)
    BY <2>1, <2>3 DEF EndSilent, process
  <2>4. CASE EndUnowned(t) \/ SettleCompleted(t)
    BY <2>4 DEF EndUnowned, SettleCompleted, Quiet, memory, process, database
  <2> QED BY <1>5, <2>2, <2>3, <2>4 DEF Conclude, Settle, Finish
<1>6. CASE Run
  BY <1>4, <1>5, <1>6 DEF Run, Emit, ProposePlan, AskQuestion, Quiet, memory, process
<1>7. CASE Control
  <2>1. ASSUME NEW t \in Turns, CancelQueuedTurn(t) \/ SendQueuedTurnNow(t) PROVE Quiet'
    <3>1. queue # <<>> /\ ~disposing /\ disposing' = disposing /\ goal' = goal
      BY <2>1 DEF CancelQueuedTurn, SendQueuedTurnNow, Queued, Quiet, process
    <3> QED BY <3>1 DEF Quiet
  <2>2. CASE CancelTurn \/ RejectPlan \/ UpdatePermissionMode
    BY <1>2, <2>2 DEF CancelTurn, RejectPlan, UpdatePermissionMode, DecidePlan, Quiet, process
  <2> QED BY <1>7, <2>1, <2>2 DEF Control, AnswerQuestion, Quiet, process
<1>8. CASE Pursue
  BY <1>8 DEF Pursue, ActivateGoal, SuspendGoal, ClearGoal, Quiet
<1>9. CASE Dispose \/ Restart
  BY <1>9 DEF Dispose, Restart, Quiet, database
<1>10. CASE CancelWhileIdle \/ UNCHANGED vars
  BY <1>10 DEF CancelWhileIdle, vars, memory, process, database, Quiet
<1> QED BY <1>1, <1>3, <1>6, <1>7, <1>8, <1>9, <1>10 DEF Next, Steps

(* One turn at most holds it, and every turn that has been submitted has a   *)
(* row.                                                                      *)
OneHolder == \A t, u \in Turns : HoldsLane(t) /\ HoldsLane(u) => t = u

Recorded == \A t \in Turns : pc[t] # "new" => request[t] # "none"

Tenancy == /\ TypeOK /\ Ledger /\ OwnerIsLive /\ Door /\ Alone /\ Quiet
           /\ OneHolder /\ Recorded

(* No turn has come into the lane, or t has, after the others had left it.   *)
NoneEnters == \A u \in Turns : HoldsLane(u)' => HoldsLane(u)
OneEnters(t) == HoldsLane(t)' /\ \A u \in Turns \ {t} : ~HoldsLane(u)'

(* What a turn is to the lane: yet to come, waiting, or further.             *)
Kind(status) == IF status \in {"none", "accepted"} THEN status ELSE "begun"

KindsBut(t) == \A u \in Turns \ {t} : Kind(request'[u]) = Kind(request[u])

(* What a step does to the rows and to the lane. *)
LaneMoves ==
  \/ NoneEnters /\ \A u \in Turns : Kind(request'[u]) = Kind(request[u])
  \/ \E t \in Turns :
       /\ KindsBut(t)
       /\ \/ NoneEnters /\ Kind(request[t]) = "none" /\ Kind(request'[t]) = "accepted"
          \/ /\ active' = active /\ (\A u \in Turns : HoldsLane(u)' <=> HoldsLane(u))
             /\ Kind(request[t]) = "accepted" /\ Kind(request'[t]) = "begun"
          \/ OneEnters(t) /\ Kind(request[t]) = "accepted" /\ Kind(request'[t]) = "begun"

(* A row tells where its turn stands, until dispose().                       *)
KindOf(place) == CASE place = "new" -> "none"
                   [] place = "queued" -> "accepted"
                   [] OTHER -> "begun"

LEMMA RowsTell ==
  ASSUME DirectTurns = {}, GoalTurns = {}, TypeOK, Ledger, Recorded, ~disposing,
         NEW t \in Turns
  PROVE  Kind(request[t]) = KindOf(pc[t])
<1>1. t \in DurableTurns
  BY DEF Turns
<1> QED BY <1>1 DEF Ledger, Books, Recorded, Kind, KindOf

LEMMA HolderBegun ==
  ASSUME Tenancy, NEW t \in Turns, HoldsLane(t)
  PROVE  Kind(request[t]) = "begun"
<1>1. pc[t] \in Startup \cup Running
  BY TurnsAssumption DEF Tenancy, HoldsLane, OwnerIsLive, Startup, Running, TypeOK
<1>2. pc[t] # "new"
  BY <1>1 DEF Startup, Running
<1> QED BY <1>1, <1>2 DEF Tenancy, Ledger, Books, Recorded, Kind

LEMMA RecordedKept ==
  ASSUME DirectTurns = {}, GoalTurns = {}, Tenancy, TypeOK', Ledger', Quiet', [Next]_vars
  PROVE  Recorded'
<1> SUFFICES ASSUME NEW u \in Turns, pc'[u] # "new" PROVE request'[u] # "none"
  BY DEF Recorded
<1>1. CASE pc[u] # "new"
  BY <1>1, NextSpares DEF Tenancy, Recorded, Spares
<1>2. CASE pc[u] = "new"
  <2>0. pc \in [Turns -> Places]
    BY DEF Tenancy, TypeOK
  <2>1. pc'[u] = "queued"
    <3>1. ASSUME NEW st, NEW act, NEW at, at[u] = "new", at \in [Turns -> Places],
                 Calls(st, act, at)
          PROVE  FALSE
      BY <1>2, <3>1 DEF Calls
    <3>2. ASSUME NEW t \in Turns, Enters(t) PROVE pc'[u] = "queued"
      BY <1>2, <2>0, <3>2 DEF Enters
    <3>3. ASSUME NEW t \in Turns, Advances(t) \/ Registers(t) \/ Leaves(t) PROVE FALSE
      BY <1>2, <2>0, <3>3 DEF Advances, Registers, Leaves, Running
    <3>4. ASSUME NEW t \in Turns, Returns(t) PROVE FALSE
      <4>1. PICK p \in {"executing", "over"} :
              /\ pc[t] \in Startup
              /\ \/ Calls(FALSE, active', [pc EXCEPT ![t] = p])
                 \/ pc' = [pc EXCEPT ![t] = p]
        BY <3>4 DEF Returns
      <4>2. [pc EXCEPT ![t] = p] \in [Turns -> Places] /\ [pc EXCEPT ![t] = p][u] = "new"
        BY <1>2, <2>0, <4>1 DEF Places, Startup
      <4> QED BY <3>1, <4>1, <4>2
    <3>5. ASSUME NEW t \in Turns, Ends(t) PROVE FALSE
      <4>1. Calls(starting, None, [pc EXCEPT ![t] = "over"]) /\ pc[t] \in Running
        BY <3>5 DEF Ends
      <4>2. [pc EXCEPT ![t] = "over"] \in [Turns -> Places]
            /\ [pc EXCEPT ![t] = "over"][u] = "new"
        BY <1>2, <2>0, <4>1 DEF Places, Running
      <4> QED BY <3>1, <4>1, <4>2
    <3>6. CASE Dispose \/ Restart
      <4>1. CASE Dispose
        BY <1>2, <4>1 DEF Dispose
      <4>2. CASE Restart
        BY <1>2, <4>2 DEF Restart, RecoverRequests, Tenancy, Ledger, Books
      <4> QED BY <3>6, <4>1, <4>2
    <3>7. CASE Calls(starting, active', pc)
      BY <1>2, <2>0, <3>1, <3>7
    <3> QED BY <3>2, <3>3, <3>4, <3>5, <3>6, <3>7, StepMoves DEF Moves, Tenancy
  <2>2. u \in DurableTurns
    BY DEF Turns
  <2>3. ~disposing'
    BY <2>1 DEF Quiet, Ledger, Books
  <2> QED BY <2>1, <2>2, <2>3 DEF Ledger, Books
<1> QED BY <1>1, <1>2

(* startNextQueuedTurn, called when no other turn is left in the lane.       *)
LEMMA CallsLane ==
  ASSUME NEW st, NEW act, NEW at \in [Turns -> Places], Calls(st, act, at), active' = act,
         \A u \in Turns : at[u] \in Startup => pc[u] \in Startup,
         active' \in {active, None},
         act = None /\ ~st /\ ~disposing => \A u \in Turns : at[u] \notin Startup
  PROVE  \/ NoneEnters /\ pc' = at
         \/ /\ ~disposing
            /\ \E h \in Turns : at[h] = "queued" /\ pc' = [at EXCEPT ![h] = "preflight"]
                                /\ OneEnters(h)
<1>1. CASE pc' = at
  BY <1>1, TurnsAssumption DEF NoneEnters, HoldsLane
<1>2. CASE pc' # at
  <2>1. PICK h \in Turns : /\ at[h] = "queued" /\ pc' = [at EXCEPT ![h] = "preflight"]
                           /\ ~disposing /\ act = None /\ ~st
    BY <1>2 DEF Calls
  <2>2. OneEnters(h)
    BY <2>1, TurnsAssumption DEF OneEnters, HoldsLane, Startup
  <2> QED BY <2>1, <2>2
<1> QED BY <1>1, <1>2

(* While the application runs, rows follow the places.                       *)
LEMMA PlacesLane ==
  ASSUME DirectTurns = {}, GoalTurns = {}, Tenancy, Moves
  PROVE  \/ /\ NoneEnters
            /\ \/ \A u \in Turns : KindOf(pc'[u]) = KindOf(pc[u])
               \/ \E t \in Turns : pc[t] = "new" /\ pc' = [pc EXCEPT ![t] = "queued"]
         \/ \E t \in Turns : /\ pc[t] = "queued" /\ pc' = [pc EXCEPT ![t] = "over"]
                             /\ active' = active
         \/ /\ ~disposing
            /\ \E h \in Turns : /\ pc[h] = "queued" /\ OneEnters(h) /\ pc'[h] = "preflight"
                                /\ \A u \in Turns \ {h} : KindOf(pc'[u]) = KindOf(pc[u])
<1>0. pc \in [Turns -> Places] /\ active \in Turns \cup {None} /\ None \notin Turns
  BY TurnsAssumption DEF Tenancy, TypeOK
<1>1. ASSUME NEW t \in Turns, Enters(t)
      PROVE  NoneEnters /\ pc[t] = "new" /\ pc' = [pc EXCEPT ![t] = "queued"]
  BY <1>0, <1>1 DEF Enters, Holds, NoneEnters, HoldsLane, Startup
<1>2. ASSUME NEW t \in Turns, Advances(t)
      PROVE  \/ NoneEnters /\ \A u \in Turns : KindOf(pc'[u]) = KindOf(pc[u])
             \/ pc[t] = "queued" /\ pc' = [pc EXCEPT ![t] = "over"] /\ active' = active
  BY <1>0, <1>2 DEF Advances, NoneEnters, HoldsLane, Startup, KindOf
<1>3. ASSUME NEW t \in Turns, Registers(t) \/ Leaves(t)
      PROVE  NoneEnters /\ \A u \in Turns : KindOf(pc'[u]) = KindOf(pc[u])
  BY <1>0, <1>3 DEF Registers, Leaves, NoneEnters, HoldsLane, Startup, Running, KindOf
<1>4. ASSUME NEW st, NEW t \in Turns, NEW p \in {"executing", "over"},
             pc[t] \in Startup \cup Running,
             Calls(st, active', [pc EXCEPT ![t] = p]), HoldsLane(t),
             active' \in {active, None}
      PROVE  \/ NoneEnters /\ \A u \in Turns : KindOf(pc'[u]) = KindOf(pc[u])
             \/ /\ ~disposing
                /\ \E h \in Turns : /\ pc[h] = "queued" /\ OneEnters(h) /\ pc'[h] = "preflight"
                                    /\ \A u \in Turns \ {h} : KindOf(pc'[u]) = KindOf(pc[u])
  <2> DEFINE at == [pc EXCEPT ![t] = p]
  <2>1. /\ at \in [Turns -> Places] /\ at[t] = p /\ p \notin Startup
        /\ \A u \in Turns \ {t} : at[u] = pc[u]
    BY <1>0 DEF Places, Startup
  <2>2. \A u \in Turns \ {t} : pc[u] \notin Startup
    BY <1>4 DEF Tenancy, OneHolder, HoldsLane
  <2>3. \A u \in Turns : KindOf(at[u]) = KindOf(pc[u]) /\ (at[u] = "queued" => u # t)
    BY <1>4, <2>1 DEF KindOf, Startup, Running
  <2> HIDE DEF at
  <2>4. Calls(st, active', at)
    BY <1>4 DEF at
  <2>5. \/ NoneEnters /\ pc' = at
        \/ /\ ~disposing
           /\ \E h \in Turns : at[h] = "queued" /\ pc' = [at EXCEPT ![h] = "preflight"]
                               /\ OneEnters(h)
    BY <1>4, <2>1, <2>2, <2>4, CallsLane
  <2>6. ASSUME NEW h \in Turns, at[h] = "queued", pc' = [at EXCEPT ![h] = "preflight"]
        PROVE  /\ pc[h] = "queued" /\ pc'[h] = "preflight"
               /\ \A u \in Turns \ {h} : KindOf(pc'[u]) = KindOf(pc[u])
    BY <2>1, <2>3, <2>6
  <2> QED BY <2>3, <2>5, <2>6
<1>5. ASSUME NEW t \in Turns, Returns(t)
      PROVE  \/ NoneEnters /\ \A u \in Turns : KindOf(pc'[u]) = KindOf(pc[u])
             \/ /\ ~disposing
                /\ \E h \in Turns : /\ pc[h] = "queued" /\ OneEnters(h) /\ pc'[h] = "preflight"
                                    /\ \A u \in Turns \ {h} : KindOf(pc'[u]) = KindOf(pc[u])
  <2>1. PICK p \in {"executing", "over"} :
          /\ pc[t] \in Startup
          /\ IF t \in viaQueue THEN Calls(FALSE, active', [pc EXCEPT ![t] = p])
             ELSE pc' = [pc EXCEPT ![t] = p] /\ Stands
          /\ p = "executing" => active = t /\ active' = t
          /\ p = "over" => active' = IF active = t /\ pc[t] = "registered" THEN None ELSE active
    BY <1>5 DEF Returns
  <2>2. active' \in {active, None} /\ HoldsLane(t)
    BY <2>1 DEF HoldsLane
  <2>3. CASE t \in viaQueue
    BY <1>4, <2>1, <2>2, <2>3
  <2>4. CASE t \notin viaQueue
    <3>1. pc' = [pc EXCEPT ![t] = p]
      BY <2>1, <2>4
    <3> QED BY <1>0, <2>1, <2>2, <3>1 DEF NoneEnters, HoldsLane, Startup, KindOf
  <2> QED BY <2>3, <2>4
<1>6. ASSUME NEW t \in Turns, Ends(t)
      PROVE  \/ NoneEnters /\ \A u \in Turns : KindOf(pc'[u]) = KindOf(pc[u])
             \/ /\ ~disposing
                /\ \E h \in Turns : /\ pc[h] = "queued" /\ OneEnters(h) /\ pc'[h] = "preflight"
                                    /\ \A u \in Turns \ {h} : KindOf(pc'[u]) = KindOf(pc[u])
  <2>1. /\ pc[t] \in Running /\ active' = None /\ HoldsLane(t)
        /\ Calls(starting, active', [pc EXCEPT ![t] = "over"])
    BY <1>6 DEF Ends, HoldsLane
  <2> QED BY <1>4, <2>1
<1>7. ASSUME Holds, Calls(starting, active', pc)
      PROVE  \/ NoneEnters /\ \A u \in Turns : KindOf(pc'[u]) = KindOf(pc[u])
             \/ /\ ~disposing
                /\ \E h \in Turns : /\ pc[h] = "queued" /\ OneEnters(h) /\ pc'[h] = "preflight"
                                    /\ \A u \in Turns \ {h} : KindOf(pc'[u]) = KindOf(pc[u])
  <2>1. ~starting /\ ~disposing => \A u \in Turns : pc[u] \notin Startup
    BY DEF Tenancy, Door, Guarded, AtDoor, Alone, Sole
  <2>2. \/ NoneEnters /\ pc' = pc
        \/ /\ ~disposing
           /\ \E h \in Turns : pc[h] = "queued" /\ pc' = [pc EXCEPT ![h] = "preflight"]
                               /\ OneEnters(h)
    BY <1>0, <1>7, <2>1, CallsLane DEF Holds
  <2> QED BY <1>0, <2>2
<1> QED BY <1>1, <1>2, <1>3, <1>5, <1>6, <1>7 DEF Moves

LEMMA StepLane ==
  ASSUME DirectTurns = {}, GoalTurns = {}, Tenancy, TypeOK', Ledger', Quiet', Recorded',
         [Next]_vars
  PROVE  LaneMoves
<1>0. /\ pc \in [Turns -> Places] /\ None \notin Turns
      /\ request \in [Turns -> RowStates] /\ request' \in [Turns -> RowStates]
  BY TurnsAssumption DEF Tenancy, TypeOK
<1>1. CASE Moves /\ ~disposing
  <2>1. \A u \in Turns : Kind(request[u]) = KindOf(pc[u])
    BY <1>1, RowsTell DEF Tenancy
  <2>2. \A u \in Turns : Kind(request'[u]) = KindOf(pc'[u])
    <3> SUFFICES ASSUME NEW u \in Turns PROVE Kind(request'[u]) = KindOf(pc'[u])
      OBVIOUS
    <3>1. ~disposing' /\ u \in DurableTurns
      BY <1>1 DEF Moves, Turns
    <3> QED BY <3>1 DEF Ledger, Books, Recorded, Kind, KindOf
  <2>3. CASE NoneEnters /\ \A u \in Turns : KindOf(pc'[u]) = KindOf(pc[u])
    BY <2>1, <2>2, <2>3 DEF LaneMoves
  <2>4. ASSUME NoneEnters, NEW t \in Turns, pc[t] = "new", pc' = [pc EXCEPT ![t] = "queued"]
        PROVE  LaneMoves
    <3>1. KindOf(pc[t]) = "none" /\ KindOf(pc'[t]) = "accepted"
          /\ \A u \in Turns \ {t} : pc'[u] = pc[u]
      BY <1>0, <2>4 DEF KindOf
    <3> QED BY <2>1, <2>2, <2>4, <3>1 DEF LaneMoves, KindsBut
  <2>5. ASSUME NEW t \in Turns, pc[t] = "queued", pc' = [pc EXCEPT ![t] = "over"],
               active' = active
        PROVE  LaneMoves
    <3>1. KindOf(pc[t]) = "accepted" /\ KindOf(pc'[t]) = "begun"
          /\ \A u \in Turns \ {t} : pc'[u] = pc[u]
      BY <1>0, <2>5 DEF KindOf
    <3>2. \A u \in Turns : HoldsLane(u)' <=> HoldsLane(u)
      BY <1>0, <2>5 DEF HoldsLane, Startup
    <3> QED BY <2>1, <2>2, <2>5, <3>1, <3>2 DEF LaneMoves, KindsBut
  <2>6. ASSUME NEW h \in Turns, pc[h] = "queued", OneEnters(h), pc'[h] = "preflight",
               \A u \in Turns \ {h} : KindOf(pc'[u]) = KindOf(pc[u])
        PROVE  LaneMoves
    <3>1. KindOf(pc[h]) = "accepted" /\ KindOf(pc'[h]) = "begun"
      BY <2>6 DEF KindOf
    <3> QED BY <2>1, <2>2, <2>6, <3>1 DEF LaneMoves, KindsBut
  <2> QED BY <1>1, <2>3, <2>4, <2>5, <2>6, PlacesLane
<1>2. CASE Moves /\ disposing
  <2>1. queue = <<>> /\ queue' = <<>>
    BY <1>2 DEF Tenancy, Quiet, Moves
  <2>2. \A t \in Turns : pc[t] # "queued" /\ pc'[t] # "queued"
    BY <2>1 DEF Tenancy, Ledger, Books
  <2>3. NoneEnters /\ \A u \in Turns : KindOf(pc'[u]) = KindOf(pc[u])
    BY <1>0, <1>2, <2>2, PlacesLane
  <2>4. ASSUME NEW u \in Turns PROVE Kind(request'[u]) = Kind(request[u])
    <3>1. pc'[u] = "new" <=> pc[u] = "new"
      BY <2>2, <2>3 DEF KindOf
    <3>2. request'[u] = "none" <=> request[u] = "none"
      BY <3>1 DEF Tenancy, Recorded, Ledger, Books
    <3>3. request'[u] = "accepted" <=> request[u] = "accepted"
      BY <1>2, <2>1, NextSpares DEF Tenancy, Spares
    <3> QED BY <3>2, <3>3 DEF Kind
  <2> QED BY <2>3, <2>4 DEF LaneMoves
<1>3. CASE Dispose
  <2>1. request' = request /\ NoneEnters
    BY <1>0, <1>3 DEF Dispose, database, NoneEnters, HoldsLane, Startup
  <2> QED BY <2>1 DEF LaneMoves
<1>4. CASE Restart
  <2>1. NoneEnters
    BY <1>0, <1>4 DEF Restart, RecoverRequests, NoneEnters, HoldsLane, Startup
  <2>2. \A u \in Turns : request'[u] = RecoverRow(request[u])
    BY <1>4 DEF Restart, RecoverRequests
  <2> QED BY <2>1, <2>2 DEF LaneMoves, Kind, RecoverRow
<1> QED BY <1>1, <1>2, <1>3, <1>4, StepMoves DEF Tenancy

LEMMA LaneKept ==
  ASSUME OneHolder, LaneMoves
  PROVE  OneHolder'
BY DEF LaneMoves, NoneEnters, OneEnters, OneHolder

(* The holder of the lane, when one turn at most holds it. *)
LEMMA TheHolder ==
  ASSUME OneHolder
  PROVE  /\ \A t \in Turns : HoldsLane(t) => LaneHolder = t
         /\ (\A t \in Turns : ~HoldsLane(t)) => LaneHolder = None
         /\ LaneHolder \in Turns \cup {None}
         /\ LaneHolder # None => HoldsLane(LaneHolder)
BY TurnsAssumption DEF OneHolder, LaneHolder

LEMMA TheNextHolder ==
  ASSUME OneHolder'
  PROVE  /\ \A t \in Turns : HoldsLane(t)' => LaneHolder' = t
         /\ (\A t \in Turns : ~HoldsLane(t)') => LaneHolder' = None
BY TurnsAssumption DEF OneHolder, LaneHolder

LEMMA MapsStep ==
  ASSUME Tenancy, OneHolder', LaneMoves
  PROVE  [Lane!Next]_(Lane!vars)
<1> DEFINE H == LaneHolder
           K == LaneHolder'
<1>0. None \notin Turns
  BY TurnsAssumption
<1>1. /\ LaneWaiting = {u \in Turns : Kind(request[u]) = "accepted"}
      /\ LaneEnded = {u \in Turns : Kind(request[u]) = "begun" /\ u # H}
  BY DEF LaneWaiting, LaneEnded, Kind
<1>2. /\ LaneWaiting' = {u \in Turns : Kind(request'[u]) = "accepted"}
      /\ LaneEnded' = {u \in Turns : Kind(request'[u]) = "begun" /\ u # K}
  BY DEF LaneWaiting, LaneEnded, Kind
<1>3. H \in Turns \cup {None} /\ (H # None => HoldsLane(H) /\ Kind(request[H]) = "begun")
  BY TheHolder, HolderBegun DEF Tenancy
<1>4. NoneEnters => K \in {H, None}
  <2>1. CASE \E t \in Turns : HoldsLane(t)'
    BY <2>1, TheHolder, TheNextHolder DEF NoneEnters, Tenancy
  <2>2. CASE \A t \in Turns : ~HoldsLane(t)'
    BY <2>2, TheNextHolder
  <2> QED BY <2>1, <2>2
<1> HIDE DEF H, K
<1>5. CASE NoneEnters /\ \A u \in Turns : Kind(request'[u]) = Kind(request[u])
  <2>1. LaneWaiting' = LaneWaiting
    BY <1>1, <1>2, <1>5
  <2>2. CASE K = H
    <3>1. LaneEnded' = LaneEnded
      BY <1>1, <1>2, <1>5, <2>2
    <3> QED BY <2>1, <2>2, <3>1 DEF Lane!vars, H, K
  <2>3. CASE K = None /\ H # None
    <3>1. LaneEnded' = LaneEnded \cup {H}
      BY <1>0, <1>1, <1>2, <1>3, <1>5, <2>3
    <3> QED BY <2>1, <2>3, <3>1 DEF Lane!Next, Lane!End, H, K
  <2> QED BY <1>4, <1>5, <2>2, <2>3
<1>6. ASSUME NEW t \in Turns, KindsBut(t), NoneEnters,
             Kind(request[t]) = "none", Kind(request'[t]) = "accepted"
      PROVE  [Lane!Next]_(Lane!vars)
  <2>1. LaneWaiting' = LaneWaiting \cup {t}
    BY <1>1, <1>2, <1>6 DEF KindsBut
  <2>2. t # H /\ t \notin LaneWaiting \cup LaneEnded
    BY <1>0, <1>1, <1>3, <1>6
  <2>3. Lane!Fresh(t)
    BY <2>2 DEF Lane!Fresh, H
  <2>4. CASE K = H
    <3>1. LaneEnded' = LaneEnded
      BY <1>1, <1>2, <1>6, <2>4 DEF KindsBut
    <3>2. Lane!Accept(t)
      BY <2>1, <2>3, <2>4, <3>1 DEF Lane!Accept, H, K
    <3> QED BY <3>2 DEF Lane!Next
  <2>5. CASE K = None /\ H # None
    <3>1. LaneEnded' = LaneEnded \cup {H}
      BY <1>0, <1>1, <1>2, <1>3, <1>6, <2>5 DEF KindsBut
    <3>2. Lane!Interrupt(t)
      BY <2>1, <2>3, <2>5, <3>1 DEF Lane!Interrupt, H, K
    <3> QED BY <3>2 DEF Lane!Next
  <2> QED BY <1>4, <1>6, <2>4, <2>5
<1>7. ASSUME NEW t \in Turns, KindsBut(t), \A u \in Turns : HoldsLane(u)' <=> HoldsLane(u),
             Kind(request[t]) = "accepted", Kind(request'[t]) = "begun"
      PROVE  [Lane!Next]_(Lane!vars)
  <2>1. K = H /\ t # H
    <3>1. t # H
      BY <1>0, <1>3, <1>7
    <3>2. CASE \E u \in Turns : HoldsLane(u)
      BY <1>7, <3>1, <3>2, TheHolder, TheNextHolder DEF Tenancy, H, K
    <3>3. CASE \A u \in Turns : ~HoldsLane(u)
      BY <1>7, <3>1, <3>3, TheHolder, TheNextHolder DEF Tenancy, H, K
    <3> QED BY <3>2, <3>3
  <2>2. t \in LaneWaiting /\ LaneWaiting' = LaneWaiting \ {t}
    BY <1>1, <1>2, <1>7 DEF KindsBut
  <2>3. LaneEnded' = LaneEnded \cup {t}
    BY <1>1, <1>2, <1>7, <2>1 DEF KindsBut
  <2>4. Lane!Withdraw(t)
    BY <2>1, <2>2, <2>3 DEF Lane!Withdraw, H, K
  <2> QED BY <2>4 DEF Lane!Next
<1>8. ASSUME NEW t \in Turns, KindsBut(t), OneEnters(t),
             Kind(request[t]) = "accepted", Kind(request'[t]) = "begun"
      PROVE  [Lane!Next]_(Lane!vars)
  <2>1. K = t /\ t # H
    BY <1>0, <1>3, <1>8, TheNextHolder DEF OneEnters, K
  <2>2. t \in LaneWaiting /\ LaneWaiting' = LaneWaiting \ {t}
    BY <1>1, <1>2, <1>8 DEF KindsBut
  <2>3. CASE H = None
    <3>1. LaneEnded' = LaneEnded
      BY <1>0, <1>1, <1>2, <1>8, <2>1, <2>3 DEF KindsBut
    <3>2. Lane!Begin(t)
      BY <2>1, <2>2, <2>3, <3>1 DEF Lane!Begin, H, K
    <3> QED BY <3>2 DEF Lane!Next
  <2>4. CASE H # None
    <3>1. LaneEnded' = LaneEnded \cup {H}
      BY <1>1, <1>2, <1>3, <1>8, <2>1, <2>4 DEF KindsBut
    <3>2. Lane!HandOver(t)
      BY <2>1, <2>2, <2>4, <3>1 DEF Lane!HandOver, H, K
    <3> QED BY <3>2 DEF Lane!Next
  <2> QED BY <2>3, <2>4
<1> QED BY <1>5, <1>6, <1>7, <1>8 DEF LaneMoves

(* While all turns are durable, the queue of a session is one lane: each     *)
(* step of SessionTurns is a step of TurnLane or leaves the lane alone.      *)
THEOREM OneLane ==
  ASSUME DirectTurns = {}, GoalTurns = {}
  PROVE  Spec => LaneSpec
<1>1. Init => Alone /\ Quiet /\ OneHolder /\ Recorded /\ Lane!Init
  <2> SUFFICES ASSUME Init PROVE Alone /\ Quiet /\ OneHolder /\ Recorded /\ Lane!Init
    OBVIOUS
  <2>1. Alone /\ Quiet /\ Recorded
    BY DEF Init, Alone, Sole, Startup, Running, Quiet, Recorded
  <2>2. \A t \in Turns : ~HoldsLane(t)
    BY TurnsAssumption DEF Init, HoldsLane, Startup
  <2>3. OneHolder /\ LaneHolder = None
    BY <2>2 DEF OneHolder, LaneHolder
  <2>4. LaneWaiting = {} /\ LaneEnded = {}
    BY DEF Init, LaneWaiting, LaneEnded
  <2> QED BY <2>1, <2>3, <2>4 DEF Lane!Init
<1>2. /\ TypeOK /\ Ledger /\ OwnerIsLive /\ Door /\ (TypeOK /\ Ledger)'
      /\ Alone /\ Quiet /\ OneHolder /\ Recorded /\ [Next]_vars
      => (Alone /\ Quiet /\ OneHolder /\ Recorded)' /\ [Lane!Next]_(Lane!vars)
  <2> SUFFICES ASSUME Tenancy, TypeOK', Ledger', [Next]_vars
               PROVE  /\ (Alone /\ Quiet /\ OneHolder /\ Recorded)'
                      /\ [Lane!Next]_(Lane!vars)
    BY DEF Tenancy
  <2>1. Alone' /\ Quiet'
    BY AloneKept, QuietKept DEF Tenancy
  <2>2. Recorded'
    BY <2>1, RecordedKept
  <2>3. LaneMoves
    BY <2>1, <2>2, StepLane
  <2>4. OneHolder'
    BY <2>3, LaneKept DEF Tenancy
  <2> QED BY <2>1, <2>2, <2>3, <2>4, MapsStep
<1> QED BY <1>1, <1>2, OwnerAlways, PTL DEF Spec, LaneSpec, Lane!Spec
=============================================================================
