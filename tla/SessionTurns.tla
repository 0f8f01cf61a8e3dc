---------------------------- MODULE SessionTurns ----------------------------
(***************************************************************************)
(* The turn scheduler of one chat session: class SessionService of         *)
(* packages/agent-runtime/src/services/session.service.ts, with the        *)
(* turn_requests, sessions, session_goals and agent_events rows it keeps.  *)
(*                                                                         *)
(* Every map of the class is keyed by session id and no handler reads the  *)
(* entry of another session, so one session is modelled and each map is    *)
(* the value it holds for it.  The service runs on one JavaScript thread:  *)
(* a step is the code between two awaits, with the microtasks it runs to   *)
(* completion (a .then/.catch/.finally chain that does not wait).          *)
(***************************************************************************)
EXTENDS Naturals, Sequences, FiniteSets

CONSTANTS
  DurableTurns,  \* turns submitted with submitTurn: they get a turn_requests row
  DirectTurns,   \* turns sent with sendTurn (remote /send, slash commands)
  GoalTurns,     \* turn ids minted by the goal loop, one per iteration
  None,          \* no turn
  MaxQuestions,  \* bound: open questions of one turn
  MaxTimers,     \* bound: pending setTimeout(startNextQueuedTurn) callbacks
  MaxRestarts    \* bound: process exits, by a crash or after dispose()

Turns == DurableTurns \cup DirectTurns \cup GoalTurns

ASSUME TurnsAssumption ==
  /\ IsFiniteSet(Turns)
  /\ DurableTurns \cap DirectTurns = {}
  /\ GoalTurns \cap (DurableTurns \cup DirectTurns) = {}
  /\ None \notin Turns

ASSUME BoundsAssumption ==
  MaxQuestions \in Nat /\ MaxTimers \in Nat /\ MaxRestarts \in Nat

VARIABLES
  (* memory of the process, lost when it exits *)
  disposing,  \* dispose() has begun
  queue,      \* pendingTurns
  active,     \* activeLoops: the turn whose executor is registered, or None
  starting,   \* startingSessions: a queued turn is in its preflight
  planGate,   \* pendingPlanApprovals: the turn whose plan waits, or None
  questions,  \* pendingUserQuestionGate, counted per asking turn
  timers,     \* pending setTimeout(startNextQueuedTurn, 0) callbacks
  pc,         \* where the code of each turn stands
  viaQueue,   \* turns whose startTurn was called by startNextQueuedTurn
  cancelled,  \* turns whose executor lives on after cancel()
  (* the database *)
  request,    \* turn_requests.status of each turn, "none" without a row
  created,    \* enqueuedAt / created_at, as the rank of the submission
  session,    \* sessions.status
  goal,       \* status of the current goal
  verdict,    \* terminal agent_status events stored for each turn
  latest,     \* turn id of the latest stored event, None for an id of no turn
  lastStatus, \* latest stored agent_status: "none", "open" or "terminal"
  restarts,   \* process exits so far, each followed by a new launch
  (* history, read by no action *)
  promoted    \* turns moved to the front of the queue since the launch

memory   == <<queue, active, starting, planGate, questions, timers>>
process  == <<disposing, restarts, promoted>>
threads  == <<pc, viaQueue, cancelled>>
database == <<request, created, session, goal, verdict, latest, lastStatus>>
vars     == <<memory, process, threads, database>>

Places    == {"new", "queued", "preflight", "announced", "registered",
              "executing", "finishing", "over"}
Startup   == {"preflight", "announced", "registered"}
Running   == {"executing", "finishing"}
RowStates == {"none", "accepted", "running", "completed", "failed", "cancelled"}
Verdicts  == {"completed", "error", "cancelled"}
Goals     == {"none", "pending", "active", "paused", "stopped"}

TypeOK ==
  /\ disposing \in BOOLEAN /\ starting \in BOOLEAN
  /\ queue \in Seq(Turns)
  /\ active \in Turns \cup {None}
  /\ planGate \in Turns \cup {None}
  /\ questions \in [Turns -> Nat]
  /\ timers \in Nat /\ restarts \in Nat /\ promoted \in SUBSET Turns
  /\ pc \in [Turns -> Places]
  /\ viaQueue \in SUBSET Turns /\ cancelled \in SUBSET Turns
  /\ request \in [Turns -> RowStates]
  /\ created \in [Turns -> Nat]
  /\ session \in {"idle", "running", "error"}
  /\ goal \in Goals
  /\ verdict \in [Turns -> SUBSET Verdicts]
  /\ latest \in Turns \cup {None}
  /\ lastStatus \in {"none", "open", "terminal"}

Init ==
  /\ disposing = FALSE /\ restarts = 0 /\ promoted = {}
  /\ queue = <<>> /\ active = None /\ starting = FALSE /\ planGate = None
  /\ questions = [t \in Turns |-> 0] /\ timers = 0
  /\ pc = [t \in Turns |-> "new"] /\ viaQueue = {} /\ cancelled = {}
  /\ request = [t \in Turns |-> "none"] /\ created = [t \in Turns |-> 0]
  /\ session = "idle" /\ goal = "none"
  /\ verdict = [t \in Turns |-> {}] /\ latest = None /\ lastStatus = "none"

-----------------------------------------------------------------------------
(* The gate, the rows and the queue                                        *)
(*                                                                         *)
(* A definition marked "Faulty:" is the one that follows it with a mistake *)
(* put in; no action uses it.  It is there to show which property notices. *)

(* SessionQuestionGate.isBlocked: the reference count is above zero. *)
Blocked == \E t \in Turns : questions[t] > 0

Queued(t) == \E i \in DOMAIN queue : queue[i] = t

(* UPDATE turn_requests SET status = s WHERE id = t AND status is not final. *)
Close(reqs, t, s) ==
  IF t \in Turns /\ reqs[t] \in {"accepted", "running"}
  THEN [reqs EXCEPT ![t] = s] ELSE reqs

(* Faulty: the row gets the name of the event status. *)
RowNamedAfterVerdict(v) == v

RowOf(v) == CASE v = "completed" -> "completed"
              [] v = "cancelled" -> "cancelled"
              [] v = "error"     -> "failed"

(* A terminal agent_status event v is stored for turn t (None: an id of no *)
(* turn).                                                                  *)
StoreVerdict(t, v) ==
  /\ verdict' = IF t \in Turns THEN [verdict EXCEPT ![t] = @ \cup {v}] ELSE verdict
  /\ lastStatus' = "terminal"

(* Faulty: an index off by one. *)
KeepIndex(q, i) == SubSeq(q, 1, i) \o SubSeq(q, i + 1, Len(q))

RemoveIndex(q, i) == SubSeq(q, 1, i - 1) \o SubSeq(q, i + 1, Len(q))

(* enqueuedAt of a fresh submission: later than every earlier one.         *)
Stamp(t) == created' = [created EXCEPT
                          ![t] = 1 + Cardinality({u \in Turns : created[u] > 0})]

(* Faulty: a guard of startNextQueuedTurn is missing. *)
NotHeldByActive(act, gate, st) == disposing \/ gate # None \/ Blocked \/ st

(* What makes startNextQueuedTurn return before it looks at the queue.     *)
HeldBack(act, gate, st) == disposing \/ gate # None \/ Blocked \/ act # None \/ st

(* startNextQueuedTurn, called with the queue q, the executor act, the     *)
(* plan gate gate, the starting guard st, the places at, the rows reqs and *)
(* the timers tm its caller has just written.                              *)
StartNextQueuedTurn(q, act, gate, st, at, reqs, tm) ==
  LET idle == HeldBack(act, gate, st) \/ q = <<>>
      head == Head(q)
  IN  \/ /\ idle
         /\ queue' = q /\ starting' = st /\ pc' = at /\ request' = reqs
         /\ timers' = tm /\ UNCHANGED viaQueue
      \/ /\ ~idle
         /\ reqs[head] \in {"none", "accepted"}
         /\ queue' = Tail(q) /\ starting' = TRUE
         /\ pc' = [at EXCEPT ![head] = "preflight"]
         /\ request' = [reqs EXCEPT ![head] = IF @ = "none" THEN "none" ELSE "running"]
         /\ timers' = tm /\ viaQueue' = viaQueue \cup {head}
      \/ /\ ~idle
         /\ reqs[head] \notin {"none", "accepted"}
         /\ queue' = Tail(q) /\ starting' = st
         /\ pc' = [at EXCEPT ![head] = "over"] /\ request' = reqs
         /\ timers' = tm + 1 /\ UNCHANGED viaQueue

-----------------------------------------------------------------------------
(* Submitting: submitTurn and sendTurn, both through dispatchTurn *)

Accepting(t) == ~disposing /\ pc[t] = "new"

MustQueue == goal = "active" \/ Blocked

(* Faulty: unshift for push. *)
EnqueueFirst(t) == queue' = <<t>> \o queue

Enqueue(t) == queue' = Append(queue, t)

(* Faulty: the executor is forgotten but not cancelled; the status is not  *)
(* written.                                                                *)
TakeOverWithoutCancel ==
  active # None /\ active' = None /\ session' = "idle" /\ UNCHANGED cancelled
TakeOverStillRunning ==
  active # None /\ active' = None /\ cancelled' = cancelled \cup {active}
  /\ UNCHANGED session

(* The active executor is cancelled and forgotten (interruptActive).       *)
TakeOver ==
  /\ active # None
  /\ cancelled' = cancelled \cup {active}
  /\ active' = None /\ session' = "idle"

KeepActive == UNCHANGED <<active, cancelled, session>>

EnqueueNew(t) ==
  /\ Stamp(t)
  /\ planGate' = None
  /\ Enqueue(t)
  /\ pc' = [pc EXCEPT ![t] = "queued"]
  /\ request' = IF t \in DurableTurns THEN [request EXCEPT ![t] = "accepted"]
                ELSE request
  /\ UNCHANGED <<process, starting, questions, viaQueue, goal, verdict,
                 latest, lastStatus>>

(* The turn waits behind a goal, an open question or the running turn.     *)
SubmitBehind(t) ==
  /\ Accepting(t) /\ t \in DurableTurns \cup DirectTurns
  /\ MustQueue \/ active # None
  /\ EnqueueNew(t) /\ KeepActive /\ UNCHANGED timers

(* submitTurn that schedules the queue, interrupting the running turn if   *)
(* there is one (interruptActive).                                         *)
SubmitAndSchedule(t) ==
  /\ Accepting(t) /\ t \in DurableTurns
  /\ ~MustQueue /\ timers < MaxTimers
  /\ EnqueueNew(t)
  /\ IF active = None THEN KeepActive ELSE TakeOver
  /\ timers' = timers + 1

(* sendTurn that calls startTurn itself, past startingSessions.            *)
SendDirect(t) ==
  /\ Accepting(t) /\ t \in DirectTurns
  /\ ~MustQueue
  /\ IF active = None THEN KeepActive ELSE TakeOver
  /\ Stamp(t)
  /\ planGate' = None
  /\ pc' = [pc EXCEPT ![t] = "preflight"]
  /\ UNCHANGED <<process, queue, starting, questions, timers, viaQueue, request,
                 goal, verdict, latest, lastStatus>>

-----------------------------------------------------------------------------
(* Starting: the queue's timer, startTurn and its preflight *)

FireTimer ==
  /\ timers > 0
  /\ StartNextQueuedTurn(queue, active, planGate, starting, pc, request, timers - 1)
  /\ UNCHANGED <<process, active, planGate, questions, cancelled, created,
                 session, goal, verdict, latest, lastStatus>>

(* startTurn gets past the credential, MCP and memory awaits and stores    *)
(* project_context_loaded, turn_prompt_snapshot and context_ledger.        *)
Announce(t) ==
  /\ pc[t] = "preflight"
  /\ pc' = [pc EXCEPT ![t] = "announced"]
  /\ latest' = t
  /\ UNCHANGED <<memory, process, viaQueue, cancelled, request, created, session,
                 goal, verdict, lastStatus>>

(* Faulty: .finally keeps the guard; it releases it but calls nobody.      *)
StartReturnsHoldingGuard(t, at, rows, act) ==
  pc' = at /\ request' = rows /\ UNCHANGED <<queue, starting, timers, viaQueue>>
StartReturnsQuietly(t, at, rows, act) ==
  /\ pc' = at /\ request' = rows /\ starting' = (starting /\ t \notin viaQueue)
  /\ UNCHANGED <<queue, timers, viaQueue>>

(* The end of startTurn.  Called by the queue, its .finally releases the   *)
(* guard and starts the next queued turn unless a loop is registered.      *)
StartReturns(t, at, rows, act) ==
  IF t \in viaQueue
  THEN StartNextQueuedTurn(queue, act, planGate, FALSE, at, rows, timers)
  ELSE /\ pc' = at /\ request' = rows
       /\ UNCHANGED <<queue, starting, timers, viaQueue>>

(* startTurn rejects; handleQueuedTurnStartFailure reports it unless the   *)
(* turn already has a terminal status.  A goal iteration that rejects is   *)
(* reported by nobody.                                                     *)
StartRejects(t) ==
  LET told == (t \in GoalTurns => t \in viaQueue) /\ verdict[t] = {}
      rows == IF told THEN Close(request, t, "failed") ELSE request
  IN  /\ pc[t] \in {"preflight", "announced"}
      /\ IF told THEN StoreVerdict(t, "error") /\ latest' = t /\ session' = "error"
         ELSE UNCHANGED <<verdict, latest, lastStatus, session>>
      /\ StartReturns(t, [pc EXCEPT ![t] = "over"], rows, active)
      /\ UNCHANGED <<process, active, planGate, questions, cancelled, created, goal>>

(* startTurn returns early: the workspace or the SDK is unavailable.       *)
SetupUnavailable(t) ==
  /\ pc[t] = "announced"
  /\ StoreVerdict(t, "error") /\ latest' = t /\ session' = "error"
  /\ StartReturns(t, [pc EXCEPT ![t] = "over"], Close(request, t, "failed"), active)
  /\ UNCHANGED <<process, active, planGate, questions, cancelled, created, goal>>

(* The executor is registered, whoever else was; the checkpoint is awaited. *)
Register(t) ==
  /\ pc[t] = "announced"
  /\ pc' = [pc EXCEPT ![t] = "registered"]
  /\ active' = t /\ session' = "running"
  /\ UNCHANGED <<process, queue, starting, planGate, questions, timers, viaQueue,
                 cancelled, request, created, goal, verdict, latest, lastStatus>>

MayExecute(t) == ~disposing /\ active = t

(* After the checkpoint: executeTurn runs if the turn still owns the       *)
(* session (and clears an earlier cancel()), else the turn is dropped.     *)
Execute(t) ==
  LET owner == active = t
      at(p) == [pc EXCEPT ![t] = p]
  IN  /\ pc[t] = "registered"
      /\ \/ /\ MayExecute(t)
            /\ StartReturns(t, at("executing"), request, active)
            /\ latest' = t /\ lastStatus' = "open"
            /\ UNCHANGED <<active, session>>
         \/ /\ ~MayExecute(t)
            /\ active' = IF owner THEN None ELSE active
            /\ session' = IF owner THEN "idle" ELSE session
            /\ StartReturns(t, at("over"), request, active')
            /\ UNCHANGED <<latest, lastStatus>>
      /\ cancelled' = cancelled \ {t}
      /\ UNCHANGED <<process, planGate, questions, created, goal, verdict>>

-----------------------------------------------------------------------------
(* Executing: the executor's events, its end, and what follows it *)

(* The executor stores an event, even after cancel(); open says whether it *)
(* is a non-terminal agent_status.                                         *)
Emit(t) ==
  /\ pc[t] = "executing"
  /\ latest' = t
  /\ lastStatus' \in {lastStatus, "open"}
  /\ UNCHANGED <<memory, process, threads, request, created, session, goal, verdict>>

(* plan_proposed closes the queue until the user has decided.              *)
ProposePlan(t) ==
  /\ pc[t] = "executing" /\ t \notin cancelled
  /\ planGate' = t /\ latest' = t
  /\ UNCHANGED <<process, threads, queue, active, starting, questions, timers,
                 request, created, session, goal, verdict, lastStatus>>

(* questionCallback: enter the gate, store waiting_user.                   *)
AskQuestion(t) ==
  /\ pc[t] = "executing" /\ t \notin cancelled
  /\ questions[t] < MaxQuestions
  /\ questions' = [questions EXCEPT ![t] = @ + 1]
  /\ latest' = t /\ lastStatus' = "open"
  /\ UNCHANGED <<process, threads, queue, active, starting, planGate, timers,
                 request, created, session, goal, verdict>>

(* The question is answered or closed, maybe after the turn has ended; the *)
(* last release schedules the queue.                                       *)
AnswerQuestion(t) ==
  /\ questions[t] > 0 /\ timers < MaxTimers
  /\ questions' = [questions EXCEPT ![t] = @ - 1]
  /\ latest' = t /\ lastStatus' = "open"
  /\ timers' = IF \E u \in Turns : questions'[u] > 0 THEN timers ELSE timers + 1
  /\ UNCHANGED <<process, threads, queue, active, starting, planGate,
                 request, created, session, goal, verdict>>

(* startGoalLoop with the executor act, the places at and the latest event *)
(* last: nothing while a loop is registered, else the budget stops the     *)
(* goal or an iteration starts, and a goal event is stored under an id of  *)
(* no turn.  It looks at activeLoops only, not at startingSessions.        *)
StartGoalLoop(act, at, last) ==
  \/ act # None /\ goal' = "active" /\ pc' = at /\ latest' = last
  \/ act = None /\ goal' = "stopped" /\ pc' = at /\ latest' = None
  \/ /\ act = None /\ goal' = "active" /\ latest' = None
     /\ \E g \in GoalTurns : /\ at[g] = "new"
                             /\ pc' = [at EXCEPT ![g] = "preflight"]

(* The .finally of an executor that still owned the session, and           *)
(* continueGoalOrQueue: the session is free again.                         *)
ContinueGoalOrQueue(at, reqs, last) ==
  /\ active' = None
  /\ \/ /\ disposing
        /\ pc' = at /\ request' = reqs /\ latest' = last
        /\ UNCHANGED <<queue, starting, timers, viaQueue, goal>>
     \/ /\ ~disposing /\ goal = "active"
        /\ StartGoalLoop(None, at, last) /\ request' = reqs
        /\ UNCHANGED <<queue, starting, timers, viaQueue>>
     \/ /\ ~disposing /\ goal # "active"
        /\ StartNextQueuedTurn(queue, None, planGate, starting, at, reqs, timers)
        /\ latest' = last /\ UNCHANGED goal

(* Faulty: the owner's own end is taken for a stale one. *)
EndUnownedUnchecked(t) ==
  /\ pc' = [pc EXCEPT ![t] = "over"] /\ cancelled' = cancelled \ {t}
  /\ UNCHANGED <<memory, process, viaQueue, database>>

(* The turn ends without owning the session: its held terminal status is   *)
(* dropped.                                                                *)
EndUnowned(t) ==
  /\ active # t
  /\ pc' = [pc EXCEPT ![t] = "over"]
  /\ cancelled' = cancelled \ {t}
  /\ UNCHANGED <<memory, process, viaQueue, database>>

(* The turn ends with the held terminal status v.                          *)
EndOwned(t, v) ==
  /\ active = t
  /\ StoreVerdict(t, v)
  /\ session' = IF v = "error" THEN "error" ELSE "idle"
  /\ ContinueGoalOrQueue([pc EXCEPT ![t] = "over"], Close(request, t, RowOf(v)), t)
  /\ cancelled' = cancelled \ {t}
  /\ UNCHANGED <<process, planGate, questions, created>>

(* It ends without one: executeTurn rejected before any status ("error"),  *)
(* or returned at once because it had been cancelled ("idle").  No event   *)
(* is stored and the row stays "running".                                  *)
EndSilent(t) ==
  /\ active = t
  /\ session' \in {"idle", "error"}
  /\ ContinueGoalOrQueue([pc EXCEPT ![t] = "over"], request, latest)
  /\ cancelled' = cancelled \ {t}
  /\ UNCHANGED <<process, planGate, questions, created, verdict, lastStatus>>

Settle(t) ==
  /\ pc[t] = "executing"
  /\ \/ EndUnowned(t)
     \/ EndOwned(t, "error")
     \/ t \in cancelled /\ EndOwned(t, "cancelled")
     \/ EndSilent(t)

(* The executor fulfils with "completed": a goal block in the answer moves *)
(* the goal on, then the workspace diff is awaited.                        *)
SettleCompleted(t) ==
  /\ pc[t] = "executing"
  /\ pc' = [pc EXCEPT ![t] = "finishing"]
  /\ \/ UNCHANGED <<goal, latest>>
     \/ goal = "active" /\ goal' \in {"active", "none", "paused"} /\ latest' = None
     \/ goal = "pending" /\ goal' = "pending" /\ latest' = None
  /\ UNCHANGED <<memory, process, viaQueue, cancelled, request, created, session,
                 verdict, lastStatus>>

Finish(t) ==
  /\ pc[t] = "finishing"
  /\ EndUnowned(t) \/ EndOwned(t, "completed")

-----------------------------------------------------------------------------
(* The user's hand on the queue and on the running turn *)

Position(t) == CHOOSE i \in DOMAIN queue : queue[i] = t

CancelQueuedTurn(t) ==
  /\ Queued(t)
  /\ queue' = RemoveIndex(queue, Position(t))
  /\ request' = Close(request, t, "cancelled")
  /\ pc' = [pc EXCEPT ![t] = "over"]
  /\ UNCHANGED <<process, active, starting, planGate, questions, timers, viaQueue,
                 cancelled, created, session, goal, verdict, latest, lastStatus>>

(* sendQueuedTurnNow: the turn goes to the front, the plan gate opens, and *)
(* the queue is scheduled or, past an interrupted executor, called.        *)
SendQueuedTurnNow(t) ==
  LET q == <<t>> \o RemoveIndex(queue, Position(t))
  IN  /\ Queued(t)
      /\ planGate' = None
      /\ promoted' = promoted \cup {t}
      /\ \/ /\ active = None /\ timers < MaxTimers
            /\ queue' = q /\ timers' = timers + 1
            /\ KeepActive
            /\ UNCHANGED <<starting, pc, viaQueue, request>>
         \/ /\ TakeOver
            /\ StartNextQueuedTurn(q, None, None, starting, pc, request, timers)
      /\ UNCHANGED <<disposing, restarts, questions, created, goal, verdict,
                     latest, lastStatus>>

(* cancelTurn: the "cancelled" status is stored for the turn of the latest *)
(* stored event.                                                           *)
CancelTurn ==
  /\ planGate' = None
  /\ TakeOver
  /\ StoreVerdict(latest, "cancelled")
  /\ StartNextQueuedTurn(queue, None, None, starting, pc,
                         Close(request, latest, "cancelled"), timers)
  /\ UNCHANGED <<process, questions, created, goal, latest>>

(* cancelTurn with no registered executor opens the plan gate only.        *)
CancelWhileIdle ==
  /\ active = None
  /\ planGate # None /\ planGate' = None
  /\ UNCHANGED <<process, threads, database, queue, active, starting, questions, timers>>

(* rejectPlan stores plan_rejected for the plan's turn; a change of        *)
(* permission mode stores nothing.  Both open the gate and call the queue. *)
DecidePlan(last) ==
  /\ planGate # None /\ planGate' = None
  /\ latest' = last
  /\ StartNextQueuedTurn(queue, active, None, starting, pc, request, timers)
  /\ UNCHANGED <<process, active, questions, cancelled, created, session, goal,
                 verdict, lastStatus>>

RejectPlan           == DecidePlan(planGate)
UpdatePermissionMode == DecidePlan(latest)

-----------------------------------------------------------------------------
(* Goals *)

GoalUnchanged == UNCHANGED <<process, active, queue, starting, planGate, questions,
                             timers, viaQueue, cancelled, request, created, session,
                             verdict, lastStatus>>

(* setGoal with success criteria, confirmGoalContract of a drafted         *)
(* contract, controlGoal("resume").                                        *)
ActivateGoal ==
  /\ GoalTurns # {}
  /\ StartGoalLoop(active, pc, None)
  /\ GoalUnchanged

(* setGoal without criteria drafts a contract in a turn of its own, which  *)
(* startTurn puts in the queue behind a registered executor.  A contract   *)
(* that waits is confirmed, rejected or cleared before the next setGoal.   *)
DraftGoal(g) ==
  /\ goal # "pending" /\ goal' = "pending" /\ latest' = None
  /\ pc[g] = "new"
  /\ IF active = None
     THEN pc' = [pc EXCEPT ![g] = "preflight"] /\ UNCHANGED <<queue, created>>
     ELSE /\ pc' = [pc EXCEPT ![g] = "queued"]
          /\ Enqueue(g) /\ Stamp(g)
  /\ UNCHANGED <<process, active, starting, planGate, questions, timers, viaQueue,
                 cancelled, request, session, verdict, lastStatus>>

(* controlGoal("pause") and controlGoal("complete").                       *)
SuspendGoal ==
  /\ goal # "none" /\ goal' \in {"paused", "none"} /\ latest' = None
  /\ UNCHANGED pc /\ GoalUnchanged

(* controlGoal("clear") and rejectGoalContract cancel the executor but     *)
(* leave it registered.                                                    *)
ClearGoal ==
  /\ goal # "none" /\ goal' = "none" /\ latest' = None
  /\ cancelled' = cancelled \cup ({active} \ {None})
  /\ UNCHANGED <<memory, process, pc, viaQueue, request, created, session, verdict,
                 lastStatus>>

-----------------------------------------------------------------------------
(* Shutdown and the next launch *)

Dispose ==
  /\ ~disposing /\ disposing' = TRUE
  /\ cancelled' = cancelled \cup {t \in Turns : pc[t] \in Running \/ active = t}
  /\ active' = None /\ starting' = FALSE /\ queue' = <<>>
  /\ planGate' = None /\ questions' = [t \in Turns |-> 0]
  /\ pc' = [t \in Turns |-> IF pc[t] = "queued" THEN "over" ELSE pc[t]]
  /\ UNCHANGED <<restarts, promoted, timers, viaQueue, database>>

(* recoverInterruptedSessions: a session left "running" becomes idle, and  *)
(* the turn of its latest event is told so if its status is still open.    *)
RecoverSession ==
  /\ session' = IF session = "running" THEN "idle" ELSE session
  /\ IF session = "running" /\ lastStatus # "terminal"
     THEN StoreVerdict(latest, "cancelled") ELSE UNCHANGED <<verdict, lastStatus>>

(* Faulty: the condition on the status is missing. *)
RecoverAnyRow(status) == IF status \in {"none", "accepted"} THEN status ELSE "failed"

RecoverRow(status) == IF status = "running" THEN "failed" ELSE status

(* recoverAcceptedTurnRequests: running rows fail, accepted rows return to *)
(* the queue in the order of created_at.                                   *)
RecoverRequests ==
  LET accepted == {t \in Turns : request[t] = "accepted"}
  IN  /\ request' = [t \in Turns |-> RecoverRow(request[t])]
      /\ \E q \in [1..Cardinality(accepted) -> accepted] :
           /\ \A i, j \in DOMAIN q : i < j => created[q[i]] < created[q[j]]
           /\ queue' = q
      /\ pc' = [t \in Turns |-> CASE t \in accepted -> "queued"
                                  [] pc[t] = "new"  -> "new"
                                  [] OTHER          -> "over"]
      /\ timers' = IF accepted = {} THEN 0 ELSE 1

(* The process exits at any moment and is launched again.                  *)
Restart ==
  /\ restarts < MaxRestarts /\ restarts' = restarts + 1
  /\ disposing' = FALSE /\ promoted' = {}
  /\ active' = None /\ starting' = FALSE /\ planGate' = None
  /\ questions' = [t \in Turns |-> 0]
  /\ viaQueue' = {} /\ cancelled' = {}
  /\ RecoverSession /\ RecoverRequests
  /\ UNCHANGED <<created, goal, latest>>

-----------------------------------------------------------------------------
Preflight(t) == Announce(t) \/ StartRejects(t) \/ SetupUnavailable(t)
                  \/ Register(t) \/ Execute(t)

Conclude(t) == Settle(t) \/ SettleCompleted(t) \/ Finish(t)

Submit == \E t \in Turns : SubmitBehind(t) \/ SubmitAndSchedule(t) \/ SendDirect(t)

Run == \E t \in Turns : \/ Preflight(t) \/ Conclude(t)
                        \/ Emit(t) \/ ProposePlan(t) \/ AskQuestion(t)

Control == \/ \E t \in Turns : AnswerQuestion(t) \/ CancelQueuedTurn(t) \/ SendQueuedTurnNow(t)
           \/ CancelTurn \/ RejectPlan \/ UpdatePermissionMode

Pursue == ActivateGoal \/ SuspendGoal \/ ClearGoal \/ \E g \in GoalTurns : DraftGoal(g)

Steps == Submit \/ FireTimer \/ Run \/ Control \/ Pursue \/ Dispose \/ Restart

Next == Steps \/ CancelWhileIdle

Spec == Init /\ [][Next]_vars

(* Timers fire and the code of a turn goes on (its awaits are credential,  *)
(* MCP, memory and file operations, and an executor that ends); the user   *)
(* answers a question and decides a plan.  Nobody is obliged to submit, to *)
(* cancel or to restart.  The answer is strongly fair only because the     *)
(* bound MaxTimers, which is not the code's, can disable it for a while.   *)
Fairness ==
  /\ WF_vars(FireTimer)
  /\ WF_vars(RejectPlan \/ UpdatePermissionMode)
  /\ \A t \in Turns : /\ WF_vars(Preflight(t)) /\ WF_vars(Conclude(t))
                       /\ SF_vars(AnswerQuestion(t))

(* Fairness, and a user who does not press cancel in an idle session.      *)
PatientSpec == Init /\ [][Steps]_vars /\ Fairness

-----------------------------------------------------------------------------
(* Safety *)

(* Every turn acknowledged to the caller and not yet begun or withdrawn is *)
(* in the queue, once, across restarts; and nothing whose row has moved on *)
(* is still queued (so markRunning of a queued turn cannot fail).          *)
NoLostTurn ==
  ~disposing =>
    /\ \A t \in DurableTurns : Queued(t) <=> request[t] = "accepted"
    /\ \A i, j \in DOMAIN queue : queue[i] = queue[j] => i = j
    /\ \A t \in Turns : Queued(t) <=> pc[t] = "queued"

(* startingSessions is held exactly while one queued turn is between       *)
(* startNextQueuedTurn and the .finally of its startTurn: no early return, *)
(* rejection or interruption leaks the guard or releases another's.        *)
StartupExclusive ==
  ~disposing =>
    starting <=> Cardinality({t \in viaQueue : pc[t] \in Startup}) = 1

(* The registered executor belongs to code that is still going to release  *)
(* it: no path leaves the session busy for ever.                           *)
OwnerIsLive == active # None => pc[active] \in {"registered", "executing", "finishing"}

(* sessions.status says "running" only while an executor is registered,    *)
(* whatever the order of verdicts, interruptions and .finally callbacks.   *)
RunningHasOwner == ~disposing => (session = "running" => active # None)

(* At most one executor that has not been cancelled runs in the session.   *)
SingleExecutor ==
  \A t \in Turns : pc[t] \in Running /\ t \notin cancelled => active = t

(* Turns wait in the order of their submission, also after a restart,      *)
(* except those the user moved to the front.                               *)
QueueOrder ==
  \A i, j \in DOMAIN queue :
    i < j => created[queue[i]] < created[queue[j]] \/ queue[i] \in promoted

(* The code of t is on its way to an executor, or to a .finally that calls *)
(* the queue.                                                              *)
Starting(t) == pc[t] \in {"preflight", "announced"}
               \/ (pc[t] = "registered" /\ t \in viaQueue)

(* Something is going to look at a queue that is not empty: a timer, a     *)
(* turn that starts, the .finally of the executor, or a decision of the    *)
(* user.                                                                   *)
Attended == disposing \/ queue = <<>> \/ timers > 0 \/ active # None
            \/ planGate # None \/ Blocked \/ \E t \in Turns : Starting(t)

(* A preflight fails that startNextQueuedTurn did not start.               *)
FailsUncalled == \E t \in Turns \ viaQueue : StartRejects(t) \/ SetupUnavailable(t)

(* The goal stops between two turns, or a turn is queued behind a goal     *)
(* (whose loop may be gone).                                               *)
LeftToTheGoal ==
  goal = "active" /\ (goal' = "stopped" \/ \E t \in Turns : SubmitBehind(t))

(* Once attended, a queue stays attended whatever happens.  These are the  *)
(* only ways to forget it: cancelTurn with no executor, which opens the    *)
(* plan gate and calls nobody; the failed preflight of a direct turn or of *)
(* a goal turn; the goal.                                                  *)
NoLostWakeup ==
  [][Attended => Attended' \/ CancelWhileIdle \/ FailsUncalled \/ LeftToTheGoal]_vars

(* A final row is never rewritten, by a late event or by recovery.         *)
FinalRowsStay ==
  [][\A t \in Turns : request[t] \in {"completed", "failed", "cancelled"}
                        => request'[t] = request[t]]_vars

(* A turn that was accepted is begun or withdrawn, unless the application  *)
(* shuts down first.                                                       *)
AcceptedIsServed ==
  \A t \in DurableTurns : request[t] = "accepted" ~> (request[t] # "accepted" \/ disposing)
=============================================================================
