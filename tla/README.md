# Spark-Canvas: verification of the desktop application's core

TLA+ modules of the parts of Spark-Canvas that run concurrently and survive
failures, the TLC configurations that check them, and the theorems TLAPS proves
about them. All paths are relative to the repository; `session.service.ts` and
`team-dispatch.service.ts` stand for the files of that name in
`packages/agent-runtime/src/services/`, as does `workflow-executor.ts`, and `canvas.api.ts`
for `apps/desktop/src/renderer/design/views/canvas/canvas.api.ts`.

## 1. The system

Spark-Canvas is an Electron application: a desktop client for coding agents
(Claude and Codex SDKs, local CLIs) with an infinite canvas for media work. The
main process holds every service and talks to the renderer over IPC; SQLite
(`packages/storage`, synchronous `better-sqlite3`) holds everything that outlives
the process. JavaScript has one thread: code between two awaits is atomic, and
what makes the system hard is everything that may happen *at* an await, in a
timer, in a promise callback, in the executor's stream of events, and at the exit
of the process.

### Inventory

| component | state | operations | hard part | correct when |
|---|---|---|---|---|
| turn scheduler (`session.service.ts`) | pendingTurns, activeLoops, startingSessions, pendingPlanApprovals, disposing | submit, send, start, end, cancel, send now, plan decisions, dispose, recover | preflights that await minutes, executors that end after cancel, exit at any point | no accepted turn lost or run twice, one executor, nobody forgets to call the queue |
| question gate (`session-question-gate.ts`) | reference count per session | enter, release, clear | an answer after the turn has ended | blocked exactly while a question is open |
| durable turn requests (`turn-request.repository.ts`) | `turn_requests` rows | accept, markRunning, complete, fail, cancel, list | late terminal events, recovery | first verdict stays |
| goal loop (`session.service.ts`, `goal.repository.ts`) | `session_goals`, progress, budget | set, confirm, pause, resume, clear, iterate | competes with the queue for the session | one loop, queue served when it stops |
| team dispatch (`team-dispatch.service.ts`) | counters, chain and controllers per turn, `team_dispatches` rows | run, recordPeerMessage, forward, cancelAll, shutdown, clearTurn, reclaim | members that call members, cancellation between calls, timers | chain serial, budgets kept, nothing left behind |
| team discussion rounds (`session.service.ts`, `team-discussion.repository.ts`) | rounds, messages, conclusion | next round, conclude, thread read | flags in closures of several tool servers | nothing after the conclusion |
| workflow executor (`workflow-executor.ts`, `workflow-run.repository.ts`) | pending, running and completed nodes and the state of a call; the `workflow_runs` row | batches, waves, retries, loops, giving up, snapshots, continuing a row | partial failure of a wave, conditions over a changing state, a graph edited between two calls | nothing completed is lost, nothing runs before its upstream, only cycles block, every call ends |
| permissions (`permission.service.ts`) | profile rules, pending prompts, session and remembered decisions | request, answer, time out, cancel | a second prompt, a late answer, cancel between two prompts | every request is answered once; a denial grants nothing; cancel forgets the session's decisions |
| user questions (`main/ipc/user-question-store.ts`) | pending promises, their signals | ask, detach, attach again, answer, cancel | the SDK's stream ends while the question is open; the answer becomes a turn | each closed once, its answer submitted once |
| event log (`session-event-sequencer.ts`) | next seq per session | assign, clean up, recover | seq after cleanup and restart | strictly increasing |
| media tasks (`media/media-task-runtime.service.ts`, `canvas.api.ts`, `main/ipc/index.ts`) | `media_generation_tasks` rows, owners, canvas tasks and artifacts | create, accept, apply, cancel, delete, run again, reopen | the window and the main process each await the other; answers on several ways | an ended row and task stay as they are, owners are released, every run ends |
| memory, checkpoints, summarizer, event mapping, hooks, skills | files, git, rows | see PROJECT.json | mostly I/O | — |
| authentication (`AuthService.ts`, `EduServerClient.ts`, `TokenStore.ts`) | tokens in memory and on disk, shared refresh promise, clean-up promise | request, refresh, login, logout, expiry, start | refresh racing login, logout and the clean-up | a refresh token is used once, nobody waits for ever |
| remote connection, updates, shutdown | queues, download state | see PROJECT.json | ordering at quit | — |
| canvas sessions, text tasks, project files, rest of the document | maps of owners and locks, history | create, run, cancel, save, undo | concurrent creation, late answers | one session per canvas, owner only |

`PROJECT.json` lists every component with its sources, also those that are not
modelled and why (HTTP adapters, child processes, views, schemas). Its `hazards`
name what is hard to test, at its line, with the properties that watch it.

### How the modelled components interact

The renderer calls `submitTurn` (durable: a row, then the queue) or, from remote
commands, `sendTurn` (past the queue). A timer calls `startNextQueuedTurn`; the
turn preflights, registers an executor in `activeLoops`, awaits a checkpoint and
executes. The executor emits events which `emitAndPersist` stores and which move
`sessions.status`, `turn_requests.status` and the plan gate; its tools open
questions and call `TeamDispatchService.run`. At its end `continueGoalOrQueue`
starts the next goal iteration or the next queued turn. `cancelTurn`,
`sendQueuedTurnNow` and `interruptActive` cancel the executor, forget it at once
and call `TeamDispatchService.cancelAll`; the executor's own end comes later.

Within a turn the host's tool `workflow_run` executes the session's graph: its agents
are dispatched through `TeamDispatchService` (each ends by its timeout), its approvals
ask through the question gate, and each step mirrors the call in a row that the next
call continues. The canvas window keeps its own tasks; `create-media` hands one to
`MediaTaskRuntimeService`, and its answers come back as the reply and as events. Every
call to the account server goes through `EduServerClient.request`, whose 401 starts
the refresh that `AuthService`'s login, logout and clean-up race.

## 2. Plan

Order, most important behaviour first. Done: 1-7.

1. **SessionTurns** (scheduler, gate, requests, goals as far as they compete) with
   the abstract **TurnLane**; proofs of its safety properties.
2. **SessionLane**: SessionTurns implements TurnLane; checked and proved.
3. **TeamDispatch**: the dispatches of one turn.
4. **PermissionApprovals** and **UserQuestions**, composed in **UserPrompts**: what
   the main process awaits the user with, cancelled together.
5. **WorkflowRuns**: the graph, the calls that walk it, the row they continue.
6. **AuthSession**: requests, refresh, login, logout, expiry, the token store.
7. **CanvasTasks**: a media operation across window, main process and provider.
8. TeamRounds (rounds, message limits, conclusion), GoalStore (progress, budgets,
   rows of replaced goals, an active goal after a restart).
9. EventSequencer, CanvasSessions, CanvasTextTask, ProjectDirectoryLock and
   FileGrants, CanvasHistory, UpdateFlow, RemoteQueue, McpClient.

Stated and proved so far: TurnLane (the scheduler), DispatchOrder (the serial
dispatches of a turn), OneAnswer (the questions). Worth stating next: what a window
promises of a media operation, the account as one session behind the token store, and
a mutual exclusion per key (directory locks, session creation). Every safety property
of the runs is proved. Worth proving next: the safety core of `AcceptedIsServed` with
direct turns, the refinements just named, and the invariants of the modules of 8 and 9.

## 3. Modules

| module | what it is |
|---|---|
| `SessionTurns` | the scheduler of one session: state, one action per handler or per stretch between two awaits, fairness, properties |
| `TurnLane` | abstract: accepted turns hold one lane alone, once each |
| `SessionLane` | the refinement mapping, `LaneSpec` |
| `MCSessionTurns` | instance for TLC, symmetry of turn ids |
| `SessionTurns_proofs` | `TypeCorrect` |
| `SessionLedger_proofs` | `NothingLost`, by the inductive invariant `Ledger`; `FinalRows` |
| `SessionOwner_proofs` | who holds the session, the order of the queue, its wake-ups, and that SessionTurns implements TurnLane |
| `TeamDispatch` | run(), peer calls, forwarding, the serial chain, timers, cancellation, shutdown, restart |
| `DispatchOrder` | abstract: serial dispatches are served one at a time in the order they came, each outcome is for good |
| `TeamOrder` | the refinement mapping, `OrderSpec` |
| `TeamDispatch_proofs` | all its safety properties and the refinement, by the inductive invariants `Accounts`, and `Chain`, `Line`, `Ages`, `Signals` and `Counted` above it |
| `MCTeamDispatch` | instance for TLC, symmetry of dispatches and members |
| `PermissionApprovals` | approval requests: rules, session and stored decisions, one or two prompts, timers |
| `UserQuestions` | the store of open questions; answers that become a turn |
| `UserPrompts` | both, cancelled together and lost together; fairness; `QuestionSpec` |
| `OneAnswer` | abstract: a question is closed once and its answer submitted once |
| `MCUserPrompts` | instance for TLC |
| `UserPrompts_proofs` | all its safety properties, by the inductive invariant `Books` |
| `WorkflowRuns` | the graph operators, one call of `workflow_run` after the other, the row |
| `MCWorkflowRuns` | four graphs, each with a configuration of its nodes |
| `WorkflowRuns_proofs` | all its safety properties, by the inductive invariant `Accounts` |
| `AuthSession` | requests, refresh, login, logout, clean-up, token store, restart |
| `AuthSession_proofs` | all its safety properties, by the inductive invariant `Ledger` |
| `CanvasTasks` | window, main process, runtime and rows of a media operation |
| `CanvasTasks_proofs` | all its safety properties, by the inductive invariant `Accounts` |

A definition whose comment starts with "Faulty:" is the definition after it with a
plausible mistake; no action uses it. PROJECT.json pairs each with the property
that notices it.

### SessionTurns and the code

Variables carry the value the maps of `SessionService` hold for one session: no
handler of these reads another session's entry. `pc` is the place of a turn's code:

    new -> queued -> preflight -> announced -> registered -> executing -> finishing -> over

The borders are the awaits: `preflight` covers credential, memory and MCP awaits of
`startTurn` up to the first stored event, `announced` the rest up to
`activeLoops.set`, `registered` the checkpoint, `executing` the run of
`executeTurn`, `finishing` the workspace diff after a completed one.

| action | code |
|---|---|
| `SubmitBehind`, `SubmitAndSchedule` | `submitTurn` through `dispatchTurn`, behind a goal/question/running turn, or scheduling a timer (`interruptActive` takes the executor over) |
| `SendDirect` | `sendTurn` that starts a turn at once |
| `FireTimer` | `setTimeout(startNextQueuedTurn)` |
| `Announce`, `StartRejects`, `SetupUnavailable`, `Register`, `Execute` | `startTurn` and `tryStartSDKTurn` up to `executeTurn`; each end runs the `.finally` of the queue (`StartReturns`) |
| `Emit`, `ProposePlan`, `AskQuestion` | events of the executor; also after cancel() where the code lets them through |
| `Settle`, `SettleCompleted`, `Finish` | `.then`, `.catch`, `.finally` of `executeTurn`; owner and stale executor |
| `AnswerQuestion` | release of the gate, which schedules the queue |
| `CancelQueuedTurn`, `SendQueuedTurnNow`, `CancelTurn`, `CancelWhileIdle`, `RejectPlan`, `UpdatePermissionMode` | the user's operations |
| `ActivateGoal`, `DraftGoal`, `SuspendGoal`, `ClearGoal` | goal operations, as far as they change what the scheduler sees |
| `Dispose`, `Restart` | `dispose()`; the exit of the process at any moment, then `recoverInterruptedSessions` and `recoverAcceptedTurnRequests` |

Abstractions: one session; a turn is an id; an event is what it does to the latest event, the
latest status and the verdicts; timestamps are ranks (two submissions never share a
millisecond); the checkpoint await is always taken; a goal is a status (a draft that waits for
its contract is settled before the next goal is set). `created`, `promoted`, `verdict` are
history or rows that properties read.

### TeamDispatch and the code

One turn; a dispatch is one call of `run()`. Phases: `refused` (budget, depth,
shutdown), `queued` in the serial chain, `executing`, `forwarding` (row final, the
reply's mentions are being answered), `early` (the return before the try block),
`settled`, `lost` (the process exited). `call` is what run() was given; `ahead` and `stopped`
are history. Tools:
`HostDispatch` (agent_dispatch and, item by item, agent_dispatch_batch),
`NestedDispatch` (the same for a member), `HostCall` and `PeerCall`
(agent_message). `StartQueued`, `Timeout`, `MemberStops`, `MemberReplies`,
`SkipMention`, `Forward`, `ForwardingEnds` are `runMember` and
`maybeAutoDispatchMentions`; `CancelAll`, `ShutDown`, `ClearTurn`, `Restart` the
rest. `Settle` is the outcome with the `finally` blocks.

Promise callbacks run before the next tool call, timer or cancellation: `Drained`
guards those. `Restart` needs no such guard. A listener added to a signal that is
already aborted never fires (`Following`). The limits on messages of a discussion
refuse a call before it changes anything, so a refused call is no step; they come
with TeamRounds. Whether a team's timeout leaves a
peer call its 30 s is one constant, `ShortTimeout`; a member may call a peer either way,
since its own task may have brought a longer timeout, and a deadline that is long at
first and short later only refuses calls.

### UserPrompts and the code

`PermissionApprovals` is `PermissionService`: `RequestApproval` runs to the first await
(`Ruling` is the order of its checks), `Answer` is `resolveApproval` with the rest of
`requestApproval` up to its end or the second prompt, `Timeout` the timer of a
prompt, `CancelPendingApprovals` and `ChangeRules` (`updateRule`,
`setActiveProfileId`) the rest. The three entries of a prompt (pending map, session
map, timer) are made and deleted in the same stretch of code and are one `stage`. A
request remembers the rule it read (`twice`); `call`, `twice` and `first` are local
variables of `requestApproval` and vanish with it. The application always forces a
prompt (`forcePrompt`); the instance also has a request that does not.

`UserQuestions` is `PendingUserQuestionStore`. `AttachSignal` and `SignalAborts` attach
and detach the SDK's control request; `AnswerDetached` awaits `onDetachedAnswer`, which
ends in `Delivered` (submitTurn accepted a turn, then `finish`) or `DeliveryFails`. The
bound `MaxRecovered` is one above what the code reaches.

Two things the code does that no property forbids: a detached question that is
attached again while its answer is being submitted gives the answer to the agent as
well as to the new turn; and an answer that is being submitted when the session is
cancelled still submits its turn, which then starts in the cancelled session.

### WorkflowRuns and the code

A call of the tool `workflow_run` is `Begin` (`findLatestResumable`; the row's state and
those of its completed nodes that are still in the graph, or a new row), then
`executeWorkflowAgentPlan`. `pc` is where it stands: at the `head` of its while loop, in
a `batch` of ready nodes that are not agents and run one after the other, in a `wave`
of agents under `Promise.all`. `StartBatch`, `StartWave`, `Prune`, `Block`, `Complete` are
the branches at the head; `StartAtomic`, `AtomicCompletes`, `AtomicRetries`, `AtomicFails`
and `LoopAgain` are `executeWorkflowAtomicNode` and what the loop does with its answer;
`WorkerCompletes`, `WorkerRetries`, `WorkerFails` are `executeWorkflowAgentNode`; `EndWave`
is the code after `Promise.all`. `Abandon` is the exit of the process, or an exception,
at any of the awaits: the row stays as the last snapshot left it.

`OrderNodes` is the order of Kahn's algorithm, with the declared order for a graph
with a cycle, written as a recursive function. `Inactive` is stated as the least set
closed under the propagation that `collectWorkflowInactiveNodeIds` iterates. `Merges`
determines the state after a wave: the last node in that order to write a key wins.
The configuration of a node (`Config`: its kind, its outputKey, a retry count and an
iteration limit that may be any integers) is part of the graph, so each call may find
it edited; `RetryCount` and `MaxIterations` are the clamps. `wrote` is history, the outputKey
a node had when it completed: `OutputsSurvive` says that the output is still under that
key, while the code looks under the one of today (section 4). The two snapshots at the end of
a failed wave are one step.

A node of a batch runs even if an earlier member of the batch has made its condition
false, because the list of ready nodes is computed before: the model does the same,
and `UpstreamFirst` claims only what stays true.

### AuthSession and the code

A session is a user and the serial number of its pair of tokens. `Send`, `Answered`,
`Unauthorized` are `EduServerClient.request`; `Unauthorized` contains the synchronous part of
`tryRefresh`, `RefreshRefused`, `RefreshGranted`, `RefreshStored` the rest of it up to the
requests that awaited it, which go on in the same drain of promise callbacks. A request
fetches three times at most. `lock` is `refreshInflight`: free, held, or settled, which is
what a promise that nobody resets is. `ForceRefresh` is the refresh of the settings page,
which no request awaits: if it is refused the session stays. `LoginGranted`, `LoginProceeds`,
`LoginResumes`, `LoginHooksDone`, `LoginStored` are `login` and its kin (register, SMS,
WeChat) with `afterLoginSuccess`, which looks for a clean-up once and does not look again
after it has waited for it; `LogoutBegins` to `LogoutStored` are `logout`, whose own POST is
the request `LogoutCall`; `StartCleanup`, `CleanupHooksDone`, `CleanupStored` are
`handleSessionExpired`. `Store` sets the cache at once and begins the write; `Written` is its
end, which may fail unnoticed. `exchanged` is history.

### CanvasTasks and the code

One operation node; each run of it is a task. In the window: `Run` (`createMediaTask`,
with the task it drops), `Mark`, `Ignore`, `ApplyEnd`, `ApplySuccess` and `Materialize`
(`markMediaTaskSubmitted` and `applyMediaTaskResult`, which awaits the size of its images
between the status and the artifacts), `CancelTask`/`CancelDone` around the await of
cancel-media and `CancelUnknown` without one, `Delete`. In the main process: `Submit` and
`Refuse` (create-media), `CancelMedia`, the owner registry. In the runtime:
`ProviderAccepts` and `ProviderEnds` (`execute`). `answers` holds the replies and events on
their way, in no order, because the main process makes each after an await of its
own; `Drop` is one whose window is gone. `Reopen` closes the window and opens another,
`Restart` exits the application.

## 4. Runs

| run | instance | shows |
|---|---|---|
| `queue` | 3 durable turns, 1 question, 2 timers, 1 exit | no turn lost, one executor, order kept, final rows stay, SessionTurns implements TurnLane |
| `live` | 2 durable turns, 1 exit, `PatientSpec` | every accepted turn is begun or withdrawn |
| `direct` | 2 durable turns and a direct one | what survives sendTurn: a running session has an owner |
| `goal` | 1 durable turn, 2 goal turns | what survives a goal loop: startup exclusive, the owner is live, the queue is forgotten in the named ways only |
| `team` | 3 dispatches, 3 members, budgets 2 and 2, no nesting | TeamDispatch implements DispatchOrder, no ring of waits, settled is clean, callees stop with their caller, budgets, cancellation |
| `nested_live` | 2 dispatches, 2 members, nesting, team timeout below 30 s | every accepted dispatch ends |
| `prompts` | 2 approval requests (one forced) and a question, 2 sessions, `FairSpec` | no request hangs, half an approval allows nothing, ask-twice asks twice, the question store implements OneAnswer |
| `workflow` | 5 nodes, 4 graphs, 2 keys, 4 calls | nodes' configuration edited between calls too: progress kept with its outputs, skipped for a reason, upstream first, only cycles block, every step of a call leaves less to do, every call ends |
| `auth` | 2 accounts, 1 request and the logout, 3 sessions issued, any number of restarts | no refresh token used twice, nobody waits for what nobody will do, everything ends |
| `tasks` | 2 runs of a node, 2 windows, `FairSpec` | owners released, ended tasks and rows stay ended, the window can always still learn the end, every run ends |

Violated, each a statement of the repository that the code does not keep (quoted
in PROJECT.json `findings`):

| run | statement | what happens |
|---|---|---|
| `auth_lock` | a 401 is answered with a refresh | a 401, or a refresh from the settings, while signed out leaves `refreshInflight` on a settled null, and after the next login the first 401 ends the session without a refresh |
| `materialized` | once artifacts are there, a late cancellation must not hide them | cancelTask looks at the status before it awaits cancel-media, and writes the cancellation over a completed task |

More was met while modelling. The models contain the following; no run is spent on them.

* `sendTurn` (`session.service.ts:1601`) and the goal loop (7071) preflight without the
  guard `startingSessions`; the second registration replaces the first, which runs on
  without an owner. `SingleExecutor` is therefore claimed in `queue` only.
* `cancelTurn` without an executor (7139) deletes the plan gate and calls nobody; the
  turns kept behind the plan wait for an unrelated event. `PatientSpec` leaves it out.
* A member's own agent_dispatch (`team-dispatch.service.ts:435`) joins the chain behind the
  serial dispatch the member executes, until that one times out (`nested_live`).
* `cancelAll` (687) does not stop a dispatch that forwards its reply: it goes on to the
  next mentioned member with a controller nobody has aborted.
* `agent_message` (`session.service.ts:4905`) hands no `consultDepth` on, so the limit of
  three levels is never reached.
* `interruptActive` is documented as starting the new turn at once
  (`packages/protocol/src/ipc/index.ts:207`), but the turn is appended to the queue and
  turns that waited start first (`QueueOrder` states the order the code keeps).
* A peer call with less than 30 s left returns before the try block of run(): its row
  stays `working` until the next launch (phase `early`, taken in `nested_live`), although
  `team-dispatch.service.ts:426` says every wrap-up aborts the controller.
* The queue, which `session.service.ts:6532` says waits for the decision on a plan, starts
  after a restart: `pendingPlanApprovals` is memory only.
* A refresh that is answered after a logout, or after another account has signed in,
  stores the old account's session again (`EduServerClient.ts:264`).
* A continued run skips completed nodes by their id (`session.service.ts:5359`), and the
  output of a node is looked for under the outputKey it has now
  (`workflow-executor.ts:244`). After an edit of the outputKey of a completed node its
  successors run without that input. In `workflow` the graph `Wave` makes this edit; that
  every completed node's output is under its present outputKey is therefore no property.
* The provider's id replaces the runtime's in `task.requestId` (`canvas.api.ts:5837`), and
  cancel-media refuses it: the task is cancelled in the window only. Its row, and every
  row that was running when the application exited, stays `running`.

`queue`, `direct` and `goal` are separate because a direct or goal turn breaks
`SingleExecutor` and what rests on it; the properties kept in those runs are the ones
that hold regardless. `NoLostWakeup` holds in all three; it is checked in `goal`, where
most of its cases happen, and proved for turns of every kind. Each of the ways it names
of forgetting the queue is taken by the code: without any one of them TLC refutes it.

**Bounds.** Three turns allow one that runs, one that preflights or is interrupted
and one that waits, which every handler's case split needs; `MaxTimers` 2 gives
two pending callbacks, so that one fires after the other has changed everything;
`MaxQuestions` 1 with several turns still has the count above 1; one exit is
followed by everything else, and recovery reads only rows, which a second exit
finds in no new shape. Three dispatches allow a caller, a callee and a stranger;
budgets of 2 are exceeded by the third; two hops allow a forward of a forward. Two
requests of two sessions, one of which has a project, meet as caller and bystander of
every answer and cancellation; a question has no influence on another. The four
graphs have a choice that joins, a cycle behind a condition, a wave with a later
branch, and a batch whose members write what the others read; four calls allow a
failed run, an exit, an edit and a completion; the graphs also differ in kind, outputKey
and iteration limit of a node. With `auth` two requests meet in one
refresh, three sessions allow a login, its refresh and another account; a refresh from the settings is asked for while
the server has a session left to grant. Two tasks
allow a run and the run that replaces it; the tasks do not meet otherwise. Safety of
all modules is proved without bounds. Deadlock is not checked: a session
whose turns are all over, a turn whose dispatches have ended, a workflow whose calls
are used up, an account after its last session and a window without tasks all rest.

**Symmetry** is used in safety runs only, over ids no definition orders.

**Fairness.** SessionTurns: a timer fires, the code of a turn goes on (its awaits
are bounded operations and an executor that ends), a user eventually answers a
question and decides a plan; nobody has to submit, cancel or restart. The answer
is strongly fair only because the bound `MaxTimers`, which is not the code's, can
disable it; the code never does. `PatientSpec` leaves out cancel in an idle session, the
step that strands the queue. TeamDispatch: promise callbacks run and
timers fire; a member whose signal is aborted stops, because its executor is
cancelled; a member that is not aborted may work for ever, and no dispatch needs to
be made. That nested waits end rests on the timer alone.
UserPrompts: timers fire and submitTurn returns or rejects; no user has to answer.
WorkflowRuns: the loop goes on by itself (`Proceed`), and what a node awaits is answered
(`Answered`): dispatches by their timeout, questions by the user or by the cancellation
of the session; nobody has to begin a call, and retries and iterations are bounded by
the code. AuthSession: fetches time out after 30 s (`rawFetch`), writes and hooks return,
and what awaited them goes on; no user has to log in or out. CanvasTasks: the adapters
of the providers have deadlines, so a task ends; the main process and the window go on
with what they have begun; the provider need not accept first, and no user has to act.

## 5. Proofs

TLAPS proves, from the named assumptions on the constants only (finite disjoint
sets of turns, `None` outside, bounds in Nat):

* `SessionTurns_proofs!TypeCorrect`: `Spec => []TypeOK`, one step per action, with
  lemmas for the shared operators (`StartNextQueuedTurn`, `ContinueGoalOrQueue`, ...).
* `SessionLedger_proofs!NothingLost`: `Spec => []NoLostTurn`, for any number of
  turns and exits. `NoLostTurn` is not inductive: the terminal status that
  cancelTurn stores goes to the turn of the *latest event*, rejectPlan's to the
  plan's turn, an answer's to the asking turn. If one of those could still be
  waiting, its row would be closed while it stays in the queue. So the invariant is
  `Ledger == Books /\ Heard`: `Books` is the agreement of queue, places and rows
  (also for turns without a row and after dispose), `Heard` says that every turn
  such a write can name has begun. Lemmas state what removing an index, appending and
  recovering do to a queue without repetition. `FinalRows` (`FinalRowsStay`) needs the
  ledger once, for the row of a new submission; the rest is that each writer looks at
  the status (`Spares`).

* `SessionOwner_proofs`. `Moves` lists what a step can do to places, guard and executor;
  lemma `StepMoves` shows that every action but dispose and restart is one of these, so
  each invariant below is proved over seven cases and not over thirty actions. That a
  queued turn is never dropped for its row (the third branch of startNextQueuedTurn) is
  part of it.
  - `OwnerLives` (`OwnerIsLive`) and `RunningIsOwned` (`RunningHasOwner`) are inductive
    over the ledger. `GuardIsHeldOnce` (`StartupExclusive`) rests on `Door`: the guard is
    set exactly when someone stands between queue and executor, and a turn that has gone
    through the queue once never returns to it.
  - `InOrder` (`QueueOrder`): `Ranks` says that no rank exceeds the number of ranks given, so
    a fresh one is above all; each queue operation keeps the order, and recovery sorts.
  - `OneExecutor` (`SingleExecutor`) and `OneLane` assume that there are no direct and no
    goal turns. TLC refutes each with either: startTurn then registers over another
    executor. `Alone` says that whoever starts came through the queue while nobody else
    is registered. `OnlyRegistrationUsurps` says what is left without that assumption: a
    second executor beside the first comes from that registration alone; cancel,
    interruption, plans, questions, goals, ends of turns and recovery never bring one.
  - `NobodyForgets` (`NoLostWakeup`) holds for turns of every kind. A queue is attended when
    a timer is pending, somebody is between queue and executor, an executor is
    registered, or the user is awaited at a gate that calls it. Lemma `CallAttends`:
    startNextQueuedTurn returns early only for something that calls it again. What can
    leave it unattended is named in the property: cancel in an idle session, the failed
    preflight of a turn the queue did not start, and the goal.
  - `OneLane` (`LaneSpec`) is the refinement: SessionTurns implements TurnLane. `OneHolder` makes
    the refinement mapping's CHOOSE unique; until dispose() the rows follow the places
    (`RowsTell`), after it only closed rows change (`Spares`). `StepLane` sorts the steps into
    four kinds by what they do to rows and lane, and `MapsStep` names the step of
    TurnLane for each: nothing or End; Accept or Interrupt; Withdraw; Begin or HandOver.

* `TeamDispatch_proofs!TypeCorrect`, `SettledClean`, `FinalRows`: type correctness,
  `SettledIsClean` and `FinalRowsStay` (which no run checks by itself: an outcome is for good
  in DispatchOrder), for any dispatches, members and limits. The
  inductive invariant is `Accounts == TypeOK /\ Rows /\ Ended /\ Known`. `Rows` says
  what the row holds at each place of run(): without it nothing excludes that a
  forwarding dispatch settles with a row that is still `working`, or that a member
  stops whose row is final. `Ended` is the finally of runMember. `Known` says that a
  dispatch in progress, and the one whose signal it was given, have been called: a
  call builds its fields from its caller's, so its type rests on theirs. `RowWrites`
  lists every way a step writes a row; `FinalRows` follows from it.
* The rest of `TeamDispatch_proofs`: `NoOrphans` (`NobodyRunsForTheGone`) and `StoppedStay`
  (`CanceledNeverStarts`) by `Signals`, what is in progress has a controller or has been
  aborted; `WithinBudgets` (`BudgetsHold`) by `Counted`, the counters are never below the
  number of dispatches accepted. `SerialIsSerial` (`OneAtATime`) by `Chain`: each serial
  dispatch awaits another one, nobody awaits in a circle (every nonempty set of them
  has a member that awaits none of it), the marker is the end of the chain and its head
  is alone. It assumes ~AllowNesting: after clearTurn has taken the marker away a nested
  dispatch would begin a second chain.
* `TeamDispatch_proofs!ServedInOrder` (`OrderSpec`), with the same assumption: TeamDispatch
  implements DispatchOrder. A dispatch waits for its predecessor only; `Line` says that
  those who were in the lane before it (`ahead`, history) are its predecessor and those
  ahead of that one, so that all of them have returned when its turn comes. Each step is
  one step of DispatchOrder or none: lemmas `BeginsIsOrder`, `AdvancesIsOrder`, `EndsIsOrder`,
  `RestartIsOrder`.
* `TeamDispatch_proofs!RingFree` (`NoRing`), with nesting or without: `Ages` says that
  nobody in the chain awaits in a circle, that callers and peers form no circle either,
  and that no peer is ever in the chain (the passing that the mutant takes away), so a
  ring would have to lie within one of the two kinds of waits. The wait of a
  member for an agent_dispatch of its own is not among them: it is the one that can
  close a ring (`nested_live`).

* `WorkflowRuns_proofs`: all safety properties of WorkflowRuns, for any nodes and graphs,
  edited between calls in any way, the configuration of nodes included. The invariant is
  `Accounts == TypeOK /\ Parts /\ Due /\ Pruned /\ Outputs /\ SkippedForAReason`. `Parts`
  splits the graph into pending and completed nodes; `Due` says that what runs or waits in a
  batch had its upstream completed; `Outputs` that results are in the state before they are in
  the row, each under the outputKey its node had when it completed (`wrote`), whatever the
  node is configured to now. `Pruned` carries `SkippedForAReason` and `AcyclicNeverBlocks`:
  nodes are given up only when nothing is ready, all that are inactive at once, and then
  nothing is ready any more, so the state their conditions read is final. That a blocked graph
  has a cycle follows since each node that is neither ready nor inactive has an upstream node
  among the pending ones; the lemmas on `Inactive` use only that it is the least closed set.
  `EveryStepCounts` (`WorkRunsDown`) is the safety core of `CallEnds`: `Todo` lists what a
  call has left to do with each pending node (to bring it up, to start it, its attempts, the
  iterations of a loop, to take its answer), each step of a call makes it strictly smaller,
  and `WorkIsFinite` says that it is finite, so a call has no infinite run, on a graph with a
  cycle either. `Busy` is the invariant that this needs: a call that waits has somebody to
  wait for, and atomic nodes run one at a time. What is left of `CallEnds`, that such a step
  is possible, rests on `orderedNodes`, a recursive function, and stays with TLC.
* `AuthSession_proofs`: `SpentOnce` is not inductive. `Ledger == TypeOK /\ WaitsEnd /\ Issued
  /\ Fresh`: `Issued` bounds the serial of every session the client knows, so that a new one
  differs from all; `Fresh` says that the cache holds no exchanged session and that the
  session a login is about to save was never in the cache. `WaitsEnd` is the lock, which
  excludes a second refresh of the session in flight, and more: `NobodyIsStranded` is the
  safety core of `EverythingEnds`. Whoever awaits something awaits a thing that is under way:
  a request the refresh, logout its request, a login the clean-up, each activity its write. It
  is proved in three parts, the requests (`NextRequested`), owner by owner the token store
  (`NextWrites`), and the login (`NextWaiting`). `TypeCorrect` contains that no request is
  sent a fourth time. It is proved and in no run: a fourth send takes more sessions than an
  instance of a run can issue.
* `CanvasTasks_proofs`: `Accounts == TypeOK /\ Places /\ AskedBefore /\ OwnersTracked /\ Reports /\
  WindowLearns`; `Places` says what the row holds at each place of create-media and
  execute(), `Reports` that an answer says what the row says. `EndedStay` (`EndedStays`)
  follows from the types, the guards of markMediaTaskSubmitted and applyMediaTaskResult,
  and the WHERE of the row's updates. `EveryTaskIsTold` (`WindowLearns`) is the safety core of
  `TaskEnds`: an answer that the window ignores is one it needs no longer.
* `UserPrompts_proofs`: all safety properties of UserPrompts, for any requests, sessions, rules
  and questions. The invariant is `Books == PermissionTypeOK /\ Questioning!TypeOK /\ Locals
  /\ Deliveries`. `Locals` says what the local variables of requestApproval hold while a
  prompt is awaited, and that only waiting requests have any: without it a second prompt
  could follow a refusal. `Deliveries` says that an answer is on its way at most once, from
  a question that takes no other, and that a question whose answer was submitted is
  closed. Lemma `Halves` splits each step into the prompts' part and the questions' part,
  so each half is proved alone although cancellation and exit move both. `OneAnswerEach`
  (`QuestionSpec`) is the refinement: a closed question is one step of OneAnswer, a cancelled
  session or an exit closes a set of them, and `Deliveries` is what makes a delivery a
  `Submit`. `AnswerIsSubmittedOnce` and `OutcomeIsFinal` follow from the same invariant.

Only model-checked: liveness under fairness, which is out of the prover's reach
(`AcceptedIsServed`, `EveryDispatchEnds`, `EveryRequestAnswered`, `CallEnds`,
`EverythingEnds`, `TaskEnds`), and the runs that expect a violation. Every safety property of
the passing runs is a theorem, the refinements included; no module declares a recursive
operator. `WindowLearns`, `WaitsEnd`, `NoRing`, `NoLostWakeup` and `WorkRunsDown` are the
safety part of five of those liveness properties: nobody waits for something that is not going
to happen, or forever does what leads nowhere. That it then happens is fairness, and stays
with TLC.

## 6. Not modelled

Within the modelled components:

* Of a session: `cancelSessionExecution`, `deleteSession`, workflow turns, the content of
  turns (the events of an end are its terminal status only: the `file_change` events of
  the workspace diff, which `EndUnowned` emits too, are data), the listing operations.
  `emitAndPersist` would also close a row on the status `idle` (`session.service.ts:6316`);
  no executor emits it for a turn, so `RowOf` has no such case.
* Of a team: several sessions sharing one `TeamDispatchService` (cancelAll of one session
  stops the dispatches of all: `CancelAll` may come at any time).
* Of questions: an id is not asked again once it is closed; ids are those of tool calls
  or random.
* Of a workflow: what nodes read and say, the nested plan of a loop, the branches of a
  subagent, two calls at once (the host is told not to), a run without a workflow id,
  which has no row, and `markStaleAsFailed` of its rows, which nothing calls. An agent
  node without an agent fails at its first attempt (`missing_agent_id`,
  `workflow-executor.ts:787`) only for callers without a fallback: `workflow_run` passes
  the host as `fallbackAgentId`.
* Of the account: two logins at once, the keychain and the encrypted backup as two
  stores.
* Of the canvas: nodes (an operation node deleted under its task), boards, history, the
  saving of snapshots (the window's tasks are assumed saved when it closes), text tasks,
  and the synchronous media path of the agent's tools. A reload of the page in the same
  window is `Reopen`, and an answer for another project is one whose window is gone. A
  success carries the id the task has by then; a provider that returns an id without
  having announced it is left out.

Most of the repository is views, request translation, tables, file formats and I/O:
of its 294 thousand lines the models cover the parts where steps of several actors
meet. Other components: see the plan, and PROJECT.json
`components` for those that stay out because they are I/O, views, tables or
third-party behaviour.
