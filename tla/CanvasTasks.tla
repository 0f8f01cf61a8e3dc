---------------------------- MODULE CanvasTasks ----------------------------
(***************************************************************************)
(* A media operation of the canvas, from the window to the provider and    *)
(* back: createMediaTask, markMediaTaskSubmitted, applyMediaTaskResult,    *)
(* cancelTask and deleteTasks of canvas.api.ts in the canvas window; the   *)
(* handlers create-media and cancel-media of main/ipc/index.ts and the     *)
(* CanvasTaskOwnerRegistry in the main process; MediaTaskRuntimeService    *)
(* and the rows of media_generation_tasks behind them.                     *)
(*                                                                         *)
(* One operation node, run again and again; each run is a task.  The       *)
(* provider is external: it accepts or refuses a task and ends it either   *)
(* way.  A success has at least one asset.  The window keeps its tasks     *)
(* when it is closed and opened again (the snapshot is saved on closing);  *)
(* what it awaited is lost.  What the node shows of its task is left out.  *)
(***************************************************************************)
EXTENDS Naturals

CONSTANTS
  Tasks,      \* runs of the operation node
  NoTask,     \* the node has not run yet
  MaxWindows  \* bound: canvas windows, one after the other

ASSUME TasksAssumption ==
  NoTask \notin Tasks /\ MaxWindows \in Nat \ {0}

VARIABLES
  window,   \* number of the canvas window that is open
  \* main process
  row,      \* status of the row in media_generation_tasks
  job,      \* where create-media and then execute() stand, and their window
  owner,    \* CanvasTaskOwnerRegistry: the window that owns the task, or 0
  answers,  \* answers that wait for canvasResponseFromMediaTaskRecord, or
            \* are on their way to the window
  \* window
  task,     \* status of the canvas task
  ref,      \* its requestId: nobody's, the runtime's or the provider's
  outputs,  \* tasks with artifacts in the canvas
  node,     \* taskId of the operation node
  apply,    \* where applyMediaTaskResult stands
  cancel    \* where cancelTask stands, and the requestId it asked with

runtime == <<row, job, owner, answers>>
waits   == <<apply, cancel>>
canvas  == <<task, ref, outputs, node>>
vars    == <<window, runtime, canvas, waits>>

RowEnded  == {"succeeded", "failed", "cancelled"}
Rows      == {"none", "running"} \cup RowEnded
TaskEnded == {"completed", "failed", "cancelled"}
Statuses  == {"none", "running", "removed"} \cup TaskEnded
Refs      == {"none", "runtime", "provider"}
Windows   == 1..MaxWindows
Answer    == [task : Tasks, status : Rows, ref : Refs]
NoCancel  == [at |-> "none", ref |-> "none"]

Init ==
  /\ window = 1 /\ answers = {} /\ outputs = {}
  /\ row = [t \in Tasks |-> "none"] /\ owner = [t \in Tasks |-> 0]
  /\ job = [t \in Tasks |-> [at |-> "none", window |-> 1]]
  /\ task = [t \in Tasks |-> "none"] /\ ref = [t \in Tasks |-> "none"]
  /\ node = NoTask
  /\ apply = [t \in Tasks |-> "none"] /\ cancel = [t \in Tasks |-> NoCancel]

Present(t) == task[t] \notin {"none", "removed"}

-----------------------------------------------------------------------------
(* The main process *)

\* an answer names the runtime's id of the task, or the provider's if it has one
Answered(t, status, id) ==
  answers' = answers \cup {[task |-> t, status |-> status, ref |-> id]}

\* create-media: submitBackground, claim, and the reply
Submit(t) ==
  /\ job[t].at = "asked"
  /\ row' = [row EXCEPT ![t] = "running"] /\ job' = [job EXCEPT ![t].at = "invoking"]
  /\ owner' = [owner EXCEPT ![t] = job[t].window] /\ Answered(t, "running", "runtime")
  /\ UNCHANGED <<window, canvas, waits>>

\* it throws before: authorization, providers, the row
Refuse(t) ==
  /\ job[t].at = "asked" /\ job' = [job EXCEPT ![t].at = "ended"]
  /\ Answered(t, "failed", "none")
  /\ UNCHANGED <<window, row, owner, canvas, waits>>

\* onTaskSubmitted: the row keeps its status, whatever it is
ProviderAccepts(t) ==
  /\ job[t].at = "invoking" /\ job' = [job EXCEPT ![t].at = "submitted"]
  /\ Answered(t, row[t], "provider")
  /\ UNCHANGED <<window, row, owner, canvas, waits>>

\* Faulty: the canvas's word for a success
FaultyWord(t, status) == IF status = "succeeded" THEN "completed" ELSE status

\* execute() looks at the row again after the provider
Result(t, status) == IF row[t] = "cancelled" THEN "cancelled" ELSE status

ProviderEnds(t, status) ==
  /\ job[t].at \in {"invoking", "submitted"} /\ job' = [job EXCEPT ![t].at = "ended"]
  /\ row' = [row EXCEPT ![t] = Result(t, status)]
  /\ Answered(t, row'[t], IF job[t].at = "submitted" THEN "provider" ELSE "runtime")
  /\ UNCHANGED <<window, owner, canvas, waits>>

\* Faulty: the owner is kept
FaultyReleased(a) == owner

\* the last answer of a task releases its owner
Released(a) == IF a.status # "running" THEN [owner EXCEPT ![a.task] = 0] ELSE owner

\* the window that asked is gone: the answer is dropped
Drop(a) ==
  /\ job[a.task].window # window
  /\ answers' = answers \ {a} /\ owner' = Released(a)
  /\ UNCHANGED <<window, row, job, canvas, waits>>

\* cancel-media: the id must be one of the runtime's, asked by its owner;
\* what it answers or throws makes no difference to the window
CancelMedia(t) ==
  /\ cancel[t].at = "asking" /\ cancel' = [cancel EXCEPT ![t].at = "answered"]
  /\ IF cancel[t].ref = "runtime" /\ owner[t] = window
     THEN /\ row' = [row EXCEPT ![t] = IF @ = "running" THEN "cancelled" ELSE @]
          /\ owner' = [owner EXCEPT ![t] = 0]
     ELSE UNCHANGED <<row, owner>>
  /\ UNCHANGED <<window, job, answers, canvas, apply>>

-----------------------------------------------------------------------------
(* The window *)

\* createMediaTask: the node is bound to the new task; an active task without
\* outputs that it had is dropped, and goes on in the runtime
Run(t) ==
  LET dropped(s) == s = node /\ task[s] = "running" /\ s \notin outputs
  IN
  /\ task[t] = "none"
  /\ task' = [s \in Tasks |-> IF s = t THEN "running"
                              ELSE IF dropped(s) THEN "removed" ELSE task[s]]
  /\ node' = t
  /\ job' = [job EXCEPT ![t] = [at |-> "asked", window |-> window]]
  /\ UNCHANGED <<window, row, owner, answers, ref, outputs, waits>>

Receive(a) ==
  /\ job[a.task].window = window
  /\ answers' = answers \ {a} /\ owner' = Released(a)

\* Faulty: an answer that comes late starts an ended task again
FaultyCanStart(t) == Present(t) /\ task[t] # "cancelled"

\* markMediaTaskSubmitted
CanStart(t) == Present(t) /\ task[t] \notin TaskEnded

Mark(a) ==
  LET t == a.task IN
  /\ Receive(a) /\ a.status = "running"
  /\ IF CanStart(t)
     THEN /\ task' = [task EXCEPT ![t] = "running"]
          /\ ref' = [ref EXCEPT ![t] = IF a.ref = "provider" \/ @ = "none"
                                       THEN a.ref ELSE @]
     ELSE UNCHANGED <<task, ref>>
  /\ UNCHANGED <<window, row, job, node, outputs, waits>>

\* Faulty: a result that comes before the task has an id is not applied
LateCanApply(t) == Present(t) /\ task[t] # "cancelled" /\ ref[t] # "none"

\* Faulty: the task cancelled meanwhile is not left alone
FaultyCanApply(t) == Present(t) /\ ~(task[t] = "completed" /\ t \in outputs)

CanApply(t) == /\ Present(t) /\ task[t] # "cancelled"
               /\ ~(task[t] = "completed" /\ t \in outputs)

\* applyMediaTaskResult, an answer it has nothing to do for
Ignore(a) ==
  /\ Receive(a) /\ a.status # "running" /\ ~CanApply(a.task)
  /\ UNCHANGED <<window, row, job, canvas, waits>>

\* applyMediaTaskResult, a failure or a cancellation
ApplyEnd(a) ==
  LET t == a.task IN
  /\ Receive(a) /\ a.status \in {"failed", "cancelled"} /\ CanApply(t)
  /\ task' = [task EXCEPT ![t] = a.status] /\ ref' = [ref EXCEPT ![t] = a.ref]
  /\ UNCHANGED <<window, row, job, node, outputs, waits>>

\* applyMediaTaskResult, a success up to the await on the size of an image
ApplySuccess(a) ==
  LET t == a.task IN
  /\ Receive(a) /\ a.status = "succeeded" /\ CanApply(t)
  /\ task' = [task EXCEPT ![t] = "completed"] /\ ref' = [ref EXCEPT ![t] = a.ref]
  /\ apply' = [apply EXCEPT ![t] = "measuring"]
  /\ UNCHANGED <<window, row, job, outputs, node, cancel>>

\* the rest of it: the artifacts
Materialize(t) ==
  /\ apply[t] = "measuring" /\ apply' = [apply EXCEPT ![t] = "none"]
  /\ outputs' = outputs \cup {t}
  /\ UNCHANGED <<window, runtime, task, ref, node, cancel>>

\* cancelTask up to cancel-media
CancelTask(t) ==
  /\ task[t] \in {"running", "failed"} /\ ref[t] # "none"
  /\ cancel[t].at = "none"
  /\ cancel' = [cancel EXCEPT ![t] = [at |-> "asking", ref |-> ref[t]]]
  /\ UNCHANGED <<window, runtime, canvas, apply>>

\* without a requestId there is nothing to await
CancelUnknown(t) ==
  /\ task[t] \in {"running", "failed"} /\ ref[t] = "none"
  /\ task' = [task EXCEPT ![t] = "cancelled"]
  /\ UNCHANGED <<window, runtime, ref, node, outputs, waits>>

\* the rest of cancelTask: by force
CancelDone(t) ==
  /\ cancel[t].at = "answered" /\ cancel' = [cancel EXCEPT ![t] = NoCancel]
  /\ task' = [task EXCEPT ![t] = IF Present(t) THEN "cancelled" ELSE @]
  /\ UNCHANGED <<window, runtime, ref, node, outputs, apply>>

\* deleteTasks: what has artifacts stays, and has completed if it had not
Delete(t) ==
  /\ Present(t)
  /\ task' = [task EXCEPT ![t] = IF t \in outputs THEN "completed" ELSE "removed"]
  /\ UNCHANGED <<window, runtime, ref, node, outputs, waits>>

\* the canvas window is closed and another one opened
Reopen ==
  /\ window < MaxWindows /\ window' = window + 1
  /\ apply' = [t \in Tasks |-> "none"] /\ cancel' = [t \in Tasks |-> NoCancel]
  /\ UNCHANGED <<runtime, canvas>>

\* the app exits and starts again: the rows stay as they are
Restart ==
  /\ window < MaxWindows /\ window' = window + 1 /\ answers' = {}
  /\ job' = [t \in Tasks |-> [job[t] EXCEPT !.at = IF @ = "none" THEN @ ELSE "ended"]]
  /\ owner' = [t \in Tasks |-> 0]
  /\ apply' = [t \in Tasks |-> "none"] /\ cancel' = [t \in Tasks |-> NoCancel]
  /\ UNCHANGED <<row, canvas>>

-----------------------------------------------------------------------------

Runtime(t) ==
  Submit(t) \/ Refuse(t) \/ ProviderAccepts(t) \/ CancelMedia(t)
  \/ \E status \in {"succeeded", "failed"} : ProviderEnds(t, status)

Deliver == \E a \in answers :
             Drop(a) \/ Mark(a) \/ Ignore(a) \/ ApplyEnd(a) \/ ApplySuccess(a)

User(t) == Run(t) \/ CancelTask(t) \/ CancelUnknown(t) \/ Delete(t)

Next ==
  \/ \E t \in Tasks : Runtime(t) \/ Materialize(t) \/ CancelDone(t) \/ User(t)
  \/ Deliver \/ Reopen \/ Restart

Spec == Init /\ [][Next]_vars

\* the provider ends every task (its adapters have deadlines), the main
\* process and the window go on with what they have begun
FairSpec ==
  /\ Spec /\ WF_vars(Deliver)
  /\ \A t \in Tasks :
       /\ WF_vars(Submit(t) \/ Refuse(t)) /\ WF_vars(CancelMedia(t))
       /\ WF_vars(\E status \in {"succeeded", "failed"} : ProviderEnds(t, status))
       /\ WF_vars(Materialize(t)) /\ WF_vars(CancelDone(t))

-----------------------------------------------------------------------------
(* Properties *)

\* Every variable has its type.
TypeOK ==
  /\ window \in Windows
  /\ row \in [Tasks -> Rows] /\ owner \in [Tasks -> 0..MaxWindows]
  /\ job \in [Tasks -> [at : {"none", "asked", "invoking", "submitted", "ended"},
                        window : Windows]]
  /\ answers \subseteq Answer
  /\ task \in [Tasks -> Statuses] /\ ref \in [Tasks -> Refs] /\ outputs \subseteq Tasks
  /\ node \in Tasks \cup {NoTask} /\ apply \in [Tasks -> {"none", "measuring"}]
  /\ cancel \in [Tasks -> [at : {"none", "asking", "answered"}, ref : Refs]]

\* What has ended stays as it is: a row of media_generation_tasks keeps its
\* status, however the cancellation, the provider's acceptance and its result
\* interleave; in the window a cancelled task is deleted or, if it has
\* artifacts, restored; no answer starts an ended task again or completes a
\* cancelled one.
EndedStays ==
  [][\A t \in Tasks : /\ row[t] \in RowEnded => row'[t] = row[t]
                      /\ task[t] \in TaskEnded => task'[t] # "running"
                      /\ task[t] = "cancelled" /\ t \notin outputs
                           => task'[t] \in {"cancelled", "removed"}]_vars

\* An owner is kept no longer than it can be used: its row runs, or the last
\* answer of the task is about to be sent.
OwnersTracked ==
  \A t \in Tasks : owner[t] # 0 =>
    row[t] = "running" \/ \E a \in answers : a.task = t /\ a.status \in RowEnded

\* the task says what became of its row, or that the user gave it up
Settled(t) == \/ task[t] = "cancelled"
              \/ task[t] = "completed" /\ row[t] = "succeeded"
              \/ task[t] = "failed" /\ row[t] \in {"failed", "none"}

\* The window learns what became of a task it asked for: as long as the task is
\* not settled, the runtime works on it or its last answer is on the way; and
\* the canvas has no artifacts of a task that has not succeeded.
WindowLearns ==
  \A t \in Tasks :
    /\ Present(t) /\ job[t].window = window =>
         \/ job[t].at \in {"asked", "invoking", "submitted"}
         \/ \E a \in answers : a.task = t /\ a.status # "running"
         \/ Settled(t)
    /\ t \in outputs => row[t] = "succeeded"

\* A run that was begun in the open window ends in it.
TaskEnds ==
  \A t \in Tasks, w \in Windows :
    (task[t] = "running" /\ job[t].window = w) ~> (task[t] # "running" \/ window # w)

\* canvas.api.ts:5880: "Terminal state is monotonic once outputs are
\* materialized."  Not so: cancelTask looks at the status before it awaits
\* cancel-media, and afterwards writes the cancellation over a task that has
\* completed meanwhile.
MaterializedStays ==
  [][\A t \in outputs : task[t] = "completed" => task'[t] # "cancelled"]_vars
=============================================================================
