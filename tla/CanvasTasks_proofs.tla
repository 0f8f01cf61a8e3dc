------------------------- MODULE CanvasTasks_proofs -------------------------
(* Proofs about CanvasTasks, for any number of runs and of windows.          *)
EXTENDS CanvasTasks, TLAPS

(* What the row says at each place of the job, and that a task the window    *)
(* has not made has no job.                                                  *)
Places ==
  \A t \in Tasks :
    /\ task[t] = "none" => job[t].at = "none"
    /\ job[t].at \in {"none", "asked"} => row[t] = "none"
    /\ job[t].at \in {"invoking", "submitted"} => row[t] \in {"running", "cancelled"}

(* A job was asked for by the open window or by one before.                  *)
AskedBefore == \A t \in Tasks : job[t].window \in 1..window

(* An answer that ends a task says what its row says, or that there is none. *)
True(a) == a.status # "running" =>
  \/ a.status \in RowEnded /\ row[a.task] = a.status
  \/ a.status = "failed" /\ row[a.task] = "none" /\ job[a.task].at = "ended"

(* All do, and an image is measured for a task that has succeeded.           *)
Reports ==
  /\ \A a \in answers : True(a)
  /\ \A t \in Tasks : apply[t] = "measuring" => row[t] = "succeeded"

(* The runtime works on the task, its last answer is on the way, or it is    *)
(* settled.                                                                  *)
Known(t) == \/ job[t].at \in {"asked", "invoking", "submitted"}
            \/ \E a \in answers : a.task = t /\ a.status # "running"
            \/ Settled(t)

(* The inductive invariant. *)
Accounts == TypeOK /\ Places /\ AskedBefore /\ OwnersTracked /\ Reports /\ WindowLearns

-----------------------------------------------------------------------------
(* The types *)

LEMMA InitAccounts == Init => Accounts
<1> SUFFICES ASSUME Init PROVE Accounts
  OBVIOUS
<1> USE TasksAssumption DEF Init
<1>1. TypeOK
  BY DEF TypeOK, Windows, Rows, Statuses, Refs, NoCancel
<1>2. Places /\ AskedBefore
  BY DEF Places, AskedBefore
<1>3. OwnersTracked
  BY DEF OwnersTracked
<1>4. Reports /\ WindowLearns
  BY DEF Reports, WindowLearns, Present
<1> QED BY <1>1, <1>2, <1>3, <1>4 DEF Accounts

LEMMA AnsweredType ==
  ASSUME TypeOK, NEW t \in Tasks, NEW status \in Rows, NEW id \in Refs,
         Answered(t, status, id)
  PROVE  answers' \subseteq Answer
BY DEF TypeOK, Answered, Answer

LEMMA JobType ==
  ASSUME TypeOK, NEW t \in Tasks,
         NEW at \in {"asked", "invoking", "submitted", "ended"},
         job' = [job EXCEPT ![t].at = at]
  PROVE  job' \in [Tasks -> [at : {"none", "asked", "invoking", "submitted", "ended"},
                             window : Windows]]
BY DEF TypeOK

(* The main process *)
LEMMA RuntimeTypes ==
  ASSUME Accounts, NEW t \in Tasks, Runtime(t)
  PROVE  TypeOK'
<1> USE TasksAssumption DEF Accounts, TypeOK, Windows, canvas, waits
<1>0. {"running", "failed"} \subseteq Rows /\ Refs = {"none", "runtime", "provider"}
  BY DEF Rows, RowEnded, Refs
<1>1. CASE Submit(t)
  <2>1. answers' \subseteq Answer
    BY <1>0, <1>1, AnsweredType DEF Submit
  <2> QED BY <1>0, <1>1, <2>1, JobType DEF Submit
<1>2. CASE Refuse(t)
  <2>1. answers' \subseteq Answer
    BY <1>0, <1>2, AnsweredType DEF Refuse
  <2> QED BY <1>2, <2>1, JobType DEF Refuse
<1>3. CASE ProviderAccepts(t)
  <2>1. answers' \subseteq Answer
    BY <1>0, <1>3, AnsweredType DEF ProviderAccepts
  <2> QED BY <1>3, <2>1, JobType DEF ProviderAccepts
<1>4. CASE CancelMedia(t)
  <2>1. row' \in [Tasks -> Rows] /\ owner' \in [Tasks -> 0..MaxWindows]
    <3>1. /\ row' = row \/ row' = [row EXCEPT ![t] = "cancelled"]
          /\ owner' = owner \/ owner' = [owner EXCEPT ![t] = 0]
      BY <1>4 DEF CancelMedia
    <3>2. row' \in [Tasks -> Rows]
      <4>1. "cancelled" \in Rows
        BY DEF Rows, RowEnded
      <4> QED BY <3>1, <4>1
    <3>3. owner' \in [Tasks -> 0..MaxWindows]
      <4>1. 0 \in 0..MaxWindows
        OBVIOUS
      <4> QED BY <3>1, <4>1
    <3> QED BY <3>2, <3>3
  <2>2. cancel' \in [Tasks -> [at : {"none", "asking", "answered"}, ref : Refs]]
    <3>1. cancel' = [cancel EXCEPT ![t] = [cancel[t] EXCEPT !.at = "answered"]]
      BY <1>4 DEF CancelMedia
    <3>2. [cancel[t] EXCEPT !.at = "answered"]
            \in [at : {"none", "asking", "answered"}, ref : Refs]
      OBVIOUS
    <3> QED BY <3>1, <3>2
  <2> QED BY <1>4, <2>1, <2>2 DEF CancelMedia
<1>5. CASE \E status \in {"succeeded", "failed"} : ProviderEnds(t, status)
  <2> PICK status \in {"succeeded", "failed"} : ProviderEnds(t, status)
    BY <1>5
  <2>1. Result(t, status) \in Rows
    BY DEF Result, Rows, RowEnded
  <2>2. row' \in [Tasks -> Rows] /\ row'[t] \in Rows
    BY <2>1 DEF ProviderEnds
  <2>3. answers' \subseteq Answer
    BY <1>0, <2>2, AnsweredType DEF ProviderEnds
  <2> QED BY <2>2, <2>3, JobType DEF ProviderEnds
<1> QED BY <1>1, <1>2, <1>3, <1>4, <1>5 DEF Runtime

LEMMA ReleasedType ==
  ASSUME TypeOK, NEW a \in answers
  PROVE  Released(a) \in [Tasks -> 0..MaxWindows]
BY TasksAssumption DEF TypeOK, Released, Answer

LEMMA DeliverTypes ==
  ASSUME Accounts, Deliver
  PROVE  TypeOK'
<1> USE TasksAssumption DEF Accounts, TypeOK, Windows, canvas, waits
<1> PICK a \in answers :
           Drop(a) \/ Mark(a) \/ Ignore(a) \/ ApplyEnd(a) \/ ApplySuccess(a)
  BY DEF Deliver
<1>1. /\ Released(a) \in [Tasks -> 0..MaxWindows]
      /\ a.task \in Tasks /\ a.status \in Rows /\ a.ref \in Refs
  BY ReleasedType DEF Answer
<1>2. CASE Drop(a)
  BY <1>1, <1>2 DEF Drop
<1>3. CASE Mark(a)
  BY <1>1, <1>3 DEF Mark, Receive, Statuses
<1>4. CASE Ignore(a)
  BY <1>1, <1>4 DEF Ignore, Receive
<1>5. CASE ApplyEnd(a)
  BY <1>1, <1>5 DEF ApplyEnd, Receive, Statuses, TaskEnded
<1>6. CASE ApplySuccess(a)
  BY <1>1, <1>6 DEF ApplySuccess, Receive, Statuses, TaskEnded
<1> QED BY <1>2, <1>3, <1>4, <1>5, <1>6

(* The window *)
LEMMA WindowTypes ==
  ASSUME Accounts, NEW t \in Tasks, User(t) \/ Materialize(t) \/ CancelDone(t)
  PROVE  TypeOK'
<1> USE TasksAssumption DEF Accounts, TypeOK, Windows, runtime, canvas, waits
<1>1. CASE Run(t)
  BY <1>1 DEF Run, Statuses
<1>2. CASE CancelTask(t)
  BY <1>2 DEF CancelTask
<1>3. CASE CancelUnknown(t)
  BY <1>3 DEF CancelUnknown, Statuses, TaskEnded
<1>4. CASE Delete(t)
  BY <1>4 DEF Delete, Statuses, TaskEnded
<1>5. CASE Materialize(t)
  BY <1>5 DEF Materialize
<1>6. CASE CancelDone(t)
  BY <1>6 DEF CancelDone, Statuses, TaskEnded, NoCancel, Refs
<1> QED BY <1>1, <1>2, <1>3, <1>4, <1>5, <1>6 DEF User

LEMMA ExitTypes ==
  ASSUME Accounts, Reopen \/ Restart
  PROVE  TypeOK'
<1> USE TasksAssumption DEF Accounts, TypeOK, Windows, runtime, canvas, NoCancel, Refs
<1>1. window' \in 1..MaxWindows
  BY DEF Reopen, Restart
<1>2. CASE Reopen
  BY <1>1, <1>2 DEF Reopen
<1>3. CASE Restart
  <2>1. \A t \in Tasks : job'[t] \in [at : {"none", "asked", "invoking", "submitted", "ended"},
                                     window : Windows]
    <3> TAKE t \in Tasks
    <3>1. \/ job'[t] = [job[t] EXCEPT !.at = job[t].at]
          \/ job'[t] = [job[t] EXCEPT !.at = "ended"]
      BY <1>3 DEF Restart
    <3> QED BY <3>1
  <2>2. job' \in [Tasks -> [at : {"none", "asked", "invoking", "submitted", "ended"},
                            window : Windows]]
    BY <1>3, <2>1 DEF Restart
  <2> QED BY <1>1, <1>3, <2>2 DEF Restart
<1> QED BY <1>2, <1>3

LEMMA NextTypes ==
  ASSUME Accounts, [Next]_vars
  PROVE  TypeOK'
<1>1. CASE UNCHANGED vars
  BY <1>1 DEF Accounts, TypeOK, vars, runtime, canvas, waits
<1> QED BY <1>1, RuntimeTypes, DeliverTypes, WindowTypes, ExitTypes DEF Next

-----------------------------------------------------------------------------
(* The places of the job *)

\* A restart ends the jobs there are.
LEMMA RestartJob ==
  ASSUME TypeOK, Restart, NEW t \in Tasks
  PROVE  /\ job'[t].at = IF job[t].at = "none" THEN "none" ELSE "ended"
         /\ job'[t].window = job[t].window
<1>1. \/ job[t].at = "none" /\ job'[t] = [job[t] EXCEPT !.at = "none"]
      \/ job[t].at # "none" /\ job'[t] = [job[t] EXCEPT !.at = "ended"]
  BY DEF Restart
<1>2. job[t] \in [at : {"none", "asked", "invoking", "submitted", "ended"}, window : Windows]
  BY DEF TypeOK
<1> QED BY <1>1, <1>2

\* A step of another part leaves the row and the job of a task alone, and a
\* task that has been made is not unmade.
LEMMA PlacesStay ==
  ASSUME Accounts, row' = row, job' = job,
         \A t \in Tasks : task'[t] = "none" => task[t] = "none"
  PROVE  Places'
BY DEF Accounts, Places

LEMMA NextPlaces ==
  ASSUME Accounts, [Next]_vars
  PROVE  Places'
<1> USE DEF Accounts
<1>1. ASSUME NEW t \in Tasks, Runtime(t) PROVE Places'
  <2> task' = task
    BY <1>1 DEF Runtime, Submit, Refuse, ProviderAccepts, CancelMedia, ProviderEnds, canvas
  <2>1. CASE Submit(t)
    BY <2>1 DEF Submit, Places, TypeOK
  <2>2. CASE Refuse(t)
    BY <2>2 DEF Refuse, Places, TypeOK
  <2>3. CASE ProviderAccepts(t)
    BY <2>3 DEF ProviderAccepts, Places, TypeOK
  <2>4. CASE CancelMedia(t)
    <3>1. job' = job /\ (row' = row \/ (row[t] = "running" /\ row' = [row EXCEPT ![t] = "cancelled"]))
      BY <2>4 DEF CancelMedia, TypeOK
    <3> QED BY <3>1 DEF Places, TypeOK
  <2>5. CASE \E status \in {"succeeded", "failed"} : ProviderEnds(t, status)
    BY <2>5 DEF ProviderEnds, Places, TypeOK
  <2> QED BY <1>1, <2>1, <2>2, <2>3, <2>4, <2>5 DEF Runtime
<1>2. CASE Deliver
  <2> PICK a \in answers :
             Drop(a) \/ Mark(a) \/ Ignore(a) \/ ApplyEnd(a) \/ ApplySuccess(a)
    BY <1>2 DEF Deliver
  <2>1. row' = row /\ job' = job
    BY DEF Drop, Mark, Ignore, ApplyEnd, ApplySuccess
  <2>2. \A t \in Tasks : task'[t] = "none" => task[t] = "none"
    BY DEF Drop, Mark, Ignore, ApplyEnd, ApplySuccess, canvas, TypeOK
  <2> QED BY <2>1, <2>2, PlacesStay
<1>3. ASSUME NEW t \in Tasks, User(t) \/ Materialize(t) \/ CancelDone(t) PROVE Places'
  <2>1. CASE Run(t)
    BY <2>1 DEF Run, Places, TypeOK
  <2>2. CASE ~Run(t)
    <3>1. row' = row /\ job' = job
      BY <1>3, <2>2 DEF User, CancelTask, CancelUnknown, Delete, Materialize, CancelDone, runtime
    <3>2. \A s \in Tasks : task'[s] = "none" => task[s] = "none"
      BY <1>3, <2>2 DEF User, CancelTask, CancelUnknown, Delete, Materialize, CancelDone,
                        canvas, TypeOK
    <3> QED BY <3>1, <3>2, PlacesStay
  <2> QED BY <2>1, <2>2
<1>4. CASE Reopen
  BY <1>4, PlacesStay DEF Reopen, runtime, canvas
<1>5. CASE Restart
  <2>1. \A t \in Tasks : job'[t].at = IF job[t].at = "none" THEN "none" ELSE "ended"
    BY <1>5, RestartJob
  <2>2. row' = row /\ task' = task
    BY <1>5 DEF Restart, canvas
  <2> QED BY <2>1, <2>2 DEF Places
<1>6. CASE UNCHANGED vars
  BY <1>6, PlacesStay DEF vars, runtime, canvas
<1> QED BY <1>1, <1>2, <1>3, <1>4, <1>5, <1>6 DEF Next

LEMMA NextAsked ==
  ASSUME Accounts, [Next]_vars
  PROVE  AskedBefore'
<1> USE DEF Accounts
<1>1. window \in Nat /\ window' \in {window, window + 1}
  BY TasksAssumption
     DEF TypeOK, Windows, Next, Runtime, Submit, Refuse, ProviderAccepts, CancelMedia,
         ProviderEnds, User, Run, CancelTask, CancelUnknown, Delete, Materialize, CancelDone,
         Deliver, Drop, Mark, Ignore, ApplyEnd, ApplySuccess, Reopen, Restart, vars
<1> SUFFICES ASSUME NEW t \in Tasks PROVE job'[t].window \in {job[t].window, window'}
  BY <1>1 DEF AskedBefore
<1>2. CASE job' = job
  BY <1>2
<1>3. ASSUME NEW s \in Tasks, Runtime(s) PROVE job'[t].window = job[t].window
  BY <1>3 DEF Runtime, Submit, Refuse, ProviderAccepts, CancelMedia, ProviderEnds, TypeOK
<1>4. ASSUME NEW s \in Tasks, Run(s) PROVE job'[t].window \in {job[t].window, window'}
  BY <1>4 DEF Run, TypeOK
<1>5. CASE Restart
  BY <1>5, RestartJob
<1>6. CASE ~(Restart \/ \E s \in Tasks : Runtime(s) \/ Run(s))
  BY <1>6 DEF Next, User, CancelTask, CancelUnknown, Delete, Materialize, CancelDone,
              Deliver, Drop, Mark, Ignore, ApplyEnd, ApplySuccess, Reopen, vars, runtime
<1> QED BY <1>3, <1>4, <1>5, <1>6

-----------------------------------------------------------------------------
(* The rows *)

\* Of a row that has ended the status stays.
LEMMA RowsStay ==
  ASSUME Accounts, [Next]_vars, NEW t \in Tasks, row[t] \in RowEnded
  PROVE  row'[t] = row[t]
<1> USE DEF Accounts
<1>1. row[t] # "none" /\ row[t] # "running"
  BY DEF RowEnded
<1>2. ASSUME NEW s \in Tasks, Runtime(s) PROVE row'[t] = row[t]
  <2>1. CASE Submit(s)
    BY <1>1, <2>1 DEF Submit, Places, TypeOK
  <2>2. CASE Refuse(s) \/ ProviderAccepts(s)
    BY <2>2 DEF Refuse, ProviderAccepts
  <2>3. CASE CancelMedia(s)
    BY <1>1, <2>3 DEF CancelMedia, TypeOK
  <2>4. CASE \E status \in {"succeeded", "failed"} : ProviderEnds(s, status)
    <3>1. s # t \/ row[t] = "cancelled"
      BY <1>1, <2>4 DEF ProviderEnds, Places
    <3> QED BY <2>4, <3>1 DEF ProviderEnds, Result, TypeOK
  <2> QED BY <1>2, <2>1, <2>2, <2>3, <2>4 DEF Runtime
<1>3. CASE ~(\E s \in Tasks : Runtime(s))
  <2>1. row' = row
    BY <1>3 DEF Next, User, Run, CancelTask, CancelUnknown, Delete, Materialize, CancelDone,
                Deliver, Drop, Mark, Ignore, ApplyEnd, ApplySuccess, Reopen, Restart,
                vars, runtime
  <2> QED BY <2>1
<1> QED BY <1>2, <1>3

-----------------------------------------------------------------------------
(* The owners *)

LEMMA RuntimeOwners ==
  ASSUME Accounts, NEW t \in Tasks, Runtime(t)
  PROVE  OwnersTracked'
<1> USE DEF Accounts
<1>1. CASE Submit(t)
  BY <1>1 DEF Submit, Answered, OwnersTracked, TypeOK
<1>2. CASE Refuse(t)
  BY <1>2 DEF Refuse, Answered, OwnersTracked
<1>3. CASE ProviderAccepts(t)
  BY <1>3 DEF ProviderAccepts, Answered, OwnersTracked
<1>4. CASE CancelMedia(t)
  <2>1. \A s \in Tasks : owner'[s] # 0 => row'[s] = row[s] /\ owner'[s] = owner[s]
    BY <1>4 DEF CancelMedia, TypeOK
  <2> QED BY <1>4, <2>1 DEF CancelMedia, OwnersTracked
<1>5. CASE \E status \in {"succeeded", "failed"} : ProviderEnds(t, status)
  <2> PICK status \in {"succeeded", "failed"} : ProviderEnds(t, status)
    BY <1>5
  <2>1. row'[t] \in RowEnded /\ \A s \in Tasks \ {t} : row'[s] = row[s]
    BY DEF ProviderEnds, Result, RowEnded, TypeOK
  <2>2. \E a \in answers' : a.task = t /\ a.status = row'[t]
    <3> DEFINE a == [task |-> t, status |-> row'[t],
                     ref |-> IF job[t].at = "submitted" THEN "provider" ELSE "runtime"]
    <3>1. a \in answers'
      BY DEF ProviderEnds, Answered
    <3>2. a.task = t /\ a.status = row'[t]
      OBVIOUS
    <3> QED BY <3>1, <3>2
  <2>3. answers \subseteq answers' /\ owner' = owner
    BY DEF ProviderEnds, Answered
  <2> QED BY <2>1, <2>2, <2>3 DEF OwnersTracked
<1> QED BY <1>1, <1>2, <1>3, <1>4, <1>5 DEF Runtime

LEMMA DeliverOwners ==
  ASSUME Accounts, Deliver
  PROVE  OwnersTracked'
<1> USE DEF Accounts
<1> PICK a \in answers :
           Drop(a) \/ Mark(a) \/ Ignore(a) \/ ApplyEnd(a) \/ ApplySuccess(a)
  BY DEF Deliver
<1>1. row' = row /\ answers' = answers \ {a} /\ owner' = Released(a)
  BY DEF Drop, Mark, Ignore, ApplyEnd, ApplySuccess, Receive
<1>2. a.task \in Tasks
  BY DEF TypeOK, Answer
<1> SUFFICES ASSUME NEW t \in Tasks, owner'[t] # 0
             PROVE  row'[t] = "running" \/ \E b \in answers' : b.task = t /\ b.status \in RowEnded
  BY DEF OwnersTracked
<1>3. owner[t] # 0 /\ ~(a.task = t /\ a.status # "running")
  BY <1>1, <1>2 DEF Released, TypeOK
<1>4. row[t] = "running" \/ \E b \in answers : b.task = t /\ b.status \in RowEnded
  BY <1>3 DEF OwnersTracked
<1> QED BY <1>1, <1>3, <1>4 DEF RowEnded

LEMMA NextOwners ==
  ASSUME Accounts, [Next]_vars
  PROVE  OwnersTracked'
<1> USE DEF Accounts
<1>1. ASSUME NEW t \in Tasks, User(t) \/ Materialize(t) \/ CancelDone(t)
      PROVE  OwnersTracked'
  BY <1>1 DEF User, Run, CancelTask, CancelUnknown, Delete, Materialize, CancelDone, runtime,
              OwnersTracked
<1>2. CASE Reopen
  BY <1>2 DEF Reopen, runtime, OwnersTracked
<1>3. CASE Restart
  BY <1>3 DEF Restart, OwnersTracked
<1>4. CASE UNCHANGED vars
  BY <1>4 DEF vars, runtime, OwnersTracked
<1> QED BY <1>1, <1>2, <1>3, <1>4, RuntimeOwners, DeliverOwners DEF Next

-----------------------------------------------------------------------------
(* The answers *)

\* Where the runtime has ended without a row, it stays so.
LEMMA NothingStays ==
  ASSUME Accounts, [Next]_vars, NEW t \in Tasks, row[t] = "none", job[t].at = "ended"
  PROVE  row'[t] = "none" /\ job'[t].at = "ended"
<1> USE DEF Accounts
<1>1. ASSUME NEW s \in Tasks, Runtime(s) PROVE row'[t] = "none" /\ job'[t].at = "ended"
  <2>1. CASE Submit(s) \/ Refuse(s) \/ ProviderAccepts(s)
    BY <2>1 DEF Submit, Refuse, ProviderAccepts, TypeOK
  <2>2. CASE CancelMedia(s)
    BY <2>2 DEF CancelMedia, TypeOK
  <2>3. CASE \E status \in {"succeeded", "failed"} : ProviderEnds(s, status)
    BY <2>3 DEF ProviderEnds, TypeOK
  <2> QED BY <1>1, <2>1, <2>2, <2>3 DEF Runtime
<1>2. ASSUME NEW s \in Tasks, Run(s) PROVE row'[t] = "none" /\ job'[t].at = "ended"
  BY <1>2 DEF Run, Places, TypeOK
<1>3. CASE Restart
  BY <1>3, RestartJob DEF Restart
<1>4. CASE ~(Restart \/ \E s \in Tasks : Runtime(s) \/ Run(s))
  <2>1. row' = row /\ job' = job
    BY <1>4 DEF Next, User, CancelTask, CancelUnknown, Delete, Materialize, CancelDone,
                Deliver, Drop, Mark, Ignore, ApplyEnd, ApplySuccess, Reopen, vars, runtime
  <2> QED BY <2>1
<1> QED BY <1>1, <1>2, <1>3, <1>4

LEMMA TrueStays ==
  ASSUME Accounts, [Next]_vars, NEW a \in answers
  PROVE  True(a)'
<1>1. a.task \in Tasks /\ True(a)
  BY DEF Accounts, TypeOK, Answer, Reports
<1> QED BY <1>1, RowsStay, NothingStays DEF True

\* What the runtime tells of a task is true of it.
LEMMA TellsTrue ==
  ASSUME Accounts, NEW t \in Tasks, Runtime(t), NEW a \in answers' \ answers
  PROVE  True(a)'
<1> USE DEF Accounts, Answered
<1>1. CASE Submit(t)
  BY <1>1 DEF Submit, True
<1>2. CASE Refuse(t)
  <2>1. a.task = t /\ a.status = "failed" /\ row' = row /\ job'[t].at = "ended"
    BY <1>2 DEF Refuse, TypeOK
  <2>2. row[t] = "none"
    BY <1>2 DEF Refuse, Places
  <2> QED BY <2>1, <2>2 DEF True
<1>3. CASE ProviderAccepts(t)
  BY <1>3 DEF ProviderAccepts, Places, True, RowEnded
<1>4. CASE CancelMedia(t)
  BY <1>4 DEF CancelMedia
<1>5. CASE \E status \in {"succeeded", "failed"} : ProviderEnds(t, status)
  <2> PICK status \in {"succeeded", "failed"} : ProviderEnds(t, status)
    BY <1>5
  <2>1. a.task = t /\ a.status = row'[t]
    BY DEF ProviderEnds
  <2>2. row'[t] \in RowEnded
    BY DEF ProviderEnds, Result, RowEnded, TypeOK
  <2> QED BY <2>1, <2>2 DEF True
<1> QED BY <1>1, <1>2, <1>3, <1>4, <1>5 DEF Runtime

LEMMA NextReports ==
  ASSUME Accounts, [Next]_vars
  PROVE  Reports'
<1>1. ASSUME NEW a \in answers' \ answers PROVE \E t \in Tasks : Runtime(t)
  BY <1>1 DEF Next, User, Run, CancelTask, CancelUnknown, Delete, Materialize, CancelDone,
              Deliver, Drop, Mark, Ignore, ApplyEnd, ApplySuccess, Receive, Reopen, Restart,
              vars, runtime
<1>2. \A a \in answers' : True(a)'
  BY <1>1, TrueStays, TellsTrue
<1>3. ASSUME NEW t \in Tasks, apply'[t] = "measuring" PROVE row'[t] = "succeeded"
  <2>1. CASE apply[t] = "measuring"
    BY <2>1, RowsStay DEF Accounts, Reports, RowEnded
  <2>2. CASE apply[t] # "measuring"
    <3>1. PICK a \in answers : ApplySuccess(a)
      <4>1. apply' # apply
        BY <1>3, <2>2
      <4>2. CASE \E s \in Tasks : Runtime(s)
        BY <4>1, <4>2 DEF Runtime, Submit, Refuse, ProviderAccepts, CancelMedia, ProviderEnds,
                          waits
      <4>3. CASE \E s \in Tasks : Materialize(s)
        BY <1>3, <2>2, <4>3 DEF Materialize, Accounts, TypeOK
      <4>4. CASE \E s \in Tasks : User(s) \/ CancelDone(s)
        BY <4>1, <4>4 DEF User, Run, CancelTask, CancelUnknown, Delete, CancelDone, waits
      <4>5. CASE Reopen \/ Restart
        BY <1>3, <4>5 DEF Reopen, Restart
      <4>6. CASE Deliver
        BY <4>1, <4>6 DEF Deliver, Drop, Mark, Ignore, ApplyEnd, waits
      <4>7. CASE UNCHANGED vars
        BY <4>1, <4>7 DEF vars, waits
      <4> QED BY <4>2, <4>3, <4>4, <4>5, <4>6, <4>7 DEF Next
    <3>2. a.task = t /\ a.status = "succeeded" /\ row' = row
      BY <1>3, <2>2, <3>1 DEF ApplySuccess, Accounts, TypeOK
    <3>3. row[t] = "succeeded"
      BY <3>2 DEF Accounts, Reports, True
    <3> QED BY <3>2, <3>3
  <2> QED BY <2>1, <2>2
<1> QED BY <1>2, <1>3 DEF Reports

-----------------------------------------------------------------------------
(* What the window learns *)

LEMMA RuntimeKnown ==
  ASSUME Accounts, NEW s \in Tasks, Runtime(s), NEW t \in Tasks, Present(t), Known(t)
  PROVE  Known(t)'
<1> USE DEF Accounts
<1>1. task' = task
  BY DEF Runtime, Submit, Refuse, ProviderAccepts, CancelMedia, ProviderEnds, canvas
<1>2. answers \subseteq answers'
  BY DEF Runtime, Submit, Refuse, ProviderAccepts, CancelMedia, ProviderEnds, Answered
<1>3. CASE s # t
  <2>1. row'[t] = row[t] /\ job'[t] = job[t]
    BY <1>3 DEF Runtime, Submit, Refuse, ProviderAccepts, CancelMedia, ProviderEnds, TypeOK
  <2> QED BY <1>1, <1>2, <2>1 DEF Known, Settled
<1>4. CASE s = t
  <2>1. CASE Submit(t)
    <3>1. job'[t].at = "invoking"
      BY <2>1 DEF Submit, TypeOK
    <3> QED BY <3>1 DEF Known
  <2>2. CASE Refuse(t)
    <3> DEFINE a == [task |-> t, status |-> "failed", ref |-> "none"]
    <3>1. a \in answers' /\ a.task = t /\ a.status # "running"
      BY <2>2 DEF Refuse, Answered
    <3> QED BY <3>1 DEF Known
  <2>3. CASE ProviderAccepts(t)
    <3>1. job'[t].at = "submitted"
      BY <2>3 DEF ProviderAccepts, TypeOK
    <3> QED BY <3>1 DEF Known
  <2>4. CASE CancelMedia(t)
    <3>1. row'[t] = row[t] \/ row[t] = "running"
      BY <2>4 DEF CancelMedia, TypeOK
    <3>2. job' = job /\ answers' = answers
      BY <2>4 DEF CancelMedia
    <3> QED BY <1>1, <3>1, <3>2 DEF Known, Settled
  <2>5. CASE \E status \in {"succeeded", "failed"} : ProviderEnds(t, status)
    <3> PICK status \in {"succeeded", "failed"} : ProviderEnds(t, status)
      BY <2>5
    <3>1. row'[t] # "running"
      BY DEF ProviderEnds, Result, TypeOK
    <3>2. \E a \in answers' : a.task = t /\ a.status = row'[t]
      <4> DEFINE a == [task |-> t, status |-> row'[t],
                       ref |-> IF job[t].at = "submitted" THEN "provider" ELSE "runtime"]
      <4>1. a \in answers' /\ a.task = t /\ a.status = row'[t]
        BY DEF ProviderEnds, Answered
      <4> QED BY <4>1
    <3> QED BY <3>1, <3>2 DEF Known
  <2> QED BY <1>4, <2>1, <2>2, <2>3, <2>4, <2>5 DEF Runtime
<1> QED BY <1>3, <1>4

LEMMA DeliverKnown ==
  ASSUME Accounts, Deliver, NEW t \in Tasks, Present(t)', job'[t].window = window'
  PROVE  Known(t)'
<1> USE DEF Accounts
<1> PICK a \in answers :
           Drop(a) \/ Mark(a) \/ Ignore(a) \/ ApplyEnd(a) \/ ApplySuccess(a)
  BY DEF Deliver
<1>1. row' = row /\ job' = job /\ window' = window /\ answers' = answers \ {a}
  BY DEF Drop, Mark, Ignore, ApplyEnd, ApplySuccess, Receive
<1>2. Present(t)
  BY DEF Drop, Mark, Ignore, ApplyEnd, ApplySuccess, CanStart, CanApply, canvas, Present, TypeOK
<1>3. Known(t)
  BY <1>1, <1>2 DEF WindowLearns, Known
<1>4. CASE a.task # t \/ a.status = "running"
  <2>1. task'[t] = task[t]
    <3>1. CASE Mark(a)
      <4>1. CanStart(a.task) => task[a.task] = "running"
        BY DEF CanStart, Present, TypeOK, Answer, Statuses
      <4> QED BY <3>1, <4>1 DEF Mark, TypeOK
    <3> QED BY <1>4, <3>1 DEF Drop, Ignore, ApplyEnd, ApplySuccess, canvas, TypeOK
  <2> QED BY <1>1, <1>3, <1>4, <2>1 DEF Known, Settled
<1>5. CASE a.task = t /\ a.status # "running"
  <2>1. True(a)
    BY DEF Reports
  <2>2. CASE Drop(a)
    BY <1>1, <1>5, <2>2 DEF Drop
  <2>3. CASE Ignore(a)
    <3>1. task' = task
      BY <2>3 DEF Ignore, canvas
    <3>2. Settled(t)
      BY <1>2, <1>5, <2>3 DEF Ignore, CanApply, Settled, WindowLearns
    <3> QED BY <1>1, <3>1, <3>2 DEF Known, Settled
  <2>4. CASE ApplyEnd(a)
    BY <1>1, <1>5, <2>1, <2>4 DEF ApplyEnd, True, Known, Settled, TypeOK
  <2>5. CASE ApplySuccess(a)
    BY <1>1, <1>5, <2>1, <2>5 DEF ApplySuccess, True, Known, Settled, TypeOK
  <2> QED BY <1>5, <2>2, <2>3, <2>4, <2>5 DEF Mark
<1> QED BY <1>4, <1>5

LEMMA WindowKnown ==
  ASSUME Accounts, NEW s \in Tasks, User(s) \/ Materialize(s) \/ CancelDone(s),
         NEW t \in Tasks, Present(t)', job'[t].window = window'
  PROVE  Known(t)'
<1> USE DEF Accounts
<1>1. CASE Run(s) /\ s = t
  BY <1>1 DEF Run, Known, TypeOK
<1>2. CASE ~(Run(s) /\ s = t)
  <2>1. row' = row /\ job'[t] = job[t] /\ window' = window /\ answers' = answers
    BY <1>2 DEF User, Run, CancelTask, CancelUnknown, Delete, Materialize, CancelDone, runtime,
                TypeOK
  <2>2. /\ Present(t)
        /\ \/ task'[t] \in {task[t], "cancelled"}
           \/ task'[t] = "completed" /\ t \in outputs
    BY <1>2 DEF User, Run, CancelTask, CancelUnknown, Delete, Materialize, CancelDone, canvas,
                TypeOK, Present
  <2>3. Known(t)
    BY <2>1, <2>2 DEF WindowLearns, Known
  <2>4. t \in outputs => row[t] = "succeeded"
    BY DEF WindowLearns
  <2> QED BY <2>1, <2>2, <2>3, <2>4 DEF Known, Settled
<1> QED BY <1>1, <1>2

LEMMA NextLearns ==
  ASSUME Accounts, [Next]_vars
  PROVE  WindowLearns'
<1> USE DEF Accounts
<1>1. ASSUME NEW t \in Tasks, Present(t)', job'[t].window = window' PROVE Known(t)'
  <2>1. ASSUME NEW s \in Tasks, Runtime(s) PROVE Known(t)'
    <3>1. task' = task /\ window' = window /\ job'[t].window = job[t].window
      BY <2>1 DEF Runtime, Submit, Refuse, ProviderAccepts, CancelMedia, ProviderEnds, canvas,
                  TypeOK
    <3>2. Present(t) /\ Known(t)
      BY <1>1, <3>1 DEF Present, Known, WindowLearns
    <3> QED BY <2>1, <3>2, RuntimeKnown
  <2>2. CASE Reopen \/ Restart
    <3>1. job'[t].window = job[t].window /\ window' = window + 1
      <4>1. CASE Reopen
        BY <4>1 DEF Reopen, runtime
      <4>2. CASE Restart
        BY <4>2, RestartJob DEF Restart
      <4> QED BY <2>2, <4>1, <4>2
    <3>2. job[t].window \in 1..window /\ window \in Nat
      BY TasksAssumption DEF AskedBefore, TypeOK, Windows
    <3>3. job[t].window # window + 1
      BY <3>2
    <3> QED BY <1>1, <3>1, <3>3
  <2>3. CASE UNCHANGED vars
    BY <1>1, <2>3 DEF vars, runtime, canvas, Present, Known, Settled, WindowLearns
  <2> QED BY <1>1, <2>1, <2>2, <2>3, DeliverKnown, WindowKnown DEF Next
<1>2. ASSUME NEW t \in Tasks, t \in outputs' PROVE row'[t] = "succeeded"
  <2>1. CASE t \in outputs
    BY <2>1, RowsStay DEF WindowLearns, RowEnded
  <2>2. CASE t \notin outputs
    <3>1. PICK s \in Tasks : Materialize(s)
      BY <1>2, <2>2 DEF Next, Runtime, Submit, Refuse, ProviderAccepts, CancelMedia,
                        ProviderEnds, User, Run, CancelTask, CancelUnknown, Delete, CancelDone,
                        Deliver, Drop, Mark, Ignore, ApplyEnd, ApplySuccess, Reopen, Restart,
                        vars, canvas
    <3> QED BY <1>2, <2>2, <3>1 DEF Materialize, Reports, runtime
  <2> QED BY <2>1, <2>2
<1> QED BY <1>1, <1>2 DEF WindowLearns, Known

-----------------------------------------------------------------------------
(* Theorems *)

LEMMA AccountsKept == Spec => []Accounts
<1>1. Accounts /\ [Next]_vars => Accounts'
  BY NextTypes, NextPlaces, NextAsked, NextOwners, NextReports, NextLearns DEF Accounts
<1> QED BY InitAccounts, <1>1, PTL DEF Spec

(* Every variable always has its type. *)
THEOREM TypeCorrect == Spec => []TypeOK
<1>1. Accounts => TypeOK
  BY DEF Accounts
<1> QED BY AccountsKept, <1>1, PTL

(* CanvasTaskOwnerRegistry never keeps the owner of a task that has ended    *)
(* longer than it takes to send its last answer.                             *)
THEOREM OwnersReleased == Spec => []OwnersTracked
<1>1. Accounts => OwnersTracked
  BY DEF Accounts
<1> QED BY AccountsKept, <1>1, PTL

(* The window learns what became of every task it has asked for: as long as  *)
(* a task is open in it, the runtime works on it or its last answer is on    *)
(* the way.  What the liveness of TaskEnds rests on.                         *)
THEOREM EveryTaskIsTold == Spec => []WindowLearns
<1>1. Accounts => WindowLearns
  BY DEF Accounts
<1> QED BY AccountsKept, <1>1, PTL

(* A row of media_generation_tasks that has ended keeps its status.  No      *)
(* answer, however late, starts a task again that has ended in the        *)
(* window, and a cancelled one without artifacts stays cancelled till it is  *)
(* deleted.                                                                  *)
THEOREM EndedStay == Spec => EndedStays
<1> DEFINE Stays(t) == /\ row[t] \in RowEnded => row'[t] = row[t]
                       /\ task[t] \in TaskEnded => task'[t] # "running"
                       /\ task[t] = "cancelled" /\ t \notin outputs
                            => task'[t] \in {"cancelled", "removed"}
<1>1. ASSUME Accounts, [Next]_vars, NEW t \in Tasks PROVE Stays(t)
  <2> USE <1>1 DEF Accounts
  <2>0. row[t] \in RowEnded => row'[t] = row[t]
    BY RowsStay
  <2>1. task \in [Tasks -> Statuses]
    BY DEF TypeOK
  <2>2. CASE task' = task
    BY <2>0, <2>1, <2>2 DEF TaskEnded
  <2>3. CASE Deliver
    <3> PICK a \in answers :
               Drop(a) \/ Mark(a) \/ Ignore(a) \/ ApplyEnd(a) \/ ApplySuccess(a)
      BY <2>3 DEF Deliver
    <3>1. CASE Mark(a)
      BY <2>0, <2>1, <3>1 DEF Mark, CanStart, TaskEnded
    <3>2. CASE ApplyEnd(a) \/ ApplySuccess(a)
      BY <2>0, <2>1, <3>2 DEF ApplyEnd, ApplySuccess, CanApply, TaskEnded
    <3>3. CASE Drop(a) \/ Ignore(a)
      BY <2>0, <2>2, <3>3 DEF Drop, Ignore, canvas
    <3> QED BY <3>1, <3>2, <3>3
  <2>4. ASSUME NEW s \in Tasks, User(s) PROVE Stays(t)
    <3>1. CASE Run(s)
      BY <2>0, <2>1, <3>1 DEF Run, TaskEnded
    <3>2. CASE CancelTask(s)
      BY <2>0, <2>2, <3>2 DEF CancelTask, canvas
    <3>3. CASE CancelUnknown(s)
      BY <2>0, <2>1, <3>3 DEF CancelUnknown, TaskEnded
    <3>4. CASE Delete(s)
      BY <2>0, <2>1, <3>4 DEF Delete, TaskEnded
    <3> QED BY <2>4, <3>1, <3>2, <3>3, <3>4 DEF User
  <2>5. ASSUME NEW s \in Tasks, CancelDone(s) PROVE Stays(t)
    BY <2>0, <2>1, <2>5 DEF CancelDone, TaskEnded
  <2>6. ASSUME NEW s \in Tasks, Runtime(s) \/ Materialize(s) PROVE Stays(t)
    <3>1. task' = task
      BY <2>6 DEF Runtime, Submit, Refuse, ProviderAccepts, CancelMedia, ProviderEnds,
                  Materialize, canvas
    <3> QED BY <2>0, <2>2, <3>1
  <2>7. CASE Reopen \/ Restart \/ UNCHANGED vars
    BY <2>0, <2>2, <2>7 DEF Reopen, Restart, vars, canvas
  <2> QED BY <2>3, <2>4, <2>5, <2>6, <2>7 DEF Next
<1>2. Accounts /\ [Next]_vars
        => [\A t \in Tasks : /\ row[t] \in RowEnded => row'[t] = row[t]
                             /\ task[t] \in TaskEnded => task'[t] # "running"
                             /\ task[t] = "cancelled" /\ t \notin outputs
                                  => task'[t] \in {"cancelled", "removed"}]_vars
  BY <1>1
<1> QED BY AccountsKept, <1>2, PTL DEF Spec, EndedStays
=============================================================================
