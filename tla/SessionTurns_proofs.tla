------------------------- MODULE SessionTurns_proofs -------------------------
(* Proofs about SessionTurns, for any number of turns and any bounds. *)
EXTENDS SessionTurns, FiniteSetTheorems, SequenceTheorems, TLAPS

-----------------------------------------------------------------------------
(* Helpers *)

(* Taking one entry out of a queue leaves a queue. *)
LEMMA RemoveIndexType ==
  ASSUME NEW S, NEW q \in Seq(S), NEW i \in DOMAIN q
  PROVE  RemoveIndex(q, i) \in Seq(S)
<1>1. SubSeq(q, 1, i - 1) \in Seq(S)
  BY SubSeqProperties, SMT
<1>2. SubSeq(q, i + 1, Len(q)) \in Seq(S)
  BY SubSeqProperties, SMT
<1> QED BY <1>1, <1>2 DEF RemoveIndex

(* The row of a turn moves between row states. *)
LEMMA CloseType ==
  ASSUME NEW reqs \in [Turns -> RowStates], NEW t, NEW s \in RowStates
  PROVE  Close(reqs, t, s) \in [Turns -> RowStates]
BY DEF Close

LEMMA RowOfType == \A v \in Verdicts : RowOf(v) \in RowStates
BY DEF RowOf, Verdicts, RowStates

(* A submission is given a number. *)
LEMMA StampType ==
  ASSUME TypeOK, NEW t \in Turns, Stamp(t)
  PROVE  created' \in [Turns -> Nat]
<1>1. IsFiniteSet({u \in Turns : created[u] > 0})
  BY FS_Subset, TurnsAssumption
<1>2. Cardinality({u \in Turns : created[u] > 0}) \in Nat
  BY <1>1, FS_CardinalityType
<1> QED BY <1>2 DEF Stamp, TypeOK

LEMMA StoreVerdictType ==
  ASSUME TypeOK, NEW t, NEW v \in Verdicts, StoreVerdict(t, v)
  PROVE  /\ verdict' \in [Turns -> SUBSET Verdicts]
         /\ lastStatus' \in {"none", "open", "terminal"}
BY DEF StoreVerdict, TypeOK

(* startNextQueuedTurn keeps the types of what it writes. *)
LEMMA StartNextType ==
  ASSUME TypeOK,
         NEW q \in Seq(Turns), NEW act, NEW gate, NEW st \in BOOLEAN,
         NEW at \in [Turns -> Places], NEW reqs \in [Turns -> RowStates],
         NEW tm \in Nat,
         StartNextQueuedTurn(q, act, gate, st, at, reqs, tm)
  PROVE  /\ queue' \in Seq(Turns) /\ starting' \in BOOLEAN
         /\ pc' \in [Turns -> Places] /\ request' \in [Turns -> RowStates]
         /\ timers' \in Nat /\ viaQueue' \in SUBSET Turns
<1>1. CASE HeldBack(act, gate, st) \/ q = <<>>
  BY <1>1 DEF StartNextQueuedTurn, TypeOK
<1>2. CASE ~(HeldBack(act, gate, st) \/ q = <<>>)
  <2>1. Head(q) \in Turns /\ Tail(q) \in Seq(Turns)
    BY <1>2, HeadTailProperties
  <2>2. queue' = Tail(q) /\ timers' \in {tm, tm + 1}
    BY <1>2 DEF StartNextQueuedTurn
  <2>6. starting' \in BOOLEAN
    BY <1>2 DEF StartNextQueuedTurn
  <2>3. viaQueue' \in {viaQueue, viaQueue \cup {Head(q)}}
    BY <1>2 DEF StartNextQueuedTurn
  <2>4. pc' \in [Turns -> Places]
    BY <1>2, <2>1 DEF StartNextQueuedTurn, Places
  <2>5. request' \in [Turns -> RowStates]
    BY <1>2, <2>1 DEF StartNextQueuedTurn, RowStates
  <2> QED BY <2>1, <2>2, <2>3, <2>4, <2>5, <2>6 DEF TypeOK
<1> QED BY <1>1, <1>2

LEMMA StartReturnsType ==
  ASSUME TypeOK, NEW t \in Turns, NEW act,
         NEW at \in [Turns -> Places], NEW rows \in [Turns -> RowStates],
         StartReturns(t, at, rows, act)
  PROVE  /\ queue' \in Seq(Turns) /\ starting' \in BOOLEAN
         /\ pc' \in [Turns -> Places] /\ request' \in [Turns -> RowStates]
         /\ timers' \in Nat /\ viaQueue' \in SUBSET Turns
<1>1. CASE t \in viaQueue
  BY <1>1, StartNextType DEF StartReturns, TypeOK
<1>2. CASE t \notin viaQueue
  BY <1>2 DEF StartReturns, TypeOK
<1> QED BY <1>1, <1>2

LEMMA StartGoalLoopType ==
  ASSUME NEW act, NEW last, NEW at \in [Turns -> Places],
         StartGoalLoop(act, at, last)
  PROVE  /\ goal' \in Goals /\ pc' \in [Turns -> Places]
         /\ latest' \in {None, last}
BY DEF StartGoalLoop, Goals, Places, Turns

LEMMA ContinueType ==
  ASSUME TypeOK, NEW last,
         NEW at \in [Turns -> Places], NEW reqs \in [Turns -> RowStates],
         ContinueGoalOrQueue(at, reqs, last)
  PROVE  /\ active' \in Turns \cup {None}
         /\ queue' \in Seq(Turns) /\ starting' \in BOOLEAN
         /\ pc' \in [Turns -> Places] /\ request' \in [Turns -> RowStates]
         /\ timers' \in Nat /\ viaQueue' \in SUBSET Turns
         /\ goal' \in Goals /\ latest' \in {None, last}
<1>1. CASE disposing
  BY <1>1 DEF ContinueGoalOrQueue, TypeOK
<1>2. CASE ~disposing /\ goal = "active"
  BY <1>2, StartGoalLoopType DEF ContinueGoalOrQueue, TypeOK
<1>3. CASE ~disposing /\ goal # "active"
  <2>1. StartNextQueuedTurn(queue, None, planGate, starting, at, reqs, timers)
    BY <1>3 DEF ContinueGoalOrQueue
  <2>2. queue \in Seq(Turns) /\ starting \in BOOLEAN /\ timers \in Nat
    BY DEF TypeOK
  <2>3. /\ queue' \in Seq(Turns) /\ starting' \in BOOLEAN
        /\ pc' \in [Turns -> Places] /\ request' \in [Turns -> RowStates]
        /\ timers' \in Nat /\ viaQueue' \in SUBSET Turns
    BY <2>1, <2>2, StartNextType
  <2>4. active' \in Turns \cup {None} /\ latest' = last /\ goal' \in Goals
    BY <1>3 DEF ContinueGoalOrQueue, TypeOK
  <2> QED BY <2>3, <2>4
<1> QED BY <1>1, <1>2, <1>3

-----------------------------------------------------------------------------
(* Type correctness, action by action *)

LEMMA InitTypeOK == Init => TypeOK
<1> SUFFICES ASSUME Init PROVE TypeOK
  OBVIOUS
<1>1. queue \in Seq(Turns) /\ active \in Turns \cup {None} /\ planGate \in Turns \cup {None}
  BY DEF Init
<1>2. /\ pc \in [Turns -> Places] /\ request \in [Turns -> RowStates]
      /\ verdict \in [Turns -> SUBSET Verdicts]
  BY DEF Init, Places, RowStates, Verdicts
<1>3. questions \in [Turns -> Nat] /\ created \in [Turns -> Nat]
  BY DEF Init
<1> QED BY <1>1, <1>2, <1>3 DEF Init, TypeOK, Goals

LEMMA EnqueueNewTypeOK ==
  ASSUME TypeOK, NEW t \in Turns, EnqueueNew(t),
         active' \in Turns \cup {None}, cancelled' \in SUBSET Turns,
         session' \in {"idle", "running", "error"}, timers' \in Nat
  PROVE  TypeOK'
<1>1. created' \in [Turns -> Nat]
  BY StampType DEF EnqueueNew
<1>2. queue' \in Seq(Turns)
  BY AppendProperties DEF EnqueueNew, Enqueue, TypeOK
<1>3. /\ pc' \in [Turns -> Places] /\ request' \in [Turns -> RowStates]
      /\ planGate' \in Turns \cup {None}
  BY DEF EnqueueNew, TypeOK, Places, RowStates
<1> QED BY <1>1, <1>2, <1>3 DEF EnqueueNew, TypeOK, process

LEMMA TakeOverType ==
  ASSUME TypeOK, TakeOver
  PROVE  /\ active' \in Turns \cup {None} /\ cancelled' \in SUBSET Turns
         /\ session' \in {"idle", "running", "error"}
BY DEF TakeOver, TypeOK

LEMMA KeepActiveType ==
  ASSUME TypeOK, KeepActive
  PROVE  /\ active' \in Turns \cup {None} /\ cancelled' \in SUBSET Turns
         /\ session' \in {"idle", "running", "error"}
BY DEF KeepActive, TypeOK

LEMMA SubmitTypeOK == TypeOK /\ Submit => TypeOK'
<1> SUFFICES ASSUME TypeOK, NEW t \in Turns,
                    SubmitBehind(t) \/ SubmitAndSchedule(t) \/ SendDirect(t)
             PROVE  TypeOK'
  BY DEF Submit
<1>1. CASE SubmitBehind(t)
  <2>1. timers' \in Nat
    BY <1>1 DEF SubmitBehind, TypeOK
  <2> QED BY <1>1, <2>1, EnqueueNewTypeOK, KeepActiveType DEF SubmitBehind
<1>2. CASE SubmitAndSchedule(t)
  <2>1. timers' \in Nat
    BY <1>2 DEF SubmitAndSchedule, TypeOK
  <2> QED BY <1>2, <2>1, EnqueueNewTypeOK, KeepActiveType, TakeOverType
       DEF SubmitAndSchedule
<1>3. CASE SendDirect(t)
  <2>1. /\ active' \in Turns \cup {None} /\ cancelled' \in SUBSET Turns
        /\ session' \in {"idle", "running", "error"}
    BY <1>3, KeepActiveType, TakeOverType DEF SendDirect
  <2>2. created' \in [Turns -> Nat]
    BY <1>3, StampType DEF SendDirect
  <2>3. pc' \in [Turns -> Places] /\ planGate' \in Turns \cup {None}
    BY <1>3 DEF SendDirect, TypeOK, Places
  <2> QED BY <1>3, <2>1, <2>2, <2>3 DEF SendDirect, TypeOK, process
<1> QED BY <1>1, <1>2, <1>3

LEMMA FireTimerTypeOK == TypeOK /\ FireTimer => TypeOK'
<1> SUFFICES ASSUME TypeOK, FireTimer PROVE TypeOK'
  OBVIOUS
<1>1. /\ queue \in Seq(Turns) /\ starting \in BOOLEAN /\ pc \in [Turns -> Places]
      /\ request \in [Turns -> RowStates] /\ timers - 1 \in Nat
  BY DEF FireTimer, TypeOK
<1>2. StartNextQueuedTurn(queue, active, planGate, starting, pc, request, timers - 1)
  BY DEF FireTimer
<1> HIDE DEF StartNextQueuedTurn
<1>3. /\ queue' \in Seq(Turns) /\ starting' \in BOOLEAN
      /\ pc' \in [Turns -> Places] /\ request' \in [Turns -> RowStates]
      /\ timers' \in Nat /\ viaQueue' \in SUBSET Turns
  BY <1>1, <1>2, StartNextType
<1> QED BY <1>3 DEF FireTimer, TypeOK, process

LEMMA AnnounceTypeOK == ASSUME TypeOK, NEW t \in Turns, Announce(t) PROVE TypeOK'
<1>1. pc' \in [Turns -> Places]
  BY DEF Announce, TypeOK, Places
<1> QED BY <1>1 DEF Announce, TypeOK, memory, process

LEMMA StartRejectsTypeOK ==
  ASSUME TypeOK, NEW t \in Turns, StartRejects(t)
  PROVE  TypeOK'
<1> DEFINE told == (t \in GoalTurns => t \in viaQueue) /\ verdict[t] = {}
           rows == IF told THEN Close(request, t, "failed") ELSE request
           at   == [pc EXCEPT ![t] = "over"]
<1>1. at \in [Turns -> Places] /\ rows \in [Turns -> RowStates]
  BY CloseType DEF TypeOK, Places, RowStates
<1>2. StartReturns(t, at, rows, active)
  BY DEF StartRejects
<1>3. /\ queue' \in Seq(Turns) /\ starting' \in BOOLEAN
      /\ pc' \in [Turns -> Places] /\ request' \in [Turns -> RowStates]
      /\ timers' \in Nat /\ viaQueue' \in SUBSET Turns
  <2> HIDE DEF at, rows
  <2> QED BY <1>1, <1>2, StartReturnsType
<1>4. /\ verdict' \in [Turns -> SUBSET Verdicts]
      /\ lastStatus' \in {"none", "open", "terminal"}
      /\ latest' \in Turns \cup {None}
      /\ session' \in {"idle", "running", "error"}
  BY StoreVerdictType DEF StartRejects, TypeOK, Verdicts
<1> QED BY <1>3, <1>4 DEF StartRejects, TypeOK, process

LEMMA SetupUnavailableTypeOK ==
  ASSUME TypeOK, NEW t \in Turns, SetupUnavailable(t)
  PROVE  TypeOK'
<1> DEFINE rows == Close(request, t, "failed")
           at   == [pc EXCEPT ![t] = "over"]
<1>1. at \in [Turns -> Places] /\ rows \in [Turns -> RowStates]
  BY CloseType DEF TypeOK, Places, RowStates
<1>2. StartReturns(t, at, rows, active)
  BY DEF SetupUnavailable
<1>3. /\ queue' \in Seq(Turns) /\ starting' \in BOOLEAN
      /\ pc' \in [Turns -> Places] /\ request' \in [Turns -> RowStates]
      /\ timers' \in Nat /\ viaQueue' \in SUBSET Turns
  <2> HIDE DEF at, rows
  <2> QED BY <1>1, <1>2, StartReturnsType
<1>4. /\ verdict' \in [Turns -> SUBSET Verdicts]
      /\ lastStatus' \in {"none", "open", "terminal"}
      /\ latest' \in Turns \cup {None}
      /\ session' \in {"idle", "running", "error"}
  BY StoreVerdictType DEF SetupUnavailable, TypeOK, Verdicts
<1> QED BY <1>3, <1>4 DEF SetupUnavailable, TypeOK, process

LEMMA RegisterTypeOK == ASSUME TypeOK, NEW t \in Turns, Register(t) PROVE TypeOK'
<1>1. pc' \in [Turns -> Places]
  BY DEF Register, TypeOK, Places
<1> QED BY <1>1 DEF Register, TypeOK, process

LEMMA ExecuteTypeOK == ASSUME TypeOK, NEW t \in Turns, Execute(t) PROVE TypeOK'
<1> DEFINE at(p) == [pc EXCEPT ![t] = p]
<1>1. at("executing") \in [Turns -> Places] /\ at("over") \in [Turns -> Places]
  BY DEF TypeOK, Places
<1>2. \/ StartReturns(t, at("executing"), request, active)
      \/ StartReturns(t, at("over"), request, active')
  BY DEF Execute
<1>3. /\ queue' \in Seq(Turns) /\ starting' \in BOOLEAN
      /\ pc' \in [Turns -> Places] /\ request' \in [Turns -> RowStates]
      /\ timers' \in Nat /\ viaQueue' \in SUBSET Turns
  <2> HIDE DEF at
  <2>1. request \in [Turns -> RowStates]
    BY DEF TypeOK
  <2> QED BY <1>1, <1>2, <2>1, StartReturnsType
<1>4. /\ active' \in Turns \cup {None} /\ session' \in {"idle", "running", "error"}
      /\ latest' \in Turns \cup {None} /\ lastStatus' \in {"none", "open", "terminal"}
  BY DEF Execute, TypeOK
<1> QED BY <1>3, <1>4 DEF Execute, TypeOK, process

LEMMA EmitTypeOK == ASSUME TypeOK, NEW t \in Turns, Emit(t) PROVE TypeOK'
BY DEF Emit, TypeOK, memory, process, threads

LEMMA ProposePlanTypeOK == ASSUME TypeOK, NEW t \in Turns, ProposePlan(t) PROVE TypeOK'
BY DEF ProposePlan, TypeOK, process, threads

LEMMA AskQuestionTypeOK == ASSUME TypeOK, NEW t \in Turns, AskQuestion(t) PROVE TypeOK'
<1>1. questions' \in [Turns -> Nat]
  BY DEF AskQuestion, TypeOK
<1> QED BY <1>1 DEF AskQuestion, TypeOK, process, threads

LEMMA AnswerQuestionTypeOK ==
  ASSUME TypeOK, NEW t \in Turns, AnswerQuestion(t)
  PROVE  TypeOK'
<1>1. questions' \in [Turns -> Nat] /\ timers' \in Nat
  BY DEF AnswerQuestion, TypeOK
<1> QED BY <1>1 DEF AnswerQuestion, TypeOK, process, threads

LEMMA EndUnownedTypeOK == ASSUME TypeOK, NEW t \in Turns, EndUnowned(t) PROVE TypeOK'
<1>1. pc' \in [Turns -> Places]
  BY DEF EndUnowned, TypeOK, Places
<1> QED BY <1>1 DEF EndUnowned, TypeOK, memory, process, database

LEMMA EndOwnedTypeOK ==
  ASSUME TypeOK, NEW t \in Turns, NEW v \in Verdicts, EndOwned(t, v)
  PROVE  TypeOK'
<1> DEFINE rows == Close(request, t, RowOf(v))
           at   == [pc EXCEPT ![t] = "over"]
<1>1. at \in [Turns -> Places] /\ rows \in [Turns -> RowStates]
  BY CloseType, RowOfType DEF TypeOK, Places
<1>2. ContinueGoalOrQueue(at, rows, t)
  BY DEF EndOwned
<1>3. /\ active' \in Turns \cup {None}
      /\ queue' \in Seq(Turns) /\ starting' \in BOOLEAN
      /\ pc' \in [Turns -> Places] /\ request' \in [Turns -> RowStates]
      /\ timers' \in Nat /\ viaQueue' \in SUBSET Turns
      /\ goal' \in Goals /\ latest' \in {None, t}
  <2> HIDE DEF at, rows
  <2> QED BY <1>1, <1>2, ContinueType
<1>4. /\ verdict' \in [Turns -> SUBSET Verdicts]
      /\ lastStatus' \in {"none", "open", "terminal"}
  BY StoreVerdictType DEF EndOwned
<1> QED BY <1>3, <1>4 DEF EndOwned, TypeOK, process

LEMMA EndSilentTypeOK == ASSUME TypeOK, NEW t \in Turns, EndSilent(t) PROVE TypeOK'
<1> DEFINE at == [pc EXCEPT ![t] = "over"]
<1>1. at \in [Turns -> Places] /\ request \in [Turns -> RowStates]
  BY DEF TypeOK, Places
<1>2. ContinueGoalOrQueue(at, request, latest)
  BY DEF EndSilent
<1>3. /\ active' \in Turns \cup {None}
      /\ queue' \in Seq(Turns) /\ starting' \in BOOLEAN
      /\ pc' \in [Turns -> Places] /\ request' \in [Turns -> RowStates]
      /\ timers' \in Nat /\ viaQueue' \in SUBSET Turns
      /\ goal' \in Goals /\ latest' \in {None, latest}
  <2> HIDE DEF at
  <2> QED BY <1>1, <1>2, ContinueType
<1> QED BY <1>3 DEF EndSilent, TypeOK, process

LEMMA ConcludeTypeOK == ASSUME TypeOK, NEW t \in Turns, Conclude(t) PROVE TypeOK'
<1>1. CASE Settle(t)
  BY <1>1, EndUnownedTypeOK, EndOwnedTypeOK, EndSilentTypeOK DEF Settle, Verdicts
<1>2. CASE SettleCompleted(t)
  <2>1. pc' \in [Turns -> Places] /\ goal' \in Goals /\ latest' \in Turns \cup {None}
    BY <1>2 DEF SettleCompleted, TypeOK, Places, Goals
  <2> QED BY <1>2, <2>1 DEF SettleCompleted, TypeOK, memory, process
<1>3. CASE Finish(t)
  BY <1>3, EndUnownedTypeOK, EndOwnedTypeOK DEF Finish, Verdicts
<1> QED BY <1>1, <1>2, <1>3 DEF Conclude

LEMMA PositionType ==
  ASSUME NEW t \in Turns, Queued(t)
  PROVE  Position(t) \in DOMAIN queue /\ queue[Position(t)] = t
BY DEF Queued, Position

LEMMA CancelQueuedTurnTypeOK ==
  ASSUME TypeOK, NEW t \in Turns, CancelQueuedTurn(t)
  PROVE  TypeOK'
<1>1. queue' \in Seq(Turns)
  <2>1. queue \in Seq(Turns) /\ Position(t) \in DOMAIN queue
    BY PositionType DEF CancelQueuedTurn, TypeOK
  <2> QED BY <2>1, RemoveIndexType DEF CancelQueuedTurn
<1>2. pc' \in [Turns -> Places] /\ request' \in [Turns -> RowStates]
  BY CloseType DEF CancelQueuedTurn, TypeOK, Places, RowStates
<1> QED BY <1>1, <1>2 DEF CancelQueuedTurn, TypeOK, process

LEMMA SendQueuedTurnNowTypeOK ==
  ASSUME TypeOK, NEW t \in Turns, SendQueuedTurnNow(t)
  PROVE  TypeOK'
<1> DEFINE q == <<t>> \o RemoveIndex(queue, Position(t))
<1>1. q \in Seq(Turns)
  <2>1. queue \in Seq(Turns) /\ Position(t) \in DOMAIN queue
    BY PositionType DEF SendQueuedTurnNow, TypeOK
  <2>2. RemoveIndex(queue, Position(t)) \in Seq(Turns)
    BY <2>1, RemoveIndexType
  <2>3. <<t>> \in Seq(Turns)
    OBVIOUS
  <2> HIDE DEF RemoveIndex
  <2> QED BY <2>2, <2>3, ConcatProperties
<1>2. planGate' \in Turns \cup {None} /\ promoted' \in SUBSET Turns
  BY DEF SendQueuedTurnNow, TypeOK
<1>3. CASE active = None
  <2>1. /\ queue' = q /\ timers' \in Nat /\ KeepActive
        /\ UNCHANGED <<starting, pc, viaQueue, request>>
    BY <1>3 DEF SendQueuedTurnNow, TakeOver, TypeOK
  <2> HIDE DEF q
  <2> QED BY <1>1, <1>2, <2>1, KeepActiveType DEF SendQueuedTurnNow, TypeOK
<1>4. CASE active # None
  <2>1. StartNextQueuedTurn(q, None, None, starting, pc, request, timers) /\ TakeOver
    BY <1>4 DEF SendQueuedTurnNow
  <2>2. /\ starting \in BOOLEAN /\ pc \in [Turns -> Places]
        /\ request \in [Turns -> RowStates] /\ timers \in Nat
    BY DEF TypeOK
  <2> HIDE DEF q
  <2>3. /\ queue' \in Seq(Turns) /\ starting' \in BOOLEAN
        /\ pc' \in [Turns -> Places] /\ request' \in [Turns -> RowStates]
        /\ timers' \in Nat /\ viaQueue' \in SUBSET Turns
    BY <1>1, <2>1, <2>2, StartNextType
  <2> QED BY <1>2, <2>1, <2>3, TakeOverType DEF SendQueuedTurnNow, TypeOK
<1> QED BY <1>3, <1>4

LEMMA CancelTurnTypeOK == ASSUME TypeOK, CancelTurn PROVE TypeOK'
<1> DEFINE rows == Close(request, latest, "cancelled")
<1>1. /\ queue \in Seq(Turns) /\ starting \in BOOLEAN /\ pc \in [Turns -> Places]
      /\ rows \in [Turns -> RowStates] /\ timers \in Nat
  BY CloseType DEF TypeOK, RowStates
<1>2. StartNextQueuedTurn(queue, None, None, starting, pc, rows, timers)
  BY DEF CancelTurn
<1>3. /\ queue' \in Seq(Turns) /\ starting' \in BOOLEAN
      /\ pc' \in [Turns -> Places] /\ request' \in [Turns -> RowStates]
      /\ timers' \in Nat /\ viaQueue' \in SUBSET Turns
  <2> HIDE DEF rows
  <2> QED BY <1>1, <1>2, StartNextType
<1>4. /\ verdict' \in [Turns -> SUBSET Verdicts]
      /\ lastStatus' \in {"none", "open", "terminal"}
  BY StoreVerdictType DEF CancelTurn, Verdicts
<1> QED BY <1>3, <1>4, TakeOverType DEF CancelTurn, TypeOK, process

LEMMA DecidePlanTypeOK ==
  ASSUME TypeOK, NEW last, DecidePlan(last), last \in {planGate, latest}
  PROVE  TypeOK'
<1>1. /\ queue \in Seq(Turns) /\ starting \in BOOLEAN /\ pc \in [Turns -> Places]
      /\ request \in [Turns -> RowStates] /\ timers \in Nat
  BY DEF TypeOK
<1>2. StartNextQueuedTurn(queue, active, None, starting, pc, request, timers)
  BY DEF DecidePlan
<1>3. /\ queue' \in Seq(Turns) /\ starting' \in BOOLEAN
      /\ pc' \in [Turns -> Places] /\ request' \in [Turns -> RowStates]
      /\ timers' \in Nat /\ viaQueue' \in SUBSET Turns
  BY <1>1, <1>2, StartNextType
<1>4. latest' \in Turns \cup {None} /\ planGate' \in Turns \cup {None}
  BY DEF DecidePlan, TypeOK
<1> QED BY <1>3, <1>4 DEF DecidePlan, TypeOK, process

LEMMA CancelWhileIdleTypeOK == ASSUME TypeOK, CancelWhileIdle PROVE TypeOK'
BY DEF CancelWhileIdle, TypeOK, process, threads, database

LEMMA ControlTypeOK == ASSUME TypeOK, Control PROVE TypeOK'
BY AnswerQuestionTypeOK, CancelQueuedTurnTypeOK, SendQueuedTurnNowTypeOK,
   CancelTurnTypeOK, DecidePlanTypeOK DEF Control, RejectPlan, UpdatePermissionMode

LEMMA PursueTypeOK == ASSUME TypeOK, Pursue PROVE TypeOK'
<1>1. CASE ActivateGoal
  <2>1. /\ goal' \in Goals /\ pc' \in [Turns -> Places] /\ latest' \in {None, None}
    <3>1. pc \in [Turns -> Places] /\ StartGoalLoop(active, pc, None)
      BY <1>1 DEF ActivateGoal, TypeOK
    <3> QED BY <3>1, StartGoalLoopType
  <2> QED BY <1>1, <2>1 DEF ActivateGoal, GoalUnchanged, TypeOK, process
<1>2. CASE SuspendGoal
  <2>1. goal' \in Goals
    BY <1>2 DEF SuspendGoal, Goals
  <2> QED BY <1>2, <2>1 DEF SuspendGoal, GoalUnchanged, TypeOK, process
<1>3. CASE ClearGoal
  <2>1. cancelled' \in SUBSET Turns /\ goal' \in Goals
    BY <1>3 DEF ClearGoal, TypeOK, Goals
  <2> QED BY <1>3, <2>1 DEF ClearGoal, TypeOK, memory, process
<1>4. ASSUME NEW g \in GoalTurns, DraftGoal(g) PROVE TypeOK'
  <2>1. g \in Turns
    BY DEF Turns
  <2>2. created' \in [Turns -> Nat]
    <3>1. CASE Stamp(g)
      BY <2>1, <3>1, StampType
    <3>2. CASE created' = created
      BY <3>2 DEF TypeOK
    <3> QED BY <1>4, <3>1, <3>2 DEF DraftGoal
  <2>4. queue' \in Seq(Turns)
    <3>1. queue' = queue \/ queue' = Append(queue, g)
      BY <1>4 DEF DraftGoal, Enqueue
    <3>2. queue \in Seq(Turns)
      BY DEF TypeOK
    <3> QED BY <2>1, <3>1, <3>2, AppendProperties
  <2>3. pc' \in [Turns -> Places] /\ goal' \in Goals
    BY <1>4, <2>1 DEF DraftGoal, TypeOK, Places, Goals
  <2> QED BY <1>4, <2>2, <2>3, <2>4 DEF DraftGoal, TypeOK, process
<1> QED BY <1>1, <1>2, <1>3, <1>4 DEF Pursue

LEMMA DisposeTypeOK == ASSUME TypeOK, Dispose PROVE TypeOK'
<1>1. /\ queue' \in Seq(Turns) /\ questions' \in [Turns -> Nat]
      /\ pc' \in [Turns -> Places] /\ cancelled' \in SUBSET Turns
  BY DEF Dispose, TypeOK, Places
<1> QED BY <1>1 DEF Dispose, TypeOK, database

LEMMA RestartTypeOK == ASSUME TypeOK, Restart PROVE TypeOK'
<1> DEFINE accepted == {t \in Turns : request[t] = "accepted"}
<1>1. Cardinality(accepted) \in Nat
  BY FS_Subset, FS_CardinalityType, TurnsAssumption
<1>2. queue' \in Seq(Turns)
  <2>1. PICK q \in [1..Cardinality(accepted) -> accepted] : queue' = q
    BY DEF Restart, RecoverRequests, RecoverRow
  <2>2. q \in Seq(accepted)
    <3> HIDE DEF accepted
    <3> QED BY <1>1
  <2> QED BY <2>1, <2>2
<1>3. /\ request' \in [Turns -> RowStates] /\ pc' \in [Turns -> Places]
      /\ timers' \in Nat
  BY DEF Restart, RecoverRequests, RecoverRow, TypeOK, RowStates, Places
<1>4. /\ session' \in {"idle", "running", "error"}
      /\ verdict' \in [Turns -> SUBSET Verdicts]
      /\ lastStatus' \in {"none", "open", "terminal"}
  BY StoreVerdictType DEF Restart, RecoverSession, TypeOK, Verdicts
<1>5. questions' \in [Turns -> Nat] /\ restarts' \in Nat
  BY DEF Restart, TypeOK
<1> QED BY <1>2, <1>3, <1>4, <1>5 DEF Restart, TypeOK

LEMMA NextTypeOK == TypeOK /\ [Next]_vars => TypeOK'
<1> SUFFICES ASSUME TypeOK, [Next]_vars PROVE TypeOK'
  OBVIOUS
<1>1. CASE Submit
  BY <1>1, SubmitTypeOK
<1>2. CASE FireTimer
  BY <1>2, FireTimerTypeOK
<1>3. ASSUME NEW t \in Turns, Preflight(t) PROVE TypeOK'
  BY <1>3, AnnounceTypeOK, StartRejectsTypeOK, SetupUnavailableTypeOK,
     RegisterTypeOK, ExecuteTypeOK DEF Preflight
<1>4. CASE Run
  BY <1>3, <1>4, ConcludeTypeOK, EmitTypeOK, ProposePlanTypeOK, AskQuestionTypeOK
  DEF Run
<1>5. CASE Control \/ CancelWhileIdle
  BY <1>5, ControlTypeOK, CancelWhileIdleTypeOK
<1>6. CASE Pursue
  BY <1>6, PursueTypeOK
<1>7. CASE Dispose \/ Restart
  BY <1>7, DisposeTypeOK, RestartTypeOK
<1>8. CASE UNCHANGED vars
  BY <1>8 DEF TypeOK, vars, memory, process, threads, database
<1> QED BY <1>1, <1>2, <1>4, <1>5, <1>6, <1>7, <1>8 DEF Next, Steps

(* Every variable of the scheduler keeps its type, for any number of turns *)
(* of each kind, any bounds and any number of restarts.                    *)
THEOREM TypeCorrect == Spec => []TypeOK
BY InitTypeOK, NextTypeOK, PTL DEF Spec
=============================================================================
