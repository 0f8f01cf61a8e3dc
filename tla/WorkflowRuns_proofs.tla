------------------------- MODULE WorkflowRuns_proofs -------------------------
(* Proofs about WorkflowRuns, for any graphs, conditions, retries, loops and  *)
(* number of calls.                                                           *)
EXTENDS WorkflowRuns, FiniteSetTheorems, TLAPS

(* nodes that were given up in this call *)
GivenUp == NodesOf(graph) \ (pending \cup done)

(* What the call has done and what is left to do are parts of the graph, and  *)
(* the row knows nothing of the graph that the call does not know.            *)
Parts ==
  pc # "idle" =>
    /\ pending \subseteq NodesOf(graph) /\ pending \cap done = {}
    /\ row.done \cap NodesOf(graph) \subseteq done
    /\ row.status # "completed"

(* The nodes whose turn has come had, and keep, their upstream nodes done.    *)
Due ==
  /\ \A n \in batch \cup running :
       n \in pending /\ \A e \in EdgesOf(graph) : e.to = n => e.from \in done
  /\ pc \in {"head", "wave"} => batch = {}
  /\ pc \in {"idle", "head"} => running = {}
  /\ pc \in {"idle"} => batch = {}

(* Nodes are given up once, when nothing is ready, and nothing is ready       *)
(* afterwards: they are what was inactive among all that was not done.        *)
Pruned ==
  pc # "idle" /\ GivenUp # {} =>
    /\ pc = "head" /\ Ready = {}
    /\ GivenUp = Inactive(GivenUp \cup pending, graph, st)

(* What a completed node has written is in the state and in the row.          *)
Outputs ==
  /\ \A n \in Nodes : result[n].outcome = "completed" => result[n].value \in Values
  /\ OutputsSurvive

(* The inductive invariant. *)
Accounts == TypeOK /\ Parts /\ Due /\ Pruned /\ Outputs /\ SkippedForAReason

-----------------------------------------------------------------------------
(* The nodes behind a false condition *)

LEMMA InactiveSubset == \A S, g, s : Inactive(S, g, s) \subseteq S
BY DEF Inactive

LEMMA InactiveLeast ==
  ASSUME NEW S, NEW g, NEW s, NEW T \in SUBSET S, ClosedIn(T, S, g, s)
  PROVE  Inactive(S, g, s) \subseteq T
BY DEF Inactive

LEMMA InactiveClosed ==
  ASSUME NEW S, NEW g, NEW s, NEW e \in EdgesOf(g), e.to \in S,
         ~Holds(e.cond, s) \/ e.from \in Inactive(S, g, s)
  PROVE  e.to \in Inactive(S, g, s)
<1> SUFFICES ASSUME NEW T \in SUBSET S, ClosedIn(T, S, g, s) PROVE e.to \in T
  BY DEF Inactive
<1>1. e.from \in Inactive(S, g, s) => e.from \in T
  BY InactiveLeast
<1> QED BY <1>1 DEF ClosedIn

(* Among the inactive nodes all are inactive: each for the same reason.       *)
LEMMA InactiveStable ==
  ASSUME NEW S, NEW g, NEW s
  PROVE  Inactive(Inactive(S, g, s), g, s) = Inactive(S, g, s)
<1> DEFINE I == Inactive(S, g, s)
<1>1. Inactive(I, g, s) \subseteq I
  BY InactiveSubset
<1>2. ASSUME NEW T \in SUBSET I, ClosedIn(T, I, g, s) PROVE I \subseteq T
  <2>1. T \in SUBSET S
    BY InactiveSubset
  <2>2. ClosedIn(T, S, g, s)
    <3> SUFFICES ASSUME NEW e \in EdgesOf(g), e.to \in S, ~Holds(e.cond, s) \/ e.from \in T
                 PROVE  e.to \in T
      BY DEF ClosedIn
    <3>1. e.to \in I
      BY InactiveClosed
    <3> QED BY <1>2, <3>1 DEF ClosedIn
  <2> QED BY <2>1, <2>2, InactiveLeast
<1>3. I \subseteq Inactive(I, g, s)
  BY <1>2 DEF Inactive
<1> QED BY <1>1, <1>3

(* What is left when they are given up is not behind a false condition.       *)
LEMMA RestIsActive ==
  ASSUME NEW S, NEW g, NEW s
  PROVE  /\ Inactive(S \ Inactive(S, g, s), g, s) = {}
         /\ \A e \in EdgesOf(g) :
              e.to \in S \ Inactive(S, g, s) =>
                Holds(e.cond, s) /\ e.from \notin Inactive(S, g, s)
<1> DEFINE R == S \ Inactive(S, g, s)
<1>1. ASSUME NEW e \in EdgesOf(g), e.to \in R
      PROVE  Holds(e.cond, s) /\ e.from \notin Inactive(S, g, s)
  BY <1>1, InactiveClosed
<1>2. ClosedIn({}, R, g, s)
  BY <1>1 DEF ClosedIn
<1>3. Inactive(R, g, s) \subseteq {}
  BY <1>2, InactiveLeast
<1> QED BY <1>1, <1>3

(* A call is blocked only by a cycle: whatever still waits has an upstream    *)
(* node that still waits.                                                     *)
LEMMA BlockedIsCyclic ==
  ASSUME Accounts, Block
  PROVE  Cyclic(graph)
<1> USE DEF Accounts
<1>1. /\ pc = "head" /\ pending # {} /\ Ready = {} /\ pending \subseteq NodesOf(graph)
      /\ Inactive(pending, graph, st) = {}
  BY DEF Block, Parts
<1>2. ASSUME NEW n \in pending
      PROVE  \E e \in EdgesOf(graph) : e.to = n /\ e.from \in pending
  <2>1. PICK e \in EdgesOf(graph) : e.to = n /\ ~(Holds(e.cond, st) /\ e.from \in done)
    BY <1>1 DEF Ready, IsReady
  <2>2. Holds(e.cond, st)
    BY <1>1, <2>1, InactiveClosed
  <2>3. e.from \in NodesOf(graph)
    BY GraphAssumption DEF TypeOK
  <2>4. e.from \notin GivenUp
    <3> SUFFICES ASSUME e.from \in GivenUp PROVE FALSE
      OBVIOUS
    <3> DEFINE S == GivenUp \cup pending
    <3>1. GivenUp = Inactive(S, graph, st) /\ n \in S \ GivenUp
      BY <1>1 DEF Pruned, GivenUp
    <3> QED BY <2>1, <3>1, RestIsActive
  <2> QED BY <2>1, <2>2, <2>3, <2>4 DEF GivenUp
<1> QED BY <1>1, <1>2 DEF Cyclic

-----------------------------------------------------------------------------
(* The types *)

RowTypes == [status : {"none", "working", "completed"} \cup Failures,
             st : States, done : SUBSET Nodes,
             error : {"none", "node", "workflow_deadlock"}]
KeyTypes == [Nodes -> Keys \cup {NoKey}]

LEMMA NodesType == \A g \in Graphs : NodesOf(g) \subseteq Nodes
BY GraphAssumption DEF Graph, NodesOf

LEMMA ConfigTypes ==
  ASSUME TypeOK, NEW n \in Nodes
  PROVE  /\ OutputKey(n) \in Keys \cup {NoKey}
         /\ MaxAttempts(n) \in 1..4 /\ MaxIterations(n) \in 1..50
<1>1. graph.config[n] \in Config
  BY GraphAssumption DEF TypeOK, Graph
<1> QED BY <1>1 DEF Config, OutputKey, MaxAttempts, RetryCount, MaxIterations

LEMMA NoStateType == NoState \in States
BY DEF NoState, States

LEMMA NoResultsType ==
  NoResults \in [Nodes -> [outcome : {"none", "completed"} \cup Failures,
                          value : Values \cup {NoValue}]]
BY DEF NoResults, NoResult

LEMMA SnapshotType ==
  ASSUME NEW status \in {"none", "working", "completed"} \cup Failures,
         NEW s \in States, NEW d \in SUBSET Nodes,
         NEW error \in {"none", "node", "workflow_deadlock"},
         Snapshot(status, s, d, error)
  PROVE  row' \in RowTypes
BY DEF Snapshot, RowTypes

LEMMA ForgetTypes ==
  ASSUME TypeOK, Forget, UNCHANGED <<calls, graph>>, row' \in RowTypes, wrote' \in KeyTypes
  PROVE  TypeOK'
BY NoStateType, NoResultsType DEF TypeOK, Forget, RowTypes, KeyTypes, Nobody

LEMMA InitAccounts == Init => Accounts
<1> SUFFICES ASSUME Init PROVE Accounts
  OBVIOUS
<1> USE DEF Init
<1>1. TypeOK
  BY NoStateType, NoResultsType DEF TypeOK, Nobody
<1>2. Outputs
  BY DEF Outputs, OutputsSurvive, NoResults, NoResult
<1> QED BY <1>1, <1>2 DEF Accounts, Parts, Due, Pruned, SkippedForAReason

LEMMA BeginTypes ==
  ASSUME TypeOK, NEW g \in Graphs, Begin(g)
  PROVE  TypeOK'
<1> USE DEF TypeOK
<1>1. ResumedState \in States /\ ResumedNodes(g) \subseteq Nodes
  BY NoStateType DEF ResumedState, ResumedNodes
<1>2. row' \in RowTypes
  BY NoStateType, SnapshotType DEF Begin, RowTypes
<1> QED BY <1>1, <1>2, NodesType DEF Begin, RowTypes

LEMMA AtomicTypes ==
  ASSUME TypeOK, NEW n \in Nodes, NEW v \in Values, AtomicCompletes(n, v)
  PROVE  TypeOK'
<1> USE DEF TypeOK
<1>1. Written(n, v) \in States
  BY ConfigTypes DEF Written, States
<1>2. row' \in RowTypes
  BY <1>1, SnapshotType DEF AtomicCompletes
<1>3. wrote' \in KeyTypes
  BY ConfigTypes DEF AtomicCompletes, KeyTypes
<1> QED BY <1>1, <1>2, <1>3 DEF AtomicCompletes, RowTypes, KeyTypes

LEMMA AnswerTypes ==
  ASSUME TypeOK, NEW n \in Nodes, NEW outcome \in {"completed"} \cup Failures,
         NEW v \in Values \cup {NoValue}, Answer(n, outcome, v)
  PROVE  result' \in [Nodes -> [outcome : {"none", "completed"} \cup Failures,
                               value : Values \cup {NoValue}]]
BY DEF TypeOK, Answer

LEMMA NodeTypes ==
  ASSUME TypeOK, Answered
  PROVE  TypeOK'
<1> PICK n \in Nodes :
      \/ \E v \in Values : AtomicCompletes(n, v) \/ WorkerCompletes(n, v)
      \/ AtomicRetries(n) \/ WorkerRetries(n) \/ LoopAgain(n)
      \/ \E status \in Failures : AtomicFails(n, status) \/ WorkerFails(n, status)
  BY DEF Answered
<1>1. CASE \E v \in Values : AtomicCompletes(n, v)
  BY <1>1, AtomicTypes
<1>2. CASE \E v \in Values : WorkerCompletes(n, v)
  <2>1. result' \in [Nodes -> [outcome : {"none", "completed"} \cup Failures,
                              value : Values \cup {NoValue}]]
    BY <1>2, AnswerTypes DEF WorkerCompletes
  <2> QED BY <1>2, <2>1 DEF TypeOK, WorkerCompletes
<1>3. CASE AtomicRetries(n) \/ WorkerRetries(n)
  <2>1. attempt' = [attempt EXCEPT ![n] = attempt[n] + 1] /\ attempt[n] < MaxAttempts(n)
    BY <1>3 DEF AtomicRetries, WorkerRetries
  <2>2. attempt' \in [Nodes -> 0..4]
    BY <2>1, ConfigTypes DEF TypeOK
  <2> QED BY <1>3, <2>2 DEF TypeOK, AtomicRetries, WorkerRetries
<1>4. CASE LoopAgain(n)
  <2>1. iteration' \in 0..49
    BY <1>4, ConfigTypes DEF TypeOK, LoopAgain
  <2> QED BY <1>4, <2>1 DEF TypeOK, LoopAgain
<1>5. CASE \E status \in Failures : AtomicFails(n, status)
  <2>1. PICK status \in Failures : AtomicFails(n, status)
    BY <1>5
  <2>2. row' \in RowTypes
    BY <2>1, SnapshotType DEF AtomicFails, Close, TypeOK
  <2> QED BY <2>1, <2>2, ForgetTypes DEF AtomicFails, Close, TypeOK, KeyTypes
<1>6. CASE \E status \in Failures : WorkerFails(n, status)
  <2>1. result' \in [Nodes -> [outcome : {"none", "completed"} \cup Failures,
                              value : Values \cup {NoValue}]]
    BY <1>6, AnswerTypes DEF WorkerFails
  <2> QED BY <1>6, <2>1 DEF TypeOK, WorkerFails
<1> QED BY <1>1, <1>2, <1>3, <1>4, <1>5, <1>6

LEMMA WaveTypes ==
  ASSUME TypeOK, EndWave
  PROVE  TypeOK'
<1> PICK s \in States : Merges(s) /\ (WaveFails(s) \/ WaveSucceeds(s))
  BY DEF EndWave
<1>1. done \cup Kept \in SUBSET Nodes
  BY DEF TypeOK, Kept, Succeeded
<1>4. wrote' \in KeyTypes
  BY ConfigTypes DEF EndWave, TypeOK, KeyTypes
<1>2. CASE WaveFails(s)
  <2>1. PICK n \in Failed : Close(result[n].outcome, s, done \cup Kept, "node")
    BY <1>2 DEF WaveFails
  <2>2. row' \in RowTypes
    BY <1>1, <2>1, SnapshotType DEF Close, Failed
  <2> QED BY <1>4, <2>1, <2>2, ForgetTypes DEF Close, EndWave
<1>3. CASE WaveSucceeds(s)
  <2>1. row' \in RowTypes
    BY <1>1, <1>3, SnapshotType DEF WaveSucceeds
  <2> QED BY <1>1, <1>3, <1>4, <2>1, NoResultsType
          DEF TypeOK, WaveSucceeds, EndWave, RowTypes, KeyTypes
<1> QED BY <1>2, <1>3

LEMMA ProceedTypes ==
  ASSUME TypeOK, Proceed
  PROVE  TypeOK'
<1> USE DEF TypeOK
<1>1. CASE StartBatch
  BY <1>1 DEF StartBatch, Ready
<1>2. CASE StartWave
  <2>1. row' \in RowTypes
    BY <1>2, SnapshotType DEF StartWave
  <2> QED BY <1>2, <2>1 DEF StartWave, Ready, RowTypes
<1>3. CASE Prune
  BY <1>3 DEF Prune
<1>4. CASE Block
  <2>1. row' \in RowTypes
    BY <1>4, SnapshotType DEF Block, Close, Failures
  <2> QED BY <1>4, <2>1, ForgetTypes DEF Block, Close, KeyTypes
<1>5. CASE Complete
  <2>1. row' \in RowTypes
    BY <1>5, SnapshotType DEF Complete, Close
  <2> QED BY <1>5, <2>1, ForgetTypes DEF Complete, Close, KeyTypes
<1>6. CASE StartAtomic
  <2>1. row' \in RowTypes
    BY <1>6, SnapshotType DEF StartAtomic
  <2> QED BY <1>6, <2>1 DEF StartAtomic, RowTypes, Nobody
<1> QED BY <1>1, <1>2, <1>3, <1>4, <1>5, <1>6, WaveTypes DEF Proceed

LEMMA NextTypes ==
  ASSUME Accounts, [Next]_vars
  PROVE  TypeOK'
<1> USE DEF Accounts
<1>1. CASE Abandon
  <2>1. row' \in RowTypes
    BY <1>1 DEF Abandon, TypeOK, RowTypes
  <2> QED BY <1>1, <2>1, ForgetTypes DEF Abandon, TypeOK, KeyTypes
<1>2. CASE UNCHANGED vars
  BY <1>2 DEF TypeOK, vars, local
<1> QED BY <1>1, <1>2, BeginTypes, NodeTypes, ProceedTypes DEF Next

-----------------------------------------------------------------------------
(* The steps, grouped by what they leave alone *)

(* A step of this kind starts, repeats or ends an attempt without a result.   *)
Quiet(n) == \/ AtomicRetries(n) \/ WorkerRetries(n) \/ LoopAgain(n)
            \/ \E v \in Values : WorkerCompletes(n, v)
            \/ \E status \in Failures : WorkerFails(n, status)

LEMMA QuietStep ==
  ASSUME NEW n \in Nodes, Quiet(n)
  PROVE  /\ UNCHANGED <<calls, pc, graph, st, done, pending, running, batch, row, wrote>>
         /\ pc # "idle" /\ pc # "head"
BY DEF Quiet, AtomicRetries, WorkerRetries, LoopAgain, WorkerCompletes, WorkerFails

(* The steps of a call that end it. *)
Ends == \/ Abandon \/ Block \/ Complete
        \/ \E n \in Nodes, status \in Failures : AtomicFails(n, status)
        \/ EndWave /\ \E s \in States : Merges(s) /\ WaveFails(s)

LEMMA EndsForget == Ends => Forget /\ pc # "idle" /\ graph' = graph
BY DEF Ends, Abandon, Block, Complete, AtomicFails, EndWave, WaveFails, Close

(* The steps of a call that go on with it. *)
Continues == EndWave /\ \E s \in States : Merges(s) /\ WaveSucceeds(s)

LEMMA Steps ==
  ASSUME [Next]_vars
  PROVE  \/ \E g \in Graphs : Begin(g)
         \/ Ends \/ Continues
         \/ StartBatch \/ StartWave \/ Prune \/ StartAtomic
         \/ \E n \in Nodes : Quiet(n)
         \/ \E n \in Nodes, v \in Values : AtomicCompletes(n, v)
         \/ UNCHANGED vars
<1>1. EndWave => Ends \/ Continues
  BY DEF EndWave, Ends, Continues
<1> QED BY <1>1 DEF Next, Proceed, Answered, Ends, Quiet

LEMMA ForgetKeeps == Forget => Parts' /\ Due' /\ Pruned'
BY DEF Forget, Parts, Due, Pruned

-----------------------------------------------------------------------------
(* The parts of the graph *)

LEMMA NextParts ==
  ASSUME Accounts, [Next]_vars
  PROVE  Parts'
<1> USE DEF Accounts
<1>1. ASSUME NEW g \in Graphs, Begin(g) PROVE Parts'
  <2>1. row'.done \cap NodesOf(g) \subseteq ResumedNodes(g) /\ row'.status # "completed"
    BY <1>1 DEF Begin, ResumedNodes, Resumable, Snapshot, TypeOK
  <2>2. done' = ResumedNodes(g) /\ pending' = NodesOf(g) \ ResumedNodes(g) /\ graph' = g
    BY <1>1 DEF Begin
  <2>3. NodesOf(graph)' = NodesOf(g)
    BY <2>2 DEF NodesOf
  <2> QED BY <2>1, <2>2, <2>3 DEF Parts
<1>2. CASE StartBatch
  BY <1>2 DEF StartBatch, Parts, NodesOf
<1>3. CASE StartWave
  BY <1>3 DEF StartWave, Snapshot, Parts, NodesOf
<1>4. CASE Prune
  BY <1>4 DEF Prune, Parts, NodesOf
<1>5. CASE StartAtomic
  BY <1>5 DEF StartAtomic, Snapshot, Parts, NodesOf
<1>6. ASSUME NEW n \in Nodes, Quiet(n) PROVE Parts'
  BY <1>6, QuietStep DEF Parts, NodesOf
<1>7. ASSUME NEW n \in Nodes, NEW v \in Values, AtomicCompletes(n, v) PROVE Parts'
  BY <1>7 DEF AtomicCompletes, Snapshot, Parts, NodesOf
<1>8. CASE Continues
  BY <1>8 DEF Continues, EndWave, WaveSucceeds, Snapshot, Kept, Succeeded, Parts, NodesOf
<1>9. CASE UNCHANGED vars
  BY <1>9 DEF vars, local, Parts, NodesOf
<1> QED BY <1>1, <1>2, <1>3, <1>4, <1>5, <1>6, <1>7, <1>8, <1>9, Steps, EndsForget, ForgetKeeps

-----------------------------------------------------------------------------
(* The nodes whose turn has come *)

LEMMA NextDue ==
  ASSUME Accounts, [Next]_vars
  PROVE  Due'
<1> USE DEF Accounts
<1>1. ASSUME NEW g \in Graphs, Begin(g) PROVE Due'
  BY <1>1 DEF Begin, Due
<1>2. CASE StartBatch
  BY <1>2 DEF StartBatch, Ready, IsReady, Due, EdgesOf
<1>3. CASE StartWave
  BY <1>3 DEF StartWave, Ready, IsReady, Due, EdgesOf
<1>4. CASE Prune
  BY <1>4 DEF Prune, Due
<1>5. CASE StartAtomic
  BY <1>5 DEF StartAtomic, Earliest, Due, EdgesOf
<1>6. ASSUME NEW n \in Nodes, Quiet(n) PROVE Due'
  BY <1>6, QuietStep DEF Due, EdgesOf
<1>7. ASSUME NEW n \in Nodes, NEW v \in Values, AtomicCompletes(n, v) PROVE Due'
  BY <1>7 DEF AtomicCompletes, Due, EdgesOf
<1>8. CASE Continues
  BY <1>8 DEF Continues, EndWave, WaveSucceeds, Due
<1>9. CASE UNCHANGED vars
  BY <1>9 DEF vars, local, Due, EdgesOf
<1> QED BY <1>1, <1>2, <1>3, <1>4, <1>5, <1>6, <1>7, <1>8, <1>9, Steps, EndsForget, ForgetKeeps

-----------------------------------------------------------------------------
(* The nodes that are given up *)

(* As long as something is ready or runs, nothing has been given up.          *)
LEMMA NothingYet ==
  ASSUME Accounts, pc # "idle", pc # "head" \/ Ready # {}
  PROVE  GivenUp = {}
BY DEF Accounts, Pruned

LEMMA PrunePruned ==
  ASSUME Accounts, Prune
  PROVE  Pruned'
<1> USE DEF Accounts
<1>1. /\ pc = "head" /\ Ready = {} /\ Inactive(pending, graph, st) # {}
      /\ pending \subseteq NodesOf(graph) /\ pending \cap done = {}
  BY DEF Prune, Parts
<1>2. GivenUp = {}
  <2> SUFFICES ASSUME GivenUp # {} PROVE FALSE
    OBVIOUS
  <2> DEFINE S == GivenUp \cup pending
  <2>1. GivenUp = Inactive(S, graph, st)
    BY <1>1 DEF Pruned
  <2>2. pending = S \ Inactive(S, graph, st)
    BY <2>1 DEF GivenUp
  <2> QED BY <1>1, <2>2, RestIsActive
<1> DEFINE I == Inactive(pending, graph, st)
<1>3. /\ pending' = pending \ I /\ UNCHANGED <<pc, graph, st, done>>
  BY DEF Prune
<1>4. NodesOf(graph)' = NodesOf(graph) /\ I \subseteq pending
  BY <1>3, InactiveSubset DEF NodesOf
<1>5. GivenUp' = I
  BY <1>1, <1>2, <1>3, <1>4 DEF GivenUp
<1>6. GivenUp' \cup pending' = pending
  BY <1>3, <1>4, <1>5
<1>7. Ready' = {}
  BY <1>1, <1>3 DEF Ready, IsReady, EdgesOf
<1>8. Inactive(GivenUp \cup pending, graph, st)' = I
  BY <1>3, <1>6 DEF Inactive, ClosedIn, EdgesOf
<1> QED BY <1>1, <1>3, <1>5, <1>7, <1>8 DEF Pruned

LEMMA NextPruned ==
  ASSUME Accounts, [Next]_vars
  PROVE  Pruned'
<1> USE DEF Accounts
<1>1. ASSUME NEW g \in Graphs, Begin(g) PROVE Pruned'
  BY <1>1 DEF Begin, Pruned, GivenUp, NodesOf
<1>2. CASE StartBatch
  BY <1>2, NothingYet DEF StartBatch, Pruned, GivenUp, NodesOf
<1>3. CASE StartWave
  BY <1>3, NothingYet DEF StartWave, Pruned, GivenUp, NodesOf
<1>4. CASE StartAtomic
  BY <1>4, NothingYet DEF StartAtomic, Pruned, GivenUp, NodesOf
<1>5. ASSUME NEW n \in Nodes, Quiet(n) PROVE Pruned'
  BY <1>5, QuietStep, NothingYet DEF Pruned, GivenUp, NodesOf
<1>6. ASSUME NEW n \in Nodes, NEW v \in Values, AtomicCompletes(n, v) PROVE Pruned'
  BY <1>6, NothingYet DEF AtomicCompletes, Pruned, GivenUp, NodesOf
<1>7. CASE Continues
  <2>1. GivenUp = {}
    BY <1>7, NothingYet DEF Continues, EndWave
  <2>2. running \subseteq Kept
    BY <1>7 DEF Continues, EndWave, WaveSucceeds, Failed, Kept, Succeeded, TypeOK, Due
  <2> QED BY <1>7, <2>1, <2>2 DEF Continues, EndWave, WaveSucceeds, Pruned, GivenUp, NodesOf
<1>8. CASE UNCHANGED vars
  BY <1>8 DEF vars, local, Pruned, GivenUp, NodesOf, Ready, IsReady, EdgesOf, Inactive,
              ClosedIn
<1> QED BY <1>1, <1>2, <1>3, <1>4, <1>5, <1>6, <1>7, <1>8, PrunePruned, Steps, EndsForget,
           ForgetKeeps

-----------------------------------------------------------------------------
(* The outputs *)

(* Every node of d has its output in s, under the key w says.                 *)
HasOutputs(d, s, w) == \A n \in d : w[n] # NoKey => s[w[n]] # NoValue

LEMMA OutputsAre ==
  OutputsSurvive <=> HasOutputs(row.done, row.st, wrote) /\ HasOutputs(done, st, wrote)
BY DEF OutputsSurvive, Found, HasOutputs

LEMMA OutputsAreThen ==
  OutputsSurvive' <=> HasOutputs(row'.done, row'.st, wrote') /\ HasOutputs(done', st', wrote')
BY DEF OutputsSurvive, Found, HasOutputs

(* The end of a wave: what a node of an earlier wave wrote is there still or  *)
(* overwritten, what one of this wave wrote is there or overwritten.          *)
LEMMA MergedOutputs ==
  ASSUME Accounts, EndWave, NEW s \in States, Merges(s)
  PROVE  HasOutputs(done \cup Kept, s, wrote')
<1> USE DEF Accounts
<1> SUFFICES ASSUME NEW n \in done \cup Kept, wrote'[n] # NoKey
             PROVE  s[wrote'[n]] # NoValue
  BY DEF HasOutputs
<1> DEFINE key == wrote'[n]
<1>1. n \in Nodes /\ Kept \subseteq Nodes
  BY DEF Kept, Succeeded, TypeOK
<1>2. key = (IF n \in Kept THEN OutputKey(n) ELSE wrote[n]) /\ key \in Keys
  BY <1>1, ConfigTypes DEF EndWave, TypeOK
<1> DEFINE writers == {m \in Kept : OutputKey(m) = key}
<1>3. CASE writers = {}
  <2>1. n \in done /\ key = wrote[n] /\ s[key] = st[key]
    BY <1>2, <1>3 DEF Merges
  <2> QED BY <1>2, <2>1, OutputsAre DEF Outputs, HasOutputs
<1>4. CASE writers # {}
  <2>1. PICK m \in Kept : s[key] = result[m].value
    BY <1>2, <1>4 DEF Merges
  <2>2. result[m].value \in Values
    BY <1>1, <2>1 DEF Outputs, Kept, Succeeded
  <2> QED BY <2>1, <2>2, ValuesAssumption
<1> QED BY <1>3, <1>4

(* A call ends with a row whose outputs it has. *)
LEMMA EndsOutputs ==
  ASSUME Accounts, Ends
  PROVE  OutputsSurvive'
<1> USE DEF Accounts
<1>0. HasOutputs(done', st', wrote')
  BY EndsForget DEF Forget, HasOutputs
<1>1. CASE Abandon
  <2>1. UNCHANGED <<row, wrote>>
    BY <1>1 DEF Abandon
  <2> QED BY <1>0, <2>1, OutputsAre, OutputsAreThen DEF Outputs
<1>2. CASE Block \/ Complete \/ \E n \in Nodes, status \in Failures : AtomicFails(n, status)
  <2>1. row'.st = st /\ row'.done = done /\ UNCHANGED wrote
    BY <1>2 DEF Block, Complete, AtomicFails, Close, Snapshot
  <2> QED BY <1>0, <2>1, OutputsAre, OutputsAreThen DEF Outputs
<1>3. CASE EndWave /\ \E s \in States : Merges(s) /\ WaveFails(s)
  <2>1. PICK s \in States : Merges(s) /\ row'.st = s /\ row'.done = done \cup Kept
    BY <1>3 DEF WaveFails, Close, Snapshot
  <2> QED BY <1>0, <1>3, <2>1, MergedOutputs, OutputsAreThen
<1> QED BY <1>1, <1>2, <1>3 DEF Ends

LEMMA NextOutputs ==
  ASSUME Accounts, [Next]_vars
  PROVE  Outputs'
<1> USE DEF Accounts
<1>0. HasOutputs(row.done, row.st, wrote) /\ HasOutputs(done, st, wrote)
  BY OutputsAre DEF Outputs
<1>1. ASSUME NEW g \in Graphs, Begin(g) PROVE Outputs'
  <2>1. UNCHANGED <<result, wrote>>
    BY <1>1 DEF Begin
  <2>2. HasOutputs(row'.done, row'.st, wrote)
    BY <1>0, <1>1 DEF Begin, Snapshot, HasOutputs
  <2>3. HasOutputs(done', st', wrote)
    BY <1>0, <1>1 DEF Begin, ResumedNodes, ResumedState, HasOutputs
  <2> QED BY <2>1, <2>2, <2>3, OutputsAreThen DEF Outputs
<1>2. CASE Ends
  <2>1. result' = NoResults
    BY <1>2, EndsForget DEF Forget
  <2> QED BY <1>2, <2>1, EndsOutputs DEF Outputs, NoResults, NoResult
<1>3. CASE Continues
  <2>1. PICK s \in States : Merges(s) /\ WaveSucceeds(s)
    BY <1>3 DEF Continues
  <2>2. HasOutputs(done \cup Kept, s, wrote')
    BY <1>3, <2>1, MergedOutputs DEF Continues
  <2>3. /\ st' = s /\ done' = done \cup Kept /\ result' = NoResults
        /\ row'.st = s /\ row'.done = done \cup Kept
    BY <2>1 DEF WaveSucceeds, Snapshot
  <2> QED BY <2>2, <2>3, OutputsAreThen DEF Outputs, NoResults, NoResult
<1>4. CASE StartBatch \/ Prune
  <2>1. UNCHANGED <<st, done, result, row, wrote>>
    BY <1>4 DEF StartBatch, Prune
  <2> QED BY <1>0, <2>1, OutputsAreThen DEF Outputs
<1>5. CASE StartWave \/ StartAtomic
  <2>1. UNCHANGED <<st, done, result, wrote>> /\ row'.st = st /\ row'.done = done
    BY <1>5 DEF StartWave, StartAtomic, Snapshot
  <2> QED BY <1>0, <2>1, OutputsAreThen DEF Outputs
<1>6. ASSUME NEW n \in Nodes, Quiet(n) PROVE Outputs'
  <2>1. \A m \in Nodes : result'[m].outcome = "completed" => result'[m].value \in Values
    BY <1>6 DEF Quiet, AtomicRetries, WorkerRetries, LoopAgain, WorkerCompletes, WorkerFails,
                Answer, Failures, Outputs, TypeOK
  <2> QED BY <1>0, <1>6, <2>1, QuietStep, OutputsAreThen DEF Outputs
<1>7. ASSUME NEW n \in Nodes, NEW v \in Values, AtomicCompletes(n, v) PROVE Outputs'
  <2>1. /\ UNCHANGED result /\ wrote' = [wrote EXCEPT ![n] = OutputKey(n)]
        /\ st' = Written(n, v) /\ done' = done \cup {n}
        /\ row'.st = Written(n, v) /\ row'.done = done \cup {n}
    BY <1>7 DEF AtomicCompletes, Snapshot
  <2>2. HasOutputs(done \cup {n}, Written(n, v), wrote')
    BY <1>0, <2>1, ValuesAssumption, ConfigTypes DEF HasOutputs, Written, TypeOK, States
  <2> QED BY <2>1, <2>2, OutputsAreThen DEF Outputs
<1>8. CASE UNCHANGED vars
  BY <1>0, <1>8, OutputsAreThen DEF vars, local, Outputs
<1> QED BY <1>1, <1>2, <1>3, <1>4, <1>5, <1>6, <1>7, <1>8, Steps

-----------------------------------------------------------------------------
(* The completed run *)

LEMMA CompleteSkips ==
  ASSUME Accounts, Complete
  PROVE  SkippedForAReason'
<1> USE DEF Accounts
<1>1. /\ pc = "head" /\ pending = {} /\ graph' = graph
      /\ row'.done = done /\ row'.st = st
  BY DEF Complete, Close, Snapshot
<1>2. Inactive(GivenUp, graph, st) = GivenUp
  <2>1. CASE GivenUp = {}
    BY <2>1, InactiveSubset
  <2>2. CASE GivenUp # {}
    <3>1. GivenUp = Inactive(GivenUp \cup pending, graph, st)
      BY <1>1, <2>2 DEF Pruned
    <3>2. GivenUp \cup pending = GivenUp
      BY <1>1
    <3> QED BY <3>1, <3>2
  <2> QED BY <2>1, <2>2
<1>3. GivenUp = NodesOf(graph) \ done
  BY <1>1 DEF GivenUp
<1>4. (NodesOf(graph) \ row.done)' = GivenUp
  BY <1>1, <1>3 DEF NodesOf
<1> QED BY <1>1, <1>2, <1>4 DEF SkippedForAReason

LEMMA NextSkips ==
  ASSUME Accounts, [Next]_vars
  PROVE  SkippedForAReason'
<1> USE DEF Accounts
<1>1. CASE UNCHANGED vars
  BY <1>1 DEF vars, SkippedForAReason, NodesOf
<1>2. CASE ~Complete /\ ~UNCHANGED vars
  <2>1. row'.status # "completed"
    <3>1. ASSUME NEW g \in Graphs, Begin(g) PROVE row'.status # "completed"
      BY <3>1 DEF Begin, Resumable, Snapshot
    <3>2. ASSUME NEW n \in Nodes, Quiet(n) PROVE row'.status # "completed"
      BY <3>2, QuietStep DEF Parts
    <3>3. CASE Ends
      <4>1. CASE Abandon
        BY <4>1 DEF Abandon, Parts
      <4>2. CASE Block
        BY <4>2 DEF Block, Close, Snapshot
      <4>3. ASSUME NEW n \in Nodes, NEW status \in Failures, AtomicFails(n, status)
            PROVE  row'.status # "completed"
        BY <4>3 DEF AtomicFails, Close, Snapshot, Failures
      <4>4. ASSUME NEW s \in States, WaveFails(s) PROVE row'.status # "completed"
        BY <4>4 DEF WaveFails, Failed, Earliest, Close, Snapshot, Failures
      <4> QED BY <1>2, <3>3, <4>1, <4>2, <4>3, <4>4 DEF Ends
    <3>4. CASE StartBatch \/ Prune
      BY <3>4 DEF StartBatch, Prune, Parts
    <3>5. CASE StartWave \/ StartAtomic \/ Continues
      BY <3>5 DEF StartWave, StartAtomic, Continues, WaveSucceeds, Snapshot
    <3>6. ASSUME NEW n \in Nodes, NEW v \in Values, AtomicCompletes(n, v)
          PROVE  row'.status # "completed"
      BY <3>6 DEF AtomicCompletes, Snapshot
    <3> QED BY <1>2, <3>1, <3>2, <3>3, <3>4, <3>5, <3>6, Steps
  <2> QED BY <2>1 DEF SkippedForAReason
<1> QED BY <1>1, <1>2, CompleteSkips

-----------------------------------------------------------------------------
(* The work of a call *)

(* A call that goes on has less to do. *)
Shrinks == pc # "idle" /\ pc' # "idle" => Todo' \subseteq Todo /\ Todo' # Todo

(* While it waits for a node there is one to wait for; atomic nodes run alone. *)
Busy == /\ pc = "wave" => running # {}
        /\ pc = "batch" => /\ batch # {} /\ running \subseteq batch
                           /\ \A m, n \in running : m = n

LEMMA NextBusy ==
  ASSUME Accounts, Busy, [Next]_vars
  PROVE  Busy'
<1> USE DEF Accounts
<1>1. ASSUME NEW g \in Graphs, Begin(g) PROVE Busy'
  BY <1>1 DEF Begin, Busy
<1>2. CASE Ends
  BY <1>2, EndsForget DEF Forget, Busy
<1>3. CASE Continues
  BY <1>3 DEF Continues, WaveSucceeds, Busy
<1>4. CASE StartBatch \/ StartWave \/ Prune
  BY <1>4 DEF StartBatch, StartWave, Prune, Due, Busy
<1>5. CASE StartAtomic
  BY <1>5 DEF StartAtomic, Earliest, Busy
<1>6. ASSUME NEW n \in Nodes, Quiet(n) PROVE Busy'
  BY <1>6, QuietStep DEF Busy
<1>7. ASSUME NEW n \in Nodes, NEW v \in Values, AtomicCompletes(n, v) PROVE Busy'
  BY <1>7 DEF AtomicCompletes, Busy
<1>8. CASE UNCHANGED vars
  BY <1>8 DEF vars, local, Busy
<1> QED BY <1>1, <1>2, <1>3, <1>4, <1>5, <1>6, <1>7, <1>8, Steps

(* One chore that is taken away and none that is added. *)
LEMMA OneIsDone ==
  ASSUME NEW m \in Nodes, NEW chore \in Chores, NEW i \in 0..49,
         Left(m, chore, i), ~Left(m, chore, i)',
         \A n \in Nodes, c \in Chores, j \in 0..49 : Left(n, c, j)' => Left(n, c, j)
  PROVE  Todo' \subseteq Todo /\ Todo' # Todo
<1>1. Todo' \subseteq Todo
  BY DEF Todo
<1>2. <<m, <<chore, i>>>> \in Todo \ Todo'
  BY DEF Todo
<1> QED BY <1>1, <1>2

(* A node that is not pending any more. *)
LEMMA NodeIsDone ==
  ASSUME TypeOK, NEW m \in pending \ pending',
         \A n \in Nodes, c \in Chores, j \in 0..49 : Left(n, c, j)' => Left(n, c, j)
  PROVE  Todo' \subseteq Todo /\ Todo' # Todo
<1>1. m \in Nodes /\ attempt[m] \in 0..4
  BY DEF TypeOK
<1>2. Left(m, "attempt", 49) /\ ~Left(m, "attempt", 49)'
  BY <1>1 DEF Left
<1>3. "attempt" \in Chores /\ 49 \in 0..49
  BY DEF Chores
<1> QED BY <1>1, <1>2, <1>3, OneIsDone

LEMMA QuietShrinks ==
  ASSUME Accounts, NEW n \in Nodes, Quiet(n)
  PROVE  Todo' \subseteq Todo /\ Todo' # Todo
<1> USE DEF Accounts
<1>0. /\ UNCHANGED <<pending, running, batch>> /\ n \in running /\ n \in pending
      /\ attempt \in [Nodes -> 0..4] /\ iteration \in 0..49
  BY QuietStep DEF Quiet, AtomicRetries, WorkerRetries, LoopAgain, WorkerCompletes, WorkerFails,
                   Due, TypeOK
<1>1. CASE AtomicRetries(n) \/ WorkerRetries(n)
  <2>1. /\ attempt' = [attempt EXCEPT ![n] = attempt[n] + 1] /\ attempt[n] < 4
        /\ UNCHANGED <<iteration, result>>
    <3>1. attempt' = [attempt EXCEPT ![n] = attempt[n] + 1] /\ attempt[n] < MaxAttempts(n)
          /\ UNCHANGED <<iteration, result>>
      BY <1>1 DEF AtomicRetries, WorkerRetries
    <3>2. MaxAttempts(n) \in 1..4
      BY ConfigTypes
    <3> QED BY <1>0, <3>1, <3>2
  <2>2. PICK i \in 0..49 : i = attempt[n] + 1
    BY <1>0, <2>1
  <2>5. Left(n, "attempt", i) /\ ~Left(n, "attempt", i)'
    BY <1>0, <2>1, <2>2 DEF Left
  <2>3. \A m \in Nodes, c \in Chores, j \in 0..49 : Left(m, c, j)' => Left(m, c, j)
    BY <1>0, <2>1 DEF Left
  <2>4. "attempt" \in Chores
    BY DEF Chores
  <2> QED BY <2>3, <2>4, <2>5, OneIsDone
<1>2. CASE LoopAgain(n)
  <2>1. iteration' = iteration + 1 /\ iteration' \in 0..49 /\ UNCHANGED <<attempt, result>>
    BY <1>0, <1>2, ConfigTypes DEF LoopAgain
  <2>2. PICK i \in 0..49 : i = iteration + 1
    BY <2>1
  <2>4. Left(n, "iteration", i) /\ ~Left(n, "iteration", i)'
    BY <1>0, <2>1, <2>2 DEF Left
  <2>5. "iteration" \in Chores
    BY DEF Chores
  <2>3. \A m \in Nodes, c \in Chores, j \in 0..49 : Left(m, c, j)' => Left(m, c, j)
    BY <1>0, <2>1, <1>2 DEF Left
  <2> QED BY <2>3, <2>4, <2>5, OneIsDone
<1>3. CASE (\E v \in Values : WorkerCompletes(n, v))
           \/ \E status \in Failures : WorkerFails(n, status)
  <2>1. /\ result[n].outcome = "none" /\ UNCHANGED <<attempt, iteration>>
        /\ \E o \in {"completed"} \cup Failures, v \in Values \cup {NoValue} : Answer(n, o, v)
    BY <1>3 DEF WorkerCompletes, WorkerFails
  <2>2. /\ result'[n].outcome # "none"
        /\ \A m \in Nodes \ {n} : result'[m] = result[m]
    BY <2>1 DEF Answer, Failures, TypeOK
  <2>3. Left(n, "answer", 0) /\ ~Left(n, "answer", 0)'
    BY <1>0, <2>1, <2>2 DEF Left
  <2>4. \A m \in Nodes, c \in Chores, j \in 0..49 : Left(m, c, j)' => Left(m, c, j)
    BY <1>0, <2>1, <2>2 DEF Left
  <2>5. "answer" \in Chores /\ 0 \in 0..49
    BY DEF Chores
  <2> QED BY <2>3, <2>4, <2>5, OneIsDone
<1> QED BY <1>1, <1>2, <1>3 DEF Quiet

LEMMA StepShrinks ==
  ASSUME Accounts, Busy, Next, vars' # vars
  PROVE  Shrinks
<1> SUFFICES ASSUME pc # "idle", pc' # "idle" PROVE Todo' \subseteq Todo /\ Todo' # Todo
  BY DEF Shrinks
<1> USE DEF Accounts
<1> DEFINE Fewer == \A n \in Nodes, c \in Chores, j \in 0..49 : Left(n, c, j)' => Left(n, c, j)
<1>0. /\ pending \subseteq Nodes /\ batch \cup running \subseteq pending
      /\ "due" \in Chores /\ "start" \in Chores /\ 0 \in 0..49
  BY DEF TypeOK, Due, Chores
<1>1. CASE StartBatch
  <2>1. PICK n \in Ready : n \in batch'
    BY <1>1 DEF StartBatch
  <2>2. batch = {} /\ running = {} /\ UNCHANGED <<pending, running>>
    BY <1>1 DEF StartBatch, Due
  <2>3. n \in pending /\ Left(n, "due", 0) /\ ~Left(n, "due", 0)'
    BY <2>1, <2>2 DEF Left, Ready
  <2>4. Fewer
    BY <2>2 DEF Left
  <2> QED BY <1>0, <2>3, <2>4, OneIsDone
<1>2. CASE StartWave
  <2>1. PICK n \in Ready : n \in running'
    BY <1>2 DEF StartWave
  <2>2. batch = {} /\ running = {} /\ UNCHANGED <<pending, batch>>
    BY <1>2 DEF StartWave, Due
  <2>3. n \in pending /\ Left(n, "start", 0) /\ ~Left(n, "start", 0)'
    BY <2>1, <2>2 DEF Left, Ready
  <2>4. Fewer
    BY <2>2 DEF Left
  <2> QED BY <1>0, <2>3, <2>4, OneIsDone
<1>3. CASE StartAtomic
  <2>1. PICK n \in batch : running' = {n}
    BY <1>3 DEF StartAtomic, Earliest
  <2>2. running = {} /\ UNCHANGED <<pending, batch>>
    BY <1>3 DEF StartAtomic
  <2>3. n \in pending /\ Left(n, "start", 0) /\ ~Left(n, "start", 0)'
    BY <1>0, <2>1, <2>2 DEF Left
  <2>4. Fewer
    BY <1>0, <2>1, <2>2 DEF Left
  <2> QED BY <1>0, <2>3, <2>4, OneIsDone
<1>4. CASE Prune
  <2>1. PICK n \in pending : n \notin pending'
    BY <1>4, InactiveSubset DEF Prune
  <2>2. pending' \subseteq pending /\ UNCHANGED <<running, batch, attempt, iteration, result>>
    BY <1>4 DEF Prune
  <2>3. Fewer
    BY <2>2 DEF Left
  <2> QED BY <2>1, <2>3, NodeIsDone
<1>5. ASSUME NEW n \in Nodes, NEW v \in Values, AtomicCompletes(n, v)
      PROVE  Todo' \subseteq Todo /\ Todo' # Todo
  <2>1. /\ pending' = pending \ {n} /\ running' = {} /\ batch' = batch \ {n}
        /\ pc = "batch" /\ n \in running
    BY <1>5 DEF AtomicCompletes
  <2>2. running = {n} /\ n \in pending
    BY <1>0, <2>1 DEF Busy
  <2>3. Fewer
    BY <2>1, <2>2 DEF Left
  <2> QED BY <2>1, <2>2, <2>3, NodeIsDone
<1>6. CASE Continues
  <2>1. pc = "wave" /\ pending' = pending \ running /\ running' = {} /\ batch' = batch
    BY <1>6 DEF Continues, EndWave, WaveSucceeds
  <2>2. PICK n \in running : n \in pending
    BY <1>0, <2>1 DEF Busy
  <2>3. Fewer
    BY <2>1 DEF Left
  <2> QED BY <2>1, <2>2, <2>3, NodeIsDone
<1>7. ~Ends /\ ~\E g \in Graphs : Begin(g)
  BY EndsForget DEF Forget, Begin
<1> QED BY <1>1, <1>2, <1>3, <1>4, <1>5, <1>6, <1>7, QuietShrinks, Steps

(* The work of a call is finite. *)
LEMMA TodoIsFinite ==
  ASSUME Accounts
  PROVE  pc # "idle" => IsFiniteSet(Todo)
<1> SUFFICES ASSUME pc # "idle" PROVE IsFiniteSet(Todo)
  OBVIOUS
<1> USE DEF Accounts
<1>1. graph.nodes \in Seq(Nodes) /\ DOMAIN graph.nodes = 1..Len(graph.nodes)
      /\ Len(graph.nodes) \in Nat
  <2>1. graph \in Graph
    BY GraphAssumption DEF TypeOK
  <2> QED BY <2>1 DEF Graph
<1>2. graph.nodes \in Surjection(1..Len(graph.nodes), NodesOf(graph))
  <2>1. \A n \in NodesOf(graph) : \E i \in 1..Len(graph.nodes) : graph.nodes[i] = n
    BY <1>1 DEF NodesOf
  <2>2. graph.nodes = [i \in 1..Len(graph.nodes) |-> graph.nodes[i]]
    BY <1>1
  <2>3. \A i \in 1..Len(graph.nodes) : graph.nodes[i] \in NodesOf(graph)
    BY <1>1 DEF NodesOf
  <2>4. graph.nodes \in [1..Len(graph.nodes) -> NodesOf(graph)]
    BY <2>2, <2>3
  <2> QED BY <2>1, <2>4 DEF Surjection
<1>3. IsFiniteSet(NodesOf(graph))
  <2>1. IsFiniteSet(1..Len(graph.nodes))
    BY <1>1, FS_Interval
  <2> QED BY <1>2, <2>1, FS_Surjection
<1>4. IsFiniteSet(Chores)
  <2> DEFINE two == {"due"} \cup {"start"}
             four == (two \cup {"attempt"}) \cup {"iteration"}
  <2>1. IsFiniteSet(two)
    BY FS_Singleton, FS_AddElement
  <2>2. IsFiniteSet(four)
    <3> HIDE DEF two
    <3>1. IsFiniteSet(two \cup {"attempt"})
      BY <2>1, FS_AddElement
    <3> QED BY <3>1, FS_AddElement
  <2>3. IsFiniteSet(four \cup {"answer"})
    <3> HIDE DEF four
    <3> QED BY <2>2, FS_AddElement
  <2>4. Chores = four \cup {"answer"}
    BY DEF Chores
  <2> QED BY <2>3, <2>4
<1>5. IsFiniteSet(NodesOf(graph) \X (Chores \X (0..49)))
  <2>1. IsFiniteSet(0..49)
    <3>1. 0 \in Int /\ 49 \in Int
      OBVIOUS
    <3> QED BY ONLY <3>1, FS_Interval
  <2>2. IsFiniteSet(Chores \X (0..49))
    BY <1>4, <2>1, FS_Product
  <2> QED BY <1>3, <2>2, FS_Product
<1>6. Todo \subseteq NodesOf(graph) \X (Chores \X (0..49))
  BY DEF Todo, Left, Parts
<1> QED BY <1>5, <1>6, FS_Subset

-----------------------------------------------------------------------------
(* Theorems *)

LEMMA AccountsKept == Spec => []Accounts
<1>1. Accounts /\ [Next]_vars => Accounts'
  BY NextTypes, NextParts, NextDue, NextPruned, NextOutputs, NextSkips DEF Accounts
<1> QED BY InitAccounts, <1>1, PTL DEF Spec

(* Every variable always has its type: no node is tried more than four times  *)
(* and no loop goes round more than fifty times.                              *)
THEOREM TypeCorrect == Spec => []TypeOK
<1>1. Accounts => TypeOK
  BY DEF Accounts
<1> QED BY AccountsKept, <1>1, PTL

(* Whatever the workflow, the answers, the failures and the edits between the *)
(* calls, a call gives up with workflow_deadlock only if the graph has a      *)
(* cycle.                                                                     *)
THEOREM OnlyCyclesBlock == Spec => AcyclicNeverBlocks
<1>1. Accounts /\ [Next]_vars => [Block => Cyclic(graph)]_vars
  BY BlockedIsCyclic
<1> QED BY AccountsKept, <1>1, PTL DEF Spec, AcyclicNeverBlocks

(* What a completed run has skipped is behind a condition that is false in    *)
(* its final state.                                                           *)
THEOREM SkippedIsInactive == Spec => []SkippedForAReason
<1>1. Accounts => SkippedForAReason
  BY DEF Accounts
<1> QED BY AccountsKept, <1>1, PTL

(* The row, and the call that continues it, hold the output of every node     *)
(* they say is completed, under the key it had when it completed: whatever    *)
(* was edited since, in the graph or in the configuration of its nodes.       *)
THEOREM OutputsKept == Spec => []OutputsSurvive
<1>1. Accounts => OutputsSurvive
  BY DEF Accounts, Outputs
<1> QED BY AccountsKept, <1>1, PTL

(* A node that completes has found every upstream node completed.             *)
THEOREM DependenciesFirst == Spec => UpstreamFirst
<1>1. ASSUME Accounts, Next, pc # "idle", NEW n \in done' \ done,
             NEW e \in EdgesOf(graph), e.to = n
      PROVE  e.from \in done
  <2> USE DEF Accounts
  <2>1. ASSUME NEW m \in Nodes, NEW v \in Values, AtomicCompletes(m, v) PROVE e.from \in done
    BY <1>1, <2>1 DEF AtomicCompletes, Due
  <2>2. CASE Continues
    BY <1>1, <2>2 DEF Continues, WaveSucceeds, Kept, Succeeded, Due
  <2>3. CASE Ends
    BY <1>1, <2>3, EndsForget DEF Forget
  <2>4. ASSUME NEW m \in Nodes, Quiet(m) PROVE e.from \in done
    BY <1>1, <2>4, QuietStep
  <2>5. CASE StartBatch \/ StartWave \/ Prune \/ StartAtomic \/ UNCHANGED vars
    BY <1>1, <2>5 DEF StartBatch, StartWave, Prune, StartAtomic, vars, local
  <2>6. ASSUME NEW g \in Graphs, Begin(g) PROVE e.from \in done
    BY <1>1, <2>6 DEF Begin
  <2> QED BY <1>1, <2>1, <2>2, <2>3, <2>4, <2>5, <2>6, Steps
<1>2. Accounts /\ [Next]_vars
        => [\A n \in done' \ done : pc # "idle" =>
              \A e \in EdgesOf(graph) : e.to = n => e.from \in done]_vars
  BY <1>1
<1> QED BY AccountsKept, <1>2, PTL DEF Spec, UpstreamFirst

(* A row that is continued keeps every completed node that is still in the    *)
(* graph.                                                                     *)
THEOREM ProgressIsKept == Spec => ProgressKept
<1>1. ASSUME Accounts, Next, Resumable
      PROVE  row.done \cap NodesOf(graph') \subseteq row'.done
  <2> USE DEF Accounts
  <2>1. ASSUME NEW g \in Graphs, Begin(g) PROVE row'.done = row.done
    BY <1>1, <2>1 DEF Begin
  <2>2. CASE pc # "idle"
    <3>1. graph' = graph /\ (row' = row \/ done \subseteq row'.done)
      <4>1. CASE Ends
        BY <4>1 DEF Ends, Abandon, Block, Complete, AtomicFails, EndWave, WaveFails, Close,
                    Snapshot
      <4>2. CASE Continues
        BY <4>2 DEF Continues, EndWave, WaveSucceeds, Snapshot
      <4>3. CASE StartBatch \/ StartWave \/ Prune \/ StartAtomic \/ UNCHANGED vars
        BY <4>3 DEF StartBatch, StartWave, Prune, StartAtomic, Snapshot, vars
      <4>4. ASSUME NEW m \in Nodes, Quiet(m)
            PROVE  graph' = graph /\ (row' = row \/ done \subseteq row'.done)
        BY <4>4, QuietStep
      <4>5. ASSUME NEW m \in Nodes, NEW v \in Values, AtomicCompletes(m, v)
            PROVE  graph' = graph /\ (row' = row \/ done \subseteq row'.done)
        BY <4>5 DEF AtomicCompletes, Snapshot
      <4> QED BY <1>1, <2>2, <4>1, <4>2, <4>3, <4>4, <4>5, Steps DEF Begin
    <3>2. row.done \cap NodesOf(graph) \subseteq done
      BY <1>1, <2>2 DEF Parts
    <3>3. NodesOf(graph') = NodesOf(graph)
      BY <3>1
    <3>4. CASE row' = row
      BY <3>4
    <3>5. CASE done \subseteq row'.done
      BY <3>2, <3>3, <3>5
    <3> QED BY <3>1, <3>4, <3>5
  <2>3. CASE pc = "idle" /\ ~\E g \in Graphs : Begin(g)
    <3>1. ~Ends /\ \A n \in Nodes : ~Quiet(n)
      BY <2>3, EndsForget, QuietStep
    <3>2. ~(Continues \/ StartBatch \/ StartWave \/ Prune \/ StartAtomic)
      BY <2>3 DEF Continues, EndWave, StartBatch, StartWave, Prune, StartAtomic
    <3>3. \A n \in Nodes, v \in Values : ~AtomicCompletes(n, v)
      BY <2>3 DEF AtomicCompletes
    <3>4. UNCHANGED vars
      BY <1>1, <2>3, <3>1, <3>2, <3>3, Steps
    <3> QED BY <3>4 DEF vars
  <2> QED BY <1>1, <2>1, <2>2, <2>3
<1>2. ASSUME Accounts, Next, pc = "wave", row' # row
      PROVE  Succeeded \subseteq row'.done
  <2>1. CASE EndWave
    BY <2>1 DEF EndWave, WaveFails, WaveSucceeds, Close, Snapshot, Kept
  <2>2. CASE Abandon \/ StartBatch \/ StartWave \/ Prune \/ Block \/ Complete \/ StartAtomic
    BY <1>2, <2>2 DEF Abandon, StartBatch, StartWave, Prune, Block, Complete, StartAtomic
  <2>3. ~\E g \in Graphs : Begin(g)
    BY <1>2 DEF Begin
  <2>4. \A n \in Nodes : ~Quiet(n)
    BY <1>2, QuietStep
  <2>5. \A n \in Nodes, v \in Values \cup Failures : ~AtomicCompletes(n, v) /\ ~AtomicFails(n, v)
    BY <1>2 DEF AtomicCompletes, AtomicFails
  <2> QED BY <1>2, <2>1, <2>2, <2>3, <2>4, <2>5, Steps DEF Ends, Continues, vars
<1>3. Accounts /\ [Next]_vars
        => [/\ Resumable => row.done \cap NodesOf(graph') \subseteq row'.done
            /\ pc = "wave" /\ row' # row => Succeeded \subseteq row'.done]_vars
  BY <1>1, <1>2
<1> QED BY AccountsKept, <1>3, PTL DEF Spec, ProgressKept

LEMMA BusyAlways == Spec => []Busy
<1>1. Init => Busy
  BY DEF Init, Busy
<1>2. Accounts /\ Busy /\ [Next]_vars => Busy'
  BY NextBusy
<1> QED BY <1>1, <1>2, AccountsKept, PTL DEF Spec

(* Every step of a call takes from what it has left to do, and brings nothing *)
(* back: whatever is configured, answered, retried and repeated, and on a     *)
(* graph with a cycle too.                                                    *)
THEOREM EveryStepCounts == Spec => WorkRunsDown
<1>1. Accounts /\ Busy /\ [Next]_vars => [Shrinks]_vars
  BY StepShrinks
<1> QED BY <1>1, AccountsKept, BusyAlways, PTL DEF Spec, Shrinks, WorkRunsDown

(* What is left to do is finite, and a call that waits for a node has one to  *)
(* wait for.  With EveryStepCounts this is what CallEnds rests on.            *)
THEOREM WorkIsFinite == Spec => [](Busy /\ (pc # "idle" => IsFiniteSet(Todo)))
<1>1. Accounts => (pc # "idle" => IsFiniteSet(Todo))
  BY TodoIsFinite
<1> QED BY <1>1, AccountsKept, BusyAlways, PTL
=============================================================================
