---------------------------- MODULE WorkflowRuns ----------------------------
(***************************************************************************)
(* The managed workflow of a session: executeWorkflowAgentPlan of          *)
(* packages/agent-runtime/src/services/workflow-executor.ts, the tool      *)
(* workflow_run of session.service.ts that calls it and continues an       *)
(* unfinished run, and the latest workflow_runs row of the session.        *)
(*                                                                         *)
(* One call at a time, as the host is told.  The graph and the             *)
(* configuration of its nodes may have been edited before each call.       *)
(* What a node says is a member of Values; the objective, the text of      *)
(* prompts, the inputs of a node and the branches of one attempt of a      *)
(* subagent (an attempt completes if all of them do) are left out.         *)
(***************************************************************************)
EXTENDS Integers, Sequences, FiniteSets

CONSTANTS
  Nodes,    \* node ids
  Graphs,   \* the graphs the workflow may have when a call begins
  Keys,     \* keys of the workflow's state
  NoKey,    \* outputKey of a node that has none
  Values,   \* what a node or a worker can answer
  Truthy,   \* the values JavaScript takes for true
  NoValue,  \* a key that is not in the state
  MaxCalls  \* bound: calls of workflow_run

Kinds       == {"worker", "atomic", "approval", "loop"}
Ops         == {"always", "exists", "equals", "not_equals", "truthy", "falsy"}
Condition   == [op : Ops, key : Keys, value : Values]
Edge        == [from : Nodes, to : Nodes, cond : Condition]
States      == [Keys -> Values \cup {NoValue}]
Config      == [kind : Kinds, outputKey : Keys \cup {NoKey},
                retryCount : Int, maxIterations : Int]
Graph       == [nodes : Seq(Nodes), edges : Seq(Edge), config : [Nodes -> Config]]
NodesOf(g)  == {g.nodes[i] : i \in DOMAIN g.nodes}
EdgesOf(g)  == {g.edges[i] : i \in DOMAIN g.edges}

ASSUME ValuesAssumption ==
  /\ NoKey \notin Keys /\ NoValue \notin Values /\ Truthy \subseteq Values
  /\ MaxCalls \in Nat

\* normalizeWorkflowGraph drops the edges of unknown nodes
ASSUME GraphAssumption ==
  Graphs \subseteq {g \in Graph : \A e \in EdgesOf(g) :
                                    {e.from, e.to} \subseteq NodesOf(g)}

VARIABLES
  calls,      \* calls begun
  pc,         \* where the call stands; "idle" without one
  graph,      \* the graph of the call
  st,         \* its state
  done,       \* completedNodeIds
  pending,    \* pendingNodes
  running,    \* runningNodeIds
  batch,      \* the rest of the ready nodes it executes one by one
  attempt,    \* node -> attempts begun
  iteration,  \* iterations of the loop that runs
  result,     \* node -> its result in the wave
  row,        \* the latest workflow_runs row of the session
  wrote       \* history, read by OutputsSurvive only: node -> the outputKey it
              \* had when it last completed

local == <<pc, st, done, pending, running, batch, attempt, iteration, result>>
vars  == <<calls, graph, local, row, wrote>>

NoState   == [k \in Keys |-> NoValue]
Nobody    == [n \in Nodes |-> 0]
NoResult  == [outcome |-> "none", value |-> NoValue]
NoResults == [n \in Nodes |-> NoResult]
Failures  == {"failed", "canceled"}

-----------------------------------------------------------------------------
(* The graph *)

Kind(n)      == graph.config[n].kind
OutputKey(n) == graph.config[n].outputKey

\* Faulty: the configured number is taken as it is
FaultyRetryCount(n) == graph.config[n].retryCount
RetryCount(n) == LET raw == graph.config[n].retryCount IN
                   IF raw < 0 THEN 0 ELSE IF raw > 3 THEN 3 ELSE raw

MaxIterations(n) == LET raw == graph.config[n].maxIterations IN
                      IF raw < 1 THEN 1 ELSE IF raw > 50 THEN 50 ELSE raw

\* a refused approval and a failed loop are not tried again
MaxAttempts(n) == IF Kind(n) \in {"approval", "loop"} THEN 1 ELSE 1 + RetryCount(n)

Holds(c, s) ==
  CASE c.op = "always"     -> TRUE
    [] c.op = "exists"     -> s[c.key] # NoValue
    [] c.op = "equals"     -> s[c.key] = c.value
    [] c.op = "not_equals" -> s[c.key] # c.value
    [] c.op = "truthy"     -> s[c.key] \in Truthy
    [] c.op = "falsy"      -> s[c.key] \notin Truthy

\* topological order, or the declared order if there is a cycle: one node
\* leaves the queue at each step
OrderNodes(g) ==
  LET size == Len(g.nodes)
      into(n) == Cardinality({i \in DOMAIN g.edges : g.edges[i].to = n})
      start == [incoming |-> [n \in NodesOf(g) |-> into(n)],
                queue |-> SelectSeq(g.nodes, LAMBDA n : into(n) = 0),
                ordered |-> <<>>]
      Take(s) ==
        LET node == Head(s.queue)
            out(m) == {i \in DOMAIN g.edges :
                         g.edges[i].from = node /\ g.edges[i].to = m}
            left == [m \in NodesOf(g) |-> s.incoming[m] - Cardinality(out(m))]
            opens(i) == LET m == g.edges[i].to IN
                          i \in out(m) /\ left[m] = 0 /\ \A j \in out(m) : j <= i
            opened == SelectSeq([i \in DOMAIN g.edges |-> i], opens)
        IN [incoming |-> left, ordered |-> Append(s.ordered, node),
            queue |-> Tail(s.queue) \o
                      [i \in DOMAIN opened |-> g.edges[opened[i]].to]]
      walk[i \in 0..size] ==
        IF i = 0 THEN start
        ELSE LET s == walk[i - 1] IN IF s.queue = <<>> THEN s ELSE Take(s)
      order == walk[size].ordered
  IN IF Len(order) = size THEN order ELSE g.nodes

orderedNodes == [g \in Graphs |-> OrderNodes(g)]

\* Faulty: only the conditions count
FaultyIsReady(n) == \A e \in EdgesOf(graph) : e.to = n => Holds(e.cond, st)

IsReady(n) == \A e \in EdgesOf(graph) :
                e.to = n => Holds(e.cond, st) /\ e.from \in done

\* Faulty: nodes that have run are looked at again
FaultyReady == {n \in NodesOf(graph) : IsReady(n)}

Ready  == {n \in pending : IsReady(n)}
Worker == {n \in Nodes : Kind(n) = "worker"}

\* n comes before the others of S in orderedNodes
Place(n) == CHOOSE i \in DOMAIN orderedNodes[graph] : orderedNodes[graph][i] = n
Earliest(n, S) == n \in S /\ \A m \in S : Place(n) <= Place(m)

\* T holds every node of S with a false condition or an inactive upstream node
ClosedIn(T, S, g, s) ==
  \A e \in EdgesOf(g) :
    e.to \in S /\ (~Holds(e.cond, s) \/ e.from \in T) => e.to \in T

\* Faulty: one step of the propagation only
FaultyInactive(S, g, s) ==
  {n \in S : \E e \in EdgesOf(g) : e.to = n /\ ~Holds(e.cond, s)}

\* collectWorkflowInactiveNodeIds: the least such set
Inactive(S, g, s) == {n \in S : \A T \in SUBSET S : ClosedIn(T, S, g, s) => n \in T}

-----------------------------------------------------------------------------
(* The call *)

Init ==
  /\ calls = 0 /\ pc = "idle" /\ graph \in Graphs
  /\ st = NoState /\ done = {} /\ pending = {} /\ running = {} /\ batch = {}
  /\ attempt = Nobody /\ iteration = 0 /\ result = NoResults
  /\ row = [status |-> "none", st |-> NoState, done |-> {}, error |-> "none"]
  /\ wrote = [n \in Nodes |-> NoKey]

\* findLatestResumable: canceled and completed runs are not continued
Resumable == row.status \in {"working", "failed"}

ResumedNodes(g) == IF Resumable THEN row.done \cap NodesOf(g) ELSE {}

\* Faulty: the state of the row is not read
FaultyResumedState == NoState
ResumedState == IF Resumable THEN row.st ELSE NoState

\* onSnapshot, synchronous: the row mirrors the call
Snapshot(status, s, d, error) ==
  row' = [status |-> status, st |-> s, done |-> d, error |-> error]

\* the tool is called: the unfinished run is continued, or a new row is made
Begin(g) ==
  /\ pc = "idle" /\ calls < MaxCalls
  /\ calls' = calls + 1 /\ graph' = g /\ pc' = "head"
  /\ st' = ResumedState /\ done' = ResumedNodes(g)
  /\ pending' = NodesOf(g) \ ResumedNodes(g)
  /\ IF Resumable THEN UNCHANGED row ELSE Snapshot("working", NoState, {}, "none")
  /\ UNCHANGED <<running, batch, attempt, iteration, result, wrote>>

\* the variables of executeWorkflowAgentPlan are gone
Forget ==
  /\ pc' = "idle" /\ st' = NoState /\ done' = {} /\ pending' = {}
  /\ running' = {} /\ batch' = {} /\ attempt' = Nobody /\ iteration' = 0
  /\ result' = NoResults

\* it returns, after the last snapshot
Close(status, s, d, error) == Forget /\ Snapshot(status, s, d, error)

\* the process exits, or an exception leaves the executor: the row stays
Abandon ==
  /\ pc # "idle" /\ Forget
  /\ UNCHANGED <<calls, graph, row, wrote>>

-----------------------------------------------------------------------------
(* The head of the loop *)

\* ready nodes that are not agents go one after the other
StartBatch ==
  /\ pc = "head" /\ Ready \ Worker # {}
  /\ batch' = Ready \ Worker /\ pc' = "batch"
  /\ UNCHANGED <<calls, graph, st, done, pending, running, attempt,
                 iteration, result, row, wrote>>

\* only agents are ready: all at once
StartWave ==
  /\ pc = "head" /\ Ready # {} /\ Ready \subseteq Worker
  /\ running' = Ready /\ pc' = "wave"
  /\ attempt' = [n \in Nodes |-> IF n \in Ready THEN 1 ELSE 0]
  /\ Snapshot("working", st, done, "none")
  /\ UNCHANGED <<calls, graph, st, done, pending, batch, iteration, result,
                 wrote>>

\* Faulty: nodes are given up while others can still change the state
FaultyPrune ==
  /\ pc = "head" /\ Inactive(pending, graph, st) # {}
  /\ pending' = pending \ Inactive(pending, graph, st)
  /\ UNCHANGED <<calls, pc, graph, st, done, running, batch, attempt,
                 iteration, result, row, wrote>>

\* nothing is ready: nodes behind a false condition are given up
Prune ==
  /\ pc = "head" /\ Ready = {} /\ Inactive(pending, graph, st) # {}
  /\ pending' = pending \ Inactive(pending, graph, st)
  /\ UNCHANGED <<calls, pc, graph, st, done, running, batch, attempt,
                 iteration, result, row, wrote>>

\* Faulty: the call does not notice that nothing can run
FaultyBlock == FALSE /\ UNCHANGED vars

\* nothing is ready and nothing can be given up: workflow_deadlock
Block ==
  /\ pc = "head" /\ pending # {} /\ Ready = {}
  /\ Inactive(pending, graph, st) = {}
  /\ Close("failed", st, done, "workflow_deadlock")
  /\ UNCHANGED <<calls, graph, wrote>>

Complete ==
  /\ pc = "head" /\ pending = {}
  /\ Close("completed", st, done, "none")
  /\ UNCHANGED <<calls, graph, wrote>>

-----------------------------------------------------------------------------
(* Nodes that run one after the other: executeWorkflowAtomicNode *)

Written(n, v) == IF OutputKey(n) = NoKey THEN st ELSE [st EXCEPT ![OutputKey(n)] = v]

StartAtomic ==
  /\ pc = "batch" /\ running = {}
  /\ \E n \in Nodes : /\ Earliest(n, batch) /\ running' = {n}
                      /\ attempt' = [Nobody EXCEPT ![n] = 1]
  /\ iteration' = 0
  /\ Snapshot("working", st, done, "none")
  /\ UNCHANGED <<calls, pc, graph, st, done, pending, batch, result, wrote>>

\* one more iteration of a loop whose break condition does not hold
LoopAgain(n) ==
  /\ pc = "batch" /\ n \in running /\ Kind(n) = "loop"
  /\ iteration + 1 < MaxIterations(n)
  /\ iteration' = iteration + 1
  /\ UNCHANGED <<calls, pc, graph, st, done, pending, running, batch,
                 attempt, result, row, wrote>>

AtomicCompletes(n, v) ==
  /\ pc = "batch" /\ n \in running
  /\ st' = Written(n, v) /\ done' = done \cup {n} /\ pending' = pending \ {n}
  /\ running' = {} /\ batch' = batch \ {n}
  /\ pc' = IF batch = {n} THEN "head" ELSE "batch"
  /\ Snapshot("working", st', done', "none")
  /\ wrote' = [wrote EXCEPT ![n] = OutputKey(n)]
  /\ UNCHANGED <<calls, graph, attempt, iteration, result>>

AtomicRetries(n) ==
  /\ pc = "batch" /\ n \in running /\ attempt[n] < MaxAttempts(n)
  /\ attempt' = [attempt EXCEPT ![n] = @ + 1]
  /\ UNCHANGED <<calls, pc, graph, st, done, pending, running, batch,
                 iteration, result, row, wrote>>

AtomicFails(n, status) ==
  /\ pc = "batch" /\ n \in running /\ attempt[n] = MaxAttempts(n)
  /\ Close(status, st, done, "node")
  /\ UNCHANGED <<calls, graph, wrote>>

-----------------------------------------------------------------------------
(* Agents that run at once: executeWorkflowAgentNode *)

Answer(n, outcome, v) ==
  result' = [result EXCEPT ![n] = [outcome |-> outcome, value |-> v]]

WorkerCompletes(n, v) ==
  /\ pc = "wave" /\ n \in running /\ result[n].outcome = "none"
  /\ Answer(n, "completed", v)
  /\ UNCHANGED <<calls, pc, graph, st, done, pending, running, batch,
                 attempt, iteration, row, wrote>>

\* a canceled attempt is tried again like a failed one
WorkerRetries(n) ==
  /\ pc = "wave" /\ n \in running /\ result[n].outcome = "none"
  /\ attempt[n] < MaxAttempts(n)
  /\ attempt' = [attempt EXCEPT ![n] = @ + 1]
  /\ UNCHANGED <<calls, pc, graph, st, done, pending, running, batch,
                 iteration, result, row, wrote>>

\* (a node without an agent is the host's here: fallbackAgentId)
WorkerFails(n, status) ==
  /\ pc = "wave" /\ n \in running /\ result[n].outcome = "none"
  /\ attempt[n] = MaxAttempts(n)
  /\ Answer(n, status, NoValue)
  /\ UNCHANGED <<calls, pc, graph, st, done, pending, running, batch,
                 attempt, iteration, row, wrote>>

Succeeded == {n \in running : result[n].outcome = "completed"}
Failed    == {n \in running : result[n].outcome \in Failures}

\* Faulty: what comes after the first failure of the wave is dropped
FaultyKept == {n \in Succeeded : \A m \in Failed : Place(n) < Place(m)}
Kept == Succeeded

\* s is the state after the wave: the last node to write a key wins
Merges(s) ==
  \A k \in Keys :
    LET writers == {n \in Kept : OutputKey(n) = k} IN
      \/ writers = {} /\ s[k] = st[k]
      \/ \E n \in writers : /\ \A m \in writers : Place(m) <= Place(n)
                          /\ s[k] = result[n].value

\* Promise.all: what succeeded is kept, then the first failure ends the call
WaveFails(s) ==
  \E n \in Failed : /\ Earliest(n, Failed)
                   /\ Close(result[n].outcome, s, done \cup Kept, "node")

WaveSucceeds(s) ==
  /\ Failed = {} /\ Snapshot("working", s, done \cup Kept, "none")
  /\ st' = s /\ done' = done \cup Kept /\ pending' = pending \ running
  /\ running' = {} /\ pc' = "head" /\ result' = NoResults
  /\ UNCHANGED <<batch, attempt, iteration>>

EndWave ==
  /\ pc = "wave" /\ \A n \in running : result[n].outcome # "none"
  /\ \E s \in States : Merges(s) /\ (WaveFails(s) \/ WaveSucceeds(s))
  /\ wrote' = [n \in Nodes |-> IF n \in Kept THEN OutputKey(n) ELSE wrote[n]]
  /\ UNCHANGED <<calls, graph>>

-----------------------------------------------------------------------------
Answered ==
  \E n \in Nodes :
    \/ \E v \in Values : AtomicCompletes(n, v) \/ WorkerCompletes(n, v)
    \/ AtomicRetries(n) \/ WorkerRetries(n) \/ LoopAgain(n)
    \/ \E status \in Failures : AtomicFails(n, status) \/ WorkerFails(n, status)

Proceed == StartBatch \/ StartWave \/ Prune \/ Block \/ Complete \/ StartAtomic
           \/ EndWave

Next == \/ \E g \in Graphs : Begin(g)
        \/ Proceed
        \/ Answered
        \/ Abandon

\* the loop goes on by itself, and every dispatch, command and question of a
\* node is answered: dispatches by their timeout, questions by the user or by
\* the cancellation of the session
Spec == Init /\ [][Next]_vars /\ WF_vars(Proceed) /\ WF_vars(Answered)

-----------------------------------------------------------------------------
(* Properties *)

\* The variables keep their shape; whatever the configuration says, a node is
\* tried four times at most and a loop goes round fifty times at most.
TypeOK ==
  /\ calls \in Nat /\ pc \in {"idle", "head", "batch", "wave"}
  /\ graph \in Graphs
  /\ st \in States /\ {done, pending, running, batch} \subseteq SUBSET Nodes
  /\ attempt \in [Nodes -> 0..4] /\ iteration \in 0..49
  /\ result \in [Nodes -> [outcome : {"none", "completed"} \cup Failures,
                           value : Values \cup {NoValue}]]
  /\ row \in [status : {"none", "working", "completed"} \cup Failures,
              st : States, done : SUBSET Nodes,
              error : {"none", "node", "workflow_deadlock"}]
  /\ wrote \in [Nodes -> Keys \cup {NoKey}]

\* Every node of S has an edge from a node of S: such a set exists if and only
\* if the graph has a cycle.
Cyclic(g) == \E S \in SUBSET NodesOf(g) :
               S # {} /\ \A n \in S : \E e \in EdgesOf(g) : e.to = n /\ e.from \in S

\* A call gives up with workflow_deadlock (workflow-executor.ts:400) only on a
\* graph with a cycle: whatever the conditions, the answers, the failures, the
\* restarts and the edits before, an acyclic workflow is never blocked.
AcyclicNeverBlocks == [][Block => Cyclic(graph)]_vars

\* When the run is reported completed, every node that did not run is behind a
\* condition that is false in the final state, directly or through nodes that
\* did not run either: giving nodes up (line 391) was not too early.
SkippedForAReason ==
  row.status = "completed" =>
    LET skipped == NodesOf(graph) \ row.done IN
      Inactive(skipped, graph, row.st) = skipped

\* A node that completed in this call, and not in an earlier one with another
\* graph, found every upstream node completed, also when it was one of a batch
\* whose earlier members changed the state (line 412).
UpstreamFirst ==
  [][\A n \in done' \ done : pc # "idle" =>
       \A e \in EdgesOf(graph) : e.to = n => e.from \in done]_vars

\* Nothing that was completed is lost: a row that is continued keeps the
\* completed nodes that are still in the graph, over failures, restarts and edits
\* (session.service.ts:5359), and when a wave ends, the row has everything it
\* completed, in particular if another of its nodes failed (line 470).
ProgressKept ==
  [][/\ Resumable => row.done \cap NodesOf(graph') \subseteq row'.done
     /\ pc = "wave" /\ row' # row => Succeeded \subseteq row'.done]_vars

Found(n, s) == wrote[n] # NoKey => s[wrote[n]] # NoValue

\* The row holds the output of every node it says is completed, and so does the
\* call that continues it, under the outputKey the node had when it completed:
\* over failures, exits and edits of the graph and of any node. The code looks
\* for it under the outputKey of today (workflow-executor.ts:244), so a node that
\* is skipped although its successors do not find its output is one whose
\* outputKey was edited after it had completed.
OutputsSurvive == /\ \A n \in row.done : Found(n, row.st)
                  /\ \A n \in done : Found(n, st)

\* What a call has left to do with a node: to put it among those whose turn has
\* come, to start it, to begin its attempts and the iterations of a loop, and to
\* take its answer.
Chores == {"due", "start", "attempt", "iteration", "answer"}

Left(n, chore, i) ==
  /\ n \in pending
  /\ chore = "due" => n \notin batch \cup running
  /\ n \in running => /\ chore # "start"
                      /\ chore = "attempt" => i > attempt[n]
                      /\ chore = "iteration" => i > iteration
                      /\ chore = "answer" => result[n].outcome = "none"

Todo == {x \in Nodes \X (Chores \X (0..49)) : Left(x[1], x[2][1], x[2][2])}

\* Every step of a call that goes on leaves less to do, on a graph with a cycle
\* too: no retry, iteration, wave or batch brings back what was done.
WorkRunsDown == [][pc # "idle" /\ pc' # "idle" => Todo' \subseteq Todo /\ Todo' # Todo]_vars

\* Every call ends.
CallEnds == (pc # "idle") ~> (pc = "idle")
=============================================================================
