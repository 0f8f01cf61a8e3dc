--------------------------- MODULE MCWorkflowRuns ---------------------------
(* Two workers, an approval, a loop and a check, in the graphs where the    *)
(* executor has to decide: branches that join, a cycle, a wave and a batch. *)
(* From one graph to another nodes change their configuration too.          *)
EXTENDS WorkflowRuns

Plain(m, n)      == [from |-> m, to |-> n,
                     cond |-> [op |-> "always", key |-> "k1", value |-> "full"]]
If(m, n, o, k)   == [from |-> m, to |-> n,
                     cond |-> [op |-> o, key |-> k, value |-> "full"]]
Plan(k, key, retries, rounds) ==
  [kind |-> k, outputKey |-> key, retryCount |-> retries, maxIterations |-> rounds]
Configured       == [a |-> Plan("worker", "k1", 1, 5), b |-> Plan("worker", "k2", -1, 5),
                     c |-> Plan("approval", "k2", 2, 5), d |-> Plan("loop", "none", 0, 2),
                     e |-> Plan("atomic", "k1", 5, 5)]
All              == <<"a", "b", "c", "d", "e">>

\* b and c exclude each other and join in d
Branches == [nodes |-> All,
             edges |-> <<If("a", "b", "equals", "k1"), If("a", "c", "falsy", "k1"),
                         Plain("b", "d"), Plain("c", "d"), Plain("a", "e")>>,
             config |-> Configured]
\* the nodes behind the cycle can be given up or not
Cycle    == [nodes |-> <<"c", "b", "a">>,
             edges |-> <<If("a", "b", "truthy", "k1"), Plain("b", "c"), Plain("c", "b")>>,
             config |-> Configured]
\* a and b at once write k2, which b does last; c is skipped unless b has
\* written something else
Wave     == [nodes |-> <<"a", "b", "c", "d">>,
             edges |-> <<Plain("a", "d"), Plain("b", "d"),
                         If("b", "c", "not_equals", "k2"), If("a", "c", "exists", "k2")>>,
             config |-> [Configured EXCEPT !.a.outputKey = "k2", !.d.maxIterations = 0]]
\* c and d one after the other: c may falsify the condition of d
Batch    == [nodes |-> <<"d", "c", "e", "a">>,
             edges |-> <<If("a", "d", "exists", "k1"), If("a", "c", "exists", "k1"),
                         If("a", "c", "truthy", "k1"), If("e", "d", "not_equals", "k2")>>,
             config |-> [Configured EXCEPT !.c = Plan("atomic", "k2", 1, 5)]]

MCGraphs == {Branches, Cycle, Wave, Batch}
=============================================================================
