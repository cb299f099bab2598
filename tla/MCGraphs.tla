------------------------------ MODULE MCGraphs ------------------------------
(* Builders for the small graphs of the scheduler's model checking runs.   *)
EXTENDS Naturals, Sequences

\* A node with the compiler's defaults.
N(kind) == [kind |-> kind, onError |-> "fail", maxRetries |-> 0,
            fallbackNodeId |-> "none", maxConcurrency |-> 3, maxIterations |-> 100,
            mode |-> "forEach", waitForAll |-> FALSE]

D(i, a, b) == [id |-> i, from |-> a, to |-> b, kind |-> "data",
               key |-> "input", cond |-> "none"]
\* A dependsOn edge carries the name of its source as the input key.
Dep(i, a, b) == [D(i, a, b) EXCEPT !.key = a]
C(i, a, b, c) == [D(i, a, b) EXCEPT !.kind = "control", !.cond = c]

G(nodes, node, edges) ==
    [nodes |-> nodes, node |-> node, edges |-> edges,
     entry |-> "_input", exits |-> <<"_output">>]
=============================================================================
