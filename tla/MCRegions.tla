------------------------------ MODULE MCRegions ------------------------------
(* The scheduler on graphs with parallel branches and loops.               *)
EXTENDS Scheduler, MCGraphs

(* Parallel nodes.  Direct: the parallel node's edge carries the "input"   *)
(* key, so its branches get a defined input.  AfterStep: the edge is a     *)
(* dependsOn edge keyed by the step's name, so the input is undefined and  *)
(* the branches are executed.                                              *)

Shared ==
    [_input |-> N("input"), p |-> N("parallel"), a |-> N("llm"), b |-> N("llm"),
     d |-> N("write"), _output |-> N("output")]

\* Both branches lead to the step d.
Diamond(first) ==
    G(<<"_input", "p", "a", "b", "d", "_output">>, Shared,
      <<first, D(2, "p", "a"), D(3, "p", "b"), Dep(4, "a", "d"), Dep(5, "b", "d"),
        D(6, "d", "_output")>>)

Direct == Diamond(D(1, "_input", "p"))
AfterStep == Diamond(Dep(1, "_input", "p"))

\* Three branches in batches of two, one of which may be skipped on error.
Batches ==
    G(<<"_input", "p", "a", "b", "d", "_output">>,
      [Shared EXCEPT !.b.onError = "skip", !.b.maxRetries = 1],
      <<Dep(1, "_input", "p"), D(2, "p", "a"), D(3, "p", "b"), D(4, "p", "d"),
        D(5, "p", "_output")>>)

Joined(first, wait) ==
    G(<<"_input", "p", "a", "b", "d", "_output">>,
      [Shared EXCEPT !.d = [N("merge") EXCEPT !.waitForAll = wait],
                     !.b = N("transform")],
      <<first, D(2, "p", "a"), D(3, "p", "b"), D(4, "a", "d"), D(5, "b", "d"),
        D(6, "d", "_output")>>)

\* An LLM step, then three LLM branches in batches of two: the first batch
\* is started with one call of two left, and exceeds the cap.
LLMSteps ==
    G(<<"_input", "q", "p", "a", "b", "d", "_output">>,
      [n \in {"_input", "q", "p", "a", "b", "d", "_output"} |->
         IF n \in {"q", "d"} THEN N("llm") ELSE Shared[n]],
      <<D(1, "_input", "q"), Dep(2, "q", "p"), D(3, "p", "a"), D(4, "p", "b"),
        D(5, "p", "d"), D(6, "p", "_output")>>)

-----------------------------------------------------------------------------
(* Loops: forEach and while, a conditional in the body, two in a row.      *)

LoopNodes(mode) ==
    [_input |-> N("input"), l |-> [N("loop") EXCEPT !.mode = mode],
     a |-> N("write"), b |-> N("transform"), m |-> N("merge"), _output |-> N("output")]

\* The body a -> b ends in a merge with the untouched input, outside the body.
Simple(mode) ==
    G(<<"_input", "l", "a", "b", "m", "_output">>,
      [LoopNodes(mode) EXCEPT !.b.onError = "skip", !.a.maxRetries = 1],
      <<D(1, "_input", "l"), D(2, "l", "a"), Dep(3, "a", "b"), D(4, "b", "m"),
        D(5, "_input", "m"), D(6, "m", "_output")>>)

\* A conditional in the body chooses whether b runs.
Choosing ==
    G(<<"_input", "l", "a", "b", "m", "_output">>,
      [LoopNodes("forEach") EXCEPT !.a = N("conditional"), !.m = N("transform")],
      <<D(1, "_input", "l"), D(2, "l", "a"), C(3, "a", "b", "true"), D(4, "a", "b"),
        C(5, "a", "m", "false"), D(6, "a", "m"), D(7, "_input", "_output")>>)

NoBody ==
    G(<<"_input", "l", "_output">>,
      [n \in {"_input", "l", "_output"} |-> LoopNodes("forEach")[n]],
      <<D(1, "_input", "l"), D(2, "_input", "_output")>>)

\* Two loops that share the iteration budget.
TwoLoops ==
    G(<<"_input", "l", "a", "m", "b", "_output">>,
      [LoopNodes("forEach") EXCEPT !.m = N("loop")],
      <<D(1, "_input", "l"), D(2, "l", "a"), D(3, "_input", "m"), D(4, "m", "b"),
        D(5, "_input", "_output")>>)

-----------------------------------------------------------------------------
MCGraphsSet ==
    {Direct, AfterStep, Batches, Joined(Dep(1, "_input", "p"), TRUE), LLMSteps,
     Simple("forEach"), Simple("while"), Choosing, NoBody, TwoLoops}
MCNode == {"_input", "_output", "p", "a", "b", "d", "q", "l", "m"}
MCOutKinds == {"tabular"}

\* The graph of the run that ends in a violation.
MCDirect == {Direct}
=============================================================================
