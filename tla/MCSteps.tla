------------------------------- MODULE MCSteps -------------------------------
(* The scheduler on graphs whose nodes run one after the other: error      *)
(* policies, conditionals and merges.                                      *)
EXTENDS Scheduler, MCGraphs

(* _input -> a -> b -> _output with every error policy on a, and a fallback *)
(* node f next to it.                                                       *)

Chain3(a, b) ==
    G(<<"_input", "a", "b", "_output">>,
      [_input |-> N("input"), a |-> a, b |-> b, _output |-> N("output")],
      <<D(1, "_input", "a"), Dep(2, "a", "b"), D(3, "b", "_output")>>)

\* f is a fallback for a and also a step of its own.
WithFallback(a, fb) ==
    G(<<"_input", "a", "f", "_output">>,
      [_input |-> N("input"), a |-> [a EXCEPT !.onError = "fallback", !.fallbackNodeId = fb],
       f |-> N("transform"), _output |-> N("output")],
      <<D(1, "_input", "a"), D(2, "_input", "f"), Dep(3, "a", "_output"),
        Dep(4, "f", "_output")>>)

Cyclic ==
    G(<<"_input", "a", "b", "_output">>,
      [_input |-> N("input"), a |-> N("write"), b |-> N("write"), _output |-> N("output")],
      <<D(1, "a", "b"), D(2, "b", "a"), D(3, "_input", "_output")>>)

-----------------------------------------------------------------------------
(* Conditional graphs: hand-built ones in the style of the scheduler's     *)
(* tests, and the graph the pipeline compiler emits.                       *)

\* The edges of a conditional c with branches t and f (compiler order).
Cond(i, c, t, f) ==
    <<C(i, c, t, "true"), D(i + 1, c, t), C(i + 2, c, f, "false"), D(i + 3, c, f)>>

CondNodes == [_input |-> N("input"), c |-> N("conditional"), t |-> N("write"),
              f |-> N("transform"), m |-> N("merge"), _output |-> N("output")]

HandBuilt ==
    G(<<"_input", "c", "t", "f", "m", "_output">>, CondNodes,
      <<D(1, "_input", "c")>> \o Cond(2, "c", "t", "f") \o
      <<D(6, "t", "m"), D(7, "f", "m"), D(8, "m", "_output")>>)

\* What PipelineCompiler makes of: query q, a conditional c on its rows with
\* the branches t and f, and a merge m of the two.
PC == INSTANCE PipelineCompiler WITH
          Candidates <- {}, MaxSteps <- 0, steps <- <<>>, result <- <<>>,
          Words <- [n \in {"q", "c", "t", "f", "m"} |-> <<n>>]

Step(id, kind) ==
    [id |-> id, kind |-> kind, dependsOn |-> <<>>, trueBranch |-> "none",
     falseBranch |-> "none", mergeStep |-> "none", loopBody |-> <<>>, loopMode |-> "forEach",
     mergeFrom |-> <<>>, parallelBranches |-> <<>>, explicit |-> TRUE]

Compiled ==
    LET g == PC!compile(<<Step("q", "query"),
                          [Step("c", "conditional") EXCEPT !.dependsOn = <<"q">>,
                              !.trueBranch = "t", !.falseBranch = "f", !.mergeStep = "m"],
                          Step("t", "write"), Step("f", "transform"),
                          [Step("m", "merge") EXCEPT !.mergeFrom = <<"t", "f">>]>>).graph
    IN  [g EXCEPT !.edges = [i \in DOMAIN g.edges |-> [g.edges[i] EXCEPT !.id = i]]]

\* A second conditional d after the first merge, and a step u that only the
\* true branch of d feeds.
TwoInARow ==
    G(<<"_input", "c", "t", "f", "m", "d", "u", "v", "_output">>,
      [n \in {"_input", "c", "t", "f", "m", "d", "u", "v", "_output"} |->
          IF n = "d" THEN N("conditional")
          ELSE IF n \in {"u", "v"} THEN N("transform") ELSE CondNodes[n]],
      <<D(1, "_input", "c")>> \o Cond(2, "c", "t", "f") \o
      <<D(6, "t", "m"), D(7, "f", "m"), D(8, "m", "d"), C(9, "d", "u", "true"),
        D(10, "d", "u"), Dep(11, "u", "v"), D(12, "d", "_output")>>)

\* Both sources of the merge complete: t always runs, c only chooses f.
MergeBoth(wait) ==
    G(<<"_input", "c", "t", "f", "m", "_output">>,
      [CondNodes EXCEPT !.m.waitForAll = wait],
      <<D(1, "_input", "c"), D(2, "_input", "t"), C(3, "c", "f", "true"), D(4, "c", "f"),
        D(5, "t", "m"), D(6, "f", "m"), D(7, "m", "_output")>>)

\* The true branch is a merge with the data of a step t that always runs.
MergeOnlyIf ==
    G(<<"_input", "c", "t", "m", "_output">>,
      [n \in {"_input", "c", "t", "m", "_output"} |-> CondNodes[n]],
      <<D(1, "_input", "c"), D(2, "_input", "t"), C(3, "c", "m", "true"), D(4, "c", "m"),
        D(5, "t", "m"), D(6, "c", "_output")>>)

-----------------------------------------------------------------------------
MCGraphsSet ==
    {Chain3([N("write") EXCEPT !.onError = p, !.maxRetries = r], N("llm")) :
        p \in {"fail", "skip", "retry"}, r \in {0, 2}}
    \cup {WithFallback([N("http") EXCEPT !.maxRetries = 1], fb) : fb \in {"f", "none", "gone"}}
    \cup {Cyclic, HandBuilt, Compiled, TwoInARow, MergeBoth(TRUE), MergeBoth(FALSE), MergeOnlyIf}
MCNode == {"_input", "_output", "a", "b", "f", "gone", "q", "c", "t", "m", "d", "u", "v"}
MCOutKinds == {"tabular", "void"}
=============================================================================
