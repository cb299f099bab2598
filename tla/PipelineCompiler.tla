-------------------------- MODULE PipelineCompiler --------------------------
(***************************************************************************)
(* PipelineCompiler.compile (compiler/pipeline/pipeline-compiler.ts): an   *)
(* intent, the list of steps a language model proposes, is checked and     *)
(* turned into a pipeline graph.                                           *)
(*                                                                         *)
(* A step is a record                                                      *)
(*   id, kind, dependsOn : its id, kind and data dependencies              *)
(*   trueBranch, falseBranch, mergeStep, loopBody, mergeFrom,              *)
(*   parallelBranches :                                                    *)
(*       references to other steps; "none" or << >> when missing           *)
(*   loopMode : "forEach" or "while"                                       *)
(*   explicit : whether config makes a write or http step self-contained   *)
(* An edge id is a string that joins step ids with underscores, and edges  *)
(* is a Map: an edge whose id is already there replaces the earlier one.   *)
(* Words says how a step id splits at its underscores.                     *)
(***************************************************************************)
EXTENDS PipelineGraph, SequencesExt

CONSTANTS
    Candidates,   \* the steps the language model may propose
    Words,        \* [step id -> the words of the id]
    MaxSteps      \* bound: steps of an intent

VARIABLES
    steps,     \* intent.steps
    result     \* what compile returned: the error codes and the graph

vars == <<steps, result>>

Ids(s) == {s[i].id : i \in DOMAIN s}
Elements(q) == {q[i] : i \in DOMAIN q}

-----------------------------------------------------------------------------
(* validate.                                                               *)

\* stepMap.get(id)?.dependsOn; of two steps with one id the map has the last.
DepsOf(s, id) ==
    LET at == {i \in DOMAIN s : s[i].id = id}
    IN  IF at = {} THEN <<>> ELSE s[CHOOSE i \in at : \A j \in at : j <= i].dependsOn

\* One recursive call of detectCycles' visit; d is [visited, stack, cycle].
RECURSIVE Visit(_, _, _)
Visit(s, id, d) ==
    IF id \in d.stack THEN [d EXCEPT !.cycle = TRUE]
    ELSE IF id \in d.visited THEN d
    ELSE LET inside == [d EXCEPT !.visited = @ \cup {id}, !.stack = @ \cup {id}]
             after  == FoldLeft(LAMBDA a, dep : Visit(s, dep, a), inside, DepsOf(s, id))
         IN  [after EXCEPT !.stack = @ \ {id}]

\* Mutant: only the steps the first one depends on are visited.
detectCyclesFirst(s) ==
    s # <<>> /\ Visit(s, s[1].id, [visited |-> {}, stack |-> {}, cycle |-> FALSE]).cycle

detectCycles(s) ==
    FoldLeft(LAMBDA d, step : Visit(s, step.id, d),
             [visited |-> {}, stack |-> {}, cycle |-> FALSE], s).cycle

\* The rules for one step: the error code, and whether step i breaks it.  A
\* reference that is missing ("none") and one that names no step share a code.
Rules(s, i) ==
    LET step       == s[i]
        Missing(r) == r \notin Ids(s)
        Broken(q)  == \E r \in Elements(q) : Missing(r)
        Is(kind)   == step.kind = kind
    IN  {<<"DUPLICATE_STEP_ID", \E j \in 1..(i - 1) : s[j].id = step.id>>,
         <<"INVALID_DEPENDENCY", Broken(step.dependsOn)>>,
         <<"TRUE_BRANCH", Is("conditional") /\ Missing(step.trueBranch)>>,
         <<"FALSE_BRANCH", Is("conditional") /\ Missing(step.falseBranch)>>,
         <<"INVALID_MERGE_STEP",
           Is("conditional") /\ step.mergeStep # "none" /\ Missing(step.mergeStep)>>,
         <<"MISSING_LOOP_BODY", Is("loop") /\ step.loopBody = <<>> >>,
         <<"INVALID_LOOP_BODY", Is("loop") /\ Broken(step.loopBody)>>,
         <<"INVALID_MERGE_FROM", Is("merge") /\ Len(step.mergeFrom) < 2>>,
         <<"INVALID_MERGE_SOURCE",
           Is("merge") /\ Len(step.mergeFrom) >= 2 /\ Broken(step.mergeFrom)>>,
         <<"MISSING_PARALLEL_BRANCHES", Is("parallel") /\ step.parallelBranches = <<>> >>,
         <<"INVALID_PARALLEL_BRANCH", Is("parallel") /\ Broken(step.parallelBranches)>>,
         <<"MISSING_INPUT",
           (Is("write") \/ Is("http")) /\ step.dependsOn = <<>> /\ ~step.explicit>>}

validate(s) ==
    {r[1] : r \in {q \in UNION {Rules(s, i) : i \in DOMAIN s} : q[2]}}
    \cup (IF detectCycles(s) THEN {"CYCLE_DETECTED"} ELSE {})

-----------------------------------------------------------------------------
(* buildNodes.                                                             *)

\* The fields the scheduler reads; everything else of a payload is filled in
\* later, by the engine's enrichment.
buildStepNode(step) ==
    [kind |-> step.kind, onError |-> "fail", maxRetries |-> 0, fallbackNodeId |-> "none",
     maxConcurrency |-> 3, maxIterations |-> 100, mode |-> step.loopMode, waitForAll |-> FALSE]

BoundaryNode(kind) ==
    [kind |-> kind, onError |-> "fail", maxRetries |-> 0, fallbackNodeId |-> "none",
     maxConcurrency |-> 3, maxIterations |-> 100, mode |-> "forEach", waitForAll |-> FALSE]

NodeOrder(s) == <<"_input", "_output">> \o [i \in DOMAIN s |-> s[i].id]

buildNodes(s) ==
    [n \in {"_input", "_output"} \cup Ids(s) |->
        CASE n = "_input"  -> BoundaryNode("input")
          [] n = "_output" -> BoundaryNode("output")
          [] OTHER         -> buildStepNode(s[CHOOSE i \in DOMAIN s : s[i].id = n])]

-----------------------------------------------------------------------------
(* buildEdges.                                                             *)

DataEdge(id, a, b, key) ==
    [id |-> id, from |-> a, to |-> b, kind |-> "data", key |-> key, cond |-> "none"]
ControlEdge(id, a, b, c) ==
    [id |-> id, from |-> a, to |-> b, kind |-> "control", key |-> "input", cond |-> c]

\* `e_${a}_${b}` and its variants.
EdgeId(a, b) == <<"e">> \o Words[a] \o Words[b]

\* Mutant: the control and the data edge of a branch share their id.
BranchIdShared(a, b, suffix) == EdgeId(a, b)
BranchId(a, b, suffix) == EdgeId(a, b) \o suffix

\* edges.set(id, edge) on a Map.
SetEdge(edges, e) ==
    IF \E i \in DOMAIN edges : edges[i].id = e.id
    THEN [i \in DOMAIN edges |-> IF edges[i].id = e.id THEN e ELSE edges[i]]
    ELSE Append(edges, e)

\* Whatever the kind of the step that carries them.
getBodyStepIds(s) ==
    UNION {Elements(s[i].loopBody) \cup Elements(s[i].parallelBranches) : i \in DOMAIN s}

findEntrySteps(s) ==
    {s[i].id : i \in {j \in DOMAIN s : s[j].dependsOn = <<>>}} \ getBodyStepIds(s)

InputEdge(s, step) ==
    IF step.id \in findEntrySteps(s)
    THEN <<DataEdge(<<"e", "", "input">> \o Words[step.id], "_input", step.id, "input")>>
    ELSE <<>>

DependencyEdges(step) ==
    [i \in DOMAIN step.dependsOn |->
        DataEdge(EdgeId(step.dependsOn[i], step.id), step.dependsOn[i], step.id, step.dependsOn[i])]

BranchEdges(c, target, cond) ==
    <<ControlEdge(BranchId(c, target, <<"control", cond>>), c, target, cond),
      DataEdge(BranchId(c, target, <<"data">>), c, target, "input")>>

ConditionalEdges(step) ==
    IF step.kind # "conditional" THEN <<>>
    ELSE BranchEdges(step.id, step.trueBranch, "true")
         \o BranchEdges(step.id, step.falseBranch, "false")

\* Only to the first body step, and only if no edge has its id yet.
AddLoopEdge(edges, step) ==
    LET e == DataEdge(EdgeId(step.id, step.loopBody[1]), step.id, step.loopBody[1], "input")
    IN  IF step.kind # "loop" \/ step.loopBody = <<>> THEN edges
        ELSE IF \E i \in DOMAIN edges : edges[i].id = e.id THEN edges
        ELSE Append(edges, e)

MergeEdges(step) ==
    IF step.kind # "merge" THEN <<>>
    ELSE [i \in DOMAIN step.mergeFrom |->
             DataEdge(EdgeId(step.mergeFrom[i], step.id), step.mergeFrom[i], step.id, "input")]

ParallelEdges(step) ==
    IF step.kind # "parallel" THEN <<>>
    ELSE [i \in DOMAIN step.parallelBranches |->
             DataEdge(EdgeId(step.id, step.parallelBranches[i]), step.id,
                      step.parallelBranches[i], "input")]

AddStepEdges(s, edges, step) ==
    LET first == FoldLeft(SetEdge, edges,
                          InputEdge(s, step) \o DependencyEdges(step) \o ConditionalEdges(step))
    IN  FoldLeft(SetEdge, AddLoopEdge(first, step), MergeEdges(step) \o ParallelEdges(step))

\* Every step that no dependsOn names is wired to _output.
ExitEdges(s) ==
    LET needed == UNION {Elements(s[i].dependsOn) : i \in DOMAIN s}
        exits  == SelectSeq(s, LAMBDA step : step.id \notin needed)
    IN  [i \in DOMAIN exits |->
            DataEdge(<<"->">> \o Words[exits[i].id], exits[i].id, "_output", "input")]

buildEdges(s) ==
    FoldLeft(SetEdge, FoldLeft(LAMBDA edges, step : AddStepEdges(s, edges, step), <<>>, s),
             ExitEdges(s))

-----------------------------------------------------------------------------
(* buildGraph and compile.                                                 *)

buildGraph(s) ==
    LET edges == buildEdges(s)
        exits == SelectSeq(NodeOrder(s), LAMBDA n :
                     ~\E i \in DOMAIN edges : edges[i].from = n /\ edges[i].kind = "data")
    IN  [nodes |-> NodeOrder(s), node |-> buildNodes(s), edges |-> edges,
         entry |-> "_input", exits |-> IF exits = <<>> THEN <<"_output">> ELSE exits]

buildEmptyGraph ==
    [nodes |-> <<>>, node |-> <<>>, edges |-> <<>>, entry |-> "_input", exits |-> <<"_output">>]

compile(s) ==
    LET errors == validate(s)
    IN  [errors |-> errors, graph |-> IF errors # {} THEN buildEmptyGraph ELSE buildGraph(s)]

NotCompiled == [errors |-> {"NOT_COMPILED"}, graph |-> buildEmptyGraph]

Init == steps = <<>> /\ result = NotCompiled

\* The language model's next step.
Propose(step) ==
    /\ result = NotCompiled
    /\ Len(steps) < MaxSteps
    /\ steps' = Append(steps, step)
    /\ UNCHANGED result

Compile ==
    /\ result = NotCompiled
    /\ result' = compile(steps)
    /\ UNCHANGED steps

Next == Compile \/ \E step \in Candidates : Propose(step)

Spec == Init /\ [][Next]_vars

-----------------------------------------------------------------------------
(* Properties.                                                             *)

accepted == result.errors = {}
graph == result.graph

\* Unless ids clash, detectCycles reports a cycle exactly when the dependencies
\* have one: some set of steps in which each depends on a member.
CycleReported ==
    (result # NotCompiled /\ "DUPLICATE_STEP_ID" \notin result.errors) =>
        ("CYCLE_DETECTED" \in result.errors <=>
            \E S \in SUBSET Ids(steps) :
                /\ S # {}
                /\ \A n \in S : \E i \in DOMAIN steps :
                       steps[i].id = n /\ Elements(steps[i].dependsOn) \cap S # {})

HasEdge(a, b, kind, cond) ==
    \E e \in EdgesOf(graph) : e.from = a /\ e.to = b /\ e.kind = kind /\ e.cond = cond

\* No reference of an accepted intent is lost when edges replace each other:
\* every dependency, branch, body, merge source and parallel branch has its
\* data edge, and each branch its control edge.
ReferencesKept ==
    accepted =>
        \A i \in DOMAIN steps :
            LET step == steps[i]
            IN  /\ \A d \in Elements(step.dependsOn) : HasEdge(d, step.id, "data", "none")
                /\ step.kind = "conditional" =>
                     /\ HasEdge(step.id, step.trueBranch, "control", "true")
                     /\ HasEdge(step.id, step.falseBranch, "control", "false")
                     /\ HasEdge(step.id, step.trueBranch, "data", "none")
                     /\ HasEdge(step.id, step.falseBranch, "data", "none")
                /\ step.kind = "loop" => HasEdge(step.id, step.loopBody[1], "data", "none")
                /\ step.kind = "merge" =>
                     \A m \in Elements(step.mergeFrom) : HasEdge(m, step.id, "data", "none")
                /\ step.kind = "parallel" =>
                     \A b \in Elements(step.parallelBranches) : HasEdge(step.id, b, "data", "none")

\* The steps another step leads to, and those that lead to another themselves.
Targets(step) ==
    CASE step.kind = "conditional" -> {step.trueBranch, step.falseBranch}
      [] step.kind = "loop"        -> {step.loopBody[1]}
      [] step.kind = "parallel"    -> Elements(step.parallelBranches)
      [] OTHER                     -> {}

\* Body steps that nothing feeds: the second step of a loop body without a
\* dependsOn, a body named by a step that is not a loop.
Unfed ==
    {n \in getBodyStepIds(steps) \cap Ids(steps) :
        \A i \in DOMAIN steps :
            /\ n \notin Targets(steps[i])
            /\ steps[i].id = n => steps[i].dependsOn = <<>> /\ steps[i].kind # "merge"}

\* The references of an accepted intent, branches and bodies included.
Follows(a, b) ==
    \E i \in DOMAIN steps :
        \/ steps[i].id = b /\ a \in Elements(steps[i].dependsOn)
        \/ steps[i].id = b /\ steps[i].kind = "merge" /\ a \in Elements(steps[i].mergeFrom)
        \/ steps[i].id = a /\ b \in Targets(steps[i])

Circular ==
    \E S \in SUBSET Ids(steps) : S # {} /\ \A b \in S : \E a \in S : Follows(a, b)

\* run() accepts the graph of an accepted intent, unless the intent is empty,
\* a body step is fed by nothing, or the references are circular through a
\* branch, body or merge, which validate does not look at.
AcceptedIsValid ==
    accepted => (validateGraph(graph) <=> steps # <<>> /\ Unfed = {} /\ ~Circular)

\* compile() keeps every reference of the intent as an edge, and run() accepts
\* what it builds, with the exceptions the two parts name.
GraphFaithful == ReferencesKept /\ AcceptedIsValid

\* There is a cycle iff some nonempty set of nodes has, for each of its
\* members, a data source of that member in it.
Cyclic ==
    \E S \in SUBSET NodeIds(graph) :
        S # {} /\ \A n \in S : \E e \in getIncomingDataEdges(graph, n) : e.from \in S

\* On every graph the compiler builds, topologicalSort reports a cycle exactly
\* when there is one, and otherwise returns every node once, after all of its
\* data sources.
SortCorrect ==
    LET s == topologicalSort(graph)
    IN  accepted =>
          IF Cyclic THEN HasCycle(graph)
          ELSE /\ ~HasCycle(graph)
               /\ Elements(s) = NodeIds(graph)
               /\ \A e \in EdgesOf(graph) :
                     e.kind = "data" => Position(s, e.from) < Position(s, e.to)

\* S holds the loop's targets and every node fed by the loop and S only.
ClosedBody(loop, S) ==
    /\ DataSuccessors(graph, loop) \subseteq S
    /\ \A n \in NodeIds(graph) :
         (/\ getIncomingDataEdges(graph, n) # {}
          /\ \A e \in getIncomingDataEdges(graph, n) : e.from \in S \cup {loop}) => n \in S

\* On every acyclic graph the compiler builds, the walk getBodyNodeIds returns,
\* without repetition, the least closed body, whatever node it starts from.
BodyCorrect ==
    (accepted /\ ~Cyclic) =>
        \A loop \in NodeIds(graph) :
            LET b == getBodyNodeIds(graph, loop)
            IN  /\ \A S \in SUBSET NodeIds(graph) : ClosedBody(loop, S) => Elements(b) \subseteq S
                /\ ClosedBody(loop, Elements(b))
                /\ IsInjective(b)

\* The two walks the scheduler relies on, topologicalSort and getBodyNodeIds,
\* agree with their definitions on every graph the compiler builds.
AlgorithmsCorrect == SortCorrect /\ BodyCorrect
=============================================================================
