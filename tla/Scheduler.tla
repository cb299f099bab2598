------------------------------ MODULE Scheduler ------------------------------
(***************************************************************************)
(* One call of Scheduler.run (scheduler/scheduler.ts) on one graph.        *)
(*                                                                         *)
(* JavaScript runs one synchronous section at a time: code gives up the    *)
(* thread only at an await.  The asynchronous calls of run() that can be   *)
(* in progress together are the tasks: task 1 is the loop of run(), every  *)
(* other one is a call of executeSubgraph for a parallel branch or a loop  *)
(* iteration.  cpu is the stack of the tasks inside the synchronous        *)
(* section in progress.  A section is several steps of the model, but no   *)
(* other task moves until cpu is empty again, and then the event loop      *)
(* resumes any task whose await is over.                                   *)
(*                                                                         *)
(* What a node computes is abstracted to the kind of its value and to the  *)
(* set of nodes whose execute produced the data (src).                     *)
(***************************************************************************)
EXTENDS PipelineGraph, Integers

CONSTANTS
    Graphs,               \* the graphs run() may be called with
    Node,                 \* every node id that occurs in them
    OutKinds,             \* the kinds of value a node's execute may return
    MaxLLMCalls,          \* ctx.budget.maxLLMCalls
    MaxIterations,        \* ctx.budget.maxIterations
    MaxParallelBranches,  \* config.maxParallelBranches
    MaxItems              \* bound: items of a forEach loop's iterable

\* The nodes and edges of a graph; cond is "none" on a data edge.
NodeDef == [kind : STRING, onError : STRING, maxRetries : Nat,
            fallbackNodeId : Node \cup {"none"}, maxConcurrency : Nat,
            maxIterations : Nat, mode : {"forEach", "while"}, waitForAll : BOOLEAN]
Edge == [id : Nat, from : Node, to : Node, kind : {"data", "control"},
         key : STRING, cond : {"none", "true", "false", "always", "error"}]

ASSUME GraphAssumption ==
    \A g \in Graphs :
        /\ NodeIds(g) \subseteq Node
        /\ EdgesOf(g) \subseteq Edge
        /\ g.entry \in Node
        /\ g.node \in [NodeIds(g) -> NodeDef]

ASSUME LimitAssumption ==
    /\ OutKinds \subseteq {"void", "tabular", "other"}
    /\ {MaxLLMCalls, MaxIterations, MaxItems} \subseteq Nat
    /\ MaxParallelBranches \in Nat \ {0}

VARIABLES
    graph,     \* the graph of this run
    phase,     \* idle | invalid | running | resolved | rejected
    order,     \* topoCache: the topological order of the graph
    envs,      \* the ExecutionStates: 1 is run()'s, the others loop iterations'
    tasks,     \* the asynchronous calls
    cpu,       \* the tasks inside the synchronous section, innermost first
    chains,    \* the executeWithRetry calls in progress
    budget,    \* ctx.budget: counters, and whether timeoutMs has elapsed
    outputs,   \* the outputs Map of the result, in insertion order
    cursor     \* sessionCursorStore: the output the stored cursor describes

vars == <<graph, phase, order, envs, tasks, cpu, chains, budget, outputs, cursor>>

-----------------------------------------------------------------------------
(* Values, node states and tasks.                                          *)

ValueKinds == {"undef", "void", "tabular", "other"}
Value == [kind : ValueKinds, src : SUBSET Node]
Undef == [kind |-> "undef", src |-> {}]

\* NodeExecutionStatus; a node without an entry in nodeStates is absent.
Status == {"absent", "pending", "running", "completed", "failed", "skipped"}
Final == {"completed", "failed", "skipped"}

\* ExecutionState.  started and calls are history: how often executeNode was
\* entered for a node, and how often its execute was called.
ExecutionState ==
    [st : [Node -> Status], out : [Node -> Value], retryCount : [Node -> Nat],
     activated : SUBSET Nat, deactivated : SUBSET Nat,
     started : [Node -> Nat], calls : [Node -> Nat]]

NewState(S) ==
    [st |-> [n \in Node |-> IF n \in S THEN "pending" ELSE "absent"],
     out |-> [n \in Node |-> Undef], retryCount |-> [n \in Node |-> 0],
     activated |-> {}, deactivated |-> {},
     started |-> [n \in Node |-> 0], calls |-> [n \in Node |-> 0]]

Pcs == {"enter", "next", "dispatch", "race", "query1", "query2", "merging",
        "fork", "join", "iter", "settled", "done", "threw"}

\* env: the ExecutionState it works on; todo: the rest of its node list, in
\* the topological order; node: the node in executeNode (or the start node,
\* on entry); val: the captured input of a parallel node, the accumulator of
\* a loop or the value a merge computes; rest: the branch edges not forked
\* yet; kids: the calls of the current Promise.all; iter, left: iterations
\* done and items left.
NewTask(e, n, v) ==
    [env |-> e, pc |-> "enter", node |-> n, val |-> v, todo |-> {},
     rest |-> {}, kids |-> {}, iter |-> 0, left |-> 0]

KindOf(n) == graph.node[n].kind
SchedulerOwned == {"parallel", "conditional", "loop", "merge", "query"}
Standard == ValidKinds \ SchedulerOwned

-----------------------------------------------------------------------------
(* Helpers on an ExecutionState E.                                         *)

SetStatus(E, n, s) ==
    IF E.st[n] = "absent" THEN E ELSE [E EXCEPT !.st[n] = s]

markNodeRunning(E, n) == SetStatus(E, n, "running")

markNodeCompleted(E, n, v) ==
    IF E.st[n] = "absent" THEN E
    ELSE [E EXCEPT !.st[n] = "completed", !.out[n] = v]

markNodeFailed(E, n) == SetStatus(E, n, "failed")

markNodeSkipped(E, n) == SetStatus(E, n, "skipped")

Started(E, n) == [E EXCEPT !.started[n] = @ + 1]
Called(E, n) == [E EXCEPT !.calls[n] = @ + 1]

isControlPathActive(E, n) ==
    LET ins == {e.id : e \in getIncomingControlEdges(graph, n)}
    IN  ins = {} \/ ~(ins \subseteq E.deactivated)

shouldSkipNode(E, n) == ~isControlPathActive(E, n)

isReadyToExecute(E, n) ==
    /\ E.st[n] = "pending"
    /\ \A e \in getIncomingDataEdges(graph, n) : E.st[e.from] \in {"completed", "skipped"}
    /\ isControlPathActive(E, n)

\* inputs['input'], as a singleton: the value of the last data edge with that
\* key whose source has an output.
getNodeInputs(E, n) ==
    LET live == {e \in getIncomingDataEdges(graph, n) :
                    e.key = "input" /\ E.out[e.from].kind # "undef"}
    IN  IF live = {} THEN {Undef}
        ELSE {E.out[e.from] : e \in LastIn(graph.edges, live)}

\* executeMerge: the edges whose source is completed with an output.
MergeInputs(E, n) ==
    {e \in getIncomingDataEdges(graph, n) :
        E.st[e.from] = "completed" /\ E.out[e.from].kind # "undef"}

\* A source that is neither an input nor skipped.
MergeMustWait(E, n) ==
    \E e \in getIncomingDataEdges(graph, n) \ MergeInputs(E, n) :
        E.st[e.from] \notin {"absent", "skipped"}

\* Mutant: the limit of the iterations is off by one.
checkBudgetIterations ==
    /\ budget.llmCallsUsed < MaxLLMCalls
    /\ budget.iterationsUsed <= MaxIterations
    /\ ~budget.expired

\* checkBudget: any exhausted limit throws.
checkBudget ==
    /\ budget.llmCallsUsed < MaxLLMCalls
    /\ budget.iterationsUsed < MaxIterations
    /\ ~budget.expired

-----------------------------------------------------------------------------
(* Control of the tasks.                                                   *)

OnCpu(t, p) == cpu # <<>> /\ t = Head(cpu) /\ tasks[t].pc = p
Awaiting(t, p) == cpu = <<>> /\ t \in DOMAIN tasks /\ tasks[t].pc = p

Env(t) == envs[tasks[t].env]
SetEnv(t, E) == envs' = [envs EXCEPT ![tasks[t].env] = E]
SetTask(t, T) == tasks' = [tasks EXCEPT ![t] = T]
Goto(t, p) == SetTask(t, [tasks[t] EXCEPT !.pc = p])
\* The section of the innermost task ends at an await.
Yield(t, p) == Goto(t, p) /\ cpu' = Tail(cpu)

RunVars == <<graph, phase, order, outputs, cursor>>

-----------------------------------------------------------------------------
(* run(): validation, initialisation, and the end.                         *)

Init ==
    /\ graph \in Graphs
    /\ phase = "idle"
    /\ order = <<>>
    /\ envs = <<>>
    /\ tasks = <<>>
    /\ cpu = <<>>
    /\ chains = {}
    /\ budget = [llmCallsUsed |-> 0, iterationsUsed |-> 0, expired |-> FALSE]
    /\ outputs = <<>>
    /\ cursor = "none"

Run ==
    /\ phase = "idle"
    /\ IF validateGraph(graph)
       THEN /\ phase' = "running"
            /\ order' = topologicalSort(graph)
            /\ envs' = <<NewState(NodeIds(graph))>>
            /\ tasks' = <<[NewTask(1, graph.entry, Undef) EXCEPT
                             !.pc = "next", !.todo = NodeIds(graph)]>>
            /\ cpu' = <<1>>
       ELSE /\ phase' = "invalid"
            /\ UNCHANGED <<order, envs, tasks, cpu>>
    /\ UNCHANGED <<graph, chains, budget, outputs, cursor>>

\* The result's outputs (key -> value): the exit nodes' values; failing that,
\* the value of the executed _output node; failing that, the first input of
\* _output.
Defined(E, S) == {n \in S : E.out[n].kind # "undef"}
Sources(n) == {e \in getIncomingDataEdges(graph, n) : envs[1].out[e.from].kind # "undef"}

CollectOutputs(E) ==
    LET exits == Defined(E, {graph.exits[i] : i \in DOMAIN graph.exits})
        has   == "_output" \in NodeIds(graph)
    IN  IF exits # {} THEN [n \in exits |-> E.out[n]]
        ELSE IF has /\ E.st["_output"] = "completed"
                    /\ E.out["_output"].kind \notin {"undef", "void"}
        THEN [n \in {"_output"} |-> E.out[n]]
        ELSE IF has /\ KindOf("_output") = "output" /\ Sources("_output") # {}
        THEN [k \in {"result"} |->
                 E.out[(CHOOSE e \in FirstIn(graph.edges, Sources("_output")) : TRUE).from]]
        ELSE <<>>

\* The cursor is taken from the first tabular output.
StoreCursor(outs) ==
    LET tab == {k \in DOMAIN outs : outs[k].kind = "tabular"}
    IN  cursor' = IF tab = {} THEN cursor
                  ELSE CHOOSE k \in tab : \A j \in tab \ {k} :
                           Position(graph.exits, k) < Position(graph.exits, j)

Resolve ==
    /\ OnCpu(1, "next")
    /\ tasks[1].todo = {}
    /\ phase' = "resolved"
    /\ outputs' = CollectOutputs(envs[1])
    /\ StoreCursor(outputs')
    /\ Yield(1, "done")
    /\ UNCHANGED <<graph, order, envs, chains, budget>>

Reject ==
    /\ Awaiting(1, "threw")
    /\ phase = "running"
    /\ phase' = "rejected"
    /\ UNCHANGED <<graph, order, envs, tasks, cpu, chains, budget, outputs, cursor>>

-----------------------------------------------------------------------------
(* The node loops of run() (task 1) and executeSubgraph (the others).      *)

\* executeSubgraph: a defined input completes the start node on the spot;
\* the node list is what is reachable and still pending.
EnterSubgraph(t) ==
    /\ OnCpu(t, "enter")
    /\ LET n == tasks[t].node
           E == IF tasks[t].val.kind # "undef"
                THEN markNodeCompleted(Env(t), n, tasks[t].val) ELSE Env(t)
       IN  /\ SetEnv(t, E)
           /\ SetTask(t, [tasks[t] EXCEPT !.pc = "next",
                            !.todo = {m \in NodeIds(graph) :
                                         /\ m \in getReachableNodes(graph, n)
                                         /\ E.st[m] = "pending"}])
    /\ UNCHANGED <<RunVars, cpu, chains, budget>>

\* Mutant: branches use the test of run(), which takes up running nodes.
SettledAsInRun(t, n) == Env(t).st[n] \in {"completed", "skipped"}

Settled(t, n) ==
    IF t = 1 THEN Env(t).st[n] \in {"completed", "skipped"}
             ELSE Env(t).st[n] # "pending"

\* Only run() checks that the node's sources are done.
MustSkip(t, n) ==
    \/ shouldSkipNode(Env(t), n)
    \/ t = 1 /\ ~isReadyToExecute(Env(t), n)

PassOver(t) ==
    /\ OnCpu(t, "next")
    /\ \E n \in FirstIn(order, tasks[t].todo) :
         /\ Settled(t, n)
         /\ SetTask(t, [tasks[t] EXCEPT !.todo = @ \ {n}])
    /\ UNCHANGED <<RunVars, envs, cpu, chains, budget>>

SkipNode(t) ==
    /\ OnCpu(t, "next")
    /\ \E n \in FirstIn(order, tasks[t].todo) :
         /\ ~Settled(t, n)
         /\ MustSkip(t, n)
         /\ SetEnv(t, markNodeSkipped(Env(t), n))
         /\ SetTask(t, [tasks[t] EXCEPT !.todo = @ \ {n}])
    /\ UNCHANGED <<RunVars, cpu, chains, budget>>

PickNode(t) ==
    /\ OnCpu(t, "next")
    /\ \E n \in FirstIn(order, tasks[t].todo) :
         /\ ~Settled(t, n)
         /\ ~MustSkip(t, n)
         /\ SetTask(t, [tasks[t] EXCEPT !.pc = "dispatch", !.node = n, !.todo = @ \ {n}])
    /\ UNCHANGED <<RunVars, envs, cpu, chains, budget>>

SubgraphEnds(t) ==
    /\ t # 1
    /\ OnCpu(t, "next")
    /\ tasks[t].todo = {}
    /\ Yield(t, "done")
    /\ UNCHANGED <<RunVars, envs, chains, budget>>

\* The await of executeNode in either loop is over.
ResumeLoop(t) ==
    /\ Awaiting(t, "settled")
    /\ Goto(t, "next")
    /\ cpu' = <<t>>
    /\ UNCHANGED <<RunVars, envs, chains, budget>>

-----------------------------------------------------------------------------
(* executeNode: the budget check and the dispatch on the node's kind.      *)

Dispatching(t, kinds) ==
    /\ OnCpu(t, "dispatch")
    /\ tasks[t].node \in NodeIds(graph)
    /\ checkBudget
    /\ KindOf(tasks[t].node) \in kinds

\* An unknown (fallback) node or an exhausted budget rejects executeNode
\* before anything is recorded about the node.
DispatchThrows(t) ==
    /\ OnCpu(t, "dispatch")
    /\ ~(tasks[t].node \in NodeIds(graph) /\ checkBudget)
    /\ Yield(t, "threw")
    /\ UNCHANGED <<RunVars, envs, chains, budget>>

\* A standard node: running, and its first attempt called.
StartStandard(t) ==
    /\ Dispatching(t, Standard)
    /\ LET n == tasks[t].node
           E == Started(Env(t), n)
       IN  /\ SetEnv(t, Called(markNodeRunning(E, n), n))
           /\ chains' = chains \cup
                {[env |-> tasks[t].env, node |-> n, start |-> E.started[n],
                  attempt |-> 0, pc |-> "call", waiter |-> t]}
    /\ Yield(t, "race")
    /\ UNCHANGED <<RunVars, budget>>

\* The value a node with policy "skip" passes on: its input, or void; the
\* input node, which has no input port, passes an empty collection.
PassedOn(E, n) ==
    IF KindOf(n) = "input" THEN {[kind |-> "other", src |-> {}]}
    ELSE {IF v.kind = "undef" THEN [v EXCEPT !.kind = "void"] ELSE v : v \in getNodeInputs(E, n)}

OnError(t) == graph.node[tasks[t].node].onError
FallbackOf(t) == graph.node[tasks[t].node].fallbackNodeId

\* Mutant: the error is recorded but not rethrown.
FailNodeSwallowed(t) ==
    /\ OnError(t) \notin {"skip", "fallback"}
    /\ SetEnv(t, markNodeFailed(Env(t), tasks[t].node))
    /\ Goto(t, "settled")
    /\ cpu' = <<>>

\* "fail", and "retry" once its attempts are used up.
FailNode(t) ==
    /\ OnError(t) \notin {"skip", "fallback"}
    /\ SetEnv(t, markNodeFailed(Env(t), tasks[t].node))
    /\ Goto(t, "threw")
    /\ cpu' = <<>>

SkipFailedNode(t) ==
    /\ OnError(t) = "skip"
    /\ LET n == tasks[t].node
           E == Env(t)
       IN  \E v \in PassedOn(E, n) :
             SetEnv(t, IF E.st[n] = "absent" THEN E
                       ELSE [markNodeSkipped(E, n) EXCEPT !.out[n] = v])
    /\ Goto(t, "settled")
    /\ cpu' = <<>>

\* Mutant: the missing fallbackNodeId is executed.
NoFallbackUnchecked(t) ==
    /\ OnError(t) = "fallback"
    /\ FallbackOf(t) = "none"
    /\ SetEnv(t, markNodeSkipped(Env(t), tasks[t].node))
    /\ SetTask(t, [tasks[t] EXCEPT !.pc = "dispatch", !.node = "none"])
    /\ cpu' = <<t>>

NoFallback(t) ==
    /\ OnError(t) = "fallback"
    /\ FallbackOf(t) = "none"
    /\ SetEnv(t, markNodeSkipped(Env(t), tasks[t].node))
    /\ Goto(t, "settled")
    /\ cpu' = <<>>

\* The fallback node is executed whatever its status.
RunFallback(t) ==
    /\ OnError(t) = "fallback"
    /\ FallbackOf(t) # "none"
    /\ SetEnv(t, markNodeSkipped(Env(t), tasks[t].node))
    /\ SetTask(t, [tasks[t] EXCEPT !.pc = "dispatch", !.node = FallbackOf(t)])
    /\ cpu' = <<t>>

\* The errorPolicy of the node task t was executing.
handleNodeError(t) ==
    FailNode(t) \/ SkipFailedNode(t) \/ NoFallback(t) \/ RunFallback(t)

-----------------------------------------------------------------------------
(* executeWithRetry and executeWithTimeout.  A chain whose waiter is 0 has *)
(* lost the race against its timer: nobody reads its result, but it still  *)
(* goes through its remaining attempts.                                    *)

\* Mutant: a result that comes after the timeout is still recorded.
CallResolvesLate(c) ==
    /\ cpu = <<>>
    /\ c.pc = "call"
    /\ chains' = chains \ {c}
    /\ envs' = [envs EXCEPT ![c.env] =
                   markNodeCompleted(@, c.node, [kind |-> "other", src |-> {c.node}])]
    /\ IF c.waiter = 0 THEN UNCHANGED tasks ELSE Goto(c.waiter, "settled")
    /\ UNCHANGED <<RunVars, cpu, budget>>

CallResolves(c) ==
    /\ cpu = <<>>
    /\ c.pc = "call"
    /\ chains' = chains \ {c}
    /\ IF c.waiter = 0 THEN UNCHANGED <<envs, tasks, budget>>
       ELSE /\ \E k \in OutKinds :
                 SetEnv(c.waiter, markNodeCompleted(Env(c.waiter), c.node,
                                                    [kind |-> k, src |-> {c.node}]))
            /\ Goto(c.waiter, "settled")
            /\ budget' = IF KindOf(c.node) = "llm"
                         THEN [budget EXCEPT !.llmCallsUsed = @ + 1] ELSE budget
    /\ UNCHANGED <<RunVars, cpu>>

MaxRetries(n) == graph.node[n].maxRetries

\* Mutant: one attempt too many.
CallRejectedOnceMore(c) ==
    /\ cpu = <<>>
    /\ c.pc = "call"
    /\ c.attempt <= MaxRetries(c.node)
    /\ chains' = (chains \ {c}) \cup {[c EXCEPT !.pc = "sleep"]}
    /\ UNCHANGED <<RunVars, envs, tasks, cpu, budget>>

CallRejected(c) ==
    /\ cpu = <<>>
    /\ c.pc = "call"
    /\ c.attempt < MaxRetries(c.node)
    /\ chains' = (chains \ {c}) \cup {[c EXCEPT !.pc = "sleep"]}
    /\ envs' = [envs EXCEPT ![c.env] =
                   IF @.st[c.node] = "absent" THEN @
                   ELSE [@ EXCEPT !.retryCount[c.node] = c.attempt + 1]]
    /\ UNCHANGED <<RunVars, tasks, cpu, budget>>

BackoffEnds(c) ==
    /\ cpu = <<>>
    /\ c.pc = "sleep"
    /\ chains' = (chains \ {c}) \cup
                   {[c EXCEPT !.pc = "call", !.attempt = @ + 1]}
    /\ envs' = [envs EXCEPT ![c.env] = Called(@, c.node)]
    /\ UNCHANGED <<RunVars, tasks, cpu, budget>>

RetriesExhausted(c) ==
    /\ cpu = <<>>
    /\ c.pc = "call"
    /\ c.attempt >= MaxRetries(c.node)
    /\ chains' = chains \ {c}
    /\ IF c.waiter = 0 THEN UNCHANGED <<envs, tasks, cpu>>
                       ELSE handleNodeError(c.waiter)
    /\ UNCHANGED <<RunVars, budget>>

\* Mutant: the timer covers the first attempt only.
NodeTimeoutFirstAttempt(c) ==
    /\ cpu = <<>>
    /\ c.waiter # 0
    /\ c.attempt = 0 /\ c.pc = "call"
    /\ chains' = (chains \ {c}) \cup {[c EXCEPT !.waiter = 0]}
    /\ handleNodeError(c.waiter)
    /\ UNCHANGED <<RunVars, budget>>

NodeTimeout(c) ==
    /\ cpu = <<>>
    /\ c.waiter # 0
    /\ chains' = (chains \ {c}) \cup {[c EXCEPT !.waiter = 0]}
    /\ handleNodeError(c.waiter)
    /\ UNCHANGED <<RunVars, budget>>

-----------------------------------------------------------------------------
(* The query node: two calls of the executor, the second one timed; the    *)
(* node is never marked running, and an error bypasses its errorPolicy.    *)

StartQuery(t) ==
    /\ Dispatching(t, {"query"})
    /\ SetEnv(t, Called(Started(Env(t), tasks[t].node), tasks[t].node))
    /\ Yield(t, "query1")
    /\ UNCHANGED <<RunVars, chains, budget>>

FirstQueryResolves(t) ==
    /\ Awaiting(t, "query1")
    /\ SetEnv(t, Called(Env(t), tasks[t].node))
    /\ Goto(t, "query2")
    /\ UNCHANGED <<RunVars, cpu, chains, budget>>

SecondQueryResolves(t) ==
    /\ Awaiting(t, "query2")
    /\ SetEnv(t, markNodeCompleted(Env(t), tasks[t].node,
                     [kind |-> "tabular", src |-> {tasks[t].node}]))
    /\ Goto(t, "settled")
    /\ UNCHANGED <<RunVars, cpu, chains, budget>>

QueryRejects(t) ==
    /\ Awaiting(t, "query1") \/ Awaiting(t, "query2")
    /\ Goto(t, "threw")
    /\ UNCHANGED <<RunVars, envs, cpu, chains, budget>>

QueryTimeout(t) ==
    /\ Awaiting(t, "query2")
    /\ Goto(t, "threw")
    /\ UNCHANGED <<RunVars, envs, cpu, chains, budget>>

-----------------------------------------------------------------------------
(* executeConditional: one synchronous section.  result is what the        *)
(* predicate evaluates to; anything else throws.                           *)

Takes(e, result) ==
    \/ e.cond = "always"
    \/ e.cond = "true" /\ result
    \/ e.cond = "false" /\ ~result

\* E with the pending nodes of the given set skipped.
SkipPending(E, S) ==
    [E EXCEPT !.st = [m \in Node |-> IF m \in S /\ E.st[m] = "pending"
                                     THEN "skipped" ELSE E.st[m]]]

executeConditional(t, result) ==
    /\ Dispatching(t, {"conditional"})
    /\ LET n    == tasks[t].node
           ctrl == getOutgoingControlEdges(graph, n)
           on   == {e \in ctrl : Takes(e, result)}
           E    == [Started(Env(t), n) EXCEPT
                      !.activated = @ \cup {e.id : e \in on},
                      !.deactivated = @ \cup {e.id : e \in ctrl \ on}]
           off  == getNodesOnInactiveBranches(graph,
                       {e \in ctrl : e.id \in E.deactivated})
       IN  \E v \in getNodeInputs(E, n) :
               SetEnv(t, SkipPending(markNodeCompleted(E, n, v), off))
    /\ Yield(t, "settled")
    /\ UNCHANGED <<RunVars, chains, budget>>

PredicateThrows(t) ==
    /\ Dispatching(t, {"conditional"})
    /\ SetEnv(t, Started(Env(t), tasks[t].node))
    /\ Yield(t, "threw")
    /\ UNCHANGED <<RunVars, chains, budget>>

-----------------------------------------------------------------------------
(* executeMerge.                                                           *)

MergeThrowsNow(E, n) ==
    \/ graph.node[n].waitForAll /\ MergeMustWait(E, n)
    \/ MergeInputs(E, n) = {}

MergeThrows(t) ==
    /\ Dispatching(t, {"merge"})
    /\ MergeThrowsNow(Env(t), tasks[t].node)
    /\ SetEnv(t, Started(Env(t), tasks[t].node))
    /\ Yield(t, "threw")
    /\ UNCHANGED <<RunVars, chains, budget>>

\* One input: passed through, an empty table instead of void.
MergeSingle(t) ==
    /\ Dispatching(t, {"merge"})
    /\ ~MergeThrowsNow(Env(t), tasks[t].node)
    /\ LET n == tasks[t].node
       IN  \E e \in MergeInputs(Env(t), n) :
             /\ MergeInputs(Env(t), n) = {e}
             /\ LET v == Env(t).out[e.from]
                IN  SetEnv(t, markNodeCompleted(Started(Env(t), n), n,
                       IF v.kind = "void" THEN [v EXCEPT !.kind = "tabular"] ELSE v))
    /\ Yield(t, "settled")
    /\ UNCHANGED <<RunVars, chains, budget>>

\* Mutant: the inputs overwrite each other under one key.
MergeManyLast(t) ==
    /\ Dispatching(t, {"merge"})
    /\ ~MergeThrowsNow(Env(t), tasks[t].node)
    /\ LET n  == tasks[t].node
           in == MergeInputs(Env(t), n)
       IN  /\ \E e, d \in in : e # d
           /\ SetEnv(t, Called(markNodeRunning(Started(Env(t), n), n), n))
           /\ \E e \in LastIn(graph.edges, in) :
                SetTask(t, [tasks[t] EXCEPT !.pc = "merging", !.val = Env(t).out[e.from]])
    /\ cpu' = Tail(cpu)
    /\ UNCHANGED <<RunVars, chains, budget>>

\* Several inputs go to the merge node's execute, as one collection.
MergeMany(t) ==
    /\ Dispatching(t, {"merge"})
    /\ ~MergeThrowsNow(Env(t), tasks[t].node)
    /\ LET n  == tasks[t].node
           in == MergeInputs(Env(t), n)
       IN  /\ \E e, d \in in : e # d
           /\ SetEnv(t, Called(markNodeRunning(Started(Env(t), n), n), n))
           /\ SetTask(t, [tasks[t] EXCEPT !.pc = "merging",
                            !.val = [kind |-> "tabular",
                                     src |-> UNION {Env(t).out[e.from].src : e \in in}]])
    /\ cpu' = Tail(cpu)
    /\ UNCHANGED <<RunVars, chains, budget>>

MergeResolves(t) ==
    /\ Awaiting(t, "merging")
    /\ SetEnv(t, markNodeCompleted(Env(t), tasks[t].node, tasks[t].val))
    /\ Goto(t, "settled")
    /\ UNCHANGED <<RunVars, cpu, chains, budget>>

MergeRejects(t) ==
    /\ Awaiting(t, "merging")
    /\ Goto(t, "threw")
    /\ UNCHANGED <<RunVars, envs, cpu, chains, budget>>

-----------------------------------------------------------------------------
(* executeParallel: batches of branches, each batch one Promise.all.  The  *)
(* first section of every branch of a batch runs before the await, in      *)
(* branch order.                                                           *)

Lesser(a, b) == IF a < b THEN a ELSE b

\* Mutant of Cap: the configured limit on the branches is not applied.
CapOfNode(n) == graph.node[n].maxConcurrency

Cap(n) == Lesser(graph.node[n].maxConcurrency, MaxParallelBranches)

executeParallel(t) ==
    /\ Dispatching(t, {"parallel"})
    /\ LET n == tasks[t].node
       IN  /\ SetEnv(t, Started(Env(t), n))
           /\ \E v \in getNodeInputs(Env(t), n) :
                SetTask(t, [tasks[t] EXCEPT !.pc = "fork", !.val = v, !.kids = {},
                              !.rest = getOutgoingDataEdges(graph, n)])
    /\ UNCHANGED <<RunVars, cpu, chains, budget>>

\* batch.map: the next branch of the batch starts.
ForkBranch(t) ==
    LET k == Len(tasks) + 1
    IN  /\ OnCpu(t, "fork")
        /\ Cardinality(tasks[t].kids) < Cap(tasks[t].node)
        /\ \E e \in FirstIn(graph.edges, tasks[t].rest) :
             tasks' = Append([tasks EXCEPT ![t] =
                                [tasks[t] EXCEPT !.kids = @ \cup {k}, !.rest = @ \ {e}]],
                             NewTask(tasks[t].env, e.to, tasks[t].val))
        /\ cpu' = <<k>> \o cpu
        /\ UNCHANGED <<RunVars, envs, chains, budget>>

AwaitBatch(t) ==
    /\ OnCpu(t, "fork")
    /\ tasks[t].kids # {}
    /\ Cardinality(tasks[t].kids) = Cap(tasks[t].node) \/ tasks[t].rest = {}
    /\ Yield(t, "join")
    /\ UNCHANGED <<RunVars, envs, chains, budget>>

\* Promise.all resolves when every branch has; it rejects with the first
\* rejection and the other branches run on.
BatchResolves(t) ==
    /\ Awaiting(t, "join")
    /\ KindOf(tasks[t].node) = "parallel"
    /\ \A k \in tasks[t].kids : tasks[k].pc = "done"
    /\ SetTask(t, [tasks[t] EXCEPT !.pc = "fork", !.kids = {}])
    /\ cpu' = <<t>>
    /\ UNCHANGED <<RunVars, envs, chains, budget>>

KidRejects(t) ==
    /\ Awaiting(t, "join")
    /\ \E k \in tasks[t].kids : tasks[k].pc = "threw"
    /\ Goto(t, "threw")
    /\ UNCHANGED <<RunVars, envs, cpu, chains, budget>>

ParallelEnds(t) ==
    /\ OnCpu(t, "fork")
    /\ tasks[t].kids = {} /\ tasks[t].rest = {}
    /\ SetEnv(t, markNodeCompleted(Env(t), tasks[t].node, tasks[t].val))
    /\ Yield(t, "settled")
    /\ UNCHANGED <<RunVars, chains, budget>>

-----------------------------------------------------------------------------
(* executeLoop: one ExecutionState and one executeSubgraph per iteration.  *)

Body(n) == getBodyNodeIds(graph, n)
BodySet(n) == {Body(n)[i] : i \in DOMAIN Body(n)}
maxIter(n) == Lesser(graph.node[n].maxIterations, MaxIterations)
IsWhile(n) == graph.node[n].mode = "while"

\* The kind of the value the loop node shows its body: a while loop passes
\* its tabular input on, everything else becomes a record.
ItemKind(E, n) ==
    IF IsWhile(n) /\ \E v \in getNodeInputs(E, n) : v.kind = "tabular"
    THEN "tabular" ELSE "other"

\* The body nodes pending, the loop node completed with the current item.
forkStateForIteration(E, n) ==
    [NewState(BodySet(n)) EXCEPT !.st[n] = "completed",
                                 !.out[n] = [kind |-> ItemKind(E, n), src |-> {n}]]

\* The output of the first completed exit of the body (a node without a data
\* edge into the body), as a singleton; without exits, of the first body node.
getSubgraphOutput(E, n) ==
    LET body  == BodySet(n) \cap Node
        exits == {m \in body : DataSuccessors(graph, m) \cap BodySet(n) = {}}
        ready == {m \in (IF exits = {} THEN body ELSE exits) :
                     E.st[m] = "completed" /\ E.out[m].kind # "undef"}
    IN  IF ready = {} THEN {Undef} ELSE {E.out[m] : m \in FirstIn(Body(n), ready)}

updateAccumulator(acc, item) == [acc EXCEPT !.src = @ \cup item.src]

\* forEach evaluates its iterable first (k items); while has none.
executeLoop(t) ==
    /\ Dispatching(t, {"loop"})
    /\ getOutgoingDataEdges(graph, tasks[t].node) # {}
    /\ \E k \in 0..MaxItems :
         /\ IsWhile(tasks[t].node) => k = 0
         /\ SetTask(t, [tasks[t] EXCEPT !.pc = "iter", !.iter = 0, !.left = k,
                          !.kids = {}, !.val = [kind |-> "other", src |-> {}]])
    /\ SetEnv(t, Started(Env(t), tasks[t].node))
    /\ UNCHANGED <<RunVars, cpu, chains, budget>>

\* A loop without a body, an iterable that cannot be evaluated.
LoopThrows(t) ==
    /\ Dispatching(t, {"loop"})
    /\ getOutgoingDataEdges(graph, tasks[t].node) = {} \/ ~IsWhile(tasks[t].node)
    /\ SetEnv(t, Started(Env(t), tasks[t].node))
    /\ Yield(t, "threw")
    /\ UNCHANGED <<RunVars, chains, budget>>

\* A while condition that is not boolean.
ConditionThrows(t) ==
    /\ OnCpu(t, "iter")
    /\ IsWhile(tasks[t].node)
    /\ tasks[t].iter < maxIter(tasks[t].node)
    /\ Yield(t, "threw")
    /\ UNCHANGED <<RunVars, envs, chains, budget>>

\* The next item, or a while condition that holds (its value is external).
\* Only the loop's first outgoing edge starts the body.
NextIteration(t) ==
    LET n == tasks[t].node
        k == Len(tasks) + 1
    IN  /\ OnCpu(t, "iter")
        /\ tasks[t].iter < maxIter(n)
        /\ IsWhile(n) \/ tasks[t].left > 0
        /\ envs' = Append(envs, forkStateForIteration(Env(t), n))
        /\ \E e \in FirstIn(graph.edges, getOutgoingDataEdges(graph, n)) :
             tasks' = Append([tasks EXCEPT ![t] = [@ EXCEPT !.pc = "join", !.kids = {k}]],
                             NewTask(Len(envs) + 1, e.to, Undef))
        /\ cpu' = <<k>> \o Tail(cpu)
        /\ UNCHANGED <<RunVars, chains, budget>>

\* Mutant: a failed iteration is ignored.
IterationEndsAnyhow(t) ==
    /\ Awaiting(t, "join")
    /\ KindOf(tasks[t].node) = "loop"
    /\ \A k \in tasks[t].kids : tasks[k].pc \in {"done", "threw"}
    /\ SetTask(t, [tasks[t] EXCEPT !.pc = "iter", !.kids = {}, !.iter = @ + 1,
                     !.left = IF @ > 0 THEN @ - 1 ELSE 0])
    /\ budget' = [budget EXCEPT !.iterationsUsed = @ + 1]
    /\ cpu' = <<t>>
    /\ UNCHANGED <<RunVars, envs, chains>>

IterationEnds(t) ==
    /\ Awaiting(t, "join")
    /\ KindOf(tasks[t].node) = "loop"
    /\ \A k \in tasks[t].kids : tasks[k].pc = "done"
    /\ \E k \in tasks[t].kids : \E v \in getSubgraphOutput(Env(k), tasks[t].node) :
         SetTask(t, [tasks[t] EXCEPT !.pc = "iter", !.kids = {}, !.iter = @ + 1,
                       !.left = IF @ > 0 THEN @ - 1 ELSE 0,
                       !.val = updateAccumulator(@, v)])
    /\ budget' = [budget EXCEPT !.iterationsUsed = @ + 1]
    /\ cpu' = <<t>>
    /\ UNCHANGED <<RunVars, envs, chains>>

\* The reducer of the accumulator throws.
AccumulatorThrows(t) ==
    /\ Awaiting(t, "join")
    /\ KindOf(tasks[t].node) = "loop"
    /\ \A k \in tasks[t].kids : tasks[k].pc = "done"
    /\ Goto(t, "threw")
    /\ UNCHANGED <<RunVars, envs, cpu, chains, budget>>

\* The body nodes closed in the outer state.
CloseBody(E, n) ==
    [E EXCEPT !.st = [m \in Node |-> IF m \in BodySet(n) THEN "completed" ELSE E.st[m]],
              !.out = [m \in Node |-> IF m \in BodySet(n) THEN Undef ELSE E.out[m]],
              !.retryCount = [m \in Node |-> IF m \in BodySet(n) THEN 0 ELSE E.retryCount[m]]]

\* Out of items, a false condition, or the cap.
LoopEnds(t) ==
    LET n == tasks[t].node
    IN  /\ OnCpu(t, "iter")
        /\ tasks[t].iter >= maxIter(n) \/ IsWhile(n) \/ tasks[t].left = 0
        /\ SetEnv(t, markNodeCompleted(CloseBody(Env(t), n), n, tasks[t].val))
        /\ Yield(t, "settled")
        /\ UNCHANGED <<RunVars, chains, budget>>

-----------------------------------------------------------------------------
(* The environment's clock, and the specification.                         *)

PipelineTimeout ==
    /\ cpu = <<>>
    /\ phase = "running"
    /\ ~budget.expired
    /\ budget' = [budget EXCEPT !.expired = TRUE]
    /\ UNCHANGED <<RunVars, envs, tasks, cpu, chains>>

\* Every call has returned.
Ended ==
    /\ phase \in {"invalid", "resolved", "rejected"}
    /\ chains = {}
    /\ \A t \in DOMAIN tasks : tasks[t].pc \in {"done", "threw"}
    /\ UNCHANGED vars

TaskStep(t) ==
    \/ EnterSubgraph(t) \/ PassOver(t) \/ SkipNode(t) \/ PickNode(t)
    \/ SubgraphEnds(t) \/ ResumeLoop(t) \/ DispatchThrows(t) \/ StartStandard(t)
    \/ StartQuery(t) \/ (\E r \in BOOLEAN : executeConditional(t, r))
    \/ PredicateThrows(t) \/ MergeThrows(t) \/ MergeSingle(t) \/ MergeMany(t)
    \/ MergeResolves(t) \/ executeParallel(t) \/ ForkBranch(t) \/ AwaitBatch(t)
    \/ ParallelEnds(t) \/ BatchResolves(t) \/ KidRejects(t) \/ executeLoop(t) \/ LoopThrows(t)
    \/ ConditionThrows(t) \/ NextIteration(t) \/ IterationEnds(t) \/ AccumulatorThrows(t)
    \/ LoopEnds(t)

QueryReply(t) ==
    FirstQueryResolves(t) \/ SecondQueryResolves(t) \/ QueryRejects(t)

ChainStep(c) ==
    CallResolves(c) \/ CallRejected(c) \/ BackoffEnds(c) \/ RetriesExhausted(c)

Next ==
    \/ Run \/ Resolve \/ Reject \/ PipelineTimeout \/ Ended
    \/ \E t \in DOMAIN tasks :
           TaskStep(t) \/ MergeRejects(t) \/ QueryReply(t) \/ QueryTimeout(t)
    \/ \E c \in chains : ChainStep(c) \/ NodeTimeout(c)

Spec == Init /\ [][Next]_vars

\* The event loop keeps running ready tasks, the per-node timers fire, and a
\* merge is a computation in memory.  No fairness is assumed of what a node's
\* execute or a query does: it may never settle.
Fairness ==
    /\ WF_vars(Run) /\ WF_vars(Resolve) /\ WF_vars(Reject)
    /\ WF_vars(\E t \in DOMAIN tasks : TaskStep(t))
    /\ WF_vars(\E t \in DOMAIN tasks : QueryTimeout(t))
    /\ WF_vars(\E c \in chains : NodeTimeout(c))

FairSpec == Spec /\ Fairness

-----------------------------------------------------------------------------
(* Properties.                                                             *)

Task ==
    [env : Nat, pc : Pcs, node : Node, val : Value, todo : SUBSET Node,
     rest : SUBSET Edge, kids : SUBSET Nat, iter : Nat, left : Nat]

Chain == [env : Nat, node : Node, start : Nat, attempt : Nat,
          pc : {"call", "sleep"}, waiter : Nat]

\* Every variable has its type: node states only hold the statuses of
\* NodeExecutionStatus, and every task and retry chain is well formed.
TypeOK ==
    /\ graph \in Graphs
    /\ phase \in {"idle", "invalid", "running", "resolved", "rejected"}
    /\ envs \in Seq(ExecutionState)
    /\ tasks \in Seq(Task)
    /\ cpu \in Seq(Nat)
    /\ chains \subseteq Chain
    /\ budget \in [llmCallsUsed : Nat, iterationsUsed : Nat, expired : BOOLEAN]

\* When run() resolves, every node of the graph is completed or skipped: no
\* node was left pending or running, and none failed (so the result's status
\* is always "success").
ResolvedSettled ==
    phase = "resolved" =>
        \A n \in NodeIds(graph) : envs[1].st[n] \in {"completed", "skipped"}

\* When run() resolves, no branch or iteration is still in progress; the only
\* executions left are those that lost the race against their timer.
ResolvedQuiet ==
    phase = "resolved" =>
        /\ \A t \in DOMAIN tasks : tasks[t].pc = "done"
        /\ \A c \in chains : c.waiter = 0

\* Nodes whose state the code may rewrite after they are done: branch heads
\* of a parallel node (executeSubgraph's forced completion), loop body nodes
\* (closed at the end of the loop) and fallback targets (executed whatever
\* their status).
Rewritable ==
    {n \in NodeIds(graph) :
        \E m \in NodeIds(graph) :
            \/ KindOf(m) = "parallel" /\ n \in DataSuccessors(graph, m)
            \/ KindOf(m) = "loop" /\ n \in BodySet(m)
            \/ graph.node[m].fallbackNodeId = n}

Guarded == {n \in NodeIds(graph) : KindOf(n) \in Standard} \ Rewritable

\* The statuses of the guarded nodes in run()'s own ExecutionState.
Watched ==
    LET guarded == IF envs = <<>> THEN {} ELSE Guarded
    IN  [n \in Node |-> IF n \in guarded THEN envs[1].st[n] ELSE "outside"]

Promise == INSTANCE PipelineRun WITH Step <- Node, step <- Watched, outcome <- phase

\* The scheduler implements PipelineRun: whatever branches, retries and timers
\* do, a guarded standard node is begun once and ends once, no late attempt
\* and no other branch touches it again, nothing moves after run() resolved,
\* and run() resolves only over completed and skipped nodes.
RunsAsPromised == Promise!Spec

\* A guarded standard node enters executeNode at most once per
\* ExecutionState, even when several branches reach it.
StartedOnce ==
    \A e \in DOMAIN envs : \A n \in Guarded : envs[e].started[n] <= 1

\* The executes of a standard node stay within its retry allowance, late
\* attempts after a timeout included.
CallBound ==
    \A e \in DOMAIN envs : \A n \in NodeIds(graph) :
        KindOf(n) \in Standard =>
            envs[e].calls[n] <= envs[e].started[n] * (MaxRetries(n) + 1)

Untaken(E) == {n \in NodeIds(graph) : shouldSkipNode(E, n)}

\* The nodes an edge path connects to the entry without crossing an untaken one.
Live(E) ==
    LET Succ(n) == {e.to : e \in {d \in EdgesOf(graph) : d.from = n}} \ Untaken(E)
    IN  Closure(graph, {graph.entry}, Succ)

\* The nodes that only an untaken branch of a conditional leads to are never
\* entered: neither its first node nor what hangs below it.
UntakenNotRun ==
    envs # <<>> =>
        \A n \in NodeIds(graph) \ Live(envs[1]) : envs[1].started[n] = 0

\* A graph of standard nodes is rejected only because a node whose policy
\* asks for it failed, because a fallback node does not exist, or because
\* the budget is used up.
RejectionJustified ==
    (phase = "rejected" /\ \A n \in NodeIds(graph) : KindOf(n) \in Standard) =>
        \/ ~checkBudget
        \/ \E n \in NodeIds(graph) : /\ envs[1].st[n] = "failed"
                                     /\ graph.node[n].onError \notin {"skip", "fallback"}
        \/ \E n \in NodeIds(graph) :
               graph.node[n].fallbackNodeId \notin NodeIds(graph) \cup {"none"}

\* How run() ends says what happened: it resolves only if every node has
\* settled, and rejects only for one of the reasons of RejectionJustified.
OutcomeJustified == ResolvedSettled /\ RejectionJustified

\* A resolved run's merge nodes hold the data of every completed source.
MergeComplete ==
    phase = "resolved" =>
        \A e \in EdgesOf(graph) :
            (/\ e.kind = "data" /\ KindOf(e.to) = "merge"
             /\ envs[1].st[e.from] = "completed" /\ envs[1].st[e.to] = "completed")
            => envs[1].out[e.from].src \subseteq envs[1].out[e.to].src

\* "run multiple steps concurrently" (pipeline-intent-generator.ts:248): a
\* resolved run has executed every branch of a parallel node it executed,
\* unless the branch was skipped.
BranchesRun ==
    phase = "resolved" =>
        \A e \in EdgesOf(graph) :
            (/\ e.kind = "data" /\ KindOf(e.from) = "parallel"
             /\ envs[1].started[e.from] > 0 /\ envs[1].st[e.to] # "skipped")
            => envs[1].started[e.to] > 0

\* "hard cap on loop iterations" (README.md:652): loops that share the budget,
\* one after the other, stay within it together.
HardCapOnIterations == budget.iterationsUsed <= MaxIterations

\* The budget is checked before a call's await and charged after it, so that
\* branches that start together all pass the check: the LLM calls charged and
\* awaited exceed maxLLMCalls, by less than the number of branches that run
\* together.  (Of graphs without a parallel node inside a branch.  A call given
\* up by its timer is neither charged nor counted.)
LLMOvershoot ==
    budget.llmCallsUsed
      + Cardinality({c \in chains : c.waiter # 0 /\ KindOf(c.node) = "llm"})
      < MaxLLMCalls + MaxParallelBranches

\* A run of a graph without query nodes always ends: it is refused, resolves
\* or rejects, even if a node's execute never settles.  (The first execution
\* of a query has no timeout.)
Termination ==
    (\A n \in NodeIds(graph) : KindOf(n) # "query")
    => <>(phase \in {"invalid", "resolved", "rejected"})
=============================================================================
