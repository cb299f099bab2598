---------------------------- MODULE PipelineGraph ----------------------------
(***************************************************************************)
(* The pipeline graph and the pure graph algorithms of the scheduler       *)
(* (scheduler/graph-utils.ts and the graph walks of scheduler.ts).         *)
(*                                                                         *)
(* A graph is a record                                                     *)
(*   nodes : the node ids in the insertion order of the nodes Map          *)
(*   node  : [id -> the node: kind, error policy and the payload fields    *)
(*           the scheduler reads]                                          *)
(*   edges : the edges in the insertion order of the edges Map, each       *)
(*           [id, from, to, kind, key, cond]; key is inputKey or "input"   *)
(*   entry, exits : entryNode and the exitNodes list                       *)
(* A JavaScript Map is iterated in insertion order and several algorithms  *)
(* depend on it, hence the sequences.  Selections from them are sets; what *)
(* the code does "in order" is stated with FirstIn and LastIn.             *)
(***************************************************************************)
EXTENDS Naturals, Sequences, FiniteSets

NodeIds(g) == {g.nodes[i] : i \in DOMAIN g.nodes}
EdgesOf(g) == {g.edges[i] : i \in DOMAIN g.edges}

Position(s, x) == CHOOSE i \in DOMAIN s : s[i] = x

\* The element of S that comes first (last) in the sequence s, as a set.
FirstIn(s, S) == {x \in S : \A y \in S : Position(s, x) <= Position(s, y)}
LastIn(s, S)  == {x \in S : \A y \in S : Position(s, x) >= Position(s, y)}

\* F applied k times to x.  (The singleton makes TLC evaluate f[i - 1] once.)
Iterate(F(_), x, k) ==
    LET f[i \in 0..k] == IF i = 0 THEN x
                         ELSE CHOOSE r \in {F(y) : y \in {f[i - 1]}} : TRUE
    IN  f[k]

-----------------------------------------------------------------------------
(* Edge selectors.                                                         *)

getIncomingDataEdges(g, n) == {e \in EdgesOf(g) : e.to = n /\ e.kind = "data"}
getOutgoingDataEdges(g, n) == {e \in EdgesOf(g) : e.from = n /\ e.kind = "data"}
getOutgoingControlEdges(g, n) == {e \in EdgesOf(g) : e.from = n /\ e.kind = "control"}
getIncomingControlEdges(g, n) == {e \in EdgesOf(g) : e.to = n /\ e.kind = "control"}

DataSuccessors(g, n) == {e.to : e \in getOutgoingDataEdges(g, n)}

\* The targets of n's outgoing data edges, in Map order.
TargetSeq(g, n) ==
    LET out == SelectSeq(g.edges, LAMBDA e : e \in getOutgoingDataEdges(g, n))
    IN  [i \in DOMAIN out |-> out[i].to]

-----------------------------------------------------------------------------
(* Kahn's algorithm over the data edges.  The result misses a node exactly *)
(* when the loop ends early, which the code reports as a cycle.            *)

\* Mutant: parallel edges counted once.
InDegreeDistinct(g, n) == Cardinality({e.from : e \in getIncomingDataEdges(g, n)})

InDegree(g, n) == Cardinality(getIncomingDataEdges(g, n))

\* Decrements the targets in order and queues those that reach zero.
Relax(k, targets) ==
    LET f[i \in 0..Len(targets)] ==
            IF i = 0 THEN k
            ELSE LET p == f[i - 1]
                     d == p.deg[targets[i]] - 1
                 IN  [p EXCEPT !.deg[targets[i]] = d,
                               !.queue = IF d = 0 THEN Append(@, targets[i]) ELSE @]
    IN  f[Len(targets)]

KahnStep(g, k) ==
    IF k.queue = <<>> THEN k
    ELSE Relax([k EXCEPT !.queue = Tail(@), !.result = Append(@, Head(k.queue))],
               TargetSeq(g, Head(k.queue)))

KahnOrder(g) ==
    LET ids == NodeIds(g) \cup {e.to : e \in EdgesOf(g)}
        Step(k) == KahnStep(g, k)
    IN  Iterate(Step,
                [queue |-> SelectSeq(g.nodes, LAMBDA n : InDegree(g, n) = 0),
                 deg |-> [n \in ids |-> InDegree(g, n)],
                 result |-> <<>>],
                Cardinality(ids)).result

HasCycle(g) == Len(KahnOrder(g)) # Len(g.nodes)

topologicalSort(g) == KahnOrder(g)

-----------------------------------------------------------------------------
(* validateGraph: only whether there is an error matters to run().         *)

ValidKinds == {"input", "output", "transform", "llm", "http", "write", "query",
               "conditional", "loop", "merge", "parallel", "schema-builder",
               "semantic-layer-builder"}

EntryValid(g) == g.entry \in NodeIds(g) /\ getIncomingDataEdges(g, g.entry) = {}

ExitsValid(g) ==
    /\ \A i \in DOMAIN g.exits : g.exits[i] \in NodeIds(g)
    /\ "_output" \in NodeIds(g) => getOutgoingDataEdges(g, "_output") = {}

EdgesValid(g) ==
    \A e \in EdgesOf(g) : e.from \in NodeIds(g) /\ e.to \in NodeIds(g)

NoOrphans(g) ==
    \A n \in NodeIds(g) \ {g.entry} : \E e \in EdgesOf(g) : e.to = n

validateGraph(g) ==
    /\ ~HasCycle(g)
    /\ EntryValid(g)
    /\ ExitsValid(g)
    /\ EdgesValid(g)
    /\ NoOrphans(g)
    /\ \A n \in NodeIds(g) : g.node[n].kind \in ValidKinds

-----------------------------------------------------------------------------
(* The scheduler's graph walks.                                            *)

\* Breadth-first closure of S; only the set matters to the callers.
Closure(g, S, Next(_)) ==
    LET Grow(R) == R \cup UNION {Next(n) : n \in R}
    IN  Iterate(Grow, S, Len(g.nodes))

getReachableNodes(g, start) ==
    LET Succ(n) == DataSuccessors(g, n) IN Closure(g, {start}, Succ)

\* Mutant: only the heads of the branches.
getBranchHeads(g, deactivated) == {e.to : e \in deactivated} \cap NodeIds(g)

\* The nodes reached from the targets of the given edges, over edges of any
\* kind, without entering a merge node.
getNodesOnInactiveBranches(g, deactivated) ==
    LET NotMerge(S) == {n \in S \cap NodeIds(g) : g.node[n].kind # "merge"}
        Succ(n)     == NotMerge({e.to : e \in {d \in EdgesOf(g) : d.from = n}})
    IN  Closure(g, NotMerge({e.to : e \in deactivated}), Succ)

\* One queue element of getBodyNodeIds.  A target joins the queue unless one
\* of its data sources is neither the loop, nor visited, nor queued so far.
BodyVisit(g, loop, b) ==
    IF b.queue = <<>> THEN b
    ELSE IF Head(b.queue) \in {b.body[i] : i \in DOMAIN b.body}
    THEN [b EXCEPT !.queue = Tail(@)]
    ELSE LET body      == Append(b.body, Head(b.queue))
             targets   == TargetSeq(g, Head(b.queue))
             Inside(q) == {loop} \cup {body[i] : i \in DOMAIN body}
                                 \cup {q[i] : i \in DOMAIN q}
             f[i \in 0..Len(targets)] ==
                 IF i = 0 THEN Tail(b.queue)
                 ELSE LET q == f[i - 1]
                      IN  IF \A e \in getIncomingDataEdges(g, targets[i]) : e.from \in Inside(q)
                          THEN Append(q, targets[i]) ELSE q
         IN  [queue |-> f[Len(targets)], body |-> body]

\* The loop body, in the order the walk visits it.
getBodyNodeIds(g, loop) ==
    LET Step(b) == BodyVisit(g, loop, b)
    IN  Iterate(Step, [queue |-> TargetSeq(g, loop), body |-> <<>>],
                2 * Len(g.edges)).body
=============================================================================
