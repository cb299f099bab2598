--------------------------- MODULE SchedulerProofs ---------------------------
(***************************************************************************)
(* Theorems about Scheduler, for every set of graphs and every limit.      *)
(***************************************************************************)
EXTENDS Scheduler, WellFoundedInduction, TLAPS

-----------------------------------------------------------------------------
(* The inductive invariant.                                                *)

\* A task in one of these states is inside executeNode for a known node.
Executing == {"race", "query1", "query2", "merging", "fork", "join", "iter"}

\* A task in one of these states may have children in progress.
Parents == {"fork", "join", "threw"}

IdleOK ==
    phase = "idle" => tasks = <<>> /\ envs = <<>> /\ chains = {} /\ cpu = <<>>

CpuOK == \A i \in DOMAIN cpu : cpu[i] \in DOMAIN tasks

TaskOK ==
    \A t \in DOMAIN tasks :
        /\ tasks[t].env \in DOMAIN envs
        /\ tasks[t].kids \subseteq DOMAIN tasks
        /\ tasks[t].pc \in Executing => tasks[t].node \in NodeIds(graph)

\* The task a chain reports to is waiting in the race, for that chain only.
ChainOK ==
    /\ \A c \in chains :
         /\ c.env \in DOMAIN envs
         /\ c.node \in NodeIds(graph)
         /\ c.waiter # 0 => /\ c.waiter \in DOMAIN tasks
                            /\ tasks[c.waiter].pc = "race"
    /\ \A c, d \in chains : c.waiter = d.waiter /\ c.waiter # 0 => c = d

\* A branch or iteration in progress has an older task that waits for it, or
\* that did and was rejected.
Tree ==
    \A k \in DOMAIN tasks \ {1} :
        tasks[k].pc # "done" =>
            \E p \in DOMAIN tasks :
                p < k /\ k \in tasks[p].kids /\ tasks[p].pc \in Parents

ResolvedDone ==
    phase = "resolved" => \A t \in DOMAIN tasks : tasks[t].pc = "done"

IInv ==
    /\ TypeOK /\ IdleOK /\ CpuOK /\ TaskOK /\ ChainOK /\ Tree /\ ResolvedDone

-----------------------------------------------------------------------------
(* Types of the helpers.                                                   *)

\* The graph under execution has well-typed nodes and edges.
LEMMA EdgeTypes ==
    ASSUME graph \in Graphs
    PROVE  /\ NodeIds(graph) \subseteq Node
           /\ EdgesOf(graph) \subseteq Edge
           /\ graph.entry \in Node
           /\ \A n \in NodeIds(graph) : graph.node[n] \in NodeDef
BY GraphAssumption

\* createExecutionState returns a well-typed execution state.
LEMMA NewStateType ==
    ASSUME NEW S
    PROVE  NewState(S) \in ExecutionState
BY DEF NewState, ExecutionState, Status, Value, ValueKinds, Undef

\* The markNode helpers keep an execution state well typed.
LEMMA MarkTypes ==
    ASSUME NEW E \in ExecutionState, NEW n \in Node, NEW v \in Value
    PROVE  /\ markNodeRunning(E, n) \in ExecutionState
           /\ markNodeFailed(E, n) \in ExecutionState
           /\ markNodeSkipped(E, n) \in ExecutionState
           /\ markNodeCompleted(E, n, v) \in ExecutionState
           /\ Started(E, n) \in ExecutionState
           /\ Called(E, n) \in ExecutionState
           /\ \A r \in Nat : [E EXCEPT !.retryCount[n] = r] \in ExecutionState
           /\ [E EXCEPT !.out[n] = v] \in ExecutionState
           /\ [E EXCEPT !.st[n] = "completed", !.out[n] = v] \in ExecutionState
<1>1. \A s \in Status : SetStatus(E, n, s) \in ExecutionState
  BY DEF SetStatus, ExecutionState, Status
<1>2. [E EXCEPT !.out[n] = v] \in ExecutionState
  BY DEF ExecutionState
<1>3. markNodeCompleted(E, n, v) \in ExecutionState
  BY DEF markNodeCompleted, ExecutionState, Status
<1>4. Started(E, n) \in ExecutionState
  BY DEF Started, ExecutionState
<1>5. Called(E, n) \in ExecutionState
  BY DEF Called, ExecutionState
<1>6. \A r \in Nat : [E EXCEPT !.retryCount[n] = r] \in ExecutionState
  BY DEF ExecutionState
<1>7. [E EXCEPT !.st[n] = "completed", !.out[n] = v] \in ExecutionState
  BY DEF ExecutionState, Status
<1> QED
  BY <1>1, <1>2, <1>3, <1>4, <1>5, <1>6, <1>7
     DEF markNodeRunning, markNodeFailed, markNodeSkipped, Status

\* JavaScript's undefined is one of the values.
LEMMA UndefType == Undef \in Value
BY DEF Undef, Value, ValueKinds

\* A task starts well typed.
LEMMA NewTaskType ==
    ASSUME NEW e \in Nat, NEW n \in Node, NEW v \in Value
    PROVE  NewTask(e, n, v) \in Task
BY DEF NewTask, Task, Pcs

\* What getNodeInputs collects is a value.
LEMMA InputsType ==
    ASSUME graph \in Graphs, NEW E \in ExecutionState, NEW n,
           NEW v \in getNodeInputs(E, n)
    PROVE  v \in Value
<1>1. \A e \in EdgesOf(graph) : E.out[e.from] \in Value
  BY EdgeTypes DEF Edge, ExecutionState
<1> QED
  BY <1>1, UndefType DEF getNodeInputs, LastIn, getIncomingDataEdges

-----------------------------------------------------------------------------
(* Two shapes of step: one task moves on, or one task starts another.      *)

\* T may replace tasks[t]: children in progress keep their parent.
Replaces(t, T) ==
    /\ T \in Task
    /\ T.env = tasks[t].env
    /\ T.pc \in Executing => T.node \in NodeIds(graph)
    /\ \/ tasks[t].kids \subseteq T.kids /\ T.pc \in Parents
       \/ tasks[t].pc \notin Parents
       \/ \A k \in tasks[t].kids : tasks[k].pc = "done"

Budget == [llmCallsUsed : Nat, iterationsUsed : Nat, expired : BOOLEAN]

\* What a step of task t does to the other variables, when it leaves the
\* chains alone.
Frame(t) ==
    /\ UNCHANGED <<graph, phase, chains>>
    /\ envs' \in Seq(ExecutionState) /\ DOMAIN envs' = DOMAIN envs
    /\ budget' \in Budget
    /\ \/ cpu' = cpu
       \/ cpu # <<>> /\ cpu' = Tail(cpu)
       \/ cpu' = <<t>>

\* Task t becomes T.
Moves(t, T) ==
    /\ SetTask(t, T)
    /\ Replaces(t, T)
    /\ T.kids \subseteq DOMAIN tasks
    /\ tasks[t].pc \notin {"done", "race"}
    /\ Frame(t)

\* Replacing the execution state of a task keeps the states well typed.
LEMMA SetEnvType ==
    ASSUME TypeOK, TaskOK, NEW t \in DOMAIN tasks, NEW E \in ExecutionState, SetEnv(t, E)
    PROVE  envs' \in Seq(ExecutionState) /\ DOMAIN envs' = DOMAIN envs
BY DEF SetEnv, TypeOK, TaskOK

\* What a step that replaces one task keeps.
LEMMA ReplaceKeeps ==
    ASSUME TypeOK, TaskOK, Tree, NEW t \in DOMAIN tasks, NEW T,
           SetTask(t, T), Replaces(t, T), T.kids \subseteq DOMAIN tasks,
           tasks[t].pc # "done", graph' = graph, DOMAIN envs' = DOMAIN envs
    PROVE  /\ tasks' \in Seq(Task)
           /\ DOMAIN tasks' = DOMAIN tasks
           /\ tasks'[t] = T
           /\ \A s \in DOMAIN tasks \ {t} : tasks'[s] = tasks[s]
           /\ TaskOK'
           /\ Tree'
<1>1. /\ tasks' \in Seq(Task) /\ DOMAIN tasks' = DOMAIN tasks
      /\ tasks'[t] = T /\ \A s \in DOMAIN tasks \ {t} : tasks'[s] = tasks[s]
  BY DEF TypeOK, SetTask, Replaces
<1>2. TaskOK'
  BY <1>1 DEF TaskOK, Replaces
<1>3. Tree'
  <2> SUFFICES ASSUME NEW k \in DOMAIN tasks' \ {1}, tasks'[k].pc # "done"
               PROVE  \E p \in DOMAIN tasks' :
                         p < k /\ k \in tasks'[p].kids /\ tasks'[p].pc \in Parents
    BY DEF Tree
  <2>1. k \in DOMAIN tasks \ {1} /\ tasks[k].pc # "done"
    BY <1>1
  <2>2. PICK p \in DOMAIN tasks : p < k /\ k \in tasks[p].kids /\ tasks[p].pc \in Parents
    BY <2>1 DEF Tree
  <2>3. CASE p # t
    BY <1>1, <2>2, <2>3
  <2>4. CASE p = t
    <3>1. tasks[t].kids \subseteq T.kids /\ T.pc \in Parents
      BY <2>1, <2>2, <2>4 DEF Replaces
    <3> QED
      BY <1>1, <2>2, <2>4, <3>1
  <2> QED
    BY <2>3, <2>4
<1> QED
  BY <1>1, <1>2, <1>3

\* A step in which one task moves on keeps the invariant.
LEMMA MoveKeeps ==
    ASSUME IInv, NEW t \in DOMAIN tasks, NEW T, Moves(t, T)
    PROVE  IInv'
<1> USE DEF IInv
<1>1. /\ tasks' \in Seq(Task) /\ DOMAIN tasks' = DOMAIN tasks /\ tasks'[t] = T
      /\ \A s \in DOMAIN tasks \ {t} : tasks'[s] = tasks[s]
      /\ TaskOK' /\ Tree'
  BY ReplaceKeeps DEF Moves, Frame
<1>2. phase # "idle" /\ phase # "resolved"
  BY DEF IdleOK, ResolvedDone, Moves, Frame
<1>3. IdleOK' /\ ResolvedDone'
  BY <1>2 DEF IdleOK, ResolvedDone, Moves, Frame
<1>4. cpu' \in Seq(Nat) /\ CpuOK'
  <2>1. t \in Nat
    BY DEF TypeOK
  <2>2. CASE cpu' = cpu
    BY <1>1, <2>2 DEF CpuOK, TypeOK
  <2>3. CASE cpu # <<>> /\ cpu' = Tail(cpu)
    BY <1>1, <2>3 DEF CpuOK, TypeOK
  <2>4. CASE cpu' = <<t>>
    BY <1>1, <2>1, <2>4 DEF CpuOK
  <2> QED
    BY <2>2, <2>3, <2>4 DEF Moves, Frame
<1>5. ChainOK'
  BY <1>1 DEF ChainOK, Moves, Frame
<1>6. TypeOK'
  BY <1>1, <1>4 DEF TypeOK, Moves, Frame, Budget
<1> QED
  BY <1>1, <1>3, <1>4, <1>5, <1>6

\* Task t becomes T and starts K.
Spawns(t, T, K) ==
    LET k == Len(tasks) + 1
    IN  /\ tasks' = Append([tasks EXCEPT ![t] = T], K)
        /\ Replaces(t, T)
        /\ T.pc \in Parents
        /\ k \in T.kids /\ T.kids \subseteq DOMAIN tasks \cup {k}
        /\ K \in Task /\ K.pc = "enter" /\ K.kids = {} /\ K.env \in DOMAIN envs'
        /\ tasks[t].pc \notin {"done", "race"}
        /\ UNCHANGED <<graph, phase, chains, budget>>
        /\ envs' \in Seq(ExecutionState) /\ DOMAIN envs \subseteq DOMAIN envs'
        /\ cpu # <<>>
        /\ cpu' = <<k>> \o cpu \/ cpu' = <<k>> \o Tail(cpu)

\* A step in which a task starts another one keeps the invariant.
LEMMA SpawnKeeps ==
    ASSUME IInv, NEW t \in DOMAIN tasks, NEW T, NEW K, Spawns(t, T, K)
    PROVE  IInv'
<1> DEFINE k == Len(tasks) + 1
<1> USE DEF IInv
<1>1. /\ tasks' \in Seq(Task) /\ DOMAIN tasks' = DOMAIN tasks \cup {k} /\ k \notin DOMAIN tasks
      /\ tasks'[t] = T /\ tasks'[k] = K
      /\ \A s \in DOMAIN tasks \ {t} : tasks'[s] = tasks[s]
  BY DEF TypeOK, Spawns, Replaces
<1>2. phase # "idle" /\ phase # "resolved"
  BY DEF IdleOK, ResolvedDone, Spawns
<1>3. IdleOK' /\ ResolvedDone'
  BY <1>2 DEF IdleOK, ResolvedDone, Spawns
<1>4. cpu' \in Seq(Nat) /\ CpuOK'
  <2>1. k \in Nat /\ cpu \in Seq(Nat)
    BY DEF TypeOK
  <2>2. CASE cpu' = <<k>> \o cpu
    BY <1>1, <2>1, <2>2 DEF CpuOK
  <2>3. CASE cpu # <<>> /\ cpu' = <<k>> \o Tail(cpu)
    BY <1>1, <2>1, <2>3 DEF CpuOK
  <2> QED
    BY <2>2, <2>3 DEF Spawns
<1>5. ChainOK'
  BY <1>1 DEF ChainOK, Spawns
<1>6. TypeOK'
  BY <1>1, <1>4 DEF TypeOK, Spawns
<1>7. TaskOK'
  BY <1>1 DEF TaskOK, Spawns, Replaces, Executing
<1>8. Tree'
  <2> SUFFICES ASSUME NEW j \in DOMAIN tasks' \ {1}, tasks'[j].pc # "done"
               PROVE  \E p \in DOMAIN tasks' :
                         p < j /\ j \in tasks'[p].kids /\ tasks'[p].pc \in Parents
    BY DEF Tree
  <2>1. CASE j = k
    <3>1. t < k
      BY DEF TypeOK
    <3> QED
      BY <1>1, <2>1, <3>1 DEF Spawns
  <2>2. CASE j # k
    <3>1. j \in DOMAIN tasks \ {1} /\ tasks[j].pc # "done"
      BY <1>1, <2>2 DEF Spawns
    <3>2. PICK p \in DOMAIN tasks : p < j /\ j \in tasks[p].kids /\ tasks[p].pc \in Parents
      BY <3>1 DEF Tree
    <3>3. CASE p # t
      BY <1>1, <3>2, <3>3
    <3>4. CASE p = t
      BY <1>1, <3>1, <3>2, <3>4 DEF Spawns, Replaces
    <3> QED
      BY <3>3, <3>4
  <2> QED
    BY <2>1, <2>2
<1> QED
  BY <1>1, <1>3, <1>4, <1>5, <1>6, <1>7, <1>8

\* While run()'s own loop holds the thread, every other task is done: the
\* least one that is not would have an older one waiting for it.
LEMMA OnlyTaskOne ==
    ASSUME IInv, tasks # <<>>, tasks[1].pc \notin Parents
    PROVE  \A t \in DOMAIN tasks \ {1} : tasks[t].pc = "done"
<1> DEFINE S == {t \in DOMAIN tasks \ {1} : tasks[t].pc # "done"}
<1> SUFFICES ASSUME S # {} PROVE FALSE
  OBVIOUS
<1>1. S \subseteq Nat
  BY DEF IInv, TypeOK
<1>2. \E x \in S : \A y \in S : ~(<<y, x>> \in OpToRel(<, Nat))
  BY <1>1, NatLessThanWellFounded, WFMin
<1>3. PICK x \in S : \A y \in S : ~(y < x)
  BY <1>1, <1>2 DEF OpToRel
<1>4. PICK p \in DOMAIN tasks : p < x /\ x \in tasks[p].kids /\ tasks[p].pc \in Parents
  BY DEF IInv, Tree
<1>5. p # 1 /\ tasks[p].pc # "done"
  BY <1>4 DEF Parents
<1> QED
  BY <1>3, <1>4, <1>5

\* A step that only changes where a task is keeps the invariant.
LEMMA GotoKeeps ==
    ASSUME IInv, NEW t \in DOMAIN tasks, NEW p \in Pcs, Goto(t, p), Frame(t),
           tasks[t].pc \notin {"done", "race"},
           p \in Executing => tasks[t].node \in NodeIds(graph),
           \/ tasks[t].pc \notin Parents
           \/ p \in Parents
           \/ tasks[t].kids = {}
    PROVE  IInv'
<1> DEFINE T == [tasks[t] EXCEPT !.pc = p]
<1>1. tasks[t] \in Task /\ tasks[t].kids \subseteq DOMAIN tasks
  BY DEF IInv, TypeOK, TaskOK
<1>2. T \in Task /\ T.pc = p /\ T.env = tasks[t].env /\ T.node = tasks[t].node
      /\ T.kids = tasks[t].kids
  BY <1>1 DEF Task
<1>3. Moves(t, T)
  <2> HIDE DEF T
  <2> QED
    BY <1>1, <1>2 DEF Moves, Replaces, Goto, T
<1> QED
  BY <1>3, MoveKeeps

\* The facts every step of a task starts from.
LEMMA TaskFacts ==
    ASSUME IInv, NEW t \in DOMAIN tasks
    PROVE  /\ TypeOK /\ TaskOK /\ graph \in Graphs /\ budget \in Budget
           /\ tasks[t] \in Task
           /\ tasks[t].node \in Node /\ tasks[t].val \in Value
           /\ tasks[t].kids \subseteq DOMAIN tasks
           /\ tasks[t].pc \in Executing => tasks[t].node \in NodeIds(graph)
           /\ Env(t) \in ExecutionState
<1>1. TypeOK /\ TaskOK /\ graph \in Graphs /\ budget \in Budget
  BY DEF IInv, TypeOK, Budget
<1>2. /\ tasks[t] \in Task
      /\ tasks[t].kids \subseteq DOMAIN tasks
      /\ tasks[t].env \in DOMAIN envs
      /\ tasks[t].pc \in Executing => tasks[t].node \in NodeIds(graph)
  BY <1>1 DEF TypeOK, TaskOK
<1>3. tasks[t].node \in Node /\ tasks[t].val \in Value
  BY <1>2 DEF Task
<1>4. Env(t) \in ExecutionState
  BY <1>1, <1>2 DEF TypeOK, Env
<1> QED
  BY <1>1, <1>2, <1>3, <1>4

-----------------------------------------------------------------------------
(* The node loops.                                                         *)

\* executeSubgraph completes its first node and lists the pending ones.
LEMMA EnterSubgraphKeeps ==
    ASSUME IInv, NEW t \in DOMAIN tasks, EnterSubgraph(t)
    PROVE  IInv'
<1> DEFINE n == tasks[t].node
           E == IF tasks[t].val.kind # "undef"
                THEN markNodeCompleted(Env(t), n, tasks[t].val) ELSE Env(t)
           todo == {m \in NodeIds(graph) : /\ m \in getReachableNodes(graph, n)
                                           /\ E.st[m] = "pending"}
           T == [tasks[t] EXCEPT !.pc = "next", !.todo = todo]
<1>1. /\ TypeOK /\ TaskOK /\ graph \in Graphs /\ budget \in Budget
      /\ tasks[t] \in Task /\ n \in Node /\ tasks[t].val \in Value
      /\ tasks[t].kids \subseteq DOMAIN tasks /\ Env(t) \in ExecutionState
  BY TaskFacts
<1>2. E \in ExecutionState
  BY <1>1, MarkTypes
<1>3. SetEnv(t, E) /\ SetTask(t, T) /\ tasks[t].pc = "enter"
      /\ UNCHANGED <<graph, phase, cpu, chains, budget>>
  BY DEF EnterSubgraph, OnCpu, RunVars
<1>4. Frame(t)
  BY <1>1, <1>2, <1>3, SetEnvType DEF Frame
<1>5. todo \subseteq Node
  BY <1>1, EdgeTypes
<1>6. T \in Task /\ T.env = tasks[t].env /\ T.kids = tasks[t].kids /\ T.pc = "next"
  <2> HIDE DEF todo
  <2> QED
    BY <1>1, <1>5 DEF Task, Pcs
<1>7. Moves(t, T)
  <2> HIDE DEF T
  <2> QED
    BY <1>1, <1>3, <1>4, <1>6 DEF Moves, Replaces, Parents, Executing
<1> QED
  BY <1>7, MoveKeeps

\* The first of a set in a sequence belongs to the set.
LEMMA FirstInMember ==
    ASSUME NEW s, NEW S, NEW x \in FirstIn(s, S)
    PROVE  x \in S
BY DEF FirstIn

\* The loops over the nodes: passing over, skipping and picking a node.
LEMMA NodeLoopKeeps ==
    ASSUME IInv, NEW t \in DOMAIN tasks, PassOver(t) \/ SkipNode(t) \/ PickNode(t)
    PROVE  IInv'
<1>1. /\ TypeOK /\ TaskOK /\ graph \in Graphs /\ budget \in Budget
      /\ tasks[t] \in Task /\ tasks[t].kids \subseteq DOMAIN tasks
      /\ Env(t) \in ExecutionState
  BY TaskFacts
<1>2. tasks[t].pc = "next" /\ UNCHANGED <<graph, phase, cpu, chains, budget>>
  BY DEF PassOver, SkipNode, PickNode, OnCpu, RunVars
<1>3. PICK n \in FirstIn(order, tasks[t].todo) :
         \/ /\ SetTask(t, [tasks[t] EXCEPT !.todo = @ \ {n}])
            /\ envs' = envs \/ SetEnv(t, markNodeSkipped(Env(t), n))
         \/ /\ SetTask(t, [tasks[t] EXCEPT !.pc = "dispatch", !.node = n, !.todo = @ \ {n}])
            /\ envs' = envs
  BY DEF PassOver, SkipNode, PickNode
<1>4. n \in Node
  BY <1>1, FirstInMember DEF Task
<1>5. markNodeSkipped(Env(t), n) \in ExecutionState
  BY <1>1, <1>4, UndefType, MarkTypes
<1>6. Frame(t)
  <2>1. CASE envs' = envs
    BY <1>1, <1>2, <2>1 DEF Frame, TypeOK
  <2>2. CASE SetEnv(t, markNodeSkipped(Env(t), n))
    BY <1>1, <1>2, <1>5, <2>2, SetEnvType DEF Frame
  <2> QED
    BY <1>3, <2>1, <2>2
<1>7. PICK T : /\ SetTask(t, T) /\ T \in Task /\ T.env = tasks[t].env
               /\ T.kids = tasks[t].kids /\ T.pc \in {"next", "dispatch"}
  <2>1. CASE SetTask(t, [tasks[t] EXCEPT !.todo = @ \ {n}])
    <3>1. /\ [tasks[t] EXCEPT !.todo = @ \ {n}] \in Task
          /\ [tasks[t] EXCEPT !.todo = @ \ {n}].env = tasks[t].env
          /\ [tasks[t] EXCEPT !.todo = @ \ {n}].kids = tasks[t].kids
          /\ [tasks[t] EXCEPT !.todo = @ \ {n}].pc = "next"
      BY <1>1, <1>2 DEF Task
    <3> QED
      BY <2>1, <3>1
  <2>2. CASE SetTask(t, [tasks[t] EXCEPT !.pc = "dispatch", !.node = n, !.todo = @ \ {n}])
    <3> DEFINE T == [tasks[t] EXCEPT !.pc = "dispatch", !.node = n, !.todo = @ \ {n}]
    <3>1. /\ T \in Task /\ T.env = tasks[t].env /\ T.kids = tasks[t].kids
          /\ T.pc = "dispatch"
      BY <1>1, <1>4 DEF Task, Pcs
    <3> QED
      BY <2>2, <3>1
  <2> QED
    BY <1>3, <2>1, <2>2
<1>8. Moves(t, T)
  BY <1>1, <1>2, <1>6, <1>7 DEF Moves, Replaces, Parents, Executing
<1> QED
  BY <1>8, MoveKeeps

\* The steps that only send a task on, or that reject it.
LEMMA GotoStepsKeep ==
    ASSUME IInv, NEW t \in DOMAIN tasks,
           \/ SubgraphEnds(t) \/ ResumeLoop(t) \/ DispatchThrows(t) \/ QueryRejects(t)
           \/ QueryTimeout(t) \/ MergeRejects(t) \/ AwaitBatch(t) \/ KidRejects(t)
           \/ ConditionThrows(t) \/ AccumulatorThrows(t)
    PROVE  IInv'
<1>1. /\ TypeOK /\ budget \in Budget
      /\ tasks[t].pc \in Executing => tasks[t].node \in NodeIds(graph)
  BY TaskFacts
<1> DEFINE To(p) == /\ Goto(t, p)
                    /\ UNCHANGED <<graph, phase, envs, chains, budget>>
                    /\ cpu' = cpu \/ (cpu # <<>> /\ cpu' = Tail(cpu)) \/ cpu' = <<t>>
<1>2. \E p \in {"done", "next", "threw", "join"} :
         /\ To(p)
         /\ tasks[t].pc \in {"next", "settled", "dispatch", "query1", "query2", "merging",
                             "fork", "join", "iter"}
         /\ p = "join" => tasks[t].pc = "fork"
         /\ tasks[t].pc \in Parents => p \in Parents
  <2>1. CASE SubgraphEnds(t)
    BY <2>1 DEF SubgraphEnds, OnCpu, Yield, RunVars, Parents
  <2>2. CASE ResumeLoop(t)
    BY <2>2 DEF ResumeLoop, Awaiting, RunVars, Parents
  <2>3. CASE DispatchThrows(t)
    BY <2>3 DEF DispatchThrows, OnCpu, Yield, RunVars, Parents
  <2>4. CASE \/ QueryRejects(t) \/ QueryTimeout(t) \/ MergeRejects(t) \/ KidRejects(t)
             \/ AccumulatorThrows(t)
    BY <2>4 DEF QueryRejects, QueryTimeout, MergeRejects, KidRejects, AccumulatorThrows,
                Awaiting, RunVars, Parents
  <2>5. CASE AwaitBatch(t) \/ ConditionThrows(t)
    BY <2>5 DEF AwaitBatch, ConditionThrows, OnCpu, Yield, RunVars, Parents
  <2> QED
    BY <2>1, <2>2, <2>3, <2>4, <2>5
<1>3. PICK p \in {"done", "next", "threw", "join"} :
         /\ To(p)
         /\ tasks[t].pc \in {"next", "settled", "dispatch", "query1", "query2", "merging",
                             "fork", "join", "iter"}
         /\ p = "join" => tasks[t].pc = "fork"
         /\ tasks[t].pc \in Parents => p \in Parents
  BY <1>2
<1>4. Frame(t)
  BY <1>1, <1>3 DEF Frame, TypeOK
<1>5. p \in Executing => tasks[t].node \in NodeIds(graph)
  BY <1>1, <1>3 DEF Executing
<1>6. Goto(t, p) /\ p \in Pcs /\ tasks[t].pc \notin {"done", "race"}
  BY <1>3 DEF Pcs
<1> QED
  BY <1>3, <1>4, <1>5, <1>6, GotoKeeps

-----------------------------------------------------------------------------
(* executeNode: the steps that record something about the node and send    *)
(* the task on.                                                            *)

Records(t, E, p) ==
    /\ E \in ExecutionState
    /\ SetEnv(t, E)
    /\ Goto(t, p)
    /\ UNCHANGED <<graph, phase, chains, budget>>
    /\ cpu' = cpu \/ (cpu # <<>> /\ cpu' = Tail(cpu))

\* A step that records the outcome of a node keeps the invariant.
LEMMA RecordKeeps ==
    ASSUME IInv, NEW t \in DOMAIN tasks, NEW E, NEW p \in {"query1", "query2", "settled", "threw"},
           Records(t, E, p),
           tasks[t].pc \in {"dispatch", "query1", "query2", "merging", "fork", "iter"},
           tasks[t].node \in NodeIds(graph),
           tasks[t].pc = "fork" => tasks[t].kids = {}
    PROVE  IInv'
<1>1. TypeOK /\ TaskOK /\ budget \in Budget
  BY TaskFacts
<1>2. envs' \in Seq(ExecutionState) /\ DOMAIN envs' = DOMAIN envs
  BY <1>1, SetEnvType DEF Records
<1>3. Frame(t)
  BY <1>1, <1>2 DEF Frame, Records
<1>4. Goto(t, p) /\ p \in Pcs /\ tasks[t].pc \notin {"done", "race"}
  BY DEF Records, Pcs
<1>5. tasks[t].pc \notin Parents \/ tasks[t].kids = {}
  BY DEF Parents
<1> QED
  BY <1>3, <1>4, <1>5, GotoKeeps

\* The two executions of a query node.
LEMMA QueryKeeps ==
    ASSUME IInv, NEW t \in DOMAIN tasks,
           StartQuery(t) \/ FirstQueryResolves(t) \/ SecondQueryResolves(t)
    PROVE  IInv'
<1> DEFINE n == tasks[t].node
           v == [kind |-> "tabular", src |-> {n}]
<1>1. /\ n \in Node /\ Env(t) \in ExecutionState
      /\ tasks[t].pc \in Executing => n \in NodeIds(graph)
  BY TaskFacts
<1>2. v \in Value
  BY <1>1 DEF Value, ValueKinds
<1>3. /\ Called(Started(Env(t), n), n) \in ExecutionState
      /\ Called(Env(t), n) \in ExecutionState
      /\ markNodeCompleted(Env(t), n, v) \in ExecutionState
  <2> HIDE DEF v
  <2> QED
    BY <1>1, <1>2, MarkTypes
<1>4. CASE StartQuery(t)
  <2>1. /\ Records(t, Called(Started(Env(t), n), n), "query1")
        /\ tasks[t].pc = "dispatch" /\ n \in NodeIds(graph)
    BY <1>3, <1>4 DEF StartQuery, Dispatching, OnCpu, Yield, Records, RunVars
  <2> QED
    BY <2>1, RecordKeeps
<1>5. CASE FirstQueryResolves(t)
  <2>1. Records(t, Called(Env(t), n), "query2") /\ tasks[t].pc = "query1"
    BY <1>3, <1>5 DEF FirstQueryResolves, Awaiting, Records, RunVars
  <2> QED
    BY <1>1, <2>1, RecordKeeps DEF Executing
<1>6. CASE SecondQueryResolves(t)
  <2>1. Records(t, markNodeCompleted(Env(t), n, v), "settled") /\ tasks[t].pc = "query2"
    BY <1>3, <1>6 DEF SecondQueryResolves, Awaiting, Records, RunVars
  <2> QED
    BY <1>1, <2>1, RecordKeeps DEF Executing
<1> QED
  BY <1>4, <1>5, <1>6

\* The executors that throw before they wait for anything.
LEMMA ThrowStepsKeep ==
    ASSUME IInv, NEW t \in DOMAIN tasks,
           PredicateThrows(t) \/ MergeThrows(t) \/ LoopThrows(t)
    PROVE  IInv'
<1> DEFINE n == tasks[t].node
<1>1. n \in Node /\ Env(t) \in ExecutionState
  BY TaskFacts
<1>2. Started(Env(t), n) \in ExecutionState
  BY <1>1, UndefType, MarkTypes
<1>3. /\ Records(t, Started(Env(t), n), "threw")
      /\ tasks[t].pc = "dispatch" /\ n \in NodeIds(graph)
  BY <1>2 DEF PredicateThrows, MergeThrows, LoopThrows, Dispatching, OnCpu, Yield,
              Records, RunVars
<1> QED
  BY <1>3, RecordKeeps

\* Skipping an untaken branch keeps the execution state well typed.
LEMMA SkipPendingType ==
    ASSUME NEW E \in ExecutionState, NEW S
    PROVE  SkipPending(E, S) \in ExecutionState
BY DEF SkipPending, ExecutionState, Status

\* executeConditional.
LEMMA ConditionalKeeps ==
    ASSUME IInv, NEW t \in DOMAIN tasks, NEW result \in BOOLEAN, executeConditional(t, result)
    PROVE  IInv'
<1> DEFINE n    == tasks[t].node
           ctrl == getOutgoingControlEdges(graph, n)
           on   == {e \in ctrl : Takes(e, result)}
           E    == [Started(Env(t), n) EXCEPT
                      !.activated = @ \cup {e.id : e \in on},
                      !.deactivated = @ \cup {e.id : e \in ctrl \ on}]
           off  == getNodesOnInactiveBranches(graph,
                       {e \in ctrl : e.id \in E.deactivated})
<1>1. n \in Node /\ Env(t) \in ExecutionState /\ graph \in Graphs
  BY TaskFacts
<1>2. E \in ExecutionState
  <2>1. Started(Env(t), n) \in ExecutionState
    BY <1>1, UndefType, MarkTypes
  <2>2. ctrl \subseteq Edge
    BY <1>1, EdgeTypes DEF getOutgoingControlEdges
  <2>3. {e.id : e \in on} \subseteq Nat /\ {e.id : e \in ctrl \ on} \subseteq Nat
    BY <2>2 DEF Edge
  <2> HIDE DEF ctrl, on
  <2> QED
    BY <2>1, <2>3 DEF ExecutionState
<1>3. PICK v \in getNodeInputs(E, n) :
         SetEnv(t, SkipPending(markNodeCompleted(E, n, v), off))
  BY DEF executeConditional
<1>4. v \in Value
  <2> HIDE DEF E
  <2> QED
    BY <1>1, <1>2, InputsType
<1>5. SkipPending(markNodeCompleted(E, n, v), off) \in ExecutionState
  <2> HIDE DEF E, off
  <2> QED
    BY <1>1, <1>2, <1>4, MarkTypes, SkipPendingType
<1>6. /\ Records(t, SkipPending(markNodeCompleted(E, n, v), off), "settled")
      /\ tasks[t].pc = "dispatch" /\ n \in NodeIds(graph)
  <2>1. /\ Goto(t, "settled") /\ cpu # <<>> /\ cpu' = Tail(cpu)
        /\ UNCHANGED <<graph, phase, chains, budget>>
        /\ tasks[t].pc = "dispatch" /\ n \in NodeIds(graph)
    BY DEF executeConditional, Dispatching, OnCpu, Yield, RunVars
  <2> HIDE DEF E, off
  <2> QED
    BY <1>3, <1>5, <2>1 DEF Records
<1> QED
  BY <1>6, RecordKeeps

\* What a merge collects is a value.
LEMMA MergeInputType ==
    ASSUME graph \in Graphs, NEW E \in ExecutionState, NEW n, NEW e \in MergeInputs(E, n)
    PROVE  E.out[e.from] \in Value
<1>1. e \in Edge
  BY EdgeTypes DEF MergeInputs, getIncomingDataEdges
<1> QED
  BY <1>1 DEF Edge, ExecutionState

\* Closing a loop body keeps the execution state well typed.
LEMMA CloseBodyType ==
    ASSUME NEW E \in ExecutionState, NEW n
    PROVE  CloseBody(E, n) \in ExecutionState
<1> DEFINE st == [m \in Node |-> IF m \in BodySet(n) THEN "completed" ELSE E.st[m]]
           out == [m \in Node |-> IF m \in BodySet(n) THEN Undef ELSE E.out[m]]
           rc == [m \in Node |-> IF m \in BodySet(n) THEN 0 ELSE E.retryCount[m]]
<1>1. st \in [Node -> Status] /\ out \in [Node -> Value] /\ rc \in [Node -> Nat]
  BY UndefType DEF ExecutionState, Status
<1>2. CloseBody(E, n) = [E EXCEPT !.st = st, !.out = out, !.retryCount = rc]
  BY DEF CloseBody
<1> HIDE DEF st, out, rc
<1> QED
  BY <1>1, <1>2 DEF ExecutionState

\* The steps that complete a merge, a parallel or a loop node.
LEMMA CompletionKeeps ==
    ASSUME IInv, NEW t \in DOMAIN tasks,
           MergeSingle(t) \/ MergeResolves(t) \/ ParallelEnds(t) \/ LoopEnds(t)
    PROVE  IInv'
<1> DEFINE n == tasks[t].node
<1>1. /\ n \in Node /\ Env(t) \in ExecutionState /\ graph \in Graphs
      /\ tasks[t].val \in Value
      /\ tasks[t].pc \in Executing => n \in NodeIds(graph)
  BY TaskFacts
<1>c. markNodeCompleted(Env(t), n, tasks[t].val) \in ExecutionState
  BY <1>1, MarkTypes
<1>2. CASE MergeSingle(t)
  <2> DEFINE W(v) == IF v.kind = "void" THEN [v EXCEPT !.kind = "tabular"] ELSE v
  <2>1. PICK e \in MergeInputs(Env(t), n) :
           SetEnv(t, markNodeCompleted(Started(Env(t), n), n, W(Env(t).out[e.from])))
    BY <1>2 DEF MergeSingle
  <2>2. Env(t).out[e.from] \in Value
    BY <1>1, MergeInputType
  <2>3. W(Env(t).out[e.from]) \in Value
    BY <2>2 DEF Value, ValueKinds
  <2> DEFINE w == W(Env(t).out[e.from])
  <2>4. markNodeCompleted(Started(Env(t), n), n, w) \in ExecutionState
    <3>1. w \in Value
      BY <2>3
    <3> HIDE DEF w
    <3> QED
      BY <1>1, <3>1, MarkTypes
  <2>5. /\ Records(t, markNodeCompleted(Started(Env(t), n), n, w), "settled")
        /\ tasks[t].pc = "dispatch" /\ n \in NodeIds(graph)
    BY <1>2, <2>1, <2>4 DEF MergeSingle, Dispatching, OnCpu, Yield, Records, RunVars
  <2> QED
    BY <2>5, RecordKeeps
<1>3. CASE MergeResolves(t)
  <2>1. /\ Records(t, markNodeCompleted(Env(t), n, tasks[t].val), "settled")
        /\ tasks[t].pc = "merging"
    BY <1>c, <1>3 DEF MergeResolves, Awaiting, Records, RunVars
  <2> QED
    BY <1>1, <2>1, RecordKeeps DEF Executing
<1>4. CASE ParallelEnds(t)
  <2>1. /\ Records(t, markNodeCompleted(Env(t), n, tasks[t].val), "settled")
        /\ tasks[t].pc = "fork" /\ tasks[t].kids = {}
    BY <1>c, <1>4 DEF ParallelEnds, OnCpu, Yield, Records, RunVars
  <2> QED
    BY <1>1, <2>1, RecordKeeps DEF Executing
<1>5. CASE LoopEnds(t)
  <2>1. CloseBody(Env(t), n) \in ExecutionState
    BY <1>1, CloseBodyType
  <2>2. markNodeCompleted(CloseBody(Env(t), n), n, tasks[t].val) \in ExecutionState
    BY <1>1, <2>1, MarkTypes
  <2>3. /\ Records(t, markNodeCompleted(CloseBody(Env(t), n), n, tasks[t].val), "settled")
        /\ tasks[t].pc = "iter"
    BY <1>5, <2>2 DEF LoopEnds, OnCpu, Yield, Records, RunVars
  <2> QED
    BY <1>1, <2>3, RecordKeeps DEF Executing
<1> QED
  BY <1>2, <1>3, <1>4, <1>5

-----------------------------------------------------------------------------
(* The steps that change more of a task than its place.                    *)

\* executeMerge with several inputs.
LEMMA MergeManyKeeps ==
    ASSUME IInv, NEW t \in DOMAIN tasks, MergeMany(t)
    PROVE  IInv'
<1> DEFINE n  == tasks[t].node
           in == MergeInputs(Env(t), n)
           E  == Called(markNodeRunning(Started(Env(t), n), n), n)
           v  == [kind |-> "tabular", src |-> UNION {Env(t).out[e.from].src : e \in in}]
           T  == [tasks[t] EXCEPT !.pc = "merging", !.val = v]
<1>1. /\ TypeOK /\ TaskOK /\ graph \in Graphs /\ budget \in Budget
      /\ tasks[t] \in Task /\ n \in Node
      /\ tasks[t].kids \subseteq DOMAIN tasks /\ Env(t) \in ExecutionState
  BY TaskFacts
<1>2. E \in ExecutionState
  BY <1>1, UndefType, MarkTypes
<1>3. v \in Value
  <2>1. \A e \in in : Env(t).out[e.from].src \subseteq Node
    <3> SUFFICES ASSUME NEW e \in in PROVE Env(t).out[e.from].src \subseteq Node
      OBVIOUS
    <3>1. Env(t).out[e.from] \in Value
      BY <1>1, MergeInputType
    <3> QED
      BY <3>1 DEF Value
  <2>2. UNION {Env(t).out[e.from].src : e \in in} \subseteq Node
    BY <2>1
  <2> HIDE DEF in
  <2> QED
    BY <2>2 DEF Value, ValueKinds
<1>4. /\ SetEnv(t, E) /\ SetTask(t, T) /\ tasks[t].pc = "dispatch" /\ n \in NodeIds(graph)
      /\ cpu # <<>> /\ cpu' = Tail(cpu) /\ UNCHANGED <<graph, phase, chains, budget>>
  BY DEF MergeMany, Dispatching, OnCpu, RunVars
<1>5. Frame(t)
  <2> HIDE DEF E
  <2> QED
    BY <1>1, <1>2, <1>4, SetEnvType DEF Frame
<1>6. /\ T \in Task /\ T.env = tasks[t].env /\ T.kids = tasks[t].kids
      /\ T.node = n /\ T.pc = "merging"
  <2> HIDE DEF v
  <2> QED
    BY <1>1, <1>3 DEF Task, Pcs
<1>7. Moves(t, T)
  <2> HIDE DEF T
  <2> QED
    BY <1>1, <1>4, <1>5, <1>6 DEF Moves, Replaces, Parents
<1> QED
  BY <1>7, MoveKeeps

\* executeParallel has no branches running yet.
LEMMA ParallelKeeps ==
    ASSUME IInv, NEW t \in DOMAIN tasks, executeParallel(t)
    PROVE  IInv'
<1> DEFINE n  == tasks[t].node
           E  == Started(Env(t), n)
           T(v) == [tasks[t] EXCEPT !.pc = "fork", !.val = v, !.kids = {},
                              !.rest = getOutgoingDataEdges(graph, n)]
<1>1. /\ TypeOK /\ TaskOK /\ graph \in Graphs /\ budget \in Budget
      /\ tasks[t] \in Task /\ n \in Node /\ Env(t) \in ExecutionState
  BY TaskFacts
<1>2. E \in ExecutionState
  BY <1>1, UndefType, MarkTypes
<1>3. PICK v \in getNodeInputs(Env(t), n) : SetTask(t, T(v))
  BY DEF executeParallel
<1>4. v \in Value
  BY <1>1, InputsType
<1>5. /\ SetEnv(t, E) /\ tasks[t].pc = "dispatch" /\ n \in NodeIds(graph)
      /\ UNCHANGED <<graph, phase, cpu, chains, budget>>
  BY DEF executeParallel, Dispatching, OnCpu, RunVars
<1>6. Frame(t)
  <2> HIDE DEF E
  <2> QED
    BY <1>1, <1>2, <1>5, SetEnvType DEF Frame
<1>7. getOutgoingDataEdges(graph, n) \subseteq Edge
  BY <1>1, EdgeTypes DEF getOutgoingDataEdges
<1>8. /\ T(v) \in Task /\ T(v).env = tasks[t].env /\ T(v).kids = {}
      /\ T(v).node = n /\ T(v).pc = "fork"
  BY <1>1, <1>4, <1>7 DEF Task, Pcs
<1>9. Moves(t, T(v))
  <2> DEFINE U == T(v)
  <2>1. /\ U \in Task /\ U.env = tasks[t].env /\ U.kids = {} /\ U.node = n /\ U.pc = "fork"
        /\ SetTask(t, U)
    BY <1>3, <1>8
  <2> HIDE DEF U
  <2>2. Moves(t, U)
    BY <1>1, <1>5, <1>6, <2>1 DEF Moves, Replaces, Parents
  <2> QED
    BY <2>2 DEF U
<1> QED
  BY <1>9, MoveKeeps

\* executeLoop has no iteration running yet.
LEMMA StartLoopKeeps ==
    ASSUME IInv, NEW t \in DOMAIN tasks, executeLoop(t)
    PROVE  IInv'
<1> DEFINE n  == tasks[t].node
           E  == Started(Env(t), n)
           v  == [kind |-> "other", src |-> {}]
           T(k) == [tasks[t] EXCEPT !.pc = "iter", !.iter = 0, !.left = k,
                                    !.kids = {}, !.val = v]
<1>1. /\ TypeOK /\ TaskOK /\ graph \in Graphs /\ budget \in Budget
      /\ tasks[t] \in Task /\ n \in Node /\ Env(t) \in ExecutionState
  BY TaskFacts
<1>2. E \in ExecutionState
  BY <1>1, UndefType, MarkTypes
<1>3. PICK k \in 0..MaxItems : SetTask(t, T(k))
  BY DEF executeLoop
<1>4. v \in Value /\ k \in Nat
  BY LimitAssumption DEF Value, ValueKinds
<1>5. /\ SetEnv(t, E) /\ tasks[t].pc = "dispatch" /\ n \in NodeIds(graph)
      /\ UNCHANGED <<graph, phase, cpu, chains, budget>>
  BY DEF executeLoop, Dispatching, OnCpu, RunVars
<1>6. Frame(t)
  <2> HIDE DEF E
  <2> QED
    BY <1>1, <1>2, <1>5, SetEnvType DEF Frame
<1> DEFINE U == T(k)
<1>7. /\ U \in Task /\ U.env = tasks[t].env /\ U.kids = {}
      /\ U.node = n /\ U.pc = "iter"
  <2> HIDE DEF v
  <2> QED
    BY <1>1, <1>4 DEF Task, Pcs
<1>8. Moves(t, U)
  <2>1. SetTask(t, U)
    BY <1>3
  <2> HIDE DEF U
  <2> QED
    BY <1>1, <1>5, <1>6, <1>7, <2>1 DEF Moves, Replaces, Parents
<1> QED
  BY <1>8, MoveKeeps

\* When Promise.all resolves, every branch of the batch is done.
LEMMA BatchResolvesKeeps ==
    ASSUME IInv, NEW t \in DOMAIN tasks, BatchResolves(t)
    PROVE  IInv'
<1> DEFINE T == [tasks[t] EXCEPT !.pc = "fork", !.kids = {}]
<1>1. /\ TypeOK /\ budget \in Budget /\ tasks[t] \in Task
      /\ tasks[t].pc \in Executing => tasks[t].node \in NodeIds(graph)
  BY TaskFacts
<1>2. /\ SetTask(t, T) /\ tasks[t].pc = "join" /\ cpu' = <<t>>
      /\ \A k \in tasks[t].kids : tasks[k].pc = "done"
      /\ UNCHANGED <<graph, phase, envs, chains, budget>>
  BY DEF BatchResolves, Awaiting, RunVars
<1>3. /\ T \in Task /\ T.env = tasks[t].env /\ T.kids = {}
      /\ T.node = tasks[t].node /\ T.pc = "fork"
  BY <1>1 DEF Task, Pcs
<1>4. Frame(t)
  BY <1>1, <1>2 DEF Frame, TypeOK
<1>5. Moves(t, T)
  <2> HIDE DEF T
  <2> QED
    BY <1>1, <1>2, <1>3, <1>4 DEF Moves, Replaces, Executing
<1> QED
  BY <1>5, MoveKeeps

\* getSubgraphOutput returns a value.
LEMMA SubgraphOutputType ==
    ASSUME NEW E \in ExecutionState, NEW n, NEW v \in getSubgraphOutput(E, n)
    PROVE  v \in Value
<1>1. \A m \in Node : E.out[m] \in Value
  BY DEF ExecutionState
<1> QED
  BY <1>1, UndefType DEF getSubgraphOutput, FirstIn

\* An iteration that ended is the loop's only one.
LEMMA IterationEndsKeeps ==
    ASSUME IInv, NEW t \in DOMAIN tasks, IterationEnds(t)
    PROVE  IInv'
<1> DEFINE W(v) == updateAccumulator(tasks[t].val, v)
           L == IF tasks[t].left > 0 THEN tasks[t].left - 1 ELSE 0
           I == tasks[t].iter + 1
           T(v) == [tasks[t] EXCEPT !.pc = "iter", !.kids = {}, !.iter = I,
                                    !.left = L, !.val = W(v)]
<1>1. /\ TypeOK /\ budget \in Budget /\ tasks[t] \in Task /\ tasks[t].val \in Value
      /\ tasks[t].kids \subseteq DOMAIN tasks
      /\ tasks[t].pc \in Executing => tasks[t].node \in NodeIds(graph)
  BY TaskFacts
<1>2. /\ tasks[t].pc = "join" /\ cpu' = <<t>>
      /\ \A k \in tasks[t].kids : tasks[k].pc = "done"
      /\ UNCHANGED <<graph, phase, envs, chains>>
      /\ budget' = [budget EXCEPT !.iterationsUsed = @ + 1]
  BY DEF IterationEnds, Awaiting, RunVars
<1>k. PICK k \in tasks[t].kids :
         \E v \in getSubgraphOutput(Env(k), tasks[t].node) : SetTask(t, T(v))
  BY DEF IterationEnds
<1>3. PICK v \in getSubgraphOutput(Env(k), tasks[t].node) : SetTask(t, T(v))
  BY <1>k
<1>4. v \in Value
  <2>1. Env(k) \in ExecutionState
    BY <1>1, TaskFacts
  <2> QED
    BY <2>1, <1>3, SubgraphOutputType
<1>5. W(v) \in Value
  BY <1>1, <1>4 DEF updateAccumulator, Value
<1>6. L \in Nat /\ I \in Nat
  BY <1>1 DEF Task
<1> DEFINE U == T(v)
<1>7. /\ U \in Task /\ U.env = tasks[t].env /\ U.kids = {}
      /\ U.node = tasks[t].node /\ U.pc = "iter"
  <2> DEFINE w == W(v)
  <2>1. w \in Value
    BY <1>5
  <2> HIDE DEF w, L, I
  <2>2. U = [tasks[t] EXCEPT !.pc = "iter", !.kids = {}, !.iter = I, !.left = L, !.val = w]
    BY DEF w
  <2> HIDE DEF U
  <2> QED
    BY <1>1, <1>6, <2>1, <2>2 DEF Task, Pcs
<1>8. Frame(t)
  <2>1. budget' \in Budget
    BY <1>1, <1>2 DEF Budget
  <2> QED
    BY <1>1, <1>2, <2>1 DEF Frame, TypeOK
<1>9. Moves(t, U)
  <2>1. SetTask(t, U)
    BY <1>3
  <2> HIDE DEF U
  <2> QED
    BY <1>1, <1>2, <1>7, <1>8, <2>1 DEF Moves, Replaces, Executing
<1> QED
  BY <1>9, MoveKeeps

\* A parallel node starts a branch.
LEMMA ForkKeeps ==
    ASSUME IInv, NEW t \in DOMAIN tasks, ForkBranch(t)
    PROVE  IInv'
<1> DEFINE k == Len(tasks) + 1
           T(e) == [tasks[t] EXCEPT !.kids = @ \cup {k}, !.rest = @ \ {e}]
           K(e) == NewTask(tasks[t].env, e.to, tasks[t].val)
<1>1. /\ TypeOK /\ TaskOK /\ tasks[t] \in Task /\ tasks[t].val \in Value
      /\ tasks[t].kids \subseteq DOMAIN tasks
      /\ tasks[t].pc \in Executing => tasks[t].node \in NodeIds(graph)
  BY TaskFacts
<1>2. /\ tasks[t].pc = "fork" /\ cpu # <<>> /\ cpu' = <<k>> \o cpu
      /\ UNCHANGED <<graph, phase, envs, chains, budget>>
  BY DEF ForkBranch, OnCpu, RunVars
<1>3. PICK e \in FirstIn(graph.edges, tasks[t].rest) :
         tasks' = Append([tasks EXCEPT ![t] = T(e)], K(e))
  BY DEF ForkBranch
<1>4. e \in tasks[t].rest
  BY <1>3, FirstInMember
<1>5. e.to \in Node /\ tasks[t].env \in Nat /\ k \in Nat
  BY <1>1, <1>4 DEF Task, Edge, TypeOK
<1> DEFINE U == T(e)
           V == K(e)
<1>6. /\ U \in Task /\ U.env = tasks[t].env /\ U.kids = tasks[t].kids \cup {k}
      /\ U.node = tasks[t].node /\ U.pc = "fork"
  <2> HIDE DEF k
  <2> QED
    BY <1>1, <1>2, <1>5 DEF Task
<1>7. V \in Task
  BY <1>1, <1>5, NewTaskType
<1>8. V.pc = "enter" /\ V.kids = {} /\ V.env = tasks[t].env
  BY DEF NewTask
<1>9. Spawns(t, U, V)
  <2>1. tasks' = Append([tasks EXCEPT ![t] = U], V)
    BY <1>3
  <2> HIDE DEF U, V
  <2>2. Replaces(t, U)
    BY <1>1, <1>2, <1>6 DEF Replaces, Parents, Executing
  <2>3. V.env \in DOMAIN envs' /\ envs' \in Seq(ExecutionState)
    BY <1>1, <1>2, <1>8 DEF TaskOK, TypeOK
  <2> QED
    BY <1>1, <1>2, <1>6, <1>7, <1>8, <2>1, <2>2, <2>3 DEF Spawns, Parents
<1> QED
  BY <1>9, SpawnKeeps

\* forkStateForIteration returns a well-typed execution state.
LEMMA ForkStateType ==
    ASSUME NEW E, NEW n \in Node
    PROVE  forkStateForIteration(E, n) \in ExecutionState
<1>1. NewState(BodySet(n)) \in ExecutionState
  BY NewStateType
<1>2. [kind |-> ItemKind(E, n), src |-> {n}] \in Value
  BY DEF ItemKind, Value, ValueKinds
<1>3. \A S \in ExecutionState, v \in Value :
         [S EXCEPT !.st[n] = "completed", !.out[n] = v] \in ExecutionState
  BY MarkTypes
<1> QED
  BY <1>1, <1>2, <1>3 DEF forkStateForIteration

\* A loop starts its next iteration.
LEMMA NextIterationKeeps ==
    ASSUME IInv, NEW t \in DOMAIN tasks, NextIteration(t)
    PROVE  IInv'
<1> DEFINE n == tasks[t].node
           k == Len(tasks) + 1
           F == forkStateForIteration(Env(t), n)
           U == [tasks[t] EXCEPT !.pc = "join", !.kids = {k}]
           K(e) == NewTask(Len(envs) + 1, e.to, Undef)
<1>1. /\ TypeOK /\ TaskOK /\ tasks[t] \in Task /\ n \in Node /\ graph \in Graphs
      /\ tasks[t].pc \in Executing => n \in NodeIds(graph)
  BY TaskFacts
<1>2. /\ tasks[t].pc = "iter" /\ cpu # <<>> /\ cpu' = <<k>> \o Tail(cpu)
      /\ envs' = Append(envs, F)
      /\ UNCHANGED <<graph, phase, chains, budget>>
  BY DEF NextIteration, OnCpu, RunVars
<1>3. PICK e \in FirstIn(graph.edges, getOutgoingDataEdges(graph, n)) :
         tasks' = Append([tasks EXCEPT ![t] = U], K(e))
  BY DEF NextIteration
<1>4. e \in Edge
  BY <1>1, <1>3, FirstInMember, EdgeTypes DEF getOutgoingDataEdges
<1>5. e.to \in Node /\ k \in Nat /\ Len(envs) + 1 \in Nat
  BY <1>1, <1>4 DEF Edge, TypeOK
<1>6. /\ envs' \in Seq(ExecutionState) /\ DOMAIN envs \subseteq DOMAIN envs'
      /\ Len(envs) + 1 \in DOMAIN envs'
  <2>1. F \in ExecutionState
    BY <1>1, ForkStateType
  <2> HIDE DEF F
  <2> QED
    BY <1>1, <1>2, <2>1 DEF TypeOK
<1>7. /\ U \in Task /\ U.env = tasks[t].env /\ U.kids = {k} /\ U.node = n /\ U.pc = "join"
  <2> HIDE DEF k
  <2> QED
    BY <1>1, <1>5 DEF Task, Pcs
<1> DEFINE V == K(e)
<1>8. V \in Task
  BY <1>5, UndefType, NewTaskType
<1>9. V.pc = "enter" /\ V.kids = {} /\ V.env = Len(envs) + 1
  BY DEF NewTask
<1>10. Spawns(t, U, V)
  <2>1. tasks' = Append([tasks EXCEPT ![t] = U], V)
    BY <1>3
  <2> HIDE DEF U, V
  <2>2. Replaces(t, U)
    BY <1>1, <1>2, <1>7 DEF Replaces, Parents, Executing
  <2> QED
    BY <1>2, <1>6, <1>7, <1>8, <1>9, <2>1, <2>2 DEF Spawns, Parents
<1> QED
  BY <1>10, SpawnKeeps

-----------------------------------------------------------------------------
(* The steps that change the set of chains.                                *)

\* What a step does to the variables other than tasks and chains.
ChainFrame(t) ==
    /\ UNCHANGED <<graph, phase>>
    /\ envs' \in Seq(ExecutionState) /\ DOMAIN envs' = DOMAIN envs
    /\ budget' \in Budget
    /\ cpu' \in {<<>>, <<t>>} \/ (cpu # <<>> /\ cpu' = Tail(cpu))

\* A step of a retry chain that reaches its task keeps the invariant.
LEMMA ChainStepKeeps ==
    ASSUME IInv, NEW t \in DOMAIN tasks, NEW T, SetTask(t, T), Replaces(t, T),
           T.kids \subseteq DOMAIN tasks, tasks[t].pc # "done", ChainFrame(t),
           chains' \subseteq Chain, ChainOK'
    PROVE  IInv'
<1> USE DEF IInv
<1>1. /\ tasks' \in Seq(Task) /\ DOMAIN tasks' = DOMAIN tasks
      /\ TaskOK' /\ Tree'
  BY ReplaceKeeps DEF ChainFrame
<1>2. phase # "idle" /\ phase # "resolved"
  BY DEF IdleOK, ResolvedDone
<1>3. IdleOK' /\ ResolvedDone'
  BY <1>2 DEF IdleOK, ResolvedDone, ChainFrame
<1>4. cpu' \in Seq(Nat) /\ CpuOK'
  <2>1. t \in Nat /\ cpu \in Seq(Nat)
    BY DEF TypeOK
  <2>2. CASE cpu' = <<>>
    BY <2>2 DEF CpuOK
  <2>3. CASE cpu # <<>> /\ cpu' = Tail(cpu)
    BY <1>1, <2>1, <2>3 DEF CpuOK
  <2>4. CASE cpu' = <<t>>
    BY <1>1, <2>1, <2>4 DEF CpuOK
  <2> QED
    BY <2>2, <2>3, <2>4 DEF ChainFrame
<1>5. TypeOK'
  BY <1>1, <1>4 DEF TypeOK, ChainFrame, Budget
<1> QED
  BY <1>1, <1>3, <1>4, <1>5

\* A node of a standard kind starts its retry chain and waits for it.
LEMMA StartStandardKeeps ==
    ASSUME IInv, NEW t \in DOMAIN tasks, StartStandard(t)
    PROVE  IInv'
<1> DEFINE n == tasks[t].node
           E == Started(Env(t), n)
           c == [env |-> tasks[t].env, node |-> n, start |-> E.started[n],
                 attempt |-> 0, pc |-> "call", waiter |-> t]
           T == [tasks[t] EXCEPT !.pc = "race"]
<1>1. /\ TypeOK /\ TaskOK /\ ChainOK /\ Tree /\ budget \in Budget /\ tasks[t] \in Task
      /\ n \in Node /\ Env(t) \in ExecutionState /\ tasks[t].kids \subseteq DOMAIN tasks
  BY TaskFacts DEF IInv
<1>2. /\ tasks[t].pc = "dispatch" /\ n \in NodeIds(graph)
      /\ SetEnv(t, Called(markNodeRunning(E, n), n))
      /\ chains' = chains \cup {c}
      /\ SetTask(t, T) /\ cpu # <<>> /\ cpu' = Tail(cpu)
      /\ UNCHANGED <<graph, phase, budget>>
  BY DEF StartStandard, Dispatching, OnCpu, Yield, Goto, RunVars
<1>3. E \in ExecutionState
  BY <1>1, UndefType, MarkTypes
<1>4. ChainFrame(t)
  <2> HIDE DEF E
  <2>1. Called(markNodeRunning(E, n), n) \in ExecutionState
    BY <1>1, <1>3, UndefType, MarkTypes
  <2> QED
    BY <1>1, <1>2, <2>1, SetEnvType DEF ChainFrame
<1>5. /\ T \in Task /\ T.env = tasks[t].env /\ T.kids = tasks[t].kids /\ T.node = n
      /\ T.pc = "race"
  BY <1>1 DEF Task, Pcs
<1>6. Replaces(t, T)
  <2> HIDE DEF T
  <2> QED
    BY <1>1, <1>2, <1>5 DEF Replaces, Parents
<1>7. /\ DOMAIN tasks' = DOMAIN tasks /\ tasks'[t] = T
      /\ \A s \in DOMAIN tasks \ {t} : tasks'[s] = tasks[s]
  BY <1>1, <1>2 DEF SetTask, TypeOK
<1>8. c \in Chain /\ c.env \in DOMAIN envs /\ c.node = n /\ c.waiter = t
  <2>1. E.started[n] \in Nat
    BY <1>1, <1>3 DEF ExecutionState
  <2>2. tasks[t].env \in Nat /\ tasks[t].env \in DOMAIN envs /\ t \in Nat
    BY <1>1 DEF TypeOK, TaskOK, Task
  <2> HIDE DEF E
  <2> QED
    BY <1>1, <2>1, <2>2 DEF Chain
<1>9. ChainOK' /\ chains' \subseteq Chain
  <2> HIDE DEF c, T
  <2>1. chains' \subseteq Chain
    BY <1>1, <1>2, <1>8 DEF TypeOK
  <2>2. ChainOK'
    <3>1. \A d \in chains : d.waiter # t \/ d.waiter = 0
      BY <1>1, <1>2 DEF ChainOK
    <3>2. t # 0
      BY <1>1 DEF TypeOK
    <3> QED
      BY <1>1, <1>2, <1>4, <1>5, <1>7, <1>8, <3>1, <3>2 DEF ChainOK, ChainFrame
  <2> QED
    BY <2>1, <2>2
<1> QED
  <2> HIDE DEF T
  <2> QED
    BY <1>1, <1>2, <1>4, <1>5, <1>6, <1>9, ChainStepKeeps

\* A chain reports: its waiter moves on, and no other chain reports to it.
LEMMA ReportKeepsChains ==
    ASSUME IInv, NEW c \in chains, c.waiter # 0, NEW T, SetTask(c.waiter, T),
           UNCHANGED graph, DOMAIN envs' = DOMAIN envs,
           chains' = chains \ {c} \/ chains' = (chains \ {c}) \cup {[c EXCEPT !.waiter = 0]}
    PROVE  ChainOK' /\ chains' \subseteq Chain
<1> DEFINE d == [c EXCEPT !.waiter = 0]
<1>1. TypeOK /\ ChainOK /\ c \in Chain /\ c.waiter \in DOMAIN tasks
  BY DEF IInv, TypeOK, ChainOK
<1>2. d \in Chain /\ d.env = c.env /\ d.node = c.node /\ d.waiter = 0
  BY <1>1 DEF Chain
<1>3. chains' \subseteq (chains \ {c}) \cup {d}
  OBVIOUS
<1>4. /\ DOMAIN tasks' = DOMAIN tasks
      /\ \A s \in DOMAIN tasks \ {c.waiter} : tasks'[s] = tasks[s]
  BY <1>1 DEF SetTask, TypeOK
<1> HIDE DEF d
<1>5. chains' \subseteq Chain
  BY <1>1, <1>2, <1>3 DEF TypeOK
<1>6. \A b \in chains \ {c} : b.waiter # c.waiter
  BY <1>1 DEF ChainOK
<1>7. ChainOK'
  BY <1>1, <1>2, <1>3, <1>4, <1>6 DEF ChainOK
<1> QED
  BY <1>5, <1>7

\* What onError 'skip' passes on is a value.
LEMMA PassedOnType ==
    ASSUME graph \in Graphs, NEW E \in ExecutionState, NEW n, NEW v \in PassedOn(E, n)
    PROVE  v \in Value
<1>1. [kind |-> "other", src |-> {}] \in Value
  BY DEF Value, ValueKinds
<1>2. \A w \in Value : [w EXCEPT !.kind = "void"] \in Value
  BY DEF Value, ValueKinds
<1>3. \A w \in getNodeInputs(E, n) : w \in Value
  BY InputsType
<1> QED
  BY <1>1, <1>2, <1>3 DEF PassedOn

\* What the error policy does to the task and its ExecutionState.
LEMMA HandleErrorTypes ==
    ASSUME IInv, NEW t \in DOMAIN tasks, tasks[t].pc = "race", handleNodeError(t)
    PROVE  /\ envs' \in Seq(ExecutionState) /\ DOMAIN envs' = DOMAIN envs
           /\ cpu' \in {<<>>, <<t>>}
           /\ \E T : SetTask(t, T) /\ Replaces(t, T) /\ T.kids \subseteq DOMAIN tasks
<1> DEFINE n  == tasks[t].node
           E  == Env(t)
           fb == graph.node[n].fallbackNodeId
<1>1. /\ TypeOK /\ TaskOK /\ graph \in Graphs /\ tasks[t] \in Task
      /\ n \in Node /\ n \in NodeIds(graph) /\ E \in ExecutionState
      /\ tasks[t].kids \subseteq DOMAIN tasks
  BY TaskFacts DEF Executing
<1>2. fb \in Node \cup {"none"}
  BY <1>1, EdgeTypes DEF NodeDef
<1>3. \A v \in PassedOn(E, n) :
         (IF E.st[n] = "absent" THEN E ELSE [markNodeSkipped(E, n) EXCEPT !.out[n] = v])
           \in ExecutionState
  <2>1. \A v \in PassedOn(E, n) : v \in Value
    BY <1>1, PassedOnType
  <2>2. markNodeSkipped(E, n) \in ExecutionState
    BY <1>1, UndefType, MarkTypes
  <2>3. \A v \in Value : [markNodeSkipped(E, n) EXCEPT !.out[n] = v] \in ExecutionState
    BY <1>1, <2>2, MarkTypes
  <2> QED
    BY <1>1, <2>1, <2>3
<1>4. markNodeFailed(E, n) \in ExecutionState /\ markNodeSkipped(E, n) \in ExecutionState
  BY <1>1, UndefType, MarkTypes
<1>5. PICK F \in ExecutionState : SetEnv(t, F)
  BY <1>3, <1>4 DEF handleNodeError, FailNode, SkipFailedNode, NoFallback, RunFallback,
        OnError, FallbackOf
<1>6. envs' \in Seq(ExecutionState) /\ DOMAIN envs' = DOMAIN envs
  BY <1>1, <1>5, SetEnvType
<1>7. cpu' \in {<<>>, <<t>>}
  BY DEF handleNodeError, FailNode, SkipFailedNode, NoFallback, RunFallback,
        OnError, FallbackOf
<1>8. \/ Goto(t, "threw") \/ Goto(t, "settled")
      \/ fb # "none" /\ SetTask(t, [tasks[t] EXCEPT !.pc = "dispatch", !.node = fb])
  BY DEF handleNodeError, FailNode, SkipFailedNode, NoFallback, RunFallback,
        OnError, FallbackOf
<1>9. \E T : SetTask(t, T) /\ Replaces(t, T) /\ T.kids \subseteq DOMAIN tasks
  <2> DEFINE R(T) == /\ T \in Task /\ T.env = tasks[t].env /\ T.kids = tasks[t].kids
                     /\ T.pc \in {"threw", "settled", "dispatch"}
  <2>1. R([tasks[t] EXCEPT !.pc = "threw"]) /\ R([tasks[t] EXCEPT !.pc = "settled"])
    BY <1>1 DEF Task, Pcs
  <2>2. fb # "none" => R([tasks[t] EXCEPT !.pc = "dispatch", !.node = fb])
    <3> HIDE DEF fb
    <3> QED
      BY <1>1, <1>2 DEF Task, Pcs
  <2>3. \E T : SetTask(t, T) /\ R(T)
    <3> HIDE DEF R
    <3> QED
      BY <1>8, <2>1, <2>2 DEF Goto
  <2>4. ASSUME NEW T, R(T) PROVE Replaces(t, T) /\ T.kids \subseteq DOMAIN tasks
    BY <1>1, <2>4 DEF Replaces, Parents, Executing
  <2> QED
    BY <2>3, <2>4
<1> QED
  BY <1>6, <1>7, <1>9

\* A chain that nobody waits for ends, or a chain goes on to its next attempt.
LEMMA QuietChainKeeps ==
    ASSUME IInv, NEW c \in chains, UNCHANGED <<graph, phase, tasks, cpu>>,
           envs' \in Seq(ExecutionState), DOMAIN envs' = DOMAIN envs, budget' \in Budget,
           \/ chains' = chains \ {c}
           \/ \E d \in Chain : /\ d.env = c.env /\ d.node = c.node /\ d.waiter = c.waiter
                               /\ chains' = (chains \ {c}) \cup {d}
    PROVE  IInv'
<1> USE DEF IInv
<1>1. phase # "idle"
  BY DEF IdleOK
<1>2. TypeOK'
  BY DEF TypeOK, Budget
<1>3. ChainOK'
  <2>1. CASE chains' = chains \ {c}
    BY <2>1 DEF ChainOK
  <2>2. CASE \E d \in Chain : /\ d.env = c.env /\ d.node = c.node /\ d.waiter = c.waiter
                              /\ chains' = (chains \ {c}) \cup {d}
    <3>1. PICK d \in Chain : /\ d.env = c.env /\ d.node = c.node /\ d.waiter = c.waiter
                             /\ chains' = (chains \ {c}) \cup {d}
      BY <2>2
    <3> QED
      BY <3>1 DEF ChainOK
  <2> QED
    BY <2>1, <2>2
<1>4. IdleOK' /\ CpuOK' /\ TaskOK' /\ Tree' /\ ResolvedDone'
  BY <1>1 DEF IdleOK, CpuOK, TaskOK, Tree, ResolvedDone
<1> QED
  BY <1>2, <1>3, <1>4

\* A call that resolves, in time or too late.
LEMMA CallResolvesKeeps ==
    ASSUME IInv, NEW c \in chains, CallResolves(c)
    PROVE  IInv'
<1>1. /\ TypeOK /\ TaskOK /\ ChainOK /\ c \in Chain /\ budget \in Budget
      /\ chains' = chains \ {c} /\ cpu = <<>> /\ UNCHANGED <<graph, phase, cpu>>
  BY DEF IInv, TypeOK, CallResolves, RunVars, Budget
<1>2. CASE c.waiter = 0
  BY <1>1, <1>2, QuietChainKeeps DEF CallResolves, TypeOK
<1>3. CASE c.waiter # 0
  <2> DEFINE t == c.waiter
             T == [tasks[t] EXCEPT !.pc = "settled"]
  <2>1. t \in DOMAIN tasks /\ tasks[t].pc = "race"
    BY <1>1, <1>3 DEF ChainOK
  <2>2. tasks[t] \in Task /\ tasks[t].kids \subseteq DOMAIN tasks /\ Env(t) \in ExecutionState
    BY <2>1, TaskFacts
  <2>3. PICK k \in OutKinds :
           SetEnv(t, markNodeCompleted(Env(t), c.node, [kind |-> k, src |-> {c.node}]))
    BY <1>3 DEF CallResolves
  <2>4. c.node \in Node
    BY <1>1 DEF Chain
  <2>5. [kind |-> k, src |-> {c.node}] \in Value
    BY <2>4, LimitAssumption DEF Value, ValueKinds
  <2>6. markNodeCompleted(Env(t), c.node, [kind |-> k, src |-> {c.node}]) \in ExecutionState
    BY <2>2, <2>4, <2>5, MarkTypes
  <2>7. envs' \in Seq(ExecutionState) /\ DOMAIN envs' = DOMAIN envs
    BY <1>1, <2>1, <2>3, <2>6, SetEnvType
  <2>8. budget' \in Budget
    BY <1>1, <1>3 DEF CallResolves, Budget
  <2>9. SetTask(t, T)
    BY <1>3 DEF CallResolves, Goto
  <2>10. /\ T \in Task /\ T.env = tasks[t].env /\ T.kids = tasks[t].kids /\ T.pc = "settled"
    BY <2>2 DEF Task, Pcs
  <2> HIDE DEF T
  <2>11. Replaces(t, T)
    BY <2>1, <2>10 DEF Replaces, Parents, Executing
  <2>12. ChainOK' /\ chains' \subseteq Chain
    BY <1>1, <1>3, <2>7, <2>9, ReportKeepsChains
  <2>13. ChainFrame(t)
    BY <1>1, <2>7, <2>8 DEF ChainFrame
  <2> QED
    BY <2>1, <2>2, <2>9, <2>10, <2>11, <2>12, <2>13, ChainStepKeeps
<1> QED
  BY <1>2, <1>3

\* A rejected call, and the end of a back-off.
LEMMA RetryKeeps ==
    ASSUME IInv, NEW c \in chains, CallRejected(c) \/ BackoffEnds(c)
    PROVE  IInv'
<1>1. /\ TypeOK /\ c \in Chain /\ budget \in Budget /\ c.env \in DOMAIN envs
      /\ UNCHANGED <<graph, phase, tasks, cpu, budget>>
  BY DEF IInv, TypeOK, ChainOK, CallRejected, BackoffEnds, RunVars, Budget
<1>2. envs[c.env] \in ExecutionState /\ c.node \in Node /\ c.attempt + 1 \in Nat
  BY <1>1 DEF TypeOK, Chain
<1>3. /\ [envs[c.env] EXCEPT !.retryCount[c.node] = c.attempt + 1] \in ExecutionState
      /\ Called(envs[c.env], c.node) \in ExecutionState
  BY <1>2, UndefType, MarkTypes
<1>4. envs' \in Seq(ExecutionState) /\ DOMAIN envs' = DOMAIN envs
  <2>1. \E F \in ExecutionState : envs' = [envs EXCEPT ![c.env] = F]
    <3>1. CASE CallRejected(c)
      <4> DEFINE F == IF envs[c.env].st[c.node] = "absent" THEN envs[c.env]
                      ELSE [envs[c.env] EXCEPT !.retryCount[c.node] = c.attempt + 1]
      <4>1. F \in ExecutionState
        BY <1>2, <1>3
      <4>2. envs' = [envs EXCEPT ![c.env] = F]
        BY <3>1 DEF CallRejected
      <4> QED
        BY <4>1, <4>2
    <3>2. CASE BackoffEnds(c)
      BY <1>3, <3>2 DEF BackoffEnds
    <3> QED
      BY <3>1, <3>2
  <2> QED
    BY <1>1, <2>1 DEF TypeOK
<1>5. \E d \in Chain : /\ d.env = c.env /\ d.node = c.node /\ d.waiter = c.waiter
                       /\ chains' = (chains \ {c}) \cup {d}
  <2>1. CASE CallRejected(c)
    <3> DEFINE d == [c EXCEPT !.pc = "sleep"]
    <3>1. d \in Chain /\ d.env = c.env /\ d.node = c.node /\ d.waiter = c.waiter
      BY <1>1 DEF Chain
    <3>2. chains' = (chains \ {c}) \cup {d}
      BY <2>1 DEF CallRejected
    <3> QED
      BY <3>1, <3>2
  <2>2. CASE BackoffEnds(c)
    <3> DEFINE d == [c EXCEPT !.pc = "call", !.attempt = @ + 1]
    <3>0. c.attempt + 1 \in Nat
      BY <1>1 DEF Chain
    <3>1. d \in Chain /\ d.env = c.env /\ d.node = c.node /\ d.waiter = c.waiter
      BY <1>1, <3>0 DEF Chain
    <3>2. chains' = (chains \ {c}) \cup {d}
      BY <2>2 DEF BackoffEnds
    <3> QED
      BY <3>1, <3>2
  <2> QED
    BY <2>1, <2>2
<1> QED
  BY <1>1, <1>4, <1>5, QuietChainKeeps

\* The retries are used up, or the node's timer fires.
LEMMA FailureKeeps ==
    ASSUME IInv, NEW c \in chains, RetriesExhausted(c) \/ NodeTimeout(c)
    PROVE  IInv'
<1>1. /\ TypeOK /\ ChainOK /\ budget \in Budget /\ UNCHANGED <<graph, phase, budget>>
      /\ chains' = chains \ {c} \/ chains' = (chains \ {c}) \cup {[c EXCEPT !.waiter = 0]}
  BY DEF IInv, TypeOK, RetriesExhausted, NodeTimeout, RunVars, Budget
<1>2. CASE c.waiter = 0
  <2>1. chains' = chains \ {c} /\ UNCHANGED <<envs, tasks, cpu>>
    BY <1>2 DEF RetriesExhausted, NodeTimeout
  <2> QED
    BY <1>1, <2>1, QuietChainKeeps DEF TypeOK
<1>3. CASE c.waiter # 0
  <2> DEFINE t == c.waiter
  <2>1. t \in DOMAIN tasks /\ tasks[t].pc = "race" /\ handleNodeError(t)
    BY <1>1, <1>3 DEF ChainOK, RetriesExhausted, NodeTimeout
  <2>2. /\ envs' \in Seq(ExecutionState) /\ DOMAIN envs' = DOMAIN envs
        /\ cpu' \in {<<>>, <<t>>}
        /\ \E T : SetTask(t, T) /\ Replaces(t, T) /\ T.kids \subseteq DOMAIN tasks
    BY <2>1, HandleErrorTypes
  <2>3. PICK T : SetTask(t, T) /\ Replaces(t, T) /\ T.kids \subseteq DOMAIN tasks
    BY <2>2
  <2>4. ChainOK' /\ chains' \subseteq Chain
    BY <1>1, <1>3, <2>2, <2>3, ReportKeepsChains
  <2>5. ChainFrame(t)
    BY <1>1, <2>2 DEF ChainFrame
  <2> QED
    BY <2>1, <2>3, <2>4, <2>5, ChainStepKeeps
<1> QED
  BY <1>2, <1>3

-----------------------------------------------------------------------------
(* run() itself.                                                           *)

\* Before run() is called there is nothing to keep.
LEMMA InitIInv == Init => IInv
<1> SUFFICES ASSUME Init PROVE IInv
  OBVIOUS
<1>1. TypeOK
  BY DEF Init, TypeOK
<1> QED
  BY <1>1 DEF Init, IInv, IdleOK, CpuOK, TaskOK, ChainOK, Tree, ResolvedDone

\* run() starts the main task, or rejects the graph.
LEMMA RunKeeps ==
    ASSUME IInv, Run
    PROVE  IInv'
<1>1. /\ TypeOK /\ graph \in Graphs /\ tasks = <<>> /\ envs = <<>> /\ chains = {} /\ cpu = <<>>
      /\ UNCHANGED <<graph, chains, budget>>
  BY DEF IInv, IdleOK, TypeOK, Run
<1>2. CASE phase' = "invalid" /\ UNCHANGED <<order, envs, tasks, cpu>>
  BY <1>1, <1>2 DEF IInv, TypeOK, IdleOK, CpuOK, TaskOK, ChainOK, Tree, ResolvedDone
<1>3. CASE phase' = "running"
  <2> DEFINE E == NewState(NodeIds(graph))
             T == [NewTask(1, graph.entry, Undef) EXCEPT !.pc = "next", !.todo = NodeIds(graph)]
  <2>1. envs' = <<E>> /\ tasks' = <<T>> /\ cpu' = <<1>>
    BY <1>3 DEF Run
  <2>2. E \in ExecutionState
    BY NewStateType
  <2>3. T \in Task /\ T.env = 1 /\ T.kids = {} /\ T.pc = "next"
    <3>1. /\ NewTask(1, graph.entry, Undef) \in Task /\ NodeIds(graph) \subseteq Node
      BY <1>1, EdgeTypes, UndefType, NewTaskType
    <3>2. /\ NewTask(1, graph.entry, Undef).env = 1 /\ NewTask(1, graph.entry, Undef).kids = {}
      BY DEF NewTask
    <3> QED
      BY <3>1, <3>2 DEF Task, Pcs
  <2> HIDE DEF E, T
  <2>4. /\ envs' \in Seq(ExecutionState) /\ tasks' \in Seq(Task) /\ cpu' \in Seq(Nat)
        /\ DOMAIN envs' = {1} /\ DOMAIN tasks' = {1} /\ DOMAIN cpu' = {1}
        /\ tasks'[1] = T /\ cpu'[1] = 1
    BY <2>1, <2>2, <2>3
  <2>5. TypeOK'
    BY <1>1, <1>3, <2>4 DEF TypeOK
  <2>6. CpuOK' /\ TaskOK' /\ Tree' /\ ChainOK' /\ IdleOK' /\ ResolvedDone'
    BY <1>1, <1>3, <2>3, <2>4
       DEF CpuOK, TaskOK, Tree, ChainOK, IdleOK, ResolvedDone, Executing
  <2> QED
    BY <2>5, <2>6 DEF IInv
<1> QED
  BY <1>2, <1>3 DEF Run

\* run() resolves only when its main task is idle, hence all of them.
LEMMA ResolveKeeps ==
    ASSUME IInv, Resolve
    PROVE  IInv'
<1> DEFINE T == [tasks[1] EXCEPT !.pc = "done"]
<1>1. /\ TypeOK /\ IdleOK /\ CpuOK /\ TaskOK /\ ChainOK /\ Tree /\ ResolvedDone
      /\ cpu # <<>> /\ 1 = Head(cpu) /\ tasks[1].pc = "next"
      /\ phase' = "resolved" /\ SetTask(1, T) /\ cpu' = Tail(cpu)
      /\ UNCHANGED <<graph, envs, chains, budget>>
  BY DEF IInv, Resolve, OnCpu, Yield, Goto
<1>2. 1 \in DOMAIN tasks
  BY <1>1 DEF CpuOK, TypeOK
<1>3. tasks[1] \in Task /\ tasks[1].kids \subseteq DOMAIN tasks
  BY <1>2, TaskFacts
<1>4. T \in Task /\ T.env = tasks[1].env /\ T.kids = tasks[1].kids /\ T.pc = "done"
  BY <1>3 DEF Task, Pcs
<1>5. \A t \in DOMAIN tasks \ {1} : tasks[t].pc = "done"
  BY <1>1, <1>2, OnlyTaskOne DEF Parents
<1> HIDE DEF T
<1>6. Replaces(1, T)
  BY <1>1, <1>4 DEF Replaces, Parents, Executing
<1>7. /\ tasks' \in Seq(Task) /\ DOMAIN tasks' = DOMAIN tasks /\ tasks'[1] = T
      /\ \A s \in DOMAIN tasks \ {1} : tasks'[s] = tasks[s]
      /\ TaskOK' /\ Tree'
  BY <1>1, <1>2, <1>3, <1>4, <1>6, ReplaceKeeps
<1>8. ResolvedDone' /\ IdleOK'
  BY <1>1, <1>4, <1>5, <1>7 DEF ResolvedDone, IdleOK
<1>9. cpu' \in Seq(Nat) /\ CpuOK'
  BY <1>1, <1>7 DEF CpuOK, TypeOK
<1>10. TypeOK'
  BY <1>1, <1>7, <1>9 DEF TypeOK
<1>11. ChainOK'
  BY <1>1, <1>7 DEF ChainOK
<1> QED
  BY <1>7, <1>8, <1>9, <1>10, <1>11 DEF IInv

\* Every step of a task keeps the invariant.
LEMMA TaskStepKeeps ==
    ASSUME IInv, NEW t \in DOMAIN tasks,
           TaskStep(t) \/ MergeRejects(t) \/ QueryReply(t) \/ QueryTimeout(t)
    PROVE  IInv'
<1>1. CASE EnterSubgraph(t)
  BY <1>1, EnterSubgraphKeeps
<1>2. CASE PassOver(t) \/ SkipNode(t) \/ PickNode(t)
  BY <1>2, NodeLoopKeeps
<1>3. CASE \/ SubgraphEnds(t) \/ ResumeLoop(t) \/ DispatchThrows(t) \/ QueryRejects(t)
           \/ QueryTimeout(t) \/ MergeRejects(t) \/ AwaitBatch(t) \/ KidRejects(t)
           \/ ConditionThrows(t) \/ AccumulatorThrows(t)
  BY <1>3, GotoStepsKeep
<1>4. CASE StartStandard(t)
  BY <1>4, StartStandardKeeps
<1>5. CASE StartQuery(t) \/ FirstQueryResolves(t) \/ SecondQueryResolves(t)
  BY <1>5, QueryKeeps
<1>6. CASE \E r \in BOOLEAN : executeConditional(t, r)
  BY <1>6, ConditionalKeeps
<1>7. CASE PredicateThrows(t) \/ MergeThrows(t) \/ LoopThrows(t)
  BY <1>7, ThrowStepsKeep
<1>8. CASE MergeSingle(t) \/ MergeResolves(t) \/ ParallelEnds(t) \/ LoopEnds(t)
  BY <1>8, CompletionKeeps
<1>9. CASE MergeMany(t)
  BY <1>9, MergeManyKeeps
<1>10. CASE executeParallel(t)
  BY <1>10, ParallelKeeps
<1>11. CASE ForkBranch(t)
  BY <1>11, ForkKeeps
<1>12. CASE BatchResolves(t)
  BY <1>12, BatchResolvesKeeps
<1>13. CASE executeLoop(t)
  BY <1>13, StartLoopKeeps
<1>14. CASE NextIteration(t)
  BY <1>14, NextIterationKeeps
<1>15. CASE IterationEnds(t)
  BY <1>15, IterationEndsKeeps
<1> QED
  BY <1>1, <1>2, <1>3, <1>4, <1>5, <1>6, <1>7, <1>8, <1>9, <1>10, <1>11, <1>12,
     <1>13, <1>14, <1>15 DEF TaskStep, QueryReply

\* Every step keeps the invariant.
LEMMA NextIInv ==
    ASSUME IInv, [Next]_vars
    PROVE  IInv'
<1>1. CASE Run
  BY <1>1, RunKeeps
<1>2. CASE Resolve
  BY <1>2, ResolveKeeps
<1>3. CASE Reject
  BY <1>3 DEF Reject, IInv, TypeOK, IdleOK, CpuOK, TaskOK, ChainOK, Tree, ResolvedDone
<1>4. CASE PipelineTimeout
  <2>1. budget' \in Budget
    BY <1>4 DEF PipelineTimeout, IInv, TypeOK, Budget
  <2> QED
    BY <1>4, <2>1 DEF PipelineTimeout, RunVars, IInv, TypeOK, IdleOK, CpuOK, TaskOK,
                      ChainOK, Tree, ResolvedDone, Budget
<1>5. CASE UNCHANGED vars
  BY <1>5 DEF vars, IInv, TypeOK, IdleOK, CpuOK, TaskOK, ChainOK, Tree, ResolvedDone
<1>6. CASE \E t \in DOMAIN tasks :
              TaskStep(t) \/ MergeRejects(t) \/ QueryReply(t) \/ QueryTimeout(t)
  BY <1>6, TaskStepKeeps
<1>7. CASE \E c \in chains : ChainStep(c) \/ NodeTimeout(c)
  BY <1>7, CallResolvesKeeps, RetryKeeps, FailureKeeps DEF ChainStep
<1> QED
  BY <1>1, <1>2, <1>3, <1>4, <1>5, <1>6, <1>7 DEF Next, Ended

-----------------------------------------------------------------------------
(* The theorems.                                                           *)

\* IInv holds in every reachable state of a run, whatever graphs and limits.
THEOREM Invariance == Spec => []IInv
<1>1. Init => IInv
  BY InitIInv
<1>2. IInv /\ [Next]_vars => IInv'
  BY NextIInv
<1> QED
  BY <1>1, <1>2, PTL DEF Spec

\* Every step of run(), executeNode and the retry chains keeps the statuses,
\* outputs, tasks and chains well typed.
THEOREM TypeCorrect == Spec => []TypeOK
<1>1. IInv => TypeOK
  BY DEF IInv
<1> QED
  BY <1>1, Invariance, PTL

\* When run() resolves, no branch and no iteration it started is in progress,
\* and no attempt reports to it any more: Promise.all rejections, timeouts
\* and fallbacks included.
THEOREM QuietWhenResolved == Spec => []ResolvedQuiet
<1>1. IInv => ResolvedQuiet
  BY DEF IInv, ResolvedDone, ChainOK, ResolvedQuiet
<1> QED
  BY <1>1, Invariance, PTL

=============================================================================
