------------------------- MODULE SchedulerRunProofs -------------------------
(***************************************************************************)
(* Theorems about what a run does with its nodes, for every set of graphs  *)
(* and every limit: the scheduler implements PipelineRun, starts a guarded *)
(* node once, keeps to the retry allowance, and ends for a reason.  They   *)
(* rest on the invariant of SchedulerProofs and on the one below.          *)
(***************************************************************************)
EXTENDS SchedulerProofs, FiniteSetTheorems

-----------------------------------------------------------------------------
(* The inductive invariant.                                                *)

\* A task in one of these states is the innermost one of the section in
\* progress: nothing else moves before it does.
Sync == {"enter", "next", "dispatch", "iter"}

CpuHead ==
    \A t \in DOMAIN tasks : tasks[t].pc \in Sync => cpu # <<>> /\ t = Head(cpu)

\* The node a task may have in each of its states.
FitsTask(T) ==
    /\ T.pc = "race" => KindOf(T.node) \in Standard
    /\ T.pc \in {"query1", "query2"} => KindOf(T.node) = "query"
    /\ T.pc = "merging" => KindOf(T.node) = "merge"
    /\ T.pc = "fork" => KindOf(T.node) = "parallel"
    /\ T.pc = "iter" => KindOf(T.node) = "loop"
    /\ T.pc = "join" => KindOf(T.node) \in {"parallel", "loop"}
    /\ T.pc \in {"fork", "join"} /\ KindOf(T.node) = "parallel" =>
           T.rest \subseteq getOutgoingDataEdges(graph, T.node)
    /\ T.pc = "enter" /\ T.val.kind # "undef" =>
           \E m \in NodeIds(graph) : KindOf(m) = "parallel" /\ T.node \in DataSuccessors(graph, m)
    /\ T.pc = "dispatch" =>
           \/ T.node \in NodeIds(graph)
           \/ \E m \in NodeIds(graph) : graph.node[m].fallbackNodeId = T.node /\ T.node # "none"
    /\ T.todo \subseteq NodeIds(graph)
    /\ T.pc = "enter" => T.todo = {}

TasksFit ==
    /\ \A t \in DOMAIN tasks : FitsTask(tasks[t])
    /\ tasks # <<>> => tasks[1].env = 1
    /\ tasks = <<>> <=> phase \in {"idle", "invalid"}
    /\ envs = <<>> <=> phase \in {"idle", "invalid"}

\* A guarded node is picked while pending, and running exactly while the one
\* task that picked it waits for it.
Racing(t, e, n) == tasks[t].pc = "race" /\ tasks[t].env = e /\ tasks[t].node = n

GuardedOK ==
    /\ \A t \in DOMAIN tasks :
         tasks[t].node \in Guarded =>
            /\ tasks[t].pc = "dispatch" => Env(t).st[tasks[t].node] = "pending"
            /\ tasks[t].pc = "race" => Env(t).st[tasks[t].node] = "running"
    /\ \A e \in DOMAIN envs : \A n \in Guarded :
         /\ \A s, t \in DOMAIN tasks : Racing(s, e, n) /\ Racing(t, e, n) => s = t
         /\ envs[e].st[n] = "running" => \E t \in DOMAIN tasks : Racing(t, e, n)
         /\ envs[e].started[n] <= 1
         /\ envs[e].st[n] \in {"absent", "pending"} => envs[e].started[n] = 0

\* A node of the graph is settled, still to be visited by run(), in execution,
\* or the run is going to be rejected.
SomeThrew == \E t \in DOMAIN tasks : tasks[t].pc = "threw"

Executes(t, n) ==
    tasks[t].env = 1 /\ tasks[t].node = n /\ tasks[t].pc \in Executing \cup {"dispatch"}

SettledOK ==
    tasks # <<>> =>
        \A n \in NodeIds(graph) :
            /\ envs[1].st[n] # "absent"
            /\ envs[1].st[n] = "failed" => SomeThrew
            /\ \/ envs[1].st[n] \in {"completed", "skipped"}
               \/ n \in tasks[1].todo
               \/ \E t \in DOMAIN tasks : Executes(t, n)
               \/ SomeThrew

\* A chain belongs to one start of its node.
ChainsFit ==
    /\ \A c \in chains :
         /\ c.waiter # 0 => tasks[c.waiter].node = c.node /\ tasks[c.waiter].env = c.env
         /\ KindOf(c.node) \in Standard
         /\ c.start \in 1..envs[c.env].started[c.node]
         /\ c.attempt <= MaxRetries(c.node)
         /\ c.pc = "sleep" => c.attempt < MaxRetries(c.node)
    /\ \A c, d \in chains :
         c.env = d.env /\ c.node = d.node /\ c.start = d.start => c = d

\* The attempts of the starts of n in e that are not still to come: a chain in
\* progress has made those up to its current one.
Attempts(e, n) ==
    {x \in (1..envs[e].started[n]) \X (0..MaxRetries(n)) :
        \A c \in chains : c.env = e /\ c.node = n /\ c.start = x[1] => x[2] <= c.attempt}

CallsCounted ==
    \A e \in DOMAIN envs : \A n \in NodeIds(graph) :
        KindOf(n) \in Standard => envs[e].calls[n] <= Cardinality(Attempts(e, n))

\* What RejectionJustified asks for.
Reason ==
    \/ ~checkBudget
    \/ \E n \in NodeIds(graph) : /\ envs[1].st[n] = "failed"
                                 /\ graph.node[n].onError \notin {"skip", "fallback"}
    \/ \E n \in NodeIds(graph) :
           graph.node[n].fallbackNodeId \notin NodeIds(graph) \cup {"none"}

RejectedOK ==
    /\ phase = "rejected" => tasks # <<>> /\ tasks[1].pc = "threw"
    /\ (\A n \in NodeIds(graph) : KindOf(n) \in Standard) =>
           /\ DOMAIN tasks \subseteq {1}
           /\ tasks # <<>> /\ tasks[1].pc = "threw" => Reason

RInv ==
    /\ IInv /\ CpuHead /\ TasksFit /\ GuardedOK /\ SettledOK /\ ResolvedSettled
    /\ ChainsFit /\ CallsCounted /\ RejectedOK

-----------------------------------------------------------------------------
(* The steps of one task that have nothing to do with a standard node.     *)

Settling == {"completed", "skipped"}

\* What such a step may do to an execution state: standard nodes are neither
\* started nor called, guarded ones are skipped at most.
Calm(E, F, n) ==
    \A m \in NodeIds(graph) :
        /\ KindOf(m) \in Standard => F.started[m] = E.started[m] /\ F.calls[m] = E.calls[m]
        /\ F.st[m] # E.st[m] => F.st[m] \in Settling \/ (m = n /\ F.st[m] = "running")
        /\ m \in Guarded /\ F.st[m] # E.st[m] => E.st[m] = "pending" /\ F.st[m] = "skipped"

\* Only task t and its execution state change.
Moved(t) ==
    /\ t \in DOMAIN tasks /\ DOMAIN tasks' = DOMAIN tasks
    /\ \A s \in DOMAIN tasks \ {t} : tasks'[s] = tasks[s]
    /\ tasks'[t].env = tasks[t].env
    /\ DOMAIN envs' = DOMAIN envs
    /\ \A e \in DOMAIN envs \ {tasks[t].env} : envs'[e] = envs[e]
    /\ UNCHANGED <<graph, phase>>
    /\ tasks[t].pc \notin {"done", "threw"}
    /\ FitsTask(tasks'[t])
    /\ cpu = <<>> \/ t = Head(cpu)
    /\ tasks'[t].pc \in Sync => cpu' # <<>> /\ t = Head(cpu')
    /\ checkBudget' => checkBudget

After(t) == envs'[tasks[t].env]

\* What becomes of the node in execution, and of the nodes on the list.
NodeKept(t, T, F) ==
    \/ T.pc = "threw"
    \/ /\ tasks[t].pc \in Executing \cup {"dispatch"} /\ T.todo = tasks[t].todo
       /\ \/ T.pc \in Executing /\ T.node = tasks[t].node
          \/ Env(t).st[tasks[t].node] = "absent" \/ F.st[tasks[t].node] \in Settling
    \/ /\ tasks[t].pc \in {"enter", "next", "settled"}
       /\ t = 1 => \A m \in tasks[t].todo \ T.todo :
                      \/ Env(t).st[m] = "absent" \/ F.st[m] \in Settling
                      \/ T.node = m /\ T.pc = "dispatch"

CalmStep(t) ==
    /\ Moved(t)
    /\ chains' = chains
    /\ tasks[t].pc # "race" /\ tasks'[t].pc # "race"
    /\ Calm(Env(t), After(t), tasks[t].node)
    /\ After(t).st[tasks[t].node] # Env(t).st[tasks[t].node]
          => After(t).st[tasks[t].node] \in Settling \/ (tasks'[t].pc = "merging" /\ tasks'[t].node = tasks[t].node)
    /\ tasks'[t].pc = "dispatch" => After(t).st[tasks'[t].node] = "pending"
    /\ NodeKept(t, tasks'[t], After(t))
    /\ tasks'[t].pc = "threw" => Reason' \/ \E n \in NodeIds(graph) : KindOf(n) \notin Standard

\* Guarded nodes are nodes of the graph, and the definition depends on the
\* graph alone.
LEMMA GuardedNodes ==
    /\ Guarded \subseteq NodeIds(graph)
    /\ \A n \in Guarded : KindOf(n) \in Standard
    /\ graph' = graph => Guarded' = Guarded
BY DEF Guarded, Rewritable, KindOf, BodySet, Body

\* A step of the kind above keeps the invariant.
LEMMA CalmKeeps ==
    ASSUME RInv, IInv', NEW t, CalmStep(t)
    PROVE  RInv'
<1> USE DEF CalmStep
<1>a. /\ TypeOK /\ TaskOK /\ TypeOK' /\ TaskOK'
      /\ tasks \in Seq(Task) /\ envs \in Seq(ExecutionState) /\ tasks' \in Seq(Task)
      /\ envs' \in Seq(ExecutionState) /\ tasks # <<>> /\ tasks' # <<>>
      /\ graph \in Graphs /\ NodeIds(graph) \subseteq Node
  BY EdgeTypes DEF RInv, IInv, TypeOK, Moved
<1>b. /\ graph' = graph /\ phase' = phase /\ chains' = chains
      /\ \A n : KindOf(n)' = KindOf(n) /\ MaxRetries(n)' = MaxRetries(n)
      /\ Guarded' = Guarded /\ Guarded \subseteq NodeIds(graph)
  BY GuardedNodes DEF Moved, KindOf, MaxRetries
<1>c. tasks[t].env \in DOMAIN envs /\ DOMAIN envs' = DOMAIN envs /\ DOMAIN tasks' = DOMAIN tasks
  BY <1>a DEF Moved, TaskOK
<1>1. CpuHead'
  BY DEF RInv, CpuHead, Moved
<1>2. TasksFit'
  <2>1. ASSUME NEW s \in DOMAIN tasks
        PROVE  FitsTask(tasks[s])'
    <3>1. FitsTask(tasks'[s])
      BY DEF RInv, TasksFit, Moved
    <3> QED
      BY <1>b, <3>1 DEF FitsTask
  <2>2. tasks'[1].env = 1
    BY <1>a DEF RInv, TasksFit, Moved
  <2>3. /\ tasks' = <<>> <=> phase' \in {"idle", "invalid"}
        /\ envs' = <<>> <=> phase' \in {"idle", "invalid"}
    BY <1>a, <1>b, <1>c DEF RInv, TasksFit
  <2> QED
    BY <1>c, <2>1, <2>2, <2>3 DEF TasksFit
<1>d. \A e \in DOMAIN envs : Calm(envs[e], envs'[e], tasks[t].node)
  BY <1>c DEF Moved, Calm, Env, After
<1>e. \A s \in DOMAIN tasks :
         \/ tasks'[s] = tasks[s]
         \/ s = t /\ tasks[s].pc # "race" /\ tasks'[s].pc # "race"
  BY DEF Moved
<1>3. GuardedOK'
  <2>1. ASSUME NEW s \in DOMAIN tasks, tasks'[s].node \in Guarded
        PROVE  /\ tasks'[s].pc = "dispatch" => envs'[tasks'[s].env].st[tasks'[s].node] = "pending"
               /\ tasks'[s].pc = "race" => envs'[tasks'[s].env].st[tasks'[s].node] = "running"
    <3>1. CASE s = t
      BY <3>1 DEF Moved, After
    <3>2. CASE s # t
      <4>1. tasks'[s] = tasks[s] /\ tasks[s].env \in DOMAIN envs /\ tasks[s].pc # "dispatch"
        BY <1>a, <3>2 DEF Moved, TaskOK, RInv, CpuHead, Sync
      <4>2. tasks[s].pc = "race" => envs[tasks[s].env].st[tasks[s].node] = "running"
        BY <2>1, <4>1 DEF RInv, GuardedOK, Env
      <4> QED
        BY <1>b, <1>d, <2>1, <4>1, <4>2 DEF Calm
    <3> QED
      BY <3>1, <3>2
  <2>2. ASSUME NEW e \in DOMAIN envs, NEW n \in Guarded
        PROVE  /\ \A r, s \in DOMAIN tasks : Racing(r, e, n)' /\ Racing(s, e, n)' => r = s
               /\ envs'[e].st[n] = "running" => \E s \in DOMAIN tasks : Racing(s, e, n)'
               /\ envs'[e].started[n] <= 1
               /\ envs'[e].st[n] \in {"absent", "pending"} => envs'[e].started[n] = 0
    <3>1. \A s \in DOMAIN tasks : Racing(s, e, n)' <=> Racing(s, e, n)
      BY <1>e DEF Racing
    <3>2. /\ envs'[e].started[n] = envs[e].started[n]
          /\ envs'[e].st[n] = envs[e].st[n] \/ envs'[e].st[n] = "skipped"
      BY <1>b, <1>d, GuardedNodes DEF Calm
    <3> QED
      BY <3>1, <3>2 DEF RInv, GuardedOK
  <2> QED
    BY <1>b, <1>c, <2>1, <2>2 DEF GuardedOK, Env
<1>4. SettledOK'
  <2>1. SomeThrew => SomeThrew'
    BY DEF SomeThrew, Moved
  <2>2. 1 \in DOMAIN tasks /\ 1 \in DOMAIN envs /\ tasks[1].env = 1
    BY <1>a DEF RInv, TasksFit, TaskOK
  <2> SUFFICES ASSUME NEW n \in NodeIds(graph)
               PROVE  /\ envs'[1].st[n] # "absent"
                      /\ envs'[1].st[n] = "failed" => SomeThrew'
                      /\ \/ envs'[1].st[n] \in Settling
                         \/ n \in tasks'[1].todo
                         \/ \E s \in DOMAIN tasks' : Executes(s, n)'
                         \/ SomeThrew'
    BY <1>b DEF SettledOK, Settling
  <2>3. /\ envs[1].st[n] # "absent"
        /\ envs[1].st[n] = "failed" => SomeThrew
        /\ \/ envs[1].st[n] \in Settling
           \/ n \in tasks[1].todo
           \/ \E s \in DOMAIN tasks : Executes(s, n)
           \/ SomeThrew
    BY <1>a DEF RInv, SettledOK, Settling
  <2>4. /\ envs'[1].st[n] # envs[1].st[n] => envs'[1].st[n] \in {"completed", "skipped", "running"}
    BY <1>d, <2>2 DEF Calm, Settling
  <2>5. /\ envs'[1].st[n] # "absent"
        /\ envs'[1].st[n] = "failed" => SomeThrew'
    BY <2>1, <2>3, <2>4
  <2>6. \/ envs'[1].st[n] \in Settling
        \/ n \in tasks'[1].todo
        \/ \E s \in DOMAIN tasks' : Executes(s, n)'
        \/ SomeThrew'
    <3> SUFFICES ASSUME ~SomeThrew', envs'[1].st[n] \notin Settling
                 PROVE  n \in tasks'[1].todo \/ \E s \in DOMAIN tasks' : Executes(s, n)'
      OBVIOUS
    <3>0. tasks'[t].pc # "threw" /\ ~SomeThrew
      BY <1>c, <2>1 DEF SomeThrew, Moved
    <3>1. CASE envs'[1].st[n] # envs[1].st[n]
      <4>1. tasks[t].env = 1 /\ n = tasks[t].node
        BY <1>c, <1>d, <2>2, <3>1 DEF Calm, Moved
      <4>2. tasks'[t].pc = "merging" /\ tasks'[t].node = n
        BY <3>1, <4>1 DEF After, Env
      <4> QED
        BY <1>c, <4>1, <4>2 DEF Executes, Executing, Moved
    <3>2. CASE envs'[1].st[n] = envs[1].st[n] /\ n \in tasks[1].todo
      <4>1. CASE t # 1
        BY <2>2, <3>2, <4>1 DEF Moved
      <4>2. CASE t = 1 /\ tasks'[1].todo = tasks[1].todo
        BY <3>2, <4>2
      <4>3. CASE t = 1 /\ \A m \in tasks[1].todo \ tasks'[1].todo :
                 \/ Env(t).st[m] = "absent" \/ After(t).st[m] \in Settling
                 \/ tasks'[1].node = m /\ tasks'[1].pc = "dispatch"
        <5>1. n \notin tasks'[1].todo => tasks'[1].node = n /\ tasks'[1].pc = "dispatch"
          BY <2>2, <2>3, <3>2, <4>3 DEF After, Env
        <5> QED
          BY <1>c, <2>2, <4>3, <5>1 DEF Executes, Moved
      <4> QED
        BY <3>0, <4>1, <4>2, <4>3 DEF NodeKept
    <3>3. CASE envs'[1].st[n] = envs[1].st[n] /\ \E s \in DOMAIN tasks : Executes(s, n)
      <4>1. PICK s \in DOMAIN tasks : Executes(s, n)
        BY <3>3
      <4>2. CASE s # t
        BY <1>c, <4>1, <4>2 DEF Executes, Moved
      <4>3. CASE s = t
        <5>1. tasks[t].pc \in Executing \cup {"dispatch"} /\ tasks[t].env = 1 /\ tasks[t].node = n
          BY <4>1, <4>3 DEF Executes
        <5>2. tasks'[t].pc \in Executing /\ tasks'[t].node = n
          BY <2>3, <3>0, <5>1 DEF NodeKept, Env, After, Executing
        <5> QED
          BY <1>c, <5>1, <5>2 DEF Executes, Moved
      <4> QED
        BY <4>2, <4>3
    <3> QED
      BY <2>3, <3>0, <3>1, <3>2, <3>3
  <2> QED
    BY <2>5, <2>6
<1>5. ResolvedSettled'
  BY <1>a, <1>b DEF RInv, IInv, ResolvedDone, ResolvedSettled, Moved
<1>6. ChainsFit'
  <2>1. ASSUME NEW c \in chains
        PROVE  /\ c.waiter # 0 => tasks'[c.waiter] = tasks[c.waiter]
               /\ envs'[c.env].started[c.node] = envs[c.env].started[c.node]
    BY <1>d, <1>e, <2>1 DEF Calm, RInv, IInv, ChainOK, ChainsFit
  <2> QED
    BY <1>b, <2>1 DEF RInv, ChainsFit
<1>7. CallsCounted'
  <2>1. ASSUME NEW e \in DOMAIN envs, NEW n \in NodeIds(graph), KindOf(n) \in Standard
        PROVE  Attempts(e, n)' = Attempts(e, n) /\ envs'[e].calls[n] = envs[e].calls[n]
    BY <1>b, <1>d, <2>1 DEF Calm, Attempts
  <2> QED
    BY <1>b, <1>c, <2>1 DEF RInv, CallsCounted
<1>8. RejectedOK'
  <2>1. phase' = "rejected" => tasks' # <<>> /\ tasks'[1].pc = "threw"
    BY <1>a, <1>b DEF RInv, RejectedOK, Moved
  <2>2. ASSUME \A n \in NodeIds(graph) : KindOf(n) \in Standard
        PROVE  DOMAIN tasks' \subseteq {1} /\ (tasks'[1].pc = "threw" => Reason')
    BY <1>a, <2>2 DEF RInv, RejectedOK, Moved
  <2> QED
    BY <1>b, <2>1, <2>2 DEF RejectedOK
<1> QED
  BY <1>1, <1>2, <1>3, <1>4, <1>5, <1>6, <1>7, <1>8 DEF RInv

-----------------------------------------------------------------------------
(* The actions that are such steps.                                        *)

\* Task t becomes T and its execution state F.
Becomes(t, T, F) ==
    /\ SetTask(t, T) /\ SetEnv(t, F)
    /\ UNCHANGED <<graph, phase, chains>>
    /\ checkBudget' => checkBudget
    /\ T.env = tasks[t].env
    /\ FitsTask(T)
    /\ tasks[t].pc \notin {"done", "threw", "race"} /\ T.pc # "race"
    /\ cpu = <<>> \/ t = Head(cpu)
    /\ T.pc \in Sync => cpu' # <<>> /\ t = Head(cpu')

LEMMA BecomesCalm ==
    ASSUME RInv, NEW t \in DOMAIN tasks, NEW T, NEW F, Becomes(t, T, F),
           Calm(Env(t), F, tasks[t].node),
           F.st[tasks[t].node] # Env(t).st[tasks[t].node]
              => F.st[tasks[t].node] \in Settling \/ (T.pc = "merging" /\ T.node = tasks[t].node),
           T.pc = "dispatch" => F.st[T.node] = "pending",
           NodeKept(t, T, F),
           T.pc = "threw" => Reason' \/ \E n \in NodeIds(graph) : KindOf(n) \notin Standard
    PROVE  CalmStep(t)
<1>1. tasks \in Seq(Task) /\ envs \in Seq(ExecutionState) /\ tasks[t].env \in DOMAIN envs
  BY DEF RInv, IInv, TypeOK, TaskOK
<1>2. /\ DOMAIN tasks' = DOMAIN tasks /\ tasks'[t] = T
      /\ \A s \in DOMAIN tasks \ {t} : tasks'[s] = tasks[s]
      /\ DOMAIN envs' = DOMAIN envs /\ After(t) = F
      /\ \A e \in DOMAIN envs \ {tasks[t].env} : envs'[e] = envs[e]
  BY <1>1 DEF Becomes, SetTask, SetEnv, After
<1> QED
  BY <1>2 DEF CalmStep, Moved, Becomes

\* The facts a step of a task starts from.
LEMMA RunFacts ==
    ASSUME RInv, NEW t \in DOMAIN tasks
    PROVE  /\ IInv /\ tasks[t] \in Task /\ FitsTask(tasks[t])
           /\ tasks[t].node \in Node /\ Env(t) \in ExecutionState
           /\ tasks[t].pc \in Executing => tasks[t].node \in NodeIds(graph)
           /\ NodeIds(graph) \subseteq Node
           /\ budget \in Budget
BY TaskFacts, EdgeTypes DEF RInv, TasksFit

\* A step that leaves the execution states alone.
LEMMA SameEnv ==
    ASSUME RInv, NEW t \in DOMAIN tasks
    PROVE  /\ envs' = envs => SetEnv(t, Env(t))
           /\ \A n : Calm(Env(t), Env(t), n)
<1>1. envs \in Seq(ExecutionState) /\ tasks[t].env \in DOMAIN envs
  BY DEF RInv, IInv, TypeOK, TaskOK
<1> QED
  BY <1>1 DEF SetEnv, Env, Calm

\* Errors that leave the execution states alone: an unknown node or an
\* exhausted budget, and errors of nodes that are not standard.
LEMMA QuietThrows ==
    ASSUME RInv, NEW t \in DOMAIN tasks,
           \/ DispatchThrows(t) \/ KidRejects(t) \/ ConditionThrows(t) \/ AccumulatorThrows(t)
           \/ MergeRejects(t) \/ QueryRejects(t) \/ QueryTimeout(t)
    PROVE  CalmStep(t)
<1> DEFINE T == [tasks[t] EXCEPT !.pc = "threw"]
<1> USE DEF RunVars
<1>1. /\ tasks[t] \in Task /\ FitsTask(tasks[t]) /\ Env(t) \in ExecutionState
      /\ tasks[t].pc \in Executing => tasks[t].node \in NodeIds(graph)
  BY RunFacts
<1>2. /\ SetTask(t, T) /\ envs' = envs /\ UNCHANGED <<graph, phase, chains, budget>>
      /\ cpu = <<>> \/ t = Head(cpu)
      /\ tasks[t].pc \in {"dispatch", "join", "iter", "merging", "query1", "query2"}
  BY DEF DispatchThrows, KidRejects, ConditionThrows, AccumulatorThrows, MergeRejects,
         QueryRejects, QueryTimeout, Goto, Yield, OnCpu, Awaiting
<1>3. T.pc = "threw" /\ T.env = tasks[t].env /\ T.todo = tasks[t].todo
  BY <1>1 DEF Task
<1>4. Becomes(t, T, Env(t))
  <2> HIDE DEF T
  <2>1. FitsTask(T)
    BY <1>1, <1>3 DEF FitsTask
  <2> QED
    BY <1>2, <1>3, <2>1, SameEnv DEF Becomes, Sync, checkBudget
<1>5. Reason' \/ \E n \in NodeIds(graph) : KindOf(n) \notin Standard
  <2>1. CASE tasks[t].pc # "dispatch"
    BY <1>1, <1>2, <2>1 DEF FitsTask, Executing, Standard, SchedulerOwned
  <2>2. CASE tasks[t].pc = "dispatch"
    <3>1. ~(tasks[t].node \in NodeIds(graph) /\ checkBudget)
      BY <2>2 DEF DispatchThrows, KidRejects, ConditionThrows, AccumulatorThrows, MergeRejects,
         QueryRejects, QueryTimeout, OnCpu, Awaiting
    <3>2. CASE ~checkBudget
      BY <1>2, <3>2 DEF Reason, checkBudget
    <3>3. CASE tasks[t].node \notin NodeIds(graph)
      BY <1>1, <1>2, <2>2, <3>3 DEF Reason, FitsTask
    <3> QED
      BY <3>1, <3>2, <3>3
  <2> QED
    BY <2>1, <2>2
<1> QED
  <2> HIDE DEF T
  <2> QED
    BY <1>3, <1>4, <1>5, SameEnv, BecomesCalm DEF NodeKept

\* The loops take up or end their list; a batch is awaited.
LEMMA QuietMoves ==
    ASSUME RInv, NEW t \in DOMAIN tasks, SubgraphEnds(t) \/ ResumeLoop(t) \/ AwaitBatch(t)
    PROVE  CalmStep(t)
<1> USE DEF RunVars
<1>1. /\ tasks[t] \in Task /\ FitsTask(tasks[t]) /\ Env(t) \in ExecutionState
      /\ tasks[t].pc \in Executing => tasks[t].node \in NodeIds(graph)
  BY RunFacts
<1>2. PICK p \in {"done", "next", "join"} :
        /\ SetTask(t, [tasks[t] EXCEPT !.pc = p])
        /\ envs' = envs /\ UNCHANGED <<graph, phase, chains, budget>>
        /\ cpu = <<>> \/ t = Head(cpu)
        /\ p = "next" => cpu' = <<t>>
        /\ p = "join" <=> tasks[t].pc = "fork"
        /\ tasks[t].pc \in {"next", "settled", "fork"}
  BY DEF SubgraphEnds, ResumeLoop, AwaitBatch, Goto, Yield, OnCpu, Awaiting
<1> DEFINE T == [tasks[t] EXCEPT !.pc = p]
<1>3. /\ T.pc = p /\ T.env = tasks[t].env /\ T.todo = tasks[t].todo /\ T.node = tasks[t].node
      /\ T.rest = tasks[t].rest
  BY <1>1 DEF Task
<1> HIDE DEF T
<1>4. FitsTask(T)
  BY <1>1, <1>2, <1>3 DEF FitsTask
<1>5. Becomes(t, T, Env(t))
  BY <1>2, <1>3, <1>4, SameEnv DEF Becomes, Sync, checkBudget, T
<1>6. NodeKept(t, T, Env(t))
  BY <1>2, <1>3 DEF NodeKept, Executing
<1> QED
  BY <1>2, <1>3, <1>5, <1>6, SameEnv, BecomesCalm

\* A Promise.all resolves: the next batch, or the end of the iteration.
LEMMA JoinMoves ==
    ASSUME RInv, NEW t \in DOMAIN tasks, BatchResolves(t) \/ IterationEnds(t)
    PROVE  CalmStep(t)
<1> USE DEF RunVars
<1>1. /\ tasks[t] \in Task /\ FitsTask(tasks[t]) /\ Env(t) \in ExecutionState
      /\ tasks[t].pc \in Executing => tasks[t].node \in NodeIds(graph)
      /\ budget \in Budget
  BY RunFacts
<1>2. /\ envs' = envs /\ UNCHANGED <<graph, phase, chains>>
      /\ cpu = <<>> /\ cpu' = <<t>> /\ tasks[t].pc = "join"
  BY DEF BatchResolves, IterationEnds, Awaiting
<1>3. PICK T : /\ SetTask(t, T)
               /\ \/ T.pc = "fork" /\ KindOf(tasks[t].node) = "parallel"
                  \/ T.pc = "iter" /\ KindOf(tasks[t].node) = "loop"
               /\ T.env = tasks[t].env /\ T.todo = tasks[t].todo
               /\ T.node = tasks[t].node /\ T.rest = tasks[t].rest
  <2>1. CASE BatchResolves(t)
    <3> DEFINE T == [tasks[t] EXCEPT !.pc = "fork", !.kids = {}]
    <3>1. /\ T.pc = "fork" /\ T.env = tasks[t].env /\ T.todo = tasks[t].todo
          /\ T.node = tasks[t].node /\ T.rest = tasks[t].rest
      BY <1>1 DEF Task
    <3>2. SetTask(t, T) /\ KindOf(tasks[t].node) = "parallel"
      BY <2>1 DEF BatchResolves
    <3> QED
      BY <3>1, <3>2
  <2>2. CASE IterationEnds(t)
    <3>1. PICK v : SetTask(t, [tasks[t] EXCEPT !.pc = "iter", !.kids = {}, !.iter = @ + 1,
                                 !.left = IF @ > 0 THEN @ - 1 ELSE 0,
                                 !.val = updateAccumulator(@, v)])
      BY <2>2 DEF IterationEnds
    <3> DEFINE T == [tasks[t] EXCEPT !.pc = "iter", !.kids = {}, !.iter = @ + 1,
                                 !.left = IF @ > 0 THEN @ - 1 ELSE 0,
                                 !.val = updateAccumulator(@, v)]
    <3>2. /\ T.pc = "iter" /\ T.env = tasks[t].env /\ T.todo = tasks[t].todo
          /\ T.node = tasks[t].node /\ T.rest = tasks[t].rest
      BY <1>1 DEF Task
    <3>3. SetTask(t, T) /\ KindOf(tasks[t].node) = "loop"
      BY <2>2, <3>1 DEF IterationEnds
    <3> HIDE DEF T
    <3> QED
      BY <3>2, <3>3
  <2> QED
    BY <2>1, <2>2
<1>4. FitsTask(T)
  BY <1>1, <1>2, <1>3 DEF FitsTask
<1>5. checkBudget' => checkBudget
  <2>1. CASE budget' = budget
    BY <2>1 DEF checkBudget
  <2>2. CASE budget' = [budget EXCEPT !.iterationsUsed = @ + 1]
    <3>1. /\ budget'.llmCallsUsed = budget.llmCallsUsed /\ budget'.expired = budget.expired
          /\ budget'.iterationsUsed = budget.iterationsUsed + 1 /\ budget.iterationsUsed \in Nat
      BY <1>1, <2>2 DEF Budget
    <3> QED
      BY <3>1, LimitAssumption DEF checkBudget
  <2> QED
    BY <2>1, <2>2 DEF BatchResolves, IterationEnds
<1>6. Becomes(t, T, Env(t))
  BY <1>2, <1>3, <1>4, <1>5, SameEnv DEF Becomes, Sync
<1>7. NodeKept(t, T, Env(t))
  BY <1>2, <1>3 DEF NodeKept, Executing
<1> QED
  BY <1>3, <1>6, <1>7, SameEnv, BecomesCalm

\* The loops pass over a settled node, or pick a pending one.
LEMMA ListMoves ==
    ASSUME RInv, NEW t \in DOMAIN tasks, PassOver(t) \/ PickNode(t)
    PROVE  CalmStep(t)
<1> USE DEF RunVars
<1>1. tasks[t] \in Task /\ FitsTask(tasks[t]) /\ Env(t) \in ExecutionState
  BY RunFacts
<1>2. /\ envs' = envs /\ UNCHANGED <<graph, phase, chains, budget>>
      /\ cpu # <<>> /\ t = Head(cpu) /\ cpu' = cpu /\ tasks[t].pc = "next"
  BY DEF PassOver, PickNode, OnCpu
<1> DEFINE Step(n, T) ==
             /\ SetTask(t, T) /\ T.env = tasks[t].env /\ T.todo = tasks[t].todo \ {n}
             /\ \/ T.pc = "next" /\ Settled(t, n)
                \/ T.pc = "dispatch" /\ T.node = n /\ ~Settled(t, n) /\ ~MustSkip(t, n)
<1>0. \E n \in tasks[t].todo : \E T : Step(n, T)
  <2>1. CASE PassOver(t)
    <3>1. PICK n \in tasks[t].todo : /\ Settled(t, n)
                                     /\ SetTask(t, [tasks[t] EXCEPT !.todo = @ \ {n}])
      BY <2>1, FirstInMember DEF PassOver
    <3> DEFINE T == [tasks[t] EXCEPT !.todo = @ \ {n}]
    <3>2. T.env = tasks[t].env /\ T.todo = tasks[t].todo \ {n} /\ T.pc = "next"
      BY <1>1, <1>2 DEF Task
    <3> QED
      BY <3>1, <3>2
  <2>2. CASE PickNode(t)
    <3>1. PICK n \in tasks[t].todo :
             /\ ~Settled(t, n) /\ ~MustSkip(t, n)
             /\ SetTask(t, [tasks[t] EXCEPT !.pc = "dispatch", !.node = n, !.todo = @ \ {n}])
      BY <2>2, FirstInMember DEF PickNode
    <3> DEFINE T == [tasks[t] EXCEPT !.pc = "dispatch", !.node = n, !.todo = @ \ {n}]
    <3>2. T.env = tasks[t].env /\ T.todo = tasks[t].todo \ {n} /\ T.pc = "dispatch" /\ T.node = n
      BY <1>1, <1>2 DEF Task
    <3> QED
      BY <3>1, <3>2
  <2> QED
    BY <2>1, <2>2
<1>3. PICK n \in tasks[t].todo : \E T : Step(n, T)
  BY <1>0
<1>p. PICK T : Step(n, T)
  BY <1>3
<1>4. FitsTask(T)
  BY <1>1, <1>2, <1>p DEF FitsTask
<1>5. Becomes(t, T, Env(t))
  BY <1>2, <1>p, <1>4, SameEnv DEF Becomes, Sync, checkBudget
<1>6. NodeKept(t, T, Env(t))
  BY <1>2, <1>p DEF NodeKept, Settled, Settling
<1>7. T.pc = "dispatch" => Env(t).st[T.node] = "pending"
  BY <1>p DEF Settled, MustSkip, isReadyToExecute
<1> QED
  BY <1>p, <1>5, <1>6, <1>7, SameEnv, BecomesCalm

-----------------------------------------------------------------------------
(* Steps that execute a node that is not standard.                         *)

\* Only the entries of n differ, and n is at most begun or completed.
Touches(E, F, n) ==
    /\ \A m \in Node \ {n} : /\ F.st[m] = E.st[m] /\ F.started[m] = E.started[m]
                             /\ F.calls[m] = E.calls[m]
    /\ F.st[n] \in {E.st[n], "completed", "running"}

\* What the helpers do to the entries of a node.
LEMMA HelperFacts ==
    ASSUME NEW E \in ExecutionState, NEW n \in Node, NEW v, NEW s
    PROVE  /\ Started(E, n) \in ExecutionState /\ Called(E, n) \in ExecutionState
           /\ Touches(E, Started(E, n), n) /\ Started(E, n).st = E.st
           /\ Started(E, n).started[n] = E.started[n] + 1 /\ Started(E, n).calls = E.calls
           /\ Touches(E, Called(E, n), n) /\ Called(E, n).st = E.st
           /\ Called(E, n).calls[n] = E.calls[n] + 1 /\ Called(E, n).started = E.started
           /\ Touches(E, markNodeCompleted(E, n, v), n)
           /\ markNodeCompleted(E, n, v).st[n] = IF E.st[n] = "absent" THEN "absent" ELSE "completed"
           /\ markNodeCompleted(E, n, v).started = E.started
           /\ markNodeCompleted(E, n, v).calls = E.calls
           /\ \A m \in Node \ {n} : SetStatus(E, n, s).st[m] = E.st[m]
           /\ SetStatus(E, n, s).st[n] = IF E.st[n] = "absent" THEN "absent" ELSE s
           /\ SetStatus(E, n, s).started = E.started
           /\ SetStatus(E, n, s).calls = E.calls
<1>1. /\ Started(E, n) \in ExecutionState
      /\ Touches(E, Started(E, n), n) /\ Started(E, n).st = E.st
      /\ Started(E, n).started[n] = E.started[n] + 1 /\ Started(E, n).calls = E.calls
  BY DEF Started, ExecutionState, Touches
<1>2. /\ Called(E, n) \in ExecutionState
      /\ Touches(E, Called(E, n), n) /\ Called(E, n).st = E.st
      /\ Called(E, n).calls[n] = E.calls[n] + 1 /\ Called(E, n).started = E.started
  BY DEF Called, ExecutionState, Touches
<1>3. /\ Touches(E, markNodeCompleted(E, n, v), n)
      /\ markNodeCompleted(E, n, v).st[n] = IF E.st[n] = "absent" THEN "absent" ELSE "completed"
      /\ markNodeCompleted(E, n, v).started = E.started
      /\ markNodeCompleted(E, n, v).calls = E.calls
  BY DEF markNodeCompleted, ExecutionState, Touches
<1>4. /\ \A m \in Node \ {n} : SetStatus(E, n, s).st[m] = E.st[m]
      /\ SetStatus(E, n, s).st[n] = IF E.st[n] = "absent" THEN "absent" ELSE s
      /\ SetStatus(E, n, s).started = E.started
      /\ SetStatus(E, n, s).calls = E.calls
  BY DEF SetStatus, ExecutionState
<1> QED
  BY <1>1, <1>2, <1>3, <1>4

\* Touching a node that is not standard is no matter to the standard ones.
LEMMA TouchCalm ==
    ASSUME NodeIds(graph) \subseteq Node, NEW E, NEW F, NEW n,
           KindOf(n) \notin Standard, Touches(E, F, n)
    PROVE  Calm(E, F, n)
<1> SUFFICES ASSUME NEW m \in NodeIds(graph)
             PROVE  /\ KindOf(m) \in Standard => F.started[m] = E.started[m] /\ F.calls[m] = E.calls[m]
                    /\ F.st[m] # E.st[m] => F.st[m] \in Settling \/ (m = n /\ F.st[m] = "running")
                    /\ m \in Guarded /\ F.st[m] # E.st[m] => E.st[m] = "pending" /\ F.st[m] = "skipped"
  BY DEF Calm
<1>1. CASE m = n
  <2>1. KindOf(m) \notin Standard
    BY <1>1
  <2>2. m \notin Guarded
    BY <2>1, GuardedNodes
  <2>3. F.st[m] \in {E.st[m], "completed", "running"}
    BY <1>1 DEF Touches
  <2> QED
    BY <1>1, <2>1, <2>2, <2>3 DEF Settling
<1>2. CASE m # n
  BY <1>2 DEF Touches
<1> QED
  BY <1>1, <1>2

\* A scheduler-owned node is begun, or fails.
LEMMA OwnedBegins ==
    ASSUME RInv, NEW t \in DOMAIN tasks,
           \/ PredicateThrows(t) \/ MergeThrows(t) \/ LoopThrows(t) \/ StartQuery(t)
           \/ FirstQueryResolves(t) \/ executeParallel(t) \/ executeLoop(t)
    PROVE  CalmStep(t)
<1> USE DEF RunVars
<1> DEFINE n == tasks[t].node
<1>1. /\ tasks[t] \in Task /\ FitsTask(tasks[t]) /\ Env(t) \in ExecutionState /\ n \in Node
      /\ tasks[t].pc \in Executing => n \in NodeIds(graph)
      /\ NodeIds(graph) \subseteq Node
  BY RunFacts
<1>2. /\ UNCHANGED <<graph, phase, chains, budget>>
      /\ cpu = <<>> \/ t = Head(cpu)
      /\ tasks[t].pc \in {"dispatch", "query1"}
      /\ n \in NodeIds(graph) /\ KindOf(n) \notin Standard
  BY <1>1 DEF PredicateThrows, MergeThrows, LoopThrows, StartQuery, FirstQueryResolves,
         executeParallel, executeLoop, Dispatching, OnCpu, Awaiting, Executing, FitsTask,
         Standard, SchedulerOwned
<1>3. PICK F : SetEnv(t, F) /\ Touches(Env(t), F, n) /\ F.st = Env(t).st
  <2>1. PICK F \in {Started(Env(t), n), Called(Env(t), n), Called(Started(Env(t), n), n)} :
           SetEnv(t, F)
    BY DEF PredicateThrows, MergeThrows, LoopThrows, StartQuery, FirstQueryResolves,
         executeParallel, executeLoop
  <2>2. CASE F \in {Started(Env(t), n), Called(Env(t), n)}
    BY <1>1, <2>1, <2>2, HelperFacts
  <2>3. CASE F = Called(Started(Env(t), n), n)
    <3> DEFINE G == Started(Env(t), n)
    <3>1. G \in ExecutionState /\ Touches(Env(t), G, n) /\ G.st = Env(t).st
      BY <1>1, HelperFacts
    <3> HIDE DEF G
    <3>2. Touches(G, Called(G, n), n) /\ Called(G, n).st = G.st
      BY <1>1, <3>1, HelperFacts
    <3> QED
      BY <2>1, <2>3, <3>1, <3>2 DEF Touches, G
  <2> QED
    BY <2>1, <2>2, <2>3
<1>4. PICK T : /\ SetTask(t, T)
               /\ T.env = tasks[t].env /\ T.todo = tasks[t].todo /\ T.node = n
               /\ \/ T.pc = "threw"
                  \/ T.pc \in {"query1", "query2"} /\ KindOf(n) = "query"
                  \/ /\ T.pc = "fork" /\ KindOf(n) = "parallel" /\ cpu' = cpu /\ cpu # <<>>
                     /\ T.rest = getOutgoingDataEdges(graph, n)
                  \/ T.pc = "iter" /\ KindOf(n) = "loop" /\ cpu' = cpu /\ cpu # <<>>
  <2>1. CASE PredicateThrows(t) \/ MergeThrows(t) \/ LoopThrows(t)
    <3> DEFINE T == [tasks[t] EXCEPT !.pc = "threw"]
    <3>1. T.env = tasks[t].env /\ T.todo = tasks[t].todo /\ T.node = n /\ T.pc = "threw"
      BY <1>1 DEF Task
    <3>2. SetTask(t, T)
      BY <2>1 DEF PredicateThrows, MergeThrows, LoopThrows, Yield, Goto
    <3> QED
      BY <3>1, <3>2
  <2>2. CASE StartQuery(t)
    <3> DEFINE T == [tasks[t] EXCEPT !.pc = "query1"]
    <3>1. T.env = tasks[t].env /\ T.todo = tasks[t].todo /\ T.node = n /\ T.pc = "query1"
      BY <1>1 DEF Task
    <3>2. SetTask(t, T) /\ KindOf(n) = "query"
      BY <2>2 DEF StartQuery, Yield, Goto, Dispatching
    <3> QED
      BY <3>1, <3>2
  <2>3. CASE FirstQueryResolves(t)
    <3> DEFINE T == [tasks[t] EXCEPT !.pc = "query2"]
    <3>1. T.env = tasks[t].env /\ T.todo = tasks[t].todo /\ T.node = n /\ T.pc = "query2"
      BY <1>1 DEF Task
    <3>2. SetTask(t, T) /\ KindOf(n) = "query"
      BY <1>1, <2>3 DEF FirstQueryResolves, Goto, Awaiting, FitsTask
    <3> QED
      BY <3>1, <3>2
  <2>4. CASE executeParallel(t)
    <3>1. PICK v : SetTask(t, [tasks[t] EXCEPT !.pc = "fork", !.val = v, !.kids = {},
                                 !.rest = getOutgoingDataEdges(graph, n)])
      BY <2>4 DEF executeParallel
    <3> DEFINE T == [tasks[t] EXCEPT !.pc = "fork", !.val = v, !.kids = {},
                                 !.rest = getOutgoingDataEdges(graph, n)]
    <3>2. /\ T.env = tasks[t].env /\ T.todo = tasks[t].todo /\ T.node = n /\ T.pc = "fork"
          /\ T.rest = getOutgoingDataEdges(graph, n)
      BY <1>1 DEF Task
    <3>3. KindOf(n) = "parallel" /\ cpu' = cpu /\ cpu # <<>>
      BY <2>4 DEF executeParallel, Dispatching, OnCpu
    <3> HIDE DEF T
    <3> QED
      BY <3>1, <3>2, <3>3 DEF T
  <2>5. CASE executeLoop(t)
    <3>1. PICK k : SetTask(t, [tasks[t] EXCEPT !.pc = "iter", !.iter = 0, !.left = k,
                          !.kids = {}, !.val = [kind |-> "other", src |-> {}]])
      BY <2>5 DEF executeLoop
    <3> DEFINE T == [tasks[t] EXCEPT !.pc = "iter", !.iter = 0, !.left = k,
                          !.kids = {}, !.val = [kind |-> "other", src |-> {}]]
    <3>2. T.env = tasks[t].env /\ T.todo = tasks[t].todo /\ T.node = n /\ T.pc = "iter"
      BY <1>1 DEF Task
    <3>3. KindOf(n) = "loop" /\ cpu' = cpu /\ cpu # <<>>
      BY <2>5 DEF executeLoop, Dispatching, OnCpu
    <3> HIDE DEF T
    <3> QED
      BY <3>1, <3>2, <3>3 DEF T
  <2> QED
    BY <2>1, <2>2, <2>3, <2>4, <2>5
<1>5. FitsTask(T)
  BY <1>1, <1>4 DEF FitsTask
<1>6. Becomes(t, T, F)
  BY <1>2, <1>3, <1>4, <1>5 DEF Becomes, Sync, checkBudget
<1>7. NodeKept(t, T, F)
  BY <1>2, <1>4 DEF NodeKept, Executing
<1>8. Calm(Env(t), F, n)
  BY <1>1, <1>2, <1>3, TouchCalm
<1> QED
  BY <1>2, <1>3, <1>4, <1>6, <1>7, <1>8, BecomesCalm

\* The loops skip a node that is not ready or not on an active path.  A node
\* run() finds neither settled nor pending would be running or failed, but
\* while run() looks for its next node no other task is in progress.
LEMMA SkipNodeCalm ==
    ASSUME RInv, NEW t \in DOMAIN tasks, SkipNode(t)
    PROVE  CalmStep(t)
<1> USE DEF RunVars
<1>1. /\ tasks[t] \in Task /\ FitsTask(tasks[t]) /\ Env(t) \in ExecutionState
      /\ NodeIds(graph) \subseteq Node /\ IInv
  BY RunFacts
<1>2. /\ UNCHANGED <<graph, phase, chains, budget>>
      /\ cpu # <<>> /\ t = Head(cpu) /\ cpu' = cpu /\ tasks[t].pc = "next"
  BY DEF SkipNode, OnCpu
<1>3. PICK n \in tasks[t].todo :
         /\ ~Settled(t, n)
         /\ SetEnv(t, markNodeSkipped(Env(t), n))
         /\ SetTask(t, [tasks[t] EXCEPT !.todo = @ \ {n}])
  BY FirstInMember DEF SkipNode
<1> DEFINE T == [tasks[t] EXCEPT !.todo = @ \ {n}]
           F == markNodeSkipped(Env(t), n)
<1>4. T.env = tasks[t].env /\ T.todo = tasks[t].todo \ {n} /\ T.pc = "next"
  BY <1>1, <1>2 DEF Task
<1>n. n \in NodeIds(graph)
  BY <1>1 DEF FitsTask
<1>5. /\ \A m \in Node \ {n} : F.st[m] = Env(t).st[m]
      /\ F.st[n] = IF Env(t).st[n] = "absent" THEN "absent" ELSE "skipped"
      /\ F.started = Env(t).started /\ F.calls = Env(t).calls
  BY <1>1, <1>n, HelperFacts DEF markNodeSkipped
<1>6. n \in Guarded /\ Env(t).st[n] # "absent" => Env(t).st[n] = "pending"
  <2> SUFFICES ASSUME n \in Guarded, Env(t).st[n] # "absent", Env(t).st[n] # "pending"
               PROVE  FALSE
    OBVIOUS
  <2>1. t = 1 /\ Env(t).st[n] \in {"running", "failed"}
    BY <1>1, <1>3, <1>n DEF Settled, ExecutionState, Status
  <2>2. /\ tasks # <<>> /\ tasks[1].env = 1 /\ 1 \in DOMAIN envs
        /\ \A s \in DOMAIN tasks \ {1} : tasks[s].pc = "done"
    BY <1>1, <1>2, <2>1, OnlyTaskOne DEF RInv, TasksFit, IInv, TypeOK, TaskOK, Parents
  <2>3. ~SomeThrew
    BY <1>2, <2>1, <2>2 DEF SomeThrew
  <2>4. envs[1].st[n] = "running"
    BY <1>n, <2>1, <2>2, <2>3 DEF RInv, SettledOK, Env
  <2>5. PICK s \in DOMAIN tasks : Racing(s, 1, n)
    BY <2>2, <2>4 DEF RInv, GuardedOK
  <2> QED
    BY <1>2, <2>1, <2>2, <2>5 DEF Racing
<1> HIDE DEF T, F
<1>7. FitsTask(T)
  BY <1>1, <1>2, <1>4 DEF FitsTask
<1>8. Becomes(t, T, F)
  BY <1>2, <1>3, <1>4, <1>7 DEF Becomes, Sync, checkBudget, T, F
<1>9. Calm(Env(t), F, tasks[t].node)
  BY <1>1, <1>5, <1>6 DEF Calm, Settling
<1>10. NodeKept(t, T, F)
  BY <1>2, <1>4, <1>5 DEF NodeKept, Settling
<1>11. \A m \in Node : F.st[m] # Env(t).st[m] => F.st[m] \in Settling
  BY <1>5 DEF Settling
<1> QED
  BY <1>1, <1>4, <1>8, <1>9, <1>10, <1>11, BecomesCalm, RunFacts

\* A task whose node has come to its end goes back to its list.
LEMMA SettlesCalm ==
    ASSUME RInv, NEW t \in DOMAIN tasks, NEW F, SetEnv(t, F), Goto(t, "settled"),
           UNCHANGED <<graph, phase, chains, budget>>,
           cpu = <<>> \/ t = Head(cpu),
           tasks[t].pc \in (Executing \cup {"dispatch"}) \ {"race"},
           Calm(Env(t), F, tasks[t].node),
           \/ F.st[tasks[t].node] \in Settling
           \/ F.st[tasks[t].node] = Env(t).st[tasks[t].node] /\ Env(t).st[tasks[t].node] = "absent"
    PROVE  CalmStep(t)
<1> DEFINE T == [tasks[t] EXCEPT !.pc = "settled"]
<1>1. tasks[t] \in Task /\ FitsTask(tasks[t])
  BY RunFacts
<1>2. T.pc = "settled" /\ T.env = tasks[t].env /\ T.todo = tasks[t].todo
  BY <1>1 DEF Task
<1>3. SetTask(t, T)
  BY DEF Goto
<1> HIDE DEF T
<1>4. FitsTask(T)
  BY <1>1, <1>2 DEF FitsTask
<1>5. Becomes(t, T, F)
  BY <1>2, <1>3, <1>4 DEF Becomes, Sync, checkBudget, Executing
<1>6. NodeKept(t, T, F)
  BY <1>2 DEF NodeKept, Settling
<1> QED
  BY <1>2, <1>5, <1>6, BecomesCalm

\* A query, a merge or a parallel node completes.
LEMMA CompletesCalm ==
    ASSUME RInv, NEW t \in DOMAIN tasks,
           SecondQueryResolves(t) \/ MergeSingle(t) \/ MergeResolves(t) \/ ParallelEnds(t)
    PROVE  CalmStep(t)
<1> USE DEF RunVars
<1> DEFINE n == tasks[t].node
<1>1. /\ tasks[t] \in Task /\ FitsTask(tasks[t]) /\ Env(t) \in ExecutionState /\ n \in Node
      /\ NodeIds(graph) \subseteq Node
  BY RunFacts
<1>2. /\ UNCHANGED <<graph, phase, chains, budget>>
      /\ cpu = <<>> \/ t = Head(cpu)
      /\ tasks[t].pc \in {"dispatch", "query2", "merging", "fork"}
      /\ KindOf(n) \notin Standard
      /\ Goto(t, "settled")
  BY <1>1 DEF SecondQueryResolves, MergeSingle, MergeResolves, ParallelEnds, Yield, Goto,
         Dispatching, OnCpu, Awaiting, FitsTask, Standard, SchedulerOwned
<1>3. PICK E \in {Env(t), Started(Env(t), n)} : \E v : SetEnv(t, markNodeCompleted(E, n, v))
  BY DEF SecondQueryResolves, MergeSingle, MergeResolves, ParallelEnds
<1>4. PICK v : SetEnv(t, markNodeCompleted(E, n, v))
  BY <1>3
<1> DEFINE F == markNodeCompleted(E, n, v)
<1>5. E \in ExecutionState /\ Touches(Env(t), E, n) /\ E.st = Env(t).st
  <2>1. CASE E = Env(t)
    BY <1>1, <2>1 DEF Touches
  <2>2. CASE E = Started(Env(t), n)
    BY <1>1, <2>2, HelperFacts
  <2> QED
    BY <1>3, <2>1, <2>2
<1>6. /\ Touches(E, F, n)
      /\ F.st[n] = IF E.st[n] = "absent" THEN "absent" ELSE "completed"
  BY <1>1, <1>5, HelperFacts
<1> HIDE DEF F
<1>7. Touches(Env(t), F, n)
  BY <1>5, <1>6 DEF Touches
<1>8. Calm(Env(t), F, n)
  BY <1>1, <1>2, <1>7, TouchCalm
<1> QED
  BY <1>2, <1>4, <1>5, <1>6, <1>8, SettlesCalm DEF Settling, Executing, F

\* A conditional completes, and the pending nodes of the untaken branches
\* are skipped.
LEMMA ConditionalCalm ==
    ASSUME RInv, NEW t \in DOMAIN tasks, NEW result, executeConditional(t, result)
    PROVE  CalmStep(t)
<1> USE DEF RunVars
<1> DEFINE n == tasks[t].node
<1>1. Env(t) \in ExecutionState /\ n \in Node /\ NodeIds(graph) \subseteq Node
  BY RunFacts
<1>2. /\ UNCHANGED <<graph, phase, chains, budget>>
      /\ t = Head(cpu) /\ tasks[t].pc = "dispatch"
      /\ KindOf(n) \notin Standard
      /\ Goto(t, "settled")
  BY DEF executeConditional, Yield, Dispatching, OnCpu, Standard, SchedulerOwned
<1> DEFINE G(a, d) == [Started(Env(t), n) EXCEPT !.activated = a, !.deactivated = d]
<1>3. \E a, d, v, off : SetEnv(t, SkipPending(markNodeCompleted(G(a, d), n, v), off))
  <2> DEFINE ctrl == getOutgoingControlEdges(graph, n)
             on == {e \in ctrl : Takes(e, result)}
             a == Started(Env(t), n).activated \cup {e.id : e \in on}
             d == Started(Env(t), n).deactivated \cup {e.id : e \in ctrl \ on}
             E == [Started(Env(t), n) EXCEPT
                      !.activated = @ \cup {e.id : e \in on},
                      !.deactivated = @ \cup {e.id : e \in ctrl \ on}]
             off == getNodesOnInactiveBranches(graph, {e \in ctrl : e.id \in E.deactivated})
  <2>1. E = G(a, d)
    BY <1>1, HelperFacts DEF ExecutionState
  <2>2. \E v : SetEnv(t, SkipPending(markNodeCompleted(E, n, v), off))
    BY DEF executeConditional
  <2> HIDE DEF E, a, d, off
  <2> QED
    BY <2>1, <2>2
<1>4. PICK a, d, v, off : SetEnv(t, SkipPending(markNodeCompleted(G(a, d), n, v), off))
  BY <1>3
<1> DEFINE E == G(a, d)
           C == markNodeCompleted(E, n, v)
           F == SkipPending(C, off)
<1>5. /\ Touches(Env(t), E, n) /\ E.st = Env(t).st
      /\ E \in [st : [Node -> Status], out : [Node -> Value], retryCount : [Node -> Nat],
                activated : {a}, deactivated : {d}, started : [Node -> Nat], calls : [Node -> Nat]]
  <2>1. Started(Env(t), n) \in ExecutionState /\ Touches(Env(t), Started(Env(t), n), n)
        /\ Started(Env(t), n).st = Env(t).st
    BY <1>1, HelperFacts
  <2> QED
    BY <2>1 DEF Touches, ExecutionState
<1> HIDE DEF E
<1>6. /\ Touches(E, C, n) /\ C.st \in [Node -> Status]
      /\ C.st[n] = IF E.st[n] = "absent" THEN "absent" ELSE "completed"
      /\ F.st = [m \in Node |-> IF m \in off /\ C.st[m] = "pending" THEN "skipped" ELSE C.st[m]]
      /\ F.started = C.started /\ F.calls = C.calls
  BY <1>1, <1>5 DEF markNodeCompleted, Touches, Status, SkipPending
<1>7. /\ \A m \in Node : F.st[m] = IF m \in off /\ C.st[m] = "pending" THEN "skipped" ELSE C.st[m]
      /\ F.started = C.started /\ F.calls = C.calls
  BY <1>6
<1>8. Touches(Env(t), C, n)
  BY <1>5, <1>6 DEF Touches
<1> HIDE DEF F, C
<1>9. Calm(Env(t), F, n)
  <2>1. Calm(Env(t), C, n)
    BY <1>1, <1>2, <1>8, TouchCalm
  <2>2. \A m \in Node \ {n} : C.st[m] = Env(t).st[m]
    BY <1>8 DEF Touches
  <2>3. n \notin Guarded /\ (C.st[n] # "pending" \/ C.st[n] = Env(t).st[n])
    BY <1>2, <1>5, <1>6, GuardedNodes DEF Touches
  <2> QED
    BY <1>1, <1>7, <2>1, <2>2, <2>3 DEF Calm, Settling
<1>10. \/ F.st[n] \in Settling
       \/ F.st[n] = Env(t).st[n] /\ Env(t).st[n] = "absent"
  BY <1>1, <1>5, <1>6, <1>7 DEF Settling
<1> QED
  BY <1>2, <1>4, <1>9, <1>10, SettlesCalm DEF E, C, F, Executing

\* A merge of several inputs is handed to the merge node's execute.
LEMMA MergeManyCalm ==
    ASSUME RInv, NEW t \in DOMAIN tasks, MergeMany(t)
    PROVE  CalmStep(t)
<1> USE DEF RunVars
<1> DEFINE n == tasks[t].node
           S == Started(Env(t), n)
           R == markNodeRunning(S, n)
           F == Called(R, n)
<1>1. /\ tasks[t] \in Task /\ FitsTask(tasks[t]) /\ Env(t) \in ExecutionState /\ n \in Node
      /\ NodeIds(graph) \subseteq Node
  BY RunFacts
<1>2. /\ UNCHANGED <<graph, phase, chains, budget>>
      /\ t = Head(cpu) /\ tasks[t].pc = "dispatch" /\ KindOf(n) = "merge" /\ n \in NodeIds(graph)
      /\ SetEnv(t, F)
  BY DEF MergeMany, Dispatching, OnCpu
<1>3. KindOf(n) \notin Standard
  BY <1>2 DEF Standard, SchedulerOwned
<1>4. PICK v : SetTask(t, [tasks[t] EXCEPT !.pc = "merging", !.val = v])
  BY DEF MergeMany
<1> DEFINE T == [tasks[t] EXCEPT !.pc = "merging", !.val = v]
<1>5. /\ T.pc = "merging" /\ T.env = tasks[t].env /\ T.todo = tasks[t].todo /\ T.node = n
  BY <1>1 DEF Task
<1>6. S \in ExecutionState /\ Touches(Env(t), S, n) /\ S.st = Env(t).st
  BY <1>1, HelperFacts
<1> HIDE DEF S, T
<1>7. /\ R \in ExecutionState /\ Touches(S, R, n)
      /\ R.st[n] = IF S.st[n] = "absent" THEN "absent" ELSE "running"
  <2>1. R \in ExecutionState
    BY <1>1, <1>6, MarkTypes, UndefType
  <2>2. /\ \A m \in Node \ {n} : R.st[m] = S.st[m]
        /\ R.st[n] = IF S.st[n] = "absent" THEN "absent" ELSE "running"
        /\ R.started = S.started /\ R.calls = S.calls
    BY <1>1, <1>6 DEF markNodeRunning, SetStatus, ExecutionState, Status
  <2> QED
    BY <2>1, <2>2 DEF Touches
<1> HIDE DEF R
<1>8. Touches(R, F, n) /\ F.st = R.st
  BY <1>1, <1>7, HelperFacts
<1> HIDE DEF F
<1>9. Touches(Env(t), F, n)
  BY <1>6, <1>7, <1>8 DEF Touches
<1>10. Calm(Env(t), F, n)
  BY <1>1, <1>3, <1>9, TouchCalm
<1>11. FitsTask(T)
  BY <1>1, <1>2, <1>5 DEF FitsTask
<1>12. Becomes(t, T, F)
  BY <1>2, <1>4, <1>5, <1>11 DEF Becomes, Sync, checkBudget, T
<1>13. NodeKept(t, T, F)
  BY <1>2, <1>5 DEF NodeKept, Executing
<1> QED
  BY <1>2, <1>5, <1>10, <1>12, <1>13, BecomesCalm

\* A loop ends: its body nodes are closed, none of which is guarded.
LEMMA LoopEndsCalm ==
    ASSUME RInv, NEW t \in DOMAIN tasks, LoopEnds(t)
    PROVE  CalmStep(t)
<1> USE DEF RunVars
<1> DEFINE n == tasks[t].node
           C == CloseBody(Env(t), n)
           F == markNodeCompleted(C, n, tasks[t].val)
<1>1. /\ FitsTask(tasks[t]) /\ Env(t) \in ExecutionState /\ n \in Node
      /\ NodeIds(graph) \subseteq Node /\ (tasks[t].pc \in Executing => n \in NodeIds(graph))
  BY RunFacts
<1>2. /\ UNCHANGED <<graph, phase, chains, budget>>
      /\ t = Head(cpu) /\ tasks[t].pc = "iter"
      /\ SetEnv(t, F) /\ Goto(t, "settled")
  BY DEF LoopEnds, OnCpu, Yield
<1>3. KindOf(n) = "loop" /\ n \in NodeIds(graph) /\ KindOf(n) \notin Standard
  BY <1>1, <1>2 DEF FitsTask, Executing, Standard, SchedulerOwned
<1>4. /\ C \in ExecutionState
      /\ \A m \in Node : C.st[m] = IF m \in BodySet(n) THEN "completed" ELSE Env(t).st[m]
      /\ C.started = Env(t).started /\ C.calls = Env(t).calls
  BY <1>1, CloseBodyType DEF CloseBody, ExecutionState
<1> HIDE DEF C
<1>5. /\ Touches(C, F, n)
      /\ F.st[n] = IF C.st[n] = "absent" THEN "absent" ELSE "completed"
  BY <1>1, <1>4, HelperFacts
<1> HIDE DEF F
<1>6. \A m \in NodeIds(graph) : m \in BodySet(n) => m \notin Guarded
  BY <1>3 DEF Guarded, Rewritable
<1>7. n \notin Guarded
  BY <1>3, GuardedNodes
<1>8. Calm(Env(t), F, n)
  <2> SUFFICES ASSUME NEW m \in NodeIds(graph)
               PROVE  /\ KindOf(m) \in Standard =>
                            F.started[m] = Env(t).started[m] /\ F.calls[m] = Env(t).calls[m]
                      /\ F.st[m] # Env(t).st[m] => F.st[m] \in Settling /\ m \notin Guarded
    BY DEF Calm
  <2>1. CASE m = n
    BY <1>1, <1>3, <1>4, <1>5, <1>7, <2>1 DEF Settling
  <2>2. CASE m # n
    BY <1>1, <1>4, <1>5, <1>6, <2>2 DEF Settling, Touches
  <2> QED
    BY <2>1, <2>2
<1> QED
  BY <1>1, <1>2, <1>4, <1>5, <1>8, SettlesCalm DEF Settling, Executing

\* executeSubgraph begins: a branch head with an input is completed at once,
\* and a branch head is not guarded.
LEMMA EnterCalm ==
    ASSUME RInv, NEW t \in DOMAIN tasks, EnterSubgraph(t)
    PROVE  CalmStep(t)
<1> USE DEF RunVars
<1> DEFINE n == tasks[t].node
           F == IF tasks[t].val.kind # "undef"
                THEN markNodeCompleted(Env(t), n, tasks[t].val) ELSE Env(t)
           todo == {m \in NodeIds(graph) : m \in getReachableNodes(graph, n) /\ F.st[m] = "pending"}
           T == [tasks[t] EXCEPT !.pc = "next", !.todo = todo]
<1>1. /\ tasks[t] \in Task /\ FitsTask(tasks[t]) /\ Env(t) \in ExecutionState /\ n \in Node
      /\ NodeIds(graph) \subseteq Node
  BY RunFacts
<1>2. /\ UNCHANGED <<graph, phase, chains, budget>>
      /\ cpu # <<>> /\ t = Head(cpu) /\ cpu' = cpu /\ tasks[t].pc = "enter"
      /\ SetEnv(t, F) /\ SetTask(t, T)
  BY DEF EnterSubgraph, OnCpu
<1>3. T.pc = "next" /\ T.env = tasks[t].env /\ T.todo = todo
  BY <1>1 DEF Task
<1>4. \/ F = Env(t)
      \/ /\ n \notin Guarded /\ F.started = Env(t).started /\ F.calls = Env(t).calls
         /\ \A m \in Node \ {n} : F.st[m] = Env(t).st[m]
         /\ F.st[n] = Env(t).st[n] \/ F.st[n] = "completed"
  <2>1. CASE tasks[t].val.kind = "undef"
    BY <2>1
  <2>2. CASE tasks[t].val.kind # "undef"
    <3>1. n \notin Guarded
      BY <1>1, <1>2, <2>2 DEF FitsTask, Guarded, Rewritable
    <3> QED
      BY <1>1, <2>2, <3>1, HelperFacts DEF Touches
  <2> QED
    BY <2>1, <2>2
<1>5. todo \subseteq NodeIds(graph)
  OBVIOUS
<1> HIDE DEF F, T, todo
<1>6. Calm(Env(t), F, n)
  BY <1>1, <1>4 DEF Calm, Settling
<1>7. FitsTask(T)
  BY <1>1, <1>3, <1>5 DEF FitsTask
<1>8. Becomes(t, T, F)
  BY <1>2, <1>3, <1>7 DEF Becomes, Sync, checkBudget
<1>9. NodeKept(t, T, F)
  BY <1>1, <1>2 DEF NodeKept, FitsTask
<1> QED
  BY <1>1, <1>3, <1>4, <1>6, <1>8, <1>9, BecomesCalm DEF Settling

-----------------------------------------------------------------------------
(* The steps that start a branch or an iteration.                          *)

\* An execution state made for an iteration: guarded nodes have no entry.
Fresh(E) ==
    /\ \A n \in Guarded : E.st[n] = "absent"
    /\ \A n \in NodeIds(graph) : E.started[n] = 0 /\ E.calls[n] = 0

SpawnStep(t) ==
    LET k == Len(tasks) + 1
    IN  /\ DOMAIN tasks' = DOMAIN tasks \cup {k}
        /\ \A s \in DOMAIN tasks \ {t} : tasks'[s] = tasks[s]
        /\ tasks'[t].env = tasks[t].env /\ tasks'[t].todo = tasks[t].todo
        /\ tasks'[t].node = tasks[t].node
        /\ tasks[t].pc \in {"fork", "iter"} /\ tasks'[t].pc \in {"fork", "join"}
        /\ tasks'[k].pc = "enter"
        /\ FitsTask(tasks'[t]) /\ FitsTask(tasks'[k])
        /\ DOMAIN envs \subseteq DOMAIN envs'
        /\ \A e \in DOMAIN envs : envs'[e] = envs[e]
        /\ \A e \in DOMAIN envs' \ DOMAIN envs : Fresh(envs'[e])
        /\ UNCHANGED <<graph, phase, chains, budget>>
        /\ t = Head(cpu) /\ cpu' # <<>> /\ Head(cpu') = k
        /\ tasks[t].node \in NodeIds(graph) /\ KindOf(tasks[t].node) \notin Standard

LEMMA SpawnStepKeeps ==
    ASSUME RInv, IInv', NEW t \in DOMAIN tasks, SpawnStep(t)
    PROVE  RInv'
<1> DEFINE k == Len(tasks) + 1
<1>a. /\ TypeOK /\ TaskOK /\ TypeOK' /\ TaskOK' /\ ChainOK
      /\ tasks \in Seq(Task) /\ envs \in Seq(ExecutionState) /\ tasks' \in Seq(Task)
      /\ envs' \in Seq(ExecutionState) /\ tasks # <<>> /\ tasks' # <<>>
      /\ k \notin DOMAIN tasks /\ 1 \in DOMAIN tasks /\ k # 1
      /\ tasks[1].env = 1 /\ 1 \in DOMAIN envs
      /\ NodeIds(graph) \subseteq Node
  <2>1. /\ TypeOK /\ TaskOK /\ TypeOK' /\ TaskOK' /\ ChainOK /\ TasksFit
    BY DEF RInv, IInv
  <2>2. tasks \in Seq(Task) /\ tasks' \in Seq(Task) /\ tasks # <<>>
    BY <2>1 DEF TypeOK
  <2>3. k \notin DOMAIN tasks /\ 1 \in DOMAIN tasks /\ k # 1
    BY <2>2
  <2>4. k \in DOMAIN tasks'
    BY DEF SpawnStep
  <2>5. tasks' # <<>>
    BY <2>4
  <2>6. tasks[1].env = 1 /\ 1 \in DOMAIN envs
    BY <2>1, <2>2, <2>3 DEF TasksFit, TaskOK
  <2> QED
    BY <2>1, <2>2, <2>3, <2>5, <2>6, EdgeTypes DEF TypeOK
<1>b. /\ graph' = graph /\ phase' = phase /\ chains' = chains
      /\ \A n : KindOf(n)' = KindOf(n) /\ MaxRetries(n)' = MaxRetries(n)
      /\ Guarded' = Guarded /\ Guarded \subseteq NodeIds(graph)
  BY GuardedNodes DEF SpawnStep, KindOf, MaxRetries
<1>c. /\ DOMAIN tasks' = DOMAIN tasks \cup {k}
      /\ \A s \in DOMAIN tasks \ {t} : tasks'[s] = tasks[s]
      /\ tasks'[t].env = tasks[t].env /\ tasks'[t].todo = tasks[t].todo
      /\ tasks'[t].node = tasks[t].node
      /\ tasks[t].pc \in {"fork", "iter"} /\ tasks'[t].pc \in {"fork", "join"}
      /\ tasks'[k].pc = "enter"
  BY DEF SpawnStep
<1>d. /\ DOMAIN envs \subseteq DOMAIN envs'
      /\ \A e \in DOMAIN envs : envs'[e] = envs[e]
      /\ \A e \in DOMAIN envs' \ DOMAIN envs : Fresh(envs'[e])
  BY DEF SpawnStep
<1>e. \A s \in DOMAIN tasks : s # t => tasks[s].pc \notin Sync
  BY DEF SpawnStep, RInv, CpuHead
<1>1. CpuHead'
  <2>1. cpu' # <<>> /\ Head(cpu') = k
    BY DEF SpawnStep
  <2> HIDE DEF k
  <2> QED
    BY <1>c, <1>e, <2>1 DEF CpuHead, Sync
<1>2. TasksFit'
  <2>1. ASSUME NEW s \in DOMAIN tasks'
        PROVE  FitsTask(tasks[s])'
    <3>1. FitsTask(tasks'[s])
      BY <1>c DEF RInv, TasksFit, SpawnStep
    <3> QED
      BY <1>b, <3>1 DEF FitsTask
  <2>2. tasks'[1].env = 1
    BY <1>a, <1>c
  <2>3. /\ tasks' = <<>> <=> phase' \in {"idle", "invalid"}
        /\ envs' = <<>> <=> phase' \in {"idle", "invalid"}
    BY <1>a, <1>b, <1>d DEF RInv, TasksFit
  <2> QED
    BY <2>1, <2>2, <2>3 DEF TasksFit
<1>f. \A e, n : \A s \in DOMAIN tasks' : Racing(s, e, n)' <=> s \in DOMAIN tasks /\ Racing(s, e, n)
  <2> HIDE DEF k
  <2> QED
    BY <1>c DEF Racing
<1>3. GuardedOK'
  <2>1. ASSUME NEW s \in DOMAIN tasks', tasks'[s].node \in Guarded
        PROVE  /\ tasks'[s].pc = "dispatch" => envs'[tasks'[s].env].st[tasks'[s].node] = "pending"
               /\ tasks'[s].pc = "race" => envs'[tasks'[s].env].st[tasks'[s].node] = "running"
    <3>1. CASE s \in DOMAIN tasks \ {t}
      <4>1. tasks'[s] = tasks[s] /\ tasks[s].env \in DOMAIN envs
        BY <1>a, <1>c, <3>1 DEF TaskOK
      <4> QED
        BY <1>d, <2>1, <3>1, <4>1 DEF RInv, GuardedOK, Env
    <3>2. CASE s \in {t, k}
      BY <1>c, <3>2
    <3> QED
      BY <1>c, <3>1, <3>2
  <2>2. ASSUME NEW e \in DOMAIN envs', NEW n \in Guarded
        PROVE  /\ \A r, s \in DOMAIN tasks' : Racing(r, e, n)' /\ Racing(s, e, n)' => r = s
               /\ envs'[e].st[n] = "running" => \E s \in DOMAIN tasks' : Racing(s, e, n)'
               /\ envs'[e].started[n] <= 1
               /\ envs'[e].st[n] \in {"absent", "pending"} => envs'[e].started[n] = 0
    <3>1. CASE e \in DOMAIN envs
      BY <1>c, <1>d, <1>f, <3>1 DEF RInv, GuardedOK
    <3>2. CASE e \notin DOMAIN envs
      <4>1. envs'[e].st[n] = "absent" /\ envs'[e].started[n] = 0
        BY <1>b, <1>d, <3>2 DEF Fresh
      <4>2. \A s \in DOMAIN tasks' : ~Racing(s, e, n)'
        <5>1. \A s \in DOMAIN tasks : ~Racing(s, e, n)
          BY <1>a, <3>2 DEF TaskOK, Racing
        <5> QED
          BY <1>f, <5>1
      <4> QED
        BY <4>1, <4>2
    <3> QED
      BY <3>1, <3>2
  <2> QED
    BY <1>b, <2>1, <2>2 DEF GuardedOK, Env
<1>4. SettledOK'
  <2>1. \A s \in DOMAIN tasks : \A n : Executes(s, n) => Executes(s, n)'
    BY <1>c DEF Executes, Executing
  <2>2. SomeThrew => SomeThrew'
    BY <1>c DEF SomeThrew
  <2>3. envs'[1] = envs[1] /\ tasks'[1].todo = tasks[1].todo
    BY <1>a, <1>c, <1>d
  <2> QED
    BY <1>a, <1>b, <1>c, <2>1, <2>2, <2>3 DEF RInv, SettledOK
<1>5. ResolvedSettled'
  BY <1>a, <1>b, <1>d DEF RInv, ResolvedSettled
<1>6. ChainsFit'
  <2>1. ASSUME NEW c \in chains
        PROVE  /\ c.waiter # 0 => tasks'[c.waiter] = tasks[c.waiter]
               /\ envs'[c.env] = envs[c.env]
    BY <1>a, <1>c, <1>d, <2>1 DEF ChainOK
  <2> QED
    BY <1>b, <2>1 DEF RInv, ChainsFit
<1>7. CallsCounted'
  <2>1. ASSUME NEW e \in DOMAIN envs', NEW n \in NodeIds(graph), KindOf(n) \in Standard
        PROVE  envs'[e].calls[n] <= Cardinality(Attempts(e, n)')
    <3>1. CASE e \in DOMAIN envs
      <4>1. Attempts(e, n)' = Attempts(e, n) /\ envs'[e] = envs[e]
        BY <1>b, <1>d, <3>1 DEF Attempts
      <4> QED
        BY <2>1, <3>1, <4>1 DEF RInv, CallsCounted
    <3>2. CASE e \notin DOMAIN envs
      <4>1. envs'[e].started[n] = 0 /\ envs'[e].calls[n] = 0
        BY <1>d, <3>2 DEF Fresh
      <4>2. Attempts(e, n)' = {}
        BY <4>1 DEF Attempts
      <4> QED
        BY <4>1, <4>2, FS_EmptySet
    <3> QED
      BY <3>1, <3>2
  <2> QED
    BY <1>b, <2>1 DEF CallsCounted
<1>8. RejectedOK'
  <2>1. phase' = "rejected" => tasks'[1].pc = "threw"
    <3> SUFFICES ASSUME phase' = "rejected"
                 PROVE  tasks'[1].pc = "threw"
      OBVIOUS
    <3>1. tasks[1].pc = "threw"
      BY <1>b DEF RInv, RejectedOK
    <3> QED
      BY <1>a, <1>c, <3>1
  <2>2. \E n \in NodeIds(graph) : KindOf(n) \notin Standard
    BY DEF SpawnStep
  <2> QED
    BY <1>a, <1>b, <2>1, <2>2 DEF RejectedOK
<1> QED
  BY <1>1, <1>2, <1>3, <1>4, <1>5, <1>6, <1>7, <1>8 DEF RInv

\* What Append leaves and adds.
LEMMA AppendFacts ==
    ASSUME NEW S, NEW s \in Seq(S), NEW t \in DOMAIN s, NEW T, NEW K,
           T \in S, K \in S
    PROVE  LET r == Append([s EXCEPT ![t] = T], K)
           IN  /\ DOMAIN r = DOMAIN s \cup {Len(s) + 1}
               /\ r[t] = T /\ r[Len(s) + 1] = K
               /\ \A i \in DOMAIN s \ {t} : r[i] = s[i]
OBVIOUS

\* A parallel node starts its next branch.
LEMMA ForkSpawns ==
    ASSUME RInv, NEW t \in DOMAIN tasks, ForkBranch(t)
    PROVE  SpawnStep(t)
<1> DEFINE k == Len(tasks) + 1
           n == tasks[t].node
<1>1. /\ tasks[t] \in Task /\ FitsTask(tasks[t]) /\ tasks \in Seq(Task) /\ k \in Nat
      /\ tasks[t].pc \in Executing => n \in NodeIds(graph)
  <2>1. tasks \in Seq(Task)
    BY DEF RInv, IInv, TypeOK
  <2> QED
    BY <2>1, RunFacts
<1>2. /\ tasks[t].pc = "fork" /\ cpu # <<>> /\ t = Head(cpu) /\ cpu' = <<k>> \o cpu
      /\ UNCHANGED <<graph, phase, envs, chains, budget>>
  BY DEF ForkBranch, OnCpu, RunVars
<1>3. PICK e \in tasks[t].rest :
         tasks' = Append([tasks EXCEPT ![t] =
                                [tasks[t] EXCEPT !.kids = @ \cup {k}, !.rest = @ \ {e}]],
                             NewTask(tasks[t].env, e.to, tasks[t].val))
  BY FirstInMember DEF ForkBranch
<1> DEFINE T == [tasks[t] EXCEPT !.kids = @ \cup {k}, !.rest = @ \ {e}]
           K == NewTask(tasks[t].env, e.to, tasks[t].val)
<1>4. /\ T \in Task /\ T.env = tasks[t].env /\ T.todo = tasks[t].todo /\ T.node = n
      /\ T.pc = "fork" /\ T.rest = tasks[t].rest \ {e}
  <2> HIDE DEF k
  <2> QED
    BY <1>1, <1>2 DEF Task
<1>5. K \in Task
  BY <1>1, NewTaskType DEF Task, Edge
<1>6. K.pc = "enter" /\ K.todo = {} /\ K.node = e.to /\ K.val = tasks[t].val
  BY DEF NewTask
<1>7. KindOf(n) = "parallel" /\ n \in NodeIds(graph) /\ tasks[t].rest \subseteq getOutgoingDataEdges(graph, n)
  BY <1>1, <1>2 DEF FitsTask, Executing
<1> HIDE DEF T, K
<1>8. FitsTask(T)
  BY <1>1, <1>4, <1>7 DEF FitsTask
<1>9. FitsTask(K)
  <2>1. e.to \in DataSuccessors(graph, n)
    BY <1>3, <1>7 DEF DataSuccessors
  <2> QED
    BY <1>6, <1>7, <2>1 DEF FitsTask
<1>10. /\ DOMAIN tasks' = DOMAIN tasks \cup {k}
       /\ tasks'[t] = T /\ tasks'[k] = K
       /\ \A i \in DOMAIN tasks \ {t} : tasks'[i] = tasks[i]
  BY <1>1, <1>3, <1>4, <1>5, AppendFacts DEF T, K
<1>11. cpu' # <<>> /\ Head(cpu') = k
  <2>1. cpu \in Seq(Nat)
    BY DEF RInv, IInv, TypeOK
  <2> QED
    BY <1>1, <1>2, <2>1
<1>12. KindOf(n) \notin Standard
  BY <1>7 DEF Standard, SchedulerOwned
<1> QED
  BY <1>2, <1>4, <1>6, <1>7, <1>8, <1>9, <1>10, <1>11, <1>12 DEF SpawnStep

\* A loop starts its next iteration.
LEMMA IterationSpawns ==
    ASSUME RInv, NEW t \in DOMAIN tasks, NextIteration(t)
    PROVE  SpawnStep(t)
<1> DEFINE k == Len(tasks) + 1
           n == tasks[t].node
           F == forkStateForIteration(Env(t), n)
           T == [tasks[t] EXCEPT !.pc = "join", !.kids = {k}]
<1>1. /\ tasks[t] \in Task /\ FitsTask(tasks[t]) /\ n \in Node /\ NodeIds(graph) \subseteq Node
      /\ tasks[t].pc \in Executing => n \in NodeIds(graph)
  BY RunFacts
<1>a. /\ tasks \in Seq(Task) /\ k \in Nat /\ envs \in Seq(ExecutionState) /\ graph \in Graphs
      /\ cpu \in Seq(Nat)
  BY DEF RInv, IInv, TypeOK
<1>2. /\ tasks[t].pc = "iter" /\ cpu # <<>> /\ t = Head(cpu) /\ cpu' = <<k>> \o Tail(cpu)
      /\ envs' = Append(envs, F)
      /\ UNCHANGED <<graph, phase, chains, budget>>
  BY DEF NextIteration, OnCpu, RunVars
<1>3. PICK e \in getOutgoingDataEdges(graph, n) :
         tasks' = Append([tasks EXCEPT ![t] = T], NewTask(Len(envs) + 1, e.to, Undef))
  BY FirstInMember DEF NextIteration
<1> DEFINE K == NewTask(Len(envs) + 1, e.to, Undef)
<1>4. /\ T \in Task /\ T.env = tasks[t].env /\ T.todo = tasks[t].todo /\ T.node = n
      /\ T.pc = "join"
  <2> HIDE DEF k
  <2> QED
    BY <1>1, <1>a, <1>2 DEF Task, Pcs
<1>5. K \in Task
  <2>1. e.to \in Node /\ Len(envs) + 1 \in Nat
    BY <1>a, <1>3, EdgeTypes DEF Edge, getOutgoingDataEdges
  <2> QED
    BY <2>1, NewTaskType, UndefType
<1>6. K.pc = "enter" /\ K.todo = {} /\ K.node = e.to /\ K.val.kind = "undef"
  BY DEF NewTask, Undef
<1>7. KindOf(n) = "loop" /\ n \in NodeIds(graph) /\ KindOf(n) \notin Standard
  BY <1>1, <1>2 DEF FitsTask, Executing, Standard, SchedulerOwned
<1>8. Fresh(F)
  <2>1. \A m \in NodeIds(graph) : /\ F.started[m] = 0 /\ F.calls[m] = 0
                                  /\ m # n /\ m \notin BodySet(n) => F.st[m] = "absent"
    BY <1>1 DEF forkStateForIteration, NewState
  <2>2. \A m \in Guarded : m \in NodeIds(graph) /\ m # n /\ m \notin BodySet(n)
    BY <1>7, GuardedNodes DEF Guarded, Rewritable
  <2> QED
    BY <2>1, <2>2 DEF Fresh
<1>9. F \in ExecutionState
  BY <1>1, ForkStateType
<1> HIDE DEF T, K, F
<1>10. FitsTask(T) /\ FitsTask(K)
  BY <1>1, <1>4, <1>6, <1>7 DEF FitsTask
<1>11. /\ DOMAIN tasks' = DOMAIN tasks \cup {k}
       /\ tasks'[t] = T /\ tasks'[k] = K
       /\ \A i \in DOMAIN tasks \ {t} : tasks'[i] = tasks[i]
  BY <1>a, <1>3, <1>4, <1>5, AppendFacts DEF K
<1>12. cpu' # <<>> /\ Head(cpu') = k
  BY <1>a, <1>2
<1>13. /\ DOMAIN envs \subseteq DOMAIN envs'
       /\ \A e2 \in DOMAIN envs : envs'[e2] = envs[e2]
       /\ \A e2 \in DOMAIN envs' \ DOMAIN envs : envs'[e2] = F
  BY <1>a, <1>2, <1>9
<1> QED
  BY <1>2, <1>4, <1>6, <1>7, <1>8, <1>10, <1>11, <1>12, <1>13 DEF SpawnStep

\* Every step of a task is calm, starts another task, or begins a standard
\* node.
LEMMA TaskStepKinds ==
    ASSUME RInv, NEW t \in DOMAIN tasks,
           TaskStep(t) \/ MergeRejects(t) \/ QueryReply(t) \/ QueryTimeout(t)
    PROVE  CalmStep(t) \/ SpawnStep(t) \/ StartStandard(t)
BY QuietThrows, QuietMoves, JoinMoves, ListMoves, OwnedBegins, SkipNodeCalm, CompletesCalm,
   ConditionalCalm, MergeManyCalm, LoopEndsCalm, EnterCalm, ForkSpawns, IterationSpawns, Zenon
   DEF TaskStep, QueryReply

-----------------------------------------------------------------------------
(* A standard node is begun.                                               *)

\* A set of pairs of a start and an attempt is finite and bounded.
LEMMA BoundedPairs ==
    ASSUME NEW k \in Nat, NEW r \in Nat, NEW S, S \subseteq (1..k) \X (0..r)
    PROVE  IsFiniteSet(S) /\ Cardinality(S) \in Nat /\ Cardinality(S) <= k * (r + 1)
<1> DEFINE A == 1..k
           B == 0..r
<1>1. /\ IsFiniteSet(A) /\ Cardinality(A) = IF 1 > k THEN 0 ELSE k - 1 + 1
  BY FS_Interval
<1>2. /\ IsFiniteSet(B) /\ Cardinality(B) = IF 0 > r THEN 0 ELSE r - 0 + 1
  BY FS_Interval
<1>3. Cardinality(A) = k /\ Cardinality(B) = r + 1
  BY <1>1, <1>2
<1> HIDE DEF A, B
<1>4. IsFiniteSet(A \X B) /\ Cardinality(A \X B) = k * (r + 1)
  BY <1>1, <1>2, <1>3, FS_Product
<1>5. S \subseteq A \X B
  BY DEF A, B
<1> QED
  BY <1>4, <1>5, FS_Subset, FS_CardinalityType

\* The attempts of a node are finitely many, before and after a step.
LEMMA AttemptsFinite ==
    ASSUME RInv, NEW e \in DOMAIN envs, NEW n \in NodeIds(graph)
    PROVE  /\ IsFiniteSet(Attempts(e, n)) /\ Cardinality(Attempts(e, n)) \in Nat
           /\ Cardinality(Attempts(e, n)) <= envs[e].started[n] * (MaxRetries(n) + 1)
<1>1. graph \in Graphs /\ envs[e] \in ExecutionState
  BY DEF RInv, IInv, TypeOK
<1>2. graph.node[n] \in NodeDef /\ n \in Node
  BY <1>1, EdgeTypes
<1>3. graph.node[n].maxRetries \in Nat
  BY <1>2 DEF NodeDef
<1>4. envs[e].started[n] \in Nat /\ MaxRetries(n) \in Nat
  BY <1>1, <1>2, <1>3 DEF ExecutionState, MaxRetries
<1>5. Attempts(e, n) \subseteq (1..envs[e].started[n]) \X (0..MaxRetries(n))
  BY DEF Attempts
<1> QED
  BY <1>4, <1>5, BoundedPairs

LEMMA AttemptsFiniteAfter ==
    ASSUME TypeOK', NEW e \in DOMAIN envs', NEW n \in NodeIds(graph), graph' = graph
    PROVE  IsFiniteSet(Attempts(e, n)') /\ Cardinality(Attempts(e, n)') \in Nat
<1>1. graph \in Graphs /\ envs'[e] \in ExecutionState
  BY DEF TypeOK
<1>2. graph.node[n] \in NodeDef /\ n \in Node
  BY <1>1, EdgeTypes
<1>3. graph.node[n].maxRetries \in Nat
  BY <1>2 DEF NodeDef
<1>4. envs'[e].started[n] \in Nat /\ MaxRetries(n) \in Nat /\ MaxRetries(n)' = MaxRetries(n)
  BY <1>1, <1>2, <1>3 DEF ExecutionState, MaxRetries
<1>5. Attempts(e, n)' \subseteq (1..envs'[e].started[n]) \X (0..MaxRetries(n))
  BY <1>4 DEF Attempts
<1> QED
  BY <1>4, <1>5, BoundedPairs

\* One more attempt allows for one more call.
LEMMA OneMoreAttempt ==
    ASSUME NEW S, NEW T, NEW x, IsFiniteSet(S), IsFiniteSet(T), S \subseteq T, x \in T \ S
    PROVE  Cardinality(S) + 1 <= Cardinality(T)
<1>1. IsFiniteSet(S \cup {x}) /\ Cardinality(S \cup {x}) = Cardinality(S) + 1
  BY FS_AddElement
<1>2. S \cup {x} \subseteq T
  OBVIOUS
<1> QED
  BY <1>1, <1>2, FS_Subset

NewChain(t) ==
    [env |-> tasks[t].env, node |-> tasks[t].node, start |-> Env(t).started[tasks[t].node] + 1,
     attempt |-> 0, pc |-> "call", waiter |-> t]

\* What beginning a standard node changes.
BeginStep(t) ==
    LET n == tasks[t].node
    IN  /\ DOMAIN tasks' = DOMAIN tasks
        /\ \A s \in DOMAIN tasks \ {t} : tasks'[s] = tasks[s]
        /\ tasks'[t] = [tasks[t] EXCEPT !.pc = "race"]
        /\ DOMAIN envs' = DOMAIN envs
        /\ \A e \in DOMAIN envs \ {tasks[t].env} : envs'[e] = envs[e]
        /\ \A m \in Node \ {n} : /\ After(t).st[m] = Env(t).st[m]
                                 /\ After(t).started[m] = Env(t).started[m]
                                 /\ After(t).calls[m] = Env(t).calls[m]
        /\ After(t).st[n] = IF Env(t).st[n] = "absent" THEN "absent" ELSE "running"
        /\ After(t).started[n] = Env(t).started[n] + 1
        /\ After(t).calls[n] = Env(t).calls[n] + 1
        /\ chains' = chains \cup {NewChain(t)}
        /\ UNCHANGED <<graph, phase, budget>>
        /\ tasks[t].pc = "dispatch" /\ t = Head(cpu)
        /\ n \in NodeIds(graph) /\ KindOf(n) \in Standard

LEMMA StartBegins ==
    ASSUME RInv, NEW t \in DOMAIN tasks, StartStandard(t)
    PROVE  BeginStep(t)
<1> USE DEF RunVars
<1> DEFINE n == tasks[t].node
           S == Started(Env(t), n)
           R == markNodeRunning(S, n)
           F == Called(R, n)
<1>1. /\ tasks[t] \in Task /\ Env(t) \in ExecutionState /\ n \in Node
  BY RunFacts
<1>2. /\ UNCHANGED <<graph, phase, budget>>
      /\ t = Head(cpu) /\ tasks[t].pc = "dispatch"
      /\ KindOf(n) \in Standard /\ n \in NodeIds(graph)
      /\ SetEnv(t, F) /\ SetTask(t, [tasks[t] EXCEPT !.pc = "race"])
      /\ chains' = chains \cup
                {[env |-> tasks[t].env, node |-> n, start |-> S.started[n],
                  attempt |-> 0, pc |-> "call", waiter |-> t]}
  BY DEF StartStandard, Dispatching, OnCpu, Yield, Goto
<1>3. /\ S \in ExecutionState /\ Touches(Env(t), S, n) /\ S.st = Env(t).st
      /\ S.started[n] = Env(t).started[n] + 1 /\ S.calls = Env(t).calls
  BY <1>1, HelperFacts
<1> HIDE DEF S
<1>4. /\ \A m \in Node \ {n} : R.st[m] = S.st[m]
      /\ R.st[n] = IF S.st[n] = "absent" THEN "absent" ELSE "running"
      /\ R.started = S.started /\ R.calls = S.calls
      /\ R \in ExecutionState
  BY <1>1, <1>3 DEF markNodeRunning, SetStatus, ExecutionState, Status
<1> HIDE DEF R
<1>5. /\ Touches(R, F, n) /\ F.st = R.st /\ F.started = R.started
      /\ F.calls[n] = R.calls[n] + 1
  BY <1>1, <1>4, HelperFacts
<1> HIDE DEF F
<1>6. tasks \in Seq(Task) /\ envs \in Seq(ExecutionState) /\ tasks[t].env \in DOMAIN envs
  BY DEF RInv, IInv, TypeOK, TaskOK
<1>7. /\ DOMAIN tasks' = DOMAIN tasks /\ tasks'[t] = [tasks[t] EXCEPT !.pc = "race"]
      /\ \A s \in DOMAIN tasks \ {t} : tasks'[s] = tasks[s]
      /\ DOMAIN envs' = DOMAIN envs /\ After(t) = F
      /\ \A e \in DOMAIN envs \ {tasks[t].env} : envs'[e] = envs[e]
  BY <1>2, <1>6 DEF SetTask, SetEnv, After
<1>8. \A m \in Node \ {n} : F.st[m] = Env(t).st[m] /\ F.started[m] = Env(t).started[m]
                            /\ F.calls[m] = Env(t).calls[m]
  BY <1>3, <1>4, <1>5 DEF Touches
<1>9. /\ F.st[n] = IF Env(t).st[n] = "absent" THEN "absent" ELSE "running"
      /\ F.started[n] = Env(t).started[n] + 1
      /\ F.calls[n] = Env(t).calls[n] + 1
  BY <1>3, <1>4, <1>5
<1>10. chains' = chains \cup {NewChain(t)}
  BY <1>2, <1>3 DEF NewChain
<1> QED
  BY <1>2, <1>7, <1>8, <1>9, <1>10 DEF BeginStep

\* Beginning a standard node keeps the invariant.
LEMMA BeginKeeps ==
    ASSUME RInv, IInv', NEW t \in DOMAIN tasks, BeginStep(t)
    PROVE  RInv'
<1> DEFINE n == tasks[t].node
           v == tasks[t].env
<1>a. /\ TypeOK /\ TaskOK /\ TypeOK' /\ TaskOK' /\ ChainOK
      /\ tasks \in Seq(Task) /\ envs \in Seq(ExecutionState) /\ tasks' \in Seq(Task)
      /\ envs' \in Seq(ExecutionState) /\ tasks # <<>>
      /\ NodeIds(graph) \subseteq Node /\ tasks[t] \in Task /\ v \in DOMAIN envs
      /\ \A m \in NodeIds(graph) : MaxRetries(m) \in Nat
  BY EdgeTypes DEF RInv, IInv, TypeOK, TaskOK, MaxRetries, NodeDef
<1>b. /\ graph' = graph /\ phase' = phase
      /\ \A m : KindOf(m)' = KindOf(m) /\ MaxRetries(m)' = MaxRetries(m)
      /\ Guarded' = Guarded /\ Guarded \subseteq NodeIds(graph)
      /\ \A m \in Guarded : KindOf(m) \in Standard
  BY GuardedNodes DEF BeginStep, KindOf, MaxRetries
<1>c. /\ DOMAIN tasks' = DOMAIN tasks
      /\ \A s \in DOMAIN tasks \ {t} : tasks'[s] = tasks[s]
      /\ tasks'[t].pc = "race" /\ tasks'[t].node = n /\ tasks'[t].env = v
      /\ tasks'[t].todo = tasks[t].todo /\ tasks[t].pc = "dispatch"
      /\ n \in NodeIds(graph) /\ KindOf(n) \in Standard
  BY <1>a DEF BeginStep, Task
<1>d. /\ DOMAIN envs' = DOMAIN envs
      /\ \A e \in DOMAIN envs \ {v} : envs'[e] = envs[e]
      /\ \A m \in Node \ {n} : /\ envs'[v].st[m] = envs[v].st[m]
                               /\ envs'[v].started[m] = envs[v].started[m]
                               /\ envs'[v].calls[m] = envs[v].calls[m]
      /\ envs'[v].st[n] = IF envs[v].st[n] = "absent" THEN "absent" ELSE "running"
      /\ envs'[v].started[n] = envs[v].started[n] + 1
      /\ envs'[v].calls[n] = envs[v].calls[n] + 1
      /\ envs[v].started[n] \in Nat /\ envs[v].calls[n] \in Nat
  <2>1. envs[v] \in ExecutionState /\ n \in Node
    BY <1>a, <1>c
  <2> QED
    BY <2>1 DEF BeginStep, After, Env, ExecutionState
<1>e. \A s \in DOMAIN tasks : s # t => tasks[s].pc \notin Sync
  BY DEF BeginStep, RInv, CpuHead
<1> DEFINE c0 == NewChain(t)
<1>f. /\ chains' = chains \cup {c0}
      /\ c0.env = v /\ c0.node = n /\ c0.start = envs[v].started[n] + 1
      /\ c0.attempt = 0 /\ c0.pc = "call" /\ c0.waiter = t
  BY DEF BeginStep, NewChain, Env
<1> HIDE DEF c0
<1>1. CpuHead'
  BY <1>c, <1>e DEF CpuHead, Sync
<1>2. TasksFit'
  <2>1. FitsTask(tasks'[t])
    BY <1>c DEF FitsTask, RInv, TasksFit
  <2>2. \A s \in DOMAIN tasks : FitsTask(tasks'[s])
    BY <1>c, <2>1 DEF RInv, TasksFit
  <2>3. \A s \in DOMAIN tasks : FitsTask(tasks[s])'
    BY <1>b, <2>2 DEF FitsTask
  <2>4. tasks'[1].env = 1
    BY <1>a, <1>c DEF RInv, TasksFit
  <2>5. /\ tasks' = <<>> <=> phase' \in {"idle", "invalid"}
        /\ envs' = <<>> <=> phase' \in {"idle", "invalid"}
    BY <1>a, <1>b, <1>c, <1>d DEF RInv, TasksFit
  <2> QED
    BY <1>c, <2>3, <2>4, <2>5 DEF TasksFit
<1>g. n \in Guarded => /\ envs[v].st[n] = "pending" /\ envs[v].started[n] = 0
                       /\ \A s \in DOMAIN tasks : ~Racing(s, v, n)
  <2> SUFFICES ASSUME n \in Guarded
               PROVE  /\ envs[v].st[n] = "pending" /\ envs[v].started[n] = 0
                      /\ \A s \in DOMAIN tasks : ~Racing(s, v, n)
    OBVIOUS
  <2>1. envs[v].st[n] = "pending"
    BY <1>c DEF RInv, GuardedOK, Env
  <2>2. envs[v].started[n] = 0
    BY <1>a, <2>1 DEF RInv, GuardedOK
  <2>3. \A s \in DOMAIN tasks : ~Racing(s, v, n)
    BY <2>1 DEF RInv, GuardedOK, Racing, Env
  <2> QED
    BY <2>1, <2>2, <2>3
<1>3. GuardedOK'
  <2>1. ASSUME NEW s \in DOMAIN tasks, tasks'[s].node \in Guarded
        PROVE  /\ tasks'[s].pc = "dispatch" => envs'[tasks'[s].env].st[tasks'[s].node] = "pending"
               /\ tasks'[s].pc = "race" => envs'[tasks'[s].env].st[tasks'[s].node] = "running"
    <3>1. CASE s = t
      BY <1>c, <1>d, <1>g, <2>1, <3>1
    <3>2. CASE s # t
      <4>1. tasks'[s] = tasks[s] /\ tasks[s].env \in DOMAIN envs /\ tasks[s].pc # "dispatch"
        BY <1>a, <1>c, <1>e, <3>2 DEF TaskOK, Sync
      <4>2. tasks[s].pc = "race" => envs[tasks[s].env].st[tasks[s].node] = "running"
        BY <2>1, <4>1 DEF RInv, GuardedOK, Env
      <4>3. tasks[s].node \in Node
        BY <1>a, <1>b, <2>1, <4>1
      <4>4. ~(tasks[s].env = v /\ tasks[s].node = n)
               => envs'[tasks[s].env].st[tasks[s].node] = envs[tasks[s].env].st[tasks[s].node]
        <5> HIDE DEF n, v
        <5>1. CASE tasks[s].env = v /\ tasks[s].node # n
          BY <1>d, <4>3, <5>1
        <5>2. CASE tasks[s].env # v
          BY <1>d, <4>1, <5>2
        <5> QED
          BY <5>1, <5>2
      <4>5. envs[v].st[n] # "absent" => envs'[v].st[n] = "running"
        BY <1>d
      <4> HIDE DEF n, v
      <4> QED
        BY <4>1, <4>2, <4>4, <4>5
    <3> QED
      BY <3>1, <3>2
  <2>2. ASSUME NEW e \in DOMAIN envs, NEW m \in Guarded
        PROVE  /\ \A r, s \in DOMAIN tasks : Racing(r, e, m)' /\ Racing(s, e, m)' => r = s
               /\ envs'[e].st[m] = "running" => \E s \in DOMAIN tasks : Racing(s, e, m)'
               /\ envs'[e].started[m] <= 1
               /\ envs'[e].st[m] \in {"absent", "pending"} => envs'[e].started[m] = 0
    <3>1. \A s \in DOMAIN tasks : s # t => (Racing(s, e, m)' <=> Racing(s, e, m))
      BY <1>c DEF Racing
    <3>2. Racing(t, e, m)' <=> e = v /\ m = n
      BY <1>c DEF Racing
    <3>3. ~Racing(t, e, m)
      BY <1>c DEF Racing
    <3>4. CASE e = v /\ m = n
      BY <1>d, <1>g, <3>1, <3>2, <3>4
    <3>5. CASE ~(e = v /\ m = n)
      <4>1. envs'[e].st[m] = envs[e].st[m] /\ envs'[e].started[m] = envs[e].started[m]
        BY <1>a, <1>b, <1>d, <3>5
      <4> QED
        BY <3>1, <3>2, <3>3, <3>5, <4>1 DEF RInv, GuardedOK
    <3> QED
      BY <3>4, <3>5
  <2>3. \A s \in DOMAIN tasks : Env(s)' = envs'[tasks'[s].env]
    BY DEF Env
  <2> HIDE DEF n, v
  <2> QED
    BY <1>b, <1>c, <1>d, <2>1, <2>2, <2>3 DEF GuardedOK
<1>4. SettledOK'
  <2>1. \A s \in DOMAIN tasks : \A m : Executes(s, m) => Executes(s, m)'
    BY <1>c DEF Executes, Executing
  <2>2. SomeThrew => SomeThrew'
    BY <1>c DEF SomeThrew
  <2>a. 1 \in DOMAIN tasks
    BY <1>a
  <2>b. tasks[1].env = 1 /\ tasks[1].env \in DOMAIN envs
    BY <1>a, <2>a DEF RInv, TasksFit, TaskOK
  <2>3. tasks'[1].todo = tasks[1].todo /\ 1 \in DOMAIN tasks /\ 1 \in DOMAIN envs
    BY <1>c, <2>a, <2>b
  <2>4. \A m \in NodeIds(graph) :
          \/ envs'[1].st[m] = envs[1].st[m]
          \/ v = 1 /\ m = n /\ envs'[1].st[m] = "running"
    BY <1>a, <1>d, <2>3
  <2>5. v = 1 => Executes(t, n)'
    BY <1>c DEF Executes, Executing
  <2>6. SUFFICES ASSUME NEW m \in NodeIds(graph)
                 PROVE  /\ envs'[1].st[m] # "absent"
                        /\ envs'[1].st[m] = "failed" => SomeThrew'
                        /\ \/ envs'[1].st[m] \in {"completed", "skipped"}
                           \/ m \in tasks'[1].todo
                           \/ \E s \in DOMAIN tasks' : Executes(s, m)'
                           \/ SomeThrew'
    BY <1>b DEF SettledOK
  <2>7. /\ envs[1].st[m] # "absent"
        /\ envs[1].st[m] = "failed" => SomeThrew
        /\ \/ envs[1].st[m] \in {"completed", "skipped"}
           \/ m \in tasks[1].todo
           \/ \E s \in DOMAIN tasks : Executes(s, m)
           \/ SomeThrew
    BY <1>a DEF RInv, SettledOK
  <2>8. CASE envs'[1].st[m] = envs[1].st[m]
    <3>1. m \in tasks[1].todo => m \in tasks'[1].todo
      BY <2>3
    <3>2. (\E s \in DOMAIN tasks : Executes(s, m)) => \E s \in DOMAIN tasks' : Executes(s, m)'
      BY <1>c, <2>1
    <3> HIDE DEF n, v
    <3> QED
      BY <2>2, <2>7, <2>8, <3>1, <3>2
  <2>9. CASE v = 1 /\ m = n /\ envs'[1].st[m] = "running"
    <3>1. Executes(t, m)' /\ t \in DOMAIN tasks'
      BY <1>c, <2>5, <2>9
    <3> HIDE DEF n, v
    <3> QED
      BY <2>9, <3>1
  <2> QED
    BY <2>4, <2>8, <2>9
<1>5. ResolvedSettled'
  BY <1>b, <1>c DEF RInv, IInv, ResolvedDone, ResolvedSettled
<1>6. ChainsFit'
  <2>1. ASSUME NEW c \in chains
        PROVE  /\ c.waiter # 0 => tasks'[c.waiter] = tasks[c.waiter]
               /\ c.start \in 1..envs'[c.env].started[c.node]
               /\ c.env = v /\ c.node = n => c.start # c0.start
    <3>1. /\ c.waiter # 0 => c.waiter \in DOMAIN tasks \ {t}
          /\ c.env \in DOMAIN envs /\ c.node \in Node
          /\ c.start \in 1..envs[c.env].started[c.node]
      BY <1>a, <1>c DEF ChainOK, RInv, ChainsFit
    <3>2. envs[c.env].started[c.node] \in Nat /\ envs[v].started[n] \in Nat
      <4>1. envs[c.env] \in ExecutionState
        BY <1>a, <3>1
      <4>2. envs[c.env].started[c.node] \in Nat
        BY <3>1, <4>1 DEF ExecutionState
      <4> QED
        BY <1>d, <4>2
    <3>3. /\ ~(c.env = v /\ c.node = n) =>
               envs'[c.env].started[c.node] = envs[c.env].started[c.node]
          /\ c.env = v /\ c.node = n =>
               envs'[c.env].started[c.node] = envs[c.env].started[c.node] + 1
      <4>1. CASE c.env # v
        BY <1>d, <3>1, <4>1
      <4>2. CASE c.env = v /\ c.node # n
        BY <1>d, <3>1, <4>2
      <4>3. CASE c.env = v /\ c.node = n
        BY <1>d, <4>3
      <4> QED
        BY <4>1, <4>2, <4>3
    <3> HIDE DEF n, v
    <3>6. c.start \in 1..envs'[c.env].started[c.node]
      BY <3>1, <3>2, <3>3
    <3>7. c.env = v /\ c.node = n => c.start # c0.start
      BY <1>f, <3>1, <3>2
    <3> QED
      BY <1>c, <3>1, <3>6, <3>7
  <2>2. /\ c0.waiter # 0 => tasks'[c0.waiter].node = c0.node /\ tasks'[c0.waiter].env = c0.env
        /\ KindOf(c0.node) \in Standard
        /\ c0.start \in 1..envs'[c0.env].started[c0.node]
        /\ c0.attempt <= MaxRetries(c0.node)
    <3>1. MaxRetries(n) \in Nat
      BY <1>a, <1>c
    <3>2. envs'[v].started[n] = envs[v].started[n] + 1 /\ envs[v].started[n] \in Nat
      BY <1>d
    <3>3. KindOf(n) \in Standard /\ tasks'[t].node = n /\ tasks'[t].env = v
      BY <1>c
    <3> HIDE DEF n, v
    <3> QED
      BY <1>f, <3>1, <3>2, <3>3
  <2>3. \A c \in chains' :
          /\ c.waiter # 0 => tasks'[c.waiter].node = c.node /\ tasks'[c.waiter].env = c.env
          /\ KindOf(c.node) \in Standard
          /\ c.start \in 1..envs'[c.env].started[c.node]
          /\ c.attempt <= MaxRetries(c.node)
          /\ c.pc = "sleep" => c.attempt < MaxRetries(c.node)
    BY <1>f, <2>1, <2>2 DEF RInv, ChainsFit
  <2>4. \A c, d \in chains' :
          c.env = d.env /\ c.node = d.node /\ c.start = d.start => c = d
    BY <1>f, <2>1 DEF RInv, ChainsFit
  <2> QED
    BY <1>b, <2>3, <2>4 DEF ChainsFit
<1>7. CallsCounted'
  <2>1. ASSUME NEW e \in DOMAIN envs, NEW m \in NodeIds(graph), KindOf(m) \in Standard
        PROVE  envs'[e].calls[m] <= Cardinality(Attempts(e, m)')
    <3>1. CASE e = v /\ m = n
      <4> DEFINE x == <<envs[v].started[n] + 1, 0>>
      <4>1. x \in Attempts(e, m)' \ Attempts(e, m)
        <5>1. x \notin Attempts(e, m)
          <6>1. envs[v].started[n] \in Nat
            BY <1>d
          <6> HIDE DEF n, v
          <6> QED
            BY <3>1, <6>1 DEF Attempts
        <5>0. MaxRetries(m) \in Nat /\ envs'[e].started[m] = envs[v].started[n] + 1
          BY <1>a, <1>d, <3>1
        <5>2. x \in (1..envs'[e].started[m]) \X (0..MaxRetries(m))
          <6>1. envs[v].started[n] \in Nat
            BY <1>d
          <6> HIDE DEF n, v
          <6>2. envs[v].started[n] + 1 \in 1..envs'[e].started[m] /\ 0 \in 0..MaxRetries(m)
            BY <5>0, <6>1
          <6> QED
            BY <6>2
        <5>3. \A c \in chains' : c.env = e /\ c.node = m /\ c.start = x[1] => x[2] <= c.attempt
          <6>1. \A c \in chains : c.env = e /\ c.node = m => c.start # x[1]
            <7>1. \A c \in chains : c.start \in 1..envs[c.env].started[c.node]
              BY DEF RInv, ChainsFit
            <7>2. x[1] = envs[v].started[n] + 1 /\ envs[v].started[n] \in Nat
              BY <1>d
            <7> HIDE DEF x, n, v
            <7> QED
              BY <3>1, <7>1, <7>2
          <6> QED
            BY <1>f, <6>1
        <5> QED
          BY <1>b, <5>1, <5>2, <5>3 DEF Attempts
      <4>2. Attempts(e, m) \subseteq Attempts(e, m)'
        <5> SUFFICES ASSUME NEW y \in Attempts(e, m)
                     PROVE  y \in Attempts(e, m)'
          OBVIOUS
        <5>1. /\ y \in (1..envs[e].started[m]) \X (0..MaxRetries(m))
              /\ \A c \in chains : c.env = e /\ c.node = m /\ c.start = y[1] => y[2] <= c.attempt
          BY DEF Attempts
        <5>2. y \in (1..envs'[e].started[m]) \X (0..MaxRetries(m)) /\ y[1] # c0.start
          BY <1>d, <1>f, <3>1, <5>1
        <5> QED
          BY <1>b, <1>f, <5>1, <5>2 DEF Attempts
      <4>3. IsFiniteSet(Attempts(e, m)) /\ Cardinality(Attempts(e, m)) \in Nat
        BY AttemptsFinite
      <4>4. IsFiniteSet(Attempts(e, m)')
        BY <1>a, <1>b, <1>d, AttemptsFiniteAfter
      <4>5. Cardinality(Attempts(e, m)) + 1 <= Cardinality(Attempts(e, m)')
        BY <4>1, <4>2, <4>3, <4>4, OneMoreAttempt
      <4>6. Cardinality(Attempts(e, m)') \in Nat
        BY <4>4, FS_CardinalityType
      <4>7. envs[e].calls[m] <= Cardinality(Attempts(e, m))
        BY <2>1 DEF RInv, CallsCounted
      <4> QED
        BY <1>d, <3>1, <4>3, <4>5, <4>6, <4>7
    <3>2. CASE ~(e = v /\ m = n)
      <4>1. envs'[e].calls[m] = envs[e].calls[m] /\ envs'[e].started[m] = envs[e].started[m]
        BY <1>a, <1>d, <3>2
      <4>2. Attempts(e, m)' = Attempts(e, m)
        BY <1>b, <1>f, <3>2, <4>1 DEF Attempts
      <4> QED
        BY <2>1, <4>1, <4>2 DEF RInv, CallsCounted
    <3> QED
      BY <3>1, <3>2
  <2> QED
    BY <1>b, <1>d, <2>1 DEF CallsCounted
<1>8. RejectedOK'
  BY <1>a, <1>b, <1>c DEF RInv, RejectedOK
<1> QED
  BY <1>1, <1>2, <1>3, <1>4, <1>5, <1>6, <1>7, <1>8 DEF RInv

-----------------------------------------------------------------------------
(* A standard node is reported to the task that waits for it.              *)

\* Chain c reports its result or its error, or loses the race with its timer.
FinishStep(c) ==
    LET t == c.waiter
        n == c.node
    IN  /\ t # 0 /\ cpu = <<>>
        /\ DOMAIN tasks' = DOMAIN tasks
        /\ \A s \in DOMAIN tasks \ {t} : tasks'[s] = tasks[s]
        /\ tasks'[t].env = tasks[t].env /\ tasks'[t].todo = tasks[t].todo
        /\ DOMAIN envs' = DOMAIN envs
        /\ \A e \in DOMAIN envs : \A m \in Node :
             /\ envs'[e].started[m] = envs[e].started[m]
             /\ envs'[e].calls[m] = envs[e].calls[m]
             /\ envs'[e].st[m] = envs[e].st[m] \/ (e = c.env /\ m = n)
        /\ \/ tasks'[t].pc = "settled" /\ envs'[c.env].st[n] \in Settling \cup {"absent"}
           \/ /\ tasks'[t].pc = "threw" /\ envs'[c.env].st[n] \in {"failed", "absent"}
              /\ graph.node[n].onError \notin {"skip", "fallback"}
           \/ /\ tasks'[t].pc = "dispatch" /\ envs'[c.env].st[n] \in {"skipped", "absent"}
              /\ tasks'[t].node = graph.node[n].fallbackNodeId /\ tasks'[t].node # "none"
              /\ cpu' = <<t>>
        /\ envs'[c.env].st[n] = "absent" => envs[c.env].st[n] = "absent"
        /\ chains' \in {chains \ {c}, (chains \ {c}) \cup {[c EXCEPT !.waiter = 0]}}
        /\ UNCHANGED <<graph, phase>>

LEMMA FinishKeeps ==
    ASSUME RInv, IInv', NEW c \in chains, FinishStep(c)
    PROVE  RInv'
<1> DEFINE t == c.waiter
           n == c.node
           v == c.env
<1>a. /\ TypeOK /\ TaskOK /\ TypeOK' /\ TaskOK' /\ ChainOK /\ c \in Chain
      /\ tasks \in Seq(Task) /\ envs \in Seq(ExecutionState) /\ tasks' \in Seq(Task)
      /\ envs' \in Seq(ExecutionState) /\ chains \subseteq Chain
      /\ NodeIds(graph) \subseteq Node
  BY EdgeTypes DEF RInv, IInv, TypeOK
<1>b. /\ graph' = graph /\ phase' = phase
      /\ \A m : KindOf(m)' = KindOf(m) /\ MaxRetries(m)' = MaxRetries(m)
      /\ Guarded' = Guarded /\ Guarded \subseteq NodeIds(graph)
  BY GuardedNodes DEF FinishStep, KindOf, MaxRetries
<1>c. /\ t # 0 /\ t \in DOMAIN tasks /\ tasks[t].pc = "race" /\ tasks[t].node = n /\ tasks[t].env = v
      /\ v \in DOMAIN envs /\ n \in NodeIds(graph) /\ tasks # <<>>
  <2>1. t # 0
    BY DEF FinishStep
  <2>2. /\ t \in DOMAIN tasks /\ tasks[t].pc = "race"
        /\ v \in DOMAIN envs /\ n \in NodeIds(graph)
    BY <1>a, <2>1 DEF ChainOK
  <2>3. tasks[t].node = n /\ tasks[t].env = v
    BY <2>1 DEF RInv, ChainsFit
  <2> QED
    BY <1>a, <2>1, <2>2, <2>3
<1>d. /\ DOMAIN tasks' = DOMAIN tasks
      /\ \A s \in DOMAIN tasks \ {t} : tasks'[s] = tasks[s]
      /\ tasks'[t].env = v /\ tasks'[t].todo = tasks[t].todo
      /\ DOMAIN envs' = DOMAIN envs
      /\ \A e \in DOMAIN envs : \A m \in Node :
           /\ envs'[e].started[m] = envs[e].started[m]
           /\ envs'[e].calls[m] = envs[e].calls[m]
           /\ envs'[e].st[m] = envs[e].st[m] \/ (e = v /\ m = n)
      /\ envs'[v].st[n] = "absent" => envs[v].st[n] = "absent"
  BY <1>c DEF FinishStep
<1>e. \/ tasks'[t].pc = "settled" /\ envs'[v].st[n] \in Settling \cup {"absent"}
      \/ /\ tasks'[t].pc = "threw" /\ envs'[v].st[n] \in {"failed", "absent"}
         /\ graph.node[n].onError \notin {"skip", "fallback"}
      \/ /\ tasks'[t].pc = "dispatch" /\ envs'[v].st[n] \in {"skipped", "absent"}
         /\ tasks'[t].node = graph.node[n].fallbackNodeId /\ tasks'[t].node # "none"
         /\ cpu' = <<t>>
  BY DEF FinishStep
<1>f. \A s \in DOMAIN tasks : tasks[s].pc \notin Sync
  BY DEF FinishStep, RInv, CpuHead
<1>1. CpuHead'
  <2>1. tasks'[t].pc \in Sync => cpu' = <<t>>
    BY <1>e DEF Sync
  <2> HIDE DEF t
  <2> QED
    BY <1>d, <1>f, <2>1 DEF CpuHead
<1>2. TasksFit'
  <2>1. FitsTask(tasks'[t])
    <3>1. tasks'[t].todo \subseteq NodeIds(graph)
      BY <1>c, <1>d DEF RInv, TasksFit, FitsTask
    <3> QED
      BY <1>c, <1>e, <3>1 DEF FitsTask
  <2>2. \A s \in DOMAIN tasks : FitsTask(tasks'[s])
    BY <1>d, <2>1 DEF RInv, TasksFit
  <2>3. \A s \in DOMAIN tasks : FitsTask(tasks[s])'
    BY <1>b, <2>2 DEF FitsTask
  <2>4. tasks'[1].env = 1
    BY <1>c, <1>d, <1>a DEF RInv, TasksFit
  <2>5. /\ tasks' = <<>> <=> phase' \in {"idle", "invalid"}
        /\ envs' = <<>> <=> phase' \in {"idle", "invalid"}
    BY <1>a, <1>b, <1>c, <1>d DEF RInv, TasksFit
  <2> QED
    BY <1>d, <2>3, <2>4, <2>5 DEF TasksFit
<1>3. GuardedOK'
  <2>0. n \in Guarded => envs[v].st[n] = "running"
    BY <1>c DEF RInv, GuardedOK, Env
  <2>1. ASSUME NEW s \in DOMAIN tasks, tasks'[s].node \in Guarded
        PROVE  /\ tasks'[s].pc = "dispatch" => envs'[tasks'[s].env].st[tasks'[s].node] = "pending"
               /\ tasks'[s].pc = "race" => envs'[tasks'[s].env].st[tasks'[s].node] = "running"
    <3>1. CASE s = t
      <4>1. tasks'[t].pc # "dispatch"
        BY <1>c, <1>e, <2>1, <3>1 DEF Guarded, Rewritable
      <4> QED
        BY <1>e, <3>1, <4>1
    <3>2. CASE s # t
      <4>1. /\ tasks'[s] = tasks[s] /\ tasks[s].env \in DOMAIN envs /\ tasks[s].pc # "dispatch"
            /\ tasks[s].node \in Node
        BY <1>a, <1>b, <1>d, <1>f, <2>1, <3>2 DEF TaskOK, Sync
      <4>2. tasks[s].pc = "race" => envs[tasks[s].env].st[tasks[s].node] = "running"
        BY <2>1, <4>1 DEF RInv, GuardedOK, Env
      <4>3. tasks[s].pc = "race" => ~(tasks[s].env = v /\ tasks[s].node = n)
        BY <1>c, <2>1, <3>2, <4>1 DEF RInv, GuardedOK, Racing
      <4> QED
        BY <1>d, <4>1, <4>2, <4>3
    <3> QED
      BY <3>1, <3>2
  <2>2. ASSUME NEW e \in DOMAIN envs, NEW m \in Guarded
        PROVE  /\ \A r, s \in DOMAIN tasks : Racing(r, e, m)' /\ Racing(s, e, m)' => r = s
               /\ envs'[e].st[m] = "running" => \E s \in DOMAIN tasks : Racing(s, e, m)'
               /\ envs'[e].started[m] <= 1
               /\ envs'[e].st[m] \in {"absent", "pending"} => envs'[e].started[m] = 0
    <3>1. \A s \in DOMAIN tasks : s # t => (Racing(s, e, m)' <=> Racing(s, e, m))
      BY <1>d DEF Racing
    <3>2. ~Racing(t, e, m)' /\ (Racing(t, e, m) => e = v /\ m = n)
      BY <1>c, <1>e DEF Racing
    <3>3. envs'[e].started[m] = envs[e].started[m] /\ envs[e].started[m] <= 1
      BY <1>a, <1>b, <1>d DEF RInv, GuardedOK
    <3>4. CASE e = v /\ m = n
      <4>1. envs'[e].st[m] \in {"completed", "skipped", "failed"}
        BY <1>d, <1>e, <2>0, <3>4 DEF Settling
      <4>2. \A r, s \in DOMAIN tasks : Racing(r, e, m) /\ Racing(s, e, m) => r = s
        BY DEF RInv, GuardedOK
      <4> QED
        BY <3>1, <3>2, <3>3, <4>1, <4>2
    <3>5. CASE ~(e = v /\ m = n)
      <4>1. envs'[e].st[m] = envs[e].st[m]
        BY <1>a, <1>b, <1>d, <3>5
      <4> QED
        BY <3>1, <3>2, <3>3, <3>5, <4>1 DEF RInv, GuardedOK
    <3> QED
      BY <3>4, <3>5
  <2> QED
    BY <1>b, <1>d, <2>1, <2>2 DEF GuardedOK, Env
<1>4. SettledOK'
  <2>1. SomeThrew => SomeThrew'
    <3> HIDE DEF t
    <3> QED
      BY <1>c, <1>d DEF SomeThrew
  <2>2. tasks'[1].todo = tasks[1].todo /\ 1 \in DOMAIN tasks /\ 1 \in DOMAIN envs
    <3>1. 1 \in DOMAIN tasks
      BY <1>a, <1>c
    <3>2. 1 \in DOMAIN envs
      BY <1>a, <1>c, <3>1 DEF RInv, TasksFit, TaskOK
    <3>3. tasks'[1].todo = tasks[1].todo
      BY <1>d, <3>1
    <3> QED
      BY <3>1, <3>2, <3>3
  <2>3. \A s \in DOMAIN tasks : \A m : Executes(s, m) => Executes(s, m)' \/ (v = 1 /\ m = n)
    BY <1>c, <1>d DEF Executes
  <2>4. tasks'[t].pc = "threw" => SomeThrew'
    BY <1>c, <1>d DEF SomeThrew
  <2> SUFFICES ASSUME NEW m \in NodeIds(graph)
               PROVE  /\ envs'[1].st[m] # "absent"
                      /\ envs'[1].st[m] = "failed" => SomeThrew'
                      /\ \/ envs'[1].st[m] \in Settling
                         \/ m \in tasks'[1].todo
                         \/ \E s \in DOMAIN tasks' : Executes(s, m)'
                         \/ SomeThrew'
    BY <1>b DEF SettledOK, Settling
  <2>5. /\ envs[1].st[m] # "absent"
        /\ envs[1].st[m] = "failed" => SomeThrew
        /\ \/ envs[1].st[m] \in Settling
           \/ m \in tasks[1].todo
           \/ \E s \in DOMAIN tasks : Executes(s, m)
           \/ SomeThrew
    BY <1>c DEF RInv, SettledOK, Settling
  <2>6. CASE v = 1 /\ m = n
    <3>1. envs'[1].st[m] # "absent"
      BY <1>d, <2>5, <2>6
    <3> QED
      BY <1>e, <2>4, <2>6, <3>1 DEF Settling
  <2>7. CASE ~(v = 1 /\ m = n)
    <3>1. envs'[1].st[m] = envs[1].st[m]
      BY <1>a, <1>d, <2>2, <2>7
    <3> QED
      BY <1>d, <2>1, <2>2, <2>3, <2>5, <2>7, <3>1
  <2> QED
    BY <2>6, <2>7
<1>5. ResolvedSettled'
  BY <1>b, <1>c DEF RInv, IInv, ResolvedDone, ResolvedSettled
<1>g. \A d \in chains' : \/ d \in chains /\ d # c
                         \/ /\ d = [c EXCEPT !.waiter = 0] /\ d.waiter = 0 /\ d.pc = c.pc
                            /\ d.env = c.env /\ d.node = c.node /\ d.start = c.start
                            /\ d.attempt = c.attempt
  BY <1>a DEF FinishStep, Chain
<1>6. ChainsFit'
  <2>1. ASSUME NEW d \in chains, d # c, d.waiter # 0
        PROVE  d.waiter \in DOMAIN tasks /\ tasks'[d.waiter] = tasks[d.waiter]
    BY <1>a, <1>c, <1>d, <2>1 DEF ChainOK
  <2>2. \A d \in chains : d.env \in DOMAIN envs /\ d.node \in Node
    BY <1>a DEF ChainOK
  <2>3. \A d \in chains :
          /\ d.waiter # 0 => tasks[d.waiter].node = d.node /\ tasks[d.waiter].env = d.env
          /\ KindOf(d.node) \in Standard
          /\ d.start \in 1..envs'[d.env].started[d.node]
          /\ d.attempt <= MaxRetries(d.node)
          /\ d.pc = "sleep" => d.attempt < MaxRetries(d.node)
    BY <1>d, <2>2 DEF RInv, ChainsFit
  <2>4. \A d \in chains' :
          /\ d.waiter # 0 => tasks'[d.waiter].node = d.node /\ tasks'[d.waiter].env = d.env
          /\ KindOf(d.node) \in Standard
          /\ d.start \in 1..envs'[d.env].started[d.node]
          /\ d.attempt <= MaxRetries(d.node)
          /\ d.pc = "sleep" => d.attempt < MaxRetries(d.node)
    BY <1>g, <2>1, <2>3
  <2>5. \A d, f \in chains' :
          d.env = f.env /\ d.node = f.node /\ d.start = f.start => d = f
    BY <1>g DEF RInv, ChainsFit
  <2> QED
    BY <1>b, <2>4, <2>5 DEF ChainsFit
<1>7. CallsCounted'
  <2>1. ASSUME NEW e \in DOMAIN envs, NEW m \in NodeIds(graph), KindOf(m) \in Standard
        PROVE  envs'[e].calls[m] <= Cardinality(Attempts(e, m)')
    <3>1. envs'[e].calls[m] = envs[e].calls[m] /\ envs'[e].started[m] = envs[e].started[m]
      BY <1>a, <1>d
    <3>2. Attempts(e, m) \subseteq Attempts(e, m)'
      BY <1>b, <1>g, <3>1 DEF Attempts
    <3>3. IsFiniteSet(Attempts(e, m)') /\ Cardinality(Attempts(e, m)') \in Nat
      BY <1>a, <1>b, <1>d, AttemptsFiniteAfter
    <3>4. Cardinality(Attempts(e, m)) <= Cardinality(Attempts(e, m)')
      BY <3>2, <3>3, FS_Subset
    <3>5. /\ envs[e].calls[m] <= Cardinality(Attempts(e, m))
          /\ Cardinality(Attempts(e, m)) \in Nat /\ envs[e].calls[m] \in Nat
      <4>1. envs[e] \in ExecutionState /\ m \in Node
        BY <1>a
      <4>2. envs[e].calls[m] \in Nat
        BY <4>1 DEF ExecutionState
      <4>3. envs[e].calls[m] <= Cardinality(Attempts(e, m))
        BY <2>1 DEF RInv, CallsCounted
      <4> QED
        BY <4>2, <4>3, AttemptsFinite
    <3> QED
      BY <3>1, <3>3, <3>4, <3>5
  <2> QED
    BY <1>b, <1>d, <2>1 DEF CallsCounted
<1>8. RejectedOK'
  <2>1. phase' = "rejected" => tasks' # <<>> /\ tasks'[1].pc = "threw"
    BY <1>a, <1>b, <1>c, <1>d DEF RInv, RejectedOK
  <2>2. ASSUME \A m \in NodeIds(graph) : KindOf(m) \in Standard
        PROVE  DOMAIN tasks' \subseteq {1} /\ (tasks'[1].pc = "threw" => Reason')
    <3>1. t = 1 /\ DOMAIN tasks \subseteq {1}
      BY <1>c, <2>2 DEF RInv, RejectedOK
    <3>2. v = 1
      BY <1>c, <3>1 DEF RInv, TasksFit
    <3>3. envs[v].st[n] # "absent"
      BY <1>c, <3>2 DEF RInv, SettledOK
    <3>4. tasks'[1].pc = "threw" => Reason'
      BY <1>b, <1>c, <1>d, <1>e, <3>1, <3>2, <3>3 DEF Reason
    <3> QED
      BY <1>d, <3>1, <3>4
  <2> QED
    BY <1>b, <2>1, <2>2 DEF RejectedOK
<1> QED
  BY <1>1, <1>2, <1>3, <1>4, <1>5, <1>6, <1>7, <1>8 DEF RInv

\* The execution state of the waiting task changes in the entry of n only.
Reports(c, F) ==
    /\ SetEnv(c.waiter, F)
    /\ \A m \in Node : /\ F.started[m] = envs[c.env].started[m] /\ F.calls[m] = envs[c.env].calls[m]
                       /\ F.st[m] = envs[c.env].st[m] \/ m = c.node
    /\ F.st[c.node] = "absent" => envs[c.env].st[c.node] = "absent"

LEMMA ReportFinishes ==
    ASSUME RInv, NEW c \in chains, c.waiter # 0, cpu = <<>>, NEW T, NEW F,
           SetTask(c.waiter, T), Reports(c, F),
           T.env = tasks[c.waiter].env, T.todo = tasks[c.waiter].todo,
           \/ T.pc = "settled" /\ F.st[c.node] \in Settling \cup {"absent"}
           \/ /\ T.pc = "threw" /\ F.st[c.node] \in {"failed", "absent"}
              /\ graph.node[c.node].onError \notin {"skip", "fallback"}
           \/ /\ T.pc = "dispatch" /\ F.st[c.node] \in {"skipped", "absent"}
              /\ T.node = graph.node[c.node].fallbackNodeId /\ T.node # "none"
              /\ cpu' = <<c.waiter>>,
           chains' \in {chains \ {c}, (chains \ {c}) \cup {[c EXCEPT !.waiter = 0]}},
           UNCHANGED <<graph, phase>>
    PROVE  FinishStep(c)
<1>1. /\ tasks \in Seq(Task) /\ envs \in Seq(ExecutionState) /\ c.waiter \in DOMAIN tasks
      /\ c.env \in DOMAIN envs /\ tasks[c.waiter].env = c.env
  BY DEF RInv, IInv, TypeOK, ChainOK, ChainsFit
<1>2. /\ DOMAIN tasks' = DOMAIN tasks /\ tasks'[c.waiter] = T
      /\ \A s \in DOMAIN tasks \ {c.waiter} : tasks'[s] = tasks[s]
      /\ DOMAIN envs' = DOMAIN envs /\ envs'[c.env] = F
      /\ \A e \in DOMAIN envs \ {c.env} : envs'[e] = envs[e]
  BY <1>1 DEF SetTask, SetEnv, Reports
<1>3. \A e \in DOMAIN envs : \A m \in Node :
         /\ envs'[e].started[m] = envs[e].started[m]
         /\ envs'[e].calls[m] = envs[e].calls[m]
         /\ envs'[e].st[m] = envs[e].st[m] \/ (e = c.env /\ m = c.node)
  BY <1>2 DEF Reports
<1>4. envs'[c.env].st[c.node] = "absent" => envs[c.env].st[c.node] = "absent"
  BY <1>2 DEF Reports
<1> QED
  BY <1>2, <1>3, <1>4 DEF FinishStep

\* The facts a report starts from.
LEMMA ReportFacts ==
    ASSUME RInv, NEW c \in chains, c.waiter # 0
    PROVE  /\ c.waiter \in DOMAIN tasks /\ tasks[c.waiter] \in Task
           /\ tasks[c.waiter].node = c.node /\ Env(c.waiter) = envs[c.env]
           /\ envs[c.env] \in ExecutionState /\ c.node \in Node
<1>1. /\ tasks \in Seq(Task) /\ envs \in Seq(ExecutionState) /\ c.waiter \in DOMAIN tasks
      /\ c.env \in DOMAIN envs /\ tasks[c.waiter].env = c.env /\ tasks[c.waiter].node = c.node
  BY DEF RInv, IInv, TypeOK, ChainOK, ChainsFit
<1>2. c.node \in Node
  BY EdgeTypes DEF RInv, IInv, TypeOK, ChainOK
<1> QED
  BY <1>1, <1>2 DEF Env

\* The execute of a standard node returns in time.
LEMMA ResultFinishes ==
    ASSUME RInv, NEW c \in chains, c.waiter # 0, CallResolves(c)
    PROVE  FinishStep(c)
<1> USE DEF RunVars
<1> DEFINE E == envs[c.env]
<1>1. /\ c.waiter \in DOMAIN tasks /\ tasks[c.waiter] \in Task
      /\ tasks[c.waiter].node = c.node /\ Env(c.waiter) = E
      /\ E \in ExecutionState /\ c.node \in Node
  BY ReportFacts
<1>2. /\ cpu = <<>> /\ chains' = chains \ {c} /\ UNCHANGED <<graph, phase>>
      /\ Goto(c.waiter, "settled")
  BY DEF CallResolves
<1>3. PICK v : SetEnv(c.waiter, markNodeCompleted(E, c.node, v))
  BY <1>1 DEF CallResolves
<1> DEFINE F == markNodeCompleted(E, c.node, v)
           T == [tasks[c.waiter] EXCEPT !.pc = "settled"]
<1>4. /\ Touches(E, F, c.node)
      /\ F.st[c.node] = IF E.st[c.node] = "absent" THEN "absent" ELSE "completed"
      /\ F.started = E.started /\ F.calls = E.calls
  <2> HIDE DEF E
  <2> QED
    BY <1>1, HelperFacts
<1>5. T.env = tasks[c.waiter].env /\ T.todo = tasks[c.waiter].todo /\ T.pc = "settled"
  BY <1>1 DEF Task
<1>6. SetTask(c.waiter, T)
  BY <1>2 DEF Goto
<1> HIDE DEF F, T
<1>7. Reports(c, F)
  BY <1>3, <1>4 DEF Reports, Touches, F
<1> QED
  BY <1>2, <1>4, <1>5, <1>6, <1>7, ReportFinishes DEF Settling

\* Its last attempt fails, or its timer fires: the error policy decides.
LEMMA ErrorFinishes ==
    ASSUME RInv, NEW c \in chains, c.waiter # 0, RetriesExhausted(c) \/ NodeTimeout(c)
    PROVE  FinishStep(c)
<1> USE DEF RunVars
<1> DEFINE t == c.waiter
           n == c.node
           E == envs[c.env]
<1>1. /\ t \in DOMAIN tasks /\ tasks[t] \in Task
      /\ tasks[t].node = n /\ Env(t) = E
      /\ E \in ExecutionState /\ n \in Node
  BY ReportFacts
<1>2. /\ cpu = <<>> /\ UNCHANGED <<graph, phase>> /\ handleNodeError(t)
      /\ chains' \in {chains \ {c}, (chains \ {c}) \cup {[c EXCEPT !.waiter = 0]}}
  <2>1. CASE RetriesExhausted(c)
    BY <2>1 DEF RetriesExhausted
  <2>2. CASE NodeTimeout(c)
    BY <2>2 DEF NodeTimeout
  <2> QED
    BY <2>1, <2>2
<1> DEFINE G(s) == SetStatus(E, n, s)
           T(p) == [tasks[t] EXCEPT !.pc = p]
           D(m) == [tasks[t] EXCEPT !.pc = "dispatch", !.node = m]
<1>3. \A s : /\ \A m \in Node \ {n} : G(s).st[m] = E.st[m]
             /\ G(s).st[n] = IF E.st[n] = "absent" THEN "absent" ELSE s
             /\ G(s).started = E.started /\ G(s).calls = E.calls
  <2> HIDE DEF E, n, t, T, D
  <2> QED
    BY <1>1, HelperFacts
<1>4. /\ \A p : T(p).pc = p /\ T(p).env = tasks[t].env /\ T(p).todo = tasks[t].todo
      /\ \A m : /\ D(m).pc = "dispatch" /\ D(m).node = m
                /\ D(m).env = tasks[t].env /\ D(m).todo = tasks[t].todo
  BY <1>1 DEF Task
<1>5. \A s \in {"failed", "skipped"} : SetEnv(t, G(s)) => Reports(c, G(s))
  BY <1>3 DEF Reports
<1>6. CASE FailNode(t)
  <2>1. SetTask(t, T("threw")) /\ SetEnv(t, G("failed")) /\ OnError(t) \notin {"skip", "fallback"}
    BY <1>1, <1>6 DEF FailNode, Goto, markNodeFailed
  <2>2. G("failed").st[n] \in {"failed", "absent"}
    BY <1>3
  <2>3. graph.node[n].onError \notin {"skip", "fallback"}
    BY <1>1, <2>1 DEF OnError
  <2> HIDE DEF G, T
  <2> QED
    BY <1>2, <1>4, <1>5, <2>1, <2>2, <2>3, ReportFinishes
<1>7. CASE NoFallback(t)
  <2>1. SetTask(t, T("settled")) /\ SetEnv(t, G("skipped"))
    BY <1>1, <1>7 DEF NoFallback, Goto, markNodeSkipped
  <2>2. G("skipped").st[n] \in Settling \cup {"absent"}
    BY <1>3 DEF Settling
  <2> HIDE DEF G, T
  <2> QED
    BY <1>2, <1>4, <1>5, <2>1, <2>2, ReportFinishes
<1>8. CASE RunFallback(t)
  <2> DEFINE f == graph.node[n].fallbackNodeId
  <2>1. SetTask(t, D(f)) /\ SetEnv(t, G("skipped")) /\ f # "none" /\ cpu' = <<t>>
    BY <1>1, <1>8 DEF RunFallback, FallbackOf, markNodeSkipped
  <2>2. G("skipped").st[n] \in {"skipped", "absent"}
    BY <1>3
  <2>3. D(f).node = f /\ D(f).pc = "dispatch" /\ D(f).env = tasks[t].env /\ D(f).todo = tasks[t].todo
    BY <1>4
  <2> HIDE DEF G, D
  <2> QED
    BY <1>2, <1>5, <2>1, <2>2, <2>3, ReportFinishes
<1>9. CASE SkipFailedNode(t)
  <2>1. SetTask(t, T("settled"))
    BY <1>9 DEF SkipFailedNode, Goto
  <2>2. PICK v : SetEnv(t, IF E.st[n] = "absent" THEN E
                           ELSE [markNodeSkipped(E, n) EXCEPT !.out[n] = v])
    BY <1>1, <1>9 DEF SkipFailedNode
  <2> DEFINE F == IF E.st[n] = "absent" THEN E ELSE [markNodeSkipped(E, n) EXCEPT !.out[n] = v]
  <2>3. /\ \A m \in Node \ {n} : F.st[m] = E.st[m]
        /\ F.st[n] = IF E.st[n] = "absent" THEN "absent" ELSE "skipped"
        /\ F.started = E.started /\ F.calls = E.calls
    BY <1>1 DEF markNodeSkipped, SetStatus, ExecutionState
  <2>4. SetEnv(t, F)
    BY <2>2
  <2> HIDE DEF T, F
  <2>5. Reports(c, F)
    BY <2>3, <2>4 DEF Reports
  <2> QED
    BY <1>2, <1>4, <2>1, <2>3, <2>5, ReportFinishes DEF Settling
<1> QED
  BY <1>2, <1>6, <1>7, <1>8, <1>9 DEF handleNodeError

-----------------------------------------------------------------------------
(* The steps of a chain nobody waits for yet, or nobody waits for any more. *)

\* Chain c goes on as one of the set D, or ends (D is empty).
RetryStep(c, D) ==
    /\ UNCHANGED <<graph, phase, tasks, cpu, budget>>
    /\ chains' = (chains \ {c}) \cup D
    /\ \A d \in D :
         /\ d.env = c.env /\ d.node = c.node /\ d.start = c.start /\ d.waiter = c.waiter
         /\ d.attempt \in {c.attempt, c.attempt + 1}
         /\ d.attempt <= MaxRetries(c.node)
         /\ d.pc = "sleep" => d.attempt < MaxRetries(c.node)
    /\ \A d, f \in D : d = f
    /\ DOMAIN envs' = DOMAIN envs
    /\ \A e \in DOMAIN envs : \A m \in Node :
         /\ envs'[e].st[m] = envs[e].st[m] /\ envs'[e].started[m] = envs[e].started[m]
         /\ \/ envs'[e].calls[m] = envs[e].calls[m]
            \/ /\ e = c.env /\ m = c.node /\ envs'[e].calls[m] = envs[e].calls[m] + 1
               /\ \E d \in D : d.attempt = c.attempt + 1

LEMMA RetryStepKeeps ==
    ASSUME RInv, IInv', NEW c \in chains, NEW D, RetryStep(c, D)
    PROVE  RInv'
<1>a. /\ TypeOK /\ TaskOK /\ TypeOK' /\ ChainOK /\ c \in Chain /\ c.attempt \in Nat
      /\ tasks \in Seq(Task) /\ envs \in Seq(ExecutionState)
      /\ NodeIds(graph) \subseteq Node
      /\ \A m \in NodeIds(graph) : MaxRetries(m) \in Nat
  BY EdgeTypes DEF RInv, IInv, TypeOK, MaxRetries, NodeDef, Chain
<1>b. /\ graph' = graph /\ phase' = phase /\ tasks' = tasks /\ cpu' = cpu
      /\ \A m : KindOf(m)' = KindOf(m) /\ MaxRetries(m)' = MaxRetries(m)
      /\ Guarded' = Guarded /\ Guarded \subseteq NodeIds(graph)
      /\ checkBudget' = checkBudget
  BY GuardedNodes DEF RetryStep, KindOf, MaxRetries, checkBudget
<1>c. /\ DOMAIN envs' = DOMAIN envs
      /\ \A e \in DOMAIN envs : \A m \in NodeIds(graph) :
           envs'[e].st[m] = envs[e].st[m] /\ envs'[e].started[m] = envs[e].started[m]
  BY <1>a DEF RetryStep
<1>d. tasks # <<>> => 1 \in DOMAIN envs
  <2>1. tasks # <<>> => 1 \in DOMAIN tasks
    BY <1>a
  <2> QED
    BY <1>a, <2>1 DEF RInv, TasksFit, TaskOK
<1>1. CpuHead'
  BY <1>b DEF RInv, CpuHead
<1>2. TasksFit'
  <2>1. \A t \in DOMAIN tasks : FitsTask(tasks[t])'
    BY <1>b DEF RInv, TasksFit, FitsTask
  <2>2. envs' = <<>> <=> envs = <<>>
    BY <1>c, IInv' DEF IInv, TypeOK, RInv
  <2> QED
    BY <1>b, <2>1, <2>2 DEF RInv, TasksFit
<1>3. GuardedOK'
  <2>1. \A t \in DOMAIN tasks : tasks[t].env \in DOMAIN envs
    BY <1>a DEF TaskOK
  <2>2. \A t, e, m : Racing(t, e, m)' <=> Racing(t, e, m)
    BY <1>b DEF Racing
  <2>3. \A t \in DOMAIN tasks' :
           tasks'[t].node \in Guarded =>
              /\ tasks'[t].pc = "dispatch" => envs'[tasks'[t].env].st[tasks'[t].node] = "pending"
              /\ tasks'[t].pc = "race" => envs'[tasks'[t].env].st[tasks'[t].node] = "running"
    BY <1>b, <1>c, <2>1 DEF RInv, GuardedOK, Env
  <2>4. \A e \in DOMAIN envs' : \A n \in Guarded :
         /\ \A s, t \in DOMAIN tasks' : Racing(s, e, n)' /\ Racing(t, e, n)' => s = t
         /\ envs'[e].st[n] = "running" => \E t \in DOMAIN tasks' : Racing(t, e, n)'
         /\ envs'[e].started[n] <= 1
         /\ envs'[e].st[n] \in {"absent", "pending"} => envs'[e].started[n] = 0
    BY <1>b, <1>c, <2>2 DEF RInv, GuardedOK
  <2> QED
    BY <1>b, <2>3, <2>4 DEF GuardedOK, Env
<1>4. SettledOK'
  <2>1. \A t, n : Executes(t, n)' <=> Executes(t, n)
    BY <1>b DEF Executes
  <2>2. SomeThrew' <=> SomeThrew
    BY <1>b DEF SomeThrew
  <2> QED
    BY <1>b, <1>c, <1>d, <2>1, <2>2 DEF RInv, SettledOK
<1>5. ResolvedSettled'
  <2>1. phase = "resolved" => tasks # <<>>
    BY DEF RInv, TasksFit
  <2> QED
    BY <1>b, <1>c, <1>d, <2>1 DEF RInv, ResolvedSettled
<1>6. ChainsFit'
  <2>1. \A d \in chains :
          /\ d.waiter # 0 => tasks'[d.waiter].node = d.node /\ tasks'[d.waiter].env = d.env
          /\ KindOf(d.node) \in Standard
          /\ d.start \in 1..envs'[d.env].started[d.node]
          /\ d.attempt <= MaxRetries(d.node)
          /\ d.pc = "sleep" => d.attempt < MaxRetries(d.node)
    BY <1>a, <1>b, <1>c DEF RInv, ChainsFit, ChainOK
  <2>2. \A d \in chains' :
          /\ d.waiter # 0 => tasks'[d.waiter].node = d.node /\ tasks'[d.waiter].env = d.env
          /\ KindOf(d.node) \in Standard
          /\ d.start \in 1..envs'[d.env].started[d.node]
          /\ d.attempt <= MaxRetries(d.node)
          /\ d.pc = "sleep" => d.attempt < MaxRetries(d.node)
    BY <2>1 DEF RetryStep
  <2>3. \A d, f \in chains' :
          d.env = f.env /\ d.node = f.node /\ d.start = f.start => d = f
    BY DEF RetryStep, RInv, ChainsFit
  <2> QED
    BY <1>b, <2>2, <2>3 DEF ChainsFit
<1>7. CallsCounted'
  <2>1. ASSUME NEW e \in DOMAIN envs, NEW m \in NodeIds(graph), KindOf(m) \in Standard
        PROVE  envs'[e].calls[m] <= Cardinality(Attempts(e, m)')
    <3>1. Attempts(e, m) \subseteq Attempts(e, m)'
      <4> SUFFICES ASSUME NEW x \in Attempts(e, m)
                   PROVE  x \in Attempts(e, m)'
        OBVIOUS
      <4>1. /\ x \in (1..envs'[e].started[m]) \X (0..MaxRetries(m)) /\ x[2] \in Nat
            /\ \A d \in chains : d.env = e /\ d.node = m /\ d.start = x[1] => x[2] <= d.attempt
        BY <1>c DEF Attempts
      <4>2. \A d \in chains' : d.env = e /\ d.node = m /\ d.start = x[1] => x[2] <= d.attempt
        BY <1>a, <4>1 DEF RetryStep
      <4> QED
        BY <1>b, <4>1, <4>2 DEF Attempts
    <3>2. IsFiniteSet(Attempts(e, m)') /\ Cardinality(Attempts(e, m)') \in Nat
      BY <1>a, <1>b, <1>c, AttemptsFiniteAfter
    <3>3. IsFiniteSet(Attempts(e, m)) /\ Cardinality(Attempts(e, m)) \in Nat
      BY AttemptsFinite
    <3>4. /\ envs[e].calls[m] <= Cardinality(Attempts(e, m)) /\ envs[e].calls[m] \in Nat
      <4>1. envs[e] \in ExecutionState /\ m \in Node
        BY <1>a
      <4>2. envs[e].calls[m] \in Nat
        BY <4>1 DEF ExecutionState
      <4> QED
        BY <2>1, <4>2 DEF RInv, CallsCounted
    <3>5. CASE envs'[e].calls[m] = envs[e].calls[m]
      <4>1. Cardinality(Attempts(e, m)) <= Cardinality(Attempts(e, m)')
        BY <3>1, <3>2, FS_Subset
      <4> QED
        BY <3>2, <3>3, <3>4, <3>5, <4>1
    <3>6. CASE envs'[e].calls[m] # envs[e].calls[m]
      <4>1. /\ e = c.env /\ m = c.node /\ envs'[e].calls[m] = envs[e].calls[m] + 1
            /\ \E d \in D : d.attempt = c.attempt + 1
        BY <1>a, <3>6 DEF RetryStep
      <4>2. PICK d \in D : d.attempt = c.attempt + 1
        BY <4>1
      <4> DEFINE x == <<c.start, c.attempt + 1>>
      <4>3. x \notin Attempts(e, m)
        BY <1>a, <4>1 DEF Attempts
      <4>4. x \in (1..envs'[e].started[m]) \X (0..MaxRetries(m))
        <5>1. c.start \in 1..envs'[e].started[m]
          BY <1>c, <4>1 DEF RInv, ChainsFit
        <5>2. c.attempt + 1 <= MaxRetries(m) /\ MaxRetries(m) \in Nat
          BY <1>a, <4>1, <4>2 DEF RetryStep
        <5> QED
          BY <1>a, <5>1, <5>2
      <4>5. \A f \in chains' : f.env = e /\ f.node = m /\ f.start = x[1] => x[2] <= f.attempt
        <5>1. \A f \in chains \ {c} : ~(f.env = e /\ f.node = m /\ f.start = c.start)
          BY <4>1 DEF RInv, ChainsFit
        <5>2. \A f \in D : f.attempt = c.attempt + 1
          BY <4>2 DEF RetryStep
        <5> QED
          BY <1>a, <5>1, <5>2 DEF RetryStep
      <4>6. x \in Attempts(e, m)'
        BY <1>b, <4>4, <4>5 DEF Attempts
      <4> HIDE DEF x
      <4>7. Cardinality(Attempts(e, m)) + 1 <= Cardinality(Attempts(e, m)')
        BY <3>1, <3>2, <3>3, <4>3, <4>6, OneMoreAttempt
      <4> QED
        BY <3>2, <3>3, <3>4, <4>1, <4>7
    <3> QED
      BY <3>5, <3>6
  <2> QED
    BY <1>b, <1>c, <2>1 DEF CallsCounted
<1>8. RejectedOK'
  <2>1. tasks # <<>> /\ Reason => Reason'
    BY <1>b, <1>c, <1>d DEF Reason
  <2> QED
    BY <1>b, <2>1 DEF RInv, RejectedOK
<1> QED
  BY <1>1, <1>2, <1>3, <1>4, <1>5, <1>6, <1>7, <1>8 DEF RInv

\* An attempt fails and is to be repeated, the repetition is called, or a
\* chain that lost its race ends.
LEMMA RetrySteps ==
    ASSUME RInv, NEW c \in chains,
           \/ CallRejected(c) \/ BackoffEnds(c)
           \/ c.waiter = 0 /\ (CallResolves(c) \/ RetriesExhausted(c))
    PROVE  \E D : RetryStep(c, D)
<1> USE DEF RunVars
<1>1. /\ c \in Chain /\ c.attempt \in Nat /\ envs \in Seq(ExecutionState) /\ c.env \in DOMAIN envs
      /\ c.node \in Node /\ envs[c.env] \in ExecutionState
      /\ c.attempt <= MaxRetries(c.node) /\ MaxRetries(c.node) \in Nat
      /\ c.pc = "sleep" => c.attempt < MaxRetries(c.node)
  BY EdgeTypes DEF RInv, IInv, TypeOK, MaxRetries, NodeDef, Chain, ChainOK, ChainsFit
<1>2. CASE c.waiter = 0 /\ (CallResolves(c) \/ RetriesExhausted(c))
  <2>1. chains' = (chains \ {c}) \cup {} /\ UNCHANGED <<graph, phase, tasks, cpu, budget, envs>>
    BY <1>2 DEF CallResolves, RetriesExhausted
  <2>2. RetryStep(c, {})
    BY <2>1 DEF RetryStep
  <2> QED
    BY <2>2
<1>3. CASE CallRejected(c)
  <2> DEFINE d == [c EXCEPT !.pc = "sleep"]
             E == envs[c.env]
             F == IF E.st[c.node] = "absent" THEN E
                  ELSE [E EXCEPT !.retryCount[c.node] = c.attempt + 1]
  <2>1. /\ chains' = (chains \ {c}) \cup {d} /\ UNCHANGED <<graph, phase, tasks, cpu, budget>>
        /\ envs' = [envs EXCEPT ![c.env] = F] /\ c.attempt < MaxRetries(c.node)
    BY <1>1, <1>3 DEF CallRejected
  <2>2. /\ d.env = c.env /\ d.node = c.node /\ d.start = c.start /\ d.waiter = c.waiter
        /\ d.attempt = c.attempt
    BY <1>1 DEF Chain
  <2>3. F.st = E.st /\ F.started = E.started /\ F.calls = E.calls
    BY <1>1 DEF ExecutionState
  <2> HIDE DEF d, F
  <2>4. /\ DOMAIN envs' = DOMAIN envs
        /\ \A e \in DOMAIN envs : \A m \in Node :
             /\ envs'[e].st[m] = envs[e].st[m] /\ envs'[e].started[m] = envs[e].started[m]
             /\ envs'[e].calls[m] = envs[e].calls[m]
    BY <1>1, <2>1, <2>3
  <2>5. RetryStep(c, {d})
    BY <1>1, <2>1, <2>2, <2>4 DEF RetryStep
  <2> QED
    BY <2>5
<1>4. CASE BackoffEnds(c)
  <2> DEFINE d == [c EXCEPT !.pc = "call", !.attempt = @ + 1]
             E == envs[c.env]
             F == Called(E, c.node)
  <2>1. /\ chains' = (chains \ {c}) \cup {d} /\ UNCHANGED <<graph, phase, tasks, cpu, budget>>
        /\ envs' = [envs EXCEPT ![c.env] = F] /\ c.pc = "sleep"
    BY <1>1, <1>4 DEF BackoffEnds
  <2>2. /\ d.env = c.env /\ d.node = c.node /\ d.start = c.start /\ d.waiter = c.waiter
        /\ d.attempt = c.attempt + 1 /\ d.pc = "call"
    BY <1>1 DEF Chain
  <2>3. F.st = E.st /\ F.started = E.started /\ F.calls = [E.calls EXCEPT ![c.node] = @ + 1]
        /\ E.calls \in [Node -> Nat]
    BY <1>1 DEF ExecutionState, Called
  <2> HIDE DEF d, F
  <2>4. /\ DOMAIN envs' = DOMAIN envs
        /\ \A e \in DOMAIN envs : \A m \in Node :
             /\ envs'[e].st[m] = envs[e].st[m] /\ envs'[e].started[m] = envs[e].started[m]
             /\ \/ envs'[e].calls[m] = envs[e].calls[m]
                \/ e = c.env /\ m = c.node /\ envs'[e].calls[m] = envs[e].calls[m] + 1
    BY <1>1, <2>1, <2>3
  <2>5. RetryStep(c, {d})
    BY <1>1, <2>1, <2>2, <2>4 DEF RetryStep
  <2> QED
    BY <2>5
<1> QED
  BY <1>2, <1>3, <1>4

\* A step of a chain reports to its waiter or is a matter of its retries.
LEMMA ChainStepKinds ==
    ASSUME RInv, NEW c \in chains, ChainStep(c) \/ NodeTimeout(c)
    PROVE  FinishStep(c) \/ \E D : RetryStep(c, D)
<1>1. CASE c.waiter = 0
  BY <1>1, RetrySteps DEF ChainStep, NodeTimeout
<1>2. CASE c.waiter # 0
  BY <1>2, RetrySteps, ResultFinishes, ErrorFinishes DEF ChainStep
<1> QED
  BY <1>1, <1>2

-----------------------------------------------------------------------------
(* The steps of run() itself, and the invariant.                           *)

LEMMA InitRInv == Init => RInv
<1> SUFFICES ASSUME Init PROVE RInv
  OBVIOUS
<1>1. IInv
  BY InitIInv
<1> QED
  BY <1>1 DEF RInv, Init, CpuHead, TasksFit, GuardedOK, SettledOK, ResolvedSettled, ChainsFit,
       CallsCounted, RejectedOK

LEMMA RunKeepsR ==
    ASSUME RInv, IInv', Run
    PROVE  RInv'
<1>1. /\ graph \in Graphs /\ NodeIds(graph) \subseteq Node /\ graph' = graph /\ chains' = chains
      /\ tasks = <<>> /\ envs = <<>> /\ chains = {} /\ cpu = <<>> /\ phase = "idle"
  BY EdgeTypes DEF Run, RInv, IInv, TypeOK, IdleOK
<1>2. CASE phase' = "invalid" /\ UNCHANGED <<envs, tasks, cpu>>
  BY <1>1, <1>2 DEF RInv, CpuHead, TasksFit, GuardedOK, SettledOK, ResolvedSettled, ChainsFit,
       CallsCounted, RejectedOK
<1>3. CASE /\ phase' = "running"
           /\ envs' = <<NewState(NodeIds(graph))>>
           /\ tasks' = <<[NewTask(1, graph.entry, Undef) EXCEPT
                             !.pc = "next", !.todo = NodeIds(graph)]>>
           /\ cpu' = <<1>>
  <2> DEFINE T == [NewTask(1, graph.entry, Undef) EXCEPT !.pc = "next", !.todo = NodeIds(graph)]
             E == NewState(NodeIds(graph))
  <2>1. T.env = 1 /\ T.pc = "next" /\ T.todo = NodeIds(graph)
    BY DEF NewTask
  <2>2. \A n \in NodeIds(graph) : E.st[n] = "pending" /\ E.started[n] = 0 /\ E.calls[n] = 0
    BY <1>1 DEF NewState
  <2> HIDE DEF T, E
  <2>3. /\ DOMAIN tasks' = {1} /\ tasks'[1] = T /\ DOMAIN envs' = {1} /\ envs'[1] = E
        /\ tasks' # <<>> /\ envs' # <<>> /\ cpu' # <<>> /\ Head(cpu') = 1
    BY <1>3 DEF T, E
  <2>4. CpuHead'
    BY <2>3 DEF CpuHead
  <2>5. TasksFit'
    <3>2. FitsTask(tasks[1])'
      BY <1>1, <2>1, <2>3 DEF FitsTask
    <3> QED
      BY <1>3, <2>1, <2>3, <3>2 DEF TasksFit
  <2>6. GuardedOK'
    <3>1. Guarded' = Guarded /\ Guarded \subseteq NodeIds(graph)
      BY <1>1, GuardedNodes
    <3> QED
      BY <2>1, <2>2, <2>3, <3>1 DEF GuardedOK, Racing
  <2>7. SettledOK'
    BY <1>1, <2>1, <2>2, <2>3 DEF SettledOK
  <2>8. ChainsFit'
    BY <1>1 DEF ChainsFit
  <2>9. CallsCounted'
    <3>1. ASSUME NEW e \in DOMAIN envs', NEW n \in NodeIds(graph)
          PROVE  envs'[e].calls[n] <= Cardinality(Attempts(e, n)')
      <4>1. envs'[e].started[n] = 0 /\ envs'[e].calls[n] = 0
        BY <2>2, <2>3
      <4>2. Attempts(e, n)' = {}
        BY <4>1 DEF Attempts
      <4> QED
        BY <4>1, <4>2, FS_EmptySet
    <3> QED
      BY <1>1, <3>1 DEF CallsCounted
  <2>10. RejectedOK' /\ ResolvedSettled'
    BY <1>3, <2>1, <2>3 DEF RejectedOK, ResolvedSettled
  <2> QED
    BY <2>4, <2>5, <2>6, <2>7, <2>8, <2>9, <2>10 DEF RInv
<1> QED
  BY <1>2, <1>3 DEF Run

\* run() resolves: its list is empty and no other task is in progress.
LEMMA ResolveFacts ==
    ASSUME RInv, Resolve
    PROVE  /\ tasks # <<>> /\ 1 \in DOMAIN tasks /\ tasks[1].pc = "next"
           /\ \A t \in DOMAIN tasks \ {1} : tasks[t].pc = "done"
           /\ \A n \in NodeIds(graph) : envs[1].st[n] \in {"completed", "skipped"}
           /\ phase # "rejected"
<1>1. cpu # <<>> /\ Head(cpu) = 1 /\ tasks[1].pc = "next" /\ tasks[1].todo = {}
  BY DEF Resolve, OnCpu
<1>2. tasks \in Seq(Task) /\ cpu \in Seq(Nat) /\ IInv
  BY DEF RInv, IInv, TypeOK
<1>3. 1 \in DOMAIN tasks
  BY <1>1, <1>2 DEF IInv, CpuOK
<1>4. tasks # <<>>
  BY <1>2, <1>3
<1>5. \A t \in DOMAIN tasks \ {1} : tasks[t].pc = "done"
  BY <1>1, <1>2, <1>4, OnlyTaskOne DEF Parents
<1>6. ~SomeThrew
  BY <1>1, <1>5 DEF SomeThrew
<1>7. \A n : \A t \in DOMAIN tasks : ~Executes(t, n)
  BY <1>1, <1>5 DEF Executes, Executing
<1>8. \A n \in NodeIds(graph) : envs[1].st[n] \in {"completed", "skipped"}
  BY <1>1, <1>4, <1>6, <1>7 DEF RInv, SettledOK
<1>9. phase # "rejected"
  BY <1>1 DEF RInv, RejectedOK
<1> QED
  BY <1>1, <1>3, <1>4, <1>5, <1>8, <1>9

\* run() resolves or rejects, or its timer expires.
LEMMA EndKeepsR ==
    ASSUME RInv, IInv', Resolve \/ Reject \/ PipelineTimeout
    PROVE  RInv'
<1> USE DEF RunVars
<1>a. /\ graph' = graph /\ envs' = envs /\ chains' = chains
      /\ \A n : KindOf(n)' = KindOf(n) /\ MaxRetries(n)' = MaxRetries(n)
      /\ Guarded' = Guarded
      /\ \A e, n : Attempts(e, n)' = Attempts(e, n)
  BY GuardedNodes DEF Resolve, Reject, PipelineTimeout, KindOf, MaxRetries, Attempts
<1>b. tasks \in Seq(Task) /\ IInv /\ budget \in Budget
  BY DEF RInv, IInv, TypeOK, Budget
<1>1. CallsCounted'
  BY <1>a DEF RInv, CallsCounted
<1>2. CASE Resolve
  <2>1. /\ tasks # <<>> /\ 1 \in DOMAIN tasks /\ tasks[1].pc = "next"
        /\ \A t \in DOMAIN tasks \ {1} : tasks[t].pc = "done"
        /\ \A n \in NodeIds(graph) : envs[1].st[n] \in {"completed", "skipped"}
    BY <1>2, ResolveFacts
  <2>2. /\ phase' = "resolved" /\ budget' = budget
        /\ tasks' = [tasks EXCEPT ![1] = [tasks[1] EXCEPT !.pc = "done"]]
    BY <1>2 DEF Resolve, Yield, Goto, SetTask
  <2>3. /\ DOMAIN tasks' = DOMAIN tasks /\ \A t \in DOMAIN tasks \ {1} : tasks'[t] = tasks[t]
        /\ tasks'[1].pc = "done" /\ tasks'[1].env = tasks[1].env /\ tasks'[1].todo = tasks[1].todo
        /\ \A t \in DOMAIN tasks : tasks'[t].pc = "done" /\ tasks[t].pc \in {"next", "done"}
    <3>1. tasks[1] \in Task
      BY <1>b, <2>1
    <3> QED
      BY <1>b, <2>1, <2>2, <3>1 DEF Task
  <2>4. CpuHead' /\ ResolvedSettled'
    BY <1>a, <2>1, <2>3 DEF CpuHead, Sync, ResolvedSettled
  <2>5. TasksFit'
    <3>1. \A t \in DOMAIN tasks : FitsTask(tasks'[t])
      BY <2>1, <2>3 DEF FitsTask, RInv, TasksFit
    <3>2. \A t \in DOMAIN tasks : FitsTask(tasks[t])'
      BY <1>a, <3>1 DEF FitsTask
    <3>3. tasks' # <<>> /\ envs # <<>>
      BY <1>b, <2>1, <2>3 DEF RInv, TasksFit
    <3> QED
      BY <1>a, <2>1, <2>2, <2>3, <3>2, <3>3 DEF RInv, TasksFit
  <2>6. GuardedOK'
    <3>1. \A t \in DOMAIN tasks : \A e, n : ~Racing(t, e, n) /\ ~Racing(t, e, n)'
      BY <2>3 DEF Racing
    <3> QED
      BY <1>a, <2>3, <3>1 DEF RInv, GuardedOK
  <2>7. SettledOK'
    BY <1>a, <2>1 DEF SettledOK
  <2>8. ChainsFit'
    <3>1. \A c \in chains : c.waiter = 0
      BY <1>b, <2>3 DEF IInv, ChainOK
    <3> QED
      BY <1>a, <3>1 DEF RInv, ChainsFit
  <2>9. RejectedOK'
    BY <1>a, <2>2, <2>3 DEF RInv, RejectedOK
  <2> QED
    BY <1>1, <2>4, <2>5, <2>6, <2>7, <2>8, <2>9 DEF RInv
<1>3. CASE Reject \/ PipelineTimeout
  <2>1. /\ tasks' = tasks /\ cpu' = cpu /\ phase = "running" /\ phase' \in {"running", "rejected"}
        /\ phase' = "rejected" => 1 \in DOMAIN tasks /\ tasks[1].pc = "threw"
        /\ checkBudget' => checkBudget
    <3>1. CASE Reject
      BY <3>1 DEF Reject, Awaiting, checkBudget
    <3>2. CASE PipelineTimeout
      <4>1. ~checkBudget'
        BY <1>b, <3>2 DEF PipelineTimeout, checkBudget, Budget
      <4> QED
        BY <3>2, <4>1 DEF PipelineTimeout
    <3> QED
      BY <1>3, <3>1, <3>2
  <2>2. CpuHead' /\ ResolvedSettled'
    BY <2>1 DEF RInv, CpuHead, ResolvedSettled
  <2>3. TasksFit'
    <3>1. \A t \in DOMAIN tasks : FitsTask(tasks[t])'
      BY <1>a, <2>1 DEF RInv, TasksFit, FitsTask
    <3> QED
      BY <1>a, <2>1, <3>1 DEF RInv, TasksFit
  <2>4. GuardedOK'
    <3>1. \A t, e, n : Racing(t, e, n)' <=> Racing(t, e, n)
      BY <2>1 DEF Racing
    <3> QED
      BY <1>a, <2>1, <3>1 DEF RInv, GuardedOK, Env
  <2>5. SettledOK'
    <3>1. SomeThrew' <=> SomeThrew
      BY <2>1 DEF SomeThrew
    <3>2. \A t, n : Executes(t, n)' <=> Executes(t, n)
      BY <2>1 DEF Executes
    <3> QED
      BY <1>a, <2>1, <3>1, <3>2 DEF RInv, SettledOK
  <2>6. ChainsFit'
    BY <1>a, <2>1 DEF RInv, ChainsFit
  <2>7. RejectedOK'
    <3>1. Reason => Reason'
      BY <1>a, <2>1 DEF Reason
    <3>2. tasks # <<>>
      BY <2>1 DEF RInv, TasksFit
    <3> QED
      BY <1>a, <2>1, <3>1, <3>2 DEF RInv, RejectedOK
  <2> QED
    BY <1>1, <2>2, <2>3, <2>4, <2>5, <2>6, <2>7 DEF RInv
<1> QED
  BY <1>2, <1>3

LEMMA StutterKeepsR ==
    ASSUME RInv, UNCHANGED vars
    PROVE  RInv'
<1>1. /\ graph' = graph /\ phase' = phase /\ envs' = envs /\ tasks' = tasks /\ cpu' = cpu
      /\ chains' = chains /\ budget' = budget
  BY DEF vars
<1>2. IInv'
  BY NextIInv DEF RInv
<1>3. (CpuHead /\ TasksFit /\ ResolvedSettled)'
  BY <1>1 DEF RInv, CpuHead, TasksFit, FitsTask, KindOf, ResolvedSettled
<1>4. GuardedOK'
  BY <1>1, GuardedNodes DEF RInv, GuardedOK, Racing, Env
<1>5. SettledOK'
  BY <1>1 DEF RInv, SettledOK, SomeThrew, Executes
<1>6. ChainsFit'
  BY <1>1 DEF RInv, ChainsFit, KindOf, MaxRetries
<1>7. CallsCounted'
  BY <1>1 DEF RInv, CallsCounted, Attempts, KindOf, MaxRetries
<1>8. RejectedOK'
  BY <1>1 DEF RInv, RejectedOK, Reason, KindOf, checkBudget
<1> QED
  BY <1>2, <1>3, <1>4, <1>5, <1>6, <1>7, <1>8 DEF RInv

\* Every step keeps the invariant.
LEMMA NextRInv ==
    ASSUME RInv, [Next]_vars
    PROVE  RInv'
<1>1. IInv'
  BY NextIInv DEF RInv
<1>2. CASE UNCHANGED vars \/ Ended
  BY <1>2, StutterKeepsR DEF Ended
<1>3. CASE Run
  BY <1>1, <1>3, RunKeepsR
<1>4. CASE Resolve \/ Reject \/ PipelineTimeout
  BY <1>1, <1>4, EndKeepsR
<1>5. ASSUME NEW t \in DOMAIN tasks,
             TaskStep(t) \/ MergeRejects(t) \/ QueryReply(t) \/ QueryTimeout(t)
      PROVE  RInv'
  BY <1>1, <1>5, TaskStepKinds, CalmKeeps, SpawnStepKeeps, StartBegins, BeginKeeps
<1>6. ASSUME NEW c \in chains, ChainStep(c) \/ NodeTimeout(c)
      PROVE  RInv'
  BY <1>1, <1>6, ChainStepKinds, FinishKeeps, RetryStepKeeps
<1> QED
  BY <1>2, <1>3, <1>4, <1>5, <1>6 DEF Next

-----------------------------------------------------------------------------
(* The abstract run.                                                       *)

View(E) == [n \in Node |-> IF n \in Guarded THEN E.st[n] ELSE "outside"]

\* What PipelineRun sees of a run in progress.
LEMMA WatchedView ==
    ASSUME RInv, RInv', graph' = graph, tasks # <<>>, tasks' # <<>>
    PROVE  /\ Watched = View(envs[1]) /\ Watched' = View(envs'[1])
           /\ View(envs'[1]) \in [Node -> Promise!Status]
           /\ 1 \in DOMAIN envs
           /\ Guarded \subseteq NodeIds(graph) /\ NodeIds(graph) \subseteq Node
<1>1. envs # <<>> /\ envs' # <<>>
  BY DEF RInv, TasksFit
<1>2. Guarded' = Guarded /\ Guarded \subseteq NodeIds(graph)
  BY GuardedNodes
<1>3. Watched = View(envs[1]) /\ Watched' = View(envs'[1])
  BY <1>1, <1>2 DEF Watched, View
<1>4. NodeIds(graph) \subseteq Node /\ envs \in Seq(ExecutionState) /\ envs' \in Seq(ExecutionState)
  BY EdgeTypes DEF RInv, IInv, TypeOK
<1>5. 1 \in DOMAIN envs /\ 1 \in DOMAIN envs' /\ envs'[1] \in ExecutionState
  BY <1>1, <1>4
<1>6. \A n \in NodeIds(graph) : envs'[1].st[n] # "absent"
  BY DEF RInv, SettledOK
<1>7. \A n \in Guarded : envs'[1].st[n] \in Promise!Status
  BY <1>2, <1>4, <1>5, <1>6 DEF ExecutionState, Status, Promise!Status
<1> QED
  BY <1>2, <1>3, <1>4, <1>5, <1>7 DEF View, Promise!Status

\* A run in which a task is still at work is open.
LEMMA RunOpen ==
    ASSUME RInv, NEW t \in DOMAIN tasks, tasks[t].pc # "done"
    PROVE  tasks # <<>> /\ Promise!Open
BY DEF RInv, IInv, TypeOK, TasksFit, ResolvedDone, Promise!Open

\* A step that starts or reports nothing skips pending nodes at most.
LEMMA CalmSkips ==
    ASSUME RInv, RInv', NEW t \in DOMAIN tasks, CalmStep(t) \/ SpawnStep(t)
    PROVE  Promise!Next \/ UNCHANGED Promise!vars
<1>1. /\ graph' = graph /\ phase' = phase /\ tasks[t].pc # "done"
      /\ DOMAIN tasks \subseteq DOMAIN tasks' /\ DOMAIN envs \subseteq DOMAIN envs'
  BY DEF CalmStep, Moved, SpawnStep
<1>2. tasks # <<>> /\ tasks' # <<>> /\ Promise!Open
  BY <1>1, RunOpen
<1>3. /\ Watched = View(envs[1]) /\ Watched' = View(envs'[1])
      /\ View(envs'[1]) \in [Node -> Promise!Status] /\ 1 \in DOMAIN envs
      /\ Guarded \subseteq NodeIds(graph) /\ NodeIds(graph) \subseteq Node
  BY <1>1, <1>2, WatchedView
<1>4. CASE SpawnStep(t)
  BY <1>1, <1>3, <1>4 DEF SpawnStep, Promise!vars
<1>5. CASE CalmStep(t)
  <2>1. envs'[1] = envs[1] \/ Calm(envs[1], envs'[1], tasks[t].node)
    BY <1>3, <1>5 DEF CalmStep, Moved, Env, After
  <2>2. \A n \in Guarded : envs'[1].st[n] # envs[1].st[n] =>
            envs[1].st[n] = "pending" /\ envs'[1].st[n] = "skipped"
    BY <1>3, <2>1 DEF Calm
  <2>3. \A n \in Node : Watched'[n] # Watched[n] => Watched[n] = "pending" /\ Watched'[n] = "skipped"
    BY <1>3, <2>2 DEF View
  <2>4. Promise!Skip
    BY <1>1, <1>2, <1>3, <2>3 DEF Promise!Skip
  <2> QED
    BY <2>4 DEF Promise!Next
<1> QED
  BY <1>4, <1>5

\* A standard node is begun: the abstract step begins, if it is watched.
LEMMA BeginBegins ==
    ASSUME RInv, RInv', NEW t \in DOMAIN tasks, BeginStep(t)
    PROVE  Promise!Next \/ UNCHANGED Promise!vars
<1> DEFINE n == tasks[t].node
           v == tasks[t].env
<1>1. /\ graph' = graph /\ phase' = phase /\ tasks[t].pc = "dispatch"
      /\ DOMAIN tasks \subseteq DOMAIN tasks'
  BY DEF BeginStep
<1>2. tasks # <<>> /\ tasks' # <<>> /\ Promise!Open
  BY <1>1, RunOpen
<1>3. /\ Watched = View(envs[1]) /\ Watched' = View(envs'[1]) /\ 1 \in DOMAIN envs
      /\ Guarded \subseteq NodeIds(graph) /\ NodeIds(graph) \subseteq Node
  BY <1>1, <1>2, WatchedView
<1>4. /\ v # 1 => envs'[1] = envs[1]
      /\ v = 1 => /\ \A m \in Node \ {n} : envs'[1].st[m] = envs[1].st[m]
                  /\ envs'[1].st[n] = IF envs[1].st[n] = "absent" THEN "absent" ELSE "running"
  <2>1. /\ \A e \in DOMAIN envs \ {v} : envs'[e] = envs[e]
        /\ \A m \in Node \ {n} : envs'[v].st[m] = envs[v].st[m]
        /\ envs'[v].st[n] = IF envs[v].st[n] = "absent" THEN "absent" ELSE "running"
    BY DEF BeginStep, Env, After
  <2> HIDE DEF n, v
  <2> QED
    BY <1>3, <2>1
<1>5. CASE v = 1 /\ n \in Guarded
  <2>1. envs[1].st[n] = "pending" /\ envs'[1].st[n] = "running" /\ n \in Node
    BY <1>1, <1>3, <1>4, <1>5 DEF RInv, GuardedOK, Env
  <2>2. View(envs'[1]) = [View(envs[1]) EXCEPT ![n] = "running"] /\ View(envs[1])[n] = "pending"
    BY <1>4, <1>5, <2>1 DEF View
  <2>3. Promise!Begin(n)
    BY <1>1, <1>2, <1>3, <2>2 DEF Promise!Begin
  <2> QED
    BY <2>1, <2>3 DEF Promise!Next
<1>6. CASE ~(v = 1 /\ n \in Guarded)
  <2>1. View(envs'[1]) = View(envs[1])
    BY <1>3, <1>4, <1>6 DEF View
  <2> QED
    BY <1>1, <1>3, <2>1 DEF Promise!vars
<1> QED
  BY <1>5, <1>6

\* A report to the waiting task ends the abstract step, if it is watched.
LEMMA FinishFinishes ==
    ASSUME RInv, RInv', NEW c \in chains, FinishStep(c)
    PROVE  Promise!Next \/ UNCHANGED Promise!vars
<1> DEFINE n == c.node
<1>0. /\ c.waiter \in DOMAIN tasks /\ tasks[c.waiter].pc = "race" /\ tasks[c.waiter].node = n
      /\ tasks[c.waiter].env = c.env /\ c.env \in DOMAIN envs /\ n \in NodeIds(graph)
  BY DEF FinishStep, RInv, IInv, ChainOK, ChainsFit
<1>1. graph' = graph /\ phase' = phase /\ DOMAIN tasks \subseteq DOMAIN tasks'
  BY DEF FinishStep
<1>2. tasks # <<>> /\ tasks' # <<>> /\ Promise!Open
  BY <1>0, <1>1, RunOpen
<1>3. /\ Watched = View(envs[1]) /\ Watched' = View(envs'[1]) /\ 1 \in DOMAIN envs
      /\ Guarded \subseteq NodeIds(graph) /\ NodeIds(graph) \subseteq Node
  BY <1>1, <1>2, WatchedView
<1>4. \A m \in Node : envs'[1].st[m] = envs[1].st[m] \/ (c.env = 1 /\ m = n)
  BY <1>3 DEF FinishStep
<1>5. CASE c.env = 1 /\ n \in Guarded
  <2>1. envs[1].st[n] = "running" /\ n \in Node
    BY <1>0, <1>3, <1>5 DEF RInv, GuardedOK, Env
  <2>2. PICK s \in {"completed", "failed", "skipped"} : envs'[1].st[n] = s
    BY <1>5, <2>1 DEF FinishStep, Settling
  <2>3. View(envs'[1]) = [View(envs[1]) EXCEPT ![n] = s] /\ View(envs[1])[n] = "running"
    BY <1>3, <1>4, <1>5, <2>1, <2>2 DEF View
  <2>4. Promise!Finish(n)
    BY <1>1, <1>2, <1>3, <2>3 DEF Promise!Finish
  <2> QED
    BY <2>1, <2>4 DEF Promise!Next
<1>6. CASE ~(c.env = 1 /\ n \in Guarded)
  <2>1. View(envs'[1]) = View(envs[1])
    BY <1>3, <1>4, <1>6 DEF View
  <2> QED
    BY <1>1, <1>3, <2>1 DEF Promise!vars
<1> QED
  BY <1>5, <1>6

\* Attempts do not show in the abstract run.
LEMMA RetryHidden ==
    ASSUME RInv, RInv', NEW c \in chains, NEW D, RetryStep(c, D)
    PROVE  UNCHANGED Promise!vars
<1>1. graph' = graph /\ phase' = phase /\ tasks' = tasks
  BY DEF RetryStep
<1>2. tasks # <<>>
  BY DEF RInv, IInv, TypeOK, ChainOK, TasksFit
<1>3. /\ Watched = View(envs[1]) /\ Watched' = View(envs'[1]) /\ 1 \in DOMAIN envs
  BY <1>1, <1>2, WatchedView
<1>4. View(envs'[1]) = View(envs[1])
  BY <1>3 DEF RetryStep, View
<1> QED
  BY <1>1, <1>3, <1>4 DEF Promise!vars

\* The beginning and the end of run() are those of the abstract run.
LEMMA RunMaps ==
    ASSUME RInv, RInv', Run
    PROVE  Promise!Next
<1>1. /\ graph' = graph /\ phase = "idle" /\ envs = <<>>
  BY DEF Run, RInv, IInv, IdleOK
<1>2. Watched = [n \in Node |-> "outside"]
  BY <1>1 DEF Watched
<1>3. CASE phase' = "invalid" /\ envs' = envs
  <2>1. Watched' = [n \in Node |-> "outside"]
    BY <1>1, <1>3 DEF Watched
  <2> QED
    BY <1>1, <1>2, <1>3, <2>1 DEF Promise!Next, Promise!Refuse
<1>4. CASE phase' = "running" /\ envs' = <<NewState(NodeIds(graph))>>
  <2>1. Guarded' = Guarded /\ Guarded \subseteq NodeIds(graph)
    BY <1>1, GuardedNodes
  <2>2. envs'[1] = NewState(NodeIds(graph)) /\ envs' # <<>>
    BY <1>4
  <2>3. \A n \in Node : n \in NodeIds(graph) => envs'[1].st[n] = "pending"
    BY <2>2 DEF NewState
  <2>4. Watched' \in [Node -> {"outside", "pending"}]
    BY <2>1, <2>2, <2>3 DEF Watched
  <2> QED
    BY <1>1, <1>4, <2>4 DEF Promise!Next, Promise!Start
<1> QED
  BY <1>3, <1>4 DEF Run

LEMMA ResolveMaps ==
    ASSUME RInv, RInv', Resolve
    PROVE  Promise!Next
<1>1. /\ tasks # <<>> /\ 1 \in DOMAIN tasks /\ tasks[1].pc = "next"
      /\ \A n \in NodeIds(graph) : envs[1].st[n] \in {"completed", "skipped"}
      /\ phase # "rejected"
  BY ResolveFacts
<1>2. phase = "running"
  BY <1>1 DEF RInv, IInv, TypeOK, TasksFit, ResolvedDone
<1>3. graph' = graph /\ envs' = envs /\ phase' = "resolved" /\ tasks' # <<>>
  BY DEF Resolve, RInv, TasksFit
<1>4. /\ Watched = View(envs[1]) /\ Watched' = View(envs'[1])
      /\ Guarded \subseteq NodeIds(graph)
  BY <1>1, <1>3, WatchedView
<1>5. \A n \in Node : Watched[n] \in {"outside", "completed", "skipped"}
  BY <1>1, <1>4 DEF View
<1> QED
  BY <1>2, <1>3, <1>4, <1>5 DEF Promise!Next, Promise!Resolve

\* Every step of the scheduler is one of the abstract run, or hidden from it.
LEMMA StepSimulates ==
    ASSUME RInv, RInv', [Next]_vars
    PROVE  Promise!Next \/ UNCHANGED Promise!vars
<1>1. CASE UNCHANGED vars \/ Ended \/ PipelineTimeout
  <2>1. graph' = graph /\ envs' = envs /\ phase' = phase
    BY <1>1 DEF vars, Ended, PipelineTimeout, RunVars
  <2>2. Watched' = Watched
    BY <2>1, GuardedNodes DEF Watched
  <2> QED
    BY <2>1, <2>2 DEF Promise!vars
<1>2. CASE Reject
  <2>1. graph' = graph /\ envs' = envs /\ phase = "running" /\ phase' = "rejected"
    BY <1>2 DEF Reject
  <2>2. Watched' = Watched
    BY <2>1, GuardedNodes DEF Watched
  <2> QED
    BY <2>1, <2>2 DEF Promise!Next, Promise!Reject
<1>3. CASE Run \/ Resolve
  BY <1>3, RunMaps, ResolveMaps
<1>4. ASSUME NEW t \in DOMAIN tasks,
             TaskStep(t) \/ MergeRejects(t) \/ QueryReply(t) \/ QueryTimeout(t)
      PROVE  Promise!Next \/ UNCHANGED Promise!vars
  BY <1>4, TaskStepKinds, StartBegins, CalmSkips, BeginBegins
<1>5. ASSUME NEW c \in chains, ChainStep(c) \/ NodeTimeout(c)
      PROVE  Promise!Next \/ UNCHANGED Promise!vars
  BY <1>5, ChainStepKinds, FinishFinishes, RetryHidden
<1> QED
  BY <1>1, <1>2, <1>3, <1>4, <1>5 DEF Next

-----------------------------------------------------------------------------
(* The theorems.                                                           *)

\* RInv holds in every state of a run.
THEOREM RunInvariance == Spec => []RInv
<1>1. Init => RInv
  BY InitRInv
<1>2. RInv /\ [Next]_vars => RInv'
  BY NextRInv
<1> QED
  BY <1>1, <1>2, PTL DEF Spec

\* Scheduler.run implements PipelineRun on every graph: whatever branches,
\* retries and timers do, a guarded standard node is begun once and ends
\* once, and run() resolves only over completed and skipped nodes.
THEOREM ImplementsPipelineRun == Spec => RunsAsPromised
<1>1. Init => Promise!Init
  <2> SUFFICES ASSUME Init PROVE Promise!Init
    OBVIOUS
  <2>1. Watched = [n \in Node |-> "outside"]
    BY DEF Init, Watched
  <2> QED
    BY <2>1 DEF Init, Promise!Init
<1>2. RInv /\ RInv' /\ [Next]_vars => [Promise!Next]_(Promise!vars)
  BY StepSimulates
<1> QED
  BY <1>1, <1>2, RunInvariance, PTL DEF Spec, RunsAsPromised, Promise!Spec

\* A guarded standard node enters executeNode at most once per ExecutionState,
\* however many branches reach it.
THEOREM NodesStartOnce == Spec => []StartedOnce
<1>1. RInv => StartedOnce
  BY DEF RInv, GuardedOK, StartedOnce
<1> QED
  BY <1>1, RunInvariance, PTL

\* The executes of a standard node stay within its retry allowance, attempts
\* that outlive their timer included.
THEOREM CallsWithinAllowance == Spec => []CallBound
<1>1. RInv => CallBound
  <2> SUFFICES ASSUME RInv, NEW e \in DOMAIN envs, NEW n \in NodeIds(graph), KindOf(n) \in Standard
               PROVE  envs[e].calls[n] <= envs[e].started[n] * (MaxRetries(n) + 1)
    BY DEF CallBound
  <2>1. /\ Cardinality(Attempts(e, n)) \in Nat
        /\ Cardinality(Attempts(e, n)) <= envs[e].started[n] * (MaxRetries(n) + 1)
    BY AttemptsFinite
  <2>2. envs[e].calls[n] <= Cardinality(Attempts(e, n))
    BY DEF RInv, CallsCounted
  <2>3. envs[e].calls[n] \in Nat /\ envs[e].started[n] * (MaxRetries(n) + 1) \in Nat
    <3>1. envs[e] \in ExecutionState /\ n \in Node /\ graph.node[n] \in NodeDef
      BY EdgeTypes DEF RInv, IInv, TypeOK
    <3>2. envs[e].calls[n] \in Nat /\ envs[e].started[n] \in Nat /\ MaxRetries(n) \in Nat
      BY <3>1 DEF ExecutionState, NodeDef, MaxRetries
    <3> QED
      BY <3>2
  <2> QED
    BY <2>1, <2>2, <2>3
<1> QED
  BY <1>1, RunInvariance, PTL

\* run() resolves only when every node has settled; with standard nodes only,
\* it rejects only over a node whose policy asks for it, a fallback node that
\* does not exist, or an exhausted budget.
THEOREM OutcomesJustified == Spec => []OutcomeJustified
<1>1. RInv => OutcomeJustified
  BY DEF RInv, RejectedOK, Reason, OutcomeJustified, RejectionJustified
<1> QED
  BY <1>1, RunInvariance, PTL
=============================================================================
