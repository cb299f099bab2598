# A TLA+ model of the pipeline engine

TLA+ modules that model this repository, the TLC configurations that check them
on small instances, and TLAPS proofs of the properties that matter most.  File
and line references are relative to the repository root: `scheduler.ts` is
`src/scheduler/scheduler.ts` and so on.  (`PROJECT.json` prefixes them with the
directory of the checkout, `src/`.)

`PROJECT.json` maps every definition that models code to the lines it models,
and lists the runs, the mutants, the hazards, the findings and the theorems.

To reproduce: `tlc -config Steps.cfg MCSteps` for a run (the table of runs
gives module and configuration), `tlapm SchedulerProofs.tla` for a proof module.

## 1. Inventory

A user's message becomes an *intent* (a list of steps written by a language
model), the intent is *compiled* to a graph, the engine *enriches* the nodes of
the graph, and the *scheduler* runs it.

    message -> pipeline-intent-generator -> PipelineCompiler -> PipelineEngine.enrichNodes
                      (language model)                              |
       SemanticCache <-> api/routes/execute.ts <-> planStore <------+-- forms of the CLI
                                |                                   |
                                v                                   v
             PipelineEngine.execute -> SchemaValidator -> Scheduler.run -> node definitions
                                                     -> QueryExecutor, operators, Postgres
                                                     -> write node -> Postgres
                                                     -> language model, HTTP

| Component | State it keeps | Operations | What is hard about it | What makes it correct |
|---|---|---|---|---|
| Scheduler (`scheduler/`) | one `ExecutionState` per run and per loop iteration, the budget, the outputs | `run`, `executeNode` for every kind of node, `executeSubgraph`, `executeWithRetry` | concurrent branches on shared state; attempts that answer after their timeout; error policies; one budget for all branches and loops | a run ends; it resolves only when every node is settled and nothing is in progress; nodes run once, untaken branches never; merges see all their sources |
| Graph algorithms (`graph-utils.ts`) | none | topological sort, validation, branch and body walks | parallel edges, cycles, nodes fed by two regions | the sort is a sort; a body is the least set closed under "fed only by the loop and the body" |
| Pipeline compiler (`compiler/pipeline/`) | none | `validate`, `buildNodes`, `buildEdges` | edges in a `Map` keyed by text ids; steps that are at once entry, branch and body | no reference is lost; what is accepted can be run |
| Session history (`session-manager.ts`) | the turns of a session | `addTurn`, `summarizeHistory` in the background | turns added while a summary is being written, overlapping summaries | order; nothing lost |
| Plan service (`api/`, `cache/`, `bootstrap.ts`) | `planStore` (memory), `pee_semantic_cache` and `pee_schema_state` (database) | plan, execute, patch, clear-cache; the schema check at start-up; expiry | several processes on one database; crashes; swallowed errors; plan objects shared by requests | no plan of an old schema is offered |
| Pipeline engine (`pipeline-engine.ts`) | `fieldMap`, the payloads, the field registry | `plan`, `enrichNodes`, `enrichWriteNode`, `validateWriteFieldResolution`, `planWithMissingValues`, `execute` | five sources for one value, merged by priority and again by order; promises about rows that do not exist yet; checks by different rules at different times | the fields a step was promised arrive; session values win; what one check settled the next accepts |
| Write node (`write-node.ts`, `FKValidator.ts`) | the payload (changed in place), the target database, the pool | insert, insert_ignore, update, upsert, delete, by cursor, Calcite, template, rows or literals | placeholders numbered in several places; partial writes and retries; a transaction that holds one client and uses others | every placeholder has its value, every row is written once, conditions survive, the pool does not run dry in a circle |
| Session cursor (`SessionCursor.ts`) | the last result, with an expiry | `extractCursor`, `set`, `clear`, `buildWhereFromCursor` | one cursor for all sessions of a process, expiry | a follow-up refers to the last result |
| Query compiler (`compiler/query*`, `calcite-service/`) | none | validation, AST, plan with pushdown, raw SQL, Calcite's SELECT, split over databases | three translations of one intent; null and case rules | the translations mean the same |
| Query execution (`executors/`, `postgres-backend.ts`) | operators, server-side cursors, the pool | `open`, `nextBatch`, `close`, `collectAll`, `scanWithCursor` | a pull protocol across awaits, early close, spilling, a budget over batches, failing fetches, concurrent inserts | the answer is what the intent asks for; clients come back clean |
| Expressions (`expr-evaluator.ts`, `core/ast`) | none | evaluation, translation to SQL | nulls, mixed types, case | both meanings agree where both are used |
| HTTP node (`http-node.ts`) | a queue, a limiter, a result list per execution | workers, retries, batch mode | concurrent workers on shared lists, back-off, requests without timeout | one result per row in order, attempts within the limit, it ends |
| Authorisation and audit (`auth/`, `cli.ts`) | grants, requests, audit rows in SQLite | check, request, approve, deny, revoke, log in | several statements without a transaction, several reviewers, a check at planning and a use after awaits | an approval has its effect and its log entry, no grant without a reason, a plan uses nothing that was refused throughout |
| Schema derivation (`schema/`, `schema-config.ts`) | none | traits, classes, foreign-key graph, join paths, routing | rules that overwrite each other | paths are shortest and stay in the granted tables |
| Persistence (`storage/`) | pool and transactions; pipelines, versions, runs | query, transaction, save, list, load | two inserts without a transaction | clients come back; a version belongs to a pipeline |
| Configuration, prompts, terminal | none, or static data | text and I/O | - | - |

`PROJECT.json` ("components") says of each part whether it is modelled, and
"hazards" lists the places where it can go wrong in a way that a test would
hardly reach, each with the properties that would notice.

## 2. Modules and how they correspond to the code

| Module | Models | Extended by |
|---|---|---|
| `PipelineGraph` | `graph-utils.ts`: edge selectors, topological sort, `validateGraph`, reachability, inactive branches, `getBodyNodeIds` | `Scheduler`, `PipelineCompiler` |
| `PipelineRun` | abstract specification of a run, which `Scheduler` implements | (instantiated by `Scheduler`) |
| `Scheduler` | `scheduler.ts`, `loop-helpers.ts`, `execution-budget.ts` | `MCSteps`, `MCRegions`, `SchedulerProofs`, `SchedulerRunProofs` |
| `PipelineCompiler` | `pipeline-compiler.ts` | `MCCompiler` |
| `SessionHistory` | `session-manager.ts` | `SessionProofs` |
| `PlanService` | `api/routes/execute.ts`, `api/types.ts`, `cache/`, the schema check of `bootstrap.ts` | `PlanServiceProofs` |
| `WriteStatements` | the statements of `write-node.ts`, `write-predicate-builder.ts`, `buildWhereFromCursor`, Calcite's writes | `WriteNode` |
| `WriteNode` | executions of write nodes, `FKValidator.ts`, the pool of `postgres-backend.ts`, `SessionCursor.ts` | `MCWrite`, `WriteProofs` |
| `Expressions` | `expr-evaluator.ts` and `predicateToSQL` of `postgres-backend.ts` | `QueryCompiler` |
| `QueryCompiler` | `query-ast-builder.ts`, `query-planner.ts`, `operator-tree-builder.ts`, raw SQL, `CalciteCompiler.java`, `cross-db-decomposer.ts` | `QueryOperators` |
| `QueryOperators` | `executors/operators/`, `physical-operator.ts` | `QueryExecution` |
| `QueryExecution` | `query-executor.ts` on `postgres-backend.ts`, next to inserts | `MCQuery` |
| `HttpNode` | `http-node.ts` | `MCHttp`, `HttpProofs` |
| `SchemaGraph` | the foreign-key graph and join paths of `schema-config.ts`, `resolveWriteColumnSource` | `AccessControl`, `FieldFlow` |
| `AccessControl` | `auth/`, the access commands of `cli.ts`, the gates of `plan()` | `MCAccess`, `AccessProofs` |
| `SchemaTraits` | `TraitInferencer.ts`, `ColumnClassifier.ts`, `FKGraph`, `MultiSourceSchemaBuilder.ts` | `WriteEnrichment` |
| `WriteEnrichment` | `enrichWriteNode` with its field registry, `getMissingColumns` | `SchemaValidator` |
| `SchemaValidator` | `core/validation/schema-validator.ts` for writes | `FieldFlow` |
| `FieldFlow` | `enrichNodes`, the checks of `plan()`, the forms of `cli.ts`, `planWithMissingValues`, and the fields of the rows when the nodes run | `MCFieldFlow`, `FieldFlowProofs` |
| `MC...` | nothing: the graphs, intents, payloads and schemas the runs use | - |

### Scheduler

JavaScript runs one synchronous section at a time.  `tasks` are the
asynchronous calls that can be in progress together: task 1 is the loop of
`run()`, each other one a call of `executeSubgraph`, for a parallel branch or a
loop iteration.  `cpu` is the stack of tasks inside the synchronous section: a
branch starts synchronously inside its parent, until its first `await`.  While
`cpu` is not empty only its head moves; when it is empty the event loop may
resume any task whose `await` is over.  A section is several small steps of the
model but nothing else can happen between them.

`envs` are the `ExecutionState`s: 1 belongs to `run()`, and every loop iteration
appends one.  `chains` are the calls of `executeWithRetry`: a chain whose race
against the timer is lost goes on without a `waiter`, as in the code, where
nobody cancels it.  Status changes, error policies (`fail`, `skip`, `retry`,
`fallback`), the counters of the budget, the activation of control edges, the
outputs and the session cursor are kept; a value is reduced to its kind (which
the code tests) and to `src`, the set of nodes whose `execute` produced its data
(which is what merge and branch properties are about).  `started` and `calls`
are history variables inside an `ExecutionState`.  A node's `execute`, the query
executor and the evaluation of predicates and iterables are external: they may
return any value, reject, or never answer.

`PipelineRun` says what all this amounts to for a step: begun at most once,
ended at most once, never touched again, and a run that resolves only over
completed and skipped steps.  `RunsAsPromised` is the refinement: `Watched` maps
the statuses of the *guarded* nodes.  Not guarded are the nodes that the code
does rewrite, which are heads of parallel branches, loop bodies and fallback
targets.

### PipelineCompiler

`Propose` appends any candidate step, `Compile` runs `compile` on what there is.
Ids are model strings; `Words` says which words an id consists of, so that edge
ids (`e_${a}_${b}`), which are keys of a `Map`, can clash as they do in the code.
The payload of a node is reduced to what the scheduler reads of it.

### SessionHistory

A turn is the set of user turns it tells about: `{i}` for the i-th call of
`addTurn`, the union of what it replaces for a summary.  `calls` are the
summarisations that wait for the language model, each with the two halves of
the snapshot it took before its `await`.

### PlanService

Any number of processes share the cache and the recorded hashes; plans and
requests are lost in a crash.  A handler is split at its awaits and is atomic
between them.  A DDL file, its hash and the schema parsed from it are one version
number; an action that reads a file twice in the code reads it twice in the
model.  Every database failure the code catches is an outcome of its action.
`faults` is a history variable: `lookup` and `invalidate` (that call failed and
the code went on), `mixed` (processes that loaded different schemas use the cache
together, as in a rolling deployment) and `reread` (a DDL file changed between
the two times a starting process reads it).  The properties say what holds
without them.

### WriteStatements and WriteNode

A statement is its SET or VALUES list, its WHERE list and its parameters.  An
entry says how its value is written (a placeholder `$n`, an SQL expression, `IS
NULL`) and, beside it, which value the payload means, so that `ParametersBound`
can compare the two after all the arithmetic on placeholder numbers.  Object
keys come in the order of `Columns`.  `IsPayload` is the shape of the payload's
TypeScript type.

`WriteNode` runs executions from await to await.  The synchronous first part of
`execute` (references, soft delete, stripping of immutable columns) changes the
payload in place, as in the code, so a second execution of the plan starts from
the changed one.  Then come the foreign-key checks, and the statements of
whichever path applies.  `free` counts the clients of the pool; `transaction()`
holds one while every statement of its body takes another.  The clients that are
out are pairs of a holder and a number (`Leased`), so that `PoolConserved` is
about the size of a set.  `log` records what
took effect, with the attempt and the path.  Failures of the database and of the
Calcite service are bounded by `MaxErrors`.  Where a path of the code departs from
the plan, the property names the departure: `HasRowDrivenWhere` (an UPDATE of
whatever the mode is), `Unmarked` (a soft delete that does not mark the row) and an
upsert whose `updateColumns` are not all inserted.

### Queries

`Expressions` defines both meanings of a predicate: the evaluator in JavaScript
(with the coercions of its operators, and `Thrown` for an exception) and SQL in
three-valued logic.  `QueryCompiler` builds the plan and the SQL texts as
structures.  An operator is a record of its plan node, its protocol state and its
private fields, and `QueryOperators` says what it does when it is asked and when
its input answers: pull, return or throw.  `QueryExecution` moves the control up
and down that chain, one call at a time, with the scan's generator on a client of
the pool; the client's transaction may be open, aborted or none.  `snapshot` is
the table when the query's statement ran, `early` the history that a scan was
closed before its cursor was exhausted.

### HttpNode

One execution: workers take rows from a shared queue, wait for the limiter, send,
back off and retry, and store what they get; or one loop sends chunks.  Time
passes in units, a timer fires at its time or later.  A server answers, answers
null, or fails; in array mode an answer is up to `MaxItems` output rows per input
row, and `Expansions` are the ways in which a chunk may turn into rows.  A request
that is never answered is excluded by fairness only in `Settles`.

### AccessControl

Each statement of better-sqlite3 commits by itself, so every operation is split
into its statements, and processes interleave between them and may end there.
`halfDone` and `revoked` are histories of reviews that were cut short or decided
twice and of revocations.  For every planning the model keeps what the user was
refused at *every* moment since it began (`never`): a plan may rely on a grant
that existed at some moment of the planning, and on none that never did.
`getGrantedSchema` reads the column grants table by table in the order of the
schema: `unread` are the tables still to be read, `FirstOf` is the next.
Passwords, tokens and sessions are left out.

### FieldFlow, WriteEnrichment, SchemaValidator, SchemaTraits

`FieldFlow` follows the fields of rows from promise to delivery.  The planner
enriches step after step and notes in `fieldMap` what each will deliver;
`WriteEnrichment` computes a write's payload from the step's own fields, the
answer of the language model and the values the planner sets itself, with the
field registry and its priorities; then the checks of `plan()`, the form of the
command line, `planWithMissingValues` and the validation right before execution.
A row is the set of its fields.  `Takes` says whether the cleaning leaves a value
alone: it is no word in a column of whole numbers (the types INT, INTEGER, SERIAL and
BIGINT) and not outside the list of a CHECK.  `MistypedValue` is the validation's own
table of types, in which NUMERIC, REAL, SMALLINT, BOOLEAN and JSONB take no text
either; `Overlooked` names the texts that the one lets pass and the other refuses, and
`ChecksAgree` says that there are no others.
`lossy` marks the steps behind a loss which the
planner does not look at (a removed or renamed field, a failed HTTP call, a union or
choice of inputs, the summary of an update, a query without columns, an empty one of
several inputs); `waived` the steps whose errors an answer about another
step removed.

## 3. Runs

| Run | Configuration | Properties | Shows |
|---|---|---|---|
| `steps` | `MCSteps`, `Steps.cfg` | `TypeOK`, `CallBound`, `OutcomeJustified`, `UntakenNotRun`, `MergeComplete`, `RunsAsPromised`, `Termination` | policies, retries, timeouts, late attempts, fallbacks, conditionals, merges; the scheduler implements `PipelineRun` |
| `regions` | `MCRegions`, `Regions.cfg` | `ResolvedQuiet`, `StartedOnce`, `LLMOvershoot`, `HardCapOnIterations`, `Termination` | parallel branches and loops; LLM calls of concurrent branches that exceed the cap |
| `compiler` | `MCCompiler`, `Compiler.cfg` | `CycleReported`, `GraphFaithful`, `AlgorithmsCorrect` | all intents of up to three steps; on every graph that results the algorithms of `PipelineGraph` agree with their definitions |
| `session` | `SessionHistory`, `Session.cfg` | `Chronological`, `CompleteUnlessOverlap` | overlapping and failing summaries |
| `plan_service` | `PlanService`, `PlanService.cfg` | `CacheFresh`, `ServedFresh` | schema changes, crashes and restarts of two processes on one cache |
| `write` | `MCWrite`, `Write.cfg` | `PoolSound`, `ParametersBound`, `PlanKept`, `EveryRowOnce` | two write executions at once, every mode and path, failing statements, retries |
| `access` | `MCAccess`, `Access.cfg` | `ReviewsComplete`, `GrantsJustified`, `PlannedWithinGrants`, `SnapshotSeen`, `JoinsCorrect` | two processes that request, review, revoke and plan over one grant store, one of which may die; join paths on all small schemas |
| `query` | `MCQuery`, `Query.cfg` | `AnswersCorrect`, `BudgetExact`, `ProtocolKept`, `FiltersMeanTheSame`, `SplitQueriesKeepJoin` | the operators' answers against a definition on whole tables; the rows that raw SQL and Calcite select against theirs, which reads filters differently; faults, early close, a concurrent insert; how far a filter means the same in SQL and in JavaScript |
| `http` | `MCHttp`, `Http.cfg` | `OutputComplete`, `RequestsWithinLimits`, `Settles` | workers, limiter, retries and batches against an unreliable server |
| `enrichment` | `MCFieldFlow`, `Enrichment.cfg` | `FieldsDelivered`, `ColumnsFilled`, `PrecedenceKept`, `ChecksAgree` | planning, forms, validation and execution of pipelines of up to five steps |
| `parallel_heads` | `MCRegions`, `ParallelHeads.cfg` | `BranchesRun` | violation: the first step of a branch is never executed |
| `required_columns` | `MCFieldFlow`, `RequiredColumns.cfg` | `RequiredBlocks` | violation: a missing required column does not block |

Several properties are conjunctions of named parts, which stand before them in
their modules with a comment each.  The two violations are disagreements between
the code and what its comments or prompts say of it; "findings" in
`PROJECT.json` quotes them.  Further disagreements are in section 5.

### Bounds

- `steps`: a chain of two steps between input and output, the first under every
  policy, with 0 and 2 retries; a fallback that exists, is absent, or is also a step; a cyclic graph;
  conditionals as the tests build them by hand, as the compiler builds them, and
  two in a row; merges.  A budget of 2 LLM calls and 2 iterations is exhausted
  in some behaviours and not in others.  Two retries give a chain that has a first, a
  middle and a last attempt.
- `regions`: diamonds; three branches in batches of two (a full batch and an
  incomplete one); branches that share a successor; a rejection while siblings
  run; an LLM step and then three LLM branches in batches of two with a cap of 2, so that
  the first batch starts with one call left and exceeds the cap by one, which is as
  much as `LLMOvershoot` allows; `forEach` over up to
  3 items with a cap of 2 iterations; `while`; a conditional in a body; a loop
  without body; two loops on one budget.
- `session`: a session of 4 turns of which 2 are summarised (30 and 15 in the
  code) and 8 turns in all, so that up to four summaries can be in flight together.  The constants
  of the theorems are arbitrary.
- `compiler`: up to three steps, three ids, 73 step shapes: duplicate ids,
  dangling references, every kind of step, and circular references through
  `dependsOn`, branches, bodies and merges.
- `plan_service`: two processes, one request in flight, one plan, one message,
  one value, one datasource, two versions, one row.  Two processes and two versions are what a
  stale row needs.  Two datasources with one process were checked as well and the
  theorems hold for any number.
- `write`: three rows in batches of two (a full batch and the rest), rows that lack
  fields, literals that are immutable, in other letters, references or SQL
  expressions, conditions that are empty lists, lists, null and values; two
  writers, who share one payload object; three clients, so that two
  transactions leave one over and two nested ones do not; two failures and two attempts, so that a
  retry can follow a fallback; cursors that keep up to two ids.
- `access`: three tables in a chain whose middle one is not granted, a withheld column,
  the admin and one user, one request, one plan per process, one crash, one
  revocation.  Two reviewers of one request and a planning that overlaps a
  review or a revocation both happen.  Join paths: every schema of four tables and up to
  three keys, self references and parallel keys included.
- `query`: tables of 0, 3 and 4 rows with nulls, duplicates and texts in both
  letters; batches of 2, a row budget of 3 and an in-memory limit of 2, so that batches are
  incomplete, the budget is met and exceeded, and sorts spill; two clients, a second query
  that stops after one row, a writer, one fault.  `FiltersMeanTheSame` is evaluated on
  every pair of 31 filters and all rows of two number and two text columns: comparisons,
  lists and LIKE over numbers, texts in both letters, the pattern "%", nulls, and values
  of the wrong type.  The order of texts, which the collation of the database decides,
  is left out.
- `http`: 0 to 3 rows, 0 to 3 workers, 0 to 2 retries, chunks of 0 to 3, with and
  without the limiter, a row whose URL does not resolve.
- `enrichment`: two data sources with three tables, a foreign key inside a source and one
  between them, an enum, session and time columns; pipelines of up to five steps of every
  kind, also with a write or a transform listed before the query it depends on, with a
  transform of two inputs and with two queries in a row; several
  answers for every query, transform and write, among them one that does not parse, one
  for another table, one without columns and one with null and unresolved values.
  The written tables have columns of type INT, BIGINT, NUMERIC, BOOLEAN, JSONB and text, and the
  answers put words, numbers as texts, truth values and objects into them.

### Fairness

`FairSpec` of the scheduler assumes weak fairness of `Run`, `Resolve`, `Reject`, of the tasks'
own steps and of the two timers: the event loop runs ready continuations, timers
fire, and a merge is a computation in memory.  Nothing is assumed of a node's
`execute`, which may never settle; `Termination` holds all the same, because the
timer does.  The exception is the first execution of a query node, which has no
timeout (scheduler.ts:578), so `Termination` is about graphs without query nodes.
`HttpNode` assumes weak fairness of the event loop, of time, and of the server's
answers: `fetch` is called without a timeout, so without an answer the node does
not end (the scheduler's timer ends the wait for it, not the node).

Deadlock is checked in the scheduler's runs.  Sessions, compilations, services and
executions may stop at any point (all turns added, an intent compiled, every
process down for good, all executions over), so their configurations do not check it;
`PoolSound` has the circular waits of the write node.

### Mutants

Every property of a passing run comes with a mutated definition under which TLC
finds it violated: a dropped guard, a boundary that is off by one, an error
that is swallowed, a step left out.  The mutants stand next to the definitions they replace,
under a comment that says what the bug would be, and no specification uses
them.

## 4. Proofs

| Module | Theorem | States, for every value of the constants |
|---|---|---|
| `SchedulerProofs` | `TypeCorrect` | `Spec => []TypeOK` |
| `SchedulerProofs` | `QuietWhenResolved` | `Spec => []ResolvedQuiet` |
| `SchedulerRunProofs` | `RunInvariance` | `Spec => []RInv`, the inductive invariant |
| `SchedulerRunProofs` | `ImplementsPipelineRun` | `Spec => RunsAsPromised`, the refinement |
| `SchedulerRunProofs` | `NodesStartOnce` | `Spec => []StartedOnce` |
| `SchedulerRunProofs` | `CallsWithinAllowance` | `Spec => []CallBound` |
| `SchedulerRunProofs` | `OutcomesJustified` | `Spec => []OutcomeJustified` |
| `SessionProofs` | `HistoryChronological` | `Spec => []Chronological` |
| `SessionProofs` | `HistoryComplete` | `Spec => []CompleteUnlessOverlap` |
| `PlanServiceProofs` | `ServiceTypeCorrect` | `Spec => []TypeOK` |
| `PlanServiceProofs` | `CacheStaysFresh` | `Spec => []CacheFresh` |
| `PlanServiceProofs` | `PlansServedFresh` | `Spec => []ServedFresh` |
| `AccessProofs` | `AccessInvariance` | `Spec => []AInv`, the inductive invariant |
| `AccessProofs` | `GrantsAreJustified` | `Spec => []GrantsJustified` |
| `AccessProofs` | `ReviewsAreComplete` | `Spec => []ReviewsComplete` |
| `AccessProofs` | `PlansStayWithinGrants` | `Spec => []PlannedWithinGrants` |
| `AccessProofs` | `SnapshotsWereSeen` | `Spec => []SnapshotSeen` |
| `HttpProofs` | `HttpInvariance` | `Spec => []HInv`, the inductive invariant |
| `HttpProofs` | `RequestsStayWithinLimits` | `Spec => []RequestsWithinLimits` |
| `HttpProofs` | `OutputIsComplete` | `Spec => []OutputComplete` |
| `WriteProofs` | `PoolInvariance` | `Spec => []PoolInv`, the inductive invariant |
| `WriteProofs` | `PoolStaysSound` | `Spec => []PoolSound` |
| `WriteProofs` | `PlanInvariance` | `Spec => []PlanInv`, the inductive invariant of the plans |
| `WriteProofs` | `ParametersAreBound` | `Spec => []ParametersBound` |
| `WriteProofs` | `PlansAreKept` | `Spec => []PlanKept` |
| `WriteProofs` | `RowInvariance` | `Spec => []RowInv`, the inductive invariant of the rows |
| `WriteProofs` | `RowsAreWrittenOnce` | `Spec => []EveryRowOnce` |
| `FieldFlowProofs` | `FlowInvariance` | `Spec => []FInv`, the inductive invariant |
| `FieldFlowProofs` | `PlannedFieldsArrive` | `Spec => []FieldsDelivered` |
| `FieldFlowProofs` | `ColumnsAreFilled` | `Spec => []ColumnsFilled` |
| `FieldFlowProofs` | `PrecedenceIsKept` | `Spec => []PrecedenceKept` |
| `FieldFlowProofs` | `ChecksDoAgree` | `Spec => []ChecksAgree` |

The assumptions are those the modules name, and each is a fact about the shape of
the inputs: `GraphAssumption` and `LimitAssumption` (the graphs are built from
declared nodes and typed edges, the limits are numbers, at least one branch may
run), `SessionAssumption` (a summary replaces some turns and not more than there
are), `ServiceAssumption`, `AccessAssumption` (seeded
grants, columns and targets belong to the users and the schema, no user is called "nobody",
which stands for a process without a login), `JobsAssumption` (the numbers of a
payload are numbers), `StatementAssumption` and `WriteAssumption` (column names are
distinct, an UPDATE may always set `deleted_at`, batches are not empty; a pool of
at least one client, finitely many executions in flight, rows that come as a list,
payloads with the fields and modes of their type, whose columns are distinct, as the
enrichment lists a column only once), `SchemaAssumption` (tables have
names, a default is one of the CHECK words, `updated_at` is a time) and
`FlowAssumption` (a step depends on steps of its pipeline, answers, configurations and
values have the fields of their types).  Where an action has many cases, its effect on what the
invariant is about is first stated as a *step class*, an operator such as
`CalmStep`, `Steps`, `Turns` or `PlanEffect`; that a class preserves the invariant
is proved once, and that an action belongs to the class is a short lemma.

**Scheduler, `ResolvedQuiet`.**  It is not inductive: that task 1 is out of nodes
says nothing of its branches.  The invariant adds that tasks, environments and
chains refer to each other properly (`CpuOK`, `TaskOK`, `ChainOK`), that a chain
with a waiter has a task in the race which waits for it alone, and `Tree`: every branch or
iteration that is not done has an *older* task that waits for it, or waited and
was rejected.  When task 1 takes up its loop again its children are done, and by
`Tree`, as a task's parent is older than itself, so is everything else.
(`Tree` follows parents to ever smaller numbers; the step is an argument about
the least task not done.)

**Scheduler, what happens to a node.**  `RInv` extends that invariant.
`CpuHead` says that a task in the middle of a synchronous section is the head of
`cpu`, so two tasks never test a status before either of them has set it.
`GuardedOK` says that a guarded node is running exactly while one task waits for it
in the race, and that a pending one was never started.  `ChainsFit` and
`CallsCounted` give every start of a node one chain, with or without a waiter, and
bound its calls by the attempts the chains have made (a cardinality); hence
`CallBound`, late attempts after a lost race included.  `SettledOK` says that a
node is settled, still to be visited by `run()` or in execution, unless some task
rejected, and `RejectedOK` why it did.  The steps of tasks and chains fall in five
classes: `CalmStep` (no standard node is started or called), `SpawnStep` (a task,
and for an iteration an environment, is added), `BeginStep`, `FinishStep` and the
steps inside a retry chain.  The refinement maps them to stuttering or `Skip`, to stuttering,
to `Begin`, to `Finish` and to stuttering; `Refuse`, `Start`, `Resolve` and `Reject`
of `PipelineRun` are the steps of `run()` itself.

**Session.**  A summary replaces the history by a snapshot, so the invariant has
to hold of the snapshots in flight: `CallOK` says of each that it is in order, that
it covers nothing that has not been said yet and, as long as no turn was added
meanwhile, that it covers everything.

**Plan service.**  `Fresh` says, as long as `faults` is empty: all processes that
work with the cache loaded the same versions (`Agreed`); a process in the middle of its
check has recorded the datasources it has passed (`Checked`); between the invalidation
and the save there is no row that contradicts the hash (`ToBeSaved`); a process that
uses the cache has every one of its versions recorded (`Known`); rows, plans and
looked-up entries agree with them (`RowsFresh`, `PlansFresh`, `HitsFresh`).  The
order "invalidate, then save the hash" is what carries the proof: a crash between
the two leaves a mismatch that the next start finds.

**Access control.**  Half of `AInv` follows a request.  `WorkKnown` says what a
process between two statements of a review knows about it, `GrantOwed` and
`LogOwed` that an approved request is in force and every statement logged, *or*
somebody is still at the statement that will see to it (or died there or was
overtaken, which `halfDone` records).  The
other half follows a plan: `NeverNow` says that `never` is at all times part of what
the user is refused now, so that whatever a gate allows now is outside of it, and
`GrantsRead` that the tables read so far lie outside of it too and that those
still to be read are readable, unless they were revoked meanwhile.

**HTTP node.**  The queue is always a tail of 1, 2, ..., N (`QueueOK`), so an item
is taken or not by its number alone.  A taken item is with one worker or stored,
never both (`Apart`, `StoredOK`, `RowsOnce`), and the number of requests sent for it
follows from the worker's attempt (`SentOK`).  For one loop, stored rows are those of
the first items in order (`BatchOK`); `PaceOK` relates the age of the last call to the
last request.

**Write node.**  `PoolConserved` is an equation about a cardinality.  `HoldsOK`
determines the clients of an execution from its path and its program counter (at
most two open transactions and one query); a step of one execution changes only its
own pairs, so the equation is kept.  `NoCircularWait` follows: if everyone waited,
only open transactions would hold clients, and they hold fewer than the pool has, so
one would be free.

**Write node, the plans.**  `PlanInv` adds to `PoolInv` that the payloads in memory
are payloads (`execute` rewrites them in place) and `PlannedOK`: the statements an
execution is sending are bound, have the operation and the conditions of its plan
and set no blocked column.  The payload is shared: while one execution sends its
statements, another may resolve references, strip columns or turn the DELETE into
an UPDATE in the same object.  So what a path used of it has to survive those
rewritings; `KeptNow` says so of the execution that rewrites, `KeptLater` of the
others.  Each path has one lemma about its statements.  The numbers of placeholders
come from `Filter`, a recursive function, and `Numbered`, a cardinality: that the
placeholder of an entry is its rank among the parameters is shown by least
counterexample.  Two exceptions of `PlanKept` and one of `ParametersBound` were
found by this proof, not by the payloads that had been checked; the run has payloads
for them now.

**Write node, the rows.**  `EveryRowOnce` compares the values in the log with the input
rows, so `RowInv` has to connect three things.  `PlansRows`: what an INSERT plans, on any path,
writes each row once; the shared payload may be rewritten meanwhile, but not in what this
is about (`SentLater`).  `Followed`: as long as all that took effect is of this attempt and
path, it is a prefix of the plan, so that an execution that reports success has sent all of
it.  And what tells attempts apart: nothing in the log is of a later attempt, nothing of this one
before a path is chosen, and on the Calcite path nothing of this attempt is from another path; hence
after a fallback either nothing had been written or `AtOnce` fails.  That a plan writes
each row once is about lists: the values written to a column are the concatenation of what
the statements give it, each of them the next piece of the column (`FlattenPieces`, by
least counterexample).  In a batch, the k-th value belongs to row (k - 1) / n, rounded down, and to column
(k - 1) mod n, each pair exactly once as the columns are distinct (`DividedOnce`, `BatchCells`);
the batches cut the rows where the next one begins, the last one at the end (`BatchCuts`).

**Field flow.**  `FInv` says that what `fieldMap` promises of a step is covered by
its payload and the promises of its inputs (`PromisesOK`, through `Promised`), that
nothing runs before all steps are enriched and checked (`PlanOK`, `RunOK`), and `PromisesKept`.
`CInv` adds, for an accepted plan, that every column of an unwaived write is covered by a static
value, an alias or a field the search of `getUpstreamFields` finds (`SourcesOK`), and
that a step without promised fields passes on what the search finds behind it
(`PassedOn`); so what the search finds through such steps is in the row.  `Stages` (the operations of
a transform) and `Reached` (the search) are recursive functions.  The library's
induction theorems cannot be instantiated, so facts about them are proved by
least counterexample: `LeastNat` (from `WFMin`, the order of the naturals being well
founded) gives the smallest stage at which the fact fails, and the stage before it
contradicts that.  The same argument shows that the functions exist.  This proof
found two things that the checked pipelines had not shown: `TransformsSafe` needs its
inputs to be enriched before it and not empty, and a query without columns
is lossy; the properties say so now and the run has pipelines for both.

**Field flow, the values.**  `PrecedenceKept` and `ChecksAgree` speak of a
step's payload, while its values come out of a chain of mergings and a cleaning, and
the form or a second answer may change them later.  `EInv` keeps, for every write
step that was enriched, its payload in terms of the configuration at hand and of the
columns the user gave (`SettledOK`): session and time columns have the planner's
value and literals the step's wherever the column takes them, and every other word is
one the cleaning accepts (`WordsSettled`).  `ConfigsOK` says that
configurations keep their fields, and `AskedOK` that an incomplete plan asks for
exactly the columns that are missing, so the form completes it.  The proof follows
one column through the mergings (`MergeLays`: the later source lies over the earlier
ones) and through the cleaning (`CleanKeeps`, `CleanWords`).

Only model-checked, and why:

- `Termination` and `Settles`: liveness under fairness is out of the prover's reach.
- Everything in `PipelineCompiler` (`Visit`), `QueryExecution` and `QueryOperators`
  (operator trees): they reach recursive operators, as the code does, with which
  the prover loses its SMT backend.
- `LLMOvershoot`, `HardCapOnIterations`, `MergeComplete`, `UntakenNotRun`: their statements
  are about the graphs of the runs (so many branches, so many loops, the shape of the
  conditionals), not about every graph.
- `JoinsCorrect`, `FiltersMeanTheSame`, `SplitQueriesKeepJoin`: what a search or an evaluator
  computes, by induction over its data.
- The bounds on counters in `AccessControl.TypeOK` (the sum of the plans), which no
  theorem needs; the proofs use `Types` without them.

## 5. Observations

Met while modelling.  A property that has to leave one of these out says so in
its comment.

**Scheduler and compiler**

- The first step of a parallel branch is completed with the parallel node's
  input instead of being executed (scheduler.ts:797; run `parallel_heads`).
- `executeSubgraph` executes a merge as soon as one branch arrives (scheduler.ts:831),
  while `run()` waits for all sources; `MergeComplete` is checked where `run()`
  reaches the merge.
- The walk that collects a loop's body takes in a step after the loop that is
  fed only by it (scheduler.ts:1106): it is marked completed and not run.
- `checkBudget` is tested before a node and the LLM counter is charged
  when the call returns (scheduler.ts:710), so branches in flight together can exceed
  `maxLLMCalls` (README.md:651); `LLMOvershoot` bounds by how much.  Loops one
  after the other stay within the cap on iterations together (`HardCapOnIterations`),
  because the budget is checked again before every node of a body; with nested loops the outer
  iteration is charged after the inner ones may have used the budget up
  (scheduler.ts:1050), which exceeds the "hard cap" of README.md:652.  A `forEach` over more
  items than the cap is cut short without the error that README.md:659 speaks of
  (scheduler.ts:1025-1029).
- A query node executes its query twice, the first time without a
  timeout (scheduler.ts:578 and 595), and its errors bypass the error policy.
- The walk along an inactive branch stops at merges but not at the
  merge of a nested branch it enters from the side (graph-utils.ts:178, 210); a merge
  that is itself the target of a branch is skipped with it (scheduler.ts:362).
  Ordering uses data edges only (graph-utils.ts:31 and 126).
- Fallbacks run their node whatever its status, so a fallback that is also a
  step runs twice.  A parallel node with `maxConcurrency` 0 would loop for ever
  (scheduler.ts:776).
- A conditional or parallel step with `dependsOn` reads `inputs['input']`
  (scheduler.ts:906) while the compiler keys that edge by the id of the step it depends
  on (pipeline-compiler.ts:500).  A step that is only the target of a branch is fed
  from the pipeline's input (pipeline-compiler.ts:480), by an edge with the same key as
  the branch's own.  Edge ids join step ids by underscores: `x_y` before `z` and `x`
  before `y_z` give one id, and the later edge replaces the earlier one.

**Session, cache and service**

- Turns added while a summary is written are lost when it returns
  (session-manager.ts:153); `CompleteUnlessOverlap`, about histories without an overlap, is what remains.
- A failed lookup of the stored hash counts as a first start (SchemaStateManager.ts:23;
  README.md:157 promises an invalidation), a failed invalidation as an
  empty cache.  Both are `faults` of `PlanService`.
- Values a user entered are part of the plan that is stored after its execution
  (api/types.ts:113; SemanticCache.ts:26 speaks of structure only).  The documented similarity
  threshold is 0.92, bootstrap.ts:140 uses 0.96.  The HTTP handlers cache plans
  with errors (execute.ts:248), the command line does not (cli.ts:991).  A hit skips the
  checks of `plan()` (execute.ts:44).  Requests for one plan share and
  change one object (api/types.ts:102).
- `PlanSerializer` restores node maps from objects, where ids that look like integers
  come first; `PipelinePersistence` makes two inserts without a transaction (line 108).

**Writes**

- `transaction()` holds a client while its statements take others from the pool
  (postgres-backend.ts:54): they commit one by one, ROLLBACK undoes nothing, a
  retry repeats the rows already written, and nested transactions of upserts
  can use up the pool.  `NoCircularWait` says from which size it suffices.
- When Calcite fails half way through the rows, the catch falls through to the
  manual path, which starts over (write-node.ts:361).
- An UPDATE by cursor numbers SET and WHERE from `$1` both (write-node.ts:250) and is refused by the
  database.  An `updateColumn` that is not among the columns, or for which the first row
  has no value, gets `$0` (write-node.ts:1066).  `ParametersBound` names both.
- The cursor belongs to the process, not to the session (README.md:186, 318); its table is
  not compared; `clear()` may remove a newer one; the scheduler reads
  `intent.filter`, which no intent has, so large results have no filter; the
  summary row of an update becomes a cursor over the id `undefined`.
- Rows that hold the first where column make an UPDATE of a DELETE or an insert (write-node.ts:474);
  `EveryRowOnce` leaves such inserts out.  An insert without columns and literals is not idle: the
  early return asks for a payload without `staticValues` (write-node.ts:559), which no enriched
  one is, so the database gets a statement without columns and refuses it.
  Soft delete comes after the stripping of immutable columns.  A soft
  delete by manual SQL with columns or a template sets what the rows give and does not mark
  the row, and a condition on `deleted_at` keeps the mark out of the SET list
  (write-node.ts:174-194, 618).  A literal condition replaces
  `whereColumns`; a DELETE by rows ignores literal conditions; empty lists are dropped.
- Enum spelling is corrected for some paths only; Calcite compares with `= NULL`.

**Queries**

- A scan that is closed early releases its client with the transaction open; a later
  insert on that client is reported as done and not committed (`CleanUnlessEarly`).
- Filters have two readings.  Filters with equal operator and value "should be combined
  with OR" (query-ast-builder.ts:475), which the operators do; raw SQL (query-executor.ts:209)
  and Calcite join them by AND.  A pushed-down predicate ignores the case of texts in
  equality, membership and LIKE, the SQL of the other paths does not.  `AnswersCorrect`
  holds each path to its own reading and both to one where the filters leave no choice
  (`ReadAlike`).
- The same predicate also has two meanings on the operators' path, as a `WHERE` in Postgres
  and as a `HAVING` in the evaluator: the case of texts counts only in the latter
  (postgres-backend.ts:405, expr-evaluator.ts:281), LIKE of a null selects nothing in the
  one and throws in the other, and a number beside a text is refused by the server and
  unequal in JavaScript.  `FiltersMeanTheSame` says what is left of the agreement.
- Raw SQL turns a case-insensitive `!=` into `=`.
- `HAVING` without aggregation replaces the pushed WHERE; raw SQL and Calcite ignore
  `HAVING`, `distinct`, aggregations and `maxRowsPerNode` (README.md:659); an empty array counts
  as a grouping; a limit of 0 is no limit; `COUNT` counts nulls; a scalar
  `!=` is refused; `FilterOperator` drops the rest of a batch once it is full
  (filter-operator.ts:83, harmless while predicates are pushed).
- A reference to an upstream value changes the plan's intent (query-executor.ts:279), and
  a lookup across databases that finds no or several rows throws.  `JoinOperator` is built
  by tests only.

**Access**

- A request is marked, granted and logged in three statements; a process that ends
  in between leaves an approved request without a grant.  Two command lines can
  decide one request differently; it then shows the later decision, and a grant of the
  earlier one stays.  `ReviewsComplete` and `GrantsJustified` exempt both (`halfDone`).
- A column approval without a table grant has no effect (cli.ts:586); a first column
  grant narrows the visible schema while `checkColumnAccess` still inherits from the table.
- Grants are read table by table while a revocation makes two deletes, and are not read again
  by `execute()` (pipeline-engine.ts:970).  `revoke*`, `grantColumnAccess` and
  `validatePipelineIntent` (README.md:140) have no callers; rejections at the gates are not audited
  (README.md:143); the HTTP login grants the admin all tables again.

**HTTP**

- Retries do not pass the limiter, concurrent workers break its interval, and the
  first two chunks of a batch are not spaced.  Empty arrays for all rows count as
  "All HTTP requests failed".  A row whose URL does not resolve rejects the
  node while other workers go on.  `concurrency` 0 is an error.

**Enrichment**

- Required columns never block an execution (schema-validator.ts:452; run `required_columns`).
- Every dynamic user-supplied column of a CRM insert is reported missing.
  `planWithMissingValues` checks its own step again and clears the errors of all;
  the form after an unresolvable column never asks for it and clears the errors
  unchecked; for tables outside the CRM it asks nothing.  The API executes in spite
  of the errors (pipeline-engine.ts:974).  `waived` marks these steps.
- An "update ALL rows" that the user confirmed is refused by the validation.  A session
  value becomes text when the answer names another table, and is refused; null literals
  are accepted at planning and refused later; stripped values stay resolved, so nobody is asked
  for them.
- The fallback for an answer that does not parse loses session values, aliases and
  conditions.  Session columns get 1 whoever the user is.  The mode of the answer
  overrides the step's while timestamps follow the step's operation.
- A word for a column of type NUMERIC, REAL, SMALLINT, BOOLEAN or JSONB survives the cleaning,
  which strips only INT, INTEGER, SERIAL and BIGINT columns (pipeline-engine.ts:2725-2738),
  and ends the pipeline at the validation (schema-validator.ts:551-580); so does a number
  written as a text, and a word that the cleaning itself takes from the CHECK list of such a
  column.  `Overlooked` names them.  A form that is skipped overwrites a literal `updated_at`.
- Aliases are searched in all query nodes, upstream or not; the columns added to them are
  not in `fieldMap`.  An insert without input rows writes one row; of several inputs only
  the first rows count; removed and renamed fields stay promised; sort keys are not
  sanitised; a transform that the intent lists before its input is not sanitised at all,
  and one of several inputs that delivers no rows takes its promised fields along;
  behind a query without columns the search for fields goes on, so a write may count
  on fields the query does not pass on; routing takes the last source with a table, enrichment the first.

## 6. Plan

Done: the scheduler with its graph algorithms and its abstract specification, the
compiler, the session history, the plan service with cache and schema check; writes, queries,
HTTP, access control and the enrichment of plans; the theorems of section 4.

Next, in this order:

1. `UntakenNotRun` and `MergeComplete` for the class of graphs for which they
   hold, once that class is defined.
2. `Persistence`: the two inserts of a finished pipeline and a crash between them.
3. The composition of `PlanService` and `AccessControl`: a cached plan of another
   user.

## 7. Not modelled, and why

- Prompts and replies of the language model, as text: every intent and, within the
  bounds, every answer is possible.
- Calcite's and Substrait's internals (external services; the SELECT and the writes the
  code asks Calcite for are modelled, the Substrait translator has no caller), drivers.
- Reading DDL text (`DDLParser.ts`): from text to tables, without state; the
  model starts from parsed tables.  `crm-schema.ts` and `config/` are static data.
- Embeddings and similarity: equality of messages.
- Dates and the builtin functions that no predicate uses; projection pruning, which changes
  no answer; `JoinOperator`, which only tests construct.
- The temp store, the record of finished pipelines, the registry's connections.
- Passwords, tokens, conversations, workspaces, the layout of responses, rendering in the
  terminal, trace events and logging.
