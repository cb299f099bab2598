----------------------------- MODULE WriteNode -----------------------------
(***************************************************************************)
(* Executions of write nodes: createWriteNodeDefinition().execute, the     *)
(* foreign-key check, the connection pool behind PostgresBackend, and the  *)
(* session cursor that the scheduler stores at the end of every pipeline.  *)
(*                                                                         *)
(* An execution runs from one await to the next without interruption.      *)
(* Every SQL query waits for a client of the pool; transaction() holds a   *)
(* client of its own while the statements of its body take others, so they *)
(* commit one by one and ROLLBACK undoes nothing.                          *)
(***************************************************************************)
EXTENDS WriteStatements, FiniteSets

Modes == {"insert", "insert_ignore", "update", "upsert", "delete"}
PayloadFields == {"mode", "columns", "static", "staticWhere", "where", "conflict", "update",
                  "aliases", "fields", "soft"}

\* The enrichment puts a column into the list only if it is not there yet.
IsPayload(p) ==
    /\ DOMAIN p = PayloadFields
    /\ p.mode \in Modes /\ p.soft \in BOOLEAN
    /\ {p.columns, p.where, p.conflict, p.update} \subseteq Seq(ToSet(Columns))
    /\ UNION {DOMAIN p.static, DOMAIN p.staticWhere, DOMAIN p.fields} \subseteq ToSet(Columns)
    /\ IsInjective(p.columns)
    /\ p.soft => "deleted_at" \in ToSet(Columns)

CONSTANTS
    Writer,      \* executions in flight, each of a session of its own
    Node,        \* write nodes of plans in memory
    PayloadOf,   \* [Node -> set of payloads the enriched plan may hold]
    InputRows,   \* the inputs an execution may receive
    FkCols,      \* columns with a foreign key that is checked
    PoolMax,     \* clients of the pool (config.maxConnections, default 10)
    MaxIds,      \* largest result a cursor keeps the ids of (50)
    UseCalcite,  \* whether the engine was given a Calcite client
    MaxErrors,   \* bound: failures of the database and of the service
    MaxRuns,     \* bound: executions started by one writer
    MaxAttempts  \* bound: attempts of one execution (errorPolicy retry)

ASSUME WriteAssumption ==
    /\ PoolMax \in Nat \ {0}
    /\ {MaxIds, MaxErrors, MaxRuns, MaxAttempts} \subseteq Nat
    /\ UseCalcite \in BOOLEAN
    /\ IsFiniteSet(Writer)
    /\ \A n \in Node : \A p \in PayloadOf[n] : IsPayload(p)
    /\ \A rows \in InputRows : rows \in Seq(ToSet(rows))

VARIABLES
    payload,   \* the payload objects; execute changes them in place
    writer,    \* the executions
    log,       \* the statements of each execution that took effect
    free,      \* clients of the pool nobody holds
    cursor,    \* SessionCursorStore: one per process
    errors     \* bound's counter: failures so far

vars == <<payload, writer, log, free, cursor, errors>>

\* "$lookup.id": a value to take from an upstream node's output.
Ref == "$ref"
Upstream == {"u1", "u2"}

NoCursor == [ids |-> <<>>, from |-> "none"]

Idle == [pc |-> "idle", node |-> "none", rows |-> <<>>, up |-> "u1", plan |-> Throw,
         mode |-> "none", path |-> "none", held |-> 0, next |-> 1, by |-> "none",
         runs |-> 0, attempt |-> 1]

Init ==
    /\ payload \in {f \in [Node -> UNION {PayloadOf[n] : n \in Node}] :
                        \A n \in Node : f[n] \in PayloadOf[n]}
    /\ writer = [w \in Writer |-> Idle]
    /\ log = [w \in Writer |-> <<>>]
    /\ free = PoolMax
    /\ cursor = NoCursor
    /\ errors = 0

P(w) == payload[writer[w].node]

\* Moves w on; every other field of its record stays.
Become(w, new) == writer' = [writer EXCEPT ![w] = new]

\* Everything w holds goes back to the pool.
Fail(w) ==
    /\ Become(w, [writer[w] EXCEPT !.pc = "failed", !.held = 0])
    /\ free' = free + writer[w].held

\* Something that is not the program's doing fails.
Fault == errors < MaxErrors /\ errors' = errors + 1

-----------------------------------------------------------------------------
(* The synchronous first part of execute.                                  *)

\* The lookup node gave exactly one value: it replaces the reference, in the
\* payload.
Resolved(p, up) == [p EXCEPT !.static = [c \in DOMAIN @ |-> IF @[c] = Ref THEN up ELSE @[c]]]

HasRef(p) == \E c \in DOMAIN p.static : p.static[c] = Ref

\* UPDATE: columns that ColumnClassifier blocks are deleted from staticValues.
Stripped(p) ==
    IF p.mode = "update"
    THEN [p EXCEPT !.static = [c \in DOMAIN @ \ BlockedCols |-> @[c]]]
    ELSE p

\* A table with deleted_at: DELETE becomes an UPDATE, in the payload.
SoftDeleted(p) ==
    IF p.mode = "delete" /\ p.soft
    THEN [p EXCEPT !.mode = "update",
                   !.static = [c \in DOMAIN @ \cup {"deleted_at"} |->
                                   IF c = "deleted_at" THEN SqlNow ELSE @[c]]]
    ELSE p

Begin(w, n, rows, up, attempt) ==
    \E found \in IF HasRef(payload[n]) THEN {"none", "one", "many", "absent"} ELSE {"absent"} :
        LET p == IF found = "one" THEN Resolved(payload[n], up) ELSE payload[n]
            q == SoftDeleted(Stripped(p))
            new == [writer[w] EXCEPT !.pc = "fk", !.node = n, !.rows = rows, !.up = up,
                        !.plan = Throw, !.mode = payload[n].mode, !.path = "none",
                        !.next = 1, !.by = "none", !.attempt = attempt]
        IN  IF found \in {"none", "many"}
            THEN Become(w, [new EXCEPT !.pc = "failed"]) /\ UNCHANGED payload
            ELSE Become(w, new) /\ payload' = [payload EXCEPT ![n] = q]

\* The scheduler starts a write node.
Start(w) ==
    /\ writer[w].pc = "idle" /\ writer[w].runs < MaxRuns
    /\ \E n \in Node, rows \in InputRows, up \in Upstream : Begin(w, n, rows, up, 1)
    /\ log' = [log EXCEPT ![w] = <<>>]
    /\ UNCHANGED <<free, cursor, errors>>

\* errorPolicy "retry": execute is called again with the same payload and input.
Retry(w) ==
    /\ writer[w].pc = "failed" /\ writer[w].attempt < MaxAttempts
    /\ Begin(w, writer[w].node, writer[w].rows, writer[w].up, writer[w].attempt + 1)
    /\ UNCHANGED <<log, free, cursor, errors>>

-----------------------------------------------------------------------------
(* validateForeignKeys, then the choice of the path.                       *)

\* Only staticValues are looked at; null and NOW() are not.
CheckedKeys(p) ==
    IF p.mode \in {"insert", "update", "upsert"}
    THEN {c \in DOMAIN p.static \cap FkCols : p.static[c] \notin {Null, SqlNow}}
    ELSE {}

\* One query per referenced table; a query that fails is skipped.
FKValid(w) ==
    /\ writer[w].pc = "fk"
    /\ CheckedKeys(P(w)) # {} => free > 0
    /\ Become(w, [writer[w] EXCEPT !.pc = "route"])
    /\ UNCHANGED <<payload, log, free, cursor, errors>>

FKViolation(w) ==
    /\ writer[w].pc = "fk"
    /\ CheckedKeys(P(w)) # {} /\ free > 0
    /\ Fault
    /\ Fail(w)
    /\ UNCHANGED <<payload, log, cursor>>

IsEmptyInput(rows) == \A i \in DOMAIN rows : DOMAIN rows[i] = {}

\* Sends the statements of a path, or fails before the first.
Run(w, path, rows, plan, by) ==
    /\ Become(w, [writer[w] EXCEPT !.pc = "send", !.path = path, !.rows = rows,
                                   !.plan = plan, !.next = 1, !.by = by])
    /\ UNCHANGED free

\* No rows: the WHERE clause comes from the cursor of the last query.
RouteCursor(w) ==
    LET p == P(w) IN
    /\ writer[w].pc = "route"
    /\ IsEmptyInput(writer[w].rows) /\ p.where # <<>>
    /\ IF cursor.ids = <<>>
       THEN Fail(w)
       ELSE Run(w, "cursor", writer[w].rows, CursorStatement(p, cursor.ids), cursor.from)
    /\ UNCHANGED <<payload, log, cursor, errors>>

\* No rows and no whereColumns: an insert goes on with one empty row.
RowsToWrite(p, rows) ==
    IF rows = <<>> /\ p.mode \in {"insert", "insert_ignore", "upsert"} THEN << <<>> >> ELSE rows

RouteRows(w) ==
    LET p == P(w)
        rows == RowsToWrite(p, writer[w].rows)
    IN  /\ writer[w].pc = "route"
        /\ ~(IsEmptyInput(writer[w].rows) /\ p.where # <<>>)
        /\ IF rows = <<>>
           THEN Become(w, [writer[w] EXCEPT !.pc = "done"]) /\ UNCHANGED free
           ELSE IF UseCalcite
           THEN Become(w, [writer[w] EXCEPT !.pc = "compile", !.rows = rows]) /\ UNCHANGED free
           ELSE Run(w, "manual", rows, ManualStatements(p, rows), "none")
        /\ UNCHANGED <<payload, log, cursor, errors>>

\* The service answers.
Compiled(w) ==
    /\ writer[w].pc = "compile"
    /\ CalciteStatements(P(w), writer[w].rows).ok
    /\ Run(w, "calcite", writer[w].rows, CalciteStatements(P(w), writer[w].rows), "none")
    /\ UNCHANGED <<payload, log, cursor, errors>>

\* The service cannot be reached, times out or refuses.
NotCompiled(w) ==
    /\ writer[w].pc = "compile"
    /\ IF CalciteStatements(P(w), writer[w].rows).ok THEN Fault ELSE UNCHANGED errors
    /\ Run(w, "manual", writer[w].rows, ManualStatements(P(w), writer[w].rows), "none")
    /\ UNCHANGED <<payload, log, cursor>>

-----------------------------------------------------------------------------
(* The pool.                                                               *)

\* Mutant: a statement in a transaction begins one of its own.
ConnectAgain(w) ==
    /\ writer[w].pc = "send"
    /\ writer[w].held <= writer[w].plan.tx /\ free > 0
    /\ Become(w, [writer[w] EXCEPT !.held = @ + 1])
    /\ free' = free - 1
    /\ UNCHANGED <<payload, log, cursor, errors>>

\* transaction(): pool.connect() and BEGIN, once per level.
Connect(w) ==
    /\ writer[w].pc = "send"
    /\ writer[w].held < writer[w].plan.tx /\ free > 0
    /\ Become(w, [writer[w] EXCEPT !.held = @ + 1])
    /\ free' = free - 1
    /\ UNCHANGED <<payload, log, cursor, errors>>

InTransaction(w) == writer[w].pc = "send" /\ writer[w].held = writer[w].plan.tx

\* The path throws before it sends anything; ROLLBACK.
ThrowEarly(w) ==
    /\ InTransaction(w) /\ ~writer[w].plan.ok
    /\ Fail(w)
    /\ UNCHANGED <<payload, log, cursor, errors>>

HasNext(w) == writer[w].next <= Len(writer[w].plan.stmts)

\* rawQuery() or pool.query(): a client for one statement.
Acquire(w) ==
    /\ InTransaction(w) /\ writer[w].plan.ok /\ HasNext(w) /\ free > 0
    /\ Become(w, [writer[w] EXCEPT !.pc = "query"])
    /\ free' = free - 1
    /\ UNCHANGED <<payload, log, cursor, errors>>

\* Placeholders $1..$n for n parameters.
Aligned(s) ==
    LET list == s.set \o s.where
    IN  {list[i].ph : i \in {j \in DOMAIN list : list[j].how = "param"}} = 1..Len(s.params)

\* What Postgres accepts.
Accepted(s) ==
    /\ Aligned(s)
    /\ s.op # "DELETE" => s.set # <<>>
    /\ \A i \in DOMAIN s.where : s.where[i].how # "syntaxError"

\* The statement is executed and, being alone on its client, committed.
QueryOk(w) ==
    /\ writer[w].pc = "query"
    /\ Accepted(writer[w].plan.stmts[writer[w].next])
    /\ LET s == writer[w].plan.stmts[writer[w].next] IN
       log' = [log EXCEPT ![w] = Append(@, [path |-> writer[w].path, attempt |-> writer[w].attempt,
                                            row |-> writer[w].next, stmt |-> s])]
    /\ Become(w, [writer[w] EXCEPT !.pc = "send", !.next = @ + 1])
    /\ free' = free + 1
    /\ UNCHANGED <<payload, cursor, errors>>

\* A constraint, a lost connection: on the Calcite path the error is swallowed
\* and the whole input goes to manual SQL.
QueryError(w) ==
    /\ writer[w].pc = "query"
    /\ IF Accepted(writer[w].plan.stmts[writer[w].next]) THEN Fault ELSE UNCHANGED errors
    /\ IF writer[w].path = "calcite"
       THEN /\ Become(w, [writer[w] EXCEPT !.pc = "send", !.path = "manual", !.next = 1,
                              !.plan = ManualStatements(P(w), writer[w].rows)])
            /\ free' = free + 1
       ELSE /\ Become(w, [writer[w] EXCEPT !.pc = "failed", !.held = 0])
            /\ free' = free + 1 + writer[w].held
    /\ UNCHANGED <<payload, log, cursor>>

\* COMMIT and release; the cursor path clears the cursor store.
Sent(w) ==
    /\ InTransaction(w) /\ writer[w].plan.ok /\ ~HasNext(w)
    /\ Become(w, [writer[w] EXCEPT !.pc = "done", !.held = 0])
    /\ free' = free + writer[w].held
    /\ cursor' = IF writer[w].path = "cursor" THEN NoCursor ELSE cursor
    /\ UNCHANGED <<payload, log, errors>>

-----------------------------------------------------------------------------
(* The end of the pipeline, and other pipelines.                           *)

\* extractCursor: at most MaxIds rows give ids.  For more there would be the
\* filter, but the scheduler reads intent.filter, which no query node has.
ExtractCursor(ids, from) ==
    [ids |-> IF Len(ids) <= MaxIds THEN ids ELSE <<>>, from |-> from]

\* UPDATE, DELETE and the template path return a summary row, which has no id;
\* an INSERT returns its input, which may not be tabular.
FinishOk(w) ==
    LET rows == writer[w].rows
        summary == P(w).mode \in {"update", "delete"} \/ DOMAIN P(w).fields # {}
    IN  /\ writer[w].pc = "done"
        /\ Become(w, [Idle EXCEPT !.runs = writer[w].runs + 1])
        /\ cursor' = IF summary THEN ExtractCursor(<<Undefined>>, w)
                     ELSE IF rows = <<>> THEN cursor
                     ELSE ExtractCursor([i \in DOMAIN rows |-> Field(rows[i], "id")], w)
        /\ UNCHANGED <<payload, log, free, errors>>

FinishFailed(w) ==
    /\ writer[w].pc = "failed"
    /\ Become(w, [Idle EXCEPT !.runs = writer[w].runs + 1])
    /\ UNCHANGED <<payload, log, free, cursor, errors>>

\* A pipeline that only reads ends, in the session of w.
QueryEnds(w) ==
    /\ writer[w].pc = "idle" /\ writer[w].runs < MaxRuns
    /\ \E n \in 1..MaxIds + 1 : cursor' = ExtractCursor([i \in 1..n |-> "q"], w)
    /\ Become(w, [writer[w] EXCEPT !.runs = @ + 1])
    /\ UNCHANGED <<payload, log, free, errors>>

\* 300 seconds pass: get() drops the cursor.
CursorExpires ==
    /\ cursor # NoCursor
    /\ cursor' = NoCursor
    /\ UNCHANGED <<payload, writer, log, free, errors>>

Step(w) ==
    \/ FKValid(w) \/ FKViolation(w) \/ RouteCursor(w) \/ RouteRows(w)
    \/ Compiled(w) \/ NotCompiled(w) \/ Connect(w) \/ ThrowEarly(w)
    \/ Acquire(w) \/ QueryOk(w) \/ QueryError(w) \/ Sent(w)
    \/ FinishOk(w) \/ FinishFailed(w)

Next ==
    \/ \E w \in Writer : Start(w) \/ Retry(w) \/ QueryEnds(w) \/ Step(w)
    \/ CursorExpires

Spec == Init /\ [][Next]_vars

-----------------------------------------------------------------------------
(* Properties.                                                             *)

Sending(w) == writer[w].pc \in {"send", "query"} /\ writer[w].plan.ok
Plan(w) == writer[w].plan.stmts

\* The clients that w holds, and all that are out, each with its holder.
Clients(w) == writer[w].held + (IF writer[w].pc = "query" THEN 1 ELSE 0)
Leased == UNION {{w} \X (1..Clients(w)) : w \in Writer}

\* Every client of the pool is free, held by an open transaction or busy with
\* one statement: rollbacks, fallbacks and nested transactions lose none.
PoolConserved == free + Cardinality(Leased) = PoolMax

\* Each placeholder of a statement on its way to the database stands for the
\* value its column is meant to get or to be compared with.
BoundAsMeant(s) ==
    /\ Aligned(s)
    /\ \A list \in {s.set, s.where} : \A i \in DOMAIN list :
        list[i].how = "param" => s.params[list[i].ph] = list[i].val

\* The columns that an upsert's VALUES list has.
Inserted(s) == {s.set[j].col : j \in DOMAIN s.params}

\* Of all paths, only an UPDATE by cursor and an upsert with an updateColumn
\* that it does not insert (it is no column, or the first row has no value for
\* it) send statements whose placeholders do not match their parameters.
ParametersBound ==
    \A w \in Writer : Sending(w) => \A i \in DOMAIN Plan(w) :
        \/ BoundAsMeant(Plan(w)[i])
        \/ writer[w].path = "cursor" /\ Plan(w)[i].op = "UPDATE"
        \/ Plan(w)[i].op = "UPSERT" /\ ~(ToSet(P(w).update) \subseteq Inserted(Plan(w)[i]))

\* No UPDATE or DELETE is sent without a WHERE clause, and the WHERE clause
\* has every literal condition of the plan that is not an empty list.  The
\* exceptions: DELETE by rows drops them, and so does the cursor path.
WhereKept ==
    \A w \in Writer : Sending(w) => \A i \in DOMAIN Plan(w) :
        LET s == Plan(w)[i]
            tested == {s.where[j].col : j \in DOMAIN s.where}
        IN  s.op \in {"UPDATE", "DELETE"} =>
            /\ s.where # <<>>
            /\ \/ \A c \in DOMAIN P(w).staticWhere : P(w).staticWhere[c] # <<>> => c \in tested
               \/ s.op = "DELETE" /\ writer[w].path = "manual"
               \/ writer[w].path = "cursor"

\* The values that statements write to column c, in their order.
ValuesFor(list, c) ==
    LET hits == Filter(list, {e \in ToSet(list) : e.col = c})
    IN  [j \in DOMAIN hits |-> hits[j].val]

WrittenTo(stmts, c) == FlattenSeq([i \in DOMAIN stmts |-> ValuesFor(stmts[i].set, c)])

\* An INSERT writes the columns that have a literal and those it takes from the
\* rows: every one by Calcite, by manual SQL if some row has a value for it.
Fills(p, rows, path, c) ==
    \/ c \in DOMAIN p.static
    \/ /\ c \in ToSet(p.columns)
       /\ \/ path = "calcite"
          \/ \E i \in DOMAIN rows : ResolveColumnValue(c, rows[i], p) # Undefined

OwnValue(p, row, path, c) ==
    IF path = "calcite" THEN RowOrNull(c, row, p) ELSE ResolveNow(ResolveColumnValue(c, row, p))

\* The statements write each of the rows once, in their order: a literal in
\* every row or the row's own value.
EachRowOnce(stmts, p, rows, path) ==
    \A c \in ToSet(Columns) :
        LET out == WrittenTo(stmts, c)
        IN  IF Fills(p, rows, path, c)
            THEN /\ Len(out) = Len(rows)
                 /\ \A i \in DOMAIN out :
                       IF c \in DOMAIN p.static THEN out[i] = out[1]
                       ELSE out[i] = <<OwnValue(p, rows[i], path, c)>>
            ELSE out = <<>>

\* An insert that reports success after one attempt and without a fallback.
\* Rows that hold the first where column make manual SQL update, not insert.
InsertedAtOnce(w) ==
    /\ writer[w].pc = "done" /\ writer[w].path # "none"
    /\ P(w).mode \in {"insert", "insert_ignore"} /\ DOMAIN P(w).fields = {}
    /\ ~(writer[w].path = "manual" /\ HasRowDrivenWhere(P(w), writer[w].rows))
    /\ \A i \in DOMAIN log[w] : log[w][i].attempt = writer[w].attempt
                                /\ log[w][i].path = writer[w].path

\* Such an insert has written every input row exactly once, whatever the
\* batches, with at least one column.
EveryRowOnce ==
    \A w \in Writer :
        LET stmts == [i \in DOMAIN log[w] |-> log[w][i].stmt]
            path == writer[w].path
        IN  InsertedAtOnce(w) =>
            /\ EachRowOnce(stmts, P(w), writer[w].rows, path)
            /\ \E c \in ToSet(Columns) : Fills(P(w), writer[w].rows, path, c)

\* The operation of the plan, before execute rewrites it.  A soft delete is an
\* UPDATE that marks the row.
IsOperation(mode, s) ==
    CASE mode = "insert" -> s.op = "INSERT"
      [] mode = "insert_ignore" -> s.op = "INSERT_IGNORE"
      [] mode = "upsert" -> s.op \in {"UPSERT", "INSERT_IGNORE"}
      [] mode = "update" -> s.op = "UPDATE"
      [] mode = "delete" ->
            \/ s.op = "DELETE"
            \/ s.op = "UPDATE" /\ \E i \in DOMAIN s.set : s.set[i].col = "deleted_at"

\* A soft delete by manual SQL that never marks its rows: with columns or a
\* template, runUpdate sets what the rows give; StaticUpdate leaves out a
\* literal whose column has a condition.
Unmarked(w) ==
    LET p == P(w) IN
    /\ writer[w].mode = "delete" /\ p.soft /\ writer[w].path = "manual"
    /\ p.columns # <<>> \/ DOMAIN p.fields # {} \/ "deleted_at" \in DOMAIN p.staticWhere

\* A statement has the operation of its plan.  Two paths change it: rows that
\* hold the first where column, without a static condition, make a manual
\* UPDATE of whatever the mode is, and some soft deletes just update.
OperationKept ==
    \A w \in Writer : Sending(w) => \A i \in DOMAIN Plan(w) :
        \/ IsOperation(writer[w].mode, Plan(w)[i])
        \/ writer[w].path = "manual" /\ HasRowDrivenWhere(P(w), writer[w].rows)
        \/ Plan(w)[i].op = "UPDATE" /\ Unmarked(w)

\* The literals of an UPDATE never set a column that ColumnClassifier blocks.
\* The stripping comes before the soft-delete rewrite and the row-driven
\* path, so the first execution of a DELETE is not covered; the next one is.
ImmutableKept ==
    \A w \in Writer : Sending(w) /\ writer[w].mode = "update" => \A i \in DOMAIN Plan(w) :
        LET s == Plan(w)[i] IN \A j \in DOMAIN s.set :
            \/ s.set[j].col \notin BlockedCols
            \/ s.set[j].col \in ToSet(P(w).columns) \cup DOMAIN P(w).fields

\* Waiting for a client of the pool.
Waiting(w) ==
    \/ writer[w].pc = "fk" /\ CheckedKeys(P(w)) # {}
    \/ writer[w].pc = "send" /\ writer[w].held < writer[w].plan.tx
    \/ writer[w].pc = "send" /\ writer[w].plan.ok /\ HasNext(w)

\* The clients that the open transactions can hold at once leave one over.
PoolSuffices ==
    Cardinality(UNION {{w} \X (1..writer[w].plan.tx) : w \in {v \in Writer : Sending(v)}}) < PoolMax

\* When clients run out, somebody who holds or needs none can go on and give
\* one back: executions never wait for each other in a circle, as long as the
\* pool has one client more than the open transactions can hold.
NoCircularWait ==
    PoolSuffices /\ free = 0 => \E w \in Writer : writer[w].pc # "idle" /\ ~Waiting(w)

\* transaction() and rawQuery() on one pool: no client is lost and, in a pool
\* that suffices, executions do not wait for each other in a circle.
PoolSound == PoolConserved /\ NoCircularWait

\* Whatever path execute() takes, a statement does what the plan says: its
\* operation, its conditions and none of the columns an UPDATE may not set.
PlanKept == OperationKept /\ WhereKept /\ ImmutableKept
=============================================================================
