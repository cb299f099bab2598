----------------------------- MODULE FieldFlow -----------------------------
(***************************************************************************)
(* The fields of the rows, promised and real.  The planner enriches the    *)
(* steps of a pipeline one after the other (enrichNodes in                 *)
(* pipeline-engine.ts), noting in fieldMap which fields each step will     *)
(* deliver; it then checks that every written column has a source and that *)
(* no value is missing, and asks the user for what is.  Later the steps    *)
(* run, and rows with real fields go from node to node.                    *)
(*                                                                         *)
(* The answers of the model are arbitrary members of small sets.  A row is *)
(* the set of its fields, and the output of a step a set of such rows.     *)
(* Steps are numbered in the order of the intent, which is the order of    *)
(* enrichment and need not be an order of their dependencies.              *)
(***************************************************************************)
EXTENDS SchemaValidator, SchemaGraph

CONSTANTS
    Pipelines,   \* sequences of steps [kind, deps, config]
    QueryAnswers, TransformAnswers, Endpoints, WriteAnswers,
                 \* what the model, or the API registry, may say for a step
    Columns,     \* the columns that exist in the database, by table
    SchemaFKs    \* the foreign keys of the combined schema

\* The records of a write step.
IsValue(v) == DOMAIN v = {"k", "v", "up"}
IsConfig(config) ==
    /\ DOMAIN config = {"table", "operation", "mode", "keys", "array", "fields", "strategy"}
    /\ \A c \in DOMAIN config.fields : IsValue(config.fields[c].value)

ASSUME FlowAssumption ==
    /\ \A p \in Pipelines :
          /\ p \in Seq(Range(p))
          /\ \A s \in DOMAIN p :
                /\ DOMAIN p[s] = {"kind", "deps", "config"}
                /\ p[s].deps \subseteq DOMAIN p
                /\ p[s].kind = "write" => IsConfig(p[s].config)
    /\ \A q \in QueryAnswers : DOMAIN q = {"tables", "columns"}
    /\ \A a \in TransformAnswers :
          /\ a \in Seq(Range(a))
          /\ \A i \in DOMAIN a : DOMAIN a[i] = {"kind", "name", "from", "refs"}
    /\ \A a \in WriteAnswers : \A c \in DOMAIN a.static : IsValue(a.static[c])

VARIABLES
    steps,       \* the pipeline
    next,        \* the step to enrich
    fieldMap,    \* step -> the fields it is said to deliver
    payload,     \* step -> its payload
    said,        \* step -> the answer its payload was made from (writes)
    phase,       \* where the plan is
    missing,     \* the step and the columns the user is asked for
    supplied,    \* step -> columns the user gave
    waived,      \* steps whose error an unrelated answer of the user removed
    rows,        \* step -> the rows it delivered, once it ran
    ran,         \* the steps that ran
    lossy,       \* the steps whose rows may lack fields that were promised
    inserts      \* the rows that were to be inserted: [step, given, input]

vars == <<steps, next, fieldMap, payload, said, phase, missing, supplied, waived,
          rows, ran, lossy, inserts>>

Steps == DOMAIN steps
Deps(s) == steps[s].deps
Kind(s) == steps[s].kind

NoPayload == [kind |-> "none"]
NoQuery == [tables |-> {}, columns |-> {}]

Init ==
    /\ steps \in Pipelines
    /\ next = 1
    /\ fieldMap = [s \in Steps |-> {}]
    /\ payload = [s \in Steps |-> IF Kind(s) = "query" THEN NoQuery ELSE NoPayload]
    /\ phase = "enrich"
    /\ missing = [step |-> 0, columns |-> {}]
    /\ said = [s \in Steps |-> NoPayload]
    /\ supplied = [s \in Steps |-> {}]
    /\ waived = {}
    /\ rows = [s \in Steps |-> {}]
    /\ ran = {}
    /\ lossy = {}
    /\ inserts = {}

running == <<supplied, waived, rows, ran, lossy, inserts>>

-----------------------------------------------------------------------------
(* Enrichment.                                                             *)

\* getAvailableFields: the fields of the direct dependencies, as far as they
\* are enriched.
getAvailableFields(s) == UNION {fieldMap[d] : d \in Deps(s)}

\* The steps that the search of getUpstreamFields reaches: it goes on through
\* steps without fields.
Reached(s) ==
    LET r[k \in 0..Len(steps)] ==
            IF k = 0 THEN Deps(s)
            ELSE r[k - 1] \cup UNION {Deps(d) : d \in {e \in r[k - 1] : fieldMap[e] = {}}}
    IN  r[Len(steps)]

getUpstreamFields(s) == UNION {fieldMap[d] : d \in Reached(s)}

Ancestors(s) ==
    LET r[k \in 0..Len(steps)] ==
            IF k = 0 THEN {s} ELSE r[k - 1] \cup UNION {Deps(d) : d \in r[k - 1]}
    IN  r[Len(steps)]

getUpstreamTablesTransitive(s) ==
    UNION {payload[d].tables : d \in {e \in Ancestors(s) : Kind(e) = "query"}}

\* The query nodes in the order of the graph.
QuerySteps == SelectSeq([s \in Steps |-> s], LAMBDA s : Kind(s) = "query")
Queries == [i \in DOMAIN QuerySteps |-> payload[QuerySteps[i]]]

Enriched(s, p, fields) ==
    /\ payload' = [payload EXCEPT ![s] = p]
    /\ fieldMap' = [fieldMap EXCEPT ![s] = fields]
    /\ next' = next + 1
    /\ phase' = IF next = Len(steps) THEN "check" ELSE phase
    /\ UNCHANGED <<steps, said, missing>>
    /\ UNCHANGED running

Turn(s, kind) == phase = "enrich" /\ next = s /\ Kind(s) = kind

\* An intent that names columns the schema does not have ends the planning
\* (validateQueryIntentColumns).
EnrichQuery(s) ==
    /\ Turn(s, "query")
    /\ \E q \in QueryAnswers :
          LET valid == \A c \in q.columns : c.field \in UNION {Columns[t] : t \in q.tables}
          IN  IF valid THEN Enriched(s, q, {c.alias : c \in q.columns})
              ELSE /\ phase' = "failed"
                   /\ UNCHANGED <<steps, next, fieldMap, payload, said, missing>>
                   /\ UNCHANGED running

\* stripHallucinatedFieldRefs: in expressions and predicates, a reference to a
\* field that is not available becomes null; keys of sorts are not touched,
\* and nothing is when no field is known.
stripHallucinatedFieldRefs(ops, available) ==
    IF available = {} THEN ops
    ELSE [i \in DOMAIN ops |->
            IF ops[i].kind \in {"addField", "filterRows"}
            THEN [ops[i] EXCEPT !.refs = @ \cap available] ELSE ops[i]]

\* Mutant: new names of renamed fields, and whatever else has a name, count.
TransformFieldsAll(ops, available) ==
    available \cup {ops[i].name : i \in DOMAIN ops}

\* The fields of a transform: those available and those it adds.  Removed and
\* renamed fields stay in the list.
TransformFields(ops, available) ==
    available \cup {ops[i].name : i \in {j \in DOMAIN ops : ops[j].kind = "addField"}}

\* An answer that is not an array of operations leaves the step without any.
EnrichTransform(s) ==
    /\ Turn(s, "transform")
    /\ \E answer \in TransformAnswers :
          LET available == getAvailableFields(s)
              ops == stripHallucinatedFieldRefs(answer, available)
          IN  Enriched(s, [kind |-> "transform", ops |-> ops], TransformFields(ops, available))

\* Merges, and steps that call the model at run time, get no fields.
EnrichStructural(s) ==
    /\ Turn(s, "llm") \/ Turn(s, "merge")
    /\ Enriched(s, [kind |-> Kind(s)], {})

\* A registered endpoint names the fields of its answers; without one the
\* step delivers http_response whatever the model said.
EnrichHttp(s) ==
    /\ Turn(s, "http")
    /\ \E e \in Endpoints :
          LET available == getAvailableFields(s)
          IN  Enriched(s, [kind |-> "http", body |-> available \cap e.request, output |-> e.response],
                       (IF e.array THEN {} ELSE available) \cup e.response \cup {"http_status"})

\* enrichNodes, a write: the columns that aliases need are added to the queries
\* (but not to fieldMap), and the step passes its fields on.
EnrichWrite(s) ==
    /\ Turn(s, "write")
    /\ \E answer \in WriteAnswers :
          LET config == steps[s].config
              available == getAvailableFields(s)
          IN  \E p \in {IF answer.parsed
                         THEN EnrichedPayload(config, answer, WriteColumns(config, answer, available),
                                              Queries, getUpstreamTablesTransitive(s))
                         ELSE FallbackPayload(config, available, Queries)} :
                 LET added(q) == p.added[CHOOSE i \in DOMAIN QuerySteps : QuerySteps[i] = q]
                 IN  /\ payload' = [q \in Steps |->
                            IF q = s THEN p
                            ELSE IF Kind(q) = "query" THEN [payload[q] EXCEPT !.columns = @ \cup added(q)]
                            ELSE payload[q]]
                     /\ said' = [said EXCEPT ![s] = answer]
                     /\ fieldMap' = [fieldMap EXCEPT ![s] = available]
    /\ next' = next + 1
    /\ phase' = IF next = Len(steps) THEN "check" ELSE phase
    /\ UNCHANGED <<steps, missing>>
    /\ UNCHANGED running

\* A call to the model, or a lookup before it, throws.
EnrichFails ==
    /\ phase = "enrich"
    /\ phase' = "failed"
    /\ UNCHANGED <<steps, next, fieldMap, payload, said, missing>>
    /\ UNCHANGED running

-----------------------------------------------------------------------------
(* The checks of the finished plan, and the user's part.                   *)

Writes == {s \in Steps : Kind(s) = "write"}

\* Mutant: an alias is taken for a source without a look at the fields.
SourceAnyAlias(s, c) ==
    LET p == payload[s]
    IN  CASE c \in DOMAIN p.static /\ p.static[c] # Text(c) -> "static"
          [] c \in getUpstreamFields(s) -> "field"
          [] c \in DOMAIN p.aliases -> "alias"
          [] OTHER -> "none"

\* validateWriteFieldResolution, by its cases: a literal, a field of the
\* upstream steps, a foreign key, an alias.
Source(s, c) ==
    LET p == payload[s]
        upstream == getUpstreamFields(s)
        key == resolveWriteColumnSource(p.table, c, p.upstream, SchemaFKs, upstream)
    IN  CASE c \in DOMAIN p.static /\ p.static[c] # Text(c) -> "static"
          [] c \in upstream -> "field"
          [] key # c /\ key \in upstream -> "key"
          [] c \in DOMAIN p.aliases /\ p.aliases[c] \in upstream -> "alias"
          [] OTHER -> "none"

Unresolvable(s) == {c \in payload[s].columns : Source(s, c) = "none"}

\* The alias that the check leaves in the payload for a foreign key.
Remapped(s) ==
    LET p == payload[s]
        keyed == {c \in p.columns : Source(s, c) = "key"}
        key(c) == resolveWriteColumnSource(p.table, c, p.upstream, SchemaFKs, getUpstreamFields(s))
    IN  [p EXCEPT !.aliases = Over([c \in keyed |-> key(c)], @)]

\* getMissingColumns throws for a table it does not know.
Unknown(s) == \A i \in DOMAIN Sources : ~HasTable(Sources[i].tables, payload[s].table)

\* plan(), after the enrichment: the first step with something missing ends it.
Check ==
    LET stops == {s \in Writes : Unknown(s) \/ Missing(payload[s]) # {}}
        first == Min(stops)
    IN  /\ phase = "check"
        /\ payload' = [s \in Steps |-> IF s \in Writes THEN Remapped(s) ELSE payload[s]]
        /\ IF \E s \in Writes : Unresolvable(s) # {}
           THEN /\ phase' = "unresolvable"
                /\ missing' = [step |-> Min({s \in Writes : Unresolvable(s) # {}}), columns |-> {}]
           ELSE IF stops = {}
           THEN phase' = "optional" /\ UNCHANGED missing
           ELSE IF Unknown(first)
           THEN phase' = "failed" /\ UNCHANGED missing
           ELSE phase' = "incomplete" /\ missing' = [step |-> first, columns |-> Missing(payload[first])]
        /\ UNCHANGED <<steps, next, fieldMap, said>>
        /\ UNCHANGED running

\* isWriteIntentComplete: an update that says which rows and what to set is not
\* completed any further.
SystemFields == {"workspace_id", "created_at", "updated_at", "deleted_at"}

isWriteIntentComplete(p) ==
    /\ p.mode = "update"
    /\ p.keys \/ p.upstream # {}
    /\ DOMAIN p.static \ SystemFields # {}

\* What the form of the command line asks for: the missing columns or, after an
\* unresolvable one, those of the table that have no source yet.
Asked ==
    LET p == payload[missing.step]
        have == DOMAIN p.static \cup p.columns
    IN  IF ~HasTable(Crm, p.table) THEN {}
        ELSE IF phase = "incomplete" THEN missing.columns \cap ColumnNames(Crm, p.table)
        ELSE ColumnNames(Crm, p.table) \ (AutoManaged \cup {"converted_at"} \cup have)

\* The columns that the form does not let the user skip.
Insisted ==
    LET p == payload[missing.step]
    IN  {c \in Asked : /\ Required(ColumnOf(Crm, p.table, c))
                       /\ phase = "unresolvable" => p.mode = "insert"}

\* What a user types into a field, as coerceColumnValue hands it on.  A required
\* value that does not fit its column is kept as it was typed.
Typed(c) ==
    IF c.type \in IntTypes \cup {"NUMERIC", "REAL"} THEN Num("7")
    ELSE IF c.type = "BOOLEAN" THEN Value("bool", "true")
    ELSE IF c.type \in {"TIMESTAMPTZ", "DATE"} \/ enumValues(c) = <<>> THEN Text("typed")
    ELSE Text(enumValues(c)[1])

FormValues(t, V, raw) ==
    [c \in V |-> IF c \in raw THEN Text("typed") ELSE Typed(ColumnOf(Crm, t, c))]

Unread == <<next, fieldMap, said, rows, ran, lossy, inserts>>

\* The command line with an update that is complete by its own measure: it
\* removes all errors of the plan.
SkipForm ==
    LET s == missing.step
        stamped == HasColumn(Crm, payload[s].table, "updated_at")
    IN  /\ phase = "incomplete"
        /\ isWriteIntentComplete(payload[s])
        /\ payload' = IF stamped
                      THEN [payload EXCEPT ![s].static = Over([c \in {"updated_at"} |-> Now], @)]
                      ELSE payload
        /\ phase' = "optional"
        /\ waived' = waived \cup (Writes \ {s})
        /\ UNCHANGED <<steps, missing, supplied>> /\ UNCHANGED Unread

\* The form, and planWithMissingValues behind it: only the step at hand is
\* checked again.  With nothing missing in it all errors of the plan go;
\* otherwise the plan is dropped.
FillForm ==
    LET s == missing.step
    IN  /\ phase = "incomplete"
        /\ ~isWriteIntentComplete(payload[s])
        /\ \E V \in SUBSET Asked, raw \in {{}, Insisted} :
              LET values == FormValues(payload[s].table, V, raw)
                  p == WithValues(payload[s], values)
                  entries == [c \in V |-> [kind |-> "literal", field |-> "", value |-> values[c]]]
              IN  /\ Insisted \subseteq V
                  /\ payload' = [payload EXCEPT ![s] = p]
                  /\ steps' = [steps EXCEPT ![s].config.fields = Over(entries, @)]
                  /\ supplied' = [supplied EXCEPT ![s] = @ \cup V]
                  /\ phase' = IF StillMissing(p) # {} THEN "dropped" ELSE "optional"
        /\ waived' = waived \cup (Writes \ {s})
        /\ UNCHANGED missing /\ UNCHANGED Unread

\* The form after an unresolvable column: the values go into the payload and
\* the errors of the plan are removed, checked or not.
FillUnresolvable ==
    LET s == missing.step
    IN  /\ phase = "unresolvable"
        /\ \E V \in SUBSET Asked, raw \in {{}, Insisted} :
              /\ Insisted \subseteq V
              /\ payload' = [payload EXCEPT ![s] = WithValues(@, FormValues(@.table, V, raw))]
              /\ supplied' = [supplied EXCEPT ![s] = @ \cup V]
        /\ phase' = "optional"
        /\ waived' = Writes
        /\ UNCHANGED <<steps, missing>> /\ UNCHANGED Unread

\* The offer of optional columns, for a plan without errors: nullable ones
\* without a default that have no source.  One user answers for all writes.
Offered(s) ==
    LET p == payload[s]
        open == {c \in LiveTables[p.table] : c.nullable /\ c.default = "none"}
    IN  IF ~HasTable(LiveTables, p.table) THEN {}
        ELSE {c.name : c \in open} \ (SessionColumns \cup AutoManaged \cup {"code"}
                                       \cup DOMAIN p.static \cup p.columns)

OfferOptional ==
    /\ phase = "optional"
    /\ \E V \in SUBSET UNION {Offered(s) : s \in Writes} :
          /\ payload' = [s \in Steps |->
                IF s \notin Writes THEN payload[s]
                ELSE WithValues(payload[s], [c \in V \cap Offered(s) |->
                                                Typed(ColumnOf(LiveTables, payload[s].table, c))])]
          /\ supplied' = [s \in Steps |-> IF s \in Writes THEN supplied[s] \cup (V \cap Offered(s)) ELSE {}]
    /\ phase' = "preflight"
    /\ UNCHANGED <<steps, missing, waived>> /\ UNCHANGED Unread

\* The HTTP API, and a command line that is not interactive, execute without
\* questions; the API does so in spite of the errors of the plan.
ExecuteAsIs ==
    /\ phase \in {"incomplete", "unresolvable", "optional"}
    /\ phase' = "preflight"
    /\ waived' = IF phase = "optional" THEN waived ELSE Writes
    /\ UNCHANGED <<steps, payload, missing, supplied>> /\ UNCHANGED Unread

\* execute(): validatePipeline, then the scheduler.
Preflight ==
    /\ phase = "preflight"
    /\ phase' = IF \A s \in Writes : ValidWrite(payload[s]) THEN "ready" ELSE "refused"
    /\ UNCHANGED <<steps, payload, missing, supplied, waived>> /\ UNCHANGED Unread

-----------------------------------------------------------------------------
(* The run.                                                                *)

planned == <<steps, next, fieldMap, payload, said, missing, supplied, waived>>

MayRun(s, kind) == phase = "ready" /\ Kind(s) = kind /\ s \notin ran /\ Deps(s) \subseteq ran

\* The rows a step may be given.  With several inputs the scheduler makes one
\* row from the first row of each.
Inputs(s) ==
    LET full == {d \in Deps(s) : rows[d] # {}}
    IN  IF Deps(s) = {} THEN {{}}
        ELSE IF Cardinality(Deps(s)) = 1 THEN {rows[d] : d \in Deps(s)}
        ELSE {{UNION {f[d] : d \in full}} :
                  f \in {g \in [full -> UNION {rows[d] : d \in full}] : \A d \in full : g[d] \in rows[d]}}

\* Promised fields are lost by an own doing, upstream, or with an empty input of
\* several.
Lossy(s, own) ==
    \/ own
    \/ Deps(s) \cap lossy # {}
    \/ Cardinality(Deps(s)) > 1 /\ \E d \in Deps(s) : rows[d] = {}

Delivered(s, out, own) ==
    /\ rows' = [rows EXCEPT ![s] = out]
    /\ ran' = ran \cup {s}
    /\ lossy' = IF Lossy(s, own) THEN lossy \cup {s} ELSE lossy

Throws == phase' = "error" /\ UNCHANGED <<rows, ran, lossy>>

\* A query passes nothing of its inputs on.  One that selects no columns is not
\* known to: the search of getUpstreamFields goes on behind it.
RunQuery(s) ==
    /\ MayRun(s, "query")
    /\ \E out \in {{}, {{c.alias : c \in payload[s].columns}}} : Delivered(s, out, fieldMap[s] = {})
    /\ UNCHANGED phase /\ UNCHANGED inserts /\ UNCHANGED planned

\* The fields of a row after an operation.
Apply(op, row) ==
    CASE op.kind = "addField" -> row \cup {op.name}
      [] op.kind = "removeField" -> row \ {op.name}
      [] op.kind = "renameField" -> IF op.from \in row THEN (row \ {op.from}) \cup {op.name} ELSE row
      [] OTHER -> row

\* The rows before each operation; one that reads a field that is not there
\* throws (a sort only when it compares two rows).
Stages(ops, in) ==
    LET stage[i \in 1..(Len(ops) + 1)] ==
            IF i = 1 THEN in ELSE {Apply(ops[i - 1], r) : r \in stage[i - 1]}
    IN  stage

Misses(ops, in) ==
    \E i \in DOMAIN ops : \E r \in Stages(ops, in)[i] : ~(ops[i].refs \subseteq r)

RunTransform(s) ==
    /\ MayRun(s, "transform")
    /\ \E in \in Inputs(s) :
          LET ops == payload[s].ops
              out == Stages(ops, in)[Len(ops) + 1]
              filters == \E i \in DOMAIN ops : ops[i].kind = "filterRows"
              drops == \E i \in DOMAIN ops : ops[i].kind \in {"removeField", "renameField"}
          IN  IF Misses(ops, in) THEN Throws
              ELSE /\ \E kept \in (IF filters THEN SUBSET out ELSE {out}) : Delivered(s, kept, drops)
                   /\ UNCHANGED phase
    /\ UNCHANGED inserts /\ UNCHANGED planned

\* An answer that parses is laid over the row; another adds two error fields.
RunLLM(s) ==
    /\ MayRun(s, "llm")
    /\ \E in \in Inputs(s), fields \in {{}, {"result"}, {"llm_error", "llm_raw"}} :
          Delivered(s, {r \cup fields : r \in in}, FALSE)
    /\ UNCHANGED phase /\ UNCHANGED inserts /\ UNCHANGED planned

\* HttpNode by its result: each row is answered or failed; if all failed the
\* node throws.
RunHttp(s) ==
    /\ MayRun(s, "http")
    /\ \E in \in Inputs(s) : \E failed \in SUBSET in :
          IF in # {} /\ failed = in THEN Throws
          ELSE /\ Delivered(s, {r \cup payload[s].output \cup {"http_status"} : r \in in \ failed}
                                \cup {r \cup {"http_status", "http_error"} : r \in failed}, failed # {})
               /\ UNCHANGED phase
    /\ UNCHANGED inserts /\ UNCHANGED planned

\* A union has rows of either input; a join lays them over each other.
RunMerge(s) ==
    LET in == [d \in Deps(s) |-> rows[d]]
        strategy == steps[s].config.strategy
    IN  /\ MayRun(s, "merge")
        /\ CASE strategy = "union" -> Delivered(s, UNION {in[d] : d \in Deps(s)}, TRUE)
             [] strategy = "first" -> \E d \in Deps(s) : Delivered(s, in[d], TRUE)
             [] OTHER -> \E out \in SUBSET {UNION {f[d] : d \in Deps(s)} :
                                f \in {g \in [Deps(s) -> UNION {in[d] : d \in Deps(s)}] :
                                           \A d \in Deps(s) : g[d] \in in[d]}} :
                             Delivered(s, out, FALSE)
        /\ UNCHANGED phase /\ UNCHANGED inserts /\ UNCHANGED planned

\* The columns of a row to insert that get a value.
Given(p, row) ==
    {c \in p.columns : c \in row \/ (c \in DOMAIN p.aliases /\ p.aliases[c] \in row)}
        \cup {c \in DOMAIN p.static : p.static[c].k # "null"}

RequiredColumns(t) == {c.name : c \in {d \in LiveTables[t] : Required(d)}}

\* An insert without input rows writes one row all the same, and passes its
\* input on; an update or a delete passes on a summary of what it did.
Summary == {"table", "operation", "rows_affected", "where", "set"}

RunWrite(s) ==
    LET p == payload[s]
        inserting == p.mode \notin {"update", "delete"}
    IN  /\ MayRun(s, "write")
        /\ \E in \in Inputs(s) :
              LET attempts == {[step |-> s, input |-> r, given |-> Given(p, r)] :
                                   r \in IF in = {} THEN {{}} ELSE in}
                  refused == \E a \in attempts : ~(RequiredColumns(p.table) \subseteq a.given)
              IN  IF inserting
                  THEN /\ inserts' = inserts \cup attempts
                       /\ IF refused THEN Throws
                          ELSE Delivered(s, in, FALSE) /\ UNCHANGED phase
                  ELSE /\ Delivered(s, IF in = {} THEN {} ELSE {Summary}, in # {})
                       /\ UNCHANGED <<inserts, phase>>
        /\ UNCHANGED planned

EnrichStep(s) ==
    \/ EnrichQuery(s) \/ EnrichTransform(s) \/ EnrichStructural(s) \/ EnrichHttp(s) \/ EnrichWrite(s)

RunStep(s) ==
    \/ RunQuery(s) \/ RunTransform(s) \/ RunLLM(s) \/ RunHttp(s) \/ RunMerge(s) \/ RunWrite(s)

Next ==
    \/ \E s \in Steps : EnrichStep(s) \/ RunStep(s)
    \/ EnrichFails \/ Check
    \/ SkipForm \/ FillForm \/ FillUnresolvable \/ OfferOptional \/ ExecuteAsIs \/ Preflight

Spec == Init /\ [][Next]_vars

-----------------------------------------------------------------------------
(* Properties.                                                             *)

Phases == {"enrich", "check", "failed", "unresolvable", "incomplete", "dropped", "optional",
           "preflight", "refused", "ready", "error"}

TypeOK ==
    /\ steps \in Seq([kind : STRING, deps : SUBSET Steps, config : Range([s \in Steps |-> steps[s].config])])
    /\ next \in 1..(Len(steps) + 1)
    /\ phase \in Phases
    /\ DOMAIN fieldMap = Steps /\ DOMAIN payload = Steps /\ DOMAIN rows = Steps
    /\ missing.step \in 0..Len(steps)
    /\ phase \in {"incomplete", "unresolvable"} => missing.step \in Writes
    /\ lossy \subseteq ran /\ ran \subseteq Steps
    /\ \A a \in inserts : a.step \in Writes

\* enrichNodes notes in fieldMap what a step will deliver, and the scheduler
\* delivers it: every row of a step that ran has all the fields that the
\* planner promised for it.  Left out are the steps behind a loss the planner
\* does not look at: a removed or renamed field, a failed HTTP call, a union
\* or choice of inputs, the summary of an update, a query without columns, an
\* empty input of several.
PromisesKept ==
    \A s \in ran \ lossy : \A r \in rows[s] : fieldMap[s] \subseteq r

\* validateWriteFieldResolution finds a source for every column before the plan
\* is accepted, and the write node finds the value there: a row that is
\* inserted from such a plan has a value for every column of the statement,
\* except where null was written down for it.
ColumnsFilled ==
    \A a \in inserts :
        LET p == payload[a.step]
            nulls == {c \in DOMAIN p.static : p.static[c].k = "null"}
        IN  (a.step \notin waived /\ a.input # {} /\ ~Lossy(a.step, FALSE))
                => p.columns \subseteq a.given \cup nulls

ParsedWrites == {s \in Writes : s < next /\ said[s] # NoPayload /\ said[s].parsed}

\* The cleaning passes leave a value alone that is no word in a column of
\* whole numbers and not outside the list of a CHECK.
Takes(tables, t, c, value) ==
    HasColumn(tables, t, c) =>
        LET column == ColumnOf(tables, t, c)
        IN  /\ ~isInvalidInt(column, value)
            /\ \/ enumValues(column) = <<>> \/ value.k = "null"
               \/ value.v \in ToSet(enumValues(column))

\* enrichWriteNode sets session and time columns itself and lays them over what
\* the model answered: whatever it said, and in whichever table it believed to
\* write, the payload has the planner's value, unless the user typed another
\* or the column does not take it.
SessionApplied ==
    \A s \in ParsedWrites :
        LET auto == AutoValues(steps[s].config)
            tables == schemaToUse(steps[s].config.table)
        IN  \A c \in DOMAIN auto \ (supplied[s] \cup {"action"}) :
                Takes(tables, payload[s].table, c, auto[c])
                    => c \in DOMAIN payload[s].static /\ payload[s].static[c].v = auto[c].v

\* "Original static values take precedence over LLM-generated ones": a literal
\* that the step gives, and that its column takes, is what is written.  (When
\* the form is skipped, an update gets another updated_at.)
LiteralKept ==
    \A s \in ParsedWrites :
        LET literals == Literals(steps[s].config)
            tables == schemaToUse(steps[s].config.table)
            stamped == IF payload[s].mode = "update" THEN {"updated_at"} ELSE {}
        IN  \A c \in DOMAIN literals \ (DOMAIN AutoValues(steps[s].config) \cup supplied[s] \cup stamped) :
                (literals[c].k # "param" /\ Takes(tables, payload[s].table, c, literals[c]))
                    => c \in DOMAIN payload[s].static /\ payload[s].static[c].v = literals[c].v

\* Where the cleaning leaves a text that the validation does not accept: in a
\* column of numbers, truth values or objects, when the column is not one of
\* whole numbers, the text is a number, or a CHECK makes the cleaning put a
\* word there itself.
Overlooked(t, c, value) ==
    /\ HasColumn(Crm, t, c)
    /\ LET column == ColumnOf(Crm, t, c)
       IN  /\ sqlTypeToJsType(column.type) # "string"
           /\ column.type \notin IntTypes \/ value.k = "digits" \/ enumValues(column) # <<>>

\* How far the validation before the execution accepts what enrichWriteNode
\* cleaned: a text of the model or of the step that is still in the payload is
\* refused, for its type or for not being listed in a CHECK, nowhere but where
\* the cleaning overlooks it.  There the two do disagree: a word for a column
\* of type NUMERIC, REAL, SMALLINT, BOOLEAN or JSONB survives the cleaning and
\* ends the pipeline before it starts.
TextsAccepted ==
    \A s \in ParsedWrites :
        LET p == payload[s]
        IN  HasTable(LiveTables, p.table) =>
                \A c \in (DOMAIN p.static \cap ColumnNames(LiveTables, p.table)) \ supplied[s] :
                    (p.static[c].k \in {"text", "digits"} /\ c \in RefusedValues(p))
                        => Overlooked(p.table, c, p.static[c])

\* planWithMissingValues: a form that is filled in once leaves nothing of its
\* step missing, so that no plan is dropped after its user answered.
AskedOnce == phase # "dropped"

\* stripHallucinatedFieldRefs: a transform that neither sorts nor removes or
\* renames, and that is enriched after its inputs and with fields to choose
\* from, never reads a field that its rows do not have.  (One that the intent
\* lists before its input is not cleaned; one of several inputs that turns out
\* empty takes its fields with it.)
TransformsSafe ==
    \A s \in Steps :
        (/\ MayRun(s, "transform") /\ ~Lossy(s, FALSE)
         /\ getAvailableFields(s) # {} /\ \A d \in Deps(s) : d < s) =>
            LET ops == payload[s].ops
                plain == \A i \in DOMAIN ops : ops[i].kind \in {"addField", "filterRows"}
            IN  plain => \A in \in Inputs(s) : ~Misses(ops, in)

\* "Required columns are errors (block execution)" (schema-validator.ts): a plan
\* that is executed has a source for every column that an insert must fill.
RequiredBlocks ==
    phase = "ready" =>
        \A s \in Writes :
            LET p == payload[s]
            IN  p.mode \in {"insert", "insert_ignore", "upsert"} =>
                    RequiredColumns(p.table) \subseteq p.columns \cup DOMAIN p.static

\* The fields a step was planned with are the fields it gets: what is promised
\* arrives, and what a sanitised transform reads is there.
FieldsDelivered == PromisesKept /\ TransformsSafe

\* The precedence of enrichWriteNode: session and time columns over everything,
\* the literals of the step over the answer of the model.
PrecedenceKept == SessionApplied /\ LiteralKept

\* A later check accepts what the earlier one settled: the validation before
\* the execution the cleaned texts, where the cleaning looks at them, and the
\* completeness check the filled form.
ChecksAgree == TextsAccepted /\ AskedOnce
=============================================================================
