-------------------------- MODULE WriteEnrichment --------------------------
(***************************************************************************)
(* How the planner turns a write step and the answer of the model into the *)
(* payload of the write node (enrichWriteNode in pipeline-engine.ts), and  *)
(* the check that no value is missing.                                     *)
(*                                                                         *)
(* A value is a record: k is "num", "digits" (a number written as text),   *)
(* "text" (another word), "select" (the text of a subquery), "param" (an   *)
(* unresolved $name), "bool", "object" or "null", v its word, up whether   *)
(* it is written in other letters than the schema writes it. A step's      *)
(* config has a table, an operation, a mode ("" when absent), keys         *)
(* (whether it names conditions or conflict columns) and fields, a         *)
(* function from column names to entries: a template or a path (with the   *)
(* field they name) or a literal; array says that fields is a list of      *)
(* names. An answer has a table, a mode, columns and static values.        *)
(***************************************************************************)
EXTENDS SchemaTraits

CONSTANTS
    CrossFKs,    \* the foreign keys declared between data sources
    Initial      \* the first letter of every word

Value(k, v) == [k |-> k, v |-> v, up |-> FALSE]
Text(v) == Value("text", v)
Num(v) == Value("num", v)
Null == Value("null", "null")
Now == Text("NOW()")

Over(f, g) == [c \in DOMAIN f \cup DOMAIN g |-> IF c \in DOMAIN f THEN f[c] ELSE g[c]]
Only(f, S) == [c \in DOMAIN f \cap S |-> f[c]]
Nothing == [c \in {} |-> Null]

-----------------------------------------------------------------------------
(* FieldRegistryImpl: what is known of each column, and from whom.         *)

Field(state, source) == [state |-> state, source |-> source]

Priority(source) ==
    CASE source = "auto_injected" -> 5 [] source = "session" -> 4 [] source = "original" -> 3
      [] source = "upstream" -> 2 [] source = "llm" -> 1 [] OTHER -> 0

\* addFieldWithPriority, for fields of different names: a source of equal or
\* higher priority stays.
AddFields(registry, fields) ==
    LET kept == {c \in DOMAIN registry \cap DOMAIN fields :
                    Priority(registry[c].source) >= Priority(fields[c].source)}
    IN  Over(Only(registry, kept), Over(fields, registry))

Resolved(registry) == {c \in DOMAIN registry : registry[c].state = "resolved"}

-----------------------------------------------------------------------------
(* The values that the planner sets itself.                                *)

SessionColumns == {"workspace_id", "owner_user_id", "created_by_user_id", "updated_by_user_id"}
AuditTables == {"assignments_history", "audit_logs", "opportunity_stage_history", "lead_score_events"}
CreatedTimes == {"created", "created_", "createdat", "createdon", "created_at", "created_on"}
UpdatedTimes == {"updated", "updated_", "updatedat", "updatedon", "updated_at", "updated_on"}
ChangedTimes == {"changed", "changed_", "changedat", "changedon", "changed_at", "changed_on"}

\* The patterns for timestamps, by operation and kind of table.
StampedNames(t, mode) ==
    IF mode = "update" THEN UpdatedTimes
    ELSE IF t \in AuditTables THEN ChangedTimes
    ELSE CreatedTimes \cup UpdatedTimes

Action(operation) ==
    CASE operation \in {"", "insert", "insert_ignore"} -> "create"
      [] operation \in {"update", "upsert"} -> "update"
      [] operation = "delete" -> "delete"
      [] OTHER -> "system"

\* autoValues.  Session columns get 1, whoever the user is.
AutoValues(config) ==
    LET t == config.table
        tables == schemaToUse(t)
        mode == IF config.operation = "update" THEN "update" ELSE "insert"
        names == IF t # "" /\ HasTable(tables, t) THEN ColumnNames(tables, t) ELSE {}
        session == names \cap SessionColumns
        stamped == names \cap StampedNames(t, mode)
        action == IF t = "audit_logs" THEN {"action"} ELSE {}
    IN  [c \in session \cup stamped \cup action |->
            IF c \in action THEN Text(Action(config.operation))
            ELSE IF c \in stamped THEN Now ELSE Num("1")]

-----------------------------------------------------------------------------
(* The merge of the step's fields, the answer and the planner's values.    *)

\* convertIfNeeded: numbers become text in text columns, and in columns that
\* the table of the answer does not have.
ConvertIfNeeded(values, tables, t) ==
    [c \in DOMAIN values |->
        IF /\ values[c].k = "num"
           /\ HasColumn(tables, t, c) => ColumnOf(tables, t, c).type \in {"TEXT", "VARCHAR"}
        THEN [values[c] EXCEPT !.k = "digits"] ELSE values[c]]

isSelf(c, e) == e.kind = "literal" /\ e.value = Text(c)

\* The entries of config.fields that name a source in the input rows, those
\* that are literals, and the aliases of the paths.
DynamicFields(config) ==
    IF config.array THEN DOMAIN config.fields
    ELSE {c \in DOMAIN config.fields : config.fields[c].kind \in {"template", "path"}
                                       \/ isSelf(c, config.fields[c])}

Literals(config) ==
    LET cols == DOMAIN config.fields \ DynamicFields(config)
    IN  [c \in cols |-> config.fields[c].value]

PathAliases(config) ==
    LET cols == {c \in DOMAIN config.fields : ~config.array /\ config.fields[c].kind = "path"}
    IN  [c \in cols |-> config.fields[c].field]

\* The answer's values that are not the name of their column.
AnswerValues(answer) ==
    Only(answer.static, {c \in DOMAIN answer.static : answer.static[c] # Text(c)})

States(values, source) ==
    [c \in DOMAIN values |-> Field(IF values[c].k = "null" THEN "pending" ELSE "resolved", source)]
Pending(cols, source) == [c \in cols |-> Field("pending", source)]

\* The registry after the four groups of fields, in the order of the code.
Registry(config, answer) ==
    LET auto == AutoValues(config)
        r1 == AddFields(Nothing, States(auto, "auto_injected"))
        r2 == AddFields(r1, Over(Pending(DynamicFields(config), "original"),
                                 States(Literals(config), "original")))
        r3 == AddFields(r2, Pending(answer.columns, "llm"))
    IN  AddFields(r3, States(AnswerValues(answer), "llm"))

\* Mutant: the planner's values are not laid over the answer's again.
MergedValuesUnder(config, answer) ==
    LET tables == schemaToUse(config.table)
        convert(values) == ConvertIfNeeded(values, tables, answer.table)
    IN  convert(Over(convert(Literals(config)),
                     Over(convert(AnswerValues(answer)), AutoValues(config))))

\* mergedStaticValues, before they are cleaned: the planner's values over the
\* step's literals over the answer's.
MergedValues(config, answer) ==
    LET tables == schemaToUse(config.table)
        convert(values) == ConvertIfNeeded(values, tables, answer.table)
        auto == AutoValues(config)
    IN  convert(Over(auto, Over(convert(Literals(config)),
                                Over(auto, convert(AnswerValues(answer))))))

\* findClosestEnumValue: the first word with the same first letter, otherwise
\* the first word.
findClosestEnumValue(word, enum) ==
    LET alike == {i \in DOMAIN enum : Initial[enum[i]] = Initial[word]}
    IN  IF alike = {} THEN enum[1] ELSE enum[CHOOSE i \in alike : \A j \in alike : i <= j]

\* A value of a column with an enum: corrected in its letters, replaced by the
\* default or by the closest word, or removed (the empty set).
EnumValue(c, value) ==
    LET enum == enumValues(c)
    IN  IF value.k = "null" \/ enum = <<>> THEN {value}
        ELSE IF value.v \in ToSet(enum) THEN {[value EXCEPT !.up = FALSE]}
        ELSE IF c.default # "none" THEN {Text(c.default)}
        ELSE IF ~c.nullable THEN {Text(findClosestEnumValue(value.v, enum))}
        ELSE {}

\* Mutant: the wide integers are forgotten.
isInvalidIntNarrow(c, value) ==
    /\ c.type \in {"INT", "INTEGER", "SERIAL"}
    /\ value.k \in {"text", "select"}

\* A text that is not a number, in a column of whole numbers.  Texts in columns
\* of other numbers, truth values or objects are not looked at.
isInvalidInt(c, value) ==
    /\ c.type \in IntTypes
    /\ value.k \in {"text", "select"}

\* The three cleaning passes: unresolved parameters, words in columns of whole
\* numbers, and the enums.
CleanValues(values, tables, t) ==
    LET left == {c \in DOMAIN values : values[c].k # "param"}
        column(c) == ColumnOf(tables, t, c)
        known(c) == HasColumn(tables, t, c)
        valid == {c \in left : known(c) => ~isInvalidInt(column(c), values[c])}
        kept == {c \in valid : known(c) => EnumValue(column(c), values[c]) # {}}
    IN  [c \in kept |-> IF known(c) THEN CHOOSE v \in EnumValue(column(c), values[c]) : TRUE
                        ELSE values[c]]

isLogTable(t) == t \in {"email_log", "audit_logs", "time_logs"}

-----------------------------------------------------------------------------
(* Aliases for foreign keys.  queries is the sequence of the query nodes   *)
(* of the graph: [tables, columns] with columns a set of [field, table,    *)
(* alias], and tables = {} for a query that is not enriched yet.           *)

\* The key of a column: one between data sources, otherwise one of the schema
\* in use.
KeysOf(t, column) ==
    LET cross == {fk \in CrossFKs : fk.fromTable = t /\ fk.fromColumn = column}
    IN  IF cross # {} THEN {[toTable |-> fk.toTable, toColumn |-> fk.toColumn] : fk \in cross}
        ELSE {[toTable |-> e.toTable, toColumn |-> e.toColumn] :
                  e \in {f \in getOutbound(schemaToUse(t), t) : f.fromColumn = column}}

Covering(queries, key) == {i \in DOMAIN queries : key.toTable \in queries[i].tables}

\* The field of the first covering query that the column takes its value from,
\* and what is added to that query when it does not select it.
Selected(query, key) ==
    {c \in query.columns : c.field = key.toColumn /\ c.table \in {key.toTable, ""}}

AliasFor(queries, keys) ==
    LET key == CHOOSE k \in keys : TRUE
        first == CHOOSE i \in Covering(queries, key) : \A j \in Covering(queries, key) : i <= j
        found == Selected(queries[first], key)
    IN  IF keys = {} THEN [some |-> FALSE, alias |-> "", query |-> 0, added |-> {}]
        ELSE IF found # {}
        THEN [some |-> TRUE, alias |-> (CHOOSE c \in found : TRUE).alias, query |-> first, added |-> {}]
        ELSE [some |-> TRUE, alias |-> key.toColumn, query |-> first,
              added |-> {[field |-> key.toColumn, table |-> key.toTable, alias |-> key.toColumn]}]

AliasOf(queries, t, column) ==
    AliasFor(queries, {k \in KeysOf(t, column) : Covering(queries, k) # {}})

-----------------------------------------------------------------------------
(* The payload.                                                            *)

AutoManaged == {"id", "created_at", "updated_at", "deleted_at"}

\* enrichWriteNode with an answer that parses.  found are the aliases of its
\* columns for foreign keys, merged and resolved the values and the registry.
PayloadOf(config, answer, columns, queries, tables, found, upstream, merged, resolved) ==
    LET t == IF config.table # "" THEN config.table ELSE answer.table
        paths == PathAliases(config)
        keyed == {c \in columns \ (DOMAIN merged \cup DOMAIN paths) : found[c].some}
        mode == IF answer.mode # "" THEN answer.mode
                ELSE IF config.mode # "" THEN config.mode ELSE "insert"
        static == CleanValues(merged, tables, t)
        names == IF HasTable(tables, t) THEN {c \in tables[t] : c.default = "none"} ELSE {}
    IN  [table |-> t, parsed |-> TRUE,
         mode |-> IF isLogTable(t) /\ mode = "insert" THEN "insert_ignore" ELSE mode,
         keys |-> config.keys,
         columns |-> columns, static |-> static, upstream |-> upstream,
         aliases |-> Over(paths, [c \in keyed |-> found[c].alias]),
         added |-> [i \in DOMAIN queries |->
                        UNION {found[c].added : c \in {d \in keyed : found[d].query = i}}],
         optional |-> {c.name : c \in names} \ (AutoManaged \cup columns \cup DOMAIN static \cup resolved),
         resolved |-> resolved \ AutoManaged]

\* The columns that take their value from the input rows.  available are the
\* fields of the direct dependencies.
WriteColumns(config, answer, available) ==
    LET t == IF config.table # "" THEN config.table ELSE answer.table
        log == IF t = "email_log" /\ "id" \in available THEN {"order_id"} ELSE {}
    IN  DynamicFields(config) \cup answer.columns \cup log

EnrichedPayload(config, answer, columns, queries, upstream) ==
    PayloadOf(config, answer, columns, queries, schemaToUse(config.table),
              [c \in columns |->
                  AliasOf(queries, IF config.table # "" THEN config.table ELSE answer.table, c)],
              upstream, MergedValues(config, answer), Resolved(Registry(config, answer)))

\* The catch of enrichWriteNode: the step's fields alone.  Paths become
\* literals, the names in an array become values of numbered columns, and the
\* conditions are lost.
FallbackPayload(config, available, queries) ==
    LET columns == IF config.array THEN {}
                   ELSE {c \in DOMAIN config.fields : config.fields[c].kind = "template"}
        static == IF config.array THEN [c \in {"0"} |-> Text(CHOOSE d \in DOMAIN config.fields : TRUE)]
                  ELSE [c \in DOMAIN config.fields \ columns |->
                            IF config.fields[c].kind = "path" THEN Text("path") ELSE config.fields[c].value]
    IN  [table |-> IF config.table # "" THEN config.table ELSE "output", parsed |-> FALSE,
         mode |-> IF config.mode # "" THEN config.mode ELSE "insert", keys |-> FALSE,
         columns |-> IF columns # {} THEN columns ELSE available,
         static |-> IF config.array /\ config.fields = Nothing THEN Nothing ELSE static,
         upstream |-> {}, aliases |-> Nothing, added |-> [i \in DOMAIN queries |-> {}],
         optional |-> {}, resolved |-> {}]

-----------------------------------------------------------------------------
(* Completeness.                                                           *)

\* getMissingColumns, for tables outside the CRM: the combined schema does not
\* carry defaults.
MissingElsewhere(p) ==
    LET tables == schemaToUse(p.table)
        given == p.columns \cup {c \in DOMAIN p.static : p.static[c].k # "null"}
    IN  IF p.mode \in {"insert", "insert_ignore", "upsert"}
        THEN {c.name : c \in {d \in tables[p.table] : ~d.nullable /\ d.name \notin given}}
        ELSE IF p.mode = "update" /\ p.columns \cup DOMAIN p.static = {} THEN {"(SET clause)"}
        ELSE {}

\* The check of plan().  An offered or resolved column is not missing.
Missing(p) ==
    LET mode == IF p.mode = "update" THEN "update" ELSE "insert"
    IN  (IF HasTable(Crm, p.table) /\ p.mode # "delete"
         THEN getUserSuppliedRequired(p.table, mode, DOMAIN p.static)
         ELSE MissingElsewhere(p)) \ (p.optional \cup p.resolved)

\* planWithMissingValues: the payload with the user's values, and what is
\* still missing.
WithValues(p, values) == [p EXCEPT !.static = Over(values, @)]

StillMissing(p) ==
    LET mode == IF p.mode = "update" THEN "update" ELSE "insert"
    IN  IF ~HasTable(Crm, p.table) THEN {}
        ELSE {c \in getUserSuppliedRequired(p.table, mode, DOMAIN p.static) :
                  Required(ColumnOf(Crm, p.table, c))} \ (p.optional \cup p.resolved)
=============================================================================
