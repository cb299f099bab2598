-------------------------- MODULE SchemaValidator --------------------------
(***************************************************************************)
(* The validation of a plan right before it is executed                    *)
(* (core/validation/schema-validator.ts, called by execute() in            *)
(* pipeline-engine.ts).  The "live" schema is the combined schema of the   *)
(* data sources, which carries names, nullability and primary keys but no  *)
(* defaults; types and enums are taken from the CRM schema.                *)
(***************************************************************************)
EXTENDS WriteEnrichment

\* getLiveSchema over buildCombinedSchemaConfig: of several sources with a
\* table the last one.
LiveTables ==
    [t \in UNION {DOMAIN Sources[i].tables : i \in DOMAIN Sources} |->
        Sources[CHOOSE i \in DOMAIN Sources : Sources[i].name = routeTable(t)].tables[t]]

\* The JavaScript type that a column expects, and that of a value.
NumberTypes == IntTypes \cup {"SMALLINT", "INT2", "INT4", "INT8", "NUMERIC", "REAL",
                              "DOUBLE PRECISION", "FLOAT"}

sqlTypeToJsType(type) ==
    CASE type \in NumberTypes -> "number"
      [] type \in {"BOOLEAN", "BOOL"} -> "boolean"
      [] type \in {"JSONB", "JSON"} -> "object"
      [] OTHER -> "string"

JsType(value) ==
    CASE value.k = "num" -> "number"
      [] value.k = "bool" -> "boolean"
      [] value.k = "object" -> "object"
      [] OTHER -> "string"

\* A column outside the CRM counts as TEXT.
TypeOf(t, name) == IF HasColumn(Crm, t, name) THEN ColumnOf(Crm, t, name).type ELSE "TEXT"

\* validateColumnType: null is refused in NOT NULL columns, and a value of
\* another type than the column expects, but for a number in a text column.
MistypedValue(t, name, value) ==
    LET type == TypeOf(t, name)
    IN  IF value.k = "null" THEN ~ColumnOf(LiveTables, t, name).nullable
        ELSE /\ JsType(value) # sqlTypeToJsType(type)
             /\ ~(value.k = "num" /\ type \in {"TEXT", "VARCHAR", "CHARACTER VARYING"})

\* Words that a CHECK does not list.
OutsideEnum(t, name, value) ==
    /\ value.k # "null"
    /\ HasColumn(Crm, t, name)
    /\ LET enum == enumValues(ColumnOf(Crm, t, name))
       IN  enum # <<>> /\ value.v \notin ToSet(enum)

\* The static values that are refused.  One that is also a dynamic column, that
\* is the name of a column or a subquery, is not looked at.
RefusedValues(p) ==
    {c \in DOMAIN p.static :
        LET v == p.static[c]
        IN  /\ HasColumn(LiveTables, p.table, c) /\ c \notin p.columns
            /\ ~(v.k = "text" /\ v.v \in ColumnNames(LiveTables, p.table)) /\ v.k # "select"
            /\ MistypedValue(p.table, c, v) \/ OutsideEnum(p.table, c, v)}

\* findMissingRequiredColumns.  A column of the live schema has no defaultRaw,
\* which is not null either: every column is taken for one with a default.
hasDefault(c) == TRUE

findMissingRequiredColumns(p) ==
    {c.name : c \in {d \in LiveTables[p.table] :
                        /\ ~d.nullable /\ ~hasDefault(d)
                        /\ d.name \notin p.columns \cup DOMAIN p.static}}

\* validateWriteMode: an upsert names its conflict columns, an update its
\* where columns or literal conditions.
ValidMode(p) == p.mode \in {"upsert", "update"} => p.keys

\* validateWriteNode: what makes the plan invalid.
ValidWrite(p) ==
    /\ HasTable(LiveTables, p.table)
    /\ p.columns \cup DOMAIN p.static \subseteq ColumnNames(LiveTables, p.table)
    /\ p.mode \in {"insert", "insert_ignore", "upsert"} => findMissingRequiredColumns(p) = {}
    /\ RefusedValues(p) = {}
    /\ ValidMode(p)
=============================================================================
