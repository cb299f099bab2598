---------------------------- MODULE SchemaTraits ----------------------------
(***************************************************************************)
(* What is inferred from the DDL of the data sources: the trait of every   *)
(* column (schema/TraitInferencer.ts), its class in a write                *)
(* (schema/ColumnClassifier.ts), the foreign-key graph                     *)
(* (schema/DDLParser.ts) and the source of every table                     *)
(* (schema/MultiSourceSchemaBuilder.ts).                                   *)
(*                                                                         *)
(* Sources is the sequence of the registered data sources: a record with a *)
(* name and tables, a function from table names to sets of columns. A      *)
(* column is a record: name, type (without its precision or length),       *)
(* nullable, default ("none", "sql" for an expression such as NOW(), or a  *)
(* word), pk, fk (<<>> or <<table, column>>) and enum, the sequence of the *)
(* words that a CHECK allows. The first source is the CRM database,        *)
(* crmSchema.                                                              *)
(***************************************************************************)
EXTENDS Integers, Sequences, FiniteSets, SequencesExt

CONSTANT Sources

\* The types of whole numbers that the cleaning of a write looks at.
IntTypes == {"INT", "INTEGER", "SERIAL", "BIGINT"}

\* A table has a name.  The words of a CHECK are a list, and a default is among
\* them, since the database would refuse it otherwise.  updated_at is a time.
ASSUME SchemaAssumption ==
    /\ 1 \in DOMAIN Sources /\ DOMAIN Sources \subseteq Nat \ {0}
    /\ \A i \in DOMAIN Sources : \A t \in DOMAIN Sources[i].tables :
          /\ t # ""
          /\ \A c \in Sources[i].tables[t] :
                /\ c.enum \in Seq(ToSet(c.enum))
                /\ c.enum # <<>> /\ c.default \notin {"none", "sql"} => c.default \in ToSet(c.enum)
                /\ c.name = "updated_at" => c.type \notin IntTypes /\ c.enum = <<>>

Crm == Sources[1].tables

\* The sessionAnchorTables of crm-schema.ts.
SessionAnchors == {"workspaces"}

\* The names that the patterns of the inferencer match.
CreatedPrefix == {"created_at", "created_on", "created_by_user_id"}
AuditedNames == {"created_by_user_id", "updated_by_user_id"}
SoftDeleteNames == {"deleted_at", "archived_at", "deactivated_at", "removed_at"}
AggregateNames == {"subtotal", "tax_total", "discount_total", "grand_total", "line_total",
                   "total_amount", "total_price", "total_rows", "success_rows", "failed_rows"}

HasTable(tables, t) == t \in DOMAIN tables
ColumnNames(tables, t) == {c.name : c \in tables[t]}
ColumnOf(tables, t, name) == CHOOSE c \in tables[t] : c.name = name
HasColumn(tables, t, name) == HasTable(tables, t) /\ name \in ColumnNames(tables, t)

\* FKGraph: the outgoing edges of a table, and whether it has incoming ones.
getOutbound(tables, t) ==
    IF ~HasTable(tables, t) THEN {}
    ELSE {[fromColumn |-> c.name, toTable |-> c.fk[1], toColumn |-> c.fk[2]] :
              c \in {d \in tables[t] : d.fk # <<>>}}

isReferenced(tables, t) ==
    \E u \in DOMAIN tables : \E e \in getOutbound(tables, u) : e.toTable = t

isChildAggregateColumn(tables, t, name) == name \in AggregateNames /\ isReferenced(tables, t)

\* getConditionalDependency: columns that belong to one value of the status.
ConditionalNames(word) ==
    CASE word = "resolved" -> {"resolved_at", "resolved_by"}
      [] word = "closed"   -> {"closed_at", "closed_by"}
      [] word = "won"      -> {"actual_close_date"}
      [] word = "lost"     -> {"loss_reason"}
      [] OTHER -> {}

isConditional(tables, t, name) ==
    /\ HasColumn(tables, t, "status")
    /\ LET enum == ColumnOf(tables, t, "status").enum
       IN  /\ enum # <<>>
           /\ \/ \E i \in DOMAIN enum : name \in ConditionalNames(enum[i])
              \/ /\ name = "converted_at"
                 /\ \E c \in tables[t] : c.type = "INT" /\ c.name \in {"converted_lead_id", "converted_account_id"}

\* inferTraits, the trait of one column.  A later rule of the code overwrites
\* the mark of the "created" names, which come last here.
inferTraits(tables, t, c) ==
    LET to == IF c.fk = <<>> THEN "" ELSE c.fk[1]
    IN  CASE c.pk \/ c.type = "SERIAL" -> "server_generated"
          [] c.default = "sql" -> "server_generated"
          [] to \in SessionAnchors -> "session_scoped"
          [] to = "users" /\ c.name \in AuditedNames -> "system_audited"
          [] c.name \in SoftDeleteNames /\ c.nullable /\ c.type = "TIMESTAMPTZ" -> "soft_delete_marker"
          [] isChildAggregateColumn(tables, t, c.name) -> "computed_from_children"
          [] isConditional(tables, t, c.name) -> "conditional_required"
          [] c.name \in CreatedPrefix -> "immutable_after_insert"
          [] OTHER -> "user_supplied"

isImmutable(c) ==
    /\ ~(c.pk \/ c.type = "SERIAL")
    /\ IF c.default = "sql" THEN c.name \in {"created_at", "updated_at"} ELSE c.name \in CreatedPrefix

\* The enum of a column: the rules that return early do not copy it.
enumValues(c) == IF c.pk \/ c.type = "SERIAL" \/ c.default = "sql" THEN <<>> ELSE c.enum

\* classifyColumn: the class of a column in a write.
classifyColumn(tables, t, c, mode) ==
    IF mode = "update" /\ isImmutable(c) THEN "immutable_after_insert" ELSE inferTraits(tables, t, c)

\* getUserSuppliedRequired: the columns a user must still give, whether they
\* are nullable, have a default or come from the input rows.
getUserSuppliedRequired(t, mode, given) ==
    {c.name : c \in {d \in Crm[t] : /\ classifyColumn(Crm, t, d, mode) = "user_supplied"
                                    /\ d.name \notin given}}

\* buildMultiSourceSchema and routeTable: of several sources with the table, the
\* last one; "default" when there is none.
routeTable(t) ==
    LET having == {i \in DOMAIN Sources : HasTable(Sources[i].tables, t)}
    IN  IF having = {} THEN "default"
        ELSE Sources[CHOOSE i \in having : \A j \in having : j <= i].name

\* enrichWriteNode: of several sources with the table, the first one; the CRM
\* schema when there is none.
schemaToUse(t) ==
    LET having == {i \in DOMAIN Sources : HasTable(Sources[i].tables, t)}
    IN  IF having = {} THEN Crm
        ELSE Sources[CHOOSE i \in having : \A j \in having : i <= j].tables

\* A column that the database refuses to leave empty: NOT NULL and no default.
\* A SERIAL column has one.
Required(c) == ~c.nullable /\ c.default = "none" /\ c.type # "SERIAL"
=============================================================================
