---------------------------- MODULE QueryCompiler ----------------------------
(***************************************************************************)
(* From a QueryIntent to what is executed: the validation and the AST      *)
(* (query-ast-builder.ts), the plan and its predicate pushdown             *)
(* (query-planner.ts, operator-tree-builder.ts), the two SQL texts of the  *)
(* other paths (query-executor.ts, CalciteCompiler.java), the routing      *)
(* between them, the references to upstream outputs and the split of a     *)
(* query over two databases (cross-db-decomposer.ts).                      *)
(*                                                                         *)
(* A filter is a record [field, table, op, vals, list, sub, ref, expr, ci]:*)
(* vals holds its value (none: undefined) or, when list, its array; sub    *)
(* says that the value is the text of a subquery; ref names an upstream    *)
(* output, expr holds a raw SQL value; ci is caseInsensitive.  An optional *)
(* array of the intent is <<>> (absent) or <<array>>.                      *)
(* Only plans of one table are built: QueryExecutor.execute never lets a   *)
(* query with joins reach the planner.                                     *)
(***************************************************************************)
EXTENDS Expressions, FiniteSets, SequencesExt, TLC

CONSTANTS Tables,      \* the schema: the fields of every table
          TextColumn   \* the fields with a text type

Undefined == -9                \* an absent limit or offset
MaxSafeInteger == 1000         \* larger than every number of rows

Given(x) == x # <<>>
OrEmpty(x) == IF Given(x) THEN x[1] ELSE <<>>

-----------------------------------------------------------------------------
(* QueryASTBuilder.validateIntent.  A filter may name a joined table by    *)
(* its alias; the fields of a HAVING are looked up in the tables too.      *)
TableOf(x, intent) == IF x.table = "" THEN intent.table ELSE x.table

Aliased(t, intent) ==
  LET named == SelectSeq(intent.joins, LAMBDA j : j.alias = t) IN
  IF named = <<>> THEN t ELSE Last(named).table

Exists(t, f) == t \in DOMAIN Tables /\ f \in Tables[t]

ColumnsExist(intent, extra) ==
  \A i \in DOMAIN intent.columns :
    LET c == intent.columns[i] IN
    c.agg # "" \/ c.field = "*" \/ c.field \in extra \/ Exists(TableOf(c, intent), c.field)

FiltersExist(filters, intent, extra) ==
  \A i \in DOMAIN filters :
    LET f == filters[i] IN
    f.field \in extra \/ Exists(Aliased(TableOf(f, intent), intent), f.field)

GroupsExist(intent, extra) ==
  \A i \in DOMAIN OrEmpty(intent.groupBy) :
    LET f == OrEmpty(intent.groupBy)[i] IN
    f \in extra \/ \E t \in {intent.table} \union {intent.joins[j].table : j \in DOMAIN intent.joins} :
                      Exists(t, f)

(* With both clauses, a plain column of the primary table is grouped.      *)
ColumnsGrouped(intent) ==
  Given(intent.aggregations) /\ Given(intent.groupBy) =>
    \A i \in DOMAIN intent.columns :
      LET c == intent.columns[i] IN
      \/ c.agg # ""
      \/ Contains(intent.groupBy[1], c.field)
      \/ \E j \in DOMAIN intent.joins : intent.joins[j].table = TableOf(c, intent)

ValidateIntent(intent, extra) ==
  /\ intent.table \in DOMAIN Tables
  /\ ColumnsExist(intent, extra)
  /\ FiltersExist(intent.filters, intent, extra)
  /\ \A i \in DOMAIN intent.joins : intent.joins[i].table \in DOMAIN Tables
  /\ GroupsExist(intent, extra)
  /\ FiltersExist(intent.having, intent, {})
  /\ ColumnsGrouped(intent)
  /\ intent.limit = Undefined \/ intent.limit >= 0
  /\ intent.offset = Undefined \/ intent.offset >= 0

-----------------------------------------------------------------------------
(* buildFilterExpr.  A scalar != falls through to the case of BETWEEN and  *)
(* throws; the table of the filter is not kept in the expression.          *)
BadExpr == [kind |-> "Error"]   \* the builder throws, or the text does not parse

Value(f) == IF f.list THEN <<"list", f.vals>> ELSE f.vals[1]
Literals(f) == [i \in DOMAIN f.vals |-> Literal(f.vals[i])]

BuildFilterExpr(f) ==
  LET field == FieldRef("", f.field)
      membership == IF f.list THEN In(field, Literals(f)) ELSE BadExpr
      negated == IF f.list THEN Not(In(field, Literals(f))) ELSE BadExpr
      range == IF f.list /\ Len(f.vals) = 2
               THEN Between(field, Literals(f)[1], Literals(f)[2]) ELSE BadExpr
  IN CASE f.op = "IS NULL" -> IsNull(field)
       [] f.op = "IS NOT NULL" -> Not(IsNull(field))
       [] f.op = "IN" -> membership
       [] f.op = "NOT IN" -> negated
       [] f.op = "!=" -> IF f.list THEN negated ELSE range
       [] f.op = "BETWEEN" -> range
       [] f.vals = <<>> /\ f.ref = "" /\ f.expr = <<>> -> BadExpr
       [] OTHER -> BinaryOp(f.op, field,
                            CASE f.expr # <<>> -> SqlExpr(f.expr[1])
                              [] f.ref # "" -> VarRef(f.ref)
                              [] OTHER -> Literal(Value(f)))

(* buildWhereExpr: filters with one operator and one value are joined by   *)
(* OR, the groups by AND, in the order of their first filters.             *)
GroupKey(f) == <<f.op, f.list, f.vals>>

Combine(op, exprs) == FoldLeft(LAMBDA l, r : BinaryOp(op, l, r), Head(exprs), Tail(exprs))

BuildWhereExpr(filters) ==
  LET keys == FoldLeft(LAMBDA ks, f : IF Contains(ks, GroupKey(f)) THEN ks
                                      ELSE Append(ks, GroupKey(f)), <<>>, filters)
      Group(k) == LET fs == SelectSeq(filters, LAMBDA f : GroupKey(f) = k) IN
                  Combine("OR", [i \in DOMAIN fs |-> BuildFilterExpr(fs[i])])
  IN IF filters = <<>> THEN <<>>
     ELSE <<Combine("AND", [i \in DOMAIN keys |-> Group(keys[i])])>>

Throws(filters) == \E i \in DOMAIN filters : BuildFilterExpr(filters[i]) = BadExpr

(* buildAST for one table: projections of the plain columns, the sort keys *)
(* with their defaults, and the optional parts as they are.                *)
BuildAST(intent) ==
  LET plain == SelectSeq(intent.columns, LAMBDA c : c.agg = "" /\ c.field # "*") IN
  [table        |-> intent.table,
   columns      |-> [i \in DOMAIN plain |-> [expr |-> FieldRef("", plain[i].field),
                                             alias |-> plain[i].alias]],
   where        |-> BuildWhereExpr(intent.filters),
   groupBy      |-> [i \in DOMAIN intent.groupBy |->
                       [j \in DOMAIN intent.groupBy[i] |-> FieldRef("", intent.groupBy[i][j])]],
   aggregations |-> [i \in DOMAIN intent.aggregations |->
                       [j \in DOMAIN intent.aggregations[i] |->
                          LET a == intent.aggregations[i][j] IN
                          [fn |-> a.fn, alias |-> a.alias,
                           expr |-> IF a.expr = "*" THEN Wildcard ELSE FieldRef("", a.expr)]]],
   having       |-> BuildWhereExpr(intent.having),
   orderBy      |-> [i \in DOMAIN intent.orderBy |->
                       [expr |-> FieldRef("", intent.orderBy[i].field),
                        direction |-> intent.orderBy[i].direction,
                        nulls |-> intent.orderBy[i].nulls]],
   limit        |-> intent.limit,
   offset       |-> intent.offset]

-----------------------------------------------------------------------------
(* QueryPlanner.buildDAG: the nodes from the scan up; the input of a node  *)
(* is the one before it.  An empty array of groups or of aggregations is   *)
(* present, and puts an Agg node into the plan; a limit of 0 is no limit.  *)
Filter(predicate) == [kind |-> "Filter", predicate |-> predicate]

BuildDAG(ast) ==
  <<[kind |-> "Scan", table |-> ast.table, predicate |-> <<>>]>>
  \o (IF Given(ast.where) THEN <<Filter(ast.where[1])>> ELSE <<>>)
  \o (IF Given(ast.groupBy) \/ Given(ast.aggregations)
      THEN <<[kind |-> "Agg", keys |-> OrEmpty(ast.groupBy),
              aggregations |-> OrEmpty(ast.aggregations)]>> ELSE <<>>)
  \o (IF Given(ast.having) THEN <<Filter(ast.having[1])>> ELSE <<>>)
  \o (IF ast.orderBy # <<>> THEN <<[kind |-> "Sort", keys |-> ast.orderBy]>> ELSE <<>>)
  \o <<[kind |-> "Project",
        columns |-> ast.columns
                    \o [i \in DOMAIN OrEmpty(ast.aggregations) |->
                          LET a == OrEmpty(ast.aggregations)[i] IN
                          [expr |-> FieldRef("", a.alias), alias |-> a.alias]]]>>
  \o (IF ast.limit # Undefined \/ ast.offset # Undefined
      THEN <<[kind |-> "Limit",
              count |-> IF ast.limit \in {Undefined, 0} THEN MaxSafeInteger ELSE ast.limit,
              offset |-> IF ast.offset = Undefined THEN 0 ELSE ast.offset]>> ELSE <<>>)

(* The tables a predicate names, through binary operators only.            *)
RECURSIVE ReferencedTables(_)
ReferencedTables(e) ==
  CASE e.kind = "FieldRef" -> {e.table} \ {""}
    [] e.kind = "BinaryOp" -> ReferencedTables(e.left) \union ReferencedTables(e.right)
    [] OTHER -> {}

(* predicatePushdown: a filter right above the scan becomes the scan's     *)
(* predicate.  The node above moves down with it, so that a second filter  *)
(* is pushed as well and replaces the first.                               *)
RECURSIVE PredicatePushdown(_)
PredicatePushdown(plan) ==
  IF /\ plan[2].kind = "Filter"
     /\ ReferencedTables(plan[2].predicate) \subseteq {plan[1].table}
  THEN PredicatePushdown(<<[plan[1] EXCEPT !.predicate = <<plan[2].predicate>>]>>
                         \o SubSeq(plan, 3, Len(plan)))
  ELSE plan

Plan(intent) == PredicatePushdown(BuildDAG(BuildAST(intent)))

-----------------------------------------------------------------------------
(* QueryExecutor.needsCalcite and the two SQL statements.  A statement is  *)
(* its conditions (joined by AND) and what else it asks for; BadExpr stands*)
(* for a text that does not parse.                                         *)
NeedsCalcite(intent) ==
  \/ intent.joins # <<>>
  \/ \E i \in DOMAIN intent.filters : intent.filters[i].sub
  \/ OrEmpty(intent.groupBy) # <<>>
  \/ \E i \in DOMAIN intent.columns : intent.columns[i].agg # ""

InFrom(t, intent) ==
  t \in {"", intent.table} \union {intent.joins[i].table : i \in DOMAIN intent.joins}
                           \union {intent.joins[i].alias : i \in DOMAIN intent.joins}

(* The operator of a case-insensitive comparison is not kept: everything   *)
(* but LIKE is an equality.                                                *)
RawCondition(f) ==
  LET field == FieldRef("", f.field) IN
  CASE f.op = "IS NULL" -> IsNull(field)
    [] f.op = "IS NOT NULL" -> Not(IsNull(field))
    [] f.vals = <<>> -> BadExpr
    [] f.op \in {"IN", "NOT IN"} -> IF f.op = "IN" THEN In(field, Literals(f))
                                    ELSE Not(In(field, Literals(f)))
    [] f.list -> BadExpr
    [] f.ci /\ IsText(f.vals[1]) ->
         IF f.op = "LIKE" THEN BinaryOp("ILIKE", field, Literal(f.vals[1]))
         ELSE BinaryOp("=", Lower(field), Lower(Literal(f.vals[1])))
    [] OTHER -> BinaryOp(f.op, field, Literal(f.vals[1]))

BuildRawSQL(intent) ==
  [where   |-> [i \in DOMAIN intent.filters |-> RawCondition(intent.filters[i])],
   groupBy |-> OrEmpty(intent.groupBy),
   limit   |-> IF intent.limit = 0 THEN Undefined ELSE intent.limit,
   offset  |-> IF intent.offset = 0 THEN Undefined ELSE intent.offset]

(* buildRawSQL refuses a filter on a table outside the FROM clause.        *)
RawRefused(intent) ==
  \E i \in DOMAIN intent.filters :
    /\ ~InFrom(intent.filters[i].table, intent)
    /\ ~(intent.filters[i].op = "NOT IN" /\ intent.filters[i].sub)

(* CalciteCompiler.buildSelectSQL writes an array with Java's toString,    *)
(* which does not parse, and compares texts as they are.                   *)
CalciteCondition(f) ==
  LET field == FieldRef("", f.field) IN
  CASE f.op = "IS NULL" -> IsNull(field)
    [] f.op = "IS NOT NULL" -> Not(IsNull(field))
    [] f.list \/ f.vals = <<>> \/ f.op = "IN" -> BadExpr
    [] OTHER -> BinaryOp(f.op, field, Literal(f.vals[1]))

CompileSelect(intent) ==
  [where   |-> [i \in DOMAIN intent.filters |-> CalciteCondition(intent.filters[i])],
   groupBy |-> OrEmpty(intent.groupBy), limit |-> intent.limit, offset |-> intent.offset]

(* A condition does not parse, or the server does not accept its types.    *)
Refused(stmt) == \E i \in DOMAIN stmt.where : SQLType(stmt.where[i], TextColumn) = "error"

(* What Postgres selects for a statement, before it groups and cuts.       *)
Matched(stmt, rows) ==
  SelectSeq(rows, LAMBDA r : \A i \in DOMAIN stmt.where : SQLValue(stmt.where[i], r) = Bool(TRUE))

-----------------------------------------------------------------------------
(* QueryExecutor.execute replaces a reference by the one value of the      *)
(* upstream rows; no value, or several, is an error, an unknown upstream   *)
(* node leaves the reference in place.                                     *)
Known(values) == SelectSeq(values, LAMBDA v : v # Null)

Unresolvable(f, outputs) ==
  f.ref \in DOMAIN outputs /\ Len(Known(outputs[f.ref])) # 1

ResolveRef(f, outputs) ==
  IF f.ref \in DOMAIN outputs
  THEN [f EXCEPT !.op = "IN", !.vals = Known(outputs[f.ref]), !.list = TRUE, !.ref = ""]
  ELSE f

ResolveRefs(intent, outputs) ==
  [intent EXCEPT !.filters = [i \in DOMAIN @ |-> ResolveRef(@[i], outputs)]]

(* decomposeCrossDBQuery: a join with a table of another database becomes  *)
(* a lookup of the joined column there, with the filters on that table,    *)
(* and an IN over its result in the primary query.  route gives the        *)
(* database of a table.                                                    *)
Foreign(intent, route) ==
  SelectSeq(intent.joins, LAMBDA j : route[j.table] # route[intent.table])

Lookup(join, intent) ==
  [intent EXCEPT !.table = join.table, !.joins = <<>>,
                 !.columns = <<[field |-> join.right, table |-> join.table, agg |-> "",
                                alias |-> join.right]>>,
                 !.filters = SelectSeq(@, LAMBDA f : f.table = join.table),
                 !.groupBy = <<>>, !.aggregations = <<>>, !.having = <<>>, !.orderBy = <<>>,
                 !.limit = Undefined, !.offset = Undefined]

LinkFilter(join, intent) ==
  [field |-> join.left, table |-> intent.table, op |-> "IN", vals |-> <<>>, list |-> FALSE,
   sub |-> FALSE, ref |-> join.table, expr |-> <<>>, ci |-> FALSE]

(* Mutant of Primary: the filters on the other database's table stay.      *)
PrimaryAll(intent, route) ==
  LET foreign == Foreign(intent, route) IN
  [intent EXCEPT !.joins = SelectSeq(@, LAMBDA j : route[j.table] = route[intent.table]),
                 !.filters = @ \o [i \in DOMAIN foreign |-> LinkFilter(foreign[i], intent)]]

Primary(intent, route) ==
  LET foreign == Foreign(intent, route)
      local == SelectSeq(intent.filters,
                         LAMBDA f : route[TableOf(f, intent)] = route[intent.table])
  IN [intent EXCEPT !.joins = SelectSeq(@, LAMBDA j : route[j.table] = route[intent.table]),
                    !.filters = local \o [i \in DOMAIN foreign |->
                                            LinkFilter(foreign[i], intent)]]

-----------------------------------------------------------------------------
(* A predicate of filters, a row in small letters.                         *)
Small(v) == IF IsText(v) THEN Text(v[2], FALSE) ELSE v
SmallRow(row) == [n \in DOMAIN row |-> Small(row[n])]

RECURSIVE SmallExpr(_)
SmallExpr(e) ==
  CASE e.kind = "Literal" -> Literal(Small(e.value))
    [] e.kind = "BinaryOp" -> BinaryOp(e.op, SmallExpr(e.left), SmallExpr(e.right))
    [] e.kind = "UnaryOp" -> [e EXCEPT !.operand = SmallExpr(@)]
    [] e.kind = "In" -> [e EXCEPT !.values = [i \in DOMAIN @ |-> SmallExpr(@[i])]]
    [] e.kind = "Between" -> Between(e.expr, SmallExpr(e.low), SmallExpr(e.high))
    [] OTHER -> e

(* A WHERE is answered by the database, a HAVING by the evaluator.  What   *)
(* the two have in common for a list of filters: if the server accepts the *)
(* pushed-down predicate (it refuses numbers beside texts, which the       *)
(* evaluator finds unequal), then on a row without nulls it selects what   *)
(* the evaluator keeps after everything is put in small letters, and on a  *)
(* row with nulls no row that the evaluator would drop, except where that  *)
(* throws (LIKE of a null).  On the letters as they are the two disagree:  *)
(* the predicate ignores the case of texts, the evaluator does not.        *)
SameMeaning(filters, row) ==
  LET e == BuildWhereExpr(filters)[1]
      sql == Selected(e, TextColumn, row)
      value == Evaluate(SmallExpr(e), <<>>, SmallRow(row))
  IN Accepted(e, TextColumn) =>
       /\ sql => value \in {Bool(TRUE), Thrown}
       /\ Null \notin {row[n] : n \in DOMAIN row} => (sql <=> value = Bool(TRUE))

(* When the lookup in the other database yields one value, the query that  *)
(* is left selects the rows of the primary table that join with a row of   *)
(* the other one, both satisfying their filters.                           *)
SplitKeepsJoin(intent, route, rows, others) ==
  LET join == intent.joins[1]
      found == Matched(BuildRawSQL(Lookup(join, intent)), others)
      values == [i \in DOMAIN found |-> found[i][<<"", join.right>>]]
      left == ResolveRefs(Primary(intent, route), join.table :> values)
      Holds(t, row) == \A i \in DOMAIN intent.filters :
                         TableOf(intent.filters[i], intent) = t =>
                           SQLValue(RawCondition(intent.filters[i]), row) = Bool(TRUE)
      Joined(row) == \E i \in DOMAIN others :
                       /\ Holds(join.table, others[i])
                       /\ row[<<"", join.left>>] # Null
                       /\ row[<<"", join.left>>] = others[i][<<"", join.right>>]
  IN Len(Known(values)) = 1 =>
       Matched(BuildRawSQL(left), rows) =
         SelectSeq(rows, LAMBDA r : Holds(intent.table, r) /\ Joined(r))
=============================================================================
