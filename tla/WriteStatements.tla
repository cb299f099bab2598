-------------------------- MODULE WriteStatements --------------------------
(***************************************************************************)
(* The SQL statements of a write node (nodes/definitions/write-node.ts,    *)
(* write-predicate-builder.ts, buildWhereFromCursor of SessionCursor.ts,   *)
(* and the Calcite compiler as the node uses it).                          *)
(*                                                                         *)
(* A statement is not text: it is its SET or VALUES list, its WHERE list   *)
(* and its parameters.  An entry of a list names a column, how the value   *)
(* is written (a placeholder $n, an SQL expression, IS NULL) and, beside   *)
(* it, the value the payload means, so that the two can be compared.  A    *)
(* value is a list: a scalar is a list of one, which is how the code       *)
(* treats both.                                                            *)
(* Object.entries lists keys in the order of Columns.                      *)
(***************************************************************************)
EXTENDS Integers, Sequences, FiniteSets, SequencesExt

CONSTANTS Columns,      \* sequence: every column name and row field
          BlockedCols,  \* the columns an UPDATE may not set (getBlockedOnUpdate)
          BatchSize,    \* rows of one INSERT (payload.batchSize, default 100)
          EnumLower     \* enum values in other letters -> the valid lower-case value

ASSUME StatementAssumption ==
    /\ Columns \in Seq(STRING) /\ IsInjective(Columns)
    /\ BlockedCols \subseteq ToSet(Columns) \ {"deleted_at"}
    /\ BatchSize \in Nat \ {0}

Null == "null"              \* SQL NULL, JavaScript null
Undefined == "undefined"    \* an absent key
SqlNow == "NOW()"           \* stands for every SQL expression the code knows
Timestamp == "timestamp"    \* the ISO string that prepareRows puts for NOW()

MinOf(a, b) == IF a < b THEN a ELSE b

\* Array.filter: the elements of s that are in S, in their order.
Filter(s, S) ==
    LET f[i \in 0..Len(s)] ==
            IF i = 0 THEN <<>>
            ELSE IF s[i] \in S THEN Append(f[i - 1], s[i]) ELSE f[i - 1]
    IN  f[Len(s)]

Without(s, S) == Filter(s, ToSet(s) \ S)

\* Object.keys of a record of values.
Keys(f) == Filter(Columns, DOMAIN f)
Has(seq, c) == c \in ToSet(seq)

\* [...new Set([...s, ...t])]
Union(s, t) == s \o Without(t, ToSet(s))

-----------------------------------------------------------------------------
(* Statements.                                                             *)

Entry(c, how, n, v) == [col |-> c, how |-> how, ph |-> n, val |-> v]

\* The entries with a placeholder, and the parameters pushed for them.
Params(list) == Filter(list, {e \in ToSet(list) : e.how = "param"})
ParamVals(list) == [i \in DOMAIN Params(list) |-> Params(list)[i].val]

Statement(op, set, where, params) ==
    [op |-> op, set |-> set, where |-> where, params |-> params]

\* A clause that numbers its placeholders from offset + 1 while it pushes the
\* values; items are pairs of a column and a value, each written as hows says.
Clause(items, offset, hows) ==
    [i \in DOMAIN items |->
        Entry(items[i][1], hows[i], offset + Cardinality({j \in 1..i : hows[j] = "param"}),
              items[i][2])]

Numbered(items, offset, how(_)) ==
    Clause(items, offset, [i \in DOMAIN items |-> how(items[i][2])])

AsParam(v) == "param"
\* Literals become parameters, known SQL expressions are written into the text.
AsLiteral(v) == IF v = <<SqlNow>> THEN "sql" ELSE "param"
\* runDelete and predicateToSQL: IS NULL takes no parameter.
AsCondition(v) == IF v \in {<<Null>>, <<Undefined>>} THEN "isNull" ELSE "param"

Pairs(cols, f(_)) == [i \in DOMAIN cols |-> <<cols[i], <<f(cols[i])>> >>]
Lists(cols, f(_)) == [i \in DOMAIN cols |-> <<cols[i], f(cols[i])>>]

-----------------------------------------------------------------------------
(* The payload's values in a row.                                          *)

Field(row, c) == IF c \in DOMAIN row THEN row[c] ELSE Undefined

\* An alias or the column itself: resolveColumnValue, and the first part of
\* getColumnValue, which is only called for dynamic columns.
ResolveColumnValue(c, row, p) ==
    IF c \in DOMAIN row THEN row[c]
    ELSE IF c \in DOMAIN p.aliases THEN Field(row, p.aliases[c]) ELSE Undefined

GetColumnValue(c, row, p) ==
    LET v == ResolveColumnValue(c, row, p)
    IN  IF v = Undefined THEN Field(p.static, c) ELSE v

ResolveNow(v) == IF v = SqlNow THEN Timestamp ELSE v

\* normalizeEnumValues: a copy of the payload.
NormalizeEnumValues(p) ==
    [p EXCEPT !.static = [c \in DOMAIN @ |->
        IF @[c] \in DOMAIN EnumLower THEN EnumLower[@[c]] ELSE @[c]]]

\* prepareRows, by its three results.
DataRow(row, p) ==
    LET cols == {c \in ToSet(p.columns) : GetColumnValue(c, row, p) # Undefined}
    IN  [c \in cols |-> ResolveNow(GetColumnValue(c, row, p))]

DataRows(rows, p) ==
    IF p.mode = "delete" THEN rows ELSE [i \in DOMAIN rows |-> DataRow(rows[i], p)]

EffectiveColumns(rows, p) ==
    IF p.mode = "delete" THEN <<>>
    ELSE Filter(p.columns, {c \in ToSet(p.columns) :
            \/ c \in DOMAIN p.aliases /\ Field(rows[1], p.aliases[c]) \notin {Null, Undefined}
            \/ GetColumnValue(c, rows[1], p) # Undefined})

DynamicColumns(rows, p) ==
    IF p.mode = "delete" THEN <<>>
    ELSE Filter(p.columns, {c \in ToSet(p.columns) :
            /\ c \notin DOMAIN p.static
            /\ \E i \in DOMAIN rows : c \in DOMAIN DataRow(rows[i], p)})

\* The rows of the template path: stepConfig.fields gives each target field a
\* source field of the row or a literal.
TemplateRow(row, fields) ==
    [c \in DOMAIN fields |->
        IF fields[c].from # ""
        THEN IF Field(row, fields[c].from) = Undefined THEN Null ELSE row[fields[c].from]
        ELSE ResolveNow(fields[c].lit)]

-----------------------------------------------------------------------------
(* WHERE clauses.                                                          *)

\* Mutant: the conditions after the first are lost.
FirstCondition(sw) ==
    LET kept == Filter(Columns, {c \in DOMAIN sw : sw[c] # <<>>})
    IN  Lists(SubSeq(kept, 1, MinOf(1, Len(kept))), LAMBDA c : sw[c])

\* buildWritePredicate: the conditions it keeps; an empty list is dropped.
BuildWritePredicate(sw) ==
    Lists(Filter(Columns, {c \in DOMAIN sw : sw[c] # <<>>}), LAMBDA c : sw[c])

\* Mutant: the second condition of an AND starts at the same index again.
PredicateToSQLRestarts(pred, start) ==
    [i \in DOMAIN pred |-> Entry(pred[i][1], AsCondition(pred[i][2]), start, pred[i][2])]

\* predicateToSQL on a chain of ANDs: nextIndex threads through.
PredicateToSQL(pred, start) == Numbered(pred, start - 1, AsCondition)

\* buildWhereFromCursor for a cursor that holds ids.
BuildWhereFromCursor(ids, start) == <<Entry("id", "param", start, ids)>>

-----------------------------------------------------------------------------
(* The statements of each path.  A path either throws or yields the list   *)
(* of statements it sends, one after the other.                            *)

Throw == [ok |-> FALSE, tx |-> 0, stmts |-> <<>>]
Send(tx, stmts) == [ok |-> TRUE, tx |-> tx, stmts |-> stmts]

\* Mutant: the last, incomplete batch is left out.
BatchesWhole(n) == n \div BatchSize

\* for (i = 0; i < rows.length; i += batchSize)
Batches(n) == (n + BatchSize - 1) \div BatchSize

\* One batch of runInsert, for all the columns: the b-th.
InsertStatement(op, all, rows, static, b) ==
    LET first == (b - 1) * BatchSize
        size == MinOf(BatchSize, Len(rows) - first)
        row(k) == rows[first + ((k - 1) \div Len(all)) + 1]
        col(k) == all[((k - 1) % Len(all)) + 1]
        val(k) == IF col(k) \in DOMAIN static THEN static[col(k)] ELSE Field(row(k), col(k))
        set == [k \in 1..size * Len(all) |-> Entry(col(k), "param", k, <<val(k)>>)]
    IN  Statement(op, set, <<>>, ParamVals(set))

\* runInsert.  tx: the transactions it is inside of; its own is one more.
RunInsert(op, cols, rows, static, tx) ==
    LET all == Union(cols, Keys(static))
    IN  Send(tx + 1, [b \in 1..Batches(Len(rows)) |-> InsertStatement(op, all, rows, static, b)])

\* One row of runUpdate: a static predicate replaces whereColumns.
UpdateStatement(p, cols, row) ==
    LET pred == BuildWritePredicate(p.staticWhere)
        set == Numbered(Pairs(cols, LAMBDA c : Field(row, c)), 0, AsParam)
        test == IF pred # <<>> THEN PredicateToSQL(pred, Len(cols) + 1)
                ELSE Numbered(Pairs(p.where, LAMBDA c : Field(row, c)), Len(cols), AsParam)
    IN  Statement("UPDATE", set, test, ParamVals(set) \o ParamVals(test))

\* runUpdate: one statement per row.
RunUpdate(p, cols, rows) ==
    LET set == Without(cols, ToSet(p.where))
    IN  IF \/ \E c \in ToSet(p.where) : c \notin DOMAIN rows[1]
           \/ set = <<>>
           \/ BuildWritePredicate(p.staticWhere) = <<>> /\ p.where = <<>>
        THEN [Throw EXCEPT !.tx = 1]
        ELSE Send(1, [i \in DOMAIN rows |-> UpdateStatement(p, set, rows[i])])

\* Array.indexOf + 1: 0 when the column is not there.
IndexOf(cols, c) ==
    IF Has(cols, c) THEN CHOOSE i \in DOMAIN cols : cols[i] = c ELSE 0

\* One row of runUpsert: the SET list reuses the placeholders of the VALUES list.
UpsertStatement(cols, set, row) ==
    LET values == Numbered(Pairs(cols, LAMBDA c : Field(row, c)), 0, AsParam)
        update == [i \in DOMAIN set |->
                      Entry(set[i], "param", IndexOf(cols, set[i]), <<Field(row, set[i])>>)]
    IN  Statement("UPSERT", values \o update, <<>>, ParamVals(values))

RunUpsert(p, cols, rows) ==
    LET set == IF p.update # <<>> THEN p.update ELSE Without(cols, ToSet(p.conflict))
    IN  IF set = <<>>
        THEN RunInsert("INSERT_IGNORE", cols, rows, <<>>, 1)
        ELSE Send(1, [i \in DOMAIN rows |-> UpsertStatement(cols, set, rows[i])])

\* One row of runDelete: whereColumns only; staticWhere is not looked at.
DeleteStatement(p, row) ==
    LET test == Numbered(Pairs(p.where, LAMBDA c : Field(row, c)), 0, AsCondition)
    IN  Statement("DELETE", <<>>, test, ParamVals(test))

RunDelete(p, rows) ==
    IF p.where = <<>> \/ \E c \in ToSet(p.where) : c \notin DOMAIN rows[1]
    THEN [Throw EXCEPT !.tx = 1]
    ELSE Send(1, [i \in DOMAIN rows |-> DeleteStatement(p, rows[i])])

\* UPDATE of literals only: staticValues and staticWhere, outside a transaction.
StaticUpdate(p, rows) ==
    LET pred == BuildWritePredicate(p.staticWhere)
        row == DataRow(rows[1], NormalizeEnumValues(p))
        fromRow == Filter(p.columns, DOMAIN row)
        literals == Without(Keys(p.static), ToSet(p.columns) \cup DOMAIN p.staticWhere)
        first == Numbered(Pairs(fromRow, LAMBDA c : row[c]), 0, AsParam)
        set == first \o Numbered(Pairs(literals, LAMBDA c : p.static[c]), Len(first), AsLiteral)
        test == PredicateToSQL(pred, Len(Params(set)) + 1)
    IN  IF pred = <<>> THEN Throw
        ELSE Send(0, <<Statement("UPDATE", set, test, ParamVals(set) \o ParamVals(test))>>)

\* The row-driven path: one UPDATE with ANY over the rows' values.
HasRowDrivenWhere(p, rows) ==
    /\ p.where # <<>> /\ rows # <<>>
    /\ p.where[1] \in DOMAIN rows[1]
    /\ DOMAIN p.staticWhere = {}

RowDrivenUpdate(p, rows) ==
    LET col == p.where[1]
        vals == Without([i \in DOMAIN rows |-> Field(rows[i], col)], {Null, Undefined})
        set == Numbered(Pairs(Keys(p.static), LAMBDA c : p.static[c]), 0, AsLiteral)
        any == Entry(col, "param", Len(Params(set)) + 1, vals)
    IN  IF vals = <<>> \/ set = <<>> THEN Throw
        ELSE Send(0, <<Statement("UPDATE", set, <<any>>, Append(ParamVals(set), vals))>>)

\* The switch on payload.mode; cols: what prepareRows calls dynamicColumns or
\* effectiveColumns.
RunMode(p, insertCols, cols, rows) ==
    CASE p.mode = "insert"        -> RunInsert("INSERT", insertCols, rows, p.static, 0)
      [] p.mode = "insert_ignore" -> RunInsert("INSERT_IGNORE", insertCols, rows, p.static, 0)
      [] p.mode = "update"        -> RunUpdate(p, cols, rows)
      [] p.mode = "upsert"        -> RunUpsert(p, cols, rows)
      [] p.mode = "delete"        -> RunDelete(p, rows)

\* The template path, for a step with config.fields.
TemplateStatements(p, rows) ==
    LET resolved == [i \in DOMAIN rows |-> TemplateRow(rows[i], p.fields)]
        q == [NormalizeEnumValues(p) EXCEPT !.columns = Keys(p.fields)]
        cols == EffectiveColumns(resolved, q)
    IN  IF cols = <<>> /\ p.mode # "delete" THEN Send(0, <<>>)
        ELSE RunMode(p, cols, cols, DataRows(resolved, q))

\* Everything behind the Calcite attempt.  prepareRows sees the normalised
\* copy; the statements take their literals from the payload itself.  (The early
\* return of an insert without columns asks for a payload without staticValues;
\* every enriched payload has some, if only none.)
ManualStatements(p, rows) ==
    LET q == NormalizeEnumValues(p)
        dynamic == DynamicColumns(rows, q)
        cols == EffectiveColumns(rows, q)
        idle == CASE p.mode = "update" ->
                        \/ DOMAIN p.static = {} /\ dynamic = <<>>
                        \/ p.where = <<>> /\ DOMAIN p.staticWhere = {}
                  [] OTHER -> FALSE
    IN  IF DOMAIN p.fields # {} THEN TemplateStatements(p, rows)
        ELSE IF HasRowDrivenWhere(p, rows) THEN RowDrivenUpdate(p, rows)
        ELSE IF idle THEN Send(0, <<>>)
        ELSE IF p.mode = "update" /\ dynamic = <<>> /\ DOMAIN p.static # {}
        THEN StaticUpdate(p, rows)
        ELSE RunMode(p, dynamic, cols, DataRows(rows, q))

\* The cursor path: no input rows, but a cursor with ids.  The WHERE clause is
\* numbered from 1 before the SET clause, which is numbered from 1 too.
CursorStatement(p, ids) ==
    LET test == BuildWhereFromCursor(ids, 1)
        setCols == Without(p.columns, ToSet(p.where))
        all == Union(setCols, Keys(p.static))
        set == Numbered(Pairs(all, LAMBDA c : IF c \in DOMAIN p.static THEN p.static[c] ELSE Null),
                        0, AsParam)
    IN  IF p.mode = "delete" THEN Send(0, <<Statement("DELETE", <<>>, test, <<ids>>)>>)
        ELSE IF p.mode # "update" \/ all = <<>> THEN Throw
        ELSE Send(0, <<Statement("UPDATE", set, test, ParamVals(set) \o <<ids>>)>>)

-----------------------------------------------------------------------------
(* The Calcite path: calcite-service compiles one statement, in which      *)
(* paramColumns are to be taken from the row and, for an INSERT, the       *)
(* literals follow as parameters; an UPDATE has them in its text.          *)

AsText(v) == IF v = <<SqlNow>> THEN "sql" ELSE "text"

\* compileUpdate writes "= NULL" and compileDelete "IS NULL NULL".
AsTextCondition(mode, v) ==
    IF v # <<Null>> THEN "text" ELSE IF mode = "update" THEN "eqNull" ELSE "syntaxError"

IsInsert(p) == p.mode \in {"insert", "insert_ignore", "upsert"}

\* compileInsert: a column with a literal is not taken from the row.
CompileInsert(p, value) ==
    LET fromRow == Numbered(Pairs(Without(p.columns, DOMAIN p.static), LAMBDA c : value[c]),
                            0, AsParam)
        lits == Numbered(Pairs(Keys(p.static), LAMBDA c : p.static[c]), Len(fromRow), AsParam)
        op == CASE p.mode = "insert" -> "INSERT" [] p.mode = "insert_ignore" -> "INSERT_IGNORE"
                [] OTHER -> "UPSERT"
    IN  Statement(op, fromRow \o lits, <<>>, ParamVals(fromRow \o lits))

\* The conditions of an UPDATE or DELETE: of the row, then the literal ones.
CompileWhere(p, value, offset) ==
    Numbered(Pairs(p.where, LAMBDA c : value[c]), offset, AsParam)
      \o Numbered(BuildWritePredicate(p.staticWhere), 0, LAMBDA v : AsTextCondition(p.mode, v))

\* compileUpdate: setColumns win over literals.
CompileUpdate(p, value) ==
    LET set == Numbered(Pairs(p.columns, LAMBDA c : value[c]), 0, AsParam)
        lits == Numbered(Pairs(Without(Keys(p.static), ToSet(p.columns)),
                               LAMBDA c : p.static[c]), 0, AsText)
        where == CompileWhere(p, value, Len(set))
    IN  Statement("UPDATE", set \o lits, where, ParamVals(set) \o ParamVals(where))

CompileDelete(p, value) ==
    LET where == CompileWhere(p, value, 0)
    IN  Statement("DELETE", <<>>, where, ParamVals(where))

\* What the client asks the service for; value maps a paramColumn to what the node
\* puts for it.
CalciteStatement(p, value) ==
    CASE IsInsert(p) -> CompileInsert(p, value)
      [] p.mode = "update" -> CompileUpdate(p, value)
      [] p.mode = "delete" -> CompileDelete(p, value)

RowOrNull(c, row, p) ==
    LET v == ResolveColumnValue(c, row, p) IN IF v = Undefined THEN Null ELSE v

\* Executed once when the WHERE clause is all literals, otherwise once per row;
\* the service refuses an UPDATE or DELETE without a condition.
CalciteStatements(p, rows) ==
    LET literal == [c \in ToSet(Columns) |->
                       IF Field(p.static, c) \notin {Null, Undefined} THEN p.static[c]
                       ELSE RowOrNull(c, rows[1], p)]
        own(row) == [c \in ToSet(Columns) |-> RowOrNull(c, row, p)]
    IN  IF ~IsInsert(p) /\ p.where = <<>> /\ BuildWritePredicate(p.staticWhere) = <<>>
        THEN Throw
        ELSE IF ~IsInsert(p) /\ DOMAIN p.staticWhere # {} /\ p.where = <<>>
        THEN Send(0, <<CalciteStatement(p, literal)>>)
        ELSE Send(0, [i \in DOMAIN rows |-> CalciteStatement(p, own(rows[i]))])
=============================================================================
