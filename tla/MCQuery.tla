------------------------------- MODULE MCQuery -------------------------------
(***************************************************************************)
(* Query execution on small instances: a table of three or four rows with  *)
(* nulls, duplicates and texts, a pool of two clients, one execution with  *)
(* every shape of filter, aggregate, order and limit, a second one that    *)
(* stops early, and a writer.                                              *)
(***************************************************************************)
EXTENDS QueryExecution

CONSTANTS q1, q2, w1

Row(id, a, b, w) ==
  [n \in {<<"", "id">>, <<"", "a">>, <<"", "b">>, <<"", "s">>} |->
     CASE n[2] = "id" -> Num(id) [] n[2] = "a" -> a [] n[2] = "b" -> b [] OTHER -> w]

MCTables == [orders |-> {"id", "a", "b", "s"}, people |-> {"id", "b"}]
MCTextColumn == {"s", "t"}
MCContents ==
  {<<>>,
   <<Row(1, Num(1), Num(0), Text(1, TRUE)), Row(2, Null, Num(1), Text(1, FALSE)),
     Row(3, Num(0), Num(1), Text(2, FALSE))>>,
   <<Row(1, Num(1), Num(1), Text(2, TRUE)), Row(2, Num(0), Num(1), Null),
     Row(3, Num(1), Num(0), Text(1, FALSE)), Row(4, Null, Null, Text(1, TRUE))>>}
MCNewRow == [w \in {w1} |-> Row(5, Num(1), Num(1), Text(1, TRUE))]
MCOutputs == [one |-> <<Num(1), Null>>, none |-> <<Null>>]

Where(field, op, vals, list) ==
  [field |-> field, table |-> "", op |-> op, vals |-> vals, list |-> list, sub |-> FALSE,
   ref |-> "", expr |-> <<>>, ci |-> FALSE]
WhereRef(name) == [Where("a", "=", <<>>, FALSE) EXCEPT !.ref = name]
Column(f) == [field |-> f, table |-> "", agg |-> "", alias |-> f]
Order(f, d, n) == [field |-> f, direction |-> d, nulls |-> n]
All ==
  [table |-> "orders", columns |-> <<Column("id"), Column("a")>>, joins |-> <<>>,
   filters |-> <<>>, groupBy |-> <<>>, aggregations |-> <<>>, having |-> <<>>, orderBy |-> <<>>,
   limit |-> Undefined, offset |-> Undefined]

Wheres ==
  {<<>>, <<Where("a", "=", <<Num(1)>>, FALSE)>>, <<Where("a", "IS NULL", <<>>, FALSE)>>,
   <<Where("a", "IN", <<Num(0), Num(1)>>, TRUE)>>, <<Where("a", "NOT IN", <<Num(0)>>, TRUE)>>,
   <<Where("a", "!=", <<Num(0)>>, FALSE)>>, <<Where("a", "BETWEEN", <<Num(0), Num(1)>>, TRUE)>>,
   <<Where("a", "=", <<Num(1)>>, FALSE), Where("b", "=", <<Num(1)>>, FALSE)>>,
   <<Where("a", ">=", <<Num(0)>>, FALSE), Where("b", "=", <<Num(1)>>, FALSE)>>,
   <<Where("s", "=", <<Text(1, FALSE)>>, FALSE)>>, <<Where("s", "LIKE", <<Text(1, TRUE)>>, FALSE)>>,
   <<Where("s", "IN", <<Text(1, TRUE), Text(2, TRUE)>>, TRUE)>>,
   <<Where("a", "=", <<Text(1, FALSE)>>, FALSE)>>,
   <<[Where("s", "!=", <<Text(1, FALSE)>>, FALSE) EXCEPT !.ci = TRUE]>>,
   <<WhereRef("one")>>, <<WhereRef("none")>>, <<WhereRef("unknown")>>}

Aggregates ==
  {<< <<[fn |-> "COUNT", expr |-> "*", alias |-> "b"], [fn |-> "SUM", expr |-> "a", alias |-> "a"]>> >>,
   << <<>> >>}
Havings == {<<>>, <<Where("b", ">=", <<Num(2)>>, FALSE)>>}
Orders ==
  {<<Order("a", "ASC", "LAST"), Order("id", "DESC", "LAST")>>, <<Order("a", "DESC", "FIRST")>>,
   <<Order("b", "DESC", "LAST"), Order("a", "ASC", "FIRST")>>}
Cuts == {<<0, Undefined>>, <<1, Undefined>>, <<2, 1>>, <<Undefined, 1>>}

MCDataSources == (q1 :> {"default", "other"}) @@ (q2 :> {"default"})
MCIntents ==
  [q \in {q1, q2} |->
     IF q = q2 THEN {[All EXCEPT !.limit = 1], [All EXCEPT !.filters = <<WhereRef("one")>>]}
     ELSE {[All EXCEPT !.filters = w] : w \in Wheres}
          \union {[All EXCEPT !.orderBy = o, !.limit = c[1], !.offset = c[2]] :
                    o \in Orders \union {<<>>}, c \in Cuts \union {<<Undefined, Undefined>>}}
          \union {[All EXCEPT !.aggregations = g, !.having = h, !.columns = <<>>] :
                    g \in Aggregates, h \in Havings}
          \union {[All EXCEPT !.having = h] : h \in Havings}
          \union {[All EXCEPT !.groupBy = << <<"a">> >>, !.filters = w] : w \in Wheres}]

-----------------------------------------------------------------------------
(* Two properties of the operators alone: they depend on no state, and are *)
(* evaluated in the initial ones.                                          *)
Values == {Null, Num(0), Num(1)}
Words == {Null, Text(1, TRUE), Text(2, FALSE)}
Rows == {[n \in {<<"", f>> : f \in {"a", "b", "s", "t"}} |->
            CASE n[2] = "a" -> a [] n[2] = "b" -> b [] n[2] = "s" -> s [] OTHER -> t] :
           a, b \in Values, s, t \in Words}

(* Numbers, texts in both cases, the pattern "%", nulls, and values beside *)
(* a column of the other type.                                             *)
Simple ==
  {Where("a", op, <<v>>, FALSE) : op \in {"=", "<", ">="}, v \in {Num(0), Num(1)}}
  \union {Where(f, "=", <<v>>, FALSE) : f \in {"s", "t"}, v \in {Text(1, TRUE), Text(1, FALSE)}}
  \union {Where("s", "LIKE", <<Text(w, u)>>, FALSE) : w \in {0, 1}, u \in BOOLEAN}
  \union {Where(f, "=", <<v>>, FALSE) : f \in {"b", "t"}, v \in {Null, Num(1), Text(2, TRUE)}}
  \union {Where("a", op, <<Num(0), Num(1)>>, TRUE) : op \in {"IN", "NOT IN", "BETWEEN"}}
  \union {Where("s", op, <<Text(2, TRUE), Text(1, u)>>, TRUE) :
            op \in {"IN", "NOT IN", "!="}, u \in BOOLEAN}
  \union {Where("b", op, <<>>, FALSE) : op \in {"IS NULL", "IS NOT NULL"}}

(* QueryASTBuilder and PostgresBackend.predicateToSQL against              *)
(* ExprEvaluator: what SameMeaning says of a list of filters that is       *)
(* pushed into the scan or evaluated by FilterOperator, for numbers, texts *)
(* in both cases, LIKE, lists, nulls and mixed types, except the order of  *)
(* texts, which the database's collation decides.                          *)
FiltersMeanTheSame ==
  Init => \A f, g \in Simple, row \in Rows :
            SameMeaning(<<f>>, row) /\ SameMeaning(<<f, g>>, row)

Person(id, b) == [n \in {<<"", "id">>, <<"", "b">>} |-> IF n[2] = "id" THEN id ELSE b]
PersonSets == {<<>>} \union {<<Person(Num(i), b)>> : i \in 0 .. 1, b \in Values}
              \union {<<Person(Num(0), b), Person(v, c)>> : v \in {Null, Num(1)}, b, c \in {Num(0), Num(1)}}
Crossing ==
  [All EXCEPT !.joins = <<[table |-> "people", alias |-> "", left |-> "a", right |-> "id"]>>]
Route == [orders |-> "one", people |-> "two"]
On(t, f) == [f EXCEPT !.table = t]
CrossFilters ==
  {<<>>} \union {<<On("people", Where("b", "=", <<Num(1)>>, FALSE))>>,
                 <<On("orders", Where("b", "=", <<Num(1)>>, FALSE)),
                   On("people", Where("b", "IS NOT NULL", <<>>, FALSE))>>,
                 <<On("", Where("b", "<", <<Num(1)>>, FALSE)),
                   On("people", Where("b", "=", <<Num(0)>>, FALSE))>>}

(* decomposeCrossDBQuery and the reference resolution of                   *)
(* QueryExecutor.execute together keep the rows of the join                *)
(* (SplitKeepsJoin).                                                       *)
SplitQueriesKeepJoin ==
  Init => \A fs \in CrossFilters, rows \in Contents, others \in PersonSets :
            SplitKeepsJoin([Crossing EXCEPT !.filters = fs], Route, rows, others)
=============================================================================
