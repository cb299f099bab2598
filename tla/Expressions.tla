----------------------------- MODULE Expressions -----------------------------
(***************************************************************************)
(* The expression language of the engine (ExprAST) and its two meanings:   *)
(* the in-memory evaluator (expr-evaluator.ts), which FilterOperator,      *)
(* SortOperator, AggOperator and ProjectOperator use, and the translation  *)
(* of a predicate to SQL (postgres-backend.ts), which Postgres evaluates   *)
(* in three-valued logic when the planner pushed the predicate into the    *)
(* scan.                                                                   *)
(*                                                                         *)
(* A value is a tagged tuple, a text keeps its word (a number, its place   *)
(* in the alphabet; 0 is the pattern "%") and whether it is upper case.    *)
(* A row and a scope are functions from names <<table, field>> to values,  *)
(* with table "" for an unqualified name; an undefined field is not in the *)
(* domain.  An exception is the value Thrown.                              *)
(***************************************************************************)
EXTENDS Integers, Sequences

Null == <<"null">>
Thrown == <<"error">>
Num(n) == <<"num", n>>
Bool(b) == <<"bool", b>>
Text(w, u) == <<"str", w, u>>

IsNum(v) == v[1] = "num"
IsBool(v) == v[1] = "bool"
IsText(v) == v[1] = "str"

Literal(v) == [kind |-> "Literal", value |-> v]
FieldRef(t, f) == [kind |-> "FieldRef", table |-> t, field |-> f]
VarRef(n) == [kind |-> "VarRef", name |-> n]
SqlExpr(v) == [kind |-> "SqlExpr", sql |-> v]
BinaryOp(op, l, r) == [kind |-> "BinaryOp", op |-> op, left |-> l, right |-> r]
Not(e) == [kind |-> "UnaryOp", op |-> "NOT", operand |-> e]
IsNull(e) == [kind |-> "IsNull", expr |-> e]
In(e, vs) == [kind |-> "In", expr |-> e, values |-> vs]
Between(e, l, h) == [kind |-> "Between", expr |-> e, low |-> l, high |-> h]
Call(n, as) == [kind |-> "FunctionCall", name |-> n, args |-> as]
Cond(c, t, f) == [kind |-> "Conditional", condition |-> c, then |-> t, else |-> f]
Wildcard == [kind |-> "Wildcard"]

(* The coercion of JavaScript's relational operators: null is 0, a boolean *)
(* 0 or 1; a text beside a number is NaN, and every comparison with NaN is *)
(* false.                                                                  *)
Number(v) == CASE IsNum(v) -> v[2] [] IsBool(v) -> (IF v[2] THEN 1 ELSE 0) [] OTHER -> 0

Less(a, b) ==
  CASE IsText(a) /\ IsText(b) -> \/ a[3] /\ ~b[3]
                                 \/ a[3] = b[3] /\ a[2] < b[2]
    [] IsText(a) # IsText(b) -> FALSE
    [] OTHER -> Number(a) < Number(b)

AtMost(a, b) ==
  CASE IsText(a) /\ IsText(b) -> a = b \/ Less(a, b)
    [] IsText(a) # IsText(b) -> FALSE
    [] OTHER -> Number(a) <= Number(b)

EvaluateComparison(op, l, r) ==
  CASE op = "=" -> Bool(l = r) [] op = "!=" -> Bool(l # r)
    [] op = "<" -> Bool(Less(l, r)) [] op = "<=" -> Bool(AtMost(l, r))
    [] op = ">" -> Bool(Less(r, l)) [] op = ">=" -> Bool(AtMost(r, l))

EvaluateArithmetic(op, l, r) ==
  IF ~IsNum(l) \/ ~IsNum(r) THEN Thrown
  ELSE CASE op = "+" -> Num(l[2] + r[2]) [] op = "-" -> Num(l[2] - r[2])
         [] op = "*" -> Num(l[2] * r[2])

(* Both sides have been evaluated: there is no short circuit, and a null   *)
(* beside a boolean is a type error.                                       *)
EvaluateLogical(op, l, r) ==
  CASE ~IsBool(l) \/ ~IsBool(r) -> Thrown
    [] op = "AND" -> Bool(l[2] /\ r[2])
    [] OTHER -> Bool(l[2] \/ r[2])

EvaluateLike(l, r) ==
  IF ~IsText(l) \/ ~IsText(r) THEN Thrown ELSE Bool(r[2] = 0 \/ l = r)

EvaluateBinaryOp(op, l, r) ==
  CASE Thrown \in {l, r} -> Thrown
    [] op \in {"+", "-", "*"} -> EvaluateArithmetic(op, l, r)
    [] op \in {"=", "!=", "<", ">", "<=", ">="} -> EvaluateComparison(op, l, r)
    [] op \in {"AND", "OR"} -> EvaluateLogical(op, l, r)
    [] op = "LIKE" -> EvaluateLike(l, r)

(* builtin.ts: the functions whose result the values above tell apart.     *)
Printed == 9

Builtin(name, args) ==
  CASE Thrown \in {args[i] : i \in DOMAIN args} -> Thrown
    [] name = "COALESCE" ->
         LET known == SelectSeq(args, LAMBDA v : v # Null) IN
         IF known = <<>> THEN Null ELSE Head(known)
    [] OTHER ->      \* UPPER, LOWER: String(v), the printed form of another value
         Text(IF IsText(args[1]) THEN args[1][2] ELSE Printed, name = "UPPER")

(* The first place that defines the field: the scope's record, the         *)
(* qualified and the plain name in the row, a side of a join, the scope.   *)
EvaluateFieldRef(e, scope, row) ==
  LET qualified == IF e.table = "" THEN <<>>
                   ELSE << <<scope, <<e.table, e.field>> >>,
                           <<row, <<e.table, e.field>> >> >>
      places == qualified
                \o << <<row, <<"", e.field>> >>, <<row, <<"left", e.field>> >>,
                      <<row, <<"right", e.field>> >>, <<scope, <<"", e.field>> >> >>
      found == SelectSeq(places, LAMBDA p : p[2] \in DOMAIN p[1])
  IN IF found = <<>> THEN Thrown ELSE found[1][1][found[1][2]]

RECURSIVE Evaluate(_, _, _)
Evaluate(e, scope, row) ==
  LET Ev(x) == Evaluate(x, scope, row)
      All(xs) == [i \in DOMAIN xs |-> Ev(xs[i])]
  IN CASE e.kind = "Literal" -> e.value
       [] e.kind = "FieldRef" -> EvaluateFieldRef(e, scope, row)
       [] e.kind = "VarRef" -> IF <<"", e.name>> \in DOMAIN scope THEN scope[<<"", e.name>>]
                               ELSE Thrown
       [] e.kind = "BinaryOp" -> EvaluateBinaryOp(e.op, Ev(e.left), Ev(e.right))
       [] e.kind = "UnaryOp" ->
            LET v == Ev(e.operand) IN
            (CASE e.op = "NOT" -> IF IsBool(v) THEN Bool(~v[2]) ELSE Thrown
               [] e.op = "NEG" -> IF IsNum(v) THEN Num(-v[2]) ELSE Thrown)
       [] e.kind = "FunctionCall" -> Builtin(e.name, All(e.args))
       [] e.kind = "Conditional" ->
            LET c == Ev(e.condition) IN
            (CASE c = Thrown -> Thrown
               [] c \in {Null, Bool(FALSE), Num(0)} -> Ev(e.else)
               [] OTHER -> Ev(e.then))
       [] e.kind = "IsNull" -> LET v == Ev(e.expr) IN IF v = Thrown THEN v ELSE Bool(v = Null)
       [] e.kind = "In" ->
            LET v == Ev(e.expr) vs == All(e.values) IN
            IF Thrown \in {v} \union {vs[i] : i \in DOMAIN vs} THEN Thrown
            ELSE Bool(\E i \in DOMAIN vs : vs[i] = v)
       [] e.kind = "Between" ->
            LET v == Ev(e.expr) l == Ev(e.low) h == Ev(e.high) IN
            IF Thrown \in {v, l, h} THEN Thrown ELSE Bool(AtMost(l, v) /\ AtMost(v, h))
       [] e.kind = "SqlExpr" -> Bool(TRUE)
       [] e.kind = "Wildcard" -> Thrown

(* FilterOperator keeps a row when the predicate is exactly true.          *)
Passes(predicate, row) == Evaluate(predicate, <<>>, row) = Bool(TRUE)

-----------------------------------------------------------------------------
(* isSimplePredicate: the translation throws for a variable, a wildcard, a *)
(* function outside its list and an IN with computed members; the scan     *)
(* then runs without the predicate.                                        *)
SupportedFunctions == {"UPPER", "LOWER", "COALESCE"}

RECURSIVE IsSimplePredicate(_)
IsSimplePredicate(e) ==
  CASE e.kind \in {"Literal", "FieldRef", "SqlExpr"} -> TRUE
    [] e.kind \in {"VarRef", "Wildcard"} -> FALSE
    [] e.kind = "BinaryOp" -> IsSimplePredicate(e.left) /\ IsSimplePredicate(e.right)
    [] e.kind = "UnaryOp" -> IsSimplePredicate(e.operand)
    [] e.kind = "FunctionCall" -> /\ e.name \in SupportedFunctions
                                  /\ \A i \in DOMAIN e.args : IsSimplePredicate(e.args[i])
    [] e.kind = "Conditional" -> /\ IsSimplePredicate(e.condition)
                                 /\ IsSimplePredicate(e.then) /\ IsSimplePredicate(e.else)
    [] e.kind = "IsNull" -> IsSimplePredicate(e.expr)
    [] e.kind = "In" -> /\ IsSimplePredicate(e.expr)
                        /\ \A i \in DOMAIN e.values : e.values[i].kind = "Literal"
    [] e.kind = "Between" -> /\ IsSimplePredicate(e.expr)
                             /\ IsSimplePredicate(e.low) /\ IsSimplePredicate(e.high)

Lower(e) == Call("LOWER", <<e>>)

(* Mutant of LowerLiteral: the members of a list keep their case.          *)
LowerLiteralAsIs(l) == l

LowerLiteral(l) == IF IsText(l.value) THEN Literal(Text(l.value[2], FALSE)) ELSE l

(* The statement's condition: a comparison with NULL becomes IS NULL, LIKE *)
(* becomes ILIKE, equality and membership on a text column (`text') ignore *)
(* the case.                                                               *)
RECURSIVE PredicateToSQL(_, _)
PredicateToSQL(e, text) ==
  LET SQL(x) == PredicateToSQL(x, text)
      IsTextColumn(x) == x.kind = "FieldRef" /\ x.field \in text
  IN CASE e.kind = "BinaryOp" ->
            (CASE e.op = "=" /\ e.right = Literal(Null) -> IsNull(SQL(e.left))
              [] e.op = "!=" /\ e.right = Literal(Null) -> Not(IsNull(SQL(e.left)))
              [] e.op \in {"=", "!="} /\ e.right.kind # "SqlExpr" /\ IsTextColumn(e.left) ->
                   BinaryOp(e.op, Lower(SQL(e.left)), Lower(SQL(e.right)))
              [] OTHER -> BinaryOp(IF e.op = "LIKE" THEN "ILIKE" ELSE e.op,
                                   SQL(e.left), SQL(e.right)))
       [] e.kind = "UnaryOp" -> [e EXCEPT !.operand = SQL(@)]
       [] e.kind = "FunctionCall" -> [e EXCEPT !.args = [i \in DOMAIN @ |-> SQL(@[i])]]
       [] e.kind = "Conditional" -> Cond(SQL(e.condition), SQL(e.then), SQL(e.else))
       [] e.kind = "IsNull" -> IsNull(SQL(e.expr))
       [] e.kind = "In" -> IF IsTextColumn(e.expr)
                           THEN In(Lower(SQL(e.expr)),
                                   [i \in DOMAIN e.values |-> LowerLiteral(e.values[i])])
                           ELSE In(SQL(e.expr), e.values)
       [] e.kind = "Between" -> Between(SQL(e.expr), SQL(e.low), SQL(e.high))
       [] OTHER -> e

(* The type Postgres gives to an expression; "any" is that of NULL and of  *)
(* SQL text, "error" a statement the server refuses: numbers beside texts  *)
(* (no word of the model reads as a number), LIKE or LOWER of a number, an *)
(* empty IN list.                                                          *)
Alike(types) == \E t \in {"num", "str", "bool"} : types \subseteq {t, "any"}

RECURSIVE SQLType(_, _)
SQLType(e, text) ==
  LET T(x) == SQLType(x, text)
      All(xs) == {T(xs[i]) : i \in DOMAIN xs}
      If(ok, type) == IF ok THEN type ELSE "error"
  IN CASE e.kind = "Literal" -> IF e.value = Null THEN "any" ELSE e.value[1]
       [] e.kind = "FieldRef" -> IF e.field \in text THEN "str" ELSE "num"
       [] e.kind = "BinaryOp" ->
            LET types == {T(e.left), T(e.right)} IN
            (CASE e.op \in {"AND", "OR"} -> If(types \subseteq {"bool", "any"}, "bool")
               [] e.op \in {"+", "-", "*"} -> If(types \subseteq {"num", "any"}, "num")
               [] e.op \in {"LIKE", "ILIKE"} -> If(types \subseteq {"str", "any"}, "bool")
               [] OTHER -> If(Alike(types), "bool"))
       [] e.kind = "UnaryOp" -> If(T(e.operand) \in {"any", IF e.op = "NOT" THEN "bool" ELSE "num"},
                                   IF e.op = "NOT" THEN "bool" ELSE "num")
       [] e.kind = "FunctionCall" ->
            IF e.name = "COALESCE" THEN If(Alike(All(e.args)), T(e.args[1]))
            ELSE If(All(e.args) \subseteq {"str", "any"}, "str")
       [] e.kind = "Conditional" -> If(/\ T(e.condition) \in {"bool", "any"}
                                       /\ Alike({T(e.then), T(e.else)}), T(e.then))
       [] e.kind = "IsNull" -> If(T(e.expr) # "error", "bool")
       [] e.kind = "In" -> If(e.values # <<>> /\ Alike({T(e.expr)} \union All(e.values)), "bool")
       [] e.kind = "Between" -> If(Alike({T(e.expr), T(e.low), T(e.high)}), "bool")
       [] e.kind = "SqlExpr" -> "any"
       [] OTHER -> "error"

(* Postgres: three-valued logic over the condition of a statement it       *)
(* accepts.                                                                *)
And3(a, b) == CASE Bool(FALSE) \in {a, b} -> Bool(FALSE)
                [] Null \in {a, b} -> Null [] OTHER -> Bool(TRUE)
Not3(a) == IF a = Null THEN Null ELSE Bool(~a[2])
Or3(a, b) == Not3(And3(Not3(a), Not3(b)))

Compare3(op, a, b) ==
  IF Null \in {a, b} THEN Null
  ELSE Bool(CASE op = "=" -> a = b [] op = "!=" -> a # b
              [] op = "<" -> Less(a, b) [] op = "<=" -> a = b \/ Less(a, b)
              [] op = ">" -> Less(b, a) [] op = ">=" -> a = b \/ Less(b, a))

RECURSIVE SQLValue(_, _)
SQLValue(e, row) ==
  LET V(x) == SQLValue(x, row)
  IN CASE e.kind = "Literal" -> e.value
       [] e.kind = "SqlExpr" -> e.sql
       [] e.kind = "FieldRef" -> row[<<"", e.field>>]
       [] e.kind = "BinaryOp" ->
            LET a == V(e.left) b == V(e.right) IN
            (CASE e.op = "AND" -> And3(a, b)
              [] e.op = "OR" -> Or3(a, b)
              [] e.op \in {"+", "-", "*"} -> IF Null \in {a, b} THEN Null
                                            ELSE EvaluateArithmetic(e.op, a, b)
              [] e.op \in {"LIKE", "ILIKE"} ->
                   IF Null \in {a, b} THEN Null
                   ELSE Bool(b[2] = 0 \/ IF e.op = "LIKE" THEN a = b ELSE a[2] = b[2])
              [] OTHER -> Compare3(e.op, a, b))
       [] e.kind = "UnaryOp" -> LET a == V(e.operand) IN
                                IF e.op = "NOT" THEN Not3(a) ELSE IF a = Null THEN a ELSE Num(-a[2])
       [] e.kind = "FunctionCall" ->
            LET as == [i \in DOMAIN e.args |-> V(e.args[i])] IN
            IF e.name # "COALESCE" /\ as[1] = Null THEN Null ELSE Builtin(e.name, as)
       [] e.kind = "Conditional" -> IF V(e.condition) = Bool(TRUE) THEN V(e.then) ELSE V(e.else)
       [] e.kind = "IsNull" -> Bool(V(e.expr) = Null)
       [] e.kind = "In" ->
            LET a == V(e.expr)
                vs == {V(e.values[i]) : i \in DOMAIN e.values}
            IN (CASE a = Null -> Null
                 [] a \in vs -> Bool(TRUE)
                 [] Null \in vs -> Null
                 [] OTHER -> Bool(FALSE))
       [] e.kind = "Between" -> And3(Compare3("<=", V(e.low), V(e.expr)),
                                     Compare3("<=", V(e.expr), V(e.high)))

(* Whether the server takes a pushed-down predicate, and the rows it then  *)
(* returns.                                                                *)
Accepted(predicate, text) == SQLType(PredicateToSQL(predicate, text), text) # "error"
Selected(predicate, text, row) == SQLValue(PredicateToSQL(predicate, text), row) = Bool(TRUE)
=============================================================================
