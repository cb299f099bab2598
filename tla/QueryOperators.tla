--------------------------- MODULE QueryOperators ---------------------------
(***************************************************************************)
(* The physical operators (executors/operators) and the pull protocol      *)
(* between them (physical-operator.ts).  An operator is a record           *)
(* [node, st, mem]: its plan node, the protocol's state and its private    *)
(* fields.  What an operator does when it is asked for a batch, and when   *)
(* its input answers, is a result [act, op, rows]: pull another batch from *)
(* the input, return rows to the caller, or throw.                         *)
(***************************************************************************)
EXTENDS QueryCompiler, FiniteSetsExt

CONSTANTS MaxRowsPerNode,   \* budget.maxRowsPerNode, also the size of every request
          BatchSize,        \* rows of one FETCH and of one batch of groups
          MemoryLimit       \* rows SortOperator sorts in memory

ASSUME OperatorAssumption ==
  {MaxRowsPerNode, BatchSize, MemoryLimit} \subseteq Nat \ {0}

Pull(op) == [act |-> "pull", op |-> op, rows |-> <<>>]
Return(op, rows) == [act |-> "return", op |-> op, rows |-> rows]
Throw(op) == [act |-> "throw", op |-> op, rows |-> <<>>]

Fresh(node) ==
  [node |-> node, st |-> "idle",
   mem |-> CASE node.kind = "Filter" -> [currentBatch |-> <<>>, inputExhausted |-> FALSE]
             [] node.kind = "Limit" -> [rowsSeen |-> 0, rowsEmitted |-> 0, out |-> <<>>]
             [] node.kind \in {"Agg", "Sort", "Collect"} ->
                  [built |-> FALSE, acc |-> <<>>, batches |-> <<>>, index |-> 1]
             [] OTHER -> [none |-> 0]]

(* A row of the scan carries its fields under the alias as well.           *)
AliasRow(row, alias) ==
  row @@ [n \in {<<alias, m[2]>> : m \in DOMAIN row} |-> row[<<"", n[2]>>]]

Chunks(rows, n) ==
  [k \in 1 .. ((Len(rows) + n - 1) \div n) |-> SubSeq(rows, (k - 1) * n + 1, Min({k * n, Len(rows)}))]

-----------------------------------------------------------------------------
(* FilterOperator: rows accumulate until a request is filled; the rest of  *)
(* the batch in hand is not looked at.                                     *)
FilterReturn(op) ==
  LET batch == op.mem.currentBatch n == Min({MaxRowsPerNode, Len(batch)}) IN
  Return([op EXCEPT !.mem.currentBatch = SubSeq(batch, n + 1, Len(batch))], SubSeq(batch, 1, n))

FilterLoop(op, input) ==
  CASE Len(op.mem.currentBatch) >= MaxRowsPerNode \/ op.mem.inputExhausted -> FilterReturn(op)
    [] input # "open" -> FilterReturn([op EXCEPT !.mem.inputExhausted = TRUE])
    [] OTHER -> Pull(op)

FilterGot(op, input, rows) ==
  LET passing == SelectSeq(rows, LAMBDA r : Passes(op.node.predicate, r))
      room == MaxRowsPerNode - Len(op.mem.currentBatch)
  IN IF rows = <<>> THEN FilterReturn([op EXCEPT !.mem.inputExhausted = TRUE])
     ELSE FilterLoop([op EXCEPT !.mem.currentBatch =
                                  @ \o SubSeq(passing, 1, Min({room, Len(passing)}))], input)

(* ProjectOperator: an expression that throws gives null.                  *)
OrNull(v) == IF v = Thrown THEN Null ELSE v

ProjectRow(columns, row) ==
  [n \in {<<"", columns[i].alias>> : i \in DOMAIN columns} |->
     LET last == Max({i \in DOMAIN columns : columns[i].alias = n[2]})
     IN OrNull(Evaluate(columns[last].expr, <<>>, row))]

ProjectAsk(op, input) == IF input = "open" THEN Pull(op) ELSE Return(op, <<>>)
ProjectGot(op, rows) ==
  Return(op, [i \in DOMAIN rows |-> ProjectRow(op.node.columns, rows[i])])

(* LimitOperator: one request pulls until the limit is reached or the      *)
(* input is exhausted.                                                     *)
LimitLoop(op, input) ==
  IF op.mem.rowsEmitted < op.node.count /\ input = "open" THEN Pull(op)
  ELSE Return(op, op.mem.out)

LimitAsk(op, input) == LimitLoop([op EXCEPT !.mem.out = <<>>], input)

LimitGot(op, input, rows) ==
  LET m == op.mem
      start == IF m.rowsSeen < op.node.offset
               THEN Min({op.node.offset - m.rowsSeen, Len(rows)}) ELSE 0
      take == Min({Len(rows) - start, op.node.count - m.rowsEmitted})
  IN IF rows = <<>> THEN Return(op, m.out)
     ELSE LimitLoop([op EXCEPT !.mem.rowsSeen = @ + start + take, !.mem.rowsEmitted = @ + take,
                               !.mem.out = @ \o SubSeq(rows, start + 1, start + take)], input)

-----------------------------------------------------------------------------
(* AggOperator: the rows of one group key; an aggregate ignores what is    *)
(* not a number, COUNT counts every row, AVG of nothing is 0.              *)
Numbers(vs) == SelectSeq(vs, IsNum)
Total(vs) == FoldLeft(LAMBDA t, v : t + v[2], 0, Numbers(vs))

Accumulate(fn, vs) ==
  LET ns == {Numbers(vs)[i][2] : i \in DOMAIN Numbers(vs)} IN
  CASE fn = "COUNT" -> Num(Len(vs))
    [] fn = "COUNT_DISTINCT" -> Num(Cardinality({vs[i] : i \in DOMAIN vs} \ {Null}))
    [] fn = "SUM" -> Num(Total(vs))
    [] fn = "AVG" -> Num(IF ns = {} THEN 0 ELSE Total(vs) \div Len(Numbers(vs)))
    [] fn = "MIN" -> IF ns = {} THEN Null ELSE Num(Min(ns))
    [] fn = "MAX" -> IF ns = {} THEN Null ELSE Num(Max(ns))

KeyOf(keys, row) ==
  [i \in DOMAIN keys |-> OrNull(Evaluate(keys[i], <<>>, row))]

ArgumentOf(a, row) ==
  IF a.fn = "COUNT" /\ a.expr = Wildcard THEN Num(1) ELSE Evaluate(a.expr, <<>>, row)

AggThrows(node, rows) ==
  \E i \in DOMAIN rows, j \in DOMAIN node.aggregations :
    ArgumentOf(node.aggregations[j], rows[i]) = Thrown

Groups(node, rows) ==
  LET keys == FoldLeft(LAMBDA ks, r : IF Contains(ks, KeyOf(node.keys, r)) THEN ks
                                      ELSE Append(ks, KeyOf(node.keys, r)), <<>>, rows)
      Members(k) == SelectSeq(rows, LAMBDA r : KeyOf(node.keys, r) = k)
      Row(k) == [n \in {<<"", node.aggregations[j].alias>> : j \in DOMAIN node.aggregations} |->
                   LET a == node.aggregations[Max({j \in DOMAIN node.aggregations :
                                                     node.aggregations[j].alias = n[2]})]
                   IN Accumulate(a.fn, [i \in DOMAIN Members(k) |-> ArgumentOf(a, Members(k)[i])])]
                @@ [n \in {<<"", node.keys[j].field>> : j \in DOMAIN node.keys} |->
                      k[CHOOSE j \in DOMAIN node.keys : node.keys[j].field = n[2]]]
  IN [i \in DOMAIN keys |-> Row(keys[i])]

(* SortOperator: the keys decide in turn, a null comes first or last       *)
(* whatever the direction, a key that throws ends the comparison.          *)
Ends == 2

CompareValues(key, x, y) ==
  CASE Thrown \in {x, y} -> Ends
    [] x = y -> 0
    [] x = Null -> IF key.nulls = "FIRST" THEN -1 ELSE 1
    [] y = Null -> IF key.nulls = "FIRST" THEN 1 ELSE -1
    [] OTHER -> IF Less(x, y) = (key.direction = "ASC") THEN -1 ELSE 1

CompareKey(key, a, b) ==
  CompareValues(key, Evaluate(key.expr, <<>>, a), Evaluate(key.expr, <<>>, b))

FirstDecides(cs) ==
  LET differing == SelectSeq(cs, LAMBDA c : c # 0)
  IN IF differing = <<>> \/ Head(differing) = Ends THEN 0 ELSE Head(differing)

CompareRows(keys, a, b) == FirstDecides([i \in DOMAIN keys |-> CompareKey(keys[i], a, b)])

SortInMemory(keys, rows) == SortSeq(rows, LAMBDA a, b : CompareRows(keys, a, b) < 0)

(* externalMergeSort: sorted chunks, merged by their smallest head; of     *)
(* equal heads the first chunk's wins.                                     *)
RECURSIVE MergeChunks(_, _)
MergeChunks(keys, chunks) ==
  LET left == SelectSeq(chunks, LAMBDA c : c # <<>>)
      Best(i) == /\ \A j \in 1 .. i - 1 : CompareRows(keys, left[i][1], left[j][1]) < 0
                 /\ \A j \in i + 1 .. Len(left) : CompareRows(keys, left[j][1], left[i][1]) >= 0
      i == CHOOSE i \in DOMAIN left : Best(i)
  IN IF left = <<>> THEN <<>>
     ELSE <<left[i][1]>> \o MergeChunks(keys, [left EXCEPT ![i] = Tail(@)])

ExternalMergeSort(keys, rows) ==
  LET chunks == Chunks(rows, MemoryLimit) IN
  MergeChunks(keys, [i \in DOMAIN chunks |-> SortInMemory(keys, chunks[i])])

(* Mutant of Sorted: the chunks are sorted and put one after the other.    *)
SortedChunks(keys, rows) ==
  FlattenSeq([i \in DOMAIN Chunks(rows, MemoryLimit) |->
                SortInMemory(keys, Chunks(rows, MemoryLimit)[i])])

Sorted(keys, rows) ==
  IF Len(rows) <= MemoryLimit THEN SortInMemory(keys, rows) ELSE ExternalMergeSort(keys, rows)

(* collectAll, which Agg and Sort run over their input and the executor    *)
(* over the root: the budget is checked after every batch.                 *)
Build(op) ==
  LET all == op.mem.acc IN
  [op EXCEPT !.mem.built = TRUE, !.mem.acc = <<>>,
             !.mem.batches = CASE op.node.kind = "Agg" -> Chunks(Groups(op.node, all), BatchSize)
                               [] op.node.kind = "Sort" -> Chunks(Sorted(op.node.keys, all),
                                                                  MaxRowsPerNode)
                               [] OTHER -> <<all>>]

NextChunk(op) ==
  IF op.mem.index > Len(op.mem.batches) THEN Return(op, <<>>)
  ELSE Return([op EXCEPT !.mem.index = @ + 1], op.mem.batches[op.mem.index])

CollectLoop(op, input) ==
  CASE input = "open" -> Pull(op)
    [] op.node.kind = "Agg" /\ AggThrows(op.node, op.mem.acc) -> Throw(op)
    [] OTHER -> NextChunk(Build(op))

CollectAsk(op, input) ==
  IF op.mem.built THEN NextChunk(op) ELSE CollectLoop(op, input)

(* Mutant of CollectGot: the budget is compared with one batch.            *)
CollectGotBatch(op, input, rows) ==
  IF Len(rows) > MaxRowsPerNode THEN Throw(op)
  ELSE CollectLoop([op EXCEPT !.mem.acc = @ \o rows],
                   IF rows = <<>> THEN "exhausted" ELSE input)

CollectGot(op, input, rows) ==
  IF rows # <<>> /\ Len(op.mem.acc) + Len(rows) > MaxRowsPerNode THEN Throw(op)
  ELSE CollectLoop([op EXCEPT !.mem.acc = @ \o rows],
                   IF rows = <<>> THEN "exhausted" ELSE input)

-----------------------------------------------------------------------------
(* BasePhysicalOperator.nextBatch and the answer of the input.             *)
Collects(op) == op.node.kind \in {"Agg", "Sort", "Collect"}

Ask(op, input) ==
  CASE op.node.kind = "Filter" -> FilterLoop(op, input)
    [] op.node.kind = "Project" -> ProjectAsk(op, input)
    [] op.node.kind = "Limit" -> LimitAsk(op, input)
    [] Collects(op) -> CollectAsk(op, input)

Got(op, input, rows) ==
  CASE op.node.kind = "Filter" -> FilterGot(op, input, rows)
    [] op.node.kind = "Project" -> ProjectGot(op, rows)
    [] op.node.kind = "Limit" -> LimitGot(op, input, rows)
    [] Collects(op) -> CollectGot(op, input, rows)
=============================================================================
