--------------------------- MODULE QueryExecution ---------------------------
(***************************************************************************)
(* QueryExecutor.execute (query-executor.ts) on one Postgres pool          *)
(* (postgres-backend.ts), next to the write nodes that use the same pool.  *)
(*                                                                         *)
(* A query of another data source is sent as raw SQL; one with joins,      *)
(* groups or aggregated columns is compiled by the Calcite service, and    *)
(* sent as raw SQL when that fails; every other query runs in the physical *)
(* operators, which pull the rows of a server-side cursor.                 *)
(*                                                                         *)
(* A client of the pool is a connection: who holds it, whether a           *)
(* transaction is open on it (or aborted by an error), and the rows        *)
(* written in that transaction, which nobody else sees.                    *)
(***************************************************************************)
EXTENDS QueryOperators

CONSTANTS Query,        \* executions of queries
          Writer,       \* executions of write nodes
          Client,       \* the clients of the pool
          Nobody,       \* no holder
          Intents,      \* the intents each query may have
          Contents,     \* the contents the table may have
          Outputs,      \* the values of the completed upstream nodes
          NewRow,       \* the row each writer inserts
          DataSources,  \* the sources each query may have: "default" or another
          MaxFaults     \* failures of the database or of the Calcite service

ASSUME QueryAssumption ==
  /\ Nobody \notin Query \union Writer
  /\ IsFiniteSet(Client) /\ Client # {}
  /\ MaxFaults \in Nat

VARIABLES table,    \* the committed rows
          clients,  \* the pool
          query,    \* the executions
          acked,    \* the writers whose insert was reported as done
          early,    \* a scan was closed before its cursor was exhausted
          faults

vars == <<table, clients, query, acked, early, faults>>

NoControl == [at |-> 0, msg |-> "none", rows |-> <<>>]
NoQuery == [phase |-> "idle", path |-> "none", intent |-> <<>>, ops |-> <<>>,
            ctl |-> NoControl, gen |-> "new", client |-> Nobody, result |-> <<>>, pos |-> 0,
            short |-> FALSE, snapshot |-> <<>>, answer |-> <<>>, outcome |-> "none"]
CleanClient == [by |-> Nobody, txn |-> "none", pending |-> <<>>]

Init ==
  /\ table \in Contents
  /\ clients = [c \in Client |-> CleanClient]
  /\ query = [q \in Query |-> NoQuery]
  /\ acked = {}
  /\ early = FALSE
  /\ faults = 0

Idle(c) == clients[c].by = Nobody
Visible(c) == table \o clients[c].pending

(* ROLLBACK: what was written in the transaction is gone.                  *)
RolledBack(client) == [client EXCEPT !.txn = "none", !.pending = <<>>]

Fault == faults < MaxFaults /\ faults' = faults + 1

Finish(q, outcome, answer) ==
  query' = [query EXCEPT ![q].phase = "done", ![q].outcome = outcome, ![q].answer = answer,
                         ![q].ctl = NoControl, ![q].gen = "done", ![q].client = Nobody,
                         ![q].ops = [i \in DOMAIN @ |-> [@[i] EXCEPT !.st = "closed"]]]

-----------------------------------------------------------------------------
(* execute: the references, the routing, and for the physical path the     *)
(* AST, the plan, the tree and collectAll's open.  Agg and Sort do not     *)
(* open their input before they are asked.                                 *)
Opened(ops, top) ==
  LET stop == Max({j \in 1 .. top : Collects(ops[j])} \union {1}) IN
  [j \in DOMAIN ops |-> IF j \in stop .. top THEN [ops[j] EXCEPT !.st = "open"] ELSE ops[j]]

Tree(plan) == [i \in DOMAIN plan |-> Fresh(plan[i])] \o <<Fresh([kind |-> "Collect"])>>

Begin(q, intent, phase) ==
  query' = [query EXCEPT ![q].phase = phase, ![q].path = phase, ![q].intent = intent]

Start(q) ==
  \E given \in Intents[q], source \in DataSources[q] :
    LET intent == ResolveRefs(given, Outputs)
        lost == \E i \in DOMAIN given.filters : Unresolvable(given.filters[i], Outputs)
        refused == ~ValidateIntent(intent, {}) \/ Throws(intent.filters) \/ Throws(intent.having)
        physical == source = "default" /\ ~NeedsCalcite(intent)
    IN /\ query[q].phase = "idle"
       /\ CASE lost \/ (physical /\ refused) ->
                 query' = [query EXCEPT ![q].phase = "done", ![q].outcome = "rejected",
                                        ![q].intent = given]
            [] ~lost /\ source # "default" -> Begin(q, intent, "raw")
            [] ~lost /\ source = "default" /\ NeedsCalcite(intent) -> Begin(q, intent, "calcite")
            [] OTHER ->
                 LET tree == Tree(Plan(intent)) IN
                 query' = [query EXCEPT ![q].phase = "run", ![q].path = "physical",
                                        ![q].intent = intent, ![q].ops = tree,
                                        ![q].ctl = [at |-> Len(tree), msg |-> "next",
                                                    rows |-> <<>>]]
       /\ UNCHANGED <<table, clients, acked, early, faults>>

(* A statement on a client of the pool: it sees what the client's open     *)
(* transaction wrote.                                                      *)
Answer(q, stmt) ==
  /\ \E c \in Client :
       /\ Idle(c) /\ clients[c].txn # "aborted"
       /\ query' = [query EXCEPT ![q].phase = "done", ![q].outcome = "ok",
                                 ![q].snapshot = Visible(c),
                                 ![q].answer = Matched(stmt, Visible(c))]
  /\ UNCHANGED <<table, clients, acked, early, faults>>

(* The Calcite service compiles the statement, which a client of the pool  *)
(* executes; an error of either step leads to the raw SQL.                 *)
CalciteAnswers(q) ==
  /\ query[q].phase = "calcite"
  /\ ~Refused(CompileSelect(query[q].intent))
  /\ Answer(q, CompileSelect(query[q].intent))

CalciteFails(q) ==
  /\ query[q].phase = "calcite"
  /\ query' = [query EXCEPT ![q].phase = "raw", ![q].path = "raw"]
  /\ \/ Refused(CompileSelect(query[q].intent)) /\ UNCHANGED <<clients, faults>>
     \/ Fault /\ UNCHANGED clients
     \/ (\E c \in Client : Idle(c) /\ clients[c].txn = "aborted") /\ UNCHANGED <<clients, faults>>
     \/ \E c \in Client : /\ Idle(c) /\ clients[c].txn = "open" /\ Fault
                          /\ clients' = [clients EXCEPT ![c].txn = "aborted"]
  /\ UNCHANGED <<table, acked, early>>

RawAnswers(q) ==
  /\ query[q].phase = "raw"
  /\ ~RawRefused(query[q].intent) /\ ~Refused(BuildRawSQL(query[q].intent))
  /\ Answer(q, BuildRawSQL(query[q].intent))

(* The builder throws, the server refuses the statement, or it fails; on a *)
(* client with an open transaction the error aborts that transaction.      *)
RawFails(q) ==
  /\ query[q].phase = "raw"
  /\ Finish(q, "error", <<>>)
  /\ \/ RawRefused(query[q].intent) /\ UNCHANGED <<clients, faults>>
     \/ \E c \in Client :
          /\ Idle(c) /\ ~RawRefused(query[q].intent)
          /\ \/ clients[c].txn = "aborted" /\ UNCHANGED faults
             \/ Refused(BuildRawSQL(query[q].intent)) /\ UNCHANGED faults
             \/ Fault
          /\ clients' = [clients EXCEPT ![c].txn = IF @ = "open" THEN "aborted" ELSE @]
  /\ UNCHANGED <<table, acked, early>>

-----------------------------------------------------------------------------

(* Closing the operators closes the generator of the scan: suspended at    *)
(* its yield, it runs only the finally block, which releases the client    *)
(* with its transaction open.                                              *)
CloseScan(q) ==
  /\ clients' = [c \in Client |-> IF clients[c].by = q THEN [clients[c] EXCEPT !.by = Nobody]
                                  ELSE clients[c]]
  /\ early' = (early \/ query[q].gen = "active")

(* One turn of an operator above the scan.                                 *)
Takes(q, ops, res) ==
  LET me == query[q]
      i == me.ctl.at
      closing == Collects(ops[i]) /\ res.op.mem.built
      state == IF res.act = "return" /\ res.rows = <<>> THEN "exhausted" ELSE res.op.st
      after == [j \in DOMAIN ops |->
                  CASE j = i -> [res.op EXCEPT !.st = state]
                    [] j < i /\ closing -> [ops[j] EXCEPT !.st = "closed"]
                    [] OTHER -> ops[j]]
      Move(at, msg, rows) ==
        /\ query' = [query EXCEPT ![q].ops = after,
                                  ![q].ctl = [at |-> at, msg |-> msg, rows |-> rows]]
        /\ UNCHANGED <<clients, early>>
  IN CASE res.act = "pull" -> Move(i - 1, "next", <<>>)
       [] res.act = "throw" -> Finish(q, "error", <<>>) /\ CloseScan(q)
       [] res.act = "return" /\ i < Len(ops) -> Move(i + 1, "batch", res.rows)
       [] OTHER -> Finish(q, "ok", res.rows) /\ CloseScan(q)

Turn(q) ==
  LET me == query[q]
      i == me.ctl.at
      opening == me.ctl.msg = "next" /\ Collects(me.ops[i]) /\ ~me.ops[i].mem.built
      ops == IF opening THEN Opened(me.ops, i - 1) ELSE me.ops
  IN /\ me.phase = "run" /\ i > 1
     /\ \E res \in {IF me.ctl.msg = "next" THEN Ask(ops[i], ops[i - 1].st)
                    ELSE Got(ops[i], ops[i - 1].st, me.ctl.rows)} : Takes(q, ops, res)
     /\ UNCHANGED <<table, acked, faults>>

(* The scan's generator: its first request takes a client, begins a        *)
(* transaction and declares the cursor, with the pushed predicate when it  *)
(* can be translated.                                                      *)
Asked(q) == query[q].phase = "run" /\ query[q].ctl.at = 1

ScanResult(scan, rows) ==
  IF Given(scan.predicate) /\ IsSimplePredicate(scan.predicate[1])
  THEN SelectSeq(rows, LAMBDA r : Selected(scan.predicate[1], TextColumn, r))
  ELSE rows

BadPredicate(scan) ==
  /\ Given(scan.predicate) /\ IsSimplePredicate(scan.predicate[1])
  /\ ~Accepted(scan.predicate[1], TextColumn)

Declare(q) ==
  LET scan == query[q].ops[1].node IN
  /\ Asked(q) /\ query[q].gen = "new" /\ ~BadPredicate(scan)
  /\ \E c \in Client :
       /\ Idle(c) /\ clients[c].txn # "aborted"
       /\ clients' = [clients EXCEPT ![c].by = q, ![c].txn = "open"]
       /\ query' = [query EXCEPT ![q].gen = "active", ![q].client = c,
                                 ![q].snapshot = Visible(c),
                                 ![q].result = ScanResult(scan, Visible(c))]
  /\ UNCHANGED <<table, acked, early, faults>>

(* BEGIN fails on an aborted transaction, DECLARE for a bad predicate, or  *)
(* the database fails: ROLLBACK, release, rethrow.                         *)
DeclareFails(q) ==
  /\ Asked(q) /\ query[q].gen = "new"
  /\ \E c \in Client :
       /\ Idle(c)
       /\ \/ (BadPredicate(query[q].ops[1].node) \/ clients[c].txn = "aborted") /\ UNCHANGED faults
          \/ Fault
       /\ clients' = [clients EXCEPT ![c] = RolledBack(@)]
  /\ Finish(q, "error", <<>>)
  /\ UNCHANGED <<table, acked, early>>

ScanReturns(q, rows) ==
  [query[q] EXCEPT !.ctl = [at |-> 2, msg |-> "batch", rows |-> rows],
                   !.ops[1].st = IF rows = <<>> THEN "exhausted" ELSE @]

Batch(me) == SubSeq(me.result, me.pos + 1, Min({me.pos + BatchSize, Len(me.result)}))

(* Mutants of Fetch: the end of the cursor releases the client only; the   *)
(* position moves by the size of a batch.                                  *)
FetchNoCommit(q) ==
  LET me == query[q] batch == Batch(me) IN
     /\ Asked(q) /\ me.gen = "active"
     /\ IF me.short \/ batch = <<>>
        THEN /\ query' = [query EXCEPT ![q] = [ScanReturns(q, <<>>) EXCEPT !.gen = "done",
                                                                      !.client = Nobody]]
             /\ clients' = [clients EXCEPT ![me.client].by = Nobody]
        ELSE /\ query' = [query EXCEPT ![q] = [ScanReturns(q, [k \in DOMAIN batch |->
                                                  AliasRow(batch[k], me.ops[1].node.table)])
                                               EXCEPT !.pos = @ + Len(batch),
                                                      !.short = Len(batch) < BatchSize]]
             /\ UNCHANGED clients
     /\ UNCHANGED <<table, acked, early, faults>>

Fetch(q) ==
  LET me == query[q] batch == Batch(me) IN
     /\ Asked(q) /\ me.gen = "active"
     /\ IF me.short \/ batch = <<>>
        THEN /\ query' = [query EXCEPT ![q] = [ScanReturns(q, <<>>) EXCEPT !.gen = "done",
                                                                      !.client = Nobody]]
             /\ table' = table \o clients[me.client].pending
             /\ clients' = [clients EXCEPT ![me.client] = CleanClient]
        ELSE /\ query' = [query EXCEPT ![q] = [ScanReturns(q, [k \in DOMAIN batch |->
                                                  AliasRow(batch[k], me.ops[1].node.table)])
                                               EXCEPT !.pos = @ + Len(batch),
                                                      !.short = Len(batch) < BatchSize]]
             /\ UNCHANGED <<table, clients>>
     /\ UNCHANGED <<acked, early, faults>>

FetchFails(q) ==
  /\ Asked(q) /\ query[q].gen = "active" /\ Fault
  /\ clients' = [clients EXCEPT ![query[q].client] = CleanClient]
  /\ Finish(q, "error", <<>>)
  /\ UNCHANGED <<table, acked, early>>

-----------------------------------------------------------------------------
(* A write node's insert (write-node.ts, runInsert): a transaction on one  *)
(* client, around a statement that rawQuery sends on another.  The         *)
(* statement belongs to whatever transaction that other client has open.   *)
Insert(w) ==
  /\ w \notin acked
  /\ \E c, d \in Client :
       /\ c # d /\ Idle(c) /\ Idle(d)
       /\ clients[c].txn # "aborted" /\ clients[d].txn # "aborted"
       /\ acked' = acked \union {w}
       /\ IF clients[d].txn = "open"
          THEN /\ clients' = [clients EXCEPT ![c] = CleanClient,
                                             ![d].pending = Append(@, NewRow[w])]
               /\ table' = table \o clients[c].pending
          ELSE /\ clients' = [clients EXCEPT ![c] = CleanClient]
               /\ table' = Append(table, NewRow[w]) \o clients[c].pending
  /\ UNCHANGED <<query, early, faults>>

(* The insert fails: the error of the statement aborts the transaction of  *)
(* its client, and the transaction around it is rolled back.               *)
InsertFails(w) ==
  /\ w \notin acked
  /\ \E c, d \in Client :
       /\ c # d /\ Idle(c) /\ Idle(d)
       /\ \/ "aborted" \in {clients[c].txn, clients[d].txn} /\ UNCHANGED faults
          \/ Fault
       /\ clients' = [clients EXCEPT ![c] = RolledBack(@),
                                     ![d].txn = IF clients[c].txn # "aborted" /\ @ = "open"
                                                THEN "aborted" ELSE @]
  /\ UNCHANGED <<table, query, acked, early>>

(* The pool ends a client that has been idle for idleTimeoutMillis; the    *)
(* server rolls its transaction back.                                      *)
IdleTimeout(c) ==
  /\ Idle(c) /\ clients[c].txn # "none"
  /\ clients' = [clients EXCEPT ![c] = CleanClient]
  /\ UNCHANGED <<table, query, acked, early, faults>>

Step(q) ==
  \/ CalciteAnswers(q) \/ CalciteFails(q) \/ RawAnswers(q) \/ RawFails(q)
  \/ Turn(q) \/ Declare(q) \/ DeclareFails(q) \/ Fetch(q) \/ FetchFails(q)

Next ==
  \/ \E q \in Query : Start(q) \/ Step(q)
  \/ \E w \in Writer : Insert(w) \/ InsertFails(w)
  \/ \E c \in Client : IdleTimeout(c)

Spec == Init /\ [][Next]_vars

-----------------------------------------------------------------------------
(* What a query of one table asks for, stated on whole tables.  The filters*)
(* have two readings in the code: the operators join those with one        *)
(* operator and value by OR and compare texts without their case, the SQL  *)
(* paths join all filters by AND and compare texts with it.                *)
Cell(row, f) == row[<<"", f>>]
SameWord(a, b) == IF IsText(a) /\ IsText(b) THEN a[2] = b[2] ELSE a = b
Same(a, b) == a = b

(* The filter holds for the row, in SQL's sense: not for a null.           *)
Holds(f, row, Eq(_, _)) ==
  LET v == Cell(row, f.field)
      member == \E i \in DOMAIN f.vals : Eq(f.vals[i], v)
  IN CASE f.op = "IS NULL" -> v = Null
       [] f.op = "IS NOT NULL" -> v # Null
       [] f.op = "IN" -> v # Null /\ member
       [] f.op \in {"NOT IN", "!="} -> v # Null /\ ~member
       [] f.op = "=" -> v # Null /\ Eq(v, f.vals[1])
       [] f.op = "LIKE" -> v # Null /\ (f.vals[1][2] = 0 \/ Eq(v, f.vals[1]))
       [] f.op = "<" -> v # Null /\ v[2] < f.vals[1][2]
       [] f.op = ">=" -> v # Null /\ v[2] >= f.vals[1][2]
       [] f.op = "BETWEEN" -> v # Null /\ v[2] \in f.vals[1][2] .. f.vals[2][2]

(* The reading of the operators: "multiple filters on different fields     *)
(* [that] have the same operator and value [...] should be combined with   *)
(* OR" (query-ast-builder.ts:475).                                         *)
Matches(filters, row) ==
  \A i \in DOMAIN filters :
    \E j \in DOMAIN filters : GroupKey(filters[j]) = GroupKey(filters[i]) /\ Holds(filters[j], row, SameWord)

(* The place of a row: nulls first or last, then by value.                 *)
Rank(o, row) ==
  LET v == Cell(row, o.field) IN
  CASE v = Null -> IF o.nulls = "FIRST" THEN -100 ELSE 100
    [] o.direction = "ASC" -> v[2]
    [] OTHER -> -v[2]

InOrder(orderBy, rows) ==
  LET Before(i, j) ==
        \/ \E k \in DOMAIN orderBy :
             /\ \A l \in 1 .. k - 1 : Rank(orderBy[l], rows[i]) = Rank(orderBy[l], rows[j])
             /\ Rank(orderBy[k], rows[i]) < Rank(orderBy[k], rows[j])
        \/ /\ \A l \in DOMAIN orderBy : Rank(orderBy[l], rows[i]) = Rank(orderBy[l], rows[j])
           /\ i < j
      place == [i \in DOMAIN rows |-> 1 + Cardinality({j \in DOMAIN rows : Before(j, i)})]
  IN [n \in DOMAIN rows |-> rows[CHOOSE i \in DOMAIN rows : place[i] = n]]

Cut(intent, rows) ==
  LET from == IF intent.offset = Undefined THEN 0 ELSE intent.offset
      n == IF intent.limit \in {Undefined, 0} THEN Len(rows) ELSE intent.limit
  IN SubSeq(rows, from + 1, Min({from + n, Len(rows)}))

Summary(intent, rows) ==
  [n \in {<<"", intent.aggregations[1][i].alias>> : i \in DOMAIN intent.aggregations[1]} |->
     LET a == CHOOSE a \in {intent.aggregations[1][i] : i \in DOMAIN intent.aggregations[1]} :
                a.alias = n[2]
         cells == {i \in DOMAIN rows : a.expr # "*" /\ IsNum(Cell(rows[i], a.expr))}
     IN IF a.fn = "COUNT" THEN Num(Len(rows))
        ELSE Num(FoldSet(LAMBDA i, t : t + Cell(rows[i], a.expr)[2], 0, cells))]

Expected(intent, rows) ==
  LET matching == SelectSeq(rows, LAMBDA r : Matches(intent.filters, r))
      summary == Summary(intent, matching)
      kept == IF matching # <<>> /\ Matches(intent.having, summary) THEN <<summary>> ELSE <<>>
      Columns(r) == [n \in {<<"", intent.columns[i].alias>> : i \in DOMAIN intent.columns} |->
                       r[<<"", (CHOOSE c \in {intent.columns[i] : i \in DOMAIN intent.columns} :
                                  c.alias = n[2]).field>>]]
      ordered == InOrder(intent.orderBy, matching)
  IN IF Given(intent.aggregations) THEN Cut(intent, kept)
     ELSE Cut(intent, [i \in DOMAIN ordered |-> Columns(ordered[i])])

(* The reading of the SQL paths.                                           *)
MatchesAll(filters, row) == \A i \in DOMAIN filters : Holds(filters[i], row, Same)

(* Filters that both readings take alike: no texts, no alternatives.       *)
ReadAlike(filters) ==
  /\ \A i \in DOMAIN filters : \A j \in DOMAIN filters[i].vals : ~IsText(filters[i].vals[j])
  /\ \A i, j \in DOMAIN filters : GroupKey(filters[i]) = GroupKey(filters[j]) => i = j

(* An intent the path answers as it stands: the server accepts its filters *)
(* and their references are resolved, an empty array does not stand for a  *)
(* missing one, and HAVING comes with an aggregation.                      *)
Regular(intent) ==
  /\ intent.filters # <<>> => Accepted(BuildWhereExpr(intent.filters)[1], TextColumn)
  /\ \A i \in DOMAIN intent.filters : intent.filters[i].ref = "" /\ intent.filters[i].expr = <<>>
  /\ Given(intent.groupBy) \/ Given(intent.aggregations) => OrEmpty(intent.aggregations) # <<>>
  /\ intent.having # <<>> => Given(intent.aggregations)

-----------------------------------------------------------------------------
TypeOK ==
  /\ \A i \in DOMAIN table : {<<"", "id">>} \subseteq DOMAIN table[i]
  /\ \A c \in Client : /\ clients[c].by \in Query \union {Nobody}
                       /\ clients[c].txn \in {"none", "open", "aborted"}
  /\ \A q \in Query : /\ query[q].phase \in {"idle", "calcite", "raw", "run", "done"}
                      /\ query[q].gen \in {"new", "active", "done"}
                      /\ query[q].outcome \in {"none", "ok", "error", "rejected"}
                      /\ query[q].ctl.at \in 0 .. Len(query[q].ops)
                      /\ query[q].pos \in 0 .. Len(query[q].result)
  /\ acked \subseteq Writer
  /\ early \in BOOLEAN
  /\ faults \in 0 .. MaxFaults

(* The operators return what the intent asks for in their reading, computed*)
(* on the table as it was when the cursor was declared: pushdown, batches, *)
(* budget, spilled sorting and concurrent inserts change nothing.          *)
AnswerCorrect ==
  \A q \in Query :
    query[q].path = "physical" /\ query[q].outcome = "ok" /\ Regular(query[q].intent) =>
      query[q].answer = Expected(query[q].intent, query[q].snapshot)

(* README, "Budget and Safety": a result over the row budget is an error,  *)
(* never a shorter answer, and an answer that fits is not refused: without *)
(* faults a query fails only when more rows than the budget match.         *)
BudgetExact ==
  \A q \in Query :
    LET me == query[q]
        matching == SelectSeq(me.snapshot, LAMBDA r : Matches(me.intent.filters, r))
    IN me.path = "physical" /\ me.phase = "done" /\ Regular(me.intent) =>
         /\ me.outcome = "ok" => Len(me.answer) <= MaxRowsPerNode
         /\ me.outcome = "error" /\ faults = 0 /\ ~early /\ me.snapshot # <<>> =>
              Len(matching) > MaxRowsPerNode

(* The pull protocol: the operator that is asked for a batch is open, so   *)
(* that "Cannot get next batch from operator in state" is never thrown,    *)
(* and the operator that waits for its answer is open as well.             *)
AskedIsOpen ==
  \A q \in Query :
    LET me == query[q] IN
    /\ me.phase = "run" /\ me.ctl.msg = "next" /\ me.ctl.at < Len(me.ops) =>
         me.ops[me.ctl.at].st = "open"
    /\ me.phase = "run" /\ me.ctl.msg = "batch" /\ me.ctl.at < Len(me.ops) =>
         me.ops[me.ctl.at].st = "open"

(* A query that ended, in whatever way, holds no client and has closed     *)
(* every operator; a client is held by a query that is reading from it.    *)
Released ==
  /\ \A q \in Query : query[q].phase = "done" =>
       /\ \A c \in Client : clients[c].by # q
       /\ \A i \in DOMAIN query[q].ops : query[q].ops[i].st = "closed"
  /\ \A c \in Client : clients[c].by # Nobody =>
       query[clients[c].by].client = c /\ query[clients[c].by].gen = "active"

(* As long as every cursor was read to its end, a released client has no   *)
(* transaction, and an insert that was reported as done is committed.      *)
CleanUnlessEarly ==
  ~early => /\ \A c \in Client : Idle(c) => clients[c].txn = "none"
            /\ \A w \in acked : Contains(table, NewRow[w])

(* The WHERE of the SQL paths selects exactly the rows for which every     *)
(* filter holds, texts with their case, except for the case-insensitive    *)
(* operators RawCondition does not keep; where both readings take the      *)
(* filters alike these are the rows the operators would select.  What the  *)
(* server then groups, orders and cuts is its own.                         *)
SqlAnswerCorrect ==
  \A q \in Query :
    LET me == query[q] IN
    /\ me.path \in {"raw", "calcite"} /\ me.outcome = "ok"
    /\ \A i \in DOMAIN me.intent.filters : ~me.intent.filters[i].ci
    => /\ me.answer = SelectSeq(me.snapshot, LAMBDA r : MatchesAll(me.intent.filters, r))
       /\ ReadAlike(me.intent.filters) =>
            me.answer = SelectSeq(me.snapshot, LAMBDA r : Matches(me.intent.filters, r))

(* An answer is what the intent asks for in the reading of the path the    *)
(* executor took.  The paths do not agree on one reading: raw SQL joins by *)
(* AND what the builder says "should be combined with OR"                  *)
(* (query-ast-builder.ts:475, query-executor.ts:209), and compares texts   *)
(* with their case.  They agree for filters that ReadAlike.                *)
AnswersCorrect == AnswerCorrect /\ SqlAnswerCorrect

(* The pull protocol between the operators, and between a scan and its     *)
(* client: nobody is asked before it is open, and every end, LIMIT's early *)
(* one and errors included, closes the operators and returns the client.   *)
ProtocolKept == AskedIsOpen /\ Released /\ CleanUnlessEarly
=============================================================================
