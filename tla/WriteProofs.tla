---------------------------- MODULE WriteProofs ----------------------------
(***************************************************************************)
(* What is proved of the write nodes, for every number of executions,      *)
(* every pool and every payload.                                           *)
(*                                                                         *)
(* The connection pool is sound: no client is lost, and executions do not  *)
(* wait for each other in a circle in a pool that has one client more than *)
(* the open transactions can hold. Each client that is out is a pair of    *)
(* its holder and a number, so the pool is counted by the cardinality of a *)
(* set; a step of one execution changes only the pairs of that execution.  *)
(*                                                                         *)
(* The statements mean what the plan says: each placeholder stands for the *)
(* value of its column, and a statement does the operation of its plan     *)
(* under the conditions of its plan. The placeholders of a statement are   *)
(* numbered along its clauses, so the first part is about lists and ranks; *)
(* then come the statements, path by path, and last the invariant that     *)
(* what a path meant stays so while other executions rewrite the payload.  *)
(*                                                                         *)
(* An INSERT writes every row once. What it writes to a column is the      *)
(* concatenation of what its statements write, so this part is about       *)
(* pieces of lists and, for the batches, about division; the invariant     *)
(* then follows the log of an execution along its plan.                    *)
(***************************************************************************)
EXTENDS WriteNode, FiniteSetTheorems, WellFoundedInduction, TLAPS

-----------------------------------------------------------------------------
(* The plans of the paths.                                                 *)

\* A path is inside two transactions at most, and inside one when it throws.
PlanOK(x) == x.ok \in BOOLEAN /\ x.tx \in 0..2 /\ (~x.ok => x.tx <= 1)

LEMMA SendOK ==
    ASSUME NEW tx \in 0..2, NEW stmts
    PROVE  PlanOK(Send(tx, stmts)) /\ Send(tx, stmts).tx = tx /\ Send(tx, stmts).ok
BY DEF PlanOK, Send

LEMMA ThrowOK ==
    /\ PlanOK(Throw) /\ Throw.tx = 0
    /\ PlanOK([Throw EXCEPT !.tx = 1])
BY DEF PlanOK, Throw

LEMMA RunInsertOK ==
    ASSUME NEW op, NEW cols, NEW rows, NEW static, NEW tx \in 0..1
    PROVE  PlanOK(RunInsert(op, cols, rows, static, tx))
<1>1. PICK s : RunInsert(op, cols, rows, static, tx) = Send(tx + 1, s)
  BY Zenon DEF RunInsert
<1>2. tx + 1 \in 0..2
  OBVIOUS
<1> QED  BY <1>1, <1>2, SendOK

LEMMA RunUpdateOK ==
    ASSUME NEW p, NEW cols, NEW rows
    PROVE  PlanOK(RunUpdate(p, cols, rows))
<1>1. \/ \E s : RunUpdate(p, cols, rows) = Send(1, s)
      \/ RunUpdate(p, cols, rows) = [Throw EXCEPT !.tx = 1]
  BY Zenon DEF RunUpdate
<1>2. \A s : PlanOK(Send(1, s))
  BY SendOK
<1> QED  BY <1>1, <1>2, ThrowOK

LEMMA RunUpsertOK ==
    ASSUME NEW p, NEW cols, NEW rows
    PROVE  PlanOK(RunUpsert(p, cols, rows))
<1>1. \/ \E s : RunUpsert(p, cols, rows) = Send(1, s)
      \/ \E c : RunUpsert(p, cols, rows) = RunInsert("INSERT_IGNORE", c, rows, <<>>, 1)
  BY Zenon DEF RunUpsert
<1>2. \A s : PlanOK(Send(1, s))
  BY SendOK
<1>3. \A c : PlanOK(RunInsert("INSERT_IGNORE", c, rows, <<>>, 1))
  <2>1. 1 \in 0..1
    OBVIOUS
  <2> QED  BY <2>1, RunInsertOK, Zenon
<1> QED  BY <1>1, <1>2, <1>3

LEMMA RunDeleteOK ==
    ASSUME NEW p, NEW rows
    PROVE  PlanOK(RunDelete(p, rows))
<1>1. \/ \E s : RunDelete(p, rows) = Send(1, s)
      \/ RunDelete(p, rows) = [Throw EXCEPT !.tx = 1]
  BY Zenon DEF RunDelete
<1>2. \A s : PlanOK(Send(1, s))
  BY SendOK
<1> QED  BY <1>1, <1>2, ThrowOK

LEMMA RunModeOK ==
    ASSUME NEW p, p.mode \in Modes, NEW insertCols, NEW cols, NEW rows
    PROVE  PlanOK(RunMode(p, insertCols, cols, rows))
<1>1. \A op : PlanOK(RunInsert(op, insertCols, rows, p.static, 0))
  BY RunInsertOK
<1>2. PlanOK(RunUpdate(p, cols, rows)) /\ PlanOK(RunUpsert(p, cols, rows)) /\ PlanOK(RunDelete(p, rows))
  BY RunUpdateOK, RunUpsertOK, RunDeleteOK
<1> QED  BY <1>1, <1>2 DEF RunMode, Modes

LEMMA ManualOK ==
    ASSUME NEW p, p.mode \in Modes, NEW rows
    PROVE  PlanOK(ManualStatements(p, rows))
<1>1. \A s : PlanOK(Send(0, s))
  BY SendOK
<1>2. \A a, b, c : PlanOK(RunMode(p, a, b, c))
  BY RunModeOK
<1>3. PlanOK(TemplateStatements(p, rows))
  <2>1. \/ \E s : TemplateStatements(p, rows) = Send(0, s)
        \/ \E a, b, c : TemplateStatements(p, rows) = RunMode(p, a, b, c)
    BY Zenon DEF TemplateStatements
  <2> QED  BY <1>1, <1>2, <2>1
<1>4. PlanOK(RowDrivenUpdate(p, rows))
  <2>1. \/ \E s : RowDrivenUpdate(p, rows) = Send(0, s)
        \/ RowDrivenUpdate(p, rows) = Throw
    BY Zenon DEF RowDrivenUpdate
  <2> QED  BY <1>1, <2>1, ThrowOK
<1>5. PlanOK(StaticUpdate(p, rows))
  <2>1. \/ \E s : StaticUpdate(p, rows) = Send(0, s)
        \/ StaticUpdate(p, rows) = Throw
    BY Zenon DEF StaticUpdate
  <2> QED  BY <1>1, <2>1, ThrowOK
<1>6. \/ \E s : ManualStatements(p, rows) = Send(0, s)
      \/ \E a, b, c : ManualStatements(p, rows) = RunMode(p, a, b, c)
      \/ ManualStatements(p, rows) \in {TemplateStatements(p, rows), RowDrivenUpdate(p, rows),
                                        StaticUpdate(p, rows)}
  BY Zenon DEF ManualStatements
<1> QED  BY <1>1, <1>2, <1>3, <1>4, <1>5, <1>6

\* The Calcite path and the cursor path are outside any transaction.
LEMMA OutsideOK ==
    ASSUME NEW p, NEW x
    PROVE  /\ PlanOK(CalciteStatements(p, x)) /\ CalciteStatements(p, x).tx = 0
           /\ PlanOK(CursorStatement(p, x)) /\ CursorStatement(p, x).tx = 0
<1>1. \A s : PlanOK(Send(0, s)) /\ Send(0, s).tx = 0
  BY SendOK
<1>2. (\E s : CalciteStatements(p, x) = Send(0, s)) \/ CalciteStatements(p, x) = Throw
  BY Zenon DEF CalciteStatements
<1>3. (\E s : CursorStatement(p, x) = Send(0, s)) \/ CursorStatement(p, x) = Throw
  BY Zenon DEF CursorStatement
<1> QED  BY <1>1, <1>2, <1>3, ThrowOK

-----------------------------------------------------------------------------
(* The inductive invariant.                                                *)

WriterFields == {"pc", "node", "rows", "up", "plan", "mode", "path", "held", "next", "by",
                 "runs", "attempt"}

PayloadsOK ==
    /\ DOMAIN payload = Node
    /\ \A n \in Node : DOMAIN payload[n] = PayloadFields /\ payload[n].mode \in Modes

\* An execution r holds clients only while it sends, no more than its path has
\* transactions; a statement is under way only when all of them are open.
HoldsOK(r) ==
    /\ DOMAIN r = WriterFields
    /\ r.held \in Nat
    /\ PlanOK(r.plan)
    /\ r.pc # "idle" => r.node \in Node
    /\ r.pc \in {"send", "query"} => r.held <= r.plan.tx
    /\ r.pc \notin {"send", "query"} => r.held = 0
    /\ r.pc \in {"send", "query"} /\ r.path = "calcite" => r.plan.tx = 0

Out(r) == r.held + (IF r.pc = "query" THEN 1 ELSE 0)

WritersOK == DOMAIN writer = Writer /\ \A w \in Writer : HoldsOK(writer[w])

PoolInv ==
    /\ PayloadsOK /\ WritersOK
    /\ free \in Nat
    /\ PoolConserved

\* An execution has at most three clients.
LEMMA OutBound ==
    ASSUME NEW r, HoldsOK(r)
    PROVE  Out(r) \in 0..3
BY DEF HoldsOK, PlanOK, Out

\* c clients of w.
LEMMA LeaseCount ==
    ASSUME NEW w, NEW c \in Nat
    PROVE  IsFiniteSet({w} \X (1..c)) /\ Cardinality({w} \X (1..c)) = c
<1>1. IsFiniteSet({w}) /\ Cardinality({w}) = 1
  BY FS_Singleton
<1>2. IsFiniteSet(1..c) /\ Cardinality(1..c) = c
  BY FS_Interval
<1>3. IsFiniteSet({w} \X (1..c)) /\ Cardinality({w} \X (1..c)) = Cardinality({w}) * Cardinality(1..c)
  BY <1>1, <1>2, FS_Product
<1> QED  BY <1>1, <1>2, <1>3

\* The parts of a pair.
LEMMA PairParts ==
    ASSUME NEW A, NEW B, NEW x \in A \X B
    PROVE  x[1] \in A /\ x[2] \in B /\ x = <<x[1], x[2]>>
OBVIOUS

\* The clients of w set apart from those of the others.
Others(f, w) == UNION {{v} \X (1..Out(f[v])) : v \in Writer \ {w}}

LEMMA LeasedSplit ==
    ASSUME NEW f, DOMAIN f = Writer, \A v \in Writer : HoldsOK(f[v]), NEW w \in Writer
    PROVE  /\ IsFiniteSet(UNION {{v} \X (1..Out(f[v])) : v \in Writer})
           /\ IsFiniteSet(Others(f, w))
           /\ Cardinality(UNION {{v} \X (1..Out(f[v])) : v \in Writer})
                = Cardinality(Others(f, w)) + Out(f[w])
<1> DEFINE All == UNION {{v} \X (1..Out(f[v])) : v \in Writer}
           Own == {w} \X (1..Out(f[w]))
<1>1. \A v \in Writer : Out(f[v]) \in 0..3
  BY OutBound
<1>2. IsFiniteSet(Writer \X (1..3))
  <2>1. IsFiniteSet(1..3)
    <3>1. 1 \in Int /\ 3 \in Int
      OBVIOUS
    <3> QED  BY <3>1, FS_Interval, Zenon
  <2>2. IsFiniteSet(Writer)
    BY WriteAssumption
  <2> QED  BY <2>1, <2>2, FS_Product
<1>3. All = Others(f, w) \cup Own
  BY Zenon DEF Others
<1>4. Others(f, w) \subseteq Writer \X (1..3)
  <2>1. SUFFICES ASSUME NEW v \in Writer, NEW x \in {v} \X (1..Out(f[v])) PROVE x \in Writer \X (1..3)
    BY Zenon DEF Others
  <2>2. x[1] \in {v} /\ x[2] \in 1..Out(f[v]) /\ x = <<x[1], x[2]>>
    BY PairParts
  <2>3. x[1] \in Writer /\ x[2] \in 1..3
    BY <1>1, <2>2
  <2> QED  BY <2>2, <2>3
<1>5. Others(f, w) \cap Own = {}
  <2>1. SUFFICES ASSUME NEW v \in Writer \ {w}, NEW x \in {v} \X (1..Out(f[v])), x \in Own PROVE FALSE
    BY Zenon DEF Others
  <2>2. x[1] \in {v} /\ x[1] \in {w}
    BY <2>1, PairParts
  <2> QED  BY <2>2
<1>6. IsFiniteSet(Others(f, w))
  BY <1>2, <1>4, FS_Subset
<1>7. IsFiniteSet(Own) /\ Cardinality(Own) = Out(f[w])
  <2>1. PICK c \in Nat : c = Out(f[w])
    BY <1>1
  <2> QED  BY <2>1, LeaseCount
<1> HIDE DEF Own
<1>8. /\ IsFiniteSet(Others(f, w) \cup Own)
      /\ Cardinality(Others(f, w) \cup Own)
           = Cardinality(Others(f, w)) + Cardinality(Own) - Cardinality(Others(f, w) \cap Own)
  BY <1>6, <1>7, FS_Union
<1>9. Cardinality(Others(f, w) \cap Own) = 0
  BY <1>5, FS_EmptySet
<1>10. Cardinality(Others(f, w)) \in Nat /\ Cardinality(Own) \in Nat
  BY <1>6, <1>7, FS_CardinalityType
<1>11. Cardinality(Others(f, w) \cup Own) = Cardinality(Others(f, w)) + Out(f[w])
  BY <1>7, <1>8, <1>9, <1>10
<1> QED  BY <1>3, <1>6, <1>8, <1>11, Zenon

LEMMA LeasedIs ==
    Leased = UNION {{v} \X (1..Out(writer[v])) : v \in Writer}
BY DEF Leased, Clients, Out

\* A step of w that gives the pool what it no longer holds keeps the invariant.
LEMMA StepKept ==
    ASSUME PoolInv, NEW w \in Writer, NEW new, writer' = [writer EXCEPT ![w] = new],
           HoldsOK(new), PayloadsOK', free' \in Nat, free' = free + Out(writer[w]) - Out(new)
    PROVE  PoolInv'
<1>1. WritersOK'
  BY DEF PoolInv, WritersOK
<1>2. Others(writer', w) = Others(writer, w)
  <2>1. \A v \in Writer \ {w} : writer'[v] = writer[v]
    BY DEF PoolInv, WritersOK
  <2> QED  BY <2>1 DEF Others
<1>3. writer'[w] = new
  BY DEF PoolInv, WritersOK
<1>4. PICK a \in Nat : a = Cardinality(Others(writer, w))
  <2>1. IsFiniteSet(Others(writer, w))
    BY LeasedSplit DEF PoolInv, WritersOK
  <2> QED  BY <2>1, FS_CardinalityType
<1>5. Cardinality(Leased) = a + Out(writer[w])
  BY <1>4, LeasedSplit, LeasedIs DEF PoolInv, WritersOK
<1>6. Cardinality(Leased') = a + Out(new)
  <2>1. Leased' = UNION {{v} \X (1..Out(writer'[v])) : v \in Writer}
    BY DEF Leased, Clients, Out
  <2>2. Cardinality(UNION {{v} \X (1..Out(writer'[v])) : v \in Writer})
          = Cardinality(Others(writer', w)) + Out(writer'[w])
    BY <1>1, LeasedSplit DEF WritersOK
  <2>3. Cardinality(UNION {{v} \X (1..Out(writer'[v])) : v \in Writer}) = a + Out(new)
    BY <1>2, <1>3, <1>4, <2>2
  <2> QED  BY <2>1, <2>3
<1>7. Out(writer[w]) \in 0..3 /\ Out(new) \in 0..3
  BY OutBound DEF PoolInv, WritersOK
<1>8. free + Cardinality(Leased) = PoolMax /\ free \in Nat
  BY DEF PoolInv, PoolConserved
<1>9. free' + Cardinality(Leased') = PoolMax
  BY <1>4, <1>5, <1>6, <1>7, <1>8
<1> QED  BY <1>1, <1>9 DEF PoolInv, PoolConserved

-----------------------------------------------------------------------------
(* The steps.                                                              *)

\* What the invariant says of one execution.
LEMMA OwnFacts ==
    ASSUME PoolInv, NEW w \in Writer
    PROVE  HoldsOK(writer[w]) /\ DOMAIN writer[w] = WriterFields /\ w \in DOMAIN writer
BY DEF PoolInv, WritersOK, HoldsOK

\* execute changes its payload, but not its fields, and not to an unknown mode.
LEMMA RewrittenOK ==
    ASSUME NEW p, DOMAIN p = PayloadFields, p.mode \in Modes, NEW up
    PROVE  LET q == SoftDeleted(Stripped(p))
               r == SoftDeleted(Stripped(Resolved(p, up)))
           IN  /\ DOMAIN q = PayloadFields /\ q.mode \in Modes
               /\ DOMAIN r = PayloadFields /\ r.mode \in Modes
<1> USE DEF PayloadFields
<1>1. DOMAIN Resolved(p, up) = PayloadFields /\ Resolved(p, up).mode = p.mode
  BY DEF Resolved
<1>2. ASSUME NEW q, DOMAIN q = PayloadFields, q.mode \in Modes
      PROVE  DOMAIN Stripped(q) = PayloadFields /\ Stripped(q).mode = q.mode
  BY <1>2 DEF Stripped
<1>3. ASSUME NEW q, DOMAIN q = PayloadFields, q.mode \in Modes
      PROVE  DOMAIN SoftDeleted(q) = PayloadFields /\ SoftDeleted(q).mode \in Modes
  <2>1. "update" \in Modes
    BY DEF Modes
  <2> QED  BY <1>3, <2>1 DEF SoftDeleted
<1> HIDE DEF PayloadFields
<1> QED  BY <1>1, <1>2, <1>3

\* Start and Retry: an execution that holds nothing begins.
LEMMA BeginStep ==
    ASSUME PoolInv, NEW w \in Writer, writer[w].pc \in {"idle", "failed"},
           NEW n \in Node, NEW rows, NEW up, NEW attempt, Begin(w, n, rows, up, attempt),
           UNCHANGED free
    PROVE  PoolInv'
<1> DEFINE new == [writer[w] EXCEPT !.pc = "fk", !.node = n, !.rows = rows, !.up = up,
                        !.plan = Throw, !.mode = payload[n].mode, !.path = "none",
                        !.next = 1, !.by = "none", !.attempt = attempt]
           bad == [new EXCEPT !.pc = "failed"]
<1>1. HoldsOK(writer[w]) /\ DOMAIN writer[w] = WriterFields
  BY OwnFacts
<1>2. /\ DOMAIN new = WriterFields /\ new.pc = "fk" /\ new.node = n /\ new.plan = Throw
      /\ new.held = writer[w].held /\ new.path = "none"
  BY <1>1 DEF WriterFields
<1>3. writer[w].held = 0 /\ Out(writer[w]) = 0
  BY <1>1 DEF HoldsOK, Out
<1> HIDE DEF new
<1>4. /\ DOMAIN bad = WriterFields /\ bad.pc = "failed" /\ bad.node = n /\ bad.plan = Throw
      /\ bad.held = 0 /\ bad.path = "none"
  BY <1>2, <1>3 DEF WriterFields
<1> HIDE DEF bad
<1>5. HoldsOK(new) /\ Out(new) = 0
  BY <1>2, <1>3, ThrowOK DEF HoldsOK, Out
<1>6. HoldsOK(bad) /\ Out(bad) = 0
  BY <1>4, ThrowOK DEF HoldsOK, Out
<1>7. PayloadsOK /\ free \in Nat
  BY DEF PoolInv
<1>8. \/ writer' = [writer EXCEPT ![w] = bad] /\ UNCHANGED payload
      \/ /\ writer' = [writer EXCEPT ![w] = new]
         /\ \E q \in {SoftDeleted(Stripped(payload[n])), SoftDeleted(Stripped(Resolved(payload[n], up)))} :
                payload' = [payload EXCEPT ![n] = q]
  BY DEF Begin, Become, new, bad
<1>9. CASE writer' = [writer EXCEPT ![w] = bad] /\ UNCHANGED payload
  <2>1. PayloadsOK'
    BY <1>7, <1>9 DEF PayloadsOK
  <2>2. free' \in Nat /\ free' = free + Out(writer[w]) - Out(bad)
    BY <1>3, <1>6, <1>7
  <2> QED  BY <1>6, <1>9, <2>1, <2>2, StepKept
<1>10. CASE /\ writer' = [writer EXCEPT ![w] = new]
            /\ \E q \in {SoftDeleted(Stripped(payload[n])), SoftDeleted(Stripped(Resolved(payload[n], up)))} :
                   payload' = [payload EXCEPT ![n] = q]
  <2>1. PICK q : /\ payload' = [payload EXCEPT ![n] = q]
                 /\ q \in {SoftDeleted(Stripped(payload[n])), SoftDeleted(Stripped(Resolved(payload[n], up)))}
    BY <1>10
  <2>2. DOMAIN q = PayloadFields /\ q.mode \in Modes
    <3>1. DOMAIN payload[n] = PayloadFields /\ payload[n].mode \in Modes
      BY <1>7 DEF PayloadsOK
    <3> QED  BY <2>1, <3>1, RewrittenOK
  <2>3. PayloadsOK'
    BY <1>7, <2>1, <2>2 DEF PayloadsOK
  <2>4. free' \in Nat /\ free' = free + Out(writer[w]) - Out(new)
    BY <1>3, <1>5, <1>7
  <2> QED  BY <1>5, <1>10, <2>3, <2>4, StepKept
<1> QED  BY <1>8, <1>9, <1>10

\* Before it sends, an execution holds nothing; it may fail, be done, or begin
\* to send along a path.
LEMMA BeforeStep ==
    ASSUME PoolInv, NEW w \in Writer, writer[w].pc \in {"fk", "route", "compile"},
           NEW new, writer' = [writer EXCEPT ![w] = new],
           DOMAIN new = WriterFields, new.held = writer[w].held \/ new.held = 0,
           new.node = writer[w].node, PlanOK(new.plan),
           new.pc \in {"route", "compile", "failed", "done", "send"},
           new.pc = "send" /\ new.path = "calcite" => new.plan.tx = 0,
           UNCHANGED payload, free' = free \/ free' = free + writer[w].held
    PROVE  PoolInv'
<1>1. HoldsOK(writer[w])
  BY OwnFacts
<1>2. writer[w].held = 0 /\ new.held = 0 /\ writer[w].node \in Node
  BY <1>1 DEF HoldsOK
<1>3. Out(writer[w]) = 0 /\ Out(new) = 0
  BY <1>2 DEF Out
<1>4. HoldsOK(new)
  BY <1>2 DEF HoldsOK, PlanOK
<1>5. PayloadsOK'
  BY DEF PoolInv, PayloadsOK
<1>6. free' \in Nat /\ free' = free + Out(writer[w]) - Out(new)
  BY <1>2, <1>3 DEF PoolInv
<1> QED  BY <1>4, <1>5, <1>6, StepKept

\* Fail, before sending.
LEMMA FailBefore ==
    ASSUME PoolInv, NEW w \in Writer, writer[w].pc \in {"fk", "route", "compile"}, Fail(w),
           UNCHANGED payload
    PROVE  PoolInv'
<1> DEFINE new == [writer[w] EXCEPT !.pc = "failed", !.held = 0]
<1>1. HoldsOK(writer[w]) /\ DOMAIN writer[w] = WriterFields
  BY OwnFacts
<1>2. writer' = [writer EXCEPT ![w] = new] /\ free' = free + writer[w].held
  BY DEF Fail, Become
<1>3. /\ DOMAIN new = WriterFields /\ new.pc = "failed" /\ new.held = 0 /\ new.node = writer[w].node
      /\ new.plan = writer[w].plan
  BY <1>1 DEF WriterFields
<1> HIDE DEF new
<1>4. PlanOK(new.plan)
  BY <1>1, <1>3 DEF HoldsOK
<1> QED  BY <1>2, <1>3, <1>4, BeforeStep

\* Run: a path is chosen.
LEMMA RunStep ==
    ASSUME PoolInv, NEW w \in Writer, writer[w].pc \in {"route", "compile"},
           NEW path, NEW rows, NEW plan, NEW by, Run(w, path, rows, plan, by),
           PlanOK(plan), path = "calcite" => plan.tx = 0, UNCHANGED payload
    PROVE  PoolInv'
<1> DEFINE new == [writer[w] EXCEPT !.pc = "send", !.path = path, !.rows = rows,
                                    !.plan = plan, !.next = 1, !.by = by]
<1>1. DOMAIN writer[w] = WriterFields
  BY OwnFacts
<1>2. writer' = [writer EXCEPT ![w] = new] /\ free' = free
  BY DEF Run, Become
<1>3. /\ DOMAIN new = WriterFields /\ new.pc = "send" /\ new.held = writer[w].held
      /\ new.node = writer[w].node /\ new.plan = plan /\ new.path = path
  BY <1>1 DEF WriterFields
<1> HIDE DEF new
<1> QED  BY <1>2, <1>3, BeforeStep

\* The modes of the payload of an execution.
LEMMA ModeKnown ==
    ASSUME PoolInv, NEW w \in Writer, writer[w].pc # "idle"
    PROVE  P(w).mode \in Modes
BY OwnFacts DEF PoolInv, PayloadsOK, HoldsOK, P

\* The foreign keys, the choice of the path and the compilation.
LEMMA PrepareStep ==
    ASSUME PoolInv, NEW w \in Writer,
           \/ FKValid(w) \/ FKViolation(w) \/ RouteCursor(w) \/ RouteRows(w)
           \/ Compiled(w) \/ NotCompiled(w)
    PROVE  PoolInv'
<1>1. HoldsOK(writer[w]) /\ DOMAIN writer[w] = WriterFields /\ PlanOK(writer[w].plan)
  BY OwnFacts DEF HoldsOK
<1>2. CASE FKValid(w)
  <2> DEFINE new == [writer[w] EXCEPT !.pc = "route"]
  <2>1. writer[w].pc = "fk" /\ writer' = [writer EXCEPT ![w] = new] /\ UNCHANGED <<payload, free>>
    BY <1>2 DEF FKValid, Become
  <2>2. /\ DOMAIN new = WriterFields /\ new.pc = "route" /\ new.held = writer[w].held
        /\ new.node = writer[w].node /\ new.plan = writer[w].plan
    BY <1>1 DEF WriterFields
  <2> HIDE DEF new
  <2> QED  BY <1>1, <2>1, <2>2, BeforeStep
<1>3. CASE FKViolation(w)
  <2>1. writer[w].pc = "fk" /\ Fail(w) /\ UNCHANGED payload
    BY <1>3 DEF FKViolation
  <2> QED  BY <2>1, FailBefore
<1>4. CASE RouteCursor(w)
  <2>1. /\ writer[w].pc = "route" /\ UNCHANGED payload
        /\ \/ Fail(w)
           \/ Run(w, "cursor", writer[w].rows, CursorStatement(P(w), cursor.ids), cursor.from)
    BY <1>4 DEF RouteCursor
  <2>2. PlanOK(CursorStatement(P(w), cursor.ids))
    BY OutsideOK
  <2>3. CASE Fail(w)
    BY <2>1, <2>3, FailBefore
  <2>4. CASE Run(w, "cursor", writer[w].rows, CursorStatement(P(w), cursor.ids), cursor.from)
    BY <2>1, <2>2, <2>4, RunStep
  <2> QED  BY <2>1, <2>3, <2>4
<1>5. CASE RouteRows(w)
  <2>1. writer[w].pc = "route" /\ UNCHANGED payload
    BY <1>5 DEF RouteRows
  <2>2. PICK rows : rows = RowsToWrite(P(w), writer[w].rows)
    OBVIOUS
  <2> DEFINE done == [writer[w] EXCEPT !.pc = "done"]
             comp == [writer[w] EXCEPT !.pc = "compile", !.rows = rows]
  <2>3. \/ writer' = [writer EXCEPT ![w] = done] /\ UNCHANGED free
        \/ writer' = [writer EXCEPT ![w] = comp] /\ UNCHANGED free
        \/ Run(w, "manual", rows, ManualStatements(P(w), rows), "none")
    BY <1>5, <2>2 DEF RouteRows, Become
  <2>4. /\ DOMAIN done = WriterFields /\ done.pc = "done" /\ done.held = writer[w].held
        /\ done.node = writer[w].node /\ done.plan = writer[w].plan
    BY <1>1 DEF WriterFields
  <2>5. /\ DOMAIN comp = WriterFields /\ comp.pc = "compile" /\ comp.held = writer[w].held
        /\ comp.node = writer[w].node /\ comp.plan = writer[w].plan
    BY <1>1 DEF WriterFields
  <2> HIDE DEF done, comp
  <2>6. CASE writer' = [writer EXCEPT ![w] = done] /\ UNCHANGED free
    BY <1>1, <2>1, <2>4, <2>6, BeforeStep
  <2>7. CASE writer' = [writer EXCEPT ![w] = comp] /\ UNCHANGED free
    BY <1>1, <2>1, <2>5, <2>7, BeforeStep
  <2>8. CASE Run(w, "manual", rows, ManualStatements(P(w), rows), "none")
    <3>1. PlanOK(ManualStatements(P(w), rows))
      BY <2>1, ModeKnown, ManualOK
    <3> QED  BY <2>1, <2>8, <3>1, RunStep
  <2> QED  BY <2>3, <2>6, <2>7, <2>8
<1>6. CASE Compiled(w)
  <2>1. /\ writer[w].pc = "compile" /\ UNCHANGED payload
        /\ Run(w, "calcite", writer[w].rows, CalciteStatements(P(w), writer[w].rows), "none")
    BY <1>6 DEF Compiled
  <2>2. /\ PlanOK(CalciteStatements(P(w), writer[w].rows))
        /\ CalciteStatements(P(w), writer[w].rows).tx = 0
    BY OutsideOK
  <2> QED  BY <2>1, <2>2, RunStep
<1>7. CASE NotCompiled(w)
  <2>1. /\ writer[w].pc = "compile" /\ UNCHANGED payload
        /\ Run(w, "manual", writer[w].rows, ManualStatements(P(w), writer[w].rows), "none")
    BY <1>7 DEF NotCompiled
  <2>2. PlanOK(ManualStatements(P(w), writer[w].rows))
    BY <2>1, ModeKnown, ManualOK
  <2> QED  BY <2>1, <2>2, RunStep
<1> QED  BY <1>2, <1>3, <1>4, <1>5, <1>6, <1>7

\* While an execution sends: clients are taken and given back.
LEMMA SendingStep ==
    ASSUME PoolInv, NEW w \in Writer,
           Connect(w) \/ ThrowEarly(w) \/ Acquire(w) \/ QueryOk(w) \/ QueryError(w) \/ Sent(w)
    PROVE  PoolInv'
<1>1. /\ HoldsOK(writer[w]) /\ DOMAIN writer[w] = WriterFields /\ PlanOK(writer[w].plan)
      /\ writer[w].held \in Nat /\ writer[w].plan.tx \in 0..2
  BY OwnFacts DEF HoldsOK, PlanOK
<1>2. PayloadsOK /\ free \in Nat /\ (UNCHANGED payload => PayloadsOK')
  BY DEF PoolInv, PayloadsOK
<1>3. CASE Connect(w)
  <2> DEFINE new == [writer[w] EXCEPT !.held = @ + 1]
  <2>1. /\ writer[w].pc = "send" /\ writer[w].held < writer[w].plan.tx /\ free > 0
        /\ writer' = [writer EXCEPT ![w] = new] /\ free' = free - 1 /\ UNCHANGED payload
    BY <1>3 DEF Connect, Become
  <2>2. /\ DOMAIN new = WriterFields /\ new.pc = "send" /\ new.held = writer[w].held + 1
        /\ new.node = writer[w].node /\ new.plan = writer[w].plan /\ new.path = writer[w].path
    BY <1>1, <2>1 DEF WriterFields
  <2> HIDE DEF new
  <2>3. HoldsOK(new)
    BY <1>1, <2>1, <2>2 DEF HoldsOK
  <2>4. Out(writer[w]) = writer[w].held /\ Out(new) = writer[w].held + 1
    BY <1>1, <2>1, <2>2 DEF Out
  <2>5. free' \in Nat /\ free' = free + Out(writer[w]) - Out(new)
    BY <1>1, <1>2, <2>1, <2>4
  <2> QED  BY <1>2, <2>1, <2>3, <2>5, StepKept
<1>4. CASE ThrowEarly(w) \/ Sent(w)
  <2>1. PICK pc \in {"failed", "done"} :
          /\ writer[w].pc = "send" /\ UNCHANGED payload /\ free' = free + writer[w].held
          /\ writer' = [writer EXCEPT ![w] = [writer[w] EXCEPT !.pc = pc, !.held = 0]]
    BY <1>4 DEF ThrowEarly, Sent, Fail, Become, InTransaction
  <2> DEFINE new == [writer[w] EXCEPT !.pc = pc, !.held = 0]
  <2>2. /\ DOMAIN new = WriterFields /\ new.pc = pc /\ new.held = 0
        /\ new.node = writer[w].node /\ new.plan = writer[w].plan
    BY <1>1 DEF WriterFields
  <2>3. writer' = [writer EXCEPT ![w] = new]
    BY <2>1
  <2> HIDE DEF new
  <2>4. HoldsOK(new)
    BY <1>1, <2>1, <2>2 DEF HoldsOK
  <2>5. Out(writer[w]) = writer[w].held /\ Out(new) = 0
    BY <1>1, <2>1, <2>2 DEF Out
  <2>6. free' \in Nat /\ free' = free + Out(writer[w]) - Out(new)
    BY <1>1, <1>2, <2>1, <2>5
  <2> QED  BY <1>2, <2>1, <2>3, <2>4, <2>6, StepKept
<1>5. CASE Acquire(w)
  <2> DEFINE new == [writer[w] EXCEPT !.pc = "query"]
  <2>1. /\ writer[w].pc = "send" /\ free > 0
        /\ writer' = [writer EXCEPT ![w] = new] /\ free' = free - 1 /\ UNCHANGED payload
    BY <1>5 DEF Acquire, Become, InTransaction
  <2>2. /\ DOMAIN new = WriterFields /\ new.pc = "query" /\ new.held = writer[w].held
        /\ new.node = writer[w].node /\ new.plan = writer[w].plan /\ new.path = writer[w].path
    BY <1>1 DEF WriterFields
  <2> HIDE DEF new
  <2>3. HoldsOK(new)
    BY <1>1, <2>1, <2>2 DEF HoldsOK
  <2>4. Out(writer[w]) = writer[w].held /\ Out(new) = writer[w].held + 1
    BY <1>1, <2>1, <2>2 DEF Out
  <2>5. free' \in Nat /\ free' = free + Out(writer[w]) - Out(new)
    BY <1>1, <1>2, <2>1, <2>4
  <2> QED  BY <1>2, <2>1, <2>3, <2>5, StepKept
<1>6. CASE QueryOk(w)
  <2> DEFINE new == [writer[w] EXCEPT !.pc = "send", !.next = @ + 1]
  <2>1. /\ writer[w].pc = "query"
        /\ writer' = [writer EXCEPT ![w] = new] /\ free' = free + 1 /\ UNCHANGED payload
    BY <1>6 DEF QueryOk, Become
  <2>2. /\ DOMAIN new = WriterFields /\ new.pc = "send" /\ new.held = writer[w].held
        /\ new.node = writer[w].node /\ new.plan = writer[w].plan /\ new.path = writer[w].path
    BY <1>1 DEF WriterFields
  <2> HIDE DEF new
  <2>3. HoldsOK(new)
    BY <1>1, <2>1, <2>2 DEF HoldsOK
  <2>4. Out(writer[w]) = writer[w].held + 1 /\ Out(new) = writer[w].held
    BY <1>1, <2>1, <2>2 DEF Out
  <2>5. free' \in Nat /\ free' = free + Out(writer[w]) - Out(new)
    BY <1>1, <1>2, <2>1, <2>4
  <2> QED  BY <1>2, <2>1, <2>3, <2>5, StepKept
<1>7. CASE QueryError(w) /\ writer[w].path = "calcite"
  <2>1. PICK plan : plan = ManualStatements(P(w), writer[w].rows)
    OBVIOUS
  <2> DEFINE new == [writer[w] EXCEPT !.pc = "send", !.path = "manual", !.next = 1, !.plan = plan]
  <2>2. /\ writer[w].pc = "query"
        /\ writer' = [writer EXCEPT ![w] = new] /\ free' = free + 1 /\ UNCHANGED payload
    BY <1>7, <2>1 DEF QueryError, Become
  <2>3. PlanOK(plan)
    BY <2>1, <2>2, ModeKnown, ManualOK
  <2>4. /\ DOMAIN new = WriterFields /\ new.pc = "send" /\ new.held = writer[w].held
        /\ new.node = writer[w].node /\ new.plan = plan /\ new.path = "manual"
    BY <1>1 DEF WriterFields
  <2> HIDE DEF new
  <2>5. writer[w].held = 0
    BY <1>1, <1>7, <2>2 DEF HoldsOK
  <2>6. HoldsOK(new)
    BY <1>1, <2>2, <2>3, <2>4, <2>5 DEF HoldsOK, PlanOK
  <2>7. Out(writer[w]) = 1 /\ Out(new) = 0
    BY <2>2, <2>4, <2>5 DEF Out
  <2>8. free' \in Nat /\ free' = free + Out(writer[w]) - Out(new)
    BY <1>2, <2>2, <2>7
  <2> QED  BY <1>2, <2>2, <2>6, <2>8, StepKept
<1>8. CASE QueryError(w) /\ writer[w].path # "calcite"
  <2> DEFINE new == [writer[w] EXCEPT !.pc = "failed", !.held = 0]
  <2>1. /\ writer[w].pc = "query" /\ UNCHANGED payload
        /\ writer' = [writer EXCEPT ![w] = new] /\ free' = free + 1 + writer[w].held
    BY <1>8 DEF QueryError, Become
  <2>2. /\ DOMAIN new = WriterFields /\ new.pc = "failed" /\ new.held = 0
        /\ new.node = writer[w].node /\ new.plan = writer[w].plan
    BY <1>1 DEF WriterFields
  <2> HIDE DEF new
  <2>3. HoldsOK(new)
    BY <1>1, <2>1, <2>2 DEF HoldsOK
  <2>4. Out(writer[w]) = writer[w].held + 1 /\ Out(new) = 0
    BY <1>1, <2>1, <2>2 DEF Out
  <2>5. free' \in Nat /\ free' = free + Out(writer[w]) - Out(new)
    BY <1>1, <1>2, <2>1, <2>4
  <2> QED  BY <1>2, <2>1, <2>3, <2>5, StepKept
<1> QED  BY <1>3, <1>4, <1>5, <1>6, <1>7, <1>8

\* The end of an execution, and pipelines that only read.
LEMMA EndStep ==
    ASSUME PoolInv, NEW w \in Writer, FinishOk(w) \/ FinishFailed(w) \/ QueryEnds(w)
    PROVE  PoolInv'
<1>1. HoldsOK(writer[w]) /\ DOMAIN writer[w] = WriterFields
  BY OwnFacts
<1>2. /\ writer[w].pc \in {"done", "failed", "idle"} /\ UNCHANGED <<payload, free>>
      /\ \E n : writer' = [writer EXCEPT ![w] = [Idle EXCEPT !.runs = n]]
                    \/ /\ writer[w].pc = "idle"
                       /\ writer' = [writer EXCEPT ![w] = [writer[w] EXCEPT !.runs = n]]
  BY DEF FinishOk, FinishFailed, QueryEnds, Become
<1>3. PICK n : writer' = [writer EXCEPT ![w] = [Idle EXCEPT !.runs = n]]
                 \/ /\ writer[w].pc = "idle"
                    /\ writer' = [writer EXCEPT ![w] = [writer[w] EXCEPT !.runs = n]]
  BY <1>2
<1>4. writer[w].held = 0 /\ Out(writer[w]) = 0
  BY <1>1, <1>2 DEF HoldsOK, Out
<1>5. PayloadsOK' /\ free \in Nat
  BY <1>2 DEF PoolInv, PayloadsOK
<1>6. ASSUME NEW new, HoldsOK(new), new.pc = "idle", writer' = [writer EXCEPT ![w] = new]
      PROVE  PoolInv'
  <2>1. Out(new) = 0
    BY <1>6 DEF HoldsOK, Out
  <2>2. free' \in Nat /\ free' = free + Out(writer[w]) - Out(new)
    BY <1>2, <1>4, <1>5, <2>1
  <2> QED  BY <1>5, <1>6, <2>2, StepKept
<1>7. CASE writer' = [writer EXCEPT ![w] = [Idle EXCEPT !.runs = n]]
  <2> DEFINE new == [Idle EXCEPT !.runs = n]
  <2>1. DOMAIN new = WriterFields /\ new.pc = "idle" /\ new.held = 0 /\ new.plan = Throw
    BY DEF Idle, WriterFields
  <2>2. writer' = [writer EXCEPT ![w] = new]
    BY <1>7
  <2> HIDE DEF new
  <2>3. HoldsOK(new)
    BY <2>1, ThrowOK DEF HoldsOK
  <2> QED  BY <1>6, <2>1, <2>2, <2>3
<1>8. CASE /\ writer[w].pc = "idle"
           /\ writer' = [writer EXCEPT ![w] = [writer[w] EXCEPT !.runs = n]]
  <2> DEFINE new == [writer[w] EXCEPT !.runs = n]
  <2>1. /\ DOMAIN new = WriterFields /\ new.pc = writer[w].pc /\ new.held = writer[w].held
        /\ new.plan = writer[w].plan
    BY <1>1 DEF WriterFields
  <2>2. writer' = [writer EXCEPT ![w] = new]
    BY <1>8
  <2> HIDE DEF new
  <2>3. HoldsOK(new)
    BY <1>1, <1>8, <2>1 DEF HoldsOK
  <2> QED  BY <1>6, <1>8, <2>1, <2>2, <2>3
<1> QED  BY <1>3, <1>7, <1>8

LEMMA PoolStep ==
    ASSUME PoolInv, [Next]_vars
    PROVE  PoolInv'
<1>1. ASSUME NEW w \in Writer, Start(w) PROVE PoolInv'
  <2>1. /\ writer[w].pc = "idle" /\ UNCHANGED free
        /\ \E n \in Node, rows \in InputRows, up \in Upstream : Begin(w, n, rows, up, 1)
    BY <1>1 DEF Start
  <2> QED  BY <2>1, BeginStep
<1>2. ASSUME NEW w \in Writer, Retry(w) PROVE PoolInv'
  <2>1. /\ writer[w].pc = "failed" /\ UNCHANGED free
        /\ Begin(w, writer[w].node, writer[w].rows, writer[w].up, writer[w].attempt + 1)
    BY <1>2 DEF Retry
  <2>2. writer[w].node \in Node
    BY <2>1, OwnFacts DEF HoldsOK
  <2> QED  BY <2>1, <2>2, BeginStep
<1>3. ASSUME NEW w \in Writer, QueryEnds(w) PROVE PoolInv'
  BY <1>3, EndStep
<1>4. ASSUME NEW w \in Writer, Step(w) PROVE PoolInv'
  BY <1>4, PrepareStep, SendingStep, EndStep DEF Step
<1>5. CASE UNCHANGED <<payload, writer, free>>
  BY <1>5 DEF PoolInv, PayloadsOK, WritersOK, PoolConserved, Leased, Clients
<1>6. CASE CursorExpires
  BY <1>5, <1>6 DEF CursorExpires
<1>7. CASE UNCHANGED vars
  BY <1>5, <1>7 DEF vars
<1> QED  BY <1>1, <1>2, <1>3, <1>4, <1>6, <1>7 DEF Next

LEMMA PoolInit ==
    ASSUME Init
    PROVE  PoolInv
<1>1. PayloadsOK
  BY WriteAssumption DEF Init, PayloadsOK, IsPayload
<1>2. /\ writer = [w \in Writer |-> Idle] /\ free = PoolMax /\ PoolMax \in Nat
  BY WriteAssumption DEF Init
<1>3. DOMAIN Idle = WriterFields /\ Idle.pc = "idle" /\ Idle.held = 0 /\ Idle.plan = Throw
  BY DEF Idle, WriterFields
<1>4. HoldsOK(Idle)
  BY <1>3, ThrowOK DEF HoldsOK
<1>5. WritersOK
  BY <1>2, <1>4 DEF WritersOK
<1>6. Leased = {}
  <2>1. \A w \in Writer : Clients(w) = 0
    BY <1>2, <1>3 DEF Clients
  <2>2. SUFFICES ASSUME NEW w \in Writer, NEW x \in {w} \X (1..Clients(w)) PROVE FALSE
    BY Zenon DEF Leased
  <2>3. x[2] \in 1..Clients(w)
    BY PairParts
  <2> QED  BY <2>1, <2>3
<1>7. PoolConserved
  BY <1>2, <1>6, FS_EmptySet DEF PoolConserved
<1> QED  BY <1>1, <1>2, <1>5, <1>7 DEF PoolInv

\* When no client is free and every execution waits, what is out is not more
\* than the transactions of the executions that send.
LEMMA NoCircle ==
    ASSUME PoolInv
    PROVE  NoCircularWait
<1> DEFINE Most == UNION {{w} \X (1..writer[w].plan.tx) : w \in {v \in Writer : Sending(v)}}
<1>1. SUFFICES ASSUME Cardinality(Most) < PoolMax, free = 0,
                      \A w \in Writer : writer[w].pc = "idle" \/ Waiting(w)
               PROVE  FALSE
  BY DEF NoCircularWait, PoolSuffices
<1>2. ASSUME NEW w \in Writer
      PROVE  \/ Clients(w) = 0
             \/ Sending(w) /\ Clients(w) \in Nat /\ writer[w].plan.tx \in Nat /\ Clients(w) <= writer[w].plan.tx
  <2>1. HoldsOK(writer[w])
    BY OwnFacts
  <2>2. CASE writer[w].pc \in {"idle", "fk"}
    BY <2>1, <2>2 DEF HoldsOK, Clients
  <2>3. CASE writer[w].pc \notin {"idle", "fk"}
    <3>1. writer[w].pc = "send"
      BY <1>1, <2>3 DEF Waiting
    <3>2. /\ Clients(w) = writer[w].held /\ writer[w].held \in Nat
          /\ writer[w].held <= writer[w].plan.tx /\ writer[w].plan.tx \in 0..2
          /\ writer[w].plan.ok \in BOOLEAN /\ (~writer[w].plan.ok => writer[w].plan.tx <= 1)
      BY <2>1, <3>1 DEF Clients, HoldsOK, PlanOK
    <3>3. CASE writer[w].plan.ok
      BY <3>1, <3>2, <3>3 DEF Sending
    <3>4. CASE ~writer[w].plan.ok
      <4>1. writer[w].held < writer[w].plan.tx
        BY <1>1, <3>1, <3>4 DEF Waiting
      <4> QED  BY <3>2, <3>4, <4>1
    <3> QED  BY <3>2, <3>3, <3>4
  <2> QED  BY <2>2, <2>3
<1>3. Leased \subseteq Most
  <2>1. SUFFICES ASSUME NEW w \in Writer, NEW x \in {w} \X (1..Clients(w)) PROVE x \in Most
    BY Zenon DEF Leased
  <2>2. x[1] \in {w} /\ x[2] \in 1..Clients(w) /\ x = <<x[1], x[2]>>
    BY PairParts
  <2>3. Sending(w) /\ x[2] \in 1..writer[w].plan.tx
    BY <1>2, <2>2
  <2>4. x \in {w} \X (1..writer[w].plan.tx)
    BY <2>2, <2>3
  <2> QED  BY <2>3, <2>4, Zenon
<1>4. IsFiniteSet(Most)
  <2>1. IsFiniteSet(Writer \X (1..2))
    <3>1. IsFiniteSet(1..2)
      <4>1. 1 \in Int /\ 2 \in Int
        OBVIOUS
      <4> QED  BY <4>1, FS_Interval, Zenon
    <3>2. IsFiniteSet(Writer)
      BY WriteAssumption
    <3> QED  BY <3>1, <3>2, FS_Product
  <2>2. Most \subseteq Writer \X (1..2)
    <3>1. SUFFICES ASSUME NEW w \in Writer, NEW x \in {w} \X (1..writer[w].plan.tx)
                   PROVE  x \in Writer \X (1..2)
      BY Zenon
    <3>2. x[1] \in {w} /\ x[2] \in 1..writer[w].plan.tx /\ x = <<x[1], x[2]>>
      BY PairParts
    <3>3. writer[w].plan.tx \in 0..2
      BY OwnFacts DEF HoldsOK, PlanOK
    <3>4. x[1] \in Writer /\ x[2] \in 1..2
      BY <3>2, <3>3
    <3> QED  BY <3>2, <3>4
  <2> QED  BY <2>1, <2>2, FS_Subset
<1> HIDE DEF Most
<1>5. /\ Cardinality(Leased) <= Cardinality(Most) /\ Cardinality(Most) \in Nat
      /\ Cardinality(Leased) \in Nat
  <2>1. IsFiniteSet(Leased) /\ Cardinality(Leased) <= Cardinality(Most)
    BY <1>3, <1>4, FS_Subset
  <2> QED  BY <1>4, <2>1, FS_CardinalityType
<1>6. Cardinality(Leased) = PoolMax /\ PoolMax \in Nat
  BY <1>1, <1>5, WriteAssumption DEF PoolInv, PoolConserved
<1> QED  BY <1>1, <1>5, <1>6

\* The pool's accounts are right in every state of the write nodes.
THEOREM PoolInvariance == Spec => []PoolInv
<1>1. Init => PoolInv
  BY PoolInit
<1>2. PoolInv /\ [Next]_vars => PoolInv'
  BY PoolStep
<1> QED  BY <1>1, <1>2, PTL DEF Spec

\* transaction() and rawQuery() on one pool, for any number of executions, any
\* pool and any payloads: no client is lost, whatever fails and is retried, and
\* nobody waits in a circle while the pool has one client more than the open
\* transactions can hold.
THEOREM PoolStaysSound == Spec => []PoolSound
<1>1. PoolInv => PoolSound
  BY NoCircle DEF PoolSound, PoolInv
<1> QED  BY <1>1, PoolInvariance, PTL

-----------------------------------------------------------------------------
(* Lists, and what a filter keeps of them.                                 *)

\* A set of numbers that is not empty has a least one (the form of induction
\* used below along a sequence).
LEMMA LeastNat ==
    ASSUME NEW T, T \subseteq Nat, T # {}
    PROVE  \E x \in T : \A y \in T : x <= y
<1>1. IsWellFoundedOn(OpToRel(<, Nat), Nat)
  BY NatLessThanWellFounded
<1>2. PICK R : R = OpToRel(<, Nat)
  OBVIOUS
<1>3. PICK x \in T : \A y \in T : ~(<<y, x>> \in R)
  BY <1>1, <1>2, WFMin, Zenon
<1>4. ASSUME NEW y \in T PROVE x <= y
  <2>1. x \in Nat /\ y \in Nat
    OBVIOUS
  <2>2. y < x => <<y, x>> \in R
    BY <1>2, <2>1 DEF OpToRel
  <2>3. ~(y < x)
    BY <1>3, <2>2
  <2> QED  BY <2>1, <2>3
<1> QED  BY <1>4

\* The same from below: what holds of 0 and of i + 1 with i holds up to n.
LEMMA UpTo ==
    ASSUME NEW n \in Nat, NEW T, 0 \in T,
           \A i \in Nat : i < n /\ i \in T => i + 1 \in T
    PROVE  \A i \in 0..n : i \in T
<1> DEFINE Bad == {i \in 0..n : i \notin T}
<1>1. SUFFICES ASSUME Bad # {} PROVE FALSE
  OBVIOUS
<1>2. Bad \subseteq Nat
  OBVIOUS
<1>3. PICK m \in Bad : \A y \in Bad : m <= y
  <2> HIDE DEF Bad
  <2> QED  BY <1>1, <1>2, LeastNat
<1>4. m \in 0..n /\ m \notin T /\ m # 0
  OBVIOUS
<1>5. m - 1 \in Nat /\ m - 1 < n /\ ~(m <= m - 1) /\ (m - 1) + 1 = m
  BY <1>4
<1>6. m - 1 \in T
  BY <1>3, <1>5
<1> QED  BY <1>4, <1>5, <1>6

-----------------------------------------------------------------------------
(* Array.filter.                                                           *)

\* f gives what is kept of each of the first n elements.
IsFiltering(f, s, S, n) ==
    f = [i \in 0..n |-> IF i = 0 THEN <<>>
                        ELSE IF s[i] \in S THEN Append(f[i - 1], s[i]) ELSE f[i - 1]]

\* Such a function exists (the recursion of Filter, unfolded at once for all n).
LEMMA FilteringExists ==
    ASSUME NEW s, NEW S, NEW n \in Nat
    PROVE  \E f : IsFiltering(f, s, S, n)
<1> DEFINE T == {k \in Nat : \E f : IsFiltering(f, s, S, k)}
<1>1. 0 \in T
  <2> DEFINE f == [i \in 0..0 |-> <<>>]
  <2>1. f = [i \in 0..0 |-> IF i = 0 THEN <<>>
                        ELSE IF s[i] \in S THEN Append(f[i - 1], s[i]) ELSE f[i - 1]]
    <3>1. \A i \in 0..0 : i = 0
      OBVIOUS
    <3> QED  BY <3>1
  <2> HIDE DEF f
  <2>2. IsFiltering(f, s, S, 0)
    BY <2>1 DEF IsFiltering
  <2> QED  BY <2>2
<1>2. ASSUME NEW m \in Nat, m \in T PROVE m + 1 \in T
  <2>1. PICK f : IsFiltering(f, s, S, m)
    BY <1>2
  <2> DEFINE g == [i \in 0..m + 1 |->
                     IF i = m + 1
                     THEN IF s[m + 1] \in S THEN Append(f[m], s[m + 1]) ELSE f[m]
                     ELSE f[i]]
  <2>2. \A i \in 0..m : f[i] = IF i = 0 THEN <<>>
                        ELSE IF s[i] \in S THEN Append(f[i - 1], s[i]) ELSE f[i - 1]
    BY <2>1, Zenon DEF IsFiltering
  <2>3. ASSUME NEW i \in 0..m + 1
        PROVE  g[i] = IF i = 0 THEN <<>>
                      ELSE IF s[i] \in S THEN Append(g[i - 1], s[i]) ELSE g[i - 1]
    <3>1. CASE i = m + 1
      <4>1. g[i - 1] = f[m] /\ i - 1 = m /\ i # 0
        BY <3>1
      <4> QED  BY <3>1, <4>1
    <3>2. CASE i \in 0..m /\ i # 0
      <4>1. g[i - 1] = f[i - 1] /\ g[i] = f[i]
        BY <3>2
      <4> QED  BY <2>2, <3>2, <4>1
    <3>3. CASE i = 0
      <4>1. g[i] = f[i] /\ i \in 0..m
        BY <3>3
      <4> QED  BY <2>2, <3>3, <4>1
    <3> QED  BY <3>1, <3>2, <3>3
  <2>4. g = [i \in 0..m + 1 |-> IF i = 0 THEN <<>>
                        ELSE IF s[i] \in S THEN Append(g[i - 1], s[i]) ELSE g[i - 1]]
    BY <2>3
  <2> HIDE DEF g
  <2>5. IsFiltering(g, s, S, m + 1)
    BY <2>4, Zenon DEF IsFiltering
  <2> QED  BY <2>5
<1> HIDE DEF T
<1>3. \A i \in 0..n : i \in T
  BY <1>1, <1>2, UpTo
<1>4. n \in T
  BY <1>3
<1> QED  BY <1>4 DEF T

\* Filter is that function at the length of its list.
LEMMA FilterIs ==
    ASSUME NEW s, NEW S, Len(s) \in Nat
    PROVE  \E f : IsFiltering(f, s, S, Len(s)) /\ Filter(s, S) = f[Len(s)]
<1> DEFINE F == CHOOSE f : f = [i \in 0..Len(s) |-> IF i = 0 THEN <<>>
                      ELSE IF s[i] \in S THEN Append(f[i - 1], s[i]) ELSE f[i - 1]]
<1>1. \E f : f = [i \in 0..Len(s) |-> IF i = 0 THEN <<>>
                      ELSE IF s[i] \in S THEN Append(f[i - 1], s[i]) ELSE f[i - 1]]
  <2>1. \E f : IsFiltering(f, s, S, Len(s))
    BY FilteringExists, Zenon
  <2> QED  BY <2>1, Zenon DEF IsFiltering
<1>2. F = [i \in 0..Len(s) |-> IF i = 0 THEN <<>>
                      ELSE IF s[i] \in S THEN Append(F[i - 1], s[i]) ELSE F[i - 1]]
  BY <1>1, Zenon
<1>3. Filter(s, S) = F[Len(s)]
  BY Zenon DEF Filter
<1> HIDE DEF F
<1> QED  BY <1>2, <1>3, Zenon DEF IsFiltering

\* How many of the first i elements are kept.
Kept(s, S, i) == {j \in 1..i : s[j] \in S}
Rank(s, S, i) == Cardinality(Kept(s, S, i))

\* Nothing is kept of the first 0 elements.
LEMMA RankZero ==
    ASSUME NEW s, NEW S
    PROVE  Rank(s, S, 0) = 0
<1>1. Kept(s, S, 0) = {}
  BY DEF Kept
<1> QED  BY <1>1, FS_EmptySet DEF Rank

\* Ranks grow by one at a kept element and by none elsewhere.
LEMMA RankFacts ==
    ASSUME NEW s, NEW S, NEW i \in Nat
    PROVE  /\ Rank(s, S, i) \in Nat
           /\ Rank(s, S, i + 1) = Rank(s, S, i) + (IF s[i + 1] \in S THEN 1 ELSE 0)
<1>1. IsFiniteSet(1..i)
  <2>1. 1 \in Int /\ i \in Int
    OBVIOUS
  <2> QED  BY <2>1, FS_Interval, Zenon
<1>2. IsFiniteSet(Kept(s, S, i))
  <2>1. Kept(s, S, i) \subseteq 1..i
    BY DEF Kept
  <2> QED  BY <1>1, <2>1, FS_Subset
<1>3. Rank(s, S, i) \in Nat
  BY <1>2, FS_CardinalityType DEF Rank
<1>4. CASE s[i + 1] \in S
  <2>1. Kept(s, S, i + 1) = Kept(s, S, i) \cup {i + 1} /\ i + 1 \notin Kept(s, S, i)
    BY <1>4 DEF Kept
  <2>2. Cardinality(Kept(s, S, i) \cup {i + 1}) = Cardinality(Kept(s, S, i)) + 1
    BY <1>2, <2>1, FS_AddElement
  <2> QED  BY <1>3, <1>4, <2>1, <2>2 DEF Rank
<1>5. CASE s[i + 1] \notin S
  <2>1. Kept(s, S, i + 1) = Kept(s, S, i)
    <3>1. ASSUME NEW j \in 1..(i + 1), s[j] \in S PROVE j \in 1..i
      <4>1. j # i + 1
        BY <1>5, <3>1
      <4> QED  BY <4>1
    <3> QED  BY <3>1 DEF Kept
  <2> QED  BY <1>3, <1>5, <2>1 DEF Rank
<1> QED  BY <1>3, <1>4, <1>5

\* r is what a filter keeps of the first n elements of s.
KeptOf(r, s, S, n, T) ==
    /\ r \in Seq(T)
    /\ Len(r) = Rank(s, S, n)
    /\ \A j \in 1..n : s[j] \in S => Rank(s, S, j) \in 1..Len(r) /\ r[Rank(s, S, j)] = s[j]
    /\ \A k \in 1..Len(r) : \E j \in 1..n : s[j] \in S /\ Rank(s, S, j) = k /\ r[k] = s[j]

\* One element more.
LEMMA KeptOfNext ==
    ASSUME NEW s, NEW S, NEW T, NEW n \in Nat, NEW r, KeptOf(r, s, S, n, T), s[n + 1] \in T
    PROVE  KeptOf(IF s[n + 1] \in S THEN Append(r, s[n + 1]) ELSE r, s, S, n + 1, T)
<1>1. /\ r \in Seq(T) /\ Len(r) = Rank(s, S, n) /\ Len(r) \in Nat
      /\ \A j \in 1..n : s[j] \in S => Rank(s, S, j) \in 1..Len(r) /\ r[Rank(s, S, j)] = s[j]
      /\ \A k \in 1..Len(r) : \E j \in 1..n : s[j] \in S /\ Rank(s, S, j) = k /\ r[k] = s[j]
  BY DEF KeptOf
<1>2. Rank(s, S, n + 1) = Len(r) + (IF s[n + 1] \in S THEN 1 ELSE 0)
  BY <1>1, RankFacts
<1>3. \A j \in 1..(n + 1) : j \in 1..n \/ j = n + 1
  OBVIOUS
<1>4. CASE s[n + 1] \in S
  <2> DEFINE q == Append(r, s[n + 1])
  <2>1. /\ q \in Seq(T) /\ Len(q) = Len(r) + 1 /\ q[Len(r) + 1] = s[n + 1]
        /\ \A k \in 1..Len(r) : q[k] = r[k]
    BY <1>1
  <2> HIDE DEF q
  <2>2. ASSUME NEW j \in 1..(n + 1), s[j] \in S
        PROVE  Rank(s, S, j) \in 1..Len(q) /\ q[Rank(s, S, j)] = s[j]
    <3>1. CASE j \in 1..n
      <4>1. Rank(s, S, j) \in 1..Len(r) /\ r[Rank(s, S, j)] = s[j]
        BY <1>1, <2>2, <3>1
      <4> QED  BY <1>1, <2>1, <4>1
    <3>2. CASE j = n + 1
      <4>1. Rank(s, S, j) = Len(r) + 1
        BY <1>2, <1>4, <3>2
      <4> QED  BY <1>1, <2>1, <3>2, <4>1
    <3> QED  BY <1>3, <3>1, <3>2
  <2>3. ASSUME NEW k \in 1..Len(q)
        PROVE  \E j \in 1..(n + 1) : s[j] \in S /\ Rank(s, S, j) = k /\ q[k] = s[j]
    <3>1. CASE k = Len(r) + 1
      <4>1. n + 1 \in 1..(n + 1) /\ Rank(s, S, n + 1) = k /\ q[k] = s[n + 1]
        BY <1>2, <1>4, <2>1, <3>1
      <4> QED  BY <1>4, <4>1
    <3>2. CASE k \in 1..Len(r)
      <4>1. PICK j \in 1..n : s[j] \in S /\ Rank(s, S, j) = k /\ r[k] = s[j]
        BY <1>1, <3>2
      <4>2. j \in 1..(n + 1) /\ q[k] = r[k]
        BY <2>1, <3>2
      <4> QED  BY <4>1, <4>2
    <3> QED  BY <1>1, <2>1, <3>1, <3>2
  <2>4. Len(q) = Rank(s, S, n + 1)
    BY <1>2, <1>4, <2>1
  <2>5. KeptOf(q, s, S, n + 1, T)
    BY <2>1, <2>2, <2>3, <2>4 DEF KeptOf
  <2> QED  BY <1>4, <2>5 DEF q
<1>5. CASE s[n + 1] \notin S
  <2>1. Len(r) = Rank(s, S, n + 1)
    BY <1>1, <1>2, <1>5
  <2>2. ASSUME NEW j \in 1..(n + 1), s[j] \in S
        PROVE  Rank(s, S, j) \in 1..Len(r) /\ r[Rank(s, S, j)] = s[j]
    <3>1. j \in 1..n
      BY <1>3, <1>5, <2>2
    <3> QED  BY <1>1, <2>2, <3>1
  <2>3. ASSUME NEW k \in 1..Len(r)
        PROVE  \E j \in 1..(n + 1) : s[j] \in S /\ Rank(s, S, j) = k /\ r[k] = s[j]
    <3>1. PICK j \in 1..n : s[j] \in S /\ Rank(s, S, j) = k /\ r[k] = s[j]
      BY <1>1
    <3>2. j \in 1..(n + 1)
      OBVIOUS
    <3> QED  BY <3>1, <3>2
  <2>4. KeptOf(r, s, S, n + 1, T)
    BY <1>1, <2>1, <2>2, <2>3 DEF KeptOf
  <2> QED  BY <1>5, <2>4
<1> QED  BY <1>4, <1>5

\* What a filter returns: exactly the elements in S, each at its rank.
LEMMA FilterKeeps ==
    ASSUME NEW T, NEW s \in Seq(T), NEW S
    PROVE  KeptOf(Filter(s, S), s, S, Len(s), T)
<1>1. Len(s) \in Nat /\ \A i \in 1..Len(s) : s[i] \in T
  OBVIOUS
<1>2. PICK f : IsFiltering(f, s, S, Len(s)) /\ Filter(s, S) = f[Len(s)]
  BY <1>1, FilterIs
<1>3. \A i \in 0..Len(s) : f[i] = IF i = 0 THEN <<>>
                        ELSE IF s[i] \in S THEN Append(f[i - 1], s[i]) ELSE f[i - 1]
  BY <1>2, Zenon DEF IsFiltering
<1> DEFINE D == {i \in Nat : KeptOf(f[i], s, S, i, T)}
<1>4. 0 \in D
  <2>1. f[0] = <<>> /\ Rank(s, S, 0) = 0
    <3>1. 0 \in 0..Len(s)
      BY <1>1
    <3> QED  BY <1>3, <3>1, RankZero
  <2>2. KeptOf(f[0], s, S, 0, T)
    BY <2>1 DEF KeptOf
  <2> QED  BY <2>2
<1>5. ASSUME NEW i \in Nat, i < Len(s), i \in D PROVE i + 1 \in D
  <2>1. i + 1 \in 0..Len(s) /\ i + 1 \in 1..Len(s) /\ i + 1 # 0 /\ (i + 1) - 1 = i
    BY <1>1, <1>5
  <2>2. f[i + 1] = IF s[i + 1] \in S THEN Append(f[i], s[i + 1]) ELSE f[i]
    BY <1>3, <2>1
  <2>3. s[i + 1] \in T
    BY <1>1, <2>1
  <2>4. KeptOf(f[i], s, S, i, T)
    BY <1>5
  <2>5. KeptOf(f[i + 1], s, S, i + 1, T)
    <3>1. KeptOf(IF s[i + 1] \in S THEN Append(f[i], s[i + 1]) ELSE f[i], s, S, i + 1, T)
      BY <2>3, <2>4, KeptOfNext, Zenon
    <3> QED  BY <2>2, <3>1, Zenon
  <2> QED  BY <2>5
<1> HIDE DEF D
<1>6. \A i \in 0..Len(s) : i \in D
  BY <1>1, <1>4, <1>5, UpTo
<1>7. Len(s) \in D
  BY <1>1, <1>6
<1> QED  BY <1>2, <1>7 DEF D

\* As sets: a filter is an intersection.
LEMMA FilterSet ==
    ASSUME NEW T, NEW s \in Seq(T), NEW S
    PROVE  /\ Filter(s, S) \in Seq(T)
           /\ ToSet(Filter(s, S)) = ToSet(s) \cap S
           /\ Len(Filter(s, S)) \in Nat
           /\ DOMAIN Filter(s, S) = 1..Len(Filter(s, S))
<1> DEFINE r == Filter(s, S)
<1>1. KeptOf(r, s, S, Len(s), T)
  BY FilterKeeps
<1> HIDE DEF r
<1>2. r \in Seq(T) /\ DOMAIN r = 1..Len(r) /\ Len(r) \in Nat /\ DOMAIN s = 1..Len(s)
  BY <1>1 DEF KeptOf
<1>3. ToSet(r) \subseteq ToSet(s) \cap S
  <2>1. ASSUME NEW k \in DOMAIN r PROVE r[k] \in ToSet(s) \cap S
    <3>1. PICK j \in 1..Len(s) : s[j] \in S /\ r[k] = s[j]
      BY <1>1, <1>2 DEF KeptOf
    <3> QED  BY <1>2, <3>1 DEF ToSet
  <2> QED  BY <2>1 DEF ToSet
<1>4. ToSet(s) \cap S \subseteq ToSet(r)
  <2>1. ASSUME NEW j \in DOMAIN s, s[j] \in S PROVE s[j] \in ToSet(r)
    <3>1. Rank(s, S, j) \in DOMAIN r /\ r[Rank(s, S, j)] = s[j]
      BY <1>1, <1>2, <2>1 DEF KeptOf
    <3> QED  BY <3>1, Zenon DEF ToSet
  <2> QED  BY <2>1 DEF ToSet
<1> QED  BY <1>2, <1>3, <1>4 DEF r

-----------------------------------------------------------------------------
(* Placeholders and parameters.                                            *)

\* Any sequence.
IsList(L) == L \in Seq(ToSet(L))

\* The entries of a list that are placeholders.
ParamEntries(L) == {e \in ToSet(L) : e.how = "param"}

\* The parameters among the first i entries.
ParamRank(L, i) == Cardinality({j \in 1..i : L[j].how = "param"})

\* Len, DOMAIN and the elements of a list.
LEMMA ListFacts ==
    ASSUME NEW L, IsList(L)
    PROVE  /\ Len(L) \in Nat /\ DOMAIN L = 1..Len(L)
           /\ \A i \in DOMAIN L : L[i] \in ToSet(L)
BY DEF IsList

\* A function on 1..n is a list.
LEMMA ListOf ==
    ASSUME NEW n \in Nat, NEW L, L = [i \in 1..n |-> L[i]]
    PROVE  IsList(L) /\ Len(L) = n /\ DOMAIN L = 1..n
<1>1. DOMAIN L = 1..n
  BY Zenon
<1>2. \A i \in 1..n : L[i] \in ToSet(L)
  BY <1>1, Zenon DEF ToSet
<1>3. L \in [1..n -> ToSet(L)]
  BY <1>2, Zenon
<1>4. L \in Seq(ToSet(L))
  BY <1>3
<1> QED  BY <1>1, <1>4 DEF IsList

\* The rank of an entry among the placeholders of its list.
LEMMA ParamRankIs ==
    ASSUME NEW L, IsList(L), NEW i \in 0..Len(L)
    PROVE  ParamRank(L, i) = Rank(L, ParamEntries(L), i)
<1>1. \A j \in 1..i : j \in DOMAIN L
  BY ListFacts
<1>2. {j \in 1..i : L[j].how = "param"} = Kept(L, ParamEntries(L), i)
  <2>1. ASSUME NEW j \in 1..i PROVE L[j].how = "param" <=> L[j] \in ParamEntries(L)
    <3>1. L[j] \in ToSet(L)
      BY <1>1, ListFacts
    <3> QED  BY <3>1 DEF ParamEntries
  <2> QED  BY <2>1, Zenon DEF Kept
<1> QED  BY <1>2 DEF ParamRank, Rank

\* It grows by one at a placeholder and by none elsewhere.
LEMMA ParamRankFacts ==
    ASSUME NEW L, IsList(L), NEW i \in Nat, i < Len(L)
    PROVE  /\ ParamRank(L, 0) = 0
           /\ ParamRank(L, i) \in Nat
           /\ ParamRank(L, i + 1) = ParamRank(L, i) + (IF L[i + 1].how = "param" THEN 1 ELSE 0)
<1>1. Len(L) \in Nat /\ 0 \in 0..Len(L) /\ i \in 0..Len(L) /\ i + 1 \in 0..Len(L) /\ i + 1 \in DOMAIN L
  BY ListFacts
<1>2. L[i + 1] \in ParamEntries(L) <=> L[i + 1].how = "param"
  BY <1>1, ListFacts DEF ParamEntries
<1>3. /\ Rank(L, ParamEntries(L), i) \in Nat
      /\ Rank(L, ParamEntries(L), 0) = 0
      /\ Rank(L, ParamEntries(L), i + 1)
           = Rank(L, ParamEntries(L), i) + (IF L[i + 1] \in ParamEntries(L) THEN 1 ELSE 0)
  <2> DEFINE S == ParamEntries(L)
  <2> HIDE DEF S
  <2>1. Rank(L, S, i) \in Nat /\ Rank(L, S, i + 1) = Rank(L, S, i) + (IF L[i + 1] \in S THEN 1 ELSE 0)
    BY ONLY RankFacts, i \in Nat, SMT
  <2>2. Rank(L, ParamEntries(L), 0) = 0
    BY RankZero
  <2> QED  BY <2>1, <2>2, Zenon DEF S
<1>4. \A j \in 0..Len(L) : ParamRank(L, j) = Rank(L, ParamEntries(L), j)
  BY ParamRankIs
<1>5. /\ ParamRank(L, 0) = Rank(L, ParamEntries(L), 0)
      /\ ParamRank(L, i) = Rank(L, ParamEntries(L), i)
      /\ ParamRank(L, i + 1) = Rank(L, ParamEntries(L), i + 1)
  BY <1>1, <1>4
<1> QED  BY <1>2, <1>3, <1>5

\* The parameters of a clause, each at the rank of its entry.
LEMMA ParamsFacts ==
    ASSUME NEW L, IsList(L)
    PROVE  /\ Len(Params(L)) = ParamRank(L, Len(L)) /\ Len(Params(L)) \in Nat
           /\ IsList(ParamVals(L)) /\ Len(ParamVals(L)) = Len(Params(L))
           /\ \A i \in DOMAIN L : L[i].how = "param" =>
                /\ ParamRank(L, i) \in 1..Len(ParamVals(L))
                /\ ParamVals(L)[ParamRank(L, i)] = L[i].val
           /\ \A k \in 1..Len(ParamVals(L)) :
                \E i \in DOMAIN L : L[i].how = "param" /\ ParamRank(L, i) = k
<1> DEFINE r == Params(L)
           S == ParamEntries(L)
           V == ParamVals(L)
<1>1. L \in Seq(ToSet(L)) /\ Len(L) \in Nat /\ DOMAIN L = 1..Len(L)
  BY ListFacts DEF IsList
<1>2. KeptOf(r, L, S, Len(L), ToSet(L))
  BY <1>1, FilterKeeps DEF Params, ParamEntries
<1> HIDE DEF r, S
<1>3. Len(r) \in Nat /\ DOMAIN r = 1..Len(r)
  BY <1>2 DEF KeptOf
<1>4. V = [k \in 1..Len(r) |-> r[k].val]
  BY <1>3 DEF ParamVals, r
<1> HIDE DEF V
<1>5. \A k \in 1..Len(r) : V[k] = r[k].val
  BY <1>4, Zenon
<1>6. IsList(V) /\ Len(V) = Len(r)
  <2>1. V = [k \in 1..Len(r) |-> V[k]]
    BY <1>4, <1>5
  <2> QED  BY <1>3, <2>1, ListOf
<1>7. Len(r) = ParamRank(L, Len(L))
  <2>1. Len(L) \in 0..Len(L)
    BY <1>1
  <2> QED  BY <1>2, <2>1, ParamRankIs DEF KeptOf, S
<1>8. ASSUME NEW i \in DOMAIN L, L[i].how = "param"
      PROVE  ParamRank(L, i) \in 1..Len(V) /\ V[ParamRank(L, i)] = L[i].val
  <2>1. i \in 0..Len(L) /\ i \in 1..Len(L)
    BY <1>1
  <2>2. L[i] \in S
    BY <1>8, ListFacts DEF S, ParamEntries
  <2>3. Rank(L, S, i) \in 1..Len(r) /\ r[Rank(L, S, i)] = L[i]
    BY <1>2, <2>1, <2>2 DEF KeptOf
  <2>4. ParamRank(L, i) = Rank(L, S, i)
    BY <2>1, ParamRankIs DEF S
  <2> QED  BY <1>5, <1>6, <2>3, <2>4
<1>9. ASSUME NEW k \in 1..Len(V)
      PROVE  \E i \in DOMAIN L : L[i].how = "param" /\ ParamRank(L, i) = k
  <2>1. k \in 1..Len(r)
    BY <1>6
  <2>2. PICK i \in 1..Len(L) : L[i] \in S /\ Rank(L, S, i) = k
    BY <1>2, <2>1, Zenon DEF KeptOf
  <2>3. i \in 0..Len(L) /\ i \in DOMAIN L
    BY <1>1
  <2>4. ParamRank(L, i) = k /\ L[i].how = "param"
    BY <2>2, <2>3, ParamRankIs DEF S, ParamEntries
  <2> QED  BY <2>3, <2>4
<1> QED  BY <1>3, <1>6, <1>7, <1>8, <1>9 DEF r, V

\* A list whose placeholders are numbered from off + 1.
Counted(L, off) ==
    /\ IsList(L)
    /\ \A i \in DOMAIN L : L[i].how = "param" => L[i].ph = off + ParamRank(L, i)

\* A clause of n items, numbered from off + 1, that writes each column as said.
IsClause(L, items, n, off) ==
    /\ Counted(L, off) /\ IsList(L) /\ Len(L) = n /\ DOMAIN L = 1..n
    /\ \A i \in 1..n : L[i].col = items[i][1] /\ L[i].val = items[i][2]

\* A clause counts its placeholders from where it starts.
LEMMA ClauseCounted ==
    ASSUME NEW items, NEW n \in Nat, DOMAIN items = 1..n, NEW off, NEW hows
    PROVE  /\ IsClause(Clause(items, off, hows), items, n, off)
           /\ \A i \in 1..n : Clause(items, off, hows)[i].how = hows[i]
<1> DEFINE L == Clause(items, off, hows)
           c(i) == Cardinality({j \in 1..i : hows[j] = "param"})
<1>1. L = [i \in 1..n |-> Entry(items[i][1], hows[i], off + c(i), items[i][2])]
  BY Zenon DEF Clause
<1> HIDE DEF L
<1>2. \A i \in 1..n : L[i] = Entry(items[i][1], hows[i], off + c(i), items[i][2])
  BY <1>1, Zenon
<1>3. IsList(L) /\ Len(L) = n /\ DOMAIN L = 1..n
  <2>1. L = [i \in 1..n |-> L[i]]
    BY <1>1, <1>2
  <2> QED  BY <2>1, ListOf
<1>4. ASSUME NEW i \in 1..n
      PROVE  /\ L[i].col = items[i][1] /\ L[i].how = hows[i] /\ L[i].val = items[i][2]
             /\ L[i].ph = off + c(i)
  <2>1. PICK k : k = off + c(i)
    OBVIOUS
  <2>2. L[i] = Entry(items[i][1], hows[i], k, items[i][2])
    BY <1>2, <2>1
  <2> HIDE DEF c
  <2> QED  BY <2>1, <2>2 DEF Entry
<1>5. ASSUME NEW i \in 1..n PROVE c(i) = ParamRank(L, i)
  <2>1. \A j \in 1..i : j \in 1..n
    OBVIOUS
  <2>2. {j \in 1..i : hows[j] = "param"} = {j \in 1..i : L[j].how = "param"}
    BY <1>4, <2>1
  <2> QED  BY <2>2 DEF ParamRank
<1> HIDE DEF c
<1>6. Counted(L, off)
  BY <1>3, <1>4, <1>5 DEF Counted
<1>7. IsClause(L, items, n, off)
  BY <1>3, <1>4, <1>6 DEF IsClause
<1> QED  BY <1>4, <1>7 DEF L

\* The placeholders of a list are those from lo + 1 to hi and stand for the
\* values that the parameters Q have there.
Fits(L, lo, hi, Q) ==
    /\ IsList(L)
    /\ \A i \in DOMAIN L : L[i].how = "param" => L[i].ph \in lo + 1..hi /\ Q[L[i].ph] = L[i].val
    /\ \A k \in lo + 1..hi : \E i \in DOMAIN L : L[i].how = "param" /\ L[i].ph = k

\* A numbered list fits the parameters it adds.
LEMMA CountedFits ==
    ASSUME NEW L, NEW off \in Nat, Counted(L, off), NEW Q,
           \A k \in 1..Len(ParamVals(L)) : Q[off + k] = ParamVals(L)[k]
    PROVE  Fits(L, off, off + Len(ParamVals(L)), Q)
<1>1. IsList(L) /\ \A i \in DOMAIN L : L[i].how = "param" => L[i].ph = off + ParamRank(L, i)
  BY DEF Counted
<1>2. PICK m \in Nat : m = Len(ParamVals(L))
  BY <1>1, ParamsFacts
<1>3. ASSUME NEW i \in DOMAIN L, L[i].how = "param"
      PROVE  L[i].ph \in off + 1..off + m /\ Q[L[i].ph] = L[i].val
  <2>1. ParamRank(L, i) \in 1..m /\ ParamVals(L)[ParamRank(L, i)] = L[i].val
    BY <1>1, <1>2, <1>3, ParamsFacts
  <2>2. L[i].ph = off + ParamRank(L, i)
    BY <1>1, <1>3
  <2> QED  BY <1>2, <2>1, <2>2
<1>4. ASSUME NEW k \in off + 1..off + m
      PROVE  \E i \in DOMAIN L : L[i].how = "param" /\ L[i].ph = k
  <2>1. k - off \in 1..m
    OBVIOUS
  <2>2. PICK i \in DOMAIN L : L[i].how = "param" /\ ParamRank(L, i) = k - off
    BY <1>1, <1>2, <2>1, ParamsFacts
  <2>3. L[i].ph = k
    BY <1>1, <2>2
  <2> QED  BY <2>2, <2>3
<1> QED  BY <1>1, <1>2, <1>3, <1>4 DEF Fits

\* The elements of a list put behind another.
LEMMA Joined ==
    ASSUME NEW a, NEW b, IsList(a), IsList(b)
    PROVE  /\ IsList(a \o b) /\ Len(a \o b) = Len(a) + Len(b)
           /\ Len(a) \in Nat /\ Len(b) \in Nat
           /\ DOMAIN (a \o b) = 1..Len(a) + Len(b)
           /\ \A i \in 1..Len(a) : (a \o b)[i] = a[i]
           /\ \A i \in 1..Len(b) : (a \o b)[Len(a) + i] = b[i]
           /\ \A i \in DOMAIN (a \o b) : i \in 1..Len(a) \/ i - Len(a) \in 1..Len(b)
<1> DEFINE U == ToSet(a) \cup ToSet(b)
<1>1. a \in Seq(U) /\ b \in Seq(U)
  <2>1. a \in Seq(ToSet(a)) /\ b \in Seq(ToSet(b))
    BY DEF IsList
  <2>2. ToSet(a) \subseteq U /\ ToSet(b) \subseteq U
    OBVIOUS
  <2> HIDE DEF U
  <2> QED  BY <2>1, <2>2
<1> HIDE DEF U
<1>2. PICK c : c = a \o b
  OBVIOUS
<1>3. /\ c \in Seq(U) /\ Len(c) = Len(a) + Len(b) /\ Len(a) \in Nat /\ Len(b) \in Nat
      /\ \A i \in 1..Len(a) : c[i] = a[i]
      /\ \A i \in 1..Len(b) : c[Len(a) + i] = b[i]
  BY <1>1, <1>2
<1>4. IsList(c)
  <2>1. Len(c) \in Nat /\ c = [i \in 1..Len(c) |-> c[i]]
    BY <1>3
  <2> QED  BY <2>1, ListOf
<1>5. DOMAIN c = 1..Len(a) + Len(b)
  BY <1>3
<1> QED  BY <1>2, <1>3, <1>4, <1>5

\* A clause for the SET or VALUES list and one for WHERE, numbered on.
LEMMA FitsMeant ==
    ASSUME NEW s, NEW m \in Nat, Len(s.params) \in Nat, m <= Len(s.params),
           Fits(s.set, 0, m, s.params), Fits(s.where, m, Len(s.params), s.params)
    PROVE  BoundAsMeant(s)
<1> DEFINE a == s.set
           b == s.where
           c == a \o b
           Q == s.params
           n == Len(s.params)
           Hits == {i \in DOMAIN c : c[i].how = "param"}
<1>0. n \in Nat /\ m <= n /\ Fits(a, 0, m, Q) /\ Fits(b, m, n, Q)
  OBVIOUS
<1> HIDE DEF n, Q, a, b
<1>1. IsList(a) /\ IsList(b)
  BY <1>0 DEF Fits
<1>2. /\ Len(a) \in Nat /\ Len(b) \in Nat /\ DOMAIN c = 1..Len(a) + Len(b)
      /\ \A i \in 1..Len(a) : c[i] = a[i]
      /\ \A i \in 1..Len(b) : c[Len(a) + i] = b[i]
      /\ \A i \in DOMAIN c : i \in 1..Len(a) \/ i - Len(a) \in 1..Len(b)
      /\ DOMAIN a = 1..Len(a) /\ DOMAIN b = 1..Len(b)
  BY <1>1, Joined, ListFacts
<1> HIDE DEF c
<1>3. /\ \A i \in DOMAIN a : a[i].how = "param" => a[i].ph \in 1..m /\ Q[a[i].ph] = a[i].val
      /\ \A k \in 1..m : \E i \in DOMAIN a : a[i].how = "param" /\ a[i].ph = k
      /\ \A i \in DOMAIN b : b[i].how = "param" => b[i].ph \in m + 1..n /\ Q[b[i].ph] = b[i].val
      /\ \A k \in m + 1..n : \E i \in DOMAIN b : b[i].how = "param" /\ b[i].ph = k
  <2>1. 0 + 1 = 1
    OBVIOUS
  <2> QED  BY <1>0, <2>1 DEF Fits
<1>4. ASSUME NEW i \in Hits PROVE c[i].ph \in 1..n
  <2>1. CASE i \in 1..Len(a)
    <3>1. c[i] = a[i] /\ a[i].how = "param" /\ i \in DOMAIN a
      BY <1>2, <2>1
    <3>2. a[i].ph \in 1..m
      BY <1>3, <3>1
    <3> QED  BY <1>0, <3>1, <3>2
  <2>2. CASE i - Len(a) \in 1..Len(b)
    <3>1. PICK j \in 1..Len(b) : j = i - Len(a)
      BY <2>2
    <3>2. i = Len(a) + j
      BY <1>2, <3>1
    <3>3. c[i] = b[j] /\ b[j].how = "param" /\ j \in DOMAIN b
      BY <1>2, <3>2
    <3>4. b[j].ph \in m + 1..n
      BY <1>3, <3>3
    <3> QED  BY <1>0, <3>3, <3>4
  <2> QED  BY <1>2, <2>1, <2>2
<1>5. ASSUME NEW k \in 1..n PROVE \E i \in Hits : c[i].ph = k
  <2>1. CASE k \in 1..m
    <3>1. PICK i \in DOMAIN a : a[i].how = "param" /\ a[i].ph = k
      BY <1>3, <2>1
    <3>2. i \in DOMAIN c /\ c[i] = a[i]
      BY <1>2
    <3> QED  BY <3>1, <3>2
  <2>2. CASE k \in m + 1..n
    <3>1. PICK j \in DOMAIN b : b[j].how = "param" /\ b[j].ph = k
      BY <1>3, <2>2
    <3>2. Len(a) + j \in DOMAIN c /\ c[Len(a) + j] = b[j]
      BY <1>2
    <3> QED  BY <3>1, <3>2
  <2> QED  BY <1>0, <2>1, <2>2
<1>6. {c[i].ph : i \in Hits} = 1..n
  <2> HIDE DEF Hits
  <2> QED  BY <1>4, <1>5
<1>7. Aligned(s)
  BY <1>6, Zenon DEF Aligned, c, a, b, n
<1>8. ASSUME NEW list \in {a, b}, NEW i \in DOMAIN list, list[i].how = "param"
      PROVE  Q[list[i].ph] = list[i].val
  BY <1>3, <1>8
<1> QED  BY <1>7, <1>8, Zenon DEF BoundAsMeant, a, b, Q

\* An empty list fits any parameters.
LEMMA EmptyFits ==
    ASSUME NEW m \in Nat, NEW Q
    PROVE  Fits(<<>>, m, m, Q)
<1>1. IsList(<<>>)
  BY DEF IsList
<1>2. DOMAIN <<>> = {} /\ m + 1..m = {}
  OBVIOUS
<1> QED  BY <1>1, <1>2 DEF Fits

\* A SET or VALUES clause, then a WHERE clause numbered on: bound as meant.
LEMMA TwoClauses ==
    ASSUME NEW op, NEW a, NEW b, Counted(a, 0), Counted(b, Len(Params(a)))
    PROVE  BoundAsMeant(Statement(op, a, b, ParamVals(a) \o ParamVals(b)))
<1> DEFINE Q == ParamVals(a) \o ParamVals(b)
           s == Statement(op, a, b, Q)
<1>1. /\ IsList(ParamVals(a)) /\ IsList(ParamVals(b))
      /\ Len(ParamVals(a)) = Len(Params(a)) /\ Len(Params(a)) \in Nat
  BY ParamsFacts DEF Counted
<1>2. PICK m \in Nat, n \in Nat : m = Len(ParamVals(a)) /\ n = Len(ParamVals(b))
  BY <1>1, ListFacts
<1>3. /\ Len(Q) = m + n
      /\ \A k \in 1..m : Q[0 + k] = ParamVals(a)[k]
      /\ \A k \in 1..n : Q[m + k] = ParamVals(b)[k]
  BY <1>1, <1>2, Joined
<1> HIDE DEF Q
<1>4. Fits(a, 0, 0 + m, Q)
  BY <1>2, <1>3, CountedFits
<1>5. Fits(b, m, m + n, Q)
  BY <1>1, <1>2, <1>3, CountedFits
<1>6. s.set = a /\ s.where = b /\ s.params = Q
  BY DEF Statement
<1> HIDE DEF s
<1>7. BoundAsMeant(s)
  <2>1. 0 + m = m /\ Len(s.params) = m + n /\ m <= m + n /\ m + n \in Nat
    BY <1>3, <1>6
  <2> QED  BY <1>4, <1>5, <1>6, <2>1, FitsMeant
<1> QED  BY <1>7 DEF s, Q

\* A list without a placeholder has no parameter.
LEMMA NoParams ==
    ASSUME NEW L, IsList(L), \A i \in DOMAIN L : L[i].how # "param"
    PROVE  Len(Params(L)) = 0 /\ ParamVals(L) = <<>> /\ \A off : Counted(L, off)
<1>1. Len(Params(L)) \in Nat /\ Len(ParamVals(L)) = Len(Params(L)) /\ IsList(ParamVals(L))
  BY ParamsFacts
<1>2. ~(1 \in 1..Len(ParamVals(L)))
  BY ParamsFacts
<1>3. Len(Params(L)) = 0
  BY <1>1, <1>2
<1>4. ParamVals(L) = <<>>
  BY <1>1, <1>3 DEF IsList
<1> QED  BY <1>3, <1>4 DEF Counted

\* The empty list is a list, and has no columns.
LEMMA EmptyList ==
    IsList(<<>>) /\ Len(Params(<<>>)) = 0 /\ ParamVals(<<>>) = <<>> /\ \A off : Counted(<<>>, off)
<1>1. IsList(<<>>) /\ DOMAIN <<>> = {}
  BY DEF IsList
<1> QED  BY <1>1, NoParams

\* One clause alone, numbered from 1: bound as meant.
LEMMA OneClause ==
    ASSUME NEW op, NEW a, Counted(a, 0)
    PROVE  /\ BoundAsMeant(Statement(op, a, <<>>, ParamVals(a)))
           /\ BoundAsMeant(Statement(op, <<>>, a, ParamVals(a)))
<1>1. IsList(ParamVals(a))
  BY ParamsFacts DEF Counted
<1>2. ParamVals(a) \o <<>> = ParamVals(a) /\ <<>> \o ParamVals(a) = ParamVals(a)
  BY <1>1 DEF IsList
<1>3. BoundAsMeant(Statement(op, a, <<>>, ParamVals(a) \o ParamVals(<<>>)))
  BY EmptyList, TwoClauses
<1>4. BoundAsMeant(Statement(op, <<>>, a, ParamVals(<<>>) \o ParamVals(a)))
  BY EmptyList, TwoClauses
<1> QED  BY <1>2, <1>3, <1>4, EmptyList

\* A list of placeholders only.
LEMMA AllParams ==
    ASSUME NEW L, IsList(L), \A i \in DOMAIN L : L[i].how = "param"
    PROVE  /\ \A i \in 0..Len(L) : ParamRank(L, i) = i
           /\ Len(Params(L)) = Len(L)
<1>1. Len(L) \in Nat /\ DOMAIN L = 1..Len(L)
  BY ListFacts
<1>2. ASSUME NEW i \in 0..Len(L) PROVE ParamRank(L, i) = i
  <2>1. {j \in 1..i : L[j].how = "param"} = 1..i
    BY <1>1
  <2>2. Cardinality(1..i) = i
    <3>1. i \in Nat /\ 1 \in Int /\ i \in Int
      BY <1>1
    <3>2. Cardinality(1..i) = IF 1 > i THEN 0 ELSE i - 1 + 1
      BY <3>1, FS_Interval, Zenon
    <3> QED  BY <3>1, <3>2
  <2> QED  BY <2>1, <2>2 DEF ParamRank
<1>3. Len(Params(L)) = ParamRank(L, Len(L))
  BY ParamsFacts
<1>4. Len(L) \in 0..Len(L)
  BY <1>1
<1> QED  BY <1>2, <1>3, <1>4

\* The ranks in a list put behind another.
LEMMA JoinedRank ==
    ASSUME NEW a, NEW b, IsList(a), IsList(b)
    PROVE  /\ \A i \in 0..Len(a) : ParamRank(a \o b, i) = ParamRank(a, i)
           /\ \A i \in 0..Len(b) : ParamRank(a \o b, Len(a) + i) = Len(Params(a)) + ParamRank(b, i)
<1> DEFINE c == a \o b
<1>1. /\ IsList(c) /\ Len(c) = Len(a) + Len(b) /\ Len(a) \in Nat /\ Len(b) \in Nat
      /\ \A i \in 1..Len(a) : c[i] = a[i]
      /\ \A i \in 1..Len(b) : c[Len(a) + i] = b[i]
  BY Joined
<1> HIDE DEF c
<1>2. ASSUME NEW i \in 0..Len(a) PROVE ParamRank(c, i) = ParamRank(a, i)
  <2>1. \A j \in 1..i : c[j] = a[j]
    BY <1>1
  <2>2. {j \in 1..i : c[j].how = "param"} = {j \in 1..i : a[j].how = "param"}
    BY <2>1
  <2> QED  BY <2>2 DEF ParamRank
<1>3. Len(Params(a)) = ParamRank(a, Len(a)) /\ Len(Params(a)) \in Nat
  BY ParamsFacts
<1> DEFINE D == {i \in Nat : ParamRank(c, Len(a) + i) = Len(Params(a)) + ParamRank(b, i)}
<1>4. 0 \in D
  <2>1. ParamRank(c, Len(a)) = ParamRank(a, Len(a))
    BY <1>1, <1>2
  <2>2. ParamRank(b, 0) = 0
    <3>1. {j \in 1..0 : b[j].how = "param"} = {}
      OBVIOUS
    <3> QED  BY <3>1, FS_EmptySet DEF ParamRank
  <2>3. Len(a) + 0 = Len(a) /\ Len(Params(a)) + 0 = Len(Params(a))
    BY <1>1, <1>3
  <2>4. ParamRank(c, Len(a) + 0) = Len(Params(a)) + ParamRank(b, 0)
    BY <1>3, <2>1, <2>2, <2>3
  <2> QED  BY <2>4
<1>5. ASSUME NEW i \in Nat, i < Len(b), i \in D PROVE i + 1 \in D
  <2>1. ParamRank(c, Len(a) + i) = Len(Params(a)) + ParamRank(b, i)
    BY <1>5
  <2>2. /\ ParamRank(b, i) \in Nat
        /\ ParamRank(b, i + 1) = ParamRank(b, i) + (IF b[i + 1].how = "param" THEN 1 ELSE 0)
    BY <1>5, ParamRankFacts
  <2>3. PICK k \in Nat : k = Len(a) + i /\ k < Len(c) /\ Len(a) + (i + 1) = k + 1
    BY <1>1, <1>5
  <2>4. ParamRank(c, k + 1) = ParamRank(c, k) + (IF c[k + 1].how = "param" THEN 1 ELSE 0)
    BY <1>1, <2>3, ParamRankFacts
  <2>5. c[k + 1] = b[i + 1]
    <3>1. i + 1 \in 1..Len(b)
      BY <1>1, <1>5
    <3> QED  BY <1>1, <2>3, <3>1
  <2>6. ParamRank(c, Len(a) + (i + 1)) = Len(Params(a)) + ParamRank(b, i + 1)
    BY <1>3, <2>1, <2>2, <2>3, <2>4, <2>5
  <2> QED  BY <2>6
<1> HIDE DEF D
<1>6. \A i \in 0..Len(b) : i \in D
  BY <1>1, <1>4, <1>5, UpTo
<1>7. \A i \in 0..Len(b) : ParamRank(c, Len(a) + i) = Len(Params(a)) + ParamRank(b, i)
  BY <1>6 DEF D
<1> QED  BY <1>2, <1>7 DEF c

\* Lists numbered on are one numbered list.
LEMMA CountedJoin ==
    ASSUME NEW a, NEW b, NEW off \in Nat, Counted(a, off), Counted(b, off + Len(Params(a)))
    PROVE  Counted(a \o b, off) /\ Len(Params(a \o b)) = Len(Params(a)) + Len(Params(b))
<1> DEFINE c == a \o b
<1>1. IsList(a) /\ IsList(b)
  BY DEF Counted
<1>2. /\ IsList(c) /\ Len(c) = Len(a) + Len(b) /\ Len(a) \in Nat /\ Len(b) \in Nat
      /\ \A i \in 1..Len(a) : c[i] = a[i]
      /\ \A i \in 1..Len(b) : c[Len(a) + i] = b[i]
      /\ \A i \in DOMAIN c : i \in 1..Len(a) \/ i - Len(a) \in 1..Len(b)
      /\ DOMAIN a = 1..Len(a) /\ DOMAIN b = 1..Len(b)
  BY <1>1, Joined, ListFacts
<1>3. /\ \A i \in 0..Len(a) : ParamRank(c, i) = ParamRank(a, i)
      /\ \A i \in 0..Len(b) : ParamRank(c, Len(a) + i) = Len(Params(a)) + ParamRank(b, i)
  BY <1>1, JoinedRank
<1>4. /\ Len(Params(a)) \in Nat /\ Len(Params(a)) = ParamRank(a, Len(a))
      /\ Len(Params(b)) = ParamRank(b, Len(b)) /\ Len(Params(c)) = ParamRank(c, Len(c))
  BY <1>1, <1>2, ParamsFacts
<1> HIDE DEF c
<1>5. ASSUME NEW i \in DOMAIN c, c[i].how = "param" PROVE c[i].ph = off + ParamRank(c, i)
  <2>1. CASE i \in 1..Len(a)
    <3>1. i \in 0..Len(a) /\ c[i] = a[i] /\ i \in DOMAIN a
      BY <1>2, <2>1
    <3> QED  BY <1>3, <1>5, <3>1 DEF Counted
  <2>2. CASE i - Len(a) \in 1..Len(b)
    <3>1. PICK j \in 1..Len(b) : j = i - Len(a)
      BY <2>2
    <3>2. i = Len(a) + j /\ j \in 0..Len(b) /\ j \in DOMAIN b
      BY <1>2, <3>1
    <3>3. c[i] = b[j] /\ ParamRank(c, i) = Len(Params(a)) + ParamRank(b, j)
      BY <1>2, <1>3, <3>2
    <3>4. b[j].ph = off + Len(Params(a)) + ParamRank(b, j)
      BY <1>5, <3>2, <3>3 DEF Counted
    <3>5. ParamRank(b, j) \in 1..Len(ParamVals(b)) /\ Len(ParamVals(b)) \in Nat
      BY <1>1, <1>5, <3>2, <3>3, ParamsFacts, ListFacts
    <3> QED  BY <1>4, <3>3, <3>4, <3>5
  <2> QED  BY <1>2, <2>1, <2>2
<1>6. Len(Params(c)) = Len(Params(a)) + Len(Params(b))
  <2>1. Len(b) \in 0..Len(b)
    BY <1>2
  <2> QED  BY <1>2, <1>3, <1>4, <2>1
<1> QED  BY <1>2, <1>5, <1>6 DEF Counted, c

-----------------------------------------------------------------------------
(* The clauses of the statements.                                          *)

\* Values that are all sent as parameters.
LEMMA NumberedParams ==
    ASSUME NEW items, NEW n \in Nat, DOMAIN items = 1..n, NEW off
    PROVE  /\ IsClause(Numbered(items, off, AsParam), items, n, off)
           /\ \A i \in 1..n : Numbered(items, off, AsParam)[i].how = "param"
           /\ Len(Params(Numbered(items, off, AsParam))) = n
<1> DEFINE L == Numbered(items, off, AsParam)
<1>0. \A h : /\ IsClause(Clause(items, off, h), items, n, off)
             /\ \A i \in 1..n : Clause(items, off, h)[i].how = h[i]
  BY ClauseCounted
<1>1. PICK hows : hows = [i \in 1..n |-> "param"] /\ L = Clause(items, off, hows)
  BY Zenon DEF Numbered, AsParam
<1>2. IsClause(L, items, n, off) /\ \A i \in 1..n : L[i].how = hows[i]
  BY <1>0, <1>1
<1> HIDE DEF L
<1>3. \A i \in 1..n : L[i].how = "param"
  BY <1>1, <1>2
<1>4. Len(Params(L)) = n
  BY <1>2, <1>3, AllParams DEF IsClause
<1> QED  BY <1>2, <1>3, <1>4 DEF L

\* Literal assignments: NULL and expressions are text, the rest parameters.
LEMMA NumberedLiterals ==
    ASSUME NEW items, NEW n \in Nat, DOMAIN items = 1..n, NEW off
    PROVE  IsClause(Numbered(items, off, AsLiteral), items, n, off)
<1>1. PICK hows : Numbered(items, off, AsLiteral) = Clause(items, off, hows)
  BY Zenon DEF Numbered
<1> QED  BY <1>1, ClauseCounted, Zenon

\* Literal conditions: IS NULL is text, the rest a parameter.
LEMMA NumberedConditions ==
    ASSUME NEW items, NEW n \in Nat, DOMAIN items = 1..n, NEW off
    PROVE  IsClause(Numbered(items, off, AsCondition), items, n, off)
<1>1. PICK hows : Numbered(items, off, AsCondition) = Clause(items, off, hows)
  BY Zenon DEF Numbered
<1> QED  BY <1>1, ClauseCounted, Zenon

\* Text has no placeholders, wherever it stands.
LEMMA NumberedText ==
    ASSUME NEW items, NEW n \in Nat, DOMAIN items = 1..n, NEW off
    PROVE  /\ IsClause(Numbered(items, off, AsText), items, n, off)
           /\ \A i \in 1..n : Numbered(items, off, AsText)[i].how # "param"
<1> DEFINE L == Numbered(items, off, AsText)
<1>1. \A h : /\ IsClause(Clause(items, off, h), items, n, off)
             /\ \A i \in 1..n : Clause(items, off, h)[i].how = h[i]
  BY ClauseCounted
<1>2. PICK hows : hows = [i \in 1..n |-> AsText(items[i][2])] /\ L = Clause(items, off, hows)
  BY Zenon DEF Numbered
<1> HIDE DEF L
<1>3. IsClause(L, items, n, off) /\ \A i \in 1..n : L[i].how = hows[i]
  BY <1>1, <1>2
<1>4. \A i \in 1..n : hows[i] # "param"
  BY <1>2 DEF AsText
<1>5. \A i \in 1..n : L[i].how # "param"
  BY <1>3, <1>4
<1> QED  BY <1>3, <1>5, Zenon DEF L

-----------------------------------------------------------------------------
(* The statements.                                                         *)

ColumnSeq == Seq(ToSet(Columns))
ColsOf(L) == {L[i].col : i \in DOMAIN L}

\* The conditions of a plan that are not empty lists.
Conditions(p) == {c \in DOMAIN p.staticWhere : p.staticWhere[c] # <<>>}

\* A list of columns, and what a filter keeps of it.
LEMMA ColumnFacts ==
    ASSUME NEW cols \in ColumnSeq
    PROVE  /\ Len(cols) \in Nat /\ DOMAIN cols = 1..Len(cols) /\ IsList(cols)
           /\ (cols = <<>> <=> Len(cols) = 0)
           /\ \A S : /\ Filter(cols, S) \in ColumnSeq /\ ToSet(Filter(cols, S)) = ToSet(cols) \cap S
                     /\ Without(cols, S) \in ColumnSeq /\ ToSet(Without(cols, S)) = ToSet(cols) \ S
<1>1. cols \in Seq(ToSet(Columns))
  BY DEF ColumnSeq
<1>2. Len(cols) \in Nat /\ DOMAIN cols = 1..Len(cols) /\ (cols = <<>> <=> Len(cols) = 0)
  BY <1>1
<1>3. IsList(cols)
  <2>1. cols = [i \in 1..Len(cols) |-> cols[i]]
    BY <1>1
  <2> QED  BY <1>2, <2>1, ListOf
<1>4. ASSUME NEW S
      PROVE  Filter(cols, S) \in ColumnSeq /\ ToSet(Filter(cols, S)) = ToSet(cols) \cap S
  BY <1>1, FilterSet DEF ColumnSeq
<1>5. ASSUME NEW S
      PROVE  Without(cols, S) \in ColumnSeq /\ ToSet(Without(cols, S)) = ToSet(cols) \ S
  <2>1. Without(cols, S) = Filter(cols, ToSet(cols) \ S)
    BY DEF Without
  <2>2. ToSet(cols) \cap (ToSet(cols) \ S) = ToSet(cols) \ S
    OBVIOUS
  <2> QED  BY <1>4, <2>1, <2>2
<1> QED  BY <1>2, <1>3, <1>4, <1>5

\* A filter that keeps every column keeps the list.
LEMMA AllColumns ==
    Columns \in ColumnSeq
<1>1. Columns \in Seq(STRING)
  BY StatementAssumption
<1>2. Len(Columns) \in Nat /\ Columns = [i \in 1..Len(Columns) |-> Columns[i]]
  BY <1>1
<1> QED  BY <1>2, ListOf DEF IsList, ColumnSeq

\* The keys of a record, as a list.
LEMMA KeysFacts ==
    ASSUME NEW f
    PROVE  Keys(f) \in ColumnSeq /\ ToSet(Keys(f)) = ToSet(Columns) \cap DOMAIN f
BY AllColumns, ColumnFacts DEF Keys

\* The columns of two lists, without repetition.
LEMMA UnionFacts ==
    ASSUME NEW a \in ColumnSeq, NEW b \in ColumnSeq
    PROVE  Union(a, b) \in ColumnSeq /\ ToSet(Union(a, b)) = ToSet(a) \cup ToSet(b)
<1> DEFINE d == Without(b, ToSet(a))
           c == a \o d
<1>1. d \in ColumnSeq /\ ToSet(d) = ToSet(b) \ ToSet(a)
  BY ColumnFacts
<1> HIDE DEF d
<1>2. /\ Len(c) = Len(a) + Len(d) /\ DOMAIN c = 1..Len(a) + Len(d)
      /\ Len(a) \in Nat /\ Len(d) \in Nat /\ DOMAIN a = 1..Len(a) /\ DOMAIN d = 1..Len(d)
      /\ \A i \in 1..Len(a) : c[i] = a[i]
      /\ \A i \in 1..Len(d) : c[Len(a) + i] = d[i]
      /\ \A i \in DOMAIN c : i \in 1..Len(a) \/ i - Len(a) \in 1..Len(d)
  BY <1>1, ColumnFacts, Joined
<1>3. c \in ColumnSeq
  BY <1>1 DEF ColumnSeq
<1> HIDE DEF c
<1>4. ASSUME NEW i \in DOMAIN c PROVE c[i] \in ToSet(a) \cup ToSet(d)
  <2>1. CASE i \in 1..Len(a)
    BY <1>2, <2>1 DEF ToSet
  <2>2. CASE i - Len(a) \in 1..Len(d)
    <3>1. PICK j \in 1..Len(d) : i = Len(a) + j
      BY <1>2, <2>2
    <3> QED  BY <1>2, <3>1 DEF ToSet
  <2> QED  BY <1>2, <2>1, <2>2
<1>5. ASSUME NEW i \in DOMAIN a PROVE a[i] \in ToSet(c)
  <2>1. i \in DOMAIN c /\ c[i] = a[i]
    BY <1>2
  <2> QED  BY <2>1, Zenon DEF ToSet
<1>6. ASSUME NEW i \in DOMAIN d PROVE d[i] \in ToSet(c)
  <2>1. Len(a) + i \in DOMAIN c /\ c[Len(a) + i] = d[i]
    BY <1>2
  <2> QED  BY <2>1, Zenon DEF ToSet
<1>7. ToSet(c) = ToSet(a) \cup ToSet(d)
  <2>1. ToSet(c) \subseteq ToSet(a) \cup ToSet(d)
    BY <1>4, Zenon DEF ToSet
  <2>2. ToSet(a) \subseteq ToSet(c)
    BY <1>5, Zenon DEF ToSet
  <2>3. ToSet(d) \subseteq ToSet(c)
    BY <1>6, Zenon DEF ToSet
  <2> QED  BY <2>1, <2>2, <2>3
<1>8. ToSet(c) = ToSet(a) \cup ToSet(b)
  BY <1>1, <1>7
<1> QED  BY <1>3, <1>8 DEF Union, c, d

\* The columns of a clause.
LEMMA ClauseCols ==
    ASSUME NEW L, NEW items, NEW n \in Nat, NEW off, IsClause(L, items, n, off)
    PROVE  ColsOf(L) = {items[i][1] : i \in 1..n} /\ (L = <<>> => n = 0)
<1>1. DOMAIN L = 1..n /\ Len(L) = n /\ \A i \in 1..n : L[i].col = items[i][1]
  BY DEF IsClause
<1>2. L = <<>> => n = 0
  BY <1>1
<1> QED  BY <1>1, <1>2 DEF ColsOf

\* The predicate of a plan has an entry for each of its conditions.
LEMMA PredicateFacts ==
    ASSUME NEW p, IsPayload(p)
    PROVE  \E n \in Nat :
             LET pred == BuildWritePredicate(p.staticWhere)
             IN  /\ DOMAIN pred = 1..n
                 /\ {pred[i][1] : i \in 1..n} = Conditions(p)
                 /\ (pred = <<>> <=> n = 0) /\ (pred = <<>> <=> Conditions(p) = {})
<1> DEFINE kept == Filter(Columns, Conditions(p))
           pred == BuildWritePredicate(p.staticWhere)
<1>1. kept \in ColumnSeq /\ ToSet(kept) = ToSet(Columns) \cap Conditions(p)
  BY AllColumns, ColumnFacts
<1>2. Conditions(p) \subseteq ToSet(Columns)
  <2>1. DOMAIN p.staticWhere \subseteq ToSet(Columns)
    BY DEF IsPayload
  <2> QED  BY <2>1 DEF Conditions
<1>3. pred = [i \in DOMAIN kept |-> <<kept[i], p.staticWhere[kept[i]]>>]
  BY Zenon DEF BuildWritePredicate, Lists, Conditions
<1> HIDE DEF kept, pred
<1>4. PICK n \in Nat : n = Len(kept) /\ DOMAIN kept = 1..n
  BY <1>1, ColumnFacts
<1>5. DOMAIN pred = 1..n /\ \A i \in 1..n : pred[i] = <<kept[i], p.staticWhere[kept[i]]>>
  BY <1>3, <1>4
<1>6. \A i \in 1..n : pred[i][1] = kept[i]
  BY <1>5
<1>7. {pred[i][1] : i \in 1..n} = Conditions(p)
  <2>1. ToSet(kept) = {kept[i] : i \in 1..n}
    BY <1>4 DEF ToSet
  <2>2. ToSet(kept) = Conditions(p)
    BY <1>1, <1>2
  <2> QED  BY <1>6, <2>1, <2>2
<1>8. pred = <<>> <=> n = 0
  <2>1. pred = <<>> => n = 0
    BY <1>5
  <2>2. n = 0 => pred = <<>>
    <3>1. ASSUME n = 0 PROVE pred = <<>>
      <4>1. DOMAIN kept = {}
        BY <1>4, <3>1
      <4> QED  BY <1>3, <4>1
    <3> QED  BY <3>1
  <2> QED  BY <2>1, <2>2
<1>9. Conditions(p) = {} <=> n = 0
  BY <1>7
<1> QED  BY <1>5, <1>7, <1>8, <1>9 DEF pred

\* A list of placeholders for some columns of a row, numbered from off + 1.
IsRowClause(L, cols, off) ==
    /\ Counted(L, off) /\ IsList(L) /\ ColsOf(L) = ToSet(cols)
    /\ Len(L) = Len(cols) /\ DOMAIN L = DOMAIN cols
    /\ Len(Params(L)) = Len(cols)
    /\ \A i \in DOMAIN cols : L[i].how = "param" /\ L[i].col = cols[i]

\* The values of some columns of a row are such a list.
LEMMA RowClause ==
    ASSUME NEW cols \in ColumnSeq, NEW items, NEW off,
           DOMAIN items = DOMAIN cols, \A i \in DOMAIN cols : items[i][1] = cols[i]
    PROVE  /\ IsRowClause(Numbered(items, off, AsParam), cols, off)
           /\ \A i \in DOMAIN cols : Numbered(items, off, AsParam)[i].val = items[i][2]
<1> DEFINE L == Numbered(items, off, AsParam)
<1>1. PICK n \in Nat : n = Len(cols) /\ DOMAIN cols = 1..n
  BY ColumnFacts
<1>2. /\ IsClause(L, items, n, off)
      /\ \A i \in 1..n : L[i].how = "param"
      /\ Len(Params(L)) = n
  BY <1>1, NumberedParams
<1> HIDE DEF L
<1>3. /\ Counted(L, off) /\ IsList(L) /\ Len(L) = n /\ DOMAIN L = 1..n
      /\ \A i \in 1..n : L[i].col = items[i][1] /\ L[i].val = items[i][2]
  BY <1>2 DEF IsClause
<1>4. ColsOf(L) = ToSet(cols)
  <2>1. ColsOf(L) = {items[i][1] : i \in 1..n}
    BY <1>2, ClauseCols
  <2>2. {items[i][1] : i \in 1..n} = {cols[i] : i \in 1..n}
    BY <1>1
  <2> QED  BY <1>1, <2>1, <2>2 DEF ToSet
<1>5. IsRowClause(L, cols, off)
  BY <1>1, <1>2, <1>3, <1>4 DEF IsRowClause
<1> QED  BY <1>1, <1>3, <1>5 DEF L

\* The literal conditions behind off parameters.
LEMMA ConditionClause ==
    ASSUME NEW p, IsPayload(p), NEW off \in Nat
    PROVE  LET L == PredicateToSQL(BuildWritePredicate(p.staticWhere), off + 1)
           IN  /\ Counted(L, off) /\ ColsOf(L) = Conditions(p)
               /\ (Conditions(p) # {} => L # <<>>)
<1> DEFINE pred == BuildWritePredicate(p.staticWhere)
           L == PredicateToSQL(pred, off + 1)
<1>1. PICK n \in Nat : /\ DOMAIN pred = 1..n /\ {pred[i][1] : i \in 1..n} = Conditions(p)
                       /\ (Conditions(p) = {} <=> n = 0)
  BY PredicateFacts
<1> HIDE DEF pred
<1>2. L = Numbered(pred, (off + 1) - 1, AsCondition)
  BY Zenon DEF PredicateToSQL
<1>3. IsClause(L, pred, n, off)
  <2>1. IsClause(L, pred, n, (off + 1) - 1)
    BY <1>1, <1>2, NumberedConditions
  <2>2. (off + 1) - 1 = off
    OBVIOUS
  <2> HIDE DEF L
  <2> QED  BY <2>1, <2>2
<1> HIDE DEF L
<1>4. Counted(L, off)
  BY <1>3 DEF IsClause
<1>5. ColsOf(L) = Conditions(p) /\ (L = <<>> => n = 0)
  <2>1. ColsOf(L) = {pred[i][1] : i \in 1..n} /\ (L = <<>> => n = 0)
    BY <1>3, ClauseCols
  <2> QED  BY <1>1, <2>1
<1> QED  BY <1>1, <1>4, <1>5 DEF L, pred

\* The fields of a statement.
LEMMA Parts ==
    ASSUME NEW op, NEW set, NEW where, NEW params
    PROVE  LET s == Statement(op, set, where, params)
           IN  s.op = op /\ s.set = set /\ s.where = where /\ s.params = params
BY DEF Statement

\* The statements of runUpdate.
LEMMA UpdateFacts ==
    ASSUME NEW p, IsPayload(p), NEW cols \in ColumnSeq, NEW row
    PROVE  LET s == UpdateStatement(p, cols, row)
           IN  /\ BoundAsMeant(s) /\ s.op = "UPDATE" /\ ColsOf(s.set) = ToSet(cols)
               /\ Conditions(p) \subseteq ColsOf(s.where)
               /\ (Conditions(p) # {} \/ p.where # <<>> => s.where # <<>>)
<1> DEFINE pred == BuildWritePredicate(p.staticWhere)
           items == Pairs(cols, LAMBDA c : Field(row, c))
           tests == Pairs(p.where, LAMBDA c : Field(row, c))
           set == Numbered(items, 0, AsParam)
           fromPlan == PredicateToSQL(pred, Len(cols) + 1)
           fromRow == Numbered(tests, Len(cols), AsParam)
           test == IF pred # <<>> THEN fromPlan ELSE fromRow
           s == UpdateStatement(p, cols, row)
<1>1. s = Statement("UPDATE", set, test, ParamVals(set) \o ParamVals(test))
  BY Zenon DEF UpdateStatement
<1>2. p.where \in ColumnSeq
  BY DEF IsPayload, ColumnSeq
<1>3. IsRowClause(set, cols, 0)
  <2>1. DOMAIN items = DOMAIN cols /\ \A i \in DOMAIN cols : items[i][1] = cols[i]
    BY DEF Pairs
  <2> HIDE DEF items
  <2> QED  BY <2>1, RowClause
<1>4. IsRowClause(fromRow, p.where, Len(cols))
  <2>1. DOMAIN tests = DOMAIN p.where /\ \A i \in DOMAIN p.where : tests[i][1] = p.where[i]
    BY DEF Pairs
  <2> HIDE DEF tests
  <2> QED  BY <1>2, <2>1, RowClause
<1>5. Len(cols) \in Nat
  BY ColumnFacts
<1>6. /\ Counted(fromPlan, Len(cols)) /\ ColsOf(fromPlan) = Conditions(p)
      /\ (Conditions(p) # {} => fromPlan # <<>>)
  BY <1>5, ConditionClause
<1>7. pred = <<>> <=> Conditions(p) = {}
  BY PredicateFacts
<1> HIDE DEF set, fromPlan, fromRow, pred
<1>8. Counted(test, Len(cols))
  BY <1>4, <1>6 DEF IsRowClause
<1>9. Conditions(p) \subseteq ColsOf(test)
  BY <1>6, <1>7
<1>10. Conditions(p) # {} \/ p.where # <<>> => test # <<>>
  <2>1. fromRow = <<>> => p.where = <<>>
    <3>1. Len(fromRow) = Len(p.where) /\ (p.where = <<>> <=> Len(p.where) = 0)
      BY <1>2, <1>4, ColumnFacts DEF IsRowClause
    <3> QED  BY <3>1
  <2> QED  BY <1>6, <1>7, <2>1
<1> HIDE DEF test
<1>11. BoundAsMeant(s)
  <2>1. Counted(set, 0) /\ Len(Params(set)) = Len(cols)
    BY <1>3 DEF IsRowClause
  <2> QED  BY <1>1, <1>8, <2>1, TwoClauses
<1>12. s.op = "UPDATE" /\ s.set = set /\ s.where = test
  BY <1>1, Parts
<1>13. ColsOf(set) = ToSet(cols)
  BY <1>3 DEF IsRowClause
<1> QED  BY <1>9, <1>10, <1>11, <1>12, <1>13 DEF s

\* The statements of runDelete.
LEMMA DeleteFacts ==
    ASSUME NEW p, IsPayload(p), NEW row
    PROVE  LET s == DeleteStatement(p, row)
           IN  BoundAsMeant(s) /\ s.op = "DELETE" /\ (p.where # <<>> => s.where # <<>>)
<1> DEFINE items == Pairs(p.where, LAMBDA c : Field(row, c))
           test == Numbered(items, 0, AsCondition)
           s == DeleteStatement(p, row)
<1>1. s = Statement("DELETE", <<>>, test, ParamVals(test))
  BY Zenon DEF DeleteStatement
<1>2. PICK n \in Nat : n = Len(p.where) /\ DOMAIN p.where = 1..n /\ (p.where = <<>> <=> n = 0)
  <2>1. p.where \in ColumnSeq
    BY DEF IsPayload, ColumnSeq
  <2> QED  BY <2>1, ColumnFacts
<1>3. DOMAIN items = 1..n
  BY <1>2 DEF Pairs
<1> HIDE DEF items
<1>4. IsClause(test, items, n, 0)
  BY <1>3, NumberedConditions
<1> HIDE DEF test
<1>5. Counted(test, 0) /\ (test = <<>> => n = 0)
  BY <1>4, ClauseCols DEF IsClause
<1>6. BoundAsMeant(s)
  BY <1>1, <1>5, OneClause
<1>7. s.op = "DELETE" /\ s.where = test
  BY <1>1, Parts
<1> QED  BY <1>2, <1>5, <1>6, <1>7 DEF s

\* The batches of runInsert.
LEMMA InsertFacts ==
    ASSUME NEW op, NEW all \in ColumnSeq, NEW rows, Len(rows) \in Nat, NEW static, NEW b \in Nat \ {0}
    PROVE  LET s == InsertStatement(op, all, rows, static, b)
           IN  BoundAsMeant(s) /\ s.op = op /\ s.where = <<>>
<1> DEFINE first == (b - 1) * BatchSize
           size == MinOf(BatchSize, Len(rows) - first)
           m == size * Len(all)
           row(k) == rows[first + ((k - 1) \div Len(all)) + 1]
           col(k) == all[((k - 1) % Len(all)) + 1]
           val(k) == IF col(k) \in DOMAIN static THEN static[col(k)] ELSE Field(row(k), col(k))
           set == [k \in 1..m |-> Entry(col(k), "param", k, <<val(k)>>)]
           s == InsertStatement(op, all, rows, static, b)
<1>1. s = Statement(op, set, <<>>, ParamVals(set))
  BY Zenon DEF InsertStatement
<1>2. \A k \in 1..m : set[k].how = "param" /\ set[k].ph = k
  BY DEF Entry
<1>3. DOMAIN set = 1..m
  OBVIOUS
<1>4. PICK n \in Nat : 1..m = 1..n
  <2>1. size \in Int /\ Len(all) \in Nat
    <3>1. BatchSize \in Nat
      BY StatementAssumption
    <3>2. first \in Int
      BY <3>1
    <3> HIDE DEF first
    <3> QED  BY <3>1, <3>2, ColumnFacts DEF MinOf
  <2> HIDE DEF size
  <2>2. m \in Int
    BY <2>1
  <2> HIDE DEF m
  <2>3. m \in Nat \/ 1..m = 1..0
    BY <2>2
  <2> QED  BY <2>3
<1>5. set = [k \in 1..n |-> set[k]]
  BY <1>3, <1>4
<1> HIDE DEF set, m
<1>6. IsList(set) /\ Len(set) = n /\ DOMAIN set = 1..n
  BY <1>5, ListOf
<1>7. \A i \in DOMAIN set : set[i].how = "param" /\ set[i].ph = i
  BY <1>2, <1>4, <1>6
<1>8. Counted(set, 0)
  <2>1. \A i \in 0..Len(set) : ParamRank(set, i) = i
    BY <1>6, <1>7, AllParams
  <2>2. \A i \in DOMAIN set : i \in 0..Len(set) /\ i = 0 + i
    BY <1>6
  <2> QED  BY <1>6, <1>7, <2>1, <2>2 DEF Counted
<1>9. BoundAsMeant(s)
  BY <1>1, <1>8, OneClause
<1>10. s.op = op /\ s.where = <<>>
  BY <1>1, Parts
<1> QED  BY <1>9, <1>10 DEF s

-----------------------------------------------------------------------------
(* The statements of each path.                                            *)

\* A list put behind another: the columns of both.
LEMMA JoinedCols ==
    ASSUME NEW a, NEW b, IsList(a), IsList(b)
    PROVE  ColsOf(a \o b) = ColsOf(a) \cup ColsOf(b)
<1> DEFINE c == a \o b
<1>1. /\ DOMAIN c = 1..Len(a) + Len(b) /\ Len(a) \in Nat /\ Len(b) \in Nat
      /\ \A i \in 1..Len(a) : c[i] = a[i]
      /\ \A i \in 1..Len(b) : c[Len(a) + i] = b[i]
      /\ \A i \in DOMAIN c : i \in 1..Len(a) \/ i - Len(a) \in 1..Len(b)
      /\ DOMAIN a = 1..Len(a) /\ DOMAIN b = 1..Len(b)
  BY Joined, ListFacts
<1> HIDE DEF c
<1>2. ASSUME NEW i \in DOMAIN c PROVE c[i].col \in ColsOf(a) \cup ColsOf(b)
  <2>1. CASE i \in 1..Len(a)
    BY <1>1, <2>1 DEF ColsOf
  <2>2. CASE i - Len(a) \in 1..Len(b)
    <3>1. PICK j \in 1..Len(b) : j = i - Len(a)
      BY <2>2
    <3>2. i = Len(a) + j
      BY <1>1, <3>1
    <3> QED  BY <1>1, <3>2 DEF ColsOf
  <2> QED  BY <1>1, <2>1, <2>2
<1>3. ASSUME NEW i \in DOMAIN a PROVE a[i].col \in ColsOf(c)
  <2>1. i \in DOMAIN c /\ c[i] = a[i]
    BY <1>1
  <2> QED  BY <2>1, Zenon DEF ColsOf
<1>4. ASSUME NEW i \in DOMAIN b PROVE b[i].col \in ColsOf(c)
  <2>1. Len(a) + i \in DOMAIN c /\ c[Len(a) + i] = b[i]
    BY <1>1
  <2> QED  BY <2>1, Zenon DEF ColsOf
<1>5. ColsOf(c) \subseteq ColsOf(a) \cup ColsOf(b)
  BY <1>2, Zenon DEF ColsOf
<1>6. ColsOf(a) \subseteq ColsOf(c)
  BY <1>3, Zenon DEF ColsOf
<1>7. ColsOf(b) \subseteq ColsOf(c)
  BY <1>4, Zenon DEF ColsOf
<1> QED  BY <1>5, <1>6, <1>7 DEF c

\* A clause that gives each of some columns a value.
IsColumnClause(L, cols, off) ==
    Counted(L, off) /\ IsList(L) /\ ColsOf(L) = ToSet(cols) /\ Len(L) = Len(cols)

\* A clause over columns gives those columns.
LEMMA ColumnClause ==
    ASSUME NEW cols \in ColumnSeq, NEW items, NEW off, NEW L,
           DOMAIN items = DOMAIN cols, \A i \in DOMAIN cols : items[i][1] = cols[i],
           IsClause(L, items, Len(cols), off)
    PROVE  IsColumnClause(L, cols, off)
<1>1. PICK n \in Nat : n = Len(cols) /\ DOMAIN cols = 1..n
  BY ColumnFacts
<1>2. Counted(L, off) /\ IsList(L) /\ Len(L) = n
  BY <1>1 DEF IsClause
<1>3. ColsOf(L) = {items[i][1] : i \in 1..n}
  BY <1>1, ClauseCols
<1>4. {items[i][1] : i \in 1..n} = {cols[i] : i \in 1..n}
  BY <1>1
<1> QED  BY <1>1, <1>2, <1>3, <1>4 DEF IsColumnClause, ToSet

\* However its values are written; AsParam gives each a parameter, AsText none.
LEMMA ItemsClause ==
    ASSUME NEW cols \in ColumnSeq, NEW items, NEW off,
           DOMAIN items = DOMAIN cols, \A i \in DOMAIN cols : items[i][1] = cols[i]
    PROVE  /\ IsColumnClause(Numbered(items, off, AsLiteral), cols, off)
           /\ IsColumnClause(Numbered(items, off, AsParam), cols, off)
           /\ Len(Params(Numbered(items, off, AsParam))) = Len(cols)
           /\ IsColumnClause(Numbered(items, off, AsText), cols, off)
           /\ Len(Params(Numbered(items, off, AsText))) = 0
<1> DEFINE L == Numbered(items, off, AsLiteral)
           M == Numbered(items, off, AsParam)
           N == Numbered(items, off, AsText)
<1>1. Len(cols) \in Nat /\ DOMAIN cols = 1..Len(cols)
  BY ColumnFacts
<1>2. IsClause(L, items, Len(cols), off)
  BY <1>1, NumberedLiterals
<1>3. IsClause(M, items, Len(cols), off) /\ Len(Params(M)) = Len(cols)
  BY <1>1, NumberedParams
<1>4. IsClause(N, items, Len(cols), off) /\ \A i \in 1..Len(cols) : N[i].how # "param"
  BY <1>1, NumberedText
<1> HIDE DEF L, M, N
<1>5. IsColumnClause(L, cols, off) /\ IsColumnClause(M, cols, off) /\ IsColumnClause(N, cols, off)
  BY <1>2, <1>3, <1>4, ColumnClause
<1>6. Len(Params(N)) = 0
  <2>1. IsList(N) /\ \A i \in DOMAIN N : N[i].how # "param"
    BY <1>4 DEF IsClause
  <2> QED  BY <2>1, NoParams
<1> QED  BY <1>3, <1>5, <1>6 DEF L, M, N

\* Where a column stands among the columns.
LEMMA IndexFacts ==
    ASSUME NEW cols \in ColumnSeq, NEW c \in ToSet(cols)
    PROVE  IndexOf(cols, c) \in DOMAIN cols /\ cols[IndexOf(cols, c)] = c
<1>1. \E i \in DOMAIN cols : cols[i] = c
  BY DEF ToSet
<1>2. IndexOf(cols, c) = CHOOSE i \in DOMAIN cols : cols[i] = c
  BY DEF IndexOf, Has
<1> QED  BY <1>1, <1>2

\* The statements of runUpsert.
LEMMA UpsertFacts ==
    ASSUME NEW cols \in ColumnSeq, NEW set \in ColumnSeq, NEW row
    PROVE  LET s == UpsertStatement(cols, set, row)
           IN  /\ s.op = "UPSERT" /\ s.where = <<>> /\ Inserted(s) = ToSet(cols)
               /\ (ToSet(set) \subseteq ToSet(cols) => BoundAsMeant(s))
<1> DEFINE items == Pairs(cols, LAMBDA c : Field(row, c))
           values == Numbered(items, 0, AsParam)
           update == [i \in DOMAIN set |->
                      Entry(set[i], "param", IndexOf(cols, set[i]), <<Field(row, set[i])>>)]
           list == values \o update
           Q == ParamVals(values)
           s == UpsertStatement(cols, set, row)
<1>1. s = Statement("UPSERT", list, <<>>, Q)
  BY Zenon DEF UpsertStatement
<1>2. PICK n \in Nat : n = Len(cols) /\ DOMAIN cols = 1..n
  BY ColumnFacts
<1>3. DOMAIN items = 1..n /\ \A i \in 1..n : items[i][1] = cols[i] /\ items[i][2] = <<Field(row, cols[i])>>
  BY <1>2 DEF Pairs
<1> HIDE DEF items
<1>4. /\ IsClause(values, items, n, 0) /\ Len(Params(values)) = n
      /\ \A i \in 1..n : values[i].how = "param"
  BY <1>3, NumberedParams
<1> HIDE DEF values
<1>5. /\ Counted(values, 0) /\ IsList(values) /\ Len(values) = n /\ DOMAIN values = 1..n
      /\ \A i \in 1..n : values[i].col = cols[i] /\ values[i].val = <<Field(row, cols[i])>>
  BY <1>3, <1>4 DEF IsClause
<1>6. IsList(Q) /\ Len(Q) = n
  BY <1>4, <1>5, ParamsFacts
<1>7. \A i \in 1..n : values[i].ph = i /\ Q[i] = values[i].val
  <2>1. \A i \in 0..n : ParamRank(values, i) = i
    BY <1>4, <1>5, AllParams
  <2>2. ASSUME NEW i \in 1..n PROVE values[i].ph = i /\ Q[i] = values[i].val
    <3>1. i \in 0..n /\ i \in DOMAIN values /\ 0 + i = i
      BY <1>5
    <3>2. ParamRank(values, i) = i /\ values[i].how = "param"
      BY <1>4, <2>1, <3>1
    <3>3. values[i].ph = 0 + i
      BY <1>5, <3>1, <3>2 DEF Counted
    <3>4. Q[i] = values[i].val
      BY <1>5, <3>1, <3>2, ParamsFacts
    <3> QED  BY <3>1, <3>3, <3>4
  <2> QED  BY <2>2
<1> HIDE DEF Q
<1>8. PICK m \in Nat : m = Len(set) /\ DOMAIN set = 1..m
  BY ColumnFacts
<1>9. /\ DOMAIN update = 1..m
      /\ \A i \in 1..m : /\ update[i].how = "param" /\ update[i].ph = IndexOf(cols, set[i])
                         /\ update[i].val = <<Field(row, set[i])>>
  BY <1>8 DEF Entry
<1>10. IsList(update) /\ Len(update) = m
  <2>1. update = [i \in 1..m |-> update[i]]
    BY <1>8
  <2> HIDE DEF update
  <2> QED  BY <2>1, ListOf
<1> HIDE DEF update
<1>11. /\ IsList(list) /\ Len(list) = n + m /\ DOMAIN list = 1..n + m
       /\ \A i \in 1..n : list[i] = values[i]
       /\ \A i \in 1..m : list[n + i] = update[i]
       /\ \A i \in DOMAIN list : i \in 1..n \/ i - n \in 1..m
  BY <1>5, <1>10, Joined
<1> HIDE DEF list
<1>12. s.op = "UPSERT" /\ s.set = list /\ s.where = <<>> /\ s.params = Q
  BY <1>1, Parts
<1> HIDE DEF s
<1>13. Inserted(s) = ToSet(cols)
  <2>1. DOMAIN Q = 1..n
    BY <1>6, ListFacts
  <2>2. \A i \in 1..n : list[i].col = cols[i]
    BY <1>5, <1>11
  <2>3. {list[i].col : i \in 1..n} = {cols[i] : i \in 1..n}
    BY <2>2
  <2> QED  BY <1>2, <1>12, <2>1, <2>3 DEF Inserted, ToSet
<1>14. ASSUME ToSet(set) \subseteq ToSet(cols) PROVE BoundAsMeant(s)
  <2>1. ASSUME NEW i \in DOMAIN list PROVE list[i].ph \in 1..n /\ Q[list[i].ph] = list[i].val
    <3>1. CASE i \in 1..n
      BY <1>7, <1>11, <3>1
    <3>2. CASE i - n \in 1..m
      <4>1. PICK j \in 1..m : i = n + j
        <5>1. PICK j \in 1..m : j = i - n
          BY <3>2
        <5>2. i = n + j
          BY <1>11, <5>1
        <5> QED  BY <5>2
      <4>2. list[i] = update[j] /\ set[j] \in ToSet(cols)
        BY <1>8, <1>11, <1>14, <4>1 DEF ToSet
      <4>3. PICK k \in 1..n : k = IndexOf(cols, set[j]) /\ cols[k] = set[j]
        BY <1>2, <4>2, IndexFacts
      <4>4. list[i].ph = k /\ list[i].val = <<Field(row, cols[k])>>
        BY <1>9, <4>2, <4>3
      <4>5. Q[k] = <<Field(row, cols[k])>>
        BY <1>5, <1>7
      <4> QED  BY <4>4, <4>5
    <3> QED  BY <1>11, <3>1, <3>2
  <2>2. ASSUME NEW k \in 1..n PROVE \E i \in DOMAIN list : list[i].how = "param" /\ list[i].ph = k
    <3>1. k \in DOMAIN list /\ list[k].how = "param" /\ list[k].ph = k
      BY <1>4, <1>7, <1>11
    <3> QED  BY <3>1
  <2>3. 0 + 1 = 1
    OBVIOUS
  <2>4. Fits(list, 0, n, Q)
    BY <1>11, <2>1, <2>2, <2>3 DEF Fits
  <2>5. Fits(<<>>, n, n, Q)
    BY EmptyFits
  <2> QED  BY <1>6, <1>12, <2>4, <2>5, FitsMeant
<1> QED  BY <1>12, <1>13, <1>14 DEF s

\* UPDATE of literals only.
LEMMA StaticFacts ==
    ASSUME NEW p, IsPayload(p), NEW rows, NEW i \in DOMAIN StaticUpdate(p, rows).stmts
    PROVE  LET s == StaticUpdate(p, rows).stmts[i]
           IN  /\ BoundAsMeant(s) /\ s.op = "UPDATE" /\ s.where # <<>>
               /\ Conditions(p) \subseteq ColsOf(s.where)
               /\ ColsOf(s.set) \subseteq ToSet(p.columns) \cup DOMAIN p.static
               /\ DOMAIN p.static \ (ToSet(p.columns) \cup DOMAIN p.staticWhere) \subseteq ColsOf(s.set)
<1> DEFINE pred == BuildWritePredicate(p.staticWhere)
           row == DataRow(rows[1], NormalizeEnumValues(p))
           fromRow == Filter(p.columns, DOMAIN row)
           literals == Without(Keys(p.static), ToSet(p.columns) \cup DOMAIN p.staticWhere)
           its == Pairs(fromRow, LAMBDA c : row[c])
           lits == Pairs(literals, LAMBDA c : p.static[c])
           first == Numbered(its, 0, AsParam)
           second == Numbered(lits, Len(first), AsLiteral)
           set == first \o second
           test == PredicateToSQL(pred, Len(Params(set)) + 1)
           s == Statement("UPDATE", set, test, ParamVals(set) \o ParamVals(test))
<1>1. StaticUpdate(p, rows) = IF pred = <<>> THEN Throw ELSE Send(0, <<s>>)
  BY Zenon DEF StaticUpdate
<1>2. p.columns \in ColumnSeq /\ DOMAIN p.static \subseteq ToSet(Columns)
  BY DEF IsPayload, ColumnSeq
<1>3. fromRow \in ColumnSeq /\ ToSet(fromRow) \subseteq ToSet(p.columns)
  BY <1>2, ColumnFacts
<1>4. /\ literals \in ColumnSeq
      /\ ToSet(literals) = DOMAIN p.static \ (ToSet(p.columns) \cup DOMAIN p.staticWhere)
  <2>1. Keys(p.static) \in ColumnSeq /\ ToSet(Keys(p.static)) = DOMAIN p.static
    BY <1>2, KeysFacts
  <2> QED  BY <2>1, ColumnFacts
<1> HIDE DEF row, fromRow, literals
<1>4a. /\ DOMAIN its = DOMAIN fromRow /\ \A k \in DOMAIN fromRow : its[k][1] = fromRow[k]
       /\ DOMAIN lits = DOMAIN literals /\ \A k \in DOMAIN literals : lits[k][1] = literals[k]
  BY DEF Pairs
<1> HIDE DEF its, lits
<1>5. IsColumnClause(first, fromRow, 0) /\ Len(Params(first)) = Len(fromRow)
  BY <1>3, <1>4a, ItemsClause
<1>6. IsColumnClause(second, literals, Len(first))
  BY <1>4, <1>4a, ItemsClause
<1> HIDE DEF first, second
<1>7. /\ Counted(first, 0) /\ IsList(first) /\ ColsOf(first) = ToSet(fromRow)
      /\ Counted(second, Len(first)) /\ IsList(second) /\ ColsOf(second) = ToSet(literals)
      /\ Len(Params(first)) = Len(first)
  BY <1>5, <1>6 DEF IsColumnClause
<1>8. Counted(set, 0)
  <2>1. 0 + Len(Params(first)) = Len(first)
    BY <1>7, ListFacts
  <2> QED  BY <1>7, <2>1, CountedJoin
<1>9. ColsOf(set) = ToSet(fromRow) \cup ToSet(literals)
  BY <1>7, JoinedCols
<1> HIDE DEF set
<1>10. Len(Params(set)) \in Nat
  BY <1>8, ParamsFacts DEF Counted
<1>11. /\ Counted(test, Len(Params(set))) /\ ColsOf(test) = Conditions(p)
       /\ (Conditions(p) # {} => test # <<>>)
  BY <1>10, ConditionClause
<1>12. pred = <<>> <=> Conditions(p) = {}
  BY PredicateFacts
<1> HIDE DEF test, pred
<1>13. BoundAsMeant(s)
  BY <1>8, <1>11, TwoClauses
<1>14. s.op = "UPDATE" /\ s.set = set /\ s.where = test
  BY Parts
<1> HIDE DEF s
<1>15. pred # <<>> /\ StaticUpdate(p, rows).stmts[i] = s
  <2>1. Throw.stmts = <<>> /\ Send(0, <<s>>).stmts = <<s>>
    BY DEF Throw, Send
  <2>2. DOMAIN <<>> = {}
    OBVIOUS
  <2>3. pred # <<>>
    BY <1>1, <2>1, <2>2
  <2>4. StaticUpdate(p, rows).stmts = <<s>>
    BY <1>1, <2>1, <2>3
  <2> QED  BY <2>3, <2>4
<1> QED  BY <1>3, <1>4, <1>9, <1>11, <1>12, <1>13, <1>14, <1>15

\* An element put behind a list.
LEMMA Appended ==
    ASSUME NEW T, NEW V \in Seq(T), NEW v \in T
    PROVE  /\ Len(V) \in Nat /\ Len(Append(V, v)) = Len(V) + 1 /\ Append(V, v)[Len(V) + 1] = v
           /\ \A k \in 1..Len(V) : Append(V, v)[k] = V[k]
OBVIOUS

\* The row-driven UPDATE.
LEMMA RowDrivenFacts ==
    ASSUME NEW p, IsPayload(p), NEW rows, NEW i \in DOMAIN RowDrivenUpdate(p, rows).stmts
    PROVE  LET s == RowDrivenUpdate(p, rows).stmts[i]
           IN  /\ BoundAsMeant(s) /\ s.op = "UPDATE" /\ s.where # <<>>
               /\ ColsOf(s.set) = DOMAIN p.static
<1> DEFINE col == p.where[1]
           vals == Without([k \in DOMAIN rows |-> Field(rows[k], col)], {Null, Undefined})
           lits == Pairs(Keys(p.static), LAMBDA c : p.static[c])
           set == Numbered(lits, 0, AsLiteral)
           any == Entry(col, "param", Len(Params(set)) + 1, vals)
           Q == Append(ParamVals(set), vals)
           s == Statement("UPDATE", set, <<any>>, Q)
<1>1. RowDrivenUpdate(p, rows) = IF vals = <<>> \/ set = <<>> THEN Throw ELSE Send(0, <<s>>)
  BY Zenon DEF RowDrivenUpdate
<1>2. Keys(p.static) \in ColumnSeq /\ ToSet(Keys(p.static)) = DOMAIN p.static
  <2>1. DOMAIN p.static \subseteq ToSet(Columns)
    BY DEF IsPayload
  <2> QED  BY <2>1, KeysFacts
<1>3. /\ DOMAIN lits = DOMAIN Keys(p.static)
      /\ \A k \in DOMAIN Keys(p.static) : lits[k][1] = Keys(p.static)[k]
  BY DEF Pairs
<1> HIDE DEF lits, vals, col
<1>4. IsColumnClause(set, Keys(p.static), 0)
  BY <1>2, <1>3, ItemsClause
<1> HIDE DEF set
<1>5. Counted(set, 0) /\ IsList(set) /\ ColsOf(set) = DOMAIN p.static
  BY <1>2, <1>4 DEF IsColumnClause
<1>6. PICK n \in Nat : n = Len(ParamVals(set)) /\ n = Len(Params(set)) /\ IsList(ParamVals(set))
  BY <1>5, ParamsFacts
<1>7. Len(Q) = n + 1 /\ Q[n + 1] = vals /\ \A k \in 1..n : Q[k] = ParamVals(set)[k]
  <2>1. PICK V : V = ParamVals(set)
    OBVIOUS
  <2>2. IsList(V) /\ n = Len(V)
    BY <1>6, <2>1
  <2>3. PICK T : V \in Seq(T) /\ vals \in T
    <3> DEFINE T == ToSet(V) \cup {vals}
    <3>1. V \in Seq(T) /\ vals \in T
      BY <2>2 DEF IsList
    <3> QED  BY <3>1
  <2>4. /\ Len(Append(V, vals)) = n + 1 /\ Append(V, vals)[n + 1] = vals
        /\ \A k \in 1..n : Append(V, vals)[k] = V[k]
    BY <2>2, <2>3, Appended
  <2>5. Q = Append(V, vals)
    BY <2>1
  <2> HIDE DEF Q
  <2> QED  BY <2>1, <2>4, <2>5
<1>8. any.how = "param" /\ any.ph = n + 1 /\ any.val = vals
  BY <1>6 DEF Entry
<1> HIDE DEF Q, any
<1>9. s.op = "UPDATE" /\ s.set = set /\ s.where = <<any>> /\ s.params = Q
  BY Parts
<1> HIDE DEF s
<1>10. Fits(set, 0, n, Q)
  <2>1. \A k \in 1..n : Q[0 + k] = ParamVals(set)[k]
    BY <1>7
  <2>2. Fits(set, 0, 0 + n, Q)
    BY <1>5, <1>6, <2>1, CountedFits
  <2>3. 0 + n = n
    OBVIOUS
  <2> QED  BY <2>2, <2>3
<1>11. Fits(<<any>>, n, n + 1, Q)
  <2>1. IsList(<<any>>) /\ DOMAIN <<any>> = {1} /\ <<any>>[1] = any
    BY DEF IsList, ToSet
  <2>2. \A k \in n + 1..n + 1 : k = n + 1
    OBVIOUS
  <2> QED  BY <1>7, <1>8, <2>1, <2>2 DEF Fits
<1>12. BoundAsMeant(s)
  <2>1. n <= n + 1 /\ n + 1 \in Nat
    OBVIOUS
  <2> QED  BY <1>7, <1>9, <1>10, <1>11, <2>1, FitsMeant
<1>13. RowDrivenUpdate(p, rows).stmts[i] = s
  <2>1. Throw.stmts = <<>> /\ Send(0, <<s>>).stmts = <<s>> /\ DOMAIN <<>> = {}
    BY DEF Throw, Send
  <2>2. RowDrivenUpdate(p, rows).stmts = <<s>>
    BY <1>1, <2>1
  <2> QED  BY <2>2
<1>14. s.where # <<>>
  BY <1>9
<1> QED  BY <1>5, <1>9, <1>12, <1>13, <1>14

\* The cursor path.
LEMMA CursorFacts ==
    ASSUME NEW p, IsPayload(p), NEW ids, NEW i \in DOMAIN CursorStatement(p, ids).stmts
    PROVE  LET s == CursorStatement(p, ids).stmts[i]
           IN  /\ s.where # <<>> /\ p.mode \in {"update", "delete"}
               /\ (p.mode = "update" => s.op = "UPDATE")
               /\ (p.mode = "delete" => s.op = "DELETE" /\ BoundAsMeant(s))
               /\ ColsOf(s.set) \subseteq ToSet(p.columns) \cup DOMAIN p.static
               /\ (p.mode = "update" => DOMAIN p.static \subseteq ColsOf(s.set))
<1> DEFINE test == BuildWhereFromCursor(ids, 1)
           setCols == Without(p.columns, ToSet(p.where))
           all == Union(setCols, Keys(p.static))
           items == Pairs(all, LAMBDA c : IF c \in DOMAIN p.static THEN p.static[c] ELSE Null)
           set == Numbered(items, 0, AsParam)
           d == Statement("DELETE", <<>>, test, <<ids>>)
           u == Statement("UPDATE", set, test, ParamVals(set) \o <<ids>>)
<1>1. CursorStatement(p, ids) = IF p.mode = "delete" THEN Send(0, <<d>>)
                                ELSE IF p.mode # "update" \/ all = <<>> THEN Throw
                                ELSE Send(0, <<u>>)
  BY Zenon DEF CursorStatement
<1>2. /\ all \in ColumnSeq
      /\ ToSet(all) \subseteq ToSet(p.columns) \cup DOMAIN p.static
      /\ DOMAIN p.static \subseteq ToSet(all)
  <2>1. p.columns \in ColumnSeq /\ DOMAIN p.static \subseteq ToSet(Columns)
    BY DEF IsPayload, ColumnSeq
  <2>2. setCols \in ColumnSeq /\ ToSet(setCols) \subseteq ToSet(p.columns)
    BY <2>1, ColumnFacts
  <2>3. Keys(p.static) \in ColumnSeq /\ ToSet(Keys(p.static)) = DOMAIN p.static
    BY <2>1, KeysFacts
  <2> HIDE DEF setCols
  <2> QED  BY <2>2, <2>3, UnionFacts
<1> HIDE DEF all
<1>3. DOMAIN items = DOMAIN all /\ \A k \in DOMAIN all : items[k][1] = all[k]
  BY DEF Pairs
<1> HIDE DEF items
<1>4. ColsOf(set) = ToSet(all)
  BY <1>2, <1>3, ItemsClause DEF IsColumnClause
<1> HIDE DEF set
<1>5. PICK e : test = <<e>> /\ e.how = "param" /\ e.ph = 1 /\ e.val = ids
  <2>1. PICK e : e = Entry("id", "param", 1, ids) /\ test = <<e>>
    BY Zenon DEF BuildWhereFromCursor
  <2>2. e.how = "param" /\ e.ph = 1 /\ e.val = ids
    BY <2>1 DEF Entry
  <2> QED  BY <2>1, <2>2
<1> HIDE DEF test
<1>6. d.op = "DELETE" /\ d.set = <<>> /\ d.where = test /\ d.params = <<ids>>
  BY Parts
<1>7. u.op = "UPDATE" /\ u.set = set /\ u.where = test
  BY Parts
<1> HIDE DEF d, u
<1>8. BoundAsMeant(d)
  <2>1. Fits(<<>>, 0, 0, <<ids>>)
    BY EmptyFits
  <2>2. Fits(test, 0, 1, <<ids>>)
    <3>1. IsList(test) /\ DOMAIN test = {1} /\ test[1] = e /\ <<ids>>[1] = ids
      BY <1>5 DEF IsList, ToSet
    <3>2. 0 + 1 = 1 /\ \A k \in 1..1 : k = 1
      OBVIOUS
    <3> QED  BY <1>5, <3>1, <3>2 DEF Fits
  <2>3. Len(<<ids>>) = 1 /\ 0 <= 1
    OBVIOUS
  <2> QED  BY <1>6, <2>1, <2>2, <2>3, FitsMeant
<1>9. Throw.stmts = <<>> /\ (\A s : Send(0, <<s>>).stmts = <<s>>) /\ DOMAIN <<>> = {}
  BY DEF Throw, Send
<1>10. test # <<>>
  BY <1>5
<1>11. CASE p.mode = "delete"
  <2>1. CursorStatement(p, ids).stmts = <<d>>
    BY <1>1, <1>9, <1>11
  <2>2. CursorStatement(p, ids).stmts[i] = d
    BY <2>1
  <2>3. ColsOf(<<>>) = {}
    BY DEF ColsOf
  <2> QED  BY <1>6, <1>8, <1>10, <1>11, <2>2, <2>3
<1>12. CASE p.mode # "delete"
  <2>1. p.mode = "update" /\ CursorStatement(p, ids).stmts = <<u>>
    BY <1>1, <1>9, <1>12
  <2>2. CursorStatement(p, ids).stmts[i] = u
    BY <2>1
  <2> QED  BY <1>2, <1>4, <1>7, <1>10, <2>1, <2>2
<1> QED  BY <1>11, <1>12

-----------------------------------------------------------------------------
(* The statements of the Calcite path.                                     *)

\* Text behind a clause changes none of its parameters.
LEMMA ParamsKept ==
    ASSUME NEW a, NEW b, IsList(a), IsList(b), \A k \in DOMAIN b : b[k].how # "param"
    PROVE  ParamVals(a \o b) = ParamVals(a)
<1> DEFINE c == a \o b
           V == ParamVals(c)
           W == ParamVals(a)
<1>1. /\ IsList(c) /\ DOMAIN c = 1..Len(a) + Len(b) /\ Len(a) \in Nat /\ Len(b) \in Nat
      /\ \A i \in 1..Len(a) : c[i] = a[i]
      /\ \A i \in 1..Len(b) : c[Len(a) + i] = b[i]
      /\ \A i \in DOMAIN c : i \in 1..Len(a) \/ i - Len(a) \in 1..Len(b)
      /\ DOMAIN a = 1..Len(a) /\ DOMAIN b = 1..Len(b)
  BY Joined, ListFacts
<1>2. \A i \in 0..Len(a) : ParamRank(c, i) = ParamRank(a, i)
  BY JoinedRank
<1>3. Len(Params(b)) = 0
  BY NoParams
<1> HIDE DEF c
<1>4. /\ IsList(V) /\ \A k \in 1..Len(V) : \E i \in DOMAIN c : c[i].how = "param" /\ ParamRank(c, i) = k
      /\ \A i \in DOMAIN c : c[i].how = "param" =>
            ParamRank(c, i) \in 1..Len(V) /\ V[ParamRank(c, i)] = c[i].val
  BY <1>1, ParamsFacts
<1>5. /\ IsList(W)
      /\ \A i \in DOMAIN a : a[i].how = "param" =>
            ParamRank(a, i) \in 1..Len(W) /\ W[ParamRank(a, i)] = a[i].val
      /\ \A k \in 1..Len(W) : \E i \in DOMAIN a : a[i].how = "param" /\ ParamRank(a, i) = k
  BY ParamsFacts
<1> HIDE DEF V, W
<1>6. ASSUME NEW k \in 1..Len(V) PROVE k \in 1..Len(W) /\ V[k] = W[k]
  <2>1. PICK i \in DOMAIN c : c[i].how = "param" /\ ParamRank(c, i) = k
    BY <1>4
  <2>2. i \in 1..Len(a)
    <3>1. SUFFICES ASSUME i - Len(a) \in 1..Len(b) PROVE FALSE
      BY <1>1
    <3>2. PICK j \in 1..Len(b) : j = i - Len(a)
      BY <3>1
    <3>3. i = Len(a) + j
      BY <1>1, <3>2
    <3> QED  BY <1>1, <2>1, <3>3
  <2>3. i \in DOMAIN a /\ c[i] = a[i] /\ i \in 0..Len(a)
    BY <1>1, <2>2
  <2> QED  BY <1>2, <1>4, <1>5, <2>1, <2>3
<1>7. ASSUME NEW k \in 1..Len(W) PROVE k \in 1..Len(V)
  <2>1. PICK i \in DOMAIN a : a[i].how = "param" /\ ParamRank(a, i) = k
    BY <1>5
  <2>2. i \in DOMAIN c /\ c[i] = a[i] /\ i \in 0..Len(a)
    BY <1>1
  <2> QED  BY <1>2, <1>4, <2>1, <2>2
<1>8. PICK m \in Nat, n \in Nat : m = Len(V) /\ n = Len(W)
  BY <1>4, <1>5, ListFacts
<1>9. m = n
  BY <1>6, <1>7, <1>8
<1>10. V = [k \in 1..m |-> V[k]] /\ W = [k \in 1..m |-> W[k]]
  <2>1. \A L : IsList(L) => L = [k \in 1..Len(L) |-> L[k]]
    BY DEF IsList
  <2> QED  BY <1>4, <1>5, <1>8, <1>9, <2>1
<1>11. \A k \in 1..m : V[k] = W[k]
  BY <1>6, <1>8
<1> QED  BY <1>10, <1>11 DEF V, W, c

\* compileInsert.
LEMMA CompileInsertFacts ==
    ASSUME NEW p, IsPayload(p), NEW value
    PROVE  LET s == CompileInsert(p, value)
           IN  /\ BoundAsMeant(s) /\ s.where = <<>>
               /\ s.op = CASE p.mode = "insert" -> "INSERT"
                           [] p.mode = "insert_ignore" -> "INSERT_IGNORE"
                           [] OTHER -> "UPSERT"
<1> DEFINE cols == Without(p.columns, DOMAIN p.static)
           its == Pairs(cols, LAMBDA c : value[c])
           fromRow == Numbered(its, 0, AsParam)
           own == Pairs(Keys(p.static), LAMBDA c : p.static[c])
           lits == Numbered(own, Len(fromRow), AsParam)
           op == CASE p.mode = "insert" -> "INSERT" [] p.mode = "insert_ignore" -> "INSERT_IGNORE"
                   [] OTHER -> "UPSERT"
           set == fromRow \o lits
           s == CompileInsert(p, value)
<1>1. s = Statement(op, set, <<>>, ParamVals(set))
  BY Zenon DEF CompileInsert
<1>2. cols \in ColumnSeq /\ Keys(p.static) \in ColumnSeq
  <2>1. p.columns \in ColumnSeq
    BY DEF IsPayload, ColumnSeq
  <2> QED  BY <2>1, ColumnFacts, KeysFacts
<1>3. /\ DOMAIN its = DOMAIN cols /\ \A k \in DOMAIN cols : its[k][1] = cols[k]
      /\ DOMAIN own = DOMAIN Keys(p.static)
      /\ \A k \in DOMAIN Keys(p.static) : own[k][1] = Keys(p.static)[k]
  BY DEF Pairs
<1> HIDE DEF cols, its, own
<1>4. IsColumnClause(fromRow, cols, 0) /\ Len(Params(fromRow)) = Len(cols)
  BY <1>2, <1>3, ItemsClause
<1>5. IsColumnClause(lits, Keys(p.static), Len(fromRow))
  BY <1>2, <1>3, ItemsClause
<1> HIDE DEF fromRow, lits, op
<1>6. Counted(set, 0)
  <2>1. /\ Counted(fromRow, 0) /\ IsList(fromRow) /\ Len(Params(fromRow)) = Len(fromRow)
        /\ Counted(lits, Len(fromRow))
    BY <1>4, <1>5 DEF IsColumnClause
  <2>2. 0 + Len(Params(fromRow)) = Len(fromRow)
    BY <2>1, ListFacts
  <2> QED  BY <2>1, <2>2, CountedJoin
<1> HIDE DEF set
<1>7. BoundAsMeant(s)
  BY <1>1, <1>6, OneClause
<1>8. s.op = op /\ s.where = <<>>
  BY <1>1, Parts
<1> QED  BY <1>7, <1>8 DEF s, op

\* Conditions of the row, then the literal ones as text.
LEMMA CompileWhereFacts ==
    ASSUME NEW p, IsPayload(p), NEW value, NEW off \in Nat
    PROVE  LET where == CompileWhere(p, value, off)
           IN  /\ Counted(where, off)
               /\ ColsOf(where) = ToSet(p.where) \cup Conditions(p)
               /\ (p.where # <<>> \/ BuildWritePredicate(p.staticWhere) # <<>> => where # <<>>)
<1> DEFINE its == Pairs(p.where, LAMBDA c : value[c])
           pred == BuildWritePredicate(p.staticWhere)
           row == Numbered(its, off, AsParam)
           text == Numbered(pred, 0, LAMBDA v : AsTextCondition(p.mode, v))
           where == row \o text
<1>1. CompileWhere(p, value, off) = where
  BY Zenon DEF CompileWhere
<1>2. p.where \in ColumnSeq
  BY DEF IsPayload, ColumnSeq
<1>3. DOMAIN its = DOMAIN p.where /\ \A k \in DOMAIN p.where : its[k][1] = p.where[k]
  BY DEF Pairs
<1> HIDE DEF its
<1>4. PICK n \in Nat : /\ DOMAIN pred = 1..n /\ {pred[i][1] : i \in 1..n} = Conditions(p)
                       /\ (pred = <<>> <=> n = 0)
  BY PredicateFacts
<1>5. PICK hows : hows = [i \in 1..n |-> AsTextCondition(p.mode, pred[i][2])] /\ text = Clause(pred, 0, hows)
  BY <1>4, Zenon DEF Numbered
<1> HIDE DEF text, pred
<1>6. IsClause(text, pred, n, 0) /\ \A i \in 1..n : text[i].how = hows[i]
  BY <1>4, <1>5, ClauseCounted
<1>7. \A i \in 1..n : hows[i] # "param"
  BY <1>5 DEF AsTextCondition
<1>8. IsList(text) /\ Len(text) = n /\ \A i \in DOMAIN text : text[i].how # "param"
  BY <1>6, <1>7 DEF IsClause
<1>9. Len(Params(text)) = 0 /\ \A o : Counted(text, o)
  BY <1>8, NoParams
<1>10. ColsOf(text) = Conditions(p)
  <2>1. ColsOf(text) = {pred[i][1] : i \in 1..n}
    BY <1>6, ClauseCols
  <2> QED  BY <1>4, <2>1
<1>11. IsColumnClause(row, p.where, off)
  BY <1>2, <1>3, ItemsClause
<1> HIDE DEF row
<1>12. Counted(row, off) /\ IsList(row) /\ ColsOf(row) = ToSet(p.where) /\ Len(row) = Len(p.where)
  BY <1>11 DEF IsColumnClause
<1>13. Counted(where, off)
  BY <1>9, <1>12, CountedJoin
<1>14. ColsOf(where) = ToSet(p.where) \cup Conditions(p)
  BY <1>8, <1>10, <1>12, JoinedCols
<1>15. p.where # <<>> \/ pred # <<>> => where # <<>>
  <2>1. Len(where) = Len(row) + n
    BY <1>8, <1>12, Joined
  <2>2. Len(p.where) \in Nat /\ (p.where = <<>> <=> Len(p.where) = 0)
    BY <1>2, ColumnFacts
  <2>3. Len(<<>>) = 0
    OBVIOUS
  <2> HIDE DEF where
  <2> QED  BY <1>4, <1>12, <2>1, <2>2, <2>3
<1> QED  BY <1>1, <1>13, <1>14, <1>15 DEF pred

\* compileUpdate.
LEMMA CompileUpdateFacts ==
    ASSUME NEW p, IsPayload(p), NEW value
    PROVE  LET s == CompileUpdate(p, value)
           IN  /\ BoundAsMeant(s) /\ s.op = "UPDATE"
               /\ ColsOf(s.set) = ToSet(p.columns) \cup DOMAIN p.static
               /\ Conditions(p) \subseteq ColsOf(s.where)
               /\ (p.where # <<>> \/ BuildWritePredicate(p.staticWhere) # <<>> => s.where # <<>>)
<1> DEFINE its == Pairs(p.columns, LAMBDA c : value[c])
           first == Numbered(its, 0, AsParam)
           more == Without(Keys(p.static), ToSet(p.columns))
           own == Pairs(more, LAMBDA c : p.static[c])
           lits == Numbered(own, 0, AsText)
           set == first \o lits
           where == CompileWhere(p, value, Len(first))
           s == CompileUpdate(p, value)
<1>1. s = Statement("UPDATE", set, where, ParamVals(first) \o ParamVals(where))
  BY Zenon DEF CompileUpdate
<1>2. /\ p.columns \in ColumnSeq /\ more \in ColumnSeq
      /\ ToSet(more) = DOMAIN p.static \ ToSet(p.columns)
  <2>1. p.columns \in ColumnSeq /\ DOMAIN p.static \subseteq ToSet(Columns)
    BY DEF IsPayload, ColumnSeq
  <2>2. Keys(p.static) \in ColumnSeq /\ ToSet(Keys(p.static)) = DOMAIN p.static
    BY <2>1, KeysFacts
  <2> QED  BY <2>1, <2>2, ColumnFacts
<1> HIDE DEF more
<1>3. /\ DOMAIN its = DOMAIN p.columns /\ \A k \in DOMAIN p.columns : its[k][1] = p.columns[k]
      /\ DOMAIN own = DOMAIN more /\ \A k \in DOMAIN more : own[k][1] = more[k]
  BY DEF Pairs
<1> HIDE DEF its, own
<1>4. IsColumnClause(first, p.columns, 0) /\ Len(Params(first)) = Len(p.columns)
  BY <1>2, <1>3, ItemsClause
<1>5. IsColumnClause(lits, more, 0) /\ \A k \in DOMAIN lits : lits[k].how # "param"
  <2>1. Len(more) \in Nat /\ DOMAIN more = 1..Len(more)
    BY <1>2, ColumnFacts
  <2>2. IsClause(lits, own, Len(more), 0) /\ \A i \in 1..Len(more) : lits[i].how # "param"
    BY <1>3, <2>1, NumberedText
  <2>3. IsColumnClause(lits, more, 0)
    BY <1>2, <1>3, <2>2, ColumnClause
  <2> QED  BY <2>2, <2>3 DEF IsClause
<1> HIDE DEF first, lits
<1>6. /\ Counted(first, 0) /\ IsList(first) /\ ColsOf(first) = ToSet(p.columns)
      /\ IsList(lits) /\ ColsOf(lits) = ToSet(more)
      /\ Len(Params(first)) = Len(first) /\ Len(first) \in Nat
  BY <1>4, <1>5, ListFacts DEF IsColumnClause
<1>7. Counted(lits, 0 + Len(Params(first))) /\ Len(Params(lits)) = 0
  BY <1>5, <1>6, NoParams
<1>8. Counted(set, 0) /\ Len(Params(set)) = Len(first)
  BY <1>6, <1>7, CountedJoin
<1>9. ColsOf(set) = ToSet(p.columns) \cup DOMAIN p.static
  <2>1. ColsOf(set) = ToSet(p.columns) \cup ToSet(more)
    BY <1>6, JoinedCols
  <2> QED  BY <1>2, <2>1
<1>10. /\ Counted(where, Len(first))
       /\ ColsOf(where) = ToSet(p.where) \cup Conditions(p)
       /\ (p.where # <<>> \/ BuildWritePredicate(p.staticWhere) # <<>> => where # <<>>)
  BY <1>6, CompileWhereFacts
<1>11. ParamVals(set) = ParamVals(first)
  BY <1>5, <1>6, ParamsKept
<1> HIDE DEF set, where
<1>12. BoundAsMeant(s)
  BY <1>1, <1>8, <1>10, <1>11, TwoClauses
<1>13. s.op = "UPDATE" /\ s.set = set /\ s.where = where
  BY <1>1, Parts
<1> QED  BY <1>9, <1>10, <1>12, <1>13 DEF s

\* compileDelete.
LEMMA CompileDeleteFacts ==
    ASSUME NEW p, IsPayload(p), NEW value
    PROVE  LET s == CompileDelete(p, value)
           IN  /\ BoundAsMeant(s) /\ s.op = "DELETE"
               /\ Conditions(p) \subseteq ColsOf(s.where)
               /\ (p.where # <<>> \/ BuildWritePredicate(p.staticWhere) # <<>> => s.where # <<>>)
<1> DEFINE where == CompileWhere(p, value, 0)
           s == CompileDelete(p, value)
<1>1. s = Statement("DELETE", <<>>, where, ParamVals(where))
  BY Zenon DEF CompileDelete
<1>2. /\ Counted(where, 0)
      /\ ColsOf(where) = ToSet(p.where) \cup Conditions(p)
      /\ (p.where # <<>> \/ BuildWritePredicate(p.staticWhere) # <<>> => where # <<>>)
  BY CompileWhereFacts
<1> HIDE DEF where
<1>3. BoundAsMeant(s)
  BY <1>1, <1>2, OneClause
<1>4. s.op = "DELETE" /\ s.where = where
  BY <1>1, Parts
<1> QED  BY <1>2, <1>3, <1>4 DEF s

-----------------------------------------------------------------------------
(* The paths.                                                              *)

\* Rows are a list.
IsRows(rows) == Len(rows) \in Nat /\ DOMAIN rows = 1..Len(rows)

\* What a path sends: a list of statements, or none when it throws.
LEMMA PlanStatements ==
    ASSUME NEW x
    PROVE  /\ \A tx, stmts : x = Send(tx, stmts) => x.stmts = stmts
           /\ x = Throw \/ x = [Throw EXCEPT !.tx = 1] => DOMAIN x.stmts = {}
<1>1. ASSUME NEW tx, NEW stmts, x = Send(tx, stmts) PROVE x.stmts = stmts
  BY <1>1 DEF Send
<1>2. ASSUME x = Throw \/ x = [Throw EXCEPT !.tx = 1] PROVE DOMAIN x.stmts = {}
  BY <1>2 DEF Throw
<1> QED  BY <1>1, <1>2

\* A statement of RunMode, for the mode of its payload.
AsMode(s, p, cols) ==
    /\ p.mode = "insert" => s.op = "INSERT" /\ BoundAsMeant(s)
    /\ p.mode = "insert_ignore" => s.op = "INSERT_IGNORE" /\ BoundAsMeant(s)
    /\ p.mode = "upsert" => \/ s.op = "INSERT_IGNORE" /\ BoundAsMeant(s)
                            \/ s.op = "UPSERT" /\ (BoundAsMeant(s) \/ ~(ToSet(p.update) \subseteq Inserted(s)))
    /\ p.mode = "update" => /\ s.op = "UPDATE" /\ BoundAsMeant(s) /\ s.where # <<>>
                            /\ Conditions(p) \subseteq ColsOf(s.where)
                            /\ ColsOf(s.set) \subseteq ToSet(cols)
    /\ p.mode = "delete" => s.op = "DELETE" /\ BoundAsMeant(s) /\ s.where # <<>>

\* RunMode, mode by mode.
LEMMA RunInsertFacts ==
    ASSUME NEW op, NEW cols \in ColumnSeq, NEW rows, IsRows(rows), NEW static, NEW tx,
           NEW i \in DOMAIN RunInsert(op, cols, rows, static, tx).stmts
    PROVE  LET s == RunInsert(op, cols, rows, static, tx).stmts[i]
           IN  BoundAsMeant(s) /\ s.op = op
<1> DEFINE all == Union(cols, Keys(static))
           stmts == [b \in 1..Batches(Len(rows)) |-> InsertStatement(op, all, rows, static, b)]
<1>1. RunInsert(op, cols, rows, static, tx) = Send(tx + 1, stmts)
  BY Zenon DEF RunInsert
<1>2. all \in ColumnSeq
  BY KeysFacts, UnionFacts
<1> HIDE DEF all
<1>3. Len(rows) \in Nat
  BY DEF IsRows
<1>4. RunInsert(op, cols, rows, static, tx).stmts = stmts
  BY <1>1, PlanStatements
<1>5. i \in 1..Batches(Len(rows)) /\ stmts[i] = InsertStatement(op, all, rows, static, i)
  BY <1>4
<1>6. i \in Nat \ {0}
  <2>1. \A m : \A k \in 1..m : k \in Int /\ k >= 1
    OBVIOUS
  <2> QED  BY <1>5, <2>1
<1>7. LET s == InsertStatement(op, all, rows, static, i) IN BoundAsMeant(s) /\ s.op = op
  BY <1>2, <1>3, <1>6, InsertFacts
<1> HIDE DEF stmts
<1> QED  BY <1>4, <1>5, <1>7

LEMMA RunUpdateFacts ==
    ASSUME NEW p, IsPayload(p), NEW cols \in ColumnSeq, NEW rows, p.mode = "update",
           NEW i \in DOMAIN RunUpdate(p, cols, rows).stmts
    PROVE  AsMode(RunUpdate(p, cols, rows).stmts[i], p, cols)
<1> DEFINE set == Without(cols, ToSet(p.where))
           stmts == [k \in DOMAIN rows |-> UpdateStatement(p, set, rows[k])]
           none == BuildWritePredicate(p.staticWhere) = <<>> /\ p.where = <<>>
<1>1. \/ RunUpdate(p, cols, rows) = [Throw EXCEPT !.tx = 1]
      \/ ~none /\ RunUpdate(p, cols, rows) = Send(1, stmts)
  BY Zenon DEF RunUpdate
<1>2. set \in ColumnSeq /\ ToSet(set) \subseteq ToSet(cols)
  BY ColumnFacts
<1> HIDE DEF set
<1>3. ~none /\ RunUpdate(p, cols, rows).stmts = stmts
  <2>1. RunUpdate(p, cols, rows) # [Throw EXCEPT !.tx = 1]
    BY PlanStatements, Zenon
  <2> QED  BY <1>1, <2>1, PlanStatements, Zenon
<1>4. i \in DOMAIN rows /\ stmts[i] = UpdateStatement(p, set, rows[i])
  BY <1>3
<1>5. BuildWritePredicate(p.staticWhere) = <<>> <=> Conditions(p) = {}
  BY PredicateFacts
<1> HIDE DEF stmts
<1>6. PICK s : s = UpdateStatement(p, set, rows[i])
  OBVIOUS
<1>7. /\ BoundAsMeant(s) /\ s.op = "UPDATE" /\ ColsOf(s.set) = ToSet(set)
      /\ Conditions(p) \subseteq ColsOf(s.where)
      /\ (Conditions(p) # {} \/ p.where # <<>> => s.where # <<>>)
  BY <1>2, <1>6, UpdateFacts
<1>8. AsMode(s, p, cols)
  BY <1>2, <1>3, <1>5, <1>7 DEF AsMode
<1> QED  BY <1>3, <1>4, <1>6, <1>8

LEMMA RunUpsertFacts ==
    ASSUME NEW p, IsPayload(p), NEW cols \in ColumnSeq, NEW rows, IsRows(rows), p.mode = "upsert",
           NEW i \in DOMAIN RunUpsert(p, cols, rows).stmts
    PROVE  AsMode(RunUpsert(p, cols, rows).stmts[i], p, cols)
<1> DEFINE set == IF p.update # <<>> THEN p.update ELSE Without(cols, ToSet(p.conflict))
           stmts == [k \in DOMAIN rows |-> UpsertStatement(cols, set, rows[k])]
           ignore == RunInsert("INSERT_IGNORE", cols, rows, <<>>, 1)
<1>1. RunUpsert(p, cols, rows) = ignore \/ RunUpsert(p, cols, rows) = Send(1, stmts)
  BY Zenon DEF RunUpsert
<1>2. set \in ColumnSeq /\ (set = p.update \/ ToSet(set) \subseteq ToSet(cols))
  <2>1. p.update \in ColumnSeq
    BY DEF IsPayload, ColumnSeq
  <2> QED  BY <2>1, ColumnFacts
<1> HIDE DEF set
<1>3. CASE RunUpsert(p, cols, rows) = ignore
  <2>1. PICK s : s = ignore.stmts[i]
    OBVIOUS
  <2>2. i \in DOMAIN ignore.stmts
    BY <1>3
  <2>3. BoundAsMeant(s) /\ s.op = "INSERT_IGNORE"
    BY <2>1, <2>2, RunInsertFacts
  <2>4. AsMode(s, p, cols)
    BY <2>3 DEF AsMode
  <2> QED  BY <1>3, <2>1, <2>4
<1>4. CASE RunUpsert(p, cols, rows) = Send(1, stmts)
  <2>1. RunUpsert(p, cols, rows).stmts = stmts
    BY <1>4, PlanStatements
  <2>2. PICK s : s = UpsertStatement(cols, set, rows[i])
    OBVIOUS
  <2>3. RunUpsert(p, cols, rows).stmts[i] = s
    BY <2>1, <2>2
  <2>4. s.op = "UPSERT" /\ Inserted(s) = ToSet(cols) /\ (ToSet(set) \subseteq ToSet(cols) => BoundAsMeant(s))
    BY <1>2, <2>2, UpsertFacts
  <2>5. AsMode(s, p, cols)
    BY <1>2, <2>4 DEF AsMode
  <2> QED  BY <2>3, <2>5
<1> QED  BY <1>1, <1>3, <1>4

LEMMA RunDeleteFacts ==
    ASSUME NEW p, IsPayload(p), NEW cols, NEW rows, p.mode = "delete",
           NEW i \in DOMAIN RunDelete(p, rows).stmts
    PROVE  AsMode(RunDelete(p, rows).stmts[i], p, cols)
<1> DEFINE stmts == [k \in DOMAIN rows |-> DeleteStatement(p, rows[k])]
<1>1. \/ RunDelete(p, rows) = [Throw EXCEPT !.tx = 1]
      \/ p.where # <<>> /\ RunDelete(p, rows) = Send(1, stmts)
  BY Zenon DEF RunDelete
<1>2. p.where # <<>> /\ RunDelete(p, rows).stmts = stmts
  <2>1. RunDelete(p, rows) # [Throw EXCEPT !.tx = 1]
    BY PlanStatements, Zenon
  <2> QED  BY <1>1, <2>1, PlanStatements, Zenon
<1>3. PICK s : s = DeleteStatement(p, rows[i])
  OBVIOUS
<1>4. RunDelete(p, rows).stmts[i] = s
  BY <1>2, <1>3
<1>5. BoundAsMeant(s) /\ s.op = "DELETE" /\ s.where # <<>>
  BY <1>2, <1>3, DeleteFacts
<1>6. AsMode(s, p, cols)
  BY <1>5 DEF AsMode
<1> QED  BY <1>4, <1>6

\* What RunMode sends, for the mode of its payload.
LEMMA RunModeFacts ==
    ASSUME NEW p, IsPayload(p), NEW insertCols \in ColumnSeq, NEW cols \in ColumnSeq,
           NEW rows, IsRows(rows), NEW i \in DOMAIN RunMode(p, insertCols, cols, rows).stmts
    PROVE  AsMode(RunMode(p, insertCols, cols, rows).stmts[i], p, cols)
<1> DEFINE s == RunMode(p, insertCols, cols, rows).stmts[i]
<1>1. p.mode \in Modes
  BY DEF IsPayload
<1>2. CASE p.mode = "insert"
  <2>1. RunMode(p, insertCols, cols, rows) = RunInsert("INSERT", insertCols, rows, p.static, 0)
    BY <1>2 DEF RunMode
  <2>2. i \in DOMAIN RunInsert("INSERT", insertCols, rows, p.static, 0).stmts
    BY <2>1
  <2>3. BoundAsMeant(s) /\ s.op = "INSERT"
    BY <2>1, <2>2, RunInsertFacts
  <2> HIDE DEF s
  <2> QED  BY <1>2, <2>3 DEF AsMode, s
<1>3. CASE p.mode = "insert_ignore"
  <2>1. RunMode(p, insertCols, cols, rows) = RunInsert("INSERT_IGNORE", insertCols, rows, p.static, 0)
    BY <1>3 DEF RunMode
  <2>2. i \in DOMAIN RunInsert("INSERT_IGNORE", insertCols, rows, p.static, 0).stmts
    BY <2>1
  <2>3. BoundAsMeant(s) /\ s.op = "INSERT_IGNORE"
    BY <2>1, <2>2, RunInsertFacts
  <2> HIDE DEF s
  <2> QED  BY <1>3, <2>3 DEF AsMode, s
<1>4. CASE p.mode = "update"
  <2>1. RunMode(p, insertCols, cols, rows) = RunUpdate(p, cols, rows)
    BY <1>4 DEF RunMode
  <2> QED  BY <1>4, <2>1, RunUpdateFacts
<1>5. CASE p.mode = "upsert"
  <2>1. RunMode(p, insertCols, cols, rows) = RunUpsert(p, cols, rows)
    BY <1>5 DEF RunMode
  <2> QED  BY <1>5, <2>1, RunUpsertFacts
<1>6. CASE p.mode = "delete"
  <2>1. RunMode(p, insertCols, cols, rows) = RunDelete(p, rows)
    BY <1>6 DEF RunMode
  <2> QED  BY <1>6, <2>1, RunDeleteFacts
<1> QED  BY <1>1, <1>2, <1>3, <1>4, <1>5, <1>6 DEF Modes

\* What a path keeps of the plan in a statement; p is the payload as it is then.
Meant(s, p, path) ==
    \/ BoundAsMeant(s)
    \/ path = "cursor" /\ s.op = "UPDATE"
    \/ s.op = "UPSERT" /\ ~(ToSet(p.update) \subseteq Inserted(s))

\* An UPDATE or a DELETE tests the conditions of its payload.
Tested(s, p, path) ==
    s.op \in {"UPDATE", "DELETE"} =>
        /\ s.where # <<>>
        /\ \/ Conditions(p) \subseteq ColsOf(s.where)
           \/ s.op = "DELETE" /\ path = "manual"
           \/ path = "cursor"

\* The paths on which a soft delete may leave its rows unmarked.
MayLeaveUnmarked(p, path) ==
    path = "manual" /\ (p.columns # <<>> \/ DOMAIN p.fields # {} \/ "deleted_at" \in DOMAIN p.staticWhere)

\* All a path keeps.
PathKeeps(s, p, path, rows) ==
    /\ Meant(s, p, path) /\ Tested(s, p, path)
    /\ \/ IsOperation(p.mode, s)
       \/ path = "manual" /\ HasRowDrivenWhere(p, rows)
    /\ p.mode = "update" =>
        /\ s.op = "UPDATE"
        /\ ColsOf(s.set) \subseteq ToSet(p.columns) \cup DOMAIN p.fields \cup DOMAIN p.static
        /\ "deleted_at" \in DOMAIN p.static => "deleted_at" \in ColsOf(s.set) \/ MayLeaveUnmarked(p, path)

\* Of RunMode, which only the manual path uses.
LEMMA ModeKeeps ==
    ASSUME NEW p, IsPayload(p), NEW cols, NEW rows, NEW s, AsMode(s, p, cols),
           ToSet(cols) \subseteq ToSet(p.columns) \cup DOMAIN p.fields,
           "deleted_at" \in DOMAIN p.static /\ p.mode = "update" => MayLeaveUnmarked(p, "manual")
    PROVE  PathKeeps(s, p, "manual", rows)
<1>1. p.mode \in Modes
  BY DEF IsPayload
<1>2. Meant(s, p, "manual")
  BY <1>1 DEF AsMode, Meant, Modes
<1>3. Tested(s, p, "manual")
  BY <1>1 DEF AsMode, Tested, Modes
<1>4. IsOperation(p.mode, s)
  BY <1>1 DEF AsMode, IsOperation, Modes
<1>5. p.mode = "update" => s.op = "UPDATE" /\ ColsOf(s.set) \subseteq ToSet(cols)
  BY DEF AsMode
<1> QED  BY <1>2, <1>3, <1>4, <1>5 DEF PathKeeps

\* prepareRows: columns among those of the payload, a row for every row.
LEMMA PreparedFacts ==
    ASSUME NEW p, p.columns \in ColumnSeq, NEW rows, IsRows(rows)
    PROVE  /\ EffectiveColumns(rows, p) \in ColumnSeq
           /\ ToSet(EffectiveColumns(rows, p)) \subseteq ToSet(p.columns)
           /\ DynamicColumns(rows, p) \in ColumnSeq
           /\ ToSet(DynamicColumns(rows, p)) \subseteq ToSet(p.columns)
           /\ IsRows(DataRows(rows, p))
<1>1. <<>> \in ColumnSeq /\ ToSet(<<>>) = {}
  BY DEF ColumnSeq, ToSet
<1>2. \A S : Filter(p.columns, S) \in ColumnSeq /\ ToSet(Filter(p.columns, S)) \subseteq ToSet(p.columns)
  BY ColumnFacts
<1>3. EffectiveColumns(rows, p) = <<>> \/ \E S : EffectiveColumns(rows, p) = Filter(p.columns, S)
  BY Zenon DEF EffectiveColumns
<1>4. DynamicColumns(rows, p) = <<>> \/ \E S : DynamicColumns(rows, p) = Filter(p.columns, S)
  BY Zenon DEF DynamicColumns
<1>5. IsRows(DataRows(rows, p))
  <2> DEFINE d == [i \in DOMAIN rows |-> DataRow(rows[i], p)]
  <2>1. DataRows(rows, p) = rows \/ DataRows(rows, p) = d
    BY Zenon DEF DataRows
  <2>2. d = [i \in 1..Len(rows) |-> d[i]]
    BY DEF IsRows
  <2> HIDE DEF d
  <2>3. IsRows(d)
    BY <2>2, ListOf DEF IsRows
  <2> QED  BY <2>1, <2>3
<1> QED  BY <1>1, <1>2, <1>3, <1>4, <1>5

\* Normalized changes values, not the columns or the number of rows.
LEMMA NormalizedFacts ==
    ASSUME NEW p, IsPayload(p)
    PROVE  LET q == NormalizeEnumValues(p)
           IN  /\ DOMAIN q = DOMAIN p /\ q.columns = p.columns /\ q.mode = p.mode
               /\ DOMAIN q.static = DOMAIN p.static
BY DEF NormalizeEnumValues, IsPayload, PayloadFields

\* The template path.
LEMMA TemplateFacts ==
    ASSUME NEW p, IsPayload(p), NEW rows, IsRows(rows), DOMAIN p.fields # {},
           NEW i \in DOMAIN TemplateStatements(p, rows).stmts
    PROVE  PathKeeps(TemplateStatements(p, rows).stmts[i], p, "manual", rows)
<1> DEFINE resolved == [k \in DOMAIN rows |-> TemplateRow(rows[k], p.fields)]
           q == [NormalizeEnumValues(p) EXCEPT !.columns = Keys(p.fields)]
           cols == EffectiveColumns(resolved, q)
           data == DataRows(resolved, q)
           plan == TemplateStatements(p, rows)
<1>1. plan = Send(0, <<>>) \/ plan = RunMode(p, cols, cols, data)
  BY Zenon DEF TemplateStatements
<1>2. IsRows(resolved)
  <2>1. resolved = [k \in 1..Len(rows) |-> resolved[k]]
    BY DEF IsRows
  <2> HIDE DEF resolved
  <2> QED  BY <2>1, ListOf DEF IsRows
<1>3. q.columns = Keys(p.fields)
  <2>1. "columns" \in DOMAIN NormalizeEnumValues(p)
    BY NormalizedFacts DEF IsPayload, PayloadFields
  <2> QED  BY <2>1
<1>4. Keys(p.fields) \in ColumnSeq /\ ToSet(Keys(p.fields)) \subseteq DOMAIN p.fields
  BY KeysFacts
<1> HIDE DEF resolved, q
<1>5. cols \in ColumnSeq /\ ToSet(cols) \subseteq DOMAIN p.fields /\ IsRows(data)
  BY <1>2, <1>3, <1>4, PreparedFacts
<1> HIDE DEF cols, data
<1>6. plan = RunMode(p, cols, cols, data)
  <2>1. plan = Send(0, <<>>) => plan.stmts = <<>>
    BY PlanStatements, Zenon
  <2>2. DOMAIN <<>> = {}
    OBVIOUS
  <2> QED  BY <1>1, <2>1, <2>2
<1> HIDE DEF plan
<1>7. i \in DOMAIN plan.stmts
  BY DEF plan
<1>8. AsMode(plan.stmts[i], p, cols)
  BY <1>5, <1>6, <1>7, RunModeFacts
<1>9. MayLeaveUnmarked(p, "manual")
  BY DEF MayLeaveUnmarked
<1> QED  BY <1>5, <1>8, <1>9, ModeKeeps DEF plan

\* The manual path.
LEMMA ManualFacts ==
    ASSUME NEW p, IsPayload(p), NEW rows, IsRows(rows), NEW i \in DOMAIN ManualStatements(p, rows).stmts
    PROVE  PathKeeps(ManualStatements(p, rows).stmts[i], p, "manual", rows)
<1> DEFINE q == NormalizeEnumValues(p)
           dynamic == DynamicColumns(rows, q)
           cols == EffectiveColumns(rows, q)
           data == DataRows(rows, q)
           plan == ManualStatements(p, rows)
<1>1. \/ DOMAIN p.fields # {} /\ plan = TemplateStatements(p, rows)
      \/ HasRowDrivenWhere(p, rows) /\ plan = RowDrivenUpdate(p, rows)
      \/ plan = Send(0, <<>>)
      \/ p.mode = "update" /\ plan = StaticUpdate(p, rows)
      \/ ~(p.mode = "update" /\ dynamic = <<>> /\ DOMAIN p.static # {}) /\ plan = RunMode(p, dynamic, cols, data)
  BY Zenon DEF ManualStatements
<1>2. i \in DOMAIN plan.stmts
  OBVIOUS
<1>3. p.columns \in ColumnSeq /\ q.columns = p.columns
  BY NormalizedFacts DEF IsPayload, ColumnSeq
<1> HIDE DEF q
<1>4. /\ cols \in ColumnSeq /\ ToSet(cols) \subseteq ToSet(p.columns) /\ IsRows(data)
      /\ dynamic \in ColumnSeq /\ ToSet(dynamic) \subseteq ToSet(p.columns)
  BY <1>3, PreparedFacts
<1> HIDE DEF dynamic, cols, data, plan
<1>5. CASE DOMAIN p.fields # {} /\ plan = TemplateStatements(p, rows)
  BY <1>2, <1>5, TemplateFacts DEF plan
<1>6. CASE HasRowDrivenWhere(p, rows) /\ plan = RowDrivenUpdate(p, rows)
  <2>1. PICK s : s = plan.stmts[i]
    OBVIOUS
  <2>2. BoundAsMeant(s) /\ s.op = "UPDATE" /\ s.where # <<>> /\ ColsOf(s.set) = DOMAIN p.static
    BY <1>2, <1>6, <2>1, RowDrivenFacts
  <2>3. Conditions(p) = {}
    BY <1>6 DEF HasRowDrivenWhere, Conditions
  <2>4. PathKeeps(s, p, "manual", rows)
    BY <1>6, <2>2, <2>3 DEF PathKeeps, Meant, Tested
  <2> QED  BY <2>1, <2>4 DEF plan
<1>7. CASE plan = Send(0, <<>>)
  <2>1. plan.stmts = <<>>
    BY <1>7, PlanStatements, Zenon
  <2>2. DOMAIN <<>> = {}
    OBVIOUS
  <2> QED  BY <1>2, <2>1, <2>2
<1>8. CASE p.mode = "update" /\ plan = StaticUpdate(p, rows)
  <2>1. PICK s : s = plan.stmts[i]
    OBVIOUS
  <2>2. /\ BoundAsMeant(s) /\ s.op = "UPDATE" /\ s.where # <<>>
        /\ Conditions(p) \subseteq ColsOf(s.where)
        /\ ColsOf(s.set) \subseteq ToSet(p.columns) \cup DOMAIN p.static
        /\ DOMAIN p.static \ (ToSet(p.columns) \cup DOMAIN p.staticWhere) \subseteq ColsOf(s.set)
    BY <1>2, <1>8, <2>1, StaticFacts
  <2>3. "deleted_at" \in DOMAIN p.static => "deleted_at" \in ColsOf(s.set) \/ MayLeaveUnmarked(p, "manual")
    <3>1. p.columns = <<>> => ToSet(p.columns) = {}
      BY DEF ToSet
    <3> QED  BY <2>2, <3>1 DEF MayLeaveUnmarked
  <2>4. IsOperation(p.mode, s)
    BY <1>8, <2>2 DEF IsOperation
  <2>5. Meant(s, p, "manual") /\ Tested(s, p, "manual")
    BY <2>2 DEF Meant, Tested
  <2>6. PathKeeps(s, p, "manual", rows)
    BY <1>8, <2>2, <2>3, <2>4, <2>5 DEF PathKeeps
  <2> QED  BY <2>1, <2>6 DEF plan
<1>9. CASE /\ ~(p.mode = "update" /\ dynamic = <<>> /\ DOMAIN p.static # {})
           /\ plan = RunMode(p, dynamic, cols, data)
  <2>1. AsMode(plan.stmts[i], p, cols)
    BY <1>2, <1>4, <1>9, RunModeFacts
  <2>2. "deleted_at" \in DOMAIN p.static /\ p.mode = "update" => MayLeaveUnmarked(p, "manual")
    <3>1. ASSUME "deleted_at" \in DOMAIN p.static, p.mode = "update" PROVE p.columns # <<>>
      <4>1. dynamic # <<>>
        BY <1>9, <3>1
      <4>2. ToSet(dynamic) # {}
        BY <1>4, <4>1 DEF ColumnSeq, ToSet
      <4>3. ToSet(p.columns) # {}
        BY <1>4, <4>2
      <4>4. ToSet(<<>>) = {}
        BY DEF ToSet
      <4> QED  BY <4>3, <4>4
    <3> QED  BY <3>1 DEF MayLeaveUnmarked
  <2> QED  BY <1>4, <2>1, <2>2, ModeKeeps DEF plan
<1> QED  BY <1>1, <1>5, <1>6, <1>7, <1>8, <1>9

\* The path through the SQL compiler.
LEMMA CalciteFacts ==
    ASSUME NEW p, IsPayload(p), NEW rows, NEW i \in DOMAIN CalciteStatements(p, rows).stmts
    PROVE  PathKeeps(CalciteStatements(p, rows).stmts[i], p, "calcite", rows)
<1> DEFINE plan == CalciteStatements(p, rows)
           none == ~IsInsert(p) /\ p.where = <<>> /\ BuildWritePredicate(p.staticWhere) = <<>>
<1>1. \/ plan = Throw
      \/ ~none /\ \E v : plan = Send(0, <<CalciteStatement(p, v)>>)
      \/ ~none /\ \E f : plan = Send(0, [k \in DOMAIN rows |-> CalciteStatement(p, f[k])])
  <2> DEFINE literal == [c \in ToSet(Columns) |->
                            IF Field(p.static, c) \notin {Null, Undefined} THEN p.static[c]
                            ELSE RowOrNull(c, rows[1], p)]
             own(row) == [c \in ToSet(Columns) |-> RowOrNull(c, row, p)]
  <2>1. \/ plan = Throw
        \/ ~none /\ plan = Send(0, <<CalciteStatement(p, literal)>>)
        \/ ~none /\ plan = Send(0, [k \in DOMAIN rows |-> CalciteStatement(p, own(rows[k]))])
    BY Zenon DEF CalciteStatements
  <2> HIDE DEF literal, own
  <2>2. PICK f : f = [k \in DOMAIN rows |-> own(rows[k])]
    OBVIOUS
  <2>3. [k \in DOMAIN rows |-> CalciteStatement(p, own(rows[k]))]
          = [k \in DOMAIN rows |-> CalciteStatement(p, f[k])]
    BY <2>2
  <2> HIDE DEF none, plan
  <2> QED  BY <2>1, <2>3
<1>2. i \in DOMAIN plan.stmts
  OBVIOUS
<1> HIDE DEF plan, none
<1>3. PICK v : ~none /\ plan.stmts[i] = CalciteStatement(p, v)
  <2>1. plan # Throw
    BY <1>2, PlanStatements, Zenon
  <2>2. CASE \E v : plan = Send(0, <<CalciteStatement(p, v)>>)
    <3>1. PICK v : plan = Send(0, <<CalciteStatement(p, v)>>)
      BY <2>2
    <3>2. plan.stmts = <<CalciteStatement(p, v)>>
      BY <3>1, PlanStatements, Zenon
    <3>3. plan.stmts[i] = CalciteStatement(p, v)
      BY <1>2, <3>2
    <3> QED  BY <1>1, <2>1, <3>3
  <2>3. CASE \E f : plan = Send(0, [k \in DOMAIN rows |-> CalciteStatement(p, f[k])])
    <3>1. PICK f : plan = Send(0, [k \in DOMAIN rows |-> CalciteStatement(p, f[k])])
      BY <2>3
    <3>2. plan.stmts = [k \in DOMAIN rows |-> CalciteStatement(p, f[k])]
      BY <3>1, PlanStatements, Zenon
    <3>3. plan.stmts[i] = CalciteStatement(p, f[i])
      BY <1>2, <3>2
    <3> QED  BY <1>1, <2>1, <3>3
  <2> QED  BY <1>1, <2>1, <2>2, <2>3
<1>4. PICK s : s = CalciteStatement(p, v)
  OBVIOUS
<1>5. p.mode \in Modes
  BY DEF IsPayload
<1>6. CASE IsInsert(p)
  <2>1. s = CompileInsert(p, v)
    BY <1>4, <1>6, Zenon DEF CalciteStatement, IsInsert
  <2>2. p.mode \in {"insert", "insert_ignore", "upsert"}
    BY <1>6 DEF IsInsert
  <2>3. BoundAsMeant(s) /\ s.op = CASE p.mode = "insert" -> "INSERT"
                                    [] p.mode = "insert_ignore" -> "INSERT_IGNORE"
                                    [] OTHER -> "UPSERT"
    BY <2>1, CompileInsertFacts
  <2>4. IsOperation(p.mode, s)
    BY <2>2, <2>3 DEF IsOperation
  <2>5. s.op \notin {"UPDATE", "DELETE"}
    BY <2>2, <2>3
  <2>6. PathKeeps(s, p, "calcite", rows)
    BY <2>2, <2>3, <2>4, <2>5 DEF PathKeeps, Meant, Tested
  <2> QED  BY <1>3, <1>4, <2>6 DEF plan
<1>7. CASE p.mode = "update"
  <2>1. ~IsInsert(p)
    BY <1>7 DEF IsInsert
  <2>2. s = CompileUpdate(p, v)
    BY <1>4, <1>7, <2>1 DEF CalciteStatement
  <2>3. /\ BoundAsMeant(s) /\ s.op = "UPDATE" /\ s.where # <<>>
        /\ ColsOf(s.set) = ToSet(p.columns) \cup DOMAIN p.static
        /\ Conditions(p) \subseteq ColsOf(s.where)
    BY <1>3, <2>1, <2>2, CompileUpdateFacts DEF none
  <2>4. IsOperation(p.mode, s)
    BY <1>7, <2>3 DEF IsOperation
  <2>5. Meant(s, p, "calcite") /\ Tested(s, p, "calcite")
    BY <2>3 DEF Meant, Tested
  <2>6. PathKeeps(s, p, "calcite", rows)
    BY <2>3, <2>4, <2>5 DEF PathKeeps
  <2> QED  BY <1>3, <1>4, <2>6 DEF plan
<1>8. CASE p.mode = "delete"
  <2>1. ~IsInsert(p)
    BY <1>8 DEF IsInsert
  <2>2. s = CompileDelete(p, v)
    BY <1>4, <1>8, <2>1 DEF CalciteStatement
  <2>3. /\ BoundAsMeant(s) /\ s.op = "DELETE" /\ s.where # <<>>
        /\ Conditions(p) \subseteq ColsOf(s.where)
    BY <1>3, <2>1, <2>2, CompileDeleteFacts DEF none
  <2>4. IsOperation(p.mode, s)
    BY <1>8, <2>3 DEF IsOperation
  <2>5. Meant(s, p, "calcite") /\ Tested(s, p, "calcite")
    BY <2>3 DEF Meant, Tested
  <2>6. PathKeeps(s, p, "calcite", rows)
    BY <1>8, <2>3, <2>4, <2>5 DEF PathKeeps
  <2> QED  BY <1>3, <1>4, <2>6 DEF plan
<1> QED  BY <1>5, <1>6, <1>7, <1>8 DEF Modes, IsInsert

\* The cursor path.
LEMMA CursorPathFacts ==
    ASSUME NEW p, IsPayload(p), NEW ids, NEW rows, NEW i \in DOMAIN CursorStatement(p, ids).stmts
    PROVE  PathKeeps(CursorStatement(p, ids).stmts[i], p, "cursor", rows)
<1>1. PICK s : s = CursorStatement(p, ids).stmts[i]
  OBVIOUS
<1>2. /\ s.where # <<>> /\ p.mode \in {"update", "delete"}
      /\ (p.mode = "update" => s.op = "UPDATE")
      /\ (p.mode = "delete" => s.op = "DELETE" /\ BoundAsMeant(s))
      /\ ColsOf(s.set) \subseteq ToSet(p.columns) \cup DOMAIN p.static
      /\ (p.mode = "update" => DOMAIN p.static \subseteq ColsOf(s.set))
  BY <1>1, CursorFacts
<1>3. IsOperation(p.mode, s)
  BY <1>2 DEF IsOperation
<1>4. Meant(s, p, "cursor") /\ Tested(s, p, "cursor")
  BY <1>2 DEF Meant, Tested
<1>5. PathKeeps(s, p, "cursor", rows)
  BY <1>2, <1>3, <1>4 DEF PathKeeps
<1> QED  BY <1>1, <1>5

-----------------------------------------------------------------------------
(* The invariant of the plans.                                             *)

\* The execution's mode and the payload it reads: another execution of the same
\* node may have made the DELETE a soft one since.
PlanMode(mode, p) ==
    /\ mode \in Modes
    /\ \/ mode = p.mode
       \/ mode = "delete" /\ p.mode = "update" /\ p.soft /\ "deleted_at" \in DOMAIN p.static
    /\ mode = "update" => DOMAIN p.static \cap BlockedCols = {}

\* What a statement keeps of the plan for as long as it is to be sent.
StatementKept(s, p, mode, path, rows) ==
    /\ Meant(s, p, path) /\ Tested(s, p, path)
    /\ \/ IsOperation(mode, s)
       \/ path = "manual" /\ HasRowDrivenWhere(p, rows)
       \/ s.op = "UPDATE" /\ mode = "delete" /\ p.soft /\ MayLeaveUnmarked(p, path)
    /\ mode = "update" => ColsOf(s.set) \cap BlockedCols \subseteq ToSet(p.columns) \cup DOMAIN p.fields

\* An execution with payload p.
PlannedOK(r, p) ==
    /\ r.pc # "idle" => IsRows(r.rows)
    /\ r.pc \in {"fk", "route", "compile", "send", "query"} => PlanMode(r.mode, p)
    /\ r.pc \in {"send", "query"} => \A i \in DOMAIN r.plan.stmts :
           StatementKept(r.plan.stmts[i], p, r.mode, r.path, r.rows)

\* The inductive invariant of the plans.
PlanInv ==
    /\ PoolInv
    /\ \A n \in Node : IsPayload(payload[n])
    /\ \A w \in Writer : writer[w].pc # "idle" => PlannedOK(writer[w], payload[writer[w].node])

\* What execute rewrites in a payload, and what it leaves.
Rewritten(p, q) ==
    /\ IsPayload(q)
    /\ q.columns = p.columns /\ q.where = p.where /\ q.update = p.update
    /\ q.staticWhere = p.staticWhere /\ q.fields = p.fields /\ q.soft = p.soft
    /\ q.mode = p.mode \/ (p.mode = "delete" /\ q.mode = "update" /\ p.soft /\ "deleted_at" \in DOMAIN q.static)
    /\ "deleted_at" \in DOMAIN p.static => "deleted_at" \in DOMAIN q.static
    /\ p.mode = "update" => DOMAIN q.static \cap BlockedCols = {}
    /\ q.aliases = p.aliases
    /\ p.mode \notin {"update", "delete"} => DOMAIN q.static = DOMAIN p.static

\* What execute makes of a payload, with what it resolved or without.
LEMMA RewrittenPayload ==
    ASSUME NEW p, IsPayload(p), NEW up
    PROVE  /\ Rewritten(p, SoftDeleted(Stripped(p)))
           /\ Rewritten(p, SoftDeleted(Stripped(Resolved(p, up))))
<1>1. "deleted_at" \notin BlockedCols
  BY StatementAssumption
<1>2. ASSUME NEW q, IsPayload(q) PROVE Rewritten(q, SoftDeleted(Stripped(q)))
  <2> DEFINE s == Stripped(q)
             t == SoftDeleted(s)
  <2>1. /\ DOMAIN s = PayloadFields /\ s.mode = q.mode /\ s.columns = q.columns /\ s.where = q.where
        /\ s.conflict = q.conflict /\ s.update = q.update /\ s.staticWhere = q.staticWhere
        /\ s.fields = q.fields /\ s.soft = q.soft /\ s.aliases = q.aliases
        /\ DOMAIN s.static = IF q.mode = "update" THEN DOMAIN q.static \ BlockedCols ELSE DOMAIN q.static
    BY <1>2 DEF Stripped, IsPayload, PayloadFields
  <2> HIDE DEF s
  <2>2. /\ DOMAIN t = PayloadFields /\ t.columns = s.columns /\ t.where = s.where
        /\ t.conflict = s.conflict /\ t.update = s.update /\ t.staticWhere = s.staticWhere
        /\ t.fields = s.fields /\ t.soft = s.soft /\ t.aliases = s.aliases
        /\ \/ ~(s.mode = "delete" /\ s.soft) /\ t.mode = s.mode /\ DOMAIN t.static = DOMAIN s.static
           \/ s.mode = "delete" /\ s.soft /\ t.mode = "update" /\ DOMAIN t.static = DOMAIN s.static \cup {"deleted_at"}
    BY <2>1 DEF SoftDeleted, PayloadFields
  <2> HIDE DEF t
  <2>3. IsPayload(t)
    <3>1. t.mode \in Modes /\ t.soft \in BOOLEAN
      BY <1>2, <2>1, <2>2 DEF IsPayload, Modes
    <3>2. {t.columns, t.where, t.conflict, t.update} \subseteq Seq(ToSet(Columns))
      BY <1>2, <2>1, <2>2 DEF IsPayload
    <3>3. t.soft => "deleted_at" \in ToSet(Columns)
      BY <1>2, <2>1, <2>2 DEF IsPayload
    <3>4. DOMAIN t.static \subseteq ToSet(Columns)
      BY <1>2, <2>1, <2>2, <3>3 DEF IsPayload
    <3>5. UNION {DOMAIN t.static, DOMAIN t.staticWhere, DOMAIN t.fields} \subseteq ToSet(Columns)
      BY <1>2, <2>1, <2>2, <3>4 DEF IsPayload
    <3>6. IsInjective(t.columns)
      BY <1>2, <2>1, <2>2 DEF IsPayload
    <3> QED  BY <2>2, <3>1, <3>2, <3>3, <3>5, <3>6 DEF IsPayload
  <2>4. Rewritten(q, t)
    BY <1>1, <2>1, <2>2, <2>3 DEF Rewritten
  <2> QED  BY <2>4 DEF t, s
<1>3. Rewritten(p, SoftDeleted(Stripped(p)))
  BY <1>2
<1>4. PICK r : r = Resolved(p, up)
  OBVIOUS
<1>5. /\ DOMAIN r = DOMAIN p /\ r.mode = p.mode /\ r.columns = p.columns /\ r.where = p.where
      /\ r.conflict = p.conflict /\ r.update = p.update /\ r.staticWhere = p.staticWhere
      /\ r.fields = p.fields /\ r.soft = p.soft /\ DOMAIN r.static = DOMAIN p.static
      /\ r.aliases = p.aliases
  BY <1>4 DEF Resolved, IsPayload, PayloadFields
<1>6. IsPayload(r)
  BY <1>5 DEF IsPayload
<1>7. Rewritten(r, SoftDeleted(Stripped(r)))
  BY <1>2, <1>6
<1>8. Rewritten(p, SoftDeleted(Stripped(r)))
  BY <1>5, <1>7 DEF Rewritten
<1> QED  BY <1>3, <1>4, <1>8

\* A path that keeps the plan keeps it for the mode the execution began with.
LEMMA KeptNow ==
    ASSUME NEW p, IsPayload(p), NEW mode, PlanMode(mode, p), NEW s, NEW path, NEW rows,
           PathKeeps(s, p, path, rows)
    PROVE  StatementKept(s, p, mode, path, rows)
<1>1. \/ IsOperation(mode, s)
      \/ path = "manual" /\ HasRowDrivenWhere(p, rows)
      \/ s.op = "UPDATE" /\ mode = "delete" /\ p.soft /\ MayLeaveUnmarked(p, path)
  <2>1. CASE mode = p.mode
    BY <2>1 DEF PathKeeps
  <2>2. CASE mode = "delete" /\ p.mode = "update" /\ p.soft /\ "deleted_at" \in DOMAIN p.static
    <3>1. s.op = "UPDATE" /\ ("deleted_at" \in ColsOf(s.set) \/ MayLeaveUnmarked(p, path))
      BY <2>2 DEF PathKeeps
    <3>2. "deleted_at" \in ColsOf(s.set) => IsOperation(mode, s)
      BY <2>2, <3>1 DEF ColsOf, IsOperation
    <3> QED  BY <2>2, <3>1, <3>2
  <2> QED  BY <2>1, <2>2 DEF PlanMode
<1>2. mode = "update" => ColsOf(s.set) \cap BlockedCols \subseteq ToSet(p.columns) \cup DOMAIN p.fields
  <2>1. ASSUME mode = "update"
        PROVE  ColsOf(s.set) \cap BlockedCols \subseteq ToSet(p.columns) \cup DOMAIN p.fields
    <3>1. p.mode = "update" /\ DOMAIN p.static \cap BlockedCols = {}
      BY <2>1 DEF PlanMode
    <3>2. ColsOf(s.set) \subseteq ToSet(p.columns) \cup DOMAIN p.fields \cup DOMAIN p.static
      BY <3>1 DEF PathKeeps
    <3> QED  BY <3>1, <3>2
  <2> QED  BY <2>1
<1> QED  BY <1>1, <1>2 DEF StatementKept, PathKeeps

\* Another execution of the node may rewrite the payload meanwhile.
LEMMA KeptLater ==
    ASSUME NEW p, NEW q, Rewritten(p, q), NEW r, PlannedOK(r, p)
    PROVE  PlannedOK(r, q)
<1>1. ASSUME PlanMode(r.mode, p) PROVE PlanMode(r.mode, q)
  BY <1>1 DEF PlanMode, Rewritten
<1>2. ASSUME NEW s, StatementKept(s, p, r.mode, r.path, r.rows)
      PROVE  StatementKept(s, q, r.mode, r.path, r.rows)
  <2>1. /\ q.columns = p.columns /\ q.where = p.where /\ q.update = p.update
        /\ q.staticWhere = p.staticWhere /\ q.fields = p.fields /\ q.soft = p.soft
    BY DEF Rewritten
  <2>2. Conditions(q) = Conditions(p)
    BY <2>1 DEF Conditions
  <2>3. Meant(s, q, r.path) /\ Tested(s, q, r.path)
    BY <1>2, <2>1, <2>2 DEF StatementKept, Meant, Tested
  <2>4. /\ HasRowDrivenWhere(p, r.rows) => HasRowDrivenWhere(q, r.rows)
        /\ MayLeaveUnmarked(p, r.path) => MayLeaveUnmarked(q, r.path)
    BY <2>1 DEF HasRowDrivenWhere, MayLeaveUnmarked
  <2> QED  BY <1>2, <2>1, <2>3, <2>4 DEF StatementKept
<1> QED  BY <1>1, <1>2 DEF PlannedOK

-----------------------------------------------------------------------------
(* The steps, for the plans.                                               *)

\* What the invariant says of one execution.
LEMMA OwnPlan ==
    ASSUME PlanInv, NEW w \in Writer
    PROVE  /\ HoldsOK(writer[w]) /\ DOMAIN writer[w] = WriterFields /\ DOMAIN writer = Writer
           /\ writer[w].pc # "idle" => /\ writer[w].node \in Node /\ IsPayload(P(w))
                                       /\ PlannedOK(writer[w], P(w))
<1>1. HoldsOK(writer[w]) /\ DOMAIN writer[w] = WriterFields
  BY OwnFacts DEF PlanInv
<1>2. DOMAIN writer = Writer
  BY DEF PlanInv, PoolInv, WritersOK
<1>3. writer[w].pc # "idle" => writer[w].node \in Node
  BY <1>1 DEF HoldsOK
<1> QED  BY <1>1, <1>2, <1>3 DEF PlanInv, P

\* A step of one execution that leaves the payloads alone.
LEMMA PlanStepKept ==
    ASSUME PlanInv, PoolInv', NEW w \in Writer, NEW new, writer' = [writer EXCEPT ![w] = new],
           UNCHANGED payload,
           new.pc # "idle" => PlannedOK(new, payload[new.node])
    PROVE  PlanInv'
<1>1. \A n \in Node : IsPayload(payload'[n])
  BY DEF PlanInv
<1>2. ASSUME NEW v \in Writer, writer'[v].pc # "idle"
      PROVE  PlannedOK(writer'[v], payload'[writer'[v].node])
  <2>1. DOMAIN writer = Writer
    BY OwnPlan
  <2>2. CASE v = w
    BY <1>2, <2>1, <2>2
  <2>3. CASE v # w
    <3>1. writer'[v] = writer[v]
      BY <2>1, <2>3
    <3> QED  BY <1>2, <3>1 DEF PlanInv
  <2> QED  BY <2>2, <2>3
<1> QED  BY <1>1, <1>2 DEF PlanInv

\* An execution that goes on with what it has.
LEMMA GoesOn ==
    ASSUME PlanInv, PoolInv', NEW w \in Writer, writer[w].pc # "idle",
           NEW new, writer' = [writer EXCEPT ![w] = new], UNCHANGED payload,
           new.node = writer[w].node, new.mode = writer[w].mode, new.rows = writer[w].rows,
           new.plan = writer[w].plan, new.path = writer[w].path,
           \/ new.pc \in {"failed", "done"}
           \/ new.pc = "route" /\ writer[w].pc = "fk"
           \/ new.pc \in {"send", "query"} /\ writer[w].pc \in {"send", "query"}
    PROVE  PlanInv'
<1>1. PlannedOK(writer[w], P(w))
  BY OwnPlan
<1>2. PlannedOK(new, P(w))
  BY <1>1 DEF PlannedOK
<1>3. PlannedOK(new, payload[new.node])
  BY <1>2 DEF P
<1> QED  BY <1>3, PlanStepKept

\* Run, along a path that keeps the plan.
LEMMA Runs ==
    ASSUME PlanInv, PoolInv', NEW w \in Writer, writer[w].pc \in {"route", "compile"},
           NEW path, NEW rows, IsRows(rows), NEW plan, NEW by, Run(w, path, rows, plan, by),
           \A i \in DOMAIN plan.stmts : PathKeeps(plan.stmts[i], P(w), path, rows),
           UNCHANGED payload
    PROVE  PlanInv'
<1> DEFINE new == [writer[w] EXCEPT !.pc = "send", !.path = path, !.rows = rows,
                                    !.plan = plan, !.next = 1, !.by = by]
<1>1. DOMAIN writer[w] = WriterFields /\ IsPayload(P(w)) /\ PlannedOK(writer[w], P(w))
  BY OwnPlan
<1>2. writer' = [writer EXCEPT ![w] = new]
  BY DEF Run, Become
<1>3. /\ new.pc = "send" /\ new.path = path /\ new.rows = rows /\ new.plan = plan
      /\ new.mode = writer[w].mode /\ new.node = writer[w].node
  BY <1>1 DEF WriterFields
<1> HIDE DEF new
<1>4. PlanMode(new.mode, P(w))
  BY <1>1, <1>3 DEF PlannedOK
<1>5. \A i \in DOMAIN plan.stmts : StatementKept(plan.stmts[i], P(w), new.mode, path, rows)
  BY <1>1, <1>4, KeptNow
<1>6. PlannedOK(new, P(w))
  BY <1>3, <1>4, <1>5 DEF PlannedOK
<1>7. PlannedOK(new, payload[new.node])
  BY <1>3, <1>6 DEF P
<1> QED  BY <1>2, <1>7, PlanStepKept

\* Begin.
LEMMA PlanBegin ==
    ASSUME PlanInv, PoolInv', NEW w \in Writer, NEW n \in Node, NEW rows, IsRows(rows), NEW up,
           NEW attempt, Begin(w, n, rows, up, attempt)
    PROVE  PlanInv'
<1> DEFINE new == [writer[w] EXCEPT !.pc = "fk", !.node = n, !.rows = rows, !.up = up,
                        !.plan = Throw, !.mode = payload[n].mode, !.path = "none",
                        !.next = 1, !.by = "none", !.attempt = attempt]
           bad == [new EXCEPT !.pc = "failed"]
<1>1. DOMAIN writer[w] = WriterFields /\ DOMAIN writer = Writer
  BY OwnPlan
<1>2. /\ DOMAIN new = WriterFields
      /\ new.pc = "fk" /\ new.rows = rows /\ new.mode = payload[n].mode /\ new.node = n
  <2>1. PICK m : m = payload[n].mode
    OBVIOUS
  <2>2. PICK x : x = writer[w] /\ DOMAIN x = WriterFields
    BY <1>1
  <2>3. PICK y : y = [x EXCEPT !.pc = "fk", !.node = n, !.rows = rows, !.up = up, !.plan = Throw]
    OBVIOUS
  <2>4. DOMAIN y = WriterFields /\ y.pc = "fk" /\ y.rows = rows /\ y.node = n
    BY <2>2, <2>3 DEF WriterFields
  <2>5. new = [y EXCEPT !.mode = m, !.path = "none", !.next = 1, !.by = "none", !.attempt = attempt]
    BY <2>1, <2>2, <2>3
  <2> HIDE DEF new
  <2>6. /\ DOMAIN new = WriterFields
        /\ new.pc = y.pc /\ new.rows = y.rows /\ new.mode = m /\ new.node = y.node
    BY <2>4, <2>5 DEF WriterFields
  <2> QED  BY <2>1, <2>4, <2>6
<1> HIDE DEF new
<1>3. bad.pc = "failed" /\ bad.rows = rows
  BY <1>2 DEF WriterFields
<1> HIDE DEF bad
<1>4. \/ writer' = [writer EXCEPT ![w] = bad] /\ UNCHANGED payload
      \/ /\ writer' = [writer EXCEPT ![w] = new]
         /\ \E q \in {SoftDeleted(Stripped(payload[n])), SoftDeleted(Stripped(Resolved(payload[n], up)))} :
                payload' = [payload EXCEPT ![n] = q]
  BY DEF Begin, Become, new, bad
<1>5. IsPayload(payload[n]) /\ DOMAIN payload = Node
  BY DEF PlanInv, PoolInv, PayloadsOK
<1>6. CASE writer' = [writer EXCEPT ![w] = bad] /\ UNCHANGED payload
  <2>1. PlannedOK(bad, payload[bad.node])
    BY <1>3 DEF PlannedOK
  <2> QED  BY <1>6, <2>1, PlanStepKept
<1>7. CASE /\ writer' = [writer EXCEPT ![w] = new]
           /\ \E q \in {SoftDeleted(Stripped(payload[n])), SoftDeleted(Stripped(Resolved(payload[n], up)))} :
                  payload' = [payload EXCEPT ![n] = q]
  <2>1. PICK q : payload' = [payload EXCEPT ![n] = q] /\ Rewritten(payload[n], q)
    BY <1>5, <1>7, RewrittenPayload
  <2>2. payload'[n] = q /\ \A m \in Node \ {n} : payload'[m] = payload[m]
    BY <1>5, <2>1
  <2>3. \A m \in Node : IsPayload(payload'[m])
    BY <2>1, <2>2 DEF PlanInv, Rewritten
  <2>4. PlannedOK(new, q)
    <3>1. payload[n].mode \in Modes
      BY <1>5 DEF IsPayload
    <3>2. PlanMode(new.mode, q)
      BY <1>2, <2>1, <3>1 DEF PlanMode, Rewritten
    <3> QED  BY <1>2, <3>2 DEF PlannedOK
  <2>5. ASSUME NEW v \in Writer, writer'[v].pc # "idle"
        PROVE  PlannedOK(writer'[v], payload'[writer'[v].node])
    <3>1. CASE v = w
      <4>1. writer'[v] = new
        BY <1>1, <1>7, <3>1
      <4> QED  BY <1>2, <2>2, <2>4, <4>1
    <3>2. CASE v # w
      <4>1. writer'[v] = writer[v]
        BY <1>1, <1>7, <3>2
      <4>2. writer[v].node \in Node /\ PlannedOK(writer[v], payload[writer[v].node])
        BY <2>5, <4>1, OwnPlan DEF P
      <4>3. CASE writer[v].node = n
        BY <2>1, <2>2, <4>1, <4>2, <4>3, KeptLater
      <4>4. CASE writer[v].node # n
        BY <2>2, <4>1, <4>2, <4>4
      <4> QED  BY <4>3, <4>4
    <3> QED  BY <3>1, <3>2
  <2> QED  BY <2>3, <2>5 DEF PlanInv
<1> QED  BY <1>4, <1>6, <1>7

\* Fail.
LEMMA PlanFail ==
    ASSUME PlanInv, PoolInv', NEW w \in Writer, writer[w].pc # "idle", Fail(w), UNCHANGED payload
    PROVE  PlanInv'
<1> DEFINE new == [writer[w] EXCEPT !.pc = "failed", !.held = 0]
<1>1. DOMAIN writer[w] = WriterFields
  BY OwnPlan
<1>2. writer' = [writer EXCEPT ![w] = new]
  BY DEF Fail, Become
<1>3. /\ new.pc = "failed" /\ new.node = writer[w].node /\ new.mode = writer[w].mode
      /\ new.rows = writer[w].rows /\ new.plan = writer[w].plan /\ new.path = writer[w].path
  BY <1>1 DEF WriterFields
<1> HIDE DEF new
<1> QED  BY <1>2, <1>3, GoesOn

\* Prepare: each path keeps the plan.
LEMMA PlanPrepare ==
    ASSUME PlanInv, PoolInv', NEW w \in Writer,
           \/ FKValid(w) \/ FKViolation(w) \/ RouteCursor(w) \/ RouteRows(w)
           \/ Compiled(w) \/ NotCompiled(w)
    PROVE  PlanInv'
<1>1. DOMAIN writer[w] = WriterFields
  BY OwnPlan
<1>2. CASE FKValid(w)
  <2> DEFINE new == [writer[w] EXCEPT !.pc = "route"]
  <2>1. writer[w].pc = "fk" /\ writer' = [writer EXCEPT ![w] = new] /\ UNCHANGED payload
    BY <1>2 DEF FKValid, Become
  <2>2. /\ new.pc = "route" /\ new.node = writer[w].node /\ new.mode = writer[w].mode
        /\ new.rows = writer[w].rows /\ new.plan = writer[w].plan /\ new.path = writer[w].path
    BY <1>1 DEF WriterFields
  <2> HIDE DEF new
  <2> QED  BY <2>1, <2>2, GoesOn
<1>3. CASE FKViolation(w)
  <2>1. writer[w].pc = "fk" /\ Fail(w) /\ UNCHANGED payload
    BY <1>3 DEF FKViolation
  <2> QED  BY <2>1, PlanFail
<1>4. ASSUME writer[w].pc \in {"route", "compile"} PROVE IsPayload(P(w)) /\ IsRows(writer[w].rows)
  BY <1>4, OwnPlan DEF PlannedOK
<1>5. CASE RouteCursor(w)
  <2>1. /\ writer[w].pc = "route" /\ UNCHANGED payload
        /\ \/ Fail(w)
           \/ Run(w, "cursor", writer[w].rows, CursorStatement(P(w), cursor.ids), cursor.from)
    BY <1>5 DEF RouteCursor
  <2>2. CASE Fail(w)
    BY <2>1, <2>2, PlanFail
  <2>3. CASE Run(w, "cursor", writer[w].rows, CursorStatement(P(w), cursor.ids), cursor.from)
    <3>1. PICK plan : plan = CursorStatement(P(w), cursor.ids)
      OBVIOUS
    <3>2. \A i \in DOMAIN plan.stmts : PathKeeps(plan.stmts[i], P(w), "cursor", writer[w].rows)
      BY <1>4, <2>1, <3>1, CursorPathFacts
    <3>3. Run(w, "cursor", writer[w].rows, plan, cursor.from)
      BY <2>3, <3>1
    <3> QED  BY <1>4, <2>1, <3>2, <3>3, Runs
  <2> QED  BY <2>1, <2>2, <2>3
<1>6. CASE RouteRows(w)
  <2>1. writer[w].pc = "route" /\ UNCHANGED payload
    BY <1>6 DEF RouteRows
  <2>2. PICK rows : rows = RowsToWrite(P(w), writer[w].rows)
    OBVIOUS
  <2>3. IsRows(rows)
    <3>1. rows = writer[w].rows \/ rows = << <<>> >>
      BY <2>2 DEF RowsToWrite
    <3>2. IsRows(<< <<>> >>)
      BY DEF IsRows
    <3> QED  BY <1>4, <2>1, <3>1, <3>2
  <2> DEFINE done == [writer[w] EXCEPT !.pc = "done"]
             comp == [writer[w] EXCEPT !.pc = "compile", !.rows = rows]
  <2>4. \/ writer' = [writer EXCEPT ![w] = done]
        \/ writer' = [writer EXCEPT ![w] = comp]
        \/ Run(w, "manual", rows, ManualStatements(P(w), rows), "none")
    BY <1>6, <2>2 DEF RouteRows, Become
  <2>5. /\ done.pc = "done" /\ done.node = writer[w].node /\ done.mode = writer[w].mode
        /\ done.rows = writer[w].rows /\ done.plan = writer[w].plan /\ done.path = writer[w].path
    BY <1>1 DEF WriterFields
  <2>6. /\ comp.pc = "compile" /\ comp.node = writer[w].node /\ comp.mode = writer[w].mode
        /\ comp.rows = rows
    BY <1>1 DEF WriterFields
  <2> HIDE DEF done, comp
  <2>7. CASE writer' = [writer EXCEPT ![w] = done]
    BY <2>1, <2>5, <2>7, GoesOn
  <2>8. CASE writer' = [writer EXCEPT ![w] = comp]
    <3>1. PlannedOK(writer[w], P(w))
      BY <2>1, OwnPlan
    <3>2. PlannedOK(comp, P(w))
      BY <2>1, <2>3, <2>6, <3>1 DEF PlannedOK
    <3>3. PlannedOK(comp, payload[comp.node])
      BY <2>6, <3>2 DEF P
    <3> QED  BY <2>1, <2>8, <3>3, PlanStepKept
  <2>9. CASE Run(w, "manual", rows, ManualStatements(P(w), rows), "none")
    <3>1. PICK plan : plan = ManualStatements(P(w), rows)
      OBVIOUS
    <3>2. \A i \in DOMAIN plan.stmts : PathKeeps(plan.stmts[i], P(w), "manual", rows)
      BY <1>4, <2>1, <2>3, <3>1, ManualFacts
    <3>3. Run(w, "manual", rows, plan, "none")
      BY <2>9, <3>1
    <3> QED  BY <2>1, <2>3, <3>2, <3>3, Runs
  <2> QED  BY <2>4, <2>7, <2>8, <2>9
<1>7. CASE Compiled(w)
  <2>1. PICK plan : plan = CalciteStatements(P(w), writer[w].rows)
    OBVIOUS
  <2>2. /\ writer[w].pc = "compile" /\ UNCHANGED payload
        /\ Run(w, "calcite", writer[w].rows, plan, "none")
    BY <1>7, <2>1 DEF Compiled
  <2>3. \A i \in DOMAIN plan.stmts : PathKeeps(plan.stmts[i], P(w), "calcite", writer[w].rows)
    BY <1>4, <2>1, <2>2, CalciteFacts
  <2> QED  BY <1>4, <2>2, <2>3, Runs
<1>8. CASE NotCompiled(w)
  <2>1. PICK plan : plan = ManualStatements(P(w), writer[w].rows)
    OBVIOUS
  <2>2. /\ writer[w].pc = "compile" /\ UNCHANGED payload
        /\ Run(w, "manual", writer[w].rows, plan, "none")
    BY <1>8, <2>1 DEF NotCompiled
  <2>3. \A i \in DOMAIN plan.stmts : PathKeeps(plan.stmts[i], P(w), "manual", writer[w].rows)
    BY <1>4, <2>1, <2>2, ManualFacts
  <2> QED  BY <1>4, <2>2, <2>3, Runs
<1> QED  BY <1>2, <1>3, <1>5, <1>6, <1>7, <1>8

\* The steps of sending.
LEMMA PlanSending ==
    ASSUME PlanInv, PoolInv', NEW w \in Writer,
           Connect(w) \/ ThrowEarly(w) \/ Acquire(w) \/ QueryOk(w) \/ QueryError(w) \/ Sent(w)
    PROVE  PlanInv'
<1>1. DOMAIN writer[w] = WriterFields
  BY OwnPlan
<1>2. CASE ThrowEarly(w)
  <2>1. writer[w].pc = "send" /\ Fail(w) /\ UNCHANGED payload
    BY <1>2 DEF ThrowEarly, InTransaction
  <2> QED  BY <2>1, PlanFail
<1>3. CASE Connect(w) \/ Acquire(w) \/ QueryOk(w) \/ Sent(w) \/ (QueryError(w) /\ writer[w].path # "calcite")
  <2>1. PICK new : /\ writer' = [writer EXCEPT ![w] = new] /\ UNCHANGED payload
                   /\ writer[w].pc \in {"send", "query"} /\ new.pc \in {"send", "query", "done", "failed"}
                   /\ new.node = writer[w].node /\ new.mode = writer[w].mode
                   /\ new.rows = writer[w].rows /\ new.plan = writer[w].plan /\ new.path = writer[w].path
    <3>1. CASE Connect(w)
      <4> DEFINE new == [writer[w] EXCEPT !.held = @ + 1]
      <4>1. writer' = [writer EXCEPT ![w] = new] /\ writer[w].pc = "send" /\ UNCHANGED payload
        BY <3>1 DEF Connect, Become
      <4>2. /\ new.pc = "send" /\ new.node = writer[w].node /\ new.mode = writer[w].mode
            /\ new.rows = writer[w].rows /\ new.plan = writer[w].plan /\ new.path = writer[w].path
        BY <1>1, <4>1 DEF WriterFields
      <4> HIDE DEF new
      <4> QED  BY <4>1, <4>2
    <3>2. CASE Acquire(w)
      <4> DEFINE new == [writer[w] EXCEPT !.pc = "query"]
      <4>1. writer' = [writer EXCEPT ![w] = new] /\ writer[w].pc = "send" /\ UNCHANGED payload
        BY <3>2 DEF Acquire, InTransaction, Become
      <4>2. /\ new.pc = "query" /\ new.node = writer[w].node /\ new.mode = writer[w].mode
            /\ new.rows = writer[w].rows /\ new.plan = writer[w].plan /\ new.path = writer[w].path
        BY <1>1, <4>1 DEF WriterFields
      <4> HIDE DEF new
      <4> QED  BY <4>1, <4>2
    <3>3. CASE QueryOk(w)
      <4> DEFINE new == [writer[w] EXCEPT !.pc = "send", !.next = @ + 1]
      <4>1. writer' = [writer EXCEPT ![w] = new] /\ writer[w].pc = "query" /\ UNCHANGED payload
        BY <3>3 DEF QueryOk, Become
      <4>2. /\ new.pc = "send" /\ new.node = writer[w].node /\ new.mode = writer[w].mode
            /\ new.rows = writer[w].rows /\ new.plan = writer[w].plan /\ new.path = writer[w].path
        BY <1>1, <4>1 DEF WriterFields
      <4> HIDE DEF new
      <4> QED  BY <4>1, <4>2
    <3>4. CASE Sent(w)
      <4> DEFINE new == [writer[w] EXCEPT !.pc = "done", !.held = 0]
      <4>1. writer' = [writer EXCEPT ![w] = new] /\ writer[w].pc = "send" /\ UNCHANGED payload
        BY <3>4 DEF Sent, InTransaction, Become
      <4>2. /\ new.pc = "done" /\ new.node = writer[w].node /\ new.mode = writer[w].mode
            /\ new.rows = writer[w].rows /\ new.plan = writer[w].plan /\ new.path = writer[w].path
        BY <1>1, <4>1 DEF WriterFields
      <4> HIDE DEF new
      <4> QED  BY <4>1, <4>2
    <3>5. CASE QueryError(w) /\ writer[w].path # "calcite"
      <4> DEFINE new == [writer[w] EXCEPT !.pc = "failed", !.held = 0]
      <4>1. writer' = [writer EXCEPT ![w] = new] /\ writer[w].pc = "query" /\ UNCHANGED payload
        BY <3>5 DEF QueryError, Become
      <4>2. /\ new.pc = "failed" /\ new.node = writer[w].node /\ new.mode = writer[w].mode
            /\ new.rows = writer[w].rows /\ new.plan = writer[w].plan /\ new.path = writer[w].path
        BY <1>1, <4>1 DEF WriterFields
      <4> HIDE DEF new
      <4> QED  BY <4>1, <4>2
    <3> QED  BY <1>3, <3>1, <3>2, <3>3, <3>4, <3>5
  <2>2. writer[w].pc # "idle"
    BY <2>1
  <2> QED  BY <2>1, <2>2, GoesOn
<1>4. CASE QueryError(w) /\ writer[w].path = "calcite"
  <2>1. PICK plan : plan = ManualStatements(P(w), writer[w].rows)
    OBVIOUS
  <2> DEFINE new == [writer[w] EXCEPT !.pc = "send", !.path = "manual", !.next = 1, !.plan = plan]
  <2>2. writer[w].pc = "query" /\ writer' = [writer EXCEPT ![w] = new] /\ UNCHANGED payload
    BY <1>4, <2>1 DEF QueryError, Become
  <2>3. IsPayload(P(w)) /\ PlannedOK(writer[w], P(w))
    BY <2>2, OwnPlan
  <2>4. IsRows(writer[w].rows) /\ PlanMode(writer[w].mode, P(w))
    BY <2>2, <2>3 DEF PlannedOK
  <2>5. /\ new.pc = "send" /\ new.node = writer[w].node /\ new.mode = writer[w].mode
        /\ new.rows = writer[w].rows /\ new.plan = plan /\ new.path = "manual"
    BY <1>1 DEF WriterFields
  <2> HIDE DEF new
  <2>6. \A i \in DOMAIN plan.stmts : PathKeeps(plan.stmts[i], P(w), "manual", writer[w].rows)
    BY <2>1, <2>3, <2>4, ManualFacts
  <2>7. \A i \in DOMAIN plan.stmts :
            StatementKept(plan.stmts[i], P(w), writer[w].mode, "manual", writer[w].rows)
    BY <2>3, <2>4, <2>6, KeptNow
  <2>8. PlannedOK(new, P(w))
    BY <2>4, <2>5, <2>7 DEF PlannedOK
  <2>9. PlannedOK(new, payload[new.node])
    BY <2>5, <2>8 DEF P
  <2> QED  BY <2>2, <2>9, PlanStepKept
<1> QED  BY <1>2, <1>3, <1>4

\* The steps that end an execution.
LEMMA PlanEnd ==
    ASSUME PlanInv, PoolInv', NEW w \in Writer, FinishOk(w) \/ FinishFailed(w) \/ QueryEnds(w)
    PROVE  PlanInv'
<1>1. DOMAIN writer[w] = WriterFields
  BY OwnPlan
<1>2. PICK n : /\ UNCHANGED payload
               /\ \/ writer' = [writer EXCEPT ![w] = [Idle EXCEPT !.runs = n]]
                  \/ /\ writer[w].pc = "idle"
                     /\ writer' = [writer EXCEPT ![w] = [writer[w] EXCEPT !.runs = n]]
  BY DEF FinishOk, FinishFailed, QueryEnds, Become
<1>3. CASE writer' = [writer EXCEPT ![w] = [Idle EXCEPT !.runs = n]]
  <2> DEFINE new == [Idle EXCEPT !.runs = n]
  <2>1. new.pc = "idle"
    BY DEF Idle
  <2>2. writer' = [writer EXCEPT ![w] = new]
    BY <1>3
  <2> HIDE DEF new
  <2> QED  BY <1>2, <2>1, <2>2, PlanStepKept
<1>4. CASE writer[w].pc = "idle" /\ writer' = [writer EXCEPT ![w] = [writer[w] EXCEPT !.runs = n]]
  <2> DEFINE new == [writer[w] EXCEPT !.runs = n]
  <2>1. new.pc = "idle"
    BY <1>1, <1>4 DEF WriterFields
  <2>2. writer' = [writer EXCEPT ![w] = new]
    BY <1>4
  <2> HIDE DEF new
  <2> QED  BY <1>2, <2>1, <2>2, PlanStepKept
<1> QED  BY <1>2, <1>3, <1>4

\* Every step keeps the invariant.
LEMMA PlanStep ==
    ASSUME PlanInv, [Next]_vars
    PROVE  PlanInv'
<1>1. PoolInv'
  BY PoolStep DEF PlanInv
<1>2. ASSUME NEW w \in Writer, Start(w) PROVE PlanInv'
  <2>1. PICK n \in Node, rows \in InputRows, up \in Upstream : Begin(w, n, rows, up, 1)
    BY <1>2 DEF Start
  <2>2. IsRows(rows)
    BY WriteAssumption DEF IsRows
  <2> QED  BY <1>1, <2>1, <2>2, PlanBegin
<1>3. ASSUME NEW w \in Writer, Retry(w) PROVE PlanInv'
  <2>1. /\ writer[w].pc = "failed"
        /\ Begin(w, writer[w].node, writer[w].rows, writer[w].up, writer[w].attempt + 1)
    BY <1>3 DEF Retry
  <2>2. writer[w].node \in Node /\ IsRows(writer[w].rows)
    BY <2>1, OwnPlan DEF PlannedOK
  <2> QED  BY <1>1, <2>1, <2>2, PlanBegin
<1>4. ASSUME NEW w \in Writer, QueryEnds(w) PROVE PlanInv'
  BY <1>1, <1>4, PlanEnd
<1>5. ASSUME NEW w \in Writer, Step(w) PROVE PlanInv'
  BY <1>1, <1>5, PlanPrepare, PlanSending, PlanEnd DEF Step
<1>6. CASE UNCHANGED <<payload, writer>>
  BY <1>1, <1>6 DEF PlanInv
<1>7. CASE CursorExpires
  BY <1>6, <1>7 DEF CursorExpires
<1>8. CASE UNCHANGED vars
  BY <1>6, <1>8 DEF vars
<1> QED  BY <1>2, <1>3, <1>4, <1>5, <1>7, <1>8 DEF Next

\* At the start nothing is planned.
LEMMA PlanInit ==
    ASSUME Init
    PROVE  PlanInv
<1>1. PoolInv
  BY PoolInit
<1>2. \A n \in Node : IsPayload(payload[n])
  BY WriteAssumption DEF Init
<1>3. \A w \in Writer : writer[w].pc = "idle"
  BY DEF Init, Idle
<1> QED  BY <1>1, <1>2, <1>3 DEF PlanInv

\* Every statement on its way to the database is one that keeps the plan, and
\* stays so while other executions rewrite the payload.
THEOREM PlanInvariance == Spec => []PlanInv
<1>1. Init => PlanInv
  BY PlanInit
<1>2. PlanInv /\ [Next]_vars => PlanInv'
  BY PlanStep
<1> QED  BY <1>1, <1>2, PTL DEF Spec

\* The statement the invariant speaks of.
LEMMA SentKept ==
    ASSUME PlanInv, NEW w \in Writer, Sending(w), NEW i \in DOMAIN Plan(w)
    PROVE  StatementKept(Plan(w)[i], P(w), writer[w].mode, writer[w].path, writer[w].rows)
<1>1. writer[w].pc \in {"send", "query"}
  BY DEF Sending
<1>2. PlannedOK(writer[w], P(w))
  BY <1>1, OwnPlan
<1> QED  BY <1>1, <1>2 DEF PlannedOK, Plan

\* For every payload, every input and every interleaving of executions, retries
\* and fallbacks, each placeholder of a statement stands for its value, but for
\* the two paths that ParametersBound names.
THEOREM ParametersAreBound == Spec => []ParametersBound
<1>1. ASSUME PlanInv, NEW w \in Writer, Sending(w), NEW i \in DOMAIN Plan(w)
      PROVE  \/ BoundAsMeant(Plan(w)[i])
             \/ writer[w].path = "cursor" /\ Plan(w)[i].op = "UPDATE"
             \/ Plan(w)[i].op = "UPSERT" /\ ~(ToSet(P(w).update) \subseteq Inserted(Plan(w)[i]))
  BY <1>1, SentKept DEF StatementKept, Meant
<1>2. PlanInv => ParametersBound
  BY <1>1 DEF ParametersBound
<1> QED  BY <1>2, PlanInvariance, PTL

\* Whatever path execute() takes, and whatever other executions do to the payload
\* meanwhile, a statement has the operation of its plan, its conditions and none
\* of the columns an UPDATE may not set, but for the cases PlanKept names.
THEOREM PlansAreKept == Spec => []PlanKept
<1>1. ASSUME PlanInv PROVE OperationKept
  <2>1. SUFFICES ASSUME NEW w \in Writer, Sending(w), NEW i \in DOMAIN Plan(w)
                 PROVE  \/ IsOperation(writer[w].mode, Plan(w)[i])
                        \/ writer[w].path = "manual" /\ HasRowDrivenWhere(P(w), writer[w].rows)
                        \/ Plan(w)[i].op = "UPDATE" /\ Unmarked(w)
    BY DEF OperationKept
  <2> QED  BY <1>1, <2>1, SentKept DEF StatementKept, Unmarked, MayLeaveUnmarked
<1>2. ASSUME PlanInv PROVE WhereKept
  <2>1. SUFFICES ASSUME NEW w \in Writer, Sending(w), NEW i \in DOMAIN Plan(w),
                        Plan(w)[i].op \in {"UPDATE", "DELETE"}
                 PROVE  /\ Plan(w)[i].where # <<>>
                        /\ \/ \A c \in DOMAIN P(w).staticWhere :
                                 P(w).staticWhere[c] # <<>> => c \in ColsOf(Plan(w)[i].where)
                           \/ Plan(w)[i].op = "DELETE" /\ writer[w].path = "manual"
                           \/ writer[w].path = "cursor"
    BY DEF WhereKept, ColsOf
  <2>2. Tested(Plan(w)[i], P(w), writer[w].path)
    BY <1>2, <2>1, SentKept DEF StatementKept
  <2>3. \A c \in DOMAIN P(w).staticWhere : P(w).staticWhere[c] # <<>> => c \in Conditions(P(w))
    BY DEF Conditions
  <2> QED  BY <2>1, <2>2, <2>3 DEF Tested
<1>3. ASSUME PlanInv PROVE ImmutableKept
  <2>1. SUFFICES ASSUME NEW w \in Writer, Sending(w), writer[w].mode = "update",
                        NEW i \in DOMAIN Plan(w), NEW j \in DOMAIN Plan(w)[i].set
                 PROVE  \/ Plan(w)[i].set[j].col \notin BlockedCols
                        \/ Plan(w)[i].set[j].col \in ToSet(P(w).columns) \cup DOMAIN P(w).fields
    BY DEF ImmutableKept
  <2>2. ColsOf(Plan(w)[i].set) \cap BlockedCols \subseteq ToSet(P(w).columns) \cup DOMAIN P(w).fields
    BY <1>3, <2>1, SentKept DEF StatementKept
  <2>3. Plan(w)[i].set[j].col \in ColsOf(Plan(w)[i].set)
    BY DEF ColsOf
  <2> QED  BY <2>2, <2>3
<1>4. PlanInv => PlanKept
  BY <1>1, <1>2, <1>3 DEF PlanKept
<1> QED  BY <1>4, PlanInvariance, PTL

-----------------------------------------------------------------------------
(* What a filter picks, and the values of a column.                      *)

\* g lists the positions of the n elements of s that are in S, from the first on.
Picks(g, n, s, S) ==
    /\ \A j \in 1..n : g[j] \in 1..Len(s) /\ s[g[j]] \in S
    /\ \A j, k \in 1..n : j < k => g[j] < g[k]
    /\ \A i \in 1..Len(s) : s[i] \in S => \E j \in 1..n : g[j] = i

\* A filter along the positions it keeps.
LEMMA FilterAlong ==
    ASSUME NEW s, IsList(s), NEW S, NEW n \in Nat, NEW g, Picks(g, n, s, S)
    PROVE  Len(Filter(s, S)) = n /\ \A j \in 1..n : Filter(s, S)[j] = s[g[j]]
<1> DEFINE r(i) == Rank(s, S, i)
           D == {i \in Nat : r(i) \in 0..n /\ \A j \in 1..n : g[j] <= i <=> j <= r(i)}
<1>0. /\ \A j \in 1..n : g[j] \in 1..Len(s) /\ s[g[j]] \in S
      /\ \A j, k \in 1..n : j < k => g[j] < g[k]
      /\ \A i \in 1..Len(s) : s[i] \in S => \E j \in 1..n : g[j] = i
  BY DEF Picks
<1>1. Len(s) \in Nat /\ (\A j \in 1..n : g[j] \in Int) /\ s \in Seq(ToSet(s))
  BY <1>0, ListFacts DEF IsList
<1>2. \A i \in Nat : r(i) \in Nat /\ r(i + 1) = r(i) + (IF s[i + 1] \in S THEN 1 ELSE 0)
  BY RankFacts
<1>3. 0 \in D
  <2>1. r(0) = 0
    BY RankZero
  <2> HIDE DEF r
  <2>2. \A j \in 1..n : g[j] > 0
    BY <1>0
  <2> QED  BY <1>1, <2>1, <2>2
<1>4. ASSUME NEW i \in Nat, i < Len(s), i \in D PROVE i + 1 \in D
  <2>1. r(i) \in 0..n /\ \A j \in 1..n : g[j] <= i <=> j <= r(i)
    BY <1>4
  <2>2. r(i + 1) = r(i) + (IF s[i + 1] \in S THEN 1 ELSE 0)
    BY <1>2
  <2> HIDE DEF r
  <2>3. CASE s[i + 1] \in S
    <3>1. i + 1 \in 1..Len(s)
      BY <1>1, <1>4
    <3>2. PICK k \in 1..n : g[k] = i + 1
      BY <1>0, <2>3, <3>1
    <3>3. k > r(i)
      BY <2>1, <3>2
    <3>4. k <= r(i) + 1
      <4>1. CASE k > r(i) + 1
        <5>1. r(i) + 1 \in 1..n /\ r(i) + 1 < k
          BY <2>1, <4>1
        <5>2. g[r(i) + 1] < i + 1
          BY <1>0, <3>2, <5>1
        <5>3. g[r(i) + 1] <= i
          BY <1>1, <5>1, <5>2
        <5> QED  BY <2>1, <5>1, <5>3
      <4> QED  BY <2>1, <4>1
    <3>5. k = r(i + 1)
      BY <2>1, <2>2, <2>3, <3>3, <3>4
    <3>6. ASSUME NEW j \in 1..n PROVE g[j] <= i + 1 <=> j <= k
      <4>1. j < k => g[j] < g[k]
        BY <1>0
      <4>2. k < j => g[k] < g[j]
        BY <1>0
      <4> QED  BY <1>1, <3>2, <4>1, <4>2
    <3> QED  BY <3>5, <3>6
  <2>4. CASE s[i + 1] \notin S
    <3>1. r(i + 1) = r(i)
      BY <2>1, <2>2, <2>4
    <3>2. ASSUME NEW j \in 1..n PROVE g[j] <= i + 1 <=> g[j] <= i
      <4>1. g[j] # i + 1
        BY <1>0, <2>4
      <4> QED  BY <1>1, <4>1
    <3> QED  BY <2>1, <3>1, <3>2
  <2> QED  BY <2>3, <2>4
<1> HIDE DEF D
<1>5. \A i \in 0..Len(s) : i \in D
  BY <1>1, <1>3, <1>4, UpTo
<1>6. \A i \in 0..Len(s) : r(i) \in 0..n /\ \A j \in 1..n : g[j] <= i <=> j <= r(i)
  BY <1>5 DEF D
<1>7. r(Len(s)) = n
  <2> HIDE DEF r
  <2>1. Len(s) \in 0..Len(s)
    BY <1>1
  <2>2. CASE n = 0
    BY <1>6, <2>1, <2>2
  <2>3. CASE n # 0
    <3>1. n \in 1..n /\ g[n] <= Len(s)
      BY <1>0, <2>3
    <3> QED  BY <1>6, <2>1, <3>1
  <2> QED  BY <2>2, <2>3
<1>8. \A j \in 1..n : r(g[j]) = j
  <2> HIDE DEF r
  <2>1. SUFFICES ASSUME NEW j \in 1..n PROVE r(g[j]) = j
    OBVIOUS
  <2>2. g[j] \in 0..Len(s) /\ g[j] <= g[j]
    BY <1>0, <1>1
  <2>3. j <= r(g[j]) /\ r(g[j]) \in 0..n
    BY <1>6, <2>2
  <2>4. CASE r(g[j]) > j
    <3>1. j + 1 \in 1..n /\ j < j + 1 /\ j + 1 <= r(g[j])
      BY <2>3, <2>4
    <3>2. g[j + 1] <= g[j]
      BY <1>6, <2>2, <3>1
    <3>3. g[j] < g[j + 1]
      BY <1>0, <3>1
    <3> QED  BY <1>1, <3>1, <3>2, <3>3
  <2> QED  BY <2>3, <2>4
<1>9. KeptOf(Filter(s, S), s, S, Len(s), ToSet(s))
  BY <1>1, FilterKeeps
<1>10. /\ Len(Filter(s, S)) = r(Len(s))
       /\ \A j \in 1..Len(s) : s[j] \in S => Filter(s, S)[r(j)] = s[j]
  BY <1>9 DEF KeptOf
<1> HIDE DEF r
<1> QED  BY <1>0, <1>7, <1>8, <1>10

\* The entries of a list for a column.
EntriesFor(L, c) == {e \in ToSet(L) : e.col = c}

\* The values that a list gives a column, along its entries for that column.
LEMMA ValuesAlong ==
    ASSUME NEW L, IsList(L), NEW c, NEW n \in Nat, NEW g, Picks(g, n, L, EntriesFor(L, c))
    PROVE  /\ ValuesFor(L, c) = [j \in 1..n |-> ValuesFor(L, c)[j]]
           /\ \A j \in 1..n : ValuesFor(L, c)[j] = L[g[j]].val
<1> DEFINE hits == Filter(L, EntriesFor(L, c))
<1>1. L \in Seq(ToSet(L))
  BY DEF IsList
<1>2. ValuesFor(L, c) = [j \in DOMAIN hits |-> hits[j].val]
  BY Zenon DEF ValuesFor, EntriesFor
<1>3. Len(hits) = n /\ \A j \in 1..n : hits[j] = L[g[j]]
  BY FilterAlong
<1>4. DOMAIN hits = 1..n
  <2>1. DOMAIN hits = 1..Len(hits)
    BY <1>1, FilterSet
  <2> QED  BY <1>3, <2>1
<1> HIDE DEF hits
<1> QED  BY <1>2, <1>3, <1>4

\* A list without an entry for the column, and one with a single entry.
LEMMA ValuesOnce ==
    ASSUME NEW L, IsList(L), NEW c
    PROVE  /\ (\A i \in DOMAIN L : L[i].col # c) => ValuesFor(L, c) = <<>>
           /\ \A i \in DOMAIN L :
                (L[i].col = c /\ \A k \in DOMAIN L : L[k].col = c => k = i)
                  => ValuesFor(L, c) = <<L[i].val>>
<1>0. Len(L) \in Nat /\ DOMAIN L = 1..Len(L) /\ \A i \in DOMAIN L : L[i] \in ToSet(L)
  BY ListFacts
<1>1. \A i \in 1..Len(L) : L[i] \in EntriesFor(L, c) <=> L[i].col = c
  BY <1>0 DEF EntriesFor
<1>2. ASSUME \A i \in DOMAIN L : L[i].col # c PROVE ValuesFor(L, c) = <<>>
  <2>1. Picks(<<>>, 0, L, EntriesFor(L, c))
    BY <1>0, <1>1, <1>2 DEF Picks
  <2>2. ValuesFor(L, c) = [j \in 1..0 |-> ValuesFor(L, c)[j]]
    BY <2>1, ValuesAlong
  <2> QED  BY <2>2
<1>3. ASSUME NEW i \in DOMAIN L, L[i].col = c, \A k \in DOMAIN L : L[k].col = c => k = i
      PROVE  ValuesFor(L, c) = <<L[i].val>>
  <2>1. PICK g : g = <<i>>
    OBVIOUS
  <2>2. g[1] = i /\ \A j \in 1..1 : j = 1
    BY <2>1
  <2>3. Picks(g, 1, L, EntriesFor(L, c))
    BY <1>0, <1>1, <1>3, <2>2 DEF Picks
  <2>4. PICK n : n \in Nat /\ n = 1
    OBVIOUS
  <2>5. Picks(g, n, L, EntriesFor(L, c))
    BY <2>3, <2>4
  <2>6. /\ ValuesFor(L, c) = [j \in 1..n |-> ValuesFor(L, c)[j]]
        /\ \A j \in 1..n : ValuesFor(L, c)[j] = L[g[j]].val
    BY <2>4, <2>5, ValuesAlong
  <2> QED  BY <2>2, <2>4, <2>6
<1> QED  BY <1>2, <1>3

\* s is the d values of v behind the first a.
IsPiece(s, v, a, d) == s = [j \in 1..d |-> s[j]] /\ \A j \in 1..d : s[j] = v[a + j]

\* There is one such list.
LEMMA PieceIs ==
    ASSUME NEW v, NEW a, NEW d, NEW s, NEW t, IsPiece(s, v, a, d), IsPiece(t, v, a, d)
    PROVE  s = t
<1>1. s = [j \in 1..d |-> s[j]] /\ t = [j \in 1..d |-> t[j]] /\ \A j \in 1..d : s[j] = t[j]
  BY DEF IsPiece
<1> QED  BY <1>1

\* The pieces of a list, one behind the other.
LEMMA PiecesJoin ==
    ASSUME NEW v, NEW a \in Nat, NEW d \in Nat, NEW s, NEW t,
           IsPiece(s, v, 0, a), IsPiece(t, v, a, d)
    PROVE  IsPiece(s \o t, v, 0, a + d)
<1>1. IsList(s) /\ Len(s) = a
  <2>1. s = [j \in 1..a |-> s[j]]
    BY DEF IsPiece
  <2> QED  BY <2>1, ListOf
<1>2. IsList(t) /\ Len(t) = d
  <2>1. t = [j \in 1..d |-> t[j]]
    BY DEF IsPiece
  <2> QED  BY <2>1, ListOf
<1>3. PICK u : u = s \o t
  OBVIOUS
<1>4. /\ IsList(u) /\ Len(u) = a + d
      /\ \A i \in 1..a : u[i] = s[i]
      /\ \A i \in 1..d : u[a + i] = t[i]
  <2>1. /\ IsList(s \o t) /\ Len(s \o t) = Len(s) + Len(t)
        /\ \A i \in 1..Len(s) : (s \o t)[i] = s[i]
        /\ \A i \in 1..Len(t) : (s \o t)[Len(s) + i] = t[i]
    BY <1>1, <1>2, Joined
  <2> QED  BY <1>1, <1>2, <1>3, <2>1
<1>5. u = [j \in 1..a + d |-> u[j]]
  <2>1. u \in Seq(ToSet(u))
    BY <1>4 DEF IsList
  <2>2. u = [j \in 1..Len(u) |-> u[j]]
    BY <2>1
  <2> QED  BY <1>4, <2>2
<1>6. ASSUME NEW j \in 1..a + d PROVE u[j] = v[0 + j]
  <2>1. CASE j \in 1..a
    BY <1>4, <2>1 DEF IsPiece
  <2>2. CASE j \notin 1..a
    <3>1. PICK i \in 1..d : j = a + i
      <4>1. j - a \in 1..d /\ j = a + (j - a)
        BY <2>2
      <4> QED  BY <4>1
    <3>2. u[j] = t[i] /\ t[i] = v[a + i] /\ 0 + j = a + i
      BY <1>4, <3>1 DEF IsPiece
    <3> QED  BY <3>2
  <2> QED  BY <2>1, <2>2
<1> QED  BY <1>3, <1>5, <1>6 DEF IsPiece

\* m pieces of v, the b-th from behind cut[b - 1] to cut[b].
Pieces(parts, m, v, cut) ==
    /\ parts = [b \in 1..m |-> parts[b]]
    /\ cut[0] = 0 /\ \A b \in 0..m : cut[b] \in Nat
    /\ \A b \in 1..m : cut[b - 1] <= cut[b] /\ IsPiece(parts[b], v, cut[b - 1], cut[b] - cut[b - 1])

\* g joins the first i parts, for every i.
IsFlattening(g, parts, n) ==
    g = [i \in 1..n |-> IF i = 1 THEN parts[i] ELSE g[i - 1] \o parts[i]]

\* Putting the pieces of a list together gives the list.
LEMMA FlattenPieces ==
    ASSUME NEW m \in Nat, NEW parts, NEW v, NEW cut, Pieces(parts, m, v, cut)
    PROVE  IsPiece(FlattenSeq(parts), v, 0, cut[m])
<1>1. /\ cut[0] = 0 /\ \A b \in 0..m : cut[b] \in Nat
      /\ \A b \in 1..m : cut[b - 1] <= cut[b] /\ IsPiece(parts[b], v, cut[b - 1], cut[b] - cut[b - 1])
  BY DEF Pieces
<1>2. Len(parts) = m
  <2>1. parts = [b \in 1..m |-> parts[b]]
    BY DEF Pieces
  <2> QED  BY <2>1, ListOf
<1>3. ASSUME NEW i \in 1..m, NEW s, IsPiece(s, v, 0, cut[i - 1])
      PROVE  IsPiece(s \o parts[i], v, 0, cut[i])
  <2>1. i - 1 \in 0..m /\ i \in 0..m
    OBVIOUS
  <2>2. PICK a \in Nat, d \in Nat : a = cut[i - 1] /\ d = cut[i] - cut[i - 1] /\ a + d = cut[i]
    <3>1. cut[i - 1] \in Nat /\ cut[i] \in Nat /\ cut[i - 1] <= cut[i]
      BY <1>1, <2>1
    <3>2. cut[i] - cut[i - 1] \in Nat /\ cut[i - 1] + (cut[i] - cut[i - 1]) = cut[i]
      BY <3>1
    <3> QED  BY <3>1, <3>2
  <2>3. IsPiece(s, v, 0, a) /\ IsPiece(parts[i], v, a, d)
    BY <1>1, <1>3, <2>2
  <2>4. IsPiece(s \o parts[i], v, 0, a + d)
    BY <2>3, PiecesJoin
  <2> QED  BY <2>2, <2>4
<1>4. m > 0 => IsPiece(parts[1], v, 0, cut[1])
  <2>1. ASSUME m > 0 PROVE IsPiece(parts[1], v, 0, cut[1])
    <3>1. 1 \in 1..m /\ 1 - 1 = 0 /\ cut[1] \in Nat
      BY <1>1, <2>1
    <3>2. IsPiece(parts[1], v, cut[0], cut[1] - cut[0]) /\ cut[1] - cut[0] = cut[1]
      BY <1>1, <3>1
    <3> QED  BY <1>1, <3>2
  <2> QED  BY <2>1
<1>5. CASE m = 0
  <2>1. FlattenSeq(parts) = parts
    BY <1>2, <1>5, Zenon DEF FlattenSeq
  <2>2. parts = [b \in 1..0 |-> parts[b]]
    BY <1>5 DEF Pieces
  <2>3. IsPiece(parts, v, 0, 0)
    BY <2>2 DEF IsPiece
  <2> QED  BY <1>1, <1>5, <2>1, <2>3
<1>6. CASE m > 0
  <2> DEFINE F == CHOOSE f : f = [i \in 1..Len(parts) |->
                                    IF i = 1 THEN parts[i] ELSE f[i - 1] \o parts[i]]
  <2>1. FlattenSeq(parts) = F[Len(parts)]
    <3>1. Len(parts) # 0
      BY <1>2, <1>6
    <3> QED  BY <3>1, Zenon DEF FlattenSeq
  <2>2. \E f : IsFlattening(f, parts, m)
    <3> DEFINE f == [i \in 1..m |-> [j \in 1..cut[i] |-> v[j]]]
    <3>1. ASSUME NEW i \in 1..m PROVE IsPiece(f[i], v, 0, cut[i])
      <4>1. f[i] = [j \in 1..cut[i] |-> v[j]]
        OBVIOUS
      <4> HIDE DEF f
      <4>2. cut[i] \in Nat
        BY <1>1
      <4>3. \A j \in 1..cut[i] : f[i][j] = v[j] /\ 0 + j = j
        BY <4>1, <4>2
      <4>4. f[i] = [j \in 1..cut[i] |-> f[i][j]]
        BY <4>1, <4>3
      <4> QED  BY <4>3, <4>4 DEF IsPiece
    <3>2. f = [i \in 1..m |-> f[i]]
      OBVIOUS
    <3> HIDE DEF f
    <3>3. ASSUME NEW i \in 1..m PROVE f[i] = IF i = 1 THEN parts[i] ELSE f[i - 1] \o parts[i]
      <4>1. CASE i = 1
        BY <1>4, <1>6, <3>1, <4>1, PieceIs
      <4>2. CASE i # 1
        <5>1. i - 1 \in 1..m
          BY <4>2
        <5>2. IsPiece(f[i - 1] \o parts[i], v, 0, cut[i])
          BY <1>3, <3>1, <5>1
        <5>3. f[i] = f[i - 1] \o parts[i]
          BY <3>1, <5>2, PieceIs
        <5> QED  BY <4>2, <5>3
      <4> QED  BY <4>1, <4>2
    <3>4. f = [i \in 1..m |-> IF i = 1 THEN parts[i] ELSE f[i - 1] \o parts[i]]
      BY <3>2, <3>3
    <3>5. IsFlattening(f, parts, m)
      BY <3>4, Zenon DEF IsFlattening
    <3> QED  BY <3>5
  <2>3. IsFlattening(F, parts, m)
    <3>1. \E f : f = [i \in 1..Len(parts) |->
                        IF i = 1 THEN parts[i] ELSE f[i - 1] \o parts[i]]
      BY <1>2, <2>2, Zenon DEF IsFlattening
    <3>2. F = [i \in 1..Len(parts) |->
                 IF i = 1 THEN parts[i] ELSE F[i - 1] \o parts[i]]
      BY <3>1, Zenon
    <3> HIDE DEF F
    <3> QED  BY <1>2, <3>2, Zenon DEF IsFlattening
  <2> HIDE DEF F
  <2>4. \A i \in 1..m : F[i] = IF i = 1 THEN parts[i] ELSE F[i - 1] \o parts[i]
    BY <2>3, Zenon DEF IsFlattening
  <2> DEFINE D == {i \in Nat : i = 0 \/ IsPiece(F[i], v, 0, cut[i])}
  <2>5. 0 \in D
    OBVIOUS
  <2>6. ASSUME NEW i \in Nat, i < m, i \in D PROVE i + 1 \in D
    <3>1. i + 1 \in 1..m /\ (i + 1) - 1 = i
      BY <2>6
    <3>2. CASE i = 0
      <4>1. F[i + 1] = parts[1]
        BY <2>4, <3>1, <3>2
      <4>2. IsPiece(F[i + 1], v, 0, cut[i + 1])
        BY <1>4, <1>6, <3>2, <4>1
      <4> QED  BY <4>2
    <3>3. CASE i # 0
      <4>1. i + 1 # 1
        BY <3>3
      <4>2. F[i + 1] = F[i] \o parts[i + 1]
        BY <2>4, <3>1, <4>1
      <4>3. IsPiece(F[i], v, 0, cut[(i + 1) - 1])
        BY <2>6, <3>1, <3>3
      <4>4. IsPiece(F[i] \o parts[i + 1], v, 0, cut[i + 1])
        BY <1>3, <3>1, <4>3
      <4>5. IsPiece(F[i + 1], v, 0, cut[i + 1])
        BY <4>2, <4>4
      <4> QED  BY <4>5
    <3> QED  BY <3>2, <3>3
  <2> HIDE DEF D
  <2>7. \A i \in 0..m : i \in D
    BY <2>5, <2>6, UpTo
  <2>8. IsPiece(F[m], v, 0, cut[m])
    BY <1>6, <2>7 DEF D
  <2> QED  BY <1>2, <2>1, <2>8
<1> QED  BY <1>5, <1>6

\* Products grow with their factors.
LEMMA Products ==
    ASSUME NEW a \in Int, NEW b \in Int, NEW d \in Nat
    PROVE  /\ a * d \in Int /\ b * d \in Int
           /\ a <= b => a * d <= b * d
           /\ (a + 1) * d = a * d + d
           /\ (a - 1) * d = a * d - d
           /\ a * d < b * d => a < b
<1>1. a * d \in Int /\ b * d \in Int
  OBVIOUS
<1>2. (a + 1) * d = a * d + d
  OBVIOUS
<1>3. (a - 1) * d = a * d - d
  OBVIOUS
<1>4. a <= b => a * d <= b * d
  OBVIOUS
<1>5. a * d < b * d => a < b
  OBVIOUS
<1> QED  BY <1>1, <1>2, <1>3, <1>4, <1>5

\* Division and its rest.
LEMMA Divided ==
    ASSUME NEW k \in Int, NEW d \in Nat \ {0}
    PROVE  /\ k \div d \in Int /\ k % d \in 0..d - 1
           /\ k = (k \div d) * d + (k % d)
           /\ k >= 0 => k \div d \in Nat
<1>1. k \div d \in Int /\ k % d \in 0..d - 1
  OBVIOUS
<1>2. k = (k \div d) * d + (k % d)
  OBVIOUS
<1>3. k >= 0 => k \div d \in Nat
  OBVIOUS
<1> QED  BY <1>1, <1>2, <1>3

\* They are the only ones.
LEMMA DividedOnce ==
    ASSUME NEW d \in Nat \ {0}, NEW a \in Nat, NEW r \in 0..d - 1
    PROVE  (a * d + r) \div d = a /\ (a * d + r) % d = r
<1>1. PICK k \in Int : k = a * d + r
  OBVIOUS
<1>2. PICK x \in Int, y \in 0..d - 1 : x = k \div d /\ y = k % d /\ k = x * d + y
  BY <1>1, Divided
<1>3. x < a => FALSE
  BY <1>1, <1>2
<1>4. x > a => FALSE
  BY <1>1, <1>2
<1> QED  BY <1>1, <1>2, <1>3, <1>4

\* Where the parameter of a column stands among those of a row, and of two rows.
LEMMA Place ==
    ASSUME NEW len \in Nat \ {0}, NEW size \in Nat, NEW a \in Nat, a < size, NEW r \in 0..len - 1,
           NEW m, m = size * len, NEW k, k = a * len + r
    PROVE  k \in Nat /\ k < m /\ k \div len = a /\ k % len = r
<1>1. PICK x \in Int : x = a * len
  OBVIOUS
<1>2. PICK z \in Int : z = m
  OBVIOUS
<1>3. x >= 0 /\ x + len <= z
  <2>1. a \in Int /\ a + 1 \in Int /\ len \in Nat /\ 0 <= a /\ a + 1 <= size
    OBVIOUS
  <2>2. (a + 1) * len <= size * len /\ (a + 1) * len = a * len + len
    BY <2>1, Products
  <2>3. x + len <= z
    BY <1>1, <1>2, <2>2
  <2>4. 0 * len <= a * len
    BY <2>1, Products
  <2>5. 0 * len = 0
    OBVIOUS
  <2> QED  BY <1>1, <2>3, <2>4, <2>5
<1>4. k \div len = a /\ k % len = r
  BY DividedOnce
<1>5. k = x + r
  BY <1>1
<1> QED  BY <1>2, <1>3, <1>4, <1>5

LEMMA PlaceGrows ==
    ASSUME NEW len \in Nat \ {0}, NEW q \in Nat, NEW j \in Nat, NEW k \in Nat, j < k
    PROVE  (j - 1) * len + q < (k - 1) * len + q
<1>1. PICK a \in Int, e \in Int : a = j - 1 /\ e = k - 1
  OBVIOUS
<1>2. a + 1 <= e /\ a + 1 \in Int /\ len \in Nat
  BY <1>1
<1>3. (a + 1) * len <= e * len /\ (a + 1) * len = a * len + len
  BY <1>2, Products
<1>4. PICK x \in Int, z \in Int : x = a * len /\ z = e * len
  OBVIOUS
<1>5. x + len <= z
  BY <1>3, <1>4
<1>6. x + q < z + q
  BY <1>5
<1> QED  BY <1>1, <1>4, <1>6

\* A list of distinct columns, and what a filter keeps of it.
LEMMA FilterInjective ==
    ASSUME NEW s \in ColumnSeq, IsInjective(s), NEW S
    PROVE  IsInjective(Filter(s, S))
<1>1. s \in Seq(ToSet(Columns)) /\ DOMAIN s = 1..Len(s)
  BY DEF ColumnSeq
<1>2. PICK r : r = Filter(s, S)
  OBVIOUS
<1>3. KeptOf(r, s, S, Len(s), ToSet(Columns))
  BY <1>1, <1>2, FilterKeeps
<1>4. DOMAIN r = 1..Len(r)
  BY <1>3 DEF KeptOf
<1>5. ASSUME NEW a \in DOMAIN r, NEW b \in DOMAIN r, r[a] = r[b] PROVE a = b
  <2>1. PICK i \in 1..Len(s) : Rank(s, S, i) = a /\ r[a] = s[i]
    BY <1>3, <1>4, Zenon DEF KeptOf
  <2>2. PICK j \in 1..Len(s) : Rank(s, S, j) = b /\ r[b] = s[j]
    BY <1>3, <1>4, Zenon DEF KeptOf
  <2>3. i = j
    BY <1>1, <1>5, <2>1, <2>2 DEF IsInjective
  <2> QED  BY <2>1, <2>2, <2>3
<1> QED  BY <1>2, <1>5 DEF IsInjective

\* The columns of two such lists.
LEMMA UnionInjective ==
    ASSUME NEW a \in ColumnSeq, IsInjective(a), NEW b \in ColumnSeq, IsInjective(b)
    PROVE  IsInjective(Union(a, b))
<1>1. PICK d : d = Without(b, ToSet(a)) /\ d \in ColumnSeq /\ ToSet(d) = ToSet(b) \ ToSet(a)
  BY ColumnFacts
<1>2. IsInjective(d)
  BY <1>1, FilterInjective DEF Without
<1>3. PICK c : c = a \o d
  OBVIOUS
<1>4. /\ DOMAIN c = 1..Len(a) + Len(d) /\ Len(a) \in Nat /\ Len(d) \in Nat
      /\ DOMAIN a = 1..Len(a) /\ DOMAIN d = 1..Len(d)
      /\ \A i \in 1..Len(a) : c[i] = a[i]
      /\ \A i \in 1..Len(d) : c[Len(a) + i] = d[i]
  BY <1>1, <1>3, ColumnFacts, Joined
<1>5. ASSUME NEW i \in DOMAIN c
      PROVE  \/ i \in DOMAIN a /\ c[i] = a[i] /\ c[i] \in ToSet(a)
             \/ i - Len(a) \in DOMAIN d /\ c[i] = d[i - Len(a)] /\ c[i] \in ToSet(d)
  <2>1. CASE i \in 1..Len(a)
    BY <1>4, <2>1 DEF ToSet
  <2>2. CASE i \notin 1..Len(a)
    <3>1. PICK k \in 1..Len(d) : k = i - Len(a) /\ i = Len(a) + k
      <4>1. i - Len(a) \in 1..Len(d) /\ i = Len(a) + (i - Len(a))
        BY <1>4, <2>2
      <4> QED  BY <4>1
    <3>2. c[i] = d[k] /\ k \in DOMAIN d
      BY <1>4, <3>1
    <3> QED  BY <3>1, <3>2 DEF ToSet
  <2> QED  BY <2>1, <2>2
<1>6. ASSUME NEW i \in DOMAIN c, NEW j \in DOMAIN c, c[i] = c[j] PROVE i = j
  <2>1. i \in DOMAIN a /\ j \in DOMAIN a /\ a[i] = a[j] => i = j
    BY DEF IsInjective
  <2>2. i - Len(a) \in DOMAIN d /\ j - Len(a) \in DOMAIN d /\ d[i - Len(a)] = d[j - Len(a)] => i - Len(a) = j - Len(a)
    BY <1>2 DEF IsInjective
  <2>3. ToSet(a) \cap ToSet(d) = {}
    BY <1>1
  <2> QED  BY <1>4, <1>5, <1>6, <2>1, <2>2, <2>3
<1>7. IsInjective(c)
  BY <1>6 DEF IsInjective
<1> QED  BY <1>1, <1>3, <1>7 DEF Union

\* The keys of a record.
LEMMA KeysInjective ==
    ASSUME NEW f
    PROVE  IsInjective(Keys(f))
BY AllColumns, FilterInjective, StatementAssumption DEF Keys

-----------------------------------------------------------------------------
(* The INSERTs of manual SQL: batches of rows.                           *)

\* What an INSERT gives column c of a row: its literal or the row's own value.
Cell(c, row, static) == <<IF c \in DOMAIN static THEN static[c] ELSE Field(row, c)>>

\* v has that for each of the rows.
CellsOf(v, c, rows, static) == \A i \in 1..Len(rows) : v[i] = Cell(c, rows[i], static)

\* One batch: size rows behind the first ones, each with all the columns.
LEMMA BatchCells ==
    ASSUME NEW op, NEW all \in ColumnSeq, IsInjective(all), NEW rows, IsRows(rows), NEW static,
           NEW b \in Nat \ {0}, NEW c, NEW v, CellsOf(v, c, rows, static),
           NEW first, first = (b - 1) * BatchSize, first < Len(rows),
           NEW size \in Nat, size = MinOf(BatchSize, Len(rows) - first)
    PROVE  LET s == InsertStatement(op, all, rows, static, b)
           IN  /\ c \in ToSet(all) => IsPiece(ValuesFor(s.set, c), v, first, size)
               /\ c \notin ToSet(all) => ValuesFor(s.set, c) = <<>>
               /\ s.set # <<>> => ToSet(all) # {}
<1> DEFINE len == Len(all)
           m == size * len
           row(k) == rows[first + ((k - 1) \div len) + 1]
           col(k) == all[((k - 1) % len) + 1]
           val(k) == IF col(k) \in DOMAIN static THEN static[col(k)] ELSE Field(row(k), col(k))
           set == [k \in 1..m |-> Entry(col(k), "param", k, <<val(k)>>)]
           s == InsertStatement(op, all, rows, static, b)
<1>1. s.set = set
  <2>1. s = Statement(op, set, <<>>, ParamVals(set))
    BY Zenon DEF InsertStatement
  <2> HIDE DEF set, s
  <2> QED  BY <2>1, Parts
<1>2. /\ len \in Nat /\ DOMAIN all = 1..len /\ BatchSize \in Nat \ {0} /\ first \in Nat
      /\ Len(rows) \in Nat /\ first + size <= Len(rows) /\ m \in Nat
  <2>1. len \in Nat /\ DOMAIN all = 1..len
    BY ColumnFacts
  <2>2. BatchSize \in Nat \ {0}
    BY StatementAssumption
  <2>3. first \in Nat
    <3>1. b - 1 \in Nat
      OBVIOUS
    <3> QED  BY <2>2, <3>1
  <2>4. Len(rows) \in Nat
    BY DEF IsRows
  <2>5. first + size <= Len(rows)
    <3>1. size <= Len(rows) - first
      <4>1. BatchSize \in Int /\ Len(rows) - first \in Int
        BY <2>2, <2>3, <2>4
      <4>2. size = IF BatchSize < Len(rows) - first THEN BatchSize ELSE Len(rows) - first
        BY Zenon DEF MinOf
      <4> QED  BY <4>1, <4>2
    <3> QED  BY <2>3, <2>4, <3>1
  <2>6. m \in Nat
    BY <2>1
  <2> QED  BY <2>1, <2>2, <2>3, <2>4, <2>5, <2>6
<1>3. \A k \in 1..m : set[k].col = col(k) /\ set[k].val = <<val(k)>>
  BY DEF Entry
<1>4. DOMAIN set = 1..m /\ set = [k \in 1..m |-> set[k]]
  OBVIOUS
<1> HIDE DEF set, s
<1>5. IsList(set) /\ Len(set) = m /\ \A k \in 1..m : set[k] \in ToSet(set)
  <2>1. IsList(set) /\ Len(set) = m
    BY <1>2, <1>4, ListOf
  <2> QED  BY <1>4, <2>1, ListFacts
<1>6. ASSUME NEW k \in 1..m PROVE len > 0 /\ ((k - 1) % len) + 1 \in 1..len
  <2>1. len > 0
    <3>1. len = 0 => m = 0
      BY <1>2
    <3> QED  BY <1>2, <3>1
  <2>2. (k - 1) % len \in 0..len - 1
    <3>1. k - 1 \in Int /\ len \in Nat \ {0}
      BY <1>2, <2>1
    <3> HIDE DEF len, m
    <3> QED  BY <3>1, Divided
  <2> HIDE DEF len
  <2> QED  BY <1>2, <2>1, <2>2
<1>7. set # <<>> => ToSet(all) # {}
  <2>1. ASSUME set # <<>> PROVE ToSet(all) # {}
    <3>1. m # 0
      <4>1. m = 0 => DOMAIN set = 1..0
        BY <1>4
      <4>2. DOMAIN set = 1..0 => set = <<>>
        BY <1>4, <1>5
      <4> QED  BY <2>1, <4>1, <4>2
    <3>2. 1 \in 1..m
      BY <1>2, <3>1
    <3>3. len > 0
      BY <1>6, <3>2
    <3>4. 1 \in DOMAIN all
      BY <1>2, <3>3
    <3> QED  BY <3>4 DEF ToSet
  <2> QED  BY <2>1
<1>8. c \notin ToSet(all) => ValuesFor(set, c) = <<>>
  <2>1. ASSUME c \notin ToSet(all), NEW i \in DOMAIN set PROVE set[i].col # c
    <3>1. i \in 1..m
      BY <1>4
    <3>2. set[i].col = col(i) /\ ((i - 1) % len) + 1 \in DOMAIN all
      BY <1>2, <1>3, <1>6, <3>1
    <3>3. col(i) \in ToSet(all)
      BY <3>2 DEF ToSet
    <3> QED  BY <2>1, <3>2, <3>3
  <2> QED  BY <1>5, <2>1, ValuesOnce
<1>9. ASSUME c \in ToSet(all) PROVE IsPiece(ValuesFor(set, c), v, first, size)
  <2>1. PICK q \in 1..len : all[q] = c
    BY <1>2, <1>9 DEF ToSet
  <2>2. len \in Nat \ {0}
    BY <1>2, <2>1
  <2> DEFINE g == [j \in 1..size |-> (j - 1) * len + q]
  <2>3. \A j \in 1..size : g[j] = (j - 1) * len + q
    OBVIOUS
  <2> HIDE DEF g
  <2>4. ASSUME NEW j \in 1..size
        PROVE  g[j] \in 1..m /\ (g[j] - 1) \div len = j - 1 /\ (g[j] - 1) % len = q - 1
    <3>1. m = size * len /\ g[j] = (j - 1) * len + q
      BY <2>3
    <3> HIDE DEF m, len
    <3>2. PICK a \in Nat, r \in 0..len - 1 : a = j - 1 /\ r = q - 1
      <4>1. j - 1 \in Nat /\ q - 1 \in 0..len - 1
        BY <2>1, <2>2
      <4> QED  BY <4>1
    <3>3. PICK x \in Int : x = a * len
      BY <2>2
    <3>4. PICK k \in Int : k = x + r
      OBVIOUS
    <3>5. a < size
      BY <3>2
    <3>6. m = size * len /\ k = a * len + r
      BY <3>1, <3>3, <3>4
    <3>7. k \in Nat /\ k < m /\ k \div len = a /\ k % len = r
      BY ONLY <2>2, <3>5, <3>6, size \in Nat, a \in Nat, r \in 0..len - 1, Place
    <3>8. g[j] = k + 1 /\ g[j] - 1 = k
      <4>1. g[j] = x + q
        BY <3>1, <3>2, <3>3
      <4> QED  BY <2>1, <3>2, <3>4, <4>1
    <3>9. m \in Nat
      BY <1>2
    <3>10. k + 1 \in 1..m
      BY <3>7, <3>9
    <3> QED  BY <3>2, <3>7, <3>8, <3>10
  <2>5. ASSUME NEW j \in 1..size, NEW k \in 1..size, j < k PROVE g[j] < g[k]
    <3>1. g[j] = (j - 1) * len + q /\ g[k] = (k - 1) * len + q
      BY <2>3
    <3>2. j \in Nat /\ k \in Nat /\ q \in Nat
      BY <1>2, <2>1
    <3> HIDE DEF m, len
    <3> QED  BY <2>2, <2>5, <3>1, <3>2, PlaceGrows
  <2>6. ASSUME NEW i \in 1..m, set[i].col = c PROVE \E j \in 1..size : g[j] = i
    <3>1. PICK a \in Nat, r \in 0..len - 1 : /\ a = (i - 1) \div len /\ r = (i - 1) % len
                                             /\ i - 1 = a * len + r
      <4>1. i - 1 \in Int /\ i - 1 >= 0
        BY <1>2
      <4> HIDE DEF len, m
      <4>2. /\ (i - 1) \div len \in Nat /\ (i - 1) % len \in 0..len - 1
            /\ i - 1 = ((i - 1) \div len) * len + ((i - 1) % len)
        BY <2>2, <4>1, Divided
      <4> QED  BY <4>2
    <3>2. r + 1 = q
      <4>1. col(i) = c /\ col(i) = all[r + 1]
        <5>1. set[i].col = col(i)
          BY <1>3
        <5> QED  BY <2>6, <3>1, <5>1
      <4> HIDE DEF col
      <4>2. r + 1 \in DOMAIN all /\ q \in DOMAIN all
        <5>1. r + 1 \in 1..len
          BY ONLY <2>2, r \in 0..len - 1
        <5> QED  BY ONLY <1>2, <2>1, q \in 1..len, <5>1, Zenon
      <4> QED  BY <2>1, <4>1, <4>2 DEF IsInjective
    <3>3. a < size
      <4>1. PICK x \in Int, z \in Int : x = a * len /\ z = size * len
        BY <1>2
      <4>2. i - 1 = x + r /\ i <= z /\ i \in Int
        BY <1>2, <3>1, <4>1
      <4> HIDE DEF m, len
      <4>3. 0 <= r /\ r \in Int
        BY <2>2
      <4>4. x < z
        BY <4>2, <4>3
      <4>5. a \in Int /\ size \in Int /\ len \in Nat /\ a * len < size * len
        BY <1>2, <4>1, <4>4
      <4> QED  BY ONLY <4>5, Products, Zenon
    <3>4. a + 1 \in 1..size /\ g[a + 1] = a * len + q
      <4>1. a + 1 \in 1..size /\ (a + 1) - 1 = a
        BY <3>3
      <4>2. g[a + 1] = ((a + 1) - 1) * len + q
        BY <2>3, <4>1
      <4> QED  BY <4>1, <4>2
    <3>5. g[a + 1] = i
      <4>1. PICK x \in Int : x = a * len
        BY <1>2
      <4>2. i - 1 = x + r /\ g[a + 1] = x + q /\ i \in Int
        BY <1>2, <3>1, <3>4, <4>1
      <4>3. PICK y : y = g[a + 1]
        OBVIOUS
      <4>4. x \in Int /\ i \in Int /\ r \in Int /\ i - 1 = x + r /\ y = x + q /\ q = r + 1
        BY <3>2, <4>2, <4>3
      <4>5. y = i
        BY ONLY <4>4
      <4> QED  BY ONLY <4>3, <4>5, Zenon
    <3> QED  BY <3>4, <3>5
  <2>7. Picks(g, size, set, EntriesFor(set, c))
    <3>1. \A i \in 1..m : set[i] \in EntriesFor(set, c) <=> set[i].col = c
      BY <1>5 DEF EntriesFor
    <3>2. ASSUME NEW j \in 1..size PROVE set[g[j]].col = c
      <4>1. set[g[j]].col = col(g[j])
        BY <1>3, <2>4
      <4>2. col(g[j]) = all[(q - 1) + 1] /\ (q - 1) + 1 = q
        BY <2>1, <2>4
      <4> QED  BY <2>1, <4>1, <4>2
    <3> QED  BY <1>5, <2>4, <2>5, <2>6, <3>1, <3>2 DEF Picks
  <2>8. /\ ValuesFor(set, c) = [j \in 1..size |-> ValuesFor(set, c)[j]]
        /\ \A j \in 1..size : ValuesFor(set, c)[j] = set[g[j]].val
    BY <1>5, <2>7, ValuesAlong
  <2>9. ASSUME NEW j \in 1..size PROVE set[g[j]].val = v[first + j]
    <3>1. g[j] \in 1..m /\ col(g[j]) = c /\ first + ((g[j] - 1) \div len) + 1 = first + j
      <4>1. g[j] \in 1..m /\ (g[j] - 1) \div len = j - 1 /\ (g[j] - 1) % len = q - 1
        BY <2>4
      <4>2. first + (j - 1) + 1 = first + j /\ (q - 1) + 1 = q
        BY <1>2, <2>1
      <4> QED  BY <2>1, <4>1, <4>2
    <3>2. set[g[j]].val = <<val(g[j])>>
      BY <1>3, <3>1
    <3>3. row(g[j]) = rows[first + j]
      BY <3>1
    <3>4. <<val(g[j])>> = Cell(c, rows[first + j], static)
      BY <3>1, <3>3 DEF Cell
    <3>5. first + j \in 1..Len(rows)
      BY <1>2
    <3> QED  BY <3>2, <3>4, <3>5 DEF CellsOf
  <2> QED  BY <2>8, <2>9 DEF IsPiece
<1> QED  BY <1>1, <1>7, <1>8, <1>9 DEF s

\* Statements that give a column the rows from one cut to the next, write it for
\* all of them.
LEMMA WrittenPieces ==
    ASSUME NEW m \in Nat, NEW stmts, stmts = [b \in 1..m |-> stmts[b]], NEW c, NEW v, NEW cut,
           cut[0] = 0, \A b \in 0..m : cut[b] \in Nat,
           \A b \in 1..m : /\ cut[b - 1] <= cut[b]
                           /\ IsPiece(ValuesFor(stmts[b].set, c), v, cut[b - 1], cut[b] - cut[b - 1])
    PROVE  IsPiece(WrittenTo(stmts, c), v, 0, cut[m])
<1> DEFINE parts == [b \in 1..m |-> ValuesFor(stmts[b].set, c)]
<1>1. DOMAIN stmts = 1..m
  BY Zenon
<1>2. WrittenTo(stmts, c) = FlattenSeq(parts)
  BY <1>1, Zenon DEF WrittenTo
<1>3. \A b \in 1..m : parts[b] = ValuesFor(stmts[b].set, c)
  BY Zenon
<1>4. parts = [b \in 1..m |-> parts[b]]
  BY Zenon
<1> HIDE DEF parts
<1>5. Pieces(parts, m, v, cut)
  BY <1>3, <1>4 DEF Pieces
<1> QED  BY <1>2, <1>5, FlattenPieces

\* Statements without an entry for the column.
LEMMA WrittenNone ==
    ASSUME NEW m \in Nat, NEW stmts, stmts = [b \in 1..m |-> stmts[b]], NEW c,
           \A b \in 1..m : ValuesFor(stmts[b].set, c) = <<>>
    PROVE  WrittenTo(stmts, c) = <<>>
<1>1. PICK cut : cut = [b \in 0..m |-> 0]
  OBVIOUS
<1>2. cut[0] = 0 /\ cut[m] = 0 /\ (\A b \in 0..m : cut[b] \in Nat)
  BY <1>1
<1>3. \A b \in 1..m : cut[b - 1] = 0 /\ cut[b] = 0
  BY <1>1
<1>4. IsPiece(<<>>, <<>>, 0, 0)
  BY DEF IsPiece
<1>5. ASSUME NEW b \in 1..m
      PROVE  /\ cut[b - 1] <= cut[b]
             /\ IsPiece(ValuesFor(stmts[b].set, c), <<>>, cut[b - 1], cut[b] - cut[b - 1])
  <2>1. cut[b - 1] = 0 /\ cut[b] - cut[b - 1] = 0
    BY <1>3
  <2> QED  BY <1>3, <1>4, <2>1
<1>6. IsPiece(WrittenTo(stmts, c), <<>>, 0, cut[m])
  BY <1>2, <1>5, WrittenPieces
<1>7. PICK t : t = WrittenTo(stmts, c)
  OBVIOUS
<1>8. t = [j \in 1..0 |-> t[j]]
  BY <1>2, <1>6, <1>7 DEF IsPiece
<1> QED  BY <1>7, <1>8

\* Where the batches begin and end: they are whole but for the last, which is
\* not empty, and leave no row out.
LEMMA BatchCuts ==
    ASSUME NEW n \in Nat
    PROVE  /\ Batches(n) \in Nat /\ (n > 0 => Batches(n) > 0)
           /\ MinOf(0 * BatchSize, n) = 0 /\ MinOf(Batches(n) * BatchSize, n) = n
           /\ \A b \in 0..Batches(n) : MinOf(b * BatchSize, n) \in Nat
           /\ \A b \in 1..Batches(n) :
                LET first == (b - 1) * BatchSize
                IN  /\ first \in Nat /\ first < n /\ MinOf(first, n) = first
                    /\ MinOf(BatchSize, n - first) \in Nat
                    /\ MinOf(b * BatchSize, n) = first + MinOf(BatchSize, n - first)
<1>1. PICK B \in Nat \ {0} : B = BatchSize
  BY StatementAssumption
<1>2. PICK m \in Nat, r \in 0..B - 1 : m = Batches(n) /\ n + B - 1 = m * B + r
  <2>1. n + B - 1 \in Int /\ n + B - 1 >= 0
    OBVIOUS
  <2>2. /\ (n + B - 1) \div B \in Nat /\ (n + B - 1) % B \in 0..B - 1
        /\ n + B - 1 = ((n + B - 1) \div B) * B + ((n + B - 1) % B)
    BY <2>1, Divided
  <2>3. Batches(n) = (n + B - 1) \div B
    BY <1>1 DEF Batches
  <2> QED  BY <2>2, <2>3
<1>3. m * B >= n /\ m * B < n + B /\ m * B \in Nat
  BY <1>2
<1>4. n > 0 => m > 0
  BY <1>3
<1>5. MinOf(0 * B, n) = 0
  BY DEF MinOf
<1>6. MinOf(m * B, n) = n
  BY <1>3 DEF MinOf
<1>7. ASSUME NEW b \in 0..m PROVE MinOf(b * B, n) \in Nat
  BY DEF MinOf
<1>8. ASSUME NEW b \in 1..m
      PROVE  /\ (b - 1) * B \in Nat /\ (b - 1) * B < n /\ MinOf((b - 1) * B, n) = (b - 1) * B
             /\ MinOf(B, n - (b - 1) * B) \in Nat
             /\ MinOf(b * B, n) = (b - 1) * B + MinOf(B, n - (b - 1) * B)
  <2>1. PICK x \in Nat : x = (b - 1) * B
    <3>1. b - 1 \in Nat
      OBVIOUS
    <3> QED  BY <3>1
  <2>2. b * B = x + B
    BY <2>1, Products
  <2>3. b * B <= m * B
    BY Products
  <2>4. x < n
    BY <1>3, <2>2, <2>3
  <2>5. MinOf(x, n) = x /\ MinOf(B, n - x) \in Nat /\ MinOf(x + B, n) = x + MinOf(B, n - x)
    BY <2>4 DEF MinOf
  <2> QED  BY <2>1, <2>2, <2>4, <2>5
<1> QED  BY <1>1, <1>2, <1>4, <1>5, <1>6, <1>7, <1>8

\* What INSERTs of these rows write to the columns A: each row once, in batches.
InsertsOf(stmts, op, A, rows, static) ==
    /\ stmts = [b \in 1..Batches(Len(rows)) |-> stmts[b]]
    /\ \A c, v : CellsOf(v, c, rows, static) =>
         /\ c \in A => IsPiece(WrittenTo(stmts, c), v, 0, Len(rows))
         /\ c \notin A => WrittenTo(stmts, c) = <<>>
    /\ \A b \in DOMAIN stmts : stmts[b].op = op /\ (stmts[b].set # <<>> => A # {})

\* runInsert writes each of its columns for every row once.
LEMMA InsertWrites ==
    ASSUME NEW op, NEW cols \in ColumnSeq, IsInjective(cols), NEW rows, IsRows(rows), NEW static,
           NEW tx, NEW stmts, stmts = RunInsert(op, cols, rows, static, tx).stmts,
           NEW A, A = ToSet(cols) \cup ToSet(Keys(static))
    PROVE  InsertsOf(stmts, op, A, rows, static)
<1> DEFINE all == Union(cols, Keys(static))
           m == Batches(Len(rows))
           n == Len(rows)
           cut == [b \in 0..m |-> MinOf(b * BatchSize, n)]
<1>1. n \in Nat
  BY DEF IsRows
<1>2. all \in ColumnSeq /\ IsInjective(all) /\ ToSet(all) = A
  BY KeysFacts, KeysInjective, UnionFacts, UnionInjective
<1>3. stmts = [b \in 1..m |-> InsertStatement(op, all, rows, static, b)]
  <2> DEFINE list == [b \in 1..m |-> InsertStatement(op, all, rows, static, b)]
  <2>1. RunInsert(op, cols, rows, static, tx) = Send(tx + 1, list)
    BY Zenon DEF RunInsert
  <2> HIDE DEF list
  <2>2. stmts = list
    BY <2>1, PlanStatements
  <2> QED  BY <2>2 DEF list
<1> HIDE DEF all
<1>4. /\ m \in Nat /\ MinOf(0 * BatchSize, n) = 0 /\ MinOf(m * BatchSize, n) = n
      /\ \A b \in 0..m : MinOf(b * BatchSize, n) \in Nat
      /\ \A b \in 1..m :
           LET first == (b - 1) * BatchSize
           IN  /\ first \in Nat /\ first < n /\ MinOf(first, n) = first
               /\ MinOf(BatchSize, n - first) \in Nat
               /\ MinOf(b * BatchSize, n) = first + MinOf(BatchSize, n - first)
  BY <1>1, BatchCuts
<1>5. /\ \A b \in 1..m : stmts[b] = InsertStatement(op, all, rows, static, b)
      /\ DOMAIN stmts = 1..m
  BY <1>3, Zenon
<1>6. stmts = [b \in 1..m |-> stmts[b]]
  BY <1>3, <1>5
<1>7. cut[0] = 0 /\ cut[m] = n /\ \A b \in 0..m : cut[b] \in Nat
  <2>1. 0 \in 0..m /\ m \in 0..m
    BY <1>4
  <2> HIDE DEF m, n
  <2> QED  BY <1>4, <2>1
<1>8. \A b \in 1..m : b \in Nat \ {0} /\ b \in 0..m /\ b - 1 \in 0..m
  BY <1>4
<1>9. ASSUME NEW b \in 1..m
      PROVE  \E first, size \in Nat :
                /\ first = (b - 1) * BatchSize /\ first < n
                /\ size = MinOf(BatchSize, n - first)
                /\ cut[b - 1] = first /\ cut[b] = first + size
  <2> HIDE DEF m, n
  <2>1. cut[b - 1] = MinOf((b - 1) * BatchSize, n) /\ cut[b] = MinOf(b * BatchSize, n)
    BY <1>8
  <2> HIDE DEF cut
  <2> QED  BY <1>4, <2>1
<1> HIDE DEF cut, m
<1>10. ASSUME NEW b \in 1..m, NEW c, NEW v, CellsOf(v, c, rows, static)
       PROVE  /\ c \in A => /\ cut[b - 1] <= cut[b]
                            /\ IsPiece(ValuesFor(stmts[b].set, c), v, cut[b - 1], cut[b] - cut[b - 1])
              /\ c \notin A => ValuesFor(stmts[b].set, c) = <<>>
              /\ stmts[b].set # <<>> => A # {}
  <2>1. PICK first, size : /\ first \in Nat /\ size \in Nat
                           /\ first = (b - 1) * BatchSize /\ first < n
                           /\ size = MinOf(BatchSize, n - first)
                           /\ cut[b - 1] = first /\ cut[b] = first + size
    BY <1>9
  <2>2. cut[b - 1] <= cut[b] /\ cut[b] - cut[b - 1] = size
    BY <2>1
  <2>3. b \in Nat \ {0}
    BY <1>8
  <2>4. LET s == InsertStatement(op, all, rows, static, b)
        IN  /\ c \in ToSet(all) => IsPiece(ValuesFor(s.set, c), v, first, size)
            /\ c \notin ToSet(all) => ValuesFor(s.set, c) = <<>>
            /\ s.set # <<>> => ToSet(all) # {}
    BY <1>2, <1>10, <2>1, <2>3, BatchCells
  <2> QED  BY <1>2, <1>5, <2>1, <2>2, <2>4
<1>11. ASSUME NEW c, NEW v, CellsOf(v, c, rows, static)
       PROVE  /\ c \in A => IsPiece(WrittenTo(stmts, c), v, 0, n)
              /\ c \notin A => WrittenTo(stmts, c) = <<>>
  <2>1. ASSUME c \in A PROVE IsPiece(WrittenTo(stmts, c), v, 0, n)
    <3>1. \A b \in 1..m : /\ cut[b - 1] <= cut[b]
                          /\ IsPiece(ValuesFor(stmts[b].set, c), v, cut[b - 1], cut[b] - cut[b - 1])
      BY <1>10, <1>11, <2>1
    <3>2. IsPiece(WrittenTo(stmts, c), v, 0, cut[m])
      BY <1>4, <1>6, <1>7, <3>1, WrittenPieces
    <3> QED  BY <1>7, <3>2
  <2>2. ASSUME c \notin A PROVE WrittenTo(stmts, c) = <<>>
    <3>1. \A b \in 1..m : ValuesFor(stmts[b].set, c) = <<>>
      BY <1>10, <1>11, <2>2
    <3> QED  BY <1>4, <1>6, <3>1, WrittenNone
  <2> QED  BY <2>1, <2>2
<1>12. ASSUME NEW b \in DOMAIN stmts PROVE stmts[b].op = op /\ (stmts[b].set # <<>> => A # {})
  <2>1. b \in 1..m /\ b \in Nat \ {0}
    BY <1>5, <1>8
  <2>2. stmts[b].op = op
    BY <1>1, <1>2, <1>5, <2>1, InsertFacts
  <2>3. PICK v : v = [i \in 1..n |-> Cell(Null, rows[i], static)]
    OBVIOUS
  <2>4. CellsOf(v, Null, rows, static)
    BY <2>3 DEF CellsOf
  <2> QED  BY <1>10, <2>1, <2>2, <2>4
<1> QED  BY <1>6, <1>11, <1>12 DEF m, InsertsOf

-----------------------------------------------------------------------------
(* The INSERTs of the SQL compiler.                                      *)

\* A list with one entry for each of some columns, and its value.
Gives(L, cols, val) ==
    /\ IsList(L) /\ DOMAIN L = DOMAIN cols
    /\ \A i \in DOMAIN cols : L[i].col = cols[i] /\ L[i].val = <<val[cols[i]]>>

\* Two such lists over different columns, one behind the other.
LEMMA JoinedGives ==
    ASSUME NEW r \in ColumnSeq, IsInjective(r), NEW k \in ColumnSeq, IsInjective(k),
           ToSet(r) \cap ToSet(k) = {}, NEW x, NEW y, NEW a, NEW b,
           Gives(a, r, x), Gives(b, k, y), NEW c
    PROVE  /\ c \in ToSet(r) => ValuesFor(a \o b, c) = << <<x[c]>> >>
           /\ c \in ToSet(k) => ValuesFor(a \o b, c) = << <<y[c]>> >>
           /\ c \notin ToSet(r) /\ c \notin ToSet(k) => ValuesFor(a \o b, c) = <<>>
           /\ a \o b # <<>> => ToSet(r) \cup ToSet(k) # {}
<1>1. /\ IsList(a) /\ DOMAIN a = DOMAIN r /\ IsList(b) /\ DOMAIN b = DOMAIN k
      /\ \A i \in DOMAIN r : a[i].col = r[i] /\ a[i].val = <<x[r[i]]>>
      /\ \A i \in DOMAIN k : b[i].col = k[i] /\ b[i].val = <<y[k[i]]>>
  BY DEF Gives
<1>2. PICK L : L = a \o b
  OBVIOUS
<1>3. /\ IsList(L) /\ Len(L) = Len(a) + Len(b) /\ Len(a) \in Nat /\ Len(b) \in Nat
      /\ DOMAIN L = 1..Len(a) + Len(b)
      /\ \A i \in 1..Len(a) : L[i] = a[i]
      /\ \A i \in 1..Len(b) : L[Len(a) + i] = b[i]
  BY <1>1, <1>2, Joined
<1>4. DOMAIN r = 1..Len(a) /\ DOMAIN k = 1..Len(b)
  BY <1>1, ListFacts
<1>5. ASSUME NEW i \in DOMAIN L
      PROVE  \/ i \in DOMAIN r /\ L[i].col = r[i]
             \/ i - Len(a) \in DOMAIN k /\ L[i].col = k[i - Len(a)]
  <2>1. CASE i \in 1..Len(a)
    BY <1>1, <1>3, <1>4, <2>1
  <2>2. CASE i \notin 1..Len(a)
    <3>1. PICK j \in 1..Len(b) : j = i - Len(a) /\ i = Len(a) + j
      <4>1. i - Len(a) \in 1..Len(b) /\ i = Len(a) + (i - Len(a))
        BY <1>3, <2>2
      <4> QED  BY <4>1
    <3> QED  BY <1>1, <1>3, <1>4, <3>1
  <2> QED  BY <2>1, <2>2
<1>6. \A i \in DOMAIN r : r[i] \in ToSet(r)
  BY DEF ToSet
<1>7. \A i \in DOMAIN k : k[i] \in ToSet(k)
  BY DEF ToSet
<1>12. \A i \in DOMAIN L :
          (L[i].col = c /\ \A j \in DOMAIN L : L[j].col = c => j = i)
            => ValuesFor(L, c) = <<L[i].val>>
  <2>1. IsList(L)
    BY <1>3
  <2> QED  BY <2>1, ValuesOnce
<1>8. ASSUME c \in ToSet(r) PROVE ValuesFor(L, c) = << <<x[c]>> >>
  <2>1. PICK i \in DOMAIN r : r[i] = c
    BY <1>8 DEF ToSet
  <2>2. i \in DOMAIN L /\ L[i].col = c /\ L[i].val = <<x[c]>>
    BY <1>1, <1>3, <1>4, <2>1
  <2>3. ASSUME NEW j \in DOMAIN L, L[j].col = c PROVE j = i
    <3>1. j \in DOMAIN r /\ r[j] = c
      BY <1>5, <1>7, <1>8, <2>3
    <3> QED  BY <2>1, <3>1 DEF IsInjective
  <2>4. ValuesFor(L, c) = <<L[i].val>>
    BY <1>12, <2>2, <2>3
  <2> QED  BY <2>2, <2>4
<1>9. ASSUME c \in ToSet(k) PROVE ValuesFor(L, c) = << <<y[c]>> >>
  <2>1. PICK i \in DOMAIN k : k[i] = c
    BY <1>9 DEF ToSet
  <2>2. PICK n : n = Len(a) + i
    OBVIOUS
  <2>3. n \in DOMAIN L /\ n - Len(a) = i /\ L[n].col = c /\ L[n].val = <<y[c]>>
    BY <1>1, <1>3, <1>4, <2>1, <2>2
  <2>4. ASSUME NEW j \in DOMAIN L, L[j].col = c PROVE j = n
    <3>1. j - Len(a) \in DOMAIN k /\ k[j - Len(a)] = c
      BY <1>5, <1>6, <1>9, <2>4
    <3>2. j - Len(a) = i
      BY <2>1, <3>1 DEF IsInjective
    <3> QED  BY <1>3, <2>2, <3>2
  <2>5. ValuesFor(L, c) = <<L[n].val>>
    BY <1>12, <2>3, <2>4
  <2> QED  BY <2>3, <2>5
<1>10. ASSUME c \notin ToSet(r), c \notin ToSet(k) PROVE ValuesFor(L, c) = <<>>
  <2>1. \A i \in DOMAIN L : L[i].col # c
    BY <1>5, <1>6, <1>7, <1>10
  <2> QED  BY <1>3, <2>1, ValuesOnce
<1>11. ASSUME L # <<>> PROVE ToSet(r) \cup ToSet(k) # {}
  <2>1. DOMAIN L # {}
    <3>1. L \in Seq(ToSet(L))
      BY <1>3 DEF IsList
    <3>2. Len(L) # 0
      BY <1>11, <3>1
    <3>3. 1 \in DOMAIN L
      BY <1>3, <3>2
    <3> QED  BY <3>3
  <2> QED  BY <1>5, <1>6, <1>7, <2>1
<1> QED  BY <1>2, <1>8, <1>9, <1>10, <1>11

\* What compileInsert gives each column: its literal, or what the row has.
LEMMA CompiledCells ==
    ASSUME NEW p, IsPayload(p), NEW value, NEW c
    PROVE  LET s == CompileInsert(p, value)
           IN  /\ c \in DOMAIN p.static => ValuesFor(s.set, c) = << <<p.static[c]>> >>
               /\ c \in ToSet(p.columns) \ DOMAIN p.static => ValuesFor(s.set, c) = << <<value[c]>> >>
               /\ c \notin ToSet(p.columns) \cup DOMAIN p.static => ValuesFor(s.set, c) = <<>>
               /\ s.set # <<>> => ToSet(p.columns) \cup DOMAIN p.static # {}
<1> DEFINE cols == Without(p.columns, DOMAIN p.static)
           its == Pairs(cols, LAMBDA d : value[d])
           fromRow == Numbered(its, 0, AsParam)
           keys == Keys(p.static)
           own == Pairs(keys, LAMBDA d : p.static[d])
           lits == Numbered(own, Len(fromRow), AsParam)
           op == CASE p.mode = "insert" -> "INSERT" [] p.mode = "insert_ignore" -> "INSERT_IGNORE"
                   [] OTHER -> "UPSERT"
           set == fromRow \o lits
           s == CompileInsert(p, value)
<1>1. s = Statement(op, set, <<>>, ParamVals(set))
  BY Zenon DEF CompileInsert
<1>2. /\ cols \in ColumnSeq /\ IsInjective(cols) /\ ToSet(cols) = ToSet(p.columns) \ DOMAIN p.static
      /\ keys \in ColumnSeq /\ IsInjective(keys) /\ ToSet(keys) = DOMAIN p.static
  <2>1. p.columns \in ColumnSeq /\ IsInjective(p.columns) /\ DOMAIN p.static \subseteq ToSet(Columns)
    BY DEF IsPayload, ColumnSeq
  <2>2. cols \in ColumnSeq /\ ToSet(cols) = ToSet(p.columns) \ DOMAIN p.static
    BY <2>1, ColumnFacts
  <2>3. IsInjective(cols)
    BY <2>1, FilterInjective DEF Without
  <2>4. keys \in ColumnSeq /\ IsInjective(keys) /\ ToSet(keys) = ToSet(Columns) \cap DOMAIN p.static
    BY KeysFacts, KeysInjective
  <2> QED  BY <2>1, <2>2, <2>3, <2>4
<1>3. /\ its = [i \in DOMAIN cols |-> <<cols[i], <<value[cols[i]]>> >>]
      /\ own = [i \in DOMAIN keys |-> <<keys[i], <<p.static[keys[i]]>> >>]
  BY Zenon DEF Pairs
<1> HIDE DEF cols, keys, its, own
<1>4. /\ DOMAIN its = DOMAIN cols
      /\ \A i \in DOMAIN cols : its[i][1] = cols[i] /\ its[i][2] = <<value[cols[i]]>>
      /\ DOMAIN own = DOMAIN keys
      /\ \A i \in DOMAIN keys : own[i][1] = keys[i] /\ own[i][2] = <<p.static[keys[i]]>>
  BY <1>3
<1>5. /\ IsRowClause(fromRow, cols, 0)
      /\ \A i \in DOMAIN cols : fromRow[i].val = its[i][2]
  BY <1>2, <1>4, RowClause
<1>6. /\ IsRowClause(lits, keys, Len(fromRow))
      /\ \A i \in DOMAIN keys : lits[i].val = own[i][2]
  BY <1>2, <1>4, RowClause
<1> HIDE DEF fromRow, lits, op
<1>7. Gives(fromRow, cols, value)
  BY <1>4, <1>5 DEF Gives, IsRowClause
<1>8. Gives(lits, keys, p.static)
  BY <1>4, <1>6 DEF Gives, IsRowClause
<1>9. ToSet(cols) \cap ToSet(keys) = {}
  BY <1>2
<1>10. /\ c \in ToSet(cols) => ValuesFor(set, c) = << <<value[c]>> >>
       /\ c \in ToSet(keys) => ValuesFor(set, c) = << <<p.static[c]>> >>
       /\ c \notin ToSet(cols) /\ c \notin ToSet(keys) => ValuesFor(set, c) = <<>>
       /\ set # <<>> => ToSet(cols) \cup ToSet(keys) # {}
  BY <1>2, <1>7, <1>8, <1>9, JoinedGives
<1> HIDE DEF set
<1>11. s.set = set
  BY <1>1, Parts
<1> QED  BY <1>2, <1>10, <1>11 DEF s

-----------------------------------------------------------------------------
(* The plans that write each row once.                                   *)

\* What column c of a row is to get.
Due(p, row, path, c) == <<IF c \in DOMAIN p.static THEN p.static[c] ELSE OwnValue(p, row, path, c)>>

\* Each column that is filled has what is due to it, row for row.
LEMMA OnceEach ==
    ASSUME NEW stmts, NEW p, NEW rows, IsRows(rows), NEW path,
           \A c \in ToSet(Columns) :
              /\ Fills(p, rows, path, c) =>
                   \E v : /\ IsPiece(WrittenTo(stmts, c), v, 0, Len(rows))
                          /\ \A i \in 1..Len(rows) : v[i] = Due(p, rows[i], path, c)
              /\ ~Fills(p, rows, path, c) => WrittenTo(stmts, c) = <<>>
    PROVE  EachRowOnce(stmts, p, rows, path)
<1>1. Len(rows) \in Nat
  BY DEF IsRows
<1>2. ASSUME NEW c \in ToSet(Columns), Fills(p, rows, path, c), NEW out, out = WrittenTo(stmts, c)
      PROVE  /\ Len(out) = Len(rows)
             /\ \A i \in DOMAIN out :
                   IF c \in DOMAIN p.static THEN out[i] = out[1]
                   ELSE out[i] = <<OwnValue(p, rows[i], path, c)>>
  <2>1. PICK v : /\ IsPiece(out, v, 0, Len(rows))
                 /\ \A i \in 1..Len(rows) : v[i] = Due(p, rows[i], path, c)
    BY <1>2
  <2>2. out = [i \in 1..Len(rows) |-> out[i]] /\ \A i \in 1..Len(rows) : out[i] = v[0 + i]
    BY <2>1 DEF IsPiece
  <2>3. Len(out) = Len(rows) /\ DOMAIN out = 1..Len(rows)
    BY <1>1, <2>2, ListOf
  <2>4. \A i \in DOMAIN out : out[i] = Due(p, rows[i], path, c)
    BY <1>1, <2>1, <2>2, <2>3
  <2>5. \A i \in DOMAIN out : i \in DOMAIN out /\ 1 \in DOMAIN out
    BY <1>1, <2>3
  <2> QED  BY <2>3, <2>4, <2>5 DEF Due
<1>3. ASSUME NEW c \in ToSet(Columns)
      PROVE  LET out == WrittenTo(stmts, c)
             IN  IF Fills(p, rows, path, c)
                 THEN /\ Len(out) = Len(rows)
                      /\ \A i \in DOMAIN out :
                            IF c \in DOMAIN p.static THEN out[i] = out[1]
                            ELSE out[i] = <<OwnValue(p, rows[i], path, c)>>
                 ELSE out = <<>>
  <2>1. CASE Fills(p, rows, path, c)
    BY <1>2, <2>1
  <2>2. CASE ~Fills(p, rows, path, c)
    BY <2>2
  <2> QED  BY <2>1, <2>2
<1> QED  BY <1>3 DEF EachRowOnce

\* The statements write each row once, and one of them fills no column only if
\* the database refuses it.
SentRows(stmts, p, rows, path) ==
    /\ EachRowOnce(stmts, p, rows, path)
    /\ \E m \in Nat \ {0} : stmts = [b \in 1..m |-> stmts[b]]
    /\ \A b \in DOMAIN stmts :
          Accepted(stmts[b]) => \E c \in ToSet(Columns) : Fills(p, rows, path, c)

\* What prepareRows puts into a row for a column without a literal.
LEMMA OwnCell ==
    ASSUME NEW p, IsPayload(p), NEW q, q = NormalizeEnumValues(p),
           NEW c \in ToSet(p.columns), c \notin DOMAIN p.static, NEW row
    PROVE  /\ c \in DOMAIN DataRow(row, q) <=> ResolveColumnValue(c, row, p) # Undefined
           /\ Field(DataRow(row, q), c) = ResolveNow(ResolveColumnValue(c, row, p))
<1>1. q.columns = p.columns /\ DOMAIN q.static = DOMAIN p.static /\ q.aliases = p.aliases
  BY DEF NormalizeEnumValues, IsPayload, PayloadFields
<1>2. ResolveColumnValue(c, row, q) = ResolveColumnValue(c, row, p)
  BY <1>1 DEF ResolveColumnValue
<1>3. GetColumnValue(c, row, q) = ResolveColumnValue(c, row, p)
  BY <1>1, <1>2 DEF GetColumnValue, Field
<1> DEFINE cols == {d \in ToSet(q.columns) : GetColumnValue(d, row, q) # Undefined}
           r == [d \in cols |-> ResolveNow(GetColumnValue(d, row, q))]
<1>4. DataRow(row, q) = r
  BY Zenon DEF DataRow
<1>5. DOMAIN r = cols /\ (c \in cols => r[c] = ResolveNow(GetColumnValue(c, row, q)))
  OBVIOUS
<1>6. c \in cols <=> ResolveColumnValue(c, row, p) # Undefined
  BY <1>1, <1>3
<1> HIDE DEF r, cols
<1>7. Field(r, c) = ResolveNow(ResolveColumnValue(c, row, p))
  BY <1>3, <1>5, <1>6 DEF Field, ResolveNow, Undefined, SqlNow
<1> QED  BY <1>4, <1>5, <1>6, <1>7

\* An INSERT of the rows that manual SQL prepares.
LEMMA InsertSent ==
    ASSUME NEW p, IsPayload(p), NEW rows, IsRows(rows), Len(rows) > 0, NEW path,
           NEW op, op # "DELETE", NEW cols \in ColumnSeq, IsInjective(cols),
           NEW data, IsRows(data), Len(data) = Len(rows), NEW tx,
           \A c \in ToSet(Columns) : Fills(p, rows, path, c) <=> c \in DOMAIN p.static \cup ToSet(cols),
           \A c \in ToSet(cols) \ DOMAIN p.static : \A i \in 1..Len(rows) :
               Field(data[i], c) = OwnValue(p, rows[i], path, c)
    PROVE  SentRows(RunInsert(op, cols, data, p.static, tx).stmts, p, rows, path)
<1>1. PICK stmts : stmts = RunInsert(op, cols, data, p.static, tx).stmts
  OBVIOUS
<1>2. PICK A : A = ToSet(cols) \cup ToSet(Keys(p.static))
  OBVIOUS
<1>3. /\ stmts = [b \in 1..Batches(Len(data)) |-> stmts[b]]
      /\ \A c, v : CellsOf(v, c, data, p.static) =>
           /\ c \in A => IsPiece(WrittenTo(stmts, c), v, 0, Len(data))
           /\ c \notin A => WrittenTo(stmts, c) = <<>>
      /\ \A b \in DOMAIN stmts : stmts[b].op = op /\ (stmts[b].set # <<>> => A # {})
  <2>1. PICK static : static = p.static
    OBVIOUS
  <2>2. stmts = RunInsert(op, cols, data, static, tx).stmts /\ A = ToSet(cols) \cup ToSet(Keys(static))
    BY <1>1, <1>2, <2>1
  <2>3. InsertsOf(stmts, op, A, data, static)
    BY <2>2, InsertWrites
  <2> QED  BY <2>1, <2>3 DEF InsertsOf
<1>4. A = ToSet(cols) \cup DOMAIN p.static /\ A \subseteq ToSet(Columns)
  <2>1. DOMAIN p.static \subseteq ToSet(Columns)
    BY DEF IsPayload
  <2>2. ToSet(Keys(p.static)) = ToSet(Columns) \cap DOMAIN p.static
    BY KeysFacts
  <2>3. ToSet(cols) \subseteq ToSet(Columns)
    BY DEF ColumnSeq, ToSet
  <2> QED  BY <1>2, <2>1, <2>2, <2>3
<1>5. Len(rows) \in Nat /\ Len(data) \in Nat
  BY DEF IsRows
<1>6. ASSUME NEW c \in ToSet(Columns)
      PROVE  /\ Fills(p, rows, path, c) =>
                  \E v : /\ IsPiece(WrittenTo(stmts, c), v, 0, Len(rows))
                         /\ \A i \in 1..Len(rows) : v[i] = Due(p, rows[i], path, c)
             /\ ~Fills(p, rows, path, c) => WrittenTo(stmts, c) = <<>>
  <2>1. PICK v : v = [i \in 1..Len(rows) |-> Cell(c, data[i], p.static)]
    OBVIOUS
  <2>2. CellsOf(v, c, data, p.static)
    BY <2>1 DEF CellsOf
  <2>3. c \in A => IsPiece(WrittenTo(stmts, c), v, 0, Len(rows))
    BY <1>3, <2>2
  <2>4. c \notin A => WrittenTo(stmts, c) = <<>>
    BY <1>3, <2>2
  <2>5. c \in A => \A i \in 1..Len(rows) : v[i] = Due(p, rows[i], path, c)
    BY <1>4, <2>1 DEF Cell, Due
  <2> QED  BY <1>4, <2>3, <2>4, <2>5
<1>7. EachRowOnce(stmts, p, rows, path)
  BY <1>6, OnceEach
<1>8. \E m \in Nat \ {0} : stmts = [b \in 1..m |-> stmts[b]]
  <2>1. Batches(Len(data)) \in Nat /\ Batches(Len(data)) > 0
    BY <1>5, BatchCuts
  <2> QED  BY <1>3, <2>1
<1>9. ASSUME NEW b \in DOMAIN stmts, Accepted(stmts[b])
      PROVE  \E c \in ToSet(Columns) : Fills(p, rows, path, c)
  <2>1. stmts[b].set # <<>>
    BY <1>3, <1>9 DEF Accepted
  <2>2. PICK c : c \in A
    BY <1>3, <2>1
  <2> QED  BY <1>4, <2>2
<1> QED  BY <1>1, <1>7, <1>8, <1>9 DEF SentRows

\* The payloads that EveryRowOnce speaks of.
PlainInsert(p) == p.mode \in {"insert", "insert_ignore"} /\ DOMAIN p.fields = {}

\* An INSERT by manual SQL.
LEMMA ManualInsert ==
    ASSUME NEW p, IsPayload(p), PlainInsert(p), NEW rows, IsRows(rows), Len(rows) > 0,
           ~HasRowDrivenWhere(p, rows)
    PROVE  SentRows(ManualStatements(p, rows).stmts, p, rows, "manual")
<1> DEFINE q == NormalizeEnumValues(p)
           dynamic == DynamicColumns(rows, q)
           cols == EffectiveColumns(rows, q)
           data == DataRows(rows, q)
           idle == CASE p.mode = "update" ->
                           \/ DOMAIN p.static = {} /\ dynamic = <<>>
                           \/ p.where = <<>> /\ DOMAIN p.staticWhere = {}
                     [] OTHER -> FALSE
<1>1. DOMAIN p.fields = {} /\ p.mode # "update" /\ p.mode # "delete"
  BY DEF PlainInsert
<1>2. ~idle
  BY <1>1
<1>3. ManualStatements(p, rows) = RunMode(p, dynamic, cols, data)
  <2> HIDE DEF idle
  <2>1. ManualStatements(p, rows) =
            IF DOMAIN p.fields # {} THEN TemplateStatements(p, rows)
            ELSE IF HasRowDrivenWhere(p, rows) THEN RowDrivenUpdate(p, rows)
            ELSE IF idle THEN Send(0, <<>>)
            ELSE IF p.mode = "update" /\ dynamic = <<>> /\ DOMAIN p.static # {}
            THEN StaticUpdate(p, rows)
            ELSE RunMode(p, dynamic, cols, data)
    BY Zenon DEF ManualStatements, idle
  <2> QED  BY <1>1, <1>2, <2>1, Zenon
<1>4. PICK op : op # "DELETE" /\ RunMode(p, dynamic, cols, data) = RunInsert(op, dynamic, data, p.static, 0)
  <2>1. p.mode = "insert" => RunMode(p, dynamic, cols, data) = RunInsert("INSERT", dynamic, data, p.static, 0)
    BY DEF RunMode
  <2>2. p.mode = "insert_ignore" =>
            RunMode(p, dynamic, cols, data) = RunInsert("INSERT_IGNORE", dynamic, data, p.static, 0)
    BY DEF RunMode
  <2>3. "INSERT" # "DELETE" /\ "INSERT_IGNORE" # "DELETE"
    OBVIOUS
  <2> HIDE DEF dynamic, cols, data
  <2> QED  BY <2>1, <2>2, <2>3 DEF PlainInsert
<1>5. q.mode # "delete" /\ q.columns = p.columns /\ DOMAIN q.static = DOMAIN p.static
  BY <1>1, NormalizedFacts
<1>6. p.columns \in ColumnSeq /\ IsInjective(p.columns)
  BY DEF IsPayload, ColumnSeq
<1> DEFINE S == {c \in ToSet(q.columns) : /\ c \notin DOMAIN q.static
                                          /\ \E i \in DOMAIN rows : c \in DOMAIN DataRow(rows[i], q)}
<1>7. dynamic = Filter(p.columns, S)
  <2>1. dynamic = IF q.mode = "delete" THEN <<>> ELSE Filter(q.columns, S)
    BY Zenon DEF DynamicColumns
  <2> HIDE DEF dynamic, S, q
  <2> QED  BY <1>5, <2>1
<1>8. data = [i \in DOMAIN rows |-> DataRow(rows[i], q)]
  BY <1>5, Zenon DEF DataRows
<1>9. \A c : c \in S <=> /\ c \in ToSet(p.columns) /\ c \notin DOMAIN p.static
                         /\ \E i \in DOMAIN rows : c \in DOMAIN DataRow(rows[i], q)
  <2> HIDE DEF q
  <2> QED  BY <1>5
<1>10. PICK d : d = dynamic
  OBVIOUS
<1>11. d \in ColumnSeq /\ IsInjective(d) /\ ToSet(d) = ToSet(p.columns) \cap S
  <2> HIDE DEF S, dynamic
  <2> QED  BY <1>6, <1>7, <1>10, ColumnFacts, FilterInjective
<1>12. PICK t : t = data
  OBVIOUS
<1>13. DOMAIN rows = 1..Len(rows) /\ Len(rows) \in Nat
  BY DEF IsRows
<1>14. /\ IsRows(t) /\ Len(t) = Len(rows)
       /\ \A i \in 1..Len(rows) : t[i] = DataRow(rows[i], q)
  <2> HIDE DEF data, q
  <2>1. t = [i \in 1..Len(rows) |-> t[i]] /\ \A i \in 1..Len(rows) : t[i] = DataRow(rows[i], q)
    BY <1>8, <1>12, <1>13
  <2> QED  BY <1>13, <2>1, ListOf DEF IsRows
<1>15. ManualStatements(p, rows) = RunInsert(op, d, t, p.static, 0)
  <2> HIDE DEF dynamic, data, cols
  <2> QED  BY <1>3, <1>4, <1>10, <1>12
<1>16. PICK r : r = q
  OBVIOUS
<1>17. \A c, row :
          c \in ToSet(p.columns) /\ c \notin DOMAIN p.static =>
             /\ c \in DOMAIN DataRow(row, r) <=> ResolveColumnValue(c, row, p) # Undefined
             /\ Field(DataRow(row, r), c) = ResolveNow(ResolveColumnValue(c, row, p))
  BY <1>16, OwnCell
<1> HIDE DEF q, S, dynamic, data, cols
<1>18. \A c \in ToSet(Columns) :
          Fills(p, rows, "manual", c) <=> c \in DOMAIN p.static \cup ToSet(d)
  <2>1. "manual" # "calcite"
    OBVIOUS
  <2>2. ASSUME NEW c \in ToSet(Columns), c \notin DOMAIN p.static
        PROVE  Fills(p, rows, "manual", c) <=> c \in ToSet(d)
    <3>1. Fills(p, rows, "manual", c) <=>
              /\ c \in ToSet(p.columns)
              /\ \E i \in DOMAIN rows : ResolveColumnValue(c, rows[i], p) # Undefined
      BY <2>1, <2>2 DEF Fills
    <3>2. c \in ToSet(d) <=> /\ c \in ToSet(p.columns)
                             /\ \E i \in DOMAIN rows : c \in DOMAIN DataRow(rows[i], r)
      BY <1>9, <1>11, <1>16, <2>2
    <3> QED  BY <1>17, <2>2, <3>1, <3>2
  <2>3. \A c \in DOMAIN p.static : Fills(p, rows, "manual", c)
    BY DEF Fills
  <2> QED  BY <2>2, <2>3
<1>19. ASSUME NEW c \in ToSet(d) \ DOMAIN p.static, NEW i \in 1..Len(rows)
       PROVE  Field(t[i], c) = OwnValue(p, rows[i], "manual", c)
  <2>1. Field(DataRow(rows[i], r), c) = ResolveNow(ResolveColumnValue(c, rows[i], p))
    BY <1>11, <1>17, <1>19
  <2>2. OwnValue(p, rows[i], "manual", c) = ResolveNow(ResolveColumnValue(c, rows[i], p))
    BY DEF OwnValue
  <2> QED  BY <1>14, <1>16, <2>1, <2>2
<1>20. SentRows(RunInsert(op, d, t, p.static, 0).stmts, p, rows, "manual")
  BY <1>4, <1>11, <1>14, <1>18, <1>19, InsertSent
<1> QED  BY <1>15, <1>20

\* An INSERT through the SQL compiler: a statement for every row.
LEMMA CalciteInsert ==
    ASSUME NEW p, IsPayload(p), PlainInsert(p), NEW rows, IsRows(rows), Len(rows) > 0
    PROVE  SentRows(CalciteStatements(p, rows).stmts, p, rows, "calcite")
<1> DEFINE own(row) == [c \in ToSet(Columns) |-> RowOrNull(c, row, p)]
           literal == [c \in ToSet(Columns) |->
                       IF Field(p.static, c) \notin {Null, Undefined} THEN p.static[c]
                       ELSE RowOrNull(c, rows[1], p)]
           sent == [i \in DOMAIN rows |-> CalciteStatement(p, own(rows[i]))]
           n == Len(rows)
<1>1. IsInsert(p)
  BY DEF PlainInsert, IsInsert
<1>2. CalciteStatements(p, rows) = Send(0, sent)
  <2>1. CalciteStatements(p, rows) =
            IF ~IsInsert(p) /\ p.where = <<>> /\ BuildWritePredicate(p.staticWhere) = <<>>
            THEN Throw
            ELSE IF ~IsInsert(p) /\ DOMAIN p.staticWhere # {} /\ p.where = <<>>
            THEN Send(0, <<CalciteStatement(p, literal)>>)
            ELSE Send(0, sent)
    BY Zenon DEF CalciteStatements
  <2> HIDE DEF sent, literal
  <2> QED  BY <1>1, <2>1, Zenon
<1>3. PICK stmts : stmts = sent
  OBVIOUS
<1>4. CalciteStatements(p, rows).stmts = stmts
  <2> HIDE DEF sent
  <2> QED  BY <1>2, <1>3, PlanStatements
<1>5. n \in Nat \ {0} /\ DOMAIN rows = 1..n
  BY DEF IsRows
<1>6. stmts = [i \in 1..n |-> stmts[i]] /\ \A i \in 1..n : stmts[i] = CalciteStatement(p, own(rows[i]))
  <2> HIDE DEF n
  <2> QED  BY <1>3, <1>5
<1>7. \A i \in 1..n : stmts[i] = CompileInsert(p, own(rows[i]))
  <2>1. \A x : CalciteStatement(p, x) = CompileInsert(p, x)
    BY <1>1 DEF CalciteStatement, PlainInsert
  <2> HIDE DEF n, own
  <2> QED  BY <1>6, <2>1
<1>8. \A i \in 1..n, c \in ToSet(Columns) : own(rows[i])[c] = OwnValue(p, rows[i], "calcite", c)
  BY DEF OwnValue
<1>9. DOMAIN p.static \subseteq ToSet(Columns) /\ ToSet(p.columns) \subseteq ToSet(Columns)
  BY DEF IsPayload, ToSet
<1>10. \A c : Fills(p, rows, "calcite", c) <=> c \in ToSet(p.columns) \cup DOMAIN p.static
  BY DEF Fills
<1> HIDE DEF own, n, sent
<1>11. ASSUME NEW i \in 1..n, NEW c \in ToSet(Columns)
       PROVE  /\ Fills(p, rows, "calcite", c) =>
                   ValuesFor(stmts[i].set, c) = <<Due(p, rows[i], "calcite", c)>>
              /\ ~Fills(p, rows, "calcite", c) => ValuesFor(stmts[i].set, c) = <<>>
              /\ stmts[i].set # <<>> => ToSet(p.columns) \cup DOMAIN p.static # {}
  <2>1. PICK x : x = own(rows[i])
    OBVIOUS
  <2>2. PICK set : set = CompileInsert(p, x).set
    OBVIOUS
  <2>3. stmts[i].set = set /\ x[c] = OwnValue(p, rows[i], "calcite", c)
    BY <1>7, <1>8, <2>1, <2>2
  <2>4. /\ c \in DOMAIN p.static => ValuesFor(set, c) = << <<p.static[c]>> >>
        /\ c \in ToSet(p.columns) \ DOMAIN p.static => ValuesFor(set, c) = << <<x[c]>> >>
        /\ c \notin ToSet(p.columns) \cup DOMAIN p.static => ValuesFor(set, c) = <<>>
        /\ set # <<>> => ToSet(p.columns) \cup DOMAIN p.static # {}
    BY <2>2, CompiledCells
  <2> QED  BY <1>10, <2>3, <2>4 DEF Due
<1>12. ASSUME NEW c \in ToSet(Columns), Fills(p, rows, "calcite", c)
       PROVE  \E v : /\ IsPiece(WrittenTo(stmts, c), v, 0, n)
                     /\ \A i \in 1..n : v[i] = Due(p, rows[i], "calcite", c)
  <2>1. PICK v : v = [i \in 1..n |-> Due(p, rows[i], "calcite", c)]
    OBVIOUS
  <2>2. PICK cut : cut = [b \in 0..n |-> b]
    OBVIOUS
  <2>3. cut[0] = 0 /\ cut[n] = n /\ \A b \in 0..n : cut[b] \in Nat
    BY <1>5, <2>2
  <2>4. ASSUME NEW b \in 1..n
        PROVE  /\ cut[b - 1] <= cut[b]
               /\ IsPiece(ValuesFor(stmts[b].set, c), v, cut[b - 1], cut[b] - cut[b - 1])
    <3>1. cut[b - 1] = b - 1 /\ cut[b] = b /\ cut[b] - cut[b - 1] = 1 /\ cut[b - 1] <= cut[b]
      BY <1>5, <2>2
    <3>2. PICK s : s = <<Due(p, rows[b], "calcite", c)>> /\ s = ValuesFor(stmts[b].set, c)
      BY <1>11, <1>12
    <3>3. IsPiece(s, v, b - 1, 1)
      <4>1. s = [j \in 1..1 |-> s[j]] /\ s[1] = v[b]
        BY <2>1, <3>2
      <4>2. \A j \in 1..1 : s[j] = v[(b - 1) + j]
        BY <1>5, <4>1
      <4> QED  BY <4>1, <4>2 DEF IsPiece
    <3> QED  BY <3>1, <3>2, <3>3
  <2>5. IsPiece(WrittenTo(stmts, c), v, 0, cut[n])
    BY <1>5, <1>6, <2>3, <2>4, WrittenPieces
  <2>6. IsPiece(WrittenTo(stmts, c), v, 0, n)
    BY <2>3, <2>5
  <2>7. \A i \in 1..n : v[i] = Due(p, rows[i], "calcite", c)
    BY <2>1
  <2> QED  BY <2>6, <2>7
<1>13. ASSUME NEW c \in ToSet(Columns), ~Fills(p, rows, "calcite", c)
       PROVE  WrittenTo(stmts, c) = <<>>
  BY <1>5, <1>6, <1>11, <1>13, WrittenNone
<1>14. EachRowOnce(stmts, p, rows, "calcite")
  BY <1>12, <1>13, OnceEach DEF n
<1>15. \E m \in Nat \ {0} : stmts = [b \in 1..m |-> stmts[b]]
  BY <1>5, <1>6
<1>16. ASSUME NEW b \in DOMAIN stmts, Accepted(stmts[b])
       PROVE  \E c \in ToSet(Columns) : Fills(p, rows, "calcite", c)
  <2>1. b \in 1..n
    BY <1>6
  <2>2. stmts[b].op # "DELETE"
    <3>1. \A x : CompileInsert(p, x).op # "DELETE"
      BY CompileInsertFacts DEF PlainInsert, IsInsert
    <3> QED  BY <1>7, <2>1, <3>1
  <2>3. stmts[b].set # <<>>
    BY <1>16, <2>2 DEF Accepted
  <2>4. ToSet(p.columns) \cup DOMAIN p.static # {}
    <3>1. PICK set : set = CompileInsert(p, own(rows[b])).set
      OBVIOUS
    <3>2. set # <<>> => ToSet(p.columns) \cup DOMAIN p.static # {}
      BY <3>1, CompiledCells
    <3> QED  BY <1>7, <2>1, <2>3, <3>1, <3>2
  <2>5. PICK c : c \in ToSet(p.columns) \cup DOMAIN p.static
    BY <2>4
  <2> QED  BY <1>9, <1>10, <2>5
<1> QED  BY <1>4, <1>14, <1>15, <1>16 DEF SentRows

-----------------------------------------------------------------------------
(* The invariant of the rows.                                            *)

\* The statements of this attempt and path are all that took effect.
AtOnce(r, L) == \A i \in DOMAIN L : L[i].attempt = r.attempt /\ L[i].path = r.path

\* They are the first ones of the plan, in its order.
Followed(r, L) ==
    /\ r.next = Len(L) + 1
    /\ \A i \in DOMAIN L : /\ i <= Len(r.plan.stmts)
                           /\ L[i].stmt = r.plan.stmts[i] /\ Accepted(L[i].stmt)

\* An execution on a path, or through with it.
Under(r) == r.pc \in {"send", "query", "done"} /\ r.path # "none"

\* An execution r with the statements L that took effect.
LoggedOK(r, L) ==
    /\ IsList(L)
    /\ r.pc # "idle" =>
          /\ IsList(r.rows) /\ r.attempt \in Nat
          /\ \A i \in DOMAIN L : L[i].attempt \in Nat /\ L[i].attempt <= r.attempt
          /\ r.pc = "compile" \/ r.path = "calcite" => Len(r.rows) > 0
    /\ r.pc \in {"fk", "route", "compile"} =>
          r.path = "none" /\ \A i \in DOMAIN L : L[i].attempt # r.attempt
    /\ r.pc = "query" => r.plan.ok /\ r.next <= Len(r.plan.stmts)
    /\ Under(r) =>
          /\ r.path = "calcite" => \A i \in DOMAIN L : L[i].attempt = r.attempt => L[i].path = "calcite"
          /\ AtOnce(r, L) => Followed(r, L)
          /\ r.pc = "done" => r.plan.ok /\ ~(r.next <= Len(r.plan.stmts))

\* The plan of an INSERT writes each row once.
PlansRows(plan, p, rows, path) ==
    plan.ok /\ PlainInsert(p) /\ ~(path = "manual" /\ HasRowDrivenWhere(p, rows))
        => SentRows(plan.stmts, p, rows, path)

WritesOK(r, p) == Under(r) => PlansRows(r.plan, p, r.rows, r.path)

\* The inductive invariant of the rows.
RowInv ==
    /\ PlanInv
    /\ DOMAIN log = Writer
    /\ \A w \in Writer : /\ LoggedOK(writer[w], log[w])
                         /\ writer[w].pc # "idle" => WritesOK(writer[w], payload[writer[w].node])

\* What execute rewrites in a payload does not change what an INSERT is to write.
LEMMA SentLater ==
    ASSUME NEW p, NEW q, Rewritten(p, q), PlainInsert(p), NEW stmts, NEW rows, NEW path,
           SentRows(stmts, p, rows, path)
    PROVE  SentRows(stmts, q, rows, path)
<1>1. q.columns = p.columns /\ q.aliases = p.aliases /\ DOMAIN q.static = DOMAIN p.static
  BY DEF Rewritten, PlainInsert
<1>2. \A c, row : ResolveColumnValue(c, row, q) = ResolveColumnValue(c, row, p)
  BY <1>1 DEF ResolveColumnValue
<1>3. \A c : Fills(q, rows, path, c) <=> Fills(p, rows, path, c)
  BY <1>1, <1>2 DEF Fills
<1>4. \A c, row : OwnValue(q, row, path, c) = OwnValue(p, row, path, c)
  BY <1>2 DEF OwnValue, RowOrNull
<1>5. EachRowOnce(stmts, q, rows, path)
  BY <1>1, <1>3, <1>4 DEF EachRowOnce, SentRows
<1> QED  BY <1>3, <1>5 DEF SentRows

\* So an execution's plan stays right while others rewrite the payload.
LEMMA WritesLater ==
    ASSUME NEW p, NEW q, Rewritten(p, q), NEW r, WritesOK(r, p)
    PROVE  WritesOK(r, q)
<1>1. PlainInsert(q) => PlainInsert(p)
  BY DEF Rewritten, PlainInsert
<1>2. HasRowDrivenWhere(p, r.rows) => HasRowDrivenWhere(q, r.rows)
  BY DEF Rewritten, HasRowDrivenWhere
<1>3. ASSUME Under(r), r.plan.ok, PlainInsert(q), ~(r.path = "manual" /\ HasRowDrivenWhere(q, r.rows))
      PROVE  SentRows(r.plan.stmts, q, r.rows, r.path)
  <2>1. SentRows(r.plan.stmts, p, r.rows, r.path)
    BY <1>1, <1>2, <1>3 DEF WritesOK, PlansRows
  <2> QED  BY <1>1, <1>3, <2>1, SentLater
<1> QED  BY <1>3 DEF WritesOK, PlansRows

\* What the invariant says of one execution.
LEMMA OwnRows ==
    ASSUME RowInv, NEW w \in Writer
    PROVE  /\ DOMAIN writer[w] = WriterFields /\ DOMAIN writer = Writer
           /\ LoggedOK(writer[w], log[w])
           /\ writer[w].pc # "idle" => WritesOK(writer[w], P(w)) /\ IsPayload(P(w))
<1>1. PlanInv
  BY DEF RowInv
<1> QED  BY <1>1, OwnPlan DEF RowInv, P

\* The log of one execution alone.
OnlyLog(w, L) ==
    /\ DOMAIN log' = Writer /\ log'[w] = L
    /\ \A v \in Writer \ {w} : log'[v] = log[v]

\* A step that logs nothing.
LEMMA SameLog ==
    ASSUME RowInv, NEW w \in Writer, UNCHANGED log
    PROVE  OnlyLog(w, log[w])
BY DEF RowInv, OnlyLog

\* A step of one execution that leaves the payloads alone.
LEMMA RowStepKept ==
    ASSUME RowInv, PlanInv', NEW w \in Writer, NEW new, writer' = [writer EXCEPT ![w] = new],
           UNCHANGED payload, NEW L, OnlyLog(w, L), LoggedOK(new, L),
           new.pc # "idle" => WritesOK(new, payload[new.node])
    PROVE  RowInv'
<1>1. ASSUME NEW v \in Writer
      PROVE  /\ LoggedOK(writer'[v], log'[v])
             /\ writer'[v].pc # "idle" => WritesOK(writer'[v], payload'[writer'[v].node])
  <2>1. DOMAIN writer = Writer
    BY OwnRows
  <2>2. CASE v = w
    <3>1. writer'[v] = new /\ log'[v] = L
      BY <2>1, <2>2 DEF OnlyLog
    <3> QED  BY <3>1
  <2>3. CASE v # w
    <3>1. writer'[v] = writer[v] /\ log'[v] = log[v]
      BY <2>1, <2>3 DEF OnlyLog
    <3> QED  BY <3>1 DEF RowInv
  <2> QED  BY <2>2, <2>3
<1>2. DOMAIN log' = Writer
  BY DEF OnlyLog
<1> QED  BY <1>1, <1>2 DEF RowInv

\* An execution that fails.
LEMMA RowFails ==
    ASSUME RowInv, PlanInv', NEW w \in Writer, writer[w].pc # "idle",
           NEW new, writer' = [writer EXCEPT ![w] = new], UNCHANGED <<payload, log>>,
           new.pc = "failed", new.rows = writer[w].rows, new.attempt = writer[w].attempt,
           new.path = writer[w].path
    PROVE  RowInv'
<1>1. LoggedOK(writer[w], log[w])
  BY OwnRows
<1>2. LoggedOK(new, log[w])
  BY <1>1 DEF LoggedOK, Under
<1>3. WritesOK(new, payload[new.node])
  BY DEF WritesOK, Under
<1>4. OnlyLog(w, log[w])
  BY SameLog
<1> QED  BY <1>2, <1>3, <1>4, RowStepKept

\* Fail.
LEMMA RowFail ==
    ASSUME RowInv, PlanInv', NEW w \in Writer, writer[w].pc # "idle", Fail(w),
           UNCHANGED <<payload, log>>
    PROVE  RowInv'
<1> DEFINE new == [writer[w] EXCEPT !.pc = "failed", !.held = 0]
<1>1. writer' = [writer EXCEPT ![w] = new]
  BY DEF Fail, Become
<1>2. DOMAIN writer[w] = WriterFields
  BY OwnRows
<1>3. /\ new.pc = "failed" /\ new.rows = writer[w].rows /\ new.attempt = writer[w].attempt
      /\ new.path = writer[w].path
  BY <1>2 DEF WriterFields
<1> HIDE DEF new
<1> QED  BY <1>1, <1>3, RowFails

\* An execution that goes on along its path, or before one.
LEMMA RowGoesOn ==
    ASSUME RowInv, PlanInv', NEW w \in Writer,
           NEW new, writer' = [writer EXCEPT ![w] = new], UNCHANGED <<payload, log>>,
           new.node = writer[w].node, new.rows = writer[w].rows, new.plan = writer[w].plan,
           new.path = writer[w].path, new.next = writer[w].next, new.attempt = writer[w].attempt,
           \/ new.pc = "route" /\ writer[w].pc = "fk"
           \/ new.pc = "done" /\ writer[w].pc = "route"
           \/ new.pc = "send" /\ writer[w].pc = "send"
           \/ new.pc = "query" /\ writer[w].pc = "send" /\ writer[w].plan.ok /\ HasNext(w)
           \/ new.pc = "done" /\ writer[w].pc = "send" /\ writer[w].plan.ok /\ ~HasNext(w)
    PROVE  RowInv'
<1>1. LoggedOK(writer[w], log[w]) /\ WritesOK(writer[w], P(w))
  BY OwnRows
<1>2. AtOnce(new, log[w]) <=> AtOnce(writer[w], log[w])
  BY DEF AtOnce
<1>3. Followed(new, log[w]) <=> Followed(writer[w], log[w])
  BY DEF Followed
<1>4. LoggedOK(new, log[w])
  BY <1>1, <1>2, <1>3 DEF LoggedOK, Under, HasNext
<1>5. WritesOK(new, P(w))
  BY <1>1 DEF WritesOK, Under, LoggedOK
<1>6. WritesOK(new, payload[new.node])
  BY <1>5 DEF P
<1>7. OnlyLog(w, log[w])
  BY SameLog
<1> QED  BY <1>4, <1>6, <1>7, RowStepKept

\* A path is taken: nothing of this attempt has been sent along it.
LEMMA RowTakes ==
    ASSUME RowInv, PlanInv', NEW w \in Writer, writer[w].pc # "idle",
           NEW new, writer' = [writer EXCEPT ![w] = new], UNCHANGED <<payload, log>>,
           new.pc = "send", new.next = 1, new.node = writer[w].node,
           new.attempt = writer[w].attempt, IsList(new.rows),
           new.path \in {"cursor", "calcite", "manual"},
           new.path = "calcite" => Len(new.rows) > 0,
           \A i \in DOMAIN log[w] : log[w][i].attempt = new.attempt =>
               log[w][i].path # new.path /\ new.path # "calcite",
           PlansRows(new.plan, P(w), new.rows, new.path)
    PROVE  RowInv'
<1>1. LoggedOK(writer[w], log[w])
  BY OwnRows
<1>2. ASSUME AtOnce(new, log[w]) PROVE Followed(new, log[w])
  <2>1. Len(log[w]) \in Nat /\ DOMAIN log[w] = 1..Len(log[w])
    BY <1>1, ListFacts DEF LoggedOK
  <2>2. \A i \in DOMAIN log[w] : FALSE
    BY <1>2 DEF AtOnce
  <2>3. Len(log[w]) = 0
    BY <2>1, <2>2
  <2> QED  BY <2>2, <2>3 DEF Followed
<1>3. LoggedOK(new, log[w])
  BY <1>1, <1>2 DEF LoggedOK, Under
<1>4. WritesOK(new, payload[new.node])
  BY DEF WritesOK, P
<1>5. OnlyLog(w, log[w])
  BY SameLog
<1> QED  BY <1>3, <1>4, <1>5, RowStepKept

-----------------------------------------------------------------------------
(* The steps, for the rows.                                              *)

\* Begin, with the log of its earlier attempts.
LEMMA RowBegin ==
    ASSUME RowInv, PlanInv', NEW w \in Writer, NEW n \in Node, NEW rows, IsList(rows), NEW up,
           NEW attempt \in Nat, Begin(w, n, rows, up, attempt), NEW L, OnlyLog(w, L), IsList(L),
           \A i \in DOMAIN L : L[i].attempt \in Nat /\ L[i].attempt < attempt
    PROVE  RowInv'
<1> DEFINE new == [writer[w] EXCEPT !.pc = "fk", !.node = n, !.rows = rows, !.up = up,
                        !.plan = Throw, !.mode = payload[n].mode, !.path = "none",
                        !.next = 1, !.by = "none", !.attempt = attempt]
           bad == [new EXCEPT !.pc = "failed"]
<1>1. DOMAIN writer[w] = WriterFields /\ DOMAIN writer = Writer
  BY OwnRows
<1>2. /\ DOMAIN new = WriterFields
      /\ new.pc = "fk" /\ new.rows = rows /\ new.node = n /\ new.path = "none" /\ new.attempt = attempt
  <2>1. PICK m : m = payload[n].mode
    OBVIOUS
  <2>2. PICK x : x = writer[w] /\ DOMAIN x = WriterFields
    BY <1>1
  <2>3. PICK y : y = [x EXCEPT !.pc = "fk", !.node = n, !.rows = rows, !.up = up, !.plan = Throw]
    OBVIOUS
  <2>4. DOMAIN y = WriterFields /\ y.pc = "fk" /\ y.rows = rows /\ y.node = n
    BY <2>2, <2>3 DEF WriterFields
  <2>5. new = [y EXCEPT !.mode = m, !.path = "none", !.next = 1, !.by = "none", !.attempt = attempt]
    BY <2>1, <2>2, <2>3
  <2> HIDE DEF new
  <2>6. /\ DOMAIN new = WriterFields
        /\ new.pc = y.pc /\ new.rows = y.rows /\ new.node = y.node
        /\ new.path = "none" /\ new.attempt = attempt
    BY <2>4, <2>5 DEF WriterFields
  <2> QED  BY <2>4, <2>6
<1> HIDE DEF new
<1>3. bad.pc = "failed" /\ bad.rows = rows /\ bad.path = "none" /\ bad.attempt = attempt
  BY <1>2 DEF WriterFields
<1> HIDE DEF bad
<1>4. \/ writer' = [writer EXCEPT ![w] = bad] /\ UNCHANGED payload
      \/ /\ writer' = [writer EXCEPT ![w] = new]
         /\ \E q \in {SoftDeleted(Stripped(payload[n])), SoftDeleted(Stripped(Resolved(payload[n], up)))} :
                payload' = [payload EXCEPT ![n] = q]
  BY DEF Begin, Become, new, bad
<1>5. \A i \in DOMAIN L : L[i].attempt \in Nat /\ L[i].attempt <= attempt /\ L[i].attempt # attempt
  OBVIOUS
<1>6. CASE writer' = [writer EXCEPT ![w] = bad] /\ UNCHANGED payload
  <2>1. LoggedOK(bad, L)
    BY <1>3, <1>5 DEF LoggedOK, Under
  <2>2. WritesOK(bad, payload[bad.node])
    BY <1>3 DEF WritesOK, Under
  <2> QED  BY <1>6, <2>1, <2>2, RowStepKept
<1>7. CASE /\ writer' = [writer EXCEPT ![w] = new]
           /\ \E q \in {SoftDeleted(Stripped(payload[n])), SoftDeleted(Stripped(Resolved(payload[n], up)))} :
                  payload' = [payload EXCEPT ![n] = q]
  <2>1. IsPayload(payload[n]) /\ DOMAIN payload = Node
    BY DEF RowInv, PlanInv, PoolInv, PayloadsOK
  <2>2. PICK q : payload' = [payload EXCEPT ![n] = q] /\ Rewritten(payload[n], q)
    BY <1>7, <2>1, RewrittenPayload
  <2>3. payload'[n] = q /\ \A m \in Node \ {n} : payload'[m] = payload[m]
    BY <2>1, <2>2
  <2>4. LoggedOK(new, L)
    BY <1>2, <1>5 DEF LoggedOK, Under
  <2>5. WritesOK(new, payload'[new.node])
    BY <1>2 DEF WritesOK, Under
  <2>6. ASSUME NEW v \in Writer
        PROVE  /\ LoggedOK(writer'[v], log'[v])
               /\ writer'[v].pc # "idle" => WritesOK(writer'[v], payload'[writer'[v].node])
    <3>1. CASE v = w
      <4>1. writer'[v] = new /\ log'[v] = L
        BY <1>1, <1>7, <3>1 DEF OnlyLog
      <4> QED  BY <2>4, <2>5, <4>1
    <3>2. CASE v # w
      <4>1. writer'[v] = writer[v] /\ log'[v] = log[v]
        BY <1>1, <1>7, <3>2 DEF OnlyLog
      <4>2. LoggedOK(writer[v], log[v])
        BY OwnRows
      <4>3. ASSUME writer[v].pc # "idle" PROVE WritesOK(writer[v], payload'[writer[v].node])
        <5>1. writer[v].node \in Node /\ WritesOK(writer[v], payload[writer[v].node])
          BY <4>3, OwnPlan DEF RowInv
        <5>2. CASE writer[v].node = n
          BY <2>2, <2>3, <5>1, <5>2, WritesLater
        <5>3. CASE writer[v].node # n
          BY <2>3, <5>1, <5>3
        <5> QED  BY <5>2, <5>3
      <4> QED  BY <4>1, <4>2, <4>3
    <3> QED  BY <3>1, <3>2
  <2>7. DOMAIN log' = Writer
    BY DEF OnlyLog
  <2> QED  BY <2>6, <2>7 DEF RowInv
<1> QED  BY <1>4, <1>6, <1>7

\* Run, from the choice of the path.
LEMMA RowRuns ==
    ASSUME RowInv, PlanInv', NEW w \in Writer, writer[w].pc \in {"route", "compile"},
           NEW path \in {"cursor", "calcite", "manual"}, NEW rows, IsList(rows), NEW plan, NEW by,
           Run(w, path, rows, plan, by), path = "calcite" => Len(rows) > 0,
           PlansRows(plan, P(w), rows, path), UNCHANGED <<payload, log>>
    PROVE  RowInv'
<1> DEFINE new == [writer[w] EXCEPT !.pc = "send", !.path = path, !.rows = rows,
                                    !.plan = plan, !.next = 1, !.by = by]
<1>1. DOMAIN writer[w] = WriterFields /\ LoggedOK(writer[w], log[w])
  BY OwnRows
<1>2. writer' = [writer EXCEPT ![w] = new]
  BY DEF Run, Become
<1>3. /\ new.pc = "send" /\ new.path = path /\ new.rows = rows /\ new.plan = plan /\ new.next = 1
      /\ new.node = writer[w].node /\ new.attempt = writer[w].attempt
  BY <1>1 DEF WriterFields
<1> HIDE DEF new
<1>4. \A i \in DOMAIN log[w] : log[w][i].attempt # new.attempt
  BY <1>1, <1>3 DEF LoggedOK
<1> QED  BY <1>2, <1>3, <1>4, RowTakes

\* The manual path and the compiled one write each row of an INSERT once; the
\* cursor path throws for one.
LEMMA PathsPlanRows ==
    ASSUME NEW p, IsPayload(p), NEW rows, IsList(rows)
    PROVE  /\ Len(rows) > 0 => PlansRows(ManualStatements(p, rows), p, rows, "manual")
           /\ Len(rows) > 0 => PlansRows(CalciteStatements(p, rows), p, rows, "calcite")
           /\ \A ids : PlansRows(CursorStatement(p, ids), p, rows, "cursor")
<1>1. IsRows(rows)
  BY ListFacts DEF IsRows
<1>2. ASSUME NEW ids, PlainInsert(p) PROVE ~CursorStatement(p, ids).ok
  <2>1. p.mode # "delete" /\ p.mode # "update"
    BY <1>2 DEF PlainInsert
  <2>2. CursorStatement(p, ids) = Throw
    BY <2>1, Zenon DEF CursorStatement
  <2> QED  BY <2>2 DEF Throw
<1>3. \A ids : PlansRows(CursorStatement(p, ids), p, rows, "cursor")
  BY <1>2 DEF PlansRows
<1>4. Len(rows) > 0 => PlansRows(ManualStatements(p, rows), p, rows, "manual")
  BY <1>1, ManualInsert DEF PlansRows
<1>5. Len(rows) > 0 => PlansRows(CalciteStatements(p, rows), p, rows, "calcite")
  BY <1>1, CalciteInsert DEF PlansRows
<1> QED  BY <1>3, <1>4, <1>5

\* The steps before a path and into one.
LEMMA RowPrepare ==
    ASSUME RowInv, PlanInv', NEW w \in Writer,
           \/ FKValid(w) \/ FKViolation(w) \/ RouteCursor(w) \/ RouteRows(w)
           \/ Compiled(w) \/ NotCompiled(w)
    PROVE  RowInv'
<1>1. DOMAIN writer[w] = WriterFields /\ LoggedOK(writer[w], log[w])
  BY OwnRows
<1>2. CASE FKValid(w)
  <2> DEFINE new == [writer[w] EXCEPT !.pc = "route"]
  <2>1. writer[w].pc = "fk" /\ writer' = [writer EXCEPT ![w] = new] /\ UNCHANGED <<payload, log>>
    BY <1>2 DEF FKValid, Become
  <2>2. /\ new.pc = "route" /\ new.node = writer[w].node /\ new.rows = writer[w].rows
        /\ new.plan = writer[w].plan /\ new.path = writer[w].path
        /\ new.next = writer[w].next /\ new.attempt = writer[w].attempt
    BY <1>1 DEF WriterFields
  <2> HIDE DEF new
  <2> QED  BY <2>1, <2>2, RowGoesOn
<1>3. CASE FKViolation(w)
  <2>1. writer[w].pc = "fk" /\ Fail(w) /\ UNCHANGED <<payload, log>>
    BY <1>3 DEF FKViolation
  <2> QED  BY <2>1, RowFail
<1>4. ASSUME writer[w].pc \in {"route", "compile"} PROVE IsPayload(P(w)) /\ IsList(writer[w].rows)
  BY <1>1, <1>4, OwnRows DEF LoggedOK
<1>5. CASE RouteCursor(w)
  <2>1. /\ writer[w].pc = "route" /\ UNCHANGED <<payload, log>>
        /\ \/ Fail(w)
           \/ Run(w, "cursor", writer[w].rows, CursorStatement(P(w), cursor.ids), cursor.from)
    BY <1>5 DEF RouteCursor
  <2>2. CASE Fail(w)
    BY <2>1, <2>2, RowFail
  <2>3. CASE Run(w, "cursor", writer[w].rows, CursorStatement(P(w), cursor.ids), cursor.from)
    <3>1. PICK plan : plan = CursorStatement(P(w), cursor.ids)
      OBVIOUS
    <3>2. PlansRows(plan, P(w), writer[w].rows, "cursor")
      BY <1>4, <2>1, <3>1, PathsPlanRows
    <3>3. Run(w, "cursor", writer[w].rows, plan, cursor.from)
      BY <2>3, <3>1
    <3> QED  BY <1>4, <2>1, <3>2, <3>3, RowRuns
  <2> QED  BY <2>1, <2>2, <2>3
<1>6. CASE RouteRows(w)
  <2>1. writer[w].pc = "route" /\ UNCHANGED <<payload, log>>
    BY <1>6 DEF RouteRows
  <2>2. PICK rows : rows = RowsToWrite(P(w), writer[w].rows)
    OBVIOUS
  <2>3. IsList(rows)
    <3>1. rows = writer[w].rows \/ rows = << <<>> >>
      BY <2>2 DEF RowsToWrite
    <3>2. IsList(<< <<>> >>)
      BY DEF IsList, ToSet
    <3> QED  BY <1>4, <2>1, <3>1, <3>2
  <2> DEFINE done == [writer[w] EXCEPT !.pc = "done"]
             comp == [writer[w] EXCEPT !.pc = "compile", !.rows = rows]
  <2>4. \/ writer' = [writer EXCEPT ![w] = done]
        \/ rows # <<>> /\ writer' = [writer EXCEPT ![w] = comp]
        \/ rows # <<>> /\ Run(w, "manual", rows, ManualStatements(P(w), rows), "none")
    BY <1>6, <2>2 DEF RouteRows, Become
  <2>5. /\ done.pc = "done" /\ done.node = writer[w].node /\ done.rows = writer[w].rows
        /\ done.plan = writer[w].plan /\ done.path = writer[w].path
        /\ done.next = writer[w].next /\ done.attempt = writer[w].attempt
    BY <1>1 DEF WriterFields
  <2>6. /\ comp.pc = "compile" /\ comp.rows = rows /\ comp.path = writer[w].path
        /\ comp.attempt = writer[w].attempt
    BY <1>1 DEF WriterFields
  <2> HIDE DEF done, comp
  <2>7. rows # <<>> => Len(rows) > 0
    BY <2>3 DEF IsList
  <2>8. CASE writer' = [writer EXCEPT ![w] = done]
    BY <2>1, <2>5, <2>8, RowGoesOn
  <2>9. CASE rows # <<>> /\ writer' = [writer EXCEPT ![w] = comp]
    <3>1. LoggedOK(comp, log[w])
      BY <1>1, <2>1, <2>3, <2>6, <2>7, <2>9 DEF LoggedOK, Under
    <3>2. WritesOK(comp, payload[comp.node])
      BY <2>6 DEF WritesOK, Under
    <3>3. OnlyLog(w, log[w])
      BY <2>1, SameLog
    <3> QED  BY <2>1, <2>9, <3>1, <3>2, <3>3, RowStepKept
  <2>10. CASE rows # <<>> /\ Run(w, "manual", rows, ManualStatements(P(w), rows), "none")
    <3>1. PICK plan : plan = ManualStatements(P(w), rows)
      OBVIOUS
    <3>2. PlansRows(plan, P(w), rows, "manual")
      BY <1>4, <2>1, <2>3, <2>7, <2>10, <3>1, PathsPlanRows
    <3>3. Run(w, "manual", rows, plan, "none")
      BY <2>10, <3>1
    <3> QED  BY <2>1, <2>3, <3>2, <3>3, RowRuns
  <2> QED  BY <2>4, <2>8, <2>9, <2>10
<1>7. ASSUME writer[w].pc = "compile" PROVE Len(writer[w].rows) > 0
  BY <1>1, <1>7 DEF LoggedOK
<1>8. CASE Compiled(w)
  <2>1. PICK plan : plan = CalciteStatements(P(w), writer[w].rows)
    OBVIOUS
  <2>2. /\ writer[w].pc = "compile" /\ UNCHANGED <<payload, log>>
        /\ Run(w, "calcite", writer[w].rows, plan, "none")
    BY <1>8, <2>1 DEF Compiled
  <2>3. PlansRows(plan, P(w), writer[w].rows, "calcite")
    BY <1>4, <1>7, <2>1, <2>2, PathsPlanRows
  <2> QED  BY <1>4, <1>7, <2>2, <2>3, RowRuns
<1>9. CASE NotCompiled(w)
  <2>1. PICK plan : plan = ManualStatements(P(w), writer[w].rows)
    OBVIOUS
  <2>2. /\ writer[w].pc = "compile" /\ UNCHANGED <<payload, log>>
        /\ Run(w, "manual", writer[w].rows, plan, "none")
    BY <1>9, <2>1 DEF NotCompiled
  <2>3. PlansRows(plan, P(w), writer[w].rows, "manual")
    BY <1>4, <1>7, <2>1, <2>2, PathsPlanRows
  <2> QED  BY <1>4, <2>2, <2>3, RowRuns
<1> QED  BY <1>2, <1>3, <1>5, <1>6, <1>8, <1>9

\* An element put behind any list.
LEMMA AppendedList ==
    ASSUME NEW l, IsList(l), NEW e
    PROVE  LET L == Append(l, e)
           IN  /\ IsList(L) /\ Len(l) \in Nat /\ Len(L) = Len(l) + 1
               /\ DOMAIN l = 1..Len(l) /\ DOMAIN L = 1..Len(l) + 1
               /\ (\A i \in 1..Len(l) : L[i] = l[i]) /\ L[Len(l) + 1] = e
<1>1. PICK T : T = ToSet(l) \cup {e}
  OBVIOUS
<1>2. l \in Seq(T) /\ e \in T
  <2>1. l \in Seq(ToSet(l)) /\ ToSet(l) \subseteq T
    BY <1>1 DEF IsList
  <2> QED  BY <1>1, <2>1
<1>3. PICK L : L = Append(l, e)
  OBVIOUS
<1>4. L \in Seq(T) /\ Len(L) = Len(l) + 1 /\ Len(l) \in Nat /\ DOMAIN l = 1..Len(l)
  BY <1>2, <1>3
<1>5. L[Len(l) + 1] = e /\ \A i \in 1..Len(l) : L[i] = l[i]
  BY <1>2, <1>3, Appended
<1>6. L = [i \in 1..Len(L) |-> L[i]] /\ DOMAIN L = 1..Len(L)
  BY <1>4
<1>7. IsList(L)
  BY <1>4, <1>6, ListOf
<1> QED  BY <1>3, <1>4, <1>5, <1>6, <1>7

\* A statement takes effect: the log follows the plan one step further.
LEMMA RowQueryOk ==
    ASSUME RowInv, PlanInv', NEW w \in Writer, QueryOk(w)
    PROVE  RowInv'
<1> DEFINE new == [writer[w] EXCEPT !.pc = "send", !.next = @ + 1]
<1>1. /\ DOMAIN writer[w] = WriterFields /\ LoggedOK(writer[w], log[w])
      /\ DOMAIN log = Writer /\ writer[w].pc = "query"
  BY OwnRows DEF RowInv, QueryOk
<1>2. WritesOK(writer[w], P(w))
  BY <1>1, OwnRows
<1>3. PICK s : s = writer[w].plan.stmts[writer[w].next]
  OBVIOUS
<1>4. PICK e : e = [path |-> writer[w].path, attempt |-> writer[w].attempt,
                    row |-> writer[w].next, stmt |-> s]
  OBVIOUS
<1>5. e.path = writer[w].path /\ e.attempt = writer[w].attempt /\ e.stmt = s
  BY <1>4
<1>6. PICK L : L = Append(log[w], e)
  OBVIOUS
<1>7. /\ Accepted(s) /\ log' = [log EXCEPT ![w] = L]
      /\ writer' = [writer EXCEPT ![w] = new] /\ UNCHANGED payload
  <2> HIDE DEF new
  <2>1. Accepted(s) /\ log' = [log EXCEPT ![w] = L] /\ UNCHANGED payload
    BY <1>3, <1>4, <1>6 DEF QueryOk
  <2>2. writer' = [writer EXCEPT ![w] = new]
    BY DEF QueryOk, Become, new
  <2> QED  BY <2>1, <2>2
<1>8. OnlyLog(w, L)
  BY <1>1, <1>7 DEF OnlyLog
<1>9. /\ new.pc = "send" /\ new.next = writer[w].next + 1 /\ new.node = writer[w].node
      /\ new.rows = writer[w].rows /\ new.plan = writer[w].plan /\ new.path = writer[w].path
      /\ new.attempt = writer[w].attempt
  BY <1>1 DEF WriterFields
<1> HIDE DEF new
<1>10. /\ IsList(log[w]) /\ IsList(writer[w].rows) /\ writer[w].attempt \in Nat
       /\ \A i \in DOMAIN log[w] : log[w][i].attempt \in Nat /\ log[w][i].attempt <= writer[w].attempt
       /\ writer[w].path = "calcite" => Len(writer[w].rows) > 0
       /\ writer[w].next <= Len(writer[w].plan.stmts)
  BY <1>1 DEF LoggedOK
<1>11. PICK n \in Nat : n = Len(log[w])
  BY <1>10, ListFacts
<1>12. /\ IsList(L) /\ Len(L) = n + 1 /\ DOMAIN log[w] = 1..n /\ DOMAIN L = 1..n + 1
       /\ (\A i \in 1..n : L[i] = log[w][i]) /\ L[n + 1] = e
  <2>1. PICK l : l = log[w]
    OBVIOUS
  <2>2. /\ IsList(Append(l, e)) /\ Len(Append(l, e)) = Len(l) + 1
        /\ DOMAIN l = 1..Len(l) /\ DOMAIN Append(l, e) = 1..Len(l) + 1
        /\ (\A i \in 1..Len(l) : Append(l, e)[i] = l[i]) /\ Append(l, e)[Len(l) + 1] = e
    BY <1>10, <2>1, AppendedList
  <2>3. L = Append(l, e) /\ Len(l) = n
    BY <1>6, <1>11, <2>1
  <2> QED  BY <2>1, <2>2, <2>3
<1>13. \A i \in DOMAIN L : \/ i \in DOMAIN log[w] /\ L[i] = log[w][i]
                           \/ i = n + 1 /\ L[i] = e
  BY <1>12
<1>14. ASSUME Under(new)
       PROVE  /\ Under(writer[w])
              /\ new.path = "calcite" => \A i \in DOMAIN L : L[i].attempt = new.attempt => L[i].path = "calcite"
              /\ AtOnce(new, L) => Followed(new, L)
  <2>1. Under(writer[w])
    BY <1>1, <1>9, <1>14 DEF Under
  <2>2. new.path = "calcite" => \A i \in DOMAIN L : L[i].attempt = new.attempt => L[i].path = "calcite"
    BY <1>1, <1>5, <1>9, <1>13, <2>1 DEF LoggedOK
  <2>3. ASSUME AtOnce(new, L) PROVE Followed(new, L)
    <3>1. AtOnce(writer[w], log[w])
      BY <1>9, <1>12, <2>3 DEF AtOnce
    <3>2. Followed(writer[w], log[w])
      BY <1>1, <2>1, <3>1 DEF LoggedOK
    <3>3. writer[w].next = n + 1
      BY <1>11, <3>2 DEF Followed
    <3>4. new.next = Len(L) + 1
      BY <1>9, <1>12, <3>3
    <3>5. ASSUME NEW i \in DOMAIN L
          PROVE  /\ i <= Len(new.plan.stmts)
                 /\ L[i].stmt = new.plan.stmts[i] /\ Accepted(L[i].stmt)
      <4>1. CASE i \in DOMAIN log[w] /\ L[i] = log[w][i]
        BY <1>9, <3>2, <4>1 DEF Followed
      <4>2. CASE i = n + 1 /\ L[i] = e
        BY <1>3, <1>5, <1>7, <1>9, <1>10, <3>3, <4>2
      <4> QED  BY <1>13, <4>1, <4>2
    <3> QED  BY <3>4, <3>5 DEF Followed
  <2> QED  BY <2>1, <2>2, <2>3
<1>15. \A i \in DOMAIN L : L[i].attempt \in Nat /\ L[i].attempt <= new.attempt
  BY <1>5, <1>9, <1>10, <1>13
<1>16. LoggedOK(new, L)
  BY <1>9, <1>10, <1>12, <1>14, <1>15 DEF LoggedOK
<1>17. WritesOK(new, P(w))
  BY <1>2, <1>9, <1>14 DEF WritesOK
<1>18. WritesOK(new, payload[new.node])
  BY <1>9, <1>17 DEF P
<1> QED  BY <1>7, <1>8, <1>16, <1>18, RowStepKept

\* The other steps of sending.
LEMMA RowSending ==
    ASSUME RowInv, PlanInv', NEW w \in Writer,
           Connect(w) \/ ThrowEarly(w) \/ Acquire(w) \/ QueryError(w) \/ Sent(w)
    PROVE  RowInv'
<1>1. DOMAIN writer[w] = WriterFields /\ LoggedOK(writer[w], log[w])
  BY OwnRows
<1>2. CASE ThrowEarly(w)
  <2>1. writer[w].pc = "send" /\ Fail(w) /\ UNCHANGED <<payload, log>>
    BY <1>2 DEF ThrowEarly, InTransaction
  <2> QED  BY <2>1, RowFail
<1>3. CASE Connect(w)
  <2> DEFINE new == [writer[w] EXCEPT !.held = @ + 1]
  <2>1. writer' = [writer EXCEPT ![w] = new] /\ writer[w].pc = "send" /\ UNCHANGED <<payload, log>>
    BY <1>3 DEF Connect, Become
  <2>2. /\ new.pc = "send" /\ new.node = writer[w].node /\ new.rows = writer[w].rows
        /\ new.plan = writer[w].plan /\ new.path = writer[w].path
        /\ new.next = writer[w].next /\ new.attempt = writer[w].attempt
    BY <1>1, <2>1 DEF WriterFields
  <2> HIDE DEF new
  <2> QED  BY <2>1, <2>2, RowGoesOn
<1>4. CASE Acquire(w)
  <2> DEFINE new == [writer[w] EXCEPT !.pc = "query"]
  <2>1. /\ writer' = [writer EXCEPT ![w] = new] /\ writer[w].pc = "send"
        /\ writer[w].plan.ok /\ HasNext(w) /\ UNCHANGED <<payload, log>>
    BY <1>4 DEF Acquire, InTransaction, Become
  <2>2. /\ new.pc = "query" /\ new.node = writer[w].node /\ new.rows = writer[w].rows
        /\ new.plan = writer[w].plan /\ new.path = writer[w].path
        /\ new.next = writer[w].next /\ new.attempt = writer[w].attempt
    BY <1>1, <2>1 DEF WriterFields
  <2> HIDE DEF new
  <2> QED  BY <2>1, <2>2, RowGoesOn
<1>5. CASE Sent(w)
  <2> DEFINE new == [writer[w] EXCEPT !.pc = "done", !.held = 0]
  <2>1. /\ writer' = [writer EXCEPT ![w] = new] /\ writer[w].pc = "send"
        /\ writer[w].plan.ok /\ ~HasNext(w) /\ UNCHANGED <<payload, log>>
    BY <1>5 DEF Sent, InTransaction, Become
  <2>2. /\ new.pc = "done" /\ new.node = writer[w].node /\ new.rows = writer[w].rows
        /\ new.plan = writer[w].plan /\ new.path = writer[w].path
        /\ new.next = writer[w].next /\ new.attempt = writer[w].attempt
    BY <1>1, <2>1 DEF WriterFields
  <2> HIDE DEF new
  <2> QED  BY <2>1, <2>2, RowGoesOn
<1>6. CASE QueryError(w) /\ writer[w].path # "calcite"
  <2> DEFINE new == [writer[w] EXCEPT !.pc = "failed", !.held = 0]
  <2>1. /\ writer' = [writer EXCEPT ![w] = new] /\ writer[w].pc # "idle"
        /\ UNCHANGED <<payload, log>>
    BY <1>6 DEF QueryError, Become
  <2>2. /\ new.pc = "failed" /\ new.rows = writer[w].rows /\ new.attempt = writer[w].attempt
        /\ new.path = writer[w].path
    BY <1>1 DEF WriterFields
  <2> HIDE DEF new
  <2> QED  BY <2>1, <2>2, RowFails
<1>7. CASE QueryError(w) /\ writer[w].path = "calcite"
  <2>1. PICK plan : plan = ManualStatements(P(w), writer[w].rows)
    OBVIOUS
  <2> DEFINE new == [writer[w] EXCEPT !.pc = "send", !.path = "manual", !.next = 1, !.plan = plan]
  <2>2. /\ writer[w].pc = "query" /\ writer' = [writer EXCEPT ![w] = new]
        /\ UNCHANGED <<payload, log>>
    BY <1>7, <2>1 DEF QueryError, Become
  <2>3. /\ new.pc = "send" /\ new.node = writer[w].node /\ new.rows = writer[w].rows
        /\ new.plan = plan /\ new.path = "manual" /\ new.next = 1 /\ new.attempt = writer[w].attempt
    BY <1>1 DEF WriterFields
  <2> HIDE DEF new
  <2>4. IsPayload(P(w)) /\ Under(writer[w])
    BY <1>7, <2>2, OwnRows DEF Under
  <2>5. IsList(writer[w].rows) /\ Len(writer[w].rows) > 0
    BY <1>1, <1>7, <2>2 DEF LoggedOK
  <2>6. PlansRows(plan, P(w), writer[w].rows, "manual")
    BY <2>1, <2>4, <2>5, PathsPlanRows
  <2>7. \A i \in DOMAIN log[w] : log[w][i].attempt = new.attempt => log[w][i].path # "manual"
    BY <1>1, <1>7, <2>3, <2>4 DEF LoggedOK
  <2> QED  BY <2>2, <2>3, <2>5, <2>6, <2>7, RowTakes
<1> QED  BY <1>2, <1>3, <1>4, <1>5, <1>6, <1>7

\* The steps that end an execution.
LEMMA RowEnd ==
    ASSUME RowInv, PlanInv', NEW w \in Writer, FinishOk(w) \/ FinishFailed(w) \/ QueryEnds(w)
    PROVE  RowInv'
<1>1. DOMAIN writer[w] = WriterFields /\ LoggedOK(writer[w], log[w])
  BY OwnRows
<1>2. PICK n : /\ UNCHANGED <<payload, log>>
               /\ \/ writer' = [writer EXCEPT ![w] = [Idle EXCEPT !.runs = n]]
                  \/ /\ writer[w].pc = "idle"
                     /\ writer' = [writer EXCEPT ![w] = [writer[w] EXCEPT !.runs = n]]
  BY DEF FinishOk, FinishFailed, QueryEnds, Become
<1>3. PICK new : writer' = [writer EXCEPT ![w] = new] /\ new.pc = "idle"
  <2>1. [Idle EXCEPT !.runs = n].pc = "idle"
    BY DEF Idle
  <2>2. writer[w].pc = "idle" => [writer[w] EXCEPT !.runs = n].pc = "idle"
    BY <1>1 DEF WriterFields
  <2> QED  BY <1>2, <2>1, <2>2
<1>4. LoggedOK(new, log[w])
  BY <1>1, <1>3 DEF LoggedOK, Under
<1>5. OnlyLog(w, log[w])
  BY <1>2, SameLog
<1> QED  BY <1>2, <1>3, <1>4, <1>5, RowStepKept

\* Every step keeps the invariant.
LEMMA RowStep ==
    ASSUME RowInv, [Next]_vars
    PROVE  RowInv'
<1>1. PlanInv'
  BY PlanStep DEF RowInv
<1>2. DOMAIN log = Writer
  BY DEF RowInv
<1>3. ASSUME NEW w \in Writer, Start(w) PROVE RowInv'
  <2>1. PICK n \in Node, rows \in InputRows, up \in Upstream : Begin(w, n, rows, up, 1)
    BY <1>3 DEF Start
  <2>2. IsList(rows)
    BY WriteAssumption DEF IsList
  <2>3. OnlyLog(w, <<>>)
    BY <1>2, <1>3 DEF Start, OnlyLog
  <2>4. IsList(<<>>) /\ DOMAIN <<>> = {}
    BY DEF IsList
  <2>5. PICK one \in Nat : one = 1
    OBVIOUS
  <2>6. Begin(w, n, rows, up, one)
    BY <2>1, <2>5
  <2> QED  BY <1>1, <2>2, <2>3, <2>4, <2>6, RowBegin
<1>4. ASSUME NEW w \in Writer, Retry(w) PROVE RowInv'
  <2>1. /\ writer[w].pc = "failed" /\ UNCHANGED log
        /\ Begin(w, writer[w].node, writer[w].rows, writer[w].up, writer[w].attempt + 1)
    BY <1>4 DEF Retry
  <2>2. LoggedOK(writer[w], log[w])
    BY OwnRows
  <2>3. /\ IsList(log[w]) /\ IsList(writer[w].rows) /\ writer[w].attempt \in Nat
        /\ \A i \in DOMAIN log[w] : log[w][i].attempt \in Nat /\ log[w][i].attempt <= writer[w].attempt
    BY <2>1, <2>2 DEF LoggedOK
  <2>4. writer[w].node \in Node
    BY <2>1, OwnPlan DEF RowInv
  <2>5. PICK k \in Nat : k = writer[w].attempt + 1
    BY <2>3
  <2>6. \A i \in DOMAIN log[w] : log[w][i].attempt \in Nat /\ log[w][i].attempt < k
    BY <2>3, <2>5
  <2>7. OnlyLog(w, log[w])
    BY <2>1, SameLog
  <2>8. Begin(w, writer[w].node, writer[w].rows, writer[w].up, k)
    BY <2>1, <2>5
  <2> QED  BY <1>1, <2>3, <2>4, <2>6, <2>7, <2>8, RowBegin
<1>5. ASSUME NEW w \in Writer, QueryEnds(w) PROVE RowInv'
  BY <1>1, <1>5, RowEnd
<1>6. ASSUME NEW w \in Writer, Step(w) PROVE RowInv'
  BY <1>1, <1>6, RowPrepare, RowSending, RowQueryOk, RowEnd DEF Step
<1>7. CASE UNCHANGED <<payload, writer, log>>
  <2>1. \A w \in Writer : /\ LoggedOK(writer[w], log[w])'
                          /\ (writer[w].pc # "idle" => WritesOK(writer[w], payload[writer[w].node]))'
    BY <1>7 DEF RowInv
  <2> QED  BY <1>1, <1>2, <1>7, <2>1 DEF RowInv
<1>8. CASE CursorExpires
  BY <1>7, <1>8 DEF CursorExpires
<1>9. CASE UNCHANGED vars
  BY <1>7, <1>9 DEF vars
<1> QED  BY <1>3, <1>4, <1>5, <1>6, <1>8, <1>9 DEF Next

\* At the start nothing is logged.
LEMMA RowInit ==
    ASSUME Init
    PROVE  RowInv
<1>1. PlanInv
  BY PlanInit
<1>2. \A w \in Writer : writer[w].pc = "idle" /\ log[w] = <<>>
  BY DEF Init, Idle
<1>3. IsList(<<>>)
  BY DEF IsList
<1>4. \A w \in Writer : LoggedOK(writer[w], log[w])
  BY <1>2, <1>3 DEF LoggedOK, Under
<1>5. DOMAIN log = Writer
  BY DEF Init
<1> QED  BY <1>1, <1>2, <1>4, <1>5 DEF RowInv

\* An INSERT that has not fallen back and was not retried has sent, in its order,
\* a prefix of a plan that writes each row once.
THEOREM RowInvariance == Spec => []RowInv
<1>1. Init => RowInv
  BY RowInit
<1>2. RowInv /\ [Next]_vars => RowInv'
  BY RowStep
<1> QED  BY <1>1, <1>2, PTL DEF Spec

\* For every payload, every input, every batch size and every interleaving: an
\* INSERT that reports success after one attempt without a fallback has written
\* every input row exactly once, each column with its literal or the row's value.
THEOREM RowsAreWrittenOnce == Spec => []EveryRowOnce
<1>1. ASSUME RowInv, NEW w \in Writer, InsertedAtOnce(w),
             NEW stmts, stmts = [i \in DOMAIN log[w] |-> log[w][i].stmt]
      PROVE  /\ EachRowOnce(stmts, P(w), writer[w].rows, writer[w].path)
             /\ \E c \in ToSet(Columns) : Fills(P(w), writer[w].rows, writer[w].path, c)
  <2>1. /\ Under(writer[w]) /\ writer[w].pc = "done" /\ PlainInsert(P(w))
        /\ ~(writer[w].path = "manual" /\ HasRowDrivenWhere(P(w), writer[w].rows))
        /\ AtOnce(writer[w], log[w])
    BY <1>1 DEF InsertedAtOnce, Under, PlainInsert, AtOnce
  <2>2. LoggedOK(writer[w], log[w]) /\ WritesOK(writer[w], P(w))
    BY <1>1, <2>1, OwnRows
  <2>3. PICK plan : plan = writer[w].plan.stmts
    OBVIOUS
  <2>4. /\ Followed(writer[w], log[w]) /\ writer[w].plan.ok
        /\ ~(writer[w].next <= Len(plan)) /\ IsList(log[w])
    BY <2>1, <2>2, <2>3 DEF LoggedOK
  <2>5. SentRows(plan, P(w), writer[w].rows, writer[w].path)
    BY <2>1, <2>2, <2>3, <2>4 DEF WritesOK, PlansRows
  <2>6. PICK m \in Nat \ {0} : plan = [b \in 1..m |-> plan[b]]
    BY <2>5 DEF SentRows
  <2>7. Len(plan) = m /\ DOMAIN plan = 1..m
    BY <2>6, ListOf
  <2>8. PICK n \in Nat : n = Len(log[w]) /\ DOMAIN log[w] = 1..n
    BY <2>4, ListFacts
  <2>9. writer[w].next = n + 1 /\ \A i \in 1..n : /\ i <= m
                                                  /\ log[w][i].stmt = plan[i] /\ Accepted(log[w][i].stmt)
    BY <2>3, <2>4, <2>7, <2>8 DEF Followed
  <2>10. n = m
    <3>1. n + 1 > m
      BY <2>4, <2>7, <2>9
    <3>2. n >= 1 => n <= m
      BY <2>8, <2>9
    <3> QED  BY <3>1, <3>2
  <2>11. stmts = plan
    BY <1>1, <2>6, <2>8, <2>9, <2>10
  <2>12. 1 \in DOMAIN plan /\ Accepted(plan[1])
    BY <2>7, <2>9, <2>10
  <2> QED  BY <2>5, <2>11, <2>12 DEF SentRows
<1>2. RowInv => EveryRowOnce
  BY <1>1 DEF EveryRowOnce
<1> QED  BY <1>2, RowInvariance, PTL
=============================================================================
